-------------------------------- MODULE Policy -------------------------------
(***************************************************************************)
(* Who sees whom: the visibility policy, its rules, and the store that     *)
(* operators replace it in over HTTP, guarded by entity tags.              *)
(*                                                                         *)
(* A tag is a sequence of symbols, a pattern the text of one and whether a *)
(* star follows it; a policy is the set of its rules.  The hash in an      *)
(* entity tag is taken to tell policies apart.                             *)
(***************************************************************************)
EXTENDS Naturals, Sequences

CONSTANTS
  Symbol,       \* what tags are written with
  NetPrefix,    \* TAG_NET_PREFIX, how the tag of a tenant's network begins
  System,       \* TAG_SYSTEM
  Tenants,      \* tags of tenants' networks
  Documents,    \* the policies that operators and policy files hold
  Operators,    \* who uses the policy API
  HasToken,     \* is MESH_ADMIN_TOKEN set?
  Unread,       \* what an operator holds that has not read the policy
  MaxRequests   \* bound: requests and restarts

Tag == Seq(Symbol)
Pattern == [text : Tag, star : BOOLEAN]
AclRule == [action : {"accept", "other"}, src : SUBSET Pattern, dst : SUBSET Pattern]

StartsWith(s, prefix) == Len(prefix) <= Len(s) /\ \A i \in 1..Len(prefix) : s[i] = prefix[i]

ASSUME TagAssumption ==
  /\ NetPrefix \in Tag /\ System \in Tag
  /\ \A t \in Tenants : t \in Tag /\ StartsWith(t, NetPrefix)
ASSUME DocumentAssumption ==
  \A d \in Documents : \A r \in d : r \in AclRule
ASSUME OperatorAssumption == HasToken \in BOOLEAN /\ MaxRequests \in Nat

-----------------------------------------------------------------------------
(* The rules.                                                              *)

\* The pattern that also matches a peer without tags.
AnyTag == [text |-> <<>>, star |-> TRUE]

TagMatches(p, tag) == IF p.star THEN StartsWith(tag, p.text) ELSE p.text = tag

TagsMatchAny(patterns, tags) ==
  \E p \in patterns : p = AnyTag \/ \E t \in tags : TagMatches(p, t)

AllowsDirected(policy, src, dst) ==
  \E r \in policy : r.action = "accept" /\ TagsMatchAny(r.src, src) /\ TagsMatchAny(r.dst, dst)

CanSee(policy, a, b) == AllowsDirected(policy, a, b) \/ AllowsDirected(policy, b, a)

\* Variant: only the star alone and tenant patterns are refused, not what is shorter.
GlobOfNetworksOnly(p) == p = AnyTag \/ (p.star /\ StartsWith(p.text, NetPrefix))

\* A source pattern that could match the networks of several tenants.
IsCrossTenantGlobSource(p) ==
  p = AnyTag \/ (p.star /\ (StartsWith(NetPrefix, p.text) \/ StartsWith(p.text, NetPrefix)))

Validate(policy) == \A r \in policy : \A p \in r.src : ~IsCrossTenantGlobSource(p)

Bootstrap ==
  LET own == {[text |-> System, star |-> FALSE]}
  IN {[action |-> "accept", src |-> own, dst |-> own]}

-----------------------------------------------------------------------------
(* The store, the API and its callers.                                     *)

VARIABLES
  store,     \* the policy in force and its entity tag
  nonce,     \* the process-wide counter in entity tags
  operator,  \* operator -> the policy and entity tag it was last given, or Unread
  putting,   \* operators whose request has installed a policy and is not done
  shown,     \* the policy the streams were last brought up to date with
  held,      \* operators whose entity tag is of this process
  behind,    \* those of them who have been overtaken by a replacement
  requests   \* requests and restarts so far

policyVars == <<store, nonce, operator, putting, shown, held, behind, requests>>

\* Variant: the same policy always has the same tag.
TagOfContent(policy, n) == [policy |-> policy, n |-> 0]

\* etag_for: a hash of the policy and a nonce, here the two of them.
EtagFor(policy, n) == [policy |-> policy, n |-> n]

\* PolicyStore::new.
NewStore(policy) == [policy |-> policy, etag |-> EtagFor(policy, 0)]

\* What a coordinator may start with: the policy of its file, or the built-in one.
StartPolicy(policy) == policy = Bootstrap \/ (policy \in Documents /\ Validate(policy))

PolicyInit ==
  /\ \E policy \in Documents \cup {Bootstrap} : StartPolicy(policy) /\ store = NewStore(policy)
  /\ nonce = 1 /\ operator = [o \in Operators |-> Unread]
  /\ putting = {} /\ shown = store.policy /\ held = {} /\ behind = {} /\ requests = 0

Request == requests < MaxRequests /\ requests' = requests + 1

\* check_admin_bearer: without a token the API is closed to everyone.
Authorized == HasToken

\* get_policy_handler.
Get(o) ==
  /\ Request /\ Authorized
  /\ operator' = [operator EXCEPT ![o] = store]
  /\ held' = held \cup {o} /\ behind' = behind \ {o}
  /\ UNCHANGED <<store, nonce, putting, shown>>

\* PolicyStore::replace, under the write lock.
Replace(o, policy) ==
  /\ Validate(policy)
  /\ store.etag = operator[o].etag
  /\ store' = [policy |-> policy, etag |-> EtagFor(policy, nonce)]
  /\ nonce' = nonce + 1

\* Variant: the streams are brought up to date before the policy is replaced.
PutAfterResync(o, policy) ==
  /\ Request /\ Authorized /\ o \notin putting
  /\ operator[o] # Unread
  /\ Replace(o, policy)
  /\ operator' = [operator EXCEPT ![o] = store']
  /\ held' = held \cup {o} /\ behind' = held \ {o}
  /\ shown' = store.policy
  /\ UNCHANGED putting

\* put_policy_handler, up to the new policy; the errors 401, 412, 422 and 428
\* change nothing.
Put(o, policy) ==
  /\ Request /\ Authorized /\ o \notin putting
  /\ operator[o] # Unread
  /\ Replace(o, policy)
  /\ operator' = [operator EXCEPT ![o] = store']
  /\ held' = held \cup {o} /\ behind' = held \ {o}
  /\ putting' = putting \cup {o}
  /\ UNCHANGED shown

\* ... and resync_all_peers: the streams filter its events by the policy of the moment.
Resync(o) ==
  /\ o \in putting
  /\ putting' = putting \ {o} /\ shown' = store.policy
  /\ UNCHANGED <<store, nonce, operator, held, behind, requests>>

\* The coordinator stops and starts with what its policy file now holds: nothing
\* that was put is kept, and the counter starts over.
Restart(policy) ==
  /\ Request /\ StartPolicy(policy)
  /\ store' = NewStore(policy) /\ nonce' = 1
  /\ putting' = {} /\ shown' = policy /\ held' = {} /\ behind' = {}
  /\ UNCHANGED operator

PolicyNext ==
  \/ \E o \in Operators : Get(o) \/ Resync(o) \/ \E d \in Documents : Put(o, d)
  \/ \E d \in Documents \cup {Bootstrap} : Restart(d)

PolicySpec == PolicyInit /\ [][PolicyNext]_policyVars

-----------------------------------------------------------------------------
\* Two tenants see each other only where a rule names one of their networks as a
\* source: no pattern that the validation lets through reaches across networks
\* (Policy::validate, PolicyStore::replace, PolicyStore::load_from_file).
TenantsApart ==
  \A t, u \in Tenants : t # u /\ CanSee(store.policy, {t}, {u}) =>
    \E r \in store.policy : \E p \in r.src : ~p.star /\ p.text \in {t, u}

\* Who replaces the policy replaces what it has read, and no one has replaced it in
\* between, not even by the same policy; with an entity tag of an earlier process,
\* the policy is still the one that was read (PolicyStore::replace, etag_for).
UpdatesSeen ==
  [][nonce' > nonce => \E o \in Operators \ behind :
       operator'[o] = store' /\ operator[o] # Unread /\ operator[o].policy = store.policy]_policyVars

\* Once no replacement is under way, the streams have been brought up to date
\* with the policy in force (put_policy_handler, resync_all_peers).
Announced == putting = {} => shown = store.policy
=============================================================================
