------------------------- MODULE CoordinatorProofs --------------------------
(***************************************************************************)
(* What the coordinator enforces, arranges and shows.                      *)
(*                                                                         *)
(* The policies it can come to enforce keep tenants apart: what is         *)
(* installed was validated; a validated wildcard source and the prefix of  *)
(* tenants' tags do not agree on any tag, because two prefixes of one tag  *)
(* are prefixes of each other; so only a rule that names a tenant's        *)
(* network has it as a source.  Replacements see what they replace, and    *)
(* are announced.                                                          *)
(*                                                                         *)
(* The punches of a pair are spaced, whichever handlers race for it.       *)
(*                                                                         *)
(* What becomes of the paths that machines report.                         *)
(***************************************************************************)
EXTENDS Policy, Pairing, Topology, TLAPS

(* Module Policy.                                                          *)

\* Of two prefixes of one text, one is a prefix of the other.
LEMMA PrefixesComparable ==
  ASSUME NEW s \in Tag, NEW p \in Tag, NEW q \in Tag, StartsWith(s, p), StartsWith(s, q)
  PROVE  StartsWith(p, q) \/ StartsWith(q, p)
<1>1. Len(p) \in Nat /\ Len(q) \in Nat /\ Len(s) \in Nat
  BY DEF Tag
<1>2. CASE Len(p) <= Len(q)
  BY <1>1, <1>2 DEF StartsWith
<1>3. CASE Len(q) <= Len(p)
  BY <1>1, <1>3 DEF StartsWith
<1> QED BY <1>1, <1>2, <1>3

\* What is enforced: a policy whose patterns are well formed and validated.
Sound(policy) ==
  /\ \A r \in policy : \A p \in r.src : p \in Pattern
  /\ Validate(policy)

\* A validated source that matches a tenant's network names it.
LEMMA SourceNamesTenant ==
  ASSUME NEW p \in Pattern, NEW t \in Tenants, ~IsCrossTenantGlobSource(p),
         p = AnyTag \/ TagMatches(p, t)
  PROVE  ~p.star /\ p.text = t
<1>1. p # AnyTag /\ TagMatches(p, t)
  BY Zenon DEF IsCrossTenantGlobSource
<1>2. p.text \in Tag /\ p.star \in BOOLEAN
  BY Zenon DEF Pattern
<1>3. t \in Tag /\ NetPrefix \in Tag /\ StartsWith(t, NetPrefix)
  BY Zenon, TagAssumption
<1>4. ~p.star
  <2>1. SUFFICES ASSUME p.star PROVE FALSE
    BY Zenon
  <2>2. StartsWith(t, p.text)
    BY Zenon, <1>1, <2>1 DEF TagMatches
  <2>3. StartsWith(NetPrefix, p.text) \/ StartsWith(p.text, NetPrefix)
    BY Zenon, <1>2, <1>3, <2>2, PrefixesComparable
  <2> QED BY Zenon, <2>1, <2>3 DEF IsCrossTenantGlobSource
<1> QED BY Zenon, <1>1, <1>4 DEF TagMatches

\* ... so that a directed edge from one tenant needs a rule that names it.
LEMMA EdgeNamesSource ==
  ASSUME NEW policy, Sound(policy), NEW t \in Tenants, NEW dst, AllowsDirected(policy, {t}, dst)
  PROVE  \E r \in policy : \E p \in r.src : ~p.star /\ p.text = t
<1>1. PICK r \in policy : TagsMatchAny(r.src, {t})
  BY Zenon DEF AllowsDirected
<1>2. PICK p \in r.src : p = AnyTag \/ TagMatches(p, t)
  BY Zenon, <1>1 DEF TagsMatchAny
<1>3. p \in Pattern /\ ~IsCrossTenantGlobSource(p)
  BY Zenon, <1>1, <1>2 DEF Sound, Validate
<1>4. ~p.star /\ p.text = t
  BY Zenon, <1>2, <1>3, SourceNamesTenant
<1> QED BY Zenon, <1>1, <1>2, <1>4

\* A policy that the coordinator starts with is sound.
LEMMA StartSound ==
  ASSUME NEW policy, StartPolicy(policy)
  PROVE  Sound(policy)
<1>1. CASE policy \in Documents /\ Validate(policy)
  BY Zenon, <1>1, DocumentAssumption DEF Sound, AclRule
<1>2. CASE policy = Bootstrap
  <2>1. [text |-> System, star |-> FALSE] \in Pattern
    BY Zenon, TagAssumption DEF Pattern
  <2>2. [text |-> System, star |-> FALSE] # AnyTag
    BY Zenon DEF AnyTag
  <2>3. ~IsCrossTenantGlobSource([text |-> System, star |-> FALSE])
    BY Zenon, <2>2 DEF IsCrossTenantGlobSource
  <2>4. \A r \in policy : r.src = {[text |-> System, star |-> FALSE]}
    BY <1>2 DEF Bootstrap
  <2> QED BY Zenon, <2>1, <2>3, <2>4 DEF Sound, Validate
<1> QED BY Zenon, <1>1, <1>2 DEF StartPolicy

StoreSound == Sound(store.policy)

LEMMA StoreSoundInitially == PolicyInit => StoreSound
  BY StartSound DEF PolicyInit, NewStore, StoreSound

LEMMA StoreSoundKept == StoreSound /\ [PolicyNext]_policyVars => StoreSound'
<1> SUFFICES ASSUME StoreSound, [PolicyNext]_policyVars PROVE StoreSound'
  BY Zenon
<1>1. ASSUME NEW o \in Operators, Get(o) PROVE StoreSound'
  BY Zenon, <1>1 DEF Get, StoreSound
<1>2. ASSUME NEW o \in Operators, Resync(o) PROVE StoreSound'
  BY Zenon, <1>2 DEF Resync, StoreSound
<1>3. ASSUME NEW o \in Operators, NEW d \in Documents, Put(o, d) PROVE StoreSound'
  <2>1. Validate(d) /\ store'.policy = d
    BY Zenon, <1>3 DEF Put, Replace
  <2> QED BY Zenon, <2>1, DocumentAssumption DEF StoreSound, Sound, AclRule
<1>4. ASSUME NEW d \in Documents \cup {Bootstrap}, Restart(d) PROVE StoreSound'
  <2>1. StartPolicy(d) /\ store'.policy = d
    BY Zenon, <1>4 DEF Restart, NewStore
  <2> QED BY Zenon, <2>1, StartSound DEF StoreSound
<1>5. CASE UNCHANGED policyVars
  BY Zenon, <1>5 DEF policyVars, StoreSound
<1> QED BY Zenon, <1>1, <1>2, <1>3, <1>4, <1>5 DEF PolicyNext

LEMMA SoundKeepsApart == StoreSound => TenantsApart
<1> SUFFICES ASSUME StoreSound, NEW t \in Tenants, NEW u \in Tenants,
                    CanSee(store.policy, {t}, {u})
             PROVE  \E r \in store.policy : \E p \in r.src : ~p.star /\ p.text \in {t, u}
  BY Zenon DEF TenantsApart
<1>1. CASE AllowsDirected(store.policy, {t}, {u})
  BY <1>1, EdgeNamesSource DEF StoreSound
<1>2. CASE AllowsDirected(store.policy, {u}, {t})
  BY <1>2, EdgeNamesSource DEF StoreSound
<1> QED BY Zenon, <1>1, <1>2 DEF CanSee

\* For every set of tenants, whatever documents operators and policy files hold and
\* however often the coordinator restarts, no two tenants see each other unless a
\* rule in force names one of them (Policy::validate, PolicyStore::replace).
THEOREM TenantsStayApart == PolicySpec => []TenantsApart
<1>1. PolicySpec => []StoreSound
  BY StoreSoundInitially, StoreSoundKept, PTL DEF PolicySpec
<1> QED BY <1>1, SoundKeepsApart, PTL

-----------------------------------------------------------------------------
(* Entity tags: one names a policy, the store's is the newest of its       *)
(* process, and the tag of an operator who was overtaken is an older one.  *)

TagsOrdered ==
  /\ nonce \in Nat /\ nonce >= 1
  /\ store.etag.policy = store.policy /\ store.etag.n \in Nat /\ store.etag.n < nonce
  /\ DOMAIN operator = Operators
  /\ held \subseteq Operators /\ behind \subseteq held
  /\ \A o \in Operators : operator[o] # Unread =>
       operator[o].etag.policy = operator[o].policy /\ operator[o].etag.n \in Nat
  /\ \A o \in held : operator[o].etag.n \in Nat /\ operator[o].etag.n <= store.etag.n
  /\ \A o \in behind : operator[o].etag.n < store.etag.n

LEMMA TagsOrderedInitially == PolicyInit => TagsOrdered
  BY DEF PolicyInit, NewStore, EtagFor, TagsOrdered

LEMMA GetKeepsTags ==
  ASSUME TagsOrdered, NEW o \in Operators, Get(o)
  PROVE  TagsOrdered'
<1>1. /\ store' = store /\ nonce' = nonce
      /\ operator' = [operator EXCEPT ![o] = store]
      /\ held' = held \cup {o} /\ behind' = behind \ {o}
  BY Zenon DEF Get
<1>2. \A x \in Operators : operator'[x] = IF x = o THEN store ELSE operator[x]
  BY Zenon, <1>1 DEF TagsOrdered
<1> QED BY <1>1, <1>2 DEF TagsOrdered

LEMMA PutKeepsTags ==
  ASSUME TagsOrdered, NEW o \in Operators, NEW d \in Documents, Put(o, d)
  PROVE  TagsOrdered'
<1>1. /\ store' = [policy |-> d, etag |-> [policy |-> d, n |-> nonce]] /\ nonce' = nonce + 1
      /\ operator' = [operator EXCEPT ![o] = store']
      /\ held' = held \cup {o} /\ behind' = held \ {o}
  BY Zenon DEF Put, Replace, EtagFor
<1>2. \A x \in Operators : operator'[x] = IF x = o THEN store' ELSE operator[x]
  BY Zenon, <1>1 DEF TagsOrdered
<1>3. store'.policy = d /\ store'.etag.policy = d /\ store'.etag.n = nonce
  BY Zenon, <1>1
<1>4. \A x \in held \ {o} : operator'[x].etag.n \in Nat /\ operator'[x].etag.n < nonce
  BY <1>2 DEF TagsOrdered
<1>5. \A x \in Operators : operator'[x] # Unread =>
        operator'[x].etag.policy = operator'[x].policy /\ operator'[x].etag.n \in Nat
  BY Zenon, <1>2, <1>3 DEF TagsOrdered
<1>6. \A x \in held' : operator'[x].etag.n \in Nat /\ operator'[x].etag.n <= store'.etag.n
  BY <1>1, <1>2, <1>3, <1>4 DEF TagsOrdered
<1> QED BY <1>1, <1>3, <1>4, <1>5, <1>6 DEF TagsOrdered

LEMMA TagsOrderedKept == TagsOrdered /\ [PolicyNext]_policyVars => TagsOrdered'
<1> SUFFICES ASSUME TagsOrdered, [PolicyNext]_policyVars PROVE TagsOrdered'
  BY Zenon
<1>1. ASSUME NEW o \in Operators, Resync(o) PROVE TagsOrdered'
  BY Zenon, <1>1 DEF Resync, TagsOrdered
<1>2. ASSUME NEW d \in Documents \cup {Bootstrap}, Restart(d) PROVE TagsOrdered'
  BY <1>2 DEF Restart, NewStore, EtagFor, TagsOrdered
<1>3. CASE UNCHANGED policyVars
  BY Zenon, <1>3 DEF policyVars, TagsOrdered
<1> QED BY Zenon, <1>1, <1>2, <1>3, GetKeepsTags, PutKeepsTags DEF PolicyNext

\* A replacement under ordered tags is by an operator who has seen what it replaces.
LEMMA ReplacesWhatWasRead ==
  ASSUME TagsOrdered, NEW o \in Operators, NEW d \in Documents, Put(o, d)
  PROVE  /\ o \notin behind /\ operator'[o] = store'
         /\ operator[o] # Unread /\ operator[o].policy = store.policy
<1>1. operator[o] # Unread /\ store.etag = operator[o].etag
      /\ operator' = [operator EXCEPT ![o] = store']
  BY Zenon DEF Put, Replace
<1>2. o \notin behind
  BY <1>1 DEF TagsOrdered
<1> QED BY Zenon, <1>1, <1>2 DEF TagsOrdered

LEMMA SeenInEveryStep ==
  TagsOrdered /\ [PolicyNext]_policyVars =>
    [nonce' > nonce => \E o \in Operators \ behind :
       operator'[o] = store' /\ operator[o] # Unread /\ operator[o].policy = store.policy]_policyVars
<1> SUFFICES ASSUME TagsOrdered, PolicyNext, nonce' > nonce
             PROVE  \E o \in Operators \ behind :
                      operator'[o] = store' /\ operator[o] # Unread /\ operator[o].policy = store.policy
  BY Zenon
<1>1. nonce \in Nat /\ nonce >= 1
  BY Zenon DEF TagsOrdered
<1>2. \A o \in Operators : ~Get(o) /\ ~Resync(o)
  BY <1>1 DEF Get, Resync
<1>3. \A d : ~Restart(d)
  BY <1>1 DEF Restart
<1>4. PICK o \in Operators, d \in Documents : Put(o, d)
  BY Zenon, <1>2, <1>3 DEF PolicyNext
<1> QED BY Zenon, <1>4, ReplacesWhatWasRead

\* However many operators use the API, and however often the coordinator restarts, a
\* replacement is by someone who has read the policy it replaces, and whom nobody in
\* this process has overtaken since (PolicyStore::replace, etag_for).
THEOREM UpdatesAreSeen == PolicySpec => UpdatesSeen
<1>1. PolicySpec => []TagsOrdered
  BY TagsOrderedInitially, TagsOrderedKept, PTL DEF PolicySpec
<1> QED BY <1>1, SeenInEveryStep, PTL DEF PolicySpec, UpdatesSeen

-----------------------------------------------------------------------------
\* A replacement that is not announced yet has an operator whose request is not done; any
\* number of operators may be in between the two steps (put_policy_handler).
THEOREM PoliciesAnnounced == PolicySpec => []Announced
<1>1. PolicyInit => Announced
  BY Zenon DEF PolicyInit, Announced
<1>2. ASSUME Announced, [PolicyNext]_policyVars PROVE Announced'
  <2>1. ASSUME NEW o \in Operators, Get(o) PROVE Announced'
    BY Zenon, <1>2, <2>1 DEF Get, Announced
  <2>2. ASSUME NEW o \in Operators, Resync(o) PROVE Announced'
    BY Zenon, <2>2 DEF Resync, Announced
  <2>3. ASSUME NEW o \in Operators, NEW d \in Documents, Put(o, d) PROVE Announced'
    BY Zenon, <2>3 DEF Put, Announced
  <2>4. ASSUME NEW d \in Documents \cup {Bootstrap}, Restart(d) PROVE Announced'
    BY Zenon, <2>4 DEF Restart, NewStore, Announced
  <2>5. CASE UNCHANGED policyVars
    BY Zenon, <1>2, <2>5 DEF policyVars, Announced
  <2> QED BY Zenon, <1>2, <2>1, <2>2, <2>3, <2>4, <2>5 DEF PolicyNext
<1> QED BY <1>1, <1>2, PTL DEF PolicySpec

-----------------------------------------------------------------------------
(* Hole punching: what the tracker knows of a pair is the age of its last  *)
(* punch, and a pair it does not know was not punched within the tracker's *)
(* memory, or one of its ends is gone for good.                            *)

Handlers ==
  [at : {"collect"}, id : PeerIds]
    \cup [at : {"pair"}, id : PeerIds, todo : SUBSET PeerIds, lag : 0..MaxLag, punchable : SUBSET PeerIds]

Remembered(p) ==
  /\ pairs[p].age \in Nat /\ pairs[p].streak \in 0..Width
  /\ since[p] = Lesser(pairs[p].age, Ttl)

Unknown(p) == since[p] = Ttl \/ Departed(p)

PairingType ==
  /\ nextId \in Nat \ {0} /\ DOMAIN roster = PeerIds
  /\ \A i \in PeerIds : roster[i] # None => i < nextId
  /\ idOf \in [Nodes -> PeerIds \cup {None}]
  /\ hb \in [Nodes -> Handlers \cup {None}]
  /\ pairs \in [PunchPair -> [age : Nat, streak : 0..Width] \cup {None}]
  /\ since \in [PunchPair -> 0..Ttl]
  /\ \A i \in leaving : i \in PeerIds /\ i < nextId /\ roster[i] = None

Tracked == \A p \in PunchPair : IF pairs[p] = None THEN Unknown(p) ELSE Remembered(p)

LEMMA LesserBound ==
  ASSUME NEW x \in Nat, NEW y \in Nat
  PROVE  Lesser(x, y) \in 0..y /\ Lesser(x, y) <= x
  BY DEF Lesser

LEMMA PairingBounds ==
  /\ Base \in Nat \ {0} /\ Ttl \in Nat \ {0} /\ Width \in Nat \ {0} /\ MaxNew \in Nat \ {0}
  /\ MaxLag \in Nat /\ MaxPeers \in Nat /\ Base + MaxLag <= Ttl
  BY Zenon, SpacingAssumption

LEMMA TrackedInitially == PairingInit => PairingType /\ Tracked
<1> SUFFICES ASSUME PairingInit PROVE PairingType /\ Tracked
  BY Zenon
<1>1. PairingType
  BY PairingBounds DEF PairingInit, PairingType
<1>2. Tracked
  BY Zenon, PairingBounds DEF PairingInit, Tracked, Unknown
<1> QED BY Zenon, <1>1, <1>2

LEMMA PairingTypeKept == PairingType /\ [PairingNext]_pairingVars => PairingType'
<1> SUFFICES ASSUME PairingType, [PairingNext]_pairingVars PROVE PairingType'
  BY Zenon
<1> USE PairingBounds
<1>1. ASSUME NEW n \in Nodes, Join(n) PROVE PairingType'
  <2>1. nextId \in PeerIds
    BY <1>1 DEF Join, PeerIds, PairingType
  <2> QED BY <1>1, <2>1 DEF Join, PairingType, PeerIds
<1>2. ASSUME NEW n \in Nodes, Heartbeat(n) PROVE PairingType'
  <2>1. CASE roster[idOf[n]] = None
    BY Zenon, <1>2, <2>1 DEF Heartbeat, PairingType
  <2>2. CASE roster[idOf[n]] # None
    <3>1. idOf[n] \in PeerIds
      BY Zenon, <1>2 DEF Heartbeat, PairingType
    <3>2. [at |-> "collect", id |-> idOf[n]] \in Handlers
      BY Zenon, <3>1 DEF Handlers
    <3>3. hb' \in [Nodes -> Handlers \cup {None}]
      BY Zenon, <1>2, <2>2, <3>2 DEF Heartbeat, PairingType
    <3>4. \A i \in leaving : roster'[i] = None
      BY Zenon, <1>2, <2>2 DEF Heartbeat, PairingType
    <3> QED BY Zenon, <1>2, <2>2, <3>3, <3>4 DEF Heartbeat, PairingType
  <2> QED BY Zenon, <2>1, <2>2
<1>3. ASSUME NEW n \in Nodes, Collect(n) PROVE PairingType'
  <2> DEFINE h == hb[n]
             others == {i \in PeerIds \ {h.id} : roster[i] # None}
             job == [at |-> "pair", id |-> h.id, todo |-> others, lag |-> 0,
                     punchable |-> {i \in others \cup {h.id} : Punchable(roster[i])}]
  <2>1. h \in Handlers /\ h.id \in PeerIds
    BY Zenon, <1>3 DEF Collect, PairingType, Handlers
  <2>2. job \in Handlers
    BY <2>1 DEF Handlers
  <2>3. hb' \in {[hb EXCEPT ![n] = None], [hb EXCEPT ![n] = job]}
    BY Zenon, <1>3 DEF Collect
  <2>4. hb' \in [Nodes -> Handlers \cup {None}]
    <3> HIDE DEF job
    <3> QED BY Zenon, <2>2, <2>3 DEF PairingType
  <2>5. idOf' \in [Nodes -> PeerIds \cup {None}]
    BY Zenon, <1>3 DEF Collect, PairingType
  <2> QED BY Zenon, <1>3, <2>4, <2>5 DEF Collect, PairingType
<1>4. ASSUME NEW n \in Nodes, NEW b \in PeerIds, TryPair(n, b) PROVE PairingType'
  <2> DEFINE h == hb[n]
             p == CanonicalPair(h.id, b)
  <2>1. /\ h \in Handlers /\ h.at = "pair" /\ h.lag \in 0..MaxLag
        /\ hb' = [hb EXCEPT ![n].todo = @ \ {b}]
    BY Zenon, <1>4 DEF TryPair, PairingType, Handlers
  <2>2. [h EXCEPT !.todo = @ \ {b}] \in Handlers
    BY Zenon, <2>1 DEF Handlers
  <2>3. hb' \in [Nodes -> Handlers \cup {None}]
    BY Zenon, <2>1, <2>2 DEF PairingType
  <2>4. /\ pairs' \in [PunchPair -> [age : Nat, streak : 0..Width] \cup {None}]
        /\ since' \in [PunchPair -> 0..Ttl]
    <3>1. CASE UNCHANGED <<pairs, budget, since>>
      BY Zenon, <3>1 DEF PairingType
    <3>2. CASE Claim(p, h.lag)
      <4> DEFINE st == pairs[p]
                 claim == [age |-> h.lag, streak |-> IF st = None THEN 0 ELSE Lesser(st.streak + 1, Width)]
      <4>1. /\ pairs' \in {pairs, [pairs EXCEPT ![p] = claim]}
            /\ since' \in {since, [since EXCEPT ![p] = h.lag]}
        BY Zenon, <3>2 DEF Claim
      <4>2. p \in PunchPair /\ st # None => claim.streak \in 0..Width
        <5> SUFFICES ASSUME p \in PunchPair, st # None PROVE Lesser(st.streak + 1, Width) \in 0..Width
          BY Zenon
        <5>1. st.streak + 1 \in Nat
          BY DEF PairingType
        <5> QED BY Zenon, <5>1, LesserBound
      <4>3. p \in PunchPair => claim \in [age : Nat, streak : 0..Width]
        BY <2>1, <4>2
      <4> HIDE DEF p, claim
      <4> QED BY <2>1, <4>1, <4>3 DEF PairingType
    <3> QED BY Zenon, <1>4, <3>1, <3>2 DEF TryPair
  <2> QED BY Zenon, <1>4, <2>3, <2>4 DEF TryPair, PairingType
<1>5. ASSUME NEW n \in Nodes, Report(n) PROVE PairingType'
  <2>1. hb' = [hb EXCEPT ![n] = None]
    BY Zenon, <1>5 DEF Report
  <2>2. pairs' \in [PunchPair -> [age : Nat, streak : 0..Width] \cup {None}]
    <3>1. PICK id, targets : pairs' \in {pairs, NoteConfirmed(id, targets)}
      BY Zenon, <1>5 DEF Report
    <3>2. NoteConfirmed(id, targets) \in [PunchPair -> [age : Nat, streak : 0..Width] \cup {None}]
      BY DEF NoteConfirmed, PairingType
    <3> QED BY Zenon, <3>1, <3>2 DEF PairingType
  <2> QED BY Zenon, <1>5, <2>1, <2>2 DEF Report, PairingType
<1>6. ASSUME NEW n \in Nodes, Leave(n) PROVE PairingType'
  <2>1. idOf[n] \in PeerIds
    BY Zenon, <1>6 DEF Leave, PairingType
  <2> QED BY Zenon, <1>6, <2>1 DEF Leave, PairingType
<1>7. ASSUME NEW n \in Nodes, Move(n) PROVE PairingType'
  BY Zenon, <1>7 DEF Move, PairingType
<1>8. ASSUME NEW i \in PeerIds, Forget(i) PROVE PairingType'
  BY Zenon, <1>8 DEF Forget, PairingType
<1>9. ASSUME NEW p \in Flaggable, SetFlags(p) PROVE PairingType'
  BY Zenon, <1>9 DEF SetFlags, PairingType
<1>10. CASE Sweep
  BY Zenon, <1>10 DEF Sweep, ReapOlderThan, PairingType
<1>11. CASE SetProactive
  BY Zenon, <1>11 DEF SetProactive, PairingType
<1>12. CASE CoordinatorRestart
  <2>1. /\ DOMAIN roster' = PeerIds
        /\ \A i \in PeerIds : roster'[i] # None => roster[i] # None
    BY Zenon, <1>12 DEF CoordinatorRestart
  <2>2. /\ pairs' \in [PunchPair -> [age : Nat, streak : 0..Width] \cup {None}]
        /\ since' \in [PunchPair -> 0..Ttl]
        /\ hb' \in [Nodes -> Handlers \cup {None}]
    <3>1. /\ pairs' = [p \in PunchPair |-> None] /\ since' = [p \in PunchPair |-> Ttl]
          /\ hb' = [n \in Nodes |-> None]
      BY Zenon, <1>12 DEF CoordinatorRestart
    <3> QED BY <3>1
  <2> QED BY Zenon, <1>12, <2>1, <2>2 DEF CoordinatorRestart, PairingType
<1>13. CASE PairingTick
  <2>1. hb' \in [Nodes -> Handlers \cup {None}]
    <3>1. ASSUME NEW n \in Nodes
          PROVE  (IF hb[n] # None /\ hb[n].at = "pair" THEN [hb[n] EXCEPT !.lag = @ + 1] ELSE hb[n])
                   \in Handlers \cup {None}
      <4>1. hb[n] # None /\ hb[n].at = "pair" => hb[n].lag < MaxLag /\ hb[n] \in Handlers
        BY Zenon, <1>13 DEF PairingTick, PairingType
      <4> QED BY <4>1 DEF Handlers, PairingType
    <3> QED BY Zenon, <1>13, <3>1 DEF PairingTick
  <2>2. pairs' \in [PunchPair -> [age : Nat, streak : 0..Width] \cup {None}]
    <3>1. ASSUME NEW p \in PunchPair, pairs[p] # None
          PROVE  [pairs[p] EXCEPT !.age = Lesser(@ + 1, Ttl + MaxLag + 1)] \in [age : Nat, streak : 0..Width]
      <4>1. pairs[p] \in [age : Nat, streak : 0..Width]
        BY Zenon, <3>1 DEF PairingType
      <4>2. Lesser(pairs[p].age + 1, Ttl + MaxLag + 1) \in Nat
        BY <4>1 DEF Lesser
      <4> QED BY Zenon, <4>1, <4>2
    <3> QED BY Zenon, <1>13, <3>1 DEF PairingTick
  <2>3. since' \in [PunchPair -> 0..Ttl]
    <3>1. ASSUME NEW p \in PunchPair PROVE Lesser(since[p] + 1, Ttl) \in 0..Ttl
      <4>1. since[p] + 1 \in Nat
        BY DEF PairingType
      <4> QED BY Zenon, <4>1, LesserBound
    <3> QED BY Zenon, <1>13, <3>1 DEF PairingTick
  <2> QED BY Zenon, <1>13, <2>1, <2>2, <2>3 DEF PairingTick, PairingType, switches
<1>14. CASE UNCHANGED pairingVars
  BY Zenon, <1>14 DEF pairingVars, PairingType
<1> QED
  BY Zenon, <1>1, <1>2, <1>3, <1>4, <1>5, <1>6, <1>7, <1>8, <1>9, <1>10, <1>11, <1>12, <1>13, <1>14
  DEF PairingNext, Step

\* A pair one end of which is gone stays so: identities are not reused.
LEMMA GoneForGood ==
  ASSUME PairingType, [PairingNext]_pairingVars, NEW p \in PunchPair, Departed(p)
  PROVE  Departed(p)'
<1>1. PICK i \in {p[1], p[2]} : i < nextId /\ roster[i] = None
  BY Zenon DEF Departed
<1>2. i \in PeerIds /\ nextId \in Nat
  BY Zenon DEF PunchPair, PairingType
<1> SUFFICES nextId' >= nextId /\ nextId' \in Nat /\ roster'[i] = None
  BY <1>1, <1>2 DEF Departed, PeerIds
<1>3. ASSUME NEW n \in Nodes, Join(n) PROVE nextId' = nextId + 1 /\ roster'[i] = None
  BY <1>1, <1>2, <1>3 DEF Join, PairingType, PeerIds
<1>4. ASSUME NEW n \in Nodes, Heartbeat(n) PROVE nextId' = nextId /\ roster'[i] = None
  BY Zenon, <1>1, <1>2, <1>4 DEF Heartbeat, PairingType
<1>5. ASSUME NEW n \in Nodes, Leave(n) PROVE nextId' = nextId /\ roster'[i] = None
  BY Zenon, <1>1, <1>2, <1>5 DEF Leave, PairingType
<1>6. CASE CoordinatorRestart
  <2>1. nextId' = nextId
    BY Zenon, <1>6 DEF CoordinatorRestart
  <2>2. roster'[i] = None
    BY <1>1, <1>2, <1>6, Zenon DEF CoordinatorRestart
  <2> QED BY <1>2, <2>1, <2>2
<1>7. ASSUME NEW n \in Nodes, Collect(n) \/ (\E b \in PeerIds : TryPair(n, b)) \/ Report(n) \/ Move(n)
      PROVE  nextId' = nextId /\ roster'[i] = None
  BY Zenon, <1>1, <1>7 DEF Collect, TryPair, Report, Move
<1>8. CASE \/ \E j \in PeerIds : Forget(j)
           \/ \E q \in Flaggable : SetFlags(q)
           \/ Sweep \/ SetProactive \/ PairingTick
  BY <1>1, <1>2, <1>8 DEF Forget, SetFlags, Sweep, SetProactive, PairingTick
<1>9. CASE UNCHANGED pairingVars
  BY <1>1, <1>2, <1>9 DEF pairingVars
<1> QED
  BY <1>2, <1>3, <1>4, <1>5, <1>6, <1>7, <1>8, <1>9 DEF PairingNext, Step

\* A step that leaves the tracker and the clocks alone.
LEMMA TrackedUntouched ==
  ASSUME PairingType, Tracked, [PairingNext]_pairingVars, pairs' = pairs, since' = since
  PROVE  Tracked'
<1> SUFFICES ASSUME NEW p \in PunchPair PROVE (IF pairs[p] = None THEN Unknown(p) ELSE Remembered(p))'
  BY Zenon DEF Tracked
<1>1. CASE pairs[p] = None
  <2>1. since[p] = Ttl \/ Departed(p)
    BY Zenon, <1>1 DEF Tracked, Unknown
  <2>2. since'[p] = Ttl \/ Departed(p)'
    BY Zenon, <2>1, GoneForGood
  <2> QED BY Zenon, <1>1, <2>2 DEF Unknown
<1>2. CASE pairs[p] # None
  BY Zenon, <1>2 DEF Tracked, Remembered
<1> QED BY Zenon, <1>1, <1>2

\* An entry of the tracker is not the absence of one.
LEMMA EntryThere ==
  ASSUME NEW e \in [age : Nat, streak : 0..Width]
  PROVE  e # None
<1>1. e \in [age : Nat, streak : Nat]
  BY PairingBounds
<1> QED BY Zenon, <1>1, NodeAssumption

LEMMA ClaimTracked ==
  ASSUME PairingType, Tracked, [PairingNext]_pairingVars, NEW q, NEW lag \in 0..MaxLag,
         Claim(q, lag), PairingType'
  PROVE  Tracked'
<1> DEFINE st == pairs[q]
           may == IF st = None THEN ColdStart(lag).count < MaxNew
                  ELSE st.age - lag >= ReemitCooldown(st.streak)
           claim == [age |-> lag, streak |-> IF st = None THEN 0 ELSE Lesser(st.streak + 1, Width)]
<1>1. CASE ~may
  BY Zenon, <1>1, TrackedUntouched DEF Claim
<1>2. CASE may
  <2>1. pairs' = [pairs EXCEPT ![q] = claim] /\ since' = [since EXCEPT ![q] = lag]
    BY Zenon, <1>2 DEF Claim
  <2> SUFFICES ASSUME NEW p \in PunchPair PROVE (IF pairs[p] = None THEN Unknown(p) ELSE Remembered(p))'
    BY Zenon DEF Tracked
  <2>2. CASE p = q
    <3>1. pairs'[p] = claim /\ since'[p] = lag
      BY Zenon, <2>1, <2>2 DEF PairingType
    <3>2. claim.age = lag
      BY Zenon
    <3> HIDE DEF claim
    <3>3. lag \in Nat /\ lag <= Ttl /\ Lesser(lag, Ttl) = lag
      BY PairingBounds DEF Lesser
    <3>4. CASE pairs'[p] = None
      <4>1. pairs'[p] \in [age : Nat, streak : 0..Width]
        <5>1. st # None => st \in [age : Nat, streak : 0..Width]
          BY Zenon, <2>2 DEF PairingType
        <5>2. st # None => Lesser(st.streak + 1, Width) \in 0..Width
          <6>1. st # None => st.streak + 1 \in Nat
            BY <5>1, PairingBounds
          <6> QED BY Zenon, <6>1, PairingBounds, LesserBound
        <5> QED BY <3>1, <3>3, <5>2, PairingBounds DEF claim
      <4> QED BY Zenon, <3>4, <4>1, EntryThere
    <3>5. CASE pairs'[p] # None
      <4>1. pairs'[p].streak \in 0..Width
        BY Zenon, <3>5 DEF PairingType
      <4> QED BY Zenon, <3>1, <3>2, <3>3, <3>5, <4>1 DEF Remembered
    <3> QED BY Zenon, <3>4, <3>5
  <2>3. CASE p # q
    <3>1. pairs'[p] = pairs[p] /\ since'[p] = since[p]
      BY Zenon, <2>1, <2>3 DEF PairingType
    <3>2. pairs[p] = None => since[p] = Ttl \/ Departed(p)'
      BY Zenon, GoneForGood DEF Tracked, Unknown
    <3> QED BY Zenon, <3>1, <3>2 DEF Tracked, Remembered, Unknown
  <2> QED BY Zenon, <2>2, <2>3
<1> QED BY Zenon, <1>1, <1>2

LEMMA TrackedKept == PairingType /\ Tracked /\ [PairingNext]_pairingVars => Tracked'
<1> SUFFICES ASSUME PairingType, Tracked, [PairingNext]_pairingVars PROVE Tracked'
  BY Zenon
<1> USE PairingBounds
<1>1. PairingType'
  BY Zenon, PairingTypeKept
<1>2. ASSUME NEW n \in Nodes, NEW b \in PeerIds, TryPair(n, b) PROVE Tracked'
  <2>1. hb[n].lag \in 0..MaxLag
    BY Zenon, <1>2 DEF TryPair, PairingType, Handlers
  <2>2. CASE UNCHANGED <<pairs, budget, since>>
    BY Zenon, <2>2, TrackedUntouched
  <2>3. CASE Claim(CanonicalPair(hb[n].id, b), hb[n].lag)
    BY Zenon, <1>1, <2>1, <2>3, ClaimTracked
  <2> QED BY Zenon, <1>2, <2>2, <2>3 DEF TryPair
<1>3. ASSUME NEW n \in Nodes, Report(n) PROVE Tracked'
  <2>1. since' = since
    BY Zenon, <1>3 DEF Report
  <2>2. PICK id, targets : pairs' \in {pairs, NoteConfirmed(id, targets)}
    BY Zenon, <1>3 DEF Report
  <2>3. CASE pairs' = pairs
    BY Zenon, <2>1, <2>3, TrackedUntouched
  <2>4. CASE pairs' = NoteConfirmed(id, targets)
    <3> SUFFICES ASSUME NEW p \in PunchPair PROVE (IF pairs[p] = None THEN Unknown(p) ELSE Remembered(p))'
      BY Zenon DEF Tracked
    <3>1. CASE pairs[p] = None
      <4>1. pairs'[p] = None
        BY Zenon, <2>4, <3>1 DEF NoteConfirmed
      <4>2. since[p] = Ttl \/ Departed(p)'
        BY Zenon, <3>1, GoneForGood DEF Tracked, Unknown
      <4> QED BY Zenon, <2>1, <4>1, <4>2 DEF Unknown
    <3>2. CASE pairs[p] # None
      <4>1. pairs[p] \in [age : Nat, streak : 0..Width] /\ since[p] = Lesser(pairs[p].age, Ttl)
        BY Zenon, <3>2 DEF PairingType, Tracked, Remembered
      <4>2. pairs'[p] \in {pairs[p], [pairs[p] EXCEPT !.streak = 0]}
        BY Zenon, <2>4 DEF NoteConfirmed
      <4>3. pairs'[p] \in [age : Nat, streak : 0..Width] /\ pairs'[p].age = pairs[p].age
        BY <4>1, <4>2
      <4>4. pairs'[p] # None
        BY Zenon, <4>3, EntryThere
      <4> QED BY Zenon, <2>1, <4>1, <4>3, <4>4 DEF Remembered
    <3> QED BY Zenon, <3>1, <3>2
  <2> QED BY Zenon, <2>2, <2>3, <2>4
<1>4. ASSUME NEW i \in PeerIds, Forget(i) PROVE Tracked'
  <2>1. /\ since' = since /\ roster' = roster /\ nextId' = nextId
        /\ pairs' = [p \in PunchPair |-> IF i \in {p[1], p[2]} THEN None ELSE pairs[p]]
    BY Zenon, <1>4 DEF Forget
  <2>2. i < nextId /\ roster[i] = None
    BY Zenon, <1>4 DEF Forget, PairingType
  <2> SUFFICES ASSUME NEW p \in PunchPair PROVE (IF pairs[p] = None THEN Unknown(p) ELSE Remembered(p))'
    BY Zenon DEF Tracked
  <2>3. CASE i \in {p[1], p[2]}
    BY Zenon, <2>1, <2>2, <2>3 DEF Unknown, Departed
  <2>4. CASE i \notin {p[1], p[2]}
    BY Zenon, <2>1, <2>4 DEF Tracked, Remembered, Unknown, Departed
  <2> QED BY Zenon, <2>3, <2>4
<1>5. CASE Sweep
  <2>1. /\ since' = since /\ roster' = roster /\ nextId' = nextId
        /\ pairs' = [p \in PunchPair |-> IF pairs[p] # None /\ pairs[p].age > Ttl THEN None ELSE pairs[p]]
    BY Zenon, <1>5 DEF Sweep, ReapOlderThan
  <2> SUFFICES ASSUME NEW p \in PunchPair PROVE (IF pairs[p] = None THEN Unknown(p) ELSE Remembered(p))'
    BY Zenon DEF Tracked
  <2>2. CASE pairs[p] # None /\ pairs[p].age > Ttl
    <3>1. since[p] = Ttl
      BY <2>2 DEF Tracked, Remembered, Lesser
    <3> QED BY Zenon, <2>1, <2>2, <3>1 DEF Unknown
  <2>3. CASE ~(pairs[p] # None /\ pairs[p].age > Ttl)
    BY Zenon, <2>1, <2>3 DEF Tracked, Remembered, Unknown, Departed
  <2> QED BY Zenon, <2>2, <2>3
<1>6. CASE CoordinatorRestart
  <2>1. \A p \in PunchPair : pairs'[p] = None /\ since'[p] = Ttl
    BY Zenon, <1>6 DEF CoordinatorRestart
  <2> QED BY Zenon, <2>1 DEF Tracked, Unknown
<1>7. CASE PairingTick
  <2>1. /\ roster' = roster /\ nextId' = nextId
        /\ pairs' = [p \in PunchPair |-> IF pairs[p] = None THEN None
                       ELSE [pairs[p] EXCEPT !.age = Lesser(@ + 1, Ttl + MaxLag + 1)]]
        /\ since' = [p \in PunchPair |-> Lesser(since[p] + 1, Ttl)]
    BY Zenon, <1>7 DEF PairingTick
  <2> SUFFICES ASSUME NEW p \in PunchPair PROVE (IF pairs[p] = None THEN Unknown(p) ELSE Remembered(p))'
    BY Zenon DEF Tracked
  <2>2. CASE pairs[p] = None
    <3>1. pairs'[p] = None /\ since'[p] = Lesser(since[p] + 1, Ttl)
      BY Zenon, <2>1, <2>2
    <3>2. since[p] = Ttl => since'[p] = Ttl
      BY <3>1 DEF Lesser
    <3> QED BY Zenon, <2>1, <2>2, <3>1, <3>2 DEF Tracked, Unknown, Departed
  <2>3. CASE pairs[p] # None
    <3>1. pairs[p] \in [age : Nat, streak : 0..Width] /\ since[p] = Lesser(pairs[p].age, Ttl)
      BY Zenon, <2>3 DEF PairingType, Tracked, Remembered
    <3>2. /\ pairs'[p] = [pairs[p] EXCEPT !.age = Lesser(@ + 1, Ttl + MaxLag + 1)]
          /\ since'[p] = Lesser(since[p] + 1, Ttl)
      BY Zenon, <2>1, <2>3
    <3>3. pairs'[p].age = Lesser(pairs[p].age + 1, Ttl + MaxLag + 1) /\ pairs'[p].streak = pairs[p].streak
      BY Zenon, <3>1, <3>2
    <3>4. pairs'[p].age \in Nat /\ since'[p] = Lesser(pairs'[p].age, Ttl)
      BY <3>1, <3>2, <3>3 DEF Lesser
    <3>5. pairs'[p] # None
      <4>1. pairs'[p] \in [age : Nat, streak : 0..Width]
        BY Zenon, <3>1, <3>2, <3>3, <3>4
      <4> QED BY Zenon, <4>1, EntryThere
    <3> QED BY Zenon, <3>1, <3>3, <3>4, <3>5 DEF Remembered
  <2> QED BY Zenon, <2>2, <2>3
<1>8. CASE \/ \E n \in Nodes : Join(n) \/ Heartbeat(n) \/ Collect(n) \/ Leave(n) \/ Move(n)
           \/ \E p \in Flaggable : SetFlags(p)
           \/ SetProactive \/ UNCHANGED pairingVars
  <2>1. pairs' = pairs /\ since' = since
    BY Zenon, <1>8 DEF Join, Heartbeat, Collect, Leave, Move, SetFlags, SetProactive, pairingVars
  <2> QED BY Zenon, <2>1, TrackedUntouched
<1> QED BY Zenon, <1>2, <1>3, <1>4, <1>5, <1>6, <1>7, <1>8 DEF PairingNext, Step

\* Only a claim winds a pair's clock back.
LEMMA ClaimSpaced ==
  ASSUME PairingType, Tracked, NEW p \in PunchPair, NEW q, NEW lag \in 0..MaxLag, Claim(q, lag),
         since'[p] < since[p], Registered(p), pairs[p] # None => ReemitCooldown(pairs[p].streak) > 0
  PROVE  since[p] - since'[p] >= Base
<1> USE PairingBounds
<1>1. since[p] \in 0..Ttl
  BY Zenon DEF PairingType
<1>2. p = q /\ since' = [since EXCEPT ![q] = lag]
  <2>1. since' # since
    BY <1>1
  <2>2. since' = [since EXCEPT ![q] = lag]
    BY Zenon, <2>1 DEF Claim
  <2> QED BY <1>1, <2>2 DEF PairingType
<1>3. since'[p] = lag
  BY Zenon, <1>2 DEF PairingType
<1>4. CASE pairs[p] = None
  <2>1. since[p] = Ttl
    BY Zenon, <1>4 DEF Tracked, Unknown, Departed, Registered
  <2> QED BY <1>3, <2>1
<1>5. CASE pairs[p] # None
  <2>1. /\ pairs[p].age \in Nat /\ pairs[p].streak \in 0..Width
        /\ since[p] = Lesser(pairs[p].age, Ttl)
    BY Zenon, <1>5 DEF Tracked, Remembered
  <2>2. pairs[p].age - lag >= ReemitCooldown(pairs[p].streak)
    <3>1. since' # since
      BY <1>1
    <3> QED BY Zenon, <1>2, <1>5, <3>1 DEF Claim
  <2>3. ReemitCooldown(pairs[p].streak) \in Int /\ ReemitCooldown(pairs[p].streak) >= Base
    BY Zenon, <1>5, <2>1, CooldownAssumption
  <2>4. pairs[p].age - lag >= Base
    BY <2>1, <2>2, <2>3
  <2> QED BY <1>3, <2>1, <2>4 DEF Lesser
<1> QED BY Zenon, <1>4, <1>5

\* Between two punches of a pair that stays registered lies the cooldown, for any
\* number of nodes and handlers, any cooldown the settings give and any lag a
\* handler runs behind (PunchTracker::claim, note_confirmed, reap_older_than).
THEOREM PunchesSpaced == PairingSpec => EmitsSpaced
<1> DEFINE Spaced == \A p \in PunchPair :
             since'[p] < since[p] /\ Registered(p)
               /\ (pairs[p] # None => ReemitCooldown(pairs[p].streak) > 0)
             => since[p] - since'[p] >= Base
<1>1. PairingInit => PairingType /\ Tracked
  BY Zenon, TrackedInitially
<1>2. PairingType /\ Tracked /\ [PairingNext]_pairingVars => (PairingType /\ Tracked)'
  BY Zenon, PairingTypeKept, TrackedKept
<1>3. PairingType /\ Tracked /\ [PairingNext]_pairingVars => [Spaced]_pairingVars
  <2> SUFFICES ASSUME PairingType, Tracked, PairingNext PROVE Spaced
    BY Zenon
  <2> SUFFICES ASSUME NEW p \in PunchPair, since'[p] < since[p], Registered(p),
                      pairs[p] # None => ReemitCooldown(pairs[p].streak) > 0
               PROVE  since[p] - since'[p] >= Base
    BY Zenon
  <2> USE PairingBounds
  <2>1. since[p] \in 0..Ttl
    BY Zenon DEF PairingType
  <2>2. ASSUME NEW n \in Nodes, NEW b \in PeerIds, TryPair(n, b) PROVE since[p] - since'[p] >= Base
    <3>1. hb[n].lag \in 0..MaxLag
      BY Zenon, <2>2 DEF TryPair, PairingType, Handlers
    <3>2. Claim(CanonicalPair(hb[n].id, b), hb[n].lag)
      BY <2>1, <2>2 DEF TryPair
    <3> QED BY Zenon, <3>1, <3>2, ClaimSpaced
  <2>3. CASE CoordinatorRestart
    <3>1. since' = [r \in PunchPair |-> Ttl]
      BY Zenon, <2>3 DEF CoordinatorRestart
    <3> QED BY <2>1, <3>1
  <2>4. CASE PairingTick
    <3>1. since'[p] = Lesser(since[p] + 1, Ttl)
      BY Zenon, <2>4 DEF PairingTick
    <3> QED BY <2>1, <3>1 DEF Lesser
  <2>5. CASE \/ \E n \in Nodes : Join(n) \/ Heartbeat(n) \/ Collect(n) \/ Leave(n) \/ Move(n) \/ Report(n)
             \/ \E j \in PeerIds : Forget(j)
             \/ \E q \in Flaggable : SetFlags(q)
             \/ Sweep \/ SetProactive
    <3>1. since' = since
      BY Zenon, <2>5 DEF Join, Heartbeat, Collect, Leave, Move, Report, Forget, SetFlags, Sweep, SetProactive
    <3> QED BY <2>1, <3>1
  <2> QED BY Zenon, <2>2, <2>3, <2>4, <2>5 DEF PairingNext, Step
<1> QED BY <1>1, <1>2, <1>3, PTL DEF PairingSpec, EmitsSpaced

-----------------------------------------------------------------------------
(* The machine graph.                                                      *)

\* The indexes of two machines differ, and reports are edges.
PathsType ==
  /\ MaxCount \in Nat
  /\ Absent \notin [direct : BOOLEAN, age : Nat] /\ Absent \notin Peers /\ Absent # "direct"
  /\ \A a, b \in Machines : a # b => Index[a] \in Int /\ Index[b] \in Int /\ Index[a] # Index[b]
  /\ \A a \in Machines : \A b \in DOMAIN Paths[a] : Paths[a][b] \in PathEdges

\* The and_modify step of the fold: direct when either edge is, as young as the younger, with
\* the later of the two handshakes.
LEMMA MergeJoins ==
  ASSUME NEW acc \in PathEdges, NEW edge \in PathEdges
  PROVE  LET m == Merge(acc, edge)
         IN /\ m.direct <=> acc.direct \/ edge.direct
            /\ m.age <= acc.age /\ m.age <= edge.age
            /\ acc.handshake # Absent =>
                 m.handshake # Absent /\ m.handshake.age <= acc.handshake.age
            /\ edge.handshake # Absent =>
                 m.handshake # Absent /\ m.handshake.age <= edge.handshake.age
<1> DEFINE m == Merge(acc, edge)
<1>1. /\ m.direct = (acc.direct \/ edge.direct)
      /\ m.age = Lower(acc.age, edge.age)
      /\ m.handshake = IF Fresher(acc, edge) THEN edge.handshake ELSE acc.handshake
  BY Zenon DEF Merge
<1> HIDE DEF m
<1>2. /\ acc.direct \in BOOLEAN /\ edge.direct \in BOOLEAN
      /\ acc.age \in Nat /\ edge.age \in Nat
      /\ acc.handshake \in Handshakes /\ edge.handshake \in Handshakes
  BY Zenon DEF PathEdges
<1>3. m.age <= acc.age /\ m.age <= edge.age
  BY <1>1, <1>2 DEF Lower
<1>4. /\ acc.handshake # Absent => acc.handshake.age \in Nat
      /\ edge.handshake # Absent => edge.handshake.age \in Nat
  BY Zenon, <1>2 DEF Handshakes
<1>5. /\ acc.handshake # Absent =>
           m.handshake # Absent /\ m.handshake.age <= acc.handshake.age
      /\ edge.handshake # Absent =>
           m.handshake # Absent /\ m.handshake.age <= edge.handshake.age
  BY <1>1, <1>4 DEF Fresher
<1> QED
  BY Zenon, <1>1, <1>2, <1>3, <1>5 DEF m

\* A pair's edge is folded from the edges that its ends report, in one order or the other.
LEMMA EdgeFolds ==
  ASSUME NEW a, NEW b
  PROVE  /\ Reported(a, b) /\ Reported(b, a) =>
              \/ Edge(a, b) = Merge(Paths[a][b], Paths[b][a])
              \/ Edge(a, b) = Merge(Paths[b][a], Paths[a][b])
         /\ Reported(a, b) /\ ~Reported(b, a) => Edge(a, b) = Paths[a][b]
         /\ ~Reported(a, b) /\ Reported(b, a) => Edge(a, b) = Paths[b][a]
         /\ ~Reported(a, b) /\ ~Reported(b, a) => Edge(a, b) = Absent
BY Zenon DEF Edge

\* What a machine reports is a path edge.
LEMMA ReportsPaths ==
  ASSUME PathsType, NEW a \in Machines, NEW b \in Machines, Reported(a, b)
  PROVE  /\ Paths[a][b] \in PathEdges
         /\ Paths[a][b].direct \in BOOLEAN
         /\ Paths[a][b].age \in Nat
         /\ Paths[a][b].handshake # Absent => Paths[a][b].handshake.age \in Nat
<1>1. Paths[a][b] \in PathEdges
  BY Zenon DEF PathsType, Reported
<1>2. Paths[a][b].handshake \in Handshakes
  BY Zenon, <1>1 DEF PathEdges
<1>3. Paths[a][b].handshake # Absent => Paths[a][b].handshake.age \in Nat
  BY Zenon, <1>2 DEF Handshakes
<1> QED
  BY Zenon, <1>1, <1>3 DEF PathEdges

\* The fold for a pair that either end reports: direct when either says so, and no older
\* than what either says.
LEMMA EdgeJoins ==
  ASSUME PathsType, NEW a \in Machines, NEW b \in Machines, Reported(a, b) \/ Reported(b, a)
  PROVE  /\ Edge(a, b).direct <=> \/ Reported(a, b) /\ Paths[a][b].direct
                                  \/ Reported(b, a) /\ Paths[b][a].direct
         /\ Reported(a, b) => Edge(a, b).age <= Paths[a][b].age
         /\ Reported(b, a) => Edge(a, b).age <= Paths[b][a].age
<1>1. CASE Reported(a, b) /\ Reported(b, a)
  <2>1. Paths[a][b] \in PathEdges /\ Paths[b][a] \in PathEdges
    BY Zenon, <1>1, ReportsPaths
  <2>2. CASE Edge(a, b) = Merge(Paths[a][b], Paths[b][a])
    BY <1>1, <2>1, <2>2, MergeJoins
  <2>3. CASE Edge(a, b) = Merge(Paths[b][a], Paths[a][b])
    BY <1>1, <2>1, <2>3, MergeJoins
  <2> QED BY Zenon, <1>1, <2>2, <2>3, EdgeFolds
<1>2. CASE Reported(a, b) /\ ~Reported(b, a)
  BY <1>2, EdgeFolds, ReportsPaths
<1>3. CASE ~Reported(a, b) /\ Reported(b, a)
  BY <1>3, EdgeFolds, ReportsPaths
<1> QED BY Zenon, <1>1, <1>2, <1>3

\* What TopologyEdge documents: a pair is direct when either end says so, and its age
\* is the lesser one (Coordinator::topology).
THEOREM EitherEndDirect ==
  ASSUME PathsType, NEW a \in Machines, NEW b \in Machines, a # b, Edge(a, b) # Absent
  PROVE  /\ Edge(a, b).direct <=> \/ Reported(a, b) /\ Paths[a][b].direct
                                  \/ Reported(b, a) /\ Paths[b][a].direct
         /\ Reported(a, b) => Edge(a, b).age <= Paths[a][b].age
         /\ Reported(b, a) => Edge(a, b).age <= Paths[b][a].age
BY Zenon, EdgeFolds, EdgeJoins

\* The graph and the peer list agree: a pair's edge is direct exactly when the list shows it
\* direct from the vantage of one of its ends (snapshot_with_vantage).
THEOREM VantagesAgree ==
  ASSUME PathsType, NEW a \in Machines, NEW b \in Machines, a # b,
         Reported(a, b) \/ Reported(b, a)
  PROVE  Edge(a, b).direct <=> FromVantage(a, b) = "direct" \/ FromVantage(b, a) = "direct"
<1>1. a # Absent /\ b # Absent /\ a \in Peers /\ b \in Peers /\ Absent # "direct"
  BY Zenon DEF PathsType, Machines
<1>2. FromVantage(a, b) = "direct" <=> Reported(a, b) /\ Paths[a][b].direct
  BY Zenon, <1>1 DEF FromVantage, Reported
<1>3. FromVantage(b, a) = "direct" <=> Reported(b, a) /\ Paths[b][a].direct
  BY Zenon, <1>1 DEF FromVantage, Reported
<1> QED BY Zenon, <1>2, <1>3, EdgeJoins

\* The handshake shown for a pair is the latest that either end has seen.
THEOREM LatestHandshake ==
  ASSUME PathsType, NEW a \in Machines, NEW b \in Machines, a # b,
         Reported(a, b), Paths[a][b].handshake # Absent
  PROVE  /\ Edge(a, b).handshake # Absent
         /\ Edge(a, b).handshake.age <= Paths[a][b].handshake.age
<1>1. CASE Reported(b, a)
  <2>1. Paths[a][b] \in PathEdges /\ Paths[b][a] \in PathEdges
    BY Zenon, <1>1, ReportsPaths
  <2>2. CASE Edge(a, b) = Merge(Paths[a][b], Paths[b][a])
    BY Zenon, <2>1, <2>2, MergeJoins
  <2>3. CASE Edge(a, b) = Merge(Paths[b][a], Paths[a][b])
    BY Zenon, <2>1, <2>3, MergeJoins
  <2> QED BY Zenon, <1>1, <2>2, <2>3, EdgeFolds
<1>2. CASE ~Reported(b, a)
  BY <1>2, EdgeFolds, ReportsPaths
<1> QED BY Zenon, <1>1, <1>2

\* The graph is undirected: a pair's edge is the same from either end, whatever the
\* two ends report.
THEOREM EdgeUndirected ==
  ASSUME PathsType, NEW a \in Machines, NEW b \in Machines, a # b
  PROVE  Edge(a, b) = Edge(b, a)
<1>1. Index[a] \in Int /\ Index[b] \in Int /\ Index[a] # Index[b]
  BY Zenon DEF PathsType
<1> QED BY <1>1 DEF Edge
=============================================================================
