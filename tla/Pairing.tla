------------------------------- MODULE Pairing -------------------------------
(***************************************************************************)
(* How the coordinator pairs peers for hole punching: the endpoints it     *)
(* learns from registrations and heartbeats, the operator's switches, the  *)
(* tracker that spaces a pair's punches, and the handlers of concurrent    *)
(* heartbeats that share all of it.                                        *)
(*                                                                         *)
(* Time passes in ticks, and every instant is kept as its age.  A handler  *)
(* works with the entries and with the instant it has read; it is at most  *)
(* MaxLag ticks behind.  The two counters of the cold-start budget are     *)
(* taken at once, and so are the tracker's and the flags' maps when a peer *)
(* leaves.                                                                 *)
(***************************************************************************)
EXTENDS Integers

CONSTANTS
  Nodes,        \* the machines, each with one identity at a time
  Advertised,   \* node -> the endpoint it was told to advertise, or None
  RelayOnly,    \* nodes started as relay-only
  Origins,        \* where a node may be seen to come from
  Home,         \* node -> where it is at first
  Public,       \* those of them that peers can reach
  Proactive,    \* the switch's initial position
  Flaggable,    \* bound: the pairs that operators flag
  None,
  Base,         \* PUNCH_REEMIT_COOLDOWN_MICROS, in ticks
  Cap,          \* PUNCH_REEMIT_COOLDOWN_CAP_MICROS
  Ttl,          \* PUNCH_PAIR_TTL_MICROS
  Window,       \* COLD_START_WINDOW_MICROS
  MaxNew,       \* MAX_NEW_EMITS_PER_WINDOW
  Width,        \* bits of an instant, 64 in the code
  MaxLag,       \* bound: how far behind a handler may be
  MaxPeers,     \* bound: registrations that create an identity
  MaxChanges    \* bound: what nodes and operators do to each other

PeerIds == 1..MaxPeers
PunchPair == {p \in PeerIds \X PeerIds : p[1] < p[2]}
PeerEntries == [
  endpoint : Origins \cup {None}, reflexive : BOOLEAN, observed : Origins \cup {None},
  relayOnly : BOOLEAN]

ASSUME SpacingAssumption ==
  /\ {Base, Cap, Ttl, Window, MaxNew, Width} \subseteq Nat \ {0}
  /\ {MaxLag, MaxPeers, MaxChanges} \subseteq Nat
  /\ Base + MaxLag <= Ttl
  /\ Flaggable \subseteq PunchPair
ASSUME NodeAssumption ==
  /\ RelayOnly \subseteq Nodes /\ Public \subseteq Origins
  /\ None \notin Origins /\ None \notin PeerIds /\ None \notin [age : Nat, streak : Nat]
  /\ Home \in [Nodes -> Origins] /\ Advertised \in [Nodes -> Origins \cup {None}] /\ Proactive \in BOOLEAN

VARIABLES
  roster,     \* id -> its entry, or None
  idOf,       \* node -> the id it was given, or None
  nextId,     \* the next id
  where,      \* node -> the address its requests come from
  pairs,      \* pair -> age of its last punch and streak, or None
  budget,     \* age of the cold-start window, and first punches in it
  proactive,  \* the global switch
  direct,     \* pairs flagged direct
  pinned,     \* pairs pinned to the relay
  hb,         \* node -> its heartbeat's handler, or None
  leaving,    \* ids out of the roster, whose pairs are still to be forgotten
  since,      \* pair -> age of the last punch this process sent for it, up to Ttl
  changes     \* changes so far

pairingVars == <<roster, idOf, nextId, where, pairs, budget, proactive, direct,
          pinned, hb, leaving, since, changes>>
switches == <<proactive, direct, pinned>>

-----------------------------------------------------------------------------
(* Pure parts.                                                             *)

Lesser(x, y) == IF x < y THEN x ELSE y

CanonicalPair(a, b) == IF a < b THEN <<a, b>> ELSE <<b, a>>

\* checked_shl refuses a shift of Width or more; below it, bits are lost and the
\* last one is the sign.
Shifted(n, by) ==
  LET low == (n * 2^by) % 2^Width
  IN IF low >= 2^(Width - 1) THEN low - 2^Width ELSE low

ReemitCooldown(streak) == IF streak >= Width THEN Cap ELSE Lesser(Shifted(Base, streak), Cap)

\* The shift may lose all bits or set the sign, and what it leaves above zero is no less
\* than the first cooldown (15 s, in microseconds of 64 bits).
ASSUME CooldownAssumption ==
  \A streak \in 0..Width :
    /\ ReemitCooldown(streak) \in Int
    /\ ReemitCooldown(streak) > 0 => ReemitCooldown(streak) >= Base

\* resolve_listen_endpoint.
Resolved(reported, observed, relayOnly) ==
  [endpoint |-> IF relayOnly THEN None
                ELSE IF reported # None THEN reported
                ELSE IF observed \in Public THEN observed ELSE None,
   reflexive |-> ~relayOnly /\ reported = None /\ observed \in Public]

\* Variant: the cold-start window is opened once.
OneWindow(lag) == budget

\* take_cold_start_token: the budget that a claim is charged to.
ColdStart(lag) == IF budget.age - lag >= Window THEN [age |-> lag, count |-> 0] ELSE budget

\* punch_peer_for_pair: what it asks of the entry, and of the switches.
Punchable(e) == e.observed # None /\ ~e.relayOnly /\ e.endpoint # None
Switched(p) == p \notin pinned /\ (proactive \/ p \in direct)

-----------------------------------------------------------------------------
PairingInit ==
  /\ roster = [i \in PeerIds |-> None]
  /\ idOf = [n \in Nodes |-> None] /\ nextId = 1
  /\ where = Home
  /\ pairs = [p \in PunchPair |-> None] /\ budget = [age |-> Window, count |-> 0]
  /\ proactive = Proactive /\ direct = {} /\ pinned = {}
  /\ hb = [n \in Nodes |-> None] /\ leaving = {}
  /\ since = [p \in PunchPair |-> Ttl] /\ changes = 0

Change == changes < MaxChanges /\ changes' = changes + 1

\* register_authenticated for a key that is not in the roster.
Join(n) ==
  LET resolved == Resolved(Advertised[n], where[n], n \in RelayOnly)
  IN /\ idOf[n] = None /\ hb[n] = None /\ nextId <= MaxPeers
     /\ roster' = [roster EXCEPT ![nextId] =
          [endpoint |-> resolved.endpoint, reflexive |-> resolved.reflexive,
           observed |-> where[n], relayOnly |-> n \in RelayOnly]]
     /\ idOf' = [idOf EXCEPT ![n] = nextId] /\ nextId' = nextId + 1
     /\ UNCHANGED <<where, pairs, budget, switches, hb, leaving, since, changes>>

\* refresh_reflexive_endpoint; every reported endpoint counts as explicit.
Refreshed(e, seen, relayOnly) ==
  LET resolved == Resolved(None, seen, FALSE)
  IN IF relayOnly \/ (~e.reflexive /\ e.endpoint # None) \/ ~resolved.reflexive THEN e
     ELSE [e EXCEPT !.endpoint = resolved.endpoint, !.reflexive = TRUE]

\* A heartbeat arrives: an unknown peer gets a 404 and will register again, the
\* entry of a known one is stamped (apply_peer_heartbeat, the relay-only flag, the
\* reflexive endpoint).
Heartbeat(n) ==
  LET id == idOf[n]
      stamped(e) == [e EXCEPT !.observed = where[n], !.relayOnly = n \in RelayOnly]
  IN /\ id # None /\ hb[n] = None
     /\ IF roster[id] = None
        THEN idOf' = [idOf EXCEPT ![n] = None] /\ UNCHANGED <<roster, hb>>
        ELSE /\ roster' = [roster EXCEPT ![id] = Refreshed(stamped(@), where[n], n \in RelayOnly)]
             /\ hb' = [hb EXCEPT ![n] = [at |-> "collect", id |-> id]]
             /\ UNCHANGED idOf
     /\ UNCHANGED <<nextId, where, pairs, budget, switches, leaving, since, changes>>

\* The entry is read again, the candidates and the instant are taken.
Collect(n) ==
  LET h == hb[n]
      others == {i \in PeerIds \ {h.id} : roster[i] # None}
  IN /\ h # None /\ h.at = "collect"
     /\ IF roster[h.id] = None
        THEN hb' = [hb EXCEPT ![n] = None] /\ idOf' = [idOf EXCEPT ![n] = None]
        ELSE /\ hb' = [hb EXCEPT ![n] =
                  [at |-> "pair", id |-> h.id, todo |-> others, lag |-> 0,
                   punchable |-> {i \in others \cup {h.id} : Punchable(roster[i])}]]
             /\ UNCHANGED idOf
     /\ UNCHANGED <<roster, nextId, where, pairs, budget, switches, leaving, since, changes>>

\* PunchTracker::claim: a known pair after its cooldown, a new one out of the budget.
\* Who may sends both ends their HolePunchInitiate.
Claim(p, lag) ==
  LET st == pairs[p]
      may == IF st = None THEN ColdStart(lag).count < MaxNew
             ELSE st.age - lag >= ReemitCooldown(st.streak)
  IN /\ budget' = IF st = None THEN [ColdStart(lag) EXCEPT !.count = Lesser(@ + 1, MaxNew)] ELSE budget
     /\ pairs' = IF may THEN [pairs EXCEPT ![p] =
                       [age |-> lag, streak |-> IF st = None THEN 0 ELSE Lesser(st.streak + 1, Width)]]
                 ELSE pairs
     /\ since' = IF may THEN [since EXCEPT ![p] = lag] ELSE since

\* try_emit_holepunch_pairs for one candidate.
TryPair(n, b) ==
  LET h == hb[n]
      p == CanonicalPair(h.id, b)
  IN /\ h # None /\ h.at = "pair" /\ b \in h.todo
     /\ IF {h.id, b} \subseteq h.punchable /\ Switched(p)
        THEN Claim(p, h.lag)
        ELSE UNCHANGED <<pairs, budget, since>>
     /\ hb' = [hb EXCEPT ![n].todo = @ \ {b}]
     /\ UNCHANGED <<roster, idOf, nextId, where, switches, leaving, changes>>

\* Variant: a confirmed pair is taken out of the tracker.
ClearConfirmed(id, targets) ==
  [p \in PunchPair |-> IF \E t \in targets : p = CanonicalPair(id, t) THEN None ELSE pairs[p]]

\* note_confirmed for every target that is reached directly.
NoteConfirmed(id, targets) ==
  [p \in PunchPair |->
     IF pairs[p] # None /\ \E t \in targets : p = CanonicalPair(id, t)
     THEN [pairs[p] EXCEPT !.streak = 0] ELSE pairs[p]]

\* record_peer_paths with what the heartbeat reports: the peers reached directly.
\* The edges it stores are only read by the topology.
Report(n) ==
  LET h == hb[n]
  IN /\ h # None /\ h.at = "pair" /\ h.todo = {}
     /\ \E targets \in SUBSET {idOf[m] : m \in {x \in Nodes \ {n} : idOf[x] # None}} :
          pairs' = IF roster[h.id] = None THEN pairs ELSE NoteConfirmed(h.id, targets)
     /\ hb' = [hb EXCEPT ![n] = None]
     /\ UNCHANGED <<roster, idOf, nextId, where, budget, switches, leaving, since, changes>>

\* deregister (by the node, or by the sweeper for a silent one), up to the roster ...
Leave(n) ==
  /\ Change /\ idOf[n] # None /\ roster[idOf[n]] # None
  /\ roster' = [roster EXCEPT ![idOf[n]] = None]
  /\ leaving' = leaving \cup {idOf[n]}
  /\ UNCHANGED <<idOf, nextId, where, pairs, budget, switches, hb, since>>

\* ... and the rest of apply_peer_left.
Forget(id) ==
  /\ id \in leaving /\ leaving' = leaving \ {id}
  /\ pairs' = [p \in PunchPair |-> IF id \in {p[1], p[2]} THEN None ELSE pairs[p]]
  /\ direct' = {p \in direct : id \notin {p[1], p[2]}}
  /\ pinned' = {p \in pinned : id \notin {p[1], p[2]}}
  /\ UNCHANGED <<roster, idOf, nextId, where, budget, proactive, hb, since, changes>>

\* Variant: nothing is too old.
ReapNothing == pairs

\* PunchTracker::reap_older_than.
ReapOlderThan == [p \in PunchPair |-> IF pairs[p] # None /\ pairs[p].age > Ttl THEN None ELSE pairs[p]]

\* reap_stale_resources, in every sweep.
Sweep ==
  /\ pairs' = ReapOlderThan /\ pairs' # pairs
  /\ UNCHANGED <<roster, idOf, nextId, where, budget, switches, hb, leaving, since, changes>>

\* The operator's switches: post_proactive_handler and post_direct_handler.
SetProactive ==
  /\ Change /\ proactive' = ~proactive
  /\ UNCHANGED <<roster, idOf, nextId, where, pairs, budget, direct, pinned, hb, leaving, since>>

SetFlags(p) ==
  /\ Change
  /\ direct' \in {direct, direct \cup {p}, direct \ {p}}
  /\ pinned' \in {pinned, pinned \cup {p}, pinned \ {p}}
  /\ UNCHANGED <<roster, idOf, nextId, where, pairs, budget, proactive, hb, leaving, since>>

\* The node's address changes.
Move(n) ==
  /\ Change
  /\ \E a \in Origins \ {where[n]} : where' = [where EXCEPT ![n] = a]
  /\ UNCHANGED <<roster, idOf, nextId, pairs, budget, switches, hb, leaving, since>>

\* The coordinator stops and starts: the entries are those of the roster file, with
\* what only lives in memory left out.
CoordinatorRestart ==
  /\ Change
  /\ roster' = [i \in PeerIds |-> IF roster[i] = None THEN None
                  ELSE [roster[i] EXCEPT !.observed = None, !.reflexive = FALSE]]
  /\ pairs' = [p \in PunchPair |-> None] /\ budget' = [age |-> Window, count |-> 0]
  /\ proactive' = Proactive /\ direct' = {} /\ pinned' = {}
  /\ hb' = [n \in Nodes |-> None] /\ leaving' = {}
  /\ since' = [p \in PunchPair |-> Ttl]
  /\ UNCHANGED <<idOf, nextId, where>>

\* Time passes; handlers keep up with it.
PairingTick ==
  /\ \A n \in Nodes : hb[n] # None =>
       (hb[n].at = "pair" => hb[n].lag < MaxLag)
  /\ pairs' = [p \in PunchPair |-> IF pairs[p] = None THEN None
                 ELSE [pairs[p] EXCEPT !.age = Lesser(@ + 1, Ttl + MaxLag + 1)]]
  /\ budget' = [budget EXCEPT !.age = Lesser(@ + 1, Window + MaxLag)]
  /\ since' = [p \in PunchPair |-> Lesser(since[p] + 1, Ttl)]
  /\ hb' = [n \in Nodes |-> IF hb[n] # None /\ hb[n].at = "pair"
                            THEN [hb[n] EXCEPT !.lag = @ + 1] ELSE hb[n]]
  /\ UNCHANGED <<roster, idOf, nextId, where, switches, leaving, changes>>

Step(n) == Join(n) \/ Heartbeat(n) \/ Collect(n) \/ (\E b \in PeerIds : TryPair(n, b)) \/ Report(n)

PairingNext ==
  \/ \E n \in Nodes : Step(n) \/ Leave(n) \/ Move(n)
  \/ \E i \in PeerIds : Forget(i)
  \/ \E p \in Flaggable : SetFlags(p)
  \/ Sweep \/ SetProactive \/ CoordinatorRestart \/ PairingTick

\* Nodes send heartbeats and register when they must, handlers and sweeps run, time
\* passes; nothing obliges anyone to leave, to move or to switch.
PairingFairness ==
  /\ \A n \in Nodes : WF_pairingVars(Step(n))
  /\ WF_pairingVars(\E i \in PeerIds : Forget(i)) /\ WF_pairingVars(Sweep) /\ WF_pairingVars(PairingTick)

PairingSpec == PairingInit /\ [][PairingNext]_pairingVars /\ PairingFairness

-----------------------------------------------------------------------------
Registered(p) == roster[p[1]] # None /\ roster[p[2]] # None
Departed(p) == \E i \in {p[1], p[2]} : i < nextId /\ roster[i] = None

\* Between two punches of a pair that stays registered lies the cooldown, whoever's
\* heartbeat sends them and however far behind its handler is: two handlers never
\* both claim the pair.  It holds up to the streak whose cooldown reaches the sign
\* bit (PunchTracker::claim, note_confirmed, reap_older_than).
EmitsSpaced ==
  [][\A p \in PunchPair :
       since'[p] < since[p] /\ Registered(p)
         /\ (pairs[p] # None => ReemitCooldown(pairs[p].streak) > 0)
       => since[p] - since'[p] >= Base]_pairingVars

\* Two peers that may punch are told to again and again, until a switch says
\* otherwise: neither the streak nor the cold-start budget puts them off for ever
\* (claim, take_cold_start_token, try_emit_holepunch_pairs).
MayPunch(p) == Registered(p) /\ Switched(p) /\ Punchable(roster[p[1]]) /\ Punchable(roster[p[2]])
PairsRetried ==
  \A p \in PunchPair : <>[]MayPunch(p) => []<>(since[p] <= MaxLag)

\* Once a peer has left, the tracker forgets its pairs for good, also where a
\* heartbeat that was under way has claimed one again (remove_peer,
\* reap_older_than, try_emit_holepunch_pairs).
TrackerForgets == \A p \in PunchPair : <>[]Departed(p) => <>[](pairs[p] = None)
=============================================================================
