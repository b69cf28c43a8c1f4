----------------------------- MODULE RosterProofs -----------------------------
(***************************************************************************)
(* Proofs about Roster for every number of keys, peers, tasks, blocks and  *)
(* restarts.                                                               *)
(*                                                                         *)
(* The argument: a task whose handler is a registration holds              *)
(* registration_lock until it returns, so between its uniqueness scan and  *)
(* its write nobody else gives an address to a peer.  Heartbeats,          *)
(* departures and the sweeper only stamp or remove entries.                *)
(*                                                                         *)
(* For the key index, and for what may change an address: a peer id is     *)
(* drawn once, so the id of a join under way is in no map, buffer or file; *)
(* under registration_lock nobody else indexes the key of a join or moves  *)
(* the entry of a re-home; and the departure that is between its two       *)
(* removals is the only one for its key.                                   *)
(***************************************************************************)
EXTENDS Roster, TLAPS

\* What a task relies on at the statement it executes next.
TaskInv(t) ==
  /\ loc[t].op = "register" =>
       lock = t /\ loc[t].pk \in Pubkeys /\ loc[t].net \in Networks
  /\ pc[t] \in {"refresh", "rewrite", "moved", "evict", "evicted", "resolve", "join", "index"}
       => loc[t].op = "register"
  /\ pc[t] \in {"refresh", "rewrite", "moved", "announce", "join", "index"}
       => loc[t].id \in PeerIds
  /\ pc[t] \in {"moved", "announce", "index"} => loc[t].ent \in Entry
  /\ pc[t] \in {"evicted", "leave", "unindex", "departed", "reread"}
       => loc[t].target \in PeerIds
  /\ pc[t] = "unindex" => loc[t].gone \in Pubkeys
  /\ pc[t] = "refresh" => loc[t].ula = None
  /\ pc[t] \in {"join", "index"} => loc[t].ula \in Ula
  /\ pc[t] = "join" => loc[t].ula.idx <= allocator[loc[t].ula.slot]
  /\ pc[t] = "rewrite" /\ loc[t].ula # None =>
       /\ \A i \in Live : roster[i].ula = loc[t].ula => i = loc[t].id
       /\ loc[t].ula.idx <= allocator[loc[t].ula.slot]

\* The inductive invariant.
Inv ==
  /\ TypeOK
  /\ \A t \in Tasks : TaskInv(t)
  /\ UlaUnique
  /\ AllocatorCoversRoster
-----------------------------------------------------------------------------
(* Types of the building blocks.                                           *)

\* The locals of an idle task are well typed.
LEMMA IdleLocType == IdleLoc \in LocType
  BY Zenon DEF IdleLoc, LocType, Snapshot, MaybeEntry

\* An address built from a block and an index within the space is one.
LEMMA AddressForType ==
  ASSUME NEW s \in Slots, NEW n \in 0..MaxIdx
  PROVE  AddressFor(s, n) \in Ula
  BY Zenon DEF AddressFor, Ula

\* A walk over roster shards yields a snapshot.
LEMMA WalkedType ==
  ASSUME TypeOK, NEW t \in Tasks, NEW ids \in SUBSET PeerIds
  PROVE  Walked(t, ids) \in Snapshot
<1> SUFFICES ASSUME NEW i \in PeerIds
             PROVE  (IF i \in ids THEN Durable(roster[i]) ELSE loc[t].buf[i])
                      \in MaybeEntry
  BY Zenon DEF Walked, Snapshot
<1>1. roster[i] \in MaybeEntry
  BY Zenon DEF TypeOK, Snapshot
<1>2. loc[t].buf[i] \in MaybeEntry
  BY Zenon DEF TypeOK, LocType, Snapshot
<1>3. Durable(roster[i]) \in MaybeEntry
  BY Zenon, <1>1 DEF Durable, MaybeEntry, Entry
<1> QED BY Zenon, <1>2, <1>3

\* What a restart loads is a snapshot, whatever the file holds.
LEMMA LoadedType ==
  ASSUME TypeOK
  PROVE  Loaded \in Snapshot
<1>1. IsFile(disk)
  BY Zenon DEF TypeOK
<1>2. CASE disk.state = "whole"
  BY <1>1, <1>2 DEF IsFile, NoFile, Partial, Loaded
<1>3. CASE disk.state # "whole"
  BY Zenon, <1>3 DEF Loaded, Snapshot, MaybeEntry
<1> QED BY Zenon, <1>2, <1>3

\* Moving one task keeps the types of pc and loc.
LEMMA MoveType ==
  ASSUME TypeOK, NEW t \in Tasks, NEW l \in LocType, NEW label \in Labels,
         Goto(t, label), Set(t, l)
  PROVE  /\ pc' \in [Tasks -> Labels]
         /\ loc' \in [Tasks -> LocType]
  BY Zenon DEF TypeOK, Goto, Set

\* A handler that returns leaves pc, loc and lock well typed.
LEMMA ReturnType ==
  ASSUME TypeOK, NEW t \in Tasks, Return(t)
  PROVE  /\ pc' \in [Tasks -> Labels]
         /\ loc' \in [Tasks -> LocType]
         /\ lock' \in Workers \cup {None}
<1>1. "idle" \in Labels
  BY Zenon DEF Labels
<1> QED BY Zenon, <1>1, IdleLocType, MoveType DEF Return, TypeOK
\* Updating one local of a task keeps its locals well typed.
LEMMA LocUpdateType ==
  ASSUME NEW l \in LocType
  PROVE  /\ \A i \in PeerIds \cup {None}, u \in Ula \cup {None} :
              [l EXCEPT !.id = i, !.ula = u] \in LocType
         /\ \A u \in Ula \cup {None} : [l EXCEPT !.ula = u] \in LocType
         /\ \A e \in MaybeEntry : [l EXCEPT !.ent = e] \in LocType
         /\ \A i \in PeerIds \cup {None}, e \in MaybeEntry :
              [l EXCEPT !.id = i, !.ent = e] \in LocType
         /\ \A i \in PeerIds \cup {None} : [l EXCEPT !.target = i] \in LocType
         /\ \A k \in Pubkeys \cup {None} : [l EXCEPT !.gone = k] \in LocType
         /\ \A b \in Snapshot : [l EXCEPT !.buf = b] \in LocType
         /\ \A f \in {"closed", "tmp", "disk", "orphan"} :
              [l EXCEPT !.fd = f] \in LocType
         /\ \A b \in Snapshot :
              [l EXCEPT !.target = None, !.buf = b, !.fd = "closed"] \in LocType
         /\ \A S \in SUBSET PeerIds, i \in PeerIds \cup {None} :
              [l EXCEPT !.todo = S, !.target = i] \in LocType
         /\ [l EXCEPT !.op = "detached"] \in LocType
<1>1. \A i \in PeerIds \cup {None}, u \in Ula \cup {None} :
        [l EXCEPT !.id = i, !.ula = u] \in LocType
  BY Zenon DEF LocType
<1>2. \A u \in Ula \cup {None} : [l EXCEPT !.ula = u] \in LocType
  BY Zenon DEF LocType
<1>3. \A e \in MaybeEntry : [l EXCEPT !.ent = e] \in LocType
  BY Zenon DEF LocType
<1>4. \A i \in PeerIds \cup {None}, e \in MaybeEntry :
        [l EXCEPT !.id = i, !.ent = e] \in LocType
  BY Zenon DEF LocType
<1>5. \A i \in PeerIds \cup {None} :
        [l EXCEPT !.target = i] \in LocType
  BY Zenon DEF LocType
<1>6. \A k \in Pubkeys \cup {None} :
        [l EXCEPT !.gone = k] \in LocType
  BY Zenon DEF LocType
<1>7. \A b \in Snapshot : [l EXCEPT !.buf = b] \in LocType
  BY Zenon DEF LocType
<1>8. \A f \in {"closed", "tmp", "disk", "orphan"} :
        [l EXCEPT !.fd = f] \in LocType
  BY Zenon DEF LocType
<1>9. \A b \in Snapshot :
        [l EXCEPT !.target = None, !.buf = b, !.fd = "closed"] \in LocType
  BY Zenon DEF LocType
<1>10. \A S \in SUBSET PeerIds, i \in PeerIds \cup {None} :
        [l EXCEPT !.todo = S, !.target = i] \in LocType
  BY Zenon DEF LocType
<1>11. [l EXCEPT !.op = "detached"] \in LocType
  BY DEF LocType
<1> QED BY Zenon, <1>1, <1>2, <1>3, <1>4, <1>5, <1>6, <1>7, <1>8, <1>9, <1>10, <1>11

\* Register keeps every variable well typed.
LEMMA RegisterType ==
  ASSUME TypeOK, NEW t \in Workers, Register(t)
  PROVE  TypeOK'
<1> t \in Tasks
  BY Zenon DEF Tasks
<1>1. PICK k \in Pubkeys, n \in Networks, a \in Requestable \cup {None} :
        /\ Set(t, [IdleLoc EXCEPT !.op = "register", !.pk = k, !.net = n,
                                  !.ask = a, !.id = byPubkey[k]])
        /\ Goto(t, IF byPubkey[k] = None THEN "evict" ELSE "refresh")
  BY Zenon DEF Register
<1>2. [IdleLoc EXCEPT !.op = "register", !.pk = k, !.net = n, !.ask = a,
                      !.id = byPubkey[k]] \in LocType
  BY Zenon, IdleLocType, LayoutAssumption DEF LocType, TypeOK
<1>3. (IF byPubkey[k] = None THEN "evict" ELSE "refresh") \in Labels
  BY Zenon DEF Labels
<1>4. pc' \in [Tasks -> Labels] /\ loc' \in [Tasks -> LocType]
  BY Zenon, <1>1, <1>2, <1>3, MoveType
<1> QED BY <1>4, BoundAssumption DEF Register, TypeOK, mem, files, IsFile, NoFile, Partial, Holding

\* Refresh keeps every variable well typed.
LEMMA RefreshType ==
  ASSUME TypeOK, NEW t \in Tasks, TaskInv(t), Refresh(t)
  PROVE  TypeOK'
<1> DEFINE slot == NetworkSlot[loc[t].net]
           u == AddressFor(slot, allocator[slot] + 1)
<1>1. loc[t] \in LocType /\ loc[t].net \in Networks /\ slot \in Slots
  BY Zenon, LayoutAssumption DEF TypeOK, TaskInv, Refresh
<1>2. CASE Return(t) /\ UNCHANGED allocator
  BY Zenon, <1>2, ReturnType DEF Refresh, TypeOK, files, bounds, IsFile
<1>3. CASE Goto(t, "rewrite") /\ UNCHANGED <<allocator, lock, loc>>
  BY Zenon, <1>3 DEF Refresh, TypeOK, files, bounds, IsFile, Goto, Labels
<1>4. CASE /\ ~Exhausted(slot)
           /\ allocator' = [allocator EXCEPT ![slot] = @ + 1]
           /\ Return(t)
  <2>1. allocator[slot] + 1 \in 0..MaxIdx
    BY <1>1, <1>4, LayoutAssumption DEF TypeOK, Exhausted
  <2> QED BY Zenon, <1>4, <2>1, ReturnType DEF Refresh, TypeOK, files, bounds, IsFile
<1>5. CASE /\ ~Exhausted(slot)
           /\ allocator' = [allocator EXCEPT ![slot] = @ + 1]
           /\ Goto(t, "rewrite")
           /\ Set(t, [loc[t] EXCEPT !.ula = u])
           /\ UNCHANGED lock
  <2>1. allocator[slot] + 1 \in 0..MaxIdx
    BY <1>1, <1>5, LayoutAssumption DEF TypeOK, Exhausted
  <2>2. [loc[t] EXCEPT !.ula = u] \in LocType
    BY Zenon, <1>1, <2>1, AddressForType, LocUpdateType
  <2>3. "rewrite" \in Labels
    BY Zenon DEF Labels
  <2>4. pc' \in [Tasks -> Labels] /\ loc' \in [Tasks -> LocType]
    BY Zenon, <1>5, <2>2, <2>3, MoveType
  <2> QED BY Zenon, <1>5, <2>1, <2>4 DEF Refresh, TypeOK, files, bounds, IsFile
<1> QED BY Zenon, <1>2, <1>3, <1>4, <1>5 DEF Refresh
\* refresh_existing rewrites an entry into an entry.
LEMMA RefreshedType ==
  ASSUME NEW e \in Entry, NEW l \in LocType, l.net \in Networks
  PROVE  Refreshed(e, l) \in Entry
<1>1. (IF l.ula = None THEN e.ula ELSE l.ula) \in Ula
  BY Zenon DEF Entry, LocType
<1>2. (IF l.ula = None THEN e.net ELSE l.net) \in Networks
  BY Zenon DEF Entry
<1> QED BY Zenon, <1>1, <1>2 DEF Refreshed, Entry

\* A subscriber that applies an event keeps a table.
LEMMA ViewType ==
  ASSUME NEW v \in [Ula -> Session \cup {None}], NEW i \in PeerIds
  PROVE  /\ Dropped(v, i) \in [Ula -> Session \cup {None}]
         /\ \A e \in Entry : Upserted(v, e, i) \in [Ula -> Session \cup {None}]
  BY Zenon DEF Dropped, Upserted, Entry, Session

\* bump_slot_at_least stays in the index space and never regresses.
LEMMA BumpType ==
  ASSUME NEW a \in [Slots -> 0..MaxIdx], NEW s \in Slots, NEW n \in 0..MaxIdx
  PROVE  /\ Bump(a, s, n) \in [Slots -> 0..MaxIdx]
         /\ n <= Bump(a, s, n)[s]
         /\ \A r \in Slots : a[r] <= Bump(a, s, n)[r]
  BY LayoutAssumption DEF Bump

\* Rewrite keeps every variable well typed.
LEMMA RewriteType ==
  ASSUME TypeOK, NEW t \in Tasks, TaskInv(t), Rewrite(t)
  PROVE  TypeOK'
<1> DEFINE i == loc[t].id
           e == Refreshed(roster[i], loc[t])
<1>1. i \in PeerIds /\ loc[t] \in LocType /\ loc[t].net \in Networks
  BY Zenon DEF TypeOK, TaskInv, Rewrite
<1>2. CASE roster[i] = None
  BY Zenon, <1>2, ReturnType DEF Rewrite, TypeOK, files, bounds, IsFile
<1>3. CASE roster[i] # None
  <2>1. roster[i] \in Entry
    BY Zenon, <1>1, <1>3 DEF TypeOK, Snapshot, MaybeEntry
  <2>2. e \in Entry
    BY Zenon, <1>1, <2>1, RefreshedType
  <2>3. [loc[t] EXCEPT !.ent = e] \in LocType
    BY Zenon, <1>1, <2>2, LocUpdateType DEF MaybeEntry
  <2>4. (IF loc[t].ula = None THEN "announce" ELSE "moved") \in Labels
    BY Zenon DEF Labels
  <2>5. pc' \in [Tasks -> Labels] /\ loc' \in [Tasks -> LocType]
    BY Zenon, <1>3, <2>3, <2>4, MoveType DEF Rewrite
  <2>6. roster' \in Snapshot
    BY Zenon, <1>3, <2>2 DEF Rewrite, TypeOK, Snapshot, MaybeEntry
  <2> QED BY Zenon, <1>3, <2>5, <2>6 DEF Rewrite, TypeOK, files, bounds, IsFile
<1> QED BY Zenon, <1>2, <1>3

\* Moved keeps every variable well typed.
LEMMA MovedType ==
  ASSUME TypeOK, NEW t \in Tasks, TaskInv(t), Moved(t)
  PROVE  TypeOK'
<1>1. loc[t].id \in PeerIds
  BY Zenon DEF TaskInv, Moved
<1>2. view' \in [Ula -> Session \cup {None}]
  BY Zenon, <1>1, ViewType DEF Moved, TypeOK
<1> QED BY Zenon, <1>2 DEF Moved, TypeOK, mem, files, bounds, IsFile, Goto, Labels

\* Announce keeps every variable well typed.
LEMMA AnnounceType ==
  ASSUME TypeOK, NEW t \in Tasks, TaskInv(t), Announce(t)
  PROVE  TypeOK'
<1>1. loc[t].id \in PeerIds /\ loc[t].ent \in Entry
  BY Zenon DEF TaskInv, Announce
<1>2. view' \in [Ula -> Session \cup {None}]
  BY Zenon, <1>1, ViewType DEF Announce, TypeOK
<1>3. CASE loc[t].ula = None
  BY Zenon, <1>2, <1>3, ReturnType DEF Announce, TypeOK, mem, files, bounds, IsFile
<1>4. CASE loc[t].ula # None
  BY Zenon, <1>2, <1>4 DEF Announce, TypeOK, mem, files, bounds, IsFile, Goto, Labels
<1> QED BY Zenon, <1>3, <1>4

\* FindStaleHolder keeps every variable well typed.
LEMMA FindStaleHolderType ==
  ASSUME TypeOK, NEW t \in Tasks, FindStaleHolder(t)
  PROVE  TypeOK'
<1>1. CASE Goto(t, "resolve") /\ UNCHANGED loc
  BY Zenon, <1>1 DEF FindStaleHolder, TypeOK, mem, files, bounds, IsFile, Goto, Labels
<1>2. ASSUME NEW i \in PeerIds,
             Goto(t, "evicted"), Set(t, [loc[t] EXCEPT !.target = i])
      PROVE  TypeOK'
  <2>1. [loc[t] EXCEPT !.target = i] \in LocType
    BY Zenon, LocUpdateType DEF TypeOK
  <2>2. "evicted" \in Labels
    BY Zenon DEF Labels
  <2>3. pc' \in [Tasks -> Labels] /\ loc' \in [Tasks -> LocType]
    BY Zenon, <1>2, <2>1, <2>2, MoveType
  <2> QED BY Zenon, <2>3 DEF FindStaleHolder, TypeOK, mem, files, bounds, IsFile
<1> QED BY Zenon, <1>1, <1>2 DEF FindStaleHolder, Holders, Live

\* Evicted keeps every variable well typed.
LEMMA EvictedType ==
  ASSUME TypeOK, NEW t \in Tasks, TaskInv(t), Evicted(t)
  PROVE  TypeOK'
<1>1. view' \in [Ula -> Session \cup {None}]
  BY Zenon, ViewType DEF Evicted, TypeOK, TaskInv
<1> QED BY Zenon, <1>1 DEF Evicted, TypeOK, mem, files, bounds, IsFile, Goto, Labels

\* ResolveUla keeps every variable well typed.
LEMMA ResolveUlaType ==
  ASSUME TypeOK, NEW t \in Tasks, TaskInv(t), ResolveUla(t)
  PROVE  TypeOK'
<1> DEFINE a == loc[t].ask
           slot == NetworkSlot[loc[t].net]
<1>1. loc[t] \in LocType /\ slot \in Slots
  BY Zenon, LayoutAssumption DEF TypeOK, TaskInv, ResolveUla
<1>2. CASE Return(t) /\ UNCHANGED <<allocator, used>>
  BY Zenon, <1>2, ReturnType DEF ResolveUla, TypeOK, files, IsFile
<1>3. ASSUME NEW i \in PeerIds, NEW u \in Ula,
             allocator' \in [Slots -> 0..MaxIdx],
             used' = used \cup {i},
             Set(t, [loc[t] EXCEPT !.id = i, !.ula = u]),
             Goto(t, "join"), UNCHANGED lock
      PROVE  TypeOK'
  <2>1. [loc[t] EXCEPT !.id = i, !.ula = u] \in LocType
    BY Zenon, <1>1, LocUpdateType
  <2>2. "join" \in Labels
    BY Zenon DEF Labels
  <2>3. pc' \in [Tasks -> Labels] /\ loc' \in [Tasks -> LocType]
    BY Zenon, <1>3, <2>1, <2>2, MoveType
  <2> QED BY Zenon, <1>3, <2>3 DEF ResolveUla, TypeOK, files, IsFile
<1>4. CASE /\ a # None
           /\ allocator' = Bump(allocator, a.slot, a.idx)
           /\ \E i \in PeerIds \ used :
                /\ used' = used \cup {i}
                /\ Set(t, [loc[t] EXCEPT !.id = i, !.ula = a])
           /\ Goto(t, "join")
           /\ UNCHANGED lock
  <2>1. a \in Ula
    BY Zenon, <1>1, <1>4 DEF LocType
  <2>2. allocator' \in [Slots -> 0..MaxIdx]
    BY Zenon, <1>4, <2>1, BumpType DEF TypeOK, Ula
  <2> QED BY Zenon, <1>3, <1>4, <2>1, <2>2
<1>5. CASE /\ ~Exhausted(slot)
           /\ allocator' = [allocator EXCEPT ![slot] = @ + 1]
           /\ \E i \in PeerIds \ used :
                /\ used' = used \cup {i}
                /\ Set(t, [loc[t] EXCEPT
                             !.id = i,
                             !.ula = AddressFor(slot, allocator[slot] + 1)])
           /\ Goto(t, "join")
           /\ UNCHANGED lock
  <2>1. allocator[slot] + 1 \in 0..MaxIdx
    BY <1>1, <1>5, LayoutAssumption DEF TypeOK, Exhausted
  <2>2. allocator' \in [Slots -> 0..MaxIdx]
    BY Zenon, <1>1, <1>5, <2>1 DEF TypeOK
  <2>3. AddressFor(slot, allocator[slot] + 1) \in Ula
    BY Zenon, <1>1, <2>1, AddressForType
  <2> QED BY Zenon, <1>3, <1>5, <2>2, <2>3
<1> QED BY Zenon, <1>2, <1>4, <1>5 DEF ResolveUla
\* ApplyPeerJoined keeps every variable well typed.
LEMMA ApplyPeerJoinedType ==
  ASSUME TypeOK, NEW t \in Tasks, TaskInv(t), ApplyPeerJoined(t)
  PROVE  TypeOK'
<1> DEFINE e == [pk |-> loc[t].pk, ula |-> loc[t].ula, net |-> loc[t].net,
                 fresh |-> TRUE]
<1>1. /\ loc[t] \in LocType /\ loc[t].id \in PeerIds
      /\ e \in Entry /\ e.pk \in Pubkeys /\ e.ula \in Ula
  BY Zenon DEF TypeOK, TaskInv, ApplyPeerJoined, Entry
<1>2. CASE HeldByOther(e.ula, loc[t].id)
  BY Zenon, <1>2, ReturnType DEF ApplyPeerJoined, TypeOK, files, bounds, IsFile
<1>3. CASE ~HeldByOther(e.ula, loc[t].id)
  <2>1. [loc[t] EXCEPT !.ent = e] \in LocType
    BY Zenon, <1>1, LocUpdateType DEF MaybeEntry
  <2>2. "index" \in Labels
    BY Zenon DEF Labels
  <2>3. pc' \in [Tasks -> Labels] /\ loc' \in [Tasks -> LocType]
    BY Zenon, <1>3, <2>1, <2>2, MoveType DEF ApplyPeerJoined
  <2>4. roster' \in Snapshot
    BY Zenon, <1>1, <1>3 DEF ApplyPeerJoined, TypeOK, Snapshot, MaybeEntry
  <2> QED BY Zenon, <1>3, <2>3, <2>4
          DEF ApplyPeerJoined, TypeOK, files, bounds, IsFile
<1> QED BY Zenon, <1>2, <1>3

\* IndexPeer keeps every variable well typed.
LEMMA IndexPeerType ==
  ASSUME TypeOK, NEW t \in Tasks, TaskInv(t), IndexPeer(t)
  PROVE  TypeOK'
<1>1. loc[t].id \in PeerIds /\ loc[t].pk \in Pubkeys /\ loc[t].ula \in Ula
  BY Zenon DEF TaskInv, IndexPeer
<1>2. pc' \in [Tasks -> Labels]
  BY Zenon DEF IndexPeer, TypeOK, Goto, Labels
<1>3. byPubkey' \in [Pubkeys -> PeerIds \cup {None}]
  BY Zenon, <1>1 DEF IndexPeer, TypeOK
<1>4. allocator' \in [Slots -> 0..MaxIdx]
  <2>1. loc[t].ula.slot \in Slots /\ loc[t].ula.idx \in 0..MaxIdx
    BY Zenon, <1>1 DEF Ula
  <2> QED BY Zenon, <2>1, BumpType DEF IndexPeer, TypeOK
<1>5. overtaken' \subseteq Pubkeys
  BY Zenon, <1>1 DEF IndexPeer, TypeOK
<1> QED BY Zenon, <1>2, <1>3, <1>4, <1>5 DEF IndexPeer, TypeOK, files, IsFile

\* Deregister keeps every variable well typed.
LEMMA DeregisterType ==
  ASSUME TypeOK, NEW t \in Tasks, Deregister(t)
  PROVE  TypeOK'
<1>1. PICK i \in PeerIds :
        Set(t, [IdleLoc EXCEPT !.op = "deregister", !.target = i])
  BY Zenon DEF Deregister, Live
<1>2. [IdleLoc EXCEPT !.op = "deregister", !.target = i] \in LocType
  BY Zenon DEF IdleLoc, LocType, Snapshot, MaybeEntry
<1>3. "leave" \in Labels
  BY Zenon DEF Labels
<1>4. pc' \in [Tasks -> Labels] /\ loc' \in [Tasks -> LocType]
  BY Zenon, <1>1, <1>2, <1>3, MoveType DEF Deregister
<1> QED BY <1>4, BoundAssumption DEF Deregister, TypeOK, mem, files, IsFile

\* Leave keeps every variable well typed.
LEMMA LeaveType ==
  ASSUME TypeOK, NEW t \in Tasks, TaskInv(t), Leave(t)
  PROVE  TypeOK'
<1> DEFINE i == loc[t].target
<1>1. i \in PeerIds /\ loc[t] \in LocType
  BY Zenon DEF TypeOK, TaskInv, Leave
<1>2. CASE roster[i] = None
  BY Zenon, <1>2 DEF Leave, TypeOK, files, bounds, IsFile, Goto, Labels
<1>3. CASE roster[i] # None
  <2>1. roster[i].pk \in Pubkeys
    BY Zenon, <1>1, <1>3 DEF TypeOK, Snapshot, MaybeEntry, Entry
  <2>2. [loc[t] EXCEPT !.gone = roster[i].pk] \in LocType
    BY Zenon, <1>1, <2>1, LocUpdateType
  <2>3. "unindex" \in Labels
    BY Zenon DEF Labels
  <2>4. pc' \in [Tasks -> Labels] /\ loc' \in [Tasks -> LocType]
    BY Zenon, <1>3, <2>2, <2>3, MoveType DEF Leave
  <2>5. roster' \in Snapshot
    BY Zenon, <1>1, <1>3 DEF Leave, TypeOK, Snapshot, MaybeEntry
  <2> QED BY Zenon, <1>3, <2>4, <2>5 DEF Leave, TypeOK, files, bounds, IsFile
<1> QED BY Zenon, <1>2, <1>3

\* Unindex keeps every variable well typed.
LEMMA UnindexType ==
  ASSUME TypeOK, NEW t \in Tasks, TaskInv(t), Unindex(t)
  PROVE  TypeOK'
<1>1. loc[t] \in LocType
  BY Zenon DEF TypeOK
<1>2. [loc[t] EXCEPT !.gone = None] \in LocType
  BY Zenon, <1>1, LocUpdateType
<1>3. (IF loc[t].op = "register" THEN "collect" ELSE "departed") \in Labels
  BY Zenon DEF Labels
<1>4. pc' \in [Tasks -> Labels] /\ loc' \in [Tasks -> LocType]
  BY Zenon, <1>2, <1>3, MoveType DEF Unindex
<1>5. byPubkey' \in [Pubkeys -> PeerIds \cup {None}]
  BY Zenon DEF Unindex, TypeOK, TaskInv
<1> QED BY Zenon, <1>4, <1>5 DEF Unindex, TypeOK, files, bounds, IsFile

\* Departed keeps every variable well typed.
LEMMA DepartedType ==
  ASSUME TypeOK, NEW t \in Tasks, TaskInv(t), Departed(t)
  PROVE  TypeOK'
<1>1. view' \in [Ula -> Session \cup {None}]
  BY Zenon, ViewType DEF Departed, TypeOK, TaskInv
<1> QED BY Zenon, <1>1 DEF Departed, TypeOK, mem, files, bounds, IsFile, Goto, Labels

\* Stamping or ageing an entry keeps it an entry with its key and address.
LEMMA StampType ==
  ASSUME TypeOK, NEW i \in Live, NEW b \in BOOLEAN
  PROVE  LET r == [roster EXCEPT ![i].fresh = b] IN
         /\ r \in Snapshot
         /\ \A j \in PeerIds : r[j] # None =>
              roster[j] # None /\ r[j].ula = roster[j].ula
<1>1. i \in PeerIds /\ roster[i] \in Entry
  BY Zenon DEF Live, TypeOK, Snapshot, MaybeEntry
<1>2. [roster[i] EXCEPT !.fresh = b] \in Entry
  BY Zenon, <1>1 DEF Entry
<1>3. [roster[i] EXCEPT !.fresh = b].ula = roster[i].ula
  BY Zenon, <1>1 DEF Entry
<1>4. [roster EXCEPT ![i].fresh = b] = [roster EXCEPT ![i] = [roster[i] EXCEPT !.fresh = b]]
  BY Zenon, <1>1 DEF TypeOK, Snapshot
<1> QED BY Zenon, <1>1, <1>2, <1>3, <1>4 DEF TypeOK, Snapshot, MaybeEntry, Live

\* Heartbeat keeps every variable well typed.
LEMMA HeartbeatType ==
  ASSUME TypeOK, NEW t \in Tasks, NEW i \in PeerIds, Heartbeat(t, i)
  PROVE  TypeOK'
<1>1. [IdleLoc EXCEPT !.op = "heartbeat", !.target = i] \in LocType
  BY ZenonT(60), IdleLocType DEF LocType
<1>2. "reread" \in Labels
  BY Zenon DEF Labels
<1>3. pc' \in [Tasks -> Labels] /\ loc' \in [Tasks -> LocType]
  BY Zenon, <1>1, <1>2, MoveType DEF Heartbeat
<1>4. roster' \in Snapshot
  BY Zenon, StampType DEF Heartbeat
<1> QED BY Zenon, <1>3, <1>4 DEF Heartbeat, TypeOK, files, bounds, IsFile

\* Reread keeps every variable well typed.
LEMMA RereadType ==
  ASSUME TypeOK, NEW t \in Tasks, TaskInv(t), Reread(t)
  PROVE  TypeOK'
<1> DEFINE i == loc[t].target
<1>1. i \in PeerIds /\ loc[t] \in LocType /\ roster[i] \in MaybeEntry
  BY Zenon DEF TypeOK, TaskInv, Reread, Snapshot
<1>2. CASE roster[i] = None
  BY Zenon, <1>2, ReturnType DEF Reread, TypeOK, mem, files, bounds, IsFile
<1>3. CASE roster[i] # None
  <2>1. [loc[t] EXCEPT !.id = i, !.ent = roster[i]] \in LocType
    BY Zenon, <1>1, LocUpdateType
  <2>2. "announce" \in Labels
    BY Zenon DEF Labels
  <2>3. pc' \in [Tasks -> Labels] /\ loc' \in [Tasks -> LocType]
    BY Zenon, <1>3, <2>1, <2>2, MoveType DEF Reread
  <2> QED BY Zenon, <1>3, <2>3 DEF Reread, TypeOK, mem, files, bounds, IsFile
<1> QED BY Zenon, <1>2, <1>3

\* Age keeps every variable well typed.
LEMMA AgeType ==
  ASSUME TypeOK, NEW i \in PeerIds, Age(i)
  PROVE  TypeOK'
<1>1. roster' \in Snapshot
  BY Zenon, StampType DEF Age
<1> QED BY Zenon, <1>1 DEF Age, TypeOK, files, bounds, IsFile

\* StartSweep keeps every variable well typed.
LEMMA StartSweepType ==
  ASSUME TypeOK, StartSweep
  PROVE  TypeOK'
<1> DEFINE l == [IdleLoc EXCEPT !.op = "sweep",
                                !.todo = {i \in Live : ~roster[i].fresh}]
<1>1. l \in LocType
  BY ZenonT(60), IdleLocType DEF LocType, Live
<1>2. "next" \in Labels /\ Sweeper \in Tasks
  BY Zenon DEF Labels, Tasks
<1>3. pc' \in [Tasks -> Labels] /\ loc' \in [Tasks -> LocType]
  BY Zenon, <1>1, <1>2, MoveType DEF StartSweep
<1> QED BY Zenon, <1>3 DEF StartSweep, TypeOK, mem, files, bounds, IsFile

\* SweepNext keeps every variable well typed.
LEMMA SweepNextType ==
  ASSUME TypeOK, SweepNext
  PROVE  TypeOK'
<1>1. Sweeper \in Tasks /\ loc[Sweeper] \in LocType
  BY Zenon DEF Tasks, TypeOK
<1>2. CASE Return(Sweeper)
  BY Zenon, <1>1, <1>2, ReturnType DEF SweepNext, TypeOK, mem, files, bounds, IsFile
<1>3. ASSUME NEW i \in loc[Sweeper].todo,
             Set(Sweeper, [loc[Sweeper] EXCEPT !.todo = @ \ {i}, !.target = i]),
             Goto(Sweeper, IF roster[i] = None THEN "next" ELSE "leave"),
             UNCHANGED lock
      PROVE  TypeOK'
  <2>1. i \in PeerIds /\ loc[Sweeper].todo \ {i} \in SUBSET PeerIds
    BY Zenon, <1>1 DEF LocType
  <2>2. [loc[Sweeper] EXCEPT !.todo = @ \ {i}, !.target = i] \in LocType
    BY Zenon, <1>1, <2>1, LocUpdateType
  <2>3. (IF roster[i] = None THEN "next" ELSE "leave") \in Labels
    BY Zenon DEF Labels
  <2>4. pc' \in [Tasks -> Labels] /\ loc' \in [Tasks -> LocType]
    BY Zenon, <1>1, <1>3, <2>2, <2>3, MoveType
  <2> QED BY Zenon, <1>3, <2>4 DEF SweepNext, TypeOK, mem, files, bounds, IsFile
<1> QED BY Zenon, <1>2, <1>3 DEF SweepNext
\* What follows a save keeps pc, loc and lock well typed.
LEMMA AfterSaveType ==
  ASSUME TypeOK, NEW t \in Tasks, NEW ls \in [Tasks -> LocType], AfterSave(t, ls)
  PROVE  /\ pc' \in [Tasks -> Labels]
         /\ loc' \in [Tasks -> LocType]
         /\ lock' \in Workers \cup {None}
<1> DEFINE l == [ls[t] EXCEPT !.target = None, !.buf = IdleLoc.buf, !.fd = "closed"]
<1>1. IdleLoc.buf \in Snapshot
  BY Zenon DEF IdleLoc, Snapshot, MaybeEntry
<1>2. l \in LocType
  BY Zenon, <1>1, LocUpdateType
<1>3. {"resolve", "next", "idle"} \subseteq Labels
  BY Zenon DEF Labels
<1>4. CASE loc' = [ls EXCEPT ![t] = l] /\ Goto(t, "resolve") /\ UNCHANGED lock
  BY Zenon, <1>2, <1>3, <1>4 DEF TypeOK, Goto
<1>5. CASE loc' = [ls EXCEPT ![t] = l] /\ Goto(t, "next") /\ UNCHANGED lock
  BY Zenon, <1>2, <1>3, <1>5 DEF TypeOK, Goto
<1>6. CASE /\ loc' = [ls EXCEPT ![t] = IdleLoc]
           /\ Goto(t, "idle")
           /\ lock' = IF lock = t THEN None ELSE lock
  BY Zenon, <1>3, <1>6, IdleLocType DEF TypeOK, Goto
<1> QED BY Zenon, <1>4, <1>5, <1>6 DEF AfterSave

\* Collect keeps every variable well typed.
LEMMA CollectType ==
  ASSUME TypeOK, NEW t \in Tasks, Collect(t)
  PROVE  TypeOK'
<1>1. CASE AfterSave(t, loc)
  BY Zenon, <1>1, AfterSaveType DEF Collect, TypeOK, mem, files, bounds, IsFile
<1>2. CASE /\ Set(t, [loc[t] EXCEPT !.buf = Walked(t, FirstShard)])
           /\ Goto(t, "collectRest")
           /\ UNCHANGED lock
  <2>1. Walked(t, FirstShard) \in Snapshot
    BY Zenon, WalkedType, BoundAssumption
  <2>2. [loc[t] EXCEPT !.buf = Walked(t, FirstShard)] \in LocType
    BY Zenon, <2>1, LocUpdateType DEF TypeOK
  <2>3. "collectRest" \in Labels
    BY Zenon DEF Labels
  <2>4. pc' \in [Tasks -> Labels] /\ loc' \in [Tasks -> LocType]
    BY Zenon, <1>2, <2>2, <2>3, MoveType
  <2> QED BY Zenon, <1>2, <2>4 DEF Collect, TypeOK, mem, files, bounds, IsFile
<1> QED BY Zenon, <1>1, <1>2 DEF Collect

\* CollectRest keeps every variable well typed.
LEMMA CollectRestType ==
  ASSUME TypeOK, NEW t \in Tasks, CollectRest(t)
  PROVE  TypeOK'
<1>1. Walked(t, PeerIds \ FirstShard) \in Snapshot
  BY Zenon, WalkedType
<1>2. [loc[t] EXCEPT !.buf = Walked(t, PeerIds \ FirstShard)] \in LocType
  BY Zenon, <1>1, LocUpdateType DEF TypeOK
<1>3. "open" \in Labels
  BY Zenon DEF Labels
<1>4. pc' \in [Tasks -> Labels] /\ loc' \in [Tasks -> LocType]
  BY Zenon, <1>2, <1>3, MoveType DEF CollectRest
<1> QED BY Zenon, <1>4 DEF CollectRest, TypeOK, mem, files, bounds, IsFile

\* OpenTmp keeps every variable well typed.
LEMMA OpenTmpType ==
  ASSUME TypeOK, NEW t \in Tasks, OpenTmp(t)
  PROVE  TypeOK'
<1>1. [loc[t] EXCEPT !.fd = "tmp"] \in LocType
  BY Zenon, LocUpdateType DEF TypeOK
<1>2. "write" \in Labels
  BY Zenon DEF Labels
<1>3. pc' \in [Tasks -> Labels] /\ loc' \in [Tasks -> LocType]
  BY Zenon, <1>1, <1>2, MoveType DEF OpenTmp
<1> QED BY Zenon, <1>3 DEF OpenTmp, TypeOK, mem, bounds, IsFile

\* WriteTmp keeps every variable well typed.
LEMMA WriteTmpType ==
  ASSUME TypeOK, NEW t \in Tasks, WriteTmp(t)
  PROVE  TypeOK'
<1>1. loc[t] \in LocType /\ loc[t].buf \in Snapshot
  BY Zenon DEF TypeOK, LocType
<1>2. \A f : \A g \in Written(f, loc[t].buf) : IsFile(g)
  BY <1>1 DEF Written, IsFile, Holding
<1>3. IsFile(tmp)' /\ IsFile(disk)'
  <2>1. CASE tmp' \in Written(tmp, loc[t].buf) /\ UNCHANGED disk
    <3>1. IsFile(tmp')
      BY Zenon, <1>2, <2>1
    <3> QED BY Zenon, <2>1, <3>1 DEF TypeOK, IsFile
  <2>2. CASE disk' \in Written(disk, loc[t].buf) /\ UNCHANGED tmp
    <3>1. IsFile(disk')
      BY Zenon, <1>2, <2>2
    <3> QED BY Zenon, <2>2, <3>1 DEF TypeOK, IsFile
  <2>3. CASE UNCHANGED files
    BY Zenon, <2>3 DEF files, TypeOK, IsFile
  <2> QED BY Zenon, <2>1, <2>2, <2>3 DEF WriteTmp
<1>4. /\ pc' \in [Tasks -> Labels]
      /\ loc' \in [Tasks -> LocType]
      /\ lock' \in Workers \cup {None}
  <2>1. CASE loc[t].op = "detached"
    BY Zenon, <2>1, ReturnType DEF WriteTmp
  <2>2. CASE loc[t].op # "detached"
    <3>1. [loc[t] EXCEPT !.fd = "closed"] \in LocType
      BY Zenon, <1>1, LocUpdateType
    <3>2. "rename" \in Labels
      BY Zenon DEF Labels
    <3> QED BY Zenon, <2>2, <3>1, <3>2, MoveType DEF WriteTmp, TypeOK
  <2> QED BY Zenon, <2>1, <2>2
<1> QED BY Zenon, <1>3, <1>4 DEF WriteTmp, TypeOK, mem, bounds

\* A rename under open descriptors keeps the locals well typed.
LEMMA RenamedType ==
  ASSUME TypeOK
  PROVE  [u \in Tasks |-> [loc[u] EXCEPT !.fd = Renamed(@)]] \in [Tasks -> LocType]
<1> SUFFICES ASSUME NEW u \in Tasks
             PROVE  [loc[u] EXCEPT !.fd = Renamed(@)] \in LocType
  BY Zenon
<1>1. loc[u] \in LocType /\ loc[u].fd \in {"closed", "tmp", "disk", "orphan"}
  BY Zenon DEF TypeOK, LocType
<1>2. Renamed(loc[u].fd) \in {"closed", "tmp", "disk", "orphan"}
  BY Zenon, <1>1 DEF Renamed
<1> QED BY Zenon, <1>1, <1>2, LocUpdateType

\* RenameTmp keeps every variable well typed.
LEMMA RenameTmpType ==
  ASSUME TypeOK, NEW t \in Tasks, RenameTmp(t)
  PROVE  TypeOK'
<1>1. CASE AfterSave(t, loc) /\ UNCHANGED files
  BY Zenon, <1>1, AfterSaveType DEF RenameTmp, TypeOK, mem, files, bounds, IsFile
<1>2. CASE /\ disk' = tmp
           /\ tmp' = NoFile
           /\ AfterSave(t, [u \in Tasks |-> [loc[u] EXCEPT !.fd = Renamed(@)]])
  <2>1. /\ pc' \in [Tasks -> Labels]
        /\ loc' \in [Tasks -> LocType]
        /\ lock' \in Workers \cup {None}
    BY Zenon, <1>2, RenamedType, AfterSaveType
  <2> QED BY Zenon, <1>2, <2>1 DEF RenameTmp, TypeOK, mem, bounds, IsFile
<1> QED BY Zenon, <1>1, <1>2 DEF RenameTmp

\* SaveFails keeps every variable well typed.
LEMMA SaveFailsType ==
  ASSUME TypeOK, NEW t \in Tasks, SaveFails(t)
  PROVE  TypeOK'
<1>1. ops' \in 0..MaxOps
  BY BoundAssumption DEF SaveFails, TypeOK
<1> QED BY Zenon, <1>1, AfterSaveType DEF SaveFails, TypeOK, mem, files, IsFile

\* Cancel keeps every variable well typed.
LEMMA CancelType ==
  ASSUME TypeOK, NEW t \in Tasks, Cancel(t)
  PROVE  TypeOK'
<1>1. ops' \in 0..MaxOps
  BY BoundAssumption DEF Cancel, TypeOK
<1>2. CASE Return(t)
  BY Zenon, <1>2, <1>1, ReturnType DEF Cancel, TypeOK, mem, files, IsFile
<1>3. CASE /\ Set(t, [loc[t] EXCEPT !.op = "detached"])
           /\ lock' = IF lock = t THEN None ELSE lock
           /\ UNCHANGED pc
  <2>1. [loc[t] EXCEPT !.op = "detached"] \in LocType
    BY Zenon, LocUpdateType DEF TypeOK
  <2> QED BY Zenon, <1>3, <1>1, <2>1 DEF Cancel, TypeOK, mem, files, IsFile, Set
<1> QED BY Zenon, <1>2, <1>3 DEF Cancel

\* Restart keeps every variable well typed.
LEMMA RestartType ==
  ASSUME TypeOK, Restart
  PROVE  TypeOK'
<1>1. PICK acc \in SUBSET PeerIds :
        /\ Replays(acc)
        /\ roster' = [i \in PeerIds |-> IF i \in acc THEN Loaded[i] ELSE None]
        /\ view' = Bootstrapped(view, acc)
  BY Zenon DEF Restart
<1>2. roster' \in Snapshot
  BY Zenon, <1>1, LoadedType DEF Snapshot, MaybeEntry
<1>3. view' \in [Ula -> Session \cup {None}]
  <2> DEFINE at(u) == {i \in acc : Loaded[i].ula = u}
             i(u) == CHOOSE j \in at(u) : TRUE
  <2> SUFFICES ASSUME NEW u \in Ula
               PROVE  (IF at(u) = {} THEN view[u] ELSE Upserted(view, Loaded[i(u)], i(u))[u])
                        \in Session \cup {None}
    BY Zenon, <1>1 DEF Bootstrapped
  <2>1. CASE at(u) = {}
    BY Zenon, <2>1 DEF TypeOK
  <2>2. CASE at(u) # {}
    <3>1. i(u) \in acc
      BY Zenon, <2>2
    <3>2. Loaded[i(u)] \in Entry /\ i(u) \in PeerIds
      BY Zenon, <3>1, <1>1, LoadedType DEF Snapshot, MaybeEntry, Replays
    <3> HIDE DEF i
    <3>3. Upserted(view, Loaded[i(u)], i(u)) \in [Ula -> Session \cup {None}]
      BY Zenon, <3>2, ViewType DEF TypeOK
    <3> QED BY Zenon, <2>2, <3>3
  <2> QED BY Zenon, <2>1, <2>2
<1>4. "idle" \in Labels
  BY Zenon DEF Labels
<1>5. crashes' \in 0..MaxCrashes
  BY BoundAssumption DEF Restart, TypeOK
<1> QED BY Zenon, <1>2, <1>3, <1>4, <1>5, IdleLocType DEF Restart, TypeOK, files, IsFile
-----------------------------------------------------------------------------
(* The invariant.                                                          *)

\* A step that gives no peer an address, and one that no counter regresses in.
NoNewAddress ==
  \A i \in PeerIds : roster'[i] # None =>
    roster[i] # None /\ roster'[i].ula = roster[i].ula

NoRegress == \A r \in Slots : allocator[r] <= allocator'[r]

\* Nothing that task s relies on changes.
SameTask(s) ==
  /\ pc'[s] = pc[s]
  /\ loc'[s].op = loc[s].op /\ loc'[s].pk = loc[s].pk /\ loc'[s].net = loc[s].net
  /\ loc'[s].id = loc[s].id /\ loc'[s].target = loc[s].target
  /\ loc'[s].ula = loc[s].ula /\ loc'[s].ent = loc[s].ent
  /\ loc'[s].gone = loc[s].gone
  /\ lock = s => lock' = s

\* A task that does not move relies on nothing a gentle step changes.
LEMMA FrameGentle ==
  ASSUME Inv, TypeOK', NoNewAddress, NoRegress, NEW s \in Tasks, SameTask(s)
  PROVE  TaskInv(s)'
<1>1. TaskInv(s)
  BY Zenon DEF Inv
<1>2. CASE pc[s] = "rewrite" /\ loc[s].ula # None
  <2>1. loc[s].ula \in Ula /\ loc[s].ula.slot \in Slots
    BY Zenon, <1>2 DEF Inv, TypeOK, LocType, Ula
  <2>2. loc[s].ula.idx <= allocator'[loc[s].ula.slot]
    <3>1. /\ loc[s].ula.idx \in Int
          /\ allocator[loc[s].ula.slot] \in Int
          /\ allocator'[loc[s].ula.slot] \in Int
      BY <2>1, LayoutAssumption DEF Ula, Inv, TypeOK
    <3>2. loc[s].ula.idx <= allocator[loc[s].ula.slot]
      BY Zenon, <1>1, <1>2 DEF TaskInv
    <3> QED BY <2>1, <3>1, <3>2 DEF NoRegress
  <2>3. \A i \in PeerIds : roster'[i] # None /\ roster'[i].ula = loc[s].ula
                             => i = loc[s].id
    BY Zenon, <1>1, <1>2 DEF TaskInv, NoNewAddress, Live
  <2> QED BY Zenon, <1>1, <1>2, <2>2, <2>3 DEF TaskInv, SameTask, Live
<1>3. CASE pc[s] = "join"
  <2>1. loc[s].ula.slot \in Slots /\ loc[s].ula.idx \in 0..MaxIdx
    BY Zenon, <1>1, <1>3 DEF TaskInv, Ula
  <2>2. loc[s].ula.idx <= allocator[loc[s].ula.slot]
    BY Zenon, <1>1, <1>3 DEF TaskInv
  <2>3. loc[s].ula.idx <= allocator'[loc[s].ula.slot]
    BY <2>1, <2>2, LayoutAssumption DEF NoRegress, Inv, TypeOK
  <2> QED BY Zenon, <1>1, <1>3, <2>3 DEF TaskInv, SameTask
<1>4. CASE ~(pc[s] = "rewrite" /\ loc[s].ula # None) /\ pc[s] # "join"
  BY Zenon, <1>1, <1>4 DEF TaskInv, SameTask
<1> QED BY Zenon, <1>2, <1>3, <1>4

\* A step under registration_lock disturbs no other task, since no other
\* task is inside a registration.
LEMMA FrameLocked ==
  ASSUME Inv, NEW t \in Tasks, lock = t, NEW s \in Tasks, s # t, SameTask(s)
  PROVE  TaskInv(s)'
<1>1. TaskInv(s) /\ loc[s].op # "register"
  BY Zenon DEF Inv, TaskInv
<1> QED BY Zenon, <1>1 DEF TaskInv, SameTask

\* A gentle step keeps addresses unique and counters ahead.
LEMMA KeepsUniqueness ==
  ASSUME Inv, TypeOK', NoNewAddress, NoRegress
  PROVE  UlaUnique' /\ AllocatorCoversRoster'
<1>1. UlaUnique'
  BY Zenon DEF Inv, UlaUnique, NoNewAddress, Live
<1>2. ASSUME NEW i \in PeerIds, roster'[i] # None
      PROVE  roster'[i].ula.idx <= allocator'[roster'[i].ula.slot]
  <2>1. roster[i] # None /\ roster'[i].ula = roster[i].ula
    BY Zenon, <1>2 DEF NoNewAddress
  <2>2. roster[i].ula \in Ula
    BY Zenon, <2>1 DEF Inv, TypeOK, Snapshot, MaybeEntry, Entry
  <2>3. roster[i].ula.idx <= allocator[roster[i].ula.slot]
    BY Zenon, <2>1 DEF Inv, AllocatorCoversRoster, Live
  <2>4. roster[i].ula.slot \in Slots /\ roster[i].ula.idx \in Int
    BY <2>2, LayoutAssumption DEF Ula
  <2>5. /\ allocator[roster[i].ula.slot] \in Int
        /\ allocator'[roster[i].ula.slot] \in Int
    BY <2>4, LayoutAssumption DEF Inv, TypeOK
  <2> QED BY <2>1, <2>3, <2>4, <2>5 DEF NoRegress
<1> QED BY Zenon, <1>1, <1>2 DEF AllocatorCoversRoster, Live

\* The pattern of most actions: task t moves, nobody gets an address.
LEMMA GentleStep ==
  ASSUME Inv, TypeOK', NoNewAddress, NoRegress, NEW t \in Tasks, TaskInv(t)',
         \A s \in Tasks \ {t} : SameTask(s)
  PROVE  Inv'
<1>1. \A s \in Tasks : TaskInv(s)'
  BY Zenon, FrameGentle
<1> QED BY Zenon, <1>1, KeepsUniqueness DEF Inv

\* Other tasks do not notice that t moves.
LEMMA OthersSame ==
  ASSUME TypeOK, NEW t \in Tasks, NEW l, NEW label, Goto(t, label), Set(t, l),
         lock' = lock \/ lock = None \/ lock = t
  PROVE  \A s \in Tasks \ {t} : SameTask(s)
  BY Zenon, NoneAssumption DEF TypeOK, Goto, Set, SameTask, Tasks

\* A handler that returns preserves the invariant.
LEMMA ReturnStep ==
  ASSUME Inv, TypeOK', NoNewAddress, NoRegress, NEW t \in Tasks, Return(t)
  PROVE  Inv'
<1>1. \A s \in Tasks \ {t} : SameTask(s)
  <2>1. lock' = lock \/ lock = t
    BY Zenon DEF Return
  <2> QED BY Zenon, <2>1, OthersSame DEF Return, Inv
<1>2. TaskInv(t)'
  BY Zenon DEF TaskInv, Return, Goto, Set, Inv, TypeOK, IdleLoc
<1> QED BY Zenon, <1>1, <1>2, GentleStep

\* A step that leaves the shared maps alone is gentle.
LEMMA UnchangedIsGentle ==
  ASSUME TypeOK
  PROVE  /\ UNCHANGED roster => NoNewAddress
         /\ UNCHANGED allocator => NoRegress
<1>1. UNCHANGED roster => NoNewAddress
  BY Zenon DEF NoNewAddress
<1>2. \A r \in Slots : allocator[r] \in Int
  BY LayoutAssumption DEF TypeOK
<1>3. UNCHANGED allocator => NoRegress
  BY <1>2 DEF NoRegress
<1> QED BY Zenon, <1>1, <1>3

\* Register preserves the inductive invariant.
LEMMA RegisterInv ==
  ASSUME Inv, NEW t \in Workers, Register(t)
  PROVE  Inv'
<1> t \in Tasks
  BY Zenon DEF Tasks
<1>1. TypeOK'
  BY Zenon, RegisterType DEF Inv
<1>2. PICK k \in Pubkeys, n \in Networks, a \in Requestable \cup {None} :
        /\ Set(t, [IdleLoc EXCEPT !.op = "register", !.pk = k, !.net = n,
                                  !.ask = a, !.id = byPubkey[k]])
        /\ Goto(t, IF byPubkey[k] = None THEN "evict" ELSE "refresh")
  BY Zenon DEF Register
<1>3. NoNewAddress /\ NoRegress
  BY Zenon, UnchangedIsGentle DEF Register, mem, Inv
<1>4. \A s \in Tasks \ {t} : SameTask(s)
  BY Zenon, <1>2, OthersSame DEF Register, Inv
<1>5. /\ loc'[t].op = "register" /\ loc'[t].pk = k /\ loc'[t].net = n
      /\ loc'[t].id = byPubkey[k] /\ loc'[t].ula = None
  BY Zenon, <1>2 DEF Set, IdleLoc, Inv, TypeOK
<1>6. pc'[t] = IF byPubkey[k] = None THEN "evict" ELSE "refresh"
  BY Zenon, <1>2 DEF Goto, Inv, TypeOK
<1>7. TaskInv(t)'
  BY Zenon, <1>5, <1>6 DEF TaskInv, Register, Inv, TypeOK
<1> QED BY Zenon, <1>1, <1>3, <1>4, <1>7, GentleStep

\* refresh_existing before its write guard: the address a re-home draws is
\* past every counter, and the scan finds no other holder.
LEMMA RefreshInv ==
  ASSUME Inv, NEW t \in Tasks, Refresh(t)
  PROVE  Inv'
<1> DEFINE slot == NetworkSlot[loc[t].net]
           u == AddressFor(slot, allocator[slot] + 1)
<1>1. TypeOK' /\ TypeOK /\ TaskInv(t) /\ pc[t] = "refresh"
  BY Zenon, RefreshType DEF Inv, Refresh
<1>2. loc[t] \in LocType /\ slot \in Slots
  BY Zenon, <1>1, LayoutAssumption DEF TypeOK, TaskInv
<1>3. NoNewAddress
  BY Zenon, <1>1, UnchangedIsGentle DEF Refresh
<1>4. NoRegress
  <2>1. CASE UNCHANGED allocator
    BY Zenon, <1>1, <2>1, UnchangedIsGentle
  <2>2. CASE allocator' = [allocator EXCEPT ![slot] = @ + 1]
    BY <1>1, <2>2, LayoutAssumption DEF TypeOK, NoRegress
  <2> QED BY Zenon, <2>1, <2>2 DEF Refresh
<1>5. CASE Return(t)
  BY Zenon, <1>1, <1>3, <1>4, <1>5, ReturnStep
<1>6. CASE Goto(t, "rewrite") /\ UNCHANGED <<allocator, lock, loc>>
  <2>1. \A s \in Tasks \ {t} : SameTask(s)
    BY Zenon, <1>1, <1>6 DEF SameTask, Goto, TypeOK
  <2>2. TaskInv(t)'
    BY Zenon, <1>1, <1>6 DEF TaskInv, Goto, TypeOK
  <2> QED BY Zenon, <1>1, <1>3, <1>4, <2>1, <2>2, GentleStep
<1>7. CASE /\ allocator' = [allocator EXCEPT ![slot] = @ + 1]
           /\ ~HeldByOther(u, loc[t].id)
           /\ Goto(t, "rewrite")
           /\ Set(t, [loc[t] EXCEPT !.ula = u])
           /\ UNCHANGED <<roster, lock>>
  <2>1. \A s \in Tasks \ {t} : SameTask(s)
    BY Zenon, <1>1, <1>7, OthersSame
  <2>2. /\ pc'[t] = "rewrite" /\ loc'[t].ula = u
        /\ loc'[t].op = loc[t].op /\ loc'[t].pk = loc[t].pk
        /\ loc'[t].net = loc[t].net /\ loc'[t].id = loc[t].id
    BY ZenonT(60), <1>1, <1>2, <1>7 DEF Goto, Set, TypeOK, LocType
  <2>3. u.slot = slot /\ u.idx = allocator[slot] + 1
    BY Zenon DEF AddressFor
  <2>4. u.idx <= allocator'[u.slot]
    <3>1. allocator \in [Slots -> 0..MaxIdx]
      BY Zenon, <1>1 DEF TypeOK
    <3>2. allocator'[slot] = allocator[slot] + 1 /\ allocator[slot] \in Int
      BY <1>2, <1>7, <3>1, LayoutAssumption
    <3> HIDE DEF u, slot
    <3>3. u.idx <= allocator'[slot]
      BY <2>3, <3>2
    <3> QED BY Zenon, <2>3, <3>3
  <2>5. \A i \in PeerIds : roster[i] # None /\ roster[i].ula = u => i = loc[t].id
    BY Zenon, <1>7 DEF HeldByOther, Holders, Live
  <2>6. TaskInv(t)'
    BY Zenon, <1>1, <1>7, <2>2, <2>4, <2>5 DEF TaskInv, Live
  <2> QED BY Zenon, <1>1, <1>3, <1>4, <2>1, <2>6, GentleStep
<1> QED BY Zenon, <1>5, <1>6, <1>7 DEF Refresh

\* refresh_existing under the write guard: nobody took the new address since
\* the scan.
LEMMA RewriteInv ==
  ASSUME Inv, NEW t \in Tasks, Rewrite(t)
  PROVE  Inv'
<1> DEFINE i == loc[t].id
           e == Refreshed(roster[i], loc[t])
<1>1. TypeOK' /\ TypeOK /\ TaskInv(t) /\ pc[t] = "rewrite"
  BY Zenon, RewriteType DEF Inv, Rewrite
<1>2. i \in PeerIds /\ loc[t] \in LocType /\ lock = t
  BY Zenon, <1>1 DEF TaskInv, TypeOK
<1>3. NoRegress
  BY Zenon, <1>1, UnchangedIsGentle DEF Rewrite
<1>4. CASE roster[i] = None
  BY Zenon, <1>1, <1>3, <1>4, UnchangedIsGentle, ReturnStep DEF Rewrite
<1>5. CASE roster[i] # None
  <2>1. /\ roster' = [roster EXCEPT ![i] = e]
        /\ Set(t, [loc[t] EXCEPT !.ent = e])
        /\ Goto(t, IF loc[t].ula = None THEN "announce" ELSE "moved")
        /\ UNCHANGED <<allocator, lock>>
    BY Zenon, <1>5 DEF Rewrite
  <2>2. roster[i] \in Entry /\ e \in Entry
    BY Zenon, <1>1, <1>2, <1>5, RefreshedType DEF TypeOK, Snapshot, MaybeEntry, TaskInv
  <2>3. e.ula = IF loc[t].ula = None THEN roster[i].ula ELSE loc[t].ula
    BY Zenon, <2>2 DEF Refreshed, Entry
  <2>4. \A s \in Tasks \ {t} : TaskInv(s)'
    BY Zenon, <1>1, <1>2, <2>1, OthersSame, FrameLocked
  <2>5. /\ loc'[t].op = loc[t].op /\ loc'[t].pk = loc[t].pk
        /\ loc'[t].net = loc[t].net /\ loc'[t].id = i /\ loc'[t].ent = e
    BY <1>1, <1>2, <2>1 DEF Set, TypeOK, LocType
  <2>6. pc'[t] = IF loc[t].ula = None THEN "announce" ELSE "moved"
    BY Zenon, <1>1, <2>1 DEF Goto, TypeOK
  <2>7. TaskInv(t)'
    BY Zenon, <1>1, <1>2, <2>1, <2>2, <2>5, <2>6 DEF TaskInv
  <2>8. \A j \in PeerIds : roster'[j] = IF j = i THEN e ELSE roster[j]
    BY Zenon, <1>1, <2>1 DEF TypeOK, Snapshot
  <2>9. CASE loc[t].ula = None
    <3>1. NoNewAddress
      BY Zenon, <1>5, <2>3, <2>8, <2>9 DEF NoNewAddress
    <3> QED BY Zenon, <1>1, <1>3, <2>4, <2>7, <3>1, KeepsUniqueness DEF Inv
  <2>10. CASE loc[t].ula # None
    <3>1. \A j \in PeerIds : roster[j] # None /\ roster[j].ula = e.ula => j = i
      BY Zenon, <1>1, <2>3, <2>10 DEF TaskInv, Live
    <3>2. UlaUnique'
      BY <2>8, <3>1 DEF UlaUnique, Live, Inv
    <3>3. e.ula.idx <= allocator[e.ula.slot]
      BY Zenon, <1>1, <2>3, <2>10 DEF TaskInv
    <3>4. AllocatorCoversRoster'
      BY Zenon, <2>1, <2>8, <3>3 DEF AllocatorCoversRoster, Live, Inv
    <3> QED BY Zenon, <1>1, <2>4, <2>7, <3>2, <3>4 DEF Inv
  <2> QED BY Zenon, <2>9, <2>10
<1> QED BY Zenon, <1>4, <1>5
\* Moved preserves the inductive invariant.
LEMMA MovedInv ==
  ASSUME Inv, NEW t \in Tasks, Moved(t)
  PROVE  Inv'
<1>1. TypeOK' /\ TypeOK /\ TaskInv(t) /\ pc[t] = "moved"
  BY Zenon, MovedType DEF Inv, Moved
<1>2. NoNewAddress /\ NoRegress
  BY Zenon, <1>1, UnchangedIsGentle DEF Moved, mem
<1>3. \A s \in Tasks \ {t} : SameTask(s)
  BY Zenon, <1>1 DEF SameTask, Moved, Goto, TypeOK
<1>4. TaskInv(t)'
  BY Zenon, <1>1 DEF TaskInv, Moved, Goto, TypeOK
<1> QED BY Zenon, <1>1, <1>2, <1>3, <1>4, GentleStep

\* Announce preserves the inductive invariant.
LEMMA AnnounceInv ==
  ASSUME Inv, NEW t \in Tasks, Announce(t)
  PROVE  Inv'
<1>1. TypeOK' /\ TypeOK /\ TaskInv(t) /\ pc[t] = "announce"
  BY Zenon, AnnounceType DEF Inv, Announce
<1>2. NoNewAddress /\ NoRegress
  BY Zenon, <1>1, UnchangedIsGentle DEF Announce, mem
<1>3. CASE loc[t].ula = None
  BY Zenon, <1>1, <1>2, <1>3, ReturnStep DEF Announce
<1>4. CASE loc[t].ula # None
  <2>1. \A s \in Tasks \ {t} : SameTask(s)
    BY Zenon, <1>1, <1>4 DEF SameTask, Announce, Goto, TypeOK
  <2>2. TaskInv(t)'
    BY Zenon, <1>1, <1>4 DEF TaskInv, Announce, Goto, TypeOK
  <2> QED BY Zenon, <1>1, <1>2, <2>1, <2>2, GentleStep
<1> QED BY Zenon, <1>3, <1>4

\* FindStaleHolder preserves the inductive invariant.
LEMMA FindStaleHolderInv ==
  ASSUME Inv, NEW t \in Tasks, FindStaleHolder(t)
  PROVE  Inv'
<1>1. TypeOK' /\ TypeOK /\ TaskInv(t) /\ pc[t] = "evict" /\ loc[t] \in LocType
  BY Zenon, FindStaleHolderType DEF Inv, FindStaleHolder, TypeOK
<1>2. NoNewAddress /\ NoRegress
  BY Zenon, <1>1, UnchangedIsGentle DEF FindStaleHolder, mem
<1>3. CASE Goto(t, "resolve") /\ UNCHANGED loc
  <2>1. \A s \in Tasks \ {t} : SameTask(s)
    BY Zenon, <1>1, <1>3 DEF SameTask, FindStaleHolder, Goto, TypeOK
  <2>2. TaskInv(t)'
    BY Zenon, <1>1, <1>3 DEF TaskInv, FindStaleHolder, Goto, TypeOK
  <2> QED BY Zenon, <1>1, <1>2, <2>1, <2>2, GentleStep
<1>4. ASSUME NEW i \in PeerIds,
             Goto(t, "evicted"), Set(t, [loc[t] EXCEPT !.target = i])
      PROVE  Inv'
  <2>1. \A s \in Tasks \ {t} : SameTask(s)
    BY Zenon, <1>1, <1>4, OthersSame DEF FindStaleHolder
  <2>2. /\ pc'[t] = "evicted" /\ loc'[t].op = loc[t].op
        /\ loc'[t].pk = loc[t].pk /\ loc'[t].net = loc[t].net
        /\ loc'[t].target = i
    BY <1>1, <1>4 DEF Goto, Set, TypeOK, LocType
  <2>3. TaskInv(t)'
    BY Zenon, <1>1, <2>2 DEF TaskInv, FindStaleHolder
  <2> QED BY Zenon, <1>1, <1>2, <2>1, <2>3, GentleStep
<1> QED BY Zenon, <1>3, <1>4 DEF FindStaleHolder, Holders, Live

\* Evicted preserves the inductive invariant.
LEMMA EvictedInv ==
  ASSUME Inv, NEW t \in Tasks, Evicted(t)
  PROVE  Inv'
<1>1. TypeOK' /\ TypeOK /\ TaskInv(t) /\ pc[t] = "evicted"
  BY Zenon, EvictedType DEF Inv, Evicted
<1>2. NoNewAddress /\ NoRegress
  BY Zenon, <1>1, UnchangedIsGentle DEF Evicted, mem
<1>3. \A s \in Tasks \ {t} : SameTask(s)
  BY Zenon, <1>1 DEF SameTask, Evicted, Goto, TypeOK
<1>4. TaskInv(t)'
  BY Zenon, <1>1 DEF TaskInv, Evicted, Goto, TypeOK
<1> QED BY Zenon, <1>1, <1>2, <1>3, <1>4, GentleStep

\* ResolveUla preserves the inductive invariant.
LEMMA ResolveUlaInv ==
  ASSUME Inv, NEW t \in Tasks, ResolveUla(t)
  PROVE  Inv'
<1> DEFINE a == loc[t].ask
           slot == NetworkSlot[loc[t].net]
<1>1. TypeOK' /\ TypeOK /\ TaskInv(t) /\ pc[t] = "resolve" /\ loc[t] \in LocType
  BY Zenon, ResolveUlaType DEF Inv, ResolveUla, TypeOK
<1>2. slot \in Slots
  BY Zenon, <1>1, LayoutAssumption DEF TaskInv
<1>3. NoNewAddress
  BY Zenon, <1>1, UnchangedIsGentle DEF ResolveUla
<1>4. NoRegress
  <2>1. CASE UNCHANGED allocator
    BY Zenon, <1>1, <2>1, UnchangedIsGentle
  <2>2. CASE allocator' = [allocator EXCEPT ![slot] = @ + 1]
    BY <1>1, <2>2, LayoutAssumption DEF TypeOK, NoRegress
  <2>3. CASE a # None /\ allocator' = Bump(allocator, a.slot, a.idx)
    <3>1. a.slot \in Slots /\ a.idx \in 0..MaxIdx
      BY Zenon, <1>1, <2>3 DEF LocType, Ula
    <3> QED BY Zenon, <1>1, <2>3, <3>1, BumpType DEF TypeOK, NoRegress
  <2> QED BY Zenon, <2>1, <2>2, <2>3 DEF ResolveUla
<1>5. CASE Return(t)
  BY Zenon, <1>1, <1>3, <1>4, <1>5, ReturnStep
<1>6. ASSUME NEW i \in PeerIds, NEW u,
             Set(t, [loc[t] EXCEPT !.id = i, !.ula = u]),
             Goto(t, "join"), UNCHANGED lock, u # None,
             u.idx <= allocator'[u.slot]
      PROVE  Inv'
  <2>1. \A s \in Tasks \ {t} : SameTask(s)
    BY Zenon, <1>1, <1>6, OthersSame
  <2>2. /\ pc'[t] = "join" /\ loc'[t].op = loc[t].op
        /\ loc'[t].pk = loc[t].pk /\ loc'[t].net = loc[t].net
        /\ loc'[t].id = i /\ loc'[t].ula = u
    BY <1>1, <1>6 DEF Goto, Set, TypeOK, LocType
  <2>3. loc'[t].ula \in Ula
    BY Zenon, <1>1, <1>6, <2>2 DEF TypeOK, LocType
  <2>4. TaskInv(t)'
    BY Zenon, <1>1, <1>6, <2>2, <2>3 DEF TaskInv
  <2> QED BY Zenon, <1>1, <1>3, <1>4, <2>1, <2>4, GentleStep
<1>7. a # None /\ allocator' = Bump(allocator, a.slot, a.idx)
        => a.idx <= allocator'[a.slot]
  <2> SUFFICES ASSUME a # None, allocator' = Bump(allocator, a.slot, a.idx)
               PROVE  a.idx <= allocator'[a.slot]
    BY Zenon
  <2>1. a.slot \in Slots /\ a.idx \in 0..MaxIdx
    BY Zenon, <1>1 DEF LocType, Ula
  <2> QED BY Zenon, <1>1, <2>1, BumpType DEF TypeOK
<1>8. ASSUME ~Exhausted(slot), allocator' = [allocator EXCEPT ![slot] = @ + 1]
      PROVE  LET u == AddressFor(slot, allocator[slot] + 1) IN
             u # None /\ u.idx <= allocator'[u.slot]
  <2>1. allocator[slot] + 1 \in 0..MaxIdx
    BY <1>1, <1>2, <1>8, LayoutAssumption DEF TypeOK, Exhausted
  <2>2. AddressFor(slot, allocator[slot] + 1) # None
    BY Zenon, <1>2, <2>1, AddressForType, NoneAssumption
  <2>3. /\ AddressFor(slot, allocator[slot] + 1).slot = slot
        /\ AddressFor(slot, allocator[slot] + 1).idx = allocator[slot] + 1
    BY Zenon DEF AddressFor
  <2>4. allocator'[slot] = allocator[slot] + 1
    BY Zenon, <1>1, <1>2, <1>8 DEF TypeOK
  <2>5. allocator[slot] + 1 <= allocator'[slot]
    BY <2>1, <2>4
  <2> QED BY Zenon, <2>2, <2>3, <2>5
<1> QED BY Zenon, <1>5, <1>6, <1>7, <1>8 DEF ResolveUla

\* apply_peer_joined inserts only an address no other entry holds.
LEMMA ApplyPeerJoinedInv ==
  ASSUME Inv, NEW t \in Tasks, ApplyPeerJoined(t)
  PROVE  Inv'
<1> DEFINE i == loc[t].id
           e == [pk |-> loc[t].pk, ula |-> loc[t].ula, net |-> loc[t].net,
                 fresh |-> TRUE]
<1>1. TypeOK' /\ TypeOK /\ TaskInv(t) /\ pc[t] = "join" /\ loc[t] \in LocType
  BY Zenon, ApplyPeerJoinedType DEF Inv, ApplyPeerJoined, TypeOK
<1>2. i \in PeerIds /\ lock = t /\ e \in Entry /\ e.ula \in Ula /\ e.ula = loc[t].ula
  BY Zenon, <1>1 DEF TaskInv, Entry
<1>3. CASE HeldByOther(e.ula, i)
  BY Zenon, <1>1, <1>3, UnchangedIsGentle, ReturnStep DEF ApplyPeerJoined
<1>4. CASE ~HeldByOther(e.ula, i)
  <2>1. /\ roster' = [roster EXCEPT ![i] = e]
        /\ Set(t, [loc[t] EXCEPT !.ent = e])
        /\ Goto(t, "index")
        /\ UNCHANGED <<allocator, lock>>
    BY Zenon, <1>4 DEF ApplyPeerJoined
  <2>2. \A s \in Tasks \ {t} : TaskInv(s)'
    BY Zenon, <1>1, <1>2, <2>1, OthersSame, FrameLocked
  <2>3. /\ pc'[t] = "index" /\ loc'[t].op = loc[t].op
        /\ loc'[t].pk = loc[t].pk /\ loc'[t].net = loc[t].net
        /\ loc'[t].id = i /\ loc'[t].ula = loc[t].ula /\ loc'[t].ent = e
    <3>1. pc \in [Tasks -> Labels] /\ loc \in [Tasks -> LocType]
      BY Zenon, <1>1 DEF TypeOK
    <3>2. pc'[t] = "index" /\ loc'[t] = [loc[t] EXCEPT !.ent = e]
      BY Zenon, <2>1, <3>1 DEF Goto, Set
    <3> QED BY Zenon, <1>1, <3>2 DEF LocType
  <2>4. TaskInv(t)'
    BY Zenon, <1>1, <1>2, <2>1, <2>3 DEF TaskInv
  <2>5. \A j \in PeerIds : roster'[j] = IF j = i THEN e ELSE roster[j]
    <3>1. roster \in [PeerIds -> MaybeEntry]
      BY Zenon, <1>1 DEF TypeOK, Snapshot
    <3> QED BY Zenon, <2>1, <3>1
  <2>6. \A j \in PeerIds : roster[j] # None /\ roster[j].ula = e.ula => j = i
    BY Zenon, <1>4 DEF HeldByOther, Holders, Live
  <2>7. UlaUnique'
    BY <2>5, <2>6 DEF UlaUnique, Live, Inv
  <2>8. e.ula.idx <= allocator[e.ula.slot]
    BY Zenon, <1>1, <1>2 DEF TaskInv
  <2>9. AllocatorCoversRoster'
    BY ZenonT(40), <2>1, <2>5, <2>8 DEF AllocatorCoversRoster, Live, Inv
  <2> QED BY Zenon, <1>1, <2>2, <2>4, <2>7, <2>9 DEF Inv
<1> QED BY Zenon, <1>3, <1>4

\* IndexPeer preserves the inductive invariant.
LEMMA IndexPeerInv ==
  ASSUME Inv, NEW t \in Tasks, IndexPeer(t)
  PROVE  Inv'
<1>1. TypeOK' /\ TypeOK /\ TaskInv(t) /\ pc[t] = "index"
  BY Zenon, IndexPeerType DEF Inv, IndexPeer
<1>2. NoNewAddress
  BY Zenon, <1>1, UnchangedIsGentle DEF IndexPeer
<1>3. NoRegress
  <2>1. loc[t].ula.slot \in Slots /\ loc[t].ula.idx \in 0..MaxIdx
    BY Zenon, <1>1 DEF TaskInv, Ula
  <2> QED BY Zenon, <1>1, <2>1, BumpType DEF IndexPeer, TypeOK, NoRegress
<1>4. \A s \in Tasks \ {t} : SameTask(s)
  BY Zenon, <1>1 DEF SameTask, IndexPeer, Goto, TypeOK
<1>5. TaskInv(t)'
  BY Zenon, <1>1 DEF TaskInv, IndexPeer, Goto, TypeOK
<1> QED BY Zenon, <1>1, <1>2, <1>3, <1>4, <1>5, GentleStep

\* Deregister preserves the inductive invariant.
LEMMA DeregisterInv ==
  ASSUME Inv, NEW t \in Tasks, Deregister(t)
  PROVE  Inv'
<1>1. TypeOK' /\ TypeOK
  BY Zenon, DeregisterType DEF Inv
<1>2. NoNewAddress /\ NoRegress
  BY Zenon, <1>1, UnchangedIsGentle DEF Deregister, mem
<1>3. PICK i \in PeerIds :
        Set(t, [IdleLoc EXCEPT !.op = "deregister", !.target = i])
  BY Zenon DEF Deregister, Live
<1>4. \A s \in Tasks \ {t} : SameTask(s)
  BY Zenon, <1>1, <1>3, OthersSame DEF Deregister
<1>5. pc'[t] = "leave" /\ loc'[t].op = "deregister" /\ loc'[t].target = i
  BY Zenon, <1>1, <1>3 DEF Deregister, Goto, Set, TypeOK, IdleLoc
<1>6. TaskInv(t)'
  BY Zenon, <1>5 DEF TaskInv
<1> QED BY Zenon, <1>1, <1>2, <1>4, <1>6, GentleStep

\* Leave preserves the inductive invariant.
LEMMA LeaveInv ==
  ASSUME Inv, NEW t \in Tasks, Leave(t)
  PROVE  Inv'
<1> DEFINE i == loc[t].target
<1>1. TypeOK' /\ TypeOK /\ TaskInv(t) /\ pc[t] = "leave" /\ loc[t] \in LocType
  BY Zenon, LeaveType DEF Inv, Leave, TypeOK
<1>2. i \in PeerIds /\ NoRegress
  BY Zenon, <1>1, UnchangedIsGentle DEF TaskInv, Leave
<1>3. CASE roster[i] = None
  <2>1. NoNewAddress
    BY Zenon, <1>1, <1>3, UnchangedIsGentle DEF Leave
  <2>2. \A s \in Tasks \ {t} : SameTask(s)
    BY Zenon, <1>1, <1>3 DEF SameTask, Leave, Goto, TypeOK
  <2>3. pc'[t] \in {"collect", "departed"} /\ UNCHANGED <<loc, lock>>
    BY Zenon, <1>1, <1>3 DEF Leave, Goto, TypeOK
  <2>4. TaskInv(t)'
    BY Zenon, <1>1, <1>2, <2>3 DEF TaskInv
  <2> QED BY Zenon, <1>1, <1>2, <2>1, <2>2, <2>4, GentleStep
<1>4. CASE roster[i] # None
  <2>1. /\ roster' = [roster EXCEPT ![i] = None]
        /\ Set(t, [loc[t] EXCEPT !.gone = roster[i].pk])
        /\ Goto(t, "unindex")
        /\ UNCHANGED lock
    BY Zenon, <1>4 DEF Leave
  <2>2. NoNewAddress
    BY Zenon, <1>1, <2>1 DEF NoNewAddress, TypeOK, Snapshot
  <2>3. \A s \in Tasks \ {t} : SameTask(s)
    BY Zenon, <1>1, <2>1, OthersSame
  <2>4. /\ pc'[t] = "unindex" /\ loc'[t].op = loc[t].op
        /\ loc'[t].pk = loc[t].pk /\ loc'[t].net = loc[t].net
        /\ loc'[t].gone = roster[i].pk /\ loc'[t].target = i
    BY Zenon, <1>1, <2>1 DEF Goto, Set, TypeOK, LocType
  <2>5. roster[i].pk \in Pubkeys
    BY Zenon, <1>1, <1>2, <1>4 DEF TypeOK, Snapshot, MaybeEntry, Entry
  <2>6. TaskInv(t)'
    BY Zenon, <1>1, <1>2, <2>1, <2>4, <2>5 DEF TaskInv
  <2> QED BY Zenon, <1>1, <1>2, <2>2, <2>3, <2>6, GentleStep
<1> QED BY Zenon, <1>3, <1>4

\* Unindex preserves the inductive invariant.
LEMMA UnindexInv ==
  ASSUME Inv, NEW t \in Tasks, Unindex(t)
  PROVE  Inv'
<1>1. TypeOK' /\ TypeOK /\ TaskInv(t) /\ pc[t] = "unindex" /\ loc[t] \in LocType
  BY Zenon, UnindexType DEF Inv, Unindex, TypeOK
<1>2. NoNewAddress /\ NoRegress
  BY Zenon, <1>1, UnchangedIsGentle DEF Unindex
<1>3. \A s \in Tasks \ {t} : SameTask(s)
  BY Zenon, <1>1, OthersSame DEF Unindex
<1>4. /\ pc'[t] = IF loc[t].op = "register" THEN "collect" ELSE "departed"
      /\ loc'[t].op = loc[t].op /\ loc'[t].pk = loc[t].pk
      /\ loc'[t].net = loc[t].net /\ loc'[t].target = loc[t].target
  BY Zenon, <1>1 DEF Unindex, Goto, Set, TypeOK, LocType
<1>5. TaskInv(t)'
  BY Zenon, <1>1, <1>4 DEF TaskInv, Unindex
<1> QED BY Zenon, <1>1, <1>2, <1>3, <1>5, GentleStep

\* Departed preserves the inductive invariant.
LEMMA DepartedInv ==
  ASSUME Inv, NEW t \in Tasks, Departed(t)
  PROVE  Inv'
<1>1. TypeOK' /\ TypeOK /\ TaskInv(t) /\ pc[t] = "departed"
  BY Zenon, DepartedType DEF Inv, Departed
<1>2. NoNewAddress /\ NoRegress
  BY Zenon, <1>1, UnchangedIsGentle DEF Departed, mem
<1>3. \A s \in Tasks \ {t} : SameTask(s)
  BY Zenon, <1>1 DEF SameTask, Departed, Goto, TypeOK
<1>4. TaskInv(t)'
  BY Zenon, <1>1 DEF TaskInv, Departed, Goto, TypeOK
<1> QED BY Zenon, <1>1, <1>2, <1>3, <1>4, GentleStep

\* Heartbeat preserves the inductive invariant.
LEMMA HeartbeatInv ==
  ASSUME Inv, NEW t \in Tasks, NEW i \in PeerIds, Heartbeat(t, i)
  PROVE  Inv'
<1>1. TypeOK' /\ TypeOK
  BY Zenon, HeartbeatType DEF Inv
<1>2. NoNewAddress
  BY Zenon, <1>1, StampType DEF Heartbeat, NoNewAddress
<1>3. NoRegress
  BY Zenon, <1>1, UnchangedIsGentle DEF Heartbeat
<1>4. \A s \in Tasks \ {t} : SameTask(s)
  BY Zenon, <1>1, OthersSame DEF Heartbeat
<1>5. pc'[t] = "reread" /\ loc'[t].op = "heartbeat" /\ loc'[t].target = i
  BY Zenon, <1>1 DEF Heartbeat, Goto, Set, TypeOK, IdleLoc
<1>6. TaskInv(t)'
  BY Zenon, <1>5 DEF TaskInv
<1> QED BY Zenon, <1>1, <1>2, <1>3, <1>4, <1>6, GentleStep

\* Reread preserves the inductive invariant.
LEMMA RereadInv ==
  ASSUME Inv, NEW t \in Tasks, Reread(t)
  PROVE  Inv'
<1> DEFINE i == loc[t].target
<1>1. TypeOK' /\ TypeOK /\ TaskInv(t) /\ pc[t] = "reread" /\ loc[t] \in LocType
  BY Zenon, RereadType DEF Inv, Reread, TypeOK
<1>2. NoNewAddress /\ NoRegress
  BY Zenon, <1>1, UnchangedIsGentle DEF Reread, mem
<1>3. CASE roster[i] = None
  BY Zenon, <1>1, <1>2, <1>3, ReturnStep DEF Reread
<1>4. CASE roster[i] # None
  <2>1. /\ Set(t, [loc[t] EXCEPT !.id = i, !.ent = roster[i]])
        /\ Goto(t, "announce")
        /\ UNCHANGED lock
    BY Zenon, <1>4 DEF Reread
  <2>2. \A s \in Tasks \ {t} : SameTask(s)
    BY Zenon, <1>1, <2>1, OthersSame
  <2>3. i \in PeerIds /\ roster[i] \in Entry
    BY Zenon, <1>1, <1>4 DEF TaskInv, TypeOK, Snapshot, MaybeEntry
  <2>4. /\ pc'[t] = "announce" /\ loc'[t].op = loc[t].op
        /\ loc'[t].pk = loc[t].pk /\ loc'[t].net = loc[t].net
        /\ loc'[t].id = i /\ loc'[t].ent = roster[i]
    BY Zenon, <1>1, <2>1 DEF Goto, Set, TypeOK, LocType
  <2>5. TaskInv(t)'
    BY Zenon, <1>1, <2>1, <2>3, <2>4 DEF TaskInv
  <2> QED BY Zenon, <1>1, <1>2, <2>2, <2>5, GentleStep
<1> QED BY Zenon, <1>3, <1>4

\* Age preserves the inductive invariant.
LEMMA AgeInv ==
  ASSUME Inv, NEW i \in PeerIds, Age(i)
  PROVE  Inv'
<1>1. TypeOK' /\ TypeOK
  BY Zenon, AgeType DEF Inv
<1>2. NoNewAddress
  BY Zenon, <1>1, StampType DEF Age, NoNewAddress
<1>3. NoRegress
  BY Zenon, <1>1, UnchangedIsGentle DEF Age
<1>4. \A s \in Tasks : SameTask(s)
  BY Zenon DEF SameTask, Age
<1>5. \A s \in Tasks : TaskInv(s)'
  BY Zenon, <1>1, <1>2, <1>3, <1>4, FrameGentle
<1> QED BY Zenon, <1>1, <1>2, <1>3, <1>5, KeepsUniqueness DEF Inv

\* StartSweep preserves the inductive invariant.
LEMMA StartSweepInv ==
  ASSUME Inv, StartSweep
  PROVE  Inv'
<1>1. TypeOK' /\ TypeOK /\ Sweeper \in Tasks
  BY Zenon, StartSweepType DEF Inv, Tasks
<1>2. NoNewAddress /\ NoRegress
  BY Zenon, <1>1, UnchangedIsGentle DEF StartSweep, mem
<1>3. \A s \in Tasks \ {Sweeper} : SameTask(s)
  BY Zenon, <1>1, OthersSame DEF StartSweep
<1>4. pc'[Sweeper] = "next" /\ loc'[Sweeper].op = "sweep"
  BY Zenon, <1>1 DEF StartSweep, Goto, Set, TypeOK, IdleLoc
<1>5. TaskInv(Sweeper)'
  BY Zenon, <1>4 DEF TaskInv
<1> QED BY Zenon, <1>1, <1>2, <1>3, <1>5, GentleStep

\* SweepNext preserves the inductive invariant.
LEMMA SweepNextInv ==
  ASSUME Inv, SweepNext
  PROVE  Inv'
<1>1. /\ TypeOK' /\ TypeOK /\ Sweeper \in Tasks /\ TaskInv(Sweeper)
      /\ loc[Sweeper] \in LocType
  BY Zenon, SweepNextType DEF Inv, Tasks, TypeOK
<1>2. NoNewAddress /\ NoRegress
  BY Zenon, <1>1, UnchangedIsGentle DEF SweepNext, mem
<1>3. CASE Return(Sweeper)
  BY Zenon, <1>1, <1>2, <1>3, ReturnStep
<1>4. ASSUME NEW i \in loc[Sweeper].todo,
             Set(Sweeper, [loc[Sweeper] EXCEPT !.todo = @ \ {i}, !.target = i]),
             Goto(Sweeper, IF roster[i] = None THEN "next" ELSE "leave"),
             UNCHANGED lock
      PROVE  Inv'
  <2>1. i \in PeerIds
    BY Zenon, <1>1 DEF LocType
  <2>2. \A s \in Tasks \ {Sweeper} : SameTask(s)
    BY Zenon, <1>1, <1>4, OthersSame
  <2>3. /\ pc'[Sweeper] \in {"next", "leave"}
        /\ loc'[Sweeper].op = loc[Sweeper].op
        /\ loc'[Sweeper].pk = loc[Sweeper].pk
        /\ loc'[Sweeper].net = loc[Sweeper].net
        /\ loc'[Sweeper].target = i
    BY Zenon, <1>1, <1>4 DEF Goto, Set, TypeOK, LocType
  <2>4. TaskInv(Sweeper)'
    BY Zenon, <1>1, <1>4, <2>1, <2>3 DEF TaskInv
  <2> QED BY Zenon, <1>1, <1>2, <2>2, <2>4, GentleStep
<1> QED BY Zenon, <1>3, <1>4 DEF SweepNext
\* What follows a save preserves the invariant.
LEMMA AfterSaveStep ==
  ASSUME Inv, TypeOK', NoNewAddress, NoRegress, NEW t \in Tasks,
         NEW ls \in [Tasks -> LocType],
         \A s \in Tasks :
           /\ ls[s].op = loc[s].op /\ ls[s].pk = loc[s].pk /\ ls[s].net = loc[s].net
           /\ ls[s].id = loc[s].id /\ ls[s].target = loc[s].target
           /\ ls[s].ula = loc[s].ula /\ ls[s].ent = loc[s].ent
           /\ ls[s].gone = loc[s].gone,
         AfterSave(t, ls)
  PROVE  Inv'
<1> DEFINE l == [ls[t] EXCEPT !.target = None, !.buf = IdleLoc.buf, !.fd = "closed"]
<1>1. TypeOK /\ TaskInv(t) /\ ls[t] \in LocType
  BY Zenon DEF Inv
<1>2. l.op = loc[t].op /\ l.pk = loc[t].pk /\ l.net = loc[t].net
  BY Zenon, <1>1 DEF LocType
<1>3. \A s \in Tasks \ {t} : SameTask(s)
  <2>1. \A s \in Tasks \ {t} : pc'[s] = pc[s] /\ loc'[s] = ls[s]
    <3>1. pc \in [Tasks -> Labels]
      BY Zenon, <1>1 DEF TypeOK
    <3> QED BY Zenon, <3>1 DEF AfterSave, Goto
  <2>2. lock' = lock \/ lock = t
    BY Zenon DEF AfterSave
  <2>3. ASSUME NEW s \in Tasks \ {t}
        PROVE  SameTask(s)
    <3>1. pc'[s] = pc[s] /\ loc'[s] = ls[s]
      BY Zenon, <2>1
    <3>2. lock = s => lock' = s
      BY Zenon, <2>2
    <3>3. /\ ls[s].op = loc[s].op /\ ls[s].pk = loc[s].pk /\ ls[s].net = loc[s].net
          /\ ls[s].id = loc[s].id /\ ls[s].target = loc[s].target
          /\ ls[s].ula = loc[s].ula /\ ls[s].ent = loc[s].ent
          /\ ls[s].gone = loc[s].gone
      BY Zenon
    <3> QED BY <3>1, <3>2, <3>3, Zenon DEF SameTask
  <2> QED BY Zenon, <2>3
<1>4. CASE /\ loc' = [ls EXCEPT ![t] = l] /\ UNCHANGED lock
           /\ \/ loc[t].op = "register" /\ Goto(t, "resolve")
              \/ Goto(t, "next")
  <2>1. pc'[t] \in {"resolve", "next"} /\ loc'[t] = l
    BY Zenon, <1>1, <1>4 DEF Goto, TypeOK
  <2>2. pc'[t] = "resolve" => loc[t].op = "register"
    BY Zenon, <1>1, <1>4 DEF Goto, TypeOK
  <2>3. TaskInv(t)'
    BY Zenon, <1>1, <1>2, <1>4, <2>1, <2>2 DEF TaskInv
  <2> QED BY Zenon, <1>3, <2>3, GentleStep
<1>5. CASE loc' = [ls EXCEPT ![t] = IdleLoc] /\ Goto(t, "idle")
  <2>1. pc'[t] = "idle" /\ loc'[t].op = "none"
    BY Zenon, <1>1, <1>5 DEF Goto, TypeOK, IdleLoc
  <2>2. TaskInv(t)'
    BY Zenon, <2>1 DEF TaskInv
  <2> QED BY Zenon, <1>3, <2>2, GentleStep
<1> QED BY Zenon, <1>4, <1>5 DEF AfterSave

\* Collect preserves the inductive invariant.
LEMMA CollectInv ==
  ASSUME Inv, NEW t \in Tasks, Collect(t)
  PROVE  Inv'
<1>1. TypeOK' /\ TypeOK /\ TaskInv(t) /\ loc[t] \in LocType
  BY Zenon, CollectType DEF Inv, TypeOK
<1>2. NoNewAddress /\ NoRegress
  BY Zenon, <1>1, UnchangedIsGentle DEF Collect, mem
<1>3. CASE AfterSave(t, loc)
  BY Zenon, <1>1, <1>2, <1>3, AfterSaveStep DEF TypeOK
<1>4. CASE /\ Set(t, [loc[t] EXCEPT !.buf = Walked(t, FirstShard)])
           /\ Goto(t, "collectRest")
           /\ UNCHANGED lock
  <2>1. \A s \in Tasks \ {t} : SameTask(s)
    BY Zenon, <1>1, <1>4, OthersSame
  <2>2. /\ pc'[t] = "collectRest" /\ loc'[t].op = loc[t].op
        /\ loc'[t].pk = loc[t].pk /\ loc'[t].net = loc[t].net
    BY Zenon, <1>1, <1>4 DEF Goto, Set, TypeOK, LocType
  <2>3. TaskInv(t)'
    BY Zenon, <1>1, <1>4, <2>2 DEF TaskInv
  <2> QED BY Zenon, <1>1, <1>2, <2>1, <2>3, GentleStep
<1> QED BY Zenon, <1>3, <1>4 DEF Collect

\* CollectRest preserves the inductive invariant.
LEMMA CollectRestInv ==
  ASSUME Inv, NEW t \in Tasks, CollectRest(t)
  PROVE  Inv'
<1>1. TypeOK' /\ TypeOK /\ TaskInv(t) /\ loc[t] \in LocType
  BY Zenon, CollectRestType DEF Inv, TypeOK
<1>2. NoNewAddress /\ NoRegress
  BY Zenon, <1>1, UnchangedIsGentle DEF CollectRest, mem
<1>3. \A s \in Tasks \ {t} : SameTask(s)
  BY Zenon, <1>1, OthersSame DEF CollectRest
<1>4. /\ pc'[t] = "open" /\ loc'[t].op = loc[t].op
      /\ loc'[t].pk = loc[t].pk /\ loc'[t].net = loc[t].net
  BY Zenon, <1>1 DEF CollectRest, Goto, Set, TypeOK, LocType
<1>5. TaskInv(t)'
  BY Zenon, <1>1, <1>4 DEF TaskInv, CollectRest
<1> QED BY Zenon, <1>1, <1>2, <1>3, <1>5, GentleStep

\* OpenTmp preserves the inductive invariant.
LEMMA OpenTmpInv ==
  ASSUME Inv, NEW t \in Tasks, OpenTmp(t)
  PROVE  Inv'
<1>1. TypeOK' /\ TypeOK /\ TaskInv(t) /\ loc[t] \in LocType
  BY Zenon, OpenTmpType DEF Inv, TypeOK
<1>2. NoNewAddress /\ NoRegress
  BY Zenon, <1>1, UnchangedIsGentle DEF OpenTmp, mem
<1>3. \A s \in Tasks \ {t} : SameTask(s)
  BY Zenon, <1>1, OthersSame DEF OpenTmp
<1>4. /\ pc'[t] = "write" /\ loc'[t].op = loc[t].op
      /\ loc'[t].pk = loc[t].pk /\ loc'[t].net = loc[t].net
  BY Zenon, <1>1 DEF OpenTmp, Goto, Set, TypeOK, LocType
<1>5. TaskInv(t)'
  BY Zenon, <1>1, <1>4 DEF TaskInv, OpenTmp
<1> QED BY Zenon, <1>1, <1>2, <1>3, <1>5, GentleStep

\* WriteTmp preserves the inductive invariant.
LEMMA WriteTmpInv ==
  ASSUME Inv, NEW t \in Tasks, WriteTmp(t)
  PROVE  Inv'
<1>1. TypeOK' /\ TypeOK /\ TaskInv(t) /\ loc[t] \in LocType
  BY Zenon, WriteTmpType DEF Inv, TypeOK
<1>2. NoNewAddress /\ NoRegress
  BY Zenon, <1>1, UnchangedIsGentle DEF WriteTmp, mem
<1>3. CASE Return(t)
  BY Zenon, <1>1, <1>2, <1>3, ReturnStep
<1>4. CASE /\ Set(t, [loc[t] EXCEPT !.fd = "closed"])
           /\ Goto(t, "rename")
           /\ UNCHANGED lock
  <2>1. \A s \in Tasks \ {t} : SameTask(s)
    BY Zenon, <1>1, <1>4, OthersSame
  <2>2. /\ pc'[t] = "rename" /\ loc'[t].op = loc[t].op
        /\ loc'[t].pk = loc[t].pk /\ loc'[t].net = loc[t].net
    BY Zenon, <1>1, <1>4 DEF Goto, Set, TypeOK, LocType
  <2>3. TaskInv(t)'
    BY Zenon, <1>1, <1>4, <2>2 DEF TaskInv
  <2> QED BY Zenon, <1>1, <1>2, <2>1, <2>3, GentleStep
<1> QED BY Zenon, <1>3, <1>4 DEF WriteTmp

\* RenameTmp preserves the inductive invariant.
LEMMA RenameTmpInv ==
  ASSUME Inv, NEW t \in Tasks, RenameTmp(t)
  PROVE  Inv'
<1> DEFINE ls == [u \in Tasks |-> [loc[u] EXCEPT !.fd = Renamed(@)]]
<1>1. TypeOK' /\ TypeOK
  BY Zenon, RenameTmpType DEF Inv
<1>2. NoNewAddress /\ NoRegress
  BY Zenon, <1>1, UnchangedIsGentle DEF RenameTmp, mem
<1>3. CASE AfterSave(t, loc)
  BY Zenon, <1>1, <1>2, <1>3, AfterSaveStep DEF TypeOK
<1>4. CASE AfterSave(t, ls)
  <2>1. ls \in [Tasks -> LocType]
    BY Zenon, <1>1, RenamedType
  <2>2. ASSUME NEW s \in Tasks
        PROVE  /\ ls[s].op = loc[s].op /\ ls[s].pk = loc[s].pk /\ ls[s].net = loc[s].net
               /\ ls[s].id = loc[s].id /\ ls[s].target = loc[s].target
               /\ ls[s].ula = loc[s].ula /\ ls[s].ent = loc[s].ent
               /\ ls[s].gone = loc[s].gone
    <3>1. loc[s] \in LocType
      BY Zenon, <1>1 DEF TypeOK
    <3> QED BY Zenon, <3>1 DEF LocType
  <2> QED BY Zenon, <1>1, <1>2, <1>4, <2>1, <2>2, AfterSaveStep
<1> QED BY Zenon, <1>3, <1>4 DEF RenameTmp

\* SaveFails preserves the inductive invariant.
LEMMA SaveFailsInv ==
  ASSUME Inv, NEW t \in Tasks, SaveFails(t)
  PROVE  Inv'
<1>1. TypeOK' /\ TypeOK
  BY Zenon, SaveFailsType DEF Inv
<1>2. NoNewAddress /\ NoRegress
  BY Zenon, <1>1, UnchangedIsGentle DEF SaveFails, mem
<1> QED BY Zenon, <1>1, <1>2, AfterSaveStep DEF SaveFails, TypeOK

\* Cancel preserves the inductive invariant.
LEMMA CancelInv ==
  ASSUME Inv, NEW t \in Tasks, Cancel(t)
  PROVE  Inv'
<1>1. TypeOK' /\ TypeOK /\ TaskInv(t) /\ loc[t] \in LocType
  BY Zenon, CancelType DEF Inv, TypeOK
<1>2. NoNewAddress /\ NoRegress
  BY Zenon, <1>1, UnchangedIsGentle DEF Cancel, mem
<1>3. CASE Return(t)
  BY Zenon, <1>1, <1>2, <1>3, ReturnStep
<1>4. CASE /\ Set(t, [loc[t] EXCEPT !.op = "detached"])
           /\ lock' = IF lock = t THEN None ELSE lock
           /\ pc[t] \in {"open", "write", "rename"}
           /\ UNCHANGED pc
  <2>1. \A s \in Tasks \ {t} : SameTask(s)
    BY Zenon, <1>1, <1>4 DEF SameTask, Set, TypeOK
  <2>2. pc'[t] \in {"open", "write", "rename"} /\ loc'[t].op = "detached"
    BY Zenon, <1>1, <1>4 DEF Set, TypeOK, LocType
  <2>3. TaskInv(t)'
    BY Zenon, <2>2 DEF TaskInv
  <2> QED BY Zenon, <1>1, <1>2, <2>1, <2>3, GentleStep
<1> QED BY Zenon, <1>3, <1>4 DEF Cancel

\* A replayed snapshot satisfies the invariant, whatever is on disk.
LEMMA RestartInv ==
  ASSUME Inv, Restart
  PROVE  Inv'
<1>1. TypeOK' /\ TypeOK
  BY Zenon, RestartType DEF Inv
<1>2. PICK acc \in SUBSET PeerIds :
        /\ Replays(acc)
        /\ roster' = [i \in PeerIds |-> IF i \in acc THEN Loaded[i] ELSE None]
        /\ \A s \in Slots : Advanced(acc, s, allocator'[s])
  BY Zenon DEF Restart
<1>3. \A i \in PeerIds : roster'[i] # None => i \in acc /\ roster'[i] = Loaded[i]
  BY Zenon, <1>2
<1>4. UlaUnique'
  BY Zenon, <1>2, <1>3 DEF UlaUnique, Live, Replays
<1>5. ASSUME NEW i \in PeerIds, roster'[i] # None
      PROVE  roster'[i].ula.idx <= allocator'[roster'[i].ula.slot]
  <2>1. roster'[i].ula.slot \in Slots
    BY Zenon, <1>1, <1>5 DEF TypeOK, Snapshot, MaybeEntry, Entry, Ula
  <2> QED BY Zenon, <1>2, <1>3, <1>5, <2>1 DEF Advanced
<1>6. \A t \in Tasks : TaskInv(t)'
  BY Zenon DEF Restart, TaskInv, IdleLoc
<1> QED BY Zenon, <1>1, <1>4, <1>5, <1>6 DEF Inv, AllocatorCoversRoster, Live

\* The empty coordinator satisfies the invariant.
LEMMA InitInv == Init => Inv
<1> SUFFICES ASSUME Init PROVE Inv
  BY Zenon
<1>1. TypeOK
  <2>1. roster \in Snapshot /\ "idle" \in Labels
    BY Zenon DEF Init, Snapshot, MaybeEntry, Labels
  <2>2. IsFile(disk) /\ IsFile(tmp)
    BY Zenon DEF Init, IsFile
  <2> QED BY <2>1, <2>2, IdleLocType, LayoutAssumption, BoundAssumption DEF Init, TypeOK
<1>2. \A t \in Tasks : TaskInv(t)
  BY Zenon DEF Init, TaskInv, IdleLoc
<1>3. UlaUnique /\ AllocatorCoversRoster
  BY Zenon DEF Init, UlaUnique, AllocatorCoversRoster, Live
<1> QED BY Zenon, <1>1, <1>2, <1>3 DEF Inv

\* Every statement of a running handler preserves the invariant.
LEMMA StepInv ==
  ASSUME Inv, NEW t \in Tasks, Step(t)
  PROVE  Inv'
<1>1. CASE Refresh(t)  BY Zenon, <1>1, RefreshInv
<1>2. CASE Rewrite(t)  BY Zenon, <1>2, RewriteInv
<1>3. CASE Moved(t)  BY Zenon, <1>3, MovedInv
<1>4. CASE Announce(t)  BY Zenon, <1>4, AnnounceInv
<1>5. CASE FindStaleHolder(t)  BY Zenon, <1>5, FindStaleHolderInv
<1>6. CASE Evicted(t)  BY Zenon, <1>6, EvictedInv
<1>7. CASE ResolveUla(t)  BY Zenon, <1>7, ResolveUlaInv
<1>8. CASE ApplyPeerJoined(t)  BY Zenon, <1>8, ApplyPeerJoinedInv
<1>9. CASE Leave(t)  BY Zenon, <1>9, LeaveInv
<1>10. CASE Unindex(t)  BY Zenon, <1>10, UnindexInv
<1>11. CASE Departed(t)  BY Zenon, <1>11, DepartedInv
<1>12. CASE Reread(t)  BY Zenon, <1>12, RereadInv
<1>13. CASE Collect(t)  BY Zenon, <1>13, CollectInv
<1>14. CASE CollectRest(t)  BY Zenon, <1>14, CollectRestInv
<1>15. CASE OpenTmp(t)  BY Zenon, <1>15, OpenTmpInv
<1>16. CASE WriteTmp(t)  BY Zenon, <1>16, WriteTmpInv
<1>17. CASE RenameTmp(t)  BY Zenon, <1>17, RenameTmpInv
<1>18. CASE IndexPeer(t)  BY Zenon, <1>18, IndexPeerInv
<1> QED BY Zenon, <1>1, <1>2, <1>3, <1>4, <1>5, <1>6, <1>7, <1>8, <1>9, <1>10, <1>11, <1>12, <1>13, <1>14, <1>15, <1>16, <1>17, <1>18 DEF Step

\* Every step preserves the invariant.
LEMMA NextInv == Inv /\ [Next]_vars => Inv'
<1> SUFFICES ASSUME Inv, [Next]_vars PROVE Inv'
  BY Zenon
<1>1. ASSUME NEW t \in Tasks, Step(t) PROVE Inv'
  BY Zenon, <1>1, StepInv
<1>2. ASSUME NEW t \in Tasks, SaveFails(t) PROVE Inv'
  BY Zenon, <1>2, SaveFailsInv
<1>3. ASSUME NEW t \in Workers, Register(t) PROVE Inv'
  BY Zenon, <1>3, RegisterInv DEF Tasks
<1>4. ASSUME NEW t \in Workers, Deregister(t) PROVE Inv'
  BY Zenon, <1>4, DeregisterInv DEF Tasks
<1>5. ASSUME NEW t \in Workers, Cancel(t) PROVE Inv'
  BY Zenon, <1>5, CancelInv DEF Tasks
<1>6. ASSUME NEW t \in Workers, NEW i \in PeerIds, Heartbeat(t, i) PROVE Inv'
  BY Zenon, <1>6, HeartbeatInv DEF Tasks
<1>7. ASSUME NEW i \in PeerIds, Age(i) PROVE Inv'
  BY Zenon, <1>7, AgeInv
<1>8. CASE StartSweep
  BY Zenon, <1>8, StartSweepInv
<1>9. CASE SweepNext
  BY Zenon, <1>9, SweepNextInv
<1>10. CASE Restart
  BY Zenon, <1>10, RestartInv
<1>11. CASE UNCHANGED vars
  <2>1. TypeOK'
    BY Zenon, <1>11 DEF Inv, TypeOK, vars, IsFile
  <2>2. \A t \in Tasks : TaskInv(t)'
    BY ZenonT(40), <1>11 DEF Inv, TaskInv, Live, vars
  <2>3. UlaUnique' /\ AllocatorCoversRoster'
    BY Zenon, <1>11 DEF Inv, UlaUnique, AllocatorCoversRoster, Live, vars
  <2> QED BY Zenon, <2>1, <2>2, <2>3 DEF Inv
<1> QED
  BY Zenon, <1>1, <1>2, <1>3, <1>4, <1>5, <1>6, <1>7, <1>8, <1>9, <1>10, <1>11 DEF Next

\* Inv holds of every reachable state.
THEOREM Inductive == Spec => []Inv
  BY InitInv, NextInv, PTL DEF Spec

\* The maps, counters and locals keep the shape of the fields they stand for:
\* in particular no allocation passes the end of a block's index space.
THEOREM TypeCorrect == Spec => []TypeOK
<1>1. Inv => TypeOK
  BY Zenon DEF Inv
<1> QED BY <1>1, Inductive, PTL

\* No two peers hold one overlay address, for any number of concurrent
\* handlers, with or without a state directory, saves that fail, clients that
\* disconnect, and restarts from whatever snapshot is on disk.
THEOREM AddressesUnique == Spec => []UlaUnique
<1>1. Inv => UlaUnique
  BY Zenon DEF Inv
<1> QED BY <1>1, Inductive, PTL

\* The allocator of a block is never behind an address in the roster, so
\* allocate_in_slot never draws one that is in use.
THEOREM AllocatorAhead == Spec => []AllocatorCoversRoster
<1>1. Inv => AllocatorCoversRoster
  BY Zenon DEF Inv
<1> QED BY <1>1, Inductive, PTL

-----------------------------------------------------------------------------
(* Peer ids are drawn once, and what that gives.                           *)

\* The peers a snapshot lists were all issued their ids.
Issued(s) == \A i \in PeerIds : s[i] # None => i \in used

\* A registration draws its id last, the id of a join under way is in nobody's
\* hands, and a re-home under way still has another network to move to.
Claims(t) ==
  /\ pc[t] \in {"evict", "evicted", "resolve"} => loc[t].id = None
  /\ pc[t] = "join" =>
       /\ loc[t].id \in used /\ roster[loc[t].id] = None
       /\ \A k \in Pubkeys : byPubkey[k] # loc[t].id
  /\ pc[t] = "index" => loc[t].id \in used
  /\ pc[t] = "rewrite" /\ loc[t].ula # None =>
       Validator /\ (roster[loc[t].id] # None => roster[loc[t].id].net # loc[t].net)

\* Every id in memory, in a walk's buffer or in a file was issued.
FreshInv ==
  /\ Issued(roster)
  /\ \A k \in Pubkeys : byPubkey[k] # None => byPubkey[k] \in used
  /\ \A t \in Tasks : Issued(loc[t].buf)
  /\ disk.state = "whole" => Issued(disk.peers)
  /\ tmp.state = "whole" => Issued(tmp.peers)
  /\ \A t \in Tasks : Claims(t)

\* A registration that found no entry for its key and has not indexed one.
Joining(t) ==
  loc[t].op = "register" /\ (loc[t].id = None \/ pc[t] \in {"join", "index"})

\* Where apply_peer_left stands between its two removals.
Unindexing(t) == pc[t] = "unindex"

\* Peer i has key k in the index, or the join of i is about to put it there.
Known(i, k) ==
  \/ byPubkey[k] = i
  \/ \E t \in Tasks : pc[t] = "index" /\ loc[t].id = i /\ loc[t].pk = k

\* What a task knows of the key index before the first restart.
KeyInv(t) ==
  /\ Joining(t) => byPubkey[loc[t].pk] = None
  /\ pc[t] = "index" /\ roster[loc[t].id] # None => roster[loc[t].id].pk = loc[t].pk
  /\ Unindexing(t) =>
       roster[loc[t].target] = None /\ Known(loc[t].target, loc[t].gone)

\* The key k leads nowhere, to its own entry or to one that is being removed,
\* or it was indexed after its entry had gone.
Indexed(k) ==
  \/ byPubkey[k] = None
  \/ roster[byPubkey[k]] # None /\ roster[byPubkey[k]].pk = k
  \/ \E t \in Tasks : Unindexing(t) /\ loc[t].gone = k
  \/ k \in overtaken

\* The index of a coordinator that has not restarted.
IndexInv ==
  crashes = 0 =>
    /\ \A t \in Tasks : KeyInv(t)
    /\ \A i \in PeerIds : roster[i] # None => Known(i, roster[i].pk)
    /\ \A k \in Pubkeys : Indexed(k)
    /\ \A s, t \in Tasks :
         Unindexing(s) /\ Unindexing(t) /\ loc[s].gone = loc[t].gone => s = t

\* The fields of another task that FreshInv and IndexInv read stay.
Untouched(s) ==
  /\ pc'[s] = pc[s]
  /\ loc'[s].op = loc[s].op /\ loc'[s].pk = loc[s].pk /\ loc'[s].net = loc[s].net
  /\ loc'[s].id = loc[s].id /\ loc'[s].target = loc[s].target
  /\ loc'[s].ula = loc[s].ula /\ loc'[s].gone = loc[s].gone
  /\ loc'[s].buf = loc[s].buf

\* No entry appears, goes or changes its key, network or address.
Stamped ==
  \A i \in PeerIds :
    /\ roster'[i] = None <=> roster[i] = None
    /\ roster[i] # None =>
         /\ roster'[i].pk = roster[i].pk /\ roster'[i].net = roster[i].net
         /\ roster'[i].ula = roster[i].ula

\* Files keep their snapshots, swap them or take the one task t carries.
FilesFrom(t) ==
  /\ disk' \in {disk, tmp, Partial, Holding(loc[t].buf)}
  /\ tmp' \in {tmp, NoFile, Partial, Holding(loc[t].buf)}

\* Task t moves on between the statements that touch the index or an address.
Quiet(t) ==
  /\ pc[t] \notin {"index", "unindex"} /\ pc'[t] \notin {"join", "index", "unindex"}
  /\ loc'[t].op = "register" /\ loc'[t].id = None =>
       \/ loc[t].op = "register" /\ loc[t].id = None /\ loc'[t].pk = loc[t].pk
       \/ byPubkey[loc'[t].pk] = None
  /\ pc'[t] = "rewrite" /\ loc'[t].ula # None =>
       /\ Validator /\ loc'[t].id \in PeerIds
       /\ roster[loc'[t].id] # None => roster[loc'[t].id].net # loc'[t].net
  /\ pc'[t] \in {"evict", "evicted", "resolve"} => loc'[t].id = None
  /\ \A i \in PeerIds : loc'[t].buf[i] # None => loc[t].buf[i] # None \/ roster[i] # None

\* What the locals of an idle task hold.
LEMMA BlankFields ==
  /\ IdleLoc.op = "none"
  /\ \A i \in PeerIds : IdleLoc.buf[i] = None
  BY Zenon DEF IdleLoc

\* A task that starts other work than a registration, or returns, is quiet.
LEMMA BlankQuiet ==
  ASSUME NEW t \in Tasks, pc[t] \notin {"index", "unindex"},
         pc'[t] \in {"idle", "leave", "next", "reread"}, loc'[t].op # "register",
         \A i \in PeerIds : loc'[t].buf[i] = None
  PROVE  Quiet(t)
  BY Zenon DEF Quiet

\* Such a step keeps the ids issued once.
LEMMA QuietFresh ==
  ASSUME TypeOK, FreshInv, NEW t \in Tasks, Quiet(t), Stamped, FilesFrom(t),
         \A s \in Tasks \ {t} : Untouched(s), used' = used, byPubkey' = byPubkey,
         \A s \in Tasks : TaskInv(s)
  PROVE  FreshInv'
<1>1. Issued(roster)'
  BY Zenon DEF Issued, Stamped, FreshInv
<1>2. ASSUME NEW s \in Tasks PROVE Issued(loc[s].buf)'
  <2>1. CASE s = t
    BY Zenon, <2>1 DEF Quiet, FreshInv, Issued
  <2>2. CASE s # t
    BY <2>2 DEF Untouched, FreshInv, Issued
  <2> QED BY Zenon, <2>1, <2>2
<1>3. disk'.state = "whole" => Issued(disk.peers)'
  BY DEF FilesFrom, FreshInv, Issued, Partial, Holding
<1>4. tmp'.state = "whole" => Issued(tmp.peers)'
  BY DEF FilesFrom, FreshInv, Issued, Partial, Holding, NoFile
<1>5. ASSUME NEW s \in Tasks PROVE Claims(s)'
  <2>1. CASE s = t
    BY Zenon, <2>1 DEF Quiet, Claims, Stamped
  <2>2. CASE s # t
    <3>1. Claims(s) /\ Untouched(s) /\ TaskInv(s)
      BY Zenon, <2>2 DEF FreshInv
    <3> QED BY SMTT(30), <3>1 DEF Claims, Untouched, Stamped, TaskInv
  <2> QED BY Zenon, <2>1, <2>2
<1> QED BY Zenon, <1>1, <1>2, <1>3, <1>4, <1>5 DEF FreshInv

\* A key that is found, or about to be, is still so after a step of a task
\* that is not between the two inserts of a join.
LEMMA KnownKept ==
  ASSUME NEW t \in Tasks, pc[t] # "index", \A s \in Tasks \ {t} : Untouched(s),
         NEW i, NEW k, Known(i, k), byPubkey'[k] = byPubkey[k]
  PROVE  Known(i, k)'
<1>1. CASE byPubkey[k] = i
  BY Zenon, <1>1 DEF Known
<1>2. ASSUME NEW s \in Tasks, pc[s] = "index", loc[s].id = i, loc[s].pk = k
      PROVE  Known(i, k)'
  <2>1. Untouched(s)
    BY Zenon, <1>2
  <2>2. pc'[s] = "index" /\ loc'[s].id = i /\ loc'[s].pk = k
    BY Zenon, <1>2, <2>1 DEF Untouched
  <2> QED BY Zenon, <2>2 DEF Known
<1> QED BY Zenon, <1>1, <1>2 DEF Known

\* A key is known for one peer only: under registration_lock at most one join
\* is between its inserts, and it found the key free.
LEMMA KnownOnce ==
  ASSUME Inv, \A t \in Tasks : KeyInv(t), NEW k,
         NEW i \in PeerIds, NEW j \in PeerIds, Known(i, k), Known(j, k)
  PROVE  i = j
<1>1. ASSUME NEW s \in Tasks, pc[s] = "index", loc[s].pk = k
      PROVE  byPubkey[k] = None /\ lock = s
  <2>1. TaskInv(s) /\ KeyInv(s)
    BY Zenon DEF Inv
  <2>2. loc[s].op = "register" /\ lock = s
    BY Zenon, <1>1, <2>1 DEF TaskInv
  <2>3. Joining(s)
    BY Zenon, <1>1, <2>2 DEF Joining
  <2> QED BY Zenon, <1>1, <2>1, <2>2, <2>3 DEF KeyInv
<1>2. i # None /\ j # None
  BY Zenon, NoneAssumption
<1>3. CASE byPubkey[k] = i
  BY Zenon, <1>1, <1>2, <1>3 DEF Known
<1>4. ASSUME NEW s \in Tasks, pc[s] = "index", loc[s].id = i, loc[s].pk = k
      PROVE  i = j
  BY Zenon, <1>1, <1>2, <1>4 DEF Known
<1> QED BY Zenon, <1>3, <1>4 DEF Known

\* And it keeps the index.
LEMMA QuietIndex ==
  ASSUME TypeOK, IndexInv, NEW t \in Tasks, Quiet(t), Stamped,
         \A s \in Tasks \ {t} : Untouched(s), byPubkey' = byPubkey,
         crashes' = crashes, overtaken' = overtaken, \A s \in Tasks : TaskInv(s)
  PROVE  IndexInv'
<1> SUFFICES ASSUME crashes = 0
             PROVE  IndexInv'
  BY Zenon DEF IndexInv
<1>0. \A i, k : Known(i, k) => Known(i, k)'
  BY Zenon, KnownKept DEF Quiet
<1>1. ASSUME NEW s \in Tasks PROVE KeyInv(s)'
  <2>1. CASE s = t
    <3>1. KeyInv(t)
      BY Zenon DEF IndexInv
    <3>2. ~Unindexing(t)' /\ pc'[t] \notin {"join", "index"}
      BY Zenon DEF Quiet, Unindexing
    <3>3. Joining(t)' => byPubkey'[loc'[t].pk] = None
      BY Zenon, <3>1, <3>2 DEF Quiet, KeyInv, Joining
    <3> QED BY Zenon, <2>1, <3>2, <3>3 DEF KeyInv
  <2>2. CASE s # t
    <3>1. KeyInv(s) /\ Untouched(s) /\ TaskInv(s)
      BY Zenon, <2>2 DEF IndexInv
    <3>2. Joining(s)' => byPubkey'[loc'[s].pk] = None
      BY Zenon, <3>1 DEF KeyInv, Joining, Untouched
    <3>3. pc'[s] = "index" /\ roster'[loc'[s].id] # None
            => roster'[loc'[s].id].pk = loc'[s].pk
      BY Zenon, <3>1 DEF KeyInv, Untouched, Stamped, TaskInv
    <3>4. Unindexing(s)' => roster'[loc'[s].target] = None
      BY Zenon, <3>1 DEF KeyInv, Unindexing, Untouched, Stamped, TaskInv
    <3>5. Unindexing(s)' => Known(loc[s].target, loc[s].gone)'
      BY Zenon, <1>0, <3>1 DEF KeyInv, Unindexing, Untouched
    <3> QED BY Zenon, <3>2, <3>3, <3>4, <3>5 DEF KeyInv
  <2> QED BY Zenon, <2>1, <2>2
<1>2. \A i \in PeerIds : roster'[i] # None => Known(i, roster[i].pk)'
  BY Zenon, <1>0 DEF Stamped, IndexInv
<1>3. \A s \in Tasks : Unindexing(s) => s # t
  BY Zenon DEF Unindexing, Quiet
<1>4. \A s \in Tasks : Unindexing(s)' => s # t
  BY Zenon DEF Unindexing, Quiet
<1>5. ASSUME NEW k \in Pubkeys PROVE Indexed(k)'
  <2>1. byPubkey[k] \in PeerIds \cup {None} /\ Indexed(k)
    BY Zenon DEF TypeOK, IndexInv
  <2>2. CASE \E s \in Tasks : Unindexing(s) /\ loc[s].gone = k
    BY Zenon, <1>3, <2>2 DEF Indexed, Unindexing, Untouched
  <2>3. CASE byPubkey[k] # None /\ roster[byPubkey[k]] # None /\ roster[byPubkey[k]].pk = k
    BY Zenon, <2>1, <2>3 DEF Indexed, Stamped
  <2>4. CASE byPubkey[k] = None \/ k \in overtaken
    BY Zenon, <2>4 DEF Indexed
  <2> QED BY Zenon, <2>1, <2>2, <2>3, <2>4 DEF Indexed
<1>6. ASSUME NEW r \in Tasks, NEW s \in Tasks, Unindexing(r)', Unindexing(s)',
             loc'[r].gone = loc'[s].gone
      PROVE  r = s
  <2>1. Untouched(r) /\ Untouched(s)
    BY Zenon, <1>4, <1>6
  <2>2. Unindexing(r) /\ Unindexing(s) /\ loc[r].gone = loc[s].gone
    BY Zenon, <1>6, <2>1 DEF Unindexing, Untouched
  <2>3. \A a, b \in Tasks :
          Unindexing(a) /\ Unindexing(b) /\ loc[a].gone = loc[b].gone => a = b
    BY Zenon DEF IndexInv
  <2> QED BY Zenon, <2>2, <2>3
<1> QED BY Zenon, <1>1, <1>2, <1>5, <1>6 DEF IndexInv

\* Both invariants through a quiet step.
LEMMA QuietStep ==
  ASSUME Inv, FreshInv, IndexInv, NEW t \in Tasks, Quiet(t), Stamped, FilesFrom(t),
         \A s \in Tasks \ {t} : Untouched(s), UNCHANGED <<byPubkey, used, crashes, overtaken>>
  PROVE  FreshInv' /\ IndexInv'
  BY Zenon, QuietFresh, QuietIndex DEF Inv

\* The other tasks when t takes locals l.
LEMMA OthersUntouched ==
  ASSUME TypeOK, NEW t \in Tasks, NEW l, NEW label, Goto(t, label), Set(t, l)
  PROVE  /\ \A s \in Tasks \ {t} : Untouched(s)
         /\ pc'[t] = label /\ loc'[t] = l
  BY Zenon DEF TypeOK, Goto, Set, Untouched

\* The other tasks when t moves without changing its locals.
LEMMA OthersUntouchedPc ==
  ASSUME TypeOK, NEW t \in Tasks, NEW label, Goto(t, label), UNCHANGED loc
  PROVE  /\ \A s \in Tasks \ {t} : Untouched(s)
         /\ pc'[t] = label /\ loc'[t] = loc[t]
  BY Zenon DEF TypeOK, Goto, Untouched

\* Nothing happens to the roster or the files.
LEMMA Calm ==
  ASSUME TypeOK
  PROVE  /\ UNCHANGED roster => Stamped
         /\ \A t \in Tasks : UNCHANGED files => FilesFrom(t)
  BY Zenon DEF Stamped, FilesFrom, files

\* A return is quiet.
LEMMA ReturnQuiet ==
  ASSUME TypeOK, NEW t \in Tasks, Return(t), pc[t] \notin {"index", "unindex"}
  PROVE  Quiet(t) /\ \A s \in Tasks \ {t} : Untouched(s)
<1>1. pc'[t] = "idle" /\ loc'[t] = IdleLoc /\ \A s \in Tasks \ {t} : Untouched(s)
  BY Zenon, OthersUntouched DEF Return
<1>2. loc'[t].op = "none" /\ \A i \in PeerIds : loc'[t].buf[i] = None
  BY Zenon, <1>1, BlankFields
<1> QED BY Zenon, <1>1, <1>2, BlankQuiet

\* The broadcast of a move.
LEMMA MovedQuiet ==
  ASSUME Inv, FreshInv, IndexInv, NEW t \in Tasks, Moved(t)
  PROVE  FreshInv' /\ IndexInv'
<1>1. TypeOK
  BY Zenon DEF Inv
<1>2. Stamped /\ FilesFrom(t) /\ UNCHANGED <<byPubkey, used, crashes, overtaken>>
  BY Zenon, <1>1, Calm DEF Moved, mem, bounds
<1>3. pc'[t] = "announce" /\ loc'[t] = loc[t] /\ \A s \in Tasks \ {t} : Untouched(s)
  BY Zenon, <1>1, OthersUntouchedPc DEF Moved
<1>4. Quiet(t)
  BY Zenon, <1>3 DEF Quiet, Moved
<1> QED BY Zenon, <1>2, <1>3, <1>4, QuietStep

\* The broadcast at the end of a registration.
LEMMA AnnounceQuiet ==
  ASSUME Inv, FreshInv, IndexInv, NEW t \in Tasks, Announce(t)
  PROVE  FreshInv' /\ IndexInv'
<1>1. TypeOK
  BY Zenon DEF Inv
<1>2. Stamped /\ FilesFrom(t) /\ UNCHANGED <<byPubkey, used, crashes, overtaken>> /\ pc[t] \notin {"index", "unindex"}
  BY Zenon, <1>1, Calm DEF Announce, mem, bounds
<1>3. CASE Return(t)
  BY Zenon, <1>1, <1>2, <1>3, ReturnQuiet, QuietStep
<1>4. CASE Goto(t, "collect") /\ UNCHANGED loc
  <2>1. pc'[t] = "collect" /\ loc'[t] = loc[t] /\ \A s \in Tasks \ {t} : Untouched(s)
    BY Zenon, <1>1, <1>4, OthersUntouchedPc
  <2>2. Quiet(t)
    BY Zenon, <1>2, <2>1 DEF Quiet
  <2> QED BY Zenon, <1>2, <2>1, <2>2, QuietStep
<1> QED BY Zenon, <1>3, <1>4 DEF Announce

\* The search for a stale holder of the requested address.
LEMMA FindStaleHolderQuiet ==
  ASSUME Inv, FreshInv, IndexInv, NEW t \in Tasks, FindStaleHolder(t)
  PROVE  FreshInv' /\ IndexInv'
<1>1. TypeOK /\ loc[t] \in LocType /\ pc[t] = "evict" /\ loc[t].id = None
  BY Zenon DEF Inv, TypeOK, FindStaleHolder, FreshInv, Claims
<1>2. Stamped /\ FilesFrom(t) /\ UNCHANGED <<byPubkey, used, crashes, overtaken>>
  BY Zenon, <1>1, Calm DEF FindStaleHolder, mem, bounds
<1>3. CASE Goto(t, "resolve") /\ UNCHANGED loc
  <2>1. pc'[t] = "resolve" /\ loc'[t] = loc[t] /\ \A s \in Tasks \ {t} : Untouched(s)
    BY Zenon, <1>1, <1>3, OthersUntouchedPc
  <2>2. Quiet(t)
    BY Zenon, <1>1, <2>1 DEF Quiet
  <2> QED BY Zenon, <1>2, <2>1, <2>2, QuietStep
<1>4. ASSUME NEW i, Goto(t, "evicted"), Set(t, [loc[t] EXCEPT !.target = i])
      PROVE  FreshInv' /\ IndexInv'
  <2>1. /\ pc'[t] = "evicted" /\ loc'[t] = [loc[t] EXCEPT !.target = i]
        /\ \A s \in Tasks \ {t} : Untouched(s)
    BY Zenon, <1>1, <1>4, OthersUntouched
  <2>2. /\ loc'[t].op = loc[t].op /\ loc'[t].id = loc[t].id /\ loc'[t].pk = loc[t].pk
        /\ loc'[t].buf = loc[t].buf
    BY Zenon, <1>1, <2>1 DEF LocType
  <2>3. Quiet(t)
    BY Zenon, <1>1, <2>1, <2>2 DEF Quiet
  <2> QED BY Zenon, <1>2, <2>1, <2>3, QuietStep
<1> QED BY Zenon, <1>3, <1>4 DEF FindStaleHolder

\* The broadcast of an eviction.
LEMMA EvictedQuiet ==
  ASSUME Inv, FreshInv, IndexInv, NEW t \in Tasks, Evicted(t)
  PROVE  FreshInv' /\ IndexInv'
<1>1. TypeOK
  BY Zenon DEF Inv
<1>2. Stamped /\ FilesFrom(t) /\ UNCHANGED <<byPubkey, used, crashes, overtaken>>
  BY Zenon, <1>1, Calm DEF Evicted, mem, bounds
<1>3. pc'[t] = "leave" /\ loc'[t] = loc[t] /\ \A s \in Tasks \ {t} : Untouched(s)
  BY Zenon, <1>1, OthersUntouchedPc DEF Evicted
<1>4. Quiet(t)
  BY Zenon, <1>3 DEF Quiet, Evicted
<1> QED BY Zenon, <1>2, <1>3, <1>4, QuietStep

\* The broadcast of a departure.
LEMMA DepartedQuiet ==
  ASSUME Inv, FreshInv, IndexInv, NEW t \in Tasks, Departed(t)
  PROVE  FreshInv' /\ IndexInv'
<1>1. TypeOK
  BY Zenon DEF Inv
<1>2. Stamped /\ FilesFrom(t) /\ UNCHANGED <<byPubkey, used, crashes, overtaken>>
  BY Zenon, <1>1, Calm DEF Departed, mem, bounds
<1>3. pc'[t] = "collect" /\ loc'[t] = loc[t] /\ \A s \in Tasks \ {t} : Untouched(s)
  BY Zenon, <1>1, OthersUntouchedPc DEF Departed
<1>4. Quiet(t)
  BY Zenon, <1>3 DEF Quiet, Departed
<1> QED BY Zenon, <1>2, <1>3, <1>4, QuietStep

\* The re-read of a heartbeat.
LEMMA RereadQuiet ==
  ASSUME Inv, FreshInv, IndexInv, NEW t \in Tasks, Reread(t)
  PROVE  FreshInv' /\ IndexInv'
<1>1. TypeOK /\ loc[t] \in LocType /\ TaskInv(t) /\ pc[t] = "reread"
  BY Zenon DEF Inv, TypeOK, Reread
<1>2. Stamped /\ FilesFrom(t) /\ UNCHANGED <<byPubkey, used, crashes, overtaken>>
  BY Zenon, <1>1, Calm DEF Reread, mem, bounds
<1>3. CASE Return(t)
  BY Zenon, <1>1, <1>2, <1>3, ReturnQuiet, QuietStep
<1>4. CASE /\ Set(t, [loc[t] EXCEPT !.id = loc[t].target, !.ent = roster[loc[t].target]])
           /\ Goto(t, "announce")
  <2>1. /\ pc'[t] = "announce"
        /\ loc'[t] = [loc[t] EXCEPT !.id = loc[t].target, !.ent = roster[loc[t].target]]
        /\ \A s \in Tasks \ {t} : Untouched(s)
    BY Zenon, <1>1, <1>4, OthersUntouched
  <2>2. loc'[t].id = loc[t].target /\ loc'[t].buf = loc[t].buf
    BY Zenon, <1>1, <2>1 DEF LocType
  <2>3. loc'[t].id # None
    BY Zenon, <1>1, <2>2, NoneAssumption DEF TaskInv
  <2>4. Quiet(t)
    BY Zenon, <1>1, <2>1, <2>2, <2>3 DEF Quiet
  <2> QED BY Zenon, <1>2, <2>1, <2>4, QuietStep
<1> QED BY Zenon, <1>3, <1>4 DEF Reread

\* A departure that starts.
LEMMA DeregisterQuiet ==
  ASSUME Inv, FreshInv, IndexInv, NEW t \in Tasks, Deregister(t)
  PROVE  FreshInv' /\ IndexInv'
<1>1. TypeOK
  BY Zenon DEF Inv
<1>2. Stamped /\ FilesFrom(t) /\ UNCHANGED <<byPubkey, used, crashes, overtaken>>
  BY Zenon, <1>1, Calm DEF Deregister, mem
<1>3. PICK i \in Live : Set(t, [IdleLoc EXCEPT !.op = "deregister", !.target = i])
  BY Zenon DEF Deregister
<1>4. /\ pc'[t] = "leave"
      /\ loc'[t] = [IdleLoc EXCEPT !.op = "deregister", !.target = i]
      /\ \A s \in Tasks \ {t} : Untouched(s)
  BY Zenon, <1>1, <1>3, OthersUntouched DEF Deregister
<1>5. Quiet(t)
  <2>1. loc'[t].op = "deregister" /\ loc'[t].buf = [j \in PeerIds |-> None]
    BY Zenon, <1>4 DEF IdleLoc
  <2>2. pc[t] = "idle"
    BY Zenon DEF Deregister
  <2> QED BY Zenon, <1>4, <2>1, <2>2, BlankQuiet
<1> QED BY Zenon, <1>2, <1>4, <1>5, QuietStep

\* A sweep that starts.
LEMMA StartSweepQuiet ==
  ASSUME Inv, FreshInv, IndexInv, StartSweep
  PROVE  FreshInv' /\ IndexInv'
<1> Sweeper \in Tasks
  BY Zenon DEF Tasks
<1>1. TypeOK
  BY Zenon DEF Inv
<1>2. Stamped /\ FilesFrom(Sweeper) /\ UNCHANGED <<byPubkey, used, crashes, overtaken>>
  BY Zenon, <1>1, Calm DEF StartSweep, mem, bounds
<1>4. /\ pc'[Sweeper] = "next"
      /\ loc'[Sweeper] = [IdleLoc EXCEPT !.op = "sweep",
                                  !.todo = {i \in Live : ~roster[i].fresh}]
      /\ \A s \in Tasks \ {Sweeper} : Untouched(s)
  BY Zenon, <1>1, OthersUntouched DEF StartSweep
<1>5. Quiet(Sweeper)
  <2>1. loc'[Sweeper].op = "sweep" /\ loc'[Sweeper].buf = [j \in PeerIds |-> None]
    BY Zenon, <1>4 DEF IdleLoc
  <2>2. pc[Sweeper] = "idle"
    BY Zenon DEF StartSweep
  <2> QED BY Zenon, <1>4, <2>1, <2>2, BlankQuiet DEF Tasks
<1> QED BY Zenon, <1>2, <1>4, <1>5, QuietStep

\* The sweep that takes its next peer.
LEMMA SweepNextQuiet ==
  ASSUME Inv, FreshInv, IndexInv, SweepNext
  PROVE  FreshInv' /\ IndexInv'
<1> DEFINE t == Sweeper
<1> t \in Tasks
  BY Zenon DEF Tasks
<1>1. TypeOK /\ loc[t] \in LocType /\ pc[t] = "next"
  BY Zenon DEF Inv, TypeOK, SweepNext
<1>2. Stamped /\ FilesFrom(t) /\ UNCHANGED <<byPubkey, used, crashes, overtaken>>
  BY Zenon, <1>1, Calm DEF SweepNext, mem, bounds
<1>3. CASE Return(t)
  BY Zenon, <1>1, <1>2, <1>3, ReturnQuiet, QuietStep
<1>4. ASSUME NEW i, Set(t, [loc[t] EXCEPT !.todo = @ \ {i}, !.target = i]),
             Goto(t, IF roster[i] = None THEN "next" ELSE "leave")
      PROVE  FreshInv' /\ IndexInv'
  <2>1. /\ pc'[t] \in {"next", "leave"}
        /\ loc'[t] = [loc[t] EXCEPT !.todo = @ \ {i}, !.target = i]
        /\ \A s \in Tasks \ {t} : Untouched(s)
    BY Zenon, <1>1, <1>4, OthersUntouched
  <2>2. /\ loc'[t].op = loc[t].op /\ loc'[t].id = loc[t].id /\ loc'[t].pk = loc[t].pk
        /\ loc'[t].buf = loc[t].buf
    BY Zenon, <1>1, <2>1 DEF LocType
  <2>3. Quiet(t)
    BY Zenon, <1>1, <2>1, <2>2 DEF Quiet
  <2> QED BY Zenon, <1>2, <2>1, <2>3, QuietStep
<1> QED BY Zenon, <1>3, <1>4 DEF SweepNext

\* A step of no task, which at most stamps entries.
LEMMA StillStep ==
  ASSUME Inv, FreshInv, IndexInv, Stamped, UNCHANGED <<byPubkey, files, pc, loc, used, crashes, overtaken>>
  PROVE  FreshInv' /\ IndexInv'
<1>1. ASSUME NEW s \in Tasks PROVE Claims(s)' /\ (KeyInv(s) => KeyInv(s)')
  <2>1. Claims(s) /\ TaskInv(s)
    BY Zenon DEF FreshInv, Inv
  <2>2. Claims(s)'
    BY Zenon, <2>1 DEF Claims, Stamped, TaskInv
  <2>3. KeyInv(s) => KeyInv(s)'
    BY Zenon, <2>1 DEF KeyInv, Known, Joining, Unindexing, Stamped, TaskInv
  <2> QED BY Zenon, <2>2, <2>3
<1>2. FreshInv'
  BY Zenon, <1>1 DEF FreshInv, Issued, Stamped, files
<1>3. ASSUME NEW k \in Pubkeys, Indexed(k) PROVE Indexed(k)'
  <2>1. byPubkey[k] \in PeerIds \cup {None}
    BY Zenon DEF Inv, TypeOK
  <2> QED BY Zenon, <1>3, <2>1 DEF Indexed, Stamped, Unindexing
<1>4. \A i \in PeerIds : roster'[i] # None => roster[i] # None /\ roster'[i].pk = roster[i].pk
  BY Zenon DEF Stamped
<1>5. \A i \in PeerIds : roster'[i] # None /\ Known(i, roster[i].pk) => Known(i, roster[i].pk)'
  BY Zenon, <1>4 DEF Known
<1>6. IndexInv'
  BY Zenon, <1>1, <1>3, <1>4, <1>5 DEF IndexInv, Unindexing
<1> QED BY Zenon, <1>2, <1>6

\* A peer that falls silent.
LEMMA AgeQuiet ==
  ASSUME Inv, FreshInv, IndexInv, NEW i \in PeerIds, Age(i)
  PROVE  FreshInv' /\ IndexInv'
<1>1. roster[i] # None /\ roster[i] \in Entry /\ roster \in Snapshot
  BY Zenon DEF Age, Live, Inv, TypeOK, Snapshot, MaybeEntry
<1>2. /\ [roster[i] EXCEPT !.fresh = FALSE] \in Entry
      /\ [roster[i] EXCEPT !.fresh = FALSE].pk = roster[i].pk
      /\ [roster[i] EXCEPT !.fresh = FALSE].net = roster[i].net
      /\ [roster[i] EXCEPT !.fresh = FALSE].ula = roster[i].ula
  BY Zenon, <1>1 DEF Entry
<1>3. Stamped
  BY Zenon, <1>1, <1>2, EntryAssumption DEF Stamped, Age, Snapshot
<1> QED BY Zenon, <1>3, StillStep DEF Age, bounds

\* The stamp of a heartbeat.
LEMMA HeartbeatQuiet ==
  ASSUME Inv, FreshInv, IndexInv, NEW t \in Tasks, NEW i \in PeerIds, Heartbeat(t, i)
  PROVE  FreshInv' /\ IndexInv'
<1>1. TypeOK /\ roster[i] # None /\ roster[i] \in Entry /\ roster \in Snapshot
  BY Zenon DEF Heartbeat, Live, Inv, TypeOK, Snapshot, MaybeEntry
<1>2. /\ [roster[i] EXCEPT !.fresh = TRUE] \in Entry
      /\ [roster[i] EXCEPT !.fresh = TRUE].pk = roster[i].pk
      /\ [roster[i] EXCEPT !.fresh = TRUE].net = roster[i].net
      /\ [roster[i] EXCEPT !.fresh = TRUE].ula = roster[i].ula
  BY Zenon, <1>1 DEF Entry
<1>3. Stamped
  BY Zenon, <1>1, <1>2, EntryAssumption DEF Stamped, Heartbeat, Snapshot
<1>4. FilesFrom(t) /\ UNCHANGED <<byPubkey, used, crashes, overtaken>>
  BY Zenon, <1>1, Calm DEF Heartbeat, bounds
<1>5. /\ pc'[t] = "reread"
      /\ loc'[t] = [IdleLoc EXCEPT !.op = "heartbeat", !.target = i]
      /\ \A s \in Tasks \ {t} : Untouched(s)
  BY Zenon, <1>1, OthersUntouched DEF Heartbeat
<1>6. Quiet(t)
  <2>1. loc'[t].op = "heartbeat" /\ loc'[t].buf = [j \in PeerIds |-> None]
    BY Zenon, <1>5 DEF IdleLoc
  <2>2. pc[t] = "idle"
    BY Zenon DEF Heartbeat
  <2> QED BY Zenon, <1>5, <2>1, <2>2, BlankQuiet
<1> QED BY Zenon, <1>3, <1>4, <1>5, <1>6, QuietStep

\* The end of a save is quiet.
LEMMA AfterSaveQuiet ==
  ASSUME Inv, NEW t \in Tasks, pc[t] \notin {"index", "unindex"},
         NEW ls \in [Tasks -> LocType],
         \A s \in Tasks :
           /\ ls[s].op = loc[s].op /\ ls[s].pk = loc[s].pk /\ ls[s].net = loc[s].net
           /\ ls[s].id = loc[s].id /\ ls[s].target = loc[s].target
           /\ ls[s].ula = loc[s].ula /\ ls[s].gone = loc[s].gone
           /\ ls[s].buf = loc[s].buf,
         AfterSave(t, ls)
  PROVE  Quiet(t) /\ \A s \in Tasks \ {t} : Untouched(s)
<1> DEFINE l == [ls[t] EXCEPT !.target = None, !.buf = IdleLoc.buf, !.fd = "closed"]
<1>1. pc \in [Tasks -> Labels] /\ ls[t] \in LocType
  BY Zenon DEF Inv, TypeOK
<1>2. l.op = loc[t].op /\ l.pk = loc[t].pk /\ l.id = loc[t].id /\ l.buf = IdleLoc.buf
  BY Zenon, <1>1 DEF LocType
<1>3. \A s \in Tasks \ {t} : pc'[s] = pc[s] /\ loc'[s] = ls[s]
  BY Zenon, <1>1 DEF AfterSave, Goto
<1>4. \A s \in Tasks \ {t} : Untouched(s)
  <2>1. ASSUME NEW s \in Tasks \ {t} PROVE Untouched(s)
    <3>1. pc'[s] = pc[s] /\ loc'[s] = ls[s]
      BY Zenon, <1>3
    <3>2. /\ ls[s].op = loc[s].op /\ ls[s].pk = loc[s].pk /\ ls[s].net = loc[s].net
          /\ ls[s].id = loc[s].id /\ ls[s].target = loc[s].target
          /\ ls[s].ula = loc[s].ula /\ ls[s].gone = loc[s].gone
          /\ ls[s].buf = loc[s].buf
      BY Zenon
    <3> QED BY <3>1, <3>2, Zenon DEF Untouched
  <2> QED BY Zenon, <2>1
<1>5. \A i \in PeerIds : IdleLoc.buf[i] = None
  BY Zenon DEF IdleLoc
<1>6. ASSUME loc'[t] = l, (pc'[t] = "resolve" /\ loc[t].id = None) \/ pc'[t] = "next"
      PROVE  Quiet(t)
  <2>1. /\ loc'[t].op = loc[t].op /\ loc'[t].pk = loc[t].pk /\ loc'[t].id = loc[t].id
        /\ loc'[t].buf = IdleLoc.buf
    BY Zenon, <1>2, <1>6
  <2>2. \A i \in PeerIds : loc'[t].buf[i] = None
    BY Zenon, <1>5, <2>1
  <2> HIDE DEF l
  <2> QED BY Zenon, <1>6, <2>1, <2>2 DEF Quiet
<1>7. ASSUME loc'[t] = IdleLoc, pc'[t] = "idle"
      PROVE  Quiet(t)
  <2>1. loc'[t].op = "none" /\ loc'[t].buf = IdleLoc.buf
    BY Zenon, <1>7, BlankFields
  <2>2. \A i \in PeerIds : loc'[t].buf[i] = None
    BY Zenon, <1>5, <2>1
  <2> HIDE DEF l
  <2> QED BY Zenon, <1>7, <2>1, <2>2 DEF Quiet
<1>8. \/ loc'[t] = l /\ pc'[t] = "resolve" /\ ls[t].id = None
      \/ loc'[t] = l /\ pc'[t] = "next"
      \/ loc'[t] = IdleLoc /\ pc'[t] = "idle"
  BY Zenon, <1>1 DEF AfterSave, Goto
<1> QED BY Zenon, <1>4, <1>6, <1>7, <1>8

\* The same, where the save changed no descriptor.
LEMMA SavedQuiet ==
  ASSUME Inv, NEW t \in Tasks, pc[t] \notin {"index", "unindex"}, AfterSave(t, loc)
  PROVE  Quiet(t) /\ \A s \in Tasks \ {t} : Untouched(s)
<1>1. loc \in [Tasks -> LocType]
  BY Zenon DEF Inv, TypeOK
<1> QED BY Zenon, <1>1, AfterSaveQuiet

\* A walk reads no id that is not in the roster or in the buffer.
LEMMA WalkedIssued ==
  ASSUME Inv, NEW t \in Tasks, NEW ids, NEW i \in PeerIds, Walked(t, ids)[i] # None
  PROVE  loc[t].buf[i] # None \/ roster[i] # None
  BY Zenon DEF Walked, Durable

\* The first half of a walk, or its absence without a state directory.
LEMMA CollectQuiet ==
  ASSUME Inv, FreshInv, IndexInv, NEW t \in Tasks, Collect(t)
  PROVE  FreshInv' /\ IndexInv'
<1>1. TypeOK /\ loc[t] \in LocType /\ pc[t] = "collect"
  BY Zenon DEF Inv, TypeOK, Collect
<1>2. Stamped /\ FilesFrom(t) /\ UNCHANGED <<byPubkey, used, crashes, overtaken>>
  BY Zenon, <1>1, Calm DEF Collect, mem, bounds
<1>3. CASE AfterSave(t, loc)
  BY Zenon, <1>1, <1>2, <1>3, SavedQuiet, QuietStep
<1>4. CASE /\ Set(t, [loc[t] EXCEPT !.buf = Walked(t, FirstShard)])
           /\ Goto(t, "collectRest")
  <2>1. /\ pc'[t] = "collectRest" /\ loc'[t] = [loc[t] EXCEPT !.buf = Walked(t, FirstShard)]
        /\ \A s \in Tasks \ {t} : Untouched(s)
    BY Zenon, <1>1, <1>4, OthersUntouched
  <2>2. /\ loc'[t].op = loc[t].op /\ loc'[t].id = loc[t].id /\ loc'[t].pk = loc[t].pk
        /\ loc'[t].buf = Walked(t, FirstShard)
    BY Zenon, <1>1, <2>1 DEF LocType
  <2>3. Quiet(t)
    BY <1>1, <2>1, <2>2, WalkedIssued DEF Quiet
  <2> QED BY Zenon, <1>2, <2>1, <2>3, QuietStep
<1> QED BY Zenon, <1>3, <1>4 DEF Collect

\* The second half of a walk.
LEMMA CollectRestQuiet ==
  ASSUME Inv, FreshInv, IndexInv, NEW t \in Tasks, CollectRest(t)
  PROVE  FreshInv' /\ IndexInv'
<1> DEFINE b == Walked(t, PeerIds \ FirstShard)
<1>1. TypeOK /\ loc[t] \in LocType /\ pc[t] = "collectRest"
  BY Zenon DEF Inv, TypeOK, CollectRest
<1>2. Stamped /\ FilesFrom(t) /\ UNCHANGED <<byPubkey, used, crashes, overtaken>>
  BY Zenon, <1>1, Calm DEF CollectRest, mem, bounds
<1>3. /\ pc'[t] = "open" /\ loc'[t] = [loc[t] EXCEPT !.buf = b]
      /\ \A s \in Tasks \ {t} : Untouched(s)
  BY Zenon, <1>1, OthersUntouched DEF CollectRest
<1>4. /\ loc'[t].op = loc[t].op /\ loc'[t].id = loc[t].id /\ loc'[t].pk = loc[t].pk
      /\ loc'[t].buf = b
  BY Zenon, <1>1, <1>3 DEF LocType
<1>5. Quiet(t)
  BY <1>1, <1>3, <1>4, WalkedIssued DEF Quiet
<1> QED BY Zenon, <1>2, <1>3, <1>5, QuietStep

\* The file is opened.
LEMMA OpenTmpQuiet ==
  ASSUME Inv, FreshInv, IndexInv, NEW t \in Tasks, OpenTmp(t)
  PROVE  FreshInv' /\ IndexInv'
<1>1. TypeOK /\ loc[t] \in LocType /\ pc[t] = "open"
  BY Zenon DEF Inv, TypeOK, OpenTmp
<1>2. Stamped /\ FilesFrom(t) /\ UNCHANGED <<byPubkey, used, crashes, overtaken>>
  BY Zenon, <1>1, Calm DEF OpenTmp, mem, bounds, FilesFrom
<1>3. /\ pc'[t] = "write" /\ loc'[t] = [loc[t] EXCEPT !.fd = "tmp"]
      /\ \A s \in Tasks \ {t} : Untouched(s)
  BY Zenon, <1>1, OthersUntouched DEF OpenTmp
<1>4. /\ loc'[t].op = loc[t].op /\ loc'[t].id = loc[t].id /\ loc'[t].pk = loc[t].pk
      /\ loc'[t].buf = loc[t].buf
  BY Zenon, <1>1, <1>3 DEF LocType
<1>5. Quiet(t)
  BY Zenon, <1>1, <1>3, <1>4 DEF Quiet
<1> QED BY Zenon, <1>2, <1>3, <1>5, QuietStep

\* The file is written.
LEMMA WriteTmpQuiet ==
  ASSUME Inv, FreshInv, IndexInv, NEW t \in Tasks, WriteTmp(t)
  PROVE  FreshInv' /\ IndexInv'
<1>1. TypeOK /\ loc[t] \in LocType /\ pc[t] = "write"
  BY Zenon DEF Inv, TypeOK, WriteTmp
<1>2. Stamped /\ UNCHANGED <<byPubkey, used, crashes, overtaken>>
  BY Zenon, <1>1, Calm DEF WriteTmp, mem, bounds
<1>3. FilesFrom(t)
  BY Zenon DEF WriteTmp, FilesFrom, Written, files
<1>4. CASE Return(t)
  BY Zenon, <1>1, <1>2, <1>3, <1>4, ReturnQuiet, QuietStep
<1>5. CASE Set(t, [loc[t] EXCEPT !.fd = "closed"]) /\ Goto(t, "rename")
  <2>1. /\ pc'[t] = "rename" /\ loc'[t] = [loc[t] EXCEPT !.fd = "closed"]
        /\ \A s \in Tasks \ {t} : Untouched(s)
    BY Zenon, <1>1, <1>5, OthersUntouched
  <2>2. /\ loc'[t].op = loc[t].op /\ loc'[t].id = loc[t].id /\ loc'[t].pk = loc[t].pk
        /\ loc'[t].buf = loc[t].buf
    BY Zenon, <1>1, <2>1 DEF LocType
  <2>3. Quiet(t)
    BY Zenon, <1>1, <2>1, <2>2 DEF Quiet
  <2> QED BY Zenon, <1>2, <1>3, <2>1, <2>3, QuietStep
<1> QED BY Zenon, <1>4, <1>5 DEF WriteTmp

\* The file is renamed.
LEMMA RenameTmpQuiet ==
  ASSUME Inv, FreshInv, IndexInv, NEW t \in Tasks, RenameTmp(t)
  PROVE  FreshInv' /\ IndexInv'
<1> DEFINE ls == [u \in Tasks |-> [loc[u] EXCEPT !.fd = Renamed(@)]]
<1>1. TypeOK /\ pc[t] \notin {"index", "unindex"}
  BY Zenon DEF Inv, RenameTmp
<1>2. Stamped /\ UNCHANGED <<byPubkey, used, crashes, overtaken>>
  BY Zenon, <1>1, Calm DEF RenameTmp, mem, bounds
<1>3. FilesFrom(t)
  BY Zenon DEF RenameTmp, FilesFrom, files
<1>4. CASE AfterSave(t, loc)
  BY Zenon, <1>1, <1>2, <1>3, <1>4, SavedQuiet, QuietStep
<1>5. CASE AfterSave(t, ls)
  <2>1. ls \in [Tasks -> LocType]
    BY Zenon, <1>1, RenamedType
  <2>2. ASSUME NEW s \in Tasks
        PROVE  /\ ls[s].op = loc[s].op /\ ls[s].pk = loc[s].pk /\ ls[s].net = loc[s].net
               /\ ls[s].id = loc[s].id /\ ls[s].target = loc[s].target
               /\ ls[s].ula = loc[s].ula /\ ls[s].gone = loc[s].gone
               /\ ls[s].buf = loc[s].buf
    <3>1. loc[s] \in LocType
      BY Zenon, <1>1 DEF TypeOK
    <3> QED BY Zenon, <3>1 DEF LocType
  <2> HIDE DEF ls
  <2>3. Quiet(t) /\ \A s \in Tasks \ {t} : Untouched(s)
    BY Zenon, <1>1, <1>5, <2>1, <2>2, AfterSaveQuiet
  <2> QED BY Zenon, <1>2, <1>3, <2>3, QuietStep
<1> QED BY Zenon, <1>4, <1>5 DEF RenameTmp

\* A save that fails.
LEMMA SaveFailsQuiet ==
  ASSUME Inv, FreshInv, IndexInv, NEW t \in Tasks, SaveFails(t)
  PROVE  FreshInv' /\ IndexInv'
<1>1. TypeOK /\ pc[t] \notin {"index", "unindex"} /\ AfterSave(t, loc)
  BY Zenon DEF Inv, SaveFails
<1>2. Stamped /\ FilesFrom(t) /\ UNCHANGED <<byPubkey, used, crashes, overtaken>>
  BY Zenon, <1>1, Calm DEF SaveFails, mem, bounds
<1> QED BY Zenon, <1>1, <1>2, SavedQuiet, QuietStep

\* A client that disconnects.
LEMMA CancelQuiet ==
  ASSUME Inv, FreshInv, IndexInv, NEW t \in Tasks, Cancel(t)
  PROVE  FreshInv' /\ IndexInv'
<1>1. TypeOK /\ loc[t] \in LocType /\ pc[t] \in {"open", "write", "rename"}
  BY Zenon DEF Inv, TypeOK, Cancel
<1>2. Stamped /\ FilesFrom(t) /\ UNCHANGED <<byPubkey, used, crashes, overtaken>>
  BY Zenon, <1>1, Calm DEF Cancel, mem, bounds
<1>3. CASE Return(t)
  BY Zenon, <1>1, <1>2, <1>3, ReturnQuiet, QuietStep
<1>4. CASE Set(t, [loc[t] EXCEPT !.op = "detached"]) /\ UNCHANGED pc
  <2>1. /\ loc'[t] = [loc[t] EXCEPT !.op = "detached"]
        /\ \A s \in Tasks \ {t} : Untouched(s)
    BY Zenon, <1>1, <1>4 DEF Set, TypeOK, Untouched
  <2>2. loc'[t].op = "detached" /\ loc'[t].buf = loc[t].buf
    BY Zenon, <1>1, <2>1 DEF LocType
  <2>3. Quiet(t)
    BY Zenon, <1>1, <1>4, <2>2 DEF Quiet
  <2> QED BY Zenon, <1>2, <2>1, <2>3, QuietStep
<1> QED BY Zenon, <1>3, <1>4 DEF Cancel
-----------------------------------------------------------------------------
(* The steps that touch the index or an address.                           *)

\* Register: a join under way means the key has no entry.
LEMMA RegisterKeys ==
  ASSUME Inv, FreshInv, IndexInv, NEW t \in Tasks, Register(t)
  PROVE  FreshInv' /\ IndexInv'
<1>1. TypeOK /\ pc[t] = "idle" /\ lock = None
  BY Zenon DEF Inv, Register
<1>2. Stamped /\ FilesFrom(t) /\ UNCHANGED <<byPubkey, used, crashes, overtaken>>
  BY Zenon, <1>1, Calm DEF Register, mem
<1>3. PICK k \in Pubkeys, n \in Networks, a \in Requestable \cup {None} :
        /\ Set(t, [IdleLoc EXCEPT !.op = "register", !.pk = k, !.net = n,
                                  !.ask = a, !.id = byPubkey[k]])
        /\ Goto(t, IF byPubkey[k] = None THEN "evict" ELSE "refresh")
  BY Zenon DEF Register
<1>4. /\ pc'[t] = IF byPubkey[k] = None THEN "evict" ELSE "refresh"
      /\ loc'[t] = [IdleLoc EXCEPT !.op = "register", !.pk = k, !.net = n,
                                  !.ask = a, !.id = byPubkey[k]]
      /\ \A s \in Tasks \ {t} : Untouched(s)
  BY Zenon, <1>1, <1>3, OthersUntouched
<1>5. loc'[t].pk = k /\ loc'[t].id = byPubkey[k] /\ loc'[t].buf = IdleLoc.buf
  BY Zenon, <1>4 DEF IdleLoc
<1>6. \A i \in PeerIds : loc'[t].buf[i] = None
  BY Zenon, <1>5 DEF IdleLoc
<1>7. Quiet(t)
  BY Zenon, <1>1, <1>4, <1>5, <1>6 DEF Quiet
<1> QED BY Zenon, <1>2, <1>4, <1>7, QuietStep

\* Refresh: an address is drawn only for a network the entry is not in.
LEMMA RefreshKeys ==
  ASSUME Inv, FreshInv, IndexInv, NEW t \in Tasks, Refresh(t)
  PROVE  FreshInv' /\ IndexInv'
<1> DEFINE i == loc[t].id
           slot == NetworkSlot[loc[t].net]
           u == AddressFor(slot, allocator[slot] + 1)
<1>1. /\ TypeOK /\ pc[t] = "refresh" /\ loc[t] \in LocType /\ i \in PeerIds
      /\ loc[t].ula = None
  BY Zenon DEF Inv, Refresh, TypeOK, TaskInv
<1>2. Stamped /\ FilesFrom(t) /\ UNCHANGED <<byPubkey, used, crashes, overtaken>>
  BY Zenon, <1>1, Calm DEF Refresh, bounds
<1>3. CASE Return(t)
  BY Zenon, <1>1, <1>2, <1>3, ReturnQuiet, QuietStep
<1>4. CASE Goto(t, "rewrite") /\ UNCHANGED loc
  <2>1. pc'[t] = "rewrite" /\ loc'[t] = loc[t] /\ \A s \in Tasks \ {t} : Untouched(s)
    BY Zenon, <1>1, <1>4, OthersUntouchedPc
  <2>2. Quiet(t)
    BY Zenon, <1>1, <2>1 DEF Quiet
  <2> QED BY Zenon, <1>2, <2>1, <2>2, QuietStep
<1>5. CASE /\ Goto(t, "rewrite") /\ Set(t, [loc[t] EXCEPT !.ula = u])
           /\ Validator /\ loc[t].net # roster[i].net
  <2>1. /\ pc'[t] = "rewrite" /\ loc'[t] = [loc[t] EXCEPT !.ula = u]
        /\ \A s \in Tasks \ {t} : Untouched(s)
    BY <1>1, <1>5, OthersUntouched
  <2>2. /\ loc'[t].op = loc[t].op /\ loc'[t].id = loc[t].id /\ loc'[t].pk = loc[t].pk
        /\ loc'[t].buf = loc[t].buf /\ loc'[t].net = loc[t].net
    BY Zenon, <1>1, <2>1 DEF LocType
  <2>3. Quiet(t)
    BY Zenon, <1>1, <1>5, <2>1, <2>2 DEF Quiet
  <2> QED BY Zenon, <1>2, <2>1, <2>3, QuietStep
<1> QED BY Zenon, <1>3, <1>4, <1>5 DEF Refresh

\* ResolveUla: the new id was never issued, so nobody holds it.
LEMMA ResolveUlaKeys ==
  ASSUME Inv, FreshInv, IndexInv, NEW t \in Tasks, ResolveUla(t)
  PROVE  FreshInv' /\ IndexInv'
<1>1. /\ TypeOK /\ pc[t] = "resolve" /\ loc[t] \in LocType /\ loc[t].op = "register"
      /\ loc[t].id = None
  BY Zenon DEF Inv, ResolveUla, TypeOK, TaskInv, FreshInv, Claims
<1>2. Stamped /\ FilesFrom(t) /\ UNCHANGED <<roster, byPubkey, files, crashes, overtaken>>
  BY Zenon, <1>1, Calm DEF ResolveUla
<1>3. CASE Return(t) /\ UNCHANGED used
  BY Zenon, <1>1, <1>2, <1>3, ReturnQuiet, QuietStep
<1>4. ASSUME NEW i \in PeerIds \ used, NEW a, used' = used \cup {i},
             Set(t, [loc[t] EXCEPT !.id = i, !.ula = a]), Goto(t, "join")
      PROVE  FreshInv' /\ IndexInv'
  <2>1. /\ pc'[t] = "join" /\ loc'[t] = [loc[t] EXCEPT !.id = i, !.ula = a]
        /\ \A s \in Tasks \ {t} : Untouched(s)
    BY Zenon, <1>1, <1>4, OthersUntouched
  <2>2. /\ loc'[t].op = loc[t].op /\ loc'[t].id = i /\ loc'[t].pk = loc[t].pk
        /\ loc'[t].buf = loc[t].buf
    BY Zenon, <1>1, <2>1 DEF LocType
  <2>3. \A s \in Tasks : loc'[s].buf = loc[s].buf
    BY Zenon, <2>1, <2>2 DEF Untouched
  <2>4. ASSUME NEW s \in Tasks PROVE Claims(s)'
    <3>1. CASE s = t
      <4>1. roster[i] = None /\ \A k \in Pubkeys : byPubkey[k] # i
        BY Zenon, NoneAssumption DEF FreshInv, Issued
      <4> QED BY Zenon, <1>2, <1>4, <2>1, <2>2, <3>1, <4>1 DEF Claims
    <3>2. CASE s # t
      <4>1. Claims(s) /\ Untouched(s)
        BY Zenon, <2>1, <3>2 DEF FreshInv
      <4> QED BY Zenon, <1>2, <1>4, <4>1 DEF Claims, Untouched
    <3> QED BY Zenon, <3>1, <3>2
  <2>5. FreshInv'
    BY Zenon, <1>2, <1>4, <2>3, <2>4 DEF FreshInv, Issued, files
  <2>6. \A j, q : Known(j, q) => Known(j, q)'
    BY Zenon, <1>1, <1>2, <2>1, KnownKept
  <2>7. ASSUME NEW s \in Tasks, KeyInv(s) PROVE KeyInv(s)'
    <3>1. CASE s = t
      BY Zenon, <1>1, <1>2, <2>1, <2>2, <2>7, <3>1 DEF KeyInv, Joining, Unindexing
    <3>2. CASE s # t
      <4>1. Untouched(s)
        BY Zenon, <2>1, <3>2
      <4> QED BY Zenon, <1>2, <2>7, <2>6, <4>1 DEF KeyInv, Joining, Unindexing, Untouched
    <3> QED BY Zenon, <3>1, <3>2
  <2>8. \A s \in Tasks : (Unindexing(s)' <=> Unindexing(s))
                         /\ (Unindexing(s) => loc'[s].gone = loc[s].gone)
    BY Zenon, <1>1, <2>1 DEF Unindexing, Untouched
  <2>9. \A k \in Pubkeys : Indexed(k) => Indexed(k)'
    BY Zenon, <1>2, <2>8 DEF Indexed
  <2>10. IndexInv'
    BY Zenon, <1>2, <2>7, <2>8, <2>9, <2>6 DEF IndexInv
  <2> QED BY Zenon, <2>5, <2>10
<1> QED BY Zenon, <1>3, <1>4 DEF ResolveUla

\* While t registers, no other task is at a statement of a registration.
LEMMA OthersOutside ==
  ASSUME Inv, NEW t \in Tasks, loc[t].op = "register", NEW s \in Tasks \ {t}, Untouched(s)
  PROVE  /\ pc'[s] \notin {"join", "index", "rewrite", "evict", "evicted", "resolve"}
         /\ loc'[s].op # "register" /\ Claims(s)'
<1>1. TaskInv(t) /\ TaskInv(s)
  BY Zenon DEF Inv
<1>2. loc[s].op # "register"
  BY Zenon, <1>1 DEF TaskInv
<1> QED BY Zenon, <1>1, <1>2 DEF TaskInv, Untouched, Claims

\* Rewrite: the entry keeps its key.
LEMMA RewriteKeys ==
  ASSUME Inv, FreshInv, IndexInv, NEW t \in Tasks, Rewrite(t)
  PROVE  FreshInv' /\ IndexInv'
<1> DEFINE i == loc[t].id
           e == Refreshed(roster[i], loc[t])
<1>1. /\ TypeOK /\ TaskInv(t) /\ pc[t] = "rewrite" /\ loc[t] \in LocType
      /\ loc[t].op = "register" /\ i \in PeerIds /\ i # None
  BY Zenon, NoneAssumption DEF Inv, Rewrite, TypeOK, TaskInv
<1>2. FilesFrom(t) /\ UNCHANGED <<byPubkey, used, crashes, overtaken, files>>
  BY Zenon, <1>1, Calm DEF Rewrite, bounds
<1>3. CASE roster[i] = None
  <2>1. Stamped
    BY Zenon, <1>1, <1>3, Calm DEF Rewrite
  <2>2. Return(t)
    BY Zenon, <1>3 DEF Rewrite
  <2> QED BY Zenon, <1>1, <1>2, <2>1, <2>2, ReturnQuiet, QuietStep
<1>4. CASE roster[i] # None
  <2>1. /\ roster' = [roster EXCEPT ![i] = e]
        /\ Set(t, [loc[t] EXCEPT !.ent = e])
        /\ Goto(t, IF loc[t].ula = None THEN "announce" ELSE "moved")
    BY Zenon, <1>4 DEF Rewrite
  <2>2. roster[i] \in Entry /\ e \in Entry
    BY Zenon, <1>1, <1>4, RefreshedType DEF TypeOK, Snapshot, MaybeEntry, TaskInv
  <2>3. e.pk = roster[i].pk /\ e # None
    BY Zenon, <2>2, EntryAssumption DEF Refreshed, Entry
  <2> HIDE DEF e
  <2>4. \A j \in PeerIds : roster'[j] = IF j = i THEN e ELSE roster[j]
    BY Zenon, <1>1, <2>1 DEF TypeOK, Snapshot
  <2>5. /\ pc'[t] \in {"announce", "moved"} /\ loc'[t] = [loc[t] EXCEPT !.ent = e]
        /\ \A s \in Tasks \ {t} : Untouched(s)
    BY <1>1, <2>1, OthersUntouched
  <2>6. loc'[t].id = i /\ loc'[t].buf = loc[t].buf
    BY Zenon, <1>1, <2>5 DEF LocType
  <2>7. /\ \A j \in PeerIds : roster'[j] = None <=> roster[j] = None
        /\ \A j \in PeerIds : roster[j] # None => roster'[j].pk = roster[j].pk
    BY Zenon, <1>4, <2>3, <2>4
  <2>8. \A s \in Tasks : Claims(s)'
    BY Zenon, <1>1, <2>5, OthersOutside DEF Claims
  <2>9. \A s \in Tasks : loc'[s].buf = loc[s].buf
    BY Zenon, <2>5, <2>6 DEF Untouched
  <2>10. FreshInv'
    BY Zenon, <1>2, <2>7, <2>8, <2>9 DEF FreshInv, Issued, files
  <2>11. \A j, q : Known(j, q) => Known(j, q)'
    BY Zenon, <1>1, <1>2, <2>5, KnownKept
  <2>12. ASSUME NEW s \in Tasks, KeyInv(s) PROVE KeyInv(s)'
    <3>1. CASE s = t
      BY Zenon, <1>1, <2>5, <2>6, <3>1 DEF KeyInv, Joining, Unindexing
    <3>2. CASE s # t
      <4>1. Untouched(s) /\ TaskInv(s) /\ ~Joining(s)'
              /\ pc'[s] # "index"
        BY Zenon, <1>1, <2>5, <3>2, OthersOutside DEF Inv, Joining
      <4> QED BY Zenon, <2>7, <2>12, <2>11, <4>1 DEF KeyInv, Unindexing, Untouched, TaskInv
    <3> QED BY Zenon, <3>1, <3>2
  <2>13. \A s \in Tasks : (Unindexing(s)' <=> Unindexing(s))
                          /\ (Unindexing(s) => loc'[s].gone = loc[s].gone)
    BY Zenon, <1>1, <2>5 DEF Unindexing, Untouched
  <2>14. ASSUME NEW k \in Pubkeys, Indexed(k) PROVE Indexed(k)'
    <3>1. byPubkey[k] \in PeerIds \cup {None}
      BY Zenon, <1>1 DEF TypeOK
    <3> QED BY Zenon, <1>2, <2>7, <2>13, <2>14, <3>1 DEF Indexed
  <2>15. IndexInv'
    BY Zenon, <1>2, <2>7, <2>12, <2>13, <2>14, <2>11 DEF IndexInv
  <2> QED BY Zenon, <2>10, <2>15
<1> QED BY Zenon, <1>3, <1>4

\* ApplyPeerJoined: the id is new to the roster and its key not indexed yet.
LEMMA ApplyPeerJoinedKeys ==
  ASSUME Inv, FreshInv, IndexInv, NEW t \in Tasks, ApplyPeerJoined(t)
  PROVE  FreshInv' /\ IndexInv'
<1> DEFINE i == loc[t].id
           k == loc[t].pk
           e == [pk |-> k, ula |-> loc[t].ula, net |-> loc[t].net, fresh |-> TRUE]
<1>1. /\ TypeOK /\ TaskInv(t) /\ pc[t] = "join" /\ loc[t] \in LocType
      /\ loc[t].op = "register" /\ i \in PeerIds /\ i # None
      /\ k \in Pubkeys
  BY Zenon, NoneAssumption DEF Inv, ApplyPeerJoined, TypeOK, TaskInv
<1>2. FilesFrom(t) /\ UNCHANGED <<byPubkey, used, crashes, overtaken, files>>
  BY Zenon, <1>1, Calm DEF ApplyPeerJoined, bounds
<1>3. CASE Return(t) /\ UNCHANGED roster
  <2>1. Stamped
    BY Zenon, <1>1, <1>3, Calm
  <2> QED BY Zenon, <1>1, <1>2, <1>3, <2>1, ReturnQuiet, QuietStep
<1>4. CASE /\ roster' = [roster EXCEPT ![i] = e]
           /\ Set(t, [loc[t] EXCEPT !.ent = e])
           /\ Goto(t, "index")
  <2>1. i \in used /\ roster[i] = None /\ \A q \in Pubkeys : byPubkey[q] # i
    BY Zenon, <1>1 DEF FreshInv, Claims
  <2>2. e.pk = k /\ e # None
    <3>1. e \in Entry
      BY Zenon, <1>1 DEF TaskInv, Entry
    <3> QED BY Zenon, <3>1, EntryAssumption
  <2> HIDE DEF e
  <2>3. \A j \in PeerIds : roster'[j] = IF j = i THEN e ELSE roster[j]
    BY Zenon, <1>1, <1>4 DEF TypeOK, Snapshot
  <2>4. /\ pc'[t] = "index" /\ loc'[t] = [loc[t] EXCEPT !.ent = e]
        /\ \A s \in Tasks \ {t} : Untouched(s)
    BY Zenon, <1>1, <1>4, OthersUntouched
  <2>5. loc'[t].id = i /\ loc'[t].pk = k /\ loc'[t].buf = loc[t].buf
    BY Zenon, <1>1, <2>4 DEF LocType
  <2>6. \A s \in Tasks : Claims(s)'
    BY ZenonT(40), <1>1, <1>2, <2>1, <2>4, <2>5, OthersOutside DEF Claims
  <2>7. \A s \in Tasks : loc'[s].buf = loc[s].buf
    BY Zenon, <2>4, <2>5 DEF Untouched
  <2>8. FreshInv'
    BY ZenonT(40), <1>2, <2>1, <2>3, <2>6, <2>7 DEF FreshInv, Issued, files
  <2>9. \A s \in Tasks : (Unindexing(s)' <=> Unindexing(s))
                         /\ (Unindexing(s) => loc'[s].gone = loc[s].gone)
    BY Zenon, <1>1, <2>4 DEF Unindexing, Untouched
  <2>10. \A j, q : Known(j, q) => Known(j, q)'
    BY Zenon, <1>1, <1>2, <2>4, KnownKept
  <2>11. \A s \in Tasks : pc[s] # "index"
    <3>1. ASSUME NEW s \in Tasks \ {t} PROVE pc[s] # "index"
      <4>1. Untouched(s) /\ pc'[s] # "index"
        BY Zenon, <1>1, <2>4, OthersOutside
      <4> QED BY Zenon, <4>1 DEF Untouched
    <3> QED BY Zenon, <1>1, <3>1
  <2>12. \A q \in Pubkeys : ~Known(i, q)
    BY Zenon, <2>1, <2>11 DEF Known
  <2>13. ASSUME crashes = 0 PROVE IndexInv'
    <3>1. byPubkey[k] = None
      BY Zenon, <1>1, <2>13 DEF IndexInv, KeyInv, Joining
    <3>2. ASSUME NEW s \in Tasks PROVE KeyInv(s)'
      <4>1. CASE s = t
        BY Zenon, <1>1, <1>2, <2>2, <2>3, <2>4, <2>5, <3>1, <4>1 DEF KeyInv, Joining, Unindexing
      <4>2. CASE s # t
        <5>1. Untouched(s) /\ TaskInv(s) /\ ~Joining(s)' /\ KeyInv(s) /\ pc'[s] # "index"
          BY Zenon, <1>1, <2>4, <2>13, <4>2, OthersOutside DEF Inv, Joining, IndexInv
        <5>2. ASSUME Unindexing(s)
              PROVE  /\ loc[s].target \in PeerIds /\ loc[s].gone \in Pubkeys
                     /\ roster[loc[s].target] = None /\ Known(loc[s].target, loc[s].gone)
          BY Zenon, <5>1, <5>2 DEF TaskInv, Unindexing, KeyInv
        <5>3. Unindexing(s) => loc[s].target # i
          BY Zenon, <2>12, <5>2
        <5>4. Unindexing(s) => roster'[loc[s].target] = None
          BY Zenon, <2>3, <5>2, <5>3
        <5> QED BY Zenon, <2>10, <5>1, <5>2, <5>4 DEF KeyInv, Unindexing, Untouched
      <4> QED BY Zenon, <4>1, <4>2
    <3>3. ASSUME NEW j \in PeerIds, roster'[j] # None
          PROVE  Known(j, roster[j].pk)'
      <4>1. CASE j = i
        <5>1. roster'[i].pk = k
          BY Zenon, <1>1, <2>2, <2>3
        <5> QED BY Zenon, <2>4, <2>5, <4>1, <5>1 DEF Known
      <4>2. CASE j # i
        <5>1. roster'[j] = roster[j]
          BY Zenon, <2>3, <4>2
        <5>2. Known(j, roster[j].pk)
          BY Zenon, <2>13, <3>3, <5>1 DEF IndexInv
        <5> QED BY Zenon, <2>10, <5>1, <5>2
      <4> QED BY Zenon, <4>1, <4>2
    <3>4. ASSUME NEW q \in Pubkeys PROVE Indexed(q)'
      <4>1. Indexed(q) /\ byPubkey'[q] = byPubkey[q] /\ byPubkey[q] \in PeerIds \cup {None}
        BY Zenon, <1>1, <1>2, <2>13 DEF IndexInv, TypeOK
      <4> QED BY Zenon, <1>2, <2>1, <2>3, <2>9, <4>1 DEF Indexed
    <3>5. \A r, s \in Tasks :
            Unindexing(r)' /\ Unindexing(s)' /\ loc'[r].gone = loc'[s].gone => r = s
      BY Zenon, <2>9, <2>13 DEF IndexInv
    <3> QED BY Zenon, <3>2, <3>3, <3>4, <3>5 DEF IndexInv
  <2> QED BY Zenon, <2>8, <2>13, <1>2 DEF IndexInv
<1> QED BY Zenon, <1>3, <1>4 DEF ApplyPeerJoined

\* IndexPeer: what was about to be found is found; a key whose entry is gone
\* is either being removed or recorded as overtaken.
LEMMA IndexPeerKeys ==
  ASSUME Inv, FreshInv, IndexInv, NEW t \in Tasks, IndexPeer(t)
  PROVE  FreshInv' /\ IndexInv'
<1> DEFINE i == loc[t].id
           k == loc[t].pk
<1>1. /\ TypeOK /\ TaskInv(t) /\ pc[t] = "index" /\ loc[t].op = "register"
      /\ i \in PeerIds /\ i # None /\ k \in Pubkeys
  BY Zenon, NoneAssumption DEF Inv, IndexPeer, TaskInv
<1>2. UNCHANGED <<roster, loc, used, crashes, files>>
  BY Zenon DEF IndexPeer
<1>3. \A q \in Pubkeys : byPubkey'[q] = IF q = k THEN i ELSE byPubkey[q]
  BY Zenon, <1>1 DEF TypeOK, IndexPeer
<1>4. /\ overtaken \subseteq overtaken'
      /\ roster[i] = None /\ ~Departing(k) => k \in overtaken'
  BY Zenon DEF IndexPeer
<1>5. pc'[t] = "announce" /\ \A s \in Tasks \ {t} : Untouched(s)
  BY Zenon, <1>1, <1>2, OthersUntouchedPc DEF IndexPeer
<1>6. \A s \in Tasks : Claims(s)'
  BY Zenon, <1>1, <1>2, <1>5, OthersOutside DEF Claims
<1>7. i \in used
  BY Zenon, <1>1 DEF FreshInv, Claims
<1>8. FreshInv'
  BY Zenon, <1>2, <1>3, <1>6, <1>7 DEF FreshInv, Issued, files
<1>9. \A s \in Tasks : Unindexing(s)' <=> Unindexing(s)
  BY Zenon, <1>1, <1>5 DEF Unindexing, Untouched
<1>10. ASSUME crashes = 0 PROVE IndexInv'
  <2>1. byPubkey[k] = None /\ (roster[i] # None => roster[i].pk = k)
    BY Zenon, <1>1, <1>10 DEF IndexInv, KeyInv, Joining
  <2>2. ASSUME NEW s \in Tasks \ {t} PROVE pc[s] # "index"
    <3>1. Untouched(s) /\ pc'[s] # "index"
      BY Zenon, <1>1, <1>5, OthersOutside
    <3> QED BY Zenon, <3>1 DEF Untouched
  <2>3. ASSUME NEW j \in PeerIds, NEW q \in Pubkeys, Known(j, q)
        PROVE  Known(j, q)'
    <3>1. CASE byPubkey[q] = j
      BY Zenon, <1>3, <2>1, <3>1, NoneAssumption DEF Known
    <3>2. CASE j = i /\ q = k
      BY Zenon, <1>1, <1>3, <3>2 DEF Known
    <3> QED BY Zenon, <2>2, <2>3, <3>1, <3>2 DEF Known
  <2>4. ASSUME NEW s \in Tasks PROVE KeyInv(s)'
    <3>1. CASE s = t
      BY Zenon, <1>1, <1>2, <1>5, <3>1 DEF KeyInv, Joining, Unindexing
    <3>2. CASE s # t
      <4>1. TaskInv(s) /\ ~Joining(s)' /\ KeyInv(s) /\ pc'[s] # "index"
        BY Zenon, <1>1, <1>5, <1>10, <3>2, OthersOutside DEF Inv, Joining, IndexInv
      <4>2. Unindexing(s) =>
              /\ loc[s].target \in PeerIds /\ loc[s].gone \in Pubkeys
              /\ roster[loc[s].target] = None /\ Known(loc[s].target, loc[s].gone)
        BY Zenon, <4>1 DEF TaskInv, Unindexing, KeyInv
      <4> QED BY Zenon, <1>2, <1>9, <2>3, <4>1, <4>2 DEF KeyInv
    <3> QED BY Zenon, <3>1, <3>2
  <2>5. ASSUME NEW j \in PeerIds, roster'[j] # None
        PROVE  Known(j, roster[j].pk)'
    <3>1. roster'[j] = roster[j] /\ roster[j].pk \in Pubkeys /\ Known(j, roster[j].pk)
      BY Zenon, <1>1, <1>2, <1>10, <2>5 DEF TypeOK, Snapshot, MaybeEntry, Entry, IndexInv
    <3> QED BY Zenon, <1>2, <2>3, <3>1
  <2>6. ASSUME NEW q \in Pubkeys PROVE Indexed(q)'
    <3>1. CASE q = k
      <4>1. CASE roster[i] # None
        BY Zenon, <1>1, <1>2, <1>3, <2>1, <3>1, <4>1 DEF Indexed
      <4>2. CASE roster[i] = None /\ ~Departing(k)
        BY Zenon, <1>4, <3>1, <4>2 DEF Indexed
      <4>3. CASE Departing(k)
        BY Zenon, <1>2, <1>9, <3>1, <4>3 DEF Indexed, Departing, Unindexing
      <4> QED BY Zenon, <4>1, <4>2, <4>3
    <3>2. CASE q # k
      <4>1. Indexed(q) /\ byPubkey'[q] = byPubkey[q]
        BY Zenon, <1>3, <1>10, <3>2 DEF IndexInv
      <4> QED BY Zenon, <1>2, <1>4, <1>9, <4>1 DEF Indexed
    <3> QED BY Zenon, <3>1, <3>2
  <2>7. \A a, b \in Tasks :
          Unindexing(a)' /\ Unindexing(b)' /\ loc'[a].gone = loc'[b].gone => a = b
    BY Zenon, <1>2, <1>9, <1>10 DEF IndexInv
  <2> QED BY Zenon, <2>4, <2>5, <2>6, <2>7 DEF IndexInv
<1> QED BY Zenon, <1>2, <1>8, <1>10 DEF IndexInv

\* Leave: the key of the entry that goes is the one the index has it under.
LEMMA LeaveKeys ==
  ASSUME Inv, FreshInv, IndexInv, NEW t \in Tasks, Leave(t)
  PROVE  FreshInv' /\ IndexInv'
<1> DEFINE i == loc[t].target
           k == roster[i].pk
<1>1. /\ TypeOK /\ TaskInv(t) /\ pc[t] = "leave" /\ loc[t] \in LocType
      /\ i \in PeerIds /\ i # None
  BY Zenon, NoneAssumption DEF Inv, Leave, TypeOK, TaskInv
<1>2. FilesFrom(t) /\ UNCHANGED <<byPubkey, used, crashes, overtaken, files>>
  BY Zenon, <1>1, Calm DEF Leave, bounds
<1>3. CASE roster[i] = None
  <2>1. Stamped
    BY Zenon, <1>1, <1>3, Calm DEF Leave
  <2>2. /\ pc'[t] \in {"collect", "departed"} /\ loc'[t] = loc[t]
        /\ \A s \in Tasks \ {t} : Untouched(s)
    BY Zenon, <1>1, <1>3, OthersUntouchedPc DEF Leave
  <2>3. Quiet(t)
    BY Zenon, <1>1, <2>2 DEF Quiet
  <2> QED BY Zenon, <1>2, <2>1, <2>2, <2>3, QuietStep
<1>4. CASE roster[i] # None
  <2>1. /\ roster' = [roster EXCEPT ![i] = None]
        /\ Set(t, [loc[t] EXCEPT !.gone = k])
        /\ Goto(t, "unindex")
    BY Zenon, <1>4 DEF Leave
  <2>2. k \in Pubkeys
    BY Zenon, <1>1, <1>4 DEF TypeOK, Snapshot, MaybeEntry, Entry
  <2>3. \A j \in PeerIds : roster'[j] = IF j = i THEN None ELSE roster[j]
    BY Zenon, <1>1, <2>1 DEF TypeOK, Snapshot
  <2>4. /\ pc'[t] = "unindex" /\ loc'[t] = [loc[t] EXCEPT !.gone = k]
        /\ \A s \in Tasks \ {t} : Untouched(s)
    BY Zenon, <1>1, <2>1, OthersUntouched
  <2>5. /\ loc'[t].op = loc[t].op /\ loc'[t].id = loc[t].id /\ loc'[t].pk = loc[t].pk
        /\ loc'[t].target = i /\ loc'[t].gone = k /\ loc'[t].buf = loc[t].buf
    BY Zenon, <1>1, <2>4 DEF LocType
  <2>6. ASSUME NEW s \in Tasks PROVE Claims(s)'
    <3>1. CASE s = t
      BY Zenon, <2>4, <3>1 DEF Claims
    <3>2. CASE s # t
      <4>1. Claims(s) /\ Untouched(s) /\ TaskInv(s)
        BY Zenon, <2>4, <3>2 DEF FreshInv, Inv
      <4> QED BY ZenonT(40), <1>2, <2>3, <4>1 DEF Claims, Untouched, TaskInv
    <3> QED BY Zenon, <3>1, <3>2
  <2>7. \A s \in Tasks : loc'[s].buf = loc[s].buf
    BY Zenon, <2>4, <2>5 DEF Untouched
  <2>8. FreshInv'
    BY Zenon, <1>2, <2>3, <2>6, <2>7 DEF FreshInv, Issued, files
  <2>9. ASSUME crashes = 0 PROVE IndexInv'
    <3>0. \A j, q : Known(j, q) => Known(j, q)'
      BY Zenon, <1>1, <1>2, <2>4, KnownKept
    <3>1. Known(i, k)
      BY Zenon, <1>1, <1>4, <2>9 DEF IndexInv
    <3>2. ASSUME NEW s \in Tasks PROVE KeyInv(s)'
      <4>0. KeyInv(s)
        BY Zenon, <2>9 DEF IndexInv
      <4>1. CASE s = t
        BY Zenon, <1>1, <1>2, <2>3, <2>4, <2>5, <3>0, <3>1, <4>0, <4>1 DEF KeyInv, Joining, Unindexing
      <4>2. CASE s # t
        <5>1. Untouched(s) /\ TaskInv(s)
          BY Zenon, <2>4, <4>2 DEF Inv
        <5> QED BY Zenon, <1>2, <2>3, <3>0, <4>0, <5>1 DEF KeyInv, Joining, Unindexing, Untouched, TaskInv
      <4> QED BY Zenon, <4>1, <4>2
    <3>3. \A j \in PeerIds : roster'[j] # None => Known(j, roster[j].pk)'
      BY Zenon, <2>3, <2>9, <3>0 DEF IndexInv
    <3>4. \A s \in Tasks \ {t} : (Unindexing(s)' <=> Unindexing(s))
                                 /\ loc'[s].gone = loc[s].gone
      BY Zenon, <2>4 DEF Unindexing, Untouched
    <3>5. ~Unindexing(t) /\ Unindexing(t)'
      BY Zenon, <1>1, <2>4 DEF Unindexing
    <3>6. ASSUME NEW q \in Pubkeys PROVE Indexed(q)'
      <4>1. CASE q = k
        BY Zenon, <2>5, <3>5, <4>1 DEF Indexed
      <4>2. CASE q # k
        <5>1. Indexed(q) /\ byPubkey[q] \in PeerIds \cup {None}
          BY Zenon, <1>1, <2>9 DEF IndexInv, TypeOK
        <5>2. CASE \E s \in Tasks : Unindexing(s) /\ loc[s].gone = q
          <6>1. PICK s \in Tasks : Unindexing(s) /\ loc[s].gone = q
            BY Zenon, <5>2
          <6>2. Unindexing(s)' /\ loc'[s].gone = q
            BY Zenon, <3>4, <3>5, <6>1
          <6> QED BY Zenon, <6>2 DEF Indexed
        <5>3. CASE byPubkey[q] = None \/ (roster[byPubkey[q]] # None /\ roster[byPubkey[q]].pk = q)
          BY Zenon, <1>2, <2>3, <4>2, <5>1, <5>3 DEF Indexed
        <5>4. CASE q \in overtaken
          BY Zenon, <1>2, <5>4 DEF Indexed
        <5> QED BY Zenon, <5>1, <5>2, <5>3, <5>4 DEF Indexed
      <4> QED BY Zenon, <4>1, <4>2
    <3>7. ASSUME NEW s \in Tasks \ {t}, Unindexing(s)
          PROVE  loc[s].gone # k
      <4>1. (\A u \in Tasks : KeyInv(u)) /\ TaskInv(s)
        BY Zenon, <2>9 DEF IndexInv, Inv
      <4>2. /\ loc[s].target \in PeerIds /\ roster[loc[s].target] = None
            /\ Known(loc[s].target, loc[s].gone)
        BY Zenon, <3>7, <4>1 DEF KeyInv, TaskInv, Unindexing
      <4>3. loc[s].gone = k => loc[s].target = i
        BY Zenon, <1>1, <3>1, <4>1, <4>2, KnownOnce
      <4> QED BY Zenon, <1>4, <4>2, <4>3
    <3>8. \A a, b \in Tasks :
            Unindexing(a) /\ Unindexing(b) /\ loc[a].gone = loc[b].gone => a = b
      BY Zenon, <2>9 DEF IndexInv
    <3>9. \A a, b \in Tasks :
            Unindexing(a)' /\ Unindexing(b)' /\ loc'[a].gone = loc'[b].gone => a = b
      BY Zenon, <2>5, <3>4, <3>7, <3>8
    <3> QED BY Zenon, <3>2, <3>3, <3>6, <3>9 DEF IndexInv
  <2> QED BY Zenon, <1>2, <2>8, <2>9 DEF IndexInv
<1> QED BY Zenon, <1>3, <1>4

\* Unindex: no other task is removing the same key.
LEMMA UnindexKeys ==
  ASSUME Inv, FreshInv, IndexInv, NEW t \in Tasks, Unindex(t)
  PROVE  FreshInv' /\ IndexInv'
<1> DEFINE k == loc[t].gone
           l == [loc[t] EXCEPT !.gone = None]
<1>1. /\ TypeOK /\ TaskInv(t) /\ pc[t] = "unindex" /\ loc[t] \in LocType
      /\ k \in Pubkeys
  BY Zenon DEF Inv, Unindex, TypeOK, TaskInv
<1>2. UNCHANGED <<roster, used, crashes, overtaken, files>>
  BY Zenon DEF Unindex, bounds
<1>3. \A q \in Pubkeys : byPubkey'[q] = IF q = k THEN None ELSE byPubkey[q]
  BY Zenon, <1>1 DEF TypeOK, Unindex
<1>4. /\ pc'[t] \in {"collect", "departed"} /\ loc'[t] = l
      /\ \A s \in Tasks \ {t} : Untouched(s)
  BY Zenon, <1>1, OthersUntouched DEF Unindex
<1>5. /\ loc'[t].op = loc[t].op /\ loc'[t].id = loc[t].id /\ loc'[t].pk = loc[t].pk
      /\ loc'[t].buf = loc[t].buf
  BY Zenon, <1>1, <1>4 DEF LocType
<1>6. ASSUME NEW s \in Tasks PROVE Claims(s)'
  <2>1. CASE s = t
    BY Zenon, <1>4, <2>1 DEF Claims
  <2>2. CASE s # t
    <3>1. Claims(s) /\ Untouched(s) /\ TaskInv(s)
      BY Zenon, <1>4, <2>2 DEF FreshInv, Inv
    <3> QED BY Zenon, <1>2, <1>3, <3>1, NoneAssumption DEF Claims, Untouched, TaskInv
  <2> QED BY Zenon, <2>1, <2>2
<1>7. \A s \in Tasks : loc'[s].buf = loc[s].buf
  BY Zenon, <1>4, <1>5 DEF Untouched
<1>8. FreshInv'
  BY Zenon, <1>2, <1>3, <1>6, <1>7 DEF FreshInv, Issued, files
<1>9. ASSUME crashes = 0 PROVE IndexInv'
  <2>1. Unindexing(t) /\ ~Unindexing(t)' /\ roster[loc[t].target] = None
        /\ Known(loc[t].target, k)
    BY Zenon, <1>1, <1>4, <1>9 DEF Unindexing, IndexInv, KeyInv
  <2>2. \A s \in Tasks \ {t} : (Unindexing(s)' <=> Unindexing(s))
                               /\ loc'[s].gone = loc[s].gone
    BY Zenon, <1>4 DEF Unindexing, Untouched
  <2>3. \A a, b \in Tasks :
          Unindexing(a) /\ Unindexing(b) /\ loc[a].gone = loc[b].gone => a = b
    BY Zenon, <1>9 DEF IndexInv
  <2>4. \A j, q : q \in Pubkeys /\ q # k /\ Known(j, q) => Known(j, q)'
    <3>1. pc[t] # "index" /\ \A q : q \in Pubkeys /\ q # k => byPubkey'[q] = byPubkey[q]
      BY Zenon, <1>1, <1>3
    <3> QED BY Zenon, <1>4, <3>1, KnownKept
  <2>5. ASSUME NEW s \in Tasks PROVE KeyInv(s)'
    <3>0. KeyInv(s) /\ TaskInv(s)
      BY Zenon, <1>9 DEF IndexInv, Inv
    <3>1. ASSUME Joining(s)' PROVE byPubkey'[loc'[s].pk] = None
      <4>1. Joining(s) /\ loc'[s].pk = loc[s].pk
        <5>1. CASE s = t
          BY Zenon, <1>4, <1>5, <3>1, <5>1 DEF Joining
        <5>2. CASE s # t
          <6>1. Untouched(s)
            BY Zenon, <1>4, <5>2
          <6> QED BY Zenon, <3>1, <6>1 DEF Joining, Untouched
        <5> QED BY Zenon, <5>1, <5>2
      <4>2. byPubkey[loc[s].pk] = None /\ loc[s].pk \in Pubkeys
        BY Zenon, <3>0, <4>1 DEF KeyInv, Joining, TaskInv
      <4> QED BY Zenon, <1>3, <4>1, <4>2
    <3>2. ASSUME Unindexing(s)'
          PROVE  roster'[loc'[s].target] = None /\ Known(loc[s].target, loc[s].gone)'
      <4>1. s # t /\ Untouched(s) /\ Unindexing(s)
        BY Zenon, <1>4, <2>1, <2>2, <3>2
      <4>2. loc[s].gone # k
        BY Zenon, <2>1, <2>3, <4>1
      <4>3. loc[s].gone \in Pubkeys /\ Known(loc[s].target, loc[s].gone)
            /\ roster[loc[s].target] = None
        BY Zenon, <3>0, <4>1 DEF KeyInv, TaskInv, Unindexing
      <4> QED BY Zenon, <1>2, <2>4, <4>1, <4>2, <4>3 DEF Untouched
    <3>3. pc'[s] = "index" /\ roster'[loc'[s].id] # None
            => roster'[loc'[s].id].pk = loc'[s].pk
      BY Zenon, <1>2, <1>4, <3>0 DEF KeyInv, Untouched
    <3> QED BY Zenon, <3>1, <3>2, <3>3 DEF KeyInv
  <2>6. ASSUME NEW j \in PeerIds, roster'[j] # None
        PROVE  Known(j, roster[j].pk)'
    <3>1. roster'[j] = roster[j] /\ roster[j].pk \in Pubkeys /\ Known(j, roster[j].pk)
      BY Zenon, <1>1, <1>2, <1>9, <2>6 DEF TypeOK, Snapshot, MaybeEntry, Entry, IndexInv
    <3>2. (\A u \in Tasks : KeyInv(u)) /\ loc[t].target \in PeerIds
      BY Zenon, <1>1, <1>9 DEF IndexInv, TaskInv
    <3>3. roster[j].pk # k
      BY Zenon, <1>2, <2>1, <2>6, <3>1, <3>2, KnownOnce
    <3> QED BY Zenon, <2>4, <3>1, <3>3
  <2>7. ASSUME NEW q \in Pubkeys PROVE Indexed(q)'
    <3>1. CASE q = k
      BY Zenon, <1>3, <3>1 DEF Indexed
    <3>2. CASE q # k
      <4>1. Indexed(q) /\ byPubkey'[q] = byPubkey[q]
        BY Zenon, <1>3, <1>9, <3>2 DEF IndexInv
      <4>2. CASE \E s \in Tasks : Unindexing(s) /\ loc[s].gone = q
        <5>1. PICK s \in Tasks : Unindexing(s) /\ loc[s].gone = q
          BY Zenon, <4>2
        <5>2. Unindexing(s)' /\ loc'[s].gone = q
          BY Zenon, <2>2, <3>2, <5>1
        <5> QED BY Zenon, <5>2 DEF Indexed
      <4> QED BY Zenon, <1>2, <4>1, <4>2 DEF Indexed
    <3> QED BY Zenon, <3>1, <3>2
  <2>8. \A a, b \in Tasks :
          Unindexing(a)' /\ Unindexing(b)' /\ loc'[a].gone = loc'[b].gone => a = b
    BY Zenon, <2>1, <2>2, <2>3
  <2> QED BY Zenon, <2>5, <2>6, <2>7, <2>8 DEF IndexInv
<1> QED BY Zenon, <1>2, <1>8, <1>9 DEF IndexInv

\* Restart: the file lists only ids that were issued.
LEMMA RestartKeys ==
  ASSUME Inv, FreshInv, IndexInv, Restart
  PROVE  FreshInv' /\ IndexInv'
<1>1. TypeOK
  BY Zenon DEF Inv
<1>2. PICK acc \in SUBSET PeerIds :
        /\ Replays(acc)
        /\ roster' = [i \in PeerIds |-> IF i \in acc THEN Loaded[i] ELSE None]
        /\ \A k \in Pubkeys :
             LET of == {i \in acc : Loaded[i].pk = k}
             IN byPubkey'[k] \in IF of = {} THEN {None} ELSE of
  BY Zenon DEF Restart
<1>3. \A i \in acc : i \in used
  BY Zenon, <1>2 DEF Replays, Loaded, FreshInv, Issued
<1>4. \A k \in Pubkeys : byPubkey'[k] # None => byPubkey'[k] \in used
  BY Zenon, <1>2, <1>3
<1>5. Issued(roster)'
  BY Zenon, <1>2, <1>3 DEF Issued, Restart
<1>6. \A t \in Tasks : pc'[t] = "idle" /\ loc'[t] = IdleLoc
  BY Zenon DEF Restart
<1>7. \A t \in Tasks : Issued(loc[t].buf)' /\ Claims(t)'
  <2>1. \A i \in PeerIds : IdleLoc.buf[i] = None
    BY Zenon DEF IdleLoc
  <2> QED BY Zenon, <1>6, <2>1 DEF Issued, Claims
<1>8. UNCHANGED <<disk, tmp, used>>
  BY Zenon DEF Restart, files
<1>9. FreshInv'
  BY Zenon, <1>4, <1>5, <1>7, <1>8 DEF FreshInv, Issued
<1>10. crashes' # 0
  <2>1. crashes \in 0..MaxCrashes
    BY Zenon, <1>1 DEF TypeOK
  <2>2. crashes' = crashes + 1
    BY Zenon DEF Restart
  <2> QED BY <2>1, <2>2, BoundAssumption
<1> QED BY Zenon, <1>9, <1>10 DEF IndexInv
-----------------------------------------------------------------------------
(* The theorems.                                                           *)

\* Every step of a running handler preserves both invariants.
LEMMA StepKeys ==
  ASSUME Inv, FreshInv, IndexInv, NEW t \in Tasks, Step(t)
  PROVE  FreshInv' /\ IndexInv'
<1>1. CASE Refresh(t)  BY Zenon, <1>1, RefreshKeys
<1>2. CASE Rewrite(t)  BY Zenon, <1>2, RewriteKeys
<1>3. CASE Moved(t)  BY Zenon, <1>3, MovedQuiet
<1>4. CASE Announce(t)  BY Zenon, <1>4, AnnounceQuiet
<1>5. CASE FindStaleHolder(t)  BY Zenon, <1>5, FindStaleHolderQuiet
<1>6. CASE Evicted(t)  BY Zenon, <1>6, EvictedQuiet
<1>7. CASE ResolveUla(t)  BY Zenon, <1>7, ResolveUlaKeys
<1>8. CASE ApplyPeerJoined(t)  BY Zenon, <1>8, ApplyPeerJoinedKeys
<1>9. CASE Leave(t)  BY Zenon, <1>9, LeaveKeys
<1>10. CASE Unindex(t)  BY Zenon, <1>10, UnindexKeys
<1>11. CASE Departed(t)  BY Zenon, <1>11, DepartedQuiet
<1>12. CASE Reread(t)  BY Zenon, <1>12, RereadQuiet
<1>13. CASE Collect(t)  BY Zenon, <1>13, CollectQuiet
<1>14. CASE CollectRest(t)  BY Zenon, <1>14, CollectRestQuiet
<1>15. CASE OpenTmp(t)  BY Zenon, <1>15, OpenTmpQuiet
<1>16. CASE WriteTmp(t)  BY Zenon, <1>16, WriteTmpQuiet
<1>17. CASE RenameTmp(t)  BY Zenon, <1>17, RenameTmpQuiet
<1>18. CASE IndexPeer(t)  BY Zenon, <1>18, IndexPeerKeys
<1> QED BY Zenon, <1>1, <1>2, <1>3, <1>4, <1>5, <1>6, <1>7, <1>8, <1>9, <1>10, <1>11, <1>12, <1>13, <1>14, <1>15, <1>16, <1>17, <1>18 DEF Step

\* Every step does.
LEMMA NextKeys == Inv /\ FreshInv /\ IndexInv /\ [Next]_vars => FreshInv' /\ IndexInv'
<1> SUFFICES ASSUME Inv, FreshInv, IndexInv, [Next]_vars PROVE FreshInv' /\ IndexInv'
  BY Zenon
<1>1. ASSUME NEW t \in Tasks, Step(t) PROVE FreshInv' /\ IndexInv'
  BY Zenon, <1>1, StepKeys
<1>2. ASSUME NEW t \in Tasks, SaveFails(t) PROVE FreshInv' /\ IndexInv'
  BY Zenon, <1>2, SaveFailsQuiet
<1>3. ASSUME NEW t \in Workers, Register(t) PROVE FreshInv' /\ IndexInv'
  BY Zenon, <1>3, RegisterKeys DEF Tasks
<1>4. ASSUME NEW t \in Workers, Deregister(t) PROVE FreshInv' /\ IndexInv'
  BY Zenon, <1>4, DeregisterQuiet DEF Tasks
<1>5. ASSUME NEW t \in Workers, Cancel(t) PROVE FreshInv' /\ IndexInv'
  BY Zenon, <1>5, CancelQuiet DEF Tasks
<1>6. ASSUME NEW t \in Workers, NEW i \in PeerIds, Heartbeat(t, i)
      PROVE  FreshInv' /\ IndexInv'
  BY Zenon, <1>6, HeartbeatQuiet DEF Tasks
<1>7. ASSUME NEW i \in PeerIds, Age(i) PROVE FreshInv' /\ IndexInv'
  BY Zenon, <1>7, AgeQuiet
<1>8. CASE StartSweep
  BY Zenon, <1>8, StartSweepQuiet
<1>9. CASE SweepNext
  BY Zenon, <1>9, SweepNextQuiet
<1>10. CASE Restart
  BY Zenon, <1>10, RestartKeys
<1>11. CASE UNCHANGED vars
  <2>1. Stamped
    BY Zenon, <1>11, Calm DEF vars, Inv
  <2> QED BY Zenon, <1>11, <2>1, StillStep DEF vars, files
<1> QED
  BY Zenon, <1>1, <1>2, <1>3, <1>4, <1>5, <1>6, <1>7, <1>8, <1>9, <1>10, <1>11 DEF Next

\* The empty coordinator has issued no id and indexes no key.
LEMMA InitKeys == Init => FreshInv /\ IndexInv
<1> SUFFICES ASSUME Init PROVE FreshInv /\ IndexInv
  BY Zenon
<1>1. \A t \in Tasks : pc[t] = "idle" /\ loc[t] = IdleLoc
  BY Zenon DEF Init
<1>2. \A t \in Tasks : Issued(loc[t].buf) /\ Claims(t) /\ KeyInv(t) /\ ~Unindexing(t)
  <2>1. IdleLoc.op = "none" /\ \A i \in PeerIds : IdleLoc.buf[i] = None
    BY Zenon DEF IdleLoc
  <2>2. \A t \in Tasks : Issued(loc[t].buf) /\ Claims(t)
    BY Zenon, <1>1, <2>1 DEF Issued, Claims
  <2>3. \A t \in Tasks : KeyInv(t) /\ ~Unindexing(t)
    BY Zenon, <1>1, <2>1 DEF KeyInv, Joining, Unindexing
  <2> QED BY Zenon, <2>2, <2>3
<1>3. FreshInv
  BY Zenon, <1>2 DEF Init, FreshInv, Issued, NoFile
<1>4. \A k \in Pubkeys : Indexed(k)
  BY Zenon DEF Init, Indexed
<1> QED BY Zenon, <1>2, <1>3, <1>4 DEF IndexInv, Init

\* All three invariants hold of every reachable state.
LEMMA KeysInductive == Spec => [](Inv /\ FreshInv /\ IndexInv)
<1>1. Init => Inv /\ FreshInv /\ IndexInv
  BY Zenon, InitInv, InitKeys
<1>2. (Inv /\ FreshInv /\ IndexInv) /\ [Next]_vars => (Inv /\ FreshInv /\ IndexInv)'
  BY Zenon, NextInv, NextKeys
<1> QED BY <1>1, <1>2, PTL DEF Spec

\* Until the first restart every live peer is found under its key, but for the
\* one that is between the two inserts of its join, and a key found without an
\* entry is being removed or was indexed after its peer had left: for any
\* number of keys, handlers and departures, saves that fail and clients that
\* disconnect.
THEOREM KeysIndexed == Spec => []PubkeyIndexed
<1>1. Inv /\ IndexInv => PubkeyIndexed
  <2> SUFFICES ASSUME Inv, IndexInv, crashes = 0
               PROVE  /\ \A i \in Live : byPubkey[roster[i].pk] = i \/ Indexing(i)
                      /\ \A k \in Pubkeys : byPubkey[k] # None =>
                           byPubkey[k] \in Live \/ Departing(k) \/ k \in overtaken
    BY Zenon DEF PubkeyIndexed
  <2>1. \A k \in Pubkeys : byPubkey[k] \in PeerIds \cup {None} /\ Indexed(k)
    BY Zenon DEF Inv, TypeOK, IndexInv
  <2>2. \A k \in Pubkeys : byPubkey[k] # None =>
          byPubkey[k] \in Live \/ Departing(k) \/ k \in overtaken
    BY Zenon, <2>1 DEF Indexed, Live, Departing, Unindexing
  <2>3. \A i \in Live : byPubkey[roster[i].pk] = i \/ Indexing(i)
    BY Zenon DEF IndexInv, Live, Known, Indexing
  <2> QED BY Zenon, <2>2, <2>3
<1> QED BY <1>1, KeysInductive, PTL

\* Between restarts a live peer keeps its address unless a validated claim
\* moves it to another network: registrations, evictions, saves and the
\* sweeper included, for every number of them.
THEOREM AddressesStable == Spec => AddressStable
<1> DEFINE Moves == \A i \in PeerIds :
       roster[i] # None /\ roster'[i] # None /\ crashes' = crashes =>
         \/ roster'[i].ula = roster[i].ula
         \/ Validator /\ roster'[i].net # roster[i].net
<1>1. ASSUME Inv, FreshInv, [Next]_vars PROVE Moves
  <2>1. ASSUME NEW t \in Tasks, Rewrite(t) PROVE Moves
    <3> DEFINE i == loc[t].id
               e == Refreshed(roster[i], loc[t])
    <3>1. TypeOK /\ TaskInv(t) /\ pc[t] = "rewrite" /\ i \in PeerIds /\ Claims(t)
      BY Zenon, <1>1, <2>1 DEF Inv, Rewrite, TaskInv, FreshInv
    <3>2. CASE roster[i] = None
      BY Zenon, <2>1, <3>2 DEF Rewrite
    <3>3. CASE roster[i] # None
      <4>1. roster[i] \in Entry
        BY Zenon, <3>1, <3>3 DEF TypeOK, Snapshot, MaybeEntry
      <4>2. /\ loc[t].ula = None => e.ula = roster[i].ula
            /\ loc[t].ula # None => e.net = loc[t].net
        BY Zenon, <4>1 DEF Refreshed, Entry
      <4> HIDE DEF e
      <4>3. e.ula = roster[i].ula \/ (Validator /\ e.net # roster[i].net)
        <5>1. loc[t].ula # None => Validator /\ roster[i].net # loc[t].net
          BY Zenon, <3>1, <3>3 DEF Claims
        <5> QED BY Zenon, <4>2, <5>1
      <4>4. roster' = [roster EXCEPT ![i] = e]
        BY Zenon, <2>1, <3>3 DEF Rewrite, e
      <4>5. \A j \in PeerIds : roster'[j] = IF j = i THEN e ELSE roster[j]
        BY Zenon, <3>1, <4>4 DEF TypeOK, Snapshot
      <4> QED BY Zenon, <4>3, <4>5
    <3> QED BY Zenon, <3>2, <3>3
  <2>2. ASSUME NEW t \in Tasks, ApplyPeerJoined(t) PROVE Moves
    <3>1. TypeOK /\ pc[t] = "join" /\ roster[loc[t].id] = None
      BY Zenon, <1>1, <2>2 DEF Inv, ApplyPeerJoined, FreshInv, Claims
    <3>2. \A j \in PeerIds : roster[j] # None => roster'[j] = roster[j]
      BY Zenon, <2>2, <3>1 DEF ApplyPeerJoined, TypeOK, Snapshot, mem
    <3> QED BY Zenon, <3>2
  <2>3. ASSUME NEW t \in Tasks, Leave(t) PROVE Moves
    BY Zenon, <1>1, <2>3 DEF Leave, Inv, TypeOK, Snapshot
  <2>4. ASSUME NEW t \in Workers, NEW j \in PeerIds, Heartbeat(t, j) PROVE Moves
    <3>1. roster[j] \in Entry /\ roster \in Snapshot
      BY Zenon, <1>1, <2>4 DEF Heartbeat, Live, Inv, TypeOK, Snapshot, MaybeEntry
    <3>2. [roster[j] EXCEPT !.fresh = TRUE].ula = roster[j].ula
      BY Zenon, <3>1 DEF Entry
    <3> QED BY Zenon, <2>4, <3>1, <3>2 DEF Heartbeat, Snapshot
  <2>5. ASSUME NEW j \in PeerIds, Age(j) PROVE Moves
    <3>1. roster[j] \in Entry /\ roster \in Snapshot
      BY Zenon, <1>1, <2>5 DEF Age, Live, Inv, TypeOK, Snapshot, MaybeEntry
    <3>2. [roster[j] EXCEPT !.fresh = FALSE].ula = roster[j].ula
      BY Zenon, <3>1 DEF Entry
    <3> QED BY Zenon, <2>5, <3>1, <3>2 DEF Age, Snapshot
  <2>6. CASE Restart
    <3>1. crashes \in 0..MaxCrashes
      BY Zenon, <1>1 DEF Inv, TypeOK
    <3>2. crashes' = crashes + 1
      BY Zenon, <2>6 DEF Restart
    <3>3. crashes' # crashes
      BY <3>1, <3>2, BoundAssumption
    <3> QED BY Zenon, <3>3
  <2>7. CASE UNCHANGED roster
    BY Zenon, <2>7
  <2>8. ASSUME NEW t \in Tasks, Step(t) PROVE Moves
    BY Zenon, <2>1, <2>2, <2>3, <2>7, <2>8 DEF Step, Refresh, Moved, Announce, FindStaleHolder,
       Evicted, ResolveUla, IndexPeer, Unindex, Departed, Reread, Collect, CollectRest, OpenTmp,
       WriteTmp, RenameTmp, mem
  <2> HIDE DEF Moves
  <2>9. UNCHANGED vars => UNCHANGED roster
    BY Zenon DEF vars
  <2>10. ASSUME NEW t \in Tasks, SaveFails(t) \/ Register(t) \/ Deregister(t) \/ Cancel(t)
         PROVE  UNCHANGED roster
    BY Zenon, <2>10 DEF SaveFails, Register, Deregister, Cancel, mem
  <2>11. StartSweep \/ SweepNext => UNCHANGED roster
    BY Zenon DEF StartSweep, SweepNext, mem
  <2> QED
    BY Zenon, <1>1, <2>4, <2>5, <2>6, <2>7, <2>8, <2>9, <2>10, <2>11 DEF Next, Tasks
<1> QED BY <1>1, KeysInductive, PTL DEF Spec, AddressStable
===============================================================================
