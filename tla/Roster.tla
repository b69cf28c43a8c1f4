-------------------------------- MODULE Roster --------------------------------
(***************************************************************************)
(* The coordinator's membership core: the roster, its by-pubkey index, the *)
(* per-network address allocator, the change broadcast and the durable     *)
(* snapshot, under concurrent requests.                                    *)
(*                                                                         *)
(* Handlers run as tasks of a multi-threaded runtime.  `pc' says which     *)
(* statement a task executes next and `loc' holds its local variables.     *)
(* Only registrations take registration_lock; heartbeats, deregistrations  *)
(* and the timeout sweeper run beside it.  A step is one access to a map   *)
(* that others change meanwhile, together with accesses whose results no   *)
(* other task can change in between: the comments of Refresh,              *)
(* FindStaleHolder, ApplyPeerJoined, IndexPeer and Heartbeat say which.    *)
(* The walk of persist_roster locks one shard at a time.                   *)
(***************************************************************************)
EXTENDS Integers, FiniteSets

CONSTANTS
  Pubkeys,      \* WireGuard public keys
  PeerIds,      \* UUIDs the coordinator can draw; each is issued once
  Networks,     \* network names
  Slots,        \* 16-bit network blocks of the address layout
  NetworkSlot,  \* network_slot: the hash from a network to its block
  MaxIdx,       \* u16::MAX of a block's index space
  Requestable,  \* addresses that joiners send as requested_ula
  LegacyInfra,  \* the grandfathered registry address (None: outside the model)
  Validator,    \* TRUE iff a join-token validator is configured
  Workers,      \* HTTP request tasks
  Sweeper,      \* the heartbeat-timeout task
  StateDir,     \* TRUE iff --state-dir is set: else NoopRosterStore
  Faults,       \* TRUE iff saves may fail and clients may disconnect
  FirstShard,   \* peer ids whose map shard a walk visits first
  None,
  MaxOps,       \* bound: registrations, client deregistrations and faults
  MaxCrashes    \* bound: coordinator restarts

Tasks == Workers \cup {Sweeper}
Ula == [seg : {"host", "app"}, slot : Slots, idx : 0..MaxIdx]

ASSUME NoneAssumption ==
  None \notin Pubkeys \cup PeerIds \cup Networks \cup Ula \cup Tasks
ASSUME LayoutAssumption ==
  /\ MaxIdx \in Nat
  /\ NetworkSlot \in [Networks -> Slots]
  /\ Requestable \subseteq Ula
  /\ LegacyInfra \in Ula \cup {None}
ASSUME BoundAssumption ==
  /\ Validator \in BOOLEAN
  /\ StateDir \in BOOLEAN
  /\ Faults \in BOOLEAN
  /\ Sweeper \notin Workers
  /\ FirstShard \subseteq PeerIds
  /\ MaxOps \in Nat
  /\ MaxCrashes \in Nat

VARIABLES
  roster,     \* peer id -> entry, or None
  byPubkey,   \* pubkey -> peer id, or None
  allocator,  \* block -> highest index issued
  lock,       \* the task holding registration_lock, or None
  view,       \* address -> session (key and peer id) of a subscribed joiner
  disk,       \* content of roster.json
  tmp,        \* content of roster.tmp
  pc, loc,    \* next statement and locals of each task
  used,       \* peer ids drawn so far
  ops, crashes,
  overtaken   \* history: keys indexed after their new entry had left

mem == <<roster, byPubkey, allocator>>
files == <<disk, tmp>>
bounds == <<used, ops, crashes, overtaken>>
vars == <<roster, byPubkey, allocator, lock, view, disk, tmp, pc, loc,
          used, ops, crashes, overtaken>>

-----------------------------------------------------------------------------
(* Entries and addresses.                                                  *)

Session == [pk : Pubkeys, id : PeerIds]
Entry == [pk : Pubkeys, ula : Ula, net : Networks, fresh : BOOLEAN]
ASSUME EntryAssumption == None \notin Entry
MaybeEntry == Entry \cup {None}
Snapshot == [PeerIds -> MaybeEntry]

\* A file is absent, created but not yet fully written, garbled by two
\* writers, or holds a snapshot.
NoFile == [state |-> "absent"]
Partial == [state |-> "partial"]
Holding(s) == [state |-> "whole", peers |-> s]

AddressFor(slot, idx) == [seg |-> "host", slot |-> slot, idx |-> idx]

IsFixedInfra(u) == (u.seg = "host" /\ u.idx = 0) \/ u = LegacyInfra

Live == {i \in PeerIds : roster[i] # None}
Holders(u) == {i \in Live : roster[i].ula = u}

\* Variant: a stale holder does not count.
HeldByFreshOther(u, i) == \E j \in Holders(u) \ {i} : roster[j].fresh

\* The roster-wide uniqueness scan: a peer other than i holds u.
HeldByOther(u, i) == Holders(u) \ {i} # {}

\* Variant: the counter takes the last index seen.
BumpToLast(a, slot, idx) == [a EXCEPT ![slot] = idx]

\* bump_slot_at_least never regresses.
Bump(a, slot, idx) == [a EXCEPT ![slot] = IF @ < idx THEN idx ELSE @]

\* allocate_in_slot refuses to pass u16::MAX.
Exhausted(slot) == allocator[slot] = MaxIdx

IdleLoc ==
  [op |-> "none", pk |-> None, net |-> None, ask |-> None, id |-> None,
   target |-> None, ula |-> None, ent |-> None, gone |-> None,
   buf |-> [i \in PeerIds |-> None], fd |-> "closed", todo |-> {}]

Goto(t, label) == pc' = [pc EXCEPT ![t] = label]
Set(t, r) == loc' = [loc EXCEPT ![t] = r]

\* The handler of task t returns; a registration drops its lock guard.
Return(t) ==
  /\ Goto(t, "idle")
  /\ Set(t, IdleLoc)
  /\ lock' = IF lock = t THEN None ELSE lock

\* Variant: an Updated for an address that is taken changes nothing.
UpsertedIfAbsent(v, e, i) ==
  [v EXCEPT ![e.ula] = IF @ = None THEN [pk |-> e.pk, id |-> i] ELSE @]

\* What a subscriber's table becomes on Added or Updated: the session of an
\* unchanged key is updated in place and keeps the peer id it was built with.
Upserted(v, e, i) ==
  [v EXCEPT ![e.ula] = IF @ # None /\ @.pk = e.pk THEN @ ELSE [pk |-> e.pk, id |-> i]]

\* And on Removed: the sessions built for that peer id go.
Dropped(v, i) == [u \in Ula |-> IF v[u] # None /\ v[u].id = i THEN None ELSE v[u]]

Init ==
  /\ roster = [i \in PeerIds |-> None]
  /\ byPubkey = [k \in Pubkeys |-> None]
  /\ allocator = [s \in Slots |-> 0]
  /\ lock = None
  /\ view = [u \in Ula |-> None]
  /\ disk = NoFile
  /\ tmp = NoFile
  /\ pc = [t \in Tasks |-> "idle"]
  /\ loc = [t \in Tasks |-> IdleLoc]
  /\ used = {}
  /\ ops = 0
  /\ crashes = 0
  /\ overtaken = {}
-----------------------------------------------------------------------------
(* Registration: register_authenticated.                                   *)

\* A fixed infra address needs a token that grants it; without a validator
\* there is no token, so no grant.
AuthorizeFixedRequestedUla(a) == a # None /\ IsFixedInfra(a) => Validator

\* The checks before the lock reject without side effects: a malformed key, an
\* invalid token, or a fixed infra address the token does not grant.  Under the
\* lock a known key re-registers and an unknown one joins.
Register(t) ==
  /\ pc[t] = "idle"
  /\ ops < MaxOps
  /\ lock = None
  /\ \E k \in Pubkeys, n \in Networks, a \in Requestable \cup {None} :
       /\ AuthorizeFixedRequestedUla(a)
       /\ Set(t, [IdleLoc EXCEPT !.op = "register", !.pk = k, !.net = n,
                                 !.ask = a, !.id = byPubkey[k]])
       /\ Goto(t, IF byPubkey[k] = None THEN "evict" ELSE "refresh")
  /\ lock' = t
  /\ ops' = ops + 1
  /\ UNCHANGED <<mem, view, files, used, crashes, overtaken>>

\* refresh_existing up to its write guard: a re-home (validated claims that
\* name another network) takes a fresh address in the new network's block
\* and fails closed when the block is exhausted or the address is held.  The
\* read of the entry, the draw and the scan are one step: an entry changes its
\* network, the allocator its counters, and an address finds a new holder,
\* only under the lock.
Refresh(t) ==
  /\ pc[t] = "refresh"
  /\ LET e == roster[loc[t].id]
         rehome == Validator /\ loc[t].net # e.net
         slot == NetworkSlot[loc[t].net]
         u == AddressFor(slot, allocator[slot] + 1)
     IN \/ /\ e = None
           /\ Return(t)
           /\ UNCHANGED allocator
        \/ /\ e # None /\ ~rehome
           /\ Goto(t, "rewrite")
           /\ UNCHANGED <<allocator, lock, loc>>
        \/ /\ e # None /\ rehome /\ ~Exhausted(slot)
           /\ allocator' = [allocator EXCEPT ![slot] = @ + 1]
           /\ IF HeldByOther(u, loc[t].id)
                THEN Return(t)
                ELSE /\ Goto(t, "rewrite")
                     /\ Set(t, [loc[t] EXCEPT !.ula = u])
                     /\ UNCHANGED lock
        \/ /\ e # None /\ rehome /\ Exhausted(slot)
           /\ Return(t)
           /\ UNCHANGED allocator
  /\ UNCHANGED <<roster, byPubkey, view, files, bounds>>

\* Variant: the move forgets the network.
RefreshedInOldNetwork(e, l) ==
  [e EXCEPT !.fresh = TRUE, !.ula = IF l.ula = None THEN @ ELSE l.ula]

\* The entry e after a re-register with locals l: a re-home moves it.
Refreshed(e, l) ==
  [e EXCEPT !.fresh = TRUE,
            !.net = IF l.ula = None THEN @ ELSE l.net,
            !.ula = IF l.ula = None THEN @ ELSE l.ula]

\* refresh_existing under the write guard.
Rewrite(t) ==
  /\ pc[t] = "rewrite"
  /\ LET i == loc[t].id
         e == Refreshed(roster[i], loc[t])
     IN \/ /\ roster[i] = None
           /\ Return(t)
           /\ UNCHANGED roster
        \/ /\ roster[i] # None
           /\ roster' = [roster EXCEPT ![i] = e]
           /\ Set(t, [loc[t] EXCEPT !.ent = e])
           /\ Goto(t, IF loc[t].ula = None THEN "announce" ELSE "moved")
           /\ UNCHANGED lock
  /\ UNCHANGED <<byPubkey, allocator, view, files, bounds>>

\* A re-home broadcasts Removed before Added.
Moved(t) ==
  /\ pc[t] = "moved"
  /\ view' = Dropped(view, loc[t].id)
  /\ Goto(t, "announce")
  /\ UNCHANGED <<mem, lock, files, loc, bounds>>

\* Added after a join or a re-home, then the snapshot; Updated after a steady
\* re-register, which does not persist.
Announce(t) ==
  /\ pc[t] = "announce"
  /\ view' = Upserted(view, loc[t].ent, loc[t].id)
  /\ IF loc[t].ula = None
       THEN Return(t)
       ELSE Goto(t, "collect") /\ UNCHANGED <<lock, loc>>
  /\ UNCHANGED <<mem, files, bounds>>

\* evict_stale_ula_holder: the requested address is held by a peer whose last
\* heartbeat is older than the timeout.  The search and the look at the age
\* are one step, that of the look: a holder that left since the search is not
\* stale, and under the lock nobody else becomes the holder.
FindStaleHolder(t) ==
  /\ pc[t] = "evict"
  /\ LET stale == {i \in Holders(loc[t].ask) : ~roster[i].fresh} IN
       \/ /\ stale = {}
          /\ Goto(t, "resolve")
          /\ UNCHANGED loc
       \/ \E i \in stale :
            /\ Goto(t, "evicted")
            /\ Set(t, [loc[t] EXCEPT !.target = i])
  /\ UNCHANGED <<mem, lock, view, files, bounds>>

\* The eviction broadcasts Removed before it applies the departure.
Evicted(t) ==
  /\ pc[t] = "evicted"
  /\ view' = Dropped(view, loc[t].target)
  /\ Goto(t, "leave")
  /\ UNCHANGED <<mem, lock, files, loc, bounds>>

\* resolve_ula, then the fresh UUID.
ResolveUla(t) ==
  /\ pc[t] = "resolve"
  /\ LET a == loc[t].ask
         slot == NetworkSlot[loc[t].net]
         mismatch == a.seg = "host" /\ ~IsFixedInfra(a) /\ a.slot # slot
     IN \/ /\ a # None
           /\ mismatch \/ HeldByOther(a, None)
           /\ Return(t)
           /\ UNCHANGED <<allocator, used>>
        \/ /\ a # None
           /\ ~mismatch /\ ~HeldByOther(a, None)
           /\ allocator' = Bump(allocator, a.slot, a.idx)
           /\ \E i \in PeerIds \ used :
                /\ used' = used \cup {i}
                /\ Set(t, [loc[t] EXCEPT !.id = i, !.ula = a])
           /\ Goto(t, "join")
           /\ UNCHANGED lock
        \/ /\ a = None
           /\ ~Exhausted(slot)
           /\ allocator' = [allocator EXCEPT ![slot] = @ + 1]
           /\ \E i \in PeerIds \ used :
                /\ used' = used \cup {i}
                /\ Set(t, [loc[t] EXCEPT
                             !.id = i,
                             !.ula = AddressFor(slot, allocator[slot] + 1)])
           /\ Goto(t, "join")
           /\ UNCHANGED lock
        \/ /\ a = None
           /\ Exhausted(slot)
           /\ Return(t)
           /\ UNCHANGED <<allocator, used>>
  /\ UNCHANGED <<roster, byPubkey, view, files, ops, crashes, overtaken>>

\* apply_peer_joined up to the insert into the roster.  The scan is part of
\* the step: under the lock no peer becomes a holder of the address.
ApplyPeerJoined(t) ==
  /\ pc[t] = "join"
  /\ LET e == [pk |-> loc[t].pk, ula |-> loc[t].ula, net |-> loc[t].net,
               fresh |-> TRUE]
     IN IF HeldByOther(e.ula, loc[t].id)
          THEN Return(t) /\ UNCHANGED roster
          ELSE /\ roster' = [roster EXCEPT ![loc[t].id] = e]
               /\ Set(t, [loc[t] EXCEPT !.ent = e])
               /\ Goto(t, "index")
               /\ UNCHANGED lock
  /\ UNCHANGED <<byPubkey, allocator, view, files, bounds>>

Departing(k) == \E t \in Tasks : pc[t] = "unindex" /\ loc[t].gone = k

\* apply_peer_joined, the insert into the index: from here on nobody drops the
\* key of a peer that has left already.  The allocator, which only the holder
\* of the lock touches, is advanced in the same step.
IndexPeer(t) ==
  /\ pc[t] = "index"
  /\ byPubkey' = [byPubkey EXCEPT ![loc[t].pk] = loc[t].id]
  /\ allocator' = Bump(allocator, loc[t].ula.slot, loc[t].ula.idx)
  /\ overtaken' = overtaken \cup
       {k \in {loc[t].pk} : roster[loc[t].id] = None /\ ~Departing(k)}
  /\ Goto(t, "announce")
  /\ UNCHANGED <<roster, lock, view, files, loc, used, ops, crashes>>
-----------------------------------------------------------------------------
(* Departure: deregister, and apply_peer_left shared with the eviction.    *)

Deregister(t) ==
  /\ pc[t] = "idle"
  /\ ops < MaxOps
  /\ \E i \in Live : Set(t, [IdleLoc EXCEPT !.op = "deregister", !.target = i])
  /\ ops' = ops + 1
  /\ Goto(t, "leave")
  /\ UNCHANGED <<mem, lock, view, files, used, crashes, overtaken>>

\* apply_peer_left, first statement: a peer that is already gone ends it.
Leave(t) ==
  /\ pc[t] = "leave"
  /\ LET i == loc[t].target IN
       \/ /\ roster[i] = None
          /\ Goto(t, IF loc[t].op = "register" THEN "collect" ELSE "departed")
          /\ UNCHANGED <<roster, loc>>
       \/ /\ roster[i] # None
          /\ roster' = [roster EXCEPT ![i] = None]
          /\ Set(t, [loc[t] EXCEPT !.gone = roster[i].pk])
          /\ Goto(t, "unindex")
  /\ UNCHANGED <<byPubkey, allocator, lock, view, files, bounds>>

\* Variant: the key stays in the index.
UnindexNothing(t) ==
  /\ pc[t] = "unindex"
  /\ Set(t, [loc[t] EXCEPT !.gone = None])
  /\ Goto(t, IF loc[t].op = "register" THEN "collect" ELSE "departed")
  /\ UNCHANGED <<roster, byPubkey, allocator, lock, view, files, bounds>>

\* apply_peer_left drops the departed key from the index.
Unindex(t) ==
  /\ pc[t] = "unindex"
  /\ byPubkey' = [byPubkey EXCEPT ![loc[t].gone] = None]
  /\ Set(t, [loc[t] EXCEPT !.gone = None])
  /\ Goto(t, IF loc[t].op = "register" THEN "collect" ELSE "departed")
  /\ UNCHANGED <<roster, allocator, lock, view, files, bounds>>

\* deregister broadcasts Removed after it applied the departure.
Departed(t) ==
  /\ pc[t] = "departed"
  /\ view' = Dropped(view, loc[t].target)
  /\ Goto(t, "collect")
  /\ UNCHANGED <<mem, lock, files, loc, bounds>>

-----------------------------------------------------------------------------
(* Heartbeat.                                                              *)

\* The membership check and apply_peer_heartbeat.  A peer that leaves between
\* the two is not stamped and the re-read below answers for it, as it does
\* for a peer that leaves after the stamp.
Heartbeat(t, i) ==
  /\ pc[t] = "idle"
  /\ i \in Live
  /\ roster' = [roster EXCEPT ![i].fresh = TRUE]
  /\ Set(t, [IdleLoc EXCEPT !.op = "heartbeat", !.target = i])
  /\ Goto(t, "reread")
  /\ UNCHANGED <<byPubkey, allocator, lock, view, files, bounds>>

\* The re-read after apply answers UnknownPeer when the entry has vanished.
Reread(t) ==
  /\ pc[t] = "reread"
  /\ LET i == loc[t].target IN
       \/ /\ roster[i] = None
          /\ Return(t)
       \/ /\ roster[i] # None
          /\ Set(t, [loc[t] EXCEPT !.id = i, !.ent = roster[i]])
          /\ Goto(t, "announce")
          /\ UNCHANGED lock
  /\ UNCHANGED <<mem, view, files, bounds>>

-----------------------------------------------------------------------------
(* The sweeper, and the passing of heartbeat_timeout.                      *)

\* No heartbeat for longer than heartbeat_timeout.
Age(i) ==
  /\ i \in Live
  /\ roster[i].fresh
  /\ roster' = [roster EXCEPT ![i].fresh = FALSE]
  /\ UNCHANGED <<byPubkey, allocator, lock, view, files, pc, loc, bounds>>

\* Variant: the sweep waits until no peer is fresh.
StartSweepIfAllStale ==
  /\ pc[Sweeper] = "idle"
  /\ Live # {}
  /\ \A i \in Live : ~roster[i].fresh
  /\ Set(Sweeper, [IdleLoc EXCEPT !.op = "sweep", !.todo = Live])
  /\ Goto(Sweeper, "next")
  /\ UNCHANGED <<mem, lock, view, files, bounds>>

\* sweep_once lists the stale peers once, then deregisters them one by one.
StartSweep ==
  /\ pc[Sweeper] = "idle"
  /\ \E i \in Live : ~roster[i].fresh
  /\ Set(Sweeper, [IdleLoc EXCEPT !.op = "sweep",
                                  !.todo = {i \in Live : ~roster[i].fresh}])
  /\ Goto(Sweeper, "next")
  /\ UNCHANGED <<mem, lock, view, files, bounds>>

\* deregister returns early for a listed peer that is gone by now.
SweepNext ==
  /\ pc[Sweeper] = "next"
  /\ \/ /\ loc[Sweeper].todo = {}
        /\ Return(Sweeper)
     \/ \E i \in loc[Sweeper].todo :
          /\ Set(Sweeper, [loc[Sweeper] EXCEPT !.todo = @ \ {i}, !.target = i])
          /\ Goto(Sweeper, IF roster[i] = None THEN "next" ELSE "leave")
          /\ UNCHANGED lock
  /\ UNCHANGED <<mem, view, files, bounds>>

-----------------------------------------------------------------------------
(* persist_roster and FileRosterStore::save.                               *)

\* After a save an eviction goes on to grant the address; the sweeper takes
\* its next peer; every other handler returns.  ls: the locals of all tasks.
AfterSave(t, ls) ==
  LET l == [ls[t] EXCEPT !.target = None, !.buf = IdleLoc.buf, !.fd = "closed"]
      evicting == ls[t].op = "register" /\ ls[t].id = None
  IN \/ /\ evicting
        /\ loc' = [ls EXCEPT ![t] = l]
        /\ Goto(t, "resolve")
        /\ UNCHANGED lock
     \/ /\ ls[t].op = "sweep"
        /\ loc' = [ls EXCEPT ![t] = l]
        /\ Goto(t, "next")
        /\ UNCHANGED lock
     \/ /\ ls[t].op # "sweep" /\ ~evicting
        /\ loc' = [ls EXCEPT ![t] = IdleLoc]
        /\ Goto(t, "idle")
        /\ lock' = IF lock = t THEN None ELSE lock

\* to_joined_event: the durable form of an entry has no heartbeat age.
Durable(e) == IF e = None THEN None ELSE [e EXCEPT !.fresh = TRUE]

\* The walk reads the first shard, then the rest.
Walked(t, ids) ==
  [i \in PeerIds |-> IF i \in ids THEN Durable(roster[i]) ELSE loc[t].buf[i]]

Collect(t) ==
  /\ pc[t] = "collect"
  /\ \/ /\ StateDir
        /\ Set(t, [loc[t] EXCEPT !.buf = Walked(t, FirstShard)])
        /\ Goto(t, "collectRest")
        /\ UNCHANGED lock
     \/ /\ ~StateDir
        /\ AfterSave(t, loc)
  /\ UNCHANGED <<mem, view, files, bounds>>

CollectRest(t) ==
  /\ pc[t] = "collectRest"
  /\ Set(t, [loc[t] EXCEPT !.buf = Walked(t, PeerIds \ FirstShard)])
  /\ Goto(t, "open")
  /\ UNCHANGED <<mem, lock, view, files, bounds>>

\* fs::write opens roster.tmp with truncation.
OpenTmp(t) ==
  /\ pc[t] = "open"
  /\ tmp' = Partial
  /\ Set(t, [loc[t] EXCEPT !.fd = "tmp"])
  /\ Goto(t, "write")
  /\ UNCHANGED <<mem, lock, view, disk, bounds>>

\* The bytes reach the file the descriptor was opened on, whatever its name
\* is by now.  Over another writer's bytes the result is this snapshot or,
\* when this one is shorter, garbage.
Written(f, s) == IF f = Partial THEN {Holding(s)} ELSE {Holding(s), Partial}

WriteTmp(t) ==
  /\ pc[t] = "write"
  /\ \/ /\ loc[t].fd = "tmp"
        /\ tmp' \in Written(tmp, loc[t].buf)
        /\ UNCHANGED disk
     \/ /\ loc[t].fd = "disk"
        /\ disk' \in Written(disk, loc[t].buf)
        /\ UNCHANGED tmp
     \/ /\ loc[t].fd = "orphan"
        /\ UNCHANGED files
  /\ IF loc[t].op = "detached"
       THEN Return(t)
       ELSE /\ Set(t, [loc[t] EXCEPT !.fd = "closed"])
            /\ Goto(t, "rename")
            /\ UNCHANGED lock
  /\ UNCHANGED <<mem, view, bounds>>

\* The rename moves roster.tmp onto roster.json, and with it the file that
\* open descriptors on roster.tmp write to; it fails when another save has
\* renamed the file already.
Renamed(fd) == CASE fd = "tmp" -> "disk" [] fd = "disk" -> "orphan" [] OTHER -> fd

RenameTmp(t) ==
  /\ pc[t] = "rename"
  /\ \/ /\ tmp = NoFile
        /\ AfterSave(t, loc)
        /\ UNCHANGED files
     \/ /\ tmp # NoFile
        /\ disk' = tmp
        /\ tmp' = NoFile
        /\ AfterSave(t, [u \in Tasks |-> [loc[u] EXCEPT !.fd = Renamed(@)]])
  /\ UNCHANGED <<mem, view, bounds>>

\* Every I/O error of a save is logged and swallowed.
SaveFails(t) ==
  /\ Faults
  /\ ops < MaxOps
  /\ pc[t] \in {"open", "write", "rename"}
  /\ AfterSave(t, loc)
  /\ ops' = ops + 1
  /\ UNCHANGED <<mem, view, files, used, crashes, overtaken>>

\* A client that disconnects drops its handler at an await, and the lock guard
\* with it.  A file operation that a blocking thread has begun runs to its end.
Cancel(t) ==
  /\ Faults
  /\ ops < MaxOps
  /\ loc[t].op # "detached"
  /\ \/ /\ pc[t] \in {"open", "rename"}
        /\ Return(t)
     \/ /\ pc[t] \in {"open", "write", "rename"}
        /\ Set(t, [loc[t] EXCEPT !.op = "detached"])
        /\ lock' = IF lock = t THEN None ELSE lock
        /\ UNCHANGED pc
  /\ ops' = ops + 1
  /\ UNCHANGED <<mem, view, files, used, crashes, overtaken>>

-----------------------------------------------------------------------------
(* Restart: restore replays the snapshot through apply_peer_joined before  *)
(* anything is served.  A file that does not parse is an empty roster.     *)
(* The subscriber keeps its sessions, reconnects at once, and is sent the  *)
(* restored peers.                                                         *)

Loaded == IF disk.state = "whole" THEN disk.peers ELSE [i \in PeerIds |-> None]

\* Variant: the replay inserts every peer of the snapshot.
ReplaysAll(acc) == acc = {i \in PeerIds : Loaded[i] # None}

\* The replay rejects a peer whose address an earlier one holds.
Replays(acc) ==
  /\ \A i \in acc : Loaded[i] # None
  /\ \A i, j \in acc : Loaded[i].ula = Loaded[j].ula => i = j
  /\ \A i \in PeerIds : Loaded[i] # None =>
       \E j \in acc : Loaded[j].ula = Loaded[i].ula

\* Variant: the replay does not touch the allocator.
NeverAdvanced(acc, s, n) == n = 0

\* n is the counter of block s after the replay.
Advanced(acc, s, n) ==
  LET idxs == {Loaded[i].ula.idx : i \in {j \in acc : Loaded[j].ula.slot = s}}
  IN n \in idxs \cup {0} /\ \A m \in idxs : m <= n

\* The stream opens with an Added for every peer of the roster.
Bootstrapped(v, acc) ==
  [u \in Ula |-> LET at == {i \in acc : Loaded[i].ula = u}
                     i == CHOOSE j \in at : TRUE
                 IN IF at = {} THEN v[u] ELSE Upserted(v, Loaded[i], i)[u]]

Restart ==
  /\ crashes < MaxCrashes
  /\ crashes' = crashes + 1
  /\ \E acc \in SUBSET PeerIds :
       /\ Replays(acc)
       /\ roster' = [i \in PeerIds |-> IF i \in acc THEN Loaded[i] ELSE None]
       /\ byPubkey' \in {b \in [Pubkeys -> PeerIds \cup {None}] :
            \A k \in Pubkeys :
              LET of == {i \in acc : Loaded[i].pk = k}
              IN b[k] \in IF of = {} THEN {None} ELSE of}
       /\ allocator' \in {a \in [Slots -> 0..MaxIdx] :
            \A s \in Slots : Advanced(acc, s, a[s])}
       /\ view' = Bootstrapped(view, acc)
  /\ lock' = None
  /\ pc' = [t \in Tasks |-> "idle"]
  /\ loc' = [t \in Tasks |-> IdleLoc]
  /\ overtaken' = {}
  /\ UNCHANGED <<files, used, ops>>

-----------------------------------------------------------------------------
Step(t) ==
  \/ Refresh(t) \/ Rewrite(t) \/ Moved(t)
  \/ Announce(t) \/ FindStaleHolder(t) \/ Evicted(t) \/ ResolveUla(t)
  \/ ApplyPeerJoined(t) \/ IndexPeer(t) \/ Leave(t) \/ Unindex(t) \/ Departed(t)
  \/ Reread(t) \/ Collect(t) \/ CollectRest(t) \/ OpenTmp(t)
  \/ WriteTmp(t) \/ RenameTmp(t)

Next ==
  \/ \E t \in Tasks : Step(t) \/ SaveFails(t)
  \/ \E t \in Workers :
       Register(t) \/ Deregister(t) \/ Cancel(t)
  \/ \E t \in Workers, i \in PeerIds : Heartbeat(t, i)
  \/ \E i \in PeerIds : Age(i)
  \/ StartSweep
  \/ SweepNext
  \/ Restart

Spec == Init /\ [][Next]_vars

\* The runtime runs every spawned task on, and the sweeper's interval ticks.
FairSpec ==
  /\ Spec
  /\ \A t \in Tasks : WF_vars(Step(t))
  /\ WF_vars(StartSweep)
  /\ WF_vars(SweepNext)
-----------------------------------------------------------------------------
(* Properties.                                                             *)

LocType ==
  [op : {"none", "register", "deregister", "heartbeat", "sweep", "detached"},
   pk : Pubkeys \cup {None}, net : Networks \cup {None}, ask : Ula \cup {None},
   id : PeerIds \cup {None}, target : PeerIds \cup {None},
   ula : Ula \cup {None}, ent : MaybeEntry, gone : Pubkeys \cup {None},
   buf : Snapshot, fd : {"closed", "tmp", "disk", "orphan"},
   todo : SUBSET PeerIds]

Labels ==
  {"idle", "refresh", "rewrite", "moved", "announce",
   "evict", "evicted", "leave", "unindex", "departed", "resolve", "join", "index",
   "reread", "next", "collect", "collectRest", "open", "write",
   "rename"}

IsFile(f) ==
  f \in {NoFile, Partial} \/ (f.peers \in Snapshot /\ f = Holding(f.peers))

\* Every variable has the shape of the field it stands for.
TypeOK ==
  /\ roster \in Snapshot
  /\ byPubkey \in [Pubkeys -> PeerIds \cup {None}]
  /\ allocator \in [Slots -> 0..MaxIdx]
  /\ lock \in Workers \cup {None}
  /\ view \in [Ula -> Session \cup {None}]
  /\ IsFile(disk) /\ IsFile(tmp)
  /\ pc \in [Tasks -> Labels]
  /\ loc \in [Tasks -> LocType]
  /\ used \subseteq PeerIds
  /\ ops \in 0..MaxOps
  /\ crashes \in 0..MaxCrashes
  /\ overtaken \subseteq Pubkeys

\* No two peers of the roster hold the same overlay address, whatever
\* registrations, re-homes, evictions, departures and restarts interleave
\* (resolve_ula, refresh_existing and apply_peer_joined each test it).
UlaUnique ==
  \A i, j \in Live : roster[i].ula = roster[j].ula => i = j

\* The allocator of a block is never behind an address of that block in the
\* roster, so a sequential allocation never draws an address in use: also
\* after a sticky request, a re-home or a restore.
AllocatorCoversRoster ==
  \A i \in Live : roster[i].ula.idx <= allocator[roster[i].ula.slot]

\* A join has inserted peer i into the roster and not yet into the index.
Indexing(i) == \E t \in Tasks : pc[t] = "index" /\ loc[t].id = i

\* From a coordinator's first start to its first restart the key index finds
\* the live peers: every entry under its own key, except between the two
\* inserts of apply_peer_joined.  A key leads to no entry only while
\* apply_peer_left is between its two removals, or when the whole departure of
\* the peer fell between the two inserts of its join: no other interleaving
\* leaves a dangling key, which answers every later register with 404.  (A
\* walk of persist_roster that a key leaves and rejoins behind may save it
\* under both peer ids, so a restore does not establish this.)
PubkeyIndexed ==
  crashes = 0 =>
    /\ \A i \in Live : byPubkey[roster[i].pk] = i \/ Indexing(i)
    /\ \A k \in Pubkeys : byPubkey[k] # None =>
         byPubkey[k] \in Live \/ Departing(k) \/ k \in overtaken

\* Between restarts a live peer keeps its address unless validated claims move
\* it to another network (refresh_existing: an unauthenticated re-register
\* never moves).
AddressStable ==
  [][\A i \in PeerIds :
       roster[i] # None /\ roster'[i] # None /\ crashes' = crashes =>
         \/ roster'[i].ula = roster[i].ula
         \/ Validator /\ roster'[i].net # roster[i].net]_vars

\* A subscriber that folds the broadcasts ends up, for every peer that keeps
\* heartbeating, with a session under the peer's key at the peer's own
\* address, whatever stale Updated or Removed a slower handler sends late: the
\* unconditional re-broadcast of heartbeat repairs it.
ViewConverges ==
  \A i \in PeerIds :
    []<><<\E t \in Workers : Heartbeat(t, i)>>_vars
      => <>[](i \in Live /\ view[roster[i].ula] # None
               /\ view[roster[i].ula].pk = roster[i].pk)

\* A peer that falls silent leaves the roster unless it is heard again.
SilentPeerLeaves ==
  \A i \in PeerIds :
    i \in Live /\ ~roster[i].fresh ~> i \notin Live \/ roster[i].fresh

================================================================================
