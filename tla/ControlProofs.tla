----------------------------- MODULE ControlProofs -----------------------------
(***************************************************************************)
(* The command gate for any number of commands, posts, losses, crashes and *)
(* configurations: no command runs twice in one life of the joiner, and    *)
(* none whose nonce ever was on disk runs again before a crash finds the   *)
(* file without it.  And a configured address is the one the coordinator   *)
(* and the TUN device have until validated claims move the key.            *)
(***************************************************************************)
EXTENDS Control, TLAPS

\* The steps between the start of the heartbeat loop and the end of the process.
LoopPcs == {"idle", "beat", "rereg", "rereg2", "gate", "mark", "write"}

Fields == {"pc", "id", "guard", "acks", "sending", "inbox", "tun", "ask", "nonces"}

\* The inductive invariant.  The file never holds a nonce that memory does not;
\* a command that ran is in memory, or is the one about to be recorded.  What was
\* once saved is in memory while the gate works and in the file before it is loaded.
GateInv ==
  /\ DOMAIN node = Fields
  /\ node.pc \in Pcs
  /\ runs \in [Commands -> Nat]
  /\ node.pc \in LoopPcs => nfile \subseteq node.nonces
  /\ node.pc \in {"join", "join2"} => \A c \in Commands : runs[c] = 0
  /\ node.pc \in LoopPcs => \A c \in Commands :
       runs[c] > 0 => c \in node.nonces \/ (node.pc = "mark" /\ c = Head(node.inbox))
  /\ ~torn => saved \subseteq (IF node.pc \in LoopPcs THEN node.nonces ELSE nfile)
  /\ RunsOnce

\* Initially no process runs and no command has run.
LEMMA GateInit == Init => GateInv
  BY DEF Init, GateInv, Down, Fields, Pcs, LoopPcs, RunsOnce

\* A step that keeps the gate's memory, its file and the program counter within
\* the loop preserves the invariant.
LEMMA GateKept ==
  ASSUME GateInv, DOMAIN node' = Fields, node'.pc \in LoopPcs, node.pc \in LoopPcs \ {"mark"},
         node'.nonces = node.nonces, UNCHANGED <<nfile, runs, saved, torn>>
  PROVE  GateInv'
  BY Zenon DEF GateInv, LoopPcs, Pcs, RunsOnce

\* A step that leaves the process, the file and the runs alone preserves it.
LEMMA GateStutter ==
  ASSUME GateInv, UNCHANGED <<node, nfile, runs, saved, torn>>
  PROVE  GateInv'
  BY Zenon DEF GateInv, RunsOnce

\* The end of the process preserves it.
LEMMA GateDown ==
  ASSUME GateInv, node' = Down, UNCHANGED runs, ~torn' => saved' \subseteq nfile'
  PROVE  GateInv'
  BY Zenon DEF GateInv, Down, Fields, Pcs, LoopPcs, RunsOnce

\* Starting and joining preserve it: the file is loaded before the loop starts.
LEMMA GateJoin ==
  ASSUME GateInv, Boot \/ JoinGranted \/ Fallback \/ JoinFailed
  PROVE  GateInv'
<1>1. CASE Boot
  <2>1. /\ node.pc = "down" /\ UNCHANGED <<nfile, saved, torn>>
        /\ runs' = [c \in Commands |-> 0]
        /\ \E ask : node' = [Down EXCEPT !.pc = "join", !.ask = ask]
    BY Zenon, <1>1 DEF Boot, durable
  <2>2. DOMAIN node' = Fields /\ node'.pc = "join"
    BY Zenon, <2>1 DEF Down, Fields
  <2> QED BY <2>1, <2>2 DEF GateInv, Pcs, LoopPcs, RunsOnce
<1>2. CASE JoinGranted
  <2>1. /\ node.pc \in {"join", "join2"} /\ UNCHANGED <<nfile, runs, saved, torn>>
        /\ \E a \in resp : node' = [node EXCEPT !.pc = "idle", !.id = a.id,
                                              !.tun = a.addr, !.nonces = nfile]
    BY Zenon, <1>2 DEF JoinGranted, history, durable
  <2>2. DOMAIN node' = Fields /\ node'.pc = "idle" /\ node'.nonces = nfile
    BY Zenon, <2>1 DEF GateInv, Fields
  <2> QED BY <2>1, <2>2 DEF GateInv, LoopPcs, Pcs, RunsOnce
<1>3. CASE Fallback
  <2>1. CASE node.pc = "join"
    <3>1. /\ UNCHANGED <<nfile, runs, saved, torn>> /\ DOMAIN node' = Fields
          /\ node'.pc = "join2"
      BY Zenon, <1>3, <2>1 DEF Fallback, Goto, GateInv, Fields, history, durable
    <3> QED BY Zenon, <2>1, <3>1 DEF GateInv, LoopPcs, Pcs, RunsOnce
  <2>2. CASE node.pc = "rereg"
    <3>1. /\ UNCHANGED <<nfile, runs, saved, torn>> /\ DOMAIN node' = Fields
          /\ node'.pc = "rereg2" /\ node'.nonces = node.nonces
      BY Zenon, <1>3, <2>2 DEF Fallback, Goto, GateInv, Fields, history, durable
    <3> QED BY Zenon, <2>2, <3>1, GateKept DEF LoopPcs
  <2> QED BY Zenon, <1>3, <2>1, <2>2 DEF Fallback
<1>4. CASE JoinFailed
  <2>1. /\ node.pc \notin LoopPcs /\ node' = Down
        /\ UNCHANGED <<nfile, runs, saved, torn>>
    BY Zenon, <1>4 DEF JoinFailed, history, durable, LoopPcs
  <2> QED BY Zenon, <2>1, GateDown DEF GateInv
<1> QED BY Zenon, <1>1, <1>2, <1>3, <1>4

\* Heartbeats and re-registrations preserve it.
LEMMA GateLoop ==
  ASSUME GateInv,
         Tick \/ Beaten \/ RosterLoss \/ BeatFailed \/ Reregistered \/ ReregisterFailed
  PROVE  GateInv'
<1>1. UNCHANGED <<nfile, runs, saved, torn>>
  BY Zenon DEF Tick, Beaten, RosterLoss, BeatFailed, Reregistered, ReregisterFailed, history, durable
<1>2. node.pc \in LoopPcs \ {"mark"}
  BY Zenon DEF Tick, Beaten, RosterLoss, BeatFailed, Reregistered, ReregisterFailed, LoopPcs
<1>3. DOMAIN node' = Fields /\ node'.pc \in LoopPcs /\ node'.nonces = node.nonces
  <2> USE DEF GateInv, Fields, LoopPcs
  <2>1. CASE Tick
    BY Zenon, <2>1 DEF Tick
  <2>2. CASE Beaten
    BY Zenon, <2>2 DEF Beaten
  <2>3. CASE RosterLoss
    BY Zenon, <2>3 DEF RosterLoss
  <2>4. CASE BeatFailed
    BY Zenon, <2>4 DEF BeatFailed
  <2>5. CASE Reregistered
    BY Zenon, <2>5 DEF Reregistered
  <2>6. CASE ReregisterFailed
    BY Zenon, <2>6 DEF ReregisterFailed, Goto
  <2> QED BY Zenon, <2>1, <2>2, <2>3, <2>4, <2>5, <2>6
<1> QED BY Zenon, <1>1, <1>2, <1>3, GateKept

\* An acknowledged command leaves the batch; the gate's memory stays.
LEMMA AcknowledgedKeeps ==
  ASSUME NEW n, DOMAIN n = Fields
  PROVE  /\ DOMAIN Acknowledged(n) = Fields
         /\ Acknowledged(n).pc \in {"idle", "gate"}
         /\ Acknowledged(n).nonces = n.nonces
  BY Zenon DEF Acknowledged, Fields

\* Judging, running and recording a command preserve it.
LEMMA GateGate ==
  ASSUME GateInv, Refuse \/ Execute \/ Record \/ RecordUnsaved \/ Persist
  PROVE  GateInv'
<1>1. CASE Refuse
  <2>1. /\ node.pc = "gate" /\ node' = Acknowledged(node)
        /\ UNCHANGED <<nfile, runs, saved, torn>>
    BY Zenon, <1>1 DEF Refuse, durable
  <2> QED BY Zenon, <2>1, AcknowledgedKeeps, GateKept DEF GateInv, LoopPcs
<1>2. CASE Execute
  <2> DEFINE h == Head(node.inbox)
  <2>1. /\ node.pc = "gate" /\ h \notin node.nonces /\ UNCHANGED <<nfile, saved, torn>>
        /\ runs' = [runs EXCEPT ![h] = @ + 1]
        /\ node' = [node EXCEPT !.pc = "mark"]
    BY Zenon, <1>2 DEF Execute, Accepts, Goto, durable
  <2>2. /\ DOMAIN node' = Fields /\ node'.pc = "mark"
        /\ node'.nonces = node.nonces /\ Head(node'.inbox) = h
    BY Zenon, <2>1 DEF GateInv, Fields
  <2> HIDE DEF h
  <2>3. \A c \in Commands : runs[c] \in Nat /\ (c = h => runs[c] = 0)
    BY <2>1 DEF GateInv, LoopPcs, h
  <2>4. /\ runs' \in [Commands -> Nat]
        /\ \A c \in Commands : runs'[c] = IF c = h THEN 1 ELSE runs[c]
    <3>1. runs \in [Commands -> Nat]
      BY Zenon DEF GateInv
    <3>2. \A c \in Commands : runs'[c] = IF c = h THEN runs[c] + 1 ELSE runs[c]
      BY Zenon, <2>1, <3>1
    <3>3. \A c \in Commands : runs'[c] = IF c = h THEN 1 ELSE runs[c]
      BY <2>3, <3>2
    <3>4. \A c \in Commands : runs'[c] \in Nat
      BY <2>3, <3>3
    <3>5. runs' = [c \in Commands |-> runs'[c]]
      BY Zenon, <2>1, <3>1
    <3> QED BY Zenon, <3>3, <3>4, <3>5
  <2>5. RunsOnce'
    BY <2>4 DEF GateInv, RunsOnce
  <2>6. \A c \in Commands : runs'[c] > 0 => c \in node'.nonces \/ c = h
    BY Zenon, <2>1, <2>2, <2>4 DEF GateInv, LoopPcs
  <2> QED BY Zenon, <2>1, <2>2, <2>4, <2>5, <2>6 DEF GateInv, LoopPcs, Pcs
<1>3. CASE Record
  <2>1. /\ node.pc = "mark" /\ nfile' = {} /\ UNCHANGED <<runs, saved, torn>>
        /\ node' = [node EXCEPT !.pc = "write", !.nonces = @ \cup {Head(node.inbox)}]
    BY Zenon, <1>3 DEF Record, history, durable
  <2>2. /\ DOMAIN node' = Fields /\ node'.pc = "write"
        /\ node'.nonces = node.nonces \cup {Head(node.inbox)}
    BY Zenon, <2>1 DEF GateInv, Fields
  <2> QED BY Zenon, <2>1, <2>2 DEF GateInv, LoopPcs, Pcs, RunsOnce
<1>4. CASE RecordUnsaved
  <2> DEFINE n == [node EXCEPT !.nonces = @ \cup {Head(node.inbox)}]
  <2>1. /\ node.pc = "mark" /\ node' = Acknowledged(n) /\ UNCHANGED <<nfile, runs, saved, torn>>
    BY Zenon, <1>4 DEF RecordUnsaved, history, durable
  <2>2. DOMAIN n = Fields /\ n.nonces = node.nonces \cup {Head(node.inbox)}
    BY Zenon DEF GateInv, Fields
  <2> HIDE DEF n
  <2>3. /\ DOMAIN node' = Fields /\ node'.pc \in {"idle", "gate"}
        /\ node'.nonces = node.nonces \cup {Head(node.inbox)}
    BY Zenon, <2>1, <2>2, AcknowledgedKeeps
  <2> QED BY Zenon, <2>1, <2>3 DEF GateInv, LoopPcs, Pcs, RunsOnce
<1>5. CASE Persist
  <2>1. /\ node.pc = "write" /\ node' = Acknowledged(node) /\ UNCHANGED <<runs, torn>>
        /\ nfile' \subseteq node.nonces /\ saved' = saved \cup nfile'
    BY Zenon, <1>5 DEF Persist
  <2>2. /\ DOMAIN node' = Fields /\ node'.pc \in {"idle", "gate"}
        /\ node'.nonces = node.nonces
    BY Zenon, <2>1, AcknowledgedKeeps DEF GateInv
  <2> QED BY Zenon, <2>1, <2>2 DEF GateInv, LoopPcs, Pcs, RunsOnce
<1> QED BY Zenon, <1>1, <1>2, <1>3, <1>4, <1>5

\* What the coordinator, the network and a crash do preserves it.
LEMMA GateOutside ==
  ASSUME GateInv,
         \/ Handle \/ SweepSilent \/ SweepLive \/ RestartCoordinator
         \/ TimeOut \/ Crash \/ (\E c \in Commands : Post(c))
  PROVE  GateInv'
<1>1. CASE Crash
  <2>1. /\ node' = Down /\ UNCHANGED <<nfile, runs, saved>>
        /\ torn' = (torn \/ ~(saved \subseteq nfile))
    BY Zenon, <1>1 DEF Crash
  <2> QED BY Zenon, <2>1, GateDown
<1>2. CASE Handle
  BY Zenon, <1>2, GateStutter
  DEF Handle, HeartbeatLookup, AckCommands, DrainCommands, HandleRegister, history, durable
<1>3. CASE SweepSilent \/ SweepLive \/ RestartCoordinator \/ TimeOut
  BY Zenon, <1>3, GateStutter DEF SweepSilent, SweepLive, RestartCoordinator, TimeOut, durable
<1>4. CASE \E c \in Commands : Post(c)
  BY Zenon, <1>4, GateStutter DEF Post, history, durable
<1> QED BY Zenon, <1>1, <1>2, <1>3, <1>4

\* The invariant is inductive.
THEOREM GateInductive == Spec => []GateInv
<1>1. GateInv /\ [Next]_vars => GateInv'
  <2> SUFFICES ASSUME GateInv, [Next]_vars
               PROVE  GateInv'
    BY Zenon
  <2>1. CASE UNCHANGED vars
    BY Zenon, <2>1, GateStutter DEF vars, history, durable
  <2>2. CASE Joiner
    BY Zenon, <2>2, GateJoin, GateLoop, GateGate DEF Joiner
  <2>3. CASE Next /\ ~Joiner
    BY Zenon, <2>3, GateOutside DEF Next
  <2> QED BY Zenon, <2>1, <2>2, <2>3
<1> QED BY <1>1, GateInit, PTL DEF Spec

\* No command runs twice in one life of the process: evaluate refuses what
\* record has put into memory, also when the file could not be written.
THEOREM CommandsRunOnce == Spec => []RunsOnce
<1>1. GateInv => RunsOnce
  BY Zenon DEF GateInv
<1> QED BY <1>1, GateInductive, PTL

\* Only Execute lets a command run.
LEMMA OnlyExecuteRuns ==
  ASSUME GateInv, [Next]_vars, NEW c \in Commands, ~Execute
  PROVE  runs'[c] <= runs[c]
<1>1. runs[c] \in Nat
  BY Zenon DEF GateInv
<1>2. CASE Boot
  BY <1>1, <1>2 DEF Boot
<1>3. CASE ~Boot
  <2>1. CASE UNCHANGED vars
    BY <1>1, <2>1 DEF vars, history
  <2>2. CASE Joiner
    <3>1. UNCHANGED runs
      BY Zenon, <1>3, <2>2
      DEF Joiner, JoinGranted, Fallback, JoinFailed, Tick, Beaten, RosterLoss, BeatFailed,
          Reregistered, ReregisterFailed, Refuse, Record, RecordUnsaved, Persist, history
    <3> QED BY <1>1, <3>1
  <2>3. CASE Next /\ ~Joiner
    <3>1. UNCHANGED runs
      BY Zenon, <2>3
      DEF Next, Handle, HeartbeatLookup, AckCommands, DrainCommands, HandleRegister,
          SweepSilent, SweepLive, RestartCoordinator, TimeOut, Crash, Post, history
    <3> QED BY <1>1, <3>1
  <2> QED BY Zenon, <2>1, <2>2, <2>3
<1> QED BY Zenon, <1>2, <1>3

\* A command whose nonce once reached the file never runs again, across any number
\* of crashes and however often the file was rewritten for other commands, until a
\* crash finds the file without a nonce it had held: what was saved is part of what
\* the gate has in memory while it judges (NonceStore::record, load and persist).
THEOREM RecordedCommandsStay == Spec => RecordedNeverRuns
<1>1. GateInv /\ [Next]_vars =>
        [\A c \in Commands : c \in saved /\ ~torn => runs'[c] <= runs[c]]_vars
  <2> SUFFICES ASSUME GateInv, [Next]_vars, NEW c \in Commands, c \in saved, ~torn
               PROVE  runs'[c] <= runs[c]
    BY Zenon
  <2>1. CASE ~Execute
    BY Zenon, <2>1, OnlyExecuteRuns
  <2>2. CASE Execute
    <3>1. c # Head(node.inbox) /\ runs' = [runs EXCEPT ![Head(node.inbox)] = @ + 1]
      BY Zenon, <2>2 DEF Execute, Accepts, GateInv, LoopPcs
    <3>2. runs'[c] = runs[c] /\ runs[c] \in Nat
      BY Zenon, <3>1 DEF GateInv
    <3> QED BY <3>2
  <2> QED BY Zenon, <2>1, <2>2
<1> QED BY <1>1, GateInductive, PTL DEF Spec, RecordedNeverRuns

-----------------------------------------------------------------------------
(* The configured address.                                                 *)

Counters == {"ids", "posts", "losses", "forgets", "moves", "crashes"}

\* What the argument needs of requests, records and counters: only a heartbeat is handled
\* in several statements.
ShapeInv ==
  /\ \A r \in cur \cup late : {"kind", "at"} \subseteq DOMAIN r /\ (r.kind = "register" => r.at = "lookup")
  /\ \A e \in entry : DOMAIN e = {"id", "addr", "queue"}
  /\ DOMAIN node = Fields
  /\ DOMAIN count = Counters /\ count.moves \in Nat

\* The joiner is configured with an address and its key was never moved.
Pinned == conf.requested # Unset /\ count.moves = 0

\* The inductive invariant: a joiner with a configured address asks for nothing else, now
\* or in a request that is still on its way, so nothing else is recorded or answered
\* before validated claims move the key.
Asks(r) == r.kind = "register" => r.ask = conf.requested
Grants(a) == a.status = "joined" => a.addr = conf.requested
AddrInv ==
  Pinned =>
    /\ \A e \in entry : e.addr = conf.requested
    /\ \A r \in cur \cup late : Asks(r)
    /\ \A a \in resp : Grants(a)
    /\ node.pc # "down" => node.ask = conf.requested
    /\ node.pc \notin {"down", "join", "join2"} => node.tun = conf.requested

\* A step that counts anything but a move leaves the moves as they are.
LEMMA Counted ==
  ASSUME ShapeInv, NEW k \in Counters \ {"moves"}, NEW v, count' = [count EXCEPT ![k] = v]
  PROVE  DOMAIN count' = Counters /\ count'.moves = count.moves
  BY Zenon DEF ShapeInv, Counters

\* The moves are counted by Rehome and by nothing else.
LEMMA MovesCounted ==
  ASSUME ShapeInv, [Next]_vars
  PROVE  /\ DOMAIN count' = Counters /\ count'.moves \in Nat
         /\ \/ count'.moves = count.moves
            \/ count'.moves # 0 /\ \E r \in cur \cup late : HandleRegister(r) /\ Rehome(r)
<1> USE DEF ShapeInv
<1>1. CASE count' = count
  BY Zenon, <1>1
<1>2. ASSUME NEW k \in Counters \ {"moves"}, NEW v, count' = [count EXCEPT ![k] = v]
      PROVE  DOMAIN count' = Counters /\ count'.moves \in Nat /\ count'.moves = count.moves
  BY Zenon, <1>2, Counted
<1>3. ASSUME NEW k \in Counters \ {"moves"}, NEW b, Fault(k, b)
      PROVE  DOMAIN count' = Counters /\ count'.moves \in Nat /\ count'.moves = count.moves
  BY Zenon, <1>2, <1>3 DEF Fault
<1>4. {"ids", "posts", "losses", "forgets", "crashes"} \subseteq Counters \ {"moves"}
  BY Zenon DEF Counters
<1>5. CASE SweepLive \/ RestartCoordinator \/ TimeOut \/ Crash
  BY Zenon, <1>3, <1>4, <1>5 DEF SweepLive, RestartCoordinator, TimeOut, Crash
<1>6. CASE \E c \in Commands : Post(c)
  <2>1. PICK c \in Commands : count' = [count EXCEPT !.posts[c] = @ + 1]
    BY Zenon, <1>6 DEF Post
  <2>2. \E v : count' = [count EXCEPT !.posts = v]
    BY Zenon, <2>1
  <2> QED BY Zenon, <1>2, <1>4, <2>2
<1>7. CASE Joiner
  BY Zenon, <1>1, <1>7
  DEF Joiner, Boot, JoinGranted, Fallback, JoinFailed, Tick, Beaten, RosterLoss, BeatFailed,
      Reregistered, ReregisterFailed, Refuse, Execute, Record, RecordUnsaved, Persist
<1>8. ASSUME NEW r \in cur \cup late, HandleRegister(r), Rehome(r)
      PROVE  DOMAIN count' = Counters /\ count'.moves \in Nat /\ count'.moves # 0
  <2>1. count' = [count EXCEPT !.moves = @ + 1]
    BY Zenon, <1>8 DEF Rehome
  <2>2. DOMAIN count' = Counters /\ count'.moves = count.moves + 1
    BY Zenon, <2>1 DEF Counters
  <2> QED BY <2>2
<1>9. ASSUME NEW r \in cur \cup late, HandleRegister(r), ~Rehome(r)
      PROVE  DOMAIN count' = Counters /\ count'.moves \in Nat /\ count'.moves = count.moves
  <2>1. CASE Refresh(r) \/ Conflict(r)
    BY Zenon, <1>1, <2>1 DEF Refresh, Conflict
  <2>2. CASE Admit(r)
    <3>1. count' = [count EXCEPT !.ids = count.ids + 1]
      BY Zenon, <2>2 DEF Admit
    <3> QED BY Zenon, <1>2, <1>4, <3>1
  <2>3. CASE Reject(r)
    BY Zenon, <1>3, <1>4, <2>3 DEF Reject
  <2> QED BY Zenon, <1>9, <2>1, <2>2, <2>3 DEF HandleRegister
<1>10. CASE Handle
  BY Zenon, <1>1, <1>8, <1>9, <1>10 DEF Handle, HeartbeatLookup, AckCommands, DrainCommands
<1>11. CASE SweepSilent \/ UNCHANGED vars
  BY Zenon, <1>1, <1>11 DEF SweepSilent, vars
<1> QED BY Zenon, <1>5, <1>6, <1>7, <1>10, <1>11 DEF Next

\* So a key that was not moved was not moved before.
LEMMA PinnedBefore ==
  ASSUME ShapeInv, [Next]_vars, UNCHANGED conf, Pinned'
  PROVE  Pinned
  <1> QED BY Zenon, MovesCounted DEF Pinned

\* A record whose queue changes is the same otherwise.
LEMMA Requeued ==
  ASSUME NEW e, DOMAIN e = {"id", "addr", "queue"}, NEW q
  PROVE  LET f == [e EXCEPT !.queue = q]
         IN DOMAIN f = {"id", "addr", "queue"} /\ f.addr = e.addr /\ f.id = e.id
  BY Zenon

\* An answer brings nothing but itself.
LEMMA ReplyBrings ==
  ASSUME NEW r, NEW a, Reply(r, a)
  PROVE  /\ (cur' \cup late') \subseteq (cur \cup late)
         /\ \A b \in resp' : b \in resp \/ b = a
  BY Zenon DEF Reply

\* A handler that goes on is the same request at its next statement.
LEMMA AdvanceBrings ==
  ASSUME NEW r, NEW label, Advance(r, label)
  PROVE  /\ \A q \in cur' \cup late' : q \in cur \cup late \/ q = [r EXCEPT !.at = label]
         /\ resp' = resp
  BY Zenon DEF Advance

LEMMA Reworded ==
  ASSUME NEW r, {"kind", "at"} \subseteq DOMAIN r, NEW label
  PROVE  LET q == [r EXCEPT !.at = label] IN DOMAIN q = DOMAIN r /\ q.kind = r.kind
  BY Zenon

\* The coordinator's handlers.
LEMMA AddrHandle ==
  ASSUME ShapeInv, AddrInv, Handle
  PROVE  ShapeInv' /\ AddrInv'
<1> PICK r \in cur \cup late :
      HeartbeatLookup(r) \/ AckCommands(r) \/ DrainCommands(r) \/ HandleRegister(r)
  BY Zenon DEF Handle
<1>0. {"kind", "at"} \subseteq DOMAIN r /\ (r.kind = "register" => r.at = "lookup")
  BY Zenon DEF ShapeInv
<1>1. UNCHANGED <<conf, node>> /\ DOMAIN count' = Counters /\ count'.moves \in Nat
  BY Zenon, MovesCounted DEF HeartbeatLookup, AckCommands, DrainCommands, HandleRegister, Next
<1>2. ASSUME Pinned'
      PROVE  Pinned /\ ~(HandleRegister(r) /\ Rehome(r)) /\ conf.requested # Unset
  <2>1. Pinned /\ conf.requested # Unset
    BY Zenon, <1>2, <1>1, PinnedBefore DEF Next, Pinned
  <2>2. ASSUME Rehome(r) PROVE FALSE
    <3>1. count' = [count EXCEPT !.moves = @ + 1] /\ count.moves = 0
      BY Zenon, <2>1, <2>2 DEF Rehome, Pinned
    <3>2. count'.moves = count.moves + 1
      BY Zenon, <3>1 DEF ShapeInv, Counters
    <3>3. count'.moves = 0
      BY Zenon, <1>2 DEF Pinned
    <3> QED BY <3>1, <3>2, <3>3
  <2> QED BY Zenon, <2>1, <2>2
\* The requests.
<1>3. ASSUME NEW q \in cur' \cup late'
      PROVE  /\ {"kind", "at"} \subseteq DOMAIN q /\ (q.kind = "register" => q.at = "lookup")
             /\ Pinned' => Asks(q)
  <2>1. CASE q \in cur \cup late
    BY Zenon, <1>2, <2>1 DEF ShapeInv, AddrInv
  <2>2. ASSUME NEW label, q = [r EXCEPT !.at = label], r.kind # "register"
        PROVE  {"kind", "at"} \subseteq DOMAIN q /\ q.kind # "register"
    BY Zenon, <1>0, <2>2, Reworded
  <2>3. CASE HeartbeatLookup(r)
    <3>1. r.kind # "register" /\ (q \in cur \cup late \/ q = [r EXCEPT !.at = "ack"])
      BY Zenon, <2>3, ReplyBrings, AdvanceBrings DEF HeartbeatLookup
    <3> QED BY Zenon, <2>1, <2>2, <3>1 DEF Asks
  <2>4. CASE AckCommands(r)
    <3>1. r.kind # "register" /\ (q \in cur \cup late \/ q = [r EXCEPT !.at = "drain"])
      BY Zenon, <1>0, <2>4, AdvanceBrings DEF AckCommands
    <3> QED BY Zenon, <2>1, <2>2, <3>1 DEF Asks
  <2>5. CASE DrainCommands(r)
    BY Zenon, <2>1, <2>5, ReplyBrings DEF DrainCommands
  <2>6. CASE HandleRegister(r)
    BY Zenon, <2>1, <2>6, ReplyBrings
    DEF HandleRegister, Refresh, Rehome, Admit, Conflict, Reject
  <2> QED BY Zenon, <2>3, <2>4, <2>5, <2>6
\* The records.
<1>4. ASSUME NEW e \in entry'
      PROVE  /\ DOMAIN e = {"id", "addr", "queue"}
             /\ Pinned' => e.addr = conf.requested
  <2>1. ASSUME NEW f \in entry
        PROVE  /\ DOMAIN f = {"id", "addr", "queue"}
               /\ Pinned' => f.addr = conf.requested
    BY Zenon, <1>2 DEF ShapeInv, AddrInv
  <2>2. CASE e \in entry
    BY Zenon, <2>1, <2>2
  <2>3. ASSUME NEW f \in entry, NEW q, e = [f EXCEPT !.queue = q]
        PROVE  /\ DOMAIN e = {"id", "addr", "queue"}
               /\ Pinned' => e.addr = conf.requested
    BY Zenon, <2>1, <2>3, Requeued
  <2>4. CASE HeartbeatLookup(r)
    BY Zenon, <2>2, <2>4 DEF HeartbeatLookup
  <2>5. CASE AckCommands(r)
    <3>1. e \in entry \/ \E f \in entry : e = [f EXCEPT !.queue = SelectSeq(@, LAMBDA c : c \notin r.acks)]
      BY Zenon, <2>5 DEF AckCommands, Known
    <3> QED BY Zenon, <2>2, <2>3, <3>1
  <2>6. CASE DrainCommands(r)
    <3>1. e \in entry \/ \E f \in entry : e = [f EXCEPT !.queue = <<>>]
      BY Zenon, <2>6 DEF DrainCommands, Known
    <3> QED BY Zenon, <2>2, <2>3, <3>1
  <2>7. CASE HandleRegister(r)
    <3>1. CASE entry' = entry
      BY Zenon, <2>2, <3>1
    <3>2. ASSUME NEW a \in IF r.ask = Unset THEN Addresses ELSE {r.ask},
                 e = [id |-> count.ids + 1, addr |-> a, queue |-> <<>>]
          PROVE  /\ DOMAIN e = {"id", "addr", "queue"}
                 /\ Pinned' => e.addr = conf.requested
      <4>1. Pinned' => r.ask = conf.requested
        BY Zenon, <1>2, <2>7 DEF HandleRegister, AddrInv, Asks
      <4>2. Pinned' => conf.requested # Unset
        BY Zenon, <1>2
      <4>3. Pinned' => a = conf.requested
        BY Zenon, <4>1, <4>2
      <4> QED BY Zenon, <3>2, <4>3
    <3>3. ASSUME NEW f \in entry, NEW a, e = [f EXCEPT !.addr = a], Rehome(r)
          PROVE  /\ DOMAIN e = {"id", "addr", "queue"}
                 /\ Pinned' => e.addr = conf.requested
      BY Zenon, <1>2, <2>7, <2>1, <3>3
    <3>4. CASE Rehome(r)
      BY Zenon, <3>3, <3>4 DEF Rehome
    <3>5. CASE Admit(r)
      BY Zenon, <3>2, <3>5 DEF Admit
    <3> QED BY Zenon, <2>7, <3>1, <3>4, <3>5 DEF HandleRegister, Refresh, Conflict, Reject
  <2> QED BY Zenon, <2>4, <2>5, <2>6, <2>7
\* The answers.
<1>5. ASSUME NEW a \in resp', Pinned'
      PROVE  Grants(a)
  <2>1. CASE a \in resp
    BY Zenon, <1>2, <1>5, <2>1 DEF AddrInv
  <2>2. CASE HeartbeatLookup(r)
    <3>1. a \in resp \/ a = Failure("404")
      BY Zenon, <2>2, ReplyBrings, AdvanceBrings DEF HeartbeatLookup
    <3> QED BY <2>1, <3>1 DEF Failure, Grants
  <2>3. CASE AckCommands(r)
    BY Zenon, <2>1, <2>3, AdvanceBrings DEF AckCommands
  <2>4. CASE DrainCommands(r)
    <3>1. a \in resp \/ \E q : a = [status |-> "ok", commands |-> q]
      BY Zenon, <2>4, ReplyBrings DEF DrainCommands
    <3> QED BY <2>1, <3>1 DEF Grants
  <2>5. CASE HandleRegister(r)
    <3>1. r.ask = conf.requested
      BY Zenon, <1>2, <1>5, <2>5 DEF HandleRegister, AddrInv, Asks
    <3>2. ASSUME NEW i, NEW x, a = [status |-> "joined", id |-> i, addr |-> x], x = conf.requested PROVE Grants(a)
      BY Zenon, <3>2 DEF Grants
    <3>3. CASE \E e \in entry : Reply(r, [status |-> "joined", id |-> e.id, addr |-> e.addr])
      <4>1. PICK e \in entry : Reply(r, [status |-> "joined", id |-> e.id, addr |-> e.addr])
        BY Zenon, <3>3
      <4>2. a \in resp \/ a = [status |-> "joined", id |-> e.id, addr |-> e.addr]
        BY Zenon, <4>1, ReplyBrings
      <4>3. e.addr = conf.requested
        BY Zenon, <1>2, <1>5 DEF AddrInv
      <4> QED BY Zenon, <2>1, <3>2, <4>2, <4>3
    <3>4. ASSUME NEW t \in {"error", "409"}, Reply(r, Failure(t)) PROVE Grants(a)
      <4>1. a \in resp \/ a = Failure(t)
        BY Zenon, <3>4, ReplyBrings
      <4> QED BY <2>1, <4>1 DEF Failure, Grants
    <3>5. CASE Reply(r, [status |-> "joined", id |-> count.ids + 1, addr |-> r.ask])
      <4>1. a \in resp \/ a = [status |-> "joined", id |-> count.ids + 1, addr |-> r.ask]
        BY Zenon, <3>5, ReplyBrings
      <4> QED BY Zenon, <2>1, <3>1, <3>2, <4>1
    <3>6. CASE Refresh(r)
      BY Zenon, <3>3, <3>6 DEF Refresh
    <3>7. CASE Admit(r)
      BY Zenon, <1>2, <1>5, <3>1, <3>5, <3>7 DEF Admit
    <3>8. CASE Conflict(r) \/ Reject(r)
      BY Zenon, <3>4, <3>8 DEF Conflict, Reject
    <3> QED BY Zenon, <1>2, <1>5, <2>5, <3>6, <3>7, <3>8 DEF HandleRegister
  <2> QED BY Zenon, <2>2, <2>3, <2>4, <2>5
<1>6. ShapeInv'
  BY Zenon, <1>1, <1>3, <1>4 DEF ShapeInv
<1>7. AddrInv'
  BY Zenon, <1>2, <1>1, <1>3, <1>4, <1>5 DEF AddrInv, Asks, Grants
<1> QED BY Zenon, <1>6, <1>7

\* The sweeper, a restart, a post, a lost request and a crash.
LEMMA AddrOutside ==
  ASSUME ShapeInv, AddrInv,
         \/ SweepSilent \/ SweepLive \/ RestartCoordinator
         \/ TimeOut \/ Crash \/ (\E c \in Commands : Post(c))
  PROVE  ShapeInv' /\ AddrInv'
<1>1. /\ UNCHANGED conf /\ DOMAIN count' = Counters /\ count'.moves \in Nat
      /\ Pinned' => Pinned /\ conf.requested # Unset
  <2>1. UNCHANGED conf
    BY Zenon DEF SweepSilent, SweepLive, RestartCoordinator, TimeOut, Crash, Post
  <2> QED BY Zenon, <2>1, MovesCounted, PinnedBefore DEF Next, Pinned
<1>2. (cur' \cup late') \subseteq (cur \cup late)
  BY Zenon DEF SweepSilent, SweepLive, RestartCoordinator, TimeOut, Crash, Post, net
<1>3. \A a \in resp' : a \in resp \/ a = Failure("error")
  BY Zenon DEF SweepSilent, SweepLive, RestartCoordinator, TimeOut, Crash, Post, net
<1>4. node' = node \/ node' = Down
  BY Zenon DEF SweepSilent, SweepLive, RestartCoordinator, TimeOut, Crash, Post
<1>5. \A e \in entry' : e \in entry \/ \E f \in entry : \E q : e = [f EXCEPT !.queue = q]
  <2>1. CASE SweepSilent \/ SweepLive \/ TimeOut \/ Crash
    BY Zenon, <2>1 DEF SweepSilent, SweepLive, TimeOut, Crash
  <2>2. CASE RestartCoordinator
    <3>1. entry' = {} \/ entry' = {[f EXCEPT !.queue = <<>>] : f \in entry}
      BY Zenon, <2>2 DEF RestartCoordinator
    <3>2. ASSUME NEW e \in entry' PROVE \E f \in entry : e = [f EXCEPT !.queue = <<>>]
      BY Zenon, <3>1
    <3> QED BY Zenon, <3>2
  <2>3. ASSUME NEW c \in Commands, Post(c), NEW e \in entry'
        PROVE  \E f \in entry : \E q : e = [f EXCEPT !.queue = q]
    <3>1. PICK f \in entry : e = [f EXCEPT !.queue = Append(@, c)]
      BY Zenon, <2>3 DEF Post
    <3> QED BY Zenon, <3>1
  <2> QED BY Zenon, <2>1, <2>2, <2>3
<1>6. \A e \in entry' : DOMAIN e = {"id", "addr", "queue"} /\ \E f \in entry : e.addr = f.addr
  BY Zenon, <1>5, Requeued DEF ShapeInv
<1>7. Down.pc = "down" /\ DOMAIN Down = Fields
  BY Zenon DEF Down, Fields
<1>8. Failure("error").status = "error"
  BY Zenon DEF Failure
<1>9. ShapeInv'
  BY Zenon, <1>1, <1>2, <1>4, <1>6, <1>7 DEF ShapeInv
<1>10. ASSUME Pinned'
       PROVE  /\ \A e \in entry' : e.addr = conf.requested
              /\ \A r \in cur' \cup late' : Asks(r)
              /\ \A a \in resp' : Grants(a)
              /\ node'.pc # "down" => node'.ask = conf.requested
              /\ node'.pc \notin {"down", "join", "join2"} => node'.tun = conf.requested
  <2>1. \A e \in entry' : e.addr = conf.requested
    BY Zenon, <1>6, <1>1, <1>10 DEF AddrInv
  <2>2. \A r \in cur' \cup late' : Asks(r)
    BY Zenon, <1>2, <1>1, <1>10 DEF AddrInv
  <2>3. \A a \in resp' : Grants(a)
    BY Zenon, <1>3, <1>8, <1>1, <1>10 DEF AddrInv, Grants
  <2>4. /\ node'.pc # "down" => node'.ask = conf.requested
        /\ node'.pc \notin {"down", "join", "join2"} => node'.tun = conf.requested
    BY Zenon, <1>4, <1>7, <1>1, <1>10 DEF AddrInv
  <2> QED BY Zenon, <2>1, <2>2, <2>3, <2>4
<1> QED BY Zenon, <1>1, <1>9, <1>1, <1>10 DEF AddrInv, Asks, Grants

\* A step of the joiner that sends at most what it may ask, and takes an address only from
\* an answer.
LEMMA AddrJoiner ==
  ASSUME ShapeInv, AddrInv, Joiner
  PROVE  ShapeInv' /\ AddrInv'
<1>1. UNCHANGED <<conf, count>> /\ resp' \subseteq resp
  BY Zenon DEF Joiner, Boot, JoinGranted, Fallback, JoinFailed, Tick, Beaten, RosterLoss, BeatFailed,
         Reregistered, ReregisterFailed, Refuse, Execute, Record, RecordUnsaved, Persist, net, Send
<1>2. entry' \subseteq entry
  BY Zenon DEF Joiner, Boot, JoinGranted, Fallback, JoinFailed, Tick, Beaten, RosterLoss, BeatFailed,
         Reregistered, ReregisterFailed, Refuse, Execute, Record, RecordUnsaved, Persist
<1>3. \A q \in cur' \cup late' :
        \/ q \in cur \cup late
        \/ \E i, acks : q = HeartbeatReq(i, acks)
        \/ q = RegisterReq(node'.ask) /\ node'.pc # "down"
        \/ q = RegisterReq(Unset) /\ conf.requested = Unset
  <2>1. CASE Boot
    <3>1. PICK ask : node' = [Down EXCEPT !.pc = "join", !.ask = ask] /\ cur' = {RegisterReq(ask)} /\ late' \subseteq late
      BY Zenon, <2>1 DEF Boot
    <3>2. node'.ask = ask /\ node'.pc = "join"
      BY Zenon, <3>1 DEF Down
    <3> QED BY Zenon, <3>1, <3>2
  <2>2. CASE Fallback
    BY Zenon, <2>2 DEF Fallback, Send
  <2>3. CASE Tick
    BY Zenon, <2>3 DEF Tick, Send
  <2>4. CASE RosterLoss
    <3>1. CASE node.guard
      BY Zenon, <2>4, <3>1 DEF RosterLoss
    <3>2. CASE ~node.guard
      <4>1. node' = [node EXCEPT !.pc = "rereg", !.sending = {}, !.guard = TRUE]
            /\ cur' = {RegisterReq(node.ask)} /\ late' = late
        BY Zenon, <2>4, <3>2 DEF RosterLoss, Send
      <4>2. node'.ask = node.ask /\ node'.pc = "rereg"
        BY Zenon, <4>1 DEF ShapeInv, Fields
      <4> QED BY Zenon, <4>1, <4>2
    <3> QED BY Zenon, <3>1, <3>2
  <2>5. CASE Joiner /\ ~Boot /\ ~Fallback /\ ~Tick /\ ~RosterLoss
    <3>1. cur' = cur /\ late' = late
      BY Zenon, <2>5 DEF Joiner, JoinGranted, JoinFailed, Beaten, BeatFailed,
         Reregistered, ReregisterFailed, Refuse, Execute, Record, RecordUnsaved, Persist, net
    <3> QED BY Zenon, <3>1
  <2> QED BY Zenon, <2>1, <2>2, <2>3, <2>4, <2>5
\* The process.
<1>4. /\ DOMAIN node' = Fields
      /\ \/ node'.pc = "down"
         \/ node'.pc = "join" /\ (conf.requested # Unset => node'.ask = conf.requested)
         \/ node.pc \in {"join", "join2"} /\ node'.ask = node.ask /\ node'.pc = "idle"
              /\ \E a \in resp : a.status = "joined" /\ node'.tun = a.addr
         \/ node'.ask = node.ask /\ node.pc = "join" /\ node'.pc = "join2"
         \/ node'.ask = node.ask /\ node'.tun = node.tun /\ node.pc \notin {"down", "join", "join2"}
  <2> USE DEF ShapeInv, Fields
  <2>1. CASE Boot
    BY Zenon, <2>1 DEF Boot, Down
  <2>2. CASE JoinGranted
    BY Zenon, <2>2 DEF JoinGranted
  <2>3. CASE Fallback
    BY Zenon, <2>3 DEF Fallback, Goto
  <2>4. CASE JoinFailed
    BY Zenon, <2>4 DEF JoinFailed, Down
  <2>5. CASE Tick \/ Beaten \/ RosterLoss \/ BeatFailed
    BY Zenon, <2>5 DEF Tick, Beaten, RosterLoss, BeatFailed
  <2>6. CASE Reregistered \/ ReregisterFailed
    BY Zenon, <2>6 DEF Reregistered, ReregisterFailed, Goto
  <2>7. ASSUME NEW n, DOMAIN n = Fields, node' = Acknowledged(n), n.ask = node.ask, n.tun = node.tun
        PROVE  DOMAIN node' = Fields /\ node'.ask = node.ask /\ node'.tun = node.tun
    BY Zenon, <2>7 DEF Acknowledged
  <2>8. CASE Refuse \/ Persist
    BY Zenon, <2>7, <2>8 DEF Refuse, Persist
  <2>9. CASE RecordUnsaved
    <3> DEFINE n == [node EXCEPT !.nonces = @ \cup {Head(node.inbox)}]
    <3>1. DOMAIN n = Fields /\ n.ask = node.ask /\ n.tun = node.tun
      BY Zenon
    <3>2. node' = Acknowledged(n) /\ node.pc = "mark"
      BY Zenon, <2>9 DEF RecordUnsaved
    <3> HIDE DEF n
    <3> QED BY Zenon, <2>7, <3>1, <3>2
  <2>10. CASE Execute \/ Record
    BY Zenon, <2>10 DEF Execute, Record, Goto
  <2> QED BY Zenon, <2>1, <2>2, <2>3, <2>4, <2>5, <2>6, <2>8, <2>9, <2>10 DEF Joiner
<1>5. ASSUME NEW i, NEW acks
      PROVE  {"kind", "at"} \subseteq DOMAIN HeartbeatReq(i, acks) /\ HeartbeatReq(i, acks).kind = "heartbeat"
  BY Zenon DEF HeartbeatReq
<1>6. ASSUME NEW a
      PROVE  {"kind", "at"} \subseteq DOMAIN RegisterReq(a) /\ RegisterReq(a).at = "lookup" /\ RegisterReq(a).ask = a
  BY Zenon DEF RegisterReq
<1>7. ShapeInv'
  <2>1. ASSUME NEW q \in cur' \cup late'
        PROVE  {"kind", "at"} \subseteq DOMAIN q /\ (q.kind = "register" => q.at = "lookup")
    BY <1>3, <1>5, <1>6 DEF ShapeInv
  <2> QED BY Zenon, <1>1, <1>2, <1>4, <2>1 DEF ShapeInv
<1>8. ASSUME Pinned'
      PROVE  /\ Pinned /\ conf.requested # Unset
             /\ \A e \in entry' : e.addr = conf.requested
             /\ \A r \in cur' \cup late' : Asks(r)
             /\ \A a \in resp' : Grants(a)
             /\ node'.pc # "down" => node'.ask = conf.requested
             /\ node'.pc \notin {"down", "join", "join2"} => node'.tun = conf.requested
  <2>0. Pinned /\ conf.requested # Unset
    BY Zenon, <1>1, <1>8 DEF Pinned
  <2>1. /\ \A e \in entry' : e.addr = conf.requested
        /\ \A a \in resp' : Grants(a)
    BY Zenon, <1>1, <1>2, <2>0 DEF AddrInv
  <2>2. /\ node'.pc # "down" => node'.ask = conf.requested
        /\ node'.pc \notin {"down", "join", "join2"} => node'.tun = conf.requested
    BY Zenon, <1>4, <2>0 DEF AddrInv, Grants
  <2>3. ASSUME NEW q \in cur' \cup late' PROVE Asks(q)
    BY <1>3, <1>5, <1>6, <2>0, <2>2 DEF AddrInv, Asks
  <2> QED BY Zenon, <2>0, <2>1, <2>2, <2>3
<1> QED BY Zenon, <1>1, <1>7, <1>8 DEF AddrInv, Asks, Grants

\* Until validated claims move the key, a configured address is the one the coordinator
\* has of an attached joiner and the one the TUN device has, for any losses, refusals, late
\* requests, restarts and crashes (strict_requested_ula).
THEOREM ConfiguredAddressStays == Spec => []ConfiguredAddressKept
<1>1. Init => ShapeInv /\ AddrInv
  BY DEF Init, ShapeInv, AddrInv, Down, Fields, Counters
<1>2. ShapeInv /\ AddrInv /\ [Next]_vars => ShapeInv' /\ AddrInv'
  <2> SUFFICES ASSUME ShapeInv, AddrInv, [Next]_vars PROVE ShapeInv' /\ AddrInv'
    BY Zenon
  <2>1. CASE UNCHANGED vars
    BY Zenon, <2>1 DEF vars, net, ShapeInv, AddrInv, Pinned, Asks, Grants
  <2> QED BY Zenon, <2>1, AddrHandle, AddrJoiner, AddrOutside DEF Next
<1>3. AddrInv => ConfiguredAddressKept
  BY Zenon DEF AddrInv, Pinned, ConfiguredAddressKept, Attached
<1> QED BY <1>1, <1>2, <1>3, PTL DEF Spec
================================================================================
