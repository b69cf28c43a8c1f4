------------------------------- MODULE Control --------------------------------
(***************************************************************************)
(* One joiner's control loop against the coordinator: the join, heartbeats *)
(* that carry signed commands one way and acknowledgements the other, the  *)
(* recovery after the coordinator forgot the peer, and the gate that runs  *)
(* a command.                                                              *)
(*                                                                         *)
(* A request may be lost, its answer may be lost, and a request whose      *)
(* sender gave up may still be handled later.  The joiner's process may    *)
(* crash at any step and is started again by its service manager.          *)
(***************************************************************************)
EXTENDS Naturals, Sequences, Functions

CONSTANTS
  Commands,    \* signed commands; a command stands for its id and its nonce
  Unverified,  \* commands whose signature does not verify
  Addresses,       \* overlay addresses
  Unset,
  Configs,     \* configurations of the joiner: [requested, identityFile]
  DiskFaults,  \* TRUE iff writing the nonce file may fail
  MaxIds,      \* bound: peer ids drawn
  MaxPosts,    \* bound: POSTs of each command
  MaxLosses,   \* bound: requests the joiner gives up on
  MaxForgets,  \* bound: times a heartbeating peer is forgotten
  MaxMoves,    \* bound: times validated claims move the key to another network
  MaxCrashes,  \* bound: crashes of the joiner
  MaxDisturbances    \* bound: losses, forgets and crashes together

ASSUME UnsetAssumption == Unset \notin Addresses
ASSUME ConfigAssumption ==
  /\ Configs \subseteq [requested : Addresses \cup {Unset}, identityFile : BOOLEAN]
  /\ Unverified \subseteq Commands
  /\ DiskFaults \in BOOLEAN
ASSUME BoundAssumption ==
  /\ {MaxIds, MaxLosses, MaxForgets, MaxMoves, MaxCrashes, MaxDisturbances} \subseteq Nat
  /\ MaxPosts \in [Commands -> Nat]

VARIABLES
  conf,     \* the joiner's configuration
  entry,    \* the coordinator's records of this joiner's key: none or one
  expired,  \* commands a tick has found past their expiry
  cur,      \* the requests the joiner waits for: none or one
  late,     \* requests that may still be handled, but nobody waits for
  resp,     \* the answers on their way to the joiner: none or one
  node,     \* the joiner's process
  nfile,    \* nonces in the JSON sidecar; none when it is absent or torn
  idfile,   \* the address in the identity file, or Unset
  runs,     \* command -> times it ran since the process started
  decided,  \* commands that were executed or refused
  lost,     \* commands that left the queue without reaching the gate
  relapse,  \* TRUE once a recovery from roster loss was itself disturbed
  saved,    \* nonces that were in the file at some time
  torn,     \* TRUE once a process ended while the file lacked one of those
  count     \* how often each bounded thing has happened

net == <<cur, late, resp>>
durable == <<saved, torn>>
history == <<runs, decided, lost, relapse, durable>>
vars == <<conf, entry, expired, net, node, nfile, idfile, history, count>>

-----------------------------------------------------------------------------
\* A request; `at' is the next statement of its handler.
HeartbeatReq(i, acks) ==
  [kind |-> "heartbeat", id |-> i, acks |-> acks, at |-> "lookup"]
RegisterReq(a) == [kind |-> "register", ask |-> a, at |-> "lookup"]
\* An answer without a body.
Failure(s) == [status |-> s]

\* A process that is not running.
Down ==
  [pc |-> "down", id |-> 0, guard |-> FALSE, acks |-> {}, sending |-> {},
   inbox |-> <<>>, tun |-> Unset, ask |-> Unset, nonces |-> {}]

\* A bounded disturbance of kind k.
Fault(k, bound) ==
  /\ count[k] < bound
  /\ count.losses + count.forgets + count.crashes < MaxDisturbances
  /\ count' = [count EXCEPT ![k] = @ + 1]

Init ==
  /\ conf \in Configs
  /\ entry = {} /\ expired = {}
  /\ cur = {} /\ late = {} /\ resp = {}
  /\ node = Down
  /\ nfile = {} /\ idfile = Unset
  /\ runs = [c \in Commands |-> 0]
  /\ decided = {} /\ lost = {} /\ relapse = FALSE
  /\ saved = {} /\ torn = FALSE
  /\ count = [ids |-> 0, posts |-> [c \in Commands |-> 0], losses |-> 0,
              forgets |-> 0, moves |-> 0, crashes |-> 0]

-----------------------------------------------------------------------------
(* The coordinator.                                                        *)

\* Request r is answered with a; nobody reads the answer of a late one.
Reply(r, a) ==
  IF r \in cur THEN cur' = {} /\ resp' = {a} /\ UNCHANGED late
               ELSE late' = late \ {r} /\ UNCHANGED <<cur, resp>>

\* The handler of request r goes on to its next statement.
Advance(r, label) ==
  LET next == [r EXCEPT !.at = label]
  IN IF r \in cur THEN cur' = {next} /\ UNCHANGED <<late, resp>>
                  ELSE late' = (late \ {r}) \cup {next} /\ UNCHANGED <<cur, resp>>

Known(i) == {e \in entry : e.id = i}
Queued == UNION {Range(e.queue) : e \in entry}

\* heartbeat_handler: an id that is not in the roster is a 404.
HeartbeatLookup(r) ==
  /\ r.kind = "heartbeat" /\ r.at = "lookup"
  /\ IF Known(r.id) = {} THEN Reply(r, Failure("404")) ELSE Advance(r, "ack")
  /\ UNCHANGED <<conf, entry, expired, node, nfile, idfile, history, count>>

\* ack_commands takes the acknowledged commands off the queue.
AckCommands(r) ==
  /\ r.at = "ack"
  /\ entry' = (entry \ Known(r.id)) \cup
       {[e EXCEPT !.queue = SelectSeq(@, LAMBDA c : c \notin r.acks)] : e \in Known(r.id)}
  /\ Advance(r, "drain")
  /\ UNCHANGED <<conf, expired, node, nfile, idfile, history, count>>

\* drain_commands moves what is left of the queue into the response.
DrainCommands(r) ==
  /\ r.at = "drain"
  /\ \E q \in IF Known(r.id) = {} THEN {<<>>} ELSE {e.queue : e \in Known(r.id)} :
       /\ Reply(r, [status |-> "ok", commands |-> q])
       /\ lost' = IF r \in cur THEN lost ELSE lost \cup Range(q)
  /\ entry' = (entry \ Known(r.id)) \cup {[e EXCEPT !.queue = <<>>] : e \in Known(r.id)}
  /\ UNCHANGED <<conf, expired, node, nfile, idfile, runs, decided, relapse,
                 durable, count>>

\* refresh_existing: a known key keeps its record and its queue, whatever address
\* it asks for.
Refresh(r) ==
  /\ \E e \in entry : Reply(r, [status |-> "joined", id |-> e.id, addr |-> e.addr])
  /\ UNCHANGED <<entry, count>>

\* refresh_existing with validated claims for another network: the record gets a
\* fresh address there, and again the requested one is ignored.
Rehome(r) ==
  /\ count.moves < MaxMoves
  /\ \E e \in entry, a \in Addresses :
       /\ a # e.addr
       /\ entry' = {[e EXCEPT !.addr = a]}
       /\ Reply(r, [status |-> "joined", id |-> e.id, addr |-> a])
  /\ count' = [count EXCEPT !.moves = @ + 1]

\* An unknown key gets a record with the address it asks for, or a free one.
Admit(r) ==
  /\ entry = {} /\ count.ids < MaxIds
  /\ \E a \in IF r.ask = Unset THEN Addresses ELSE {r.ask} :
       /\ entry' = {[id |-> count.ids + 1, addr |-> a, queue |-> <<>>]}
       /\ Reply(r, [status |-> "joined", id |-> count.ids + 1, addr |-> a])
  /\ count' = [count EXCEPT !.ids = @ + 1]

\* Another peer holds the address an unknown key asks for.
Conflict(r) ==
  /\ entry = {} /\ r.ask # Unset
  /\ Reply(r, Failure("409"))
  /\ UNCHANGED <<entry, count>>

\* Every other refusal leaves the record as it is: the token is not valid (401), no
\* index is left (503), the record went while it was refreshed (404), the address
\* drawn is taken (409).
Reject(r) ==
  /\ \E s \in {"error", "409"} : Reply(r, Failure(s))
  /\ Fault("losses", MaxLosses)
  /\ UNCHANGED entry

\* register_handler.  Other peers come and go between any two requests, so which
\* addresses they hold is not part of the state.
HandleRegister(r) ==
  /\ r.kind = "register"
  /\ Refresh(r) \/ Rehome(r) \/ Admit(r) \/ Conflict(r) \/ Reject(r)
  /\ UNCHANGED <<conf, expired, node, nfile, idfile, history>>

\* One statement of a handler.
Handle ==
  \E r \in cur \cup late :
    HeartbeatLookup(r) \/ AckCommands(r) \/ DrainCommands(r) \/ HandleRegister(r)

\* post_command_handler: a command is posted to the peer, possibly again.
Post(c) ==
  /\ entry # {} /\ count.posts[c] < MaxPosts[c]
  /\ entry' = {[e EXCEPT !.queue = Append(@, c)] : e \in entry}
  /\ count' = [count EXCEPT !.posts[c] = @ + 1]
  /\ UNCHANGED <<conf, expired, net, node, nfile, idfile, history>>

Heartbeating == \E e \in entry : e.id = node.id
AboutToLearn == \E e \in entry, a \in resp : a.status = "joined" /\ a.id = e.id

\* The sweeper removes a record that no process heartbeats.
SweepSilent ==
  /\ entry # {} /\ ~Heartbeating /\ ~AboutToLearn
  /\ entry' = {}
  /\ lost' = lost \cup Queued
  /\ UNCHANGED <<conf, expired, net, node, nfile, idfile,
                 runs, decided, relapse, durable, count>>

\* The sweeper removes a peer whose heartbeats did not arrive in time.
SweepLive ==
  /\ Heartbeating
  /\ entry' = {}
  /\ lost' = lost \cup Queued
  /\ relapse' = (relapse \/ node.guard)
  /\ Fault("forgets", MaxForgets)
  /\ UNCHANGED <<conf, expired, net, node, nfile, idfile, runs, decided, durable>>

\* The coordinator restarts, with a roster snapshot or without one.  The queues
\* are gone in both cases, and every request fails.
RestartCoordinator ==
  /\ entry # {}
  /\ \/ entry' = {} /\ relapse' = (relapse \/ node.guard)
     \/ entry' = {[e EXCEPT !.queue = <<>>] : e \in entry} /\ UNCHANGED relapse
  /\ lost' = lost \cup Queued
  /\ cur' = {} /\ late' = {}
  /\ resp' = IF cur = {} THEN resp ELSE {Failure("error")}
  /\ Fault("forgets", MaxForgets)
  /\ UNCHANGED <<conf, expired, node, nfile, idfile, runs, decided, durable>>

-----------------------------------------------------------------------------
(* The network.                                                            *)

\* What an answer that nobody reads carries.
Carried == UNION {Range(a.commands) : a \in {b \in resp : b.status = "ok"}}

\* The request times out: it is lost, or still on its way, or its answer is lost.
TimeOut ==
  /\ \/ cur # {} /\ late' \in {late, late \cup cur}
     \/ (\E a \in resp : a.status # "error") /\ UNCHANGED late
  /\ cur' = {}
  /\ resp' = {Failure("error")}
  /\ lost' = lost \cup Carried
  /\ Fault("losses", MaxLosses)
  /\ UNCHANGED <<conf, entry, expired, node, nfile, idfile,
                 runs, decided, relapse, durable>>

-----------------------------------------------------------------------------
(* The joiner.                                                             *)

Send(r) == cur' = {r} /\ UNCHANGED late
Got(s) == \E a \in resp : a.status = s
Goto(label) == node' = [node EXCEPT !.pc = label]

\* resolve_identity and the first register.  An identity file is only written
\* after a join, so until then every start has a new key pair: the record and
\* the late registrations of the previous key are those of another peer.  A
\* configured address that is not the stored one ends the start.
Boot ==
  /\ node.pc = "down"
  /\ conf.requested # Unset => idfile \in {Unset, conf.requested}
  /\ LET ask == IF conf.requested # Unset THEN conf.requested ELSE idfile
         newKey == conf.identityFile /\ idfile = Unset
     IN /\ node' = [Down EXCEPT !.pc = "join", !.ask = ask]
        /\ cur' = {RegisterReq(ask)}
        /\ IF newKey
           THEN /\ entry' = {}
                /\ lost' = lost \cup Queued
                /\ late' = {r \in late : r.kind # "register"}
           ELSE UNCHANGED <<entry, lost, late>>
  /\ runs' = [c \in Commands |-> 0]
  /\ UNCHANGED <<conf, expired, resp, nfile, idfile, decided, relapse, durable, count>>

\* Variant: the executed nonces are not loaded.
JoinedForgetful ==
  /\ node.pc \in {"join", "join2"}
  /\ \E a \in resp :
       /\ a.status = "joined"
       /\ node' = [node EXCEPT !.pc = "idle", !.id = a.id, !.tun = a.addr]
       /\ idfile' = IF conf.identityFile /\ idfile = Unset THEN a.addr ELSE idfile
  /\ resp' = {}
  /\ UNCHANGED <<conf, entry, expired, cur, late, nfile, history, count>>

\* join_with_commands goes on with the answer: the identity is stored unless it
\* was loaded, the TUN device gets the address, the gate loads its nonces.
JoinGranted ==
  /\ node.pc \in {"join", "join2"}
  /\ \E a \in resp :
       /\ a.status = "joined"
       /\ node' = [node EXCEPT !.pc = "idle", !.id = a.id, !.tun = a.addr,
                               !.nonces = nfile]
       /\ idfile' = IF conf.identityFile /\ idfile = Unset THEN a.addr ELSE idfile
  /\ resp' = {}
  /\ UNCHANGED <<conf, entry, expired, cur, late, nfile, history, count>>

\* Variant: a configured address is given up as well.
FallbackAlways ==
  /\ node.pc \in {"join", "rereg"} /\ Got("409")
  /\ Goto(IF node.pc = "join" THEN "join2" ELSE "rereg2")
  /\ Send(RegisterReq(Unset))
  /\ resp' = {}
  /\ UNCHANGED <<conf, entry, expired, nfile, idfile, history, count>>

\* register_with_409_fallback: a sticky address that another peer holds is given
\* up for an allocated one, a configured one is not.
Fallback ==
  /\ node.pc \in {"join", "rereg"} /\ Got("409") /\ conf.requested = Unset
  /\ Goto(IF node.pc = "join" THEN "join2" ELSE "rereg2")
  /\ Send(RegisterReq(Unset))
  /\ resp' = {}
  /\ UNCHANGED <<conf, entry, expired, nfile, idfile, history, count>>

\* Any other error, and a 409 to a configured address or to the fallback.
RegisterFailed ==
  \/ Got("error")
  \/ Got("409") /\ (conf.requested # Unset \/ node.pc \in {"join2", "rereg2"})

\* A join that fails ends the process.
JoinFailed ==
  /\ node.pc \in {"join", "join2"} /\ RegisterFailed
  /\ node' = Down
  /\ resp' = {}
  /\ UNCHANGED <<conf, entry, expired, cur, late, nfile, idfile, history, count>>

\* tick_once sends a heartbeat, taking the acknowledgements along.
Tick ==
  /\ node.pc = "idle"
  /\ node' = [node EXCEPT !.pc = "beat", !.sending = node.acks, !.acks = {}]
  /\ Send(HeartbeatReq(node.id, node.acks))
  /\ UNCHANGED <<conf, entry, expired, resp, nfile, idfile, history, count>>

\* The heartbeat succeeded: the commands go to the gate, all of them judged by
\* the clock of this moment, which may have passed the expiry of some.
Beaten ==
  /\ node.pc = "beat"
  /\ \E a \in resp :
       /\ a.status = "ok"
       /\ node' = [node EXCEPT !.pc = IF a.commands = <<>> THEN "idle" ELSE "gate",
                               !.guard = FALSE, !.sending = {}, !.inbox = a.commands]
       /\ \E s \in SUBSET Range(a.commands) : expired' = expired \cup s
  /\ resp' = {}
  /\ UNCHANGED <<conf, entry, cur, late, nfile, idfile, history, count>>

\* A 404: register again, unless the guard says that is being handled.
RosterLoss ==
  /\ node.pc = "beat" /\ Got("404")
  /\ resp' = {}
  /\ IF node.guard
     THEN /\ node' = [node EXCEPT !.pc = "idle", !.sending = {}]
          /\ UNCHANGED <<cur, late>>
     ELSE /\ node' = [node EXCEPT !.pc = "rereg", !.sending = {}, !.guard = TRUE]
          /\ Send(RegisterReq(node.ask))
  /\ UNCHANGED <<conf, entry, expired, nfile, idfile, history, count>>

\* Any other error: the acknowledgements go with the next heartbeat.
BeatFailed ==
  /\ node.pc = "beat" /\ Got("error")
  /\ node' = [node EXCEPT !.pc = "idle", !.acks = node.sending, !.sending = {}]
  /\ resp' = {}
  /\ UNCHANGED <<conf, entry, expired, cur, late, nfile, idfile, history, count>>

\* Variant: the new id is not adopted.
ReregisteredOldId ==
  /\ node.pc \in {"rereg", "rereg2"} /\ Got("joined")
  /\ Goto("idle")
  /\ resp' = {}
  /\ UNCHANGED <<conf, entry, expired, cur, late, nfile, idfile, history, count>>

\* reregister_after_roster_loss adopts the new id, and not the new address.
Reregistered ==
  /\ node.pc \in {"rereg", "rereg2"}
  /\ \E a \in resp :
       a.status = "joined" /\ node' = [node EXCEPT !.pc = "idle", !.id = a.id]
  /\ resp' = {}
  /\ UNCHANGED <<conf, entry, expired, cur, late, nfile, idfile, history, count>>

\* It failed: the guard stays set.
ReregisterFailed ==
  /\ node.pc \in {"rereg", "rereg2"} /\ RegisterFailed
  /\ Goto("idle")
  /\ relapse' = TRUE
  /\ resp' = {}
  /\ UNCHANGED <<conf, entry, expired, cur, late, nfile, idfile,
                 runs, decided, lost, durable, count>>

-----------------------------------------------------------------------------
(* process_commands.                                                       *)

\* CommandGate::evaluate
Accepts(c) == c \notin Unverified /\ c \notin expired /\ c \notin node.nonces

\* The head of the batch is acknowledged; pc goes back to idle after the last.
Acknowledged(n) ==
  [n EXCEPT !.pc = IF Len(n.inbox) = 1 THEN "idle" ELSE "gate",
            !.acks = @ \cup {Head(n.inbox)}, !.inbox = Tail(@)]

\* Variant: a refused command ends the batch.
RefuseRest ==
  /\ node.pc = "gate" /\ ~Accepts(Head(node.inbox))
  /\ node' = [node EXCEPT !.pc = "idle", !.inbox = <<>>]
  /\ decided' = decided \cup {Head(node.inbox)}
  /\ UNCHANGED <<conf, entry, expired, net, nfile, idfile, runs, lost, relapse,
                 durable, count>>

\* A replayed, expired or unverified command is acknowledged and not run.
Refuse ==
  /\ node.pc = "gate" /\ ~Accepts(Head(node.inbox))
  /\ node' = Acknowledged(node)
  /\ decided' = decided \cup {Head(node.inbox)}
  /\ UNCHANGED <<conf, entry, expired, net, nfile, idfile,
                 runs, lost, relapse, durable, count>>

\* An accepted command is run, and only then recorded.
Execute ==
  /\ node.pc = "gate" /\ Accepts(Head(node.inbox))
  /\ Goto("mark")
  /\ runs' = [runs EXCEPT ![Head(node.inbox)] = @ + 1]
  /\ decided' = decided \cup {Head(node.inbox)}
  /\ UNCHANGED <<conf, entry, expired, net, nfile, idfile, lost, relapse, durable, count>>

\* NonceStore::record puts the nonce into the set; fs::write truncates the file.
Record ==
  /\ node.pc = "mark"
  /\ node' = [node EXCEPT !.pc = "write", !.nonces = @ \cup {Head(node.inbox)}]
  /\ nfile' = {}
  /\ UNCHANGED <<conf, entry, expired, net, idfile, history, count>>

\* Variant: a nonce that cannot be saved is not recorded.
RecordNowhere ==
  /\ DiskFaults /\ node.pc = "mark"
  /\ node' = Acknowledged(node)
  /\ UNCHANGED <<conf, entry, expired, net, nfile, idfile, history, count>>

\* The file cannot be opened: logged, and the nonce stays in memory only.
RecordUnsaved ==
  /\ DiskFaults /\ node.pc = "mark"
  /\ node' = Acknowledged([node EXCEPT !.nonces = @ \cup {Head(node.inbox)}])
  /\ UNCHANGED <<conf, entry, expired, net, nfile, idfile, history, count>>

\* The set is written, or the write fails and the file stays truncated.
Persist ==
  /\ node.pc = "write"
  /\ nfile' \in {node.nonces} \cup (IF DiskFaults THEN {{}} ELSE {})
  /\ saved' = saved \cup nfile'
  /\ node' = Acknowledged(node)
  /\ UNCHANGED <<conf, entry, expired, net, idfile,
                 runs, decided, lost, relapse, torn, count>>

\* The process ends at any step: a crash, a restart or a reboot.  Its request
\* may still be handled.
Crash ==
  /\ node.pc # "down"
  /\ node' = Down
  /\ cur' = {} /\ resp' = {}
  /\ late' \in {late, late \cup cur}
  /\ lost' = lost \cup Carried \cup Range(node.inbox)
  /\ torn' = (torn \/ ~(saved \subseteq nfile))
  /\ Fault("crashes", MaxCrashes)
  /\ UNCHANGED <<conf, entry, expired, nfile, idfile, runs, decided, relapse, saved>>

-----------------------------------------------------------------------------
\* What the joiner's process does by itself.
Joiner ==
  \/ Boot \/ JoinGranted \/ Fallback \/ JoinFailed
  \/ Tick \/ Beaten \/ RosterLoss \/ BeatFailed \/ Reregistered \/ ReregisterFailed
  \/ Refuse \/ Execute \/ Record \/ RecordUnsaved \/ Persist

Next ==
  \/ Joiner
  \/ Handle
  \/ SweepSilent \/ SweepLive \/ RestartCoordinator
  \/ TimeOut \/ Crash
  \/ \E c \in Commands : Post(c)

Spec == Init /\ [][Next]_vars

\* The service manager restarts the process, the loop ticks, a request that is
\* not given up on is handled, the sweeper runs.
FairSpec == Spec /\ WF_vars(Joiner) /\ WF_vars(Handle) /\ WF_vars(SweepSilent)

-----------------------------------------------------------------------------
Pcs == {"down", "join", "join2", "idle", "beat", "rereg", "rereg2",
        "gate", "mark", "write"}

\* No command runs twice in one life of the process, however often it is
\* posted, delivered or carried by one batch, and whether or not the nonce file
\* could be written (CommandGate::evaluate, NonceStore::record).
RunsOnce == \A c \in Commands : runs[c] <= 1

\* A command whose nonce once reached the file never runs again, across crashes
\* and restarts and whatever other commands were recorded since, unless a process
\* ended while the file lacked a nonce it had held: NonceStore::persist truncates
\* the file before it writes the whole set again.
RecordedNeverRuns ==
  [][\A c \in Commands : c \in saved /\ ~torn => runs'[c] <= runs[c]]_vars

\* The process heartbeats the record the coordinator has of it.
Attached == node.pc \notin {"down", "join", "join2"} /\ Heartbeating

\* Until validated claims move the key, a configured address is the one the
\* coordinator has and the one the TUN device has, whatever was forgotten or
\* refused meanwhile (strict_requested_ula; refresh_existing ignores the request).
ConfiguredAddressKept ==
  conf.requested # Unset /\ Attached /\ count.moves = 0 =>
    \A e \in entry : e.addr = node.tun /\ e.addr = conf.requested

\* A joiner that may take any address is attached again and again, unless a
\* recovery from roster loss failed or was overtaken by another loss.
Recovers == conf.requested = Unset => <>relapse \/ []<>Attached

\* Every queued command is executed or refused, or the queue, the answer or the
\* batch it was in is lost.
CommandsSettle ==
  \A c \in Commands : c \in Queued ~> c \in decided \cup lost

\* A joiner recovers from roster loss: a failed re-registration is tried again
\* on the next tick (reregister_after_roster_loss).
RetriesReregister == conf.requested = Unset => []<>Attached

================================================================================
