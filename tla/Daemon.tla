------------------------------- MODULE Daemon -------------------------------
(***************************************************************************)
(* The `tabbify-mesh join` daemons of one host and one HOME: the WireGuard *)
(* port they compete for, the start and the end of a joiner, the status    *)
(* file they share, the lifeline's own file, and the `leave` command.      *)
(*                                                                         *)
(* The status file is written as `fs::write` and `fs::rename` do it: the   *)
(* temporary file is opened and truncated, then written, then renamed, and *)
(* a file that is open stays the same file under another name.  What a     *)
(* joiner does to its host is module Host; what the coordinator does with  *)
(* a registration is module Roster.                                        *)
(***************************************************************************)
EXTENDS Naturals, FiniteSets

CONSTANTS
  Daemons,            \* the join commands of the host
  JoinArgs,           \* the flags each may be started with
  Serials,            \* numbers that tell the peer ids of one daemon apart
  BindRetryAttempts,
  Reclaim,            \* pauses until the kernel has reclaimed a dead socket
  Nobody,             \* no daemon, no id
  MaxJoins,           \* bound: join commands
  MaxFaults           \* bound: failing steps, kills and `leave` commands

ASSUME ReclaimAssumption ==
  /\ BindRetryAttempts \in Nat /\ Reclaim \in Nat \ {0} /\ Reclaim < BindRetryAttempts
  /\ Nobody \notin Daemons /\ Nobody # "dead" /\ "dead" \notin Daemons
  /\ MaxJoins \in Nat /\ MaxFaults \in Nat

VARIABLES
  run,         \* the process of each daemon
  port,        \* who holds the preferred port: a daemon, or a dead one's socket
  roster,      \* the id the coordinator has for each daemon's key, or Nobody
  tmp, status, \* status.json.tmp and status.json: no file, a blank or garbled one, a snapshot
  lifeline,    \* the id in each daemon's --status-file, or Nobody
  cli,         \* the `leave` command
  budget       \* what is left of each bound

files == <<tmp, status, lifeline>>
dvars == <<run, port, roster, files, cli, budget>>

Spent(b) == budget[b] > 0 /\ budget' = [budget EXCEPT ![b] = @ - 1]
Works(ok) == IF ok THEN UNCHANGED budget ELSE Spent("faults")

Off == [pc |-> "off", pid |-> 0, args |-> Nobody, tries |-> 0, port |-> "none", met |-> FALSE,
        id |-> Nobody, shared |-> Nobody, tasks |-> {}, refresh |-> "off", file |-> "none"]

\* What a file may be: missing, blank or garbled, or a snapshot.  A snapshot names the peer
\* and the process that wrote it (and more that no one tells apart).
Text(kind, id, pid) == [kind |-> kind, id |-> id, pid |-> pid]
Missing == Text("missing", Nobody, 0)
Blank == Text("blank", Nobody, 0)
Garbled == Text("garbled", Nobody, 0)
Snapshot(d) == Text("snapshot", run[d].id, run[d].pid)

Free == [holder |-> Nobody, pauses |-> 0]

DaemonInit ==
  /\ run = [d \in Daemons |-> Off]
  /\ port = Free
  /\ roster = [d \in Daemons |-> Nobody]
  /\ tmp = Missing /\ status = Missing
  /\ lifeline = [d \in Daemons |-> Nobody]
  /\ cli = [pc |-> "idle", id |-> Nobody]
  /\ budget = [joins |-> MaxJoins, faults |-> MaxFaults]

Is(d, pc) == run[d].pc = pc
Set(d, r) == run' = [run EXCEPT ![d] = r]
To(d, pc) == Set(d, [run[d] EXCEPT !.pc = pc])

-----------------------------------------------------------------------------
(* Flags, and what they switch on.                                         *)

\* build_join_config: --no-relay and --insecure-no-mtls.
Config(a) == [relay_enabled |-> ~a.no_relay, insecure |-> a.insecure]

\* build_relay_channel: whether packets for the relay are queued.
RelayChannel(c) == c.relay_enabled /\ c.insecure

\* relay client `run` returns at once in secure mode.
RelayRuns(c) == c.insecure

RelayTasks(c) == IF RelayChannel(c) /\ RelayRuns(c) THEN {"relay_hi", "relay_lo"} ELSE {}

\* spawn_background_tasks.
BackgroundTasks(c) ==
  {"udp_recv", "tun_read", "timer", "convergence", "sse", "holepunch", "heartbeat"}
    \cup RelayTasks(c)

\* join_with_optional_sink: a super-admin key that does not parse ends the command.
KeyParses(a) == a.admin # "malformed"

-----------------------------------------------------------------------------
(* A process ends: its socket takes a moment to go, its files stay.        *)

Closing(d) ==
  port' = IF port.holder = d THEN [holder |-> "dead", pauses |-> Reclaim] ELSE port

Ends(d, how) == Set(d, [Off EXCEPT !.pc = how]) /\ Closing(d)

\* A process id is used once: the joins that are left tell them apart.
JoinRun(d, a) ==
  /\ run[d].pc \in {"off", "left", "killed"} /\ Spent("joins")
  /\ Set(d, IF KeyParses(a)
              THEN [Off EXCEPT !.pc = "bind", !.pid = budget.joins, !.args = a,
                               !.tries = BindRetryAttempts]
              ELSE Off)
  /\ UNCHANGED <<port, roster, files, cli>>

\* bind_udp_with_fallback.  A port some daemon takes while another wants it was held.
BindPreferred(d) ==
  /\ Is(d, "bind") /\ port.holder = Nobody
  /\ port' = [holder |-> d, pauses |-> 0]
  /\ run' = [e \in Daemons |->
       IF e = d THEN [run[d] EXCEPT !.pc = "register", !.port = "preferred",
                                     !.tries = 0, !.met = FALSE]
                ELSE [run[e] EXCEPT !.met = @ \/ run[e].pc \in {"bind", "pause"}]]
  /\ UNCHANGED <<roster, files, cli, budget>>

\* Variant: one attempt.
BindOnce(d) ==
  /\ Is(d, "bind") /\ port.holder # Nobody
  /\ Set(d, [run[d] EXCEPT !.met = @ \/ port.holder \in Daemons, !.tries = 0,
               !.pc = "register", !.port = "ephemeral"])
  /\ UNCHANGED <<port, roster, files, cli, budget>>

BindBusy(d) ==
  /\ Is(d, "bind") /\ port.holder # Nobody
  /\ Set(d, [run[d] EXCEPT !.met = @ \/ port.holder \in Daemons, !.tries = @ - 1,
               !.pc = IF run[d].tries > 1 THEN "pause" ELSE "register",
               !.port = IF run[d].tries > 1 THEN "none" ELSE "ephemeral"])
  /\ UNCHANGED <<port, roster, files, cli, budget>>

\* A pause passes for all that wait, and the kernel gets on with a dead socket.
Pause ==
  /\ \E d \in Daemons : Is(d, "pause")
  /\ run' = [d \in Daemons |-> IF Is(d, "pause") THEN [run[d] EXCEPT !.pc = "bind"]
                                                ELSE run[d]]
  /\ port' = IF port.holder # "dead" THEN port
             ELSE IF port.pauses = 1 THEN Free ELSE [port EXCEPT !.pauses = @ - 1]
  /\ UNCHANGED <<roster, files, cli, budget>>

Reclaimed ==
  /\ port.holder = "dead" /\ port' = Free
  /\ UNCHANGED <<run, roster, files, cli, budget>>

-----------------------------------------------------------------------------
(* Registration and what follows it in join_with_commands.                 *)

\* An id no state mentions is as good as new.
Mentioned(d) == {roster[d], lifeline[d], run[d].id, run[d].shared, cli.id, tmp.id, status.id}
NewId(d) ==
  LET free == {n \in Serials : <<d, n>> \notin Mentioned(d)}
  IN <<d, CHOOSE n \in free : \A k \in free : n <= k>>

\* The coordinator knows a key it has in its roster again.
PeerId(d) == IF roster[d] # Nobody THEN roster[d] ELSE NewId(d)

\* write_lifeline_status, on a joiner that is to record itself.
Lifeline(d) == IF run[d].args.status_file THEN PeerId(d) ELSE lifeline[d]

\* What runs once the joiner is there: its tasks, and the first status write.
Joined(d) ==
  [run[d] EXCEPT !.pc = "first", !.refresh = "due", !.id = PeerId(d), !.shared = PeerId(d),
                 !.tasks = BackgroundTasks(Config(run[d].args))]

\* The command ends where a step fails: at the registration, at what follows it (identity,
\* TUN, address, host integration), or at the lifeline file.  The peer then stays in the
\* roster until it is evicted, and the socket of a process that ends is reclaimed.
Join(d, step) ==
  /\ Is(d, "register") /\ Works(step = "done")
  /\ step = "lifeline" => run[d].args.status_file
  /\ roster' = [roster EXCEPT ![d] = IF step = "register" THEN @ ELSE PeerId(d)]
  /\ \/ /\ step = "done" /\ Set(d, Joined(d)) /\ UNCHANGED port
        /\ lifeline' = [lifeline EXCEPT ![d] = Lifeline(d)]
     \/ step # "done" /\ Ends(d, "off") /\ UNCHANGED lifeline
  /\ UNCHANGED <<tmp, status, cli>>

-----------------------------------------------------------------------------
(* status_file: write_to, read_from, remove.                               *)

\* A write that ended: the first one lets the refresh loop start.
Written(r) == [r EXCEPT !.refresh = "idle", !.file = "none",
                        !.pc = IF @ = "first" THEN "up" ELSE @]

\* Variant: the refresh loop stops when a write fails.
FailedLast(r) == [Written(r) EXCEPT !.refresh = "stopped"]

\* A failed write is logged.
Failed(r) == Written(r)

\* fs::write opens the temporary file, truncating the one that is there.
OpenTemp(d, ok) ==
  /\ run[d].refresh = "due" /\ Works(ok)
  /\ \/ /\ ok /\ tmp' = Blank
        /\ Set(d, [run[d] EXCEPT !.refresh = "open", !.file = "tmp"])
     \/ ~ok /\ Set(d, Failed(run[d])) /\ UNCHANGED tmp
  /\ UNCHANGED <<port, roster, status, lifeline, cli>>

\* Then it writes the snapshot, over what another writer of the same file has put there:
\* the tail of a longer one stays.  my_peer_id is the id of the first registration.
Texts(d, old, ok) ==
  IF ~ok THEN {Garbled} ELSE IF old = Blank THEN {Snapshot(d)} ELSE {Snapshot(d), Garbled}

WriteText(d, ok) ==
  /\ run[d].refresh = "open" /\ Works(ok)
  /\ \/ /\ run[d].file = "tmp"
        /\ tmp' \in Texts(d, tmp, ok) /\ UNCHANGED status
     \/ /\ run[d].file = "status"
        /\ status' \in Texts(d, status, ok) /\ UNCHANGED tmp
     \/ run[d].file = "unlinked" /\ UNCHANGED <<tmp, status>>
  /\ Set(d, IF ok THEN [run[d] EXCEPT !.refresh = "written"] ELSE Failed(run[d]))
  /\ UNCHANGED <<port, roster, lifeline, cli>>

\* What an open file is called once status.json leads elsewhere.
Elsewhere(file) == IF file = "status" THEN "unlinked" ELSE file
Renamed(file) == IF file = "tmp" THEN "status" ELSE Elsewhere(file)

\* The rename fails when another writer has renamed the temporary file already.
RenameTemp(d) ==
  /\ run[d].refresh = "written"
  /\ \/ /\ tmp # Missing /\ status' = tmp /\ tmp' = Missing
        /\ run' = [e \in Daemons |-> IF e = d THEN Written(run[d])
                                     ELSE [run[e] EXCEPT !.file = Renamed(@)]]
     \/ tmp = Missing /\ Set(d, Failed(run[d])) /\ UNCHANGED <<tmp, status>>
  /\ UNCHANGED <<port, roster, lifeline, cli, budget>>

\* The tick of the refresh loop, while the joiner is not taken out.
Refresh(d) ==
  /\ Is(d, "up") /\ run[d].refresh = "idle"
  /\ Set(d, [run[d] EXCEPT !.refresh = "due"])
  /\ UNCHANGED <<port, roster, files, cli, budget>>

-----------------------------------------------------------------------------
(* The heartbeat's 404 recovery, and the coordinator forgetting a peer.    *)

\* A peer that sends heartbeats is only lost with the roster, or by a `leave`.
Forget(d) ==
  /\ roster[d] # Nobody /\ (run[d].tasks # {} => budget.faults > 0)
  /\ budget' = IF run[d].tasks = {} THEN budget ELSE [budget EXCEPT !.faults = @ - 1]
  /\ roster' = [roster EXCEPT ![d] = Nobody]
  /\ UNCHANGED <<run, port, files, cli>>

Reregister(d) ==
  /\ "heartbeat" \in run[d].tasks /\ run[d].shared # roster[d]
  /\ Set(d, [run[d] EXCEPT !.shared = PeerId(d)])
  /\ roster' = [roster EXCEPT ![d] = PeerId(d)]
  /\ UNCHANGED <<port, files, cli, budget>>

-----------------------------------------------------------------------------
(* Ctrl-C, `tabbify-mesh leave`, and a kill.                               *)

CtrlC(d) ==
  /\ Is(d, "up") /\ To(d, "await")
  /\ UNCHANGED <<port, roster, files, cli, budget>>

\* Variant: the handle is aborted and not awaited.
AbortRefresh(d) ==
  /\ Is(d, "await") /\ To(d, "deregister")
  /\ UNCHANGED <<port, roster, files, cli, budget>>

\* abort and await: a write that has begun runs to its end.
AwaitRefresh(d) ==
  /\ Is(d, "await") /\ run[d].refresh = "idle" /\ To(d, "deregister")
  /\ UNCHANGED <<port, roster, files, cli, budget>>

\* leave tells the coordinator first (a failure is logged) and then stops the tasks.
Without(id) == [d \in Daemons |-> IF roster[d] = id THEN Nobody ELSE roster[d]]

Deregister(d, ok) ==
  /\ Is(d, "deregister") /\ Works(ok) /\ To(d, "remove")
  /\ roster' = IF ok THEN Without(run[d].shared) ELSE roster
  /\ UNCHANGED <<port, files, cli>>

Unlinked(r) == [r EXCEPT !.file = Elsewhere(@)]
Unlink == status' = Missing /\ UNCHANGED <<tmp, lifeline>>

RemoveStatus(d) ==
  /\ Is(d, "remove") /\ Unlink
  /\ run' = [e \in Daemons |->
       IF e = d THEN [Unlinked(run[d]) EXCEPT !.pc = "exit", !.tasks = {}]
                ELSE Unlinked(run[e])]
  /\ UNCHANGED <<port, roster, cli, budget>>

EndOfRun(d) ==
  /\ Is(d, "exit") /\ Closing(d)
  /\ Set(d, [Off EXCEPT !.pc = "left", !.id = run[d].id, !.pid = run[d].pid])
  /\ UNCHANGED <<roster, files, cli, budget>>

KillDaemon(d) ==
  /\ run[d].pc \notin {"off", "left", "killed"} /\ Spent("faults") /\ Ends(d, "killed")
  /\ UNCHANGED <<roster, files, cli>>

\* The `leave` command: the id of the status file, unless it does not parse.
LeaveRead ==
  /\ cli.pc = "idle" /\ status.kind = "snapshot" /\ Spent("faults")
  /\ cli' = [pc |-> "deregister", id |-> status.id]
  /\ UNCHANGED <<run, port, roster, files>>

LeaveDeregister(ok) ==
  /\ cli.pc = "deregister" /\ Works(ok)
  /\ cli' = [pc |-> IF ok THEN "remove" ELSE "idle", id |-> Nobody]
  /\ roster' = IF ok THEN Without(cli.id) ELSE roster
  /\ UNCHANGED <<run, port, files>>

LeaveRemove ==
  /\ cli.pc = "remove" /\ Unlink /\ cli' = [pc |-> "idle", id |-> Nobody]
  /\ run' = [d \in Daemons |-> Unlinked(run[d])]
  /\ UNCHANGED <<port, roster, budget>>

\* The refresh loop's own steps (and those of the first write).
RefreshStep(d) ==
  Refresh(d) \/ RenameTemp(d) \/ \E ok \in BOOLEAN : OpenTemp(d, ok) \/ WriteText(d, ok)

DaemonStep(d) ==
  \/ BindPreferred(d) \/ BindBusy(d)
  \/ \E step \in {"register", "setup", "lifeline", "done"} : Join(d, step)
  \/ RefreshStep(d) \/ Reregister(d) \/ \E ok \in BOOLEAN : Deregister(d, ok)
  \/ AwaitRefresh(d) \/ RemoveStatus(d) \/ EndOfRun(d)

LeaveStep == LeaveRemove \/ \E ok \in BOOLEAN : LeaveDeregister(ok)

DaemonNext ==
  \/ \E d \in Daemons : \/ DaemonStep(d) \/ CtrlC(d) \/ KillDaemon(d)
                        \/ Forget(d) \/ \E a \in JoinArgs : JoinRun(d, a)
  \/ Pause \/ Reclaimed \/ LeaveRead \/ LeaveStep

\* The runtime keeps polling the refresh task of a running process, and a `leave` command
\* that has begun goes on.
DaemonFairness == (\A d \in Daemons : WF_dvars(RefreshStep(d))) /\ WF_dvars(LeaveStep)

DaemonSpec == DaemonInit /\ [][DaemonNext]_dvars /\ DaemonFairness

-----------------------------------------------------------------------------
(* Properties.                                                             *)

Up(d) == Is(d, "up")
Ended(d) == run[d].pc \in {"off", "left", "killed"}

\* A process that has left through Ctrl-C is not in the status file, whatever its refresh
\* loop and the daemons that share the file were doing, and whatever was killed (join's
\* abort and await come before its remove).
LeavesNoStatus ==
  \A d \in Daemons : Is(d, "left") => status # Snapshot(d)

\* A joiner gives up its configured port only to a joiner that really held it while it
\* tried: a predecessor that has just exited never costs the stable port
\* (bind_udp_with_fallback).
StablePort == \A d \in Daemons : run[d].port = "ephemeral" => run[d].met

\* The daemon that stays up alone ends up in the status file for good, after whatever
\* failed writes, torn files and removals by others (the refresh loop goes on after a
\* failure).
StatusSettles ==
  \A d \in Daemons :
    <>[](Up(d) /\ \A e \in Daemons \ {d} : Ended(e))
      => <>[](status = Snapshot(d))
=============================================================================
