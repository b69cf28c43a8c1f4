------------------------------ MODULE Topology -------------------------------
(***************************************************************************)
(* The machine graph that the coordinator serves: the paths that machines  *)
(* report in their heartbeats, one directed edge per peer, folded into one *)
(* undirected edge per pair of machines.                                   *)
(*                                                                         *)
(* The fold walks the machines in the order of their index, and a machine  *)
(* reports at most one edge to another, so a pair is folded from at most   *)
(* two edges.                                                              *)
(***************************************************************************)
EXTENDS Integers

CONSTANTS
  Peers,     \* the peers of the roster
  Index,     \* peer -> its index, which orders the walk
  Runners,   \* app-runners: by address, by tag or by kind
  Healthy,   \* peers whose last heartbeat calls their data plane healthy
  Paths,     \* peer -> peers it reports a path to -> PathEdge
  MaxCount,  \* u64::MAX
  Absent

Handshakes == [direct : BOOLEAN, age : Nat] \cup {Absent}
PathEdges == [direct : BOOLEAN, age : Nat, handshake : Handshakes, handshakes : 0..MaxCount]

\* is_machine.
Machines == Peers \ Runners

\* self_connectivity_aged, without the age.
Connectivity(p) ==
  IF p \notin Healthy THEN "dead"
  ELSE IF DOMAIN Paths[p] = {} THEN Absent
  ELSE IF \E t \in DOMAIN Paths[p] : Paths[p][t].direct THEN "direct" ELSE "relay"

\* snapshot_with_vantage for one peer and edge.
FromVantage(v, p) ==
  IF v = Absent THEN Connectivity(p)
  ELSE IF v \notin Peers THEN Absent
  ELSE IF p \notin DOMAIN Paths[v] THEN Absent
  ELSE IF Paths[v][p].direct THEN "direct" ELSE "relay"

Lower(a, b) == IF a < b THEN a ELSE b
SaturatingAdd(a, b) == IF a + b > MaxCount THEN MaxCount ELSE a + b

Fresher(acc, edge) ==
  /\ edge.handshake # Absent
  /\ acc.handshake # Absent => edge.handshake.age < acc.handshake.age

\* The and_modify step of the fold.
Merge(acc, edge) ==
  [direct |-> acc.direct \/ edge.direct,
   age |-> Lower(acc.age, edge.age),
   handshake |-> IF Fresher(acc, edge) THEN edge.handshake ELSE acc.handshake,
   handshakes |-> SaturatingAdd(acc.handshakes, edge.handshakes)]

Reported(a, b) == b \in DOMAIN Paths[a]

\* topology: the edge of a pair of machines, or Absent where neither reports one.
Edge(a, b) ==
  IF Reported(a, b) /\ Reported(b, a)
  THEN IF Index[a] < Index[b] THEN Merge(Paths[a][b], Paths[b][a])
       ELSE Merge(Paths[b][a], Paths[a][b])
  ELSE IF Reported(a, b) THEN Paths[a][b]
  ELSE IF Reported(b, a) THEN Paths[b][a]
  ELSE Absent
=============================================================================
