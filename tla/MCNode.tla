------------------------------- MODULE MCNode -------------------------------
(***************************************************************************)
(* The parts of a node that share no state, so that a behaviour is one of  *)
(* a single part: a fabric over TCP (part "tcp"), a fabric over WireGuard  *)
(* (part "wg"), and the join daemons of a host (part "daemon").  The two   *)
(* fabrics know each other; over TCP, beta has an endpoint and alpha       *)
(* sends; over WireGuard both send, towards each other.                    *)
(***************************************************************************)
EXTENDS Loopback, WireGuard, Daemon

CONSTANTS alpha, beta, p, q, u, m1, m2, primary, secondary

VARIABLE part

MCNodes == {alpha, beta}

\* A joiner that takes commands and records itself, and one whose key has a typing error.
Args(admin) ==
  [no_relay |-> FALSE, insecure |-> TRUE, admin |-> admin, status_file |-> admin # "none"]
MCArgs == {Args("valid"), Args("malformed")}

tcp == <<bound, pool>>
wg == <<tunn, net, rx, made>>

MCInit ==
  /\ part \in {"tcp", "wg", "daemon"}
  /\ endpoints = [n \in Nodes |-> [x \in Ulas |-> 
                                IF part = "tcp" /\ n = beta THEN "live" ELSE "none"]]
  /\ remote_routes = [n \in Nodes |-> [x \in Ulas |-> 
       IF n = alpha THEN beta ELSE IF part = "wg" THEN alpha ELSE None]]
  /\ call = [m \in Msgs |-> Idle(IF part = "wg" /\ m = m2 THEN beta ELSE alpha)]
  /\ ops = MaxOps
  /\ bound = [a \in Addrs |-> IF a = p THEN beta ELSE None]
  /\ peers = [n \in Nodes |-> [o \in Nodes |-> IF n = alpha /\ o = beta THEN p ELSE None]]
  /\ tunn = [n \in Nodes |-> [o \in Nodes |-> IF n = o THEN None ELSE Fresh]]
  /\ LoopbackInit /\ WireGuardInit /\ DaemonInit

MCNext ==
  \/ part = "tcp" /\ LoopbackNext /\ UNCHANGED <<part, wg, dvars>>
  \/ part = "wg" /\ WireGuardNext /\ UNCHANGED <<part, tcp, dvars>>
  \/ part = "daemon" /\ DaemonNext /\ UNCHANGED <<part, fabric, tcp, wg>>

MCSpec ==
  /\ MCInit /\ [][MCNext]_<<fabric, tcp, wg, dvars, part>>
  /\ WireGuardFairness /\ DaemonFairness
=============================================================================
