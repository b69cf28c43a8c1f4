------------------------------- MODULE Fabric -------------------------------
(***************************************************************************)
(* What every MeshFabric has: the local endpoints of a node, the routes to *)
(* the endpoints of others, and the part of `send` that looks at both.     *)
(* InProcessFabric is this alone, with no routes; LoopbackFabric and       *)
(* WireGuardFabric add how a message reaches the node of a route.          *)
(***************************************************************************)
EXTENDS Naturals

CONSTANTS
  Nodes,    \* the nodes, each with a fabric of its own
  Ulas,     \* endpoint addresses
  Msgs,     \* messages, each sent by one call of `send`
  None,
  MaxOps    \* bound: registrations, routes, peers, restarts and other upsets

VARIABLES
  endpoints,      \* node -> address -> "none", "live", or "dead": receiver dropped
  remote_routes,  \* node -> address -> node of the route, or None
  call,           \* message -> the call that sends it
  inbox,          \* message -> number of times an endpoint has received it
  ops             \* what is left of MaxOps

fabric == <<endpoints, remote_routes, call, inbox, ops>>

\* The call that node `at` will make.
Idle(at) == [pc |-> "idle", at |-> at, dst |-> None, node |-> None, addr |-> None,
             conn |-> None, retry |-> FALSE]

Operate == ops > 0 /\ ops' = ops - 1

\* The tables have been filled in any way, and no call made.
FabricInit ==
  /\ endpoints \in [Nodes -> [Ulas -> {"none", "live"}]]
  /\ remote_routes \in [Nodes -> [Ulas -> Nodes \cup {None}]]
  /\ call \in [Msgs -> {Idle(n) : n \in Nodes}]
  /\ inbox = [m \in Msgs |-> 0]
  /\ ops \in 0..MaxOps

\* register_local replaces an earlier registration.
RegisterLocal(n, u) ==
  /\ Operate /\ endpoints[n][u] # "live"
  /\ endpoints' = [endpoints EXCEPT ![n][u] = "live"]
  /\ UNCHANGED <<remote_routes, call, inbox>>

UnregisterLocal(n, u) ==
  /\ Operate /\ endpoints[n][u] # "none"
  /\ endpoints' = [endpoints EXCEPT ![n][u] = "none"]
  /\ UNCHANGED <<remote_routes, call, inbox>>

\* The application drops the receiver and leaves the registration.
DropReceiver(n, u) ==
  /\ Operate /\ endpoints[n][u] = "live"
  /\ endpoints' = [endpoints EXCEPT ![n][u] = "dead"]
  /\ UNCHANGED <<remote_routes, call, inbox>>

AddRemoteRoute(n, u, o) ==
  /\ Operate /\ remote_routes[n][u] # o
  /\ remote_routes' = [remote_routes EXCEPT ![n][u] = o]
  /\ UNCHANGED <<endpoints, call, inbox>>

RemoveRemoteRoute(n, u) ==
  /\ Operate /\ remote_routes[n][u] # None
  /\ remote_routes' = [remote_routes EXCEPT ![n][u] = None]
  /\ UNCHANGED <<endpoints, call, inbox>>

\* The channel of a registered endpoint takes the message while its receiver lives.
Offer(m, n, u) ==
  inbox' = IF endpoints[n][u] = "live" THEN [inbox EXCEPT ![m] = @ + 1] ELSE inbox

\* send: a local endpoint first, then a route, else NoRoute.
SendLocal(m, n, u) ==
  /\ call[m].pc = "idle" /\ call[m].at = n /\ endpoints[n][u] # "none"
  /\ Offer(m, n, u)
  /\ call' = [call EXCEPT ![m].dst = u,
                ![m].pc = IF endpoints[n][u] = "live" THEN "Ok" ELSE "Transport"]
  /\ UNCHANGED <<endpoints, remote_routes, ops>>

SendNoRoute(m, n, u) ==
  /\ call[m].pc = "idle" /\ call[m].at = n
  /\ endpoints[n][u] = "none" /\ remote_routes[n][u] = None
  /\ call' = [call EXCEPT ![m].dst = u, ![m].pc = "NoRoute"]
  /\ UNCHANGED <<endpoints, remote_routes, inbox, ops>>

\* A remote destination is handed to the fabric's send_remote.
SendRouted(m, n, u) ==
  /\ call[m].pc = "idle" /\ call[m].at = n
  /\ endpoints[n][u] = "none" /\ remote_routes[n][u] # None
  /\ call' = [call EXCEPT ![m].dst = u, ![m].pc = "remote", ![m].node = remote_routes[n][u]]
  /\ UNCHANGED <<endpoints, remote_routes, inbox, ops>>

Returned(m) == call[m].pc \in {"Ok", "Transport", "NoRoute"}

FabricNext ==
  \E n \in Nodes, u \in Ulas :
    \/ RegisterLocal(n, u) \/ UnregisterLocal(n, u) \/ DropReceiver(n, u)
    \/ RemoveRemoteRoute(n, u) \/ \E o \in Nodes \ {n} : AddRemoteRoute(n, u, o)
    \/ \E m \in Msgs : SendLocal(m, n, u) \/ SendNoRoute(m, n, u) \/ SendRouted(m, n, u)
=============================================================================
