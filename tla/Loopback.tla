------------------------------ MODULE Loopback ------------------------------
(***************************************************************************)
(* LoopbackFabric: a route is followed over a TCP connection to the        *)
(* address of the peer, from a pool with one connection per peer.  The     *)
(* locks of the pool are held for one look or one change at a time, so     *)
(* calls and add_peer interleave between them.                             *)
(*                                                                         *)
(* A connection is named after the call, and the attempt of the call, that *)
(* opened it.  The frames on a connection are a set: their order and their *)
(* encoding make no difference to what is stated.                          *)
(***************************************************************************)
EXTENDS Fabric

CONSTANT Addrs   \* socket addresses a fabric can be bound to

VARIABLES
  bound,        \* address -> the node listening there, or None
  peers,        \* node -> node -> address, or None
  connections,  \* node -> node -> pooled connection, or None
  drops,        \* <<node, peer>>: removals from the pool spawned and not yet run
  stream,       \* connection -> its remote address, its state and the frames on it
  raced         \* ghost: calls that read a peer's address before it last changed

pool == <<peers, connections, drops, stream, raced>>
lvars == <<fabric, bound, pool>>

Conns == Msgs \X BOOLEAN

Unused == [addr |-> None, state |-> "unused", wire |-> {}]

LoopbackInit ==
  /\ FabricInit
  /\ bound \in [Addrs -> Nodes \cup {None}]
  /\ peers \in [Nodes -> [Nodes -> Addrs \cup {None}]]
  /\ connections = [n \in Nodes |-> [o \in Nodes |-> None]]
  /\ drops = {}
  /\ stream = [c \in Conns |-> Unused]
  /\ raced = {}

\* The process of a receiving node ends, or is started again at the address it had or at
\* another: its listener and its connections close, what was on them is lost, and its
\* endpoints are gone.
Exit(n, a, next) ==
  /\ Operate /\ bound[a] = n
  /\ next # None => next = a \/ bound[next] = None
  /\ bound' = [b \in Addrs |-> IF b = next THEN n ELSE IF b = a THEN None ELSE bound[b]]
  /\ endpoints' = [endpoints EXCEPT ![n] = [u \in Ulas |-> "none"]]
  /\ stream' = [c \in Conns |-> IF stream[c].addr = a /\ stream[c].state = "open"
                                  THEN [stream[c] EXCEPT !.state = "closed", !.wire = {}]
                                  ELSE stream[c]]
  /\ UNCHANGED <<remote_routes, call, inbox, peers, connections, drops, raced>>

\* bind: the accept loop listens.
Bind(n, a) ==
  /\ Operate /\ bound[a] = None /\ \A b \in Addrs : bound[b] # n
  /\ bound' = [bound EXCEPT ![a] = n]
  /\ UNCHANGED <<endpoints, remote_routes, call, inbox, pool>>

\* The calls of node n to peer o that have read the address of o and not yet returned.
Calling(n, o) ==
  {m \in Msgs : call[m].at = n /\ call[m].node = o /\ ~Returned(m) /\ call[m].pc # "remote"}

\* Variant: the cached connection of a peer that moved is kept.
AddPeerKeep(n, o, a) ==
  /\ Operate /\ peers[n][o] # a
  /\ peers' = [peers EXCEPT ![n][o] = a]
  /\ raced' = raced \cup Calling(n, o)
  /\ UNCHANGED <<endpoints, remote_routes, call, inbox, bound, connections, drops, stream>>

\* add_peer replaces the address and spawns the removal of the pooled connection.
AddPeer(n, o, a) ==
  /\ Operate /\ peers[n][o] # a
  /\ peers' = [peers EXCEPT ![n][o] = a]
  /\ drops' = drops \cup {<<n, o>>}
  /\ raced' = raced \cup Calling(n, o)
  /\ UNCHANGED <<endpoints, remote_routes, call, inbox, bound, connections, stream>>

RemovePeer(n, o) ==
  /\ Operate /\ peers[n][o] # None
  /\ peers' = [peers EXCEPT ![n][o] = None]
  /\ drops' = drops \cup {<<n, o>>}
  /\ raced' = raced \cup Calling(n, o)
  /\ UNCHANGED <<endpoints, remote_routes, call, inbox, bound, connections, stream>>

\* drop_connection, and the spawned removal: whatever is in the pool for the peer goes.
Unpool(n, o) == connections' = [connections EXCEPT ![n][o] = None]

SpawnedDrop(n, o) ==
  /\ <<n, o>> \in drops
  /\ drops' = drops \ {<<n, o>>}
  /\ Unpool(n, o)
  /\ UNCHANGED <<fabric, bound, peers, stream, raced>>

-----------------------------------------------------------------------------
(* One call: send_remote, with get_or_open_connection in it twice.         *)

Step(m, c) == call' = [call EXCEPT ![m] = c]
Pooled(m) == connections[call[m].at][call[m].node]

\* The address is read once, for both attempts.
SendRemote(m) ==
  /\ call[m].pc = "remote"
  /\ LET a == peers[call[m].at][call[m].node] IN
     Step(m, [call[m] EXCEPT !.pc = IF a = None THEN "Transport" ELSE "lookup", !.addr = a])
  /\ UNCHANGED <<endpoints, remote_routes, inbox, ops, bound, pool>>

\* get_or_open_connection: a pooled connection is used as it is.
Lookup(m) ==
  /\ call[m].pc = "lookup"
  /\ Step(m, IF Pooled(m) # None THEN [call[m] EXCEPT !.pc = "write", !.conn = Pooled(m)]
                                 ELSE [call[m] EXCEPT !.pc = "connect"])
  /\ UNCHANGED <<endpoints, remote_routes, inbox, ops, bound, pool>>

Connect(m) ==
  /\ call[m].pc = "connect"
  /\ LET c == <<m, call[m].retry>> IN
     IF bound[call[m].addr] = None
       THEN Step(m, [call[m] EXCEPT !.pc = "Transport"]) /\ UNCHANGED stream
       ELSE /\ Step(m, [call[m] EXCEPT !.pc = "insert", !.conn = c])
            /\ stream' = [stream EXCEPT ![c] =
                            [addr |-> call[m].addr, state |-> "open", wire |-> {}]]
  /\ UNCHANGED <<endpoints, remote_routes, inbox, ops, bound, peers, connections, drops,
                 raced>>

\* Another call may have pooled one meanwhile, and then that one is preferred.
Insert(m) ==
  /\ call[m].pc = "insert"
  /\ IF Pooled(m) # None
       THEN /\ Step(m, [call[m] EXCEPT !.pc = "write", !.conn = Pooled(m)])
            /\ stream' = [stream EXCEPT ![call[m].conn].state = "closed"]
            /\ UNCHANGED connections
       ELSE /\ Step(m, [call[m] EXCEPT !.pc = "write"])
            /\ connections' = [connections EXCEPT ![call[m].at][call[m].node] =
                                                     call[m].conn]
            /\ UNCHANGED stream
  /\ UNCHANGED <<endpoints, remote_routes, inbox, ops, bound, peers, drops, raced>>

\* What a write leads to: one retry after the first that fails.
Wrote(m, ok) ==
  CASE ok -> "Ok" [] ~ok /\ call[m].retry -> "Transport" [] OTHER -> "drop"

\* Variant: a write that fails may have reached the peer whole.
WriteBuffered(m) ==
  /\ call[m].pc = "write"
  /\ \E whole \in BOOLEAN, ok \in BOOLEAN :
       /\ stream' = IF whole /\ stream[call[m].conn].state = "open"
                      THEN [stream EXCEPT ![call[m].conn].wire = @ \cup {m}] ELSE stream
       /\ Step(m, [call[m] EXCEPT !.pc = Wrote(m, ok)])
  /\ UNCHANGED <<endpoints, remote_routes, inbox, ops, bound, peers, connections, drops,
                 raced>>

\* write_all.  On a connection the peer has closed, the kernel may still take the frame and
\* lose it.  A write that fails has put part of a frame on the connection, never all of it.
Write(m) ==
  /\ call[m].pc = "write"
  /\ LET open == stream[call[m].conn].state = "open" IN
     \E ok \in BOOLEAN :
       /\ open => ok
       /\ stream' = IF open THEN [stream EXCEPT ![call[m].conn].wire = @ \cup {m}]
                            ELSE stream
       /\ Step(m, [call[m] EXCEPT !.pc = Wrote(m, ok)])
  /\ UNCHANGED <<endpoints, remote_routes, inbox, ops, bound, peers, connections, drops,
                 raced>>

\* The first write failed: the pool forgets the peer's connection, and the call tries again.
DropConnection(m) ==
  /\ call[m].pc = "drop"
  /\ Unpool(call[m].at, call[m].node)
  /\ Step(m, [call[m] EXCEPT !.pc = "lookup", !.retry = TRUE])
  /\ UNCHANGED <<endpoints, remote_routes, inbox, ops, bound, peers, drops, stream, raced>>

\* handle_connection at the other end: a frame for an unknown address is dropped.
HandleConnection(c, m) ==
  /\ m \in stream[c].wire
  /\ stream' = [stream EXCEPT ![c].wire = @ \ {m}]
  /\ Offer(m, bound[stream[c].addr], call[m].dst)
  /\ UNCHANGED <<endpoints, remote_routes, call, ops, bound, peers, connections, drops,
                 raced>>

Local == FabricNext /\ UNCHANGED <<bound, pool>>

LoopbackNext ==
  \/ Local
  \/ \E n \in Nodes, a \in Addrs :
       Bind(n, a) \/ \E b \in Addrs \cup {None} : Exit(n, a, b)
  \/ \E n \in Nodes : \E o \in Nodes \ {n} :
       \/ RemovePeer(n, o) \/ SpawnedDrop(n, o) \/ \E a \in Addrs : AddPeer(n, o, a)
  \/ \E m \in Msgs : \/ SendRemote(m) \/ Lookup(m) \/ Connect(m) \/ Insert(m) \/ Write(m)
                     \/ DropConnection(m)
                     \/ \E c \in Conns : HandleConnection(c, m)

LoopbackSpec == LoopbackInit /\ [][LoopbackNext]_lvars

-----------------------------------------------------------------------------
(* Properties.                                                             *)

\* The retry of send_remote never makes a second copy: a message is received at most once,
\* is on at most one connection and then not received yet, and a call that has not returned
\* Ok, or has returned an error, has put no copy of it anywhere.
SentOnce ==
  \A m \in Msgs :
    /\ inbox[m] <= 1
    /\ \A c \in Conns : m \in stream[c].wire =>
         call[m].pc = "Ok" /\ inbox[m] = 0 /\ \A d \in Conns : m \in stream[d].wire => d = c
    /\ inbox[m] = 1 => call[m].pc = "Ok"

\* add_peer drops the cached connection because "the peer may have moved": once the removal
\* it spawned has run, a pooled connection leads to the address the peer has now, unless a
\* call that had read the earlier address opened it.
PoolFollowsPeer ==
  \A n, o \in Nodes :
    LET c == connections[n][o] IN
    c # None /\ <<n, o>> \notin drops => stream[c].addr = peers[n][o] \/ c[1] \in raced
=============================================================================
