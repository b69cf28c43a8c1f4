----------------------------- MODULE NodeProofs -----------------------------
(***************************************************************************)
(* SentOnce and PoolFollowsPeer of module Loopback, for any nodes,         *)
(* addresses and messages and any number of operations; StablePort and     *)
(* LeavesNoStatus of module Daemon, for any daemons, flags and bounds.     *)
(***************************************************************************)
EXTENDS Loopback, Daemon, TLAPS

Calls == [pc : {"idle", "remote", "lookup", "connect", "insert", "write", "drop",
                "Ok", "Transport", "NoRoute"},
          at : Nodes, dst : Ulas \cup {None}, node : Nodes \cup {None},
          addr : Addrs \cup {None}, conn : Conns \cup {None}, retry : BOOLEAN]

Streams == [addr : Addrs \cup {None}, state : {"unused", "open", "closed"},
            wire : SUBSET Msgs]

Active == {"lookup", "connect", "insert", "write", "drop"}

\* The types the argument needs; a call on its way to a peer has one.
Typed ==
  /\ call \in [Msgs -> Calls]
  /\ inbox \in [Msgs -> Nat]
  /\ stream \in [Conns -> Streams]
  /\ \A m \in Msgs : call[m].pc \in Active \cup {"remote"} => call[m].node \in Nodes

TypedTables ==
  /\ peers \in [Nodes -> [Nodes -> Addrs \cup {None}]]
  /\ connections \in [Nodes -> [Nodes -> Conns \cup {None}]]
  /\ remote_routes \in [Nodes -> [Ulas -> Nodes \cup {None}]]

\* A call between its first look at the pool and its return uses the address the peer has
\* now, or is known to have been overtaken by a change.
ReadsNow ==
  \A m \in Msgs : call[m].pc \in Active =>
    call[m].addr = peers[call[m].at][call[m].node] \/ m \in raced

\* A connection about to be pooled is the call's own, to the address the call read.
OwnConn ==
  \A m \in Msgs : call[m].pc = "insert" =>
    /\ call[m].conn = <<m, call[m].retry>>
    /\ stream[call[m].conn].addr = call[m].addr

\* A pooled connection was opened by a call of the node to the peer, to the address it read.
PooledBy ==
  \A n, o \in Nodes : connections[n][o] # None =>
    LET c == connections[n][o] IN
    /\ c \in Conns
    /\ call[c[1]].pc \notin {"idle", "remote"}
    /\ stream[c].addr = call[c[1]].addr

IInv ==
  Typed /\ TypedTables /\ SentOnce /\ ReadsNow /\ OwnConn /\ PooledBy /\ PoolFollowsPeer

-----------------------------------------------------------------------------
LEMMA InitHolds == LoopbackInit => IInv
<1> SUFFICES ASSUME LoopbackInit PROVE IInv
  BY Zenon
<1>1. Typed
  <2>1. \A n \in Nodes : Idle(n) \in Calls
    BY Zenon DEF Idle, Calls
  <2>2. call \in [Msgs -> Calls]
    BY <2>1 DEF LoopbackInit, FabricInit
  <2>3. Unused \in Streams
    BY Zenon DEF Unused, Streams
  <2>4. \A m \in Msgs : call[m].pc = "idle"
    BY DEF LoopbackInit, FabricInit, Idle
  <2> QED
    BY Zenon, <2>2, <2>3, <2>4 DEF LoopbackInit, FabricInit, Typed, Active
<1>2. TypedTables
  BY Zenon DEF LoopbackInit, FabricInit, TypedTables
<1>3. SentOnce
  BY DEF LoopbackInit, FabricInit, SentOnce, Unused, Conns
<1>4. ReadsNow /\ OwnConn
  <2>1. \A m \in Msgs : call[m].pc = "idle"
    BY DEF LoopbackInit, FabricInit, Idle
  <2> QED
    BY Zenon, <2>1 DEF ReadsNow, OwnConn, Active
<1>5. PooledBy /\ PoolFollowsPeer
  BY Zenon DEF LoopbackInit, FabricInit, PooledBy, PoolFollowsPeer
<1> QED
  BY Zenon, <1>1, <1>2, <1>3, <1>4, <1>5 DEF IInv
-----------------------------------------------------------------------------
(* What one call does to itself.                                           *)

\* A step of one call that touches neither a connection nor the pool.
LEMMA CallStep ==
  ASSUME IInv, NEW m \in Msgs, NEW c \in Calls, call' = [call EXCEPT ![m] = c],
         UNCHANGED <<inbox, stream, connections, peers, drops, raced, remote_routes>>,
         call[m].pc # "Ok", c.pc # "insert",
         c.pc \in Active \cup {"remote"} => c.node \in Nodes,
         c.pc \in Active => c.addr = peers[c.at][c.node] \/ m \in raced,
         call[m].pc \notin {"idle", "remote"} =>
           c.pc \notin {"idle", "remote"} /\ c.addr = call[m].addr
  PROVE  IInv'
<1> USE DEF IInv
<1>1. Typed' /\ TypedTables'
  BY Zenon DEF Typed, TypedTables
<1>2. \A k \in Msgs : call'[k] = IF k = m THEN c ELSE call[k]
  BY Zenon DEF Typed
<1>3. SentOnce'
  BY Zenon, <1>2 DEF SentOnce, Typed
<1>4. ReadsNow'
  BY <1>2 DEF ReadsNow
<1>5. OwnConn'
  BY <1>2 DEF OwnConn
<1>6. PooledBy'
  <2> SUFFICES ASSUME NEW n \in Nodes, NEW o \in Nodes, connections[n][o] # None
               PROVE  /\ connections[n][o] \in Conns
                      /\ call'[connections[n][o][1]].pc \notin {"idle", "remote"}
                      /\ stream[connections[n][o]].addr = call'[connections[n][o][1]].addr
    BY DEF PooledBy
  <2>1. connections[n][o] \in Conns /\ connections[n][o][1] \in Msgs
    BY Zenon DEF PooledBy, Conns
  <2> QED
    BY <1>2, <2>1 DEF PooledBy
<1>7. PoolFollowsPeer'
  BY Zenon DEF PoolFollowsPeer
<1> QED
  BY Zenon, <1>1, <1>3, <1>4, <1>5, <1>6, <1>7

\* A step that touches no call, no connection and no peer.
LEMMA TableStep ==
  ASSUME IInv, UNCHANGED <<call, inbox, stream, connections, peers, drops, raced>>,
         remote_routes' \in [Nodes -> [Ulas -> Nodes \cup {None}]]
  PROVE  IInv'
  BY DEF IInv, Typed, TypedTables, SentOnce, ReadsNow, OwnConn, PooledBy, PoolFollowsPeer

LEMMA LocalHolds == ASSUME IInv, Local PROVE IInv'
<1> PICK n \in Nodes, u \in Ulas :
      \/ RegisterLocal(n, u) \/ UnregisterLocal(n, u) \/ DropReceiver(n, u)
      \/ RemoveRemoteRoute(n, u) \/ \E o \in Nodes \ {n} : AddRemoteRoute(n, u, o)
      \/ \E m \in Msgs : SendLocal(m, n, u) \/ SendNoRoute(m, n, u) \/ SendRouted(m, n, u)
  BY Zenon DEF Local, FabricNext
<1> UNCHANGED <<bound, peers, connections, drops, stream, raced>>
  BY Zenon DEF Local, pool
<1>r. remote_routes \in [Nodes -> [Ulas -> Nodes \cup {None}]]
  BY Zenon DEF IInv, TypedTables
<1>1. CASE RegisterLocal(n, u) \/ UnregisterLocal(n, u) \/ DropReceiver(n, u)
  BY Zenon, <1>1, <1>r, TableStep DEF RegisterLocal, UnregisterLocal, DropReceiver
<1>2. CASE RemoveRemoteRoute(n, u) \/ \E o \in Nodes \ {n} : AddRemoteRoute(n, u, o)
  <2>1. remote_routes' \in [Nodes -> [Ulas -> Nodes \cup {None}]]
    BY <1>2, <1>r DEF RemoveRemoteRoute, AddRemoteRoute
  <2> QED
    BY Zenon, <1>2, <2>1, TableStep DEF RemoveRemoteRoute, AddRemoteRoute
<1>3. ASSUME NEW m \in Msgs, SendNoRoute(m, n, u) \/ SendRouted(m, n, u) PROVE IInv'
  <2>t. call[m] \in Calls /\ call \in [Msgs -> Calls] /\ call[m].pc = "idle"
    BY Zenon, <1>3 DEF IInv, Typed, SendNoRoute, SendRouted
  <2>1. CASE SendNoRoute(m, n, u)
    <3> DEFINE d == [call[m] EXCEPT !.dst = u, !.pc = "NoRoute"]
    <3>1. d \in Calls /\ d.pc = "NoRoute"
      BY Zenon, <2>t DEF Calls
    <3>2. call' = [call EXCEPT ![m] = d]
      BY Zenon, <2>t, <2>1 DEF SendNoRoute, Calls
    <3> QED
      BY Zenon, <2>t, <2>1, <3>1, <3>2, CallStep DEF SendNoRoute, Active
  <2>2. CASE SendRouted(m, n, u)
    <3> DEFINE d == [call[m] EXCEPT !.dst = u, !.pc = "remote", !.node = remote_routes[n][u]]
    <3>a. remote_routes[n][u] \in Nodes \cup {None}
      BY Zenon, <1>r
    <3>0. remote_routes[n][u] \in Nodes
      BY Zenon, <2>2, <3>a DEF SendRouted
    <3>1. d \in Calls /\ d.pc = "remote" /\ d.node \in Nodes
      BY Zenon, <2>t, <3>0 DEF Calls
    <3>2. call' = [call EXCEPT ![m] = d]
      BY Zenon, <2>t, <2>2 DEF SendRouted, Calls
    <3> QED
      BY Zenon, <2>t, <2>2, <3>1, <3>2, CallStep DEF SendRouted, Active
  <2> QED
    BY Zenon, <1>3, <2>1, <2>2
<1>4. ASSUME NEW m \in Msgs, SendLocal(m, n, u) PROVE IInv'
  <2> DEFINE d == [call[m] EXCEPT !.dst = u,
                     !.pc = IF endpoints[n][u] = "live" THEN "Ok" ELSE "Transport"]
  <2>t. call[m] \in Calls /\ call \in [Msgs -> Calls] /\ call[m].pc = "idle"
    BY Zenon, <1>4 DEF IInv, Typed, SendLocal
  <2>1. d \in Calls /\ d.pc \in {"Ok", "Transport"} /\ (d.pc = "Ok" <=> endpoints[n][u] = "live")
    BY Zenon, <2>t DEF Calls
  <2>2. call' = [call EXCEPT ![m] = d]
    BY Zenon, <2>t, <1>4 DEF SendLocal, Calls
  <2>3. inbox[m] = 0 /\ \A c \in Conns : m \notin stream[c].wire
    BY <2>t DEF IInv, SentOnce, Typed
  <2>4. \A k \in Msgs : /\ call'[k] = IF k = m THEN d ELSE call[k]
                        /\ inbox'[k] = IF k = m /\ d.pc = "Ok" THEN 1 ELSE inbox[k]
    BY <2>t, <2>1, <2>2, <2>3, <1>4 DEF SendLocal, Offer, IInv, Typed
  <2>5. Typed' /\ TypedTables'
    <3>1. call' \in [Msgs -> Calls] /\ inbox' \in [Msgs -> Nat] /\ stream' \in [Conns -> Streams]
      BY <2>1, <2>2, <1>4 DEF SendLocal, Offer, IInv, Typed
    <3> QED
      BY Zenon, <2>1, <2>4, <3>1, <1>4 DEF SendLocal, IInv, Typed, TypedTables, Active
  <2>6. SentOnce'
    <3> SUFFICES ASSUME NEW k \in Msgs
                 PROVE  /\ inbox'[k] <= 1
                        /\ \A c \in Conns : k \in stream[c].wire =>
                             /\ call'[k].pc = "Ok" /\ inbox'[k] = 0
                             /\ \A e \in Conns : k \in stream[e].wire => e = c
                        /\ inbox'[k] = 1 => call'[k].pc = "Ok"
      BY Zenon DEF SentOnce
    <3>a. inbox'[m] = IF endpoints[n][u] = "live" THEN 1 ELSE 0
      BY Zenon, <2>1, <2>3, <2>4
    <3>b. endpoints[n][u] = "live" => call'[m].pc = "Ok"
      BY Zenon, <2>1, <2>4
    <3>0. inbox'[m] \in {0, 1} /\ (inbox'[m] = 1 => call'[m].pc = "Ok")
      BY <3>a, <3>b
    <3>1. CASE k = m
      BY <2>3, <3>0, <3>1
    <3>2. CASE k # m
      BY Zenon, <2>4, <3>2 DEF IInv, SentOnce
    <3> QED
      BY Zenon, <3>1, <3>2
  <2> HIDE DEF d
  <2>7. ReadsNow' /\ OwnConn'
    <3>0. UNCHANGED <<peers, raced, stream>>
      BY Zenon, <1>4 DEF Local, pool
    <3>1. ReadsNow'
      BY Zenon, <2>1, <2>4, <3>0 DEF IInv, ReadsNow, Active
    <3>2. OwnConn'
      BY Zenon, <2>1, <2>4, <3>0 DEF IInv, OwnConn
    <3> QED
      BY Zenon, <3>1, <3>2
  <2>8. PooledBy'
    BY <2>1, <2>4, <2>t DEF IInv, PooledBy, Conns
  <2>9. PoolFollowsPeer'
    BY Zenon DEF IInv, PoolFollowsPeer
  <2> QED
    BY Zenon, <2>5, <2>6, <2>7, <2>8, <2>9 DEF IInv
<1> QED
  BY Zenon, <1>1, <1>2, <1>3, <1>4

\* The steps of send_remote that only move the call on.
LEMMA SendRemoteHolds ==
  ASSUME IInv, NEW m \in Msgs, SendRemote(m) \/ Lookup(m) PROVE IInv'
<1>t. call[m] \in Calls /\ call \in [Msgs -> Calls]
  BY Zenon DEF IInv, Typed
<1>1. CASE SendRemote(m)
  <2> DEFINE a == peers[call[m].at][call[m].node]
             d == [call[m] EXCEPT !.pc = IF a = None THEN "Transport" ELSE "lookup", !.addr = a]
  <2>1. call[m].pc = "remote" /\ call' = [call EXCEPT ![m] = d]
    BY Zenon, <1>1 DEF SendRemote, Step
  <2>2. a \in Addrs \cup {None} /\ call[m].node \in Nodes
    <3>1. call[m].at \in Nodes /\ call[m].node \in Nodes
      BY Zenon, <1>t, <2>1 DEF Calls, IInv, Typed
    <3> QED
      BY Zenon, <3>1 DEF IInv, TypedTables
  <2>3. /\ d \in Calls /\ d.pc \in {"Transport", "lookup"}
        /\ d.addr = peers[d.at][d.node] /\ d.node = call[m].node
    BY Zenon, <1>t, <2>2 DEF Calls
  <2> QED
    BY Zenon, <1>1, <2>1, <2>2, <2>3, CallStep DEF SendRemote, pool, Active
<1>2. CASE Lookup(m)
  <2> DEFINE d == IF Pooled(m) # None THEN [call[m] EXCEPT !.pc = "write", !.conn = Pooled(m)]
                                      ELSE [call[m] EXCEPT !.pc = "connect"]
  <2>1. call[m].pc = "lookup" /\ call' = [call EXCEPT ![m] = d]
    BY Zenon, <1>2 DEF Lookup, Step
  <2>2. (Pooled(m) # None => Pooled(m) \in Conns) /\ call[m].node \in Nodes
    <3>1. call[m].at \in Nodes /\ call[m].node \in Nodes
      BY Zenon, <1>t, <2>1 DEF Calls, IInv, Typed, Active
    <3> QED
      BY Zenon, <3>1 DEF IInv, PooledBy, Pooled
  <2>3. d \in Calls /\ d.pc \in {"write", "connect"}
    BY Zenon, <1>t, <2>2 DEF Calls
  <2>4. d.addr = call[m].addr /\ d.at = call[m].at /\ d.node = call[m].node
    BY Zenon, <1>t DEF Calls
  <2>5. d.addr = peers[d.at][d.node] \/ m \in raced
    BY Zenon, <2>1, <2>4 DEF IInv, ReadsNow, Active
  <2> QED
    BY Zenon, <1>2, <2>1, <2>2, <2>3, <2>4, <2>5, CallStep DEF Lookup, pool, Active
<1> QED
  BY Zenon, <1>1, <1>2

LEMMA ConnectHolds == ASSUME IInv, NEW m \in Msgs, Connect(m) PROVE IInv'
<1> DEFINE c == <<m, call[m].retry>>
<1>t. /\ call[m] \in Calls /\ call \in [Msgs -> Calls] /\ call[m].pc = "connect"
      /\ call[m].node \in Nodes /\ c \in Conns
  BY Zenon DEF IInv, Typed, Connect, Active, Calls, Conns
<1>1. CASE bound[call[m].addr] = None
  <2> DEFINE d == [call[m] EXCEPT !.pc = "Transport"]
  <2>1. d \in Calls /\ d.pc = "Transport" /\ d.addr = call[m].addr
    BY Zenon, <1>t DEF Calls
  <2>2. call' = [call EXCEPT ![m] = d] /\ stream' = stream
    BY Zenon, <1>1 DEF Connect, Step
  <2> QED
    BY Zenon, <1>t, <2>1, <2>2, CallStep DEF Connect, Active
<1>2. CASE bound[call[m].addr] # None
  <2> DEFINE d == [call[m] EXCEPT !.pc = "insert", !.conn = c]
             f == [addr |-> call[m].addr, state |-> "open", wire |-> {}]
  <2>1. /\ d \in Calls /\ d.pc = "insert" /\ d.conn = c /\ d.addr = call[m].addr
        /\ d.at = call[m].at /\ d.node = call[m].node /\ d.retry = call[m].retry
    BY Zenon, <1>t DEF Calls
  <2>2. f \in Streams /\ f.addr = call[m].addr /\ f.wire = {}
    BY Zenon, <1>t DEF Calls, Streams
  <2>3. call' = [call EXCEPT ![m] = d] /\ stream' = [stream EXCEPT ![c] = f]
    BY Zenon, <1>2 DEF Connect, Step
  <2>4. UNCHANGED <<inbox, connections, peers, drops, raced, remote_routes>>
    BY Zenon DEF Connect
  <2>5. \A k \in Msgs : call'[k] = IF k = m THEN d ELSE call[k]
    BY Zenon, <1>t, <2>3
  <2>6. \A e \in Conns : stream'[e] = IF e = c THEN f ELSE stream[e]
    BY Zenon, <1>t, <2>3 DEF IInv, Typed
  <2> HIDE DEF d, f, c
  <2>7. Typed' /\ TypedTables'
    <3>1. call' \in [Msgs -> Calls] /\ inbox' \in [Msgs -> Nat] /\ stream' \in [Conns -> Streams]
      BY Zenon, <2>1, <2>2, <2>3, <2>4 DEF IInv, Typed
    <3> QED
      BY Zenon, <1>t, <2>1, <2>4, <2>5, <3>1 DEF IInv, Typed, TypedTables
  <2>8. SentOnce'
    BY <1>t, <2>1, <2>2, <2>4, <2>5, <2>6 DEF IInv, SentOnce
  <2>9. ReadsNow'
    BY <1>t, <2>1, <2>4, <2>5 DEF IInv, ReadsNow, Active
  <2>10. OwnConn'
    <3> SUFFICES ASSUME NEW k \in Msgs, call'[k].pc = "insert"
                 PROVE  call'[k].conn = <<k, call'[k].retry>>
                        /\ stream'[call'[k].conn].addr = call'[k].addr
      BY Zenon DEF OwnConn
    <3>1. CASE k = m
      BY <1>t, <2>1, <2>2, <2>5, <2>6, <3>1 DEF c
    <3>2. CASE k # m
      <4>1. call'[k] = call[k] /\ call[k].conn = <<k, call[k].retry>>
        BY Zenon, <2>5, <3>2 DEF IInv, OwnConn
      <4>2. call[k].conn \in Conns /\ call[k].conn # c
        BY <4>1, <3>2 DEF Conns, IInv, Typed, Calls, c
      <4> QED
        BY <2>6, <4>1, <4>2 DEF IInv, OwnConn
    <3> QED
      BY Zenon, <3>1, <3>2
  <2>11. \A n, o \in Nodes : connections[n][o] # None =>
           /\ connections[n][o] \in Conns /\ connections[n][o][1] \in Msgs
           /\ stream'[connections[n][o]].addr = stream[connections[n][o]].addr
    <3> SUFFICES ASSUME NEW n \in Nodes, NEW o \in Nodes, connections[n][o] # None
                 PROVE  /\ connections[n][o] \in Conns /\ connections[n][o][1] \in Msgs
                        /\ stream'[connections[n][o]].addr = stream[connections[n][o]].addr
      BY Zenon
    <3>1. connections[n][o] \in Conns /\ connections[n][o][1] \in Msgs
      BY Zenon DEF IInv, PooledBy, Conns
    <3>2. connections[n][o] = c => stream[c].addr = call[m].addr
      BY DEF IInv, PooledBy, c
    <3> QED
      BY Zenon, <2>2, <2>6, <3>1, <3>2
  <2>12. PooledBy'
    <3> SUFFICES ASSUME NEW n \in Nodes, NEW o \in Nodes, connections[n][o] # None
                 PROVE  /\ connections[n][o] \in Conns
                        /\ call'[connections[n][o][1]].pc \notin {"idle", "remote"}
                        /\ stream'[connections[n][o]].addr = call'[connections[n][o][1]].addr
      BY Zenon, <2>4 DEF PooledBy
    <3>1. /\ call[connections[n][o][1]].pc \notin {"idle", "remote"}
          /\ stream[connections[n][o]].addr = call[connections[n][o][1]].addr
      BY Zenon DEF IInv, PooledBy
    <3>2. /\ call'[connections[n][o][1]].addr = call[connections[n][o][1]].addr
          /\ call'[connections[n][o][1]].pc \notin {"idle", "remote"}
      BY Zenon, <2>1, <2>5, <2>11, <3>1
    <3> QED
      BY Zenon, <2>11, <3>1, <3>2
  <2>13. PoolFollowsPeer'
    BY Zenon, <2>4, <2>11 DEF IInv, PoolFollowsPeer
  <2> QED
    BY Zenon, <2>7, <2>8, <2>9, <2>10, <2>12, <2>13 DEF IInv
<1> QED
  BY Zenon, <1>1, <1>2

\* A step that moves a call on, closes connections or forgets pooled ones, and neither opens
\* a connection nor pools one.
LEMMA Frame ==
  ASSUME IInv, Typed', TypedTables', SentOnce', UNCHANGED <<peers, raced>>,
         \A c \in Conns : stream'[c].addr = stream[c].addr,
         \A k \in Msgs : \/ call'[k] = call[k]
                         \/ /\ call[k].pc \in Active
                            /\ call'[k].pc \in {"write", "drop", "lookup", "Ok", "Transport"}
                            /\ call'[k].addr = call[k].addr
                            /\ call'[k].at = call[k].at /\ call'[k].node = call[k].node,
         \A n, o \in Nodes : connections'[n][o] \in {connections[n][o], None},
         \A n, o \in Nodes : <<n, o>> \in drops =>
                               <<n, o>> \in drops' \/ connections'[n][o] = None
  PROVE  IInv'
<1>1. ReadsNow'
  BY Zenon DEF IInv, ReadsNow, Active
<1>2. OwnConn'
  <2> SUFFICES ASSUME NEW k \in Msgs, call'[k].pc = "insert"
               PROVE  call'[k].conn = <<k, call'[k].retry>>
                      /\ stream'[call'[k].conn].addr = call'[k].addr
    BY Zenon DEF OwnConn
  <2>1. call'[k] = call[k]
    BY Zenon
  <2>2. call[k].conn = <<k, call[k].retry>> /\ stream[call[k].conn].addr = call[k].addr
    BY Zenon, <2>1 DEF IInv, OwnConn
  <2>3. call[k].conn \in Conns
    BY <2>2 DEF IInv, Typed, Calls, Conns
  <2> QED
    BY Zenon, <2>1, <2>2, <2>3
<1>3. PooledBy'
  <2> SUFFICES ASSUME NEW n \in Nodes, NEW o \in Nodes, connections'[n][o] # None
               PROVE  LET c == connections'[n][o] IN
                      /\ c \in Conns
                      /\ call'[c[1]].pc \notin {"idle", "remote"}
                      /\ stream'[c].addr = call'[c[1]].addr
    BY Zenon DEF PooledBy
  <2> DEFINE c == connections[n][o]
  <2>1. connections'[n][o] = c /\ c # None
    BY Zenon
  <2>2. /\ c \in Conns /\ c[1] \in Msgs /\ call[c[1]].pc \notin {"idle", "remote"}
        /\ stream[c].addr = call[c[1]].addr
    BY Zenon, <2>1 DEF IInv, PooledBy, Conns
  <2>3. call'[c[1]].addr = call[c[1]].addr /\ call'[c[1]].pc \notin {"idle", "remote"}
    BY Zenon, <2>2
  <2> QED
    BY Zenon, <2>1, <2>2, <2>3
<1>4. PoolFollowsPeer'
  <2> SUFFICES ASSUME NEW n \in Nodes, NEW o \in Nodes, connections'[n][o] # None,
                      <<n, o>> \notin drops'
               PROVE  \/ stream'[connections'[n][o]].addr = peers[n][o]
                      \/ connections'[n][o][1] \in raced
    BY Zenon DEF PoolFollowsPeer
  <2>1. connections'[n][o] = connections[n][o] /\ <<n, o>> \notin drops
    BY Zenon
  <2>2. connections[n][o] \in Conns
    BY Zenon, <2>1 DEF IInv, PooledBy
  <2> QED
    BY <2>1, <2>2 DEF IInv, PoolFollowsPeer
<1> QED
  BY Zenon, <1>1, <1>2, <1>3, <1>4 DEF IInv

LEMMA WriteHolds == ASSUME IInv, NEW m \in Msgs, Write(m) PROVE IInv'
<1> DEFINE c == call[m].conn
           d(ok) == [call[m] EXCEPT !.pc = Wrote(m, ok)]
<1>t. /\ call[m] \in Calls /\ call \in [Msgs -> Calls] /\ call[m].pc = "write"
      /\ call[m].node \in Nodes /\ stream \in [Conns -> Streams] /\ inbox \in [Msgs -> Nat]
  BY Zenon DEF IInv, Typed, Write, Active, Calls, Conns
<1> PICK ok \in BOOLEAN :
      /\ stream[c].state = "open" => ok
      /\ stream' = IF stream[c].state = "open" THEN [stream EXCEPT ![c].wire = @ \cup {m}]
                                               ELSE stream
      /\ call' = [call EXCEPT ![m] = d(ok)]
  BY Zenon DEF Write, Step
<1>1. d(ok) \in Calls /\ d(ok).pc \in {"Ok", "Transport", "drop"} /\ (ok => d(ok).pc = "Ok")
  BY Zenon, <1>t DEF Calls, Wrote
<1>2. /\ d(ok).addr = call[m].addr /\ d(ok).at = call[m].at /\ d(ok).node = call[m].node
  BY Zenon, <1>t DEF Calls
<1>3. \A k \in Msgs : call'[k] = IF k = m THEN d(ok) ELSE call[k]
  BY Zenon, <1>t
<1> HIDE DEF d
<1>4. UNCHANGED <<inbox, connections, peers, drops, raced, remote_routes>>
  BY Zenon DEF Write
<1>5. \A e \in Conns : /\ stream'[e].addr = stream[e].addr
                       /\ \A k \in Msgs : k \in stream'[e].wire =>
                            \/ k \in stream[e].wire
                            \/ k = m /\ e = c /\ ok
  BY Zenon, <1>t DEF Streams
<1>6. stream' \in [Conns -> Streams]
  <2>1. DOMAIN stream' = Conns /\ stream' = [e \in Conns |-> stream'[e]]
    BY Zenon, <1>t
  <2>2. \A e \in Conns : stream'[e] \in Streams
    <3> TAKE e \in Conns
    <3>1. stream'[e] = stream[e] \/ stream'[e] = [stream[e] EXCEPT !.wire = @ \cup {m}]
      BY Zenon, <1>t
    <3>2. stream[e] \in Streams
      BY Zenon, <1>t
    <3> QED
      BY <3>1, <3>2 DEF Streams
  <2> QED
    BY Zenon, <2>1, <2>2
<1>7. Typed' /\ TypedTables'
  <2>1. call' \in [Msgs -> Calls]
    BY Zenon, <1>t, <1>1
  <2> QED
    BY Zenon, <1>t, <1>1, <1>2, <1>3, <1>4, <1>6, <2>1 DEF IInv, Typed, TypedTables
<1>8. inbox[m] = 0 /\ \A e \in Conns : m \notin stream[e].wire
  <2>1. inbox[m] \in Nat /\ inbox[m] <= 1 /\ inbox[m] # 1
    BY Zenon, <1>t DEF IInv, SentOnce
  <2>2. \A e \in Conns : m \notin stream[e].wire
    BY Zenon, <1>t DEF IInv, SentOnce
  <2> QED
    BY <2>1, <2>2
<1>9. SentOnce'
  <2> SUFFICES ASSUME NEW k \in Msgs
               PROVE  /\ inbox[k] <= 1
                      /\ \A e \in Conns : k \in stream'[e].wire =>
                           /\ call'[k].pc = "Ok" /\ inbox[k] = 0
                           /\ \A g \in Conns : k \in stream'[g].wire => g = e
                      /\ inbox[k] = 1 => call'[k].pc = "Ok"
    BY Zenon, <1>4 DEF SentOnce
  <2>1. CASE k = m
    BY <1>1, <1>3, <1>5, <1>8, <2>1
  <2>2. CASE k # m
    BY <1>3, <1>5, <2>2 DEF IInv, SentOnce
  <2> QED
    BY Zenon, <2>1, <2>2
<1> QED
  BY Zenon, <1>t, <1>1, <1>2, <1>3, <1>4, <1>5, <1>7, <1>9, Frame DEF Active

LEMMA DropHolds == ASSUME IInv, NEW m \in Msgs, DropConnection(m) PROVE IInv'
<1> DEFINE d == [call[m] EXCEPT !.pc = "lookup", !.retry = TRUE]
<1>t. /\ call[m] \in Calls /\ call \in [Msgs -> Calls] /\ call[m].pc = "drop"
      /\ call[m].node \in Nodes /\ call[m].at \in Nodes
      /\ connections \in [Nodes -> [Nodes -> Conns \cup {None}]]
  BY Zenon DEF IInv, Typed, TypedTables, DropConnection, Active, Calls
<1>1. d \in Calls /\ d.pc = "lookup" /\ d.addr = call[m].addr /\ d.at = call[m].at
      /\ d.node = call[m].node
  BY Zenon, <1>t DEF Calls
<1>2. \A k \in Msgs : call'[k] = IF k = m THEN d ELSE call[k]
  BY Zenon, <1>t DEF DropConnection, Step
<1>3. call' \in [Msgs -> Calls]
  BY Zenon, <1>t, <1>1 DEF DropConnection, Step
<1> HIDE DEF d
<1>4. UNCHANGED <<inbox, peers, drops, stream, raced, remote_routes>>
  BY Zenon DEF DropConnection
<1>5. /\ \A n, o \in Nodes : connections'[n][o] \in {connections[n][o], None}
      /\ connections' \in [Nodes -> [Nodes -> Conns \cup {None}]]
  BY Zenon, <1>t DEF DropConnection, Unpool
<1>6. Typed' /\ TypedTables'
  BY Zenon, <1>t, <1>1, <1>2, <1>3, <1>4, <1>5 DEF IInv, Typed, TypedTables
<1>7. SentOnce'
  BY Zenon, <1>t, <1>1, <1>2, <1>4 DEF IInv, SentOnce
<1> QED
  BY Zenon, <1>t, <1>1, <1>2, <1>4, <1>5, <1>6, <1>7, Frame DEF Active

LEMMA SpawnedDropHolds ==
  ASSUME IInv, NEW n \in Nodes, NEW o \in Nodes, SpawnedDrop(n, o) PROVE IInv'
<1>1. UNCHANGED <<call, inbox, peers, stream, raced, remote_routes>>
  BY Zenon DEF SpawnedDrop, fabric
<1>2. /\ connections \in [Nodes -> [Nodes -> Conns \cup {None}]]
      /\ connections' = [connections EXCEPT ![n][o] = None] /\ drops' = drops \ {<<n, o>>}
  BY Zenon DEF IInv, TypedTables, SpawnedDrop, Unpool
<1>3. /\ \A p, q \in Nodes : connections'[p][q] =
                                IF p = n /\ q = o THEN None ELSE connections[p][q]
      /\ connections' \in [Nodes -> [Nodes -> Conns \cup {None}]]
  BY Zenon, <1>2
<1>4. Typed' /\ TypedTables' /\ SentOnce'
  BY Zenon, <1>1, <1>3 DEF IInv, Typed, TypedTables, SentOnce
<1>5. \A p, q \in Nodes : <<p, q>> \in drops =>
        <<p, q>> \in drops' \/ connections'[p][q] = None
  BY Zenon, <1>2, <1>3
<1>6. \A p, q \in Nodes : connections'[p][q] \in {connections[p][q], None}
  BY Zenon, <1>3
<1> QED
  BY Zenon, <1>1, <1>4, <1>5, <1>6, Frame

LEMMA InsertHolds == ASSUME IInv, NEW m \in Msgs, Insert(m) PROVE IInv'
<1> DEFINE n == call[m].at
           o == call[m].node
           c == call[m].conn
           d == [call[m] EXCEPT !.pc = "write"]
           f == [call[m] EXCEPT !.pc = "write", !.conn = connections[n][o]]
<1>t. /\ call[m] \in Calls /\ call \in [Msgs -> Calls] /\ call[m].pc = "insert"
      /\ n \in Nodes /\ o \in Nodes /\ stream \in [Conns -> Streams]
      /\ connections \in [Nodes -> [Nodes -> Conns \cup {None}]]
  BY Zenon DEF IInv, Typed, TypedTables, Insert, Active, Calls
<1>c. /\ c = <<m, call[m].retry>> /\ c \in Conns /\ c[1] = m
      /\ stream[c].addr = call[m].addr
      /\ call[m].addr = peers[n][o] \/ m \in raced
  <2>1. c = <<m, call[m].retry>> /\ stream[c].addr = call[m].addr
    BY Zenon, <1>t DEF IInv, OwnConn
  <2>2. call[m].retry \in BOOLEAN
    BY Zenon, <1>t DEF Calls
  <2>3. call[m].addr = peers[n][o] \/ m \in raced
    BY Zenon, <1>t DEF IInv, ReadsNow, Active
  <2> HIDE DEF c, n, o
  <2> QED
    BY Zenon, <2>1, <2>2, <2>3 DEF Conns
<1>u. UNCHANGED <<inbox, peers, drops, raced, remote_routes>>
  BY Zenon DEF Insert
<1>d. /\ d \in Calls /\ d.pc = "write" /\ d.addr = call[m].addr /\ d.at = n /\ d.node = o
      /\ f \in Calls /\ f.pc = "write" /\ f.addr = call[m].addr /\ f.at = n /\ f.node = o
  <2>1. connections[n][o] \in Conns \cup {None}
    BY Zenon, <1>t
  <2> DEFINE g == connections[n][o]
  <2> HIDE DEF g
  <2>2. f = [call[m] EXCEPT !.pc = "write", !.conn = g] /\ g \in Conns \cup {None}
    BY Zenon, <2>1 DEF g
  <2> QED
    BY Zenon, <1>t, <2>2 DEF Calls
<1>1. CASE connections[n][o] # None
  <2>1. /\ call' = [call EXCEPT ![m] = f] /\ UNCHANGED connections
        /\ stream' = [stream EXCEPT ![c].state = "closed"]
    BY Zenon, <1>1 DEF Insert, Step, Pooled
  <2> HIDE DEF f
  <2>2. call' \in [Msgs -> Calls] /\ \A k \in Msgs : call'[k] = IF k = m THEN f ELSE call[k]
    BY Zenon, <1>t, <1>d, <2>1
  <2> HIDE DEF c
  <2>3. \A e \in Conns : /\ stream'[e].addr = stream[e].addr
                         /\ stream'[e].wire = stream[e].wire
    BY Zenon, <1>t, <2>1 DEF Streams
  <2>4. stream' \in [Conns -> Streams]
    <3>1. [stream[c] EXCEPT !.state = "closed"] \in Streams
      BY Zenon, <1>t, <1>c DEF Streams
    <3> QED
      BY Zenon, <1>t, <1>c, <2>1, <3>1
  <2>5. Typed' /\ TypedTables'
    BY Zenon, <1>t, <1>d, <1>u, <2>1, <2>2, <2>4 DEF IInv, Typed, TypedTables
  <2>6. SentOnce'
    BY Zenon, <1>t, <1>d, <1>u, <2>2, <2>3 DEF IInv, SentOnce
  <2> QED
    BY Zenon, <1>t, <1>d, <1>u, <2>1, <2>2, <2>3, <2>5, <2>6, Frame DEF Active
<1>2. CASE connections[n][o] = None
  <2>1. /\ call' = [call EXCEPT ![m] = d] /\ UNCHANGED stream
        /\ connections' = [connections EXCEPT ![n][o] = c]
    BY Zenon, <1>2 DEF Insert, Step, Pooled
  <2> HIDE DEF d
  <2>2. call' \in [Msgs -> Calls] /\ \A k \in Msgs : call'[k] = IF k = m THEN d ELSE call[k]
    BY Zenon, <1>t, <1>d, <2>1
  <2> HIDE DEF c
  <2>3. /\ connections' \in [Nodes -> [Nodes -> Conns \cup {None}]]
        /\ \A p, q \in Nodes : connections'[p][q] =
                                  IF p = n /\ q = o THEN c ELSE connections[p][q]
    <3> HIDE DEF n, o
    <3> QED
      BY Zenon, <1>t, <1>c, <2>1
  <2>5. Typed' /\ TypedTables'
    BY <1>t, <1>d, <1>u, <2>1, <2>2, <2>3 DEF IInv, Typed, TypedTables
  <2>6. SentOnce'
    BY Zenon, <1>t, <1>d, <1>u, <2>1, <2>2 DEF IInv, SentOnce
  <2>7. ReadsNow' /\ OwnConn'
    BY Zenon, <1>t, <1>c, <1>d, <1>u, <2>1, <2>2 DEF IInv, ReadsNow, OwnConn, Active
  <2> HIDE DEF n, o
  <2>8. PooledBy'
    <3> SUFFICES ASSUME NEW p \in Nodes, NEW q \in Nodes, connections'[p][q] # None
                 PROVE  LET e == connections'[p][q] IN
                        /\ e \in Conns
                        /\ call'[e[1]].pc \notin {"idle", "remote"}
                        /\ stream[e].addr = call'[e[1]].addr
      BY Zenon, <2>1 DEF PooledBy
    <3>1. CASE p = n /\ q = o
      <4>1. connections'[p][q] = c
        BY Zenon, <2>3, <3>1
      <4>2. call'[m] = d /\ d.pc = "write" /\ d.addr = call[m].addr
        BY Zenon, <1>d, <2>2
      <4> QED
        BY Zenon, <1>c, <4>1, <4>2
    <3>2. CASE ~(p = n /\ q = o)
      <4>1. connections'[p][q] = connections[p][q]
        BY Zenon, <2>3, <3>2
      <4>2. /\ connections[p][q] \in Conns /\ connections[p][q][1] \in Msgs
            /\ call[connections[p][q][1]].pc \notin {"idle", "remote"}
            /\ stream[connections[p][q]].addr = call[connections[p][q][1]].addr
        BY Zenon, <4>1 DEF IInv, PooledBy, Conns
      <4>3. /\ call'[connections[p][q][1]].addr = call[connections[p][q][1]].addr
            /\ call'[connections[p][q][1]].pc \notin {"idle", "remote"}
        BY Zenon, <1>d, <2>2, <4>2
      <4> QED
        BY Zenon, <4>1, <4>2, <4>3
    <3> QED
      BY Zenon, <3>1, <3>2
  <2>9. PoolFollowsPeer'
    <3> SUFFICES ASSUME NEW p \in Nodes, NEW q \in Nodes, connections'[p][q] # None,
                        <<p, q>> \notin drops
                 PROVE  \/ stream[connections'[p][q]].addr = peers[p][q]
                        \/ connections'[p][q][1] \in raced
      BY Zenon, <1>u, <2>1 DEF PoolFollowsPeer
    <3>1. CASE p = n /\ q = o
      BY Zenon, <1>c, <2>3, <3>1
    <3>2. CASE ~(p = n /\ q = o)
      BY Zenon, <2>3, <3>2 DEF IInv, PoolFollowsPeer
    <3> QED
      BY Zenon, <3>1, <3>2
  <2> QED
    BY Zenon, <2>5, <2>6, <2>7, <2>8, <2>9 DEF IInv
<1> QED
  BY Zenon, <1>1, <1>2
-----------------------------------------------------------------------------
(* The other end, the tables and the process.                              *)

LEMMA HandleHolds ==
  ASSUME IInv, NEW m \in Msgs, NEW c \in Conns, HandleConnection(c, m) PROVE IInv'
<1>t. /\ stream \in [Conns -> Streams] /\ inbox \in [Msgs -> Nat] /\ m \in stream[c].wire
      /\ stream' = [stream EXCEPT ![c].wire = @ \ {m}]
      /\ inbox' \in {inbox, [inbox EXCEPT ![m] = @ + 1]}
      /\ UNCHANGED <<call, remote_routes, peers, connections, drops, raced>>
  BY Zenon DEF IInv, Typed, HandleConnection, Offer
<1>1. call[m].pc = "Ok" /\ inbox[m] = 0 /\ \A e \in Conns : m \in stream[e].wire => e = c
  BY Zenon, <1>t DEF IInv, SentOnce
<1>2. \A e \in Conns : /\ stream'[e].addr = stream[e].addr
                       /\ stream'[e].wire = IF e = c THEN stream[e].wire \ {m}
                                                     ELSE stream[e].wire
  <2> TAKE e \in Conns
  <2>1. stream'[e] = IF e = c THEN [stream[e] EXCEPT !.wire = @ \ {m}] ELSE stream[e]
    BY Zenon, <1>t
  <2>2. stream[e] \in Streams
    BY Zenon, <1>t
  <2> QED
    BY Zenon, <2>1, <2>2 DEF Streams
<1>3. stream' \in [Conns -> Streams]
  <2>1. [stream[c] EXCEPT !.wire = @ \ {m}] \in Streams
    BY <1>t DEF Streams
  <2> QED
    BY Zenon, <1>t, <2>1
<1>4. inbox' \in [Msgs -> Nat] /\ inbox'[m] \in {0, 1}
      /\ \A k \in Msgs : k # m => inbox'[k] = inbox[k]
  BY <1>t, <1>1
<1>5. Typed' /\ TypedTables'
  BY Zenon, <1>t, <1>3, <1>4 DEF IInv, Typed, TypedTables
<1>6. SentOnce'
  <2> SUFFICES ASSUME NEW k \in Msgs
               PROVE  /\ inbox'[k] <= 1
                      /\ \A e \in Conns : k \in stream'[e].wire =>
                           /\ call[k].pc = "Ok" /\ inbox'[k] = 0
                           /\ \A g \in Conns : k \in stream'[g].wire => g = e
                      /\ inbox'[k] = 1 => call[k].pc = "Ok"
    BY Zenon, <1>t DEF SentOnce
  <2>1. CASE k = m
    <3>1. \A e \in Conns : m \notin stream'[e].wire
      BY Zenon, <1>1, <1>2
    <3> QED
      BY <1>1, <1>4, <2>1, <3>1
  <2>2. CASE k # m
    <3>1. /\ inbox'[k] = inbox[k]
          /\ \A e \in Conns : k \in stream'[e].wire <=> k \in stream[e].wire
      BY Zenon, <1>2, <1>4, <2>2
    <3> QED
      BY Zenon, <3>1 DEF IInv, SentOnce
  <2> QED
    BY Zenon, <2>1, <2>2
<1> QED
  BY Zenon, <1>t, <1>2, <1>5, <1>6, Frame

LEMMA ExitHolds ==
  ASSUME IInv, NEW n \in Nodes, NEW a \in Addrs, NEW b \in Addrs \cup {None}, Exit(n, a, b)
  PROVE  IInv'
<1>t. /\ stream \in [Conns -> Streams]
      /\ UNCHANGED <<call, inbox, remote_routes, peers, connections, drops, raced>>
  BY Zenon DEF IInv, Typed, Exit
<1>1. \A e \in Conns : /\ stream'[e].addr = stream[e].addr
                       /\ stream'[e].wire \in {{}, stream[e].wire}
                       /\ stream'[e] \in Streams
  <2> TAKE e \in Conns
  <2>1. stream'[e] \in {stream[e], [stream[e] EXCEPT !.state = "closed", !.wire = {}]}
    BY Zenon DEF Exit
  <2>2. stream[e] \in Streams
    BY Zenon, <1>t
  <2> QED
    BY Zenon, <2>1, <2>2 DEF Streams
<1>2. stream' \in [Conns -> Streams]
  <2>1. stream' = [e \in Conns |-> stream'[e]]
    BY Zenon DEF Exit
  <2> QED
    BY Zenon, <1>1, <2>1
<1>3. Typed' /\ TypedTables'
  BY Zenon, <1>t, <1>2 DEF IInv, Typed, TypedTables
<1>4. SentOnce'
  BY Zenon, <1>t, <1>1 DEF IInv, SentOnce
<1> QED
  BY Zenon, <1>t, <1>1, <1>3, <1>4, Frame

\* A peer's address changes or goes: calls under way are overtaken, and the pooled
\* connection is on its way out.
LEMMA PeerHolds ==
  ASSUME IInv, NEW n \in Nodes, NEW o \in Nodes, NEW a \in Addrs \cup {None},
         peers' = [peers EXCEPT ![n][o] = a], drops' = drops \cup {<<n, o>>},
         raced' = raced \cup Calling(n, o),
         UNCHANGED <<call, inbox, remote_routes, connections, stream>>
  PROVE  IInv'
<1>t. peers \in [Nodes -> [Nodes -> Addrs \cup {None}]]
  BY Zenon DEF IInv, TypedTables
<1>1. /\ peers' \in [Nodes -> [Nodes -> Addrs \cup {None}]]
      /\ \A p, q \in Nodes : peers'[p][q] = IF p = n /\ q = o THEN a ELSE peers[p][q]
  BY Zenon, <1>t
<1>2. Typed' /\ TypedTables' /\ SentOnce' /\ OwnConn' /\ PooledBy'
  <2>1. Typed' /\ TypedTables'
    BY Zenon, <1>1 DEF IInv, Typed, TypedTables
  <2>2. SentOnce' /\ OwnConn'
    BY Zenon DEF IInv, SentOnce, OwnConn
  <2>3. PooledBy'
    BY Zenon DEF IInv, PooledBy
  <2> QED
    BY Zenon, <2>1, <2>2, <2>3
<1>3. ReadsNow'
  <2> SUFFICES ASSUME NEW m \in Msgs, call[m].pc \in Active
               PROVE  call[m].addr = peers'[call[m].at][call[m].node] \/ m \in raced'
    BY Zenon DEF ReadsNow
  <2>1. call[m].at \in Nodes /\ call[m].node \in Nodes
    BY Zenon DEF IInv, Typed, Calls
  <2>2. call[m].at = n /\ call[m].node = o => m \in Calling(n, o)
    BY Zenon DEF Calling, Returned, Active
  <2> QED
    BY Zenon, <1>1, <2>1, <2>2 DEF IInv, ReadsNow
<1>4. PoolFollowsPeer'
  BY <1>1 DEF IInv, PoolFollowsPeer
<1> QED
  BY Zenon, <1>2, <1>3, <1>4 DEF IInv

LEMMA SameHolds ==
  ASSUME IInv,
         UNCHANGED <<call, inbox, remote_routes, peers, connections, drops, stream, raced>>
  PROVE  IInv'
BY Zenon DEF IInv, Typed, TypedTables, SentOnce, ReadsNow, OwnConn, PooledBy, PoolFollowsPeer

-----------------------------------------------------------------------------
LEMMA StepHolds == IInv /\ [LoopbackNext]_lvars => IInv'
<1> SUFFICES ASSUME IInv, [LoopbackNext]_lvars PROVE IInv'
  BY Zenon
<1>1. CASE Local
  BY Zenon, <1>1, LocalHolds
<1>2. CASE \E n \in Nodes, a \in Addrs : Bind(n, a)
  BY Zenon, <1>2, SameHolds DEF Bind, pool
<1>3. CASE \E n \in Nodes, a \in Addrs, b \in Addrs \cup {None} : Exit(n, a, b)
  BY Zenon, <1>3, ExitHolds
<1>4. CASE \E n \in Nodes : \E o \in Nodes \ {n} :
             RemovePeer(n, o) \/ \E a \in Addrs : AddPeer(n, o, a)
  BY Zenon, <1>4, PeerHolds DEF RemovePeer, AddPeer
<1>5. CASE \E n \in Nodes : \E o \in Nodes \ {n} : SpawnedDrop(n, o)
  BY Zenon, <1>5, SpawnedDropHolds
<1>6. CASE \E m \in Msgs : SendRemote(m) \/ Lookup(m) \/ Connect(m)
  BY Zenon, <1>6, SendRemoteHolds, ConnectHolds
<1>7. CASE \E m \in Msgs : Insert(m) \/ Write(m) \/ DropConnection(m)
  BY Zenon, <1>7, InsertHolds, WriteHolds, DropHolds
<1>8. CASE \E m \in Msgs, c \in Conns : HandleConnection(c, m)
  BY Zenon, <1>8, HandleHolds
<1>9. CASE UNCHANGED lvars
  BY Zenon, <1>9, SameHolds DEF lvars, fabric, pool
<1> QED
  BY Zenon, <1>1, <1>2, <1>3, <1>4, <1>5, <1>6, <1>7, <1>8, <1>9 DEF LoopbackNext

\* The retry of send_remote never makes a second copy of a message, for any number of
\* nodes, calls and failures.
THEOREM SendsOnce == LoopbackSpec => []SentOnce
<1>1. IInv => SentOnce
  BY Zenon DEF IInv
<1> QED
  BY <1>1, InitHolds, StepHolds, PTL DEF LoopbackSpec

\* Once the removal add_peer spawned has run, the pooled connection of a peer leads to the
\* address it has now, unless a call that had read the earlier address opened it.
THEOREM PoolFollows == LoopbackSpec => []PoolFollowsPeer
<1>1. IInv => PoolFollowsPeer
  BY Zenon DEF IInv
<1> QED
  BY <1>1, InitHolds, StepHolds, PTL DEF LoopbackSpec

-----------------------------------------------------------------------------
(* Module Daemon.                                                          *)

Fields == {"pc", "pid", "args", "tries", "port", "met", "id", "shared", "tasks", "refresh", "file"}

Trying == {"bind", "pause"}
Writing == {"due", "open", "written"}

\* What a process record says of itself: a process that runs has an id, one that waits for
\* the port has attempts left, and a write under way is awaited before the process leaves.
RunOk(r) ==
  /\ DOMAIN r = Fields /\ r.tries \in Nat /\ r.pid \in Nat /\ r.met \in BOOLEAN
  /\ r.pc \in Trying => r.tries >= 1
  /\ r.pc \notin {"off", "killed"} => r.pid # 0
  /\ r.refresh \in Writing => r.pc \in {"first", "up", "await"}

RunsOk == DOMAIN run = Daemons /\ \A d \in Daemons : RunOk(run[d])
BudgetOk == budget \in [joins : Nat, faults : Nat]

LEMMA OffOk == RunOk(Off)
  BY Zenon DEF RunOk, Off, Fields, Trying, Writing

LEMMA EndedOk == RunOk([Off EXCEPT !.pc = "off"]) /\ RunOk([Off EXCEPT !.pc = "killed"])
  BY Zenon DEF RunOk, Off, Fields, Trying, Writing

LEMMA SetOne ==
  ASSUME RunsOk, NEW d \in Daemons, NEW r, Set(d, r)
  PROVE  DOMAIN run' = Daemons /\ run'[d] = r /\ \A e \in Daemons \ {d} : run'[e] = run[e]
  BY Zenon DEF RunsOk, Set

LEMMA SetOk ==
  ASSUME RunsOk, NEW d \in Daemons, NEW r, Set(d, r), RunOk(r)
  PROVE  RunsOk'
<1>1. DOMAIN run' = Daemons /\ run'[d] = r /\ \A e \in Daemons \ {d} : run'[e] = run[e]
  BY Zenon, SetOne
<1> QED BY Zenon, <1>1 DEF RunsOk

LEMMA WrittenOk ==
  ASSUME NEW r, RunOk(r)
  PROVE  LET w == Written(r)
         IN /\ RunOk(w) /\ w.refresh = "idle" /\ w.pid = r.pid /\ w.id = r.id
            /\ w.pc = IF r.pc = "first" THEN "up" ELSE r.pc
            /\ w.port = r.port /\ w.met = r.met /\ w.tries = r.tries
<1> DEFINE w == Written(r)
<1>1. /\ DOMAIN w = Fields /\ w.refresh = "idle" /\ w.pid = r.pid /\ w.id = r.id
      /\ w.pc = IF r.pc = "first" THEN "up" ELSE r.pc
      /\ w.port = r.port /\ w.met = r.met /\ w.tries = r.tries
  BY Zenon DEF RunOk, Fields, Written
<1> HIDE DEF w
<1>2. RunOk(w)
  BY Zenon, <1>1 DEF RunOk, Trying, Writing
<1> QED BY Zenon, <1>1, <1>2 DEF w

LEMMA RunsKept == RunsOk /\ BudgetOk /\ [DaemonNext]_dvars => RunsOk'
<1> SUFFICES ASSUME RunsOk, BudgetOk, [DaemonNext]_dvars PROVE RunsOk'
  BY Zenon
<1> USE DEF Trying, Writing
<1>1. ASSUME NEW d \in Daemons, NEW a \in JoinArgs, JoinRun(d, a) PROVE RunsOk'
  <2>1. RunOk([Off EXCEPT !.pc = "bind", !.pid = budget.joins, !.args = a, !.tries = BindRetryAttempts])
    <3>1. budget.joins \in Nat /\ budget.joins # 0
      BY <1>1 DEF JoinRun, Spent, BudgetOk
    <3> QED BY <3>1, ReclaimAssumption DEF RunOk, Off, Fields
  <2> QED BY Zenon, <1>1, <2>1, OffOk, SetOk DEF JoinRun
<1>2. ASSUME NEW d \in Daemons, BindPreferred(d) PROVE RunsOk'
  <2>1. DOMAIN run' = Daemons
    BY Zenon, <1>2 DEF BindPreferred
  <2>2. RunOk(run'[d])
    <3>1. run'[d] = [run[d] EXCEPT !.pc = "register", !.port = "preferred", !.tries = 0, !.met = FALSE]
      BY Zenon, <1>2 DEF BindPreferred
    <3>2. RunOk(run[d]) /\ run[d].pc = "bind"
      BY Zenon, <1>2 DEF RunsOk, BindPreferred, Is
    <3> QED BY <3>1, <3>2 DEF RunOk, Fields
  <2>3. ASSUME NEW e \in Daemons \ {d} PROVE RunOk(run'[e])
    <3>1. run'[e] = [run[e] EXCEPT !.met = @ \/ run[e].pc \in {"bind", "pause"}]
      BY Zenon, <1>2 DEF BindPreferred
    <3>2. RunOk(run[e])
      BY Zenon DEF RunsOk
    <3> QED BY Zenon, <3>1, <3>2 DEF RunOk, Fields
  <2> QED BY Zenon, <2>1, <2>2, <2>3 DEF RunsOk
<1>3. ASSUME NEW d \in Daemons, BindBusy(d) PROVE RunsOk'
  <2> DEFINE more == run[d].tries > 1
             r == [run[d] EXCEPT !.met = @ \/ port.holder \in Daemons, !.tries = @ - 1,
                     !.pc = IF more THEN "pause" ELSE "register",
                     !.port = IF more THEN "none" ELSE "ephemeral"]
  <2>1. RunOk(run[d]) /\ run[d].pc = "bind"
    BY Zenon, <1>3 DEF RunsOk, BindBusy, Is
  <2>2. /\ DOMAIN r = Fields /\ r.tries = run[d].tries - 1 /\ r.met \in BOOLEAN
        /\ r.pc = IF more THEN "pause" ELSE "register"
        /\ r.pid = run[d].pid /\ r.refresh = run[d].refresh
    BY Zenon, <2>1 DEF RunOk, Fields
  <2>3. Set(d, r)
    BY Zenon, <1>3 DEF BindBusy
  <2> HIDE DEF r
  <2>4. RunOk(r)
    BY <2>1, <2>2 DEF RunOk
  <2> QED BY Zenon, <2>3, <2>4, SetOk
<1>4. CASE Pause
  <2>1. DOMAIN run' = Daemons /\ \A d \in Daemons :
          run'[d] = IF run[d].pc = "pause" THEN [run[d] EXCEPT !.pc = "bind"] ELSE run[d]
    BY Zenon, <1>4 DEF Pause, Is
  <2>2. \A d \in Daemons : RunOk(run[d]) => RunOk(run'[d])
    BY <2>1 DEF RunOk, Fields
  <2> QED BY Zenon, <2>1, <2>2 DEF RunsOk
<1>5. ASSUME NEW d \in Daemons, NEW step \in {"register", "setup", "lifeline", "done"}, Join(d, step)
      PROVE  RunsOk'
  <2>1. CASE Ends(d, "off")
    BY Zenon, <2>1, SetOk, EndedOk DEF Ends
  <2>2. CASE Set(d, Joined(d))
    <3>1. RunOk(run[d]) /\ run[d].pc = "register"
      BY Zenon, <1>5 DEF RunsOk, Join, Is
    <3>2. RunOk(Joined(d))
      BY Zenon, <3>1 DEF RunOk, Joined, Fields
    <3> QED BY Zenon, <2>2, <3>2, SetOk
  <2> QED BY Zenon, <1>5, <2>1, <2>2 DEF Join
<1>6. ASSUME NEW d \in Daemons, RefreshStep(d) PROVE RunsOk'
  <2>1. RunOk(run[d])
    BY Zenon DEF RunsOk
  <2>2. ASSUME NEW v \in Writing, run[d].pc \in {"first", "up", "await"}
        PROVE  RunOk([run[d] EXCEPT !.refresh = v])
    BY Zenon, <2>1, <2>2 DEF RunOk, Fields
  <2>3. CASE Refresh(d)
    BY Zenon, <2>2, <2>3, SetOk DEF Refresh, Is
  <2>4. ASSUME NEW ok \in BOOLEAN, OpenTemp(d, ok) PROVE RunsOk'
    <3>1. RunOk([run[d] EXCEPT !.refresh = "open", !.file = "tmp"])
      BY Zenon, <2>1, <2>4 DEF OpenTemp, RunOk, Fields
    <3> QED BY Zenon, <2>1, <2>4, <3>1, WrittenOk, SetOk DEF OpenTemp, Failed
  <2>5. ASSUME NEW ok \in BOOLEAN, WriteText(d, ok) PROVE RunsOk'
    <3>1. RunOk([run[d] EXCEPT !.refresh = "written"])
      BY Zenon, <2>1, <2>2, <2>5 DEF WriteText, RunOk
    <3> QED BY Zenon, <2>1, <2>5, <3>1, WrittenOk, SetOk DEF WriteText, Failed
  <2>6. CASE RenameTemp(d)
    <3>1. CASE Set(d, Failed(run[d]))
      BY Zenon, <2>1, <3>1, WrittenOk, SetOk DEF Failed
    <3>2. CASE run' = [e \in Daemons |-> IF e = d THEN Written(run[d])
                                     ELSE [run[e] EXCEPT !.file = Renamed(@)]]
      <4>1. DOMAIN run' = Daemons /\ RunOk(run'[d])
        BY Zenon, <2>1, <3>2, WrittenOk
      <4>2. ASSUME NEW e \in Daemons \ {d} PROVE RunOk(run'[e])
        <5>1. run'[e] = [run[e] EXCEPT !.file = Renamed(@)] /\ RunOk(run[e])
          BY Zenon, <3>2 DEF RunsOk
        <5> QED BY Zenon, <5>1 DEF RunOk, Fields
      <4> QED BY Zenon, <4>1, <4>2 DEF RunsOk
    <3> QED BY Zenon, <2>6, <3>1, <3>2 DEF RenameTemp
  <2> QED BY Zenon, <1>6, <2>3, <2>4, <2>5, <2>6 DEF RefreshStep
<1>7. ASSUME NEW d \in Daemons, Reregister(d) PROVE RunsOk'
  <2>1. RunOk([run[d] EXCEPT !.shared = PeerId(d)])
    BY Zenon DEF RunsOk, RunOk, Fields
  <2> QED BY Zenon, <1>7, <2>1, SetOk DEF Reregister
<1>8. ASSUME NEW d \in Daemons, CtrlC(d) \/ AwaitRefresh(d) \/ \E ok \in BOOLEAN : Deregister(d, ok)
      PROVE  RunsOk'
  <2>1. RunOk(run[d])
    BY Zenon DEF RunsOk
  <2>2. CASE CtrlC(d)
    <3>1. RunOk([run[d] EXCEPT !.pc = "await"])
      BY Zenon, <2>1, <2>2 DEF CtrlC, Is, RunOk, Fields
    <3> QED BY Zenon, <2>2, <3>1, SetOk DEF CtrlC, To
  <2>3. CASE AwaitRefresh(d)
    <3>1. RunOk([run[d] EXCEPT !.pc = "deregister"])
      BY Zenon, <2>1, <2>3 DEF AwaitRefresh, Is, RunOk, Fields
    <3> QED BY Zenon, <2>3, <3>1, SetOk DEF AwaitRefresh, To
  <2>4. ASSUME NEW ok \in BOOLEAN, Deregister(d, ok) PROVE RunsOk'
    <3>1. RunOk([run[d] EXCEPT !.pc = "remove"])
      BY Zenon, <2>1, <2>4 DEF Deregister, Is, RunOk, Fields
    <3> QED BY Zenon, <2>4, <3>1, SetOk DEF Deregister, To
  <2> QED BY Zenon, <1>8, <2>2, <2>3, <2>4
<1>9. ASSUME NEW d \in Daemons, RemoveStatus(d) PROVE RunsOk'
  <2>1. DOMAIN run' = Daemons /\ run'[d] = [Unlinked(run[d]) EXCEPT !.pc = "exit", !.tasks = {}]
    BY Zenon, <1>9 DEF RemoveStatus
  <2>2. RunOk(run'[d])
    BY Zenon, <1>9, <2>1 DEF RemoveStatus, Is, RunsOk, RunOk, Fields, Unlinked
  <2>3. ASSUME NEW e \in Daemons \ {d} PROVE RunOk(run'[e])
    <3>1. run'[e] = [run[e] EXCEPT !.file = Elsewhere(@)] /\ RunOk(run[e])
      BY Zenon, <1>9 DEF RunsOk, RemoveStatus, Unlinked
    <3> QED BY Zenon, <3>1 DEF RunOk, Fields
  <2> QED BY Zenon, <2>1, <2>2, <2>3 DEF RunsOk
<1>10. ASSUME NEW d \in Daemons, EndOfRun(d) PROVE RunsOk'
  <2>1. RunOk([Off EXCEPT !.pc = "left", !.id = run[d].id, !.pid = run[d].pid])
    BY Zenon, <1>10 DEF EndOfRun, Is, RunsOk, RunOk, Fields, Off
  <2> QED BY Zenon, <1>10, <2>1, SetOk DEF EndOfRun
<1>11. ASSUME NEW d \in Daemons, KillDaemon(d) PROVE RunsOk'
  BY Zenon, <1>11, SetOk, EndedOk DEF KillDaemon, Ends
<1>12. CASE LeaveRemove
  <2>1. DOMAIN run' = Daemons /\ \A e \in Daemons : run'[e] = [run[e] EXCEPT !.file = Elsewhere(@)]
    BY Zenon, <1>12 DEF LeaveRemove, Unlinked
  <2>2. ASSUME NEW e \in Daemons PROVE RunOk(run'[e])
    BY <2>1 DEF RunsOk, RunOk, Fields
  <2> QED BY Zenon, <2>1, <2>2 DEF RunsOk
<1>13. CASE \/ \E d \in Daemons : Forget(d)
            \/ Reclaimed \/ LeaveRead \/ \E ok \in BOOLEAN : LeaveDeregister(ok)
            \/ UNCHANGED dvars
  BY Zenon, <1>13 DEF Forget, Reclaimed, LeaveRead, LeaveDeregister, dvars, RunsOk
<1> QED BY Zenon, <1>1, <1>2, <1>3, <1>4, <1>5, <1>6, <1>7, <1>8, <1>9, <1>10, <1>11, <1>12, <1>13
        DEF DaemonNext, DaemonStep, LeaveStep

LEMMA BudgetKept == BudgetOk /\ [DaemonNext]_dvars => BudgetOk' /\ budget'.joins <= budget.joins
<1> SUFFICES ASSUME BudgetOk, [DaemonNext]_dvars PROVE BudgetOk' /\ budget'.joins <= budget.joins
  BY Zenon
<1>1. CASE UNCHANGED budget
  BY <1>1 DEF BudgetOk
<1>2. CASE Spent("joins") \/ Spent("faults")
  BY <1>2 DEF BudgetOk, Spent
<1>3. ASSUME NEW ok, Works(ok) PROVE UNCHANGED budget \/ Spent("faults")
  BY Zenon, <1>3 DEF Works
<1>4. ASSUME NEW d \in Daemons, DaemonStep(d) PROVE UNCHANGED budget \/ Spent("faults")
  BY Zenon, <1>3, <1>4 DEF DaemonStep, BindPreferred, BindBusy, Join, RefreshStep, Refresh, RenameTemp, OpenTemp,
       WriteText, Reregister, Deregister, AwaitRefresh, RemoveStatus, EndOfRun
<1>5. ASSUME NEW d \in Daemons, CtrlC(d) \/ KillDaemon(d) \/ \E a \in JoinArgs : JoinRun(d, a)
      PROVE  UNCHANGED budget \/ Spent("joins") \/ Spent("faults")
  BY Zenon, <1>5 DEF CtrlC, KillDaemon, JoinRun
<1>6. ASSUME NEW d \in Daemons, Forget(d) PROVE BudgetOk' /\ budget'.joins <= budget.joins
  BY <1>6 DEF Forget, BudgetOk
<1>7. CASE Pause \/ Reclaimed \/ LeaveRead \/ LeaveStep \/ UNCHANGED dvars
  <2>1. UNCHANGED budget \/ Spent("faults")
    BY Zenon, <1>3, <1>7 DEF Pause, Reclaimed, LeaveRead, LeaveStep, LeaveRemove, LeaveDeregister, dvars
  <2> QED BY Zenon, <1>1, <1>2, <2>1
<1> QED BY Zenon, <1>1, <1>2, <1>4, <1>5, <1>6, <1>7 DEF DaemonNext

\* A joiner that has not met another daemon at the port has attempts left for the pauses the
\* kernel still needs: the port was free or held by no one else ever since it began, or a
\* daemon held it before the first attempt.
Waits(r, p) ==
  r.pc \in Trying /\ ~r.met =>
    /\ p.holder \in Daemons => r.pc = "bind" /\ r.tries = BindRetryAttempts
    /\ p.holder = "dead" => IF r.pc = "bind" THEN p.pauses < r.tries ELSE p.pauses <= r.tries

PortOk ==
  /\ port \in [holder : Daemons \cup {Nobody, "dead"}, pauses : Nat]
  /\ port.holder = "dead" => port.pauses \in 1..Reclaim
  /\ \A d \in Daemons : Waits(run[d], port)

\* A step of a daemon that is past the port, or that ends.
LEMMA PortSet ==
  ASSUME RunsOk, PortOk, StablePort, NEW d \in Daemons, NEW r, Set(d, r), UNCHANGED port \/ Closing(d),
         r.pc \notin Trying, r.port = "ephemeral" => r.met
  PROVE  PortOk' /\ StablePort'
<1>1. DOMAIN run' = Daemons /\ run'[d] = r /\ \A e \in Daemons \ {d} : run'[e] = run[e]
  BY Zenon, SetOne
<1>2. StablePort'
  BY Zenon, <1>1 DEF StablePort
<1>3. /\ port' \in [holder : Daemons \cup {Nobody, "dead"}, pauses : Nat]
      /\ port'.holder = "dead" => port'.pauses \in 1..Reclaim
  BY ReclaimAssumption DEF PortOk, Closing
<1>4. Waits(r, port')
  BY Zenon DEF Waits
<1>5. ASSUME NEW e \in Daemons \ {d} PROVE Waits(run[e], port')
  <2>1. Waits(run[e], port) /\ RunOk(run[e])
    BY Zenon DEF PortOk, RunsOk
  <2>2. CASE port' = port
    BY Zenon, <2>1, <2>2
  <2>3. CASE port.holder = d /\ port' = [holder |-> "dead", pauses |-> Reclaim]
    BY Zenon, <2>1, <2>3, ReclaimAssumption DEF Waits, RunOk
  <2> QED BY Zenon, <2>2, <2>3 DEF Closing
<1> QED BY Zenon, <1>1, <1>2, <1>3, <1>4, <1>5 DEF PortOk

\* A step that leaves what concerns the port alone.
LEMMA PortSame ==
  ASSUME RunsOk, PortOk, StablePort, UNCHANGED port,
         \A d \in Daemons : /\ run'[d].port = run[d].port /\ run'[d].met = run[d].met
                            /\ run'[d].pc = run[d].pc /\ run'[d].tries = run[d].tries
                            \/ /\ run'[d].port = run[d].port /\ run'[d].met = run[d].met
                               /\ run'[d].pc \notin Trying
  PROVE  PortOk' /\ StablePort'
  BY Zenon DEF PortOk, StablePort, Waits

LEMMA PortKept == RunsOk /\ PortOk /\ StablePort /\ [DaemonNext]_dvars => PortOk' /\ StablePort'
<1> SUFFICES ASSUME RunsOk, PortOk, StablePort, [DaemonNext]_dvars PROVE PortOk' /\ StablePort'
  BY Zenon
<1> USE DEF Trying
<1>1. ASSUME NEW d \in Daemons, NEW a \in JoinArgs, JoinRun(d, a) PROVE PortOk' /\ StablePort'
  <2> DEFINE r == [Off EXCEPT !.pc = "bind", !.pid = budget.joins, !.args = a, !.tries = BindRetryAttempts]
  <2>1. CASE Set(d, Off)
    BY Zenon, <1>1, <2>1, PortSet DEF Off, JoinRun
  <2>2. CASE Set(d, r)
    <3>1. r.pc = "bind" /\ r.tries = BindRetryAttempts /\ r.port = "none"
      BY Zenon DEF Off
    <3> HIDE DEF r
    <3>2. DOMAIN run' = Daemons /\ run'[d] = r /\ \A e \in Daemons \ {d} : run'[e] = run[e]
      BY Zenon, <2>2, SetOne
    <3>3. port' = port
      BY Zenon, <1>1 DEF JoinRun
    <3>4. Waits(r, port)
      BY <3>1, ReclaimAssumption DEF PortOk, Waits
    <3> QED BY Zenon, <3>1, <3>2, <3>3, <3>4 DEF PortOk, StablePort
  <2> QED BY Zenon, <1>1, <2>1, <2>2 DEF JoinRun
<1>2. ASSUME NEW d \in Daemons, BindPreferred(d) PROVE PortOk' /\ StablePort'
  <2>1. port' = [holder |-> d, pauses |-> 0]
    BY Zenon, <1>2 DEF BindPreferred
  <2>2. run'[d].pc = "register" /\ run'[d].port = "preferred"
    BY Zenon, <1>2 DEF BindPreferred, RunsOk, RunOk, Fields
  <2>3. ASSUME NEW e \in Daemons \ {d}
        PROVE /\ run'[e].port = run[e].port /\ run'[e].pc = run[e].pc
              /\ run[e].met => run'[e].met
              /\ run[e].pc \in Trying => run'[e].met
    <3>1. run'[e] = [run[e] EXCEPT !.met = @ \/ run[e].pc \in {"bind", "pause"}]
      BY Zenon, <1>2 DEF BindPreferred
    <3> QED BY Zenon, <3>1 DEF RunsOk, RunOk, Fields
  <2>4. \A e \in Daemons : Waits(run'[e], port')
    BY Zenon, <2>2, <2>3 DEF Waits
  <2> QED BY Zenon, <2>1, <2>2, <2>3, <2>4, ReclaimAssumption DEF PortOk, StablePort
<1>3. ASSUME NEW d \in Daemons, BindBusy(d) PROVE PortOk' /\ StablePort'
  <2> DEFINE more == run[d].tries > 1
             r == [run[d] EXCEPT !.met = @ \/ port.holder \in Daemons, !.tries = @ - 1,
                     !.pc = IF more THEN "pause" ELSE "register",
                     !.port = IF more THEN "none" ELSE "ephemeral"]
  <2>1. RunOk(run[d]) /\ run[d].pc = "bind" /\ port.holder # Nobody /\ port' = port
    BY Zenon, <1>3 DEF RunsOk, BindBusy, Is
  <2>2. /\ r.tries = run[d].tries - 1
        /\ r.pc = IF more THEN "pause" ELSE "register"
        /\ r.port = IF more THEN "none" ELSE "ephemeral"
        /\ r.met = (run[d].met \/ port.holder \in Daemons)
    BY Zenon, <2>1 DEF RunOk, Fields
  <2>3. Set(d, r)
    BY Zenon, <1>3 DEF BindBusy
  <2> HIDE DEF r
  <2>4. DOMAIN run' = Daemons /\ run'[d] = r /\ \A e \in Daemons \ {d} : run'[e] = run[e]
    BY Zenon, <2>3, SetOne
  <2>5. ~r.met => port.holder = "dead" /\ ~run[d].met /\ port.pauses \in 1..Reclaim /\ port.pauses < run[d].tries
    BY Zenon, <2>1, <2>2 DEF PortOk, Waits
  <2>6. Waits(r, port) /\ (r.port = "ephemeral" => r.met)
    <3>1. CASE r.met
      BY Zenon, <3>1 DEF Waits
    <3>2. CASE ~r.met
      BY <2>1, <2>2, <2>5, <3>2, ReclaimAssumption DEF Waits, RunOk
    <3> QED BY Zenon, <3>1, <3>2
  <2> QED BY Zenon, <2>1, <2>4, <2>6 DEF PortOk, StablePort
<1>4. CASE Pause
  <2>1. \A d \in Daemons :
          run'[d] = IF run[d].pc = "pause" THEN [run[d] EXCEPT !.pc = "bind"] ELSE run[d]
    BY Zenon, <1>4 DEF Pause, Is
  <2>2. ASSUME NEW d \in Daemons
        PROVE  /\ run'[d].pc = IF run[d].pc = "pause" THEN "bind" ELSE run[d].pc
               /\ run'[d].met = run[d].met /\ run'[d].tries = run[d].tries
               /\ run'[d].port = run[d].port /\ run[d].tries \in Nat
    <3>1. RunOk(run[d])
      BY Zenon DEF RunsOk
    <3>2. CASE run[d].pc = "pause"
      <4>1. run'[d] = [run[d] EXCEPT !.pc = "bind"]
        BY Zenon, <2>1, <3>2
      <4> QED BY Zenon, <3>1, <3>2, <4>1 DEF RunOk, Fields
    <3>3. CASE run[d].pc # "pause"
      BY Zenon, <2>1, <3>1, <3>3 DEF RunOk
    <3> QED BY Zenon, <3>2, <3>3
  <2>3. StablePort'
    BY Zenon, <2>2 DEF StablePort
  <2>4. CASE port.holder # "dead" /\ port' = port
    <3>1. ASSUME NEW d \in Daemons PROVE Waits(run'[d], port)
      BY Zenon, <2>2, <2>4 DEF PortOk, Waits
    <3> QED BY Zenon, <2>3, <2>4, <3>1 DEF PortOk
  <2>5. CASE port' = Free
    <3>1. port'.holder = Nobody /\ port' \in [holder : Daemons \cup {Nobody, "dead"}, pauses : Nat]
      BY Zenon, <2>5 DEF Free
    <3> QED BY Zenon, <2>3, <3>1, ReclaimAssumption DEF PortOk, Waits
  <2>6. CASE port.holder = "dead" /\ port.pauses # 1 /\ port' = [port EXCEPT !.pauses = @ - 1]
    <3>1. port'.holder = "dead" /\ port'.pauses = port.pauses - 1 /\ port'.pauses \in 1..Reclaim
      BY <2>6, ReclaimAssumption DEF PortOk
    <3>2. port' \in [holder : Daemons \cup {Nobody, "dead"}, pauses : Nat]
      BY <2>6, <3>1 DEF PortOk
    <3>3. ASSUME NEW d \in Daemons PROVE Waits(run'[d], port')
      <4>1. Waits(run[d], port) /\ port.pauses \in Nat
        BY Zenon DEF PortOk
      <4> QED BY <2>2, <2>6, <3>1, <4>1, ReclaimAssumption DEF Waits
    <3> QED BY Zenon, <2>3, <3>1, <3>2, <3>3 DEF PortOk
  <2> QED BY Zenon, <1>4, <2>4, <2>5, <2>6 DEF Pause
<1>5. CASE Reclaimed
  BY Zenon, <1>5, ReclaimAssumption DEF Reclaimed, PortOk, StablePort, Waits, Free
<1>6. ASSUME NEW d \in Daemons, NEW step \in {"register", "setup", "lifeline", "done"}, Join(d, step)
      PROVE  PortOk' /\ StablePort'
  <2>1. CASE Ends(d, "off")
    BY Zenon, <2>1, PortSet DEF Ends, Off
  <2>2. CASE Set(d, Joined(d)) /\ UNCHANGED port
    <3>1. Joined(d).pc = "first" /\ Joined(d).port = run[d].port /\ Joined(d).met = run[d].met
      BY Zenon DEF RunsOk, RunOk, Joined, Fields
    <3> QED BY Zenon, <2>2, <3>1, PortSet DEF StablePort
  <2> QED BY Zenon, <1>6, <2>1, <2>2 DEF Join
<1>7. ASSUME NEW d \in Daemons, EndOfRun(d) \/ KillDaemon(d) PROVE PortOk' /\ StablePort'
  BY Zenon, <1>7, PortSet DEF EndOfRun, KillDaemon, Ends, Off
<1>8. ASSUME NEW d \in Daemons, RefreshStep(d) PROVE PortOk' /\ StablePort'
  <2>1. RunOk(run[d]) /\ (run[d].port = "ephemeral" => run[d].met)
    BY Zenon DEF RunsOk, StablePort
  <2>2. CASE Refresh(d)
    <3>1. run[d].pc = "up" /\ UNCHANGED port
      BY Zenon, <2>2 DEF Refresh, Is
    <3>2. LET r == [run[d] EXCEPT !.refresh = "due"] IN r.pc = "up" /\ r.port = run[d].port /\ r.met = run[d].met
      BY Zenon, <2>1, <3>1 DEF RunOk, Fields
    <3> QED BY Zenon, <2>1, <2>2, <3>1, <3>2, PortSet DEF Refresh
  <2>3. CASE run[d].refresh \in Writing /\ UNCHANGED port /\ Set(d, Written(run[d]))
    <3>1. Written(run[d]).pc \notin Trying /\ Written(run[d]).port = run[d].port /\ Written(run[d]).met = run[d].met
      BY Zenon, <2>1, <2>3, WrittenOk DEF RunOk, Writing
    <3> QED BY Zenon, <2>1, <2>3, <3>1, PortSet
  <2>4. ASSUME NEW ok \in BOOLEAN, OpenTemp(d, ok) PROVE PortOk' /\ StablePort'
    <3> DEFINE r == [run[d] EXCEPT !.refresh = "open", !.file = "tmp"]
    <3>1. run[d].pc \in {"first", "up", "await"}
      BY Zenon, <2>1, <2>4 DEF OpenTemp, RunOk, Writing
    <3>2. r.pc = run[d].pc /\ r.port = run[d].port /\ r.met = run[d].met
      BY Zenon, <2>1 DEF RunOk, Fields
    <3>3. CASE Set(d, r) /\ UNCHANGED port
      BY Zenon, <2>1, <3>1, <3>2, <3>3, PortSet
    <3> QED BY Zenon, <2>3, <2>4, <3>3 DEF OpenTemp, Failed, Writing
  <2>5. ASSUME NEW ok \in BOOLEAN, WriteText(d, ok) PROVE PortOk' /\ StablePort'
    <3> DEFINE r == [run[d] EXCEPT !.refresh = "written"]
    <3>1. run[d].pc \in {"first", "up", "await"}
      BY Zenon, <2>1, <2>5 DEF WriteText, RunOk, Writing
    <3>2. r.pc = run[d].pc /\ r.port = run[d].port /\ r.met = run[d].met
      BY Zenon, <2>1 DEF RunOk, Fields
    <3>3. CASE Set(d, r) /\ UNCHANGED port
      BY Zenon, <2>1, <3>1, <3>2, <3>3, PortSet
    <3> QED BY Zenon, <2>3, <2>5, <3>3 DEF WriteText, Failed, Writing
  <2>6. CASE RenameTemp(d)
    <3>1. CASE Set(d, Failed(run[d]))
      BY Zenon, <2>3, <2>6, <3>1 DEF Failed, RenameTemp, Writing
    <3>2. CASE run' = [e \in Daemons |-> IF e = d THEN Written(run[d])
                                     ELSE [run[e] EXCEPT !.file = Renamed(@)]]
      <4>1. run'[d].pc \notin Trying /\ run'[d].port = run[d].port /\ run'[d].met = run[d].met
        BY Zenon, <2>1, <2>6, <3>2, WrittenOk DEF RunOk, Writing, RenameTemp
      <4>2. ASSUME NEW e \in Daemons \ {d}
            PROVE  /\ run'[e].port = run[e].port /\ run'[e].met = run[e].met
                   /\ run'[e].pc = run[e].pc /\ run'[e].tries = run[e].tries
        BY Zenon, <3>2 DEF RunsOk, RunOk, Fields
      <4> QED BY Zenon, <2>6, <4>1, <4>2, PortSame DEF RenameTemp
    <3> QED BY Zenon, <2>6, <3>1, <3>2 DEF RenameTemp
  <2> QED BY Zenon, <1>8, <2>2, <2>4, <2>5, <2>6 DEF RefreshStep
<1>9. ASSUME NEW d \in Daemons, Reregister(d) PROVE PortOk' /\ StablePort'
  <2>1. \A e \in Daemons : /\ run'[e].port = run[e].port /\ run'[e].met = run[e].met
                            /\ run'[e].pc = run[e].pc /\ run'[e].tries = run[e].tries
    BY Zenon, <1>9 DEF Reregister, Set, RunsOk, RunOk, Fields
  <2> QED BY Zenon, <1>9, <2>1, PortSame DEF Reregister
<1>10. ASSUME NEW d \in Daemons, CtrlC(d) \/ AwaitRefresh(d) \/ \E ok \in BOOLEAN : Deregister(d, ok)
      PROVE  PortOk' /\ StablePort'
  <2>1. PICK pc \in {"await", "deregister", "remove"} : To(d, pc) /\ UNCHANGED port
    BY Zenon, <1>10 DEF CtrlC, AwaitRefresh, Deregister
  <2>2. LET r == [run[d] EXCEPT !.pc = pc] IN r.pc = pc /\ r.port = run[d].port /\ r.met = run[d].met
    BY Zenon DEF RunsOk, RunOk, Fields
  <2> QED BY Zenon, <2>1, <2>2, PortSet DEF To, StablePort
<1>11. ASSUME NEW d \in Daemons, RemoveStatus(d) PROVE PortOk' /\ StablePort'
  <2>1. run'[d].pc = "exit" /\ run'[d].port = run[d].port /\ run'[d].met = run[d].met
    BY Zenon, <1>11 DEF RemoveStatus, Unlinked, RunsOk, RunOk, Fields
  <2>2. ASSUME NEW e \in Daemons \ {d}
        PROVE  /\ run'[e].port = run[e].port /\ run'[e].met = run[e].met
               /\ run'[e].pc = run[e].pc /\ run'[e].tries = run[e].tries
    BY Zenon, <1>11 DEF RemoveStatus, Unlinked, RunsOk, RunOk, Fields
  <2> QED BY Zenon, <1>11, <2>1, <2>2, PortSame DEF RemoveStatus
<1>12. CASE LeaveRemove
  <2>1. ASSUME NEW e \in Daemons
        PROVE  /\ run'[e].port = run[e].port /\ run'[e].met = run[e].met
               /\ run'[e].pc = run[e].pc /\ run'[e].tries = run[e].tries
    BY Zenon, <1>12 DEF LeaveRemove, Unlinked, RunsOk, RunOk, Fields
  <2> QED BY Zenon, <1>12, <2>1, PortSame DEF LeaveRemove
<1>13. CASE \/ \E d \in Daemons : Forget(d)
            \/ LeaveRead \/ \E ok \in BOOLEAN : LeaveDeregister(ok)
            \/ UNCHANGED dvars
  BY Zenon, <1>13 DEF Forget, LeaveRead, LeaveDeregister, dvars, PortOk, StablePort
<1> QED BY Zenon, <1>1, <1>2, <1>3, <1>4, <1>5, <1>6, <1>7, <1>8, <1>9, <1>10, <1>11, <1>12, <1>13
        DEF DaemonNext, DaemonStep, LeaveStep

\* Whose snapshot a file holds: no two processes share an id, the snapshot of a process is
\* in the temporary file only while it has still to rename it, and in the status file only
\* until it has removed that.
Of(text, r) == text.kind = "snapshot" /\ text.pid = r.pid

PidsOk ==
  /\ \A d \in Daemons : run[d].pid # 0 => run[d].pid > budget.joins
  /\ \A d, e \in Daemons : d # e /\ run[d].pid # 0 => run[d].pid # run[e].pid
  /\ \A text \in {tmp, status} :
       text.kind = "snapshot" => text.pid \in Nat /\ text.pid > budget.joins

FilesOk ==
  \A d \in Daemons : /\ Of(tmp, run[d]) => run[d].refresh = "written"
                     /\ Of(status, run[d]) => run[d].pc \notin {"exit", "left"}

\* The process ids and the files after a step in which no process starts.
LEMMA PidsSame ==
  ASSUME RunsOk, RunsOk', BudgetOk, BudgetOk', PidsOk, budget'.joins <= budget.joins,
         \A d \in Daemons : run'[d].pid \in {0, run[d].pid},
         \A text \in {tmp', status'} :
           text.kind = "snapshot" => text \in {tmp, status} \/ \E d \in Daemons : run[d].pid # 0 /\ Of(text, run[d])
  PROVE  PidsOk'
<1>1. budget.joins \in Nat /\ budget'.joins \in Nat
  BY Zenon DEF BudgetOk
<1>2. \A d \in Daemons : run[d].pid \in Nat /\ run'[d].pid \in Nat
  BY Zenon DEF RunsOk, RunOk
<1>3. \A d \in Daemons : run'[d].pid # 0 => run'[d].pid > budget'.joins
  BY <1>1, <1>2 DEF PidsOk
<1>4. \A d, e \in Daemons : d # e /\ run'[d].pid # 0 => run'[d].pid # run'[e].pid
  BY <1>2 DEF PidsOk
<1>5. ASSUME NEW text \in {tmp', status'}, text.kind = "snapshot"
      PROVE  text.pid \in Nat /\ text.pid > budget'.joins
  <2>1. CASE text \in {tmp, status}
    BY <1>1, <1>5, <2>1 DEF PidsOk
  <2>2. ASSUME NEW d \in Daemons, run[d].pid # 0, Of(text, run[d])
        PROVE  text.pid \in Nat /\ text.pid > budget'.joins
    BY <1>1, <1>2, <2>2 DEF PidsOk, Of
  <2> QED BY Zenon, <1>5, <2>1, <2>2
<1> QED BY Zenon, <1>3, <1>4, <1>5 DEF PidsOk

\* A step that writes no file, in which processes go on or end.
LEMMA FilesSame ==
  ASSUME RunsOk, RunsOk', BudgetOk, BudgetOk', PidsOk, PidsOk', FilesOk,
         tmp' \in {tmp, Missing, Blank}, status' \in {status, Missing},
         \A d \in Daemons :
           \/ run'[d].pid = 0
           \/ /\ run'[d].pid = run[d].pid
              /\ run[d].refresh = "written" /\ Of(tmp', run[d]) => run'[d].refresh = "written"
              /\ run'[d].pc \in {"exit", "left"} => run[d].pc \in {"exit", "left"} \/ status' = Missing
  PROVE  FilesOk'
<1> SUFFICES ASSUME NEW d \in Daemons
             PROVE  /\ Of(tmp, run[d])' => run'[d].refresh = "written"
                    /\ Of(status, run[d])' => run'[d].pc \notin {"exit", "left"}
  BY Zenon DEF FilesOk
<1>1. Missing.kind = "missing" /\ Blank.kind = "blank"
  BY Zenon DEF Missing, Blank, Text
<1>2. budget'.joins \in Nat /\ run'[d].pid \in Nat
  BY Zenon DEF BudgetOk, RunsOk, RunOk
<1>3. CASE run'[d].pid = 0
  BY <1>2, <1>3 DEF PidsOk, Of
<1>4. CASE run'[d].pid = run[d].pid
           /\ (run[d].refresh = "written" /\ Of(tmp', run[d]) => run'[d].refresh = "written")
           /\ (run'[d].pc \in {"exit", "left"} => run[d].pc \in {"exit", "left"} \/ status' = Missing)
  BY Zenon, <1>1, <1>4 DEF FilesOk, Of
<1> QED BY Zenon, <1>3, <1>4

LEMMA FilesKept ==
  ASSUME RunsOk, BudgetOk, PidsOk, FilesOk, [DaemonNext]_dvars
  PROVE  PidsOk' /\ FilesOk'
<1>0. RunsOk' /\ BudgetOk' /\ budget'.joins <= budget.joins /\ budget.joins \in Nat /\ budget'.joins \in Nat
  BY Zenon, RunsKept, BudgetKept DEF BudgetOk
<1>a. Missing.kind = "missing" /\ Blank.kind = "blank" /\ Garbled.kind = "garbled"
  BY Zenon DEF Missing, Blank, Garbled, Text
<1>b. \A d \in Daemons : Snapshot(d).kind = "snapshot" /\ Snapshot(d).pid = run[d].pid
  BY Zenon DEF Snapshot, Text
<1>c. \A d \in Daemons : RunOk(run[d]) /\ RunOk(run'[d])
  BY Zenon, <1>0 DEF RunsOk
<1>d. \A d \in Daemons : run[d].pid \in Nat /\ run'[d].pid \in Nat
  BY Zenon, <1>c DEF RunOk
\* Nothing is written, and no process starts, resumes a write or leaves.
<1>e. ASSUME UNCHANGED <<tmp, status>>,
             \A d \in Daemons :
               \/ run'[d].pid = 0
               \/ /\ run'[d].pid = run[d].pid
                  /\ run[d].refresh = "written" => run'[d].refresh = "written"
                  /\ run'[d].pc \in {"exit", "left"} => run[d].pc \in {"exit", "left"}
      PROVE  PidsOk' /\ FilesOk'
  <2>1. PidsOk'
    <3>1. \A d \in Daemons : run'[d].pid \in {0, run[d].pid}
      BY Zenon, <1>e
    <3> QED BY Zenon, <1>0, <1>e, <3>1, PidsSame
  <2> QED BY Zenon, <1>0, <1>e, <2>1, FilesSame
<1>1. ASSUME NEW d \in Daemons, NEW a \in JoinArgs, JoinRun(d, a) PROVE PidsOk' /\ FilesOk'
  <2>1. UNCHANGED <<tmp, status>> /\ budget'.joins = budget.joins - 1 /\ budget.joins # 0
    BY <1>1 DEF JoinRun, files, Spent, BudgetOk
  <2>2. /\ run'[d].pid = 0 \/ (run'[d].pid = budget.joins /\ run'[d].pc = "bind")
        /\ \A e \in Daemons \ {d} : run'[e] = run[e]
    <3> DEFINE r == IF KeyParses(a)
              THEN [Off EXCEPT !.pc = "bind", !.pid = budget.joins, !.args = a,
                               !.tries = BindRetryAttempts]
              ELSE Off
    <3>1. r.pid = 0 \/ (r.pid = budget.joins /\ r.pc = "bind")
      BY Zenon DEF Off
    <3>2. Set(d, r)
      BY Zenon, <1>1 DEF JoinRun
    <3> HIDE DEF r
    <3> QED BY Zenon, <3>1, <3>2, SetOne
  <2>3. PidsOk'
    <3>1. \A e \in Daemons : run'[e].pid # 0 => run'[e].pid > budget'.joins
      BY <1>0, <1>d, <2>1, <2>2 DEF PidsOk
    <3>2. \A e, f \in Daemons : e # f /\ run'[e].pid # 0 => run'[e].pid # run'[f].pid
      BY <1>0, <1>d, <2>1, <2>2 DEF PidsOk
    <3>3. \A text \in {tmp', status'} : text.kind = "snapshot" => text.pid \in Nat /\ text.pid > budget'.joins
      BY <1>0, <2>1 DEF PidsOk
    <3> QED BY Zenon, <3>1, <3>2, <3>3 DEF PidsOk
  <2>4. ~Of(tmp', run'[d]) /\ ~Of(status', run'[d])
    BY <1>0, <1>d, <2>1, <2>2 DEF PidsOk, Of
  <2> QED BY Zenon, <2>1, <2>2, <2>3, <2>4 DEF FilesOk, Of
<1>2. ASSUME NEW d \in Daemons, NEW how, Set(d, [Off EXCEPT !.pc = how]), UNCHANGED <<tmp, status>>
      PROVE  PidsOk' /\ FilesOk'
  <2>1. run'[d].pid = 0 /\ \A e \in Daemons \ {d} : run'[e] = run[e]
    BY <1>2, SetOne DEF Off
  <2> QED BY Zenon, <1>2, <1>e, <2>1
<1>3. ASSUME NEW d \in Daemons, NEW step \in {"register", "setup", "lifeline", "done"}, Join(d, step)
      PROVE  PidsOk' /\ FilesOk'
  <2>1. CASE Ends(d, "off")
    BY Zenon, <1>2, <1>3, <2>1 DEF Ends, Join
  <2>2. CASE Set(d, Joined(d))
    <3>1. Joined(d).pid = run[d].pid /\ Joined(d).pc = "first"
      BY Zenon, <1>c DEF RunOk, Joined, Fields
    <3>2. run[d].refresh # "written"
      BY Zenon, <1>3, <1>c DEF Join, Is, RunOk, Writing
    <3>3. run'[d] = Joined(d) /\ \A e \in Daemons \ {d} : run'[e] = run[e]
      BY Zenon, <2>2, SetOne
    <3>4. UNCHANGED <<tmp, status>>
      BY Zenon, <1>3 DEF Join
    <3> HIDE DEF Joined
    <3> QED BY Zenon, <1>e, <3>1, <3>2, <3>3, <3>4
  <2> QED BY Zenon, <1>3, <2>1, <2>2 DEF Join
<1>4. ASSUME NEW d \in Daemons, KillDaemon(d) PROVE PidsOk' /\ FilesOk'
  BY Zenon, <1>2, <1>4 DEF KillDaemon, Ends, files
<1>5. ASSUME NEW d \in Daemons, EndOfRun(d) PROVE PidsOk' /\ FilesOk'
  <2> DEFINE r == [Off EXCEPT !.pc = "left", !.id = run[d].id, !.pid = run[d].pid]
  <2>1. r.pc = "left" /\ r.pid = run[d].pid
    BY Zenon DEF Off
  <2>2. Set(d, r) /\ UNCHANGED <<tmp, status>> /\ run[d].pc = "exit"
    BY Zenon, <1>5 DEF EndOfRun, files, Is
  <2> HIDE DEF r
  <2>3. run'[d] = r /\ \A e \in Daemons \ {d} : run'[e] = run[e]
    BY Zenon, <2>2, SetOne
  <2>4. run[d].refresh # "written"
    BY Zenon, <1>c, <2>2 DEF RunOk, Writing
  <2> QED BY Zenon, <1>e, <2>1, <2>2, <2>3, <2>4
<1>6. ASSUME NEW d \in Daemons, BindPreferred(d) PROVE PidsOk' /\ FilesOk'
  <2>1. run'[d].pid = run[d].pid /\ run'[d].refresh = run[d].refresh /\ run'[d].pc = "register"
    <3>1. run'[d] = [run[d] EXCEPT !.pc = "register", !.port = "preferred", !.tries = 0, !.met = FALSE]
      BY Zenon, <1>6 DEF BindPreferred
    <3> QED BY Zenon, <1>c, <3>1 DEF RunOk, Fields
  <2>2. ASSUME NEW e \in Daemons \ {d}
        PROVE  run'[e].pid = run[e].pid /\ run'[e].refresh = run[e].refresh /\ run'[e].pc = run[e].pc
    <3>1. run'[e] = [run[e] EXCEPT !.met = @ \/ run[e].pc \in {"bind", "pause"}]
      BY Zenon, <1>6 DEF BindPreferred
    <3> QED BY Zenon, <1>c, <3>1 DEF RunOk, Fields
  <2>3. UNCHANGED <<tmp, status>>
    BY Zenon, <1>6 DEF BindPreferred, files
  <2> QED BY Zenon, <1>e, <2>1, <2>2, <2>3
<1>7. ASSUME NEW d \in Daemons, BindBusy(d) PROVE PidsOk' /\ FilesOk'
  <2>1. UNCHANGED <<tmp, status>> /\ \A e \in Daemons \ {d} : run'[e] = run[e]
    BY Zenon, <1>7, SetOne DEF BindBusy, files
  <2>2. run'[d].pid = run[d].pid /\ run'[d].refresh = run[d].refresh /\ run'[d].pc \in {"pause", "register"}
    BY <1>7, <1>c DEF BindBusy, Set, RunsOk, RunOk, Fields
  <2> QED BY Zenon, <1>e, <2>1, <2>2
<1>8. CASE Pause
  <2>1. ASSUME NEW d \in Daemons
        PROVE  /\ run'[d].pid = run[d].pid /\ run'[d].refresh = run[d].refresh
               /\ run'[d].pc \in {run[d].pc, "bind"}
    <3>1. run'[d] = run[d] \/ run'[d] = [run[d] EXCEPT !.pc = "bind"]
      BY Zenon, <1>8 DEF Pause
    <3> QED BY Zenon, <1>c, <3>1 DEF RunOk, Fields
  <2>2. UNCHANGED <<tmp, status>>
    BY Zenon, <1>8 DEF Pause, files
  <2> QED BY Zenon, <1>e, <2>1, <2>2
<1>9. ASSUME NEW d \in Daemons, Refresh(d) \/ CtrlC(d) \/ AwaitRefresh(d) \/ Reregister(d)
                               \/ \E ok \in BOOLEAN : Deregister(d, ok)
      PROVE  PidsOk' /\ FilesOk'
  <2>1. UNCHANGED <<tmp, status>> /\ \A e \in Daemons \ {d} : run'[e] = run[e]
    BY Zenon, <1>9, SetOne DEF Refresh, CtrlC, AwaitRefresh, Deregister, Reregister, To, files
  <2>2. /\ run'[d].pid = run[d].pid /\ (run[d].refresh = "written" => run'[d].refresh = "written")
        /\ run'[d].pc \in {run[d].pc, "await", "deregister", "remove"}
    <3>1. CASE Refresh(d)
      BY Zenon, <1>c, <3>1 DEF Refresh, Set, RunsOk, RunOk, Fields
    <3>2. CASE Reregister(d)
      BY <1>c, <3>2 DEF Reregister, Set, RunsOk, RunOk, Fields
    <3>3. ASSUME NEW pc \in {"await", "deregister", "remove"}, To(d, pc)
          PROVE  run'[d].pid = run[d].pid /\ run'[d].refresh = run[d].refresh /\ run'[d].pc = pc
      BY Zenon, <1>c, <3>3 DEF To, Set, RunsOk, RunOk, Fields
    <3> QED BY Zenon, <1>9, <3>1, <3>2, <3>3 DEF CtrlC, AwaitRefresh, Deregister
  <2> QED BY Zenon, <1>e, <2>1, <2>2
<1>10. ASSUME NEW d \in Daemons, run[d].refresh \in {"due", "open"}, UNCHANGED <<tmp, status>>, Set(d, Written(run[d]))
       PROVE  PidsOk' /\ FilesOk'
  <2>1. run'[d] = Written(run[d]) /\ \A e \in Daemons \ {d} : run'[e] = run[e]
    BY Zenon, <1>10, SetOne
  <2>2. run'[d].pid = run[d].pid /\ run[d].refresh # "written" /\ run'[d].pc \in {run[d].pc, "up"}
    BY <1>10, <1>c, <2>1, WrittenOk
  <2> QED BY Zenon, <1>10, <1>e, <2>1, <2>2
<1>11. ASSUME NEW d \in Daemons, NEW ok \in BOOLEAN, OpenTemp(d, ok) PROVE PidsOk' /\ FilesOk'
  <2> DEFINE r == [run[d] EXCEPT !.refresh = "open", !.file = "tmp"]
  <2>1. CASE tmp' = Blank /\ status' = status /\ Set(d, r)
    <3>1. r.pid = run[d].pid /\ r.pc = run[d].pc
      BY Zenon, <1>c DEF RunOk, Fields
    <3> HIDE DEF r
    <3>2. run'[d] = r /\ \A e \in Daemons \ {d} : run'[e] = run[e]
      BY Zenon, <2>1, SetOne
    <3>3. \A e \in Daemons : run'[e].pid = run[e].pid /\ run'[e].pc = run[e].pc
      BY Zenon, <3>1, <3>2
    <3>4. PidsOk'
      BY Zenon, <1>0, <1>a, <2>1, <3>3, PidsSame
    <3>5. \A e \in Daemons : ~Of(tmp', run[e])
      BY Zenon, <1>a, <2>1 DEF Of
    <3> QED BY Zenon, <1>0, <2>1, <3>3, <3>4, <3>5, FilesSame
  <2> QED BY Zenon, <1>10, <1>11, <2>1 DEF OpenTemp, Failed
\* A write that succeeds: the file has this process's snapshot, or a garbled one.
<1>12. ASSUME NEW d \in Daemons, NEW ok \in BOOLEAN, WriteText(d, ok) PROVE PidsOk' /\ FilesOk'
  <2>1. run[d].refresh = "open" /\ run[d].pc \in {"first", "up", "await"} /\ run[d].pid # 0
    BY Zenon, <1>12, <1>c DEF WriteText, RunOk, Writing
  <2>2. /\ run'[d].pid = run[d].pid /\ run'[d].pc \in {run[d].pc, "up"}
        /\ ok => run'[d].refresh = "written"
        /\ \A e \in Daemons \ {d} : run'[e] = run[e]
    <3>1. CASE ok /\ Set(d, [run[d] EXCEPT !.refresh = "written"])
      <4>1. run'[d] = [run[d] EXCEPT !.refresh = "written"] /\ \A e \in Daemons \ {d} : run'[e] = run[e]
        BY Zenon, <3>1, SetOne
      <4> QED BY Zenon, <1>c, <4>1 DEF RunOk, Fields
    <3>2. CASE ~ok /\ Set(d, Written(run[d]))
      BY <1>c, <3>2, SetOne, WrittenOk
    <3> QED BY Zenon, <1>12, <3>1, <3>2 DEF WriteText, Failed
  <2>3. /\ tmp' = tmp \/ tmp' = Garbled \/ (ok /\ tmp' = Snapshot(d))
        /\ status' = status \/ status' = Garbled \/ status' = Snapshot(d)
    BY Zenon, <1>12 DEF WriteText, Texts
  <2>4. PidsOk'
    <3>1. \A text \in {tmp', status'} : text.kind = "snapshot" => text \in {tmp, status} \/ Of(text, run[d])
      BY Zenon, <1>a, <1>b, <2>3 DEF Of
    <3>2. \A e \in Daemons : run'[e].pid = run[e].pid
      BY Zenon, <2>2
    <3> QED BY Zenon, <1>0, <2>1, <3>1, <3>2, PidsSame
  <2>5. ASSUME NEW e \in Daemons PROVE Of(tmp', run'[e]) => run'[e].refresh = "written"
    <3>1. CASE tmp' = tmp
      BY Zenon, <2>1, <2>2, <3>1 DEF FilesOk, Of
    <3>2. CASE tmp' = Garbled
      BY Zenon, <1>a, <3>2 DEF Of
    <3>3. CASE ok /\ tmp' = Snapshot(d)
      BY Zenon, <1>b, <2>1, <2>2, <3>3 DEF PidsOk, Of
    <3> QED BY Zenon, <2>3, <3>1, <3>2, <3>3
  <2>6. ASSUME NEW e \in Daemons PROVE Of(status', run'[e]) => run'[e].pc \notin {"exit", "left"}
    <3>1. CASE status' = status
      BY Zenon, <2>1, <2>2, <3>1 DEF FilesOk, Of
    <3>2. CASE status' = Garbled
      BY Zenon, <1>a, <3>2 DEF Of
    <3>3. CASE status' = Snapshot(d)
      BY Zenon, <1>b, <2>1, <2>2, <3>3 DEF PidsOk, Of
    <3> QED BY Zenon, <2>3, <3>1, <3>2, <3>3
  <2> QED BY Zenon, <2>4, <2>5, <2>6 DEF FilesOk
<1>13. ASSUME NEW d \in Daemons, RenameTemp(d) PROVE PidsOk' /\ FilesOk'
  <2>0. run[d].refresh = "written" /\ run[d].pc \in {"first", "up", "await"}
    BY Zenon, <1>13, <1>c DEF RenameTemp, RunOk, Writing
  <2>1. CASE tmp = Missing /\ Set(d, Written(run[d])) /\ UNCHANGED <<tmp, status>>
    <3>1. run'[d] = Written(run[d]) /\ \A e \in Daemons \ {d} : run'[e] = run[e]
      BY Zenon, <2>1, SetOne
    <3>2. run'[d].pid = run[d].pid /\ run'[d].pc \in {run[d].pc, "up"}
      BY <1>c, <3>1, WrittenOk
    <3>3. PidsOk'
      <4>1. \A e \in Daemons : run'[e].pid = run[e].pid
        BY Zenon, <3>1, <3>2
      <4> QED BY Zenon, <1>0, <2>1, <4>1, PidsSame
    <3>4. \A e \in Daemons : ~Of(tmp', run[e])
      BY Zenon, <1>a, <2>1 DEF Of
    <3>5. \A e \in Daemons : run'[e].pid = run[e].pid
                           /\ (run'[e].pc \in {"exit", "left"} => run[e].pc \in {"exit", "left"})
      BY Zenon, <2>0, <3>1, <3>2
    <3> QED BY Zenon, <1>0, <2>1, <3>3, <3>4, <3>5, FilesSame
  <2>2. CASE /\ tmp # Missing /\ status' = tmp /\ tmp' = Missing
             /\ run' = [e \in Daemons |-> IF e = d THEN Written(run[d])
                                     ELSE [run[e] EXCEPT !.file = Renamed(@)]]
    <3>1. run'[d].pid = run[d].pid /\ run'[d].pc \in {run[d].pc, "up"}
      BY Zenon, <1>c, <2>2, WrittenOk
    <3>2. ASSUME NEW e \in Daemons \ {d} PROVE run'[e].pid = run[e].pid /\ run'[e].pc = run[e].pc
      BY Zenon, <1>c, <2>2 DEF RunOk, Fields
    <3>3. PidsOk'
      BY Zenon, <1>0, <1>a, <2>2, <3>1, <3>2, PidsSame
    <3>4. ASSUME NEW e \in Daemons PROVE ~Of(tmp', run'[e])
      BY Zenon, <1>a, <2>2 DEF Of
    <3>5. ASSUME NEW e \in Daemons, Of(status', run'[e]) PROVE run'[e].pc \notin {"exit", "left"}
      <4>1. Of(tmp, run[e])
        BY Zenon, <2>2, <3>1, <3>2, <3>5 DEF Of
      <4>2. run[e].pc \in {"first", "up", "await"}
        BY Zenon, <1>c, <4>1 DEF FilesOk, RunOk, Writing
      <4> QED BY Zenon, <3>1, <3>2, <4>2
    <3> QED BY Zenon, <3>3, <3>4, <3>5 DEF FilesOk
  <2> QED BY Zenon, <1>13, <2>1, <2>2 DEF RenameTemp, Failed
<1>14. ASSUME NEW d \in Daemons, RemoveStatus(d) PROVE PidsOk' /\ FilesOk'
  <2>1. tmp' = tmp /\ status' = Missing /\ run[d].pc = "remove"
    BY Zenon, <1>14 DEF RemoveStatus, Unlink, Is
  <2>2. run'[d].pid = run[d].pid /\ run'[d].pc = "exit" /\ run[d].refresh # "written"
    <3>1. run'[d] = [Unlinked(run[d]) EXCEPT !.pc = "exit", !.tasks = {}]
      BY Zenon, <1>14 DEF RemoveStatus
    <3> QED BY Zenon, <1>c, <2>1, <3>1 DEF Unlinked, RunOk, Fields, Writing
  <2>3. ASSUME NEW e \in Daemons \ {d}
        PROVE  run'[e].pid = run[e].pid /\ run'[e].pc = run[e].pc /\ run'[e].refresh = run[e].refresh
    BY Zenon, <1>14, <1>c DEF RemoveStatus, Unlinked, RunOk, Fields
  <2>4. PidsOk'
    BY Zenon, <1>0, <1>a, <2>1, <2>2, <2>3, PidsSame
  <2> QED BY Zenon, <1>0, <2>1, <2>2, <2>3, <2>4, FilesSame
<1>15. CASE LeaveRemove
  <2>1. tmp' = tmp /\ status' = Missing
    BY Zenon, <1>15 DEF LeaveRemove, Unlink
  <2>2. ASSUME NEW e \in Daemons
        PROVE  run'[e].pid = run[e].pid /\ run'[e].pc = run[e].pc /\ run'[e].refresh = run[e].refresh
    BY Zenon, <1>15, <1>c DEF LeaveRemove, Unlinked, RunOk, Fields
  <2>3. PidsOk'
    BY Zenon, <1>0, <1>a, <2>1, <2>2, PidsSame
  <2> QED BY Zenon, <1>0, <2>1, <2>2, <2>3, FilesSame
<1>16. CASE \/ \E d \in Daemons : Forget(d)
            \/ Reclaimed \/ LeaveRead \/ \E ok \in BOOLEAN : LeaveDeregister(ok)
            \/ UNCHANGED dvars
  <2>1. UNCHANGED <<run, tmp, status>>
    BY Zenon, <1>16 DEF Forget, Reclaimed, LeaveRead, LeaveDeregister, files, dvars
  <2> QED BY Zenon, <1>e, <2>1
<1> QED BY Zenon, <1>1, <1>3, <1>4, <1>5, <1>6, <1>7, <1>8, <1>9, <1>11, <1>12, <1>13, <1>14, <1>15, <1>16
        DEF DaemonNext, DaemonStep, RefreshStep, LeaveStep

LEMMA DaemonStarts == DaemonInit => RunsOk /\ BudgetOk /\ PortOk /\ StablePort /\ PidsOk /\ FilesOk
<1> SUFFICES ASSUME DaemonInit PROVE RunsOk /\ BudgetOk /\ PortOk /\ StablePort /\ PidsOk /\ FilesOk
  BY Zenon
<1>1. DOMAIN run = Daemons /\ \A d \in Daemons : run[d] = Off
  BY Zenon DEF DaemonInit
<1>2. RunsOk /\ BudgetOk
  BY Zenon, <1>1, OffOk, ReclaimAssumption DEF RunsOk, BudgetOk, DaemonInit
<1>3. Off.pc = "off" /\ Off.pid = 0 /\ Off.port = "none"
  BY Zenon DEF Off
<1>4. PortOk /\ StablePort
  BY Zenon, <1>1, <1>3, ReclaimAssumption DEF PortOk, StablePort, Waits, Trying, Free, DaemonInit
<1>5. PidsOk /\ FilesOk
  BY <1>1, <1>3 DEF PidsOk, FilesOk, Of, Missing, Text, DaemonInit
<1> QED BY Zenon, <1>2, <1>4, <1>5

\* A joiner falls back to another port only when a daemon held the configured one while it
\* tried, for any number of daemons, attempts and kills, as long as the attempts outlast
\* the kernel's reclaim of a dead socket (bind_udp_with_fallback).
THEOREM PortIsStable == DaemonSpec => []StablePort
  BY DaemonStarts, RunsKept, BudgetKept, PortKept, PTL DEF DaemonSpec

\* A process that has left through Ctrl-C is not in the status file, for any number of
\* daemons that share it and any failures and kills (abort and await come before remove).
THEOREM NoStatusLeft == DaemonSpec => []LeavesNoStatus
<1>1. FilesOk => LeavesNoStatus
  BY DEF FilesOk, LeavesNoStatus, Of, Is, Snapshot, Text
<1>2. RunsOk /\ BudgetOk /\ PidsOk /\ FilesOk /\ [DaemonNext]_dvars => PidsOk' /\ FilesOk'
  BY Zenon, FilesKept
<1> QED BY <1>1, <1>2, DaemonStarts, RunsKept, BudgetKept, PTL DEF DaemonSpec
=============================================================================
