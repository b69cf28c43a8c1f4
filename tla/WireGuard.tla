----------------------------- MODULE WireGuard ------------------------------
(***************************************************************************)
(* WireGuardFabric: a route is followed through the peer's tunnel.  A      *)
(* tunnel with no session queues what it is given and starts a handshake;  *)
(* the receive loop, one task per node, drains the queue after every       *)
(* datagram, taking the tunnel's lock anew for each packet.                *)
(*                                                                         *)
(* The tunnel itself is the boringtun library, modelled from how the       *)
(* fabric uses it: an initiation and the session it leads to share a       *)
(* number, and the side that initiates may use the session first.          *)
(***************************************************************************)
EXTENDS Fabric, Sequences

VARIABLES
  tunn,  \* node -> peer -> the peer's tunnel, or None
  net,   \* datagrams under way
  rx,    \* node -> the peer whose tunnel the receive loop is draining, or None
  made   \* number of initiations made

wvars == <<fabric, tunn, net, rx, made>>

\* A tunnel as Tunn::new makes it.
Fresh == [init |-> 0, sessions |-> {}, current |-> 0, queue |-> <<>>]

WireGuardInit ==
  /\ FabricInit
  /\ tunn \in [Nodes -> [Nodes -> {None, Fresh}]]
  /\ net = {} /\ rx = [n \in Nodes |-> None] /\ made = 0

Datagram(n, o, kind, id, m) == [from |-> n, to |-> o, kind |-> kind, id |-> id, msg |-> m]

\* A fresh tunnel, whatever was there.  A tunnel the receive loop still drains is no longer
\* the peer's; what it may yet send is left out.
Replace(n, o, t) ==
  /\ Operate
  /\ tunn' = [tunn EXCEPT ![n][o] = t]
  /\ rx' = [rx EXCEPT ![n] = IF @ = o THEN None ELSE @]
  /\ UNCHANGED <<endpoints, remote_routes, call, inbox, net, made>>

AddWireguardPeer(n, o) == Replace(n, o, Fresh)

RemoveWireguardPeer(n, o) == tunn[n][o] # None /\ Replace(n, o, None)

\* format_handshake_initiation, unless one is in progress: the tunnel t, changed, and the
\* datagram to send.
Initiated(t) == IF t.init # 0 THEN t ELSE [t EXCEPT !.init = made + 1]
Initiate(n, o, t) ==
  /\ tunn' = [tunn EXCEPT ![n][o] = Initiated(t)]
  /\ IF t.init # 0 THEN UNCHANGED <<net, made>>
     ELSE made' = made + 1 /\ net' = net \cup {Datagram(n, o, "init", made + 1, None)}

\* wait_until_handshake kicks until there is a session.
KickHandshake(n, o) ==
  /\ tunn[n][o] # None /\ tunn[n][o].current = 0
  /\ Operate /\ Initiate(n, o, tunn[n][o])
  /\ UNCHANGED <<endpoints, remote_routes, call, inbox, rx>>

\* encapsulate, in send_remote: with a session the packet goes out; without, it is queued
\* and the handshake starts.  Either way the call returns Ok.
Encapsulate(m) ==
  LET n == call[m].at
      o == call[m].node
      t == tunn[n][o]
  IN IF t.current # 0
       THEN /\ net' = net \cup {Datagram(n, o, "data", t.current, m)}
            /\ UNCHANGED <<tunn, made>>
       ELSE Initiate(n, o, [t EXCEPT !.queue = Append(@, m)])

SendTunnel(m) ==
  /\ call[m].pc = "remote"
  /\ IF tunn[call[m].at][call[m].node] = None
       THEN call' = [call EXCEPT ![m].pc = "Transport"] /\ UNCHANGED <<tunn, net, made>>
       ELSE call' = [call EXCEPT ![m].pc = "Ok"] /\ Encapsulate(m)
  /\ UNCHANGED <<endpoints, remote_routes, inbox, ops, rx>>

\* decapsulate: what a datagram does to the tunnel it is for, and the answer.
Latest(t, id) ==
  IF id \in t.sessions /\ id > t.current THEN [t EXCEPT !.current = id] ELSE t

Decapsulated(t, d) ==
  CASE d.kind = "init" -> [t EXCEPT !.sessions = @ \cup {d.id}]
    [] d.kind = "resp" /\ t.init = d.id ->
         Latest([t EXCEPT !.init = 0, !.sessions = @ \cup {d.id}], d.id)
    [] d.kind \in {"data", "keepalive"} -> Latest(t, d.id)
    [] OTHER -> t

Answer(t, d) ==
  CASE d.kind = "init" -> {Datagram(d.to, d.from, "resp", d.id, None)}
    [] d.kind = "resp" /\ t.init = d.id -> {Datagram(d.to, d.from, "keepalive", d.id, None)}
    [] OTHER -> {}

\* receive_loop: the peer is found by the source endpoint; a datagram of no peer is dropped.
\* process_inbound then begins to drain the tunnel.
Receive(d) ==
  /\ d \in net /\ rx[d.to] = None
  /\ LET t == tunn[d.to][d.from] IN
     IF t = None
       THEN net' = net \ {d} /\ UNCHANGED <<tunn, rx, inbox>>
       ELSE /\ tunn' = [tunn EXCEPT ![d.to][d.from] = Decapsulated(t, d)]
            /\ net' = (net \ {d}) \cup Answer(t, d)
            /\ rx' = [rx EXCEPT ![d.to] = d.from]
            /\ IF d.kind = "data" /\ d.id \in t.sessions
                 THEN Offer(d.msg, d.to, call[d.msg].dst) ELSE UNCHANGED inbox
  /\ UNCHANGED <<endpoints, remote_routes, call, ops, made>>

\* Variant: the loop stops after the datagram itself.
DrainNothing(n) ==
  /\ rx[n] # None /\ rx' = [rx EXCEPT ![n] = None]
  /\ UNCHANGED <<fabric, tunn, net, made>>

\* process_inbound: decapsulate with an empty datagram, one queued packet at a time, until
\* nothing is left.
Drain(n) ==
  /\ rx[n] # None
  /\ LET o == rx[n]
         t == tunn[n][o]
     IN IF t # None /\ t.queue # <<>> /\ t.current # 0
          THEN /\ tunn' = [tunn EXCEPT ![n][o].queue = Tail(@)]
               /\ net' = net \cup {Datagram(n, o, "data", t.current, Head(t.queue))}
               /\ UNCHANGED rx
          ELSE rx' = [rx EXCEPT ![n] = None] /\ UNCHANGED <<tunn, net>>
  /\ UNCHANGED <<fabric, made>>

\* timer_loop: an initiation that nothing under way can still answer is made again; the
\* retry counts as the same initiation.
Timer(n, o) ==
  /\ tunn[n][o] # None /\ tunn[n][o].init # 0
  /\ \A d \in net : d.id # tunn[n][o].init
  /\ net' = net \cup {Datagram(n, o, "init", tunn[n][o].init, None)}
  /\ UNCHANGED <<fabric, tunn, rx, made>>

\* UDP loses a datagram.
Lose(d) ==
  /\ d \in net /\ Operate /\ net' = net \ {d}
  /\ UNCHANGED <<endpoints, remote_routes, call, inbox, tunn, rx, made>>

Tables == FabricNext /\ UNCHANGED <<tunn, net, rx, made>>

WireGuardNext ==
  \/ Tables
  \/ \E n \in Nodes : \E o \in Nodes \ {n} :
       \/ AddWireguardPeer(n, o) \/ RemoveWireguardPeer(n, o)
       \/ KickHandshake(n, o) \/ Timer(n, o)
  \/ \E n \in Nodes : Drain(n)
  \/ \E m \in Msgs : SendTunnel(m)
  \/ \E d \in net : Receive(d) \/ Lose(d)

\* The loops run, and a datagram that is not lost arrives.
WireGuardFairness ==
  /\ \A n \in Nodes : WF_wvars(Drain(n)) /\ WF_wvars(\E d \in net : d.to = n /\ Receive(d))
  /\ \A n, o \in Nodes : WF_wvars(Timer(n, o))

WireGuardSpec == WireGuardInit /\ [][WireGuardNext]_wvars /\ WireGuardFairness

-----------------------------------------------------------------------------
(* Properties.                                                             *)

\* A message the tunnel queued, for which the caller was told Ok, is sent: once two nodes
\* stay registered with each other, the queue between them empties, whatever datagrams of
\* the handshake were lost and whoever initiated.
QueueFlushed ==
  \A n, o \in Nodes :
    <>[](tunn[n][o] # None /\ tunn[o][n] # None)
      => []<>(tunn[n][o] # None => tunn[n][o].queue = <<>>)
=============================================================================
