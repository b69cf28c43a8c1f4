-------------------------------- MODULE Relay --------------------------------
(***************************************************************************)
(* The relay floor: every joiner holds two WebSockets to the coordinator,  *)
(* a "hi" lane for handshakes and a "lo" lane for bulk, and the            *)
(* coordinator forwards frames by destination key.  Modelled are the two   *)
(* lane tasks of a joiner, the handler of each socket, the registry        *)
(* (connections, spool, wake cooldown) and the sweeper.                    *)
(*                                                                         *)
(* The registry's maps are concurrent and forward, register, unregister    *)
(* and drop_pubkey take them one after the other; an action is one access. *)
(***************************************************************************)
EXTENDS Integers, Sequences

CONSTANTS
  Keys,        \* public keys of the joiners
  Traffic,     \* pairs <<sender, destination>> of keys that exchange frames
  Attached,    \* sequence of the lanes <<key, lane>> that are up at the start
  Disturbed,   \* bound: keys whose sockets die, that leave or stop
  None,
  Relays,      \* relay URLs a joiner has, 0..Relays-1; this coordinator is 0
  HiCap, LoCap,  \* RELAY_HI_CAP, RELAY_LO_CAP
  SpoolCap,    \* SPOOL_CAP
  Proactive,   \* the coordinator's gate for relay wakes
  MaxFrames,   \* bound: frames sent
  MaxEvents,   \* bound: sockets lost, departures, returns, policy changes, stops
  MaxConns     \* bound: sockets opened

Lanes == {"hi", "lo"}
ConnIds == 1..MaxConns
Pairs == Traffic \cup {<<t[2], t[1]>> : t \in Traffic}

ASSUME KeyAssumption ==
  /\ Traffic \subseteq Keys \X Keys /\ \A t \in Traffic : t[1] # t[2]
  /\ \A n \in 1..Len(Attached) : Attached[n] \in Keys \X Lanes
  /\ \A m, n \in 1..Len(Attached) : Attached[m] = Attached[n] => m = n
  /\ Len(Attached) \in 0..MaxConns /\ Disturbed \subseteq Keys /\ None \notin ConnIds
ASSUME BoundAssumption ==
  /\ {HiCap, LoCap, SpoolCap, Relays} \subseteq Nat \ {0}
  /\ {MaxFrames, MaxEvents, MaxConns} \subseteq Nat
  /\ Proactive \in BOOLEAN

VARIABLES
  member,   \* keys in the coordinator's key index
  allowed,  \* pairs the policy lets talk
  client,   \* joiner -> lane -> the lane's task
  outq,     \* joiner -> lane -> frames waiting to be sent
  conn,     \* the sockets accepted so far with their handlers, by id
  conns,    \* registry: key -> lane -> id of the registered socket, or None
  spool,    \* registry: key -> frames held for it, and how many have expired
  cooling,  \* registry: keys woken within WAKE_COOLDOWN
  leaving,  \* departed keys -> what drop_pubkey has still to remove
  wakes,    \* RelayWake events on their way: <<woken key, source key>>
  got,      \* joiner -> frames its lanes received
  sent,     \* frames sent so far
  events,   \* disturbances so far
  displaced \* history: sockets that drop_pubkey or another socket took out of
            \*   their slot

registry == <<conns, spool, cooling>>
vars == <<member, allowed, client, outq, conn, registry, leaving, wakes, got, sent, events,
          displaced>>

-----------------------------------------------------------------------------
Cap(lane) == IF lane = "hi" THEN HiCap ELSE LoCap

\* try_relay and route_uplink: handshake frames (types 1 to 3) take the hi lane.
LaneOf(f) == IF f.hello THEN "hi" ELSE "lo"

Down == [at |-> "down", conn |-> None, current |-> 0]

\* A socket the handler has accepted; it has yet to register.
Socket(k, l, at) ==
  [key |-> k, lane |-> l, at |-> at, net |-> TRUE, rx |-> TRUE, queue |-> <<>>,
   todo |-> <<>>, pick |-> {}]

\* PeerConns::pick.
Pick(slots, hi_prio) ==
  IF hi_prio /\ slots["hi"] # None THEN slots["hi"] ELSE slots["lo"]

\* Coordinator::can_relay.
CanRelay(src, dst) == {src, dst} \subseteq member /\ <<src, dst>> \in allowed

\* The frames held for a key, oldest first: the expired ones come before the
\* others.
NoFrames == [held |-> <<>>, expired |-> 0]
Fresh(q) == SubSeq(q.held, q.expired + 1, Len(q.held))

\* RelayRegistry::push_spool: a full queue loses its oldest frame.
PushSpool(q, f) ==
  LET full == Len(q.held) >= SpoolCap
  IN [held |-> Append(IF full THEN Tail(q.held) ELSE q.held, f),
      expired |-> IF full /\ q.expired > 0 THEN q.expired - 1 ELSE q.expired]

Happens(k) == k \in Disturbed /\ events < MaxEvents /\ events' = events + 1

\* The lane l of k is up on this socket.
UpOn(k, l) == {n \in 1..Len(Attached) : Attached[n] = <<k, l>>}

Init ==
  /\ member = Keys /\ allowed = Pairs
  /\ conn = [n \in 1..Len(Attached) |-> Socket(Attached[n][1], Attached[n][2], "serve")]
  /\ conns = [k \in Keys |-> [l \in Lanes |->
       IF UpOn(k, l) = {} THEN None ELSE CHOOSE n \in UpOn(k, l) : TRUE]]
  /\ client = [k \in Keys |-> [l \in Lanes |->
       IF UpOn(k, l) = {} THEN Down ELSE [Down EXCEPT !.at = "open", !.conn = conns[k][l]]]]
  /\ outq = [k \in Keys |-> [l \in Lanes |-> <<>>]]
  /\ spool = [k \in Keys |-> NoFrames]
  /\ cooling = {} /\ wakes = {} /\ displaced = {}
  /\ leaving = [k \in Keys |-> {}]
  /\ got = [k \in Keys |-> {}]
  /\ sent = 0 /\ events = 0

-----------------------------------------------------------------------------
(* The joiner.                                                             *)

\* RelayHandle::try_relay: a frame from k to dst is queued on its lane.
TryRelay(k, dst, hello) ==
  LET f == [n |-> sent + 1, src |-> k, dst |-> dst, hello |-> hello]
  IN /\ sent < MaxFrames /\ sent' = sent + 1
     /\ outq' = [outq EXCEPT ![k][LaneOf(f)] = Append(@, f)]

\* The tunnel has something to send.
Emit(k, dst, hello) ==
  /\ <<k, dst>> \in Traffic
  /\ \E l \in Lanes : client[k][l].at # "stopped"
  /\ TryRelay(k, dst, hello)
  /\ UNCHANGED <<member, allowed, client, conn, registry, leaving, wakes, got, events, displaced>>

\* apply_relay_wake: the woken joiner starts a handshake with the source.
Wake(w) ==
  /\ w \in wakes
  /\ wakes' = wakes \ {w}
  /\ IF sent < MaxFrames /\ client[w[1]]["hi"].at # "stopped" THEN TryRelay(w[1], w[2], TRUE)
     ELSE UNCHANGED <<outq, sent>>
  /\ UNCHANGED <<member, allowed, client, conn, registry, leaving, got, events, displaced>>

\* run, after a failed or ended connection: the next relay is tried.
Redial(c) == [Down EXCEPT !.current = (c.current + 1) % Relays]

\* connect_once: relay_ws_handler accepts a known key, every other attempt fails.
Dial(k, l) ==
  /\ client[k][l].at = "down"
  /\ IF client[k][l].current = 0 /\ k \in member
     THEN /\ Len(conn) < MaxConns
          /\ conn' = Append(conn, Socket(k, l, "register"))
          /\ client' = [client EXCEPT ![k][l].at = "open", ![k][l].conn = Len(conn) + 1]
     ELSE /\ client' = [client EXCEPT ![k][l] = Redial(@)]
          /\ UNCHANGED conn
  /\ UNCHANGED <<member, allowed, outq, registry, leaving, wakes, got, sent, events, displaced>>

\* connect_once, the outbound arm: the frame leaves the queue, and is lost when
\* the socket turns out to be dead.
Send(k, l) ==
  /\ client[k][l].at = "open" /\ outq[k][l] # <<>>
  /\ LET c == client[k][l].conn
     IN IF conn[c].net
        THEN /\ conn[c].at = "serve" /\ conn[c].todo = <<>>
             /\ conn' = [conn EXCEPT ![c].todo = <<Head(outq[k][l])>>]
             /\ UNCHANGED client
        ELSE /\ client' = [client EXCEPT ![k][l] = Redial(@)]
             /\ UNCHANGED conn
  /\ outq' = [outq EXCEPT ![k][l] = Tail(@)]
  /\ UNCHANGED <<member, allowed, registry, leaving, wakes, got, sent, events, displaced>>

\* Variant: no idle deadline.
DisconnectOnClose(k, l) ==
  /\ client[k][l].at = "open" /\ conn[client[k][l].conn].at = "gone"
  /\ client' = [client EXCEPT ![k][l] = Redial(@)]
  /\ UNCHANGED <<member, allowed, outq, conn, registry, leaving, wakes, got, sent, events,
                 displaced>>

\* connect_once, the other ends: an error, a close, a failed ping or 45 s without
\* any inbound frame.  A live socket answers pings, so it is kept.
Disconnect(k, l) ==
  /\ client[k][l].at = "open" /\ ~conn[client[k][l].conn].net
  /\ client' = [client EXCEPT ![k][l] = Redial(@)]
  /\ UNCHANGED <<member, allowed, outq, conn, registry, leaving, wakes, got, sent, events, displaced>>

\* Shutdown: both lane tasks return and their sockets close.
Stop(k) ==
  /\ \E l \in Lanes : client[k][l].at # "stopped"
  /\ Happens(k)
  /\ client' = [client EXCEPT ![k] = [l \in Lanes |-> [Down EXCEPT !.at = "stopped"]]]
  /\ outq' = [outq EXCEPT ![k] = [l \in Lanes |-> <<>>]]
  /\ conn' = [c \in DOMAIN conn |->
       IF \E l \in Lanes : client[k][l].conn = c THEN [conn[c] EXCEPT !.net = FALSE]
       ELSE conn[c]]
  /\ UNCHANGED <<member, allowed, registry, leaving, wakes, got, sent, displaced>>

\* A socket goes dead; either end notices when it does.
Break(c) ==
  /\ conn[c].net /\ conn[c].at # "gone" /\ Happens(conn[c].key)
  /\ conn' = [conn EXCEPT ![c].net = FALSE]
  /\ UNCHANGED <<member, allowed, client, outq, registry, leaving, wakes, got, sent, displaced>>

-----------------------------------------------------------------------------
(* The coordinator: the handler of socket c.                               *)

\* RelayRegistry::register: the newest socket takes the lane's slot ...
Register(c) ==
  /\ conn[c].at = "register"
  /\ conns' = [conns EXCEPT ![conn[c].key][conn[c].lane] = c]
  /\ displaced' = displaced \cup ({conns[conn[c].key][conn[c].lane]} \ {None})
  /\ conn' = [conn EXCEPT ![c].at = "spool"]
  /\ UNCHANGED <<member, allowed, client, outq, spool, cooling, leaving, wakes, got, sent,
                 events>>

\* Variant: the spool is read and kept.
CopySpool(c) ==
  /\ conn[c].at = "spool"
  /\ conn' = [conn EXCEPT ![c].at = "serve", ![c].todo = Fresh(spool[conn[c].key])]
  /\ UNCHANGED <<member, allowed, client, outq, registry, leaving, wakes, got, sent, events,
                 displaced>>

\* ... and takes the frames held for its key; the fresh ones are forwarded again.
TakeSpool(c) ==
  /\ conn[c].at = "spool"
  /\ conn' = [conn EXCEPT ![c].at = "serve", ![c].todo = Fresh(spool[conn[c].key])]
  /\ spool' = [spool EXCEPT ![conn[c].key] = NoFrames]
  /\ UNCHANGED <<member, allowed, client, outq, conns, cooling, leaving, wakes, got, sent,
                 events, displaced>>

\* A frame that came up this socket, not one that was held for its key.
Uplink(c, f) == f.src = conn[c].key

\* route_uplink checks the policy; forward looks the destination up ...
Route(c) ==
  /\ conn[c].at = "serve" /\ conn[c].todo # <<>> /\ conn[c].pick = {}
  /\ LET f == Head(conn[c].todo)
     IN conn' = IF Uplink(c, f) /\ ~CanRelay(f.src, f.dst)
                THEN [conn EXCEPT ![c].todo = Tail(@)]
                ELSE [conn EXCEPT ![c].pick = {Pick(conns[f.dst], f.hello)}]
  /\ UNCHANGED <<member, allowed, client, outq, registry, leaving, wakes, got, sent, events,
                 displaced>>

\* ... and sends on what it found: queued, dropped at a full queue, or held when
\* there is no socket or its receiver is gone.  An uplink handshake that was not
\* queued wakes the destination, once per cooldown (take_wake_slot).
Forward(c) ==
  /\ conn[c].at = "serve"
  /\ \E d \in conn[c].pick :
       LET f == Head(conn[c].todo)
           open == d # None /\ conn[d].rx
           queued == open /\ Len(conn[d].queue) < Cap(conn[d].lane)
           done == [conn EXCEPT ![c].todo = Tail(@), ![c].pick = {}]
           woken == /\ ~queued /\ Uplink(c, f) /\ f.hello /\ Proactive
                    /\ {f.src, f.dst} \subseteq member /\ f.dst \notin cooling
       IN /\ conn' = IF queued THEN [done EXCEPT ![d].queue = Append(@, f)] ELSE done
          /\ spool' = IF open THEN spool ELSE [spool EXCEPT ![f.dst] = PushSpool(@, f)]
          /\ cooling' = IF woken THEN cooling \cup {f.dst} ELSE cooling
          /\ wakes' = IF woken THEN wakes \cup {<<f.dst, f.src>>} ELSE wakes
  /\ UNCHANGED <<member, allowed, client, outq, conns, leaving, got, sent, events, displaced>>

\* relay_conn: the send task writes a frame to the socket, where handle_inbound
\* takes it.
Downlink(c) ==
  /\ conn[c].rx /\ conn[c].queue # <<>> /\ conn[c].net
  /\ got' = [got EXCEPT ![conn[c].key] = @ \cup {Head(conn[c].queue)}]
  /\ conn' = [conn EXCEPT ![c].queue = Tail(@)]
  /\ UNCHANGED <<member, allowed, client, outq, registry, leaving, wakes, sent, events, displaced>>

\* Who still holds a sender of socket c's queue.
Holders(c) ==
  {k \in Keys : \E l \in Lanes : conns[k][l] = c}
    \cup {conn[d].key : d \in {d \in DOMAIN conn : c \in conn[d].pick}}

\* relay_conn: the send task ends, on a write to a dead socket, or once nobody
\* can send to its queue any more.  The receive loop goes on.
SendTaskEnds(c) ==
  /\ conn[c].rx /\ conn[c].at \notin {"register", "gone"}
  /\ conn[c].net => conn[c].queue = <<>> /\ Holders(c) = {}
  /\ conn' = [conn EXCEPT ![c].rx = FALSE, ![c].queue = <<>>]
  /\ UNCHANGED <<member, allowed, client, outq, registry, leaving, wakes, got, sent, events,
                 displaced>>

\* relay_conn: the receive loop ends.
StreamEnds(c) ==
  /\ conn[c].at = "serve" /\ conn[c].todo = <<>> /\ ~conn[c].net
  /\ conn' = [conn EXCEPT ![c].at = "unregister"]
  /\ UNCHANGED <<member, allowed, client, outq, registry, leaving, wakes, got, sent, events,
                 displaced>>

\* Variant: the slot is cleared whoever holds it.
UnregisterAny(c) ==
  /\ conn[c].at = "unregister"
  /\ conns' = [conns EXCEPT ![conn[c].key][conn[c].lane] = None]
  /\ conn' = [conn EXCEPT ![c].at = "clean"]
  /\ UNCHANGED <<member, allowed, client, outq, spool, cooling, leaving, wakes, got, sent,
                 events, displaced>>

\* RelayRegistry::unregister: only the slot's own socket clears it ...
Unregister(c) ==
  /\ conn[c].at = "unregister"
  /\ conns' = [conns EXCEPT ![conn[c].key][conn[c].lane] = IF @ = c THEN None ELSE @]
  /\ conn' = [conn EXCEPT ![c].at = "clean"]
  /\ UNCHANGED <<member, allowed, client, outq, spool, cooling, leaving, wakes, got, sent,
                 events, displaced>>

\* ... and an entry that is then still empty goes, which leaves nothing to see
\* here.  The send task is aborted and the socket closes.
Close(c) ==
  /\ conn[c].at = "clean"
  /\ conn' = [conn EXCEPT ![c] = [@ EXCEPT !.at = "gone", !.net = FALSE, !.rx = FALSE,
                                          !.queue = <<>>]]
  /\ UNCHANGED <<member, allowed, client, outq, registry, leaving, wakes, got, sent, events,
                 displaced>>

Handle(c) ==
  \/ Register(c) \/ TakeSpool(c) \/ Route(c) \/ Forward(c) \/ Unregister(c) \/ Close(c)
-----------------------------------------------------------------------------
(* The coordinator: membership, policy and the sweeper.                    *)

\* apply_peer_left (a deregistration, a timeout, an eviction), of a joiner whose
\* sockets may well be up ...
Leave(k) ==
  /\ k \in member /\ leaving[k] = {} /\ Happens(k)
  /\ member' = member \ {k}
  /\ leaving' = [leaving EXCEPT ![k] = {"conns", "spool"}]
  /\ UNCHANGED <<allowed, client, outq, conn, registry, wakes, got, sent, displaced>>

\* ... goes on with drop_pubkey: both lanes, then the spool.
DropConns(k) ==
  /\ "conns" \in leaving[k]
  /\ conns' = [conns EXCEPT ![k] = [l \in Lanes |-> None]]
  /\ displaced' = displaced \cup ({conns[k][l] : l \in Lanes} \ {None})
  /\ leaving' = [leaving EXCEPT ![k] = {"spool"}]
  /\ UNCHANGED <<member, allowed, client, outq, conn, spool, cooling, wakes, got, sent,
                 events>>

DropSpool(k) ==
  /\ leaving[k] = {"spool"}
  /\ spool' = [spool EXCEPT ![k] = NoFrames]
  /\ leaving' = [leaving EXCEPT ![k] = {}]
  /\ UNCHANGED <<member, allowed, client, outq, conn, conns, cooling, wakes, got, sent,
                 events, displaced>>

\* The joiner registers again with the same key.
Return(k) ==
  /\ k \notin member /\ \E l \in Lanes : client[k][l].at # "stopped"
  /\ member' = member \cup {k}
  /\ UNCHANGED <<allowed, client, outq, conn, registry, leaving, wakes, got, sent, events,
                 displaced>>

\* The policy lets a pair talk, or no longer.
PutPolicy(p) ==
  /\ Happens(p[2])
  /\ allowed' = IF p \in allowed THEN allowed \ {p} ELSE allowed \cup {p}
  /\ UNCHANGED <<member, client, outq, conn, registry, leaving, wakes, got, sent, displaced>>

\* Time passes: held frames outlive SPOOL_TTL, a wake its cooldown.
Age(k) ==
  /\ spool[k].expired < Len(spool[k].held)
  /\ spool' = [spool EXCEPT ![k].expired = Len(spool[k].held)]
  /\ UNCHANGED <<member, allowed, client, outq, conn, conns, cooling, leaving, wakes, got,
                 sent, events, displaced>>

CoolDown(k) ==
  /\ k \in cooling
  /\ cooling' = cooling \ {k}
  /\ UNCHANGED <<member, allowed, client, outq, conn, conns, spool, leaving, wakes, got,
                 sent, events, displaced>>

\* reap_stale_resources: reap_closed, key by key ...
ReapClosed(k) ==
  /\ conns' = [conns EXCEPT ![k] = [l \in Lanes |->
       IF @[l] # None /\ ~conn[@[l]].rx THEN None ELSE @[l]]]
  /\ conns' # conns
  /\ UNCHANGED <<member, allowed, client, outq, conn, spool, cooling, leaving, wakes, got,
                 sent, events, displaced>>

\* Variant: only the spool of a key that has left is looked after.
ReapNothing(k) ==
  /\ spool[k].expired > 0
  /\ conns[k] = [l \in Lanes |-> None] /\ k \notin member
  /\ spool' = [spool EXCEPT ![k] = [held |-> Fresh(@), expired |-> 0]]
  /\ UNCHANGED <<member, allowed, client, outq, conn, conns, cooling, leaving, wakes, got,
                 sent, events, displaced>>

\* ... and reap_expired_spool.
ReapExpiredSpool(k) ==
  /\ spool[k].expired > 0
  /\ spool' = [spool EXCEPT ![k] = [held |-> Fresh(@), expired |-> 0]]
  /\ UNCHANGED <<member, allowed, client, outq, conn, conns, cooling, leaving, wakes, got,
                 sent, events, displaced>>

-----------------------------------------------------------------------------
Next ==
  \/ \E t \in Pairs, hello \in BOOLEAN : Emit(t[1], t[2], hello)
  \/ \E w \in wakes : Wake(w)
  \/ \E k \in Keys, l \in Lanes : Dial(k, l) \/ Send(k, l) \/ Disconnect(k, l)
  \/ \E c \in DOMAIN conn :
       Break(c) \/ Handle(c) \/ Downlink(c) \/ SendTaskEnds(c) \/ StreamEnds(c)
  \/ \E k \in Keys :
       \/ Stop(k) \/ Leave(k) \/ DropConns(k) \/ DropSpool(k) \/ Return(k)
       \/ Age(k) \/ CoolDown(k) \/ ReapClosed(k) \/ ReapExpiredSpool(k)
  \/ \E p \in Pairs : PutPolicy(p)

Spec == Init /\ [][Next]_vars

\* A lane task runs and redials, the handler of a socket runs, the sweeper ticks
\* and time passes.  Nothing is assumed of when the coordinator notices a dead
\* socket.
FairSpec ==
  /\ Spec
  /\ \A k \in Keys, l \in Lanes : WF_vars(Dial(k, l) \/ Disconnect(k, l))
  /\ \A c \in ConnIds : WF_vars(c \in DOMAIN conn /\ Handle(c))
  /\ \A k \in Keys : WF_vars(Age(k)) /\ WF_vars(ReapExpiredSpool(k))
-----------------------------------------------------------------------------
\* Where a frame can be on its way, and the frames that are there.
Places ==
  ({"out"} \X Keys \X Lanes) \cup ({"spool"} \X Keys \X {None})
    \cup ({"todo", "queue"} \X (DOMAIN conn) \X {None})

Held(p) ==
  CASE p[1] = "out" -> outq[p[2]][p[3]]
    [] p[1] = "spool" -> spool[p[2]].held
    [] p[1] = "todo" -> conn[p[2]].todo
    [] p[1] = "queue" -> conn[p[2]].queue

\* A frame is never duplicated on its way through queues, handlers and spool, is
\* nowhere on its way any more once a joiner has it, and never reaches a joiner it
\* is not addressed to (RelayRegistry::forward, register).
FrameOnce ==
  LET occupied == {p \in Places : Held(p) # <<>>}
  IN /\ \A p, q \in occupied : \A i \in DOMAIN Held(p), j \in DOMAIN Held(q) :
          Held(p)[i].n = Held(q)[j].n => p = q /\ i = j
     /\ \A k \in Keys : \A f \in got[k] :
          /\ f.dst = k
          /\ \A p \in occupied : \A i \in DOMAIN Held(p) : Held(p)[i].n # f.n
          /\ \A h \in Keys : \A g \in got[h] : g.n = f.n => g = f

\* The socket that registered last on a lane serves it: neither the clean-up of an
\* older one nor the sweeper takes its place (RelayRegistry::register, unregister,
\* reap_closed).
NewestServes ==
  \A c \in DOMAIN conn :
    conn[c].at \in {"spool", "serve"} /\ conn[c].rx /\ c \notin displaced
    => conns[conn[c].key][conn[c].lane] = c

\* No frame is held for ever, also not one that was held in the moment its
\* destination registered, or one for a key that has left (reap_expired_spool).
SpoolDrains == \A k \in Keys : []<>(spool[k] = NoFrames)

\* A joiner in the roster comes to be served on both lanes again, however its
\* sockets died and whatever the coordinator noticed of it, unless the socket it
\* holds was taken out of the registry while it was up (run, relay_conn).
Reattaches ==
  \A k \in Keys, l \in Lanes :
    []<>(k \in member /\ client[k][l].at # "stopped" =>
           /\ client[k][l].at = "open"
           /\ LET c == client[k][l].conn
              IN c \in displaced \/ (conns[k][l] = c /\ conn[c].net /\ conn[c].rx))
=============================================================================
