-------------------------------- MODULE Paths --------------------------------
(***************************************************************************)
(* How joiners choose between the direct UDP path and the relay floor, and *)
(* how they judge their own data plane.  Every joiner has a session with   *)
(* every other; UDP may work in one direction only and change at any time, *)
(* the relay delivers.                                                     *)
(*                                                                         *)
(* Time is a sequence of ticks.  Within one a frame arrives or is lost and *)
(* every timer loop runs once; clocks are ages in ticks, cut off where     *)
(* they no longer matter.  The tunnel (boringtun) is external: a handshake *)
(* is under way ("cold"), done ("up"), or was given up ("expired").        *)
(***************************************************************************)
EXTENDS Naturals, FiniteSets

CONSTANTS
  Nodes,       \* joiners, numbered in the order of their addresses
  RelayOnly,   \* joiners without a direct plane
  NoRelay,     \* joiners without the relay floor
  Candidates,  \* pairs <<n, m>>: n is told an endpoint of m
  Traffic,     \* the sets of pairs that may exchange application data in every tick
  Networks,    \* the pairs UDP may work between at first
  PathTtl,     \* DIRECT_PATH_TTL
  HoleTtl,     \* DIRECT_TX_BLACKHOLE_TTL
  KeepAfter,   \* WG_PERSISTENT_KEEPALIVE
  Silence,     \* DATAPLANE_RX_SILENCE_THRESHOLD
  BackoffBase, BackoffCap,  \* DIRECT_BACKOFF_*
  RearmBase, RearmCap,      \* EXPIRED_REARM_BACKOFF_*
  MaxFlight,   \* bound: nothing new is sent while this many frames are on their way
  MaxEvents    \* bound: changes of UDP, losses, restarts, expiries, punches

ASSUME NodeAssumption ==
  /\ Nodes \subseteq Nat /\ RelayOnly \subseteq Nodes /\ NoRelay \subseteq Nodes \ RelayOnly
  /\ Candidates \subseteq Nodes \X (Nodes \ RelayOnly)
  /\ \A p \in Candidates \cup UNION Traffic : p[1] # p[2]
ASSUME ClockAssumption ==
  /\ {PathTtl, HoleTtl, KeepAfter, Silence, BackoffBase, BackoffCap, RearmBase,
      RearmCap} \subseteq Nat \ {0}
  /\ HoleTtl < PathTtl /\ KeepAfter < PathTtl
  /\ Silence >= 4 /\ Silence >= 3 * HoleTtl /\ HoleTtl + 2 < BackoffCap
  /\ MaxFlight \in Nat \ {0} /\ MaxEvents \in Nat

VARIABLES
  sess,    \* node -> peer -> the session
  clock,   \* node -> the clocks of its session table
  todo,    \* node -> sessions the timer loop has yet to visit in this tick
  idle,    \* nodes whose timer loop has yet to consider the idle probe
  flight,  \* frames on their way
  talk,    \* pairs <<n, m>>: n sends application data to m in every tick
  udp,     \* pairs <<n, m>>: datagrams from n reach m
  punch,   \* node -> the hole punch it is executing (a set of at most one)
  said,    \* pairs that have sent application data in this tick
  heard,   \* pairs whose application data has arrived in this tick
  alone,   \* pair <<n, m>> -> packets n has sent to m on the direct path alone since
           \* m's data last came that way, or Allowance while n does not believe in
           \* the path (history)
  events   \* disturbances so far

vars == <<sess, clock, todo, idle, flight, talk, udp, punch, said, heard, alone,
          events>>

Pairs == {p \in Nodes \X Nodes : p[1] # p[2]}
Others(n) == Nodes \ {n}
Data == {"app", "probe"}

\* What may go out on a path alone before data has come back on it.
Allowance == HoleTtl + 2

\* IDLE_PROBE_AFTER.
IdleAfter == Silence \div 4

\* The smaller of a clock one tick later and the last value that matters.
Later(age, last) == IF age < last THEN age + 1 ELSE last

-----------------------------------------------------------------------------
(* One session; see the fields of PeerSession.  An age of 1 + TTL stands   *)
(* for anything older, also for never.                                     *)

Fresh(n, m) ==
  [endpoint |-> <<n, m>> \in Candidates, confirmed |-> FALSE,
   rx |-> PathTtl + 1, drx |-> HoleTtl + 1, dtx |-> HoleTtl + 1,
   fails |-> 0, hush |-> 0, probed |-> FALSE, keep |-> 0,
   tunn |-> "cold", streak |-> 0, rearm |-> RearmCap]

\* Doubling from base, up to cap: escalating_backoff.
Backoff(streak, base, cap) ==
  LET window == base * 2^streak IN IF window < cap THEN window ELSE cap

\* The streak beyond which the back-off does not grow.
Enough(base, cap) ==
  CHOOSE k \in 0..cap : base * 2^k >= cap /\ (k > 0 => base * 2^(k - 1) < cap)

\* note_handshake_failure.
HandshakeFailure(s) ==
  [s EXCEPT !.hush = Backoff(s.fails, BackoffBase, BackoffCap),
            !.fails = Later(@, Enough(BackoffBase, BackoffCap))]

\* note_direct_rx: any valid datagram.
NoteDirectRx(s) == [s EXCEPT !.rx = 0, !.fails = 0, !.hush = 0, !.streak = 0]

\* confirm_direct: data that came directly.
ConfirmDirect(s) == [s EXCEPT !.confirmed = TRUE, !.rx = 0, !.drx = 0]

\* downgrade_direct_if_stale.
DowngradeIfStale(s) ==
  IF s.confirmed /\ s.rx > PathTtl
  THEN HandshakeFailure([s EXCEPT !.confirmed = FALSE]) ELSE s

\* Variant: what arrives proves the way out.
NeverBlackholed(s) == s

\* downgrade_direct_if_tx_blackholed.
DowngradeIfBlackholed(s) ==
  IF s.confirmed /\ s.dtx <= HoleTtl /\ s.drx > HoleTtl
  THEN HandshakeFailure([s EXCEPT !.confirmed = FALSE]) ELSE s

\* One frame; the copies of its bytes share a counter, so only one is accepted.
Frame(n, m, kind, via) == [from |-> n, to |-> m, kind |-> kind, via |-> via]

\* should_probe_direct, direct_suppressed and a candidate to probe.
MayProbe(n, s) == n \notin RelayOnly /\ s.hush = 0 /\ s.endpoint /\ ~s.probed

\* note_direct_tx: data on a confirmed path, not handshakes or bare keepalives.
NoteDirectTx(s, kind) == IF kind \in Data THEN [s EXCEPT !.dtx = 0] ELSE s

\* send_wire: the session afterwards and the frame.
SendWire(n, m, s, kind) ==
  IF s.confirmed /\ s.endpoint
  THEN [s |-> NoteDirectTx(s, kind),
        frames |-> {Frame(n, m, kind, {"direct"})}]
  ELSE IF n \in NoRelay
  THEN [s |-> s, frames |-> IF s.endpoint THEN {Frame(n, m, kind, {"direct"})} ELSE {}]
  ELSE IF MayProbe(n, s)
  THEN [s |-> HandshakeFailure([s EXCEPT !.probed = TRUE]),
        frames |-> {Frame(n, m, kind, {"direct", "relay"})}]
  ELSE [s |-> s, frames |-> {Frame(n, m, kind, {"relay"})}]

\* The packet of an application goes out on the direct path and on no other.
SentAlone(n, m) ==
  /\ sess[n][m].tunn = "up"
  /\ \A f \in SendWire(n, m, sess[n][m], "app").frames : f.via = {"direct"}
  /\ SendWire(n, m, sess[n][m], "app").frames # {}

\* The table's clock of sends: bare keepalives do not count.
NoteSend(c, kind) == IF kind = "keep" THEN c ELSE [c EXCEPT !.sending = TRUE]

\* n sends a frame of this kind in session s.
Emit(n, m, s, kind) ==
  LET w == SendWire(n, m, s, kind)
  IN /\ sess' = [sess EXCEPT ![n][m] = w.s]
     /\ flight' = flight \cup w.frames
     /\ clock' = [clock EXCEPT ![n] = NoteSend(@, kind)]

Quiet == Cardinality(flight) < MaxFlight

Happens == events < MaxEvents /\ events' = events + 1

Init ==
  /\ sess = [n \in Nodes |-> [m \in Others(n) |-> Fresh(n, m)]]
  /\ clock = [n \in Nodes |-> [rx |-> 0, sending |-> FALSE, probe |-> IdleAfter]]
  /\ todo = [n \in Nodes |-> {}] /\ idle = {} /\ flight = {}
  /\ talk \in Traffic /\ udp \in Networks
  /\ punch = [n \in Nodes |-> {}]
  /\ said = {} /\ heard = {} /\ alone = [p \in Pairs |-> Allowance] /\ events = 0

-----------------------------------------------------------------------------
(* Sending.                                                                *)

\* encapsulate_and_send: data in an established tunnel, the first message of a
\* handshake in one that was given up, nothing while a handshake is under way.
Encapsulate(n, m, kind) ==
  LET s == sess[n][m]
  IN IF s.tunn = "cold" THEN UNCHANGED <<sess, flight, clock>>
     ELSE IF s.tunn = "up" THEN Emit(n, m, s, kind)
     ELSE Emit(n, m, [s EXCEPT !.tunn = "cold"], "init")

\* tun_read_loop: the application has a packet for m.
TunRead(n, m) ==
  /\ <<n, m>> \in talk \ said /\ Quiet
  /\ said' = said \cup {<<n, m>>}
  /\ Encapsulate(n, m, "app")
  /\ alone' = [alone EXCEPT ![<<n, m>>] = IF SentAlone(n, m) THEN @ + 1 ELSE @]
  /\ UNCHANGED <<todo, idle, udp, punch, heard, events, talk>>

\* maybe_direct_data_probe: data on the direct path alone.
DirectDataProbe(n, m, s) ==
  IF n \in NoRelay \/ s.confirmed \/ ~MayProbe(n, s) THEN [s |-> s, frames |-> {}]
  ELSE IF s.tunn = "up"
  THEN [s |-> HandshakeFailure([s EXCEPT !.probed = TRUE]),
        frames |-> {Frame(n, m, "probe", {"direct"})}]
  ELSE [s |-> [s EXCEPT !.probed = TRUE], frames |-> {}]

\* should_rearm_expired.
RearmDue(s) == s.tunn = "expired" /\ s.rearm >= Backoff(s.streak, RearmBase, RearmCap)

\* maybe_rearm_expired_session: a new handshake, on the relay only.
Rearm(n, m, s) ==
  /\ sess' = [sess EXCEPT ![n][m] =
       [s EXCEPT !.tunn = "cold", !.rearm = 0,
                 !.streak = Later(@, Enough(RearmBase, RearmCap))]]
  /\ flight' = flight \cup {Frame(n, m, "init", {"relay"})}
  /\ clock' = [clock EXCEPT ![n].sending = TRUE]

\* Variant: a handshake is started once.
TimerKeepsAlive(s) == IF s.tunn = "up" /\ s.keep >= KeepAfter THEN {"keep"} ELSE {}

\* What update_timers sends: a keepalive when one is due, or the first message of
\* the handshake again.
TimerFrame(s) ==
  IF s.tunn = "up" /\ s.keep >= KeepAfter THEN {"keep"}
  ELSE IF s.tunn = "cold" THEN {"init"} ELSE {}

\* timer_loop, the part for one session.
Visit(n, m) ==
  /\ m \in todo[n] /\ Quiet
  /\ todo' = [todo EXCEPT ![n] = @ \ {m}]
  /\ LET s == DowngradeIfBlackholed(DowngradeIfStale(sess[n][m]))
     IN IF n \notin NoRelay /\ RearmDue(s) THEN Rearm(n, m, s)
        ELSE LET kinds == TimerFrame(s)
                 first == IF kinds = {} THEN [s |-> s, frames |-> {}]
                          ELSE SendWire(n, m, [s EXCEPT !.keep = 0], CHOOSE k \in kinds : TRUE)
                 second == DirectDataProbe(n, m, first.s)
             IN /\ sess' = [sess EXCEPT ![n][m] = second.s]
                /\ flight' = flight \cup first.frames \cup second.frames
                /\ clock' = [clock EXCEPT ![n].sending = @ \/ "init" \in kinds]
  /\ alone' = [alone EXCEPT ![<<n, m>>] = IF sess'[n][m].confirmed THEN @ ELSE Allowance]
  /\ UNCHANGED <<idle, udp, punch, said, heard, events, talk>>

\* should_emit_idle_probe.
IdleProbeDue(c) == c.rx >= IdleAfter /\ c.probe >= IdleAfter

\* idle_probe_target: the lowest address without a direct path, or the lowest.
IdleProbeTarget(n) ==
  LET anchored == {m \in Others(n) : ~sess[n][m].confirmed}
      among == IF anchored # {} THEN anchored ELSE Others(n)
  IN CHOOSE m \in among : \A o \in among : m <= o

\* timer_loop, the end of a pass: maybe_idle_probe.
IdleProbe(n) ==
  /\ n \in idle /\ todo[n] = {} /\ Quiet
  /\ idle' = idle \ {n}
  /\ IF ~IdleProbeDue(clock[n]) THEN UNCHANGED <<sess, flight, clock>>
     ELSE LET m == IdleProbeTarget(n)
              s == sess[n][m]
              send == IF s.tunn = "up" THEN {"probe"} ELSE IF s.tunn = "expired" THEN {"init"}
                      ELSE {}
              w == SendWire(n, m, [s EXCEPT !.tunn = IF s.tunn = "expired" THEN "cold" ELSE @],
                            CHOOSE k \in send : TRUE)
          IN /\ clock' = [clock EXCEPT ![n].probe = 0, ![n].sending = @ \/ send # {}]
             /\ IF send = {} THEN UNCHANGED <<sess, flight>>
                ELSE /\ sess' = [sess EXCEPT ![n][m] = w.s]
                     /\ flight' = flight \cup w.frames
  /\ UNCHANGED <<todo, udp, punch, said, heard, alone, events, talk>>

\* The coordinator tells n to punch; plan_punch finds the session, execute_punch
\* reads once whether the path is confirmed ...
PunchStart(n, m) ==
  /\ punch[n] = {} /\ n \notin RelayOnly /\ Happens
  /\ punch' = [punch EXCEPT ![n] = {[to |-> m, relayed |-> ~sess[n][m].confirmed, left |-> 2]}]
  /\ UNCHANGED <<sess, clock, todo, idle, flight, udp, said, heard, alone, talk>>

\* ... and fires a burst of handshake messages, each if the tunnel forms one.
PunchFire(n) ==
  /\ Quiet
  /\ \E p \in punch[n] :
       /\ punch' = [punch EXCEPT ![n] = IF p.left > 1 THEN {[p EXCEPT !.left = @ - 1]} ELSE {}]
       /\ \/ UNCHANGED flight
          \/ flight' = flight \cup {Frame(n, p.to, "init",
               IF p.relayed /\ n \notin NoRelay THEN {"direct", "relay"} ELSE {"direct"})}
  /\ UNCHANGED <<sess, clock, todo, idle, udp, said, heard, alone, events, talk>>

-----------------------------------------------------------------------------
(* Receiving.                                                              *)

\* Frame f can arrive this way.
Passes(f, v) == v \in f.via /\ (v = "direct" => <<f.from, f.to>> \in udp)

\* Variant: no datagram of an unknown source is tried.
AcceptedFromKnown(f, v, s) ==
  (f.kind \in {"init", "resp"} \/ s.tunn = "up") /\ (v = "direct" => s.endpoint)

\* Does the tunnel accept it?  A datagram of an unknown source has to yield
\* something, which a keepalive does not.
Accepted(f, v, s) ==
  /\ f.kind \in {"init", "resp"} \/ s.tunn = "up"
  /\ v = "direct" /\ ~s.endpoint => f.kind # "keep"

\* udp_recv_loop or handle_inbound, process_inbound_datagram, apply_wg_action.
\* That the relay's copy overtakes the direct one is a disturbance.
Receive(f, v) ==
  /\ f \in flight /\ Passes(f, v)
  /\ IF v = "relay" /\ Passes(f, "direct") THEN Happens ELSE UNCHANGED events
  /\ LET n == f.to
         m == f.from
         s == sess[n][m]
         direct == v = "direct"
         s1 == IF direct THEN NoteDirectRx([s EXCEPT !.endpoint = TRUE]) ELSE s
         answer == IF f.kind = "init" THEN "resp" ELSE "keep"
         w == SendWire(n, m, [s1 EXCEPT !.tunn = "up"], answer)
     IN IF ~Accepted(f, v, s)
        THEN flight' = flight \ {f} /\ UNCHANGED <<sess, clock, heard, alone>>
        ELSE IF f.kind \in {"init", "resp"}
        THEN /\ sess' = [sess EXCEPT ![n][m] = w.s]
             /\ flight' = (flight \ {f}) \cup w.frames
             /\ clock' = [clock EXCEPT ![n] = NoteSend(@, answer)]
             /\ UNCHANGED <<heard, alone>>
        ELSE IF f.kind = "keep"
        THEN /\ sess' = [sess EXCEPT ![n][m] = s1]
             /\ flight' = flight \ {f}
             /\ UNCHANGED <<clock, heard, alone>>
        ELSE /\ sess' = [sess EXCEPT ![n][m] = IF direct THEN ConfirmDirect(s1) ELSE s1]
             /\ flight' = flight \ {f}
             /\ clock' = [clock EXCEPT ![n].rx = 0, ![n].sending = FALSE]
             /\ heard' = IF f.kind = "app" THEN heard \cup {<<m, n>>} ELSE heard
             /\ alone' = IF direct THEN [alone EXCEPT ![<<n, m>>] = 0] ELSE alone
  /\ UNCHANGED <<todo, idle, udp, punch, said, talk>>

\* A frame has no way to arrive.
Vanish(f) ==
  /\ f \in flight /\ \A v \in f.via : ~Passes(f, v)
  /\ flight' = flight \ {f}
  /\ UNCHANGED <<sess, clock, todo, idle, udp, punch, said, heard, alone, events, talk>>

-----------------------------------------------------------------------------
(* Disturbances, and time.                                                 *)

Lose(f) ==
  /\ f \in flight /\ Happens
  /\ flight' = flight \ {f}
  /\ UNCHANGED <<sess, clock, todo, idle, udp, punch, said, heard, alone, talk>>

\* NAT mappings or firewalls change: datagrams pass between these pairs now.
Flip(pairs) ==
  /\ pairs # udp /\ Happens
  /\ udp' = pairs
  /\ UNCHANGED <<sess, clock, todo, idle, flight, punch, said, heard, alone, talk>>

\* The joiner starts anew: its sessions have no keys and no history.
Restart(n) ==
  /\ Happens
  /\ sess' = [sess EXCEPT ![n] = [m \in Others(n) |-> Fresh(n, m)]]
  /\ clock' = [clock EXCEPT ![n] = [rx |-> 0, sending |-> FALSE, probe |-> IdleAfter]]
  /\ punch' = [punch EXCEPT ![n] = {}]
  /\ alone' = [p \in Pairs |-> IF p[1] = n THEN Allowance ELSE alone[p]]
  /\ UNCHANGED <<todo, idle, flight, udp, said, heard, talk>>

\* The tunnels of these sessions give their handshakes up, after REKEY_ATTEMPT_TIME.
GiveUp(pairs) ==
  /\ pairs # {} /\ Happens
  /\ \A p \in pairs : sess[p[1]][p[2]].tunn = "cold"
  /\ sess' = [n \in Nodes |-> [m \in Others(n) |->
       IF <<n, m>> \in pairs THEN [sess[n][m] EXCEPT !.tunn = "expired"] ELSE sess[n][m]]]
  /\ UNCHANGED <<clock, todo, idle, flight, talk, udp, punch, said, heard, alone>>

Aged(s) ==
  [s EXCEPT !.rx = Later(@, PathTtl + 1), !.drx = Later(@, HoleTtl + 1),
            !.dtx = Later(@, HoleTtl + 1), !.hush = IF @ = 0 THEN 0 ELSE @ - 1,
            !.probed = FALSE, !.keep = Later(@, KeepAfter), !.rearm = Later(@, RearmCap)]

Tick ==
  /\ flight = {} /\ idle = {} /\ said = talk
  /\ \A n \in Nodes : todo[n] = {} /\ punch[n] = {}
  /\ sess' = [n \in Nodes |-> [m \in Others(n) |-> Aged(sess[n][m])]]
  /\ clock' = [n \in Nodes |->
       [clock[n] EXCEPT !.rx = Later(@, Silence), !.probe = Later(@, IdleAfter)]]
  /\ todo' = [n \in Nodes |-> Others(n)] /\ idle' = Nodes
  /\ said' = {} /\ heard' = {}
  /\ UNCHANGED <<flight, udp, punch, alone, events, talk>>

Step ==
  \/ \E p \in Pairs : TunRead(p[1], p[2]) \/ Visit(p[1], p[2])
  \/ \E n \in Nodes : IdleProbe(n) \/ PunchFire(n)
  \/ \E f \in flight : Vanish(f) \/ \E v \in f.via : Receive(f, v)
  \/ Tick

Next ==
  \/ Step
  \/ \E f \in flight : Lose(f)
  \/ \E p \in Pairs : PunchStart(p[1], p[2])
  \/ \E pairs \in SUBSET Pairs : Flip(pairs) \/ GiveUp(pairs)
  \/ \E n \in Nodes : Restart(n)

Spec == Init /\ [][Next]_vars

\* The loops run and time passes; disturbances need not happen.
FairSpec == Spec /\ WF_vars(Step)
-----------------------------------------------------------------------------
\* No peers is not modelled: a joiner of Nodes always has a peer.
DataplaneHealthy(n) == clock[n].sending => clock[n].rx < Silence

\* A path that has gone dead in one direction is not fed for long: between two
\* arrivals of direct data a joiner with a relay floor sends a bounded number of
\* packets on the direct path alone, although the other end's keepalives never let
\* the path go stale; and before the first data, or once it has given the path up,
\* none (downgrade_direct_if_tx_blackholed, send_wire, confirm_direct).
BlindBounded == \A p \in Pairs : p[1] \notin NoRelay => alone[p] <= Allowance

\* Application data that is sent all the time arrives again and again, whatever
\* UDP does, in one direction or both: no path is believed in for ever
\* (send_wire, downgrade_direct_if_stale, downgrade_direct_if_tx_blackholed). And
\* with it the receiver's report on its own data plane settles at healthy: a path
\* is given up well before the silence it causes counts (dataplane_healthy).
Delivers ==
  \A p \in Pairs :
    /\ []<>(p \in talk => p \in heard)
    /\ <>[](p \in talk) => <>[]DataplaneHealthy(p[2])

\* Where data flows both ways and UDP works both ways from some time on, both
\* ends find the direct path, again and again (maybe_direct_data_probe,
\* note_handshake_failure, learn_endpoint).
Upgrades ==
  \A p \in Candidates :
    LET both == {p, <<p[2], p[1]>>}
    IN <>[](both \subseteq talk \cap udp) =>
         []<>(sess[p[1]][p[2]].confirmed) /\ []<>(sess[p[2]][p[1]].confirmed)

\* A tunnel whose keys were lost, or whose handshake was given up, is established
\* again, even when neither end has data to send (timer_loop,
\* maybe_rearm_expired_session, maybe_idle_probe).
TunnelsHeal == \A p \in Pairs : []<>(sess[p[1]][p[2]].tunn = "up")

=============================================================================
