----------------------------- MODULE PathsProofs -----------------------------
(***************************************************************************)
(* Proofs about Paths for every number of joiners, every traffic and       *)
(* network, and every setting of the time-outs.                            *)
(*                                                                         *)
(* The argument: while a path is believed in, the packets sent on it alone *)
(* are no more than the ticks since data last came that way.  When that    *)
(* is too long ago the next pass of the timer loop finds the path in use   *)
(* and gives it up; a path that was idle meanwhile has one packet to its   *)
(* account, and gets two more at most before the pass after the next.      *)
(***************************************************************************)
EXTENDS Paths, TLAPS

Fields == {"endpoint", "confirmed", "rx", "drx", "dtx", "fails", "hush", "probed", "keep", "tunn",
           "streak", "rearm"}

\* A session with its two clocks of direct data.
Session(s) ==
  /\ s = [f \in Fields |-> s[f]]
  /\ s.confirmed \in BOOLEAN
  /\ s.drx \in 0..(HoleTtl + 1) /\ s.dtx \in 0..(HoleTtl + 1)

\* What path selection does not tell apart in r and s.
Alike(r, s) ==
  /\ r = [f \in Fields |-> r[f]]
  /\ r.confirmed = s.confirmed /\ r.drx = s.drx /\ r.dtx = s.dtx

One(b) == IF b THEN 1 ELSE 0

\* The account of a path that is believed in: a packets on it alone, data received x and
\* sent y ticks ago; due: this tick's visit of the timer loop is to come; done: this tick's
\* packet is sent.
Account(x, y, a, due, done) ==
  /\ x <= HoleTtl =>
       /\ a <= x + One(done)
       /\ a > 0 => y <= x
       /\ a > 1 => y < x
  /\ x > HoleTtl =>
       /\ y > HoleTtl => a <= 1
       /\ y <= HoleTtl /\ due => a <= HoleTtl + 1 + One(done)
       /\ y <= HoleTtl /\ ~due => y = 0 /\ a <= 1 + One(done)

PairInv(n, m) ==
  /\ Session(sess[n][m])
  /\ alone[<<n, m>>] \in Nat
  /\ n \notin NoRelay =>
       /\ alone[<<n, m>>] <= Allowance
       /\ sess[n][m].confirmed =>
            Account(sess[n][m].drx, sess[n][m].dtx, alone[<<n, m>>], m \in todo[n],
                    <<n, m>> \in said)

Shape ==
  /\ sess = [n \in Nodes |-> sess[n]]
  /\ \A n \in Nodes : sess[n] = [m \in Others(n) |-> sess[n][m]]
  /\ alone = [p \in Pairs |-> alone[p]]
  /\ todo = [n \in Nodes |-> todo[n]]

PathInv == Shape /\ \A n \in Nodes : \A m \in Others(n) : PairInv(n, m)

-----------------------------------------------------------------------------
(* What the session operators leave alone.                                 *)

\* The time-outs are positive.
LEMMA HoleTtlPositive == HoleTtl \in Nat /\ HoleTtl > 0
  BY ClockAssumption

\* The allowance is a number, within its own bound.
LEMMA AllowanceBound == Allowance \in Nat /\ Allowance <= Allowance
  BY HoleTtlPositive DEF Allowance

\* note_handshake_failure changes the back-off only.
LEMMA FailureAlike ==
  ASSUME NEW s, s = [f \in Fields |-> s[f]] PROVE Alike(HandshakeFailure(s), s)
<1> DEFINE h == Backoff(s.fails, BackoffBase, BackoffCap)
           k == Later(s.fails, Enough(BackoffBase, BackoffCap))
<1>1. HandshakeFailure(s) = [s EXCEPT !.hush = h, !.fails = k]
  BY Zenon DEF HandshakeFailure
<1> HIDE DEF h, k
<1> QED BY <1>1 DEF Alike, Fields

\* note_direct_rx leaves the clocks of direct data and the verdict alone, also when the
\* endpoint was learned just before.
LEMMA DirectRxAlike ==
  ASSUME NEW s, s = [f \in Fields |-> s[f]]
  PROVE  /\ Alike(NoteDirectRx([s EXCEPT !.endpoint = TRUE]), s)
         /\ \A t : Alike([s EXCEPT !.tunn = t], s)
         /\ Alike([s EXCEPT !.probed = TRUE], s)
         /\ Alike([s EXCEPT !.keep = 0], s)
  BY DEF Alike, Fields, NoteDirectRx

\* Alike is an equivalence where it is used as one.
LEMMA AlikeTransitive ==
  ASSUME NEW r, NEW s, NEW t, Alike(r, s), Alike(s, t) PROVE Alike(r, t)
  BY Zenon DEF Alike

LEMMA AlikeItself == ASSUME NEW s, s = [f \in Fields |-> s[f]] PROVE Alike(s, s)
  BY Zenon DEF Alike

\* send_wire stamps the clock of direct data sent and nothing else of interest: it does so for
\* data on a confirmed path, and only such data goes out on the direct path alone where
\* there is a relay floor.
LEMMA SendWireEffect ==
  ASSUME NEW n, NEW m, NEW s, NEW kind, s = [f \in Fields |-> s[f]]
  PROVE  /\ SendWire(n, m, s, kind).s = [f \in Fields |-> SendWire(n, m, s, kind).s[f]]
         /\ SendWire(n, m, s, kind).s.confirmed = s.confirmed
         /\ SendWire(n, m, s, kind).s.drx = s.drx
         /\ SendWire(n, m, s, kind).s.dtx = s.dtx \/ SendWire(n, m, s, kind).s.dtx = 0
         /\ kind \notin Data => Alike(SendWire(n, m, s, kind).s, s)
<1> DEFINE w == SendWire(n, m, s, kind)
<1>1. CASE s.confirmed /\ s.endpoint
  <2>1. w.s = NoteDirectTx(s, kind)
    BY Zenon, <1>1 DEF SendWire
  <2>2. CASE kind \in Data
    <3>1. w.s = [s EXCEPT !.dtx = 0]
      BY Zenon, <2>1, <2>2 DEF NoteDirectTx
    <3> QED BY <1>1, <2>2, <3>1 DEF Fields
  <2>3. CASE kind \notin Data
    BY Zenon, <2>1, <2>3 DEF NoteDirectTx, Alike
  <2> QED BY Zenon, <2>2, <2>3
<1>2. CASE ~(s.confirmed /\ s.endpoint)
  <2>1. w.s = s \/ w.s = HandshakeFailure([s EXCEPT !.probed = TRUE])
    BY Zenon, <1>2 DEF SendWire
  <2>2. Alike([s EXCEPT !.probed = TRUE], s)
    BY Zenon, DirectRxAlike
  <2>3. Alike(HandshakeFailure([s EXCEPT !.probed = TRUE]), s)
    BY Zenon, <2>2, FailureAlike, AlikeTransitive DEF Alike
  <2>4. Alike(w.s, s)
    BY Zenon, <2>1, <2>3, AlikeItself
  <2> QED BY Zenon, <2>4 DEF Alike
<1> QED BY Zenon, <1>1, <1>2

\* maybe_direct_data_probe touches the back-off only.
LEMMA ProbeAlike ==
  ASSUME NEW n, NEW m, NEW s, s = [f \in Fields |-> s[f]]
  PROVE  Alike(DirectDataProbe(n, m, s).s, s)
<1>1. Alike([s EXCEPT !.probed = TRUE], s)
  BY Zenon, DirectRxAlike
<1>2. Alike(HandshakeFailure([s EXCEPT !.probed = TRUE]), s)
  BY Zenon, <1>1, FailureAlike, AlikeTransitive DEF Alike
<1>3. \/ DirectDataProbe(n, m, s).s = s
      \/ DirectDataProbe(n, m, s).s = [s EXCEPT !.probed = TRUE]
      \/ DirectDataProbe(n, m, s).s = HandshakeFailure([s EXCEPT !.probed = TRUE])
  BY Zenon DEF DirectDataProbe
<1> QED BY Zenon, <1>1, <1>2, <1>3, AlikeItself
-----------------------------------------------------------------------------
(* The account under each event.                                           *)

\* Time passes: nothing is due, and this tick's packet is still to be sent.
LEMMA AccountTick ==
  ASSUME NEW x \in 0..(HoleTtl + 1), NEW y \in 0..(HoleTtl + 1), NEW a \in Nat, NEW done,
         Account(x, y, a, FALSE, done)
  PROVE  Account(Later(x, HoleTtl + 1), Later(y, HoleTtl + 1), a, TRUE, FALSE)
  BY HoleTtlPositive DEF Account, Later, One

\* The tick's packet, on the path alone or not; the clock of sent data is stamped or not.
LEMMA AccountPacket ==
  ASSUME NEW x \in 0..(HoleTtl + 1), NEW y \in 0..(HoleTtl + 1), NEW a \in Nat, NEW due,
         Account(x, y, a, due, FALSE)
  PROVE  /\ Account(x, y, a, due, TRUE)
         /\ Account(x, 0, a + 1, due, TRUE)
         /\ Account(x, 0, a, due, TRUE)
         /\ a + 1 <= Allowance
  BY HoleTtlPositive DEF Account, One, Allowance

\* Other data on the path: an idle probe.
LEMMA AccountProbe ==
  ASSUME NEW x \in 0..(HoleTtl + 1), NEW y \in 0..(HoleTtl + 1), NEW a \in Nat, NEW due, NEW done,
         Account(x, y, a, due, done)
  PROVE  Account(x, 0, a, due, done)
  BY HoleTtlPositive DEF Account, One

\* The visit of the timer loop, which leaves the path believed in.
LEMMA AccountVisit ==
  ASSUME NEW x \in 0..(HoleTtl + 1), NEW y \in 0..(HoleTtl + 1), NEW a \in Nat, NEW due, NEW done,
         Account(x, y, a, due, done), ~(y <= HoleTtl /\ x > HoleTtl)
  PROVE  Account(x, y, a, FALSE, done)
  BY HoleTtlPositive DEF Account, One

\* Data arrives on the path.
LEMMA AccountArrival ==
  ASSUME NEW y, NEW due, NEW done PROVE Account(0, y, 0, due, done)
  BY HoleTtlPositive DEF Account, One

-----------------------------------------------------------------------------
(* The state.                                                              *)

\* An assignment to one session leaves the others alone.
LEMMA SetSession ==
  ASSUME Shape, NEW a, NEW b, NEW v, sess' = [sess EXCEPT ![a][b] = v]
  PROVE  /\ sess' = [n \in Nodes |-> sess'[n]]
         /\ \A n \in Nodes : sess'[n] = [m \in Others(n) |-> sess'[n][m]]
         /\ \A n \in Nodes : \A m \in Others(n) :
              sess'[n][m] = IF n = a /\ m = b THEN v ELSE sess[n][m]
<1>1. sess = [n \in Nodes |-> sess[n]] /\ \A n \in Nodes : sess[n] = [m \in Others(n) |-> sess[n][m]]
  BY Zenon DEF Shape
<1>2. DOMAIN sess = Nodes /\ \A n \in Nodes : DOMAIN sess[n] = Others(n)
  BY Zenon, <1>1
<1>3. sess' = [n \in Nodes |-> IF n = a THEN [sess[n] EXCEPT ![b] = v] ELSE sess[n]]
  BY Zenon, <1>1
<1>4. sess' = [n \in Nodes |-> sess'[n]]
  BY Zenon, <1>3
<1>5. ASSUME NEW n \in Nodes
      PROVE  /\ sess'[n] = [m \in Others(n) |-> sess'[n][m]]
             /\ \A m \in Others(n) : sess'[n][m] = IF n = a /\ m = b THEN v ELSE sess[n][m]
  <2>1. sess'[n] = IF n = a THEN [sess[n] EXCEPT ![b] = v] ELSE sess[n]
    BY Zenon, <1>3
  <2>2. PICK g : g = sess[n]
    BY Zenon
  <2>3. g = [m \in Others(n) |-> g[m]]
    BY Zenon, <1>1, <2>2
  <2>4. [g EXCEPT ![b] = v] = [m \in Others(n) |-> IF m = b THEN v ELSE g[m]]
    BY Zenon, <2>3
  <2>5. sess'[n] = [m \in Others(n) |-> IF n = a /\ m = b THEN v ELSE g[m]]
    BY <2>1, <2>2, <2>3, <2>4
  <2> QED BY ZenonT(40), <2>2, <2>5
<1> QED BY Zenon, <1>4, <1>5

\* An assignment of what is there.
LEMMA SameSession ==
  ASSUME Shape, NEW a \in Nodes, NEW b \in Others(a)
  PROVE  sess = [sess EXCEPT ![a][b] = sess[a][b]]
  BY DEF Shape

\* A pair nothing happens to.
LEMMA PairStays ==
  ASSUME NEW n \in Nodes, NEW m \in Others(n), PairInv(n, m),
         sess'[n][m] = sess[n][m], alone'[<<n, m>>] = alone[<<n, m>>],
         (m \in todo[n])' <=> m \in todo[n], (<<n, m>> \in said)' <=> <<n, m>> \in said
  PROVE  PairInv(n, m)'
<1>1. One(<<n, m>> \in said') = One(<<n, m>> \in said)
  BY Zenon DEF One
<1> QED BY Zenon, <1>1 DEF PairInv, Account

\* A session that changed in nothing path selection sees, but for data sent on its path.
LEMMA PairProbed ==
  ASSUME NEW n \in Nodes, NEW m \in Others(n), PairInv(n, m),
         NEW r, sess'[n][m] = r, r = [f \in Fields |-> r[f]],
         r.confirmed = sess[n][m].confirmed, r.drx = sess[n][m].drx,
         r.dtx = sess[n][m].dtx \/ r.dtx = 0,
         alone'[<<n, m>>] = alone[<<n, m>>], todo' = todo, said' = said
  PROVE  PairInv(n, m)'
<1> DEFINE s == sess[n][m]
<1>1. Session(s) /\ alone[<<n, m>>] \in Nat
  BY Zenon DEF PairInv
<1>2. 0 \in 0..(HoleTtl + 1)
  BY HoleTtlPositive
<1>3. Session(r)
  BY Zenon, <1>1, <1>2 DEF Session
<1>4. ASSUME n \notin NoRelay, s.confirmed
      PROVE  Account(s.drx, r.dtx, alone[<<n, m>>], m \in todo[n], <<n, m>> \in said)
  <2>1. Account(s.drx, s.dtx, alone[<<n, m>>], m \in todo[n], <<n, m>> \in said)
    BY Zenon, <1>4 DEF PairInv
  <2> QED BY Zenon, <1>1, <2>1, AccountProbe DEF Session
<1> QED BY Zenon, <1>1, <1>3, <1>4 DEF PairInv

\* A session that changed in nothing path selection sees.
LEMMA PairAlike ==
  ASSUME NEW n \in Nodes, NEW m \in Others(n), PairInv(n, m),
         Alike(sess'[n][m], sess[n][m]), alone'[<<n, m>>] = alone[<<n, m>>],
         todo' = todo, said' = said
  PROVE  PairInv(n, m)'
  BY Zenon, PairProbed DEF Alike

\* The pairs are those of a node and another.
LEMMA PairsAre == \A n \in Nodes : \A m \in Others(n) : <<n, m>> \in Pairs
  BY DEF Pairs, Others
\* Where there is a relay floor, only a confirmed path is used alone, and the use is stamped.
LEMMA AloneConfirmed ==
  ASSUME NEW n \in Nodes \ NoRelay, NEW m, SentAlone(n, m), Session(sess[n][m])
  PROVE  sess[n][m].confirmed /\ SendWire(n, m, sess[n][m], "app").s.dtx = 0
<1> DEFINE s == sess[n][m]
           w == SendWire(n, m, s, "app")
<1>1. CASE s.confirmed /\ s.endpoint
  <2>1. w.s = [s EXCEPT !.dtx = 0]
    BY Zenon, <1>1 DEF SendWire, NoteDirectTx, Data
  <2> QED BY SMTT(30), <1>1, <2>1 DEF Session, Fields
<1>2. CASE ~(s.confirmed /\ s.endpoint)
  <2>1. \/ w.frames = {Frame(n, m, "app", {"direct", "relay"})}
        \/ w.frames = {Frame(n, m, "app", {"relay"})}
    BY Zenon, <1>2 DEF SendWire
  <2>2. /\ Frame(n, m, "app", {"direct", "relay"}).via # {"direct"}
        /\ Frame(n, m, "app", {"relay"}).via # {"direct"}
    BY DEF Frame
  <2> QED BY Zenon, <2>1, <2>2 DEF SentAlone
<1> QED BY Zenon, <1>1, <1>2

\* tun_read_loop: a packet on a confirmed path is one more to its account.
LEMMA TunReadKeeps ==
  ASSUME PathInv, NEW a \in Nodes, NEW b \in Others(a), TunRead(a, b) PROVE PathInv'
<1> DEFINE s == sess[a][b]
           w == SendWire(a, b, s, "app")
           c == [s EXCEPT !.tunn = "cold"]
           v == SendWire(a, b, c, "init")
<1>1. /\ Shape /\ Session(s) /\ <<a, b>> \in Pairs
      /\ <<a, b>> \notin said /\ said' = said \cup {<<a, b>>} /\ todo' = todo
      /\ alone' = [alone EXCEPT ![<<a, b>>] = IF SentAlone(a, b) THEN @ + 1 ELSE @]
      /\ alone = [p \in Pairs |-> alone[p]]
  BY Zenon, PairsAre DEF PathInv, PairInv, TunRead, Shape
<1>2. PICK r : /\ sess' = [sess EXCEPT ![a][b] = r]
               /\ r = w.s \/ (r \in {s, v.s} /\ ~SentAlone(a, b))
  <2>1. \/ sess' = sess /\ ~SentAlone(a, b)
        \/ sess' = [sess EXCEPT ![a][b] = w.s]
        \/ sess' = [sess EXCEPT ![a][b] = v.s] /\ ~SentAlone(a, b)
    BY Zenon DEF TunRead, Encapsulate, Emit, SentAlone
  <2>2. sess = [sess EXCEPT ![a][b] = s]
    BY Zenon, <1>1, SameSession
  <2> HIDE DEF s, w, v
  <2>3. CASE sess' = sess /\ ~SentAlone(a, b)
    BY Zenon, <2>2, <2>3
  <2>4. CASE sess' = [sess EXCEPT ![a][b] = w.s]
    BY Zenon, <2>4
  <2>5. CASE sess' = [sess EXCEPT ![a][b] = v.s] /\ ~SentAlone(a, b)
    BY Zenon, <2>5
  <2> QED BY Zenon, <2>1, <2>3, <2>4, <2>5
<1>3. /\ alone' = [p \in Pairs |-> alone'[p]]
      /\ alone'[<<a, b>>] = IF SentAlone(a, b) THEN alone[<<a, b>>] + 1 ELSE alone[<<a, b>>]
      /\ \A p \in Pairs : p # <<a, b>> => alone'[p] = alone[p]
  BY Zenon, <1>1
<1>4. /\ sess' = [n \in Nodes |-> sess'[n]]
      /\ \A n \in Nodes : sess'[n] = [m \in Others(n) |-> sess'[n][m]]
      /\ \A n \in Nodes : \A m \in Others(n) :
           sess'[n][m] = IF n = a /\ m = b THEN r ELSE sess[n][m]
  BY Zenon, <1>1, <1>2, SetSession
<1>5. Shape'
  BY Zenon, <1>1, <1>3, <1>4 DEF Shape
<1>6. ASSUME NEW n \in Nodes, NEW m \in Others(n), n # a \/ m # b PROVE PairInv(n, m)'
  <2>1. <<n, m>> # <<a, b>> /\ <<n, m>> \in Pairs
    BY Zenon, <1>6, PairsAre
  <2>2. PairInv(n, m)
    BY Zenon DEF PathInv
  <2> QED BY ZenonT(40), <1>1, <1>3, <1>4, <1>6, <2>1, <2>2, PairStays
<1>7. Alike(c, s) /\ Alike(s, s)
  BY Zenon, <1>1, DirectRxAlike, AlikeItself DEF Session
<1>8. Alike(v.s, s)
  <2>1. c = [f \in Fields |-> c[f]] /\ "init" \notin Data
    BY Zenon, <1>7 DEF Alike, Data
  <2> HIDE DEF c
  <2>2. Alike(v.s, c)
    BY Zenon, <2>1, SendWireEffect
  <2> HIDE DEF v
  <2> QED BY Zenon, <1>7, <2>2, AlikeTransitive
<1>9. /\ w.s = [f \in Fields |-> w.s[f]] /\ w.s.confirmed = s.confirmed /\ w.s.drx = s.drx
      /\ w.s.dtx = s.dtx \/ w.s.dtx = 0
  <2>1. s = [f \in Fields |-> s[f]]
    BY Zenon, <1>1 DEF Session
  <2> HIDE DEF s
  <2> QED BY <2>1, SendWireEffect
<1>10. /\ r = [f \in Fields |-> r[f]] /\ r.confirmed = s.confirmed /\ r.drx = s.drx
       /\ r.dtx = s.dtx \/ r.dtx = 0
       /\ SentAlone(a, b) => r = w.s
  <2> HIDE DEF s, v, w
  <2> QED BY Zenon, <1>2, <1>7, <1>8, <1>9 DEF Alike
<1>11. Session(r)
  <2>1. 0 \in 0..(HoleTtl + 1)
    BY HoleTtlPositive
  <2> QED BY Zenon, <1>1, <1>10, <2>1 DEF Session
<1>12. PairInv(a, b)'
  <2>1. PairInv(a, b) /\ alone[<<a, b>>] \in Nat
    BY Zenon DEF PathInv, PairInv
  <2>2. alone'[<<a, b>>] \in Nat
    BY <1>3, <2>1
  <2>3. ASSUME a \notin NoRelay
        PROVE  /\ alone'[<<a, b>>] <= Allowance
               /\ r.confirmed => Account(r.drx, r.dtx, alone'[<<a, b>>], b \in todo[a], TRUE)
    <3>1. CASE s.confirmed
      <4>1. Account(s.drx, s.dtx, alone[<<a, b>>], b \in todo[a], FALSE)
        <5>1. Account(s.drx, s.dtx, alone[<<a, b>>], b \in todo[a], <<a, b>> \in said)
          BY Zenon, <2>1, <2>3, <3>1 DEF PairInv
        <5>2. One(<<a, b>> \in said) = One(FALSE)
          BY Zenon, <1>1 DEF One
        <5> QED BY Zenon, <5>1, <5>2 DEF Account
      <4>2. /\ Account(s.drx, s.dtx, alone[<<a, b>>], b \in todo[a], TRUE)
            /\ Account(s.drx, 0, alone[<<a, b>>] + 1, b \in todo[a], TRUE)
            /\ Account(s.drx, 0, alone[<<a, b>>], b \in todo[a], TRUE)
            /\ alone[<<a, b>>] + 1 <= Allowance
        BY Zenon, <1>1, <2>1, <4>1, AccountPacket DEF Session
      <4>3. SentAlone(a, b) => r.dtx = 0
        <5>1. a \in Nodes \ NoRelay
          BY Zenon, <2>3
        <5>2. SentAlone(a, b) => w.s.dtx = 0
          BY Zenon, <1>1, <5>1, AloneConfirmed
        <5> HIDE DEF w
        <5> QED BY Zenon, <1>10, <5>2
      <4>4. alone[<<a, b>>] <= Allowance
        BY Zenon, <2>1, <2>3 DEF PairInv
      <4> QED BY Zenon, <1>3, <1>10, <4>2, <4>3, <4>4
    <3>2. CASE ~s.confirmed
      <4>1. ~SentAlone(a, b)
        BY Zenon, <1>1, <2>3, <3>2, AloneConfirmed
      <4> QED BY Zenon, <1>3, <1>10, <2>1, <2>3, <3>2, <4>1 DEF PairInv
    <3> QED BY Zenon, <3>1, <3>2
  <2>4. One(<<a, b>> \in said') = One(TRUE)
    BY Zenon, <1>1 DEF One
  <2>5. sess'[a][b] = r
    BY Zenon, <1>4
  <2> QED BY Zenon, <1>1, <2>5, <1>11, <2>2, <2>3, <2>4 DEF PairInv, Account
<1> QED BY Zenon, <1>5, <1>6, <1>12 DEF PathInv
\* The two downgrades of a visit: a path they leave confirmed has brought data lately or has
\* not been used lately.
LEMMA DowngradeEffect ==
  ASSUME NEW s, Session(s)
  PROVE  LET r == DowngradeIfBlackholed(DowngradeIfStale(s))
         IN /\ r = [f \in Fields |-> r[f]] /\ r.confirmed \in BOOLEAN
            /\ r.drx = s.drx /\ r.dtx = s.dtx
            /\ r.confirmed => s.confirmed /\ ~(s.dtx <= HoleTtl /\ s.drx > HoleTtl)
<1> DEFINE d(t) == HandshakeFailure([t EXCEPT !.confirmed = FALSE])
<1>1. ASSUME NEW t, t = [f \in Fields |-> t[f]]
      PROVE  /\ d(t) = [f \in Fields |-> d(t)[f]] /\ d(t).confirmed = FALSE
             /\ d(t).drx = t.drx /\ d(t).dtx = t.dtx
  <2> DEFINE u == [t EXCEPT !.confirmed = FALSE]
  <2>1. u = [f \in Fields |-> u[f]] /\ u.confirmed = FALSE /\ u.drx = t.drx /\ u.dtx = t.dtx
    BY <1>1 DEF Fields
  <2> HIDE DEF u
  <2>2. Alike(HandshakeFailure(u), u)
    BY Zenon, <2>1, FailureAlike
  <2> QED BY Zenon, <2>1, <2>2 DEF Alike, u
<1> HIDE DEF d
<1>2. PICK q : q = DowngradeIfStale(s)
  BY Zenon
<1>3. q = s \/ q = d(s)
  BY Zenon, <1>2 DEF DowngradeIfStale, d
<1>4. PICK r : r = DowngradeIfBlackholed(q)
  BY Zenon
<1>5. /\ q.confirmed /\ q.dtx <= HoleTtl /\ q.drx > HoleTtl => r = d(q)
      /\ ~(q.confirmed /\ q.dtx <= HoleTtl /\ q.drx > HoleTtl) => r = q
  BY Zenon, <1>4 DEF DowngradeIfBlackholed, d
<1>6. s = [f \in Fields |-> s[f]] /\ s.confirmed \in BOOLEAN
  BY Zenon DEF Session
<1>7. /\ q = [f \in Fields |-> q[f]] /\ q.confirmed \in BOOLEAN
      /\ q.drx = s.drx /\ q.dtx = s.dtx /\ (q.confirmed => s.confirmed)
  BY Zenon, <1>1, <1>3, <1>6
<1>8. /\ r = [f \in Fields |-> r[f]] /\ r.confirmed \in BOOLEAN
      /\ r.drx = s.drx /\ r.dtx = s.dtx
      /\ r.confirmed => s.confirmed /\ ~(s.dtx <= HoleTtl /\ s.drx > HoleTtl)
  <2>1. d(q) = [f \in Fields |-> d(q)[f]] /\ d(q).confirmed = FALSE
        /\ d(q).drx = q.drx /\ d(q).dtx = q.dtx
    BY Zenon, <1>1, <1>7
  <2> QED BY Zenon, <1>5, <1>7, <2>1
<1> QED BY Zenon, <1>2, <1>4, <1>8

\* timer_loop: a path that is in use and brings no data back does not outlive the visit.
LEMMA VisitKeeps ==
  ASSUME PathInv, NEW a \in Nodes, NEW b \in Others(a), Visit(a, b) PROVE PathInv'
<1> DEFINE s == sess[a][b]
<1>1. /\ Shape /\ Session(s) /\ said' = said
      /\ todo' = [todo EXCEPT ![a] = @ \ {b}]
  BY Zenon DEF PathInv, PairInv, Visit, Shape
<1>2. PICK q : q = DowngradeIfBlackholed(DowngradeIfStale(s))
  BY Zenon
<1>3. /\ q = [f \in Fields |-> q[f]] /\ q.confirmed \in BOOLEAN
      /\ q.drx = s.drx /\ q.dtx = s.dtx
      /\ q.confirmed => s.confirmed /\ ~(s.dtx <= HoleTtl /\ s.drx > HoleTtl)
  <2> HIDE DEF s
  <2> QED BY <1>1, <1>2, DowngradeEffect
<1>4. PICK r : sess' = [sess EXCEPT ![a][b] = r] /\ Alike(r, q)
  <2>1. CASE a \notin NoRelay /\ RearmDue(q)
    <3>1. PICK k : k = Later(q.streak, Enough(RearmBase, RearmCap))
      BY Zenon
    <3> DEFINE v == [q EXCEPT !.tunn = "cold", !.rearm = 0, !.streak = k]
    <3>2. sess' = [sess EXCEPT ![a][b] = v]
      BY Zenon, <1>2, <2>1, <3>1 DEF Visit, Rearm
    <3>3. Alike(v, q)
      BY <1>3 DEF Alike, Fields
    <3> HIDE DEF v
    <3> QED BY Zenon, <3>2, <3>3
  <2>2. CASE ~(a \notin NoRelay /\ RearmDue(q))
    <3> DEFINE kinds == TimerFrame(q)
               z == [q EXCEPT !.keep = 0]
               x == CHOOSE k \in kinds : TRUE
               first == IF kinds = {} THEN [s |-> q, frames |-> {}] ELSE SendWire(a, b, z, x)
               v == DirectDataProbe(a, b, first.s).s
    <3>1. sess' = [sess EXCEPT ![a][b] = v]
      BY Zenon, <1>2, <2>2 DEF Visit
    <3>2. Alike(first.s, q)
      <4>1. CASE kinds = {}
        <5>1. first.s = q
          BY Zenon, <4>1
        <5> QED BY Zenon, <1>3, <5>1, AlikeItself
      <4>2. CASE kinds # {}
        <5>1. kinds = {"keep"} \/ kinds = {"init"}
          BY Zenon, <4>2 DEF TimerFrame
        <5>2. x \in kinds
          BY Zenon, <4>2
        <5>3. x \notin Data
          BY <5>1, <5>2 DEF Data
        <5>4. Alike(z, q)
          BY Zenon, <1>3, DirectRxAlike
        <5>5. z = [f \in Fields |-> z[f]]
          BY Zenon, <5>4 DEF Alike
        <5>6. first.s = SendWire(a, b, z, x).s
          BY Zenon, <4>2
        <5> HIDE DEF z, x
        <5>7. Alike(SendWire(a, b, z, x).s, z)
          BY Zenon, <5>3, <5>5, SendWireEffect
        <5> HIDE DEF first
        <5> QED BY Zenon, <5>4, <5>6, <5>7, AlikeTransitive
      <4> QED BY Zenon, <4>1, <4>2
    <3> HIDE DEF first
    <3>3. first.s = [f \in Fields |-> first.s[f]]
      BY Zenon, <3>2 DEF Alike
    <3>4. Alike(v, first.s)
      BY Zenon, <3>3, ProbeAlike
    <3> HIDE DEF v
    <3>5. Alike(v, q)
      BY Zenon, <3>2, <3>4, AlikeTransitive
    <3> QED BY Zenon, <3>1, <3>5
  <2> QED BY Zenon, <2>1, <2>2
<1>5. /\ sess' = [n \in Nodes |-> sess'[n]]
      /\ \A n \in Nodes : sess'[n] = [m \in Others(n) |-> sess'[n][m]]
      /\ \A n \in Nodes : \A m \in Others(n) :
           sess'[n][m] = IF n = a /\ m = b THEN r ELSE sess[n][m]
  <2>1. sess' = [sess EXCEPT ![a][b] = r]
    BY Zenon, <1>4
  <2>2. Shape
    BY Zenon, <1>1
  <2> QED BY ONLY ZenonT(90), <2>1, <2>2, SetSession
<1>6. /\ todo' = [n \in Nodes |-> todo'[n]]
      /\ \A n \in Nodes : todo'[n] = IF n = a THEN todo[n] \ {b} ELSE todo[n]
  BY Zenon, <1>1 DEF Shape
<1>7. alone' = [alone EXCEPT ![<<a, b>>] = IF sess'[a][b].confirmed THEN @ ELSE Allowance]
  BY Zenon DEF Visit
<1>8. /\ alone' = [p \in Pairs |-> alone'[p]]
       /\ \A p \in Pairs : alone'[p] = IF p = <<a, b>> /\ ~sess'[a][b].confirmed
                                        THEN Allowance ELSE alone[p]
  BY Zenon, <1>1, <1>7 DEF Shape
<1>9. Shape'
  BY Zenon, <1>1, <1>5, <1>6, <1>8 DEF Shape
<1>10. ASSUME NEW n \in Nodes, NEW m \in Others(n), n # a \/ m # b PROVE PairInv(n, m)'
  <2>1. PairInv(n, m)
    BY Zenon DEF PathInv
  <2>2. m \in todo'[n] <=> m \in todo[n]
    BY Zenon, <1>6, <1>10
  <2>3. sess'[n][m] = sess[n][m]
    BY Zenon, <1>5, <1>10
  <2>4. <<n, m>> \in Pairs /\ <<n, m>> # <<a, b>>
    BY Zenon, <1>10, PairsAre
  <2>5. alone'[<<n, m>>] = alone[<<n, m>>]
    BY Zenon, <1>8, <2>4
  <2> QED BY Zenon, <1>1, <2>1, <2>2, <2>3, <2>5, PairStays
<1>11. PairInv(a, b)'
  <2>1. sess'[a][b] = r /\ ~(b \in todo'[a])
    BY Zenon, <1>5, <1>6
  <2>2. Session(r) /\ r.drx = s.drx /\ r.dtx = s.dtx
    BY Zenon, <1>1, <1>3, <1>4 DEF Session, Alike
  <2>3. PairInv(a, b) /\ alone[<<a, b>>] \in Nat
    BY Zenon DEF PathInv, PairInv
  <2>4. ASSUME a \notin NoRelay, r.confirmed
        PROVE  Account(s.drx, s.dtx, alone[<<a, b>>], FALSE, <<a, b>> \in said)
    <3>1. s.confirmed /\ ~(s.dtx <= HoleTtl /\ s.drx > HoleTtl)
      BY Zenon, <1>3, <1>4, <2>4 DEF Alike
    <3>2. Account(s.drx, s.dtx, alone[<<a, b>>], b \in todo[a], <<a, b>> \in said)
      BY Zenon, <2>3, <2>4, <3>1 DEF PairInv
    <3> QED BY Zenon, <1>1, <2>3, <3>1, <3>2, AccountVisit DEF Session
  <2>5. a \notin NoRelay => alone[<<a, b>>] <= Allowance
    BY Zenon, <2>3 DEF PairInv
  <2>6. ASSUME a \notin NoRelay, r.confirmed
        PROVE  Account(r.drx, r.dtx, alone[<<a, b>>], b \in todo'[a], <<a, b>> \in said)
    BY Zenon, <2>1, <2>2, <2>4, <2>6 DEF Account
  <2>7. alone'[<<a, b>>] = IF r.confirmed THEN alone[<<a, b>>] ELSE Allowance
    BY Zenon, <1>8, <2>1, PairsAre
  <2>8. CASE r.confirmed
    BY Zenon, <1>1, <2>1, <2>2, <2>3, <2>5, <2>6, <2>7, <2>8 DEF PairInv
  <2>9. CASE ~r.confirmed
    BY Zenon, <1>1, <2>1, <2>2, <2>7, <2>9, AllowanceBound DEF PairInv
  <2> QED BY Zenon, <2>8, <2>9
<1> QED BY Zenon, <1>9, <1>10, <1>11 DEF PathInv
\* A step that assigns one session and leaves the accounts and the tick alone.
LEMMA OneSession ==
  ASSUME PathInv, NEW a, NEW b, NEW r, sess' = [sess EXCEPT ![a][b] = r],
         alone' = alone, todo' = todo, said' = said,
         a \in Nodes /\ b \in Others(a) =>
           /\ r = [f \in Fields |-> r[f]]
           /\ r.confirmed = sess[a][b].confirmed /\ r.drx = sess[a][b].drx
           /\ r.dtx = sess[a][b].dtx \/ r.dtx = 0
  PROVE  PathInv'
<1>1. Shape
  BY Zenon DEF PathInv
<1>2. /\ sess' = [n \in Nodes |-> sess'[n]]
      /\ \A n \in Nodes : sess'[n] = [m \in Others(n) |-> sess'[n][m]]
      /\ \A n \in Nodes : \A m \in Others(n) :
           sess'[n][m] = IF n = a /\ m = b THEN r ELSE sess[n][m]
  BY Zenon, <1>1, SetSession
<1>3. Shape'
  BY Zenon, <1>1, <1>2 DEF Shape
<1>4. ASSUME NEW n \in Nodes, NEW m \in Others(n) PROVE PairInv(n, m)'
  <2>1. PairInv(n, m)
    BY Zenon DEF PathInv
  <2>2. CASE n = a /\ m = b
    <3>1. sess'[n][m] = r
      BY Zenon, <1>2, <2>2
    <3>2. a \in Nodes /\ b \in Others(a)
      BY Zenon, <2>2
    <3>3. /\ r = [f \in Fields |-> r[f]]
          /\ r.confirmed = sess[n][m].confirmed /\ r.drx = sess[n][m].drx
          /\ r.dtx = sess[n][m].dtx \/ r.dtx = 0
      BY Zenon, <2>2, <3>2
    <3>4. alone'[<<n, m>>] = alone[<<n, m>>] /\ todo' = todo /\ said' = said
      BY Zenon
    <3> QED BY ONLY ZenonT(40), <2>1, <3>1, <3>3, <3>4, PairProbed, n \in Nodes, m \in Others(n)
  <2>3. CASE ~(n = a /\ m = b)
    <3>1. sess'[n][m] = sess[n][m]
      BY Zenon, <1>2, <2>3
    <3> QED BY Zenon, <2>1, <3>1, PairStays
  <2> QED BY Zenon, <2>2, <2>3
<1> QED BY Zenon, <1>3, <1>4 DEF PathInv

\* A step that touches neither sessions nor accounts.
LEMMA NothingTouched ==
  ASSUME PathInv, UNCHANGED <<sess, alone, todo, said>> PROVE PathInv'
<1>1. sess' = sess /\ alone' = alone /\ todo' = todo /\ said' = said
  BY Zenon
<1>2. Shape'
  BY Zenon, <1>1 DEF PathInv, Shape
<1>3. \A n \in Nodes : \A m \in Others(n) : PairInv(n, m)'
  BY Zenon, <1>1, PairStays DEF PathInv
<1> QED BY Zenon, <1>2, <1>3 DEF PathInv

\* maybe_idle_probe: data on the path that is on nobody's account.
LEMMA IdleProbeKeeps ==
  ASSUME PathInv, NEW a \in Nodes, IdleProbe(a) PROVE PathInv'
<1>1. alone' = alone /\ todo' = todo /\ said' = said
  BY Zenon DEF IdleProbe
<1>2. PICK b : b = IdleProbeTarget(a)
  BY Zenon
<1> DEFINE s == sess[a][b]
           send == IF s.tunn = "up" THEN {"probe"} ELSE IF s.tunn = "expired" THEN {"init"} ELSE {}
           z == [s EXCEPT !.tunn = IF s.tunn = "expired" THEN "cold" ELSE @]
           w == SendWire(a, b, z, CHOOSE k \in send : TRUE)
<1>3. sess' = sess \/ sess' = [sess EXCEPT ![a][b] = w.s]
  BY ZenonT(40), <1>2 DEF IdleProbe
<1>4. CASE sess' = sess
  BY Zenon, <1>1, <1>4, NothingTouched
<1>5. CASE sess' = [sess EXCEPT ![a][b] = w.s]
  <2>1. ASSUME b \in Others(a)
        PROVE  /\ w.s = [f \in Fields |-> w.s[f]]
               /\ w.s.confirmed = s.confirmed /\ w.s.drx = s.drx
               /\ w.s.dtx = s.dtx \/ w.s.dtx = 0
    <3>1. s = [f \in Fields |-> s[f]]
      BY Zenon, <2>1 DEF PathInv, PairInv, Session
    <3>2. PICK t : z = [s EXCEPT !.tunn = t]
      BY Zenon
    <3>3. Alike(z, s)
      <4> HIDE DEF s, z
      <4> QED BY Zenon, <3>1, <3>2, DirectRxAlike
    <3>4. z = [f \in Fields |-> z[f]]
      BY Zenon, <3>3 DEF Alike
    <3>5. PICK kind : kind = CHOOSE k \in send : TRUE
      BY Zenon
    <3> HIDE DEF z
    <3>6. w = SendWire(a, b, z, kind)
      BY Zenon, <3>5
    <3> HIDE DEF w, s
    <3>7. /\ w.s = [f \in Fields |-> w.s[f]]
          /\ w.s.confirmed = z.confirmed /\ w.s.drx = z.drx
          /\ w.s.dtx = z.dtx \/ w.s.dtx = 0
      BY <3>4, <3>6, SendWireEffect
    <3> QED BY Zenon, <3>3, <3>7 DEF Alike
  <2> HIDE DEF w
  <2> QED BY Zenon, <1>1, <1>5, <2>1, OneSession
<1> QED BY Zenon, <1>3, <1>4, <1>5

\* process_inbound_datagram, apply_wg_action: data on the path clears its account; nothing else
\* that arrives touches verdict, clocks or account.
LEMMA ReceiveKeeps ==
  ASSUME PathInv, NEW f, NEW v, Receive(f, v) PROVE PathInv'
<1> DEFINE a == f.to
           b == f.from
           s == sess[a][b]
           s1 == IF v = "direct" THEN NoteDirectRx([s EXCEPT !.endpoint = TRUE]) ELSE s
           up == [s1 EXCEPT !.tunn = "up"]
           answer == IF f.kind = "init" THEN "resp" ELSE "keep"
           w == SendWire(a, b, up, answer)
<1>1. todo' = todo /\ said' = said
  BY Zenon DEF Receive
<1>2. \/ sess' = sess /\ alone' = alone
      \/ sess' = [sess EXCEPT ![a][b] = w.s] /\ alone' = alone
      \/ sess' = [sess EXCEPT ![a][b] = s1] /\ alone' = alone
      \/ /\ v = "direct"
         /\ sess' = [sess EXCEPT ![a][b] = ConfirmDirect(s1)]
         /\ alone' = [alone EXCEPT ![<<a, b>>] = 0]
  <2>1. CASE ~Accepted(f, v, s)
    BY Zenon, <2>1 DEF Receive
  <2>2. CASE Accepted(f, v, s) /\ f.kind \in {"init", "resp"}
    BY Zenon, <2>2 DEF Receive
  <2>3. CASE Accepted(f, v, s) /\ f.kind \notin {"init", "resp"} /\ f.kind = "keep"
    BY Zenon, <2>3 DEF Receive
  <2>4. CASE Accepted(f, v, s) /\ f.kind \notin {"init", "resp"} /\ f.kind # "keep" /\ v = "direct"
    BY Zenon, <2>4 DEF Receive
  <2>5. CASE Accepted(f, v, s) /\ f.kind \notin {"init", "resp"} /\ f.kind # "keep" /\ v # "direct"
    BY Zenon, <2>5 DEF Receive
  <2> QED BY Zenon, <2>1, <2>2, <2>3, <2>4, <2>5
<1>3. ASSUME a \in Nodes, b \in Others(a)
      PROVE  s = [g \in Fields |-> s[g]] /\ Alike(s1, s) /\ Alike(w.s, s)
  <2>1. s = [g \in Fields |-> s[g]]
    BY Zenon, <1>3 DEF PathInv, PairInv, Session
  <2>2. Alike(s1, s)
    <3>1. Alike(NoteDirectRx([s EXCEPT !.endpoint = TRUE]), s) /\ Alike(s, s)
      <4> HIDE DEF s
      <4> QED BY Zenon, <2>1, DirectRxAlike, AlikeItself
    <3> HIDE DEF s
    <3> QED BY Zenon, <3>1
  <2> HIDE DEF s1
  <2>3. Alike(up, s1)
    BY ZenonT(40), <2>2, DirectRxAlike DEF Alike
  <2>4. up = [g \in Fields |-> up[g]] /\ answer \notin Data
    BY Zenon, <2>3 DEF Alike, Data
  <2> HIDE DEF up, answer
  <2>5. Alike(w.s, up)
    BY Zenon, <2>4, SendWireEffect
  <2> HIDE DEF w
  <2> QED BY Zenon, <2>1, <2>2, <2>3, <2>5, AlikeTransitive
<1> HIDE DEF w, s1
<1>4. CASE sess' = sess /\ alone' = alone
  BY Zenon, <1>1, <1>4, NothingTouched
<1>5. CASE sess' = [sess EXCEPT ![a][b] = w.s] /\ alone' = alone
  BY Zenon, <1>1, <1>3, <1>5, OneSession DEF Alike
<1>6. CASE sess' = [sess EXCEPT ![a][b] = s1] /\ alone' = alone
  BY Zenon, <1>1, <1>3, <1>6, OneSession DEF Alike
<1>7. CASE /\ sess' = [sess EXCEPT ![a][b] = ConfirmDirect(s1)]
           /\ alone' = [alone EXCEPT ![<<a, b>>] = 0]
  <2>1. PICK r : r = ConfirmDirect(s1)
    BY Zenon
  <2>2. Shape
    BY Zenon DEF PathInv
  <2>3. /\ sess' = [n \in Nodes |-> sess'[n]]
        /\ \A n \in Nodes : sess'[n] = [m \in Others(n) |-> sess'[n][m]]
        /\ \A n \in Nodes : \A m \in Others(n) :
             sess'[n][m] = IF n = a /\ m = b THEN r ELSE sess[n][m]
    BY ZenonT(40), <1>7, <2>1, <2>2, SetSession
  <2>4. /\ alone' = [p \in Pairs |-> alone'[p]]
        /\ \A p \in Pairs : alone'[p] = IF p = <<a, b>> THEN 0 ELSE alone[p]
    BY Zenon, <1>7, <2>2 DEF Shape
  <2>5. Shape'
    BY Zenon, <1>1, <2>2, <2>3, <2>4 DEF Shape
  <2>6. ASSUME NEW n \in Nodes, NEW m \in Others(n) PROVE PairInv(n, m)'
    <3>1. PairInv(n, m) /\ <<n, m>> \in Pairs
      BY Zenon, PairsAre DEF PathInv
    <3>2. CASE n = a /\ m = b
      <4>1. /\ sess'[n][m] = r /\ alone'[<<n, m>>] = 0
            /\ Alike(s1, s) /\ Session(s)
        BY Zenon, <1>3, <2>3, <2>4, <3>1, <3>2 DEF PairInv
      <4>2. s1 = [g \in Fields |-> s1[g]] /\ s1.dtx = s.dtx
        BY Zenon, <4>1 DEF Alike
      <4>3. r = [g \in Fields |-> r[g]] /\ r.confirmed = TRUE /\ r.drx = 0 /\ r.dtx = s.dtx
        <5>1. r = [s1 EXCEPT !.confirmed = TRUE, !.rx = 0, !.drx = 0]
          BY Zenon, <2>1 DEF ConfirmDirect
        <5> HIDE DEF s
        <5> QED BY <4>2, <5>1 DEF Fields
      <4>4. 0 \in 0..(HoleTtl + 1) /\ 0 \in Nat /\ 0 <= Allowance
        BY HoleTtlPositive DEF Allowance
      <4>5. Session(r)
        BY Zenon, <4>1, <4>3, <4>4 DEF Session
      <4>6. Account(0, r.dtx, 0, m \in todo'[n], <<n, m>> \in said')
        BY Zenon, AccountArrival
      <4> QED BY Zenon, <4>1, <4>3, <4>4, <4>5, <4>6 DEF PairInv
    <3>3. CASE ~(n = a /\ m = b)
      <4>1. <<n, m>> # <<a, b>>
        BY Zenon, <3>3
      <4>2. sess'[n][m] = sess[n][m] /\ alone'[<<n, m>>] = alone[<<n, m>>]
        BY Zenon, <2>3, <2>4, <3>1, <3>3, <4>1
      <4> QED BY Zenon, <1>1, <3>1, <4>2, PairStays
    <3> QED BY Zenon, <3>2, <3>3
  <2> QED BY Zenon, <2>5, <2>6 DEF PathInv
<1> QED BY Zenon, <1>2, <1>4, <1>5, <1>6, <1>7
\* A new session is not confirmed.
LEMMA FreshSession ==
  ASSUME NEW n, NEW m PROVE Session(Fresh(n, m)) /\ Fresh(n, m).confirmed = FALSE
<1>1. /\ Fresh(n, m) = [f \in Fields |-> Fresh(n, m)[f]]
      /\ Fresh(n, m).confirmed = FALSE
      /\ Fresh(n, m).drx = HoleTtl + 1 /\ Fresh(n, m).dtx = HoleTtl + 1
  BY DEF Fresh, Fields
<1>2. HoleTtl + 1 \in 0..(HoleTtl + 1)
  BY HoleTtlPositive
<1> QED BY Zenon, <1>1, <1>2 DEF Session

\* The joiner starts anew: its paths are not believed in.
LEMMA RestartKeeps ==
  ASSUME PathInv, NEW a \in Nodes, Restart(a) PROVE PathInv'
<1>1. /\ Shape /\ todo' = todo /\ said' = said
      /\ alone' = [p \in Pairs |-> IF p[1] = a THEN Allowance ELSE alone[p]]
      /\ sess' = [sess EXCEPT ![a] = [m \in Others(a) |-> Fresh(a, m)]]
  BY Zenon DEF PathInv, Restart
<1>2. /\ sess' = [n \in Nodes |-> sess'[n]]
      /\ \A n \in Nodes :
           sess'[n] = IF n = a THEN [m \in Others(a) |-> Fresh(a, m)] ELSE sess[n]
  BY Zenon, <1>1 DEF Shape
<1>3. Shape'
  <2>1. ASSUME NEW n \in Nodes PROVE sess'[n] = [m \in Others(n) |-> sess'[n][m]]
    <3>1. CASE n = a
      BY Zenon, <1>2, <3>1
    <3>2. CASE n # a
      BY ZenonT(40), <1>1, <1>2, <3>2 DEF Shape
    <3> QED BY Zenon, <3>1, <3>2
  <2> QED BY Zenon, <1>1, <1>2, <2>1 DEF Shape
<1>4. ASSUME NEW n \in Nodes, NEW m \in Others(n) PROVE PairInv(n, m)'
  <2>1. PairInv(n, m)
    BY Zenon DEF PathInv
  <2>4. alone'[<<n, m>>] = IF n = a THEN Allowance ELSE alone[<<n, m>>]
    BY Zenon, <1>1, PairsAre
  <2>2. CASE n = a
    <3>1. sess'[n][m] = Fresh(n, m)
      BY Zenon, <1>2, <2>2
    <3>2. Session(sess'[n][m]) /\ sess'[n][m].confirmed = FALSE
      BY Zenon, <3>1, FreshSession
    <3> QED BY Zenon, <1>1, <2>2, <2>4, <3>2, AllowanceBound DEF PairInv
  <2>3. CASE n # a
    BY Zenon, <1>1, <1>2, <2>1, <2>3, <2>4, PairStays
  <2> QED BY Zenon, <2>2, <2>3
<1> QED BY Zenon, <1>3, <1>4 DEF PathInv

\* Tunnels give up: no path is judged by that.
LEMMA GiveUpKeeps ==
  ASSUME PathInv, NEW pairs, GiveUp(pairs) PROVE PathInv'
<1>1. /\ Shape /\ alone' = alone /\ todo' = todo /\ said' = said
      /\ sess' = [n \in Nodes |-> [m \in Others(n) |->
           IF <<n, m>> \in pairs THEN [sess[n][m] EXCEPT !.tunn = "expired"] ELSE sess[n][m]]]
  BY Zenon DEF PathInv, GiveUp
<1>2. Shape'
  BY Zenon, <1>1 DEF Shape
<1>3. ASSUME NEW n \in Nodes, NEW m \in Others(n) PROVE PairInv(n, m)'
  <2>1. PairInv(n, m)
    BY Zenon DEF PathInv
  <2>2. sess[n][m] = [f \in Fields |-> sess[n][m][f]]
    BY Zenon, <2>1 DEF PairInv, Session
  <2>3. PICK s : s = sess[n][m]
    BY Zenon
  <2>4. Alike([s EXCEPT !.tunn = "expired"], s) /\ Alike(s, s)
    BY Zenon, <2>2, <2>3, DirectRxAlike, AlikeItself
  <2>5. sess'[n][m] = [s EXCEPT !.tunn = "expired"] \/ sess'[n][m] = s
    BY Zenon, <1>1, <2>3
  <2> QED BY Zenon, <1>1, <2>1, <2>3, <2>4, <2>5, PairAlike
<1> QED BY Zenon, <1>2, <1>3 DEF PathInv

\* A tick later.
LEMMA AgedEffect ==
  ASSUME NEW s, Session(s)
  PROVE  /\ Session(Aged(s)) /\ Aged(s).confirmed = s.confirmed
         /\ Aged(s).drx = Later(s.drx, HoleTtl + 1) /\ Aged(s).dtx = Later(s.dtx, HoleTtl + 1)
<1>1. PICK x, y, z, h, k, r : x = Later(s.rx, PathTtl + 1) /\ y = Later(s.drx, HoleTtl + 1)
        /\ z = Later(s.dtx, HoleTtl + 1) /\ h = (IF s.hush = 0 THEN 0 ELSE s.hush - 1)
        /\ k = Later(s.keep, KeepAfter) /\ r = Later(s.rearm, RearmCap)
  BY Zenon
<1>2. Aged(s) = [s EXCEPT !.rx = x, !.drx = y, !.dtx = z, !.hush = h, !.probed = FALSE,
                          !.keep = k, !.rearm = r]
  BY Zenon, <1>1 DEF Aged
<1>3. s = [f \in Fields |-> s[f]]
  BY Zenon DEF Session
<1>4. /\ Aged(s) = [f \in Fields |-> Aged(s)[f]] /\ Aged(s).confirmed = s.confirmed
      /\ Aged(s).drx = y /\ Aged(s).dtx = z
  BY ZenonT(60), <1>2, <1>3 DEF Fields
<1>5. y \in 0..(HoleTtl + 1) /\ z \in 0..(HoleTtl + 1)
  <2>1. s.drx \in 0..(HoleTtl + 1) /\ s.dtx \in 0..(HoleTtl + 1)
    BY Zenon DEF Session
  <2> QED BY <1>1, <2>1, HoleTtlPositive DEF Later
<1> QED BY Zenon, <1>1, <1>4, <1>5 DEF Session

\* Time passes when every visit of the tick has been made.
LEMMA TickKeeps ==
  ASSUME PathInv, Tick PROVE PathInv'
<1>1. /\ Shape /\ alone' = alone /\ todo' = [n \in Nodes |-> Others(n)] /\ said' = {}
      /\ sess' = [n \in Nodes |-> [m \in Others(n) |-> Aged(sess[n][m])]]
      /\ \A n \in Nodes : todo[n] = {}
  BY Zenon DEF PathInv, Tick
<1>2. Shape'
  BY Zenon, <1>1 DEF Shape
<1>3. ASSUME NEW n \in Nodes, NEW m \in Others(n) PROVE PairInv(n, m)'
  <2>1. PairInv(n, m)
    BY Zenon DEF PathInv
  <2>2. PICK s : s = sess[n][m]
    BY Zenon
  <2>3. Session(s) /\ alone[<<n, m>>] \in Nat
    BY Zenon, <2>1, <2>2 DEF PairInv
  <2>4. sess'[n][m] = Aged(s) /\ m \in todo'[n] /\ <<n, m>> \notin said' /\ m \notin todo[n]
    BY Zenon, <1>1, <2>2
  <2>5. /\ Session(Aged(s)) /\ Aged(s).confirmed = s.confirmed
        /\ Aged(s).drx = Later(s.drx, HoleTtl + 1) /\ Aged(s).dtx = Later(s.dtx, HoleTtl + 1)
    BY Zenon, <2>3, AgedEffect
  <2>6. ASSUME n \notin NoRelay, s.confirmed
        PROVE  Account(Aged(s).drx, Aged(s).dtx, alone[<<n, m>>], m \in todo'[n], <<n, m>> \in said')
    <3>1. Account(s.drx, s.dtx, alone[<<n, m>>], m \in todo[n], <<n, m>> \in said)
      BY Zenon, <2>1, <2>2, <2>6 DEF PairInv
    <3>2. Account(s.drx, s.dtx, alone[<<n, m>>], FALSE, <<n, m>> \in said)
      BY Zenon, <2>4, <3>1 DEF Account
    <3>3. Account(Aged(s).drx, Aged(s).dtx, alone[<<n, m>>], TRUE, FALSE)
      BY Zenon, <2>3, <2>5, <3>2, AccountTick DEF Session
    <3>4. One(<<n, m>> \in said') = One(FALSE)
      BY Zenon, <2>4 DEF One
    <3> QED BY Zenon, <2>4, <3>3, <3>4 DEF Account
  <2> QED BY Zenon, <1>1, <2>1, <2>2, <2>3, <2>4, <2>5, <2>6 DEF PairInv
<1> QED BY Zenon, <1>2, <1>3 DEF PathInv

\* At first no path is believed in.
LEMMA PathStarts == Init => PathInv
<1> SUFFICES ASSUME Init PROVE PathInv
  OBVIOUS
<1>1. /\ sess = [n \in Nodes |-> [m \in Others(n) |-> Fresh(n, m)]]
      /\ alone = [p \in Pairs |-> Allowance] /\ todo = [n \in Nodes |-> {}]
  BY Zenon DEF Init
<1>2. Shape
  BY Zenon, <1>1 DEF Shape
<1>3. ASSUME NEW n \in Nodes, NEW m \in Others(n) PROVE PairInv(n, m)
  <2>1. sess[n][m] = Fresh(n, m) /\ alone[<<n, m>>] = Allowance
    BY Zenon, <1>1, PairsAre
  <2>3. Session(sess[n][m]) /\ sess[n][m].confirmed = FALSE
    BY Zenon, <2>1, FreshSession
  <2> QED BY Zenon, <2>1, <2>3, AllowanceBound DEF PairInv
<1> QED BY Zenon, <1>2, <1>3 DEF PathInv

\* Every step keeps the accounts.
LEMMA StepKeeps == PathInv /\ [Next]_vars => PathInv'
<1> SUFFICES ASSUME PathInv, [Next]_vars PROVE PathInv'
  OBVIOUS
<1>1. ASSUME NEW p \in Pairs PROVE p[1] \in Nodes /\ p[2] \in Others(p[1])
  BY DEF Pairs, Others
<1>2. ASSUME NEW p \in Pairs, TunRead(p[1], p[2]) \/ Visit(p[1], p[2]) PROVE PathInv'
  BY Zenon, <1>1, <1>2, TunReadKeeps, VisitKeeps
<1>3. ASSUME NEW p \in Pairs, PunchStart(p[1], p[2]) PROVE PathInv'
  <2>1. UNCHANGED <<sess, alone, todo, said>>
    BY Zenon, <1>3 DEF PunchStart
  <2> QED BY Zenon, <2>1, NothingTouched
<1>4. ASSUME NEW n \in Nodes, PunchFire(n) PROVE PathInv'
  <2>1. UNCHANGED <<sess, alone, todo, said>>
    BY Zenon, <1>4 DEF PunchFire
  <2> QED BY Zenon, <2>1, NothingTouched
<1>5. ASSUME NEW f, Vanish(f) \/ Lose(f) PROVE PathInv'
  <2>1. UNCHANGED <<sess, alone, todo, said>>
    BY Zenon, <1>5 DEF Vanish, Lose
  <2> QED BY Zenon, <2>1, NothingTouched
<1>6. ASSUME NEW pairs, Flip(pairs) PROVE PathInv'
  <2>1. UNCHANGED <<sess, alone, todo, said>>
    BY Zenon, <1>6 DEF Flip
  <2> QED BY Zenon, <2>1, NothingTouched
<1>7. CASE UNCHANGED vars
  <2>1. UNCHANGED <<sess, alone, todo, said>>
    BY Zenon, <1>7 DEF vars
  <2> QED BY Zenon, <2>1, NothingTouched
<1>8. CASE Step
  BY Zenon, <1>2, <1>4, <1>5, <1>8, IdleProbeKeeps, ReceiveKeeps, TickKeeps DEF Step
<1> QED BY Zenon, <1>3, <1>5, <1>6, <1>7, <1>8, RestartKeeps, GiveUpKeeps DEF Next

\* The accounts hold at all times, whatever frames, visits, probes, punches, losses, changes
\* of the network and restarts interleave.
THEOREM AccountsInductive == Spec => []PathInv
  BY PathStarts, StepKeeps, PTL DEF Spec

\* A joiner with a relay floor sends at most HoleTtl + 2 packets on a direct path alone
\* between two arrivals of data on it, and none before the first arrival or once it has
\* given the path up (send_wire, downgrade_direct_if_tx_blackholed,
\* confirm_direct).
THEOREM PathsNotFedBlindly == Spec => []BlindBounded
<1>1. PathInv => BlindBounded
  <2> SUFFICES ASSUME PathInv, NEW p \in Pairs, p[1] \notin NoRelay
               PROVE  alone[p] <= Allowance
    BY Zenon DEF BlindBounded
  <2>1. p = <<p[1], p[2]>> /\ p[1] \in Nodes /\ p[2] \in Others(p[1])
    BY DEF Pairs, Others
  <2> QED BY Zenon, <2>1 DEF PathInv, PairInv
<1> QED BY <1>1, AccountsInductive, PTL
=============================================================================
