---------------------------- MODULE RelayProofs -----------------------------
(***************************************************************************)
(* The relay's structure, proved for every number of joiners, sockets and  *)
(* frames: a slot of the registry names a socket of its own key and lane,  *)
(* and only that socket, or one that takes its place, clears it.           *)
(*                                                                         *)
(* No frame is duplicated by the relay.  The argument: a frame has one     *)
(* place.  A step that puts it in a queue takes it from the head of        *)
(* another one (Send, Forward, Downlink) or empties the spool it came from *)
(* (TakeSpool); every other step only shortens queues.  The number of a    *)
(* new frame is higher than any other.                                     *)
(***************************************************************************)
EXTENDS Relay, TLAPS

Frame == [n : Nat, src : Keys, dst : Keys, hello : BOOLEAN]
Spool == [held : Seq(Frame), expired : Nat]
SocketType ==
  [key : Keys, lane : Lanes,
   at : {"register", "spool", "serve", "unregister", "clean", "gone"},
   net : BOOLEAN, rx : BOOLEAN, queue : Seq(Frame), todo : Seq(Frame),
   pick : SUBSET (ConnIds \cup {None})]
LaneTask == [at : {"down", "open", "stopped"}, conn : ConnIds \cup {None}, current : Int]

\* The shape of the state.
TypeInv ==
  /\ outq \in [Keys -> [Lanes -> Seq(Frame)]]
  /\ conn \in Seq(SocketType) /\ Len(conn) <= MaxConns
  /\ conns \in [Keys -> [Lanes -> ConnIds \cup {None}]]
  /\ spool \in [Keys -> Spool]
  /\ client \in [Keys -> [Lanes -> LaneTask]]
  /\ got \in [Keys -> SUBSET Frame]
  /\ sent \in Nat
  /\ wakes \subseteq Keys \X Keys

\* What the handler of socket c relies on.
SocketOk(c) ==
  /\ conn[c].at \in {"register", "spool"} => conn[c].todo = <<>> /\ conn[c].pick = {}
  /\ conn[c].pick # {} => conn[c].todo # <<>>
  /\ \A d \in conn[c].pick : d # None =>
       d \in DOMAIN conn /\ conn[d].key = Head(conn[c].todo).dst
  /\ \A i \in DOMAIN conn[c].queue : conn[c].queue[i].dst = conn[c].key

\* Lane tasks and slots name sockets; a slot names one of its own lane.
LinkInv ==
  /\ \A k \in Keys, l \in Lanes :
       client[k][l].at = "open" => client[k][l].conn \in DOMAIN conn
  /\ \A k \in Keys, l \in Lanes : conns[k][l] # None =>
       /\ conns[k][l] \in DOMAIN conn
       /\ conn[conns[k][l]].key = k /\ conn[conns[k][l]].lane = l
  /\ \A c \in DOMAIN conn : SocketOk(c)

\* t is what is left of s after some frames were taken from its front.
Rest(t, s) == \E d \in Nat : \A i \in DOMAIN t : i + d \in DOMAIN s /\ t[i] = s[i + d]

\* A socket stays the same one, gets no frames and does not begin to serve.
Keeps(r, s) ==
  /\ r.key = s.key /\ r.lane = s.lane
  /\ Rest(r.todo, s.todo) /\ Rest(r.queue, s.queue)
  /\ r.at \in {"spool", "serve"} /\ r.rx => s.at \in {"spool", "serve"} /\ s.rx

\* A step after which this is so of every socket; a new one has yet to register.
Quiet ==
  /\ DOMAIN conn \subseteq DOMAIN conn'
  /\ \A c \in DOMAIN conn : Keeps(conn'[c], conn[c])
  /\ \A c \in DOMAIN conn' \ DOMAIN conn :
       conn'[c].at = "register" /\ conn'[c].todo = <<>> /\ conn'[c].queue = <<>>
-----------------------------------------------------------------------------
(* Building blocks.                                                        *)

\* The sockets are numbered from 1.
LEMMA Sockets ==
  ASSUME TypeInv
  PROVE  /\ DOMAIN conn = 1..Len(conn) /\ Len(conn) \in Nat
         /\ DOMAIN conn \subseteq ConnIds
         /\ \A c \in DOMAIN conn : conn[c] \in SocketType
  BY BoundAssumption DEF TypeInv, ConnIds

\* One socket changes.
LEMMA SetSocket ==
  ASSUME TypeInv, NEW c \in DOMAIN conn, NEW r \in SocketType,
         conn' = [conn EXCEPT ![c] = r]
  PROVE  /\ conn' \in Seq(SocketType) /\ Len(conn') = Len(conn)
         /\ DOMAIN conn' = DOMAIN conn
         /\ conn'[c] = r /\ \A d \in DOMAIN conn \ {c} : conn'[d] = conn[d]
<1>1. conn \in Seq(SocketType) /\ c \in 1..Len(conn)
  BY Zenon, Sockets DEF TypeInv
<1>2. conn' \in Seq(SocketType) /\ Len(conn') = Len(conn)
  <2>1. conn' \in [1..Len(conn) -> SocketType]
    BY <1>1
  <2> QED BY <1>1, <2>1
<1>3. DOMAIN conn' = DOMAIN conn /\ conn'[c] = r
      /\ \A d \in DOMAIN conn \ {c} : conn'[d] = conn[d]
  BY Zenon
<1> QED BY Zenon, <1>2, <1>3

\* The first frame of a queue and the rest are frames.
LEMMA HeadTail ==
  ASSUME NEW q \in Seq(Frame), q # <<>>
  PROVE  Head(q) \in Frame /\ Tail(q) \in Seq(Frame) /\ Len(Tail(q)) = Len(q) - 1
         /\ \A i \in DOMAIN Tail(q) : i + 1 \in DOMAIN q /\ Tail(q)[i] = q[i + 1]
  OBVIOUS

\* One more frame is queued.
LEMMA Appended ==
  ASSUME NEW q \in Seq(Frame), NEW f \in Frame
  PROVE  Append(q, f) \in Seq(Frame) /\ Len(Append(q, f)) = Len(q) + 1
         /\ \A i \in DOMAIN Append(q, f) :
              Append(q, f)[i] = IF i = Len(q) + 1 THEN f ELSE q[i]
  OBVIOUS

\* The fresh frames of a spool end it.
LEMMA FreshFrames ==
  ASSUME NEW q \in Spool
  PROVE  Fresh(q) \in Seq(Frame)
         /\ \A i \in DOMAIN Fresh(q) : i + q.expired \in DOMAIN q.held
                                       /\ Fresh(q)[i] = q.held[i + q.expired]
<1>1. q.held \in Seq(Frame) /\ q.expired \in Nat /\ Len(q.held) \in Nat
  BY DEF Spool
<1> DEFINE m == q.expired + 1
           len == Len(q.held)
<1>2. m \in Int /\ len \in Int /\ \A i \in m..len : q.held[i] \in Frame
  BY <1>1
<1>3. /\ Fresh(q) \in Seq(Frame)
      /\ Len(Fresh(q)) = IF m <= len THEN len - m + 1 ELSE 0
      /\ \A i \in 1..(len - m + 1) : Fresh(q)[i] = q.held[m + i - 1]
  <2>1. Fresh(q) = SubSeq(q.held, m, len)
    BY Zenon DEF Fresh
  <2> HIDE DEF m, len
  <2>2. /\ SubSeq(q.held, m, len) \in Seq(Frame)
        /\ Len(SubSeq(q.held, m, len)) = IF m <= len THEN len - m + 1 ELSE 0
        /\ \A i \in 1..(len - m + 1) : SubSeq(q.held, m, len)[i] = q.held[m + i - 1]
    BY <1>2
  <2> QED BY Zenon, <2>1, <2>2
<1>4. DOMAIN Fresh(q) = 1..Len(Fresh(q))
  BY <1>3
<1>5. ASSUME NEW i \in DOMAIN Fresh(q)
      PROVE  i + q.expired \in DOMAIN q.held /\ Fresh(q)[i] = q.held[i + q.expired]
  <2>0. i \in 1..(IF m <= len THEN len - m + 1 ELSE 0)
    BY Zenon, <1>3, <1>4
  <2>1. i \in 1..(len - m + 1) /\ i + q.expired \in 1..Len(q.held)
    BY <1>1, <2>0
  <2>2. m + i - 1 = i + q.expired
    BY <1>1, <2>1
  <2>3. Fresh(q)[i] = q.held[i + q.expired]
    BY Zenon, <1>3, <2>1, <2>2
  <2> QED BY <1>1, <2>1, <2>3
<1> QED BY Zenon, <1>3, <1>5

\* Nothing is taken from the front of a queue.
LEMMA RestWhole ==
  ASSUME NEW s \in Seq(Frame)
  PROVE  Rest(s, s)
<1>1. \A i \in DOMAIN s : i + 0 \in DOMAIN s /\ s[i] = s[i + 0]
  OBVIOUS
<1> QED BY Zenon, <1>1 DEF Rest

\* The first frame is taken.
LEMMA RestTail ==
  ASSUME NEW s \in Seq(Frame), s # <<>>
  PROVE  Rest(Tail(s), s)
<1>1. \A i \in DOMAIN Tail(s) : i + 1 \in DOMAIN s /\ Tail(s)[i] = s[i + 1]
  BY Zenon, HeadTail
<1> QED BY Zenon, <1>1 DEF Rest

\* None is left.
LEMMA RestEmpty ==
  ASSUME NEW s
  PROVE  Rest(<<>>, s)
<1>1. \A i \in DOMAIN <<>> : i + 0 \in DOMAIN s /\ <<>>[i] = s[i + 0]
  OBVIOUS
<1> QED BY Zenon, <1>1 DEF Rest

\* A socket that does not change, and a step that changes one socket or none.
LEMMA KeepsSame ==
  ASSUME NEW r \in SocketType
  PROVE  Keeps(r, r)
<1>1. r.todo \in Seq(Frame) /\ r.queue \in Seq(Frame)
  BY Zenon DEF SocketType
<1> QED BY Zenon, <1>1, RestWhole DEF Keeps

\* A step that changes no socket is quiet.
LEMMA QuietNone ==
  ASSUME TypeInv, conn' = conn
  PROVE  Quiet
  BY Zenon, Sockets, KeepsSame DEF Quiet

\* A step after which one socket keeps what it had is quiet.
LEMMA QuietOne ==
  ASSUME TypeInv, NEW c \in DOMAIN conn, NEW r \in SocketType,
         conn' = [conn EXCEPT ![c] = r], Keeps(r, conn[c])
  PROVE  Quiet
<1>1. DOMAIN conn' = DOMAIN conn /\ conn'[c] = r
      /\ \A d \in DOMAIN conn \ {c} : conn'[d] = conn[d]
  BY Zenon, SetSocket
<1>2. \A d \in DOMAIN conn : conn[d] \in SocketType
  BY Zenon, Sockets
<1> QED BY Zenon, <1>1, <1>2, KeepsSame DEF Quiet

\* A socket that keeps its handler's state, while every socket keeps its key.
LEMMA SameSocket ==
  ASSUME LinkInv, NEW d \in DOMAIN conn, conn'[d] = conn[d],
         DOMAIN conn \subseteq DOMAIN conn',
         \A e \in DOMAIN conn : conn'[e].key = conn[e].key
  PROVE  SocketOk(d)'
<1>1. SocketOk(d)
  BY Zenon DEF LinkInv
<1> QED BY Zenon, <1>1 DEF SocketOk

\* The handler of one socket moves on.
LEMMA OneSocket ==
  ASSUME TypeInv, LinkInv, NEW c \in DOMAIN conn, NEW r \in SocketType,
         conn' = [conn EXCEPT ![c] = r],
         r.key = conn[c].key, r.lane = conn[c].lane,
         \A k \in Keys, l \in Lanes : client'[k][l].at = "open" =>
           client[k][l].at = "open" /\ client'[k][l].conn = client[k][l].conn,
         \A k \in Keys, l \in Lanes : conns'[k][l] # None =>
           \/ conns'[k][l] = conns[k][l]
           \/ conns'[k][l] = c /\ k = r.key /\ l = r.lane,
         SocketOk(c)'
  PROVE  LinkInv'
<1>1. /\ DOMAIN conn' = DOMAIN conn /\ conn'[c] = r
      /\ \A d \in DOMAIN conn \ {c} : conn'[d] = conn[d]
  BY Zenon, SetSocket
<1>2. \A d \in DOMAIN conn : conn'[d].key = conn[d].key /\ conn'[d].lane = conn[d].lane
  BY Zenon, <1>1
<1>3. \A d \in DOMAIN conn' : SocketOk(d)'
  BY Zenon, <1>1, <1>2, SameSocket
<1>4. ASSUME NEW k \in Keys, NEW l \in Lanes, conns'[k][l] # None
      PROVE  /\ conns'[k][l] \in DOMAIN conn'
             /\ conn'[conns'[k][l]].key = k /\ conn'[conns'[k][l]].lane = l
  <2>1. CASE conns'[k][l] = conns[k][l]
    BY <1>1, <1>2, <1>4, <2>1 DEF LinkInv
  <2>2. CASE conns'[k][l] = c /\ k = r.key /\ l = r.lane
    BY Zenon, <1>1, <2>2
  <2> QED BY Zenon, <1>4, <2>1, <2>2
<1>5. \A k \in Keys, l \in Lanes :
        client'[k][l].at = "open" => client'[k][l].conn \in DOMAIN conn'
  BY <1>1 DEF LinkInv
<1> QED BY Zenon, <1>3, <1>4, <1>5 DEF LinkInv

\* The sockets stay as they are.
LEMMA NoSocket ==
  ASSUME LinkInv, conn' = conn,
         \A k \in Keys, l \in Lanes : client'[k][l].at = "open" =>
           client[k][l].at = "open" /\ client'[k][l].conn = client[k][l].conn,
         \A k \in Keys, l \in Lanes : conns'[k][l] # None => conns'[k][l] = conns[k][l]
  PROVE  LinkInv'
<1>1. \A d \in DOMAIN conn' : SocketOk(d)'
  BY DEF LinkInv, SocketOk
<1> QED BY <1>1 DEF LinkInv
-----------------------------------------------------------------------------
(* The structure is kept: the joiner's steps.                              *)

\* A frame is queued on its lane.
LEMMA TryRelayType ==
  ASSUME TypeInv, NEW k \in Keys, NEW dst \in Keys, NEW hello \in BOOLEAN,
         TryRelay(k, dst, hello)
  PROVE  outq' \in [Keys -> [Lanes -> Seq(Frame)]] /\ sent' \in Nat
<1> DEFINE f == [n |-> sent + 1, src |-> k, dst |-> dst, hello |-> hello]
<1>1. sent \in Nat /\ sent' = sent + 1 /\ outq \in [Keys -> [Lanes -> Seq(Frame)]]
  BY Zenon DEF TypeInv, TryRelay
<1>2. f \in Frame /\ LaneOf(f) \in Lanes
  BY <1>1 DEF Frame, LaneOf, Lanes
<1>3. outq' = [outq EXCEPT ![k][LaneOf(f)] = Append(@, f)]
  BY Zenon DEF TryRelay
<1> HIDE DEF f
<1>4. Append(outq[k][LaneOf(f)], f) \in Seq(Frame)
  BY <1>1, <1>2, Appended
<1> QED BY <1>1, <1>2, <1>3, <1>4

\* The tunnel sends.
LEMMA EmitStruct ==
  ASSUME TypeInv, LinkInv, NEW t \in Pairs, NEW hello \in BOOLEAN, Emit(t[1], t[2], hello)
  PROVE  TypeInv' /\ LinkInv'
<1>1. t[1] \in Keys /\ t[2] \in Keys
  BY Zenon, KeyAssumption DEF Emit, Pairs
<1>2. outq' \in [Keys -> [Lanes -> Seq(Frame)]] /\ sent' \in Nat
  BY Zenon, <1>1, TryRelayType DEF Emit
<1>3. UNCHANGED <<client, conn, registry, wakes, got>>
  BY Zenon DEF Emit
<1> QED BY Zenon, <1>2, <1>3, NoSocket DEF TypeInv, registry

\* A woken joiner sends.
LEMMA WakeStruct ==
  ASSUME TypeInv, LinkInv, NEW w \in wakes, Wake(w)
  PROVE  TypeInv' /\ LinkInv'
<1>1. w[1] \in Keys /\ w[2] \in Keys
  BY Zenon DEF TypeInv
<1>2. outq' \in [Keys -> [Lanes -> Seq(Frame)]] /\ sent' \in Nat
  BY Zenon, <1>1, TryRelayType DEF Wake, TypeInv
<1>3. UNCHANGED <<client, conn, registry, got>> /\ wakes' = wakes \ {w}
  BY Zenon DEF Wake
<1> QED BY Zenon, <1>2, <1>3, NoSocket DEF TypeInv, registry

\* The lane task gives its socket up.
LEMMA RedialType ==
  ASSUME TypeInv, NEW k \in Keys, NEW l \in Lanes,
         client' = [client EXCEPT ![k][l] = Redial(@)]
  PROVE  /\ client' \in [Keys -> [Lanes -> LaneTask]]
         /\ \A j \in Keys, m \in Lanes : client'[j][m].at = "open" =>
              client[j][m].at = "open" /\ client'[j][m].conn = client[j][m].conn
<1>1. client \in [Keys -> [Lanes -> LaneTask]] /\ Relays \in Nat \ {0}
  BY Zenon, BoundAssumption DEF TypeInv
<1>2. client[k][l].current \in Int
  BY Zenon, <1>1 DEF LaneTask
<1>3. (client[k][l].current + 1) % Relays \in Int
  BY <1>1, <1>2
<1>4. Redial(client[k][l]) \in LaneTask /\ Redial(client[k][l]).at = "down"
  BY Zenon, <1>3 DEF Redial, Down, LaneTask
<1>5. client' = [client EXCEPT ![k] = [client[k] EXCEPT ![l] = Redial(client[k][l])]]
  BY Zenon
<1> QED BY <1>1, <1>4, <1>5

\* A lane task dials.
LEMMA DialStruct ==
  ASSUME TypeInv, LinkInv, NEW k \in Keys, NEW l \in Lanes, Dial(k, l)
  PROVE  TypeInv' /\ LinkInv' /\ Quiet
<1>1. UNCHANGED <<outq, registry, wakes, got, sent>>
  BY Zenon DEF Dial
<1>2. CASE client' = [client EXCEPT ![k][l] = Redial(@)] /\ UNCHANGED conn
  BY Zenon, <1>1, <1>2, RedialType, NoSocket, QuietNone DEF TypeInv, registry
<1>3. CASE /\ Len(conn) < MaxConns
           /\ conn' = Append(conn, Socket(k, l, "register"))
           /\ client' = [client EXCEPT ![k][l].at = "open", ![k][l].conn = Len(conn) + 1]
  <2> DEFINE r == Socket(k, l, "register")
  <2>0. PICK n \in Int : n = Len(conn) + 1
    BY DEF TypeInv
  <2>1. conn \in Seq(SocketType) /\ Len(conn) \in Nat /\ MaxConns \in Nat /\ n \in ConnIds
    BY <1>3, <2>0, BoundAssumption DEF TypeInv, ConnIds
  <2>2. r \in SocketType /\ r.key = k /\ r.lane = l
    BY DEF Socket, SocketType
  <2>3. r.at = "register" /\ r.todo = <<>> /\ r.pick = {} /\ r.queue = <<>>
    BY Zenon DEF Socket
  <2> HIDE DEF r
  <2>4. /\ conn' \in Seq(SocketType) /\ Len(conn') = n /\ DOMAIN conn = 1..Len(conn)
        /\ DOMAIN conn' = 1..n /\ conn'[n] = r
        /\ \A d \in DOMAIN conn : conn'[d] = conn[d]
    BY <1>3, <2>0, <2>1, <2>2 DEF r
  <2>5. DOMAIN conn \subseteq DOMAIN conn' /\ \A d \in DOMAIN conn' : d \in DOMAIN conn \/ d = n
    BY <2>0, <2>1, <2>4
  <2>6. SocketOk(n)'
    BY <2>3, <2>4 DEF SocketOk
  <2>7. \A d \in DOMAIN conn' : SocketOk(d)'
    BY Zenon, <2>4, <2>5, <2>6, SameSocket
  <2>8. client \in [Keys -> [Lanes -> LaneTask]]
    BY Zenon DEF TypeInv
  <2>9. client' \in [Keys -> [Lanes -> LaneTask]]
    <3> DEFINE c == [client[k][l] EXCEPT !.at = "open", !.conn = n]
    <3>1. client' = [client EXCEPT ![k] = [client[k] EXCEPT ![l] = c]]
      BY Zenon, <1>3, <2>0, <2>8
    <3>2. c \in LaneTask
      <4>1. client[k][l] \in LaneTask
        BY Zenon, <2>8
      <4>2. n \in ConnIds \cup {None}
        BY Zenon, <2>1
      <4> QED BY Zenon, <4>1, <4>2 DEF LaneTask
    <3> HIDE DEF c
    <3> QED BY Zenon, <2>8, <3>1, <3>2
  <2>10. ASSUME NEW j \in Keys, NEW m \in Lanes, client'[j][m].at = "open"
         PROVE  client'[j][m].conn \in DOMAIN conn'
    <3>1. CASE j = k /\ m = l
      <4>1. client'[k][l].conn = n
        BY <1>3, <2>0, <2>8 DEF LaneTask
      <4> QED BY <2>0, <2>1, <2>4, <3>1, <4>1
    <3>2. CASE ~(j = k /\ m = l)
      <4>1. client'[j][m] = client[j][m]
        BY Zenon, <1>3, <2>8, <3>2
      <4> QED BY <2>5, <2>10, <4>1 DEF LinkInv
    <3> QED BY Zenon, <3>1, <3>2
  <2>11. \A j \in Keys, m \in Lanes : conns'[j][m] # None =>
           /\ conns'[j][m] \in DOMAIN conn'
           /\ conn'[conns'[j][m]].key = j /\ conn'[conns'[j][m]].lane = m
    BY <1>1, <2>4, <2>5 DEF LinkInv, registry
  <2>12. LinkInv'
    BY Zenon, <2>7, <2>10, <2>11 DEF LinkInv
  <2>13. Len(conn') <= MaxConns
    BY <1>3, <2>0, <2>1, <2>4
  <2>14. Quiet
    <3>1. \A d \in DOMAIN conn : conn[d] \in SocketType
      BY Zenon, Sockets
    <3> QED BY Zenon, <2>3, <2>4, <2>5, <3>1, KeepsSame DEF Quiet
  <2> QED BY Zenon, <1>1, <2>4, <2>9, <2>12, <2>13, <2>14 DEF TypeInv, registry
<1> QED BY Zenon, <1>2, <1>3 DEF Dial

\* A socket goes dead.
LEMMA BreakStruct ==
  ASSUME TypeInv, LinkInv, NEW c \in DOMAIN conn, Break(c)
  PROVE  TypeInv' /\ LinkInv' /\ Quiet
<1> DEFINE r == [conn[c] EXCEPT !.net = FALSE]
<1>1. conn[c] \in SocketType /\ SocketOk(c)
  BY Zenon, Sockets DEF LinkInv
<1>2. conn' = [conn EXCEPT ![c] = r]
  BY Zenon DEF Break
<1>4. r \in SocketType
  BY Zenon, <1>1 DEF SocketType
<1>5. /\ r.key = conn[c].key /\ r.lane = conn[c].lane
      /\ r.at = conn[c].at /\ r.rx = conn[c].rx /\ r.queue = conn[c].queue
      /\ r.todo = conn[c].todo /\ r.pick = conn[c].pick
      /\ r.net = FALSE
  BY Zenon, <1>1 DEF SocketType
<1> HIDE DEF r
<1>6. conn'[c] = r /\ DOMAIN conn' = DOMAIN conn /\ conn' \in Seq(SocketType)
      /\ Len(conn') = Len(conn) /\ \A d \in DOMAIN conn \ {c} : conn'[d] = conn[d]
  BY Zenon, <1>2, <1>4, SetSocket
<1>7. \A d \in DOMAIN conn : conn'[d].key = conn[d].key
  BY Zenon, <1>5, <1>6
<1>8. SocketOk(c)'
  BY <1>1, <1>5, <1>6, <1>7 DEF SocketOk
<1>9. UNCHANGED <<outq, conns, spool, client, got, sent, wakes>>
  BY Zenon DEF Break, registry
<1>10. LinkInv'
  BY Zenon, <1>2, <1>4, <1>5, <1>8, <1>9, OneSocket
<1>11. conn[c].todo \in Seq(Frame) /\ conn[c].queue \in Seq(Frame)
  BY Zenon, <1>1 DEF SocketType
<1>12. Keeps(r, conn[c])
  BY Zenon, <1>5, <1>11, RestWhole, RestEmpty DEF Keeps
<1>13. Quiet
  BY Zenon, <1>2, <1>4, <1>12, QuietOne
<1> QED BY Zenon, <1>6, <1>9, <1>10, <1>13 DEF TypeInv

\* The receive loop ends.
LEMMA StreamEndsStruct ==
  ASSUME TypeInv, LinkInv, NEW c \in DOMAIN conn, StreamEnds(c)
  PROVE  TypeInv' /\ LinkInv' /\ Quiet
<1> DEFINE r == [conn[c] EXCEPT !.at = "unregister"]
<1>1. conn[c] \in SocketType /\ SocketOk(c)
  BY Zenon, Sockets DEF LinkInv
<1>2. conn' = [conn EXCEPT ![c] = r]
  BY Zenon DEF StreamEnds
<1>4. r \in SocketType
  BY Zenon, <1>1 DEF SocketType
<1>5. /\ r.key = conn[c].key /\ r.lane = conn[c].lane
      /\ r.net = conn[c].net /\ r.rx = conn[c].rx /\ r.queue = conn[c].queue
      /\ r.todo = conn[c].todo /\ r.pick = conn[c].pick
      /\ r.at = "unregister"
  BY Zenon, <1>1 DEF SocketType
<1> HIDE DEF r
<1>6. conn'[c] = r /\ DOMAIN conn' = DOMAIN conn /\ conn' \in Seq(SocketType)
      /\ Len(conn') = Len(conn) /\ \A d \in DOMAIN conn \ {c} : conn'[d] = conn[d]
  BY Zenon, <1>2, <1>4, SetSocket
<1>7. \A d \in DOMAIN conn : conn'[d].key = conn[d].key
  BY Zenon, <1>5, <1>6
<1>8. SocketOk(c)'
  BY Zenon, <1>1, <1>5, <1>6, <1>7 DEF SocketOk
<1>9. UNCHANGED <<outq, conns, spool, client, got, sent, wakes>>
  BY Zenon DEF StreamEnds, registry
<1>10. LinkInv'
  BY Zenon, <1>2, <1>4, <1>5, <1>8, <1>9, OneSocket
<1>11. conn[c].todo \in Seq(Frame) /\ conn[c].queue \in Seq(Frame)
  BY Zenon, <1>1 DEF SocketType
<1>12. Keeps(r, conn[c])
  BY Zenon, <1>5, <1>11, RestWhole, RestEmpty DEF Keeps
<1>13. Quiet
  BY Zenon, <1>2, <1>4, <1>12, QuietOne
<1> QED BY Zenon, <1>6, <1>9, <1>10, <1>13 DEF TypeInv

\* The send task ends.
LEMMA SendTaskEndsStruct ==
  ASSUME TypeInv, LinkInv, NEW c \in DOMAIN conn, SendTaskEnds(c)
  PROVE  TypeInv' /\ LinkInv' /\ Quiet
<1> DEFINE r == [conn[c] EXCEPT !.rx = FALSE, !.queue = <<>>]
<1>1. conn[c] \in SocketType /\ SocketOk(c)
  BY Zenon, Sockets DEF LinkInv
<1>2. conn' = [conn EXCEPT ![c] = r]
  BY Zenon DEF SendTaskEnds
<1>3. <<>> \in Seq(Frame)
  OBVIOUS
<1>4. r \in SocketType
  BY Zenon, <1>1, <1>3 DEF SocketType
<1>5. /\ r.key = conn[c].key /\ r.lane = conn[c].lane
      /\ r.at = conn[c].at /\ r.net = conn[c].net /\ r.todo = conn[c].todo /\ r.pick = conn[c].pick
      /\ r.rx = FALSE /\ r.queue = <<>>
  BY Zenon, <1>1 DEF SocketType
<1> HIDE DEF r
<1>6. conn'[c] = r /\ DOMAIN conn' = DOMAIN conn /\ conn' \in Seq(SocketType)
      /\ Len(conn') = Len(conn) /\ \A d \in DOMAIN conn \ {c} : conn'[d] = conn[d]
  BY Zenon, <1>2, <1>4, SetSocket
<1>7. \A d \in DOMAIN conn : conn'[d].key = conn[d].key
  BY Zenon, <1>5, <1>6
<1>8. SocketOk(c)'
  BY <1>1, <1>5, <1>6, <1>7 DEF SocketOk
<1>9. UNCHANGED <<outq, conns, spool, client, got, sent, wakes>>
  BY Zenon DEF SendTaskEnds, registry
<1>10. LinkInv'
  BY Zenon, <1>2, <1>4, <1>5, <1>8, <1>9, OneSocket
<1>11. conn[c].todo \in Seq(Frame) /\ conn[c].queue \in Seq(Frame)
  BY Zenon, <1>1 DEF SocketType
<1>12. Keeps(r, conn[c])
  BY Zenon, <1>5, <1>11, RestWhole, RestEmpty DEF Keeps
<1>13. Quiet
  BY Zenon, <1>2, <1>4, <1>12, QuietOne
<1> QED BY Zenon, <1>6, <1>9, <1>10, <1>13 DEF TypeInv

\* The socket closes.
LEMMA CloseStruct ==
  ASSUME TypeInv, LinkInv, NEW c \in DOMAIN conn, Close(c)
  PROVE  TypeInv' /\ LinkInv' /\ Quiet
<1> DEFINE r == [conn[c] EXCEPT !.at = "gone", !.net = FALSE, !.rx = FALSE, !.queue = <<>>]
<1>1. conn[c] \in SocketType /\ SocketOk(c)
  BY Zenon, Sockets DEF LinkInv
<1>2. conn' = [conn EXCEPT ![c] = r]
  BY Zenon DEF Close
<1>3. <<>> \in Seq(Frame)
  OBVIOUS
<1>4. r \in SocketType
  BY Zenon, <1>1, <1>3 DEF SocketType
<1>5. /\ r.key = conn[c].key /\ r.lane = conn[c].lane
      /\ r.todo = conn[c].todo /\ r.pick = conn[c].pick
      /\ r.at = "gone" /\ r.net = FALSE /\ r.rx = FALSE /\ r.queue = <<>>
  BY Zenon, <1>1 DEF SocketType
<1> HIDE DEF r
<1>6. conn'[c] = r /\ DOMAIN conn' = DOMAIN conn /\ conn' \in Seq(SocketType)
      /\ Len(conn') = Len(conn) /\ \A d \in DOMAIN conn \ {c} : conn'[d] = conn[d]
  BY Zenon, <1>2, <1>4, SetSocket
<1>7. \A d \in DOMAIN conn : conn'[d].key = conn[d].key
  BY Zenon, <1>5, <1>6
<1>8. SocketOk(c)'
  BY <1>1, <1>5, <1>6, <1>7 DEF SocketOk
<1>9. UNCHANGED <<outq, conns, spool, client, got, sent, wakes>>
  BY Zenon DEF Close, registry
<1>10. LinkInv'
  BY Zenon, <1>2, <1>4, <1>5, <1>8, <1>9, OneSocket
<1>11. conn[c].todo \in Seq(Frame) /\ conn[c].queue \in Seq(Frame)
  BY Zenon, <1>1 DEF SocketType
<1>12. Keeps(r, conn[c])
  BY Zenon, <1>5, <1>11, RestWhole, RestEmpty DEF Keeps
<1>13. Quiet
  BY Zenon, <1>2, <1>4, <1>12, QuietOne
<1> QED BY Zenon, <1>6, <1>9, <1>10, <1>13 DEF TypeInv

\* The newest socket takes the slot.
LEMMA RegisterStruct ==
  ASSUME TypeInv, LinkInv, NEW c \in DOMAIN conn, Register(c)
  PROVE  TypeInv' /\ LinkInv'
<1> DEFINE r == [conn[c] EXCEPT !.at = "spool"]
<1>1. conn[c] \in SocketType /\ SocketOk(c) /\ c \in ConnIds /\ conn[c].at = "register"
  BY Zenon, Sockets DEF LinkInv, Register
<1>2. conn' = [conn EXCEPT ![c] = r]
  BY Zenon DEF Register
<1>4. r \in SocketType
  BY Zenon, <1>1 DEF SocketType
<1>5. /\ r.key = conn[c].key /\ r.lane = conn[c].lane /\ r.queue = conn[c].queue
      /\ r.todo = conn[c].todo /\ r.pick = conn[c].pick /\ r.at = "spool"
  BY Zenon, <1>1 DEF SocketType
<1> HIDE DEF r
<1>6. conn'[c] = r /\ DOMAIN conn' = DOMAIN conn /\ conn' \in Seq(SocketType)
      /\ Len(conn') = Len(conn) /\ \A d \in DOMAIN conn \ {c} : conn'[d] = conn[d]
  BY Zenon, <1>2, <1>4, SetSocket
<1>7. \A d \in DOMAIN conn : conn'[d].key = conn[d].key
  BY Zenon, <1>5, <1>6
<1>8. SocketOk(c)'
  BY Zenon, <1>1, <1>5, <1>6, <1>7 DEF SocketOk
<1>9. UNCHANGED <<outq, spool, client, got, sent, wakes>>
  BY Zenon DEF Register
<1>10. conns \in [Keys -> [Lanes -> ConnIds \cup {None}]] /\ conn[c].key \in Keys
       /\ conn[c].lane \in Lanes /\ conns' = [conns EXCEPT ![conn[c].key][conn[c].lane] = c]
  BY Zenon, <1>1 DEF TypeInv, SocketType, Register
<1>11. /\ conns' \in [Keys -> [Lanes -> ConnIds \cup {None}]]
       /\ \A k \in Keys, l \in Lanes :
            conns'[k][l] = IF k = conn[c].key /\ l = conn[c].lane THEN c ELSE conns[k][l]
  BY Zenon, <1>1, <1>10
<1>12. \A k \in Keys, l \in Lanes : conns'[k][l] # None =>
         \/ conns'[k][l] = conns[k][l]
         \/ conns'[k][l] = c /\ k = r.key /\ l = r.lane
  BY Zenon, <1>5, <1>11
<1>13. LinkInv'
  BY Zenon, <1>2, <1>4, <1>5, <1>8, <1>9, <1>12, OneSocket
<1> QED BY Zenon, <1>6, <1>9, <1>11, <1>13 DEF TypeInv

\* The socket takes the frames held for its key.
LEMMA TakeSpoolStruct ==
  ASSUME TypeInv, LinkInv, NEW c \in DOMAIN conn, TakeSpool(c)
  PROVE  TypeInv' /\ LinkInv'
<1> DEFINE k == conn[c].key
           r == [conn[c] EXCEPT !.at = "serve", !.todo = Fresh(spool[k])]
<1>1. conn[c] \in SocketType /\ SocketOk(c) /\ k \in Keys /\ conn[c].at = "spool"
  BY Zenon, Sockets DEF LinkInv, TakeSpool, SocketType
<1>2. conn' = [conn EXCEPT ![c] = r]
  BY Zenon DEF TakeSpool
<1>3. Fresh(spool[k]) \in Seq(Frame)
  BY Zenon, <1>1, FreshFrames DEF TypeInv
<1>4. r \in SocketType
  BY Zenon, <1>1, <1>3 DEF SocketType
<1>5. /\ r.key = conn[c].key /\ r.lane = conn[c].lane /\ r.queue = conn[c].queue
      /\ r.pick = {} /\ r.at = "serve"
  BY Zenon, <1>1 DEF SocketType, SocketOk
<1> HIDE DEF r
<1>6. conn'[c] = r /\ DOMAIN conn' = DOMAIN conn /\ conn' \in Seq(SocketType)
      /\ Len(conn') = Len(conn) /\ \A d \in DOMAIN conn \ {c} : conn'[d] = conn[d]
  BY Zenon, <1>2, <1>4, SetSocket
<1>7. SocketOk(c)'
  BY Zenon, <1>1, <1>5, <1>6 DEF SocketOk
<1>8. UNCHANGED <<outq, conns, client, got, sent, wakes>>
      /\ spool' = [spool EXCEPT ![k] = NoFrames]
  BY Zenon DEF TakeSpool
<1>9. NoFrames \in Spool
  BY DEF NoFrames, Spool
<1>10. spool' \in [Keys -> Spool]
  BY Zenon, <1>1, <1>8, <1>9 DEF TypeInv
<1>11. LinkInv'
  BY Zenon, <1>2, <1>4, <1>5, <1>7, <1>8, OneSocket
<1> QED BY Zenon, <1>6, <1>8, <1>10, <1>11 DEF TypeInv

\* A frame is dropped by the policy, or its destination is looked up.
LEMMA RouteStruct ==
  ASSUME TypeInv, LinkInv, NEW c \in DOMAIN conn, Route(c)
  PROVE  TypeInv' /\ LinkInv' /\ Quiet
<1> DEFINE f == Head(conn[c].todo)
           d == Pick(conns[f.dst], f.hello)
<1>1. conn[c] \in SocketType /\ SocketOk(c) /\ conn[c].todo \in Seq(Frame)
      /\ conn[c].todo # <<>> /\ conn[c].at = "serve"
  BY Zenon, Sockets DEF LinkInv, Route, SocketType
<1>2. UNCHANGED <<outq, conns, spool, client, got, sent, wakes>>
  BY Zenon DEF Route, registry
<1>3. f \in Frame /\ Tail(conn[c].todo) \in Seq(Frame) /\ f.dst \in Keys
  BY Zenon, <1>1, HeadTail DEF Frame
<1>4. conns[f.dst] \in [Lanes -> ConnIds \cup {None}]
  BY Zenon, <1>3 DEF TypeInv
<1>5. d \in ConnIds \cup {None} /\ (d # None => d \in DOMAIN conn /\ conn[d].key = f.dst)
  <2>1. PICK l \in Lanes : d = conns[f.dst][l]
    BY Zenon DEF Pick, Lanes
  <2> QED BY <1>3, <1>4, <2>1 DEF LinkInv
<1>6. ASSUME NEW r \in SocketType, conn' = [conn EXCEPT ![c] = r],
             Keeps(r, conn[c]), SocketOk(c)'
      PROVE  TypeInv' /\ LinkInv' /\ Quiet
  <2>1. conn' \in Seq(SocketType) /\ Len(conn') = Len(conn)
    BY Zenon, <1>6, SetSocket
  <2>2. LinkInv'
    <3>1. r.key = conn[c].key /\ r.lane = conn[c].lane
      BY Zenon, <1>6 DEF Keeps
    <3> QED BY Zenon, <1>2, <1>6, <3>1, OneSocket
  <2>3. Quiet
    BY Zenon, <1>6, QuietOne
  <2> QED BY Zenon, <1>2, <2>1, <2>2, <2>3 DEF TypeInv
<1>7. CASE conn' = [conn EXCEPT ![c].todo = Tail(@)] /\ conn[c].pick = {}
  <2> DEFINE r == [conn[c] EXCEPT !.todo = Tail(conn[c].todo)]
  <2>1. r \in SocketType
    BY Zenon, <1>1, <1>3 DEF SocketType
  <2>2. r.key = conn[c].key /\ r.lane = conn[c].lane /\ r.pick = {} /\ r.at = conn[c].at
        /\ r.queue = conn[c].queue /\ r.rx = conn[c].rx /\ r.todo = Tail(conn[c].todo)
    BY Zenon, <1>1, <1>7 DEF SocketType
  <2>3. conn' = [conn EXCEPT ![c] = r]
    BY Zenon, <1>7
  <2> HIDE DEF r
  <2>4. conn'[c] = r
    BY Zenon, <2>1, <2>3, SetSocket
  <2>5. SocketOk(c)'
    BY Zenon, <1>1, <2>2, <2>4 DEF SocketOk
  <2>6. conn[c].queue \in Seq(Frame)
    BY Zenon, <1>1 DEF SocketType
  <2>7. Keeps(r, conn[c])
    BY Zenon, <1>1, <2>2, <2>6, RestTail, RestWhole DEF Keeps
  <2> QED BY Zenon, <1>6, <2>1, <2>3, <2>5, <2>7
<1>8. CASE conn' = [conn EXCEPT ![c].pick = {d}]
  <2> DEFINE r == [conn[c] EXCEPT !.pick = {d}]
  <2>1. r \in SocketType
    BY Zenon, <1>1, <1>5 DEF SocketType
  <2>2. r.key = conn[c].key /\ r.lane = conn[c].lane /\ r.pick = {d} /\ r.at = conn[c].at
        /\ r.queue = conn[c].queue /\ r.todo = conn[c].todo /\ r.rx = conn[c].rx
    BY Zenon, <1>1 DEF SocketType
  <2>3. conn' = [conn EXCEPT ![c] = r]
    BY Zenon, <1>8
  <2>4. PICK e \in ConnIds \cup {None} : e = d
    BY Zenon, <1>5
  <2>5. PICK dst : dst = f.dst
    BY Zenon
  <2> HIDE DEF r, d
  <2>6. conn'[c] = r /\ DOMAIN conn' = DOMAIN conn
        /\ \A b \in DOMAIN conn \ {c} : conn'[b] = conn[b]
    BY Zenon, <2>1, <2>3, SetSocket
  <2>7. e # None => e \in DOMAIN conn' /\ conn'[e].key = dst
    BY Zenon, <1>5, <2>2, <2>4, <2>5, <2>6
  <2>8. Head(conn'[c].todo).dst = dst /\ conn'[c].pick = {e}
    BY Zenon, <2>2, <2>4, <2>5, <2>6
  <2>9. SocketOk(c)'
    BY Zenon, <1>1, <2>2, <2>6, <2>7, <2>8 DEF SocketOk
  <2>10. conn[c].queue \in Seq(Frame)
    BY Zenon, <1>1 DEF SocketType
  <2>11. Keeps(r, conn[c])
    BY Zenon, <1>1, <2>2, <2>10, RestWhole DEF Keeps
  <2> QED BY Zenon, <1>6, <2>1, <2>3, <2>9, <2>11
<1> QED BY Zenon, <1>7, <1>8 DEF Route

\* A sequence of sockets after one of them changes.
LEMMA SetIn ==
  ASSUME NEW s \in Seq(SocketType), NEW c \in DOMAIN s, NEW r \in SocketType,
         NEW t, t = [s EXCEPT ![c] = r]
  PROVE  /\ t \in Seq(SocketType) /\ Len(t) = Len(s) /\ DOMAIN t = DOMAIN s
         /\ t[c] = r /\ \A d \in DOMAIN s \ {c} : t[d] = s[d]
<1>1. c \in 1..Len(s)
  OBVIOUS
<1>2. t \in Seq(SocketType) /\ Len(t) = Len(s)
  <2>1. t \in [1..Len(s) -> SocketType]
    BY <1>1
  <2> QED BY <1>1, <2>1
<1> QED BY Zenon, <1>2

\* What forward does with the frame f and the sender d it looked up.
Forwards(c, d) ==
  LET f == Head(conn[c].todo)
      open == d # None /\ conn[d].rx
      queued == open /\ Len(conn[d].queue) < Cap(conn[d].lane)
  IN /\ conn' \in Seq(SocketType) /\ Len(conn') = Len(conn) /\ DOMAIN conn' = DOMAIN conn
     /\ \A b \in DOMAIN conn :
          /\ conn'[b].key = conn[b].key /\ conn'[b].lane = conn[b].lane
          /\ conn'[b].at = conn[b].at /\ conn'[b].rx = conn[b].rx
          /\ conn'[b].todo = IF b = c THEN Tail(conn[c].todo) ELSE conn[b].todo
          /\ conn'[b].pick = IF b = c THEN {} ELSE conn[b].pick
          /\ conn'[b].queue = IF queued /\ b = d THEN Append(conn[d].queue, f)
                              ELSE conn[b].queue
     /\ spool' = IF open THEN spool ELSE [spool EXCEPT ![f.dst] = PushSpool(@, f)]
     /\ f \in Frame /\ f.dst \in Keys
     /\ d # None => d \in DOMAIN conn /\ conn[d].key = f.dst
     /\ conn[c].todo # <<>> /\ conn[c].at = "serve"

\* A step of forward has that effect, for one of the senders looked up.
LEMMA ForwardEffect ==
  ASSUME TypeInv, LinkInv, NEW c \in DOMAIN conn, Forward(c)
  PROVE  \E d \in conn[c].pick : Forwards(c, d)
<1> DEFINE f == Head(conn[c].todo)
           done == [conn EXCEPT ![c].todo = Tail(@), ![c].pick = {}]
           r == [conn[c] EXCEPT !.todo = Tail(conn[c].todo), !.pick = {}]
<1>1. PICK d \in conn[c].pick :
        /\ conn' = IF d # None /\ conn[d].rx /\ Len(conn[d].queue) < Cap(conn[d].lane)
                   THEN [done EXCEPT ![d].queue = Append(@, f)] ELSE done
        /\ spool' = IF d # None /\ conn[d].rx THEN spool
                    ELSE [spool EXCEPT ![f.dst] = PushSpool(@, f)]
  BY Zenon DEF Forward
<1>2. conn[c] \in SocketType /\ SocketOk(c) /\ conn[c].todo \in Seq(Frame)
      /\ conn[c].at = "serve" /\ conn \in Seq(SocketType)
  BY Zenon, Sockets DEF LinkInv, Forward, SocketType, TypeInv
<1>3. conn[c].todo # <<>> /\ (d # None => d \in DOMAIN conn /\ conn[d].key = f.dst)
  BY Zenon, <1>2 DEF SocketOk
<1>4. f \in Frame /\ Tail(conn[c].todo) \in Seq(Frame) /\ f.dst \in Keys
  BY Zenon, <1>2, <1>3, HeadTail DEF Frame
<1>5. r \in SocketType
  BY Zenon, <1>2, <1>4 DEF SocketType
<1>6. /\ r.key = conn[c].key /\ r.lane = conn[c].lane /\ r.at = conn[c].at
      /\ r.rx = conn[c].rx /\ r.queue = conn[c].queue
      /\ r.todo = Tail(conn[c].todo) /\ r.pick = {}
  BY Zenon, <1>2 DEF SocketType
<1>7. done = [conn EXCEPT ![c] = r]
  BY Zenon
<1> HIDE DEF r, done
<1>8. /\ done \in Seq(SocketType) /\ Len(done) = Len(conn) /\ DOMAIN done = DOMAIN conn
      /\ done[c] = r /\ \A b \in DOMAIN conn \ {c} : done[b] = conn[b]
  BY <1>2, <1>5, <1>7, SetIn
<1>9. \A b \in DOMAIN conn :
        /\ done[b].key = conn[b].key /\ done[b].lane = conn[b].lane
        /\ done[b].at = conn[b].at /\ done[b].rx = conn[b].rx
        /\ done[b].queue = conn[b].queue
        /\ done[b].todo = IF b = c THEN Tail(conn[c].todo) ELSE conn[b].todo
        /\ done[b].pick = IF b = c THEN {} ELSE conn[b].pick
  BY Zenon, <1>6, <1>8
<1>10. CASE d # None /\ conn[d].rx /\ Len(conn[d].queue) < Cap(conn[d].lane)
  <2> DEFINE q == [done[d] EXCEPT !.queue = Append(conn[d].queue, f)]
  <2>1. d \in DOMAIN conn /\ done[d] \in SocketType
    BY <1>3, <1>8, <1>10
  <2>2. conn[d].queue \in Seq(Frame) /\ done[d].queue = conn[d].queue
    BY Zenon, <1>9, <2>1, Sockets DEF SocketType
  <2>3. Append(conn[d].queue, f) \in Seq(Frame)
    BY Zenon, <1>4, <2>2, Appended
  <2>4. q \in SocketType
    BY Zenon, <2>1, <2>3 DEF SocketType
  <2>5. /\ q.key = done[d].key /\ q.lane = done[d].lane /\ q.at = done[d].at
        /\ q.rx = done[d].rx /\ q.todo = done[d].todo /\ q.pick = done[d].pick
        /\ q.queue = Append(conn[d].queue, f)
    BY Zenon, <2>1 DEF SocketType
  <2>6. conn' = [done EXCEPT ![d] = q]
    BY Zenon, <1>1, <1>10, <2>2
  <2> HIDE DEF q
  <2>7. /\ conn' \in Seq(SocketType) /\ Len(conn') = Len(done) /\ DOMAIN conn' = DOMAIN done
        /\ conn'[d] = q /\ \A b \in DOMAIN done \ {d} : conn'[b] = done[b]
    BY <1>8, <2>1, <2>4, <2>6, SetIn
  <2>8. ASSUME NEW b \in DOMAIN conn
        PROVE  /\ conn'[b].key = conn[b].key /\ conn'[b].lane = conn[b].lane
               /\ conn'[b].at = conn[b].at /\ conn'[b].rx = conn[b].rx
               /\ conn'[b].todo = IF b = c THEN Tail(conn[c].todo) ELSE conn[b].todo
               /\ conn'[b].pick = IF b = c THEN {} ELSE conn[b].pick
               /\ conn'[b].queue = IF b = d THEN Append(conn[d].queue, f) ELSE conn[b].queue
    <3>1. CASE b = d
      BY Zenon, <1>9, <2>5, <2>7, <3>1
    <3>2. CASE b # d
      BY <1>8, <1>9, <2>7, <3>2
    <3> QED BY Zenon, <3>1, <3>2
  <2>9. spool' = spool
    BY Zenon, <1>1, <1>10
  <2>10. Forwards(c, d)
    BY Zenon, <1>2, <1>3, <1>4, <1>8, <1>10, <2>7, <2>8, <2>9 DEF Forwards
  <2> QED BY Zenon, <2>10
<1>11. CASE ~(d # None /\ conn[d].rx /\ Len(conn[d].queue) < Cap(conn[d].lane))
  <2>1. conn' = done
    BY Zenon, <1>1, <1>11
  <2>2. Forwards(c, d)
    BY <1>1, <1>2, <1>3, <1>4, <1>8, <1>9, <1>11, <2>1 DEF Forwards
  <2> QED BY Zenon, <2>2
<1> QED BY Zenon, <1>10, <1>11

\* A full spool loses its oldest frame, the new one is last.
LEMMA Pushed ==
  ASSUME NEW q \in Spool, NEW f \in Frame
  PROVE  /\ PushSpool(q, f) \in Spool
         /\ \E s \in Seq(Frame) :
              /\ s = q.held \/ (q.held # <<>> /\ s = Tail(q.held))
              /\ PushSpool(q, f).held = Append(s, f)
<1> DEFINE full == Len(q.held) >= SpoolCap
           s == IF full THEN Tail(q.held) ELSE q.held
           e == IF full /\ q.expired > 0 THEN q.expired - 1 ELSE q.expired
<1>1. q.held \in Seq(Frame) /\ q.expired \in Nat /\ Len(q.held) \in Nat /\ SpoolCap \in Nat \ {0}
  BY BoundAssumption DEF Spool
<1>2. full => q.held # <<>>
  BY <1>1
<1>3. s \in Seq(Frame)
  BY Zenon, <1>1, <1>2, HeadTail
<1>4. e \in Nat
  BY <1>1
<1>5. PushSpool(q, f) = [held |-> Append(s, f), expired |-> e]
  BY Zenon DEF PushSpool
<1>6. s = q.held \/ (q.held # <<>> /\ s = Tail(q.held))
  BY Zenon, <1>2
<1> HIDE DEF s, e
<1>7. Append(s, f) \in Seq(Frame)
  BY Zenon, <1>3, Appended
<1> QED BY <1>3, <1>4, <1>5, <1>6, <1>7 DEF Spool

\* forward keeps the structure.
LEMMA ForwardStruct ==
  ASSUME TypeInv, LinkInv, NEW c \in DOMAIN conn, Forward(c)
  PROVE  TypeInv' /\ LinkInv'
<1> DEFINE f == Head(conn[c].todo)
<1>1. PICK d \in conn[c].pick : Forwards(c, d)
  BY Zenon, ForwardEffect
<1>2. f \in Frame /\ f.dst \in Keys
  BY Zenon, <1>1 DEF Forwards
<1>3. UNCHANGED <<outq, client, conns, got, sent>>
  BY Zenon DEF Forward
<1>4. spool' \in [Keys -> Spool]
  <2>1. PushSpool(spool[f.dst], f) \in Spool
    BY Zenon, <1>2, Pushed DEF TypeInv
  <2>2. spool' = spool \/ spool' = [spool EXCEPT ![f.dst] = PushSpool(spool[f.dst], f)]
    BY Zenon, <1>1 DEF Forwards
  <2> HIDE DEF f
  <2> QED BY Zenon, <1>2, <2>1, <2>2 DEF TypeInv
<1>5. wakes' \subseteq Keys \X Keys
  <2>1. f.src \in Keys
    BY Zenon, <1>2 DEF Frame
  <2> QED BY SMTT(30), <1>2, <2>1 DEF Forward, TypeInv
<1>6. ASSUME NEW b \in DOMAIN conn
      PROVE  SocketOk(b)'
  <2>0. SocketOk(b)
    BY Zenon DEF LinkInv
  <2>1. /\ DOMAIN conn' = DOMAIN conn
        /\ \A x \in DOMAIN conn : conn'[x].key = conn[x].key
        /\ conn'[b].at = conn[b].at
        /\ conn'[b].todo = IF b = c THEN Tail(conn[c].todo) ELSE conn[b].todo
        /\ conn'[b].pick = IF b = c THEN {} ELSE conn[b].pick
        /\ conn[c].at = "serve"
    BY Zenon, <1>1 DEF Forwards
  <2>2. conn'[b].queue = conn[b].queue
        \/ (conn[b].key = f.dst /\ conn'[b].queue = Append(conn[b].queue, f))
    BY Zenon, <1>1 DEF Forwards
  <2>3. conn[b].queue \in Seq(Frame)
    BY Zenon, Sockets DEF SocketType
  <2>4. ASSUME NEW i \in DOMAIN conn'[b].queue
        PROVE  conn'[b].queue[i].dst = conn'[b].key
    <3>1. CASE conn'[b].queue = conn[b].queue
      BY Zenon, <2>0, <2>1, <2>4, <3>1 DEF SocketOk
    <3>2. CASE conn[b].key = f.dst /\ conn'[b].queue = Append(conn[b].queue, f)
      <4>1. conn'[b].queue[i] = IF i = Len(conn[b].queue) + 1 THEN f ELSE conn[b].queue[i]
        BY <1>2, <2>3, <2>4, <3>2, Appended
      <4>2. i # Len(conn[b].queue) + 1 => i \in DOMAIN conn[b].queue
        BY <1>2, <2>3, <2>4, <3>2
      <4> QED BY Zenon, <2>0, <2>1, <3>2, <4>1, <4>2 DEF SocketOk
    <3> QED BY Zenon, <2>2, <3>1, <3>2
  <2>5. CASE b = c
    BY Zenon, <2>1, <2>4, <2>5 DEF SocketOk
  <2>6. CASE b # c
    BY Zenon, <2>0, <2>1, <2>4, <2>6 DEF SocketOk
  <2> QED BY Zenon, <2>5, <2>6
<1>7. /\ conn' \in Seq(SocketType) /\ Len(conn') = Len(conn) /\ DOMAIN conn' = DOMAIN conn
      /\ \A x \in DOMAIN conn : conn'[x].key = conn[x].key /\ conn'[x].lane = conn[x].lane
  BY Zenon, <1>1 DEF Forwards
<1>8. LinkInv'
  BY <1>3, <1>6, <1>7 DEF LinkInv
<1> QED BY Zenon, <1>3, <1>4, <1>5, <1>7, <1>8 DEF TypeInv

\* The send task writes a frame to the socket.
LEMMA DownlinkStruct ==
  ASSUME TypeInv, LinkInv, NEW c \in DOMAIN conn, Downlink(c)
  PROVE  TypeInv' /\ LinkInv' /\ Quiet
<1> DEFINE q == conn[c].queue
           r == [conn[c] EXCEPT !.queue = Tail(q)]
<1>1. conn[c] \in SocketType /\ SocketOk(c) /\ q \in Seq(Frame) /\ conn[c].todo \in Seq(Frame)
      /\ q # <<>> /\ conn[c].key \in Keys
  BY Zenon, Sockets DEF LinkInv, SocketType, Downlink
<1>2. conn' = [conn EXCEPT ![c] = r]
  BY Zenon DEF Downlink
<1>3. /\ Head(q) \in Frame /\ Tail(q) \in Seq(Frame)
      /\ \A i \in DOMAIN Tail(q) : i + 1 \in DOMAIN q /\ Tail(q)[i] = q[i + 1]
  BY Zenon, <1>1, HeadTail
<1>4. r \in SocketType
  BY Zenon, <1>1, <1>3 DEF SocketType
<1>5. /\ r.key = conn[c].key /\ r.lane = conn[c].lane /\ r.at = conn[c].at
      /\ r.rx = conn[c].rx /\ r.todo = conn[c].todo /\ r.pick = conn[c].pick
      /\ r.queue = Tail(q)
  BY Zenon, <1>1 DEF SocketType
<1> HIDE DEF r
<1>6. conn'[c] = r /\ DOMAIN conn' = DOMAIN conn /\ conn' \in Seq(SocketType)
      /\ Len(conn') = Len(conn) /\ \A d \in DOMAIN conn \ {c} : conn'[d] = conn[d]
  BY Zenon, <1>2, <1>4, SetSocket
<1>7. \A d \in DOMAIN conn : conn'[d].key = conn[d].key
  BY Zenon, <1>5, <1>6
<1>8. SocketOk(c)'
  <2>1. \A i \in DOMAIN q : q[i].dst = conn[c].key
    BY Zenon, <1>1 DEF SocketOk
  <2>3. PICK t \in Seq(Frame) : t = Tail(q)
    BY Zenon, <1>3
  <2>4. \A i \in DOMAIN t : t[i].dst = conn[c].key
    BY Zenon, <1>3, <2>1, <2>3
  <2>5. conn'[c].queue = t /\ conn'[c].key = conn[c].key
    BY Zenon, <1>5, <1>6, <2>3
  <2> HIDE DEF q
  <2>2. \A i \in DOMAIN conn'[c].queue : conn'[c].queue[i].dst = conn'[c].key
    BY Zenon, <2>4, <2>5
  <2> QED BY Zenon, <1>1, <1>5, <1>6, <1>7, <2>2 DEF SocketOk
<1>9. UNCHANGED <<outq, conns, spool, client, sent, wakes>>
  BY Zenon DEF Downlink, registry
<1>10. LinkInv'
  BY Zenon, <1>2, <1>4, <1>5, <1>8, <1>9, OneSocket
<1>11. got' \in [Keys -> SUBSET Frame]
  <2>1. got' = [got EXCEPT ![conn[c].key] = @ \cup {Head(q)}]
    BY Zenon DEF Downlink
  <2> QED BY Zenon, <1>1, <1>3, <2>1 DEF TypeInv
<1>12. Keeps(r, conn[c])
  BY Zenon, <1>1, <1>5, RestWhole, RestTail DEF Keeps
<1>13. Quiet
  BY Zenon, <1>2, <1>4, <1>12, QuietOne
<1> QED BY Zenon, <1>6, <1>9, <1>10, <1>11, <1>13 DEF TypeInv

\* The slot is cleared by its own socket only.
LEMMA UnregisterStruct ==
  ASSUME TypeInv, LinkInv, NEW c \in DOMAIN conn, Unregister(c)
  PROVE  /\ TypeInv' /\ LinkInv' /\ Quiet
         /\ conn'[c].at = "clean"
         /\ \A k \in Keys, l \in Lanes : conns'[k][l] = conns[k][l] \/ conns[k][l] = c
<1> DEFINE r == [conn[c] EXCEPT !.at = "clean"]
<1>1. conn[c] \in SocketType /\ SocketOk(c) /\ conn[c].key \in Keys /\ conn[c].lane \in Lanes
  BY Zenon, Sockets DEF LinkInv, SocketType
<1>2. conn' = [conn EXCEPT ![c] = r]
  BY Zenon DEF Unregister
<1>4. r \in SocketType
  BY Zenon, <1>1 DEF SocketType
<1>5. /\ r.key = conn[c].key /\ r.lane = conn[c].lane /\ r.queue = conn[c].queue
      /\ r.todo = conn[c].todo /\ r.pick = conn[c].pick /\ r.at = "clean"
  BY Zenon, <1>1 DEF SocketType
<1> HIDE DEF r
<1>6. conn'[c] = r /\ DOMAIN conn' = DOMAIN conn /\ conn' \in Seq(SocketType)
      /\ Len(conn') = Len(conn) /\ \A d \in DOMAIN conn \ {c} : conn'[d] = conn[d]
  BY Zenon, <1>2, <1>4, SetSocket
<1>7. \A d \in DOMAIN conn : conn'[d].key = conn[d].key
  BY Zenon, <1>5, <1>6
<1>8. SocketOk(c)'
  BY Zenon, <1>1, <1>5, <1>6, <1>7 DEF SocketOk
<1>9. UNCHANGED <<outq, spool, client, got, sent, wakes>>
  BY Zenon DEF Unregister
<1>10. conns \in [Keys -> [Lanes -> ConnIds \cup {None}]]
       /\ conns' = [conns EXCEPT ![conn[c].key][conn[c].lane] = IF @ = c THEN None ELSE @]
  BY Zenon DEF TypeInv, Unregister
<1>11. conns' \in [Keys -> [Lanes -> ConnIds \cup {None}]]
  BY Zenon, <1>1, <1>10
<1>12. \A k \in Keys, l \in Lanes :
         conns'[k][l] = conns[k][l] \/ (conns[k][l] = c /\ conns'[k][l] = None)
  BY Zenon, <1>1, <1>10
<1>13. \A k \in Keys, l \in Lanes : conns'[k][l] # None =>
         \/ conns'[k][l] = conns[k][l]
         \/ conns'[k][l] = c /\ k = r.key /\ l = r.lane
  BY Zenon, <1>12
<1>14. LinkInv'
  BY Zenon, <1>2, <1>4, <1>5, <1>8, <1>9, <1>13, OneSocket
<1>15. conn[c].todo \in Seq(Frame) /\ conn[c].queue \in Seq(Frame)
  BY Zenon, <1>1 DEF SocketType
<1>16. Keeps(r, conn[c])
  BY Zenon, <1>5, <1>15, RestWhole DEF Keeps
<1>17. Quiet
  BY Zenon, <1>2, <1>4, <1>16, QuietOne
<1> QED BY Zenon, <1>5, <1>6, <1>9, <1>11, <1>12, <1>14, <1>17 DEF TypeInv

\* A lane task finds its socket dead.
LEMMA DisconnectStruct ==
  ASSUME TypeInv, LinkInv, NEW k \in Keys, NEW l \in Lanes, Disconnect(k, l)
  PROVE  TypeInv' /\ LinkInv' /\ Quiet
<1>1. UNCHANGED <<outq, conn, conns, spool, wakes, got, sent>>
      /\ client' = [client EXCEPT ![k][l] = Redial(@)]
  BY Zenon DEF Disconnect, registry
<1> QED BY Zenon, <1>1, RedialType, NoSocket, QuietNone DEF TypeInv

\* The queue of a lane loses its first frame.
LEMMA OutTail ==
  ASSUME TypeInv, NEW k \in Keys, NEW l \in Lanes, outq[k][l] # <<>>,
         outq' = [outq EXCEPT ![k][l] = Tail(@)]
  PROVE  /\ outq' \in [Keys -> [Lanes -> Seq(Frame)]]
         /\ Head(outq[k][l]) \in Frame
         /\ outq'[k][l] = Tail(outq[k][l])
         /\ \A j \in Keys, m \in Lanes : ~(j = k /\ m = l) => outq'[j][m] = outq[j][m]
<1>1. outq \in [Keys -> [Lanes -> Seq(Frame)]]
  BY Zenon DEF TypeInv
<1>2. Head(outq[k][l]) \in Frame /\ Tail(outq[k][l]) \in Seq(Frame)
  BY Zenon, <1>1, HeadTail
<1> QED BY Zenon, <1>1, <1>2

\* A frame goes up the lane's socket, or is lost on a dead one.
LEMMA SendStruct ==
  ASSUME TypeInv, LinkInv, NEW k \in Keys, NEW l \in Lanes, Send(k, l)
  PROVE  /\ TypeInv' /\ LinkInv'
         /\ \/ Quiet
            \/ \E c \in DOMAIN conn :
                 /\ DOMAIN conn' = DOMAIN conn
                 /\ conn[c].todo = <<>> /\ conn'[c].todo = <<Head(outq[k][l])>>
                 /\ \A d \in DOMAIN conn :
                      /\ d # c => conn'[d].todo = conn[d].todo
                      /\ conn'[d].queue = conn[d].queue /\ conn'[d].at = conn[d].at
                      /\ conn'[d].rx = conn[d].rx /\ conn'[d].key = conn[d].key
                      /\ conn'[d].lane = conn[d].lane
<1> DEFINE c == client[k][l].conn
           f == Head(outq[k][l])
<1>1. /\ client[k][l].at = "open" /\ outq[k][l] # <<>>
      /\ outq' = [outq EXCEPT ![k][l] = Tail(@)]
      /\ UNCHANGED <<conns, spool, wakes, got, sent>>
  BY Zenon DEF Send, registry
<1>2. outq' \in [Keys -> [Lanes -> Seq(Frame)]] /\ f \in Frame
  BY Zenon, <1>1, OutTail
<1>3. c \in DOMAIN conn
  BY Zenon, <1>1 DEF LinkInv
<1>4. CASE client' = [client EXCEPT ![k][l] = Redial(@)] /\ UNCHANGED conn
  BY Zenon, <1>1, <1>2, <1>4, RedialType, NoSocket, QuietNone DEF TypeInv
<1>5. CASE /\ conn[c].at = "serve" /\ conn[c].todo = <<>>
           /\ conn' = [conn EXCEPT ![c].todo = <<f>>]
           /\ UNCHANGED client
  <2>0. PICK b \in DOMAIN conn : b = c
    BY Zenon, <1>3
  <2> DEFINE r == [conn[b] EXCEPT !.todo = <<f>>]
  <2>1. conn[b] \in SocketType /\ SocketOk(b) /\ conn[b].at = "serve" /\ conn[b].todo = <<>>
    BY Zenon, <1>5, <2>0, Sockets DEF LinkInv
  <2>2. <<f>> \in Seq(Frame)
    BY <1>2
  <2>3. r \in SocketType
    BY Zenon, <2>1, <2>2 DEF SocketType
  <2>4. /\ r.key = conn[b].key /\ r.lane = conn[b].lane /\ r.at = "serve" /\ r.rx = conn[b].rx
        /\ r.queue = conn[b].queue /\ r.pick = conn[b].pick /\ r.todo = <<f>>
    BY Zenon, <2>1 DEF SocketType
  <2>5. conn' = [conn EXCEPT ![b] = r]
    BY Zenon, <1>5, <2>0
  <2>6. conn[b].pick = {}
    BY Zenon, <2>1 DEF SocketOk
  <2> HIDE DEF r, c, f
  <2>7. conn'[b] = r /\ DOMAIN conn' = DOMAIN conn /\ conn' \in Seq(SocketType)
        /\ Len(conn') = Len(conn) /\ \A d \in DOMAIN conn \ {b} : conn'[d] = conn[d]
    BY Zenon, <2>3, <2>5, SetSocket
  <2>8. SocketOk(b)'
    BY Zenon, <2>1, <2>4, <2>6, <2>7 DEF SocketOk
  <2>9. LinkInv'
    BY Zenon, <1>1, <1>5, <2>3, <2>4, <2>5, <2>8, OneSocket
  <2>10. TypeInv'
    BY Zenon, <1>1, <1>2, <1>5, <2>7 DEF TypeInv
  <2>11. \A d \in DOMAIN conn :
           /\ d # b => conn'[d].todo = conn[d].todo
           /\ conn'[d].queue = conn[d].queue /\ conn'[d].at = conn[d].at
           /\ conn'[d].rx = conn[d].rx /\ conn'[d].key = conn[d].key
           /\ conn'[d].lane = conn[d].lane
    BY Zenon, <2>1, <2>4, <2>7
  <2>12. conn[b].todo = <<>> /\ conn'[b].todo = <<Head(outq[k][l])>>
    BY Zenon, <2>1, <2>4, <2>7 DEF f
  <2> QED BY Zenon, <2>7, <2>9, <2>10, <2>11, <2>12
<1> QED BY Zenon, <1>4, <1>5 DEF Send

\* Both lane tasks return.
LEMMA StopStruct ==
  ASSUME TypeInv, LinkInv, NEW k \in Keys, Stop(k)
  PROVE  /\ TypeInv' /\ LinkInv' /\ Quiet
         /\ \A j \in Keys, m \in Lanes : outq'[j][m] = outq[j][m] \/ outq'[j][m] = <<>>
<1> DEFINE mine(c) == \E l \in Lanes : client[k][l].conn = c
           off(c) == [conn[c] EXCEPT !.net = FALSE]
<1>1. /\ client' = [client EXCEPT ![k] = [l \in Lanes |-> [Down EXCEPT !.at = "stopped"]]]
      /\ outq' = [outq EXCEPT ![k] = [l \in Lanes |-> <<>>]]
      /\ conn' = [c \in DOMAIN conn |-> IF mine(c) THEN off(c) ELSE conn[c]]
      /\ UNCHANGED <<conns, spool, wakes, got, sent>>
  BY Zenon DEF Stop, registry
<1>2. outq' \in [Keys -> [Lanes -> Seq(Frame)]]
      /\ \A j \in Keys, m \in Lanes : outq'[j][m] = outq[j][m] \/ outq'[j][m] = <<>>
  <2>1. <<>> \in Seq(Frame)
    OBVIOUS
  <2>2. [l \in Lanes |-> <<>>] \in [Lanes -> Seq(Frame)]
    BY Zenon, <2>1
  <2> QED BY Zenon, <1>1, <2>2 DEF TypeInv
<1>3. client' \in [Keys -> [Lanes -> LaneTask]]
      /\ \A j \in Keys, m \in Lanes : client'[j][m].at = "open" => client'[j][m] = client[j][m]
  <2>1. [Down EXCEPT !.at = "stopped"] \in LaneTask /\ [Down EXCEPT !.at = "stopped"].at # "open"
    BY DEF Down, LaneTask
  <2> QED BY Zenon, <1>1, <2>1 DEF TypeInv
<1>4. ASSUME NEW c \in DOMAIN conn
      PROVE  /\ conn'[c] \in SocketType /\ Keeps(conn'[c], conn[c])
             /\ conn'[c].todo = conn[c].todo /\ conn'[c].pick = conn[c].pick
             /\ conn'[c].queue = conn[c].queue /\ conn'[c].at = conn[c].at
             /\ conn'[c].key = conn[c].key /\ conn'[c].lane = conn[c].lane
  <2>1. conn[c] \in SocketType /\ (conn'[c] = conn[c] \/ conn'[c] = off(c))
    BY Zenon, <1>1, Sockets
  <2>2. off(c) \in SocketType
    BY Zenon, <2>1 DEF SocketType
  <2>3. /\ off(c).key = conn[c].key /\ off(c).lane = conn[c].lane /\ off(c).at = conn[c].at
        /\ off(c).rx = conn[c].rx /\ off(c).queue = conn[c].queue
        /\ off(c).todo = conn[c].todo /\ off(c).pick = conn[c].pick
    BY Zenon, <2>1 DEF SocketType
  <2>4. conn[c].todo \in Seq(Frame) /\ conn[c].queue \in Seq(Frame)
    BY Zenon, <2>1 DEF SocketType
  <2> HIDE DEF off
  <2>5. Keeps(off(c), conn[c]) /\ Keeps(conn[c], conn[c])
    BY Zenon, <2>3, <2>4, RestWhole DEF Keeps
  <2> QED BY Zenon, <2>1, <2>2, <2>3, <2>5
<1>5. DOMAIN conn' = DOMAIN conn /\ conn' \in Seq(SocketType) /\ Len(conn') = Len(conn)
  <2>1. DOMAIN conn = 1..Len(conn) /\ Len(conn) \in Nat
    BY Zenon, Sockets
  <2>2. conn' \in [1..Len(conn) -> SocketType]
    BY <1>1, <1>4, <2>1
  <2> QED BY <2>1, <2>2
<1>6. ASSUME NEW c \in DOMAIN conn
      PROVE  SocketOk(c)'
  <2>1. SocketOk(c)
    BY Zenon DEF LinkInv
  <2> QED BY Zenon, <1>4, <1>5, <2>1 DEF SocketOk
<1>7. LinkInv'
  BY <1>1, <1>3, <1>4, <1>5, <1>6 DEF LinkInv
<1>8. Quiet
  BY Zenon, <1>4, <1>5 DEF Quiet
<1> QED BY Zenon, <1>1, <1>2, <1>3, <1>5, <1>7, <1>8 DEF TypeInv

\* drop_pubkey removes both lanes of a key, or what is held for it.
LEMMA DropConnsStruct ==
  ASSUME TypeInv, LinkInv, NEW k \in Keys, DropConns(k)
  PROVE  /\ TypeInv' /\ LinkInv' /\ Quiet
         /\ \A j \in Keys, l \in Lanes :
              conns'[j][l] = conns[j][l] \/ (conns[j][l] # None => conns[j][l] \in displaced')
<1>1. /\ UNCHANGED <<outq, conn, spool, client, got, sent, wakes>>
      /\ conns' = [conns EXCEPT ![k] = [l \in Lanes |-> None]]
      /\ displaced' = displaced \cup ({conns[k][l] : l \in Lanes} \ {None})
  BY Zenon DEF DropConns
<1>2. conns' \in [Keys -> [Lanes -> ConnIds \cup {None}]]
  BY Zenon, <1>1 DEF TypeInv
<1>3. \A j \in Keys, l \in Lanes :
        conns'[j][l] = conns[j][l] \/ (conns'[j][l] = None /\ j = k)
  BY Zenon, <1>1 DEF TypeInv
<1>4. LinkInv'
  BY Zenon, <1>1, <1>3, NoSocket
<1> QED BY Zenon, <1>1, <1>2, <1>3, <1>4, QuietNone DEF TypeInv

\* The spools stay spools: those of other keys are not touched.
LEMMA SpoolStruct ==
  ASSUME TypeInv, LinkInv, NEW k \in Keys, NEW q \in Spool, spool' = [spool EXCEPT ![k] = q],
         UNCHANGED <<outq, conn, conns, client, got, sent, wakes>>
  PROVE  TypeInv' /\ LinkInv' /\ Quiet
  BY Zenon, NoSocket, QuietNone DEF TypeInv

\* drop_pubkey forgets the frames held for the key.
LEMMA DropSpoolStruct ==
  ASSUME TypeInv, LinkInv, NEW k \in Keys, DropSpool(k)
  PROVE  /\ TypeInv' /\ LinkInv' /\ Quiet
         /\ \A j \in Keys : Rest(spool'[j].held, spool[j].held)
<1>1. NoFrames \in Spool /\ NoFrames.held = <<>>
  BY DEF NoFrames, Spool
<1>2. spool' = [spool EXCEPT ![k] = NoFrames]
      /\ UNCHANGED <<outq, conn, conns, client, got, sent, wakes>>
  BY Zenon DEF DropSpool
<1>3. TypeInv' /\ LinkInv' /\ Quiet
  BY Zenon, <1>1, <1>2, SpoolStruct
<1>4. \A j \in Keys : spool[j].held \in Seq(Frame)
  BY Zenon DEF TypeInv, Spool
<1>5. \A j \in Keys : spool'[j] = spool[j] \/ spool'[j] = NoFrames
  BY Zenon, <1>2 DEF TypeInv
<1> QED BY Zenon, <1>1, <1>3, <1>4, <1>5, RestWhole, RestEmpty

\* Held frames expire.
LEMMA AgeStruct ==
  ASSUME TypeInv, LinkInv, NEW k \in Keys, Age(k)
  PROVE  /\ TypeInv' /\ LinkInv' /\ Quiet
         /\ \A j \in Keys : Rest(spool'[j].held, spool[j].held)
<1> DEFINE q == [spool[k] EXCEPT !.expired = Len(spool[k].held)]
<1>1. spool[k] \in Spool /\ Len(spool[k].held) \in Nat
  BY DEF TypeInv, Spool
<1>2. q \in Spool /\ q.held = spool[k].held
  BY Zenon, <1>1 DEF Spool
<1>3. spool' = [spool EXCEPT ![k] = q]
      /\ UNCHANGED <<outq, conn, conns, client, got, sent, wakes>>
  BY Zenon DEF Age
<1> HIDE DEF q
<1>4. TypeInv' /\ LinkInv' /\ Quiet
  BY Zenon, <1>2, <1>3, SpoolStruct
<1>5. \A j \in Keys : spool[j].held \in Seq(Frame)
  BY Zenon DEF TypeInv, Spool
<1>6. \A j \in Keys : spool'[j].held = spool[j].held
  BY Zenon, <1>2, <1>3 DEF TypeInv
<1> QED BY Zenon, <1>4, <1>5, <1>6, RestWhole

\* The sweeper removes expired frames ...
LEMMA ReapExpiredSpoolStruct ==
  ASSUME TypeInv, LinkInv, NEW k \in Keys, ReapExpiredSpool(k)
  PROVE  /\ TypeInv' /\ LinkInv' /\ Quiet
         /\ \A j \in Keys : Rest(spool'[j].held, spool[j].held)
<1> DEFINE q == [held |-> Fresh(spool[k]), expired |-> 0]
<1>1. spool[k] \in Spool /\ spool[k].expired \in Nat
  BY Zenon DEF TypeInv, Spool
<1>2. /\ Fresh(spool[k]) \in Seq(Frame)
      /\ \A i \in DOMAIN Fresh(spool[k]) :
           /\ i + spool[k].expired \in DOMAIN spool[k].held
           /\ Fresh(spool[k])[i] = spool[k].held[i + spool[k].expired]
  BY Zenon, <1>1, FreshFrames
<1>3. q \in Spool /\ q.held = Fresh(spool[k])
  BY Zenon, <1>2 DEF Spool
<1>4. spool' = [spool EXCEPT ![k] = q]
      /\ UNCHANGED <<outq, conn, conns, client, got, sent, wakes>>
  BY Zenon DEF ReapExpiredSpool
<1>5. Rest(Fresh(spool[k]), spool[k].held)
  BY Zenon, <1>1, <1>2 DEF Rest
<1> HIDE DEF q
<1>6. TypeInv' /\ LinkInv' /\ Quiet
  BY Zenon, <1>3, <1>4, SpoolStruct
<1>7. \A j \in Keys : spool[j].held \in Seq(Frame)
  BY Zenon DEF TypeInv, Spool
<1>8. \A j \in Keys : spool'[j] = IF j = k THEN q ELSE spool[j]
  BY Zenon, <1>4 DEF TypeInv
<1> QED BY Zenon, <1>3, <1>5, <1>6, <1>7, <1>8, RestWhole

\* ... and the slots of sockets whose receiver is gone.
LEMMA ReapClosedStruct ==
  ASSUME TypeInv, LinkInv, NEW k \in Keys, ReapClosed(k)
  PROVE  /\ TypeInv' /\ LinkInv' /\ Quiet
         /\ \A j \in Keys, l \in Lanes :
              \/ conns'[j][l] = conns[j][l]
              \/ conns[j][l] # None /\ ~conn[conns[j][l]].rx
<1>1. /\ UNCHANGED <<outq, conn, spool, client, got, sent, wakes>>
      /\ conns' = [conns EXCEPT ![k] = [l \in Lanes |->
           IF conns[k][l] # None /\ ~conn[conns[k][l]].rx THEN None ELSE conns[k][l]]]
  BY Zenon DEF ReapClosed
<1>2. \A j \in Keys, l \in Lanes :
        \/ conns'[j][l] = conns[j][l]
        \/ conns'[j][l] = None /\ conns[j][l] # None /\ ~conn[conns[j][l]].rx
  BY Zenon, <1>1 DEF TypeInv
<1>3. conns' \in [Keys -> [Lanes -> ConnIds \cup {None}]]
  BY Zenon, <1>1 DEF TypeInv
<1>4. LinkInv'
  BY Zenon, <1>1, <1>2, NoSocket
<1> QED BY Zenon, <1>1, <1>2, <1>3, <1>4, QuietNone DEF TypeInv

\* Membership, policy and cooldown are not part of the structure.
LEMMA OtherStruct ==
  ASSUME TypeInv, LinkInv, UNCHANGED <<outq, conn, conns, spool, client, got, sent, wakes>>
  PROVE  TypeInv' /\ LinkInv' /\ Quiet
<1>1. LinkInv'
  BY Zenon, NoSocket
<1> QED BY Zenon, <1>1, QuietNone DEF TypeInv
-----------------------------------------------------------------------------
(* The newest socket serves its lane.                                      *)

\* No socket begins to serve in this step.
NoneBegins ==
  \A c \in DOMAIN conn' : conn'[c].at \in {"spool", "serve"} /\ conn'[c].rx =>
    /\ c \in DOMAIN conn /\ conn[c].at \in {"spool", "serve"} /\ conn[c].rx
    /\ conn'[c].key = conn[c].key /\ conn'[c].lane = conn[c].lane

\* In a quiet step none does.
LEMMA QuietNoneBegins ==
  ASSUME Quiet
  PROVE  NoneBegins
  BY Zenon DEF Quiet, Keeps, NoneBegins

\* A slot is only changed when its socket no longer serves or is displaced.
LEMMA ServesKept ==
  ASSUME TypeInv, LinkInv, NewestServes, NoneBegins, displaced \subseteq displaced',
         \A k \in Keys, l \in Lanes :
           \/ conns'[k][l] = conns[k][l]
           \/ conns[k][l] = None \/ conns[k][l] \in displaced'
           \/ conn'[conns[k][l]].at \notin {"spool", "serve"}
           \/ ~conn'[conns[k][l]].rx
  PROVE  NewestServes'
<1> SUFFICES ASSUME NEW c \in DOMAIN conn', conn'[c].at \in {"spool", "serve"}, conn'[c].rx,
                    c \notin displaced'
             PROVE  conns'[conn'[c].key][conn'[c].lane] = c
  BY Zenon DEF NewestServes
<1>1. /\ c \in DOMAIN conn /\ conn[c].at \in {"spool", "serve"} /\ conn[c].rx
      /\ conn'[c].key = conn[c].key /\ conn'[c].lane = conn[c].lane
  BY Zenon DEF NoneBegins
<1>2. conns[conn[c].key][conn[c].lane] = c
  BY Zenon, <1>1 DEF NewestServes
<1>3. conn'[c].key = conn[c].key /\ conn'[c].lane = conn[c].lane
  BY Zenon, <1>1
<1>4. conn[c].key \in Keys /\ conn[c].lane \in Lanes /\ c # None
  BY Zenon, <1>1, Sockets, KeyAssumption DEF SocketType
<1> QED BY Zenon, <1>2, <1>3, <1>4

\* register: the socket that had the slot is displaced.
LEMMA RegisterServes ==
  ASSUME TypeInv, LinkInv, NewestServes, NEW c \in DOMAIN conn, Register(c)
  PROVE  NewestServes'
<1> DEFINE r == [conn[c] EXCEPT !.at = "spool"]
<1>1. conn[c] \in SocketType /\ conn[c].key \in Keys /\ conn[c].lane \in Lanes
  BY Zenon, Sockets DEF SocketType
<1>2. r \in SocketType /\ r.key = conn[c].key /\ r.lane = conn[c].lane
  BY Zenon, <1>1 DEF SocketType
<1>3. conn' = [conn EXCEPT ![c] = r]
  BY Zenon DEF Register
<1> HIDE DEF r
<1>4. conn'[c] = r /\ DOMAIN conn' = DOMAIN conn
      /\ \A d \in DOMAIN conn \ {c} : conn'[d] = conn[d]
  BY Zenon, <1>2, <1>3, SetSocket
<1>5. /\ conns' = [conns EXCEPT ![conn[c].key][conn[c].lane] = c]
      /\ displaced' = displaced \cup ({conns[conn[c].key][conn[c].lane]} \ {None})
  BY Zenon DEF Register
<1>6. \A k \in Keys, l \in Lanes :
        conns'[k][l] = IF k = conn[c].key /\ l = conn[c].lane THEN c ELSE conns[k][l]
  BY Zenon, <1>1, <1>5 DEF TypeInv
<1>7. ASSUME NEW d \in DOMAIN conn, d # c, conn[d].at \in {"spool", "serve"}, conn[d].rx,
             d \notin displaced'
      PROVE  conns'[conn[d].key][conn[d].lane] = d
  <2>1. conns[conn[d].key][conn[d].lane] = d
    BY Zenon, <1>5, <1>7 DEF NewestServes
  <2>2. conn[d].key \in Keys /\ conn[d].lane \in Lanes /\ d # None
    BY Zenon, Sockets, KeyAssumption DEF SocketType
  <2> QED BY <1>5, <1>6, <1>7, <2>1, <2>2
<1>8. conns'[conn'[c].key][conn'[c].lane] = c
  BY Zenon, <1>1, <1>2, <1>4, <1>6
<1> QED BY Zenon, <1>4, <1>7, <1>8 DEF NewestServes

\* The lanes that are up at the start are served by their own sockets.
LEMMA InitStruct ==
  ASSUME Init
  PROVE  TypeInv /\ LinkInv /\ NewestServes
<1> DEFINE n == Len(Attached)
           s(c) == Socket(Attached[c][1], Attached[c][2], "serve")
<1>1. n \in Nat /\ n <= MaxConns /\ MaxConns \in Nat /\ ConnIds = 1..MaxConns
      /\ None \notin ConnIds
  BY KeyAssumption, BoundAssumption DEF ConnIds
<1>2. /\ conn = [c \in 1..n |-> s(c)]
      /\ conns = [k \in Keys |-> [l \in Lanes |->
           IF UpOn(k, l) = {} THEN None ELSE CHOOSE c \in UpOn(k, l) : TRUE]]
      /\ client = [k \in Keys |-> [l \in Lanes |->
           IF UpOn(k, l) = {} THEN Down
           ELSE [Down EXCEPT !.at = "open", !.conn = conns[k][l]]]]
  BY Zenon DEF Init
<1>3. ASSUME NEW c \in 1..n
      PROVE  /\ s(c) \in SocketType /\ s(c).todo = <<>> /\ s(c).queue = <<>> /\ s(c).pick = {}
             /\ s(c).key = Attached[c][1] /\ s(c).lane = Attached[c][2]
             /\ s(c).key \in Keys /\ s(c).lane \in Lanes /\ Attached[c] = <<s(c).key, s(c).lane>>
  <2>1. Attached[c] \in Keys \X Lanes
    BY Zenon, KeyAssumption
  <2>2. <<>> \in Seq(Frame)
    OBVIOUS
  <2>3. Attached[c][1] \in Keys /\ Attached[c][2] \in Lanes
        /\ Attached[c] = <<Attached[c][1], Attached[c][2]>>
    BY <2>1
  <2>4. s(c) \in SocketType
    BY Zenon, <2>2, <2>3 DEF Socket, SocketType
  <2>5. /\ s(c).todo = <<>> /\ s(c).queue = <<>> /\ s(c).pick = {}
        /\ s(c).key = Attached[c][1] /\ s(c).lane = Attached[c][2]
    BY Zenon DEF Socket
  <2> QED BY Zenon, <2>3, <2>4, <2>5
<1> HIDE DEF s
<1>4. conn \in Seq(SocketType) /\ Len(conn) = n /\ DOMAIN conn = 1..n
      /\ \A c \in 1..n : conn[c] = s(c)
  <2>1. conn \in [1..n -> SocketType]
    BY Zenon, <1>2, <1>3
  <2>2. \A c \in 1..n : conn[c] = s(c)
    BY Zenon, <1>2
  <2> HIDE DEF n
  <2>3. conn \in Seq(SocketType)
    BY <1>1, <2>1
  <2>4. Len(conn) = n /\ DOMAIN conn = 1..n
    BY <1>1, <2>1, <2>3
  <2> QED BY Zenon, <2>2, <2>3, <2>4
<1>5. \A k \in Keys, l \in Lanes :
        /\ UpOn(k, l) = {} => conns[k][l] = None
        /\ UpOn(k, l) # {} => conns[k][l] \in UpOn(k, l)
  BY Zenon, <1>2
<1>6. \A k \in Keys, l \in Lanes : conns[k][l] # None =>
        conns[k][l] \in 1..n /\ Attached[conns[k][l]] = <<k, l>>
  BY Zenon, <1>5 DEF UpOn
<1>7. conns \in [Keys -> [Lanes -> ConnIds \cup {None}]]
  <2> DEFINE g(k, l) == IF UpOn(k, l) = {} THEN None ELSE CHOOSE c \in UpOn(k, l) : TRUE
  <2>1. conns = [k \in Keys |-> [l \in Lanes |-> g(k, l)]]
    BY Zenon, <1>2
  <2> HIDE DEF g
  <2>2. \A k \in Keys, l \in Lanes : g(k, l) = conns[k][l]
    BY Zenon, <2>1
  <2>3. \A k \in Keys, l \in Lanes : g(k, l) \in ConnIds \cup {None}
    BY <1>1, <1>6, <2>2
  <2> QED BY Zenon, <2>1, <2>3
<1>8. client \in [Keys -> [Lanes -> LaneTask]]
      /\ \A k \in Keys, l \in Lanes : client[k][l].at = "open" =>
           client[k][l].conn = conns[k][l] /\ conns[k][l] # None
  <2>1. Down \in LaneTask /\ Down.at # "open"
    BY DEF Down, LaneTask
  <2>2. ASSUME NEW k \in Keys, NEW l \in Lanes
        PROVE  /\ [Down EXCEPT !.at = "open", !.conn = conns[k][l]] \in LaneTask
               /\ [Down EXCEPT !.at = "open", !.conn = conns[k][l]].conn = conns[k][l]
               /\ UpOn(k, l) # {} => conns[k][l] # None
    <3>1. conns[k][l] \in ConnIds \cup {None}
      BY Zenon, <1>7
    <3>2. UpOn(k, l) # {} => conns[k][l] # None
      BY <1>1, <1>5 DEF UpOn
    <3>3. [Down EXCEPT !.at = "open", !.conn = conns[k][l]] \in LaneTask
      BY Zenon, <2>1, <3>1 DEF LaneTask
    <3>4. [Down EXCEPT !.at = "open", !.conn = conns[k][l]].conn = conns[k][l]
      BY Zenon, <2>1 DEF LaneTask
    <3> QED BY Zenon, <3>2, <3>3, <3>4
  <2> QED BY Zenon, <1>2, <2>1, <2>2
<1>9. \A c \in DOMAIN conn : SocketOk(c)
  BY <1>3, <1>4 DEF SocketOk
<1>10. LinkInv
  <2>1. ASSUME NEW k \in Keys, NEW l \in Lanes, conns[k][l] # None
        PROVE  /\ conns[k][l] \in DOMAIN conn
               /\ conn[conns[k][l]].key = k /\ conn[conns[k][l]].lane = l
    BY <1>3, <1>4, <1>6, <2>1
  <2> QED BY <1>8, <1>9, <2>1 DEF LinkInv
<1>11. NewestServes
  <2> SUFFICES ASSUME NEW c \in DOMAIN conn
               PROVE  conns[conn[c].key][conn[c].lane] = c
    BY Zenon DEF NewestServes
  <2>1. c \in 1..n /\ conn[c] = s(c)
    BY Zenon, <1>4
  <2>2. PICK k \in Keys, l \in Lanes :
          k = conn[c].key /\ l = conn[c].lane /\ Attached[c] = <<k, l>>
    BY Zenon, <1>3, <2>1
  <2>3. c \in UpOn(k, l)
    BY Zenon, <2>1, <2>2 DEF UpOn
  <2>4. conns[k][l] \in 1..n /\ Attached[conns[k][l]] = Attached[c]
    BY Zenon, <1>5, <2>2, <2>3 DEF UpOn
  <2> QED BY Zenon, <2>1, <2>2, <2>4, KeyAssumption
<1>12. outq \in [Keys -> [Lanes -> Seq(Frame)]] /\ spool \in [Keys -> Spool]
       /\ got \in [Keys -> SUBSET Frame] /\ sent \in Nat /\ wakes \subseteq Keys \X Keys
  <2>1. <<>> \in Seq(Frame) /\ NoFrames \in Spool
    BY DEF NoFrames, Spool
  <2> QED BY Zenon, <2>1 DEF Init
<1> QED BY Zenon, <1>1, <1>4, <1>7, <1>8, <1>10, <1>11, <1>12 DEF TypeInv-----------------------------------------------------------------------------
(* The invariant.                                                          *)

StructInv == TypeInv /\ LinkInv /\ NewestServes

\* A step in which no socket begins to serve and no slot changes.
LEMMA SameSlots ==
  ASSUME StructInv, TypeInv', LinkInv', NoneBegins, UNCHANGED <<conns, displaced>>
  PROVE  StructInv'
<1>1. NewestServes'
  BY Zenon, ServesKept DEF StructInv
<1> QED BY Zenon, <1>1 DEF StructInv

\* The steps of a joiner keep the structure.
LEMMA JoinerStruct ==
  ASSUME StructInv, NEW k \in Keys, NEW l \in Lanes,
         Dial(k, l) \/ Send(k, l) \/ Disconnect(k, l) \/ Stop(k)
  PROVE  StructInv'
<1>1. UNCHANGED <<conns, displaced>>
  BY Zenon DEF Dial, Send, Disconnect, Stop, registry
<1>2. TypeInv /\ LinkInv
  BY Zenon DEF StructInv
<1>3. CASE Dial(k, l)
  BY Zenon, <1>1, <1>2, <1>3, DialStruct, QuietNoneBegins, SameSlots
<1>4. CASE Send(k, l)
  <2>1. TypeInv' /\ LinkInv'
    BY Zenon, <1>2, <1>4, SendStruct
  <2>2. NoneBegins
    BY Zenon, <1>2, <1>4, SendStruct, QuietNoneBegins DEF NoneBegins
  <2> QED BY Zenon, <1>1, <2>1, <2>2, SameSlots
<1>5. CASE Disconnect(k, l)
  BY Zenon, <1>1, <1>2, <1>5, DisconnectStruct, QuietNoneBegins, SameSlots
<1>6. CASE Stop(k)
  BY Zenon, <1>1, <1>2, <1>6, StopStruct, QuietNoneBegins, SameSlots
<1> QED BY Zenon, <1>3, <1>4, <1>5, <1>6

\* The steps of a socket and its handler keep it.
LEMMA SocketStruct ==
  ASSUME StructInv, NEW c \in DOMAIN conn,
         Break(c) \/ Handle(c) \/ Downlink(c) \/ SendTaskEnds(c) \/ StreamEnds(c)
  PROVE  StructInv'
<1>1. TypeInv /\ LinkInv /\ NewestServes
  BY Zenon DEF StructInv
<1>2. ASSUME Break(c) \/ SendTaskEnds(c) \/ StreamEnds(c) \/ Close(c) \/ Route(c) \/ Downlink(c)
      PROVE  StructInv'
  <2>1. UNCHANGED <<conns, displaced>>
    BY Zenon, <1>2 DEF Break, SendTaskEnds, StreamEnds, Close, Route, Downlink, registry
  <2>2. TypeInv' /\ LinkInv' /\ Quiet
    BY Zenon, <1>1, <1>2, BreakStruct, SendTaskEndsStruct, StreamEndsStruct, CloseStruct,
       RouteStruct, DownlinkStruct
  <2> QED BY Zenon, <2>1, <2>2, QuietNoneBegins, SameSlots
<1>3. CASE Register(c)
  BY Zenon, <1>1, <1>3, RegisterStruct, RegisterServes DEF StructInv
<1>4. CASE TakeSpool(c)
  <2>1. UNCHANGED <<conns, displaced>> /\ conn[c].at = "spool"
        /\ conn' = [conn EXCEPT ![c].at = "serve", ![c].todo = Fresh(spool[conn[c].key])]
    BY Zenon, <1>4 DEF TakeSpool
  <2>2. TypeInv' /\ LinkInv'
    BY Zenon, <1>1, <1>4, TakeSpoolStruct
  <2>3. \A d \in DOMAIN conn : conn[d] \in SocketType
    BY Zenon, <1>1, Sockets
  <2>4. NoneBegins
    BY <2>1, <2>3 DEF NoneBegins, SocketType
  <2> QED BY Zenon, <2>1, <2>2, <2>4, SameSlots
<1>5. CASE Forward(c)
  <2>1. UNCHANGED <<conns, displaced>>
    BY Zenon, <1>5 DEF Forward
  <2>2. TypeInv' /\ LinkInv'
    BY Zenon, <1>1, <1>5, ForwardStruct
  <2>3. NoneBegins
    BY Zenon, <1>1, <1>5, ForwardEffect DEF Forwards, NoneBegins
  <2> QED BY Zenon, <2>1, <2>2, <2>3, SameSlots
<1>6. CASE Unregister(c)
  <2>1. displaced' = displaced
    BY Zenon, <1>6 DEF Unregister
  <2>2. /\ TypeInv' /\ LinkInv' /\ Quiet /\ conn'[c].at = "clean"
        /\ \A k \in Keys, l \in Lanes : conns'[k][l] = conns[k][l] \/ conns[k][l] = c
    BY Zenon, <1>1, <1>6, UnregisterStruct
  <2>3. NewestServes'
    BY Zenon, <1>1, <2>1, <2>2, QuietNoneBegins, ServesKept
  <2> QED BY Zenon, <2>2, <2>3 DEF StructInv
<1> QED BY Zenon, <1>2, <1>3, <1>4, <1>5, <1>6 DEF Handle

\* The coordinator's other steps keep it.
LEMMA CoordinatorStruct ==
  ASSUME StructInv, NEW k \in Keys,
         \/ Leave(k) \/ DropConns(k) \/ DropSpool(k) \/ Return(k)
         \/ Age(k) \/ CoolDown(k) \/ ReapClosed(k) \/ ReapExpiredSpool(k)
  PROVE  StructInv'
<1>1. TypeInv /\ LinkInv /\ NewestServes
  BY Zenon DEF StructInv
<1>2. ASSUME Leave(k) \/ Return(k) \/ CoolDown(k)
      PROVE  StructInv'
  <2>1. UNCHANGED <<outq, conn, conns, spool, client, got, sent, wakes, displaced>>
    BY Zenon, <1>2 DEF Leave, Return, CoolDown, registry
  <2> QED BY Zenon, <1>1, <2>1, OtherStruct, QuietNoneBegins, SameSlots
<1>3. ASSUME DropSpool(k) \/ Age(k) \/ ReapExpiredSpool(k)
      PROVE  StructInv'
  <2>1. UNCHANGED <<conns, displaced>>
    BY Zenon, <1>3 DEF DropSpool, Age, ReapExpiredSpool
  <2>2. TypeInv' /\ LinkInv' /\ Quiet
    BY Zenon, <1>1, <1>3, DropSpoolStruct, AgeStruct, ReapExpiredSpoolStruct
  <2> QED BY Zenon, <2>1, <2>2, QuietNoneBegins, SameSlots
<1>4. CASE DropConns(k)
  <2>1. displaced \subseteq displaced'
    BY Zenon, <1>4 DEF DropConns
  <2>2. /\ TypeInv' /\ LinkInv' /\ Quiet
        /\ \A j \in Keys, l \in Lanes :
             conns'[j][l] = conns[j][l] \/ (conns[j][l] # None => conns[j][l] \in displaced')
    BY Zenon, <1>1, <1>4, DropConnsStruct
  <2>3. NewestServes'
    BY Zenon, <1>1, <2>1, <2>2, QuietNoneBegins, ServesKept
  <2> QED BY Zenon, <2>2, <2>3 DEF StructInv
<1>5. CASE ReapClosed(k)
  <2>1. UNCHANGED <<conn, displaced>>
    BY Zenon, <1>5 DEF ReapClosed
  <2>2. /\ TypeInv' /\ LinkInv' /\ Quiet
        /\ \A j \in Keys, l \in Lanes :
             \/ conns'[j][l] = conns[j][l]
             \/ conns[j][l] # None /\ ~conn[conns[j][l]].rx
    BY Zenon, <1>1, <1>5, ReapClosedStruct
  <2>3. NewestServes'
    BY Zenon, <1>1, <2>1, <2>2, QuietNoneBegins, ServesKept
  <2> QED BY Zenon, <2>2, <2>3 DEF StructInv
<1> QED BY Zenon, <1>2, <1>3, <1>4, <1>5

\* Every step of the relay keeps the structure.
LEMMA NextStruct ==
  StructInv /\ [Next]_vars => StructInv'
<1> SUFFICES ASSUME StructInv, [Next]_vars PROVE StructInv'
  BY Zenon
<1>1. TypeInv /\ LinkInv
  BY Zenon DEF StructInv
<1>2. ASSUME UNCHANGED vars \/ \E p \in Pairs : PutPolicy(p)
      PROVE  StructInv'
  <2>1. UNCHANGED <<outq, conn, conns, spool, client, got, sent, wakes, displaced>>
    BY Zenon, <1>2 DEF vars, PutPolicy, registry
  <2> QED BY Zenon, <1>1, <2>1, OtherStruct, QuietNoneBegins, SameSlots
<1>3. ASSUME NEW t \in Pairs, NEW hello \in BOOLEAN, Emit(t[1], t[2], hello)
      PROVE  StructInv'
  <2>1. UNCHANGED <<conn, conns, displaced>>
    BY Zenon, <1>3 DEF Emit, registry
  <2> QED BY Zenon, <1>1, <1>3, <2>1, EmitStruct, QuietNone, QuietNoneBegins, SameSlots
<1>4. ASSUME NEW w \in wakes, Wake(w)
      PROVE  StructInv'
  <2>1. UNCHANGED <<conn, conns, displaced>>
    BY Zenon, <1>4 DEF Wake, registry
  <2> QED BY Zenon, <1>1, <1>4, <2>1, WakeStruct, QuietNone, QuietNoneBegins, SameSlots
<1>5. ASSUME NEW k \in Keys, Stop(k)
      PROVE  StructInv'
  <2>1. "hi" \in Lanes
    BY Zenon DEF Lanes
  <2> QED BY Zenon, <1>5, <2>1, JoinerStruct
<1> QED BY Zenon, <1>2, <1>3, <1>4, <1>5, JoinerStruct, SocketStruct, CoordinatorStruct DEF Next

\* The structure is an invariant of the relay.
THEOREM RelayStructure == Spec => []StructInv
<1>1. Init => StructInv
  BY Zenon, InitStruct DEF StructInv
<1> QED BY <1>1, NextStruct, PTL DEF Spec

\* The socket that registered last on a lane serves it until another one takes its
\* place or the key is dropped (RelayRegistry::register, unregister, reap_closed).
THEOREM NewestSocketServes == Spec => []NewestServes
<1>1. StructInv => NewestServes
  BY Zenon DEF StructInv
<1> QED BY <1>1, RelayStructure, PTL

-----------------------------------------------------------------------------
(* Frames.                                                                 *)

\* The two parts of FrameOnce, and what makes the number of a new frame new.
OneEach ==
  \A p, q \in Places : \A i \in DOMAIN Held(p), j \in DOMAIN Held(q) :
    Held(p)[i].n = Held(q)[j].n => p = q /\ i = j
Delivered ==
  \A k \in Keys : \A f \in got[k] :
    /\ f.dst = k
    /\ \A p \in Places : \A i \in DOMAIN Held(p) : Held(p)[i].n # f.n
    /\ \A h \in Keys : \A g \in got[h] : g.n = f.n => g = f
Numbered ==
  /\ \A p \in Places : \A i \in DOMAIN Held(p) : Held(p)[i].n <= sent
  /\ \A k \in Keys : \A f \in got[k] : f.n <= sent
FrameInv == OneEach /\ Delivered /\ Numbered

\* A step that puts no new frame anywhere.
NothingNew ==
  \A p \in Places' : \A i \in DOMAIN Held(p)' :
    \E q \in Places : \E j \in DOMAIN Held(q) : Held(p)'[i] = Held(q)[j]

\* The frames at p are the same ones as before, less some from the front.
Kept(p) == Held(p)' = <<>> \/ (p \in Places /\ Rest(Held(p)', Held(p)))

\* The places, and what is there: the queue of a lane task.
LEMMA OutPlace ==
  ASSUME NEW k \in Keys, NEW l \in Lanes
  PROVE  /\ <<"out", k, l>> \in Places /\ Held(<<"out", k, l>>) = outq[k][l]
         /\ <<"out", k, l>> \in Places' /\ Held(<<"out", k, l>>)' = outq'[k][l]
  BY Zenon DEF Places, Held

\* A key's spool.
LEMMA SpoolPlace ==
  ASSUME NEW k \in Keys
  PROVE  /\ <<"spool", k, None>> \in Places /\ Held(<<"spool", k, None>>) = spool[k].held
         /\ <<"spool", k, None>> \in Places' /\ Held(<<"spool", k, None>>)' = spool'[k].held
  BY Zenon DEF Places, Held

\* The two queues of a socket: what its handler works on and what it sends.
LEMMA SocketPlace ==
  ASSUME NEW c
  PROVE  /\ c \in DOMAIN conn => /\ <<"todo", c, None>> \in Places
                                 /\ <<"queue", c, None>> \in Places
         /\ Held(<<"todo", c, None>>) = conn[c].todo
         /\ Held(<<"queue", c, None>>) = conn[c].queue
         /\ Held(<<"todo", c, None>>)' = conn'[c].todo
         /\ Held(<<"queue", c, None>>)' = conn'[c].queue
  BY Zenon DEF Places, Held

\* There are no other places.
LEMMA PlaceKinds ==
  /\ \A p \in Places :
       \/ \E k \in Keys, l \in Lanes : p = <<"out", k, l>>
       \/ \E k \in Keys : p = <<"spool", k, None>>
       \/ \E c \in DOMAIN conn : p = <<"todo", c, None>> \/ p = <<"queue", c, None>>
  /\ \A p \in Places' :
       \/ \E k \in Keys, l \in Lanes : p = <<"out", k, l>>
       \/ \E k \in Keys : p = <<"spool", k, None>>
       \/ \E c \in DOMAIN conn' : p = <<"todo", c, None>> \/ p = <<"queue", c, None>>
  BY DEF Places

\* They are sequences of frames.
LEMMA HeldFrames ==
  TypeInv => \A p \in Places : Held(p) \in Seq(Frame)
<1> SUFFICES ASSUME TypeInv, NEW p \in Places PROVE Held(p) \in Seq(Frame)
  BY Zenon
<1>1. ASSUME NEW k \in Keys, NEW l \in Lanes, p = <<"out", k, l>>
      PROVE  Held(p) \in Seq(Frame)
  BY <1>1, OutPlace DEF TypeInv
<1>2. ASSUME NEW k \in Keys, p = <<"spool", k, None>>
      PROVE  Held(p) \in Seq(Frame)
  BY Zenon, <1>2, SpoolPlace DEF TypeInv, Spool
<1>3. ASSUME NEW c \in DOMAIN conn, p = <<"todo", c, None>> \/ p = <<"queue", c, None>>
      PROVE  Held(p) \in Seq(Frame)
  <2>1. conn[c] \in SocketType
    BY Zenon, Sockets
  <2>2. conn[c].todo \in Seq(Frame) /\ conn[c].queue \in Seq(Frame)
    BY Zenon, <2>1 DEF SocketType
  <2> QED BY Zenon, <1>3, <2>2, SocketPlace
<1> QED BY Zenon, <1>1, <1>2, <1>3, PlaceKinds

\* They still are after a step.
LEMMA HeldFramesNext ==
  TypeInv' => (\A p \in Places : Held(p) \in Seq(Frame))'
  BY HeldFrames, PTL

\* Frames that were there before are still delivered once and numbered.
LEMMA NothingNewKept ==
  ASSUME TypeInv, Delivered, Numbered, NothingNew, got' = got,
         sent \in Nat, sent' \in Nat, sent' >= sent
  PROVE  Delivered' /\ Numbered'
<1>1. ASSUME NEW p \in Places', NEW i \in DOMAIN Held(p)'
      PROVE  Held(p)'[i].n <= sent' /\ \A k \in Keys : \A f \in got[k] : Held(p)'[i].n # f.n
  <2>1. PICK q \in Places : \E j \in DOMAIN Held(q) : Held(p)'[i] = Held(q)[j]
    BY Zenon, <1>1 DEF NothingNew
  <2>2. PICK j \in DOMAIN Held(q) : Held(p)'[i] = Held(q)[j]
    BY Zenon, <2>1
  <2>3. Held(q)[j].n <= sent /\ \A k \in Keys : \A f \in got[k] : Held(q)[j].n # f.n
    BY DEF Numbered, Delivered
  <2>4. Held(q)[j] \in Frame
    BY HeldFrames
  <2>5. Held(q)[j].n \in Nat
    BY Zenon, <2>4 DEF Frame
  <2> QED BY <2>2, <2>3, <2>5
<1>2. Delivered'
  BY <1>1 DEF Delivered
<1>3. \A k \in Keys : \A f \in got'[k] : f.n <= sent'
  <2>1. \A k \in Keys : \A f \in got[k] : f.n \in Nat /\ f.n <= sent
    BY DEF TypeInv, Frame, Numbered
  <2> QED BY <2>1
<1> QED BY Zenon, <1>1, <1>2, <1>3 DEF Numbered

\* Queues only get shorter.
LEMMA Shrink ==
  ASSUME TypeInv', OneEach, \A p \in Places' : Kept(p)
  PROVE  OneEach' /\ NothingNew
<1>1. ASSUME NEW p \in Places', NEW i \in DOMAIN Held(p)'
      PROVE  /\ p \in Places
             /\ \E d \in Nat : \A x \in DOMAIN Held(p)' :
                  x + d \in DOMAIN Held(p) /\ Held(p)'[x] = Held(p)[x + d]
  <2>1. Held(p)' # <<>>
    BY <1>1
  <2> QED BY Zenon, <2>1 DEF Kept, Rest
<1>2. NothingNew
  BY Zenon, <1>1 DEF NothingNew
<1>3. ASSUME NEW p \in Places', NEW q \in Places', NEW i \in DOMAIN Held(p)',
             NEW j \in DOMAIN Held(q)', Held(p)'[i].n = Held(q)'[j].n
      PROVE  p = q /\ i = j
  <2>1. p \in Places /\ q \in Places
    BY Zenon, <1>1, <1>3
  <2>2. PICK d \in Nat : \A x \in DOMAIN Held(p)' :
          x + d \in DOMAIN Held(p) /\ Held(p)'[x] = Held(p)[x + d]
    BY Zenon, <1>1, <1>3
  <2>3. PICK e \in Nat : \A x \in DOMAIN Held(q)' :
          x + e \in DOMAIN Held(q) /\ Held(q)'[x] = Held(q)[x + e]
    BY Zenon, <1>1, <1>3
  <2>4. p = q
    BY <1>3, <2>1, <2>2, <2>3 DEF OneEach
  <2>5. i + d = j + d
    BY <1>3, <2>1, <2>2, <2>4 DEF OneEach
  <2>6. i \in Int /\ j \in Int
    <3>1. Held(p)' \in Seq(Frame) /\ Held(q)' \in Seq(Frame)
      BY Zenon, HeldFramesNext
    <3> QED BY <1>3, <3>1
  <2> QED BY <2>4, <2>5, <2>6
<1> QED BY Zenon, <1>2, <1>3 DEF OneEach

\* ... which is so when no queue of any kind gets a frame.
LEMMA ShrinkAll ==
  ASSUME TypeInv, TypeInv', FrameInv, Quiet, sent' = sent, got' = got,
         \A k \in Keys, l \in Lanes : Rest(outq'[k][l], outq[k][l]),
         \A k \in Keys : Rest(spool'[k].held, spool[k].held)
  PROVE  FrameInv'
<1>1. ASSUME NEW p \in Places'
      PROVE  Kept(p)
  <2>1. ASSUME NEW k \in Keys, NEW l \in Lanes, p = <<"out", k, l>>
        PROVE  Kept(p)
    BY Zenon, <2>1, OutPlace DEF Kept
  <2>2. ASSUME NEW k \in Keys, p = <<"spool", k, None>>
        PROVE  Kept(p)
    BY Zenon, <2>2, SpoolPlace DEF Kept
  <2>3. ASSUME NEW c \in DOMAIN conn', p = <<"todo", c, None>> \/ p = <<"queue", c, None>>
        PROVE  Kept(p)
    <3>1. CASE c \in DOMAIN conn
      <4>1. Rest(conn'[c].todo, conn[c].todo) /\ Rest(conn'[c].queue, conn[c].queue)
        BY Zenon, <3>1 DEF Quiet, Keeps
      <4>2. p \in Places
        BY Zenon, <2>3, <3>1, SocketPlace
      <4> QED BY Zenon, <2>3, <4>1, <4>2, SocketPlace DEF Kept
    <3>2. CASE c \notin DOMAIN conn
      <4>1. conn'[c].todo = <<>> /\ conn'[c].queue = <<>>
        BY Zenon, <2>3, <3>2 DEF Quiet
      <4> QED BY Zenon, <2>3, <4>1, SocketPlace DEF Kept
    <3> QED BY Zenon, <3>1, <3>2
  <2> QED BY Zenon, <2>1, <2>2, <2>3, PlaceKinds
<1>2. OneEach' /\ NothingNew
  BY Zenon, <1>1, Shrink DEF FrameInv
<1>3. sent \in Nat /\ sent' \in Nat /\ sent' >= sent
  BY DEF TypeInv
<1> QED BY Zenon, <1>2, <1>3, NothingNewKept DEF FrameInv

\* Frames at the front of a move to the end of b: behind the m frames that stay at
\* b come the ones behind the e that a loses besides.
Arrive(a, b, m, e) ==
  \A i \in DOMAIN Held(b)' : i > m =>
    i - m + e \in DOMAIN Held(a) /\ Held(b)'[i] = Held(a)[i - m + e]

\* The other frames at p were at p before, and those still at a are not the ones
\* that moved.
Stay(p, a, b, m, e) ==
  \E d \in Nat : \A i \in DOMAIN Held(p)' : ~(p = b /\ i > m) =>
    /\ p \in Places /\ i + d \in DOMAIN Held(p) /\ Held(p)'[i] = Held(p)[i + d]
    /\ p = a => \A j \in DOMAIN Held(b)' : j > m => i + d # j - m + e

\* A place that neither gives nor gets.
LEMMA OtherStay ==
  ASSUME NEW p \in Places, NEW a, NEW b, NEW m, NEW e, p # a, p # b,
         Rest(Held(p)', Held(p))
  PROVE  Stay(p, a, b, m, e)
  BY Zenon DEF Rest, Stay

\* A step that moves frames from a to b leaves each in one place.
LEMMA Move ==
  ASSUME TypeInv, TypeInv', FrameInv, sent' = sent, got' = got,
         NEW a \in Places, NEW b \in Places, NEW m \in Nat, NEW e \in Nat,
         Arrive(a, b, m, e), \A p \in Places' : Stay(p, a, b, m, e)
  PROVE  FrameInv'
<1> DEFINE moved(p, i) == p = b /\ i > m
<1>1. \A p \in Places' : \A i \in DOMAIN Held(p)' : i \in Int
  <2>1. \A p \in Places' : Held(p)' \in Seq(Frame)
    BY Zenon, HeldFramesNext
  <2> QED BY <2>1
<1>2. NothingNew
  <2> SUFFICES ASSUME NEW p \in Places', NEW i \in DOMAIN Held(p)'
               PROVE  \E q \in Places : \E j \in DOMAIN Held(q) : Held(p)'[i] = Held(q)[j]
    BY Zenon DEF NothingNew
  <2>1. CASE moved(p, i)
    BY Zenon, <2>1 DEF Arrive
  <2>2. CASE ~moved(p, i)
    BY Zenon, <2>2 DEF Stay
  <2> QED BY Zenon, <2>1, <2>2
<1>3. ASSUME NEW p \in Places', NEW q \in Places', NEW i \in DOMAIN Held(p)',
             NEW j \in DOMAIN Held(q)', Held(p)'[i].n = Held(q)'[j].n
      PROVE  p = q /\ i = j
  <2>0. i \in Int /\ j \in Int
    BY Zenon, <1>1
  <2>1. PICK d \in Nat : \A x \in DOMAIN Held(p)' : ~(p = b /\ x > m) =>
           /\ p \in Places /\ x + d \in DOMAIN Held(p) /\ Held(p)'[x] = Held(p)[x + d]
           /\ p = a => \A y \in DOMAIN Held(b)' : y > m => x + d # y - m + e
    BY Zenon DEF Stay
  <2>2. PICK f \in Nat : \A x \in DOMAIN Held(q)' : ~(q = b /\ x > m) =>
           /\ q \in Places /\ x + f \in DOMAIN Held(q) /\ Held(q)'[x] = Held(q)[x + f]
           /\ q = a => \A y \in DOMAIN Held(b)' : y > m => x + f # y - m + e
    BY Zenon DEF Stay
  <2>3. CASE moved(p, i) /\ moved(q, j)
    <3>1. /\ i - m + e \in DOMAIN Held(a) /\ Held(p)'[i] = Held(a)[i - m + e]
          /\ j - m + e \in DOMAIN Held(a) /\ Held(q)'[j] = Held(a)[j - m + e]
      BY Zenon, <2>3 DEF Arrive
    <3>2. i - m + e = j - m + e
      BY <1>3, <3>1 DEF FrameInv, OneEach
    <3> QED BY <2>0, <2>3, <3>2
  <2>4. CASE moved(p, i) /\ ~moved(q, j)
    <3>1. /\ i - m + e \in DOMAIN Held(a) /\ Held(p)'[i] = Held(a)[i - m + e]
          /\ q \in Places /\ j + f \in DOMAIN Held(q) /\ Held(q)'[j] = Held(q)[j + f]
          /\ q = a => j + f # i - m + e
      BY Zenon, <2>2, <2>4 DEF Arrive
    <3>2. q = a /\ j + f = i - m + e
      BY <1>3, <3>1 DEF FrameInv, OneEach
    <3> QED BY Zenon, <3>1, <3>2
  <2>5. CASE ~moved(p, i) /\ moved(q, j)
    <3>1. /\ j - m + e \in DOMAIN Held(a) /\ Held(q)'[j] = Held(a)[j - m + e]
          /\ p \in Places /\ i + d \in DOMAIN Held(p) /\ Held(p)'[i] = Held(p)[i + d]
          /\ p = a => i + d # j - m + e
      BY Zenon, <2>1, <2>5 DEF Arrive
    <3>2. p = a /\ i + d = j - m + e
      BY <1>3, <3>1 DEF FrameInv, OneEach
    <3> QED BY Zenon, <3>1, <3>2
  <2>6. CASE ~moved(p, i) /\ ~moved(q, j)
    <3>1. /\ p \in Places /\ i + d \in DOMAIN Held(p) /\ Held(p)'[i] = Held(p)[i + d]
          /\ q \in Places /\ j + f \in DOMAIN Held(q) /\ Held(q)'[j] = Held(q)[j + f]
      BY Zenon, <2>1, <2>2, <2>6
    <3>2. p = q
      BY <1>3, <3>1 DEF FrameInv, OneEach
    <3>3. j + d \in DOMAIN Held(p) /\ Held(p)'[j] = Held(p)[j + d]
      BY Zenon, <2>1, <2>6, <3>2
    <3>4. i + d = j + d
      BY <1>3, <3>1, <3>2, <3>3 DEF FrameInv, OneEach
    <3> QED BY <2>0, <3>2, <3>4
  <2> QED BY Zenon, <2>3, <2>4, <2>5, <2>6
<1>4. OneEach'
  BY Zenon, <1>3 DEF OneEach
<1>5. sent \in Nat /\ sent' \in Nat /\ sent' >= sent
  BY DEF TypeInv
<1> QED BY Zenon, <1>2, <1>4, <1>5, NothingNewKept DEF FrameInv

\* A queue of a joiner gets a frame with the next number.
LEMMA NewFrame ==
  ASSUME TypeInv, TypeInv', FrameInv, conn' = conn, spool' = spool, got' = got,
         NEW k \in Keys, NEW dst \in Keys, NEW hello \in BOOLEAN, TryRelay(k, dst, hello)
  PROVE  FrameInv'
<1> DEFINE f == [n |-> sent + 1, src |-> k, dst |-> dst, hello |-> hello]
           l == LaneOf(f)
           a == <<"out", k, l>>
<1>1. /\ sent \in Nat /\ sent' = sent + 1 /\ outq \in [Keys -> [Lanes -> Seq(Frame)]]
      /\ outq' = [outq EXCEPT ![k][l] = Append(@, f)]
  BY Zenon DEF TypeInv, TryRelay
<1>2. f \in Frame /\ f.n = sent + 1 /\ l \in Lanes
  BY <1>1 DEF Frame, LaneOf, Lanes
<1>3. PICK new \in Frame, lane \in Lanes : new = f /\ lane = l /\ new.n = sent + 1
  BY Zenon, <1>2
<1> HIDE DEF f, l
<1>4. PICK here : here = <<"out", k, lane>>
  BY Zenon
<1>5. outq'[k][lane] = Append(outq[k][lane], new)
      /\ \A j \in Keys, m \in Lanes : ~(j = k /\ m = lane) => outq'[j][m] = outq[j][m]
  BY Zenon, <1>3, <1>1
<1>6. Places' = Places
  BY Zenon DEF Places
<1>7. here \in Places /\ Held(here) = outq[k][lane] /\ Held(here)' = outq'[k][lane]
  BY Zenon, <1>4, OutPlace
<1>8. ASSUME NEW p \in Places, p # here
      PROVE  Held(p)' = Held(p)
  <2>1. ASSUME NEW j \in Keys, NEW m \in Lanes, p = <<"out", j, m>>
        PROVE  Held(p)' = Held(p)
    BY <1>4, <1>5, <1>8, <2>1, OutPlace
  <2>2. ASSUME NEW j \in Keys, p = <<"spool", j, None>>
        PROVE  Held(p)' = Held(p)
    BY Zenon, <2>2, SpoolPlace
  <2>3. ASSUME NEW c \in DOMAIN conn, p = <<"todo", c, None>> \/ p = <<"queue", c, None>>
        PROVE  Held(p)' = Held(p)
    BY Zenon, <2>3, SocketPlace
  <2> QED BY <2>1, <2>2, <2>3, PlaceKinds
<1>9. \A p \in Places : Held(p) \in Seq(Frame)
  BY Zenon, HeldFrames
<1>10. ASSUME NEW p \in Places, NEW i \in DOMAIN Held(p)'
      PROVE  \/ p = here /\ i = Len(Held(here)) + 1 /\ Held(p)'[i] = new
             \/ i \in DOMAIN Held(p) /\ Held(p)'[i] = Held(p)[i]
  <2>1. CASE p = here
    <3>1. Held(here) \in Seq(Frame) /\ Held(here)' = Append(Held(here), new)
      BY Zenon, <1>5, <1>7, <1>9
    <3>2. PICK s \in Seq(Frame), t \in Seq(Frame) :
            s = Held(here) /\ t = Held(here)' /\ t = Append(s, new)
      BY Zenon, <3>1, Appended
    <3>3. i \in DOMAIN t
      BY Zenon, <1>10, <2>1, <3>2
    <3>4. (i = Len(s) + 1 /\ t[i] = new) \/ (i \in DOMAIN s /\ t[i] = s[i])
      BY <3>2, <3>3
    <3> QED BY Zenon, <2>1, <3>2, <3>4
  <2>2. CASE p # here
    BY Zenon, <1>8, <1>10, <2>2
  <2> QED BY Zenon, <2>1, <2>2
<1>11. \A p \in Places : \A i \in DOMAIN Held(p) : Held(p)[i].n \in Nat /\ Held(p)[i].n <= sent
  <2>1. \A p \in Places : \A i \in DOMAIN Held(p) : Held(p)[i] \in Frame
    BY <1>9
  <2> QED BY Zenon, <2>1 DEF Frame, FrameInv, Numbered
<1>12. \A h \in Keys : \A g \in got[h] : g.n \in Nat /\ g.n <= sent
  <2>1. \A h \in Keys : got[h] \subseteq Frame
    BY Zenon DEF TypeInv
  <2>2. \A g \in Frame : g.n \in Nat
    BY Zenon DEF Frame
  <2> QED BY Zenon, <2>1, <2>2 DEF FrameInv, Numbered
<1>13. ASSUME NEW p \in Places, NEW q \in Places, NEW i \in DOMAIN Held(p)',
              NEW j \in DOMAIN Held(q)', Held(p)'[i].n = Held(q)'[j].n
       PROVE  p = q /\ i = j
  <2>1. \/ p = here /\ i = Len(Held(here)) + 1 /\ Held(p)'[i] = new
        \/ i \in DOMAIN Held(p) /\ Held(p)'[i] = Held(p)[i]
    BY Zenon, <1>10, <1>13
  <2>2. \/ q = here /\ j = Len(Held(here)) + 1 /\ Held(q)'[j] = new
        \/ j \in DOMAIN Held(q) /\ Held(q)'[j] = Held(q)[j]
    BY Zenon, <1>10, <1>13
  <2>3. ASSUME NEW r \in Places, NEW x \in DOMAIN Held(r)
        PROVE  Held(r)[x].n # new.n
    <3>1. Held(r)[x].n \in Nat /\ Held(r)[x].n <= sent
      BY Zenon, <1>11, <2>3
    <3>2. new.n = sent + 1 /\ sent \in Nat
      BY Zenon, <1>1, <1>3
    <3> QED BY <3>1, <3>2
  <2> QED BY <1>13, <2>1, <2>2, <2>3 DEF FrameInv, OneEach
<1>14. OneEach'
  BY Zenon, <1>6, <1>13 DEF OneEach
<1>15. \A p \in Places : \A i \in DOMAIN Held(p)' :
         /\ Held(p)'[i].n <= sent'
         /\ \A h \in Keys : \A g \in got[h] : Held(p)'[i].n # g.n
  <2> SUFFICES ASSUME NEW p \in Places, NEW i \in DOMAIN Held(p)'
               PROVE  /\ Held(p)'[i].n <= sent'
                      /\ \A h \in Keys : \A g \in got[h] : Held(p)'[i].n # g.n
    BY Zenon
  <2>1. CASE Held(p)'[i] = new
    BY <1>3, <1>1, <1>12, <2>1
  <2>2. CASE i \in DOMAIN Held(p) /\ Held(p)'[i] = Held(p)[i]
    BY <1>1, <1>11, <2>2 DEF FrameInv, Delivered
  <2> QED BY Zenon, <1>10, <2>1, <2>2
<1>16. Delivered'
  BY <1>6, <1>15 DEF FrameInv, Delivered
<1>17. Numbered'
  BY <1>1, <1>6, <1>12, <1>15 DEF Numbered
<1> QED BY Zenon, <1>14, <1>16, <1>17 DEF FrameInv
-----------------------------------------------------------------------------
(* The steps that move a frame.                                            *)

\* Unchanged queues keep their frames.
LEMMA SameOut ==
  ASSUME TypeInv, outq' = outq
  PROVE  \A k \in Keys, l \in Lanes : Rest(outq'[k][l], outq[k][l])
  BY RestWhole DEF TypeInv

\* Unchanged spools keep their frames.
LEMMA SameSpool ==
  ASSUME TypeInv, spool' = spool
  PROVE  \A k \in Keys : Rest(spool'[k].held, spool[k].held)
<1>1. \A k \in Keys : spool[k].held \in Seq(Frame)
  BY Zenon DEF TypeInv, Spool
<1> QED BY Zenon, <1>1, RestWhole

\* The frame goes from the lane's queue to the socket's handler.
LEMMA SendFrames ==
  ASSUME TypeInv, LinkInv, FrameInv, NEW k \in Keys, NEW l \in Lanes, Send(k, l)
  PROVE  FrameInv'
<1>1. /\ outq[k][l] # <<>> /\ outq' = [outq EXCEPT ![k][l] = Tail(@)]
      /\ UNCHANGED <<spool, got, sent>>
  BY Zenon DEF Send, registry
<1>2. /\ outq[k][l] \in Seq(Frame) /\ outq'[k][l] = Tail(outq[k][l])
      /\ \A j \in Keys, m \in Lanes : outq[j][m] \in Seq(Frame)
      /\ \A j \in Keys, m \in Lanes : ~(j = k /\ m = l) => outq'[j][m] = outq[j][m]
  BY <1>1, OutTail DEF TypeInv
<1>3. \A j \in Keys, m \in Lanes : Rest(outq'[j][m], outq[j][m])
  BY <1>1, <1>2, RestTail, RestWhole
<1>4. CASE Quiet
  BY Zenon, <1>1, <1>3, <1>4, SendStruct, ShrinkAll, SameSpool
<1>5. ASSUME NEW c \in DOMAIN conn,
             DOMAIN conn' = DOMAIN conn,
             conn[c].todo = <<>>, conn'[c].todo = <<Head(outq[k][l])>>,
             \A d \in DOMAIN conn :
               (d # c => conn'[d].todo = conn[d].todo) /\ conn'[d].queue = conn[d].queue
      PROVE  FrameInv'
  <2>0. PICK s \in Seq(Frame) : s = outq[k][l]
    BY Zenon, <1>2
  <2>1. PICK t, a, b : t = Tail(s) /\ a = <<"out", k, l>> /\ b = <<"todo", c, None>>
    BY Zenon
  <2>2. /\ a \in Places /\ Held(a) = s /\ Held(a)' = t
        /\ b \in Places /\ Held(b) = <<>> /\ Held(b)' = <<Head(s)>>
    BY Zenon, <1>2, <1>5, <2>0, <2>1, OutPlace, SocketPlace
  <2>3. /\ s # <<>> /\ 1 \in DOMAIN s /\ Head(s) = s[1]
        /\ \A i \in DOMAIN t : i + 1 \in DOMAIN s /\ t[i] = s[i + 1] /\ i \in Nat /\ i > 0
    BY <1>1, <2>0, <2>1, HeadTail
  <2>4. DOMAIN Held(b)' = {1} /\ Held(b)'[1] = Held(a)[1]
    BY <2>2, <2>3
  <2>5. Arrive(a, b, 0, 0)
    BY <2>2, <2>3, <2>4 DEF Arrive
  <2>6. ASSUME NEW p \in Places', p # a, p # b
        PROVE  p \in Places /\ Rest(Held(p)', Held(p))
    <3>1. ASSUME NEW j \in Keys, NEW m \in Lanes, p = <<"out", j, m>>
          PROVE  p \in Places /\ Rest(Held(p)', Held(p))
      BY Zenon, <1>3, <3>1, OutPlace
    <3>2. ASSUME NEW j \in Keys, p = <<"spool", j, None>>
          PROVE  p \in Places /\ Rest(Held(p)', Held(p))
      BY Zenon, <1>1, <3>2, SpoolPlace, SameSpool
    <3>3. ASSUME NEW d \in DOMAIN conn, p = <<"todo", d, None>> \/ p = <<"queue", d, None>>
          PROVE  p \in Places /\ Rest(Held(p)', Held(p))
      <4>1. p \in Places /\ Held(p) \in Seq(Frame)
        BY Zenon, <3>3, SocketPlace, HeldFrames
      <4>2. Held(p)' = Held(p)
        BY Zenon, <1>5, <2>1, <2>6, <3>3, SocketPlace
      <4> QED BY Zenon, <4>1, <4>2, RestWhole
    <3> QED BY Zenon, <1>5, <3>1, <3>2, <3>3, PlaceKinds
  <2>7. ASSUME NEW p \in Places'
        PROVE  Stay(p, a, b, 0, 0)
    <3>1. CASE p = a
      <4>1. \A i \in DOMAIN Held(p)' :
              /\ p \in Places /\ i + 1 \in DOMAIN Held(p) /\ Held(p)'[i] = Held(p)[i + 1]
              /\ \A j \in DOMAIN Held(b)' : j > 0 => i + 1 # j - 0 + 0
        BY <2>2, <2>3, <2>4, <3>1
      <4> QED BY Zenon, <4>1 DEF Stay
    <3>2. CASE p = b
      <4>1. \A i \in DOMAIN Held(p)' : i > 0
        BY <2>4, <3>2
      <4> QED BY Zenon, <3>2, <4>1 DEF Stay
    <3>3. CASE p # a /\ p # b
      BY Zenon, <2>6, <3>3, OtherStay
    <3> QED BY Zenon, <3>1, <3>2, <3>3
  <2>8. TypeInv'
    BY Zenon, SendStruct
  <2> QED BY Zenon, <1>1, <2>2, <2>5, <2>7, <2>8, Move
<1> QED BY ZenonT(60), <1>4, <1>5, SendStruct

\* The spool's fresh frames go to the handler of the socket that registered.
LEMMA TakeSpoolFrames ==
  ASSUME TypeInv, LinkInv, FrameInv, NEW c \in DOMAIN conn, TakeSpool(c)
  PROVE  FrameInv'
<1>1. PICK k \in Keys : k = conn[c].key
  BY Zenon, Sockets DEF SocketType
<1> DEFINE r == [conn[c] EXCEPT !.at = "serve", !.todo = Fresh(spool[k])]
<1>2. conn[c] \in SocketType /\ SocketOk(c) /\ conn[c].todo = <<>>
  BY Zenon, Sockets DEF LinkInv, TakeSpool, SocketOk
<1>3. conn' = [conn EXCEPT ![c] = r]
  BY Zenon, <1>1 DEF TakeSpool
<1>4. spool[k] \in Spool /\ spool[k].held \in Seq(Frame) /\ spool[k].expired \in Nat
  BY Zenon DEF TypeInv, Spool
<1>5. /\ Fresh(spool[k]) \in Seq(Frame)
      /\ \A i \in DOMAIN Fresh(spool[k]) :
           /\ i + spool[k].expired \in DOMAIN spool[k].held
           /\ Fresh(spool[k])[i] = spool[k].held[i + spool[k].expired]
  BY Zenon, <1>4, FreshFrames
<1>6. r \in SocketType
  BY Zenon, <1>2, <1>5 DEF SocketType
<1>7. r.queue = conn[c].queue /\ r.todo = Fresh(spool[k])
  BY Zenon, <1>2 DEF SocketType
<1> HIDE DEF r
<1>8. conn'[c] = r /\ DOMAIN conn' = DOMAIN conn
      /\ \A d \in DOMAIN conn \ {c} : conn'[d] = conn[d]
  BY Zenon, <1>3, <1>6, SetSocket
<1>9. UNCHANGED <<outq, got, sent>> /\ spool' = [spool EXCEPT ![k] = NoFrames]
  BY Zenon, <1>1 DEF TakeSpool
<1>10. spool'[k].held = <<>> /\ \A j \in Keys : j # k => spool'[j] = spool[j]
  BY Zenon, <1>9 DEF TypeInv, NoFrames
<1>11. PICK a, b : a = <<"spool", k, None>> /\ b = <<"todo", c, None>>
  BY Zenon
<1>12. PICK e \in Nat : e = spool[k].expired
  BY Zenon, <1>4
<1>13. PICK s \in Seq(Frame), t \in Seq(Frame) : s = spool[k].held /\ t = Fresh(spool[k])
  BY Zenon, <1>4, <1>5
<1>14. /\ a \in Places /\ Held(a) = s /\ Held(a)' = <<>>
       /\ b \in Places /\ Held(b) = <<>> /\ Held(b)' = t
  BY Zenon, <1>2, <1>7, <1>8, <1>10, <1>11, <1>13, SpoolPlace, SocketPlace
<1>15. \A i \in DOMAIN t : i + e \in DOMAIN s /\ t[i] = s[i + e] /\ i \in Int /\ i > 0
  BY <1>5, <1>13, <1>12
<1>16. Arrive(a, b, 0, e)
  BY <1>14, <1>15 DEF Arrive
<1>17. ASSUME NEW p \in Places', p # a, p # b
       PROVE  p \in Places /\ Rest(Held(p)', Held(p))
  <2>1. ASSUME NEW j \in Keys, NEW m \in Lanes, p = <<"out", j, m>>
        PROVE  p \in Places /\ Rest(Held(p)', Held(p))
    BY Zenon, <1>9, <2>1, OutPlace, SameOut
  <2>2. ASSUME NEW j \in Keys, p = <<"spool", j, None>>
        PROVE  p \in Places /\ Rest(Held(p)', Held(p))
    <3>1. p \in Places /\ Held(p) \in Seq(Frame)
      BY Zenon, <2>2, SpoolPlace, HeldFrames
    <3>2. Held(p)' = Held(p)
      BY Zenon, <1>10, <1>11, <1>17, <2>2, SpoolPlace
    <3> QED BY Zenon, <3>1, <3>2, RestWhole
  <2>3. ASSUME NEW d \in DOMAIN conn, p = <<"todo", d, None>> \/ p = <<"queue", d, None>>
        PROVE  p \in Places /\ Rest(Held(p)', Held(p))
    <3>1. p \in Places /\ Held(p) \in Seq(Frame)
      BY Zenon, <2>3, SocketPlace, HeldFrames
    <3>2. Held(p)' = Held(p)
      <4>1. conn'[d].queue = conn[d].queue /\ (d # c => conn'[d].todo = conn[d].todo)
        BY Zenon, <1>7, <1>8
      <4> QED BY Zenon, <1>11, <1>17, <2>3, <4>1, SocketPlace
    <3> QED BY Zenon, <3>1, <3>2, RestWhole
  <2> QED BY Zenon, <1>8, <2>1, <2>2, <2>3, PlaceKinds
<1>18. ASSUME NEW p \in Places'
       PROVE  Stay(p, a, b, 0, e)
  <2>1. CASE p = a
    <3>1. DOMAIN Held(p)' = {}
      BY <1>14, <2>1
    <3> QED BY Zenon, <3>1 DEF Stay
  <2>2. CASE p = b
    <3>1. \A i \in DOMAIN Held(p)' : i > 0
      BY Zenon, <1>14, <1>15, <2>2
    <3> QED BY Zenon, <2>2, <3>1 DEF Stay
  <2>3. CASE p # a /\ p # b
    BY Zenon, <1>17, <2>3, OtherStay
  <2> QED BY Zenon, <2>1, <2>2, <2>3
<1>19. TypeInv'
  BY Zenon, TakeSpoolStruct
<1> QED BY Zenon, <1>9, <1>14, <1>16, <1>18, <1>19, Move

\* The first frame at a goes to the end of b.
LEMMA MoveHead ==
  ASSUME TypeInv, TypeInv', FrameInv, sent' = sent, got' = got,
         NEW a \in Places, NEW b \in Places, a # b,
         Held(a) # <<>>, Held(a)' = Tail(Held(a)),
         NEW s \in Seq(Frame), Rest(s, Held(b)), Held(b)' = Append(s, Head(Held(a))),
         \A p \in Places' : p # a /\ p # b => p \in Places /\ Rest(Held(p)', Held(p))
  PROVE  FrameInv'
<1>1. PICK x \in Seq(Frame), y \in Seq(Frame) : x = Held(a) /\ y = Tail(x)
  BY Zenon, HeldFrames, HeadTail
<1>2. /\ x # <<>> /\ 1 \in DOMAIN x /\ Head(x) = x[1] /\ x[1] \in Frame
      /\ \A i \in DOMAIN y : i + 1 \in DOMAIN x /\ y[i] = x[i + 1] /\ i \in Nat /\ i > 0
  BY <1>1, HeadTail
<1>3. PICK z \in Seq(Frame) : z = Append(s, x[1])
  BY Zenon, <1>2, Appended
<1>4. PICK m \in Nat : m = Len(s)
  OBVIOUS
<1>5. Held(a) = x /\ Held(a)' = y /\ Held(b)' = z
  BY Zenon, <1>1, <1>2, <1>3
<1>6. \A i \in DOMAIN z : /\ i \in Nat
                          /\ i > m => i = m + 1 /\ z[i] = x[1]
                          /\ ~(i > m) => i \in DOMAIN s /\ z[i] = s[i]
  BY <1>2, <1>3, <1>4, Appended
<1>7. Arrive(a, b, m, 0)
  <2>1. \A i \in DOMAIN Held(b)' : i > m => i - m + 0 = 1 /\ Held(b)'[i] = x[1]
    BY <1>5, <1>6
  <2> QED BY Zenon, <1>2, <1>5, <2>1 DEF Arrive
<1>8. Stay(a, a, b, m, 0)
  <2>1. \A j \in DOMAIN Held(b)' : j > m => j - m + 0 = 1
    BY <1>5, <1>6
  <2>2. \A i \in DOMAIN Held(a)' :
          i + 1 \in DOMAIN Held(a) /\ Held(a)'[i] = Held(a)[i + 1] /\ i + 1 # 1
    BY <1>2, <1>5
  <2> QED BY Zenon, <2>1, <2>2 DEF Stay
<1>9. Stay(b, a, b, m, 0)
  <2>1. PICK d \in Nat : \A i \in DOMAIN s : i + d \in DOMAIN Held(b) /\ s[i] = Held(b)[i + d]
    BY Zenon DEF Rest
  <2>2. \A i \in DOMAIN Held(b)' : ~(i > m) =>
          i + d \in DOMAIN Held(b) /\ Held(b)'[i] = Held(b)[i + d]
    BY Zenon, <1>5, <1>6, <2>1
  <2> QED BY Zenon, <2>2 DEF Stay
<1>10. \A p \in Places' : Stay(p, a, b, m, 0)
  BY Zenon, <1>8, <1>9, OtherStay
<1> QED BY Zenon, <1>7, <1>10, Move

\* The frame goes from the handler to a queue or to the spool, or is dropped.
LEMMA ForwardFrames ==
  ASSUME TypeInv, LinkInv, FrameInv, NEW c \in DOMAIN conn, Forward(c)
  PROVE  FrameInv'
<1>1. PICK d \in conn[c].pick : Forwards(c, d)
  BY Zenon, ForwardEffect
<1>2. PICK x \in Seq(Frame) : x = conn[c].todo
  BY Zenon, Sockets DEF SocketType
<1>3. PICK f \in Frame, k \in Keys : f = Head(x) /\ k = f.dst
  BY Zenon, <1>1, <1>2 DEF Forwards
<1>4. /\ UNCHANGED <<outq, got, sent>> /\ TypeInv' /\ x # <<>>
      /\ DOMAIN conn' = DOMAIN conn
      /\ \A b \in DOMAIN conn :
           /\ b # c => conn'[b].todo = conn[b].todo
           /\ b # d => conn'[b].queue = conn[b].queue
      /\ conn'[c].todo = Tail(x)
      /\ conn[c].queue \in Seq(Frame)
  <2>1. conn[c].queue \in Seq(Frame)
    BY Zenon, Sockets DEF SocketType
  <2> QED BY Zenon, <1>1, <1>2, <2>1, ForwardStruct DEF Forward, Forwards
<1>5. PICK a, t, h :
        a = <<"todo", c, None>> /\ t = <<"queue", d, None>> /\ h = <<"spool", k, None>>
  BY Zenon
<1>6. a \in Places /\ Held(a) = x /\ Held(a)' = Tail(x)
  BY Zenon, <1>2, <1>4, <1>5, SocketPlace
<1>7. ASSUME NEW p \in Places', p # a, p # t, p # h,
             \A j \in Keys \ {k} : spool'[j] = spool[j]
      PROVE  p \in Places /\ Rest(Held(p)', Held(p))
  <2>1. ASSUME NEW j \in Keys, NEW m \in Lanes, p = <<"out", j, m>>
        PROVE  p \in Places /\ Rest(Held(p)', Held(p))
    BY Zenon, <1>4, <2>1, OutPlace, SameOut
  <2>2. ASSUME NEW j \in Keys, p = <<"spool", j, None>>
        PROVE  p \in Places /\ Rest(Held(p)', Held(p))
    <3>1. p \in Places /\ Held(p) \in Seq(Frame)
      BY Zenon, <2>2, SpoolPlace, HeldFrames
    <3>2. Held(p)' = Held(p)
      BY Zenon, <1>5, <1>7, <2>2, SpoolPlace
    <3> QED BY Zenon, <3>1, <3>2, RestWhole
  <2>3. ASSUME NEW b \in DOMAIN conn, p = <<"todo", b, None>> \/ p = <<"queue", b, None>>
        PROVE  p \in Places /\ Rest(Held(p)', Held(p))
    <3>1. p \in Places /\ Held(p) \in Seq(Frame)
      BY Zenon, <2>3, SocketPlace, HeldFrames
    <3>2. Held(p)' = Held(p)
      BY ZenonT(60), <1>4, <1>5, <1>7, <2>3, SocketPlace
    <3> QED BY Zenon, <3>1, <3>2, RestWhole
  <2> QED BY ZenonT(60), <1>4, <2>1, <2>2, <2>3, PlaceKinds
<1>8. CASE d # None /\ conn[d].rx
  <2>1. spool' = spool /\ d \in DOMAIN conn
    BY Zenon, <1>1, <1>8 DEF Forwards
  <2>2. conn[d].queue \in Seq(Frame)
    BY Zenon, <2>1, Sockets DEF SocketType
  <2>3. h \in Places /\ Rest(Held(h)', Held(h)) /\ t \in Places /\ Held(t) = conn[d].queue
        /\ Held(t)' = conn'[d].queue
    BY Zenon, <1>5, <2>1, SpoolPlace, SameSpool, SocketPlace
  <2>4. \A p \in Places' : p # a /\ p # t => p \in Places /\ Rest(Held(p)', Held(p))
    BY Zenon, <1>7, <2>1, <2>3
  <2>5. CASE Len(conn[d].queue) < Cap(conn[d].lane)
    <3>1. Held(t)' = Append(conn[d].queue, f)
      BY Zenon, <1>1, <1>2, <1>3, <1>8, <2>1, <2>3, <2>5 DEF Forwards
    <3>2. Rest(conn[d].queue, Held(t))
      BY Zenon, <2>2, <2>3, RestWhole
    <3>3. a # t
      BY Zenon, <1>5
    <3> QED BY Zenon, <1>3, <1>4, <1>6, <2>2, <2>3, <2>4, <3>1, <3>2, <3>3, MoveHead
  <2>6. CASE ~(Len(conn[d].queue) < Cap(conn[d].lane))
    <3>1. Held(t)' = Held(t)
      BY Zenon, <1>1, <2>1, <2>3, <2>6 DEF Forwards
    <3>2. Rest(Held(t)', Held(t)) /\ Rest(Held(a)', Held(a))
      BY Zenon, <1>4, <1>6, <2>2, <2>3, <3>1, RestWhole, RestTail
    <3>3. \A p \in Places' : Kept(p)
      BY Zenon, <1>6, <2>3, <2>4, <3>2 DEF Kept
    <3>4. OneEach' /\ NothingNew
      BY Zenon, <1>4, <3>3, Shrink DEF FrameInv
    <3>5. sent \in Nat /\ sent' = sent
      BY Zenon, <1>4 DEF TypeInv
    <3>6. sent \in Nat /\ sent' \in Nat /\ sent' >= sent
      BY <3>5
    <3> QED BY Zenon, <1>4, <3>4, <3>6, NothingNewKept DEF FrameInv
  <2> QED BY Zenon, <2>5, <2>6
<1>9. CASE ~(d # None /\ conn[d].rx)
  <2>1. spool' = [spool EXCEPT ![k] = PushSpool(@, f)]
    BY Zenon, <1>1, <1>2, <1>3, <1>9 DEF Forwards
  <2>2. spool[k] \in Spool
    BY Zenon DEF TypeInv
  <2>3. PICK s \in Seq(Frame) :
          /\ s = spool[k].held \/ (spool[k].held # <<>> /\ s = Tail(spool[k].held))
          /\ PushSpool(spool[k], f).held = Append(s, f)
    BY Zenon, <2>2, Pushed
  <2>4. spool'[k].held = Append(s, f) /\ \A j \in Keys \ {k} : spool'[j] = spool[j]
    BY Zenon, <2>1, <2>3 DEF TypeInv
  <2>5. h \in Places /\ Held(h) = spool[k].held /\ Held(h)' = Append(s, f)
    BY Zenon, <1>5, <2>4, SpoolPlace
  <2>6. Rest(s, Held(h))
    <3>1. spool[k].held \in Seq(Frame)
      BY Zenon, <2>2 DEF Spool
    <3> QED BY Zenon, <2>3, <2>5, <3>1, RestWhole, RestTail
  <2>7. \A p \in Places' : p # a /\ p # h => p \in Places /\ Rest(Held(p)', Held(p))
    <3>1. ASSUME NEW p \in Places', p = t
          PROVE  p \in Places /\ Rest(Held(p)', Held(p))
      <4>1. d \in DOMAIN conn
        BY Zenon, <1>4, <1>5, <3>1, PlaceKinds
      <4>2. conn'[d].queue = conn[d].queue /\ conn[d].queue \in Seq(Frame)
        BY Zenon, <1>1, <1>9, <4>1, Sockets DEF Forwards, SocketType
      <4> QED BY Zenon, <1>5, <3>1, <4>1, <4>2, SocketPlace, RestWhole
    <3> QED BY Zenon, <1>7, <2>4, <3>1
  <2>8. a # h
    BY Zenon, <1>5
  <2> QED BY Zenon, <1>3, <1>4, <1>6, <2>5, <2>6, <2>7, <2>8, MoveHead
<1> QED BY Zenon, <1>8, <1>9

\* The frame goes from the socket's queue to the joiner.
LEMMA DownlinkFrames ==
  ASSUME TypeInv, LinkInv, FrameInv, NEW c \in DOMAIN conn, Downlink(c)
  PROVE  FrameInv'
<1>1. TypeInv' /\ Quiet
  BY Zenon, DownlinkStruct
<1>2. PICK q \in Seq(Frame), k \in Keys : q = conn[c].queue /\ k = conn[c].key
  BY Zenon, Sockets DEF SocketType
<1>3. q # <<>>
  BY Zenon, <1>2 DEF Downlink
<1>4. PICK f \in Frame : f = Head(q) /\ f = q[1] /\ 1 \in DOMAIN q
  BY <1>3, HeadTail
<1>5. /\ got' = [got EXCEPT ![k] = @ \cup {f}] /\ q # <<>>
      /\ conn' = [conn EXCEPT ![c].queue = Tail(@)]
      /\ UNCHANGED <<outq, spool, sent>>
  BY Zenon, <1>2, <1>4 DEF Downlink, registry
<1>6. f.dst = k
  BY <1>2, <1>4 DEF LinkInv, SocketOk
<1>7. PICK a, t : a = <<"queue", c, None>> /\ t = Tail(q)
  BY Zenon
<1>8. a \in Places /\ Held(a) = q /\ Held(a)' = t
  <2>1. conn'[c].queue = t
    <3>1. conn[c] \in SocketType
      BY Zenon, Sockets
    <3> QED BY Zenon, <1>2, <1>5, <1>7, <3>1 DEF SocketType
  <2> QED BY Zenon, <1>2, <1>7, <2>1, SocketPlace
<1>9. ASSUME NEW p \in Places'
      PROVE  Kept(p)
  <2>1. ASSUME NEW j \in Keys, NEW l \in Lanes, p = <<"out", j, l>>
        PROVE  Kept(p)
    BY Zenon, <1>5, <2>1, OutPlace, SameOut DEF Kept
  <2>2. ASSUME NEW j \in Keys, p = <<"spool", j, None>>
        PROVE  Kept(p)
    BY Zenon, <1>5, <2>2, SpoolPlace, SameSpool DEF Kept
  <2>3. ASSUME NEW d \in DOMAIN conn, p = <<"todo", d, None>> \/ p = <<"queue", d, None>>
        PROVE  Kept(p)
    <3>1. Rest(conn'[d].todo, conn[d].todo) /\ Rest(conn'[d].queue, conn[d].queue)
      BY Zenon, <1>1 DEF Quiet, Keeps
    <3>2. p \in Places
      BY Zenon, <2>3, SocketPlace
    <3> QED BY Zenon, <2>3, <3>1, <3>2, SocketPlace DEF Kept
  <2>4. DOMAIN conn' = DOMAIN conn
    BY Zenon, <1>5
  <2> QED BY Zenon, <2>1, <2>2, <2>3, <2>4, PlaceKinds
<1>10. OneEach' /\ NothingNew
  BY Zenon, <1>1, <1>9, Shrink DEF FrameInv
<1>11. ASSUME NEW p \in Places', NEW i \in DOMAIN Held(p)'
       PROVE  /\ Held(p)'[i].n <= sent' /\ Held(p)'[i].n # f.n
              /\ \A h \in Keys : \A g \in got[h] : Held(p)'[i].n # g.n
  <2>1. PICK r \in Places : \E j \in DOMAIN Held(r) : Held(p)'[i] = Held(r)[j]
    BY Zenon, <1>10, <1>11 DEF NothingNew
  <2>2. PICK j \in DOMAIN Held(r) : Held(p)'[i] = Held(r)[j]
    BY Zenon, <2>1
  <2>3. Held(r)[j].n <= sent /\ \A h \in Keys : \A g \in got[h] : Held(r)[j].n # g.n
    BY Zenon DEF FrameInv, Numbered, Delivered
  <2>4. Held(p)'[i].n # f.n
    <3>1. CASE p = a
      <4>0. \A x \in DOMAIN t : x + 1 \in DOMAIN q /\ t[x] = q[x + 1] /\ x + 1 # 1
        <5>1. t \in Seq(Frame) /\ \A x \in DOMAIN t : x \in Nat /\ x > 0
          BY <1>3, <1>7, HeadTail
        <5> QED BY <1>3, <1>7, <5>1, HeadTail
      <4>1. i + 1 \in DOMAIN q /\ Held(a)'[i] = q[i + 1] /\ i + 1 # 1
        BY Zenon, <1>8, <1>11, <3>1, <4>0
      <4> QED BY SMTT(30), <1>4, <1>8, <3>1, <4>1 DEF FrameInv, OneEach
    <3>2. CASE p # a
      <4>1. p \in Places /\ \E d \in Nat : \A x \in DOMAIN Held(p)' :
              x + d \in DOMAIN Held(p) /\ Held(p)'[x] = Held(p)[x + d]
        <5>1. Held(p)' # <<>>
          BY <1>11
        <5> QED BY Zenon, <1>9, <1>11, <5>1 DEF Kept, Rest
      <4>2. PICK x \in DOMAIN Held(p) : Held(p)'[i] = Held(p)[x]
        BY Zenon, <1>11, <4>1
      <4> QED BY SMTT(30), <1>4, <1>8, <3>2, <4>1, <4>2 DEF FrameInv, OneEach
    <3> QED BY Zenon, <3>1, <3>2
  <2> QED BY Zenon, <1>5, <2>2, <2>3, <2>4
<1>12. \A h \in Keys : \A g \in got'[h] : g \in got[h] \/ (g = f /\ h = k)
  BY Zenon, <1>5 DEF TypeInv
<1>13. f.n <= sent /\ \A h \in Keys : \A g \in got[h] : g.n # f.n
  <2>1. 1 \in DOMAIN Held(a) /\ Held(a)[1] = f
    BY Zenon, <1>4, <1>8
  <2>2. Held(a)[1].n <= sent /\ \A h \in Keys : \A g \in got[h] : Held(a)[1].n # g.n
    BY <1>8, <2>1 DEF FrameInv, Numbered, Delivered
  <2> QED BY Zenon, <2>1, <2>2
<1>14. Delivered'
  BY <1>6, <1>11, <1>12, <1>13 DEF FrameInv, Delivered
<1>15. Numbered'
  BY Zenon, <1>5, <1>11, <1>12, <1>13 DEF FrameInv, Numbered
<1> QED BY Zenon, <1>10, <1>14, <1>15 DEF FrameInv
-----------------------------------------------------------------------------
(* The invariant.                                                          *)

\* The steps of a joiner keep every frame in one place.
LEMMA JoinerFrames ==
  ASSUME TypeInv, LinkInv, FrameInv, NEW k \in Keys, NEW l \in Lanes,
         Dial(k, l) \/ Send(k, l) \/ Disconnect(k, l) \/ Stop(k)
  PROVE  FrameInv'
<1>1. UNCHANGED <<spool, sent, got>>
  BY Zenon DEF Dial, Send, Disconnect, Stop, registry
<1>2. CASE Dial(k, l)
  <2>1. outq' = outq
    BY Zenon, <1>2 DEF Dial
  <2> QED BY Zenon, <1>1, <1>2, <2>1, DialStruct, SameOut, SameSpool, ShrinkAll
<1>3. CASE Send(k, l)
  BY Zenon, <1>3, SendFrames
<1>4. CASE Disconnect(k, l)
  <2>1. outq' = outq
    BY Zenon, <1>4 DEF Disconnect
  <2> QED BY Zenon, <1>1, <1>4, <2>1, DisconnectStruct, SameOut, SameSpool, ShrinkAll
<1>5. CASE Stop(k)
  <2>1. TypeInv' /\ Quiet
        /\ \A j \in Keys, m \in Lanes : outq'[j][m] = outq[j][m] \/ outq'[j][m] = <<>>
    BY Zenon, <1>5, StopStruct
  <2>2. \A j \in Keys, m \in Lanes : outq[j][m] \in Seq(Frame)
    BY Zenon DEF TypeInv
  <2>3. \A j \in Keys, m \in Lanes : Rest(outq'[j][m], outq[j][m])
    BY Zenon, <2>1, <2>2, RestWhole, RestEmpty
  <2> QED BY Zenon, <1>1, <2>1, <2>3, SameSpool, ShrinkAll
<1> QED BY Zenon, <1>2, <1>3, <1>4, <1>5

\* Registering moves no frame.
LEMMA RegisterFrames ==
  ASSUME TypeInv, LinkInv, FrameInv, NEW c \in DOMAIN conn, Register(c)
  PROVE  FrameInv'
<1>1. UNCHANGED <<outq, spool, sent, got>> /\ conn' = [conn EXCEPT ![c].at = "spool"]
  BY Zenon DEF Register
<1>2. TypeInv'
  BY Zenon, RegisterStruct
<1>3. \A d \in DOMAIN conn :
        conn'[d].todo = conn[d].todo /\ conn'[d].queue = conn[d].queue
  <2>1. \A d \in DOMAIN conn : conn[d] \in SocketType
    BY Zenon, Sockets
  <2> QED BY Zenon, <1>1, <2>1 DEF SocketType
<1>4. Places' = Places
  BY Zenon, <1>1 DEF Places
<1>5. ASSUME NEW p \in Places'
      PROVE  Kept(p)
  <2>1. ASSUME NEW j \in Keys, NEW m \in Lanes, p = <<"out", j, m>>
        PROVE  Held(p)' = Held(p)
    BY Zenon, <1>1, <2>1, OutPlace
  <2>2. ASSUME NEW j \in Keys, p = <<"spool", j, None>>
        PROVE  Held(p)' = Held(p)
    BY Zenon, <1>1, <2>2, SpoolPlace
  <2>3. ASSUME NEW d \in DOMAIN conn, p = <<"todo", d, None>> \/ p = <<"queue", d, None>>
        PROVE  Held(p)' = Held(p)
    BY Zenon, <1>3, <2>3, SocketPlace
  <2>4. Held(p)' = Held(p)
    BY <1>4, <2>1, <2>2, <2>3, PlaceKinds
  <2> QED BY Zenon, <1>4, <2>4, HeldFrames, RestWhole DEF Kept
<1>6. OneEach' /\ NothingNew
  BY Zenon, <1>2, <1>5, Shrink DEF FrameInv
<1>7. sent \in Nat /\ sent' = sent
  BY Zenon, <1>1 DEF TypeInv
<1>8. sent \in Nat /\ sent' \in Nat /\ sent' >= sent
  BY <1>7
<1> QED BY Zenon, <1>1, <1>6, <1>8, NothingNewKept DEF FrameInv

\* So do the steps of a socket and its handler.
LEMMA SocketFrames ==
  ASSUME TypeInv, LinkInv, FrameInv, NEW c \in DOMAIN conn,
         Break(c) \/ Handle(c) \/ Downlink(c) \/ SendTaskEnds(c) \/ StreamEnds(c)
  PROVE  FrameInv'
<1>1. ASSUME \/ Break(c) \/ SendTaskEnds(c) \/ StreamEnds(c) \/ Close(c) \/ Route(c)
             \/ Unregister(c)
      PROVE  FrameInv'
  <2>1. UNCHANGED <<outq, spool, sent, got>>
    BY Zenon, <1>1 DEF Break, SendTaskEnds, StreamEnds, Close, Route, Unregister, registry
  <2>2. TypeInv' /\ Quiet
    BY Zenon, <1>1, BreakStruct, SendTaskEndsStruct, StreamEndsStruct, CloseStruct, RouteStruct,
       UnregisterStruct
  <2> QED BY Zenon, <2>1, <2>2, SameOut, SameSpool, ShrinkAll
<1> QED BY Zenon, <1>1, RegisterFrames, TakeSpoolFrames, ForwardFrames, DownlinkFrames DEF Handle

\* So do the coordinator's other steps.
LEMMA CoordinatorFrames ==
  ASSUME TypeInv, LinkInv, FrameInv, NEW k \in Keys,
         \/ Leave(k) \/ DropConns(k) \/ DropSpool(k) \/ Return(k)
         \/ Age(k) \/ CoolDown(k) \/ ReapClosed(k) \/ ReapExpiredSpool(k)
  PROVE  FrameInv'
<1>1. UNCHANGED <<outq, got, sent>>
  BY Zenon DEF Leave, DropConns, DropSpool, Return, Age, CoolDown, ReapClosed, ReapExpiredSpool
<1>2. ASSUME Leave(k) \/ Return(k) \/ CoolDown(k)
      PROVE  FrameInv'
  <2>1. UNCHANGED <<outq, conn, conns, spool, client, got, sent, wakes>>
    BY Zenon, <1>2 DEF Leave, Return, CoolDown, registry
  <2> QED BY Zenon, <2>1, OtherStruct, SameOut, SameSpool, ShrinkAll
<1>3. ASSUME DropSpool(k) \/ Age(k) \/ ReapExpiredSpool(k)
      PROVE  FrameInv'
  <2>1. TypeInv' /\ Quiet /\ \A j \in Keys : Rest(spool'[j].held, spool[j].held)
    BY Zenon, <1>3, DropSpoolStruct, AgeStruct, ReapExpiredSpoolStruct
  <2> QED BY Zenon, <1>1, <2>1, SameOut, ShrinkAll
<1>4. ASSUME DropConns(k) \/ ReapClosed(k)
      PROVE  FrameInv'
  <2>1. spool' = spool
    BY Zenon, <1>4 DEF DropConns, ReapClosed
  <2>2. TypeInv' /\ Quiet
    BY Zenon, <1>4, DropConnsStruct, ReapClosedStruct
  <2> QED BY Zenon, <1>1, <2>1, <2>2, SameOut, SameSpool, ShrinkAll
<1> QED BY Zenon, <1>2, <1>3, <1>4

\* At the start nothing is on its way.
LEMMA InitFrames ==
  ASSUME Init
  PROVE  FrameInv
<1>1. /\ \A k \in Keys, l \in Lanes : outq[k][l] = <<>>
      /\ \A k \in Keys : spool[k].held = <<>> /\ got[k] = {}
  BY Zenon DEF Init, NoFrames
<1>2. \A c \in DOMAIN conn : conn[c].todo = <<>> /\ conn[c].queue = <<>>
  BY Zenon DEF Init, Socket
<1>3. ASSUME NEW p \in Places
      PROVE  Held(p) = <<>>
  <2>1. ASSUME NEW k \in Keys, NEW l \in Lanes, p = <<"out", k, l>>
        PROVE  Held(p) = <<>>
    <3>1. Held(<<"out", k, l>>) = outq[k][l]
      BY Zenon, OutPlace
    <3> QED BY Zenon, <1>1, <2>1, <3>1
  <2>2. ASSUME NEW k \in Keys, p = <<"spool", k, None>>
        PROVE  Held(p) = <<>>
    BY Zenon, <1>1, <2>2, SpoolPlace
  <2>3. ASSUME NEW c \in DOMAIN conn, p = <<"todo", c, None>> \/ p = <<"queue", c, None>>
        PROVE  Held(p) = <<>>
    BY Zenon, <1>2, <2>3, SocketPlace
  <2> QED BY Zenon, <2>1, <2>2, <2>3, PlaceKinds
<1>4. \A p \in Places : DOMAIN Held(p) = {}
  BY <1>3
<1> QED BY Zenon, <1>1, <1>4 DEF FrameInv, OneEach, Delivered, Numbered

\* Every step keeps every frame in one place.
THEOREM FramesInductive == Spec => []FrameInv
<1>1. Init => FrameInv
  BY Zenon, InitFrames
<1>2. FrameInv /\ StructInv /\ StructInv' /\ [Next]_vars => FrameInv'
  <2> SUFFICES ASSUME FrameInv, TypeInv, LinkInv, TypeInv', [Next]_vars PROVE FrameInv'
    BY Zenon DEF StructInv
  <2>1. ASSUME UNCHANGED vars \/ \E p \in Pairs : PutPolicy(p)
        PROVE  FrameInv'
    <3>1. UNCHANGED <<outq, conn, conns, spool, client, got, sent, wakes>>
      BY Zenon, <2>1 DEF vars, PutPolicy, registry
    <3> QED BY Zenon, <3>1, OtherStruct, SameOut, SameSpool, ShrinkAll
  <2>2. ASSUME NEW t \in Pairs, NEW hello \in BOOLEAN, Emit(t[1], t[2], hello)
        PROVE  FrameInv'
    <3>1. UNCHANGED <<conn, spool, got>> /\ TryRelay(t[1], t[2], hello)
      BY Zenon, <2>2 DEF Emit, registry
    <3>2. t[1] \in Keys /\ t[2] \in Keys
      BY Zenon, <2>2, KeyAssumption DEF Emit, Pairs
    <3> QED BY Zenon, <3>1, <3>2, NewFrame
  <2>3. ASSUME NEW w \in wakes, Wake(w)
        PROVE  FrameInv'
    <3>1. UNCHANGED <<conn, spool, got>>
      BY Zenon, <2>3 DEF Wake, registry
    <3>2. w[1] \in Keys /\ w[2] \in Keys
      BY Zenon DEF TypeInv
    <3>3. CASE TryRelay(w[1], w[2], TRUE)
      BY Zenon, <3>1, <3>2, <3>3, NewFrame
    <3>4. CASE UNCHANGED <<outq, sent>>
      BY Zenon, <3>1, <3>4, QuietNone, SameOut, SameSpool, ShrinkAll
    <3> QED BY Zenon, <2>3, <3>3, <3>4 DEF Wake
  <2>4. ASSUME NEW k \in Keys, Stop(k)
        PROVE  FrameInv'
    <3>1. "hi" \in Lanes
      BY Zenon DEF Lanes
    <3> QED BY Zenon, <2>4, <3>1, JoinerFrames
  <2> QED BY Zenon, <2>1, <2>2, <2>3, <2>4, JoinerFrames, SocketFrames, CoordinatorFrames DEF Next
<1> QED BY <1>1, <1>2, RelayStructure, PTL DEF Spec

\* A frame is never duplicated on its way, is nowhere on its way once a joiner has
\* it and reaches only the joiner it is addressed to (RelayRegistry::forward).
THEOREM FramesOnce == Spec => []FrameOnce
<1>1. FrameInv => FrameOnce
  BY Zenon DEF FrameInv, OneEach, Delivered, FrameOnce
<1> QED BY <1>1, FramesInductive, PTL
=============================================================================
