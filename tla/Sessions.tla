------------------------------ MODULE Sessions -------------------------------
(***************************************************************************)
(* One joiner's session table and what feeds it: the coordinator's roster  *)
(* and policy, the event stream with its filter, its bounded ring and its  *)
(* reconnects, and the roster that comes back with every heartbeat.  The   *)
(* stream task and the heartbeat task write the table's maps one after the *)
(* other, without a lock around a call.                                    *)
(*                                                                         *)
(* How the roster itself changes is Roster's subject, how a heartbeat is   *)
(* lost or retried is Control's; here a record is simply there or not.     *)
(***************************************************************************)
EXTENDS Naturals, Sequences

CONSTANTS
  Peers,       \* records other peers register: [id, key, ula, ep, apps, tag]
  Starts,      \* what the roster may hold when the joiner has joined
  Selves,      \* the joiner's own record under each id it may be given
  Sources,     \* UDP sources a peer's datagrams may come from
  None,
  RingCap,     \* capacity of the broadcast ring (PEER_BROADCAST_CAPACITY)
  MaxObjects,  \* bound: session objects alive at one time
  MaxChanges   \* bound: changes of the roster and of the policy, breaks of the
               \*   stream and datagrams of a new source, together

Infos == Peers \cup Selves
InfoIds == {i.id : i \in Infos}
InfoKeys == {i.key : i \in Infos}
InfoUlas == {i.ula : i \in Infos}
Tags == {i.tag : i \in Infos}
Apps == UNION {i.apps : i \in Infos}
Eps == ({i.ep : i \in Infos} \cup Sources) \ {None}
Objects == 1..MaxObjects
Tasks == {"sse", "hb"}
PeerSessions ==
  [ula : InfoUlas, key : InfoKeys, id : InfoIds, ep : {i.ep : i \in Infos} \cup Sources,
   learned : BOOLEAN, allowed : SUBSET (InfoUlas \cup Apps)]

\* Record i may be in a roster beside rs: ids, keys and addresses are unique.
Fits(i, rs) == \A j \in rs : i.id # j.id /\ i.key # j.key /\ i.ula # j.ula

ASSUME InfoAssumption ==
  /\ Selves # {}
  /\ \A rs \in Starts : /\ rs \subseteq Infos /\ \A i \in rs : Fits(i, rs \ {i})
                        /\ rs \cap Selves # {}
  /\ \A i, j \in Selves : i.key = j.key /\ i.ula = j.ula
  /\ \A i \in Peers, j \in Selves : i.id # j.id /\ i.key # j.key /\ i.ula # j.ula
  /\ None \notin InfoIds /\ None \notin InfoKeys /\ None \notin InfoUlas /\ None \notin Objects
  /\ None \notin PeerSessions
ASSUME CapAssumption ==
  /\ RingCap \in Nat \ {0}
  /\ {MaxObjects, MaxChanges} \subseteq Nat

VARIABLES
  roster,       \* the records the coordinator holds
  policy,       \* tags the joiner may see
  pending,      \* records a policy change has yet to broadcast
  stream,       \* "seed" (not started), "down", "subscribed" (no snapshot taken
                \*   yet) or "live"
  viewer,       \* the id the stream was opened under
  revealed,     \* ids the stream's filter has let through
  ring,         \* broadcast events the stream has not polled
  initial,      \* records of the bootstrap snapshot on their way to the joiner
  me,           \* the joiner's current id
  obj,          \* session objects; None once nothing refers to them
  by_ula, by_pubkey, by_endpoint,  \* the indexes: key -> object, or None
  app_routes,   \* app address -> host address, or None
  job,          \* what the stream task and the heartbeat task are doing
  rx,           \* sessions a datagram of an unknown source decrypted under
  past,         \* history: the keys each address has shown in the roster
  count         \* changes so far

coordVars == <<roster, policy, pending, past>>
streamVars == <<stream, viewer, revealed, ring, initial>>
indexes == <<by_ula, by_pubkey, by_endpoint>>
tableVars == <<obj, indexes, app_routes>>
vars == <<coordVars, streamVars, me, tableVars, job, rx, count>>

-----------------------------------------------------------------------------
Added(i) == [kind |-> "added", info |-> i]
Updated(i) == [kind |-> "updated", info |-> i]
Removed(i) == [kind |-> "removed", id |-> i]

MyKey == (CHOOSE i \in Selves : TRUE).key
MyUla == (CHOOSE i \in Selves : TRUE).ula
PeerUlas == InfoUlas \ {MyUla}

\* AclPolicy::can_see, for the joiner's tags.
Visible(i) == i.tag \in policy

\* The keys the roster has, and the addresses of the records the joiner may see.
HeldKeys ==
  [u \in PeerUlas |->
     LET at == {i \in roster : i.ula = u}
     IN IF at = {} THEN None ELSE (CHOOSE i \in at : TRUE).key]
Seen == {u \in PeerUlas : \E i \in roster : i.ula = u /\ Visible(i)}

\* The keys it has sessions with.
View ==
  [u \in PeerUlas |-> IF by_ula[u] = None THEN None ELSE obj[by_ula[u]].key]

Session(i, allowed) ==
  [ula |-> i.ula, key |-> i.key, id |-> i.id, ep |-> i.ep, learned |-> FALSE,
   allowed |-> allowed]

HostedBy(u) == {a \in Apps : app_routes[a] = u}

\* Index f with v under k, if there is such a k.
Put(f, k, v) == IF k = None THEN f ELSE [f EXCEPT ![k] = v]

\* Reference counting: an object no index, task or receiver refers to is freed.
Referenced ==
  {by_ula[u] : u \in InfoUlas} \cup {by_pubkey[k] : k \in InfoKeys}
    \cup {by_endpoint[e] : e \in Eps} \cup {job[t].sess : t \in Tasks}
    \cup {r.sess : r \in rx}
Freed(o) == [s \in Objects |-> IF s \in Referenced' THEN o[s] ELSE None]

Unused == {s \in Objects : obj[s] = None}

-----------------------------------------------------------------------------
(* The work of a task.                                                     *)

Idle == [at |-> "idle", info |-> None, sess |-> None, todo |-> {}, keep |-> {},
         doomed |-> {}, gone |-> None]

\* The task's next statement needs no map: the next record of a reconcile, the
\* snapshot of addresses that starts its prune, or the end of the work.
Onward(j) ==
  IF j.at = "record" /\ j.todo # {}
  THEN LET i == CHOOSE i \in j.todo : TRUE
       IN [j EXCEPT !.at = "upsert", !.info = i, !.todo = @ \ {i}, !.keep = @ \cup {i.ula}]
  ELSE IF j.at = "record" THEN [Idle EXCEPT !.at = "prune", !.keep = j.keep]
  ELSE IF j.at \in {"check", "drop"} /\ j.doomed # {} THEN j
  ELSE Idle

Proceed(t, j) == job' = [job EXCEPT ![t] = Onward(j)]

\* reconcile_roster on the records ps.
Reconciling(ps) == Onward([Idle EXCEPT !.at = "record", !.todo = ps])

\* visible_peers, as the answer to a heartbeat or a registration under id i.
VisiblePeers(i) == {p \in roster : p.id # i /\ Visible(p)}

\* join_with_commands has registered; seed_initial_roster upserts the answer, and
\* the stream task starts after it.
Init ==
  /\ policy = Tags /\ pending = {}
  /\ roster \in Starts
  /\ \E own \in roster \cap Selves : me = own.id
  /\ past = [u \in PeerUlas |-> {i.key : i \in {p \in roster : p.ula = u}}]
  /\ stream = "seed" /\ viewer = None /\ revealed = {} /\ ring = <<>> /\ initial = {}
  /\ obj = [s \in Objects |-> None]
  /\ by_ula = [u \in InfoUlas |-> None]
  /\ by_pubkey = [k \in InfoKeys |-> None]
  /\ by_endpoint = [e \in Eps |-> None]
  /\ app_routes = [a \in Apps |-> None]
  /\ job = [t \in Tasks |-> IF t = "hb" THEN Reconciling(VisiblePeers(me)) ELSE Idle]
  /\ rx = {}
  /\ count = 0

Bounded == count < MaxChanges /\ count' = count + 1

-----------------------------------------------------------------------------
(* The coordinator.  A handler broadcasts right after it has changed the   *)
(* roster; the orders in which that may go wrong are Roster's subject.     *)

\* PeerBroadcaster::broadcast; a receiver that is RingCap behind loses the
\* oldest event.
Broadcast(e) ==
  ring' = IF stream \in {"seed", "down"} THEN ring
          ELSE LET r == Append(ring, e)
               IN IF Len(r) > RingCap THEN Tail(r) ELSE r

Changed(rs, p) ==
  /\ roster' = rs /\ policy' = p
  /\ past' = [u \in PeerUlas |-> past[u] \cup {i.key : i \in {r \in rs : r.ula = u}}]

\* A handler changes the roster to rs and broadcasts e.
Change(rs, e) ==
  /\ Changed(rs, policy) /\ Broadcast(e) /\ Bounded
  /\ UNCHANGED <<pending, stream, viewer, revealed, initial, me, tableVars, job, rx>>

Join(i) == i \in Peers /\ Fits(i, roster) /\ Change(roster \cup {i}, Added(i))

\* A heartbeat with another endpoint, other apps or tags, or a re-home.
Update(i, j) ==
  /\ i \in roster \cap Peers /\ j \in Peers \ {i} /\ i.id = j.id /\ i.key = j.key
  /\ Fits(j, roster \ {i})
  /\ Change((roster \ {i}) \cup {j}, Updated(j))

\* A deregistration, a timeout, an eviction; of the joiner itself too.
Leave(i) == i \in roster /\ Change(roster \ {i}, Removed(i.id))

\* put_policy_handler replaces the policy and resync_all_peers takes a snapshot ...
PutPolicy(p) ==
  /\ p # policy /\ pending = {}
  /\ Changed(roster, p) /\ Bounded
  /\ pending' = roster
  /\ UNCHANGED <<streamVars, me, tableVars, job, rx>>

\* ... which it broadcasts one record after the other.
Resync(i) ==
  /\ i \in pending
  /\ pending' = pending \ {i}
  /\ Broadcast(Updated(i))
  /\ UNCHANGED <<roster, policy, past, stream, viewer, revealed, initial, me,
                 tableVars, job, rx, count>>

\* ViewerFilter::apply: what becomes of event e, as the frames it lets through
\* (none or one) and the ids revealed after it.
Filtered(e, seen) ==
  IF e.kind = "removed"
  THEN [frames |-> IF e.id \in seen THEN {e} ELSE {}, seen |-> seen \ {e.id}]
  ELSE LET i == e.info IN
       IF i.id = viewer THEN [frames |-> {}, seen |-> seen]
       ELSE IF Visible(i)
       THEN [frames |-> {IF i.id \in seen THEN Updated(i) ELSE Added(i)},
             seen |-> seen \cup {i.id}]
       ELSE [frames |-> IF i.id \in seen THEN {Removed(i.id)} ELSE {},
             seen |-> seen \ {i.id}]

\* consume_once connects under the id of this moment; stream_handler refuses an
\* id that is not in the roster, otherwise subscribes first.
Connect ==
  /\ stream = "down" \/ (stream = "seed" /\ job["hb"] = Idle)
  /\ job["sse"] = Idle
  /\ \E i \in roster : i.id = me
  /\ stream' = "subscribed" /\ viewer' = me
  /\ UNCHANGED <<coordVars, revealed, ring, initial, me, tableVars, job, rx,
                 count>>

\* ... and takes the snapshot afterwards; peer_event_stream sends it first.
Bootstrap ==
  /\ stream = "subscribed"
  /\ LET shown == {i \in roster : i.id # viewer /\ Visible(i)}
     IN /\ revealed' = {i.id : i \in shown}
        /\ initial' = shown
  /\ stream' = "live"
  /\ UNCHANGED <<coordVars, viewer, ring, me, tableVars, job, rx, count>>

\* The connection ends; what was under way on it is lost.
Break ==
  /\ stream \in {"subscribed", "live"}
  /\ stream' = "down" /\ viewer' = None
  /\ revealed' = {} /\ ring' = <<>> /\ initial' = {}
  /\ Bounded
  /\ UNCHANGED <<coordVars, me, tableVars, job, rx>>

-----------------------------------------------------------------------------
(* The stream task and the heartbeat task.                                 *)

\* apply_event starts on a frame: an Added or Updated is an upsert, a Removed
\* drops the sessions that carry its id.
Apply(e) ==
  IF e.kind = "removed"
  THEN Proceed("sse", [Idle EXCEPT !.at = "check", !.gone = e.id,
         !.doomed = {u \in InfoUlas : by_ula[u] # None /\ obj[by_ula[u]].id = e.id}])
  ELSE job' = [job EXCEPT !["sse"] = [Idle EXCEPT !.at = "upsert", !.info = e.info]]

\* A record of the bootstrap snapshot arrives.
TakeInitial ==
  /\ job["sse"] = Idle
  /\ \E i \in initial : Apply(Added(i)) /\ initial' = initial \ {i}
  /\ UNCHANGED <<coordVars, stream, viewer, revealed, ring, me, tableVars, rx, count>>

\* The live part of peer_event_stream polls the ring; a frame the filter lets
\* through arrives.
TakeLive ==
  /\ job["sse"] = Idle /\ stream = "live" /\ initial = {} /\ ring # <<>>
  /\ LET f == Filtered(Head(ring), revealed)
     IN /\ revealed' = f.seen
        /\ IF f.frames = {} THEN UNCHANGED job ELSE \E e \in f.frames : Apply(e)
  /\ ring' = Tail(ring)
  /\ UNCHANGED <<coordVars, stream, viewer, initial, me, tableVars, rx, count>>

\* A heartbeat is answered; reconcile_roster works through the answer later.
Heartbeat ==
  /\ job["hb"] = Idle
  /\ \E i \in roster : i.id = me
  /\ job' = [job EXCEPT !["hb"] = Reconciling(VisiblePeers(me))]
  /\ UNCHANGED <<coordVars, streamVars, me, tableVars, rx, count>>

\* A 404: the joiner registers again, under a new id, and reconciles with the
\* answer of that; the stream keeps the id it was opened under.
Reregister ==
  /\ job["hb"] = Idle
  /\ ~\E i \in roster : i.id = me
  /\ \E i \in Selves :
       /\ i.id # me
       /\ Changed(roster \cup {i}, policy) /\ Broadcast(Added(i))
       /\ me' = i.id
       /\ job' = [job EXCEPT !["hb"] = Reconciling(VisiblePeers(i.id))]
  /\ UNCHANGED <<pending, stream, viewer, revealed, initial, tableVars, rx, count>>

\* Variant: nothing is pruned.
PruneNothing ==
  /\ job["hb"].at = "prune"
  /\ job' = [job EXCEPT !["hb"] = Idle]
  /\ UNCHANGED <<coordVars, streamVars, me, tableVars, rx, count>>

\* After the last record every address that was not in the answer is doomed.
Prune ==
  /\ job["hb"].at = "prune"
  /\ Proceed("hb", [Idle EXCEPT !.at = "drop",
                     !.doomed = {u \in InfoUlas : by_ula[u] # None} \ job["hb"].keep])
  /\ UNCHANGED <<coordVars, streamVars, me, tableVars, rx, count>>

\* SessionTable::upsert of a key the address already has: update_in_place keeps
\* the session and its id.  A learned endpoint outranks the advertised one,
\* which is only indexed.
UpdateInPlace(t) ==
  /\ job[t].at = "upsert"
  /\ LET i == job[t].info
         s == by_ula[i.ula]
         o == obj[s]
         moved == ~o.learned /\ o.ep # i.ep
     IN /\ s # None /\ o.key = i.key
        /\ by_endpoint' = IF o.learned \/ moved
                          THEN Put(IF moved THEN Put(by_endpoint, o.ep, None) ELSE by_endpoint,
                                   i.ep, s)
                          ELSE by_endpoint
        /\ job' = [job EXCEPT ![t].at = "apps"]
        /\ UNCHANGED <<by_ula, by_pubkey, rx>>
        /\ obj' = Freed([obj EXCEPT ![s].ep = IF moved THEN i.ep ELSE @,
                                    ![s].allowed = @ \cup HostedBy(i.ula)])
  /\ UNCHANGED <<coordVars, streamVars, me, app_routes, count>>

\* SessionTable::upsert otherwise, first access: the prior session is looked up.
LookUp(t) ==
  /\ job[t].at = "upsert"
  /\ LET prior == by_ula[job[t].info.ula]
     IN /\ prior # None => obj[prior].key # job[t].info.key
        /\ job' = [job EXCEPT ![t].sess = prior, ![t].at = "build"]
  /\ UNCHANGED <<coordVars, streamVars, me, tableVars, rx, count>>

\* The first insert of an address, or a key rotation: the aliases of the prior
\* session go and a new session takes the address.
Build(t) ==
  /\ job[t].at = "build" /\ Unused # {}
  /\ LET i == job[t].info
         prior == job[t].sess
         s == CHOOSE s \in Unused : TRUE
     IN /\ by_endpoint' = IF prior = None THEN by_endpoint
                          ELSE Put(by_endpoint, obj[prior].ep, None)
        /\ by_pubkey' = IF prior = None THEN by_pubkey
                        ELSE [by_pubkey EXCEPT ![obj[prior].key] = None]
        /\ by_ula' = [by_ula EXCEPT ![i.ula] = s]
        /\ job' = [job EXCEPT ![t].at = "index", ![t].sess = s]
        /\ UNCHANGED rx
        /\ obj' = Freed([obj EXCEPT ![s] =
             Session(i, {i.ula} \cup IF prior = None THEN {} ELSE HostedBy(i.ula))])
  /\ UNCHANGED <<coordVars, streamVars, me, app_routes, count>>

\* ... and is indexed by its key and its advertised endpoint.
Index(t) ==
  /\ job[t].at = "index"
  /\ LET i == job[t].info
         s == job[t].sess
     IN /\ by_pubkey' = [by_pubkey EXCEPT ![i.key] = s]
        /\ by_endpoint' = Put(by_endpoint, i.ep, s)
        /\ job' = [job EXCEPT ![t].at = "apps", ![t].sess = None]
        /\ UNCHANGED <<by_ula, rx>>
        /\ obj' = Freed(obj)
  /\ UNCHANGED <<coordVars, streamVars, me, app_routes, count>>

\* Variant: the index is not updated.
ReconcileSources(t) ==
  /\ job[t].at = "apps"
  /\ LET u == job[t].info.ula
         apps == job[t].info.apps
         stale == HostedBy(u) \ apps
         s == by_ula[u]
     IN /\ UNCHANGED app_routes
        /\ obj' = IF s = None THEN obj
                  ELSE [obj EXCEPT ![s].allowed = (@ \cup apps) \ stale]
  /\ Proceed(t, [job[t] EXCEPT !.at = IF t = "hb" THEN "record" ELSE "done", !.info = None])
  /\ UNCHANGED <<coordVars, streamVars, me, indexes, rx, count>>

\* reconcile_app_routes: the advertised apps are routed to this host and allowed
\* as its sources, the others it had are withdrawn.
ReconcileAppRoutes(t) ==
  /\ job[t].at = "apps"
  /\ LET u == job[t].info.ula
         apps == job[t].info.apps
         stale == HostedBy(u) \ apps
         s == by_ula[u]
     IN /\ app_routes' = [a \in Apps |-> IF a \in apps THEN u
                                         ELSE IF a \in stale THEN None ELSE app_routes[a]]
        /\ obj' = IF s = None THEN obj
                  ELSE [obj EXCEPT ![s].allowed = (@ \cup apps) \ stale]
  /\ Proceed(t, [job[t] EXCEPT !.at = IF t = "hb" THEN "record" ELSE "done", !.info = None])
  /\ UNCHANGED <<coordVars, streamVars, me, indexes, rx, count>>

\* apply_event looks again whether the address still has the id that was removed;
\* the prune does not.
Check ==
  /\ job["sse"].at = "check"
  /\ LET j == job["sse"]
         u == CHOOSE u \in j.doomed : TRUE
     IN IF by_ula[u] # None /\ obj[by_ula[u]].id = j.gone
        THEN job' = [job EXCEPT !["sse"].at = "drop"]
        ELSE Proceed("sse", [j EXCEPT !.doomed = @ \ {u}])
  /\ UNCHANGED <<coordVars, streamVars, me, tableVars, rx, count>>

\* Where a task goes on after a removal.
Resume(t) == IF t = "sse" THEN "check" ELSE "drop"

\* SessionTable::remove, first access.
Drop(t) ==
  /\ job[t].at = "drop"
  /\ LET u == CHOOSE u \in job[t].doomed : TRUE
         s == by_ula[u]
         rest == [job[t] EXCEPT !.doomed = @ \ {u}]
     IN IF s # None
        THEN /\ by_ula' = [by_ula EXCEPT ![u] = None]
             /\ job' = [job EXCEPT ![t] = [rest EXCEPT !.at = "unindex", !.sess = s]]
        ELSE /\ Proceed(t, [rest EXCEPT !.at = Resume(t)])
             /\ UNCHANGED by_ula
  /\ UNCHANGED <<coordVars, streamVars, me, obj, by_pubkey, by_endpoint,
                 app_routes, rx, count>>

\* ... then the aliases of the session's endpoint and key and the routes of the
\* apps it hosted.
Unindex(t) ==
  /\ job[t].at = "unindex"
  /\ LET s == job[t].sess
     IN /\ by_endpoint' = Put(by_endpoint, obj[s].ep, None)
        /\ by_pubkey' = [by_pubkey EXCEPT ![obj[s].key] = None]
        /\ app_routes' = [a \in Apps |-> IF app_routes[a] = obj[s].ula THEN None
                                         ELSE app_routes[a]]
        /\ Proceed(t, [job[t] EXCEPT !.at = Resume(t), !.sess = None])
        /\ UNCHANGED <<by_ula, rx>>
        /\ obj' = Freed(obj)
  /\ UNCHANGED <<coordVars, streamVars, me, count>>

Call(t) ==
  \/ UpdateInPlace(t) \/ LookUp(t) \/ Build(t) \/ Index(t) \/ ReconcileAppRoutes(t)
  \/ Drop(t) \/ Unindex(t)

-----------------------------------------------------------------------------
(* The receiver and the path timers.                                       *)

\* udp_recv_loop: a datagram of a source that is not indexed decrypts under one
\* session of the snapshot it walks ...
Receive(e) ==
  /\ by_endpoint[e] = None /\ rx = {}
  /\ \E u \in InfoUlas : by_ula[u] # None /\ rx' = {[sess |-> by_ula[u], source |-> e]}
  /\ Bounded
  /\ UNCHANGED <<coordVars, streamVars, me, tableVars, job>>

\* ... and learn_endpoint makes it the session's endpoint, also when the session
\* has left the table since.
LearnEndpoint ==
  /\ \E r \in rx :
       /\ by_endpoint' = [by_endpoint EXCEPT ![r.source] = r.sess]
       /\ rx' = {}
       /\ UNCHANGED <<by_ula, by_pubkey, job>>
       /\ obj' = Freed([obj EXCEPT ![r.sess].ep = r.source,
                                   ![r.sess].learned = @ \/ obj[r.sess].ep # r.source])
  /\ UNCHANGED <<coordVars, streamVars, me, app_routes, count>>

\* A downgrade of the direct path forgets that the endpoint was learned.
Downgrade(u) ==
  /\ by_ula[u] # None /\ obj[by_ula[u]].learned
  /\ obj' = [obj EXCEPT ![by_ula[u]].learned = FALSE]
  /\ UNCHANGED <<coordVars, streamVars, me, indexes, app_routes, job, rx, count>>

-----------------------------------------------------------------------------
Next ==
  \/ \E i \in Peers : Join(i) \/ \E j \in Peers : Update(i, j)
  \/ \E i \in Infos : Leave(i)
  \/ \E p \in SUBSET Tags : PutPolicy(p)
  \/ \E i \in pending : Resync(i)
  \/ Connect \/ Bootstrap \/ Break
  \/ TakeInitial \/ TakeLive \/ Check \/ Heartbeat \/ Reregister \/ Prune
  \/ \E t \in Tasks : Call(t)
  \/ \E e \in Sources : Receive(e)
  \/ LearnEndpoint
  \/ \E u \in InfoUlas : Downgrade(u)

Spec == Init /\ [][Next]_vars

\* The heartbeat loop ticks and its task is scheduled.  Nothing is assumed of the
\* broadcasts and of the stream: they may stall for ever.
FairSpec == Spec /\ WF_vars(Heartbeat \/ Reregister \/ Prune \/ Call("hb"))
-----------------------------------------------------------------------------
\* The abstract view this table implements.
Shown == INSTANCE RosterView WITH
  Addresses <- PeerUlas, Owners <- InfoKeys \ {MyKey}, Nobody <- None,
  held <- HeldKeys, seen <- Seen, past <- past, view <- View

\* The table implements RosterView: whatever the stream drops, repeats, reorders
\* or filters and however the two tasks interleave, every session is with a key
\* the coordinator had at that address, and the table settles on the roster
\* (apply_event, reconcile_roster).
ShowsRoster == Shown!Spec

\* A session with the joiner's own address, built from a stream that still runs
\* under a dead id, goes away (reconcile_roster).
NoSelfSession == by_ula[MyUla] # None ~> by_ula[MyUla] = None

\* The only visible host of an app.
SoleHost(a, u) ==
  /\ \E i \in roster : i.ula = u /\ i.ula # MyUla
  /\ \A i \in roster : Visible(i) /\ a \in i.apps <=> i.ula = u

\* An app that one visible host advertises is eventually routed to that host and
\* allowed as its source, wherever it was before (reconcile_app_routes).
AppsFollow ==
  \A a \in Apps, u \in PeerUlas :
    []<>(SoleHost(a, u) => /\ app_routes[a] = u
                           /\ by_ula[u] # None /\ a \in obj[by_ula[u]].allowed)

=============================================================================
