# Verification of the tabbify service mesh

TLA+ modules, TLC runs and TLAPS proofs for the mesh in `src/`: a coordinator
that keeps the roster of an overlay network, and joiners that build WireGuard
sessions from it.

## The system

| part | where | what it does |
|---|---|---|
| membership | `mesh-coordinator/src/roster/` | register, heartbeat, deregister, timeout; the by-pubkey index; addresses per network block; the snapshot on disk |
| events | `http/sse.rs`, `http/api/stream.rs` | broadcasts every change; a stream per joiner, opened with the whole visible roster |
| visibility | `policy/`, `roster/filter.rs`, `http/policy_api.rs` | tag rules decide who sees whom; replaced under an ETag |
| relay | `relay/`, `http/relay.rs` | two lanes per peer, a short spool, wake-up of a cold destination |
| NAT traversal | `nat/` (both crates) | reflexive endpoints, STUN, paired hole punches with an escalating cooldown |
| commands | `roster/coordinator/command_queue.rs`, joiner `coordinator/command*.rs`, `tools/tabbify-mesh/src/host_sink.rs` | signed commands carried by heartbeats, a replay guard, a reboot guard |
| joiner control | joiner `coordinator/heartbeat.rs`, `peer_sync.rs`, `joiner.rs` | heartbeat ticks, recovery when the coordinator forgot us, the event stream |
| data plane | joiner `wg/`, `relay/client.rs` | the session table, direct or relayed path per session, packet loops |
| fabric, tools, contract | `mesh-fabric`, `tools/`, `vendor/tabbify-join-contract` | transports, command line, shared address layout |

`PROJECT.json` lists every part with what is modelled of it, and the hazards of
the code at the line where they bite.

## Modules

**`Roster`** is the coordinator's membership core. Handlers of a multi-threaded
runtime are tasks with a program counter and local variables. A step is one
access to a map that others may change meanwhile. Accesses are merged into it
only where no other task can make a difference in between, and the comments of
`Refresh`, `FindStaleHolder`, `ApplyPeerJoined`, `IndexPeer` and `Heartbeat` say
which and why: two reads of which the first decides nothing the second does not,
a scan for an address under the lock without which no address is handed out, the
allocator, which only the lock's holder touches. The two inserts of a join and
the two removals of a departure are four steps, because a departure takes no lock.

| state | code |
|---|---|
| `roster`, `byPubkey` | `Inner.roster`, `Inner.by_pubkey` (`DashMap`s) |
| `allocator` | `UlaAllocator`, the last index issued per network block |
| `lock` | `registration_lock`, held by a registration from start to end and by nothing else |
| `view` | what a joiner that folds the broadcasts holds: the session at each address |
| `disk`, `tmp` | `roster.json` and `roster.tmp`: absent, partly written, or a snapshot |
| `pc`, `loc` | where each handler is, and its locals |
| `overtaken` | history: keys that were indexed after the entry they lead to had left |

| actions | code |
|---|---|
| `Register`, `Refresh`, `Rewrite`, `Moved`, `Announce` | `register_authenticated`, `refresh_existing`: a known key is refreshed, or moved to the network its validated claims name |
| `FindStaleHolder`, `Evicted`, `ResolveUla`, `ApplyPeerJoined`, `IndexPeer` | a new key: eviction of a stale holder of the requested address, the address, the insert into the roster, the insert into the index |
| `Deregister`, `Leave`, `Unindex`, `Departed` | `deregister`, `apply_peer_left` |
| `Heartbeat`, `Reread` | `heartbeat`, which re-broadcasts what it re-reads |
| `Age`, `StartSweep`, `SweepNext` | the clock, `sweep_once` |
| `Collect`, `CollectRest`, `OpenTmp`, `WriteTmp`, `RenameTmp`, `SaveFails`, `Cancel` | `persist_roster`, `FileRosterStore::save`, a failing file system, a client that goes away |
| `Restart` | a crash at any step, `load`, `restore` |

What is abstracted: an address is a record of segment, block and index; the age
of a heartbeat is fresh or stale; a join token is the network it grants. A walk
over a map locks one shard after the other, so `Collect` reads the peers of
`FirstShard` and `CollectRest` the others later. A file operation that has been
handed to the blocking pool is not undone when its handler is dropped, so
`Cancel` lets it finish. Peer ids are never reused (they are random UUIDs).

**`Control`** is one joiner's control loop and its record at the coordinator:
the join, heartbeats with commands and acknowledgements, recovery from roster
loss, the command gate.

| state | code |
|---|---|
| `entry` | the roster's record of this joiner's key: id, address, `pending_commands` |
| `cur`, `late`, `resp` | the request in flight, requests the joiner gave up on that may still be handled, the answer on its way |
| `node` | the process: where `tick_once` is, `peer_id`, `handling_roster_loss`, `pending_acks`, the batch, the TUN address, the nonces in memory |
| `nfile`, `idfile` | the nonce file and the identity file |
| `runs`, `decided`, `lost`, `relapse` | history: what ran in this life, what was decided, what left the queue undelivered, whether a recovery was disturbed |
| `saved`, `torn` | history: what once was on file, whether a process ended while the file lacked some of it |

| actions | code |
|---|---|
| `HeartbeatLookup`, `AckCommands`, `DrainCommands` | `heartbeat_handler`, one step per access to the record |
| `HandleRegister` (`Refresh`, `Rehome`, `Admit`, `Conflict`, `Reject`), `Post`, `SweepSilent`, `SweepLive`, `RestartCoordinator` | `register_handler`, the command API, the sweeper, a restart with or without a snapshot |
| `Boot`, `JoinGranted`, `Fallback`, `JoinFailed` | `resolve_identity`, `join_with_commands`, `register_with_409_fallback` |
| `Tick`, `Beaten`, `RosterLoss`, `BeatFailed`, `Reregistered`, `ReregisterFailed` | the arms of `tick_once` and `reregister_after_roster_loss` |
| `Refuse`, `Execute`, `Record`, `RecordUnsaved`, `Persist` | `process_commands`, `CommandGate`, `NonceStore`; the file is truncated and written in two steps |
| `TimeOut`, `Crash` | the ten-second request timeout; the end of the process at any step |

What is abstracted: registration is one step (`Roster` has its interleavings);
which addresses other peers hold is not state, a requested one is free or a 409;
the clock only decides, when a batch arrives, which of its commands have
expired; a verb's effect is that it ran. Late handling is possible because a
client that times out closes a connection whose request may already be read.

**`Sessions`** is one joiner's session table with what feeds it. The stream task
and the heartbeat task write the table's maps one after the other; each write is
a step.

| state | code |
|---|---|
| `roster`, `policy`, `pending` | what the coordinator holds and shows, and what `resync_all_peers` has yet to broadcast |
| `stream`, `viewer`, `revealed`, `ring`, `initial` | one stream of `stream.rs`: connected or not, the id it was opened under, its filter, the broadcast ring, the bootstrap snapshot |
| `obj`, `by_ula`, `by_pubkey`, `by_endpoint`, `app_routes` | `PeerSession` objects and the indexes of `SessionTable` |
| `job`, `rx` | the call each task is in, and datagrams of unknown source being tried |

| actions | code |
|---|---|
| `Join`, `Update`, `Leave`, `PutPolicy`, `Resync` | changes of roster and policy (`Roster` and `Policy` have their detail) |
| `Connect`, `Bootstrap`, `Break`, `TakeInitial`, `TakeLive` | the stream: it subscribes, then takes its snapshot; a full ring loses the oldest event |
| `Check`, `Call` | `apply_event` with its guarded removal; `upsert_session`, `remove_session` and the app routes, one map at a time |
| `Heartbeat`, `Prune`, `Reregister` | `reconcile_roster` with the roster of a heartbeat, and the new id after a roster loss |
| `Receive`, `LearnEndpoint`, `Downgrade` | the index entries that packets and timers change |

**`RosterView`** is the abstract promise: a set of addresses with the key shown
at each, every one a key the coordinator had at that address, and the view
settles on what the coordinator holds. `Sessions` implements it
(`ShowsRoster == Shown!Spec`); the history variable `past` has the keys each
address has shown in the roster.

**`Relay`** is the relay floor: `client`, `outq` (the two lane tasks of a joiner
and their queues), `conn` (every accepted socket with its handler), and the
registry's `conns`, `spool` (of each key: the frames held for it, and how many
of them have expired) and `cooling`. Frames are numbered as they are sent, and
the history variable `displaced` has the sockets that another one or `drop_pubkey`
took out of their slot. `Emit`, `Dial`, `Send` and `Disconnect`
are the client's; `Handle` runs the handler of a socket from registration over
the drain of the spool to forwarding; `Downlink`, `SendTaskEnds` and `StreamEnds`
are its send task and its end; `DropConns` and `DropSpool` are `drop_pubkey`;
`ReapClosed` and `ReapExpiredSpool` the sweeper. `Break`, `Stop`, `Leave`,
`Return` and `PutPolicy` disturb.

**`Paths`** is the choice between UDP and the relay. `sess[n][m]` has the fields
of `PeerSession` that decide it, with instants kept as ages; `clock[n]` the
table's own clocks; `udp` the pairs that datagrams get through between. `Step`
is whatever is due: a frame arrives (`Receive`), application data is sent (`TunRead`), the
timer loop visits a session (`Visit`), an idle probe or a punch is sent, and when nothing
is due a tick passes. `NoteDirectTx` is the clock the black-hole rule goes by; the
history variable `alone` counts, per pair, the packets sent on the direct path and
on no other (`SentAlone`) since data last arrived on it. It starts at `Allowance`
(`HoleTtl + 2`), and a visit that leaves the path unconfirmed puts it back there, so
that one packet sent alone on a path nobody believes in already exceeds the bound.
`Flip`, `Lose`, `Restart`, `GiveUp` (a handshake that boringtun abandons) and
`PunchStart` disturb.

**`Policy`** has the rules as operators (`TagMatches`, `AllowsDirected`, `CanSee`,
`IsCrossTenantGlobSource`, `Validate`) and the store as a state machine: `Get`,
`Put` under an entity tag, `Resync` after it, `Restart` from a policy file. Its
specification is `PolicySpec`, that of `Pairing` `PairingSpec`: both go into one run.

**`Pairing`** is the coordinator's side of hole punching. A heartbeat's handler
(`hb[n]`) stores endpoint and observed address, copies the roster, and claims one
pair after the other with the instant it read at its start; `Leave`, `Forget`
and `Sweep` clear entries, pairs and flags; instants have `Width` bits, so the
shift in `reemit_cooldown_micros` overflows as in the code.

**`Topology`**, **`Stun`**, **`Wire`** and **`Admission`** are algorithms:
the fold of path reports into the machine graph; STUN request, answer and parser
octet by octet; the JSON bodies as each side declares them; and the first
register end to end, from the flags of both programs over token and claims to
the status the joiner sees.

**`Host`** is what a joiner does to its machine: `file` (identity), `dev`,
`chain`, `rules`, `routes` (device, firewall chain, policy rules and tables),
`history` (the reboot guard's file: the numbers of the recorded reboots, whose ages
are in the history variable `reboots`) and `proc[j]`, the process with its two
re-assert loops and the route commands it has spawned. Each `ip` or `ip6tables`
command is an action: `Register`, `Persist`, `OpenTun`, `EnsureTrust`,
`InsertTrust`, `Seed` for the start, `TrustTick`, `TrustInsert`, `ScopeTick`,
`ScopeInstall`, `ScopeRoute` for the loops, `RouteCommand` for a session's route,
`Leave` to `Finish` for the orderly end, `RebootHost` for the guard. Failing
commands, `Reload`, `Kill` and `PowerCut` are the upsets.

**`Fabric`** is what the three fabrics share, endpoints, routes and the local
part of `send`; it is all of `InProcessFabric`. **`Loopback`** adds the TCP
fabric's connection pool, with `Lookup`, `Connect`, `Insert`, `Write` and
`DropConnection` as the steps of `send_remote` between the pool's locks.
**`WireGuard`** adds tunnels: `SendTunnel`, `Receive`, `Drain` (the loop that
empties a tunnel's queue) and `Timer`, over datagrams that may be lost.

**`Daemon`** is the `join` command: the port it competes for (`bind_udp_with_fallback`),
the order of its start and end, the refresh task, and the status file, whose
`fs::write` and `fs::rename` are separate steps of writers that share a
temporary file; and the `leave` command that reads it. A file is missing, blank
(opened and truncated), garbled, or a snapshot that names its writer; a writer
keeps the file it opened when another one renames or removes it (`Renamed`,
`Unlinked`).

The `MC` modules give the modules their instances. `MCOperator` puts `Policy`
and `Pairing`, `MCNode` the two fabrics and the daemons into one run: the parts
share no state, so a variable `part` lets each behaviour be one of a single
part. `MCHost` also extends `Admission` and `MCOperator` also extends `Stun`, for
TLC to evaluate their assumptions. The theorems are in `RosterProofs`,
`ControlProofs`, `RelayProofs`, `PathsProofs`, `HostProofs`, `NodeProofs` (of
`Loopback` and `Daemon`), `CoordinatorProofs` (of `Policy`, `Pairing` and
`Topology`) and `ExchangeProofs` (of `Wire`, `Admission`, `Stun` and `Sessions`).

## Runs

| run | result | what it shows |
|---|---|---|
| `roster_safety` | passes | two request tasks and the sweeper, three membership operations: `UlaUnique`, `AllocatorCoversRoster`, `AddressStable`; `PubkeyIndexed`: the index has every live peer, and leads to a dead one only while it leaves or when its departure overtook its join |
| `roster_restart` | passes | `UlaUnique` and `AllocatorCoversRoster` with a state directory, a roster walked in two parts, failing saves, disconnecting clients and a crash at any step: whatever snapshot is on disk, the restored roster has unique addresses, and the allocator is past them |
| `roster_live` | passes | `ViewConverges`: the table of a subscriber agrees in the end with every peer that keeps heartbeating; `SilentPeerLeaves` |
| `control_safety` | passes | a loss, a forgotten or re-homed peer and a crash in any order, one command posted twice, failing writes: `RunsOnce`; `RecordedNeverRuns`: what once was on file runs again only if a process ended during a rewrite of the file; `ConfiguredAddressKept` until claims move the key |
| `control_live` | passes | `Recovers` and `CommandsSettle` under any two of these disturbances |
| `control_guard` | violated | `RetriesReregister`: a re-registration that fails once leaves the guard set, and every later 404 is skipped until the process restarts (`heartbeat.rs:485-487`: "the loop retries on the next tick") |
| `sessions` | passes | `ShowsRoster`: the table refines `RosterView`; `NoSelfSession`; `AppsFollow`: an app is routed to the host that has it |
| `relay` | passes | `FrameOnce`: no frame is in two places or handed over twice; `NewestServes`: an old socket's end never takes a new one out of its slot; `SpoolDrains`; `Reattaches` |
| `paths` | passes | `BlindBounded`: between two arrivals of data on a direct path at most `HoleTtl + 2` packets go out on it alone, although the other end's keepalives do not let it go stale, and none before the first data or once the path is given up; `Delivers`: data keeps arriving whatever UDP does, and the receiver's report settles at healthy; `Upgrades`: both ends find the direct path; `TunnelsHeal` |
| `operator` | passes | the policy: `TenantsApart`, `UpdatesSeen`, `Announced`; the pairing: `EmitsSpaced`, `PairsRetried`, `TrackerForgets` |
| `host` | passes | `LeftClean`, `LeaksReadopted`, `RebootsCapped`, and `HostRepairs`: the loops restore rule, table and routes after any finite number of upsets |
| `node` | passes | TCP fabric: `SentOnce`, `PoolFollowsPeer`; WireGuard fabric: `QueueFlushed`; daemons: `LeavesNoStatus`, `StablePort`, `StatusSettles` |

### Bounds

* `Roster`: two keys and two or three peer ids give a rejoin under a new id and
  a holder of somebody's requested address; two networks in two blocks give a
  re-home; an index space of one or two per block lets it run out; requests for an
  address below and for one above what was issued so far move the allocator or
  leave it. Two request tasks and the sweeper give every pairwise race
  (registrations exclude each other by the lock). `MaxOps` bounds registrations,
  deregistrations and faults (a failed save, a client that disconnects) together;
  heartbeats are unbounded. In `roster_restart` one id is in `FirstShard` and two
  are not, so that a walk may miss a peer, or save a key under two ids and one
  address twice; one request task beside the sweeper already gives overlapping
  saves. Keys, and ids of one shard, are interchangeable, which the safety runs use
  as symmetry; the run with liveness does not. A validator is configured in all
  runs; without one nobody moves, which `AddressesStable` covers.
* `Control` bounds the disturbances (`MaxLosses`, `MaxForgets`, `MaxMoves`, `MaxCrashes`, and
  `MaxDisturbances` for their sum): one of each is enough for a late request to meet a
  forgotten record and a restarted process. A command posted twice gives a replay
  in one batch and across batches; `MaxIds` is never what stops a registration in
  the run with liveness.
* `Sessions`: two changes (of the roster, the policy, the stream or a packet's
  source) beside unlimited heartbeats and reconnects; a ring of one loses events
  at once; six session objects are never all in use.
* `Relay`: queues and spool of one frame, two frames, one disturbance, five
  sockets: enough for a lane to be replaced while the old socket's handler still
  runs and a frame is between the lanes and the spool.
* `Paths`: two joiners, one of which knows an endpoint of the other; the times
  keep the order of the code's constants (black hole before path age, backoff
  cap above both, silence three times the black hole, as 90 s is to 30 s), and
  a keepalive is due less often than a tick, in which a candidate may be probed once
  (25 s to 1 s in the code: a keepalive in every tick would take every probe from the
  data that confirms a path, and `Upgrades` would fail).
  `Delivers` needs the cap to exceed `HoleTtl + 2`; its second half fails with a
  silence of twice the black hole. One disturbance at any tick.
* `Pairing`: four bits for an instant, so that the shift of the cooldown reaches
  the sign bit within a few punches; handlers at most one tick behind; three
  identities for two nodes.
* `Policy`: six documents that cross networks in every way a pattern can, six
  requests by three operators.
* `Host`: two joiners, two starts, two upsets, a guard of one reboot per window.
* `Loopback` and `WireGuard`: two nodes, two calls, two operations. `Daemon`: two
  daemons, two join commands, one fault, retries that outlast the kernel's
  reclaim of a dead socket as in the code.

Deadlock is not checked where the system may rest: a coordinator without peers,
joiners that have left, a fabric without calls. A joiner always ticks, so it is
checked in the runs of `Control`, `Sessions` and `Paths`.

### Fairness

`Roster` assumes that the runtime keeps running a task it has started (weak
fairness of each handler's steps) and that the sweeper's interval ticks. It
assumes nothing of clients: `ViewConverges` is about a peer that does keep
heartbeating. It speaks of the key of a session and not of its peer id, because
a session whose key is unchanged is updated in place and keeps the id it was
built with (`table.rs:827`). `Control` assumes that the service manager restarts
the process, that the loop ticks, that a request nobody gave up on is handled,
and that the sweeper removes a record nobody heartbeats. `Sessions` assumes only
that the heartbeat loop ticks: the stream may stall for ever. `Relay` assumes
that lane tasks redial, handlers run, the sweeper ticks and time passes, not
that the coordinator notices a dead socket. `Paths` assumes that its loops run
and time passes. `Pairing` assumes heartbeats, handlers, sweeps and time; `Host`
the heartbeat, the spawned commands and the two loops; `WireGuard` the loops,
the timer and the arrival of a datagram that is not lost; `Daemon` the refresh
task and a `leave` that has begun. Disturbances are never fair.

## Proofs

Every invariant and action property that a run checks is also a theorem, for all
constants that satisfy the assumptions of its module: any number of keys, peers,
tasks, sockets, frames, restarts and faults. The bounds of the runs are then
values of constants like any other.

| module | theorem | states |
|---|---|---|
| `RosterProofs` | `TypeCorrect`, `AddressesUnique`, `AllocatorAhead`, `KeysIndexed`; `AddressesStable` | `[]TypeOK`, `[]UlaUnique`, `[]AllocatorCoversRoster`, `[]PubkeyIndexed`; `AddressStable` |
| `ControlProofs` | `CommandsRunOnce`, `ConfiguredAddressStays`; `RecordedCommandsStay` | `[]RunsOnce`, `[]ConfiguredAddressKept`; `RecordedNeverRuns` |
| `RelayProofs` | `NewestSocketServes`, `FramesOnce` | `[]NewestServes`, `[]FrameOnce` |
| `PathsProofs` | `PathsNotFedBlindly` | `[]BlindBounded` |
| `HostProofs` | `LeavesClean`, `LeaksAreReadopted`, `GuardCapsReboots` | `[]LeftClean`, `[]LeaksReadopted`, `[]RebootsCapped` |
| `NodeProofs` | `SendsOnce`, `PoolFollows`, `NoStatusLeft`, `PortIsStable` | `[]SentOnce`, `[]PoolFollowsPeer`, `[]LeavesNoStatus`, `[]StablePort` |
| `CoordinatorProofs` | `TenantsStayApart`, `PoliciesAnnounced`; `UpdatesAreSeen`, `PunchesSpaced` | `[]TenantsApart`, `[]Announced`; `UpdatesSeen`, `EmitsSpaced` |
| `ExchangeProofs` | `TableShowsRoster` | `Shown!Safe`: the step-by-step part of the refinement `ShowsRoster` |

None of the invariants is inductive as it stands, but for `Announced`. What was added:

**`Roster`.** Whether a join may insert its address depends on what the handler
established steps earlier. `Inv` adds, for the holder of the registration lock,
that an address it carries between `ResolveUla` and `ApplyPeerJoined` (or between
`Refresh` and `Rewrite`) is held by nobody else and covered by the allocator, and
that only the lock's holder is at those steps. Every other step is *gentle*: it
inserts nothing and moves nobody. A restart is sound for any content of the file,
because `restore` refuses an entry whose address is taken and advances the
allocator past each one it accepts. For the key index `FreshInv` says that the id
of a join that has inserted nothing is in no map, buffer or file. `IndexInv` says
that the key of a join is free until the join indexes it, that a live peer and one
between its two removals are `Known`, in the index or about to be put there by the
join of that very peer, and that a key has one departure between its removals at
most. A key is known for one peer only, because the lock admits one join at a time. `PubkeyIndexed` is stated up to the first restart: a walk of
`persist_roster` may save a key that leaves and rejoins behind it under both its
ids, and `restore` then indexes only one of them. `AddressStable` rests on the
same two invariants: only `Rewrite` of a validated move changes an address.

**`Control`.** `GateInv`: while the loop runs the file holds no nonce that memory
does not, and a command that ran is in memory or is the one about to be recorded; what once
was on file is in memory while the gate works and on file until it is loaded,
unless a process ended during a rewrite.
It needs no types of queues and messages, so it holds whatever the network
delivers. `AddrInv`: a joiner with a configured address asks for nothing else, now
or in a request it gave up on, so nothing else is recorded or answered before
claims move the key.

**`Relay`.** `StructInv`: slots, lane tasks and the handlers' work refer to sockets
that exist, of the right key and lane, and a displaced socket never gets a slot
back. `FrameInv`: a frame has one place. A step that puts a frame into a queue
takes it from the head of another one or empties the spool it came from, every
other step only shortens queues, and a new frame's number is higher than all.

**`Paths`.** `BlindBounded` is about a path that is dead one way while what comes
the other way keeps it from going stale. `PathInv` keeps an account per pair: while
a path is believed in, the packets sent on it alone are no more than the ticks
since data last came that way, and one sent recently is in the send clock. Past
`HoleTtl` ticks the next visit of the timer loop finds the path in use and gives
it up; a path that was idle meanwhile has one packet on its account and gets two
more at most before the visit after the next. While it is not believed in, `alone` is
`Allowance` and nothing goes out on the path alone. The argument rests on the timer
loop visiting every session once a tick.

**`Host`.** `HostInv` has for every place in a joiner's start, loops and leave what
may be in the chain, the rules and the tables: entries once each, of joiners that
have stored their identity, under an address the file still holds or one that was
granted instead; loops that run only in between; the index of an undisturbed
deletion that still points at the joiner's rule. `RebootInv`: the reboots that
count are in the guard's file, so the guard sees all that lie in its window.

**`Loopback`, `Daemon`.** `IInv`: a call under way uses the address the peer has
now or is known to be overtaken, a connection about to be pooled is the call's own
and leads to the address it read, and by whom each pooled connection was opened.
`PortOk`: a joiner that has met no other at the port has attempts left for the
pauses the kernel still needs. `FilesOk`: the snapshot of a process is in the
temporary file only while that process has still to rename it, and in the status
file only until the process has removed that; so a rename by another daemon
never brings back one that has left.

**`Policy`, `Pairing`.** The policy in force is well formed and valid, as is the one
the program ships with; a pattern that matches two tenants' tags ends in a star
and is a prefix of, or begins with, `NetPrefix`, and those are refused.
`TagsOrdered` orders the counters of entity tags: nobody holds a later one than
the store does, and who has been overtaken holds an earlier one. `Tracked`: the
tracker's age of a pair is the time since its last punch, and a pair it does not
know was last punched beyond its memory or has lost an end for good.

**`Sessions`.** `TableInv` (theorem `TableInductive`): every record on its way to the
table, in the ring, the bootstrap snapshot, a heartbeat's answer, the pending
broadcasts or a half-done call of either task, was once in the roster. Then a step
of `Sessions` changes one address at most, to nobody or to a key that address has
had, which is a step of `RosterView`, or it is a stutter.

The algorithms have theorems of their own, about their operators:

* `Topology`, for whatever machines report of each other: a pair's edge is the
  same from both ends (`EdgeUndirected`), direct exactly when one end says so
  (`EitherEndDirect`) or when the peer list of one end does (`VantagesAgree`), and
  carries the latest handshake of the two (`LatestHandshake`).
* `Stun`: the joiner's parser reads back the address the server saw
  (`MappingRoundTrip`), and it is advertised when others can dial it
  (`AdvertisesMapping`), assuming of XOR only that it undoes itself.
* `Wire` and `Admission`, assuming of the codecs only that what is printed is read
  back: the coordinator reads every register and heartbeat body as the joiner meant
  it, also one that lacks optional fields (`RegisterArrives`, `HeartbeatArrives`);
  the joiner adopts what it was granted and knows exactly the roster it was sent
  (`GrantArrives`, `RosterArrives`); with an auth service network, tags and reserved
  addresses are the token's (`TokenDecides`) and without one are never a reserved
  address (`OpenNetwork`); both sides of a join agree on the transport
  (`TransportAgreed`). The lemma `ReadsBack` carries them: a field left out at a
  value is read as a default, so each side's defaults must be the other side's
  omissions.

Each action has its lemma, or several where it can disturb several conjuncts; a
lemma `...Kept`, `...Holds` or `...Struct` combines them over the next-state
relation. Most leaves name Zenon: they are first-order steps it settles at once,
while an SMT call gets slower with the length of the module.

Model-checked only is liveness, which under fairness is out of the prover's reach:
`ViewConverges`, `SilentPeerLeaves`, `Recovers`, `CommandsSettle`, the half of
`ShowsRoster` that says the view settles, `NoSelfSession` (a session with itself
may appear and must go), `AppsFollow`, `SpoolDrains`, `Reattaches`, `Delivers`,
`Upgrades`, `TunnelsHeal`, `PairsRetried`, `TrackerForgets`, `HostRepairs`,
`QueueFlushed` and `StatusSettles`. `WireGuard` has only such a property.

## Where the code and its comments disagree

Met while modelling; `control_guard` has a run, the others are stated in the
order of the modules.

* A holder's staleness is tested, and the holder removed later
  (`registration.rs:484`); a heartbeat in between does not save it, although
  `registration.rs:449-453` says a current holder "is NOT evicted".
* A departure takes no lock. One that falls between the insert of a join into the
  roster and the insert into the index (`apply.rs:93-96`) leaves a key that leads to
  no entry: nobody removes it before a restart, and `refresh_existing` answers every
  later register of the key with 404 (`registration.rs:320`). `PubkeyIndexed` says
  that this is the only way to such a key.
* Saves take no lock (`roster/coordinator/mod.rs:567`): the older of two
  collections may be renamed last and stays until the next membership change
  (`store.rs:17-18`: "one entry per LIVE peer, rewritten on each membership
  change").
* The third sequential address of block 0 is the legacy registry address
  (`allocator.rs:87`), which the contract's `ula.rs:3-5` says the coordinator
  "refuses to GRANT" without a capability.
* The command queue is emptied into a response that may be lost
  (`command_queue.rs:53`); `roster/coordinator/mod.rs:214-216` says commands are
  "removed once the node acks them".
* The nonce file is rewritten in place (`command_gate.rs:62`): a crash after the
  truncation loses every executed nonce, and commands that were on file may run
  again; `command_gate.rs:44-46` says that a missed write "only risks one re-exec".
* After a fresh join the re-registration requests no address
  (`joiner.rs:1175`), and the one it is given is not put on the TUN device;
  `joiner.rs:1160-1162` says it preserves the address.
* A peer that moves to another address under the same key gets a new session;
  removing the old one removes the key's alias (`table.rs:866`) although the
  new one owns it, and relayed frames are dropped until the session is rebuilt.
  `relay/client.rs:468-473` takes such drops for a transient of a rekey.
* A joiner probes only when it has received nothing for a window
  (`table.rs:187`). Of two idle peers the one whose probes always arrive just
  before the other's fall due keeps the other quiet, hears nothing itself and
  passes the silence threshold; `table.rs:117-120` says that every node probes,
  "phase-independently". So no property says that an idle data plane is healthy.
  An idle direct path that was confirmed flaps between direct and relay.
* One-way traffic never lets the sending end confirm the direct path: it is
  data received that confirms. `Upgrades` is about data in both directions.
* `checked_shl` refuses only a shift of 64 or more (`holepunch.rs:100`), so the
  cooldown of a long streak is zero or negative before it saturates
  (`holepunch.rs:94-96`: "the shift never overflows"). `EmitsSpaced` holds up to
  that streak. A pair's lifetime equals the cooldown's cap, so a pair may be
  reaped as it becomes due.
* A mapping found by STUN is written into `config.advertise_endpoint`
  (`joiner.rs:227`) and stored as an operator's endpoint, which does not roam;
  `reflexive.rs:231` says a stored literal can only come from the operator.
* `api/dto.rs:206` calls the register response's roster a snapshot "including
  the newly-registered peer"; the handler filters it out.
* `validate.rs:38` says only join tokens are admitted; a blank kind is too.
* A failing save of the reboot history is only logged (`host_sink.rs:94`), so
  reboots are then not "capped at ≤3/hour" (`host_sink.rs:10`); `RebootsCapped`
  counts those the guard could record.
* `leave` detaches a task that hangs for two seconds; its comment
  (`joiner.rs:574-576`) says it is aborted. It deregisters before the tasks stop,
  so a heartbeat under way may register the joiner again (`joiner.rs:561`).
* The trust rule is deleted by the index it was listed at (`firewall.rs:169`),
  which another joiner's insertion shifts: `LeftClean` is about a leave without
  such a change, and `HostRepairs` about what the loops then restore.
* A connection opened to a peer's earlier address may enter the pool after the
  pool was cleared (`loopback.rs:217`): `PoolFollowsPeer` excepts it.
* Daemons that share a home share the temporary file of the status file, so
  what `status_file.rs:59` calls an atomic write may publish a torn file until
  the next refresh; `StatusSettles` says it is repaired. `tabbify-mesh leave`
  after a re-registration deregisters the id in the file, which is dead.

## Not modelled

* Cryptography (tokens, signatures, WireGuard's packets) and TLS: only their
  outcomes appear.
* Packet contents and batching in the data-plane loops, the framing and the
  system calls of TUN devices, what the operating system does with routes and
  firewall rules.
* HTTP routing and the API description; the command line's parsing, the
  certificates it makes and its one-shot requests; logging.
* The schedule of a hole punch's burst (a punch is one probe), and hosting an
  app's address by hand on a joiner; a status file whose rename fails for
  another reason than a missing temporary file.
* How the auth service verifies a token: it is outside the repository.
