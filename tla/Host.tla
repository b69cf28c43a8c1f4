-------------------------------- MODULE Host --------------------------------
(***************************************************************************)
(* What a joiner does to the machine it runs on: the identity file, the    *)
(* TUN device, the trust rule in the firewall's INPUT chain, the source-   *)
(* scoped policy rule with its private table of peer routes, the two       *)
(* loops that re-assert them, the orderly leave, and the reboot guard.     *)
(*                                                                         *)
(* Several joiners may share the host (the primary and the lifeline), so   *)
(* the chain and the policy rules are shared.  Every external command      *)
(* (`ip`, `ip6tables`) is a step of its own.  Both firewall families run   *)
(* the same code on chains of their own; one is modelled.  The device, the *)
(* chain entry, the policy rule and the table are all named after the      *)
(* joiner's address, so the address stands for each name.                  *)
(*                                                                         *)
(* What register and deregister do at the coordinator is module Roster.    *)
(***************************************************************************)
EXTENDS Naturals, Sequences, FiniteSets, Functions

CONSTANTS
  Joiners,       \* the joiners installed on the host
  Scoped,        \* those with source_scoped_routes
  Trusting,      \* those with manage_firewall
  Commanded,     \* those with a super-admin key, whose sink can reboot the host
  Visible,       \* the remote peers each joiner's roster can show
  Distro,        \* the distribution's own entry in the INPUT chain
  None, Torn,    \* no identity file; one that does not parse
  MaxPerWindow,  \* reboots the guard allows in a window
  Window,        \* its length, in ticks
  MaxStarts,     \* bound: starts, of all joiners together
  MaxUpsets      \* bound: failing steps, reloads, roster changes, kills, power
                 \* cuts and reboots

Address == [of : Joiners, key : Nat, moved : BOOLEAN]

ASSUME HostAssumption ==
  /\ Distro \notin Address
  /\ None # Torn /\ {None, Torn} \cap [key : Nat, ula : Address] = {}
  /\ MaxPerWindow \in Nat /\ Window \in Nat /\ MaxStarts \in Nat /\ MaxUpsets \in Nat

VARIABLES
  file,     \* identity file of each joiner
  history,  \* the reboot guard's file: the recorded reboots, by number
  dev,      \* addresses whose TUN device exists
  chain,    \* INPUT chain: addresses (their trust rules) and Distro
  rules,    \* policy rules by address; identical ones stack
  routes,   \* <<address, peer>>: peer routed in the address's table
  proc,     \* the process of each joiner
  reboots,  \* the reboots done, by number: age, and whether the guard recorded it
  minted,   \* number of keys generated
  left      \* what is left of each bound

disk == <<file, history>>
kernel == <<dev, chain, rules, routes>>
ghosts == <<reboots, minted>>
vars == <<disk, kernel, proc, ghosts, left>>

Spend(b) == left[b] > 0 /\ left' = [left EXCEPT ![b] = @ - 1]

\* A step succeeds, or fails as one of the bounded upsets.
Outcome(ok) == IF ok THEN UNCHANGED left ELSE Spend("upsets")

Down == [pc |-> "down", ula |-> None, index |-> 0,
         trust |-> "off",                     \* trust_loop
         scope |-> "off", todo |-> {},        \* source_scope_reassert_loop
         sess |-> {}, jobs |-> {},            \* sessions; route commands spawned
         disturbed |-> FALSE]                 \* the leave met a failure, a hung task
                                              \* or a shifted index

Init ==
  /\ file = [j \in Joiners |-> None] /\ history = {}
  /\ dev = {} /\ chain = <<Distro>> /\ rules = <<>> /\ routes = {}
  /\ proc = [j \in Joiners |-> Down]
  /\ reboots = <<>> /\ minted = 0
  /\ left = [starts |-> MaxStarts, upsets |-> MaxUpsets]

Ula(j) == proc[j].ula

\* Where x is first in a list, 0 if it is not.
FirstIndex(s, x) ==
  IF x \in Range(s) THEN CHOOSE i \in DOMAIN s : s[i] = x /\ \A k \in 1..(i - 1) : s[k] # x
                    ELSE 0

\* The list without its entry at index i.
Delete(s, i) == SubSeq(s, 1, i - 1) \o SubSeq(s, i + 1, Len(s))

\* The chain's entry of an address: its index, 0 if there is none.
FindRuleIndex(u) == FirstIndex(chain, u)
Trusted(u) == FindRuleIndex(u) > 0

Ruled(u) == u \in Range(rules)

\* The list without its first x, and as it is when there is none.
WithoutFirst(s, x) ==
  IF x \in Range(s) THEN Delete(s, FirstIndex(s, x)) ELSE s

\* `ip -6 rule add` stacks identical rules, so one is deleted first.
InstallSourceRule(s, u) == Append(WithoutFirst(s, u), u)

\* Peer routes of an address: a replace and a delete that tolerates absence, both on the
\* address's device, and the flush of its table.
AddPeerRoute(u, p) == IF u \in dev THEN routes \cup {<<u, p>>} ELSE routes
DelPeerRoute(u, p) == routes \ {<<u, p>>}
FlushTable(u) == {r \in routes : r[1] # u}

\* The route sink spawns one command per session added, and one per session removed.
AddAllowed(peers) == {"add"} \X peers
RemoveAllowed(peers) == {"del"} \X peers

At(j, pc) == proc[j].pc = pc
Goto(j, pc) == proc' = [proc EXCEPT ![j].pc = pc]

\* The process of j is gone: its device goes with it, and the routes through it.
Gone(j) ==
  /\ proc' = [proc EXCEPT ![j] = Down]
  /\ dev' = dev \ {Ula(j)}
  /\ routes' = FlushTable(Ula(j))
  /\ UNCHANGED <<chain, rules>>

\* `ip6tables -I INPUT 1`.  An index another joiner resolved no longer fits the chain.
InsertAtTop(j, p) ==
  /\ chain' = <<Ula(j)>> \o chain
  /\ proc' = [i \in Joiners |->
       IF i = j THEN p
       ELSE IF At(i, "untrust_delete") THEN [proc[i] EXCEPT !.disturbed = TRUE] ELSE proc[i]]

-----------------------------------------------------------------------------
(* Joining.                                                                *)

\* load_or_fresh: a file that does not parse is moved out of the way.
Loaded(j) == IF file[j] = Torn THEN None ELSE file[j]

\* resolve_identity takes the key of the identity file or generates one.
ResolveIdentity(j) == IF Loaded(j) = None THEN minted + 1 ELSE file[j].key

\* store, through a temporary file and a rename.
Store(j, u) == file' = [file EXCEPT ![j] = [key |-> u.key, ula |-> u]]

\* The coordinator grants the address asked for; for one that was persisted and not
\* configured, the 409 fallback accepts another.
Register(j) ==
  /\ At(j, "down") /\ left["starts"] > 0
  /\ \E moved \in BOOLEAN :
       /\ moved => Loaded(j) # None /\ left["upsets"] > 0
       /\ left' = [left EXCEPT !["starts"] = @ - 1, !["upsets"] = IF moved THEN @ - 1 ELSE @]
       /\ proc' = [proc EXCEPT ![j] = [Down EXCEPT !.pc = "persist",
                     !.ula = [of |-> j, key |-> ResolveIdentity(j), moved |-> moved]]]
  /\ minted' = IF Loaded(j) = None THEN minted + 1 ELSE minted
  /\ file' = [file EXCEPT ![j] = Loaded(j)]
  /\ UNCHANGED <<history, kernel, reboots>>

\* Variant: a fresh identity is not written before the host is touched.
PersistNothing(j) ==
  /\ At(j, "persist") /\ Goto(j, "open") /\ UNCHANGED <<disk, kernel, ghosts, left>>

\* persist_identity_if_fresh.
Persist(j) ==
  /\ At(j, "persist")
  /\ IF file[j] = None THEN Store(j, Ula(j)) ELSE UNCHANGED file
  /\ Goto(j, "open")
  /\ UNCHANGED <<history, kernel, ghosts, left>>

\* The TUN device, created and given its address and link.
OpenImpl(u) == dev' = dev \cup {u}

\* open_tun_device and assign_ula, where "already assigned" counts as success; then
\* install_source_rule: one delete that tolerates absence, and one add.
OpenTun(j) ==
  /\ At(j, "open") /\ OpenImpl(Ula(j))
  /\ rules' = IF j \in Scoped THEN InstallSourceRule(rules, Ula(j)) ELSE rules
  /\ Goto(j, "trust_list")
  /\ UNCHANGED <<disk, chain, routes, ghosts, left>>

\* A step of the join returns an error and the process ends.  When it is the add of the
\* policy rule, the delete has been done.
JoinFails(j) ==
  /\ proc[j].pc \in {"persist", "open"} /\ Spend("upsets")
  /\ proc' = [proc EXCEPT ![j] = Down]
  /\ rules' \in {rules} \cup {WithoutFirst(rules, Ula(i)) : i \in {j} \cap Scoped}
  /\ UNCHANGED <<disk, dev, chain, routes, ghosts>>

\* ensure_tun_trust of setup_host_integration: is the entry listed?
EnsureTrust(j) ==
  /\ At(j, "trust_list")
  /\ Goto(j, IF j \in Trusting /\ ~Trusted(Ula(j)) THEN "trust_insert" ELSE "seed")
  /\ UNCHANGED <<disk, kernel, ghosts, left>>

\* A failed insert is logged and the join goes on.
InsertTrust(j) ==
  /\ At(j, "trust_insert")
  /\ \/ InsertAtTop(j, [proc[j] EXCEPT !.pc = "seed"]) /\ UNCHANGED left
     \/ Spend("upsets") /\ Goto(j, "seed") /\ UNCHANGED chain
  /\ UNCHANGED <<disk, dev, rules, routes, ghosts>>

\* The loops a configuration asks for, waiting for their first tick.
SpawnLoops(j, p) == [p EXCEPT !.trust = IF j \in Trusting THEN "idle" ELSE "off",
                              !.scope = IF j \in Scoped THEN "idle" ELSE "off"]

\* seed_initial_roster, then the background tasks start.
Seed(j) ==
  /\ At(j, "seed")
  /\ \E seen \in SUBSET Visible[j] :
       proc' = [proc EXCEPT ![j] = SpawnLoops(j,
                  [@ EXCEPT !.pc = "up", !.sess = seen, !.jobs = AddAllowed(seen)])]
  /\ UNCHANGED <<disk, kernel, ghosts, left>>

-----------------------------------------------------------------------------
(* Running: sessions, route commands and the two re-assert loops.          *)

\* A heartbeat refreshes every session of the roster and prunes the others.  Each upsert
\* and each removal spawns a route command of its own.
Heartbeat(j) ==
  /\ At(j, "up")
  /\ \E seen \in SUBSET Visible[j] :
       /\ IF seen = proc[j].sess THEN UNCHANGED left ELSE Spend("upsets")
       /\ proc' = [proc EXCEPT ![j].sess = seen, ![j].jobs =
                     @ \cup AddAllowed(seen) \cup RemoveAllowed(proc[j].sess \ seen)]
  /\ UNCHANGED <<disk, kernel, ghosts>>

\* A spawned add or delete of a peer route, in any order; the device must still exist.
RouteCommand(j, op, p) ==
  /\ <<op, p>> \in proc[j].jobs
  /\ proc' = [proc EXCEPT ![j].jobs = @ \ {<<op, p>>}]
  /\ \E ok \in BOOLEAN :
       /\ Outcome(ok)
       /\ routes' = CASE ~ok -> routes
                      [] op = "add" -> AddPeerRoute(Ula(j), p)
                      [] OTHER -> DelPeerRoute(Ula(j), p)
  /\ UNCHANGED <<disk, dev, chain, rules, ghosts>>

\* trust_loop, one tick: a listing without the entry, then the insert.
TrustTick(j) ==
  /\ proc[j].trust = "idle" /\ ~Trusted(Ula(j))
  /\ proc' = [proc EXCEPT ![j].trust = "insert"]
  /\ UNCHANGED <<disk, kernel, ghosts, left>>

TrustInsert(j) ==
  /\ proc[j].trust = "insert"
  /\ \/ InsertAtTop(j, [proc[j] EXCEPT !.trust = "idle"]) /\ UNCHANGED left
     \/ Spend("upsets") /\ proc' = [proc EXCEPT ![j].trust = "idle"] /\ UNCHANGED chain
  /\ UNCHANGED <<disk, dev, rules, routes, ghosts>>

\* Variant: a tick replaces the routes and takes the rule for granted.
ScopeTickRoutesOnly(j) ==
  /\ proc[j].scope = "idle"
  /\ proc' = [proc EXCEPT ![j].scope = "routes", ![j].todo = proc[j].sess]
  /\ UNCHANGED <<disk, kernel, ghosts, left>>

\* source_scope_reassert_loop, one tick: is the rule listed (a failed listing counts as
\* present)?  It is reinstalled if not; then the route of every session is replaced.
ScopeTick(j) ==
  /\ proc[j].scope = "idle"
  /\ \E listed \in BOOLEAN :
       /\ Outcome(listed)
       /\ proc' = IF listed /\ ~Ruled(Ula(j))
                    THEN [proc EXCEPT ![j].scope = "install"]
                    ELSE [proc EXCEPT ![j].scope = "routes", ![j].todo = proc[j].sess]
  /\ UNCHANGED <<disk, kernel, ghosts>>

\* install_source_rule again; the loop goes on when the add fails.
ScopeInstall(j) ==
  /\ proc[j].scope = "install"
  /\ \E ok \in BOOLEAN :
       /\ Outcome(ok)
       /\ rules' = IF ok THEN InstallSourceRule(rules, Ula(j))
                         ELSE WithoutFirst(rules, Ula(j))
  /\ proc' = [proc EXCEPT ![j].scope = "routes", ![j].todo = proc[j].sess]
  /\ UNCHANGED <<disk, dev, chain, routes, ghosts>>

ScopeRoute(j) ==
  /\ proc[j].scope = "routes"
  /\ IF proc[j].todo = {}
       THEN proc' = [proc EXCEPT ![j].scope = "idle"] /\ UNCHANGED <<routes, left>>
       ELSE \E p \in proc[j].todo, ok \in BOOLEAN :
              /\ Outcome(ok)
              /\ proc' = [proc EXCEPT ![j].todo = @ \ {p}]
              /\ routes' = IF ok THEN AddPeerRoute(Ula(j), p) ELSE routes
  /\ UNCHANGED <<disk, dev, chain, rules, ghosts>>

-----------------------------------------------------------------------------
(* Leaving.                                                                *)

\* leave: deregister, and tell the tasks to stop.
Leave(j) ==
  At(j, "up") /\ Goto(j, "stopping") /\ UNCHANGED <<disk, kernel, ghosts, left>>

\* A loop sees the shutdown between two ticks.
LoopsStop(j) ==
  /\ ~At(j, "up")
  /\ \/ proc[j].trust = "idle" /\ proc' = [proc EXCEPT ![j].trust = "off"]
     \/ proc[j].scope = "idle" /\ proc' = [proc EXCEPT ![j].scope = "off"]
  /\ UNCHANGED <<disk, kernel, ghosts, left>>

\* Variant: the tasks are told to stop and not awaited.
AwaitNothing(j) ==
  /\ At(j, "stopping")
  /\ proc' = [proc EXCEPT ![j].pc = "untrust_list",
                ![j].sess = {}, ![j].jobs = @ \cup RemoveAllowed(proc[j].sess)]
  /\ UNCHANGED <<disk, kernel, ghosts, left>>

\* Every task is awaited, for two seconds; one that hangs is let go, not aborted.  Then
\* sessions.clear() spawns the removal of every route.
AwaitTasks(j) ==
  /\ At(j, "stopping")
  /\ LET stopped == proc[j].trust = "off" /\ proc[j].scope = "off" IN
     /\ Outcome(stopped)
     /\ proc' = [proc EXCEPT ![j].pc = "untrust_list", ![j].disturbed = ~stopped,
                   ![j].sess = {}, ![j].jobs = @ \cup RemoveAllowed(proc[j].sess)]
  /\ UNCHANGED <<disk, kernel, ghosts>>

\* remove_tun_trust: the index of the entry, from a listing...
UntrustList(j) ==
  /\ At(j, "untrust_list")
  /\ proc' = IF j \in Trusting /\ Trusted(Ula(j))
       THEN [proc EXCEPT ![j].pc = "untrust_delete",
               ![j].index = FindRuleIndex(Ula(j))]
       ELSE [proc EXCEPT ![j].pc = "unrule"]
  /\ UNCHANGED <<disk, kernel, ghosts, left>>

\* ... and the delete of whatever is at that index now.
UntrustDelete(j) ==
  /\ At(j, "untrust_delete")
  /\ \E ok \in BOOLEAN :
       /\ Outcome(ok)
       /\ chain' = IF ok /\ proc[j].index <= Len(chain) THEN Delete(chain, proc[j].index)
                                                        ELSE chain
       /\ proc' = [i \in Joiners |->
            IF i = j THEN [proc[j] EXCEPT !.pc = "unrule", !.index = 0,
                                          !.disturbed = @ \/ ~ok]
            ELSE IF At(i, "untrust_delete") THEN [proc[i] EXCEPT !.disturbed = TRUE]
            ELSE proc[i]]
  /\ UNCHANGED <<disk, dev, rules, routes, ghosts>>

\* remove_source_rule deletes the rule, best effort, and flushes the table; the device is
\* dropped last, which takes its routes with it.
DropTun(j) ==
  /\ At(j, "unrule")
  /\ \E ok \in BOOLEAN :
       /\ ~ok => j \in Scoped
       /\ Outcome(ok)
       /\ rules' = IF ok /\ j \in Scoped THEN WithoutFirst(rules, Ula(j)) ELSE rules
       /\ proc' = [proc EXCEPT ![j].pc = "left", ![j].disturbed = @ \/ ~ok]
  /\ routes' = FlushTable(Ula(j))
  /\ dev' = dev \ {Ula(j)}
  /\ UNCHANGED <<disk, chain, ghosts>>

\* The process ends after the leave...
Finish(j) ==
  At(j, "left") /\ Gone(j) /\ UNCHANGED <<disk, ghosts, left>>

\* ... or is killed at any point before; its children go with it.
Kill(j) ==
  ~At(j, "down") /\ Spend("upsets") /\ Gone(j) /\ UNCHANGED <<disk, ghosts>>

-----------------------------------------------------------------------------
(* The host: reloads, power cuts, and reboots on command.                  *)

\* A firewall reload drops the joiners' entries; a network reload the policy rules.
Reload ==
  /\ Spend("upsets")
  /\ \/ /\ chain' = <<Distro>>
        /\ proc' = [j \in Joiners |->
                      [proc[j] EXCEPT !.disturbed = @ \/ At(j, "untrust_delete")]]
        /\ UNCHANGED rules
     \/ rules' = <<>> /\ UNCHANGED <<chain, proc>>
  /\ UNCHANGED <<disk, dev, routes, ghosts>>

HostDown ==
  /\ proc' = [j \in Joiners |-> Down]
  /\ dev' = {} /\ chain' = <<Distro>> /\ rules' = <<>> /\ routes' = {}

\* Neither the identity nor the history is synced: a power cut may tear what was written.
PowerCut ==
  /\ Spend("upsets") /\ HostDown
  /\ \E torn \in SUBSET {j \in Joiners : file[j] # None} :
       file' = [j \in Joiners |-> IF j \in torn THEN Torn ELSE file[j]]
  /\ history' \in {history, {}}
  /\ reboots' = IF history' = history THEN reboots
                 ELSE [i \in DOMAIN reboots |-> [reboots[i] EXCEPT !.recorded = FALSE]]
  /\ UNCHANGED minted

\* Variant: a reboot exactly a window old no longer counts.
RecentExclusive(h) == {i \in h : reboots[i].age < Window}

Recent(h) == {i \in h : reboots[i].age <= Window}

\* Saving the history may fail, which is no more than logged.
Save(h, saved) == history' = IF saved THEN h ELSE history

\* try_reboot: a history at its limit is saved and refuses the reboot; below it, the reboot
\* is recorded and goes on.
TryReboot(recent) ==
  \E saved \in BOOLEAN :
    IF Cardinality(recent) >= MaxPerWindow
      THEN Save(recent, saved) /\ UNCHANGED <<kernel, proc, reboots>>
      ELSE /\ Save(recent \cup {Len(reboots) + 1}, saved)
           /\ reboots' = Append(reboots, [age |-> 0, recorded |-> saved])
           /\ HostDown

\* reboot_host of the command sink, through the guard.
RebootHost(j) ==
  /\ j \in Commanded /\ At(j, "up") /\ Spend("upsets")
  /\ TryReboot(Recent(history))
  /\ UNCHANGED <<file, minted>>

\* Time passes; an age beyond the window stays just beyond it.
Tick ==
  /\ reboots # <<>>
  /\ reboots' = [i \in DOMAIN reboots |->
                   [reboots[i] EXCEPT !.age = IF @ > Window THEN @ ELSE @ + 1]]
  /\ UNCHANGED <<disk, kernel, proc, minted, left>>

Next ==
  \/ \E j \in Joiners :
       \/ Register(j) \/ Persist(j) \/ OpenTun(j) \/ JoinFails(j)
       \/ EnsureTrust(j) \/ InsertTrust(j) \/ Seed(j)
       \/ Heartbeat(j) \/ TrustTick(j) \/ TrustInsert(j)
       \/ \E op \in {"add", "del"}, p \in Visible[j] : RouteCommand(j, op, p)
       \/ ScopeTick(j) \/ ScopeInstall(j) \/ ScopeRoute(j)
       \/ Leave(j) \/ LoopsStop(j) \/ AwaitTasks(j) \/ UntrustList(j) \/ UntrustDelete(j)
       \/ DropTun(j) \/ Finish(j) \/ Kill(j) \/ RebootHost(j)
  \/ Reload \/ PowerCut \/ Tick

\* The loops tick every minute, heartbeats every few seconds, spawned commands run.
Fairness ==
  /\ \A j \in Joiners :
       /\ WF_vars(Heartbeat(j))
       /\ \A op \in {"add", "del"}, p \in Visible[j] : WF_vars(RouteCommand(j, op, p))
  /\ \A j \in Trusting : WF_vars(TrustTick(j) \/ TrustInsert(j))
  /\ \A j \in Scoped : WF_vars(ScopeTick(j) \/ ScopeInstall(j) \/ ScopeRoute(j))

Spec == Init /\ [][Next]_vars /\ Fairness

-----------------------------------------------------------------------------
(* Properties.                                                             *)

\* A leave that met no failure, no hung task and no concurrent change of the chain removes
\* all that would outlive the device: the trust rule, the policy rule and the table of
\* this address, whatever earlier incarnations of the joiner left behind.
LeftClean ==
  \A j \in Joiners : At(j, "left") /\ ~proc[j].disturbed =>
    ~Trusted(Ula(j)) /\ ~Ruled(Ula(j)) /\ \A r \in routes : r[1] # Ula(j)

\* What a killed joiner leaves on the host carries the name of an address its identity
\* file still holds, so that the next start adopts it, unless the coordinator granted
\* another address than the one asked for or the file was torn.
LeaksReadopted ==
  \A u \in (Range(chain) \ {Distro}) \cup Range(rules) :
    u.moved \/ file[u.of] = Torn \/ (file[u.of] # None /\ file[u.of].ula = u)

\* No more recorded reboots lie within one window than the guard allows, over restarts of
\* the joiner and of the host.
RebootsCapped ==
  Cardinality({i \in DOMAIN reboots : reboots[i].recorded /\ reboots[i].age <= Window})
    <= MaxPerWindow

\* On a joiner that stays up, the trust rule, the policy rule and the route of every
\* session come back for good after the last reload, the last neighbour that deleted the
\* wrong index and the last pair of route commands that ran in the wrong order.
HostRepairs ==
  \A j \in Joiners :
    <>[]At(j, "up") => <>[](/\ j \in Trusting => Trusted(Ula(j))
                            /\ j \in Scoped => Ruled(Ula(j))
                            /\ \A p \in proc[j].sess : <<Ula(j), p>> \in routes)
=============================================================================
