----------------------------- MODULE HostProofs -----------------------------
(***************************************************************************)
(* What the joiners of a host leave on it, and how often it is rebooted.   *)
(***************************************************************************)
EXTENDS Host, FiniteSetTheorems, TLAPS

-----------------------------------------------------------------------------
(* Lists without repetition.                                               *)

\* In a list without repetition, FirstIndex finds the one place of an entry.
LEMMA FirstFound ==
  ASSUME NEW T, NEW s \in Seq(T), IsInjective(s), NEW u
  PROVE  /\ u \in Range(s) => FirstIndex(s, u) \in 1..Len(s) /\ s[FirstIndex(s, u)] = u
         /\ u \notin Range(s) => FirstIndex(s, u) = 0
  <1>1. CASE u \notin Range(s)
    BY Zenon, <1>1 DEF FirstIndex
  <1>2. CASE u \in Range(s)
    <2>1. PICK k \in 1..Len(s) : s[k] = u
      BY <1>2 DEF Range
    <2>2. \A i \in 1..(k - 1) : s[i] # u
      BY <2>1 DEF IsInjective
    <2>3. \E i \in DOMAIN s : s[i] = u /\ \A n \in 1..(i - 1) : s[n] # u
      BY <2>1, <2>2
    <2> QED BY <1>2, <2>3 DEF FirstIndex
  <1> QED BY Zenon, <1>1, <1>2

\* `ip6tables -D INPUT n` takes out the entry at n and leaves the others in their order.
LEMMA Removed ==
  ASSUME NEW T, NEW s \in Seq(T), IsInjective(s), NEW k \in 1..Len(s)
  PROVE  /\ Delete(s, k) \in Seq(T)
         /\ IsInjective(Delete(s, k))
         /\ Range(Delete(s, k)) = Range(s) \ {s[k]}
  <1> DEFINE t == Delete(s, k)
  <1>1. /\ t \in Seq(T) /\ Len(t) = Len(s) - 1
        /\ \A i \in 1..Len(t) : t[i] = IF i < k THEN s[i] ELSE s[i + 1]
    <2> DEFINE a == SubSeq(s, 1, k - 1)
               b == SubSeq(s, k + 1, Len(s))
    <2>1. a \in Seq(T) /\ Len(a) = k - 1 /\ \A i \in 1..Len(a) : a[i] = s[i]
      OBVIOUS
    <2>2. b \in Seq(T) /\ Len(b) = Len(s) - k /\ \A i \in 1..Len(b) : b[i] = s[k + i]
      OBVIOUS
    <2>3. t = a \o b
      BY Zenon DEF Delete
    <2> HIDE DEF a, b, t
    <2>4. t \in Seq(T) /\ Len(t) = Len(s) - 1
      BY <2>1, <2>2, <2>3
    <2>5. ASSUME NEW i \in 1..Len(t) PROVE t[i] = IF i < k THEN s[i] ELSE s[i + 1]
      <3>1. CASE i < k
        BY <2>1, <2>2, <2>3, <3>1
      <3>2. CASE ~(i < k)
        <4>1. t[i] = b[i - (k - 1)] /\ i - (k - 1) \in 1..Len(b)
          BY <2>1, <2>2, <2>3, <2>4, <3>2
        <4>2. k + (i - (k - 1)) = i + 1
          BY <2>4
        <4> QED BY Zenon, <2>2, <3>2, <4>1, <4>2
      <3> QED BY Zenon, <3>1, <3>2
    <2> QED BY Zenon, <2>4, <2>5
  <1> HIDE DEF t
  <1>2. IsInjective(t)
    <2> SUFFICES ASSUME NEW a \in 1..Len(t), NEW b \in 1..Len(t), t[a] = t[b] PROVE a = b
      BY <1>1 DEF IsInjective
    <2> DEFINE From(i) == IF i < k THEN i ELSE i + 1
    <2>1. From(a) \in 1..Len(s) /\ s[From(a)] = t[a]
      BY <1>1
    <2>2. From(b) \in 1..Len(s) /\ s[From(b)] = t[b]
      BY <1>1
    <2>3. From(a) = From(b)
      <3> HIDE DEF From
      <3> QED BY <2>1, <2>2 DEF IsInjective
    <2> QED BY <2>3
  <1>3. ASSUME NEW u \in Range(t) PROVE u \in Range(s) \ {s[k]}
    <2>1. PICK i \in 1..Len(t) : t[i] = u
      BY <1>1, <1>3 DEF Range
    <2>2. PICK n \in 1..Len(s) : s[n] = u /\ n # k
      BY <1>1, <2>1
    <2> QED BY <2>2 DEF Range, IsInjective
  <1>4. ASSUME NEW u \in Range(s) \ {s[k]} PROVE u \in Range(t)
    <2>1. PICK n \in 1..Len(s) : s[n] = u /\ n # k
      BY <1>4 DEF Range
    <2>2. PICK i \in 1..Len(t) : t[i] = u
      <3>1. CASE n < k
        BY <1>1, <2>1, <3>1
      <3>2. CASE n > k
        <4>1. n - 1 \in 1..Len(t) /\ ~(n - 1 < k) /\ (n - 1) + 1 = n
          BY <1>1, <2>1, <3>2
        <4> QED BY Zenon, <1>1, <2>1, <4>1
      <3> QED BY <2>1, <3>1, <3>2
    <2> QED BY <1>1, <2>2 DEF Range
  <1> QED BY Zenon, <1>1, <1>2, <1>3, <1>4 DEF t

\* `ip6tables -I INPUT 1` puts an entry that was not there before the others.
LEMMA Pushed ==
  ASSUME NEW T, NEW s \in Seq(T), IsInjective(s), NEW u \in T, u \notin Range(s)
  PROVE  /\ <<u>> \o s \in Seq(T)
         /\ IsInjective(<<u>> \o s)
         /\ Range(<<u>> \o s) = Range(s) \cup {u}
  <1> DEFINE t == <<u>> \o s
  <1>1. /\ t \in Seq(T) /\ Len(t) = Len(s) + 1
        /\ \A i \in 1..Len(t) : t[i] = IF i = 1 THEN u ELSE s[i - 1]
    OBVIOUS
  <1> HIDE DEF t
  <1>2. \A i \in 1..Len(s) : s[i] # u
    BY DEF Range
  <1>3. IsInjective(t)
    <2> SUFFICES ASSUME NEW a \in 1..Len(t), NEW b \in 1..Len(t), t[a] = t[b] PROVE a = b
      BY <1>1 DEF IsInjective
    <2>1. CASE a = 1
      BY <1>1, <1>2, <2>1
    <2>2. CASE b = 1
      BY <1>1, <1>2, <2>2
    <2>3. CASE a # 1 /\ b # 1
      <3>1. a - 1 \in 1..Len(s) /\ b - 1 \in 1..Len(s) /\ s[a - 1] = s[b - 1]
        BY <1>1, <2>3
      <3>2. a - 1 = b - 1
        BY <3>1 DEF IsInjective
      <3> QED BY <3>2
    <2> QED BY Zenon, <2>1, <2>2, <2>3
  <1>4. ASSUME NEW v \in Range(t) PROVE v \in Range(s) \cup {u}
    <2>1. PICK i \in 1..Len(t) : t[i] = v
      BY <1>1, <1>4 DEF Range
    <2> QED BY <1>1, <2>1 DEF Range
  <1>5. u \in Range(t)
    <2>1. 1 \in 1..Len(t) /\ t[1] = u
      BY <1>1
    <2> QED BY <1>1, <2>1 DEF Range
  <1>6. ASSUME NEW v \in Range(s) PROVE v \in Range(t)
    <2>1. PICK n \in 1..Len(s) : s[n] = v
      BY <1>6 DEF Range
    <2>2. n + 1 \in 1..Len(t) /\ t[n + 1] = v
      BY <1>1, <2>1
    <2> QED BY <1>1, <2>2 DEF Range
  <1> QED BY Zenon, <1>1, <1>3, <1>4, <1>5, <1>6 DEF t

\* del_source_rule_tolerant: the list without an entry, whether or not it was there.
LEMMA Without ==
  ASSUME NEW T, NEW s \in Seq(T), IsInjective(s), NEW u
  PROVE  /\ WithoutFirst(s, u) \in Seq(T)
         /\ IsInjective(WithoutFirst(s, u))
         /\ Range(WithoutFirst(s, u)) = Range(s) \ {u}
  <1>1. CASE u \in Range(s)
    BY <1>1, FirstFound, Removed DEF WithoutFirst
  <1>2. CASE u \notin Range(s)
    BY Zenon, <1>2 DEF WithoutFirst
  <1> QED BY Zenon, <1>1, <1>2

\* install_source_rule: the delete before the add keeps identical rules from stacking.
LEMMA Installed ==
  ASSUME NEW T, NEW s \in Seq(T), IsInjective(s), NEW u \in T
  PROVE  /\ InstallSourceRule(s, u) \in Seq(T)
         /\ IsInjective(InstallSourceRule(s, u))
         /\ Range(InstallSourceRule(s, u)) = Range(s) \cup {u}
  <1> PICK w : w = WithoutFirst(s, u)
    BY Zenon
  <1>1. w \in Seq(T) /\ IsInjective(w) /\ Range(w) = Range(s) \ {u}
    BY Zenon, Without
  <1> DEFINE t == Append(w, u)
  <1>2. /\ t \in Seq(T) /\ Len(t) = Len(w) + 1
        /\ \A i \in 1..Len(w) : t[i] = w[i]
        /\ t[Len(t)] = u
    BY <1>1
  <1> HIDE DEF t
  <1>3. \A i \in 1..Len(w) : w[i] # u
    BY <1>1 DEF Range
  <1>4. IsInjective(t)
    BY SMTT(30), <1>1, <1>2, <1>3 DEF IsInjective
  <1>5. ASSUME NEW v \in Range(t) PROVE v \in Range(w) \cup {u}
    <2>1. PICK i \in 1..Len(t) : t[i] = v
      BY <1>2, <1>5 DEF Range
    <2> QED BY <1>1, <1>2, <2>1 DEF Range
  <1>6. u \in Range(t)
    <2>1. Len(t) \in 1..Len(t)
      BY <1>1, <1>2
    <2> QED BY <1>2, <2>1 DEF Range
  <1>7. ASSUME NEW v \in Range(w) PROVE v \in Range(t)
    <2>1. PICK n \in 1..Len(w) : w[n] = v
      BY <1>1, <1>7 DEF Range
    <2>2. n \in 1..Len(t) /\ t[n] = v
      BY <1>1, <1>2, <2>1
    <2> QED BY <1>2, <2>2 DEF Range
  <1>8. Range(t) = Range(s) \cup {u}
    BY Zenon, <1>1, <1>5, <1>6, <1>7
  <1> QED BY Zenon, <1>2, <1>4, <1>8 DEF t, InstallSourceRule
-----------------------------------------------------------------------------
(* The inductive invariant.                                                *)

Identity == [key : Nat, ula : Address]

Joining == {"persist", "open", "trust_list", "trust_insert", "seed"}
Leaving == {"untrust_list", "untrust_delete", "unrule", "left"}

Seen == UNION {Visible[j] : j \in Joiners}

Process == [pc : {"down", "up", "stopping"} \cup Joining \cup Leaving,
            ula : Address \cup {None}, index : Nat,
            trust : {"off", "idle", "insert"},
            scope : {"off", "idle", "install", "routes"}, todo : SUBSET Seen,
            sess : SUBSET Seen, jobs : SUBSET ({"add", "del"} \X Seen),
            disturbed : BOOLEAN]

\* The address on the host is one that the identity file holds, or one granted instead.
Kept(u) == file[u.of] \in Identity /\ (u.moved \/ file[u.of].ula = u)

\* The chain and the policy rules: each entry once, and none of a joiner that has not
\* stored its identity.
ChainOk ==
  /\ chain \in Seq(Address \cup {Distro}) /\ IsInjective(chain)
  /\ \A u \in Range(chain) \ {Distro} : u.of \in Trusting /\ Kept(u)

RulesOk ==
  /\ rules \in Seq(Address) /\ IsInjective(rules)
  /\ \A u \in Range(rules) : u.of \in Scoped /\ Kept(u)

\* The identity file of j is the one of the address asked for.
FileOk(j) ==
  \/ file[j] \in {None, Torn}
  \/ /\ file[j] \in Identity
     /\ file[j].ula = [of |-> j, key |-> file[j].key, moved |-> FALSE]

\* The address of a running joiner, and the identity file it has read or written.
AddressOk(j) ==
  ~At(j, "down") =>
    /\ Ula(j) \in Address /\ Ula(j).of = j /\ file[j] # Torn
    /\ ~At(j, "persist") => file[j] # None
    /\ file[j] = None => ~Ula(j).moved
    /\ file[j] # None /\ ~Ula(j).moved => file[j].ula = Ula(j)

\* The loops run between the end of the join and the end of the wait in leave, unless one
\* hangs; an insert is for an entry that is not in the chain.
LoopsOk(j) ==
  /\ proc[j].pc \in {"down"} \cup Joining => proc[j].trust = "off" /\ proc[j].scope = "off"
  /\ proc[j].pc \in Leaving /\ ~proc[j].disturbed =>
       proc[j].trust = "off" /\ proc[j].scope = "off"
  /\ proc[j].trust # "off" \/ At(j, "trust_insert") => j \in Trusting
  /\ proc[j].scope # "off" => j \in Scoped
  /\ proc[j].trust = "insert" \/ At(j, "trust_insert") => Ula(j) \notin Range(chain)

\* How far an undisturbed leave has come.
LeaveOk(j) ==
  /\ At(j, "untrust_delete") => proc[j].index # 0
  /\ At(j, "untrust_delete") /\ ~proc[j].disturbed =>
       proc[j].index \in 1..Len(chain) /\ chain[proc[j].index] = Ula(j)
  /\ proc[j].pc \in {"unrule", "left"} /\ ~proc[j].disturbed => Ula(j) \notin Range(chain)
  /\ At(j, "left") /\ ~proc[j].disturbed => Ula(j) \notin Range(rules)
  /\ At(j, "left") => Ula(j) \notin dev /\ \A r \in routes : r[1] # Ula(j)

JoinerOk(j) == FileOk(j) /\ AddressOk(j) /\ LoopsOk(j) /\ LeaveOk(j)

HostInv ==
  /\ proc \in [Joiners -> Process] /\ DOMAIN file = Joiners /\ minted \in Nat
  /\ ChainOk /\ RulesOk
  /\ \A j \in Joiners : JoinerOk(j)

-----------------------------------------------------------------------------
(* What a step of one joiner leaves alone.                                 *)

\* Only the process of j moves.
Moves(j) ==
  /\ proc' \in [Joiners -> Process]
  /\ \A i \in Joiners \ {j} : proc'[i] = proc[i]

\* For a joiner that does not move itself: its file stays, its entries and routes are not
\* added by others, and its leave is marked when the chain shifts under it.
Unshaken(i) ==
  /\ file'[i] = file[i]
  /\ \/ proc'[i] = proc[i]
     \/ At(i, "untrust_delete") /\ proc'[i] = [proc[i] EXCEPT !.disturbed = TRUE]
  /\ ~At(i, "down") =>
       /\ Ula(i) \in Range(chain') => Ula(i) \in Range(chain)
       /\ At(i, "untrust_delete") => chain' = chain \/ proc'[i].disturbed
       /\ Ula(i) \in Range(rules') => Ula(i) \in Range(rules)
       /\ Ula(i) \in dev' => Ula(i) \in dev
       /\ \A r \in routes' : r[1] = Ula(i) => r \in routes \/ Ula(i) \in dev

\* A joiner that a step leaves unshaken keeps its part of the invariant.
LEMMA OthersOk ==
  ASSUME NEW i \in Joiners, proc[i] \in Process, JoinerOk(i), Unshaken(i)
  PROVE  JoinerOk(i)'
  <1>1. /\ proc'[i].pc = proc[i].pc /\ proc'[i].ula = proc[i].ula
        /\ proc'[i].index = proc[i].index /\ proc'[i].trust = proc[i].trust
        /\ proc'[i].scope = proc[i].scope
        /\ ~proc'[i].disturbed => ~proc[i].disturbed
    <2>1. CASE proc'[i] = proc[i]
      BY Zenon, <2>1
    <2>2. CASE proc'[i] = [proc[i] EXCEPT !.disturbed = TRUE]
      BY Zenon, <2>2 DEF Process
    <2> QED BY Zenon, <2>1, <2>2 DEF Unshaken
  <1>2. FileOk(i)'
    BY Zenon DEF Unshaken, JoinerOk, FileOk
  <1>3. AddressOk(i)'
    BY Zenon, <1>1 DEF Unshaken, JoinerOk, AddressOk, At, Ula
  <1>4. LoopsOk(i)'
    BY Zenon, <1>1 DEF Unshaken, JoinerOk, LoopsOk, At, Ula, Joining
  <1>5. LeaveOk(i)'
    BY Zenon, <1>1 DEF Unshaken, JoinerOk, LeaveOk, At, Ula
  <1> QED BY Zenon, <1>2, <1>3, <1>4, <1>5 DEF JoinerOk

\* Joiners on one host have addresses of their own.
LEMMA OwnAddress ==
  ASSUME HostInv, NEW i \in Joiners, NEW j \in Joiners, i # j, ~At(i, "down"), ~At(j, "down")
  PROVE  Ula(i) # Ula(j)
  BY Zenon DEF HostInv, JoinerOk, AddressOk

\* The invariant after a step of j.
LEMMA Settled ==
  ASSUME HostInv, NEW j \in Joiners, proc' \in [Joiners -> Process],
         DOMAIN file' = Joiners, minted' \in Nat,
         ChainOk', RulesOk', JoinerOk(j)', \A i \in Joiners \ {j} : Unshaken(i)
  PROVE  HostInv'
  <1>1. ASSUME NEW i \in Joiners \ {j} PROVE JoinerOk(i)'
    BY Zenon, <1>1, OthersOk DEF HostInv
  <1> QED BY Zenon, <1>1 DEF HostInv

\* Entries are judged by the identity files alone.
LEMMA SameEntries ==
  ASSUME HostInv, UNCHANGED file
  PROVE  /\ UNCHANGED chain => ChainOk'
         /\ UNCHANGED rules => RulesOk'
  BY Zenon DEF HostInv, ChainOk, RulesOk, Kept

\* A step of j that adds no device, entry or rule.
LEMMA QuietStep ==
  ASSUME HostInv, NEW j \in Joiners, Moves(j), UNCHANGED <<file, chain, rules, minted>>,
         dev' \subseteq dev, \A r \in routes' : r \in routes \/ r[1] \in dev, JoinerOk(j)'
  PROVE  HostInv'
  <1>1. ChainOk' /\ RulesOk'
    BY Zenon, SameEntries
  <1>2. \A i \in Joiners \ {j} : Unshaken(i)
    BY Zenon DEF Moves, Unshaken
  <1>3. proc' \in [Joiners -> Process] /\ DOMAIN file' = Joiners /\ minted' \in Nat
    BY Zenon DEF Moves, HostInv
  <1> QED BY Zenon, <1>1, <1>2, <1>3, Settled

-----------------------------------------------------------------------------
(* The steps of a joiner that touch no shared list.                        *)

\* What a step of j must show of its process to keep j's part of the invariant while the
\* identity file, the chain and the rules stay.
LEMMA SameJoiner ==
  ASSUME HostInv, NEW j \in Joiners, UNCHANGED <<file, chain, rules>>,
         ~At(j, "down"), proc'[j].ula = proc[j].ula,
         proc'[j].pc \notin {"down", "persist"}, ~At(j, "persist"),
         LoopsOk(j)', LeaveOk(j)'
  PROVE  JoinerOk(j)'
  <1>1. FileOk(j)'
    BY Zenon DEF HostInv, JoinerOk, FileOk
  <1>2. AddressOk(j)'
    BY Zenon DEF HostInv, JoinerOk, AddressOk, At, Ula
  <1> QED BY Zenon, <1>1, <1>2 DEF JoinerOk

\* The address of j changes in no field of its process but pc.
LEMMA GotoMoves ==
  ASSUME HostInv, NEW j \in Joiners,
         NEW pc \in {"down", "up", "stopping"} \cup Joining \cup Leaving, Goto(j, pc)
  PROVE  /\ Moves(j)
         /\ proc'[j].pc = pc /\ proc'[j].ula = proc[j].ula
         /\ proc'[j].index = proc[j].index /\ proc'[j].trust = proc[j].trust
         /\ proc'[j].scope = proc[j].scope /\ proc'[j].disturbed = proc[j].disturbed
  <1>1. proc[j] \in Process
    BY Zenon DEF HostInv
  <1>2. [proc[j] EXCEPT !.pc = pc] \in Process
    BY Zenon, <1>1 DEF Process
  <1>3. proc' = [proc EXCEPT ![j] = [proc[j] EXCEPT !.pc = pc]]
    BY Zenon DEF Goto
  <1>4. Moves(j) /\ proc'[j] = [proc[j] EXCEPT !.pc = pc]
    BY Zenon, <1>2, <1>3 DEF Moves, HostInv
  <1> QED BY Zenon, <1>1, <1>4 DEF Process

\* The listing of ensure_tun_trust.
LEMMA EnsureTrustKeeps ==
  ASSUME HostInv, NEW j \in Joiners, EnsureTrust(j)
  PROVE  HostInv'
  <1> DEFINE pc == IF j \in Trusting /\ ~Trusted(Ula(j)) THEN "trust_insert" ELSE "seed"
  <1>1. At(j, "trust_list") /\ Goto(j, pc) /\ UNCHANGED <<file, chain, rules, dev, routes, minted>>
    BY Zenon DEF EnsureTrust, disk, kernel, ghosts
  <1>2. pc \in Joining
    BY Zenon DEF Joining
  <1>3. pc = "trust_insert" => j \in Trusting /\ Ula(j) \notin Range(chain)
    <2>1. chain \in Seq(Address \cup {Distro}) /\ IsInjective(chain)
      BY Zenon DEF HostInv, ChainOk
    <2>2. Ula(j) \in Range(chain) => FindRuleIndex(Ula(j)) > 0
      BY <2>1, FirstFound DEF FindRuleIndex
    <2> QED BY Zenon, <2>2 DEF Trusted
  <1>4. pc # "persist" /\ pc # "down"
    BY Zenon
  <1> HIDE DEF pc
  <1>5. /\ Moves(j)
        /\ proc'[j].pc = pc /\ proc'[j].ula = proc[j].ula
        /\ proc'[j].trust = proc[j].trust /\ proc'[j].scope = proc[j].scope
    BY Zenon, <1>1, <1>2, GotoMoves
  <1>6. LoopsOk(j)
    BY Zenon DEF HostInv, JoinerOk
  <1>7. LoopsOk(j)'
    BY Zenon, <1>1, <1>2, <1>3, <1>5, <1>6 DEF LoopsOk, At, Ula, Joining, Leaving
  <1>8. LeaveOk(j)'
    BY Zenon, <1>2, <1>5 DEF LeaveOk, At, Joining
  <1>9. JoinerOk(j)'
    BY Zenon, <1>1, <1>4, <1>5, <1>7, <1>8, SameJoiner DEF At
  <1> QED BY Zenon, <1>1, <1>5, <1>9, QuietStep

\* seed_initial_roster and the start of the loops.
LEMMA SeedKeeps ==
  ASSUME HostInv, NEW j \in Joiners, Seed(j)
  PROVE  HostInv'
  <1>1. At(j, "seed") /\ UNCHANGED <<file, chain, rules, dev, routes, minted>>
    BY Zenon DEF Seed, disk, kernel, ghosts
  <1> PICK seen \in SUBSET Visible[j] : proc' = [proc EXCEPT ![j] = SpawnLoops(j,
                  [@ EXCEPT !.pc = "up", !.sess = seen, !.jobs = AddAllowed(seen)])]
    BY Zenon DEF Seed
  <1>2. proc[j] \in Process
    BY Zenon DEF HostInv
  <1>3. seen \in SUBSET Seen /\ AddAllowed(seen) \in SUBSET ({"add", "del"} \X Seen)
    BY Zenon DEF Seen, AddAllowed
  <1> DEFINE p == [proc[j] EXCEPT !.pc = "up", !.sess = seen, !.jobs = AddAllowed(seen)]
             q == SpawnLoops(j, p)
  <1>4. p \in Process /\ p.pc = "up" /\ p.ula = proc[j].ula
    BY Zenon, <1>2, <1>3 DEF Process
  <1>5. proc' = [proc EXCEPT ![j] = q]
    BY Zenon
  <1> HIDE DEF p
  <1>6. /\ q \in Process /\ q.pc = "up" /\ q.ula = proc[j].ula
        /\ q.trust = (IF j \in Trusting THEN "idle" ELSE "off")
        /\ q.scope = (IF j \in Scoped THEN "idle" ELSE "off")
    BY ZenonT(60), <1>4 DEF SpawnLoops, Process
  <1> HIDE DEF q
  <1>7. Moves(j) /\ proc'[j] = q
    BY Zenon, <1>5, <1>6 DEF HostInv, Moves
  <1>8. LoopsOk(j)' /\ LeaveOk(j)'
    BY <1>6, <1>7 DEF LoopsOk, LeaveOk, At, Ula, Joining, Leaving
  <1>9. JoinerOk(j)'
    BY Zenon, <1>1, <1>6, <1>7, <1>8, SameJoiner DEF At
  <1> QED BY Zenon, <1>1, <1>7, <1>9, QuietStep

\* A heartbeat and the route commands it spawns.
LEMMA HeartbeatKeeps ==
  ASSUME HostInv, NEW j \in Joiners, Heartbeat(j)
  PROVE  HostInv'
  <1>1. At(j, "up") /\ UNCHANGED <<file, chain, rules, dev, routes, minted>>
    BY Zenon DEF Heartbeat, disk, kernel, ghosts
  <1> PICK seen \in SUBSET Visible[j] : proc' = [proc EXCEPT ![j].sess = seen, ![j].jobs =
                     @ \cup AddAllowed(seen) \cup RemoveAllowed(proc[j].sess \ seen)]
    BY Zenon DEF Heartbeat
  <1>2. proc[j] \in Process
    BY Zenon DEF HostInv
  <1> DEFINE jobs == proc[j].jobs \cup AddAllowed(seen) \cup RemoveAllowed(proc[j].sess \ seen)
             q == [proc[j] EXCEPT !.sess = seen, !.jobs = jobs]
  <1>3. seen \in SUBSET Seen /\ jobs \in SUBSET ({"add", "del"} \X Seen)
    BY <1>2 DEF Seen, AddAllowed, RemoveAllowed, Process
  <1>4. proc' = [proc EXCEPT ![j] = q]
    BY Zenon
  <1> HIDE DEF jobs
  <1>5. /\ q \in Process /\ q.pc = proc[j].pc /\ q.ula = proc[j].ula
        /\ q.trust = proc[j].trust /\ q.scope = proc[j].scope
    BY Zenon, <1>2, <1>3 DEF Process
  <1> HIDE DEF q
  <1>6. Moves(j) /\ proc'[j] = q
    BY Zenon, <1>4, <1>5 DEF HostInv, Moves
  <1>7. LoopsOk(j)
    BY Zenon DEF HostInv, JoinerOk
  <1>8. LoopsOk(j)' /\ LeaveOk(j)'
    BY Zenon, <1>1, <1>5, <1>6, <1>7 DEF LoopsOk, LeaveOk, At, Ula, Joining, Leaving
  <1>9. JoinerOk(j)'
    BY Zenon, <1>1, <1>5, <1>6, <1>8, SameJoiner DEF At
  <1> QED BY Zenon, <1>1, <1>6, <1>9, QuietStep

\* A route command that was spawned earlier, in whatever state the joiner is by now.
LEMMA RouteCommandKeeps ==
  ASSUME HostInv, NEW j \in Joiners, NEW op \in {"add", "del"}, NEW p \in Visible[j],
         RouteCommand(j, op, p)
  PROVE  HostInv'
  <1>1. UNCHANGED <<file, chain, rules, dev, minted>>
    BY Zenon DEF RouteCommand, disk, ghosts
  <1>2. proc[j] \in Process
    BY Zenon DEF HostInv
  <1> DEFINE jobs == proc[j].jobs \ {<<op, p>>}
             q == [proc[j] EXCEPT !.jobs = jobs]
  <1>3. jobs \in SUBSET ({"add", "del"} \X Seen)
    BY Zenon, <1>2 DEF Process
  <1>4. proc' = [proc EXCEPT ![j] = q]
    BY Zenon DEF RouteCommand
  <1> HIDE DEF jobs
  <1>5. /\ q \in Process /\ q.pc = proc[j].pc /\ q.ula = proc[j].ula /\ q.index = proc[j].index
        /\ q.trust = proc[j].trust /\ q.scope = proc[j].scope /\ q.disturbed = proc[j].disturbed
    BY Zenon, <1>2, <1>3 DEF Process
  <1> HIDE DEF q
  <1>6. Moves(j) /\ proc'[j] = q
    BY Zenon, <1>4, <1>5 DEF HostInv, Moves
  <1>7. \A r \in routes' : r \in routes \/ r[1] \in dev
    BY DEF RouteCommand, AddPeerRoute, DelPeerRoute
  <1>8. JoinerOk(j)
    BY Zenon DEF HostInv
  <1>9. FileOk(j)' /\ AddressOk(j)'
    BY Zenon, <1>1, <1>5, <1>6, <1>8 DEF JoinerOk, FileOk, AddressOk, At, Ula
  <1>10. LoopsOk(j)'
    BY Zenon, <1>1, <1>5, <1>6, <1>8 DEF JoinerOk, LoopsOk, At, Ula
  <1>11. LeaveOk(j)'
    BY Zenon, <1>1, <1>5, <1>6, <1>7, <1>8 DEF JoinerOk, LeaveOk, At, Ula
  <1>12. JoinerOk(j)'
    BY Zenon, <1>9, <1>10, <1>11 DEF JoinerOk
  <1> QED BY Zenon, <1>1, <1>6, <1>7, <1>12, QuietStep

LoopsTo(j, trust, scope, todo) ==
  proc' = [proc EXCEPT ![j] = [proc[j] EXCEPT !.trust = trust, !.scope = scope, !.todo = todo]]

\* A step of a loop: the process moves in the fields of the loops only.
LEMMA LoopMoves ==
  ASSUME HostInv, NEW j \in Joiners,
         NEW trust \in {"off", "idle", "insert"}, NEW scope \in {"off", "idle", "install", "routes"},
         NEW todo \in SUBSET Seen,
         LoopsTo(j, trust, scope, todo)
  PROVE  /\ Moves(j)
         /\ proc'[j].pc = proc[j].pc /\ proc'[j].ula = proc[j].ula
         /\ proc'[j].index = proc[j].index /\ proc'[j].disturbed = proc[j].disturbed
         /\ proc'[j].trust = trust /\ proc'[j].scope = scope
  <1> DEFINE q == [proc[j] EXCEPT !.trust = trust, !.scope = scope, !.todo = todo]
  <1>1. proc[j] \in Process
    BY Zenon DEF HostInv
  <1>2. /\ q \in Process
        /\ q.pc = proc[j].pc /\ q.ula = proc[j].ula
        /\ q.index = proc[j].index /\ q.disturbed = proc[j].disturbed
        /\ q.trust = trust /\ q.scope = scope
    BY ZenonT(40), <1>1 DEF Process
  <1>3. proc' = [proc EXCEPT ![j] = q]
    BY Zenon DEF LoopsTo
  <1> HIDE DEF q
  <1>4. Moves(j) /\ proc'[j] = q
    BY Zenon, <1>2, <1>3 DEF HostInv, Moves
  <1> QED BY Zenon, <1>2, <1>4

\* A loop that moves on without starting anything new after the leave has waited for it.
LEMMA LoopStep ==
  ASSUME HostInv, NEW j \in Joiners,
         NEW trust \in {"off", "idle", "insert"}, NEW scope \in {"off", "idle", "install", "routes"},
         NEW todo \in SUBSET Seen,
         LoopsTo(j, trust, scope, todo),
         proc[j].trust # "off" \/ proc[j].scope # "off",
         trust # "off" => proc[j].trust # "off", scope # "off" => proc[j].scope # "off",
         trust = "insert" => Ula(j) \notin Range(chain),
         UNCHANGED <<file, chain, rules, dev, minted>>,
         \A r \in routes' : r \in routes \/ r[1] \in dev
  PROVE  HostInv'
  <1>1. /\ Moves(j)
        /\ proc'[j].pc = proc[j].pc /\ proc'[j].ula = proc[j].ula
        /\ proc'[j].index = proc[j].index /\ proc'[j].disturbed = proc[j].disturbed
        /\ proc'[j].trust = trust /\ proc'[j].scope = scope
    BY LoopMoves
  <1>2. JoinerOk(j)
    BY Zenon DEF HostInv
  <1>3. proc[j].pc \notin {"down"} \cup Joining
    BY Zenon, <1>2 DEF JoinerOk, LoopsOk
  <1>4. LoopsOk(j)'
    BY Zenon, <1>1, <1>2, <1>3 DEF JoinerOk, LoopsOk, At, Ula, Joining
  <1>5. LeaveOk(j)'
    BY Zenon, <1>1, <1>2 DEF JoinerOk, LeaveOk, At, Ula
  <1>6. JoinerOk(j)'
    BY Zenon, <1>1, <1>3, <1>4, <1>5, SameJoiner DEF At, Joining
  <1> QED BY Zenon, <1>1, <1>6, QuietStep

\* trust_loop lists the chain.
LEMMA TrustTickKeeps ==
  ASSUME HostInv, NEW j \in Joiners, TrustTick(j)
  PROVE  HostInv'
  <1>1. /\ proc[j].trust = "idle" /\ UNCHANGED <<file, chain, rules, dev, routes, minted>>
        /\ proc' = [proc EXCEPT ![j].trust = "insert"]
    BY Zenon DEF TrustTick, disk, kernel, ghosts
  <1>2. Ula(j) \notin Range(chain)
    <2>1. chain \in Seq(Address \cup {Distro}) /\ IsInjective(chain)
      BY Zenon DEF HostInv, ChainOk
    <2>2. Ula(j) \in Range(chain) => FindRuleIndex(Ula(j)) > 0
      BY <2>1, FirstFound DEF FindRuleIndex
    <2> QED BY Zenon, <2>2 DEF Trusted, TrustTick
  <1>3. proc[j] \in Process
    BY Zenon DEF HostInv
  <1>4. proc[j].scope \in {"off", "idle", "install", "routes"} /\ proc[j].todo \in SUBSET Seen
    BY Zenon, <1>3 DEF Process
  <1>5. LoopsTo(j, "insert", proc[j].scope, proc[j].todo)
    BY Zenon, <1>1, <1>3 DEF Process, LoopsTo
  <1> QED BY Zenon, <1>1, <1>2, <1>4, <1>5, LoopStep

\* What is left of the fields of the loops when one of them is not named.
LEMMA LoopFields ==
  ASSUME HostInv, NEW j \in Joiners
  PROVE  /\ proc[j].trust \in {"off", "idle", "insert"}
         /\ proc[j].scope \in {"off", "idle", "install", "routes"}
         /\ proc[j].todo \in SUBSET Seen /\ proc[j].sess \in SUBSET Seen
         /\ \A trust : proc' = [proc EXCEPT ![j].trust = trust] =>
              LoopsTo(j, trust, proc[j].scope, proc[j].todo)
         /\ \A scope : proc' = [proc EXCEPT ![j].scope = scope] =>
              LoopsTo(j, proc[j].trust, scope, proc[j].todo)
         /\ \A todo : proc' = [proc EXCEPT ![j].todo = todo] =>
              LoopsTo(j, proc[j].trust, proc[j].scope, todo)
         /\ \A scope, todo : proc' = [proc EXCEPT ![j].scope = scope, ![j].todo = todo] =>
              LoopsTo(j, proc[j].trust, scope, todo)
  <1>1. proc[j] \in Process
    BY Zenon DEF HostInv
  <1>2. ASSUME NEW trust
        PROVE  [proc[j] EXCEPT !.trust = trust] =
                 [proc[j] EXCEPT !.trust = trust, !.scope = proc[j].scope, !.todo = proc[j].todo]
    BY Zenon, <1>1 DEF Process
  <1>3. ASSUME NEW scope
        PROVE  [proc[j] EXCEPT !.scope = scope] =
                 [proc[j] EXCEPT !.trust = proc[j].trust, !.scope = scope, !.todo = proc[j].todo]
    BY Zenon, <1>1 DEF Process
  <1>4. ASSUME NEW todo
        PROVE  [proc[j] EXCEPT !.todo = todo] =
                 [proc[j] EXCEPT !.trust = proc[j].trust, !.scope = proc[j].scope, !.todo = todo]
    BY Zenon, <1>1 DEF Process
  <1>5. ASSUME NEW scope, NEW todo
        PROVE  [proc[j] EXCEPT !.scope = scope, !.todo = todo] =
                 [proc[j] EXCEPT !.trust = proc[j].trust, !.scope = scope, !.todo = todo]
    BY Zenon, <1>1 DEF Process
  <1>6. /\ proc[j].trust \in {"off", "idle", "insert"}
        /\ proc[j].scope \in {"off", "idle", "install", "routes"}
        /\ proc[j].todo \in SUBSET Seen /\ proc[j].sess \in SUBSET Seen
    BY Zenon, <1>1 DEF Process
  <1>7. ASSUME NEW trust, proc' = [proc EXCEPT ![j].trust = trust]
        PROVE  LoopsTo(j, trust, proc[j].scope, proc[j].todo)
    BY Zenon, <1>2, <1>7 DEF LoopsTo
  <1>8. ASSUME NEW scope, proc' = [proc EXCEPT ![j].scope = scope]
        PROVE  LoopsTo(j, proc[j].trust, scope, proc[j].todo)
    BY Zenon, <1>3, <1>8 DEF LoopsTo
  <1>9. ASSUME NEW todo, proc' = [proc EXCEPT ![j].todo = todo]
        PROVE  LoopsTo(j, proc[j].trust, proc[j].scope, todo)
    BY Zenon, <1>4, <1>9 DEF LoopsTo
  <1>10. ASSUME NEW scope, NEW todo, proc' = [proc EXCEPT ![j].scope = scope, ![j].todo = todo]
         PROVE  LoopsTo(j, proc[j].trust, scope, todo)
    BY ZenonT(30), <1>5, <1>10 DEF LoopsTo
  <1> QED BY Zenon, <1>6, <1>7, <1>8, <1>9, <1>10

\* An insert under way is for an entry that is missing.
LEMMA InsertMissing ==
  ASSUME HostInv, NEW j \in Joiners
  PROVE  proc[j].trust = "insert" => Ula(j) \notin Range(chain)
  BY Zenon DEF HostInv, JoinerOk, LoopsOk

\* source_scope_reassert_loop lists the rules.
LEMMA ScopeTickKeeps ==
  ASSUME HostInv, NEW j \in Joiners, ScopeTick(j)
  PROVE  HostInv'
  <1>1. proc[j].scope = "idle" /\ UNCHANGED <<file, chain, rules, dev, routes, minted>>
    BY Zenon DEF ScopeTick, disk, kernel, ghosts
  <1>2. \/ proc' = [proc EXCEPT ![j].scope = "install"]
        \/ proc' = [proc EXCEPT ![j].scope = "routes", ![j].todo = proc[j].sess]
    BY Zenon DEF ScopeTick
  <1>3. \/ LoopsTo(j, proc[j].trust, "install", proc[j].todo)
        \/ LoopsTo(j, proc[j].trust, "routes", proc[j].sess)
    BY Zenon, <1>2, LoopFields
  <1>4. CASE LoopsTo(j, proc[j].trust, "install", proc[j].todo)
    BY Zenon, <1>1, <1>4, LoopFields, InsertMissing, LoopStep
  <1>5. CASE LoopsTo(j, proc[j].trust, "routes", proc[j].sess)
    BY Zenon, <1>1, <1>5, LoopFields, InsertMissing, LoopStep
  <1> QED BY Zenon, <1>3, <1>4, <1>5

\* ... and replaces one route after the other.
LEMMA ScopeRouteKeeps ==
  ASSUME HostInv, NEW j \in Joiners, ScopeRoute(j)
  PROVE  HostInv'
  <1>1. proc[j].scope = "routes" /\ UNCHANGED <<file, chain, rules, dev, minted>>
    BY Zenon DEF ScopeRoute, disk, ghosts
  <1>2. CASE proc[j].todo = {}
    <2>1. proc' = [proc EXCEPT ![j].scope = "idle"] /\ UNCHANGED routes
      BY Zenon, <1>2 DEF ScopeRoute
    <2>2. LoopsTo(j, proc[j].trust, "idle", proc[j].todo)
      BY Zenon, <2>1, LoopFields
    <2> QED BY Zenon, <1>1, <2>1, <2>2, LoopFields, InsertMissing, LoopStep
  <1>3. CASE proc[j].todo # {}
    <2> PICK p \in proc[j].todo, ok \in BOOLEAN :
          /\ proc' = [proc EXCEPT ![j].todo = @ \ {p}]
          /\ routes' = IF ok THEN AddPeerRoute(Ula(j), p) ELSE routes
      BY Zenon, <1>3 DEF ScopeRoute
    <2>1. LoopsTo(j, proc[j].trust, proc[j].scope, proc[j].todo \ {p})
      BY Zenon, LoopFields
    <2>2. \A r \in routes' : r \in routes \/ r[1] \in dev
      BY DEF AddPeerRoute
    <2>3. proc[j].todo \ {p} \in SUBSET Seen
      BY Zenon, LoopFields
    <2> QED BY <1>1, <2>1, <2>2, <2>3, LoopFields, InsertMissing, LoopStep
  <1> QED BY Zenon, <1>2, <1>3

\* A loop sees the shutdown.
LEMMA LoopsStopKeeps ==
  ASSUME HostInv, NEW j \in Joiners, LoopsStop(j)
  PROVE  HostInv'
  <1>1. UNCHANGED <<file, chain, rules, dev, routes, minted>>
    BY Zenon DEF LoopsStop, disk, kernel, ghosts
  <1>2. CASE proc[j].trust = "idle" /\ proc' = [proc EXCEPT ![j].trust = "off"]
    <2>1. LoopsTo(j, "off", proc[j].scope, proc[j].todo)
      BY Zenon, <1>2, LoopFields
    <2> QED BY <1>1, <1>2, <2>1, LoopFields, InsertMissing, LoopStep
  <1>3. CASE proc[j].scope = "idle" /\ proc' = [proc EXCEPT ![j].scope = "off"]
    <2>1. LoopsTo(j, proc[j].trust, "off", proc[j].todo)
      BY Zenon, <1>3, LoopFields
    <2> QED BY <1>1, <1>3, <2>1, LoopFields, InsertMissing, LoopStep
  <1> QED BY Zenon, <1>2, <1>3 DEF LoopsStop

\* The shutdown is signalled.
LEMMA LeaveKeeps ==
  ASSUME HostInv, NEW j \in Joiners, Leave(j)
  PROVE  HostInv'
  <1>1. At(j, "up") /\ Goto(j, "stopping") /\ UNCHANGED <<file, chain, rules, dev, routes, minted>>
    BY Zenon DEF Leave, disk, kernel, ghosts
  <1>2. /\ Moves(j)
        /\ proc'[j].pc = "stopping" /\ proc'[j].ula = proc[j].ula
        /\ proc'[j].trust = proc[j].trust /\ proc'[j].scope = proc[j].scope
    BY Zenon, <1>1, GotoMoves
  <1>3. LoopsOk(j)
    BY Zenon DEF HostInv, JoinerOk
  <1>4. LoopsOk(j)' /\ LeaveOk(j)'
    BY Zenon, <1>1, <1>2, <1>3 DEF LoopsOk, LeaveOk, At, Ula, Joining, Leaving
  <1>5. JoinerOk(j)'
    BY Zenon, <1>1, <1>2, <1>4, SameJoiner DEF At
  <1> QED BY Zenon, <1>1, <1>2, <1>5, QuietStep

\* The wait for the tasks: it ends when the loops have ended or counts as disturbed.
LEMMA AwaitTasksKeeps ==
  ASSUME HostInv, NEW j \in Joiners, AwaitTasks(j)
  PROVE  HostInv'
  <1> DEFINE stopped == proc[j].trust = "off" /\ proc[j].scope = "off"
             jobs == proc[j].jobs \cup RemoveAllowed(proc[j].sess)
             q == [proc[j] EXCEPT !.pc = "untrust_list", !.disturbed = ~stopped,
                                  !.sess = {}, !.jobs = jobs]
  <1>1. At(j, "stopping") /\ UNCHANGED <<file, chain, rules, dev, routes, minted>>
    BY Zenon DEF AwaitTasks, disk, kernel, ghosts
  <1>2. proc' = [proc EXCEPT ![j] = q]
    BY Zenon DEF AwaitTasks
  <1>3. proc[j] \in Process
    BY Zenon DEF HostInv
  <1>4. jobs \in SUBSET ({"add", "del"} \X Seen)
    BY Zenon, <1>3 DEF Process, RemoveAllowed
  <1>5. stopped \in BOOLEAN /\ (~stopped) \in BOOLEAN
    BY Zenon
  <1>6. ~(~stopped) => proc[j].trust = "off" /\ proc[j].scope = "off"
    BY Zenon
  <1> HIDE DEF stopped, jobs
  <1>7. /\ q \in Process /\ q.pc = "untrust_list" /\ q.ula = proc[j].ula
        /\ q.trust = proc[j].trust /\ q.scope = proc[j].scope /\ q.disturbed = ~stopped
    BY Zenon, <1>3, <1>4, <1>5 DEF Process, Leaving
  <1> HIDE DEF q
  <1>8. Moves(j) /\ proc'[j] = q
    BY Zenon, <1>2, <1>7 DEF HostInv, Moves
  <1>9. LoopsOk(j)
    BY Zenon DEF HostInv, JoinerOk
  <1>10. LoopsOk(j)'
    BY Zenon, <1>1, <1>6, <1>7, <1>8, <1>9 DEF LoopsOk, At, Ula, Joining, Leaving
  <1>11. LeaveOk(j)'
    BY Zenon, <1>7, <1>8 DEF LeaveOk, At
  <1>12. JoinerOk(j)'
    BY Zenon, <1>1, <1>7, <1>8, <1>10, <1>11, SameJoiner DEF At
  <1> QED BY Zenon, <1>1, <1>8, <1>12, QuietStep

\* remove_tun_trust lists the chain.
LEMMA UntrustListKeeps ==
  ASSUME HostInv, NEW j \in Joiners, UntrustList(j)
  PROVE  HostInv'
  <1>1. At(j, "untrust_list") /\ UNCHANGED <<file, chain, rules, dev, routes, minted>>
    BY Zenon DEF UntrustList, disk, kernel, ghosts
  <1>2. proc[j] \in Process /\ JoinerOk(j)
    BY Zenon DEF HostInv
  <1>3. chain \in Seq(Address \cup {Distro}) /\ IsInjective(chain)
    BY Zenon DEF HostInv, ChainOk
  <1> PICK n : n = FindRuleIndex(Ula(j))
    BY Zenon
  <1>4. /\ Ula(j) \in Range(chain) => n \in 1..Len(chain) /\ chain[n] = Ula(j)
        /\ Ula(j) \notin Range(chain) => n = 0
    BY Zenon, <1>3, FirstFound DEF FindRuleIndex
  <1>5. CASE j \in Trusting /\ Trusted(Ula(j))
    <2> DEFINE q == [proc[j] EXCEPT !.pc = "untrust_delete", !.index = n]
    <2>1. proc' = [proc EXCEPT ![j] = q]
      BY Zenon, <1>5 DEF UntrustList
    <2>2. n \in 1..Len(chain) /\ chain[n] = Ula(j)
      BY <1>4, <1>5 DEF Trusted
    <2>3. n \in Nat /\ n # 0
      BY <1>3, <2>2
    <2>4. /\ q \in Process /\ q.pc = "untrust_delete" /\ q.ula = proc[j].ula /\ q.index = n
          /\ q.trust = proc[j].trust /\ q.scope = proc[j].scope /\ q.disturbed = proc[j].disturbed
      BY Zenon, <1>2, <2>3 DEF Process, Leaving
    <2> HIDE DEF q
    <2>5. Moves(j) /\ proc'[j] = q
      BY Zenon, <2>1, <2>4 DEF HostInv, Moves
    <2>6. LoopsOk(j)'
      BY Zenon, <1>1, <1>2, <2>4, <2>5 DEF JoinerOk, LoopsOk, At, Ula, Joining, Leaving
    <2>7. LeaveOk(j)'
      BY Zenon, <1>1, <2>2, <2>3, <2>4, <2>5 DEF LeaveOk, At, Ula
    <2>8. JoinerOk(j)'
      BY Zenon, <1>1, <2>4, <2>5, <2>6, <2>7, SameJoiner DEF At
    <2> QED BY Zenon, <1>1, <2>5, <2>8, QuietStep
  <1>6. CASE ~(j \in Trusting /\ Trusted(Ula(j)))
    <2>1. Goto(j, "unrule")
      BY Zenon, <1>6 DEF UntrustList, Goto
    <2>2. /\ Moves(j)
          /\ proc'[j].pc = "unrule" /\ proc'[j].ula = proc[j].ula
          /\ proc'[j].trust = proc[j].trust /\ proc'[j].scope = proc[j].scope
          /\ proc'[j].disturbed = proc[j].disturbed
      BY Zenon, <2>1, GotoMoves DEF Leaving
    <2>3. Ula(j) \in Address /\ Ula(j).of = j
      BY Zenon, <1>1, <1>2 DEF JoinerOk, AddressOk, At
    <2>4. Ula(j) \notin Range(chain)
      <3>1. CASE j \in Trusting
        BY <1>3, <1>4, <1>6, <3>1 DEF Trusted
      <3>2. CASE j \notin Trusting
        BY Zenon, <2>3, <3>2, HostAssumption DEF HostInv, ChainOk
      <3> QED BY Zenon, <3>1, <3>2
    <2>5. LoopsOk(j)'
      BY Zenon, <1>1, <1>2, <2>2 DEF JoinerOk, LoopsOk, At, Ula, Joining, Leaving
    <2>6. LeaveOk(j)'
      BY Zenon, <1>1, <2>2, <2>4 DEF LeaveOk, At, Ula
    <2>7. JoinerOk(j)'
      BY Zenon, <1>1, <2>2, <2>5, <2>6, SameJoiner DEF At
    <2> QED BY Zenon, <1>1, <2>2, <2>7, QuietStep
  <1> QED BY Zenon, <1>5, <1>6

\* A process that is not running is in no one's way.
LEMMA DownProcess == Down \in Process /\ Down.pc = "down" /\ Down.trust = "off" /\ Down.scope = "off"
  BY Zenon DEF Down, Process, Joining, Leaving

\* The end of a process keeps what the joiner left on the host.
LEMMA DownKeeps ==
  ASSUME NEW j \in Joiners, FileOk(j)', proc'[j] = Down
  PROVE  JoinerOk(j)'
  <1>1. /\ proc'[j].pc = "down" /\ proc'[j].trust = "off" /\ proc'[j].scope = "off"
    BY Zenon, DownProcess
  <1> QED BY Zenon, <1>1 DEF JoinerOk, AddressOk, LoopsOk, LeaveOk, At, Leaving

\* The process ends, after the leave or by a kill.
LEMMA GoneKeeps ==
  ASSUME HostInv, NEW j \in Joiners, Gone(j), UNCHANGED <<file, minted>>
  PROVE  HostInv'
  <1>1. Moves(j) /\ proc'[j] = Down
    BY Zenon, DownProcess DEF HostInv, Moves, Gone
  <1>2. FileOk(j)'
    BY Zenon DEF HostInv, JoinerOk, FileOk
  <1>3. JoinerOk(j)'
    BY Zenon, <1>1, <1>2, DownKeeps
  <1>4. /\ UNCHANGED <<chain, rules>> /\ dev' \subseteq dev
        /\ \A r \in routes' : r \in routes \/ r[1] \in dev
    BY Zenon DEF Gone, FlushTable
  <1> QED BY Zenon, <1>1, <1>3, <1>4, QuietStep

-----------------------------------------------------------------------------
(* The identity file.                                                      *)

\* A file that holds no identity has nothing on the host to account for, so that reading it
\* (a torn one moves out of the way) or writing the first identity keeps every entry.
LEMMA FileStep ==
  ASSUME HostInv, NEW j \in Joiners, UNCHANGED <<chain, rules>>,
         \A i \in Joiners \ {j} : file'[i] = file[i],
         file'[j] = file[j] \/ file[j] \in {None, Torn}
  PROVE  ChainOk' /\ RulesOk'
  <1>1. ASSUME NEW u \in Address, Kept(u) PROVE Kept(u)'
    <2>1. u.of \in Joiners
      BY Zenon DEF Address
    <2>2. file[u.of] \in Identity
      BY Zenon, <1>1 DEF Kept
    <2>3. file'[u.of] = file[u.of]
      BY Zenon, <2>1, <2>2, HostAssumption DEF Identity
    <2> QED BY Zenon, <1>1, <2>3 DEF Kept
  <1>2. Range(chain) \ {Distro} \subseteq Address /\ Range(rules) \subseteq Address
    <2>1. chain \in Seq(Address \cup {Distro}) /\ rules \in Seq(Address)
      BY Zenon DEF HostInv, ChainOk, RulesOk
    <2> QED BY <2>1 DEF Range
  <1> QED BY Zenon, <1>1, <1>2 DEF HostInv, ChainOk, RulesOk

\* A step of j on its own file.
LEMMA FileSettled ==
  ASSUME HostInv, NEW j \in Joiners, Moves(j), UNCHANGED <<chain, rules, dev, routes>>,
         minted' \in Nat, DOMAIN file' = Joiners,
         \A i \in Joiners \ {j} : file'[i] = file[i],
         file'[j] = file[j] \/ file[j] \in {None, Torn}, JoinerOk(j)'
  PROVE  HostInv'
  <1>1. ChainOk' /\ RulesOk'
    BY Zenon, FileStep
  <1>2. \A i \in Joiners \ {j} : Unshaken(i)
    BY Zenon DEF Moves, Unshaken
  <1>3. proc' \in [Joiners -> Process]
    BY Zenon DEF Moves
  <1> QED BY Zenon, <1>1, <1>2, <1>3, Settled

\* load_or_fresh, resolve_identity and the register.
LEMMA RegisterKeeps ==
  ASSUME HostInv, NEW j \in Joiners, Register(j)
  PROVE  HostInv'
  <1> PICK moved \in BOOLEAN :
        /\ moved => Loaded(j) # None
        /\ proc' = [proc EXCEPT ![j] = [Down EXCEPT !.pc = "persist",
                      !.ula = [of |-> j, key |-> ResolveIdentity(j), moved |-> moved]]]
    BY Zenon DEF Register
  <1>1. /\ At(j, "down") /\ UNCHANGED <<chain, rules, dev, routes>>
        /\ minted' = (IF Loaded(j) = None THEN minted + 1 ELSE minted)
        /\ file' = [file EXCEPT ![j] = Loaded(j)]
    BY Zenon DEF Register, kernel
  <1>2. /\ DOMAIN file' = Joiners /\ file'[j] = Loaded(j)
        /\ \A i \in Joiners \ {j} : file'[i] = file[i]
    BY Zenon, <1>1 DEF HostInv
  <1>3. FileOk(j) /\ minted \in Nat
    BY Zenon DEF HostInv, JoinerOk
  <1>4. minted' \in Nat
    BY <1>1, <1>3
  <1>5. /\ Loaded(j) # Torn
        /\ file'[j] = file[j] \/ file[j] \in {None, Torn}
        /\ Loaded(j) # None => file[j] \in Identity /\ Loaded(j) = file[j]
                               /\ file[j].ula = [of |-> j, key |-> file[j].key, moved |-> FALSE]
    BY Zenon, <1>2, <1>3, HostAssumption DEF FileOk, Loaded
  <1>6. ResolveIdentity(j) \in Nat
    BY <1>3, <1>5 DEF ResolveIdentity, Identity
  <1> PICK u : u = [of |-> j, key |-> ResolveIdentity(j), moved |-> moved]
    BY Zenon
  <1>7. u \in Address /\ u.of = j /\ u.moved = moved
    BY Zenon, <1>6 DEF Address
  <1>8. Loaded(j) # None /\ ~moved => Loaded(j).ula = u
    <2> SUFFICES ASSUME Loaded(j) # None, moved = FALSE PROVE file[j].ula = u
      BY Zenon, <1>5
    <2>1. ResolveIdentity(j) = file[j].key
      BY Zenon DEF ResolveIdentity
    <2> QED BY Zenon, <1>5, <2>1
  <1> DEFINE q == [Down EXCEPT !.pc = "persist", !.ula = u]
  <1>9. /\ q \in Process /\ q.pc = "persist" /\ q.ula = u
        /\ q.trust = "off" /\ q.scope = "off"
    BY Zenon, <1>7, DownProcess DEF Process, Joining
  <1>10. proc' = [proc EXCEPT ![j] = q]
    BY Zenon
  <1> HIDE DEF q
  <1>11. Moves(j) /\ proc'[j] = q
    BY Zenon, <1>9, <1>10 DEF HostInv, Moves
  <1>12. FileOk(j)'
    BY Zenon, <1>2, <1>5 DEF FileOk
  <1>13. AddressOk(j)'
    BY Zenon, <1>2, <1>5, <1>7, <1>8, <1>9, <1>11 DEF AddressOk, At, Ula
  <1>14. LoopsOk(j)' /\ LeaveOk(j)'
    BY Zenon, <1>9, <1>11 DEF LoopsOk, LeaveOk, At, Leaving
  <1>15. JoinerOk(j)'
    BY Zenon, <1>12, <1>13, <1>14 DEF JoinerOk
  <1> QED BY Zenon, <1>1, <1>2, <1>4, <1>5, <1>11, <1>15, FileSettled

\* persist_identity_if_fresh: a fresh identity is on disk before the host is touched.
LEMMA PersistKeeps ==
  ASSUME HostInv, NEW j \in Joiners, Persist(j)
  PROVE  HostInv'
  <1>1. /\ At(j, "persist") /\ Goto(j, "open") /\ UNCHANGED <<chain, rules, dev, routes, minted>>
        /\ IF file[j] = None THEN Store(j, Ula(j)) ELSE UNCHANGED file
    BY Zenon DEF Persist, kernel, ghosts
  <1>2. /\ Moves(j)
        /\ proc'[j].pc = "open" /\ proc'[j].ula = proc[j].ula
        /\ proc'[j].trust = proc[j].trust /\ proc'[j].scope = proc[j].scope
    BY Zenon, <1>1, GotoMoves DEF Joining
  <1>3. JoinerOk(j) /\ DOMAIN file = Joiners /\ minted \in Nat
    BY Zenon DEF HostInv
  <1>4. Ula(j) \in Address /\ Ula(j).of = j /\ Ula(j).key \in Nat
    BY Zenon, <1>1, <1>3 DEF JoinerOk, AddressOk, At, Address
  <1>5. LoopsOk(j)' /\ LeaveOk(j)'
    BY Zenon, <1>1, <1>2, <1>3 DEF JoinerOk, LoopsOk, LeaveOk, At, Joining, Leaving
  <1>6. CASE file[j] # None
    <2>1. UNCHANGED file
      BY Zenon, <1>1, <1>6
    <2>2. FileOk(j)' /\ AddressOk(j)'
      BY Zenon, <1>1, <1>2, <1>3, <1>6, <2>1 DEF JoinerOk, FileOk, AddressOk, At, Ula
    <2>3. JoinerOk(j)'
      BY Zenon, <1>5, <2>2 DEF JoinerOk
    <2> QED BY Zenon, <1>1, <1>2, <1>3, <2>1, <2>3, FileSettled
  <1>7. CASE file[j] = None
    <2> PICK f : f = [key |-> Ula(j).key, ula |-> Ula(j)]
      BY Zenon
    <2>1. file' = [file EXCEPT ![j] = f]
      BY Zenon, <1>1, <1>7 DEF Store
    <2>2. /\ DOMAIN file' = Joiners /\ file'[j] = f
          /\ \A i \in Joiners \ {j} : file'[i] = file[i]
      BY Zenon, <1>3, <2>1
    <2>3. f \in Identity /\ f.ula = Ula(j) /\ f.key = Ula(j).key
      BY Zenon, <1>4 DEF Identity
    <2>4. ~Ula(j).moved
      BY Zenon, <1>1, <1>3, <1>7 DEF JoinerOk, AddressOk, At
    <2>5. Ula(j) = [of |-> j, key |-> Ula(j).key, moved |-> FALSE]
      <3>1. Ula(j).moved = FALSE
        BY Zenon, <1>4, <2>4 DEF Address
      <3> QED BY Zenon, <1>4, <3>1 DEF Address
    <2>6. f.ula = [of |-> j, key |-> f.key, moved |-> FALSE]
      BY Zenon, <2>3, <2>5
    <2>7. FileOk(j)'
      BY Zenon, <2>2, <2>3, <2>6 DEF FileOk
    <2>8. f # Torn /\ f # None
      BY Zenon, <2>3, HostAssumption DEF Identity
    <2>9. AddressOk(j)'
      BY Zenon, <1>2, <1>4, <2>2, <2>3, <2>8 DEF AddressOk, At, Ula
    <2>10. JoinerOk(j)'
      BY Zenon, <1>5, <2>7, <2>9 DEF JoinerOk
    <2> QED BY Zenon, <1>1, <1>2, <1>3, <1>7, <2>2, <2>10, FileSettled
  <1> QED BY Zenon, <1>6, <1>7

-----------------------------------------------------------------------------
(* The policy rules.                                                       *)

\* From the open of the device on, the address of a joiner is one its file accounts for.
LEMMA AddressKept ==
  ASSUME HostInv, NEW j \in Joiners, ~At(j, "down"), ~At(j, "persist")
  PROVE  Ula(j) \in Address /\ Ula(j).of = j /\ Kept(Ula(j))
  <1>1. FileOk(j) /\ AddressOk(j)
    BY Zenon DEF HostInv, JoinerOk
  <1> QED BY Zenon, <1>1 DEF FileOk, AddressOk, Kept

\* A step of j that installs or deletes its policy rule.
LEMMA RuleStep ==
  ASSUME HostInv, NEW j \in Joiners, ~At(j, "down"), UNCHANGED file,
         \/ rules' = rules
         \/ rules' = WithoutFirst(rules, Ula(j))
         \/ rules' = InstallSourceRule(rules, Ula(j)) /\ j \in Scoped /\ ~At(j, "persist")
  PROVE  /\ RulesOk'
         /\ Range(rules') \subseteq Range(rules) \cup {Ula(j)}
         /\ rules' = WithoutFirst(rules, Ula(j)) => Ula(j) \notin Range(rules')
  <1>1. /\ rules \in Seq(Address) /\ IsInjective(rules)
        /\ \A u \in Range(rules) : u.of \in Scoped /\ Kept(u)
    BY Zenon DEF HostInv, RulesOk
  <1>2. /\ WithoutFirst(rules, Ula(j)) \in Seq(Address)
        /\ IsInjective(WithoutFirst(rules, Ula(j)))
        /\ Range(WithoutFirst(rules, Ula(j))) = Range(rules) \ {Ula(j)}
    BY Zenon, <1>1, Without
  <1>3. \A u : Kept(u) => Kept(u)'
    BY Zenon DEF Kept
  <1>4. CASE rules' = rules
    BY Zenon, <1>1, <1>2, <1>3, <1>4 DEF RulesOk
  <1>5. CASE rules' = WithoutFirst(rules, Ula(j))
    BY Zenon, <1>1, <1>2, <1>3, <1>5 DEF RulesOk
  <1>6. CASE rules' = InstallSourceRule(rules, Ula(j)) /\ j \in Scoped /\ ~At(j, "persist")
    <2>1. Ula(j) \in Address /\ Ula(j).of = j /\ Kept(Ula(j))
      BY Zenon, <1>6, AddressKept
    <2>2. /\ rules' \in Seq(Address) /\ IsInjective(rules')
          /\ Range(rules') = Range(rules) \cup {Ula(j)}
      BY <1>1, <1>6, <2>1, Installed
    <2>3. RulesOk'
      BY Zenon, <1>1, <1>3, <1>6, <2>1, <2>2 DEF RulesOk
    <2> QED BY Zenon, <1>2, <2>2, <2>3
  <1> QED BY Zenon, <1>4, <1>5, <1>6

\* The invariant after such a step.
LEMMA RuleSettled ==
  ASSUME HostInv, NEW j \in Joiners, ~At(j, "down"), Moves(j), UNCHANGED <<file, chain, minted>>,
         \/ rules' = rules
         \/ rules' = WithoutFirst(rules, Ula(j))
         \/ rules' = InstallSourceRule(rules, Ula(j)) /\ j \in Scoped /\ ~At(j, "persist"),
         dev' \subseteq dev \cup {Ula(j)}, routes' \subseteq routes, JoinerOk(j)'
  PROVE  HostInv'
  <1>1. ChainOk' /\ RulesOk'
    BY Zenon, SameEntries, RuleStep
  <1>2. ASSUME NEW i \in Joiners \ {j} PROVE Unshaken(i)
    <2>1. ~At(i, "down") => Ula(i) # Ula(j)
      BY Zenon, OwnAddress
    <2>2. Range(rules') \subseteq Range(rules) \cup {Ula(j)}
      BY Zenon, RuleStep
    <2> QED BY Zenon, <2>1, <2>2 DEF Moves, Unshaken
  <1>3. proc' \in [Joiners -> Process] /\ DOMAIN file' = Joiners /\ minted' \in Nat
    BY Zenon DEF Moves, HostInv
  <1> QED BY Zenon, <1>1, <1>2, <1>3, Settled

\* open_tun_device and install_source_rule.
LEMMA OpenTunKeeps ==
  ASSUME HostInv, NEW j \in Joiners, OpenTun(j)
  PROVE  HostInv'
  <1>1. /\ At(j, "open") /\ Goto(j, "trust_list") /\ UNCHANGED <<file, chain, routes, minted>>
        /\ dev' \subseteq dev \cup {Ula(j)}
        /\ \/ rules' = rules
           \/ rules' = InstallSourceRule(rules, Ula(j)) /\ j \in Scoped
    BY Zenon DEF OpenTun, OpenImpl, disk, ghosts
  <1>2. /\ Moves(j)
        /\ proc'[j].pc = "trust_list" /\ proc'[j].ula = proc[j].ula
        /\ proc'[j].trust = proc[j].trust /\ proc'[j].scope = proc[j].scope
    BY Zenon, <1>1, GotoMoves DEF Joining
  <1>3. JoinerOk(j)
    BY Zenon DEF HostInv
  <1>4. FileOk(j)' /\ AddressOk(j)'
    BY Zenon, <1>1, <1>2, <1>3 DEF JoinerOk, FileOk, AddressOk, At, Ula
  <1>5. LoopsOk(j)' /\ LeaveOk(j)'
    BY Zenon, <1>1, <1>2, <1>3 DEF JoinerOk, LoopsOk, LeaveOk, At, Joining, Leaving
  <1>6. JoinerOk(j)'
    BY Zenon, <1>4, <1>5 DEF JoinerOk
  <1>7. ~At(j, "down") /\ ~At(j, "persist")
    BY Zenon, <1>1 DEF At
  <1> QED BY Zenon, <1>1, <1>2, <1>6, <1>7, RuleSettled

\* A join that fails may have deleted the rule of an earlier incarnation.
LEMMA JoinFailsKeeps ==
  ASSUME HostInv, NEW j \in Joiners, JoinFails(j)
  PROVE  HostInv'
  <1>1. /\ ~At(j, "down") /\ UNCHANGED <<file, chain, dev, routes, minted>>
        /\ proc' = [proc EXCEPT ![j] = Down]
        /\ rules' = rules \/ rules' = WithoutFirst(rules, Ula(j))
    BY Zenon DEF JoinFails, At, disk, ghosts
  <1>2. Moves(j) /\ proc'[j] = Down
    BY Zenon, <1>1, DownProcess DEF HostInv, Moves
  <1>3. FileOk(j)'
    BY Zenon, <1>1 DEF HostInv, JoinerOk, FileOk
  <1>4. JoinerOk(j)'
    BY Zenon, <1>2, <1>3, DownKeeps
  <1> QED BY Zenon, <1>1, <1>2, <1>4, RuleSettled

\* install_source_rule of the re-assert loop.
LEMMA ScopeInstallKeeps ==
  ASSUME HostInv, NEW j \in Joiners, ScopeInstall(j)
  PROVE  HostInv'
  <1>1. /\ proc[j].scope = "install" /\ UNCHANGED <<file, chain, dev, routes, minted>>
        /\ proc' = [proc EXCEPT ![j].scope = "routes", ![j].todo = proc[j].sess]
        /\ rules' = InstallSourceRule(rules, Ula(j)) \/ rules' = WithoutFirst(rules, Ula(j))
    BY Zenon DEF ScopeInstall, disk, ghosts
  <1>2. LoopsTo(j, proc[j].trust, "routes", proc[j].sess)
    BY Zenon, <1>1, LoopFields
  <1>3. /\ Moves(j)
        /\ proc'[j].pc = proc[j].pc /\ proc'[j].ula = proc[j].ula
        /\ proc'[j].index = proc[j].index /\ proc'[j].disturbed = proc[j].disturbed
        /\ proc'[j].trust = proc[j].trust /\ proc'[j].scope = "routes"
    BY <1>2, LoopFields, LoopMoves
  <1>4. JoinerOk(j)
    BY Zenon DEF HostInv
  <1>5. proc[j].pc \notin {"down"} \cup Joining /\ j \in Scoped
    BY Zenon, <1>1, <1>4 DEF JoinerOk, LoopsOk
  <1>6. proc[j].pc \in Leaving => proc[j].disturbed
    BY Zenon, <1>1, <1>4 DEF JoinerOk, LoopsOk
  <1>7. FileOk(j)' /\ AddressOk(j)'
    BY Zenon, <1>1, <1>3, <1>4 DEF JoinerOk, FileOk, AddressOk, At, Ula
  <1>8. LoopsOk(j)'
    BY Zenon, <1>1, <1>3, <1>4, <1>5, <1>6 DEF JoinerOk, LoopsOk, At, Ula, Joining
  <1>9. LeaveOk(j)'
    <2>1. proc'[j].pc \in {"untrust_delete", "unrule", "left"} => proc'[j].disturbed
      BY Zenon, <1>3, <1>6 DEF Leaving
    <2>2. /\ proc'[j].pc = "untrust_delete" => proc'[j].index # 0
          /\ proc'[j].pc = "left" => proc'[j].ula \notin dev' /\ \A r \in routes' : r[1] # proc'[j].ula
      <3>1. UNCHANGED <<dev, routes>> /\ LeaveOk(j)
        BY Zenon, <1>1, <1>4 DEF JoinerOk
      <3> QED BY Zenon, <1>3, <3>1 DEF LeaveOk, At, Ula
    <2> QED BY Zenon, <2>1, <2>2 DEF LeaveOk, At, Ula
  <1>10. JoinerOk(j)'
    BY Zenon, <1>7, <1>8, <1>9 DEF JoinerOk
  <1>11. ~At(j, "down") /\ ~At(j, "persist")
    BY Zenon, <1>5 DEF At, Joining
  <1> QED BY Zenon, <1>1, <1>3, <1>5, <1>10, <1>11, RuleSettled

\* remove_source_rule, the flush of the table and the drop of the device.
LEMMA DropTunKeeps ==
  ASSUME HostInv, NEW j \in Joiners, DropTun(j)
  PROVE  HostInv'
  <1> PICK ok \in BOOLEAN :
        /\ rules' = IF ok /\ j \in Scoped THEN WithoutFirst(rules, Ula(j)) ELSE rules
        /\ proc' = [proc EXCEPT ![j].pc = "left", ![j].disturbed = @ \/ ~ok]
    BY Zenon DEF DropTun
  <1>1. /\ At(j, "unrule") /\ UNCHANGED <<file, chain, minted>>
        /\ dev' = dev \ {Ula(j)} /\ routes' = FlushTable(Ula(j))
    BY Zenon DEF DropTun, disk, ghosts
  <1>2. proc[j] \in Process /\ JoinerOk(j)
    BY Zenon DEF HostInv
  <1> DEFINE d == proc[j].disturbed \/ ~ok
             q == [proc[j] EXCEPT !.pc = "left", !.disturbed = d]
  <1>3. d \in BOOLEAN /\ (~d => ok /\ ~proc[j].disturbed)
    BY Zenon
  <1>4. proc' = [proc EXCEPT ![j] = q]
    BY Zenon
  <1> HIDE DEF d
  <1>5. /\ q \in Process /\ q.pc = "left" /\ q.ula = proc[j].ula /\ q.disturbed = d
        /\ q.trust = proc[j].trust /\ q.scope = proc[j].scope
    BY Zenon, <1>2, <1>3 DEF Process, Leaving
  <1> HIDE DEF q
  <1>6. Moves(j) /\ proc'[j] = q
    BY Zenon, <1>4, <1>5 DEF HostInv, Moves
  <1>7. rules' = rules \/ rules' = WithoutFirst(rules, Ula(j))
    BY Zenon
  <1>8. Ula(j) \in Address /\ Ula(j).of = j /\ ~At(j, "down")
    BY Zenon, <1>1, AddressKept DEF At
  <1>9. ~d => Ula(j) \notin Range(rules')
    <2>1. CASE j \in Scoped
      BY Zenon, <1>1, <1>3, <1>7, <1>8, <2>1, RuleStep
    <2>2. CASE j \notin Scoped
      BY Zenon, <1>8, <2>2 DEF HostInv, RulesOk
    <2> QED BY Zenon, <2>1, <2>2
  <1>10. Ula(j) \notin dev' /\ (\A r \in routes' : r[1] # Ula(j)) /\ routes' \subseteq routes
    BY Zenon, <1>1 DEF FlushTable
  <1>11. FileOk(j)' /\ AddressOk(j)'
    BY Zenon, <1>1, <1>2, <1>5, <1>6 DEF JoinerOk, FileOk, AddressOk, At, Ula
  <1>12. LoopsOk(j)'
    BY Zenon, <1>1, <1>2, <1>3, <1>5, <1>6 DEF JoinerOk, LoopsOk, At, Ula, Joining, Leaving
  <1>13. LeaveOk(j)'
    BY Zenon, <1>1, <1>2, <1>3, <1>5, <1>6, <1>9, <1>10 DEF JoinerOk, LeaveOk, At, Ula
  <1>14. JoinerOk(j)'
    BY Zenon, <1>11, <1>12, <1>13 DEF JoinerOk
  <1> QED BY Zenon, <1>1, <1>6, <1>7, <1>8, <1>10, <1>14, RuleSettled

-----------------------------------------------------------------------------
(* The INPUT chain.                                                        *)

\* Only the process of j moves, but a leave of another joiner that has resolved an index is
\* marked as disturbed.
MovesAndMarks(j) ==
  /\ proc' \in [Joiners -> Process]
  /\ \A i \in Joiners \ {j} :
       proc'[i] = IF At(i, "untrust_delete") THEN [proc[i] EXCEPT !.disturbed = TRUE] ELSE proc[i]

\* Marking a process keeps it one.
LEMMA Marked ==
  ASSUME HostInv, NEW i \in Joiners
  PROVE  /\ [proc[i] EXCEPT !.disturbed = TRUE] \in Process
         /\ [proc[i] EXCEPT !.disturbed = TRUE].disturbed = TRUE
  <1>1. proc[i] \in Process
    BY Zenon DEF HostInv
  <1> QED BY Zenon, <1>1 DEF Process

\* The invariant after a step of j that inserts its entry or deletes one.
LEMMA ChainSettled ==
  ASSUME HostInv, NEW j \in Joiners, ~At(j, "down"), MovesAndMarks(j),
         UNCHANGED <<file, rules, dev, routes, minted>>, ChainOk',
         Range(chain') \subseteq Range(chain) \cup {Ula(j)}, JoinerOk(j)'
  PROVE  HostInv'
  <1>1. RulesOk'
    BY Zenon, SameEntries
  <1>2. ASSUME NEW i \in Joiners \ {j} PROVE Unshaken(i)
    <2>1. ~At(i, "down") => Ula(i) # Ula(j)
      BY Zenon, OwnAddress
    <2>2. CASE At(i, "untrust_delete")
      <3>1. proc'[i] = [proc[i] EXCEPT !.disturbed = TRUE] /\ proc'[i].disturbed
        BY Zenon, <2>2, Marked DEF MovesAndMarks
      <3> QED BY Zenon, <2>1, <2>2, <3>1 DEF Unshaken
    <2>3. CASE ~At(i, "untrust_delete")
      <3>1. proc'[i] = proc[i]
        BY Zenon, <2>3 DEF MovesAndMarks
      <3> QED BY Zenon, <2>1, <2>3, <3>1 DEF Unshaken
    <2> QED BY Zenon, <2>2, <2>3
  <1>3. proc' \in [Joiners -> Process] /\ DOMAIN file' = Joiners /\ minted' \in Nat
    BY Zenon DEF MovesAndMarks, HostInv
  <1> QED BY Zenon, <1>1, <1>2, <1>3, Settled

\* `ip6tables -I INPUT 1` for an entry that is not there.
LEMMA InsertKeeps ==
  ASSUME HostInv, NEW j \in Joiners, NEW p \in Process, InsertAtTop(j, p),
         ~At(j, "down"), ~At(j, "persist"), j \in Trusting, Ula(j) \notin Range(chain),
         UNCHANGED <<file, rules, dev, routes, minted>>, JoinerOk(j)'
  PROVE  HostInv'
  <1>1. Ula(j) \in Address /\ Ula(j).of = j /\ Kept(Ula(j))
    BY Zenon, AddressKept
  <1>2. /\ chain \in Seq(Address \cup {Distro}) /\ IsInjective(chain)
        /\ \A u \in Range(chain) \ {Distro} : u.of \in Trusting /\ Kept(u)
    BY Zenon DEF HostInv, ChainOk
  <1>3. /\ chain' \in Seq(Address \cup {Distro}) /\ IsInjective(chain')
        /\ Range(chain') = Range(chain) \cup {Ula(j)}
    BY <1>1, <1>2, Pushed DEF InsertAtTop
  <1>4. \A u : Kept(u) => Kept(u)'
    BY Zenon DEF Kept
  <1>5. ChainOk'
    BY Zenon, <1>1, <1>2, <1>3, <1>4 DEF ChainOk
  <1>6. MovesAndMarks(j)
    BY Zenon, Marked DEF InsertAtTop, MovesAndMarks, HostInv
  <1> QED BY Zenon, <1>3, <1>5, <1>6, ChainSettled

\* The insert of the join.
LEMMA InsertTrustKeeps ==
  ASSUME HostInv, NEW j \in Joiners, InsertTrust(j)
  PROVE  HostInv'
  <1>1. At(j, "trust_insert") /\ UNCHANGED <<file, rules, dev, routes, minted>>
    BY Zenon DEF InsertTrust, disk, ghosts
  <1>2. proc[j] \in Process /\ JoinerOk(j)
    BY Zenon DEF HostInv
  <1>3. /\ j \in Trusting /\ Ula(j) \notin Range(chain)
        /\ proc[j].trust = "off" /\ proc[j].scope = "off"
    BY Zenon, <1>1, <1>2 DEF JoinerOk, LoopsOk, At, Joining
  <1> DEFINE q == [proc[j] EXCEPT !.pc = "seed"]
  <1>4. /\ q \in Process /\ q.pc = "seed" /\ q.ula = proc[j].ula
        /\ q.trust = proc[j].trust /\ q.scope = proc[j].scope
    BY Zenon, <1>2 DEF Process, Joining
  <1>5. CASE InsertAtTop(j, q)
    <2> HIDE DEF q
    <2>1. proc'[j] = q
      BY Zenon, <1>5 DEF InsertAtTop
    <2>2. FileOk(j)' /\ AddressOk(j)'
      BY Zenon, <1>1, <1>2, <1>4, <2>1 DEF JoinerOk, FileOk, AddressOk, At, Ula
    <2>3. LoopsOk(j)' /\ LeaveOk(j)'
      BY Zenon, <1>3, <1>4, <2>1 DEF LoopsOk, LeaveOk, At, Leaving
    <2>4. JoinerOk(j)'
      BY Zenon, <2>2, <2>3 DEF JoinerOk
    <2>5. ~At(j, "down") /\ ~At(j, "persist")
      BY Zenon, <1>1 DEF At
    <2> QED BY Zenon, <1>1, <1>3, <1>4, <1>5, <2>4, <2>5, InsertKeeps
  <1>6. CASE Goto(j, "seed") /\ UNCHANGED chain
    <2>1. /\ Moves(j)
          /\ proc'[j].pc = "seed" /\ proc'[j].ula = proc[j].ula
          /\ proc'[j].trust = proc[j].trust /\ proc'[j].scope = proc[j].scope
      BY Zenon, <1>6, GotoMoves DEF Joining
    <2>2. LoopsOk(j)' /\ LeaveOk(j)'
      BY Zenon, <1>3, <2>1 DEF LoopsOk, LeaveOk, At, Leaving
    <2>3. JoinerOk(j)'
      BY Zenon, <1>1, <1>6, <2>1, <2>2, SameJoiner DEF At
    <2> QED BY Zenon, <1>1, <1>6, <2>1, <2>3, QuietStep
  <1> QED BY Zenon, <1>5, <1>6 DEF InsertTrust

\* The insert of trust_loop, possibly of a task that the leave gave up on.
LEMMA TrustInsertKeeps ==
  ASSUME HostInv, NEW j \in Joiners, TrustInsert(j)
  PROVE  HostInv'
  <1>1. proc[j].trust = "insert" /\ UNCHANGED <<file, rules, dev, routes, minted>>
    BY Zenon DEF TrustInsert, disk, ghosts
  <1>2. proc[j] \in Process /\ JoinerOk(j)
    BY Zenon DEF HostInv
  <1>3. /\ j \in Trusting /\ Ula(j) \notin Range(chain)
        /\ proc[j].pc \notin {"down"} \cup Joining
        /\ proc[j].pc \in Leaving => proc[j].disturbed
    BY Zenon, <1>1, <1>2 DEF JoinerOk, LoopsOk
  <1> DEFINE q == [proc[j] EXCEPT !.trust = "idle"]
  <1>4. /\ q \in Process /\ q.pc = proc[j].pc /\ q.ula = proc[j].ula /\ q.index = proc[j].index
        /\ q.trust = "idle" /\ q.scope = proc[j].scope /\ q.disturbed = proc[j].disturbed
    BY Zenon, <1>2 DEF Process
  <1>5. CASE InsertAtTop(j, q)
    <2> HIDE DEF q
    <2>1. proc'[j] = q
      BY Zenon, <1>5 DEF InsertAtTop
    <2>2. FileOk(j)' /\ AddressOk(j)'
      BY Zenon, <1>1, <1>2, <1>4, <2>1 DEF JoinerOk, FileOk, AddressOk, At, Ula
    <2>3. LoopsOk(j)'
      BY Zenon, <1>2, <1>3, <1>4, <2>1 DEF JoinerOk, LoopsOk, At, Joining
    <2>4. LeaveOk(j)'
      <3>1. proc'[j].pc \in {"untrust_delete", "unrule", "left"} => proc'[j].disturbed
        BY Zenon, <1>3, <1>4, <2>1 DEF Leaving
      <3>2. /\ proc'[j].pc = "untrust_delete" => proc'[j].index # 0
            /\ proc'[j].pc = "left" => proc'[j].ula \notin dev' /\ \A r \in routes' : r[1] # proc'[j].ula
        <4>1. UNCHANGED <<dev, routes>> /\ LeaveOk(j)
          BY Zenon, <1>1, <1>2 DEF JoinerOk
        <4> QED BY Zenon, <1>4, <2>1, <4>1 DEF LeaveOk, At, Ula
      <3> QED BY Zenon, <3>1, <3>2 DEF LeaveOk, At, Ula
    <2>5. JoinerOk(j)'
      BY Zenon, <2>2, <2>3, <2>4 DEF JoinerOk
    <2>6. ~At(j, "down") /\ ~At(j, "persist")
      BY Zenon, <1>3 DEF At, Joining
    <2> QED BY Zenon, <1>1, <1>3, <1>4, <1>5, <2>5, <2>6, InsertKeeps
  <1>6. CASE proc' = [proc EXCEPT ![j].trust = "idle"] /\ UNCHANGED chain
    <2>1. LoopsTo(j, "idle", proc[j].scope, proc[j].todo)
      BY Zenon, <1>6, LoopFields
    <2> QED BY <1>1, <1>6, <2>1, LoopFields, InsertMissing, LoopStep
  <1> QED BY Zenon, <1>5, <1>6 DEF TrustInsert

\* `ip6tables -D INPUT n`, whatever is at that index by now.
LEMMA UntrustDeleteKeeps ==
  ASSUME HostInv, NEW j \in Joiners, UntrustDelete(j)
  PROVE  HostInv'
  <1> PICK ok \in BOOLEAN :
       /\ chain' = IF ok /\ proc[j].index <= Len(chain) THEN Delete(chain, proc[j].index)
                                                        ELSE chain
       /\ proc' = [i \in Joiners |->
            IF i = j THEN [proc[j] EXCEPT !.pc = "unrule", !.index = 0,
                                          !.disturbed = @ \/ ~ok]
            ELSE IF At(i, "untrust_delete") THEN [proc[i] EXCEPT !.disturbed = TRUE]
            ELSE proc[i]]
    BY Zenon DEF UntrustDelete
  <1>1. At(j, "untrust_delete") /\ UNCHANGED <<file, rules, dev, routes, minted>>
    BY Zenon DEF UntrustDelete, disk, ghosts
  <1>2. proc[j] \in Process /\ JoinerOk(j)
    BY Zenon DEF HostInv
  <1>3. proc[j].index \in Nat \ {0}
    BY Zenon, <1>1, <1>2 DEF JoinerOk, LeaveOk, Process
  <1> DEFINE d == proc[j].disturbed \/ ~ok
             q == [proc[j] EXCEPT !.pc = "unrule", !.index = 0, !.disturbed = d]
  <1>4. d \in BOOLEAN /\ (~d => ok /\ ~proc[j].disturbed)
    BY Zenon
  <1>5. /\ proc'[j] = q
        /\ \A i \in Joiners \ {j} : proc'[i] =
             IF At(i, "untrust_delete") THEN [proc[i] EXCEPT !.disturbed = TRUE] ELSE proc[i]
    BY Zenon
  <1> HIDE DEF d
  <1>6. /\ q \in Process /\ q.pc = "unrule" /\ q.ula = proc[j].ula /\ q.disturbed = d
        /\ q.trust = proc[j].trust /\ q.scope = proc[j].scope
    BY Zenon, <1>2, <1>4 DEF Process, Leaving
  <1> HIDE DEF q
  <1>7. MovesAndMarks(j)
    <2>1. \A i \in Joiners : proc'[i] \in Process
      BY Zenon, <1>5, <1>6, Marked DEF HostInv
    <2>2. proc' \in [Joiners -> Process]
      BY Zenon, <2>1
    <2> QED BY Zenon, <1>5, <2>2 DEF MovesAndMarks
  <1>8. /\ chain \in Seq(Address \cup {Distro}) /\ IsInjective(chain)
        /\ \A u \in Range(chain) \ {Distro} : u.of \in Trusting /\ Kept(u)
    BY Zenon DEF HostInv, ChainOk
  <1>9. /\ chain' \in Seq(Address \cup {Distro}) /\ IsInjective(chain')
        /\ Range(chain') \subseteq Range(chain)
        /\ ok /\ proc[j].index <= Len(chain) =>
             Range(chain') = Range(chain) \ {chain[proc[j].index]}
    <2>1. CASE ok /\ proc[j].index <= Len(chain)
      <3>1. proc[j].index \in 1..Len(chain)
        BY <1>3, <1>8, <2>1
      <3> QED BY <1>8, <2>1, <3>1, Removed
    <2>2. CASE ~(ok /\ proc[j].index <= Len(chain))
      BY Zenon, <1>8, <2>2
    <2> QED BY Zenon, <2>1, <2>2
  <1>10. \A u : Kept(u) => Kept(u)'
    BY Zenon, <1>1 DEF Kept
  <1>11. ChainOk'
    BY Zenon, <1>8, <1>9, <1>10 DEF ChainOk
  <1>12. ~d => Ula(j) \notin Range(chain')
    <2> SUFFICES ASSUME ~d PROVE Ula(j) \notin Range(chain')
      BY Zenon
    <2>1. proc[j].index \in 1..Len(chain) /\ chain[proc[j].index] = Ula(j)
      BY Zenon, <1>1, <1>2, <1>4 DEF JoinerOk, LeaveOk
    <2> QED BY <1>3, <1>4, <1>8, <1>9, <2>1
  <1>13. FileOk(j)' /\ AddressOk(j)'
    BY Zenon, <1>1, <1>2, <1>5, <1>6 DEF JoinerOk, FileOk, AddressOk, At, Ula
  <1>14. LoopsOk(j)'
    <2>1. proc'[j] = q /\ Range(chain') \subseteq Range(chain) /\ LoopsOk(j)
      BY Zenon, <1>2, <1>5, <1>9 DEF JoinerOk
    <2> QED BY Zenon, <1>1, <1>4, <1>6, <2>1 DEF LoopsOk, At, Ula, Joining, Leaving
  <1>15. LeaveOk(j)'
    BY Zenon, <1>5, <1>6, <1>12 DEF LeaveOk, At, Ula
  <1>16. JoinerOk(j)'
    BY Zenon, <1>13, <1>14, <1>15 DEF JoinerOk
  <1>17. ~At(j, "down") /\ Range(chain') \subseteq Range(chain) \cup {Ula(j)}
    BY Zenon, <1>1, <1>9 DEF At
  <1> QED BY Zenon, <1>1, <1>7, <1>11, <1>16, <1>17, ChainSettled

-----------------------------------------------------------------------------
(* The whole host.                                                         *)

\* What a reload or a restart leaves in a list is in order.
LEMMA BareLists ==
  /\ <<Distro>> \in Seq(Address \cup {Distro}) /\ IsInjective(<<Distro>>)
  /\ Range(<<Distro>>) = {Distro}
  /\ <<>> \in Seq(Address) /\ IsInjective(<<>>) /\ Range(<<>>) = {}
  <1>1. <<Distro>> \in Seq(Address \cup {Distro})
    OBVIOUS
  <1>2. DOMAIN <<Distro>> = {1} /\ <<Distro>>[1] = Distro
    OBVIOUS
  <1>3. <<>> \in Seq(Address) /\ Len(<<>>) = 0
    OBVIOUS
  <1>4. DOMAIN <<>> = {}
    BY <1>3
  <1>5. IsInjective(<<Distro>>) /\ Range(<<Distro>>) = {Distro}
    BY Zenon, <1>2 DEF IsInjective, Range
  <1>6. IsInjective(<<>>) /\ Range(<<>>) = {}
    BY Zenon, <1>4 DEF IsInjective, Range
  <1> QED BY Zenon, <1>1, <1>3, <1>5, <1>6

\* A firewall reload empties the chain, a network reload the policy rules.
LEMMA ReloadKeeps ==
  ASSUME HostInv, Reload
  PROVE  HostInv'
  <1>1. UNCHANGED <<file, dev, routes, minted>>
    BY Zenon DEF Reload, disk, ghosts
  <1>2. CASE /\ chain' = <<Distro>>
             /\ proc' = [j \in Joiners |->
                           [proc[j] EXCEPT !.disturbed = @ \/ At(j, "untrust_delete")]]
             /\ UNCHANGED rules
    <2>1. ChainOk' /\ RulesOk'
      BY Zenon, <1>1, <1>2, BareLists, SameEntries DEF ChainOk
    <2>2. ASSUME NEW i \in Joiners PROVE proc'[i] \in Process /\ Unshaken(i)
      <3>1. proc[i] \in Process
        BY Zenon DEF HostInv
      <3>2. proc'[i] = [proc[i] EXCEPT !.disturbed = proc[i].disturbed \/ At(i, "untrust_delete")]
        BY Zenon, <1>2
      <3>3. CASE At(i, "untrust_delete")
        <4>1. (proc[i].disturbed \/ At(i, "untrust_delete")) = TRUE
          BY Zenon, <3>3
        <4>2. proc'[i] = [proc[i] EXCEPT !.disturbed = TRUE]
          BY Zenon, <3>2, <4>1
        <4>3. proc'[i] \in Process /\ proc'[i].disturbed
          BY Zenon, <4>2, Marked
        <4>4. Ula(i) \in Range(chain') => Ula(i) \notin Address
          BY Zenon, <1>2, BareLists, HostAssumption
        <4>5. Ula(i) \in Address
          BY Zenon, <3>3 DEF HostInv, JoinerOk, AddressOk, At
        <4> QED BY Zenon, <1>1, <1>2, <3>3, <4>2, <4>3, <4>4, <4>5 DEF Unshaken
      <3>4. CASE ~At(i, "untrust_delete")
        <4>1. (proc[i].disturbed \/ At(i, "untrust_delete")) = proc[i].disturbed
          <5>1. proc[i].disturbed \in BOOLEAN
            BY Zenon, <3>1 DEF Process
          <5> QED BY Zenon, <3>4, <5>1
        <4>2. proc'[i] = proc[i]
          BY <3>1, <3>2, <4>1 DEF Process
        <4>3. Ula(i) \in Range(chain') => Ula(i) \notin Address
          BY Zenon, <1>2, BareLists, HostAssumption
        <4>4. ~At(i, "down") => Ula(i) \in Address
          BY Zenon DEF HostInv, JoinerOk, AddressOk
        <4> QED BY Zenon, <1>1, <1>2, <3>1, <3>4, <4>2, <4>3, <4>4 DEF Unshaken
      <3> QED BY Zenon, <3>3, <3>4
    <2>3. proc' \in [Joiners -> Process]
      BY Zenon, <1>2, <2>2
    <2>4. ASSUME NEW i \in Joiners PROVE JoinerOk(i)'
      BY Zenon, <2>2, OthersOk DEF HostInv
    <2> QED BY Zenon, <1>1, <2>1, <2>3, <2>4 DEF HostInv
  <1>3. CASE rules' = <<>> /\ UNCHANGED <<chain, proc>>
    <2>1. ChainOk' /\ RulesOk'
      BY Zenon, <1>1, <1>3, BareLists, SameEntries DEF RulesOk
    <2>2. ASSUME NEW i \in Joiners PROVE JoinerOk(i)'
      <3>1. Unshaken(i)
        BY Zenon, <1>1, <1>3, BareLists DEF Unshaken
      <3> QED BY Zenon, <3>1, OthersOk DEF HostInv
    <2> QED BY Zenon, <1>1, <1>3, <2>1, <2>2 DEF HostInv
  <1> QED BY Zenon, <1>2, <1>3 DEF Reload

\* A power cut or a reboot: nothing is left on the host, and a torn file is none.
LEMMA HostDownKeeps ==
  ASSUME HostInv, HostDown, UNCHANGED minted, DOMAIN file' = Joiners,
         \A j \in Joiners : file'[j] = file[j] \/ file'[j] = Torn
  PROVE  HostInv'
  <1>1. /\ proc' = [j \in Joiners |-> Down]
        /\ chain' = <<Distro>> /\ rules' = <<>>
    BY Zenon DEF HostDown
  <1>2. ChainOk' /\ RulesOk'
    BY Zenon, <1>1, BareLists DEF ChainOk, RulesOk
  <1>3. ASSUME NEW j \in Joiners PROVE JoinerOk(j)'
    <2>1. FileOk(j)'
      BY Zenon DEF HostInv, JoinerOk, FileOk
    <2> QED BY Zenon, <1>1, <2>1, DownKeeps
  <1>4. proc' \in [Joiners -> Process]
    BY Zenon, <1>1, DownProcess
  <1> QED BY Zenon, <1>2, <1>3, <1>4 DEF HostInv

\* A power cut may tear the identity files.
LEMMA PowerCutKeeps ==
  ASSUME HostInv, PowerCut
  PROVE  HostInv'
  <1>1. HostDown /\ UNCHANGED minted
    BY Zenon DEF PowerCut
  <1>2. DOMAIN file' = Joiners /\ \A j \in Joiners : file'[j] = file[j] \/ file'[j] = Torn
    BY Zenon DEF PowerCut
  <1> QED BY Zenon, <1>1, <1>2, HostDownKeeps

\* A reboot on command, or one that the guard refuses.
LEMMA RebootKeeps ==
  ASSUME HostInv, NEW j \in Joiners, RebootHost(j)
  PROVE  HostInv'
  <1>1. UNCHANGED <<file, minted>> /\ DOMAIN file = Joiners
    BY Zenon DEF RebootHost, HostInv
  <1>2. HostDown \/ UNCHANGED <<kernel, proc>>
    BY Zenon DEF RebootHost, TryReboot
  <1>3. CASE HostDown
    BY Zenon, <1>1, <1>3, HostDownKeeps
  <1>4. CASE UNCHANGED <<kernel, proc>>
    <2>1. UNCHANGED <<dev, chain, rules, routes, proc>>
      BY Zenon, <1>4 DEF kernel
    <2>2. ASSUME NEW i \in Joiners PROVE JoinerOk(i)'
      <3>1. Unshaken(i)
        BY Zenon, <1>1, <2>1 DEF Unshaken
      <3> QED BY Zenon, <3>1, OthersOk DEF HostInv
    <2> QED BY Zenon, <1>1, <2>1, <2>2, SameEntries DEF HostInv
  <1> QED BY Zenon, <1>2, <1>3, <1>4

\* A step of one joiner keeps the invariant.
LEMMA JoinerKeeps ==
  ASSUME HostInv, NEW j \in Joiners,
       \/ Register(j) \/ Persist(j) \/ OpenTun(j) \/ JoinFails(j)
       \/ EnsureTrust(j) \/ InsertTrust(j) \/ Seed(j)
       \/ Heartbeat(j) \/ TrustTick(j) \/ TrustInsert(j)
       \/ \E op \in {"add", "del"}, p \in Visible[j] : RouteCommand(j, op, p)
       \/ ScopeTick(j) \/ ScopeInstall(j) \/ ScopeRoute(j)
       \/ Leave(j) \/ LoopsStop(j) \/ AwaitTasks(j) \/ UntrustList(j) \/ UntrustDelete(j)
       \/ DropTun(j) \/ Finish(j) \/ Kill(j) \/ RebootHost(j)
  PROVE  HostInv'
  <1>1. ASSUME Finish(j) \/ Kill(j) PROVE HostInv'
    <2>1. Gone(j) /\ UNCHANGED <<file, minted>>
      BY Zenon, <1>1 DEF Finish, Kill, disk, ghosts
    <2> QED BY Zenon, <2>1, GoneKeeps
  <1> QED BY Zenon, <1>1, RegisterKeeps, PersistKeeps, OpenTunKeeps, JoinFailsKeeps, EnsureTrustKeeps,
             InsertTrustKeeps, SeedKeeps, HeartbeatKeeps, TrustTickKeeps, TrustInsertKeeps,
             RouteCommandKeeps, ScopeTickKeeps, ScopeInstallKeeps, ScopeRouteKeeps, LeaveKeeps,
             LoopsStopKeeps, AwaitTasksKeeps, UntrustListKeeps, UntrustDeleteKeeps, DropTunKeeps,
             RebootKeeps

\* What is on the host, in the identity files and in the processes fits together, over
\* failing commands, reloads, kills, power cuts and reboots.
THEOREM HostInductive == Spec => []HostInv
  <1>1. Init => HostInv
    <2> SUFFICES ASSUME Init PROVE HostInv
      BY Zenon
    <2>1. /\ proc = [j \in Joiners |-> Down] /\ file = [j \in Joiners |-> None]
          /\ chain = <<Distro>> /\ rules = <<>> /\ minted = 0
      BY Zenon DEF Init
    <2>2. ChainOk /\ RulesOk
      BY Zenon, <2>1, BareLists DEF ChainOk, RulesOk
    <2>3. ASSUME NEW j \in Joiners PROVE JoinerOk(j)
      <3>1. proc[j].pc = "down" /\ proc[j].trust = "off" /\ proc[j].scope = "off" /\ file[j] = None
        BY Zenon, <2>1, DownProcess
      <3> QED BY Zenon, <3>1 DEF JoinerOk, FileOk, AddressOk, LoopsOk, LeaveOk, At, Leaving
    <2> QED BY Zenon, <2>1, <2>2, <2>3, DownProcess DEF HostInv
  <1>2. HostInv /\ [Next]_vars => HostInv'
    <2> SUFFICES ASSUME HostInv, [Next]_vars PROVE HostInv'
      BY Zenon
    <2>1. ASSUME UNCHANGED <<file, dev, chain, rules, routes, proc, minted>> PROVE HostInv'
      <3>1. ASSUME NEW i \in Joiners PROVE JoinerOk(i)'
        <4>1. Unshaken(i)
          BY Zenon, <2>1 DEF Unshaken
        <4> QED BY Zenon, <4>1, OthersOk DEF HostInv
      <3> QED BY Zenon, <2>1, <3>1, SameEntries DEF HostInv
    <2>2. CASE UNCHANGED vars
      BY Zenon, <2>1, <2>2 DEF vars, disk, kernel, ghosts
    <2>3. CASE Tick
      BY Zenon, <2>1, <2>3 DEF Tick, disk, kernel
    <2>4. CASE Reload
      BY Zenon, <2>4, ReloadKeeps
    <2>5. CASE PowerCut
      BY Zenon, <2>5, PowerCutKeeps
    <2>6. ASSUME NEW j \in Joiners,
       \/ Register(j) \/ Persist(j) \/ OpenTun(j) \/ JoinFails(j)
       \/ EnsureTrust(j) \/ InsertTrust(j) \/ Seed(j)
       \/ Heartbeat(j) \/ TrustTick(j) \/ TrustInsert(j)
       \/ \E op \in {"add", "del"}, p \in Visible[j] : RouteCommand(j, op, p)
       \/ ScopeTick(j) \/ ScopeInstall(j) \/ ScopeRoute(j)
       \/ Leave(j) \/ LoopsStop(j) \/ AwaitTasks(j) \/ UntrustList(j) \/ UntrustDelete(j)
       \/ DropTun(j) \/ Finish(j) \/ Kill(j) \/ RebootHost(j)
          PROVE HostInv'
      BY Zenon, <2>6, JoinerKeeps
    <2> QED BY Zenon, <2>2, <2>3, <2>4, <2>5, <2>6 DEF Next
  <1> QED BY <1>1, <1>2, PTL DEF Spec

\* A leave that met no failure, no hung task and no change of the chain under it leaves
\* neither trust rule nor policy rule nor route of its address on the host.
THEOREM LeavesClean == Spec => []LeftClean
  <1>1. HostInv => LeftClean
    <2> SUFFICES ASSUME HostInv, NEW j \in Joiners, At(j, "left"), ~proc[j].disturbed
                 PROVE  ~Trusted(Ula(j)) /\ ~Ruled(Ula(j)) /\ \A r \in routes : r[1] # Ula(j)
      BY Zenon DEF LeftClean
    <2>1. LeaveOk(j) /\ chain \in Seq(Address \cup {Distro}) /\ IsInjective(chain)
      BY Zenon DEF HostInv, JoinerOk, ChainOk
    <2>2. Ula(j) \notin Range(chain) /\ Ula(j) \notin Range(rules) /\ \A r \in routes : r[1] # Ula(j)
      BY Zenon, <2>1 DEF LeaveOk, At
    <2>3. FindRuleIndex(Ula(j)) = 0
      BY Zenon, <2>1, <2>2, FirstFound DEF FindRuleIndex
    <2> QED BY <2>2, <2>3 DEF Trusted, Ruled
  <1> QED BY <1>1, HostInductive, PTL

\* Whatever a joiner leaves on the host when it is killed is under an address that its
\* identity file holds, so that the next start adopts it, unless the coordinator granted
\* another address than the one asked for.
THEOREM LeaksAreReadopted == Spec => []LeaksReadopted
  <1>1. HostInv => LeaksReadopted
    <2> SUFFICES ASSUME HostInv, NEW u \in (Range(chain) \ {Distro}) \cup Range(rules)
                 PROVE  u.moved \/ file[u.of] = Torn
                        \/ (file[u.of] # None /\ file[u.of].ula = u)
      BY Zenon DEF LeaksReadopted
    <2>1. Kept(u)
      BY Zenon DEF HostInv, ChainOk, RulesOk
    <2> QED BY Zenon, <2>1, HostAssumption DEF Kept, Identity
  <1> QED BY <1>1, HostInductive, PTL

-----------------------------------------------------------------------------
(* The reboot guard.                                                       *)

Reboot == [age : Nat, recorded : BOOLEAN]

\* The recorded reboots of the last window.
Counted == {i \in DOMAIN reboots : reboots[i].recorded /\ reboots[i].age <= Window}

\* A recorded reboot is in the history for as long as it counts.
RebootInv ==
  /\ reboots \in Seq(Reboot) /\ history \subseteq DOMAIN reboots
  /\ Counted \subseteq history
  /\ RebootsCapped

\* What counts is finite, and what is left of it counts no more.
LEMMA CountedLess ==
  ASSUME RebootInv, NEW S \in SUBSET Counted
  PROVE  Cardinality(S) <= MaxPerWindow
  <1>1. DOMAIN reboots = 1..Len(reboots) /\ Len(reboots) \in Nat
    BY DEF RebootInv
  <1>2. IsFiniteSet(1..Len(reboots))
    BY <1>1, FS_Interval
  <1>3. IsFiniteSet(Counted) /\ Cardinality(Counted) <= MaxPerWindow
    BY Zenon, <1>1, <1>2, FS_Subset DEF Counted, RebootInv, RebootsCapped
  <1>4. Cardinality(Counted) \in Nat /\ Cardinality(S) \in Nat /\ Cardinality(S) <= Cardinality(Counted)
    BY Zenon, <1>3, FS_Subset, FS_CardinalityType
  <1> QED BY <1>3, <1>4, HostAssumption

\* A step in which no new reboot counts and the history keeps those that do.
LEMMA FewerCount ==
  ASSUME RebootInv, reboots' \in Seq(Reboot), history' \subseteq DOMAIN reboots',
         Counted' \subseteq Counted, Counted' \subseteq history'
  PROVE  RebootInv'
  <1>1. PICK S : S = Counted'
    BY Zenon
  <1>2. Cardinality(S) <= MaxPerWindow
    BY Zenon, <1>1, CountedLess
  <1>3. RebootsCapped'
    BY Zenon, <1>1, <1>2 DEF RebootsCapped, Counted
  <1> QED BY Zenon, <1>3 DEF RebootInv

\* A power cut may lose the history, and with it every record.
LEMMA PowerCutCounts ==
  ASSUME RebootInv, PowerCut
  PROVE  RebootInv'
  <1>1. CASE history' = history
    <2>1. reboots' = reboots
      BY Zenon, <1>1 DEF PowerCut
    <2> QED BY Zenon, <1>1, <2>1 DEF RebootInv, Counted, RebootsCapped
  <1>2. CASE history' # history
    <2>1. /\ history' = {}
          /\ reboots' = [i \in DOMAIN reboots |-> [reboots[i] EXCEPT !.recorded = FALSE]]
      BY Zenon, <1>2 DEF PowerCut
    <2>2. reboots \in [1..Len(reboots) -> Reboot] /\ DOMAIN reboots = 1..Len(reboots)
          /\ Len(reboots) \in Nat
      BY DEF RebootInv
    <2>3. ASSUME NEW i \in 1..Len(reboots)
          PROVE  reboots'[i] \in Reboot /\ reboots'[i].recorded = FALSE
      <3>1. reboots[i] \in Reboot
        BY Zenon, <2>2
      <3>2. reboots'[i] = [reboots[i] EXCEPT !.recorded = FALSE]
        BY Zenon, <2>1, <2>2
      <3> QED BY Zenon, <3>1, <3>2 DEF Reboot
    <2>4. reboots' \in Seq(Reboot) /\ DOMAIN reboots' = 1..Len(reboots)
      <3>1. reboots' \in [1..Len(reboots) -> Reboot]
        BY Zenon, <2>1, <2>2, <2>3
      <3> QED BY <2>2, <3>1
    <2>5. Counted' = {}
      BY Zenon, <2>3, <2>4 DEF Counted
    <2> QED BY Zenon, <2>1, <2>4, <2>5, FewerCount
  <1> QED BY Zenon, <1>1, <1>2

\* With time reboots only cease to count.
LEMMA TickCounts ==
  ASSUME RebootInv, Tick
  PROVE  RebootInv'
  <1>1. /\ history' = history
        /\ reboots' = [i \in DOMAIN reboots |->
                   [reboots[i] EXCEPT !.age = IF @ > Window THEN @ ELSE @ + 1]]
    BY Zenon DEF Tick, disk
  <1>2. reboots \in [1..Len(reboots) -> Reboot] /\ DOMAIN reboots = 1..Len(reboots)
        /\ Len(reboots) \in Nat /\ history \subseteq DOMAIN reboots /\ Counted \subseteq history
    BY DEF RebootInv
  <1>3. ASSUME NEW i \in 1..Len(reboots)
        PROVE  /\ reboots'[i] \in Reboot /\ reboots'[i].recorded = reboots[i].recorded
               /\ reboots'[i].age <= Window => reboots[i].age <= Window
    <2>1. reboots[i] \in Reboot
      BY Zenon, <1>2
    <2> PICK age : age = IF reboots[i].age > Window THEN reboots[i].age ELSE reboots[i].age + 1
      BY Zenon
    <2>2. reboots'[i] = [reboots[i] EXCEPT !.age = age]
      BY Zenon, <1>1, <1>2
    <2>3. age \in Nat /\ (age <= Window => reboots[i].age <= Window)
      BY <2>1, HostAssumption DEF Reboot
    <2> QED BY Zenon, <2>1, <2>2, <2>3 DEF Reboot
  <1>4. reboots' \in Seq(Reboot) /\ DOMAIN reboots' = 1..Len(reboots)
    <2>1. DOMAIN reboots' = 1..Len(reboots)
      BY Zenon, <1>1, <1>2
    <2>2. reboots' = [i \in 1..Len(reboots) |-> reboots'[i]]
      BY Zenon, <1>1, <2>1
    <2>3. reboots' \in [1..Len(reboots) -> Reboot]
      BY Zenon, <1>3, <2>2
    <2> QED BY <1>2, <2>1, <2>3
  <1>5. Counted' \subseteq Counted
    BY Zenon, <1>2, <1>3, <1>4 DEF Counted
  <1> QED BY Zenon, <1>1, <1>2, <1>4, <1>5, FewerCount

\* A reboot more.
LEMMA Longer ==
  ASSUME NEW s \in Seq(Reboot), NEW r \in Reboot
  PROVE  /\ Append(s, r) \in Seq(Reboot) /\ Len(Append(s, r)) = Len(s) + 1
         /\ DOMAIN Append(s, r) = 1..(Len(s) + 1)
         /\ Append(s, r)[Len(s) + 1] = r /\ \A i \in 1..Len(s) : Append(s, r)[i] = s[i]
  OBVIOUS

\* try_reboot prunes, refuses at the limit, and below it records and goes on.
LEMMA RebootCounts ==
  ASSUME RebootInv, TryReboot(Recent(history))
  PROVE  RebootInv'
  <1> DEFINE recent == Recent(history)
             n == Len(reboots) + 1
  <1> PICK saved \in BOOLEAN :
        IF Cardinality(recent) >= MaxPerWindow
        THEN Save(recent, saved) /\ UNCHANGED <<kernel, proc, reboots>>
        ELSE /\ Save(recent \cup {n}, saved)
             /\ reboots' = Append(reboots, [age |-> 0, recorded |-> saved])
             /\ HostDown
    BY Zenon DEF TryReboot
  <1>1. /\ reboots \in Seq(Reboot) /\ DOMAIN reboots = 1..Len(reboots) /\ Len(reboots) \in Nat
        /\ history \subseteq 1..Len(reboots) /\ Counted \subseteq history
    BY DEF RebootInv
  <1>2. recent \subseteq history /\ Counted \subseteq recent
    BY Zenon, <1>1 DEF Recent, Counted
  <1> HIDE DEF recent
  <1>3. CASE Cardinality(recent) >= MaxPerWindow
    <2>1. (history' = recent \/ history' = history) /\ reboots' = reboots
      BY Zenon, <1>3 DEF Save
    <2>2. Counted' = Counted
      BY Zenon, <2>1 DEF Counted
    <2> QED BY Zenon, <1>1, <1>2, <2>1, <2>2, FewerCount
  <1>4. CASE ~(Cardinality(recent) >= MaxPerWindow)
    <2>1. /\ history' = IF saved THEN recent \cup {n} ELSE history
          /\ reboots' = Append(reboots, [age |-> 0, recorded |-> saved])
      BY Zenon, <1>4 DEF Save
    <2> PICK r : r = [age |-> 0, recorded |-> saved]
      BY Zenon
    <2>2. r \in Reboot /\ r.age = 0 /\ r.recorded = saved
      BY Zenon DEF Reboot
    <2>3. /\ reboots' \in Seq(Reboot) /\ Len(reboots') = n /\ DOMAIN reboots' = 1..n
          /\ reboots'[n] = r /\ \A i \in 1..Len(reboots) : reboots'[i] = reboots[i]
      <3>1. reboots' = Append(reboots, r)
        BY Zenon, <2>1
      <3> QED BY Zenon, <1>1, <2>2, <3>1, Longer
    <2>4. history' \subseteq DOMAIN reboots'
      <3>1. 1..Len(reboots) \subseteq 1..n /\ n \in 1..n
        BY <1>1
      <3>2. DOMAIN reboots' = 1..n
        BY Zenon, <2>3
      <3>3. history' \subseteq history \cup {n}
        BY Zenon, <1>2, <2>1
      <3> HIDE DEF n
      <3> QED BY Zenon, <1>1, <3>1, <3>2, <3>3
    <2>5. CASE saved = FALSE
      <3>1. Counted' \subseteq Counted
        BY <1>1, <2>2, <2>3, <2>5 DEF Counted
      <3>2. history' = history
        BY Zenon, <2>1, <2>5
      <3> QED BY Zenon, <1>1, <2>3, <2>4, <3>1, <3>2, FewerCount
    <2>6. CASE saved = TRUE
      <3>1. Counted' \subseteq recent \cup {n} /\ history' = recent \cup {n}
        <4>1. Counted' \subseteq Counted \cup {n}
          BY <1>1, <2>3 DEF Counted
        <4> QED BY Zenon, <1>2, <2>1, <2>6, <4>1
      <3>2. IsFiniteSet(recent) /\ n \notin recent
        <4>1. IsFiniteSet(1..Len(reboots)) /\ recent \subseteq 1..Len(reboots)
          BY <1>1, <1>2, FS_Interval
        <4>2. n \notin 1..Len(reboots)
          BY <1>1
        <4> QED BY Zenon, <4>1, <4>2, FS_Subset
      <3>3. /\ IsFiniteSet(recent \cup {n}) /\ Cardinality(recent) \in Nat
            /\ Cardinality(recent \cup {n}) = Cardinality(recent) + 1
        BY Zenon, <3>2, FS_AddElement, FS_CardinalityType
      <3>4. PICK S : S = Counted'
        BY Zenon
      <3>5. IsFiniteSet(S) /\ Cardinality(S) <= Cardinality(recent \cup {n})
        BY Zenon, <3>1, <3>3, <3>4, FS_Subset
      <3>6. Cardinality(S) \in Nat
        BY Zenon, <3>5, FS_CardinalityType
      <3>7. Cardinality(S) <= MaxPerWindow
        BY <1>4, <3>3, <3>5, <3>6, HostAssumption
      <3>8. RebootsCapped'
        BY Zenon, <3>4, <3>7 DEF RebootsCapped, Counted
      <3> QED BY Zenon, <2>3, <2>4, <3>1, <3>8 DEF RebootInv
    <2> QED BY Zenon, <2>5, <2>6
  <1> QED BY Zenon, <1>3, <1>4

\* The steps of a joiner other than a reboot leave the guard's file alone.
LEMMA OtherCounts ==
  ASSUME NEW j \in Joiners,
       \/ Register(j) \/ Persist(j) \/ OpenTun(j) \/ JoinFails(j)
       \/ EnsureTrust(j) \/ InsertTrust(j) \/ Seed(j)
       \/ Heartbeat(j) \/ TrustTick(j) \/ TrustInsert(j)
       \/ \E op \in {"add", "del"}, p \in Visible[j] : RouteCommand(j, op, p)
       \/ ScopeTick(j) \/ ScopeInstall(j) \/ ScopeRoute(j)
       \/ Leave(j) \/ LoopsStop(j) \/ AwaitTasks(j) \/ UntrustList(j) \/ UntrustDelete(j)
       \/ DropTun(j) \/ Finish(j) \/ Kill(j)
  PROVE  UNCHANGED <<history, reboots>>
  <1>1. Register(j) \/ Persist(j) \/ OpenTun(j) \/ JoinFails(j) => UNCHANGED <<history, reboots>>
    BY Zenon DEF Register, Persist, OpenTun, JoinFails, disk, ghosts
  <1>2. EnsureTrust(j) \/ InsertTrust(j) \/ Seed(j) \/ Heartbeat(j) => UNCHANGED <<history, reboots>>
    BY Zenon DEF EnsureTrust, InsertTrust, Seed, Heartbeat, disk, ghosts
  <1>3. TrustTick(j) \/ TrustInsert(j) \/ ScopeTick(j) \/ ScopeInstall(j) \/ ScopeRoute(j)
          => UNCHANGED <<history, reboots>>
    BY Zenon DEF TrustTick, TrustInsert, ScopeTick, ScopeInstall, ScopeRoute, disk, ghosts
  <1>4. \A op \in {"add", "del"}, p \in Visible[j] : RouteCommand(j, op, p)
          => UNCHANGED <<history, reboots>>
    BY Zenon DEF RouteCommand, disk, ghosts
  <1>5. Leave(j) \/ LoopsStop(j) \/ AwaitTasks(j) \/ UntrustList(j) => UNCHANGED <<history, reboots>>
    BY Zenon DEF Leave, LoopsStop, AwaitTasks, UntrustList, disk, ghosts
  <1>6. UntrustDelete(j) \/ DropTun(j) \/ Finish(j) \/ Kill(j) => UNCHANGED <<history, reboots>>
    BY Zenon DEF UntrustDelete, DropTun, Finish, Kill, disk, ghosts
  <1> QED BY Zenon, <1>1, <1>2, <1>3, <1>4, <1>5, <1>6

\* The guard never lets more recorded reboots into one window than it allows, however its
\* file fails to be saved or is lost, and over every restart.
THEOREM GuardCapsReboots == Spec => []RebootsCapped
  <1>1. Init => RebootInv
    <2> SUFFICES ASSUME Init PROVE RebootInv
      BY Zenon
    <2>1. history = {} /\ reboots = <<>>
      BY Zenon DEF Init
    <2>2. <<>> \in Seq(Reboot) /\ Len(<<>>) = 0
      OBVIOUS
    <2>3. DOMAIN reboots = {} /\ reboots \in Seq(Reboot)
      BY <2>1, <2>2
    <2>4. Counted = {}
      BY Zenon, <2>3 DEF Counted
    <2>5. Cardinality({}) = 0
      BY Zenon, FS_EmptySet
    <2>6. RebootsCapped
      BY <2>4, <2>5, HostAssumption DEF RebootsCapped, Counted
    <2> QED BY Zenon, <2>1, <2>3, <2>4, <2>6 DEF RebootInv
  <1>2. RebootInv /\ [Next]_vars => RebootInv'
    <2> SUFFICES ASSUME RebootInv, [Next]_vars PROVE RebootInv'
      BY Zenon
    <2>1. ASSUME UNCHANGED <<history, reboots>> PROVE RebootInv'
      BY Zenon, <2>1 DEF RebootInv, Counted, RebootsCapped
    <2>2. CASE UNCHANGED vars
      BY Zenon, <2>1, <2>2 DEF vars, disk, ghosts
    <2>3. CASE Tick
      BY Zenon, <2>3, TickCounts
    <2>4. CASE Reload
      BY Zenon, <2>1, <2>4 DEF Reload, disk, ghosts
    <2>5. CASE PowerCut
      BY Zenon, <2>5, PowerCutCounts
    <2>6. ASSUME NEW j \in Joiners, RebootHost(j) PROVE RebootInv'
      BY Zenon, <2>6, RebootCounts DEF RebootHost
    <2> QED BY Zenon, <2>1, <2>2, <2>3, <2>4, <2>5, <2>6, OtherCounts DEF Next
  <1>3. RebootInv => RebootsCapped
    BY Zenon DEF RebootInv
  <1> QED BY <1>1, <1>2, <1>3, PTL DEF Spec
=============================================================================
