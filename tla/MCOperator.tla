----------------------------- MODULE MCOperator ------------------------------
(***************************************************************************)
(* The two components that operators steer through the coordinator's admin *)
(* API, the policy and the pairing.  They share no state, so that their    *)
(* interleaving adds nothing: a behaviour is one of the one or the other.  *)
(***************************************************************************)
EXTENDS Policy, Pairing, Stun, Bitwise, TLC

CONSTANTS
  tag, net, sys, a, b,
  n1, n2, home, hidden

VARIABLE part

Letters == {tag, net, sys, a, b}
Net == <<tag, net>>
Sys == <<tag, sys>>
NetA == <<tag, net, a>>
NetB == <<tag, net, b>>
TwoTenants == {NetA, NetB}

Exactly(t) == [text |-> t, star |-> FALSE]
Glob(t) == [text |-> t, star |-> TRUE]
Accept(src, dst) == [action |-> "accept", src |-> src, dst |-> dst]

\* The system reaches every tenant and each tenant itself; one tenant is served by
\* another; and the policies that reach across networks, one way or another.
SomeDocuments == {
  {Accept({Exactly(Sys)}, {Glob(Net)}), Accept({Exactly(NetA)}, {Exactly(NetA)})},
  {Accept({Exactly(NetA)}, {Exactly(NetB)})},
  {Accept({Glob(Net)}, {Glob(Net)})},
  {Accept({Glob(<<tag>>)}, {Exactly(NetA)})},
  {Accept({Glob(NetA)}, {AnyTag})},
  {Accept({AnyTag}, {AnyTag})}}

TwoNodes == {n1, n2}
OneAdvertises == (n1 :> home) @@ (n2 :> None)
BothPublic == [n \in TwoNodes |-> home]
FirstPair == {<<1, 2>>}

\* The XOR of module Stun's assumption.
ByteXor(x, y) == x ^^ y

allVars == <<part, policyVars, pairingVars>>

MCInit ==
  /\ PolicyInit /\ PairingInit
  /\ \/ part = "policy"
     \/ part = "pairing" /\ store = NewStore(Bootstrap)

MCNext ==
  \/ part = "policy" /\ PolicyNext /\ UNCHANGED <<part, pairingVars>>
  \/ part = "pairing" /\ PairingNext /\ UNCHANGED <<part, policyVars>>

\* Pairing's fairness, in the behaviours that are its own.
MCSpec ==
  /\ MCInit /\ [][MCNext]_allVars
  /\ \A n \in Nodes : WF_allVars(part = "pairing" /\ Step(n) /\ UNCHANGED <<part, policyVars>>)
  /\ WF_allVars(part = "pairing" /\ (\E i \in PeerIds : Forget(i)) /\ UNCHANGED <<part, policyVars>>)
  /\ WF_allVars(part = "pairing" /\ Sweep /\ UNCHANGED <<part, policyVars>>)
  /\ WF_allVars(part = "pairing" /\ PairingTick /\ UNCHANGED <<part, policyVars>>)
=============================================================================
