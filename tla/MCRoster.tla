------------------------------- MODULE MCRoster -------------------------------
(* Instances of Roster for TLC.                                            *)
EXTENDS Roster, TLC

CONSTANTS n1, n2

Host(s, i) == [seg |-> "host", slot |-> s, idx |-> i]
App(s, i) == [seg |-> "app", slot |-> s, idx |-> i]

\* One block per network.
MCNetworkSlot == [n \in Networks |-> IF n = n1 THEN 0 ELSE 1]

\* A sticky host address that the allocator also draws and a fixed infra
\* address below it; one of these; or a sticky app-runner address, whose index
\* the allocator skips as well.
AskInfra == {Host(0, 0), Host(0, 1)}
AskHost == {Host(0, 1)}
AskApp == {App(0, 1)}

\* Keys and workers are interchangeable; so are the peer ids of one shard.
KeySymmetry == Permutations(Pubkeys) \cup Permutations(Workers)
ShardSymmetry == KeySymmetry \cup Permutations(PeerIds \ FirstShard)
================================================================================
