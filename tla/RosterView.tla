----------------------------- MODULE RosterView ------------------------------
(***************************************************************************)
(* What a joiner's session table promises about the roster, whatever moves *)
(* the news: a session at an address is with a key the coordinator has had *)
(* there, and once the roster stops changing the table comes to show what  *)
(* the joiner may see of it, and stays so.                                 *)
(***************************************************************************)

CONSTANTS
  Addresses,  \* overlay addresses of the other peers
  Owners,     \* public keys
  Nobody      \* no peer at that address

VARIABLES
  held,  \* address -> the key the coordinator has there, or Nobody
  seen,  \* addresses the joiner may see
  past,  \* address -> every key the coordinator has had there
  view   \* address -> the key the joiner has a session with, or Nobody

viewVars == <<held, seen, past, view>>

Truth == [u \in Addresses |-> IF u \in seen THEN held[u] ELSE Nobody]

Recorded(h) == [u \in Addresses |-> {h[u]} \ {Nobody}]

Init ==
  /\ held \in [Addresses -> Owners \cup {Nobody}]
  /\ seen \subseteq Addresses
  /\ past = Recorded(held)
  /\ view = [u \in Addresses |-> Nobody]

\* The roster or the policy changes.
Change ==
  /\ held' \in [Addresses -> Owners \cup {Nobody}]
  /\ seen' \subseteq Addresses
  /\ past' = [u \in Addresses |-> past[u] \cup Recorded(held')[u]]
  /\ UNCHANGED view

\* The table takes over what it was told of one address, perhaps long ago.
Learn(u) ==
  /\ \E k \in past[u] \cup {Nobody} : view' = [view EXCEPT ![u] = k]
  /\ UNCHANGED <<held, seen, past>>

Next == Change \/ \E u \in Addresses : Learn(u)

Safe == Init /\ [][Next]_viewVars

\* A roster that stops changing is eventually shown, for good.
Settles == <>[][FALSE]_<<held, seen>> => <>[](view = Truth)

Spec == Safe /\ Settles
=============================================================================
