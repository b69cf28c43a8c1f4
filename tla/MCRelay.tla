------------------------------- MODULE MCRelay -------------------------------
(***************************************************************************)
(* Relay for TLC: one joiner sends to another, which has one lane up.       *)
(***************************************************************************)
EXTENDS Relay

OneWay == {<<"a", "b">>}
Up == << <<"a", "hi">>, <<"a", "lo">>, <<"b", "lo">> >>
=============================================================================
