------------------------------- MODULE MCControl -------------------------------
(* Instances of Control for TLC.                                           *)
EXTENDS Control, TLC

CONSTANTS c1, c2, a1, a2

Conf(r, f) == [requested |-> r, identityFile |-> f]
Configured == {Conf(a1, TRUE), Conf(a1, FALSE)}
Sticky == {Conf(Unset, TRUE)}

Never == [c \in Commands |-> 0]
Once == [c \in Commands |-> 1]
FirstTwice == [c \in Commands |-> IF c = c1 THEN 2 ELSE 1]
================================================================================
