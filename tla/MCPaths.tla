------------------------------- MODULE MCPaths -------------------------------
(***************************************************************************)
(* Paths for TLC: two joiners, the first of which is told the endpoint of  *)
(* the second.                                                             *)
(***************************************************************************)
EXTENDS Paths

One == {<<1, 2>>}
AllOrNone == {{}, Pairs}
=============================================================================
