----------------------------- MODULE MCSessions ------------------------------
(* Small instances of Sessions. *)
EXTENDS Sessions

Rec(i, k, u, e, a) ==
  [id |-> i, key |-> k, ula |-> u, ep |-> e, apps |-> a, tag |-> "t"]

\* A peer that hosts an app and may be re-homed with it, or leave and come back
\* under a new id; another that may be given the first one's address.
A == Rec("a", "ka", "u1", "e1", {"app"})
MCPeers == {A, Rec("a", "ka", "u2", None, {"app"}), Rec("a2", "ka", "u1", None, {}),
            Rec("b", "kb", "u1", "e1", {})}
Self == Rec("s", "ks", "us", None, {})
MCSelves == {Self, Rec("s2", "ks", "us", None, {})}
MCStarts == {{A, Self}}
MCSources == {"e2"}
=============================================================================
