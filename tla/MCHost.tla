------------------------------- MODULE MCHost -------------------------------
(* A primary joiner with scoped routes and a lifeline, both managing the   *)
(* firewall of one host; and the exchange with the coordinator, whose      *)
(* assumptions are evaluated for texts of a few spellings.                 *)
EXTENDS Host, Admission, TLC

CONSTANTS primary, lifeline, peer

MCJoiners == {primary, lifeline}
MCScoped == {primary}
MCCommanded == {lifeline}
MCVisible == [j \in MCJoiners |-> IF j = primary THEN {peer} ELSE {}]

\* One spelling of each value, a host's name, and a blank.
MCText == {"", " ", "peer", "key1", "ula1", "id1", "addr1", "host1"}
Spelled == [x \in Keys \cup Ulas \cup Ids \cup Addrs |->
              CASE x \in Keys -> "key1" [] x \in Ulas -> "ula1"
                [] x \in Ids -> "id1" [] x \in Addrs -> "addr1"]
Reads(t, S) ==
  IF \E x \in S : Spelled[x] = t THEN CHOOSE x \in S : Spelled[x] = t ELSE Malformed
MCShow(x) == Spelled[x]
MCFromBase64(t) == Reads(t, Keys)
MCParseUla(t) == Reads(t, Ulas)
MCParseId(t) == Reads(t, Ids)
MCParseAddr(t) == Reads(t, Addrs)
MCLookupHost(t) == IF t = "host1" THEN CHOOSE a \in Addrs : TRUE ELSE Null
MCTrim(t) == IF t = " " THEN "" ELSE t
=============================================================================
