-------------------------------- MODULE Wire --------------------------------
(***************************************************************************)
(* The JSON bodies that joiner and coordinator exchange, each side with    *)
(* its own declaration of the shape: what a field is left out at when it   *)
(* is written, what an absent field means when it is read, and how keys,   *)
(* addresses and ids become text and come back.                            *)
(*                                                                         *)
(* A body is a function from field names to values; Null is null.  A list  *)
(* whose order nothing depends on is a set.                                *)
(***************************************************************************)
EXTENDS Naturals

CONSTANTS Text, Number, Keys, Ulas, Ids, Addrs, Null, Malformed,
          Base64(_), FromBase64(_), Show(_), ParseUla(_), ParseId(_), ParseAddr(_), LookupHost(_)

\* The library's codecs: what is printed is read back, and what is read is the
\* value printed or refused.
ASSUME CodecAssumption ==
  /\ \A k \in Keys : Base64(k) \in Text /\ FromBase64(Base64(k)) = k
  /\ \A u \in Ulas : Show(u) \in Text /\ ParseUla(Show(u)) = u
  /\ \A i \in Ids : Show(i) \in Text /\ ParseId(Show(i)) = i
  /\ \A a \in Addrs : Show(a) \in Text /\ ParseAddr(Show(a)) = a
  /\ \A t \in Text : /\ ParseUla(t) \in Ulas \cup {Malformed}
                     /\ ParseAddr(t) \in Addrs \cup {Malformed}
                     /\ LookupHost(t) \in Addrs \cup {Null}
  /\ Malformed \notin Keys /\ Malformed \notin Ulas /\ Malformed \notin Ids
  /\ Malformed \notin Addrs

ASSUME NullAssumption ==
  /\ Null \notin Text /\ Null \notin Number /\ Null \notin BOOLEAN /\ Null \notin Addrs
  /\ \A S \in SUBSET Text : S # Null

ASSUME TextAssumption == {"", "peer"} \subseteq Text /\ 0 \in Number

Option(S) == S \cup {Null}

\* v without the fields that sit at the value they are left out at.
Serialize(v, skip) ==
  [f \in {g \in DOMAIN v : g \in DOMAIN skip => v[g] # skip[g]} |-> v[f]]

\* Unknown fields are ignored, a missing field takes its default, and null is
\* read only where the default is Null.
Readable(body, required, default) ==
  /\ required \subseteq DOMAIN body
  /\ \A f \in DOMAIN body \cap (required \cup DOMAIN default) :
       body[f] = Null => f \in DOMAIN default /\ default[f] = Null

Deserialize(body, required, default) ==
  [f \in required \cup DOMAIN default |-> IF f \in DOMAIN body THEN body[f] ELSE default[f]]

-----------------------------------------------------------------------------
(* Register.                                                               *)

RegisterArgs ==
  [wg_public_key : Keys, listen_endpoint : Option(Text), wg_listen_port : Option(Number),
   display_name : Text, tags : SUBSET Text, requested_ula : Option(Text),
   kind : Option(Text), parent : Option(Text), app_uuid : Option(Text),
   software_version : Option(Text), mesh_version : Option(Text), relay_only : BOOLEAN]

RegisterSkip ==
  [hosted_app_ulas |-> {}, listen_endpoint |-> Null, wg_listen_port |-> Null,
   requested_ula |-> Null, kind |-> Null, parent |-> Null, app_uuid |-> Null,
   software_version |-> Null, mesh_version |-> Null]

\* A first register hosts no app.
RegisterBody(a) ==
  Serialize([f \in DOMAIN a \cup {"hosted_app_ulas"} |->
               CASE f = "wg_public_key" -> Base64(a[f])
                 [] f = "hosted_app_ulas" -> {}
                 [] OTHER -> a[f]], RegisterSkip)

RegisterDefault ==
  [listen_endpoint |-> Null, wg_listen_port |-> Null, network |-> "", tags |-> {},
   hosted_app_ulas |-> {}, kind |-> "peer", parent |-> Null, app_uuid |-> Null,
   requested_ula |-> Null, software_version |-> Null, mesh_version |-> Null,
   relay_only |-> FALSE]

RegisterRequired == {"wg_public_key", "display_name"}

ReadRegister(body) == Deserialize(body, RegisterRequired, RegisterDefault)

-----------------------------------------------------------------------------
(* Heartbeat.                                                              *)

PeerPaths ==
  [peer_id : Ids, direct : BOOLEAN, last_rx_age_ms : Number,
   last_handshake_direct : Option(BOOLEAN), last_handshake_age_ms : Option(Number),
   handshake_rx_total : Number]

PathBody(p) == [p EXCEPT !.peer_id = Show(@)]

\* A list is never null.
ASSUME ListAssumption == \A S \in SUBSET {PathBody(p) : p \in PeerPaths} : S # Null

PathDefault ==
  [last_rx_age_ms |-> 0, last_handshake_direct |-> Null, last_handshake_age_ms |-> Null,
   handshake_rx_total |-> 0]

PathRequired == {"peer_id", "direct"}

ReadPath(body) == Deserialize(body, PathRequired, PathDefault)

HeartbeatArgs ==
  [peer_id : Ids, wg_listen_port : Option(Number), hosted_app_ulas : SUBSET Text,
   software_version : Option(Text), mesh_version : Option(Text), relay_only : BOOLEAN,
   peer_paths : SUBSET PeerPaths, dataplane_healthy : BOOLEAN,
   executed_command_ids : SUBSET Text]

HeartbeatSkip ==
  [wg_listen_port |-> Null, hosted_app_ulas |-> {}, software_version |-> Null,
   mesh_version |-> Null, peer_paths |-> {}, executed_command_ids |-> {}]

HeartbeatBody(h) ==
  Serialize([h EXCEPT !.peer_id = Show(@), !.peer_paths = {PathBody(p) : p \in @}],
            HeartbeatSkip)

\* A reporter that cannot say is healthy.
HeartbeatDefault ==
  [wg_listen_port |-> Null, hosted_app_ulas |-> {}, software_version |-> Null,
   mesh_version |-> Null, relay_only |-> FALSE, peer_paths |-> {},
   dataplane_healthy |-> TRUE, executed_command_ids |-> {}]

\* A body is refused when one of its paths is.
HeartbeatReadable(body) ==
  /\ Readable(body, {"peer_id"}, HeartbeatDefault)
  /\ \A p \in Deserialize(body, {"peer_id"}, HeartbeatDefault).peer_paths :
       Readable(p, PathRequired, PathDefault)

ReadHeartbeat(body) ==
  [Deserialize(body, {"peer_id"}, HeartbeatDefault) EXCEPT
     !.peer_paths = {ReadPath(p) : p \in @}]

-----------------------------------------------------------------------------
(* A roster entry, from the coordinator to the joiner's PeerInfo.          *)

Entries ==
  [peer_id : Ids, wg_public_key : Keys, ula : Ulas, listen_endpoint : Option(Text),
   display_name : Text, network : Text, tags : SUBSET Text, hosted_app_ulas : SUBSET Text,
   joined_at_micros : Number, kind : Text, parent : Option(Text), app_uuid : Option(Text),
   software_version : Option(Text), mesh_version : Option(Text), relay_only : BOOLEAN]

PeerSkip ==
  [f \in {"parent", "app_uuid", "software_version", "mesh_version", "connectivity",
          "connectivity_age_ms"} |-> Null]

\* to_info: the live path and its age are stamped only for the admin views.
PeerBody(e) ==
  Serialize([f \in DOMAIN e \cup {"connectivity", "connectivity_age_ms"} |->
               CASE f = "wg_public_key" -> Base64(e[f])
                 [] f \in {"peer_id", "ula"} -> Show(e[f])
                 [] f \in {"connectivity", "connectivity_age_ms"} -> Null
                 [] OTHER -> e[f]], PeerSkip)

RemoteDefault ==
  [listen_endpoint |-> Null, hosted_app_ulas |-> {}, software_version |-> Null,
   mesh_version |-> Null]

RemoteRequired == {"peer_id", "wg_public_key", "ula", "display_name", "tags", "joined_at_micros"}

\* RemotePeer: the id is read as a uuid.
RemoteReadable(body) ==
  /\ Readable(body, RemoteRequired, RemoteDefault)
  /\ ParseId(body["peer_id"]) # Malformed

ReadRemote(body) ==
  [Deserialize(body, RemoteRequired, RemoteDefault) EXCEPT !.peer_id = ParseId(@)]

\* decode_pubkey: 32 octets, or malformed.
DecodePubkey(t) == IF FromBase64(t) \in Keys THEN FromBase64(t) ELSE Malformed

\* An address literal, else a name this host resolves, else a passive peer.
Endpoint(t) ==
  IF t \in {Null, ""} THEN Null
  ELSE IF ParseAddr(t) # Malformed THEN ParseAddr(t) ELSE LookupHost(t)

\* A malformed key or address costs the entry, a malformed app address only itself.
InfoOk(r) == DecodePubkey(r.wg_public_key) # Malformed /\ ParseUla(r.ula) # Malformed

RemoteToInfo(r) ==
  [r EXCEPT !.wg_public_key = DecodePubkey(@), !.ula = ParseUla(@),
            !.listen_endpoint = Endpoint(@),
            !.hosted_app_ulas = {ParseUla(t) : t \in @} \ {Malformed}]

-----------------------------------------------------------------------------
(* The answers.                                                            *)

AnswerSkip == [observed_ip |-> Null, observed_endpoint |-> Null, pending_commands |-> {}]

RegisterAnswer(id, ula, peers, ip, endpoint) ==
  Serialize([peer_id |-> Show(id), ula |-> Show(ula), peers |-> {PeerBody(e) : e \in peers},
             observed_ip |-> ip, observed_endpoint |-> endpoint], AnswerSkip)

HeartbeatAnswer(peers, ip, endpoint, commands) ==
  Serialize([peers |-> {PeerBody(e) : e \in peers}, observed_ip |-> ip,
             observed_endpoint |-> endpoint, pending_commands |-> commands], AnswerSkip)

RegisterAnswerDefault == [observed_ip |-> Null, observed_endpoint |-> Null]

HeartbeatAnswerDefault ==
  [observed_ip |-> Null, observed_endpoint |-> Null, pending_commands |-> {}]

\* One unreadable entry makes the whole answer unreadable.
AnswerReadable(body, required, default) ==
  Readable(body, required, default) /\ \A p \in body["peers"] : RemoteReadable(p)

WithPeers(answer) == [answer EXCEPT !.peers = {ReadRemote(p) : p \in @}]

RegisterAnswerRequired == {"peer_id", "ula", "peers"}

ReadRegisterAnswer(body) ==
  [WithPeers(Deserialize(body, RegisterAnswerRequired, RegisterAnswerDefault)) EXCEPT
     !.peer_id = ParseId(@)]

ReadHeartbeatAnswer(body) == WithPeers(Deserialize(body, {"peers"}, HeartbeatAnswerDefault))

\* The peers the joiner learns: an entry it cannot turn into a PeerInfo is skipped.
Known(answer) == {RemoteToInfo(r) : r \in {q \in answer.peers : InfoOk(q)}}

=============================================================================
