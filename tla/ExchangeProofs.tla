--------------------------- MODULE ExchangeProofs ---------------------------
(***************************************************************************)
(* What joiner and coordinator tell each other.                            *)
(*                                                                         *)
(* What one side writes, the other reads, whichever fields an older build  *)
(* leaves out; what a register is granted; and what a joiner learns of its *)
(* own address from the STUN server.                                       *)
(*                                                                         *)
(* The session table implements the safety part of RosterView, for any     *)
(* records, sources, capacity of the ring and number of changes: whatever  *)
(* the stream drops, repeats, reorders or filters and however the stream   *)
(* task and the heartbeat task interleave, the table takes up at an        *)
(* address only keys the coordinator has had there, one address at a time. *)
(***************************************************************************)
EXTENDS Stun, Admission, Sessions, TLAPS

Without(body, omitted) == [f \in DOMAIN body \ omitted |-> body[f]]

\* The fields of v as written, the reader's defaults for the rest.
Intended(v, skip, required, default, omitted) ==
  [f \in required \cup DOMAIN default |->
     IF f \in DOMAIN v /\ f \notin omitted /\ ~(f \in DOMAIN skip /\ v[f] = skip[f])
     THEN v[f] ELSE default[f]]

\* What one side writes the other accepts, and reading gives every field its value back, an
\* omitted one its default, as long as null and the values left out are ones the reader has
\* a default for.
LEMMA ReadsBack ==
  ASSUME NEW v, NEW skip, NEW required, NEW default, NEW omitted,
         required \subseteq DOMAIN v,
         required \cap DOMAIN default = {},
         omitted \subseteq DOMAIN default,
         \A f \in DOMAIN v \cap DOMAIN skip : v[f] = skip[f] => f \notin required,
         \A f \in DOMAIN v \cap (required \cup DOMAIN default) : v[f] = Null =>
            \/ f \in DOMAIN skip /\ skip[f] = Null
            \/ f \in DOMAIN default /\ default[f] = Null
  PROVE  /\ Readable(Without(Serialize(v, skip), omitted), required, default)
         /\ Deserialize(Without(Serialize(v, skip), omitted), required, default) =
              Intended(v, skip, required, default, omitted)
  <1> DEFINE body == Without(Serialize(v, skip), omitted)
  <1>1. /\ DOMAIN body = {g \in DOMAIN v : g \in DOMAIN skip => v[g] # skip[g]} \ omitted
        /\ \A f \in DOMAIN body : body[f] = v[f]
    BY Zenon DEF Without, Serialize
  <1> HIDE DEF body
  <1>2. Readable(body, required, default)
    BY Zenon, <1>1 DEF Readable
  <1>3. \A f \in required \cup DOMAIN default :
          (IF f \in DOMAIN body THEN body[f] ELSE default[f]) =
          (IF f \in DOMAIN v /\ f \notin omitted /\ ~(f \in DOMAIN skip /\ v[f] = skip[f])
           THEN v[f] ELSE default[f])
    BY Zenon, <1>1
  <1> QED
    BY Zenon, <1>2, <1>3 DEF body, Deserialize, Intended

-----------------------------------------------------------------------------
(* Register.                                                               *)

RegisterRead(a) ==
  [f \in RegisterRequired \cup DOMAIN RegisterDefault |->
     CASE f = "wg_public_key" -> Base64(a[f])
       [] f \in {"network", "hosted_app_ulas"} -> RegisterDefault[f]
       [] f = "kind" /\ a[f] = Null -> "peer"
       [] OTHER -> a[f]]

\* The coordinator reads the register body as the joiner meant it: absent options are absent,
\* an unsaid role is "peer", no app is hosted and no network is asked for.  A build that omits
\* any of the optional fields gets their defaults (RegisterRequest on both sides).
THEOREM RegisterArrives ==
  ASSUME NEW a \in RegisterArgs, NEW omitted \in SUBSET DOMAIN RegisterDefault
  PROVE  /\ Readable(Without(RegisterBody(a), omitted), RegisterRequired, RegisterDefault)
         /\ ReadRegister(Without(RegisterBody(a), omitted)) =
              [f \in DOMAIN RegisterRead(a) |->
                 IF f \in omitted THEN RegisterDefault[f] ELSE RegisterRead(a)[f]]
  <1> DEFINE opt == {"listen_endpoint", "wg_listen_port", "requested_ula", "kind", "parent",
                     "app_uuid", "software_version", "mesh_version"}
             said == opt \cup {"wg_public_key", "display_name", "tags", "relay_only"}
             fields == said \cup {"network", "hosted_app_ulas"}
             v == [f \in DOMAIN a \cup {"hosted_app_ulas"} |->
                     CASE f = "wg_public_key" -> Base64(a[f])
                       [] f = "hosted_app_ulas" -> {}
                       [] OTHER -> a[f]]
  <1>1. DOMAIN a = said
    BY Zenon DEF RegisterArgs
  <1>2. /\ DOMAIN RegisterSkip = opt \cup {"hosted_app_ulas"}
        /\ RegisterSkip.hosted_app_ulas = {}
        /\ \A f \in opt : RegisterSkip[f] = Null
    BY DEF RegisterSkip
  <1>3. /\ DOMAIN RegisterDefault = fields \ {"wg_public_key", "display_name"}
        /\ RegisterDefault.hosted_app_ulas = {} /\ RegisterDefault.kind = "peer"
        /\ \A f \in opt \ {"kind"} : RegisterDefault[f] = Null
    <2>1. DOMAIN RegisterDefault =
            {"listen_endpoint", "wg_listen_port", "network", "tags", "hosted_app_ulas", "kind",
             "parent", "app_uuid", "requested_ula", "software_version", "mesh_version",
             "relay_only"}
      BY Zenon DEF RegisterDefault
    <2>2. DOMAIN RegisterDefault = fields \ {"wg_public_key", "display_name"}
      BY Zenon, <2>1
    <2>3. /\ RegisterDefault.hosted_app_ulas = {} /\ RegisterDefault.kind = "peer"
          /\ RegisterDefault["listen_endpoint"] = Null /\ RegisterDefault["wg_listen_port"] = Null
          /\ RegisterDefault["requested_ula"] = Null /\ RegisterDefault["parent"] = Null
          /\ RegisterDefault["app_uuid"] = Null /\ RegisterDefault["software_version"] = Null
          /\ RegisterDefault["mesh_version"] = Null
      BY Zenon DEF RegisterDefault
    <2> QED
      BY Zenon, <2>2, <2>3
  <1>4. /\ a.wg_public_key \in Keys /\ a.display_name \in Text /\ a.tags \in SUBSET Text
        /\ a.relay_only \in BOOLEAN
    BY Zenon DEF RegisterArgs
  <1>5. /\ DOMAIN v = said \cup {"hosted_app_ulas"}
        /\ v["wg_public_key"] = Base64(a.wg_public_key) /\ v["hosted_app_ulas"] = {}
        /\ \A f \in said \ {"wg_public_key"} : v[f] = a[f]
    BY Zenon, <1>1
  <1> HIDE DEF v
  <1>6. /\ Base64(a.wg_public_key) # Null /\ a.display_name # Null /\ a.tags # Null
        /\ a.relay_only # Null
    BY Zenon, <1>4, CodecAssumption, NullAssumption
  <1>7. \A f \in DOMAIN v : v[f] = Null =>
            \/ f \in DOMAIN RegisterSkip /\ RegisterSkip[f] = Null
            \/ f \in DOMAIN RegisterDefault /\ RegisterDefault[f] = Null
    <2>1. v["hosted_app_ulas"] # Null
      BY Zenon, <1>5, NullAssumption
    <2> QED
      BY Zenon, <1>2, <1>5, <1>6, <2>1
  <1>8. \A f \in DOMAIN v \cap DOMAIN RegisterSkip :
          v[f] = RegisterSkip[f] => f \notin RegisterRequired
    BY Zenon, <1>2 DEF RegisterRequired
  <1>9. /\ RegisterRequired \subseteq DOMAIN v /\ RegisterRequired \cap DOMAIN RegisterDefault = {}
        /\ RegisterRequired \cup DOMAIN RegisterDefault = fields
    BY Zenon, <1>3, <1>5 DEF RegisterRequired
  <1> DEFINE body == Without(Serialize(v, RegisterSkip), omitted)
  <1>10. /\ Readable(body, RegisterRequired, RegisterDefault)
         /\ Deserialize(body, RegisterRequired, RegisterDefault) =
              [f \in fields |->
                 IF /\ f \in DOMAIN v /\ f \notin omitted
                    /\ ~(f \in DOMAIN RegisterSkip /\ v[f] = RegisterSkip[f])
                 THEN v[f] ELSE RegisterDefault[f]]
    <2>1. \A f \in DOMAIN v \cap (RegisterRequired \cup DOMAIN RegisterDefault) : v[f] = Null =>
            \/ f \in DOMAIN RegisterSkip /\ RegisterSkip[f] = Null
            \/ f \in DOMAIN RegisterDefault /\ RegisterDefault[f] = Null
      BY Zenon, <1>7
    <2>2. omitted \subseteq DOMAIN RegisterDefault
      BY Zenon
    <2>3. /\ Readable(body, RegisterRequired, RegisterDefault)
          /\ Deserialize(body, RegisterRequired, RegisterDefault) =
               Intended(v, RegisterSkip, RegisterRequired, RegisterDefault, omitted)
      <3> HIDE DEF fields, said, opt
      <3> QED
        BY <1>8, <1>9, <2>1, <2>2, ReadsBack
    <2> HIDE DEF fields
    <2> QED
      BY Zenon, <1>9, <2>3 DEF Intended
  <1>11. ASSUME NEW f \in fields
         PROVE  (IF /\ f \in DOMAIN v /\ f \notin omitted
                    /\ ~(f \in DOMAIN RegisterSkip /\ v[f] = RegisterSkip[f])
                 THEN v[f] ELSE RegisterDefault[f])
                = IF f \in omitted THEN RegisterDefault[f] ELSE RegisterRead(a)[f]
    <2>1. f \in RegisterRequired \cup DOMAIN RegisterDefault
      BY Zenon, <1>9
    <2>2. CASE f = "wg_public_key"
      BY Zenon, <1>2, <1>3, <1>5, <2>1, <2>2 DEF RegisterRead
    <2>3. CASE f \in {"network", "hosted_app_ulas"}
      BY Zenon, <1>2, <1>3, <1>5, <2>1, <2>3 DEF RegisterRead
    <2>4. CASE f = "kind"
      BY Zenon, <1>2, <1>3, <1>5, <2>1, <2>4 DEF RegisterRead
    <2>5. CASE f \in opt \ {"kind"}
      BY <1>2, <1>3, <1>5, <2>1, <2>5 DEF RegisterRead
    <2>6. CASE f \in {"display_name", "tags", "relay_only"}
      BY Zenon, <1>2, <1>3, <1>5, <2>1, <2>6 DEF RegisterRead
    <2> QED
      BY Zenon, <2>2, <2>3, <2>4, <2>5, <2>6
  <1>12. DOMAIN RegisterRead(a) = fields
    BY Zenon, <1>9 DEF RegisterRead
  <1>13. RegisterBody(a) = Serialize(v, RegisterSkip)
    BY Zenon DEF RegisterBody, v
  <1> QED
    BY Zenon, <1>10, <1>11, <1>12, <1>13 DEF ReadRegister

-----------------------------------------------------------------------------
(* Heartbeat.                                                              *)

\* One path of a heartbeat, read as it was measured.
LEMMA PathReadsBack ==
  ASSUME NEW p \in PeerPaths
  PROVE  /\ Readable(PathBody(p), PathRequired, PathDefault)
         /\ ReadPath(PathBody(p)) = PathBody(p)
  <1> DEFINE fields == {"peer_id", "direct", "last_rx_age_ms", "last_handshake_direct",
                        "last_handshake_age_ms", "handshake_rx_total"}
             b == PathBody(p)
  <1>1. /\ DOMAIN p = fields /\ p.peer_id \in Ids /\ p.direct \in BOOLEAN
        /\ p.last_rx_age_ms \in Number /\ p.handshake_rx_total \in Number
    BY Zenon DEF PeerPaths
  <1>2. /\ DOMAIN PathDefault = fields \ {"peer_id", "direct"}
        /\ PathDefault["last_handshake_direct"] = Null
        /\ PathDefault["last_handshake_age_ms"] = Null
    BY Zenon DEF PathDefault
  <1>3. /\ DOMAIN b = fields /\ b["peer_id"] = Show(p.peer_id)
        /\ \A f \in fields \ {"peer_id"} : b[f] = p[f]
        /\ b = [f \in fields |-> b[f]]
    BY Zenon, <1>1 DEF PathBody, PeerPaths
  <1>4. /\ b["peer_id"] # Null /\ b["direct"] # Null /\ b["last_rx_age_ms"] # Null
        /\ b["handshake_rx_total"] # Null
    BY Zenon, <1>1, <1>3, CodecAssumption, NullAssumption
  <1>5. PathRequired \cup DOMAIN PathDefault = fields /\ PathRequired \subseteq fields
    BY Zenon, <1>2 DEF PathRequired
  <1> HIDE DEF b
  <1>6. Readable(b, PathRequired, PathDefault)
    BY Zenon, <1>2, <1>3, <1>4, <1>5 DEF Readable
  <1>7. ReadPath(b) = [f \in fields |-> b[f]]
    <2> HIDE DEF fields
    <2> QED
      BY Zenon, <1>3, <1>5 DEF ReadPath, Deserialize
  <1> QED
    BY Zenon, <1>3, <1>6, <1>7 DEF b

Sent(h) == [h EXCEPT !.peer_id = Show(@), !.peer_paths = {PathBody(p) : p \in @}]

\* The coordinator reads the heartbeat body as the joiner measured it, every path included; a
\* build that omits optional fields reports their defaults, healthy among them
\* (HeartbeatRequest on both sides, default_dataplane_healthy).
THEOREM HeartbeatArrives ==
  ASSUME NEW h \in HeartbeatArgs, NEW omitted \in SUBSET DOMAIN HeartbeatDefault
  PROVE  /\ HeartbeatReadable(Without(HeartbeatBody(h), omitted))
         /\ ReadHeartbeat(Without(HeartbeatBody(h), omitted)) =
              [f \in DOMAIN h |-> IF f \in omitted THEN HeartbeatDefault[f] ELSE Sent(h)[f]]
  <1> DEFINE skipped == {"wg_listen_port", "hosted_app_ulas", "software_version",
                         "mesh_version", "peer_paths", "executed_command_ids"}
             optional == skipped \cup {"relay_only", "dataplane_healthy"}
             fields == optional \cup {"peer_id"}
             v == Sent(h)
             body == Without(Serialize(v, HeartbeatSkip), omitted)
  <1>1. /\ DOMAIN h = fields /\ h.peer_id \in Ids /\ h.relay_only \in BOOLEAN
        /\ h.dataplane_healthy \in BOOLEAN /\ h.hosted_app_ulas \in SUBSET Text
        /\ h.executed_command_ids \in SUBSET Text /\ h.peer_paths \in SUBSET PeerPaths
    BY Zenon DEF HeartbeatArgs
  <1>2. /\ DOMAIN v = fields /\ v["peer_id"] = Show(h.peer_id)
        /\ v["peer_paths"] = {PathBody(p) : p \in h.peer_paths}
        /\ \A f \in fields \ {"peer_id", "peer_paths"} : v[f] = h[f]
    BY Zenon, <1>1 DEF Sent, HeartbeatArgs
  <1>3. /\ DOMAIN HeartbeatSkip = skipped
        /\ HeartbeatSkip["wg_listen_port"] = Null /\ HeartbeatSkip["software_version"] = Null
        /\ HeartbeatSkip["mesh_version"] = Null /\ HeartbeatSkip["hosted_app_ulas"] = {}
        /\ HeartbeatSkip["peer_paths"] = {} /\ HeartbeatSkip["executed_command_ids"] = {}
    BY Zenon DEF HeartbeatSkip
  <1>4. DOMAIN HeartbeatDefault = optional
    BY Zenon DEF HeartbeatDefault
  <1>5. /\ HeartbeatDefault["wg_listen_port"] = Null
        /\ HeartbeatDefault["software_version"] = Null
        /\ HeartbeatDefault["mesh_version"] = Null /\ HeartbeatDefault["hosted_app_ulas"] = {}
        /\ HeartbeatDefault["peer_paths"] = {} /\ HeartbeatDefault["executed_command_ids"] = {}
    BY Zenon DEF HeartbeatDefault
  <1>6. /\ v["peer_id"] # Null /\ v["relay_only"] # Null /\ v["dataplane_healthy"] # Null
        /\ v["hosted_app_ulas"] # Null /\ v["executed_command_ids"] # Null
    BY <1>1, <1>2, CodecAssumption, NullAssumption
  <1>7. v["peer_paths"] # Null
    BY Zenon, <1>1, <1>2, ListAssumption
  <1> HIDE DEF v
  <1>8. \A f \in DOMAIN v \cap ({"peer_id"} \cup DOMAIN HeartbeatDefault) : v[f] = Null =>
          \/ f \in DOMAIN HeartbeatSkip /\ HeartbeatSkip[f] = Null
          \/ f \in DOMAIN HeartbeatDefault /\ HeartbeatDefault[f] = Null
    BY Zenon, <1>2, <1>3, <1>6, <1>7
  <1>9. /\ {"peer_id"} \subseteq DOMAIN v /\ {"peer_id"} \cap DOMAIN HeartbeatDefault = {}
        /\ {"peer_id"} \cup DOMAIN HeartbeatDefault = fields
        /\ \A f \in DOMAIN v \cap DOMAIN HeartbeatSkip :
             v[f] = HeartbeatSkip[f] => f \notin {"peer_id"}
    BY Zenon, <1>2, <1>3, <1>4
  <1>10. omitted \subseteq DOMAIN HeartbeatDefault
    BY Zenon
  <1>11. /\ Readable(body, {"peer_id"}, HeartbeatDefault)
         /\ Deserialize(body, {"peer_id"}, HeartbeatDefault) =
              Intended(v, HeartbeatSkip, {"peer_id"}, HeartbeatDefault, omitted)
    <2> DEFINE required == {"peer_id"}
    <2> HIDE DEF fields, optional, skipped, required
    <2>1. /\ required \subseteq DOMAIN v /\ required \cap DOMAIN HeartbeatDefault = {}
          /\ \A f \in DOMAIN v \cap DOMAIN HeartbeatSkip :
               v[f] = HeartbeatSkip[f] => f \notin required
          /\ \A f \in DOMAIN v \cap (required \cup DOMAIN HeartbeatDefault) : v[f] = Null =>
               \/ f \in DOMAIN HeartbeatSkip /\ HeartbeatSkip[f] = Null
               \/ f \in DOMAIN HeartbeatDefault /\ HeartbeatDefault[f] = Null
      BY Zenon, <1>8, <1>9 DEF required
    <2>2. /\ Readable(body, required, HeartbeatDefault)
          /\ Deserialize(body, required, HeartbeatDefault) =
               Intended(v, HeartbeatSkip, required, HeartbeatDefault, omitted)
      BY <1>10, <2>1, ReadsBack
    <2> QED
      BY Zenon, <2>2 DEF required
  <1> DEFINE meant == [f \in fields |-> IF f \in omitted THEN HeartbeatDefault[f] ELSE v[f]]
  <1>12. ASSUME NEW f \in fields
         PROVE  (IF /\ f \in DOMAIN v /\ f \notin omitted
                    /\ ~(f \in DOMAIN HeartbeatSkip /\ v[f] = HeartbeatSkip[f])
                 THEN v[f] ELSE HeartbeatDefault[f])
                = IF f \in omitted THEN HeartbeatDefault[f] ELSE v[f]
    <2>1. f \in skipped => HeartbeatDefault[f] = HeartbeatSkip[f]
      BY Zenon, <1>3, <1>5
    <2> QED
      BY Zenon, <1>2, <1>3, <2>1
  <1>13. Deserialize(body, {"peer_id"}, HeartbeatDefault) = meant
    <2> HIDE DEF fields
    <2> QED
      BY Zenon, <1>9, <1>11, <1>12 DEF Intended
  <1>14. DOMAIN meant = fields /\ meant["peer_paths"] \subseteq {PathBody(p) : p \in PeerPaths}
    BY Zenon, <1>1, <1>2, <1>5
  <1> HIDE DEF meant
  <1>15. \A q \in meant["peer_paths"] : /\ Readable(q, PathRequired, PathDefault)
                                        /\ ReadPath(q) = q
    BY Zenon, <1>14, PathReadsBack
  <1>16. {ReadPath(q) : q \in meant["peer_paths"]} = meant["peer_paths"]
    BY Zenon, <1>15
  <1>17. HeartbeatBody(h) = Serialize(v, HeartbeatSkip)
    BY Zenon DEF HeartbeatBody, v, Sent
  <1>18. HeartbeatReadable(body)
    BY Zenon, <1>11, <1>13, <1>15 DEF HeartbeatReadable
  <1>19. ReadHeartbeat(body) = meant
    <2>1. ReadHeartbeat(body) =
            [meant EXCEPT !["peer_paths"] = {ReadPath(q) : q \in meant["peer_paths"]}]
      BY Zenon, <1>13 DEF ReadHeartbeat
    <2> QED
      BY Zenon, <1>14, <1>16, <2>1 DEF meant
  <1> QED
    BY Zenon, <1>1, <1>17, <1>18, <1>19 DEF meant, v

-----------------------------------------------------------------------------
(* The roster.                                                             *)

\* What a joiner is to know of a roster entry.
Learned(e) ==
  [f \in RemoteRequired \cup DOMAIN RemoteDefault |->
     CASE f = "listen_endpoint" -> Endpoint(e[f])
       [] f = "hosted_app_ulas" -> {ParseUla(t) : t \in e[f]} \ {Malformed}
       [] OTHER -> e[f]]

\* A roster entry is readable, and becomes the PeerInfo of the peer it was written for.
LEMMA EntryReadsBack ==
  ASSUME NEW e \in Entries
  PROVE  /\ RemoteReadable(PeerBody(e))
         /\ InfoOk(ReadRemote(PeerBody(e)))
         /\ RemoteToInfo(ReadRemote(PeerBody(e))) = Learned(e)
  <1> DEFINE entry == {"peer_id", "wg_public_key", "ula", "listen_endpoint", "display_name",
                       "network", "tags", "hosted_app_ulas", "joined_at_micros", "kind",
                       "parent", "app_uuid", "software_version", "mesh_version", "relay_only"}
             skipped == {"parent", "app_uuid", "software_version", "mesh_version",
                         "connectivity", "connectivity_age_ms"}
             fields == {"peer_id", "wg_public_key", "ula", "display_name", "tags",
                        "joined_at_micros", "listen_endpoint", "hosted_app_ulas",
                        "software_version", "mesh_version"}
             coded == {"wg_public_key", "peer_id", "ula"}
             v == [f \in DOMAIN e \cup {"connectivity", "connectivity_age_ms"} |->
                     CASE f = "wg_public_key" -> Base64(e[f])
                       [] f \in {"peer_id", "ula"} -> Show(e[f])
                       [] f \in {"connectivity", "connectivity_age_ms"} -> Null
                       [] OTHER -> e[f]]
             b == PeerBody(e)
             r == ReadRemote(b)
  <1>1. /\ DOMAIN e = entry /\ e.peer_id \in Ids /\ e.wg_public_key \in Keys /\ e.ula \in Ulas
        /\ e.display_name \in Text /\ e.tags \in SUBSET Text
        /\ e.hosted_app_ulas \in SUBSET Text /\ e.joined_at_micros \in Number
    BY Zenon DEF Entries
  <1>2. /\ DOMAIN v = entry \cup {"connectivity", "connectivity_age_ms"}
        /\ v["wg_public_key"] = Base64(e.wg_public_key) /\ v["peer_id"] = Show(e.peer_id)
        /\ v["ula"] = Show(e.ula)
        /\ \A f \in entry \ coded : v[f] = e[f]
    BY Zenon, <1>1
  <1>3. DOMAIN PeerSkip = skipped /\ \A f \in skipped : PeerSkip[f] = Null
    BY Zenon DEF PeerSkip
  <1>4. /\ v["peer_id"] # Null /\ v["wg_public_key"] # Null /\ v["ula"] # Null
        /\ v["display_name"] # Null /\ v["tags"] # Null /\ v["hosted_app_ulas"] # Null
        /\ v["joined_at_micros"] # Null
    BY <1>1, <1>2, CodecAssumption, NullAssumption
  <1>5. b = Serialize(v, PeerSkip)
    BY Zenon DEF PeerBody
  <1> HIDE DEF v, b
  <1>6. /\ DOMAIN b = {g \in DOMAIN v : g \in DOMAIN PeerSkip => v[g] # PeerSkip[g]}
        /\ \A f \in DOMAIN b : b[f] = v[f]
    BY Zenon, <1>5 DEF Serialize
  <1>7. /\ DOMAIN RemoteDefault = {"listen_endpoint", "hosted_app_ulas", "software_version",
                                   "mesh_version"}
        /\ RemoteDefault["listen_endpoint"] = Null /\ RemoteDefault["hosted_app_ulas"] = {}
        /\ RemoteDefault["software_version"] = Null /\ RemoteDefault["mesh_version"] = Null
    BY Zenon DEF RemoteDefault
  <1>8. RemoteRequired \cup DOMAIN RemoteDefault = fields
    BY Zenon, <1>7 DEF RemoteRequired
  <1>9. RemoteRequired \subseteq DOMAIN b
    BY Zenon, <1>2, <1>3, <1>6 DEF RemoteRequired
  <1>10. Readable(b, RemoteRequired, RemoteDefault)
    <2>1. \A f \in DOMAIN b \cap fields :
            b[f] = Null => f \in DOMAIN RemoteDefault /\ RemoteDefault[f] = Null
      BY Zenon, <1>4, <1>6, <1>7
    <2> QED
      BY Zenon, <1>8, <1>9, <2>1 DEF Readable
  <1>11. \A f \in fields : (IF f \in DOMAIN b THEN b[f] ELSE RemoteDefault[f]) = v[f]
    <2>1. ASSUME NEW f \in fields, f \notin DOMAIN b
          PROVE  RemoteDefault[f] = v[f]
      BY Zenon, <1>2, <1>3, <1>6, <1>7, <2>1
    <2> QED
      BY Zenon, <1>6, <2>1
  <1>12. Deserialize(b, RemoteRequired, RemoteDefault) = [f \in fields |-> v[f]]
    <2> HIDE DEF fields
    <2> QED
      BY Zenon, <1>8, <1>11 DEF Deserialize
  <1>13. /\ DOMAIN r = fields /\ r["peer_id"] = e.peer_id
         /\ \A f \in fields \ {"peer_id"} : r[f] = v[f]
    BY Zenon, <1>1, <1>2, <1>12, CodecAssumption DEF ReadRemote
  <1>14. RemoteReadable(b)
    <2>1. b["peer_id"] = Show(e.peer_id)
      BY Zenon, <1>2, <1>6, <1>9 DEF RemoteRequired
    <2> QED
      BY Zenon, <1>1, <1>10, <2>1, CodecAssumption DEF RemoteReadable
  <1> HIDE DEF r
  <1>15. DecodePubkey(r["wg_public_key"]) = e.wg_public_key /\ ParseUla(r["ula"]) = e.ula
    BY <1>1, <1>2, <1>13, CodecAssumption DEF DecodePubkey
  <1>16. InfoOk(r)
    BY Zenon, <1>1, <1>15, CodecAssumption DEF InfoOk
  <1>17. RemoteToInfo(r) = Learned(e)
    <2> DEFINE i == RemoteToInfo(r)
    <2>1. /\ i = [f \in fields |-> i[f]]
          /\ i["wg_public_key"] = e.wg_public_key /\ i["ula"] = e.ula
          /\ i["listen_endpoint"] = Endpoint(r["listen_endpoint"])
          /\ i["hosted_app_ulas"] = {ParseUla(t) : t \in r["hosted_app_ulas"]} \ {Malformed}
          /\ \A f \in fields \ {"wg_public_key", "ula", "listen_endpoint", "hosted_app_ulas"} :
               i[f] = r[f]
      BY Zenon, <1>13, <1>15 DEF RemoteToInfo
    <2> HIDE DEF i
    <2>2. /\ r["listen_endpoint"] = e["listen_endpoint"]
          /\ r["hosted_app_ulas"] = e["hosted_app_ulas"]
          /\ \A f \in fields \ coded : r[f] = e[f]
      BY Zenon, <1>2, <1>13
    <2>3. ASSUME NEW f \in fields
          PROVE  i[f] = CASE f = "listen_endpoint" -> Endpoint(e[f])
                          [] f = "hosted_app_ulas" -> {ParseUla(t) : t \in e[f]} \ {Malformed}
                          [] OTHER -> e[f]
      BY Zenon, <1>13, <2>1, <2>2
    <2>4. Learned(e) = [f \in fields |-> i[f]]
      <3> HIDE DEF fields
      <3> QED
        BY Zenon, <1>8, <2>3 DEF Learned
    <2> QED
      BY Zenon, <2>1, <2>4 DEF i
  <1> QED
    BY Zenon, <1>14, <1>16, <1>17 DEF b, r

\* From the entries of an answer the joiner knows the peers they were written for.
LEMMA KnowsEntries ==
  ASSUME NEW peers \in SUBSET Entries, NEW answer,
         answer.peers = {ReadRemote(p) : p \in {PeerBody(e) : e \in peers}}
  PROVE  Known(answer) = {Learned(e) : e \in peers}
  <1>1. {q \in answer.peers : InfoOk(q)} = {ReadRemote(PeerBody(e)) : e \in peers}
    BY Zenon, EntryReadsBack
  <1>2. {RemoteToInfo(r) : r \in {ReadRemote(PeerBody(e)) : e \in peers}} =
          {Learned(e) : e \in peers}
    BY Zenon, EntryReadsBack
  <1> QED
    BY Zenon, <1>1, <1>2 DEF Known

\* The joiner adopts the id and the address it was granted and knows the roster that came
\* with them, whatever the answer says of the observed address (RegisterResponse).
THEOREM GrantArrives ==
  ASSUME NEW id \in Ids, NEW ula \in Ulas,
         NEW peers \in SUBSET Entries, {PeerBody(e) : e \in peers} # Null,
         NEW ip \in Option(Text), NEW endpoint \in Option(Text)
  PROVE  LET body == RegisterAnswer(id, ula, peers, ip, endpoint)
             answer == ReadRegisterAnswer(body)
         IN /\ AnswerReadable(body, RegisterAnswerRequired, RegisterAnswerDefault)
            /\ answer.peer_id = id /\ ParseUla(answer.ula) = ula
            /\ Known(answer) = {Learned(e) : e \in peers}
  <1> DEFINE body == RegisterAnswer(id, ula, peers, ip, endpoint)
             bodies == {PeerBody(e) : e \in peers}
             read == Deserialize(body, RegisterAnswerRequired, RegisterAnswerDefault)
             optional == {"observed_ip", "observed_endpoint"}
             fields == {"peer_id", "ula", "peers"} \cup optional
             v == [peer_id |-> Show(id), ula |-> Show(ula), peers |-> bodies,
                   observed_ip |-> ip, observed_endpoint |-> endpoint]
  <1>1. DOMAIN AnswerSkip = optional \cup {"pending_commands"}
    BY Zenon DEF AnswerSkip
  <1>2. /\ DOMAIN RegisterAnswerDefault = optional
        /\ \A f \in optional : RegisterAnswerDefault[f] = Null
    BY DEF RegisterAnswerDefault
  <1>3. /\ DOMAIN v = fields /\ v["peers"] = bodies /\ v["peer_id"] = Show(id)
        /\ v["ula"] = Show(ula)
    BY Zenon
  <1>4. body = Serialize(v, AnswerSkip)
    BY Zenon DEF RegisterAnswer
  <1>5. Show(id) # Null /\ Show(ula) # Null /\ bodies # Null
    BY CodecAssumption, NullAssumption
  <1> HIDE DEF v, body, bodies
  <1>6. /\ DOMAIN body = {g \in DOMAIN v : g \in DOMAIN AnswerSkip => v[g] # AnswerSkip[g]}
        /\ \A f \in DOMAIN body : body[f] = v[f]
    BY Zenon, <1>4 DEF Serialize
  <1>7. /\ RegisterAnswerRequired \subseteq DOMAIN body /\ body["peers"] = bodies
        /\ body["peer_id"] = Show(id) /\ body["ula"] = Show(ula)
    BY Zenon, <1>1, <1>3, <1>6 DEF RegisterAnswerRequired
  <1>8. Readable(body, RegisterAnswerRequired, RegisterAnswerDefault)
    BY Zenon, <1>2, <1>5, <1>7 DEF Readable, RegisterAnswerRequired
  <1>9. AnswerReadable(body, RegisterAnswerRequired, RegisterAnswerDefault)
    BY Zenon, <1>7, <1>8, EntryReadsBack DEF AnswerReadable, bodies
  <1>10. /\ DOMAIN read = fields /\ read["peers"] = bodies
         /\ read["peer_id"] = Show(id) /\ read["ula"] = Show(ula)
    BY Zenon, <1>2, <1>7 DEF Deserialize, RegisterAnswerRequired
  <1> HIDE DEF read
  <1>11. /\ ReadRegisterAnswer(body).peers = {ReadRemote(p) : p \in bodies}
         /\ ReadRegisterAnswer(body).peer_id = ParseId(Show(id))
         /\ ReadRegisterAnswer(body).ula = Show(ula)
    BY Zenon, <1>10 DEF ReadRegisterAnswer, WithPeers, read
  <1>12. Known(ReadRegisterAnswer(body)) = {Learned(e) : e \in peers}
    BY Zenon, <1>11, KnowsEntries DEF bodies
  <1> QED
    BY Zenon, <1>9, <1>11, <1>12, CodecAssumption DEF body

\* Whatever roster the coordinator puts into a heartbeat's answer, the joiner knows exactly
\* those peers, each by the key, address and id it registered with; no entry is lost on the
\* way and no field written for newer readers makes the answer unreadable (to_info,
\* remote_to_info).
THEOREM RosterArrives ==
  ASSUME NEW peers \in SUBSET Entries, {PeerBody(e) : e \in peers} # Null,
         NEW ip \in Option(Text), NEW endpoint \in Option(Text),
         NEW commands \in SUBSET Text
  PROVE  LET body == HeartbeatAnswer(peers, ip, endpoint, commands)
         IN /\ AnswerReadable(body, {"peers"}, HeartbeatAnswerDefault)
            /\ Known(ReadHeartbeatAnswer(body)) = {Learned(e) : e \in peers}
            /\ ReadHeartbeatAnswer(body).pending_commands = commands
  <1> DEFINE body == HeartbeatAnswer(peers, ip, endpoint, commands)
             bodies == {PeerBody(e) : e \in peers}
             read == Deserialize(body, {"peers"}, HeartbeatAnswerDefault)
             fields == {"peers", "observed_ip", "observed_endpoint", "pending_commands"}
  <1>1. /\ DOMAIN AnswerSkip = fields \ {"peers"} /\ AnswerSkip["pending_commands"] = {}
        /\ AnswerSkip["observed_ip"] = Null /\ AnswerSkip["observed_endpoint"] = Null
    BY Zenon DEF AnswerSkip
  <1>2. /\ DOMAIN HeartbeatAnswerDefault = fields \ {"peers"}
        /\ HeartbeatAnswerDefault["pending_commands"] = {}
        /\ HeartbeatAnswerDefault["observed_ip"] = Null
        /\ HeartbeatAnswerDefault["observed_endpoint"] = Null
    BY Zenon DEF HeartbeatAnswerDefault
  <1> DEFINE v == [peers |-> bodies, observed_ip |-> ip, observed_endpoint |-> endpoint,
                   pending_commands |-> commands]
  <1>3. /\ DOMAIN v = fields /\ v["peers"] = bodies /\ v["pending_commands"] = commands
    BY Zenon
  <1>4. body = Serialize(v, AnswerSkip)
    BY Zenon DEF HeartbeatAnswer
  <1>5. commands # Null /\ bodies # Null
    BY Zenon, NullAssumption
  <1> HIDE DEF v, body, bodies
  <1>6. /\ DOMAIN body = {g \in DOMAIN v : g \in DOMAIN AnswerSkip => v[g] # AnswerSkip[g]}
        /\ \A f \in DOMAIN body : body[f] = v[f]
    BY Zenon, <1>4 DEF Serialize
  <1>7. /\ "peers" \in DOMAIN body /\ body["peers"] = bodies
        /\ "pending_commands" \notin DOMAIN body => commands = {}
        /\ "pending_commands" \in DOMAIN body => body["pending_commands"] = commands
    BY Zenon, <1>1, <1>3, <1>6
  <1>8. Readable(body, {"peers"}, HeartbeatAnswerDefault)
    BY Zenon, <1>2, <1>5, <1>6, <1>7 DEF Readable
  <1>9. AnswerReadable(body, {"peers"}, HeartbeatAnswerDefault)
    BY Zenon, <1>7, <1>8, EntryReadsBack DEF AnswerReadable, bodies
  <1>10. /\ DOMAIN read = fields /\ read["peers"] = bodies
         /\ read["pending_commands"] = commands
    BY Zenon, <1>2, <1>7 DEF Deserialize
  <1> HIDE DEF read
  <1>11. /\ ReadHeartbeatAnswer(body).peers = {ReadRemote(p) : p \in bodies}
         /\ ReadHeartbeatAnswer(body).pending_commands = commands
    BY Zenon, <1>10 DEF ReadHeartbeatAnswer, WithPeers, read
  <1>12. Known(ReadHeartbeatAnswer(body)) = {Learned(e) : e \in peers}
    BY Zenon, <1>11, KnowsEntries DEF bodies
  <1> QED
    BY Zenon, <1>9, <1>11, <1>12 DEF body

-----------------------------------------------------------------------------
(* Admission.                                                              *)

Granted(cfg, pem, a, args, serverPem, allow, auth) ==
  Exchange(cfg, pem, a, args, serverPem, allow, auth).result = "Ok"

\* The body of an exchange reaches the handler as the joiner meant it.
LEMMA BodyReaches ==
  ASSUME NEW a \in RegisterArgs
  PROVE  /\ Readable(RegisterBody(a), RegisterRequired, RegisterDefault)
         /\ ReadRegister(RegisterBody(a)).network = ""
         /\ ReadRegister(RegisterBody(a)).tags = a.tags
         /\ ReadRegister(RegisterBody(a)).requested_ula = a.requested_ula
  <1> DEFINE b == RegisterBody(a)
  <1>1. Without(b, {}) = b
    BY Zenon DEF Without, RegisterBody, Serialize
  <1>2. {} \in SUBSET DOMAIN RegisterDefault
    BY Zenon
  <1>3. /\ Readable(b, RegisterRequired, RegisterDefault)
        /\ ReadRegister(b) = [f \in DOMAIN RegisterRead(a) |->
              IF f \in {} THEN RegisterDefault[f] ELSE RegisterRead(a)[f]]
    BY Zenon, <1>1, <1>2, RegisterArrives
  <1>4. {"network", "tags", "requested_ula"} \subseteq DOMAIN RegisterDefault
        /\ RegisterDefault["network"] = ""
    BY Zenon DEF RegisterDefault
  <1>5. /\ {"network", "tags", "requested_ula"} \subseteq DOMAIN RegisterRead(a)
        /\ RegisterRead(a)["network"] = "" /\ RegisterRead(a)["tags"] = a["tags"]
        /\ RegisterRead(a)["requested_ula"] = a["requested_ula"]
    BY Zenon, <1>4 DEF RegisterRead
  <1> QED
    BY Zenon, <1>3, <1>5

\* A granted exchange passed every check of the handler.
LEMMA GrantedAdmits ==
  ASSUME NEW a \in RegisterArgs, NEW cfg, NEW pem, NEW args, NEW serverPem, NEW allow, NEW auth,
         cfg.join_token \in Option(Text),
         Granted(cfg, pem, a, args, serverPem, allow, auth)
  PROVE  LET bearer == BearerToken(BearerAuth(cfg.join_token))
             login == Authenticate(Validator(args), bearer, auth)
             req == ReadRegister(RegisterBody(a))
         IN /\ login.ok
            /\ AuthorizeFixed(a.requested_ula, login.claims) = "Ok"
            /\ Exchange(cfg, pem, a, args, serverPem, allow, auth).identity =
                 StampIdentity(req, login.claims)
  <1> DEFINE validator == Validator(args)
             header == BearerAuth(cfg.join_token)
             bearer == BearerToken(header)
             login == Authenticate(validator, bearer, auth)
             req == ReadRegister(RegisterBody(a))
             answer == Answer(validator, RegisterBody(a), header, auth)
             exchange == Exchange(cfg, pem, a, args, serverPem, allow, auth)
  <1>1. answer = Admit(validator, req, bearer, auth)
    BY Zenon, BodyReaches DEF Answer
  <1>2. req.requested_ula = a.requested_ula
    BY Zenon, BodyReaches
  <1> HIDE DEF req, bearer, header, validator, login, answer
  <1>3. EnsureSuccess(answer.status) = "Ok" /\ exchange.identity = answer.identity
    BY Zenon DEF Granted, Exchange, answer, header, validator
  <1>4. answer.status = 200
    BY Zenon, <1>3 DEF EnsureSuccess
  <1>5. \A err \in {"Unauthorized", "PubkeyDecode", "InvalidPubkey", "InvalidRequestedUla"} :
          Refused(err).status # 200
    BY DEF Refused, Status
  <1>6. AuthorizeFixed(a.requested_ula, login.claims) \in {"Ok", "InvalidRequestedUla", "Unauthorized"}
    BY Zenon DEF AuthorizeFixed
  <1> HIDE DEF exchange
  <1>7. /\ login.ok /\ AuthorizeFixed(a.requested_ula, login.claims) = "Ok"
        /\ answer = [status |-> 200, identity |-> StampIdentity(req, login.claims)]
    BY <1>1, <1>2, <1>4, <1>5, <1>6 DEF Admit, login
  <1> QED
    BY Zenon, <1>3, <1>7 DEF exchange, login, bearer, header, validator, req

\* With an auth service a join succeeds only on a non-blank token the service calls valid, and
\* then the network and the tags are the token's, the joiner adding only capabilities it may
\* advertise itself, and a reserved infrastructure address is one the token names: the token is
\* trimmed three times on its way and decides all the same (authenticate, stamp_identity,
\* authorize_fixed_requested_ula).
THEOREM TokenDecides ==
  ASSUME NEW a \in RegisterArgs, NEW cfg, NEW pem, NEW args, NEW serverPem, NEW allow,
         NEW auth \in [Text -> AuthAnswers], cfg.join_token \in Option(Text),
         Validator(args), Granted(cfg, pem, a, args, serverPem, allow, auth)
  PROVE  LET answer == auth[Trim(cfg.join_token)]
         IN /\ cfg.join_token # Null /\ Trim(cfg.join_token) # ""
            /\ answer.outcome = "ok" /\ answer.claims.valid /\ answer.claims.kind \in {"", "join"}
            /\ Exchange(cfg, pem, a, args, serverPem, allow, auth).identity =
                 [network |-> answer.claims.network,
                  tags |-> answer.claims.tags \cup (a.tags \cap Capabilities)]
            /\ a.requested_ula # Null /\ ParseUla(a.requested_ula) \in FixedInfra =>
                 \E t \in answer.claims.requested_ulas : ParseUla(t) = ParseUla(a.requested_ula)
  <1> DEFINE token == cfg.join_token
             bearer == BearerToken(BearerAuth(token))
             login == Authenticate(Validator(args), bearer, auth)
             answer == auth[Trim(token)]
             req == ReadRegister(RegisterBody(a))
             exchange == Exchange(cfg, pem, a, args, serverPem, allow, auth)
  <1>1. /\ login.ok /\ AuthorizeFixed(a.requested_ula, login.claims) = "Ok"
        /\ exchange.identity = StampIdentity(req, login.claims)
    BY Zenon, GrantedAdmits
  <1>2. req.tags = a.tags
    BY Zenon, BodyReaches
  <1> HIDE DEF exchange, req, bearer
  <1>3. /\ Present(bearer) /\ Validates(auth[Trim(bearer)]) /\ auth[Trim(bearer)].claims.valid
        /\ login.claims = auth[Trim(bearer)].claims
    BY Zenon, <1>1 DEF Authenticate, Unauthorized
  <1>4. Present(token) /\ Trim(bearer) = Trim(token)
    <2>1. bearer # Null
      BY Zenon, <1>3 DEF Present
    <2>2. Present(token)
      BY Zenon, <2>1 DEF bearer, BearerToken, BearerAuth
    <2>3. token \in Text
      BY Zenon, <2>2 DEF Present, Option
    <2> QED
      BY Zenon, <2>2, <2>3, TrimAssumption, NullAssumption DEF bearer, BearerToken, BearerAuth, Present
  <1>5. answer.claims # Null
    <2>1. token \in Text
      BY Zenon, <1>4 DEF Present, Option
    <2>2. answer \in AuthAnswers
      BY Zenon, <2>1, TrimAssumption
    <2>3. answer.claims \in Claims
      BY Zenon, <2>2 DEF AuthAnswers
    <2> QED
      BY Zenon, <2>3, ClaimsAssumption
  <1>6. /\ Validates(answer) /\ answer.claims.valid /\ login.claims = answer.claims
    BY Zenon, <1>3, <1>4
  <1> HIDE DEF login, answer
  <1>7. exchange.identity = [network |-> answer.claims.network,
                             tags |-> answer.claims.tags \cup (a.tags \cap Capabilities)]
    BY Zenon, <1>1, <1>2, <1>5, <1>6 DEF StampIdentity
  <1>8. a.requested_ula # Null /\ ParseUla(a.requested_ula) \in FixedInfra =>
          \E t \in answer.claims.requested_ulas : ParseUla(t) = ParseUla(a.requested_ula)
    BY Zenon, <1>1, <1>6 DEF AuthorizeFixed
  <1> QED
    BY Zenon, <1>4, <1>6, <1>7, <1>8 DEF Validates, Present, answer, exchange

\* Without an auth service every joiner shares the unnamed network with the tags it sent, and
\* no reserved infrastructure address is ever handed out (a disabled validator).
THEOREM OpenNetwork ==
  ASSUME NEW a \in RegisterArgs, NEW cfg, NEW pem, NEW args, NEW serverPem, NEW allow,
         NEW auth, cfg.join_token \in Option(Text),
         ~Validator(args), Granted(cfg, pem, a, args, serverPem, allow, auth)
  PROVE  /\ Exchange(cfg, pem, a, args, serverPem, allow, auth).identity =
              [network |-> "", tags |-> a.tags]
         /\ a.requested_ula # Null => ParseUla(a.requested_ula) \notin FixedInfra
  <1> DEFINE bearer == BearerToken(BearerAuth(cfg.join_token))
             login == Authenticate(Validator(args), bearer, auth)
             req == ReadRegister(RegisterBody(a))
             exchange == Exchange(cfg, pem, a, args, serverPem, allow, auth)
  <1>1. /\ AuthorizeFixed(a.requested_ula, login.claims) = "Ok"
        /\ exchange.identity = StampIdentity(req, login.claims)
    BY Zenon, GrantedAdmits
  <1>2. req.tags = a.tags /\ req.network = ""
    BY Zenon, BodyReaches
  <1>3. login.claims = Null
    BY Zenon DEF Authenticate
  <1> HIDE DEF exchange, req, login
  <1> QED
    BY Zenon, <1>1, <1>2, <1>3 DEF StampIdentity, AuthorizeFixed, exchange

\* Both sides agree on the transport of a join that succeeds, and plaintext takes the consent
\* of three: the joiner's flag, the coordinator's flag and the coordinator's environment.
THEOREM TransportAgreed ==
  ASSUME NEW a, NEW cfg, NEW pem, NEW args, NEW serverPem, NEW allow, NEW auth,
         cfg.insecure_no_mtls \in BOOLEAN, args.insecure_no_mtls \in BOOLEAN, allow \in BOOLEAN,
         Granted(cfg, pem, a, args, serverPem, allow, auth)
  PROVE  /\ cfg.insecure_no_mtls = args.insecure_no_mtls
         /\ cfg.insecure_no_mtls => allow
         /\ ~cfg.insecure_no_mtls => Given(cfg) /\ Given(pem) /\ Given(args) /\ Given(serverPem)
  <1>1. Client(cfg, pem) \in {"plaintext", "mtls"} /\ Client(cfg, pem) = Serves(args, serverPem, allow)
    BY Zenon DEF Granted, Exchange, Client, Serves
  <1> QED
    BY Zenon, <1>1 DEF Client, Serves

-----------------------------------------------------------------------------
(* The address a joiner learns by STUN.                                    *)

LEMMA CookieOctets == Cookie \in [1 .. 4 -> Octet]
  BY DEF Cookie, Octet

LEMMA KeyOctets == ASSUME NEW txid \in Txid PROVE Key(txid) \in [1 .. 16 -> Octet]
  <1>1. ASSUME NEW i \in 1 .. 16 PROVE (IF i <= 4 THEN Cookie[i] ELSE txid[i - 4]) \in Octet
    <2>1. CASE i <= 4
      BY <2>1, CookieOctets
    <2>2. CASE ~(i <= 4)
      <3>1. i - 4 \in 1 .. 12
        BY <2>2
      <3> QED
        BY Zenon, <2>2, <3>1 DEF Txid
    <2> QED
      BY Zenon, <2>1, <2>2
  <1> QED
    BY Zenon, <1>1 DEF Key

\* Masking twice with the same key gives the octets back.
LEMMA MaskUndone ==
  ASSUME NEW n \in Nat, NEW f \in [1 .. n -> Octet], NEW key,
         \A i \in 1 .. n : key[i] \in Octet
  PROVE  Masked(Masked(f, key), key) = f
  <1>1. /\ DOMAIN Masked(f, key) = 1 .. n
        /\ \A i \in 1 .. n : Masked(f, key)[i] = OctetXor(f[i], key[i])
    BY Zenon DEF Masked
  <1>2. \A i \in 1 .. n : OctetXor(Masked(f, key)[i], key[i]) = f[i]
    <2> TAKE i \in 1 .. n
    <2>1. f[i] \in Octet /\ key[i] \in Octet
      BY Zenon
    <2>2. OctetXor(OctetXor(f[i], key[i]), key[i]) = f[i]
      BY Zenon, <2>1, XorAssumption
    <2> QED
      BY Zenon, <1>1, <2>2
  <1>3. Masked(Masked(f, key), key) = [i \in 1 .. n |-> f[i]]
    BY Zenon, <1>1, <1>2 DEF Masked
  <1> QED
    BY Zenon, <1>3

\* The walk finds the first mapped address, behind any whole attributes of other types.
LEMMA WalkFinds ==
  ASSUME NEW resp, NEW txid, NEW k \in Nat \ {0},
         resp.type = "success", resp.txid = txid, k \in DOMAIN resp.attrs,
         DOMAIN resp.attrs \subseteq Nat \ {0},
         Hit(resp.attrs[k]),
         \A j \in 1 .. k : resp.attrs[j].whole,
         \A j \in 1 .. (k - 1) : ~Hit(resp.attrs[j])
  PROVE  ParseXorMappedAddress(resp, txid) = Unmasked(resp.attrs[k], txid)
  <1> DEFINE First(i) == Hit(resp.attrs[i]) /\ \A j \in 1 .. (i - 1) : ~Hit(resp.attrs[j])
  <1>1. First(k)
    BY Zenon
  <1>2. ASSUME NEW i \in DOMAIN resp.attrs, First(i) PROVE i = k
    <2>1. CASE i < k
      <3>1. i \in 1 .. (k - 1)
        BY <2>1
      <3> QED
        BY Zenon, <3>1, <1>2
    <2>2. CASE k < i
      <3>1. k \in 1 .. (i - 1)
        BY <2>2
      <3> QED
        BY Zenon, <3>1, <1>2, <1>1
    <2> QED
      BY <2>1, <2>2
  <1>3. (CHOOSE i \in DOMAIN resp.attrs : First(i)) = k
    BY Zenon, <1>1, <1>2
  <1>4. \E i \in DOMAIN resp.attrs : First(i) /\ \A j \in 1 .. i : resp.attrs[j].whole
    BY Zenon, <1>1
  <1> QED
    BY Zenon, <1>3, <1>4 DEF ParseXorMappedAddress

\* Unmasking what the server masked gives the source address back.
LEMMA AttributeUndone ==
  ASSUME NEW txid \in Txid, NEW source \in SocketAddr
  PROVE  /\ Unmasked(MappedAttribute(source, txid), txid) = source
         /\ Hit(MappedAttribute(source, txid))
         /\ MappedAttribute(source, txid).whole
  <1>1. Masked(Masked(source.port, Cookie), Cookie) = source.port
    <2>1. source.port \in [1 .. 2 -> Octet]
      BY Zenon DEF SocketAddr, V4, V6, Port
    <2>2. \A i \in 1 .. 2 : Cookie[i] \in Octet
      BY CookieOctets
    <2> QED
      BY Zenon, <2>1, <2>2, MaskUndone
  <1>2. \A i \in 1 .. 16 : Key(txid)[i] \in Octet
    BY Zenon, KeyOctets
  <1>3. CASE source \in V4
    <2>1. source.family = "v4" /\ source.ip \in [1 .. 4 -> Octet]
      BY Zenon, <1>3 DEF V4
    <2>2. \A i \in 1 .. 4 : Key(txid)[i] \in Octet
      BY <1>2
    <2>3. Masked(Masked(source.ip, Key(txid)), Key(txid)) = source.ip
      <3> DEFINE key == Key(txid)
                 ip == source.ip
      <3>1. ip \in [1 .. 4 -> Octet] /\ \A i \in 1 .. 4 : key[i] \in Octet
        BY Zenon, <2>1, <2>2
      <3> HIDE DEF key, ip
      <3>2. Masked(Masked(ip, key), key) = ip
        BY Zenon, <3>1, MaskUndone
      <3> QED
        BY Zenon, <3>2 DEF key, ip
    <2>4. source = [family |-> source.family, ip |-> source.ip, port |-> source.port]
      BY Zenon, <1>3 DEF V4
    <2> QED
      BY <1>1, <2>1, <2>3, <2>4 DEF Unmasked, MappedAttribute, Hit
  <1>4. CASE source \in V6
    <2>1. source.family = "v6" /\ source.ip \in [1 .. 16 -> Octet]
      BY Zenon, <1>4 DEF V6
    <2>3. Masked(Masked(source.ip, Key(txid)), Key(txid)) = source.ip
      <3> DEFINE key == Key(txid)
                 ip == source.ip
      <3>1. ip \in [1 .. 16 -> Octet] /\ \A i \in 1 .. 16 : key[i] \in Octet
        BY Zenon, <2>1, <1>2
      <3> HIDE DEF key, ip
      <3>2. Masked(Masked(ip, key), key) = ip
        BY Zenon, <3>1, MaskUndone
      <3> QED
        BY Zenon, <3>2 DEF key, ip
    <2>4. source = [family |-> source.family, ip |-> source.ip, port |-> source.port]
      BY Zenon, <1>4 DEF V6
    <2> QED
      BY <1>1, <2>1, <2>3, <2>4 DEF Unmasked, MappedAttribute, Hit
  <1> QED
    BY Zenon, <1>3, <1>4 DEF SocketAddr

\* The joiner reads out of the server's answer exactly the address the server saw, IPv4 or
\* IPv6, whatever whole attributes a server or a middlebox puts before the mapped address
\* (parse_xor_mapped_address against build_binding_response).
THEOREM MappingRoundTrip ==
  ASSUME NEW txid \in Txid, NEW source \in SocketAddr, NEW n \in Nat, NEW attrs,
         DOMAIN attrs = 1 .. (n + 1),
         \A j \in 1 .. n : attrs[j].whole /\ ~Hit(attrs[j]),
         attrs[n + 1] = BindingResponse(BindingRequest(txid), source).attrs[1]
  PROVE  ParseXorMappedAddress(
           [BindingResponse(BindingRequest(txid), source) EXCEPT !.attrs = attrs], txid)
         = source
  <1> DEFINE answer == BindingResponse(BindingRequest(txid), source)
             resp == [answer EXCEPT !.attrs = attrs]
  <1>1. answer = [type |-> "success", cookie |-> Cookie, txid |-> txid,
                  attrs |-> <<MappedAttribute(source, txid)>>]
    BY Zenon DEF BindingResponse, BindingRequest
  <1>2. resp.type = "success" /\ resp.txid = txid /\ resp.attrs = attrs
    BY <1>1
  <1>3. attrs[n + 1] = MappedAttribute(source, txid)
    BY <1>1
  <1>4. Hit(attrs[n + 1]) /\ attrs[n + 1].whole /\ Unmasked(attrs[n + 1], txid) = source
    BY Zenon, <1>3, AttributeUndone
  <1>5. \A j \in 1 .. (n + 1) : attrs[j].whole
    BY <1>4
  <1>6. \A j \in 1 .. ((n + 1) - 1) : ~Hit(attrs[j])
    OBVIOUS
  <1>7. n + 1 \in Nat \ {0} /\ n + 1 \in DOMAIN attrs /\ DOMAIN attrs \subseteq Nat \ {0}
    OBVIOUS
  <1> HIDE DEF resp
  <1>8. ParseXorMappedAddress(resp, txid) = Unmasked(resp.attrs[n + 1], txid)
    BY <1>2, <1>4, <1>5, <1>6, <1>7, WalkFinds
  <1> QED
    BY Zenon, <1>2, <1>4, <1>8 DEF resp

\* A joiner whose question is answered first advertises its mapping when others can dial it,
\* and otherwise what it was configured with (stun_mapping_to_advertise).
THEOREM AdvertisesMapping ==
  ASSUME NEW txid \in Txid, NEW source \in SocketAddr, NEW configured
  PROVE  Advertise(DiscoverWgMapping(
                     <<BindingResponse(BindingRequest(txid), source)>>, txid), configured)
         = IF IsPublic(source) THEN source ELSE configured
  <1> DEFINE answer == BindingResponse(BindingRequest(txid), source)
             attrs == <<MappedAttribute(source, txid)>>
  <1>1. answer = [type |-> "success", cookie |-> Cookie, txid |-> txid, attrs |-> attrs]
    BY Zenon DEF BindingResponse, BindingRequest
  <1>2. answer.type = "success" /\ answer.txid = txid /\ answer.attrs = attrs
    BY <1>1
  <1>3. /\ DOMAIN attrs = 1 .. 1 /\ attrs[1] = MappedAttribute(source, txid)
        /\ 1 \in DOMAIN attrs /\ DOMAIN attrs \subseteq Nat \ {0}
    OBVIOUS
  <1>4. Hit(attrs[1]) /\ attrs[1].whole /\ Unmasked(attrs[1], txid) = source
    BY Zenon, <1>3, AttributeUndone
  <1>5. /\ \A j \in 1 .. 1 : attrs[j].whole
        /\ \A j \in 1 .. (1 - 1) : ~Hit(attrs[j])
    BY <1>4
  <1> HIDE DEF answer, attrs
  <1>6. ParseXorMappedAddress(answer, txid) = source
    BY <1>2, <1>3, <1>4, <1>5, WalkFinds
  <1>7. source # NoAddr
    <2>1. source.family \in {"v4", "v6"}
      BY Zenon DEF SocketAddr, V4, V6
    <2>2. NoAddr.family = "none"
      BY Zenon DEF NoAddr
    <2> QED
      BY Zenon, <2>1, <2>2
  <1>8. Advertise(source, configured) = IF IsPublic(source) THEN source ELSE configured
    BY Zenon, <1>7 DEF Advertise, StunMappingToAdvertise
  <1> QED
    BY Zenon, <1>6, <1>8 DEF answer, DiscoverWgMapping

-----------------------------------------------------------------------------
(* Module Sessions.                                                        *)

Events == {Added(i) : i \in Infos} \cup {Updated(i) : i \in Infos} \cup {Removed(d) : d \in InfoIds}

JobFields == {"at", "info", "sess", "todo", "keep", "doomed", "gone"}

\* Where a task has a record in hand.
Holding == {"upsert", "build", "index", "apps"}

\* Record i, if it is another peer's, was in the roster: h are the keys of the past.
WasHeld(h, i) == i \in Infos /\ (i.ula \in PeerUlas => i.key \in h[i.ula])

EventOk(h, e) == e.kind # "removed" => WasHeld(h, e.info)

JobOk(h, j) ==
  /\ DOMAIN j = JobFields
  /\ \A i \in j.todo : WasHeld(h, i)
  /\ j.at \in Holding => WasHeld(h, j.info)

\* What the coordinator holds, and all that is under way to the table, was in the roster.
RosterOk ==
  /\ DOMAIN past = PeerUlas
  /\ \A i, j \in roster : i.ula = j.ula /\ i.ula \in PeerUlas => i = j
  /\ \A i \in roster \cup pending \cup initial : WasHeld(past, i)
RingOk == ring \in Seq(Events) /\ \A n \in 1..Len(ring) : EventOk(past, ring[n])
JobsOk == DOMAIN job = Tasks /\ \A t \in Tasks : JobOk(past, job[t])

\* The address index and the receiver refer to live sessions.
TableOk ==
  /\ obj \in [Objects -> PeerSessions \cup {None}]
  /\ by_ula \in [InfoUlas -> Objects \cup {None}]
  /\ \A u \in InfoUlas : by_ula[u] # None => obj[by_ula[u]] # None
  /\ \A r \in rx : r.sess \in Objects /\ obj[r.sess] # None /\ r.source \in Sources

TableInv == RosterOk /\ RingOk /\ JobsOk /\ TableOk

-----------------------------------------------------------------------------
(* Records, events and jobs.                                               *)

\* The joiner's own records share its key and address, which no other record has.
LEMMA OwnRecords ==
  /\ \A i \in Selves : i.key = MyKey /\ i.ula = MyUla
  /\ \A i \in Infos : i.ula \in PeerUlas => i \in Peers /\ i.key \in InfoKeys \ {MyKey}
<1>1. PICK s \in Selves : s = CHOOSE i \in Selves : TRUE
  BY Zenon, InfoAssumption
<1>2. MyKey = s.key /\ MyUla = s.ula
  BY Zenon, <1>1 DEF MyKey, MyUla
<1>3. \A i \in Selves : i.key = MyKey /\ i.ula = MyUla
  BY Zenon, <1>2, InfoAssumption
<1>4. ASSUME NEW i \in Infos, i.ula \in PeerUlas PROVE i \in Peers /\ i.key \in InfoKeys \ {MyKey}
  <2>1. i \in Peers
    BY Zenon, <1>3, <1>4 DEF Infos, PeerUlas
  <2>2. i.key # MyKey
    BY Zenon, <1>2, <2>1, InfoAssumption
  <2> QED BY Zenon, <2>1, <2>2 DEF InfoKeys
<1> QED BY Zenon, <1>3, <1>4

\* A key that was in the roster stays one that was.
LEMMA KnownStays ==
  ASSUME NEW h, NEW g, \A u \in PeerUlas : h[u] \subseteq g[u]
  PROVE  /\ \A i : WasHeld(h, i) => WasHeld(g, i)
         /\ \A e : EventOk(h, e) => EventOk(g, e)
         /\ \A j : JobOk(h, j) => JobOk(g, j)
<1>1. \A i : WasHeld(h, i) => WasHeld(g, i)
  BY Zenon DEF WasHeld
<1> QED BY Zenon, <1>1 DEF EventOk, JobOk

LEMMA IdleOk == ASSUME NEW h PROVE JobOk(h, Idle) /\ Idle.todo = {} /\ Idle.at = "idle"
  BY Zenon DEF JobOk, Idle, JobFields, Holding

\* The next statement of a reconcile takes one of the records at hand.
LEMMA OnwardOk == ASSUME NEW h, NEW j, JobOk(h, j) PROVE JobOk(h, Onward(j))
<1>1. CASE j.at = "record" /\ j.todo # {}
  <2>1. PICK i \in j.todo : i = CHOOSE x \in j.todo : TRUE
    BY Zenon, <1>1
  <2>2. Onward(j) = [j EXCEPT !.at = "upsert", !.info = i, !.todo = @ \ {i}, !.keep = @ \cup {i.ula}]
    BY Zenon, <1>1, <2>1 DEF Onward
  <2>3. /\ DOMAIN Onward(j) = JobFields /\ Onward(j).info = i
        /\ Onward(j).todo = j.todo \ {i}
    BY Zenon, <2>2 DEF JobOk, JobFields
  <2> QED BY Zenon, <2>3 DEF JobOk
<1>2. CASE j.at = "record" /\ j.todo = {}
  <2>1. Onward(j) = [Idle EXCEPT !.at = "prune", !.keep = j.keep]
    BY Zenon, <1>2 DEF Onward
  <2>2. DOMAIN Onward(j) = JobFields /\ Onward(j).todo = {} /\ Onward(j).at = "prune"
    BY Zenon, <2>1 DEF Idle, JobFields
  <2> QED BY Zenon, <2>2 DEF JobOk, Holding
<1>3. CASE j.at # "record"
  <2>1. Onward(j) \in {j, Idle}
    BY Zenon, <1>3 DEF Onward
  <2> QED BY Zenon, <2>1, IdleOk
<1> QED BY Zenon, <1>1, <1>2, <1>3

LEMMA ReconcilingOk ==
  ASSUME NEW h, NEW ps, \A i \in ps : WasHeld(h, i)
  PROVE  JobOk(h, Reconciling(ps))
<1> DEFINE j == [Idle EXCEPT !.at = "record", !.todo = ps]
<1>1. DOMAIN j = JobFields /\ j.todo = ps /\ j.at = "record"
  BY Zenon DEF Idle, JobFields
<1>2. JobOk(h, j)
  BY Zenon, <1>1 DEF JobOk, Holding
<1> QED BY Zenon, <1>2, OnwardOk DEF Reconciling

\* One task goes on with a sound job.
LEMMA JobSet ==
  ASSUME JobsOk, NEW t \in Tasks, NEW j, JobOk(past', j), job' = [job EXCEPT ![t] = j],
         \A u \in PeerUlas : past[u] \subseteq past'[u]
  PROVE  JobsOk'
<1>1. DOMAIN job' = Tasks /\ job'[t] = j /\ \A s \in Tasks \ {t} : job'[s] = job[s]
  BY Zenon DEF JobsOk
<1>2. \A s \in Tasks \ {t} : JobOk(past', job[s])
  BY Zenon, KnownStays DEF JobsOk
<1> QED BY Zenon, <1>1, <1>2 DEF JobsOk

-----------------------------------------------------------------------------
(* The coordinator's side.                                                 *)

\* The ring keeps events of records that were in the roster, also when it overflows.
LEMMA RingKept ==
  ASSUME RingOk, NEW e \in Events, EventOk(past', e), Broadcast(e),
         \A u \in PeerUlas : past[u] \subseteq past'[u]
  PROVE  RingOk'
<1>1. \A n \in 1..Len(ring) : EventOk(past', ring[n])
  BY Zenon, KnownStays DEF RingOk
<1>2. CASE ring' = ring
  BY Zenon, <1>1, <1>2 DEF RingOk
<1> DEFINE r == Append(ring, e)
<1>3. /\ r \in Seq(Events) /\ Len(r) = Len(ring) + 1 /\ Len(ring) \in Nat
      /\ \A n \in 1..Len(ring) : r[n] = ring[n]
      /\ r[Len(ring) + 1] = e
  BY DEF RingOk
<1>4. \A n \in 1..Len(r) : EventOk(past', r[n])
  BY <1>1, <1>3
<1>5. CASE ring' = r
  BY Zenon, <1>3, <1>4, <1>5 DEF RingOk
<1>6. CASE ring' = Tail(r)
  <2> HIDE DEF r
  <2>1. r # <<>>
    BY <1>3
  <2>2. /\ Tail(r) \in Seq(Events) /\ Len(Tail(r)) = Len(r) - 1
        /\ \A n \in 1..Len(Tail(r)) : Tail(r)[n] = r[n + 1] /\ n + 1 \in 1..Len(r)
    BY <1>3, <2>1
  <2> QED BY Zenon, <1>4, <1>6, <2>2 DEF RingOk
<1> QED BY Zenon, <1>2, <1>5, <1>6 DEF Broadcast

\* The roster becomes rs: what is in it, and what was known before, is known.
LEMMA RosterChanges ==
  ASSUME RosterOk, NEW rs, NEW p, Changed(rs, p), rs \subseteq Infos,
         \A i, j \in rs : i.ula = j.ula /\ i.ula \in PeerUlas => i = j,
         pending' \subseteq pending \cup rs, initial' \subseteq initial \cup rs
  PROVE  /\ RosterOk'
         /\ \A u \in PeerUlas : past[u] \subseteq past'[u]
         /\ \A i \in rs : WasHeld(past', i)
<1>1. /\ DOMAIN past' = PeerUlas
      /\ \A u \in PeerUlas : past'[u] = past[u] \cup {i.key : i \in {r \in rs : r.ula = u}}
  BY Zenon DEF Changed
<1>2. \A u \in PeerUlas : past[u] \subseteq past'[u]
  BY Zenon, <1>1
<1>3. \A i \in rs : WasHeld(past', i)
  BY <1>1 DEF WasHeld
<1>4. \A i \in pending \cup initial : WasHeld(past', i)
  BY Zenon, <1>2, KnownStays DEF RosterOk
<1>5. roster' = rs
  BY Zenon DEF Changed
<1> QED BY Zenon, <1>1, <1>2, <1>3, <1>4, <1>5 DEF RosterOk

\* What the roster has at an address is what the view is told of it.
HeldOk ==
  /\ HeldKeys \in [PeerUlas -> (InfoKeys \ {MyKey}) \cup {None}]
  /\ \A u \in PeerUlas : {i.key : i \in {r \in roster : r.ula = u}} = {HeldKeys[u]} \ {None}

\* The keys the roster has are of other peers, one at an address.
LEMMA HeldAt == RosterOk => HeldOk
<1> SUFFICES ASSUME RosterOk PROVE HeldOk
  BY Zenon
<1>1. ASSUME NEW u \in PeerUlas
      PROVE  /\ HeldKeys[u] \in (InfoKeys \ {MyKey}) \cup {None}
             /\ {i.key : i \in {r \in roster : r.ula = u}} = {HeldKeys[u]} \ {None}
  <2> DEFINE at == {r \in roster : r.ula = u}
  <2>1. CASE at = {}
    <3>1. HeldKeys[u] = None
      BY Zenon, <2>1 DEF HeldKeys
    <3> QED BY Zenon, <2>1, <3>1
  <2>2. CASE at # {}
    <3>1. PICK i \in at : i = CHOOSE r \in at : TRUE
      BY Zenon, <2>2
    <3>2. HeldKeys[u] = i.key
      BY Zenon, <2>2, <3>1 DEF HeldKeys
    <3>3. i \in Infos /\ i.ula = u /\ at = {i}
      BY Zenon, <3>1 DEF RosterOk, WasHeld
    <3>4. i.key \in InfoKeys \ {MyKey} /\ i.key # None
      BY Zenon, <3>3, OwnRecords, InfoAssumption
    <3> QED BY Zenon, <3>2, <3>3, <3>4
  <2> QED BY Zenon, <2>1, <2>2
<1>2. DOMAIN HeldKeys = PeerUlas /\ HeldKeys = [u \in PeerUlas |-> HeldKeys[u]]
  BY DEF HeldKeys
<1> QED BY Zenon, <1>1, <1>2 DEF HeldOk

\* The same after a step.
LEMMA HeldNext == RosterOk' => HeldOk'
  BY HeldAt, PTL

\* A change of the roster or of the policy is one of the abstract view.
LEMMA ChangeShown ==
  ASSUME RosterOk', NEW rs, NEW p, Changed(rs, p), View' = View
  PROVE  Shown!Change
<1>1. /\ HeldKeys' \in [PeerUlas -> (InfoKeys \ {MyKey}) \cup {None}]
      /\ \A u \in PeerUlas :
           {i.key : i \in {r \in roster' : r.ula = u}} = {HeldKeys'[u]} \ {None}
  BY Zenon, HeldNext DEF HeldOk
<1>2. Seen' \subseteq PeerUlas
  BY Zenon DEF Seen
<1>3. Shown!Recorded(HeldKeys') = [u \in PeerUlas |-> {HeldKeys'[u]} \ {None}]
  BY Zenon DEF Shown!Recorded
<1>4. past' = [u \in PeerUlas |-> past[u] \cup Shown!Recorded(HeldKeys')[u]]
  BY Zenon, <1>1, <1>3 DEF Changed
<1> QED BY Zenon, <1>1, <1>2, <1>4 DEF Shown!Change

\* Nothing of the roster or the policy changes.
LEMMA CoordSame ==
  ASSUME UNCHANGED <<roster, policy, past>>
  PROVE  HeldKeys' = HeldKeys /\ Seen' = Seen /\ past' = past
  BY DEF HeldKeys, Seen, Visible

\* The table keeps its sessions.
LEMMA TableSame ==
  ASSUME TableOk, UNCHANGED <<by_ula, obj>>
  PROVE  View' = View /\ (rx' \subseteq rx => TableOk')
<1>1. View' = View
  BY Zenon DEF View
<1> QED BY Zenon, <1>1 DEF TableOk

\* Handlers of the coordinator.
LEMMA CoordStep ==
  ASSUME TableInv,
         \/ \E i \in Peers : Join(i) \/ \E j \in Peers : Update(i, j)
         \/ \E i \in Infos : Leave(i)
         \/ \E p \in SUBSET Tags : PutPolicy(p)
  PROVE  TableInv' /\ Shown!Change
<1>0. RosterOk /\ RingOk /\ JobsOk /\ TableOk
  BY Zenon DEF TableInv
<1>1. ASSUME NEW rs, rs \subseteq Infos, NEW e \in Events,
             \A i, j \in rs : i.ula = j.ula /\ i.ula \in PeerUlas => i = j,
             e.kind # "removed" => e.info \in rs, Change(rs, e)
      PROVE  TableInv' /\ Shown!Change
  <2>1. Changed(rs, policy) /\ Broadcast(e) /\ UNCHANGED <<pending, initial, obj, by_ula, job, rx>>
    BY Zenon, <1>1 DEF Change, tableVars, indexes
  <2>2. /\ RosterOk'
        /\ \A u \in PeerUlas : past[u] \subseteq past'[u]
        /\ \A i \in rs : WasHeld(past', i)
    BY Zenon, <1>0, <1>1, <2>1, RosterChanges
  <2>3. RingOk'
    BY Zenon, <1>0, <1>1, <2>1, <2>2, RingKept DEF EventOk
  <2>4. JobsOk'
    BY Zenon, <1>0, <2>1, <2>2, KnownStays DEF JobsOk
  <2>5. TableOk' /\ View' = View
    BY Zenon, <1>0, <2>1, TableSame
  <2> QED BY Zenon, <2>1, <2>2, <2>3, <2>4, <2>5, ChangeShown DEF TableInv
<1>2. roster \subseteq Infos /\ \A i, j \in roster : i.ula = j.ula /\ i.ula \in PeerUlas => i = j
  BY Zenon, <1>0 DEF RosterOk, WasHeld
<1>3. ASSUME NEW i \in Peers, Join(i) PROVE TableInv' /\ Shown!Change
  <2>1. i \in Infos /\ Added(i) \in Events /\ Added(i).info = i
    BY Zenon DEF Infos, Events, Added
  <2>2. Fits(i, roster) /\ Change(roster \cup {i}, Added(i))
    BY Zenon, <1>3 DEF Join
  <2>3. \A x, y \in roster \cup {i} : x.ula = y.ula /\ x.ula \in PeerUlas => x = y
    BY Zenon, <1>2, <2>2 DEF Fits
  <2>4. roster \cup {i} \subseteq Infos
    BY Zenon, <1>2, <2>1
  <2> QED BY Zenon, <1>1, <2>1, <2>2, <2>3, <2>4
<1>4. ASSUME NEW i \in Peers, NEW j \in Peers, Update(i, j) PROVE TableInv' /\ Shown!Change
  <2>1. j \in Infos /\ Updated(j) \in Events /\ Updated(j).info = j
    BY Zenon DEF Infos, Events, Updated
  <2>2. Fits(j, roster \ {i}) /\ Change((roster \ {i}) \cup {j}, Updated(j))
    BY Zenon, <1>4 DEF Update
  <2>3. \A x, y \in (roster \ {i}) \cup {j} : x.ula = y.ula /\ x.ula \in PeerUlas => x = y
    BY Zenon, <1>2, <2>2 DEF Fits
  <2>4. (roster \ {i}) \cup {j} \subseteq Infos
    BY Zenon, <1>2, <2>1
  <2> QED BY Zenon, <1>1, <2>1, <2>2, <2>3, <2>4
<1>5. ASSUME NEW i \in Infos, Leave(i) PROVE TableInv' /\ Shown!Change
  <2>1. Removed(i.id) \in Events /\ Removed(i.id).kind = "removed"
    BY Zenon DEF Events, Removed, InfoIds
  <2>2. Change(roster \ {i}, Removed(i.id))
    BY Zenon, <1>5 DEF Leave
  <2> QED BY <1>1, <1>2, <2>1, <2>2
<1>6. ASSUME NEW p \in SUBSET Tags, PutPolicy(p) PROVE TableInv' /\ Shown!Change
  <2>1. /\ Changed(roster, p) /\ pending' = roster
        /\ UNCHANGED <<ring, initial, obj, by_ula, job, rx>>
    BY Zenon, <1>6 DEF PutPolicy, tableVars, indexes, streamVars
  <2>2. /\ RosterOk'
        /\ \A u \in PeerUlas : past[u] \subseteq past'[u]
    BY Zenon, <1>0, <1>2, <2>1, RosterChanges
  <2>3. RingOk'
    BY Zenon, <1>0, <2>1, <2>2, KnownStays DEF RingOk
  <2>4. JobsOk'
    BY Zenon, <1>0, <2>1, <2>2, KnownStays DEF JobsOk
  <2>5. TableOk' /\ View' = View
    BY Zenon, <1>0, <2>1, TableSame
  <2> QED BY Zenon, <2>1, <2>2, <2>3, <2>4, <2>5, ChangeShown DEF TableInv
<1> QED BY Zenon, <1>3, <1>4, <1>5, <1>6

\* The joiner registers again.
LEMMA ReregisterStep == ASSUME TableInv, Reregister PROVE TableInv' /\ Shown!Change
<1>0. RosterOk /\ RingOk /\ JobsOk /\ TableOk
  BY Zenon DEF TableInv
<1>1. PICK i \in Selves :
        /\ Changed(roster \cup {i}, policy) /\ Broadcast(Added(i))
        /\ job' = [job EXCEPT !["hb"] = Reconciling(VisiblePeers(i.id))]
  BY Zenon DEF Reregister
<1>2. UNCHANGED <<pending, initial, obj, by_ula, rx>>
  BY Zenon DEF Reregister, tableVars, indexes
<1>3. i \in Infos /\ i.ula \notin PeerUlas /\ Added(i) \in Events /\ Added(i).info = i
  BY Zenon, OwnRecords DEF Infos, Events, Added, PeerUlas
<1>4. /\ roster \cup {i} \subseteq Infos
      /\ \A x, y \in roster \cup {i} : x.ula = y.ula /\ x.ula \in PeerUlas => x = y
  BY Zenon, <1>0, <1>3 DEF RosterOk, WasHeld
<1>5. /\ RosterOk'
      /\ \A u \in PeerUlas : past[u] \subseteq past'[u]
      /\ \A x \in roster \cup {i} : WasHeld(past', x)
  BY Zenon, <1>0, <1>1, <1>2, <1>4, RosterChanges
<1>6. RingOk'
  BY Zenon, <1>0, <1>1, <1>3, <1>5, RingKept DEF EventOk
<1>7. \A x \in VisiblePeers(i.id) : WasHeld(past', x)
  BY Zenon, <1>5 DEF VisiblePeers
<1>8. JobOk(past', Reconciling(VisiblePeers(i.id)))
  BY Zenon, <1>7, ReconcilingOk
<1>9. JobsOk'
  BY Zenon, <1>0, <1>1, <1>5, <1>8, JobSet DEF Tasks
<1>10. TableOk' /\ View' = View
  BY Zenon, <1>0, <1>2, TableSame
<1> QED BY Zenon, <1>1, <1>5, <1>6, <1>9, <1>10, ChangeShown DEF TableInv

-----------------------------------------------------------------------------
(* Steps that show the joiner nothing.                                     *)

\* News moves on; neither the roster nor the table changes.
LEMMA QuietStep ==
  ASSUME TableInv, UNCHANGED <<roster, policy, past, obj, by_ula>>,
         pending' \subseteq pending, initial' \subseteq initial \cup roster, rx' \subseteq rx,
         RingOk', JobsOk'
  PROVE  TableInv' /\ UNCHANGED Shown!viewVars
<1>1. RosterOk'
  BY Zenon DEF TableInv, RosterOk
<1>2. View' = View /\ TableOk'
  BY Zenon, TableSame DEF TableInv
<1> QED BY Zenon, <1>1, <1>2, CoordSame DEF TableInv, Shown!viewVars

\* A poll of the ring.
LEMMA RingPolled ==
  ASSUME RingOk, ring # <<>>, past' = past, ring' = Tail(ring)
  PROVE  RingOk' /\ Head(ring) \in Events /\ EventOk(past, Head(ring))
<1>1. /\ Tail(ring) \in Seq(Events) /\ Len(Tail(ring)) = Len(ring) - 1 /\ Len(ring) \in Nat
      /\ \A n \in 1..Len(Tail(ring)) : Tail(ring)[n] = ring[n + 1] /\ n + 1 \in 1..Len(ring)
      /\ Head(ring) = ring[1] /\ 1 \in 1..Len(ring) /\ Head(ring) \in Events
  BY DEF RingOk
<1> QED BY Zenon, <1>1 DEF RingOk

\* A frame the filter lets through carries a record of the event.
LEMMA FilteredOk ==
  ASSUME NEW h, NEW e, EventOk(h, e), NEW f \in Filtered(e, revealed).frames
  PROVE  EventOk(h, f)
<1>1. CASE e.kind = "removed"
  BY Zenon, <1>1 DEF Filtered
<1>2. CASE e.kind # "removed"
  <2>1. f \in {Updated(e.info), Added(e.info), Removed(e.info.id)}
    BY Zenon, <1>2 DEF Filtered
  <2> QED BY <1>2, <2>1 DEF EventOk, Updated, Added, Removed
<1> QED BY Zenon, <1>1, <1>2

\* The stream task starts on a frame.
LEMMA ApplyOk ==
  ASSUME JobsOk, NEW e, EventOk(past, e), Apply(e), past' = past
  PROVE  JobsOk'
<1>1. CASE e.kind = "removed"
  <2> DEFINE j == [Idle EXCEPT !.at = "check", !.gone = e.id,
                     !.doomed = {u \in InfoUlas : by_ula[u] # None /\ obj[by_ula[u]].id = e.id}]
  <2>1. DOMAIN j = JobFields /\ j.todo = {} /\ j.at = "check"
    BY Zenon DEF Idle, JobFields
  <2>2. job' = [job EXCEPT !["sse"] = Onward(j)]
    BY Zenon, <1>1 DEF Apply, Proceed
  <2> HIDE DEF j
  <2>3. JobOk(past, j)
    BY Zenon, <2>1 DEF JobOk, Holding
  <2>4. JobOk(past', Onward(j))
    BY Zenon, <2>3, OnwardOk
  <2> QED BY Zenon, <2>2, <2>4, JobSet DEF Tasks
<1>2. CASE e.kind # "removed"
  <2> DEFINE j == [Idle EXCEPT !.at = "upsert", !.info = e.info]
  <2>1. DOMAIN j = JobFields /\ j.todo = {} /\ j.info = e.info
    BY Zenon DEF Idle, JobFields
  <2>2. job' = [job EXCEPT !["sse"] = j]
    BY Zenon, <1>2 DEF Apply
  <2> HIDE DEF j
  <2>3. JobOk(past', j)
    BY Zenon, <1>2, <2>1 DEF JobOk, EventOk
  <2> QED BY Zenon, <2>2, <2>3, JobSet DEF Tasks
<1> QED BY Zenon, <1>1, <1>2

\* Broadcasts, the stream and the two tasks between their accesses to the table.
LEMMA StreamStep ==
  ASSUME TableInv,
         \/ \E i \in pending : Resync(i)
         \/ Connect \/ Bootstrap \/ Break
         \/ TakeInitial \/ TakeLive \/ Check \/ Heartbeat \/ Prune
  PROVE  TableInv' /\ UNCHANGED Shown!viewVars
<1>0. RosterOk /\ RingOk /\ JobsOk /\ TableOk
  BY Zenon DEF TableInv
<1>1. UNCHANGED <<roster, policy, past, obj, by_ula, rx>>
  BY Zenon DEF Resync, Connect, Bootstrap, Break, TakeInitial, TakeLive, Check, Heartbeat, Prune,
         coordVars, tableVars, indexes
<1>2. \A u \in PeerUlas : past[u] \subseteq past'[u]
  BY Zenon, <1>1
<1>3. ring' = ring => RingOk'
  BY Zenon, <1>0, <1>1 DEF RingOk
<1>4. job' = job => JobsOk'
  BY Zenon, <1>0, <1>1 DEF JobsOk
<1>5. ASSUME NEW i \in pending, Resync(i) PROVE TableInv' /\ UNCHANGED Shown!viewVars
  <2>1. pending' \subseteq pending /\ Broadcast(Updated(i)) /\ UNCHANGED <<initial, job>>
    BY Zenon, <1>5 DEF Resync
  <2>2. WasHeld(past, i) /\ i \in Infos
    BY Zenon, <1>0 DEF RosterOk, WasHeld
  <2>3. Updated(i) \in Events /\ EventOk(past', Updated(i))
    BY Zenon, <1>1, <2>2 DEF Events, EventOk, Updated
  <2>4. RingOk'
    BY Zenon, <1>0, <1>2, <2>1, <2>3, RingKept
  <2> QED BY Zenon, <1>1, <1>4, <2>1, <2>4, QuietStep
<1>6. CASE Connect
  <2>1. UNCHANGED <<pending, initial, ring, job>>
    BY Zenon, <1>6 DEF Connect, coordVars
  <2> QED BY Zenon, <1>1, <1>3, <1>4, <2>1, QuietStep
<1>7. CASE Bootstrap
  <2>1. UNCHANGED <<pending, ring, job>> /\ initial' \subseteq roster
    BY Zenon, <1>7 DEF Bootstrap, coordVars
  <2> QED BY Zenon, <1>1, <1>3, <1>4, <2>1, QuietStep
<1>8. CASE Break
  <2>1. UNCHANGED <<pending, job>> /\ initial' = {} /\ ring' = <<>>
    BY Zenon, <1>8 DEF Break, coordVars
  <2>2. RingOk'
    BY <2>1 DEF RingOk
  <2> QED BY Zenon, <1>1, <1>4, <2>1, <2>2, QuietStep
<1>9. CASE TakeInitial
  <2>1. PICK i \in initial : Apply(Added(i)) /\ initial' = initial \ {i}
    BY Zenon, <1>9 DEF TakeInitial
  <2>2. UNCHANGED <<pending, ring>>
    BY Zenon, <1>9 DEF TakeInitial, coordVars
  <2>3. EventOk(past, Added(i))
    BY Zenon, <1>0 DEF RosterOk, EventOk, Added
  <2>4. JobsOk'
    BY Zenon, <1>0, <1>1, <2>1, <2>3, ApplyOk
  <2> QED BY Zenon, <1>1, <1>3, <2>1, <2>2, <2>4, QuietStep
<1>10. CASE TakeLive
  <2>1. /\ ring # <<>> /\ ring' = Tail(ring) /\ UNCHANGED <<pending, initial>>
        /\ \/ UNCHANGED job
           \/ \E e \in Filtered(Head(ring), revealed).frames : Apply(e)
    BY Zenon, <1>10 DEF TakeLive, coordVars
  <2>2. RingOk' /\ EventOk(past, Head(ring))
    BY Zenon, <1>0, <1>1, <2>1, RingPolled
  <2>3. ASSUME NEW e \in Filtered(Head(ring), revealed).frames, Apply(e) PROVE JobsOk'
    <3>1. EventOk(past, e)
      BY Zenon, <2>2, FilteredOk
    <3> QED BY Zenon, <1>0, <1>1, <2>3, <3>1, ApplyOk
  <2> QED BY Zenon, <1>1, <1>4, <2>1, <2>2, <2>3, QuietStep
<1>11. CASE Check
  <2> DEFINE j == job["sse"]
             u == CHOOSE u \in j.doomed : TRUE
  <2>1. UNCHANGED <<pending, initial, ring>>
    BY Zenon, <1>11 DEF Check, coordVars, streamVars
  <2>2. \/ job' = [job EXCEPT !["sse"] = [j EXCEPT !.at = "drop"]]
        \/ job' = [job EXCEPT !["sse"] = Onward([j EXCEPT !.doomed = @ \ {u}])]
    BY Zenon, <1>11 DEF Check, Proceed
  <2>3. JobOk(past, j) /\ j.at = "check"
    BY Zenon, <1>0, <1>11 DEF JobsOk, Tasks, Check
  <2> HIDE DEF j, u
  <2>4. JobOk(past', [j EXCEPT !.at = "drop"])
    BY Zenon, <1>1, <2>3 DEF JobOk, JobFields, Holding
  <2>5. JobOk(past', [j EXCEPT !.doomed = @ \ {u}])
    BY Zenon, <1>1, <2>3 DEF JobOk, JobFields, Holding
  <2>6. JobOk(past', Onward([j EXCEPT !.doomed = @ \ {u}]))
    BY Zenon, <2>5, OnwardOk
  <2>7. JobsOk'
    BY Zenon, <1>0, <1>2, <2>2, <2>4, <2>6, JobSet DEF Tasks
  <2> QED BY Zenon, <1>1, <1>3, <2>1, <2>7, QuietStep
<1>12. CASE Heartbeat
  <2>1. UNCHANGED <<pending, initial, ring>> /\ job' = [job EXCEPT !["hb"] = Reconciling(VisiblePeers(me))]
    BY Zenon, <1>12 DEF Heartbeat, coordVars, streamVars
  <2>2. \A i \in VisiblePeers(me) : WasHeld(past', i)
    BY Zenon, <1>0, <1>1 DEF RosterOk, VisiblePeers
  <2>3. JobOk(past', Reconciling(VisiblePeers(me)))
    BY Zenon, <2>2, ReconcilingOk
  <2>4. JobsOk'
    BY Zenon, <1>0, <1>2, <2>1, <2>3, JobSet DEF Tasks
  <2> QED BY Zenon, <1>1, <1>3, <2>1, <2>4, QuietStep
<1>13. CASE Prune
  <2> DEFINE j == [Idle EXCEPT !.at = "drop",
                     !.doomed = {u \in InfoUlas : by_ula[u] # None} \ job["hb"].keep]
  <2>1. UNCHANGED <<pending, initial, ring>> /\ job' = [job EXCEPT !["hb"] = Onward(j)]
    BY Zenon, <1>13 DEF Prune, Proceed, coordVars, streamVars
  <2>2. DOMAIN j = JobFields /\ j.todo = {} /\ j.at = "drop"
    BY Zenon DEF Idle, JobFields
  <2> HIDE DEF j
  <2>3. JobOk(past', j)
    BY Zenon, <2>2 DEF JobOk, Holding
  <2>4. JobOk(past', Onward(j))
    BY Zenon, <2>3, OnwardOk
  <2>5. JobsOk'
    BY Zenon, <1>0, <1>2, <2>1, <2>4, JobSet DEF Tasks
  <2> QED BY Zenon, <1>1, <1>3, <2>1, <2>5, QuietStep
<1> QED BY Zenon, <1>5, <1>6, <1>7, <1>8, <1>9, <1>10, <1>11, <1>12, <1>13

-----------------------------------------------------------------------------
(* Accesses to the table.                                                  *)

\* Only the table, the tasks and the receiver change.
LEMMA TableStep ==
  ASSUME TableInv, UNCHANGED <<coordVars, streamVars>>, JobsOk', TableOk'
  PROVE  TableInv' /\ HeldKeys' = HeldKeys /\ Seen' = Seen /\ past' = past
<1>1. UNCHANGED <<roster, policy, pending, past, ring, initial>>
  BY Zenon DEF coordVars, streamVars
<1>2. RosterOk' /\ RingOk'
  BY Zenon, <1>1 DEF TableInv, RosterOk, RingOk
<1> QED BY Zenon, <1>1, <1>2, CoordSame DEF TableInv

\* Freeing keeps what an address or the receiver refers to.
LEMMA FreedOk ==
  ASSUME TableOk, NEW o \in [Objects -> PeerSessions \cup {None}], obj' = Freed(o),
         by_ula' \in [InfoUlas -> Objects \cup {None}],
         \A u \in InfoUlas : by_ula'[u] # None => o[by_ula'[u]] # None,
         rx' \subseteq rx, \A r \in rx : o[r.sess] # None
  PROVE  /\ TableOk'
         /\ \A u \in InfoUlas : by_ula'[u] # None => obj'[by_ula'[u]] = o[by_ula'[u]]
<1>1. \A s \in Objects : obj'[s] = IF s \in Referenced' THEN o[s] ELSE None
  BY Zenon DEF Freed
<1>2. obj' \in [Objects -> PeerSessions \cup {None}]
  BY Zenon DEF Freed
<1>3. \A u \in InfoUlas : by_ula'[u] \in Referenced'
  BY Zenon DEF Referenced
<1>4. \A r \in rx' : r.sess \in Referenced'
  BY Zenon DEF Referenced
<1>5. \A u \in InfoUlas : by_ula'[u] # None => by_ula'[u] \in Objects
  BY Zenon
<1>6. \A u \in InfoUlas : by_ula'[u] # None => obj'[by_ula'[u]] = o[by_ula'[u]]
  BY Zenon, <1>1, <1>3, <1>5
<1>7. \A r \in rx' : r.sess \in Objects /\ obj'[r.sess] # None /\ r.source \in Sources
  BY Zenon, <1>1, <1>4 DEF TableOk
<1> QED BY Zenon, <1>2, <1>6, <1>7 DEF TableOk

\* The objects, with v for s.
WithSession(s, v) == [obj EXCEPT ![s] = v]

\* A session changes, but not its key.
LEMMA Touched ==
  ASSUME TableOk, NEW s \in Objects, obj[s] # None, NEW v \in PeerSessions, v.key = obj[s].key,
         NEW o, o = WithSession(s, v)
  PROVE  /\ o \in [Objects -> PeerSessions \cup {None}]
         /\ \A u \in InfoUlas : by_ula[u] # None =>
              o[by_ula[u]] # None /\ o[by_ula[u]].key = obj[by_ula[u]].key
         /\ \A r \in rx : o[r.sess] # None
<1>1. v # None
  BY Zenon, InfoAssumption
<1>2. o[s] = v /\ \A x \in Objects \ {s} : o[x] = obj[x]
  BY Zenon DEF TableOk, WithSession
<1>3. o \in [Objects -> PeerSessions \cup {None}]
  BY Zenon DEF TableOk, WithSession
<1>4. \A x \in Objects : obj[x] # None => o[x] # None /\ o[x].key = obj[x].key
  BY Zenon, <1>1, <1>2
<1> QED BY Zenon, <1>3, <1>4 DEF TableOk

\* The sessions of the addresses keep their keys.
LEMMA KeysKept ==
  ASSUME TableOk, by_ula' = by_ula,
         \A u \in InfoUlas : by_ula[u] # None => obj'[by_ula[u]].key = obj[by_ula[u]].key
  PROVE  View' = View
<1>1. PeerUlas \subseteq InfoUlas
  BY Zenon DEF PeerUlas
<1>2. \A u \in PeerUlas :
        (IF by_ula'[u] = None THEN None ELSE obj'[by_ula'[u]].key)
          = IF by_ula[u] = None THEN None ELSE obj[by_ula[u]].key
  BY Zenon, <1>1
<1> QED BY Zenon, <1>2 DEF View

\* A session changes in place, and what nobody refers to is freed.
LEMMA TouchedFreed ==
  ASSUME TableOk, NEW s \in Objects, obj[s] # None, NEW v \in PeerSessions, v.key = obj[s].key,
         obj' = Freed(WithSession(s, v)), by_ula' = by_ula, rx' \subseteq rx
  PROVE  TableOk' /\ View' = View
<1>1. PICK o : o = WithSession(s, v)
  BY Zenon
<1>2. /\ o \in [Objects -> PeerSessions \cup {None}]
      /\ \A u \in InfoUlas : by_ula[u] # None =>
           o[by_ula[u]] # None /\ o[by_ula[u]].key = obj[by_ula[u]].key
      /\ \A r \in rx : o[r.sess] # None
  BY <1>1, Touched
<1>3. obj' = Freed(o)
  BY Zenon, <1>1
<1>4. by_ula' \in [InfoUlas -> Objects \cup {None}]
  BY Zenon DEF TableOk
<1>5. /\ TableOk'
      /\ \A u \in InfoUlas : by_ula'[u] # None => obj'[by_ula'[u]] = o[by_ula'[u]]
  BY Zenon, <1>2, <1>3, <1>4, FreedOk
<1> QED BY Zenon, <1>2, <1>5, KeysKept

\* Only aliases go, and what nobody refers to is freed.
LEMMA AliasesFreed ==
  ASSUME TableOk, obj' = Freed(obj), by_ula' = by_ula, rx' \subseteq rx
  PROVE  TableOk' /\ View' = View
<1>1. /\ obj \in [Objects -> PeerSessions \cup {None}]
      /\ by_ula' \in [InfoUlas -> Objects \cup {None}]
      /\ \A u \in InfoUlas : by_ula'[u] # None => obj[by_ula'[u]] # None
      /\ \A r \in rx : obj[r.sess] # None
  BY Zenon DEF TableOk
<1>2. /\ TableOk'
      /\ \A u \in InfoUlas : by_ula'[u] # None => obj'[by_ula'[u]] = obj[by_ula'[u]]
  BY Zenon, <1>1, FreedOk
<1> QED BY Zenon, <1>2, KeysKept

\* What the abstract view may make of an access to the table.
Showing == UNCHANGED Shown!viewVars \/ \E u \in PeerUlas : Shown!Learn(u)

\* An access after which every address has the session it had.
LEMMA UnshownStep ==
  ASSUME TableInv, UNCHANGED <<coordVars, streamVars>>, JobsOk', TableOk', View' = View
  PROVE  TableInv' /\ Showing
<1>1. TableInv' /\ HeldKeys' = HeldKeys /\ Seen' = Seen /\ past' = past
  BY Zenon, TableStep
<1> QED BY Zenon, <1>1 DEF Showing, Shown!viewVars

\* An object in use is a session.
LEMMA InUse ==
  ASSUME TableOk, NEW s, s \in Objects, obj[s] # None
  PROVE  /\ obj[s] \in PeerSessions
         /\ DOMAIN obj[s] = {"ula", "key", "id", "ep", "learned", "allowed"}
<1>1. obj[s] \in PeerSessions
  BY Zenon DEF TableOk
<1> QED BY Zenon, <1>1 DEF PeerSessions

\* The jobs, with task t at another place and with another session.
MovedTo(t, at, sess) == [job EXCEPT ![t] = [job[t] EXCEPT !.at = at, !.sess = sess]]

\* The job in hand changes its place, and perhaps its session.
LEMMA JobMoved ==
  ASSUME JobsOk, past' = past, NEW t \in Tasks, NEW at, NEW sess,
         at \in Holding => job[t].at \in Holding,
         job' = MovedTo(t, at, sess)
  PROVE  JobsOk'
<1>1. PICK j : j = [job[t] EXCEPT !.at = at, !.sess = sess]
  BY Zenon
<1>2. JobOk(past, job[t])
  BY Zenon DEF JobsOk
<1>3. DOMAIN j = JobFields /\ j.at = at /\ j.todo = job[t].todo /\ j.info = job[t].info
  BY Zenon, <1>1, <1>2 DEF JobOk, JobFields
<1>4. JobOk(past', j)
  BY Zenon, <1>2, <1>3 DEF JobOk
<1>5. job' = [job EXCEPT ![t] = j]
  BY Zenon, <1>1 DEF MovedTo
<1> QED BY Zenon, <1>4, <1>5, JobSet

\* An upsert of a key the address has.
LEMMA UpdateInPlaceStep ==
  ASSUME TableInv, NEW t \in Tasks, UpdateInPlace(t) PROVE TableInv' /\ Showing
<1>0. JobsOk /\ TableOk
  BY Zenon DEF TableInv
<1> DEFINE i == job[t].info
           s == by_ula[i.ula]
           ep == IF ~obj[s].learned /\ obj[s].ep # i.ep THEN i.ep ELSE obj[s].ep
           v == [obj[s] EXCEPT !.ep = ep, !.allowed = @ \cup HostedBy(i.ula)]
<1>1. UNCHANGED <<coordVars, streamVars>> /\ UNCHANGED <<by_ula, rx>> /\ s # None
  BY Zenon DEF UpdateInPlace
<1>2. WasHeld(past, i) /\ i \in Infos /\ i.ula \in InfoUlas
  BY Zenon, <1>0 DEF UpdateInPlace, JobsOk, JobOk, Holding, WasHeld, InfoUlas
<1>3. s \in Objects /\ obj[s] # None
  BY Zenon, <1>0, <1>1, <1>2 DEF TableOk
<1>4. obj[s] \in PeerSessions /\ DOMAIN obj[s] = {"ula", "key", "id", "ep", "learned", "allowed"}
  BY Zenon, <1>0, <1>3, InUse
<1>5. v.key = obj[s].key
  BY Zenon, <1>4
<1>6. ep \in {x.ep : x \in Infos} \cup Sources /\ HostedBy(i.ula) \subseteq Apps
  BY Zenon, <1>2, <1>4 DEF PeerSessions, HostedBy
<1>7. v \in PeerSessions
  BY Zenon, <1>4, <1>6 DEF PeerSessions
<1>8. obj' = Freed([obj EXCEPT ![s].ep = IF ~obj[s].learned /\ obj[s].ep # i.ep THEN i.ep ELSE @,
                               ![s].allowed = @ \cup HostedBy(i.ula)])
  BY Zenon DEF UpdateInPlace
<1>9. [obj EXCEPT ![s].ep = IF ~obj[s].learned /\ obj[s].ep # i.ep THEN i.ep ELSE @,
                  ![s].allowed = @ \cup HostedBy(i.ula)] = WithSession(s, v)
  BY Zenon, <1>0, <1>3, <1>4 DEF WithSession, TableOk
<1>10. TableOk' /\ View' = View
  <2> HIDE DEF v, s
  <2> QED BY Zenon, <1>0, <1>1, <1>3, <1>5, <1>7, <1>8, <1>9, TouchedFreed
<1>11. job[t].at = "upsert" /\ job' = [job EXCEPT ![t].at = "apps"]
  BY Zenon DEF UpdateInPlace
<1>12. [job EXCEPT ![t].at = "apps"] = MovedTo(t, "apps", job[t].sess)
  BY Zenon, <1>0 DEF JobsOk, JobOk, JobFields, MovedTo
<1>13. JobsOk'
  BY Zenon, <1>0, <1>1, <1>11, <1>12, JobMoved DEF coordVars, Holding
<1> QED BY Zenon, <1>1, <1>10, <1>13, UnshownStep

\* The prior session is looked up.
LEMMA LookUpStep ==
  ASSUME TableInv, NEW t \in Tasks, LookUp(t) PROVE TableInv' /\ Showing
<1>0. JobsOk /\ TableOk
  BY Zenon DEF TableInv
<1>1. UNCHANGED <<coordVars, streamVars, past, by_ula, obj, rx>> /\ job[t].at = "upsert"
  BY Zenon DEF LookUp, tableVars, indexes, coordVars
<1>2. PICK prior : job' = [job EXCEPT ![t].sess = prior, ![t].at = "build"]
  BY Zenon DEF LookUp
<1>3. [job EXCEPT ![t].sess = prior, ![t].at = "build"]
        = MovedTo(t, "build", prior)
  BY Zenon, <1>0 DEF JobsOk, JobOk, JobFields, MovedTo
<1>4. JobsOk'
  BY Zenon, <1>0, <1>1, <1>2, <1>3, JobMoved DEF Holding
<1>5. TableOk' /\ View' = View
  BY Zenon, <1>0, <1>1, TableSame
<1> QED BY Zenon, <1>1, <1>4, <1>5, UnshownStep

\* An address gets another session, or none: the view learns it, unless it is the joiner's own.
LEMMA ShownStep ==
  ASSUME TableInv, UNCHANGED <<coordVars, streamVars>>, JobsOk', TableOk',
         NEW u \in InfoUlas, NEW k, u \in PeerUlas => k \in past[u] \cup {None},
         \A x \in InfoUlas \ {u} :
           (IF by_ula'[x] = None THEN None ELSE obj'[by_ula'[x]].key)
             = IF by_ula[x] = None THEN None ELSE obj[by_ula[x]].key,
         (IF by_ula'[u] = None THEN None ELSE obj'[by_ula'[u]].key) = k
  PROVE  TableInv' /\ Showing
<1>1. TableInv' /\ HeldKeys' = HeldKeys /\ Seen' = Seen /\ past' = past
  BY Zenon, TableStep
<1>2. PeerUlas \subseteq InfoUlas
  BY Zenon DEF PeerUlas
<1>3. CASE u \in PeerUlas
  <2>1. View' = [View EXCEPT ![u] = k]
    BY Zenon, <1>2, <1>3 DEF View
  <2>2. Shown!Learn(u)
    BY Zenon, <1>1, <1>3, <2>1 DEF Shown!Learn
  <2> QED BY Zenon, <1>1, <1>3, <2>2 DEF Showing
<1>4. CASE u \notin PeerUlas
  <2>1. View' = View
    BY Zenon, <1>2, <1>4 DEF View
  <2> QED BY Zenon, <1>1, <2>1 DEF Showing, Shown!viewVars
<1> QED BY Zenon, <1>3, <1>4

\* A new session takes the address.
LEMMA BuildStep ==
  ASSUME TableInv, NEW t \in Tasks, Build(t) PROVE TableInv' /\ Showing
<1>0. JobsOk /\ TableOk
  BY Zenon DEF TableInv
<1> DEFINE i == job[t].info
           allowed == {i.ula} \cup IF job[t].sess = None THEN {} ELSE HostedBy(i.ula)
           v == Session(i, allowed)
<1>1. PICK s \in Unused : s = CHOOSE x \in Unused : TRUE
  BY Zenon DEF Build
<1>2. /\ UNCHANGED <<coordVars, streamVars, past, rx>> /\ job[t].at = "build"
      /\ by_ula' = [by_ula EXCEPT ![i.ula] = s]
      /\ job' = [job EXCEPT ![t].at = "index", ![t].sess = s]
      /\ obj' = Freed(WithSession(s, v))
  BY Zenon, <1>1 DEF Build, coordVars, WithSession
<1>3. s \in Objects /\ obj[s] = None
  BY Zenon, <1>1 DEF Unused
<1>4. WasHeld(past, i) /\ i \in Infos /\ i.ula \in InfoUlas
  BY Zenon, <1>0, <1>2 DEF JobsOk, JobOk, Holding, WasHeld, InfoUlas
<1>5. v \in PeerSessions /\ v.key = i.key
  <2>1. allowed \subseteq InfoUlas \cup Apps
    BY Zenon, <1>4 DEF HostedBy
  <2> QED BY Zenon, <1>4, <2>1 DEF Session, PeerSessions, InfoKeys, InfoIds
<1>6. v # None
  BY Zenon, <1>5, InfoAssumption
<1> HIDE DEF v, allowed
<1>7. PICK o : o = WithSession(s, v)
  BY Zenon
<1>8. /\ o \in [Objects -> PeerSessions \cup {None}]
      /\ o[s] = v /\ \A x \in Objects \ {s} : o[x] = obj[x]
  BY Zenon, <1>0, <1>3, <1>5, <1>7 DEF TableOk, WithSession
<1>9. /\ by_ula' \in [InfoUlas -> Objects \cup {None}]
      /\ by_ula'[i.ula] = s /\ \A u \in InfoUlas \ {i.ula} : by_ula'[u] = by_ula[u]
  BY Zenon, <1>0, <1>2, <1>3, <1>4 DEF TableOk
<1>10. s # None
  BY Zenon, <1>3, InfoAssumption
<1>11. \A u \in InfoUlas \ {i.ula} : by_ula'[u] # None =>
         o[by_ula'[u]] = obj[by_ula[u]] /\ obj[by_ula[u]] # None
  BY <1>0, <1>3, <1>8, <1>9 DEF TableOk
<1>12. \A u \in InfoUlas : by_ula'[u] # None => o[by_ula'[u]] # None
  BY Zenon, <1>6, <1>8, <1>9, <1>11
<1>13. \A r \in rx : o[r.sess] # None
  BY Zenon, <1>0, <1>3, <1>8 DEF TableOk
<1>14. obj' = Freed(o) /\ rx' \subseteq rx
  BY Zenon, <1>2, <1>7
<1>15. /\ TableOk'
       /\ \A u \in InfoUlas : by_ula'[u] # None => obj'[by_ula'[u]] = o[by_ula'[u]]
  BY Zenon, <1>0, <1>8, <1>9, <1>12, <1>13, <1>14, FreedOk
<1>16. [job EXCEPT ![t].at = "index", ![t].sess = s] = MovedTo(t, "index", s)
  BY Zenon, <1>0 DEF JobsOk, JobOk, JobFields, MovedTo
<1>17. JobsOk'
  BY Zenon, <1>0, <1>2, <1>16, JobMoved DEF Holding
<1>18. (IF by_ula'[i.ula] = None THEN None ELSE obj'[by_ula'[i.ula]].key) = i.key
  BY Zenon, <1>4, <1>5, <1>8, <1>9, <1>10, <1>15
<1>19. \A x \in InfoUlas \ {i.ula} :
         (IF by_ula'[x] = None THEN None ELSE obj'[by_ula'[x]].key)
           = IF by_ula[x] = None THEN None ELSE obj[by_ula[x]].key
  BY Zenon, <1>9, <1>11, <1>15
<1>20. i.ula \in PeerUlas => i.key \in past[i.ula] \cup {None}
  BY Zenon, <1>4 DEF WasHeld
<1>21. UNCHANGED <<coordVars, streamVars>>
  BY Zenon, <1>2
<1> HIDE DEF i
<1> QED BY Zenon, <1>4, <1>15, <1>17, <1>18, <1>19, <1>20, <1>21, ShownStep

\* The session is indexed, or its aliases go.
LEMMA IndexStep ==
  ASSUME TableInv, NEW t \in Tasks, Index(t) PROVE TableInv' /\ Showing
<1>0. JobsOk /\ TableOk
  BY Zenon DEF TableInv
<1>1. /\ UNCHANGED <<coordVars, streamVars, past, rx, by_ula>> /\ job[t].at = "index"
      /\ job' = [job EXCEPT ![t].at = "apps", ![t].sess = None]
      /\ obj' = Freed(obj)
  BY Zenon DEF Index, coordVars
<1>2. [job EXCEPT ![t].at = "apps", ![t].sess = None] = MovedTo(t, "apps", None)
  BY Zenon, <1>0 DEF JobsOk, JobOk, JobFields, MovedTo
<1>3. JobsOk'
  BY Zenon, <1>0, <1>1, <1>2, JobMoved DEF Holding
<1>4. TableOk' /\ View' = View
  BY Zenon, <1>0, <1>1, AliasesFreed
<1> QED BY Zenon, <1>1, <1>3, <1>4, UnshownStep

\* The apps of a host are routed to it and allowed as its sources.
LEMMA ReconcileAppRoutesStep ==
  ASSUME TableInv, NEW t \in Tasks, ReconcileAppRoutes(t) PROVE TableInv' /\ Showing
<1>0. JobsOk /\ TableOk
  BY Zenon DEF TableInv
<1> DEFINE i == job[t].info
           s == by_ula[i.ula]
           stale == HostedBy(i.ula) \ i.apps
           v == [obj[s] EXCEPT !.allowed = (@ \cup i.apps) \ stale]
           j == [job[t] EXCEPT !.at = IF t = "hb" THEN "record" ELSE "done", !.info = None]
<1>1. /\ UNCHANGED <<coordVars, streamVars, past, rx, by_ula>> /\ job[t].at = "apps"
      /\ job' = [job EXCEPT ![t] = Onward(j)]
      /\ obj' = IF s = None THEN obj ELSE [obj EXCEPT ![s].allowed = (@ \cup i.apps) \ stale]
  BY Zenon DEF ReconcileAppRoutes, coordVars, indexes, Proceed
<1>2. JobOk(past, job[t])
  BY Zenon, <1>0 DEF JobsOk
<1>3. i \in Infos /\ i.ula \in InfoUlas /\ i.apps \subseteq Apps
  BY Zenon, <1>1, <1>2 DEF JobOk, Holding, WasHeld, InfoUlas, Apps
<1>4. DOMAIN j = JobFields /\ j.todo = job[t].todo /\ j.at \in {"record", "done"}
  BY Zenon, <1>2 DEF JobOk, JobFields
<1>5. JobOk(past', j)
  BY Zenon, <1>1, <1>2, <1>4 DEF JobOk, Holding
<1>6. JobsOk'
  <2> HIDE DEF j
  <2>1. JobOk(past', Onward(j))
    BY Zenon, <1>5, OnwardOk
  <2> QED BY Zenon, <1>0, <1>1, <2>1, JobSet
<1>7. TableOk' /\ View' = View
  <2>1. CASE s = None
    <3>1. UNCHANGED <<by_ula, obj>>
      BY Zenon, <1>1, <2>1
    <3> QED BY Zenon, <1>0, <1>1, <3>1, TableSame
  <2>2. CASE s # None
    <3>1. s \in Objects /\ obj[s] # None
      BY Zenon, <1>0, <1>3, <2>2 DEF TableOk
    <3>2. obj[s] \in PeerSessions /\ DOMAIN obj[s] = {"ula", "key", "id", "ep", "learned", "allowed"}
      BY Zenon, <1>0, <3>1, InUse
    <3>3. v.key = obj[s].key
      BY Zenon, <3>2
    <3>4. v \in PeerSessions
      BY Zenon, <1>3, <3>2 DEF PeerSessions
    <3>5. obj' = WithSession(s, v)
      BY Zenon, <1>1, <2>2 DEF WithSession
    <3> HIDE DEF v, s
    <3>6. /\ obj' \in [Objects -> PeerSessions \cup {None}]
          /\ \A u \in InfoUlas : by_ula[u] # None =>
               obj'[by_ula[u]] # None /\ obj'[by_ula[u]].key = obj[by_ula[u]].key
          /\ \A r \in rx : obj'[r.sess] # None
      <4>1. PICK o : o = WithSession(s, v)
        BY Zenon
      <4> QED BY Zenon, <1>0, <3>1, <3>3, <3>4, <3>5, <4>1, Touched
    <3>7. View' = View
      BY Zenon, <1>0, <1>1, <3>6, KeysKept
    <3>8. TableOk'
      BY Zenon, <1>0, <1>1, <3>6 DEF TableOk
    <3> QED BY Zenon, <3>7, <3>8
  <2> QED BY Zenon, <2>1, <2>2
<1> QED BY Zenon, <1>1, <1>6, <1>7, UnshownStep

\* A session leaves its address, unless it has gone.
LEMMA DropStep ==
  ASSUME TableInv, NEW t \in Tasks, Drop(t) PROVE TableInv' /\ Showing
<1>0. JobsOk /\ TableOk
  BY Zenon DEF TableInv
<1> DEFINE u == CHOOSE x \in job[t].doomed : TRUE
           s == by_ula[u]
           rest == [job[t] EXCEPT !.doomed = @ \ {u}]
<1>1. UNCHANGED <<coordVars, streamVars, past, rx, obj>>
  BY Zenon DEF Drop, coordVars
<1>2. JobOk(past, job[t])
  BY Zenon, <1>0 DEF JobsOk
<1>3. DOMAIN rest = JobFields /\ rest.todo = job[t].todo
  BY Zenon, <1>2 DEF JobOk, JobFields
<1>4. CASE s # None
  <2> DEFINE j == [rest EXCEPT !.at = "unindex", !.sess = s]
  <2>1. by_ula' = [by_ula EXCEPT ![u] = None] /\ job' = [job EXCEPT ![t] = j]
    BY Zenon, <1>4 DEF Drop
  <2>2. DOMAIN j = JobFields /\ j.todo = job[t].todo /\ j.at = "unindex"
    BY Zenon, <1>3 DEF JobFields
  <2> HIDE DEF j
  <2>3. JobOk(past', j)
    BY Zenon, <1>1, <1>2, <2>2 DEF JobOk, Holding
  <2>4. JobsOk'
    BY Zenon, <1>0, <1>1, <2>1, <2>3, JobSet
  <2> HIDE DEF u
  <2>5. /\ by_ula' \in [InfoUlas -> Objects \cup {None}]
        /\ \A x \in InfoUlas : by_ula'[x] = IF x = u THEN None ELSE by_ula[x]
    BY Zenon, <1>0, <2>1 DEF TableOk
  <2>6. TableOk'
    BY Zenon, <1>0, <1>1, <2>5 DEF TableOk
  <2>7. CASE u \in InfoUlas
    <3>1. (IF by_ula'[u] = None THEN None ELSE obj'[by_ula'[u]].key) = None
      BY Zenon, <2>5, <2>7
    <3>2. \A x \in InfoUlas \ {u} :
            (IF by_ula'[x] = None THEN None ELSE obj'[by_ula'[x]].key)
              = IF by_ula[x] = None THEN None ELSE obj[by_ula[x]].key
      BY Zenon, <1>1, <2>5
    <3> QED BY Zenon, <1>1, <2>4, <2>6, <2>7, <3>1, <3>2, ShownStep
  <2>8. CASE u \notin InfoUlas
    <3>1. UNCHANGED <<by_ula, obj>>
      BY Zenon, <1>0, <1>1, <2>1, <2>8 DEF TableOk
    <3>2. View' = View
      BY Zenon, <1>0, <3>1, TableSame
    <3> QED BY Zenon, <1>1, <2>4, <2>6, <3>2, UnshownStep
  <2> QED BY Zenon, <2>7, <2>8
<1>5. CASE s = None
  <2> DEFINE j == [rest EXCEPT !.at = Resume(t)]
  <2>1. UNCHANGED by_ula /\ job' = [job EXCEPT ![t] = Onward(j)]
    BY Zenon, <1>5 DEF Drop, Proceed
  <2>2. DOMAIN j = JobFields /\ j.todo = job[t].todo /\ j.at \in {"check", "drop"}
    BY Zenon, <1>3 DEF JobFields, Resume
  <2> HIDE DEF j
  <2>3. JobOk(past', j)
    BY Zenon, <1>1, <1>2, <2>2 DEF JobOk, Holding
  <2>4. JobOk(past', Onward(j))
    BY Zenon, <2>3, OnwardOk
  <2>5. JobsOk'
    BY Zenon, <1>0, <1>1, <2>1, <2>4, JobSet
  <2>6. TableOk' /\ View' = View
    BY Zenon, <1>0, <1>1, <2>1, TableSame
  <2> QED BY Zenon, <1>1, <2>5, <2>6, UnshownStep
<1> QED BY Zenon, <1>4, <1>5

\* The aliases of a removed session go.
LEMMA UnindexStep ==
  ASSUME TableInv, NEW t \in Tasks, Unindex(t) PROVE TableInv' /\ Showing
<1>0. JobsOk /\ TableOk
  BY Zenon DEF TableInv
<1> DEFINE j == [job[t] EXCEPT !.at = Resume(t), !.sess = None]
<1>1. /\ UNCHANGED <<coordVars, streamVars, past, rx, by_ula>>
      /\ job' = [job EXCEPT ![t] = Onward(j)]
      /\ obj' = Freed(obj)
  BY Zenon DEF Unindex, coordVars, Proceed
<1>2. JobOk(past, job[t])
  BY Zenon, <1>0 DEF JobsOk
<1>3. DOMAIN j = JobFields /\ j.todo = job[t].todo /\ j.at \in {"check", "drop"}
  BY Zenon, <1>2 DEF JobOk, JobFields, Resume
<1> HIDE DEF j
<1>4. JobOk(past', j)
  BY Zenon, <1>1, <1>2, <1>3 DEF JobOk, Holding
<1>5. JobOk(past', Onward(j))
  BY Zenon, <1>4, OnwardOk
<1>6. JobsOk'
  BY Zenon, <1>0, <1>1, <1>5, JobSet
<1>7. TableOk' /\ View' = View
  BY Zenon, <1>0, <1>1, AliasesFreed
<1> QED BY Zenon, <1>1, <1>6, <1>7, UnshownStep

\* A datagram decrypts under a session of the table.
LEMMA ReceiveStep ==
  ASSUME TableInv, NEW e \in Sources, Receive(e) PROVE TableInv' /\ Showing
<1>0. JobsOk /\ TableOk
  BY Zenon DEF TableInv
<1>1. UNCHANGED <<coordVars, streamVars, past, obj, by_ula, job>>
  BY Zenon DEF Receive, coordVars, tableVars, indexes
<1>2. PICK u \in InfoUlas : by_ula[u] # None /\ rx' = {[sess |-> by_ula[u], source |-> e]}
  BY Zenon DEF Receive
<1>3. by_ula[u] \in Objects /\ obj[by_ula[u]] # None
  BY Zenon, <1>0, <1>2 DEF TableOk
<1>4. TableOk'
  BY <1>0, <1>1, <1>2, <1>3 DEF TableOk
<1>5. JobsOk'
  BY Zenon, <1>0, <1>1 DEF JobsOk
<1>6. View' = View
  BY Zenon, <1>0, <1>1, TableSame
<1> QED BY Zenon, <1>1, <1>4, <1>5, <1>6, UnshownStep

\* Its source becomes the session's endpoint.
LEMMA LearnEndpointStep == ASSUME TableInv, LearnEndpoint PROVE TableInv' /\ Showing
<1>0. JobsOk /\ TableOk
  BY Zenon DEF TableInv
<1>1. PICK r \in rx :
        /\ rx' = {} /\ UNCHANGED <<by_ula, job>>
        /\ obj' = Freed([obj EXCEPT ![r.sess].ep = r.source,
                                    ![r.sess].learned = @ \/ obj[r.sess].ep # r.source])
  BY Zenon DEF LearnEndpoint
<1>2. UNCHANGED <<coordVars, streamVars, past>>
  BY Zenon DEF LearnEndpoint, coordVars
<1> DEFINE v == [obj[r.sess] EXCEPT !.ep = r.source, !.learned = @ \/ obj[r.sess].ep # r.source]
<1>3. r.sess \in Objects /\ obj[r.sess] # None /\ r.source \in Sources
  BY Zenon, <1>0 DEF TableOk
<1>4. /\ obj[r.sess] \in PeerSessions
      /\ DOMAIN obj[r.sess] = {"ula", "key", "id", "ep", "learned", "allowed"}
  BY Zenon, <1>0, <1>3, InUse
<1>5. v \in PeerSessions /\ v.key = obj[r.sess].key
  BY Zenon, <1>3, <1>4 DEF PeerSessions
<1>6. [obj EXCEPT ![r.sess].ep = r.source, ![r.sess].learned = @ \/ obj[r.sess].ep # r.source]
        = WithSession(r.sess, v)
  BY Zenon, <1>0, <1>3, <1>4 DEF WithSession, TableOk
<1> HIDE DEF v
<1>7. TableOk' /\ View' = View
  BY Zenon, <1>0, <1>1, <1>3, <1>5, <1>6, TouchedFreed
<1>8. JobsOk'
  BY Zenon, <1>0, <1>1, <1>2 DEF JobsOk
<1> QED BY Zenon, <1>2, <1>7, <1>8, UnshownStep

\* A downgrade forgets that an endpoint was learned.
LEMMA DowngradeStep ==
  ASSUME TableInv, NEW u \in InfoUlas, Downgrade(u) PROVE TableInv' /\ Showing
<1>0. JobsOk /\ TableOk
  BY Zenon DEF TableInv
<1> DEFINE s == by_ula[u]
           v == [obj[s] EXCEPT !.learned = FALSE]
<1>1. UNCHANGED <<coordVars, streamVars, past, by_ula, job, rx>> /\ obj' = WithSession(s, v) /\ s # None
  BY Zenon DEF Downgrade, coordVars, indexes, WithSession
<1>2. s \in Objects /\ obj[s] # None
  BY Zenon, <1>0, <1>1 DEF TableOk
<1>3. obj[s] \in PeerSessions /\ DOMAIN obj[s] = {"ula", "key", "id", "ep", "learned", "allowed"}
  BY Zenon, <1>0, <1>2, InUse
<1>4. v \in PeerSessions /\ v.key = obj[s].key
  BY Zenon, <1>3 DEF PeerSessions
<1> HIDE DEF v, s
<1>5. /\ obj' \in [Objects -> PeerSessions \cup {None}]
      /\ \A x \in InfoUlas : by_ula[x] # None =>
           obj'[by_ula[x]] # None /\ obj'[by_ula[x]].key = obj[by_ula[x]].key
      /\ \A r \in rx : obj'[r.sess] # None
  <2>1. PICK o : o = WithSession(s, v)
    BY Zenon
  <2> QED BY Zenon, <1>0, <1>1, <1>2, <1>4, <2>1, Touched
<1>6. TableOk' /\ View' = View
  BY Zenon, <1>0, <1>1, <1>5, KeysKept DEF TableOk
<1>7. JobsOk'
  BY Zenon, <1>0, <1>1 DEF JobsOk
<1> QED BY Zenon, <1>1, <1>6, <1>7, UnshownStep

-----------------------------------------------------------------------------
\* A joiner that has just registered.
LEMMA TableStarts == Init => TableInv /\ Shown!Init
<1> SUFFICES ASSUME Init PROVE TableInv /\ Shown!Init
  BY Zenon
<1>1. PICK rs \in Starts : roster = rs
  BY Zenon DEF Init
<1>2. /\ roster \subseteq Infos
      /\ \A i, j \in roster : i.ula = j.ula /\ i.ula \in PeerUlas => i = j
  BY <1>1, InfoAssumption DEF Fits
<1>3. /\ DOMAIN past = PeerUlas /\ pending = {} /\ initial = {} /\ ring = <<>> /\ rx = {}
      /\ \A u \in PeerUlas : past[u] = {i.key : i \in {p \in roster : p.ula = u}}
  BY Zenon DEF Init
<1>4. \A i \in roster : WasHeld(past, i)
  BY <1>2, <1>3 DEF WasHeld
<1>5. RosterOk
  BY Zenon, <1>2, <1>3, <1>4 DEF RosterOk
<1>6. RingOk
  BY <1>3 DEF RingOk
<1>7. \A i \in VisiblePeers(me) : WasHeld(past, i)
  BY Zenon, <1>4 DEF VisiblePeers
<1>8. JobOk(past, Reconciling(VisiblePeers(me))) /\ JobOk(past, Idle)
  BY Zenon, <1>7, ReconcilingOk, IdleOk
<1>9. JobsOk
  BY Zenon, <1>8 DEF JobsOk, Init
<1>10. obj = [s \in Objects |-> None] /\ by_ula = [u \in InfoUlas |-> None]
  BY Zenon DEF Init
<1>11. TableOk
  BY Zenon, <1>3, <1>10 DEF TableOk
<1>12. HeldOk
  BY Zenon, <1>5, HeldAt
<1>13. past = Shown!Recorded(HeldKeys)
  <2>1. past = [u \in PeerUlas |-> past[u]]
    BY Zenon DEF Init
  <2> QED BY Zenon, <1>3, <1>12, <2>1 DEF HeldOk, Shown!Recorded
<1>14. View = [u \in PeerUlas |-> None]
  BY Zenon, <1>10 DEF View, PeerUlas
<1>15. Seen \subseteq PeerUlas
  BY Zenon DEF Seen
<1>16. Shown!Init
  BY Zenon, <1>12, <1>13, <1>14, <1>15 DEF Shown!Init, HeldOk
<1> QED BY Zenon, <1>5, <1>6, <1>9, <1>11, <1>16 DEF TableInv

\* Every step keeps the invariant and is a step of the view, or none.
LEMMA StepShown == TableInv /\ [Next]_vars => TableInv' /\ [Shown!Next]_(Shown!viewVars)
<1> SUFFICES ASSUME TableInv, [Next]_vars PROVE TableInv' /\ [Shown!Next]_(Shown!viewVars)
  BY Zenon
<1>1. Shown!Change => [Shown!Next]_(Shown!viewVars)
  BY Zenon DEF Shown!Next
<1>2. Showing => [Shown!Next]_(Shown!viewVars)
  BY Zenon DEF Showing, Shown!Next
<1>3. CASE \/ \E i \in Peers : Join(i) \/ \E j \in Peers : Update(i, j)
           \/ \E i \in Infos : Leave(i)
           \/ \E p \in SUBSET Tags : PutPolicy(p)
  BY Zenon, <1>1, <1>3, CoordStep
<1>4. CASE Reregister
  BY Zenon, <1>1, <1>4, ReregisterStep
<1>5. CASE \/ \E i \in pending : Resync(i)
           \/ Connect \/ Bootstrap \/ Break
           \/ TakeInitial \/ TakeLive \/ Check \/ Heartbeat \/ Prune
  BY Zenon, <1>5, StreamStep
<1>6. ASSUME NEW t \in Tasks, Call(t) PROVE TableInv' /\ Showing
  BY Zenon, <1>6, UpdateInPlaceStep, LookUpStep, BuildStep, IndexStep, ReconcileAppRoutesStep, DropStep,
     UnindexStep DEF Call
<1>7. CASE \/ \E e \in Sources : Receive(e)
           \/ LearnEndpoint
           \/ \E u \in InfoUlas : Downgrade(u)
  BY Zenon, <1>2, <1>7, ReceiveStep, LearnEndpointStep, DowngradeStep
<1>8. CASE UNCHANGED vars
  <2>1. UNCHANGED <<roster, policy, past, obj, by_ula, pending, initial, ring, job, rx>>
    BY Zenon, <1>8 DEF vars, coordVars, streamVars, tableVars, indexes
  <2>2. RingOk' /\ JobsOk'
    BY Zenon, <2>1 DEF TableInv, RingOk, JobsOk
  <2> QED BY Zenon, <2>1, <2>2, QuietStep
<1> QED BY Zenon, <1>2, <1>3, <1>4, <1>5, <1>6, <1>7, <1>8 DEF Next

\* Everything on its way to the table, and everything the table is about to take up, was in
\* the roster: through ring, filter, bootstrap snapshot, policy resync, heartbeat answers and
\* half-done upserts of both tasks.
THEOREM TableInductive == Spec => []TableInv
  BY TableStarts, StepShown, PTL DEF Spec

\* The table implements the safety part of RosterView: a session at an address is with a key
\* the coordinator has had there, and no step touches two addresses (upsert, remove,
\* apply_event, reconcile_roster).
THEOREM TableShowsRoster == Spec => Shown!Safe
  BY TableStarts, StepShown, PTL DEF Spec, Shown!Safe
=============================================================================
