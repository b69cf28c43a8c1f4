------------------------------ MODULE Admission ------------------------------
(***************************************************************************)
(* The first register of a joiner, end to end: how the coordinator was     *)
(* started, the client the joiner builds, its token and its body on the    *)
(* wire, the auth service's answer, the checks before the roster is        *)
(* touched, the identity that is stamped and what the joiner is told.      *)
(*                                                                         *)
(* auth is the auth service: a function from tokens to its answers.        *)
(***************************************************************************)
EXTENDS Wire

CONSTANTS FixedInfra, Trim(_)

ASSUME TrimAssumption == \A t \in Text : Trim(t) \in Text /\ Trim(Trim(t)) = Trim(t)

\* SELF_ADVERTISABLE_CAPABILITY_TAGS.
Capabilities == {"supervisor", "firecracker", "docker", "builder"}

Claims ==
  [valid : BOOLEAN, network : Text, tags : SUBSET Text, requested_ulas : SUBSET Text,
   kind : Text]

ASSUME ClaimsAssumption == Null \notin Claims

AuthAnswers == [outcome : {"ok", "transport", "status", "decode"}, claims : Claims]

-----------------------------------------------------------------------------
(* Starting the coordinator and the client.                                *)

\* The three files, as flags that are given or as files that parse.
Given(files) == files.tls_cert /\ files.tls_key /\ files.tls_ca

\* main: plaintext needs the flag and the environment's consent, TLS all three files.
Serves(args, pem, allow_insecure) ==
  CASE args.insecure_no_mtls /\ allow_insecure -> "plaintext"
    [] ~args.insecure_no_mtls /\ Given(args) /\ Given(pem) -> "mtls"
    [] OTHER -> "refused"

\* CoordinatorClient::new.
Client(cfg, pem) ==
  IF cfg.insecure_no_mtls THEN "plaintext"
  ELSE IF ~Given(cfg) THEN "InvalidConfig"
  ELSE IF ~Given(pem) THEN "HttpTransport"
  ELSE "mtls"

\* build_validator.
Validator(args) == args.auth_url # Null

-----------------------------------------------------------------------------
(* The token.                                                              *)

Present(token) == token # Null /\ Trim(token) # ""

\* The joiner's header, and the coordinator's reading of it.
BearerAuth(token) == IF Present(token) THEN Trim(token) ELSE Null
BearerToken(header) == IF header = Null THEN Null ELSE Trim(header)

\* AuthValidator::validate: a live token of another kind is refused, a blank kind is not.
Validates(answer) ==
  /\ answer.outcome = "ok"
  /\ answer.claims.valid => answer.claims.kind \in {"", "join"}

Unauthorized == [ok |-> FALSE, claims |-> Null]

Authenticate(validator, bearer, auth) ==
  IF ~validator THEN [ok |-> TRUE, claims |-> Null]
  ELSE IF /\ Present(bearer)
          /\ Validates(auth[Trim(bearer)]) /\ auth[Trim(bearer)].claims.valid
  THEN [ok |-> TRUE, claims |-> auth[Trim(bearer)].claims]
  ELSE Unauthorized

-----------------------------------------------------------------------------
(* The checks before the registration lock.                                *)

AuthorizeFixed(requested, claims) ==
  IF requested = Null THEN "Ok"
  ELSE IF ParseUla(requested) = Malformed THEN "InvalidRequestedUla"
  ELSE IF \/ ParseUla(requested) \notin FixedInfra
          \/ /\ claims # Null
             /\ \E t \in claims.requested_ulas : ParseUla(t) = ParseUla(requested)
  THEN "Ok" ELSE "Unauthorized"

StampIdentity(req, claims) ==
  IF claims = Null THEN [network |-> req.network, tags |-> req.tags]
  ELSE [network |-> claims.network,
        tags |-> claims.tags \cup (req.tags \cap Capabilities)]

\* coord_err_to_response.
Status(err) ==
  CASE err = "UnknownPeer" -> 404
    [] err = "Allocation" -> 503
    [] err \in {"InvalidPeerId", "InvalidPubkey", "PubkeyDecode", "InvalidRequestedUla"} -> 400
    [] err = "Unauthorized" -> 401
    [] err \in {"UlaConflict", "UlaNetworkMismatch"} -> 409

Refused(err) == [status |-> Status(err), identity |-> Null]

Admit(validator, req, bearer, auth) ==
  LET login == Authenticate(validator, bearer, auth)
      fixed == AuthorizeFixed(req.requested_ula, login.claims)
  IN IF ~login.ok THEN Refused("Unauthorized")
     ELSE IF fixed # "Ok" THEN Refused(fixed)
     ELSE IF FromBase64(req.wg_public_key) = Malformed THEN Refused("PubkeyDecode")
     ELSE IF FromBase64(req.wg_public_key) \notin Keys THEN Refused("InvalidPubkey")
     ELSE [status |-> 200, identity |-> StampIdentity(req, login.claims)]

-----------------------------------------------------------------------------
(* The exchange, as the joiner sees it.                                    *)

\* ensure_success.
EnsureSuccess(status) == IF status = 200 THEN "Ok" ELSE "HttpStatus"

\* A body the coordinator cannot read never reaches the handler.
Answer(validator, body, header, auth) ==
  IF Readable(body, RegisterRequired, RegisterDefault)
  THEN Admit(validator, ReadRegister(body), BearerToken(header), auth)
  ELSE [status |-> 422, identity |-> Null]

Exchange(cfg, pem, a, args, serverPem, allow, auth) ==
  LET client == Client(cfg, pem)
      answer == Answer(Validator(args), RegisterBody(a), BearerAuth(cfg.join_token), auth)
  IN IF client = "InvalidConfig" THEN [result |-> client, identity |-> Null]
     ELSE IF client = "HttpTransport" \/ client # Serves(args, serverPem, allow)
     THEN [result |-> "HttpTransport", identity |-> Null]
     ELSE [result |-> EnsureSuccess(answer.status), identity |-> answer.identity]

=============================================================================
