-------------------------------- MODULE Stun --------------------------------
(***************************************************************************)
(* How a joiner learns the public address of its WireGuard socket: the     *)
(* binding request it sends, the answer of the coordinator's STUN server,  *)
(* the parser of the answer and what of it is advertised.                  *)
(*                                                                         *)
(* A message is its type, its cookie, its transaction id and its           *)
(* attributes; an attribute is its type, its declared length and the       *)
(* octets the datagram still has for it.  A socket address is a record of  *)
(* its octets.  XOR on octets is a parameter: all that matters of it is    *)
(* that it undoes itself.                                                  *)
(***************************************************************************)
EXTENDS Integers, Sequences

CONSTANT OctetXor(_, _)

Octet == 0 .. 255

ASSUME XorAssumption ==
  \A x, y \in Octet : OctetXor(x, y) \in Octet /\ OctetXor(OctetXor(x, y), y) = x

\* STUN_MAGIC_COOKIE, 0x2112A442.
Cookie == <<33, 18, 164, 66>>

Txid == [1 .. 12 -> Octet]
Port == [1 .. 2 -> Octet]
V4 == [family : {"v4"}, ip : [1 .. 4 -> Octet], port : Port]
V6 == [family : {"v6"}, ip : [1 .. 16 -> Octet], port : Port]
SocketAddr == V4 \cup V6

NoAddr == [family |-> "none"]
NoMessage == [type |-> "none"]

-----------------------------------------------------------------------------
(* The joiner's request.                                                   *)

BindingRequest(txid) == [type |-> "request", cookie |-> Cookie, txid |-> txid, attrs |-> <<>>]

-----------------------------------------------------------------------------
(* The server.  The key is the cookie, followed for IPv6 by the id.        *)

Key(txid) == [i \in 1 .. 16 |-> IF i <= 4 THEN Cookie[i] ELSE txid[i - 4]]

\* The octets f, each XORed with the key's.
Masked(f, key) == [i \in DOMAIN f |-> OctetXor(f[i], key[i])]

\* The port is XORed with the upper half of the cookie.
MappedAttribute(source, txid) ==
  [type |-> "xor_mapped", alen |-> IF source.family = "v4" THEN 8 ELSE 20,
   family |-> source.family, port |-> Masked(source.port, Cookie),
   ip |-> Masked(source.ip, Key(txid)), whole |-> TRUE]

BindingResponse(request, source) ==
  IF request.type = "request" /\ request.cookie = Cookie
  THEN [type |-> "success", cookie |-> Cookie, txid |-> request.txid,
        attrs |-> <<MappedAttribute(source, request.txid)>>]
  ELSE NoMessage

-----------------------------------------------------------------------------
(* The joiner's parser.                                                    *)

\* The attribute the walk stops at.
Hit(a) == a.type = "xor_mapped" /\ a.alen >= 8

Unmasked(a, txid) ==
  IF a.family = "v4" \/ (a.family = "v6" /\ a.alen >= 20)
  THEN [family |-> a.family, ip |-> Masked(a.ip, Key(txid)), port |-> Masked(a.port, Cookie)]
  ELSE NoAddr

\* The walk over the attributes: one that the datagram cuts short ends it.
ParseXorMappedAddress(resp, txid) ==
  IF /\ resp.type = "success" /\ resp.txid = txid
     /\ \E i \in DOMAIN resp.attrs :
          /\ Hit(resp.attrs[i])
          /\ \A j \in 1 .. (i - 1) : ~Hit(resp.attrs[j])
          /\ \A j \in 1 .. i : resp.attrs[j].whole
  THEN LET i == CHOOSE i \in DOMAIN resp.attrs :
                  /\ Hit(resp.attrs[i]) /\ \A j \in 1 .. (i - 1) : ~Hit(resp.attrs[j])
       IN Unmasked(resp.attrs[i], txid)
  ELSE NoAddr

\* One datagram is read from the WireGuard socket before the deadline, whoever sent it.
DiscoverWgMapping(received, txid) ==
  IF received = <<>> THEN NoAddr ELSE ParseXorMappedAddress(received[1], txid)

-----------------------------------------------------------------------------
(* What is advertised (net_reach).                                         *)

UnreachableV4(ip) ==
  \/ ip[1] = 127
  \/ ip[1] = 10 \/ (ip[1] = 172 /\ ip[2] \in 16 .. 31) \/ (ip[1] = 192 /\ ip[2] = 168)
  \/ ip[1] = 169 /\ ip[2] = 254
  \/ \A i \in 1 .. 4 : ip[i] = 0
  \/ ip[1] = 100 /\ ip[2] \in 64 .. 127

UnreachableV6(ip) ==
  \/ (\A i \in 1 .. 15 : ip[i] = 0) /\ ip[16] \in {0, 1}
  \/ ip[1] \in {252, 253}
  \/ ip[1] = 254 /\ ip[2] \in 128 .. 191

IsPublic(addr) ==
  ~ IF addr.family = "v4" THEN UnreachableV4(addr.ip) ELSE UnreachableV6(addr.ip)

StunMappingToAdvertise(mapping) == IF IsPublic(mapping) THEN mapping ELSE NoAddr

\* What join advertises: the mapping, or what the configuration had.
Advertise(mapping, configured) ==
  IF mapping # NoAddr /\ StunMappingToAdvertise(mapping) # NoAddr
  THEN StunMappingToAdvertise(mapping) ELSE configured
=============================================================================
