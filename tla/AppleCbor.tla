----------------------------- MODULE AppleCbor -----------------------------
(***************************************************************************)
(* How the attestation object, the assertion and the authenticator data of *)
(* App Attest are read: by attest-apple (cbor.rs, assertion.rs,            *)
(* authdata.rs, cose.rs) and by the iOS client (AppAttestCBOR.swift).      *)
(*                                                                         *)
(* A CBOR item is [t, v]: t is "text", "bytes", "int", "array", "map" or   *)
(* "other" (tags, floats and simple values).  A map is a sequence of       *)
(* [k, v] with duplicates kept.  Authenticator data is a sequence of       *)
(* bytes [t |-> "byte", v |-> 0..255] followed by the items of a COSE_Key: *)
(* a "header" with its number of entries, then a key and a value for each. *)
(* Positions count from 1.  A decoder returns {} for an Err, otherwise the *)
(* set of its result.                                                      *)
(***************************************************************************)
EXTENDS Integers, Sequences, FiniteSets

Text(s) == [t |-> "text", v |-> s]
Integer(i) == [t |-> "int", v |-> i]

(* ciborium's as_text, as_bytes and as_integer.                            *)
As(type, item) == IF item.t = type THEN {item.v} ELSE {}

Same(item, key) == item.t = key.t /\ item.v = key.v

AllText(map) == \A i \in DOMAIN map : map[i].k.t = "text"

(* Mutant: the first entry that has a value decides.                       *)
Assigned_First(map, key, type) ==
  LET out[n \in 0..Len(map)] ==
        IF n = 0 THEN {}
        ELSE IF Same(map[n].k, key) /\ out[n - 1] = {} THEN As(type, map[n].v) ELSE out[n - 1]
  IN  out[Len(map)]

(* The variable that the loop over `map` assigns for `key`: every entry    *)
(* replaces what an earlier one left, with None if its type is wrong.  A   *)
(* key of another type is none of the keys the loop matches.               *)
Assigned(map, key, type) ==
  LET out[n \in 0..Len(map)] ==
        IF n = 0 THEN {}
        ELSE IF Same(map[n].k, key) THEN As(type, map[n].v) ELSE out[n - 1]
  IN  out[Len(map)]

(* `receipt` keeps its value when an entry has the wrong type.             *)
Receipt(map) ==
  LET out[n \in 0..Len(map)] ==
        IF n = 0 THEN <<>>
        ELSE IF Same(map[n].k, Text("receipt")) /\ map[n].v.t = "bytes" THEN map[n].v.v
        ELSE out[n - 1]
  IN  out[Len(map)]

(* x5c is an array of byte strings, wherever it comes.                     *)
X5cValid(map) ==
  \A i \in DOMAIN map : Same(map[i].k, Text("x5c")) =>
    /\ map[i].v.t = "array"
    /\ \A j \in DOMAIN map[i].v.v : map[i].v.v[j].t = "bytes"

decode_attestation_object(value) ==
  UNION {UNION {{[fmt |-> fmt, auth_data |-> auth, x5c |-> [i \in DOMAIN certs |-> certs[i].v],
                  receipt |-> Receipt(stmt)] :
                   fmt \in Assigned(m, Text("fmt"), "text"),
                   auth \in Assigned(m, Text("authData"), "bytes"),
                   certs \in Assigned(stmt, Text("x5c"), "array")} :
                stmt \in {s \in Assigned(m, Text("attStmt"), "map") : AllText(s) /\ X5cValid(s)}} :
         m \in {x \in As("map", value) : AllText(x)}}

(* With the length check at the head of verify_assertion.                  *)
decode_assertion(value) ==
  UNION {{[signature |-> s, auth_data |-> a] :
            s \in Assigned(m, Text("signature"), "bytes"),
            a \in {x \in Assigned(m, Text("authenticatorData"), "bytes") : Len(x) >= 37}} :
         m \in {x \in As("map", value) : AllText(x)}}

----------------------------------------------------------------------------
(* authdata.rs *)

(* Mutant: the length of the credential id is taken from its low byte.     *)
cred_id_len_Low(bytes) == bytes[55].v

cred_id_len(bytes) == 256 * bytes[54].v + bytes[55].v

HasAtFlag(bytes) == (bytes[33].v \div 64) % 2 = 1

parse(bytes) ==
  IF /\ Len(bytes) >= 37 /\ HasAtFlag(bytes)
     /\ Len(bytes) >= 55 /\ Len(bytes) >= 55 + cred_id_len(bytes)
  THEN {[rp_id_hash |-> SubSeq(bytes, 1, 32), flags |-> SubSeq(bytes, 33, 33),
         sign_count |-> SubSeq(bytes, 34, 37), aaguid |-> SubSeq(bytes, 38, 53),
         credential_id |-> SubSeq(bytes, 56, 55 + cred_id_len(bytes)),
         credential_public_key |-> SubSeq(bytes, 56 + cred_id_len(bytes), Len(bytes))]}
  ELSE {}

(* cose.rs.  The map at the start of `items`; what follows it is ignored.  *)
CoseMap(items) ==
  IF items # <<>> /\ items[1].t = "header" /\ Len(items) > 2 * items[1].v
  THEN {[i \in 1..items[1].v |-> [k |-> items[2 * i], v |-> items[2 * i + 1]]]} ELSE {}

Sec1(x, y) == <<4>> \o x \o y

(* x or y. *)
Coordinate(map, label) == {b \in Assigned(map, Integer(label), "bytes") : Len(b) = 32}

extract_p256_pk(items) ==
  UNION {{Sec1(x, y) : x \in Coordinate(m, -2), y \in Coordinate(m, -3)} :
         m \in {c \in CoseMap(items) : /\ Assigned(c, Integer(1), "int") = {2}
                                       /\ Assigned(c, Integer(3), "int") = {-7}
                                       /\ Assigned(c, Integer(-1), "int") = {1}}}

(* The key that verify_app_attest reads from an attestation object.        *)
AttestedKey(value) ==
  UNION {UNION {extract_p256_pk(a.credential_public_key) : a \in parse(o.auth_data)} :
         o \in decode_attestation_object(value)}

----------------------------------------------------------------------------
(* AppAttestCBOR.swift *)

(* skipValue throws on a value of a type it does not know, at any depth    *)
(* (here at most two).                                                     *)
Known(item) == item.t # "other"
skipValue(item) ==
  /\ Known(item)
  /\ item.t = "array" => \A i \in DOMAIN item.v : Known(item.v[i])
  /\ item.t = "map" => \A i \in DOMAIN item.v : Known(item.v[i].k) /\ Known(item.v[i].v)

(* The loop over a map: every key has the type `keyType`, the value of a   *)
(* key in `wanted` the type given there; other values are skipped.         *)
MapReads(map, keyType, wanted) ==
  \A i \in DOMAIN map :
    /\ map[i].k.t = keyType
    /\ IF map[i].k.v \in DOMAIN wanted THEN map[i].v.t = wanted[map[i].k.v]
       ELSE skipValue(map[i].v)

CoseTypes == [k \in {1, 3, -1, -2, -3} |-> IF k \in {-2, -3} THEN "bytes" ELSE "int"]

(* `alg` is read and not compared; neither fmt nor flags are looked at.    *)
SwiftCoseKey(items) ==
  UNION {{Sec1(x, y) : x \in Coordinate(m, -2), y \in Coordinate(m, -3)} :
         m \in {c \in CoseMap(items) : /\ MapReads(c, "int", CoseTypes)
                                       /\ Assigned(c, Integer(1), "int") = {2}
                                       /\ Assigned(c, Integer(-1), "int") = {1}}}

(* Mutant: the key is read right after the length of the credential id.    *)
extractAttestedPublicKey_NoId(value) ==
  UNION {UNION {SwiftCoseKey(SubSeq(a, 56, Len(a))) :
                  a \in {b \in Assigned(m, Text("authData"), "bytes") : Len(b) >= 55}} :
         m \in {x \in As("map", value) : MapReads(x, "text", [k \in {"authData"} |-> "bytes"])}}

extractAttestedPublicKey(value) ==
  UNION {UNION {SwiftCoseKey(SubSeq(a, 56 + cred_id_len(a), Len(a))) :
                  a \in {b \in Assigned(m, Text("authData"), "bytes") :
                           Len(b) >= 55 /\ 55 + cred_id_len(b) <= Len(b)}} :
         m \in {x \in As("map", value) : MapReads(x, "text", [k \in {"authData"} |-> "bytes"])}}

----------------------------------------------------------------------------
(* What the objects mean. *)

Entries(map, key) == {i \in DOMAIN map : Same(map[i].k, key)}
LastEntry(map, key) ==
  map[CHOOSE i \in Entries(map, key) : \A j \in Entries(map, key) : j <= i].v
LastIs(map, key, type) == Entries(map, key) # {} /\ LastEntry(map, key).t = type

Bytes(s) == [i \in DOMAIN s |-> [t |-> "byte", v |-> s[i]]]

(* Authenticator data with an id of `n` bytes and the COSE items `key`.    *)
EncAuthData(flags, n, key) ==
  Bytes([i \in 1..32 |-> i] \o <<flags>> \o <<0, 0, 0, 0>> \o [i \in 1..16 |-> 100 + i]
          \o <<n \div 256, n % 256>> \o [i \in 1..n |-> 200]) \o key
=============================================================================
