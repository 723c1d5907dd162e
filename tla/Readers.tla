------------------------------ MODULE Readers -------------------------------
(***************************************************************************)
(* The readers of Apple's objects, on authenticator data of which more and *)
(* more has arrived, in every object around it; and the input of the hash  *)
(* that commits to an Android certificate chain.  `subject` is what is     *)
(* read, `cut` how much of its authenticator data is there: the rest of    *)
(* the object is whole, so that only authdata::parse can tell.             *)
(*                                                                         *)
(* Everything here is a function, recursive where the code has a loop.     *)
(***************************************************************************)
EXTENDS AppleCbor, Reading

CONSTANTS        \* families: functions from any index set
  Chains,        \* sequences of certificates, each a sequence of bytes
  AuthDatas,     \* [flags, id, key]: see EncAuthData
  Objects,       \* [before, after]: the entries around authData
  AssertionMaps  \* maps of an assertion

IsSeq(s) == Len(s) \in Nat /\ s = [i \in 1..Len(s) |-> s[i]]

(* The number of entries of a COSE_Key is a length, as ciborium reads it,  *)
(* and so is the length of the credential id, if it is there.              *)
IsData(s) == IsSeq(s) /\ \A i \in DOMAIN s : s[i].t = "header" => s[i].v \in Nat
IsAuthData(s) == IsData(s) /\ (Len(s) >= 55 => cred_id_len(s) \in Nat)

(* Maps have finitely many entries, also the ones within an entry.         *)
IsMap(m) ==
  /\ IsSeq(m)
  /\ \A i \in DOMAIN m :
       /\ m[i].v.t = "map" => IsSeq(m[i].v.v)
       /\ Same(m[i].k, Text("authData")) /\ m[i].v.t = "bytes" => IsAuthData(m[i].v.v)

(* The length of a certificate fits in the u32 written before it (axum     *)
(* takes no body of more than 2 MB); that of a credential id in its two    *)
(* bytes.                                                                  *)
ASSUME ReadersAssumption ==
  /\ \A i \in DOMAIN Chains :
       /\ Chains[i] \in Seq(Seq(0..255))
       /\ \A j \in DOMAIN Chains[i] : Len(Chains[i][j]) \div (256 * 256 * 256) < 256
  /\ \A i \in DOMAIN AuthDatas :
       AuthDatas[i].flags \in 0..255 /\ AuthDatas[i].id \in 0..256 * 256 - 1 /\ IsData(AuthDatas[i].key)
  /\ \A i \in DOMAIN Objects : IsMap(Objects[i].before) /\ IsMap(Objects[i].after)
  /\ \A i \in DOMAIN AssertionMaps : IsSeq(AssertionMaps[i])

----------------------------------------------------------------------------
(* n as u32, most significant byte first.                                  *)
to_be_bytes(n) ==
  <<(n \div (256 * 256 * 256)) % 256, (n \div (256 * 256)) % 256, (n \div 256) % 256, n % 256>>

(* Mutant: the certificates are put together without their lengths.        *)
canonical_chain_hash_input_Bare(chain) ==
  LET buf[n \in 0..Len(chain)] == IF n = 0 THEN <<>> ELSE buf[n - 1] \o chain[n]
  IN  buf[Len(chain)]

(* lib.rs: what detail_hash commits to.                                    *)
canonical_chain_hash_input(chain) ==
  LET buf[n \in 0..Len(chain)] ==
        IF n = 0 THEN <<>> ELSE buf[n - 1] \o to_be_bytes(Len(chain[n])) \o chain[n]
  IN  buf[Len(chain)]

(* An attestation object: `o.before`, authData, `o.after`.                 *)
ObjectMap(o, auth) ==
  o.before \o <<[k |-> Text("authData"), v |-> [t |-> "bytes", v |-> auth]]>> \o o.after

Size(s) ==
  IF s.kind = "object" THEN Len(EncAuthData(s.auth.flags, s.auth.id, s.auth.key)) ELSE 0

ReadersInit ==
  /\ cut = 0
  /\ \/ \E i \in DOMAIN Chains : subject = [kind |-> "chain", chain |-> Chains[i]]
     \/ \E i \in DOMAIN AuthDatas, j \in DOMAIN Objects :
          subject = [kind |-> "object", auth |-> AuthDatas[i], object |-> Objects[j]]
     \/ \E i \in DOMAIN AssertionMaps :
          subject = [kind |-> "assertion", assertion |-> AssertionMaps[i]]

(* One more symbol of the authenticator data is there.                     *)
Arrive == cut < Size(subject) /\ cut' = cut + 1 /\ UNCHANGED subject

ReadersSpec == ReadersInit /\ [][Arrive]_readerVars

----------------------------------------------------------------------------
(* Properties *)

(* canonical_chain_hash_input: no two chains have the same input, so       *)
(* detail_hash commits to one chain, its order and its division into       *)
(* certificates.                                                           *)
ChainCommitted ==
  subject.kind = "chain" =>
    \A i \in DOMAIN Chains :
      canonical_chain_hash_input(Chains[i]) = canonical_chain_hash_input(subject.chain)
        => Chains[i] = subject.chain

----------------------------------------------------------------------------
AuthBytes == SubSeq(EncAuthData(subject.auth.flags, subject.auth.id, subject.auth.key), 1, cut)
AttObject == [t |-> "map", v |-> ObjectMap(subject.object, AuthBytes)]

(* authdata::parse divides the authenticator data without loss or overlap, *)
(* with the credential id of the length it states and the COSE_Key after   *)
(* it; with a part or the attested-credential-data flag missing it is      *)
(* refused.                                                                *)
AuthDataWhole ==
  subject.kind = "object" =>
    LET n == subject.auth.id
        read == parse(AuthBytes)
    IN  /\ read # {} <=> cut >= 55 + n /\ (subject.auth.flags \div 64) % 2 = 1
        /\ \A a \in read :
             /\ a.rp_id_hash \o a.flags \o a.sign_count \o a.aaguid
                  \o Bytes(<<n \div 256, n % 256>>) \o a.credential_id \o a.credential_public_key
                  = AuthBytes
             /\ Len(a.credential_id) = n

(* decode_attestation_object and decode_assertion: of several entries with *)
(* one key the last decides, also when its type is wrong; a key that is    *)
(* not text, an x5c that is not an array of byte strings, wherever it      *)
(* comes, and a missing entry are refused.                                 *)
ObjectReadByLast ==
  LET m == AttObject.v
      stmt == LastEntry(m, Text("attStmt")).v
      read == decode_attestation_object(AttObject)
  IN  /\ read # {} <=>
           /\ AllText(m) /\ LastIs(m, Text("fmt"), "text") /\ LastIs(m, Text("authData"), "bytes")
           /\ LastIs(m, Text("attStmt"), "map") /\ AllText(stmt)
           /\ Entries(stmt, Text("x5c")) # {} /\ X5cValid(stmt)
      /\ \A r \in read :
           /\ r.fmt = LastEntry(m, Text("fmt")).v
           /\ r.auth_data = LastEntry(m, Text("authData")).v
           /\ r.x5c = [i \in DOMAIN LastEntry(stmt, Text("x5c")).v |->
                         LastEntry(stmt, Text("x5c")).v[i].v]

AssertionReadByLast ==
  LET m == subject.assertion
      read == decode_assertion([t |-> "map", v |-> m])
  IN  /\ read # {} <=>
           /\ AllText(m) /\ LastIs(m, Text("signature"), "bytes")
           /\ LastIs(m, Text("authenticatorData"), "bytes")
           /\ Len(LastEntry(m, Text("authenticatorData")).v) >= 37
      /\ \A r \in read : r.signature = LastEntry(m, Text("signature")).v
                         /\ r.auth_data = LastEntry(m, Text("authenticatorData")).v

LastEntryDecides ==
  /\ subject.kind = "object" => ObjectReadByLast
  /\ subject.kind = "assertion" => AssertionReadByLast

(* The iOS client keeps the key it reads from the attestation object and   *)
(* sends it with every assertion (AttestService.swift), so it must be the  *)
(* key that verify_app_attest attests: whenever both read one it is the    *)
(* same, and the client reads one whenever the verifier does, unless the   *)
(* object has values or keys that its minimal reader does not know.        *)
ClientAgrees ==
  subject.kind = "object" =>
    LET server == AttestedKey(AttObject)
        client == extractAttestedPublicKey(AttObject)
    IN  /\ server # {} /\ client # {} => server = client
        /\ /\ server # {}
           /\ MapReads(AttObject.v, "text", [k \in {"authData"} |-> "bytes"])
           /\ \A o \in decode_attestation_object(AttObject) :
                \A a \in parse(o.auth_data) :
                  \A c \in CoseMap(a.credential_public_key) : MapReads(c, "int", CoseTypes)
           => client = server
=============================================================================
