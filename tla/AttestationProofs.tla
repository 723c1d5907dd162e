------------------------- MODULE AttestationProofs -------------------------
(***************************************************************************)
(* Proofs about Attestation, for every set of images, every evidence, and  *)
(* every value of the age, skew, width and bounds.                         *)
(***************************************************************************)
EXTENDS Attestation, TLAPS

(* A document of a build of this repository is bound to nothing (GET       *)
(* /attestation) or to something that build verified at that time.         *)
DocumentsBound ==
  \A d \in docs :
    d.pcrs \in Pinnable =>
      \/ d.user_data = {<<>>}
      \/ \E v \in verified : /\ v.image = Measurement(d.pcrs)
                             /\ d.user_data = {Sha256(v.fields)}
                             /\ v.timestamp = d.timestamp
                             /\ Len(v.fields) = EndpointArity(v.endpoint)

(* The policy is still empty, or holds a measurement that was pinned.      *)
PolicyPinned == policy = EmptyPolicy \/ policy \in pinned

(* The inductive invariant.                                                *)
IInv == TypeOK /\ DocumentsBound /\ PolicyPinned /\ WitnessProvenance

----------------------------------------------------------------------------
(* Digests of two tuples are equal only for equal tuples, and none is the  *)
(* empty vector that GET /attestation binds.                               *)
LEMMA Sha256Injective ==
  ASSUME NEW x, NEW y
  PROVE  /\ {Sha256(x)} # {<<>>}
         /\ {Sha256(x)} = {Sha256(y)} => x = y
<1>1. <<"sha256", x>> # <<>>
  <2>1. Len(<<"sha256", x>>) = 2 /\ Len(<<>>) = 0
    OBVIOUS
  <2> QED BY <2>1
<1>2. <<"sha256", x>> = <<"sha256", y>> => x = y
  OBVIOUS
<1>3. Sha256(x) # <<>> /\ (Sha256(x) = Sha256(y) => x = y)
  BY <1>1, <1>2 DEF Sha256
<1> QED BY <1>3

(* A document that passes assert_pcrs_match comes from a build of this     *)
(* repository, and the policy holds exactly its measurement: the initial   *)
(* empty policy matches no document.                                       *)
LEMMA PcrsIdentifyBuild ==
  ASSUME TypeOK, NEW doc \in docs, assert_pcrs_match(doc)
  PROVE  /\ doc.pcrs \in Pinnable
         /\ policy = Measurement(doc.pcrs)
         /\ policy # EmptyPolicy
<1>1. doc.pcrs \in Images /\ PcrIndex \subseteq DOMAIN doc.pcrs
  BY DEF TypeOK, assert_pcrs_match
<1>2. \A i \in PcrIndex : doc.pcrs[i] = policy[i] /\ doc.pcrs[i] # <<>>
  BY <1>1, ConstantsAssumption DEF assert_pcrs_match
<1>3. policy # EmptyPolicy
  <2>1. 0 \in PcrIndex
    BY DEF PcrIndex
  <2>2. EmptyPolicy[0] = <<>>
    BY <2>1 DEF EmptyPolicy
  <2> QED BY <1>2, <2>1, <2>2
<1>4. PICK image \in Pinnable : policy = Measurement(image)
  BY <1>3 DEF TypeOK
<1>5. policy = Measurement(doc.pcrs)
  BY <1>2, <1>4 DEF Measurement
<1>6. doc.pcrs \in Pinnable
  BY <1>1, <1>4, <1>5, ConstantsAssumption
<1> QED BY <1>3, <1>5, <1>6

(* An accepted document was obtained by the pinned build for exactly the   *)
(* payload that the Move function rebuilt.                                 *)
LEMMA AcceptedWasVerified ==
  ASSUME TypeOK, DocumentsBound, PolicyPinned,
         NEW doc \in docs, NEW payload, Accepts(doc, payload)
  PROVE  /\ policy \in pinned
         /\ \E v \in verified : /\ v.image = policy
                                /\ v.fields = payload
                                /\ v.timestamp = doc.timestamp
                                /\ Len(payload) = EndpointArity(v.endpoint)
<1>1. assert_pcrs_match(doc) /\ doc.user_data = {Sha256(payload)}
  BY DEF Accepts
<1>2. doc.pcrs \in Pinnable /\ policy = Measurement(doc.pcrs) /\ policy # EmptyPolicy
  BY <1>1, PcrsIdentifyBuild
<1>3. doc.user_data # {<<>>}
  BY <1>1, Sha256Injective
<1>4. PICK v \in verified : /\ v.image = Measurement(doc.pcrs)
                            /\ doc.user_data = {Sha256(v.fields)}
                            /\ v.timestamp = doc.timestamp
                            /\ Len(v.fields) = EndpointArity(v.endpoint)
  BY <1>2, <1>3 DEF DocumentsBound
<1>5. v.fields = payload
  BY <1>1, <1>4, Sha256Injective
<1> QED BY <1>2, <1>4, <1>5 DEF PolicyPinned

(* The arguments of a `verify` call are byte vectors.                      *)
LEMMA ArgumentBytes ==
  ASSUME NEW f \in Arguments
  PROVE  \A i \in 1..Len(f) : f[i] \in Bytes
<1>1. f \in Seq(Bytes)
  BY ConstantsAssumption DEF Arguments
<1> QED BY <1>1

(* Minting keeps the invariant, for whichever of the three packages mints: *)
(* `w` is the Witness that the package builds from the accepted payload.   *)
LEMMA MintKeepsInvariant ==
  ASSUME IInv, NEW doc \in docs, NEW payload, Accepts(doc, payload),
         NEW source, NEW value, NEW challenge, NEW detail,
         NewWitness(source, value, challenge, doc.timestamp, detail),
         LET w == [source |-> source, attested_value |-> value, challenge |-> challenge,
                   timestamp_ms |-> doc.timestamp, detail_hash |-> detail]
         IN  /\ w \in WitnessRecord
             /\ FieldsOf(w) = payload
             /\ SourceArity(source) = Len(payload)
  PROVE  /\ IInv'
         /\ \A n \in DOMAIN witnesses' \ DOMAIN witnesses : VerifiedBy(policy, witnesses'[n])
<1> DEFINE w == [source |-> source, attested_value |-> value, challenge |-> challenge,
                 timestamp_ms |-> doc.timestamp, detail_hash |-> detail]
<1> USE DEF IInv
<1>1. /\ minted' = minted + 1
      /\ minted < MaxWitnesses
      /\ DOMAIN witnesses' = DOMAIN witnesses \cup {minted + 1}
      /\ \A n \in DOMAIN witnesses' :
           witnesses'[n] = IF n \in DOMAIN witnesses THEN witnesses[n] ELSE w
      /\ UNCHANGED <<now, policy, docs, verified, pinned>>
  BY DEF NewWitness
<1>2. PICK v \in verified : /\ v.image = policy
                            /\ v.fields = payload
                            /\ v.timestamp = doc.timestamp
                            /\ Len(payload) = EndpointArity(v.endpoint)
  BY AcceptedWasVerified
<1>3. VerifiedBy(policy, w) /\ policy \in pinned
  BY <1>2, AcceptedWasVerified DEF VerifiedBy
<1>4. TypeOK'
  BY <1>1, BoundsAssumption DEF TypeOK
<1>5. DocumentsBound' /\ PolicyPinned'
  BY <1>1 DEF DocumentsBound, PolicyPinned
<1>6. WitnessProvenance'
  BY <1>1, <1>3 DEF WitnessProvenance, VerifiedBy
<1>7. \A n \in DOMAIN witnesses' \ DOMAIN witnesses : VerifiedBy(policy, witnesses'[n])
  BY <1>1, <1>3
<1> QED BY <1>4, <1>5, <1>6, <1>7

(* attest_apple::attestation::verify mints from a tuple of three fields.   *)
LEMMA AppleAttestationKeepsInvariant ==
  ASSUME IInv, NEW doc \in docs, NEW f \in Arguments, Len(f) = 3,
         verify_apple_attestation(doc, f[1], f[2], f[3])
  PROVE  /\ IInv'
         /\ \A n \in DOMAIN witnesses' \ DOMAIN witnesses : VerifiedBy(policy, witnesses'[n])
<1>1. f[1] \in Bytes /\ f[2] \in Bytes /\ f[3] \in Bytes
  BY ArgumentBytes
<1>2. doc.timestamp \in 0..U64Max
  BY DEF IInv, TypeOK
<1> DEFINE w == [source |-> "AppleAppAttest", attested_value |-> f[1], challenge |-> f[2],
                 timestamp_ms |-> doc.timestamp, detail_hash |-> f[3]]
           payload == ApplePayload(f[1], f[2], f[3])
<1>3. w \in WitnessRecord
  BY <1>1, <1>2 DEF WitnessRecord, Sources
<1>4. FieldsOf(w) = payload /\ SourceArity("AppleAppAttest") = Len(payload)
  BY DEF FieldsOf, SourceArity, ApplePayload
<1>5. /\ Accepts(doc, payload)
      /\ NewWitness("AppleAppAttest", f[1], f[2], doc.timestamp, f[3])
  BY DEF verify_apple_attestation
<1> HIDE DEF payload
<1> QED BY <1>3, <1>4, <1>5, MintKeepsInvariant

(* attest_android::attestation::verify mints from the same three fields.   *)
LEMMA AndroidAttestationKeepsInvariant ==
  ASSUME IInv, NEW doc \in docs, NEW f \in Arguments, Len(f) = 3,
         verify_android_attestation(doc, f[1], f[2], f[3])
  PROVE  /\ IInv'
         /\ \A n \in DOMAIN witnesses' \ DOMAIN witnesses : VerifiedBy(policy, witnesses'[n])
<1>1. f[1] \in Bytes /\ f[2] \in Bytes /\ f[3] \in Bytes
  BY ArgumentBytes
<1>2. doc.timestamp \in 0..U64Max
  BY DEF IInv, TypeOK
<1> DEFINE w == [source |-> "AndroidKeyAttestation", attested_value |-> f[1],
                 challenge |-> f[2], timestamp_ms |-> doc.timestamp, detail_hash |-> f[3]]
           payload == AndroidPayload(f[1], f[2], f[3])
<1>3. w \in WitnessRecord
  BY <1>1, <1>2 DEF WitnessRecord, Sources
<1>4. FieldsOf(w) = payload /\ SourceArity("AndroidKeyAttestation") = Len(payload)
  BY DEF FieldsOf, SourceArity, AndroidPayload
<1>5. /\ Accepts(doc, payload)
      /\ NewWitness("AndroidKeyAttestation", f[1], f[2], doc.timestamp, f[3])
  BY DEF verify_android_attestation
<1> HIDE DEF payload
<1> QED BY <1>3, <1>4, <1>5, MintKeepsInvariant

(* attest_apple::assertion::verify mints from two fields; the detail hash  *)
(* is the user_data itself.                                                *)
LEMMA AssertionKeepsInvariant ==
  ASSUME IInv, NEW doc \in docs, NEW f \in Arguments, Len(f) = 2,
         verify_apple_assertion(doc, f[1], f[2])
  PROVE  /\ IInv'
         /\ \A n \in DOMAIN witnesses' \ DOMAIN witnesses : VerifiedBy(policy, witnesses'[n])
<1>1. f[1] \in Bytes /\ f[2] \in Bytes
  BY ArgumentBytes
<1>2. doc.timestamp \in 0..U64Max
  BY DEF IInv, TypeOK
<1> DEFINE payload == AssertionPayload(f[1], f[2])
           detail == CHOOSE u \in doc.user_data : TRUE
           w == [source |-> "AppleAssertion", attested_value |-> f[1], challenge |-> f[2],
                 timestamp_ms |-> doc.timestamp, detail_hash |-> detail]
<1>3. /\ Accepts(doc, payload)
      /\ NewWitness("AppleAssertion", f[1], f[2], doc.timestamp, detail)
  BY DEF verify_apple_assertion
<1>4. detail = Sha256(payload)
  BY <1>3 DEF Accepts
<1>5. w \in WitnessRecord
  BY <1>1, <1>2, <1>4 DEF WitnessRecord, Sources
<1>6. FieldsOf(w) = payload /\ SourceArity("AppleAssertion") = Len(payload)
  BY DEF FieldsOf, SourceArity, AssertionPayload
<1> HIDE DEF payload, detail
<1> QED BY <1>3, <1>5, <1>6, MintKeepsInvariant

(* At deployment the policy is empty and nothing has been signed.          *)
LEMMA InitEstablishesInvariant == Init => IInv
  BY BoundsAssumption
  DEF Init, IInv, TypeOK, DocumentsBound, PolicyPinned, WitnessProvenance

(* Steps that only add a document: another image's are no build's, and a   *)
(* build's own carry what it verified, or nothing.                         *)
LEMMA DocumentKeepsInvariant ==
  ASSUME IInv, NEW image \in Images, NEW u, NEW k, NEW t \in NsmTimes,
         docs' = docs \cup {NsmDocument(image, u, k, t)},
         verified \subseteq verified',
         image \in Pinnable =>
           \/ u = {<<>>}
           \/ \E v \in verified' : /\ v.image = Measurement(image)
                                   /\ u = {Sha256(v.fields)}
                                   /\ v.timestamp = t
                                   /\ Len(v.fields) = EndpointArity(v.endpoint),
         UNCHANGED <<now, policy, witnesses, minted, pinned>>
  PROVE  IInv'
<1> USE DEF IInv
<1> DEFINE d == NsmDocument(image, u, k, t)
<1>1. d.pcrs = image /\ d.user_data = u /\ d.timestamp = t /\ t \in 0..U64Max
  BY DEF NsmDocument, NsmTimes
<1> HIDE DEF d
<1>2. docs' = docs \cup {d}
  BY DEF d
<1>3. TypeOK'
  BY <1>1, <1>2 DEF TypeOK
<1>4. DocumentsBound'
  BY <1>1, <1>2 DEF DocumentsBound
<1>5. PolicyPinned' /\ WitnessProvenance'
  BY DEF PolicyPinned, WitnessProvenance, VerifiedBy
<1> QED BY <1>3, <1>4, <1>5

(* Every operation of the enclave, of the policy's owner and of the chain  *)
(* keeps the invariant.                                                    *)
LEMMA NextKeepsInvariant == IInv /\ [Next]_vars => IInv'
<1> SUFFICES ASSUME IInv, [Next]_vars PROVE IInv'
  OBVIOUS
<1>1. ASSUME NEW image \in Pinnable, update_pcrs(image) PROVE IInv'
  <2> USE <1>1 DEF IInv, update_pcrs
  <2>1. TypeOK'
    BY DEF TypeOK
  <2>2. DocumentsBound' /\ PolicyPinned' /\ WitnessProvenance'
    BY DEF DocumentsBound, PolicyPinned, WitnessProvenance, VerifiedBy
  <2> QED BY <2>1, <2>2
<1>2. ASSUME NEW image \in Pinnable, NEW e \in Evidence, NEW t \in NsmTimes,
             attest(image, e, t)
      PROVE  IInv'
  <2> DEFINE r == [image |-> Measurement(image), endpoint |-> e.endpoint,
                   fields |-> e.fields, timestamp |-> t]
  <2>1. image \in Images /\ Len(e.fields) = EndpointArity(e.endpoint)
    BY ConstantsAssumption
  <2>2. /\ r \in verified' /\ r.image = Measurement(image) /\ r.timestamp = t
        /\ r.fields = e.fields /\ r.endpoint = e.endpoint
    BY <1>2 DEF attest
  <2>3. /\ docs' = docs \cup {NsmDocument(image, {Sha256(e.fields)}, {"enclave_pk"}, t)}
        /\ verified \subseteq verified'
        /\ UNCHANGED <<now, policy, witnesses, minted, pinned>>
    BY <1>2 DEF attest
  <2> HIDE DEF r
  <2> QED BY <2>1, <2>2, <2>3, DocumentKeepsInvariant
<1>3. ASSUME NEW image \in Pinnable, NEW t \in NsmTimes, attestation_doc(image, t)
      PROVE  IInv'
  <2>1. image \in Images
    BY ConstantsAssumption
  <2>2. /\ docs' = docs \cup {NsmDocument(image, {<<>>}, {"enclave_pk"}, t)}
        /\ verified \subseteq verified'
        /\ UNCHANGED <<now, policy, witnesses, minted, pinned>>
    BY <1>3 DEF attestation_doc
  <2> QED BY <2>1, <2>2, DocumentKeepsInvariant
<1>4. ASSUME NEW image \in Images \ Pinnable, NEW u, NEW k, NEW t \in NsmTimes,
             other_document(image, u, k, t)
      PROVE  IInv'
  <2>1. /\ docs' = docs \cup {NsmDocument(image, u, k, t)}
        /\ verified \subseteq verified'
        /\ UNCHANGED <<now, policy, witnesses, minted, pinned>>
    BY <1>4 DEF other_document
  <2> QED BY <2>1, <1>4, DocumentKeepsInvariant
<1>5. ASSUME NEW n \in DOMAIN witnesses, consume(n) PROVE IInv'
  <2> USE <1>5 DEF IInv, consume
  <2>1. TypeOK'
    BY DEF TypeOK
  <2>2. DocumentsBound' /\ PolicyPinned'
    BY DEF DocumentsBound, PolicyPinned
  <2>3. WitnessProvenance'
    BY DEF WitnessProvenance, VerifiedBy
  <2> QED BY <2>1, <2>2, <2>3
<1>6. CASE Tick
  <2> USE <1>6 DEF IInv, Tick
  <2>1. TypeOK'
    BY BoundsAssumption DEF TypeOK
  <2>2. DocumentsBound' /\ PolicyPinned' /\ WitnessProvenance'
    BY DEF DocumentsBound, PolicyPinned, WitnessProvenance, VerifiedBy
  <2> QED BY <2>1, <2>2
<1>7. CASE UNCHANGED vars
  <2> USE <1>7 DEF IInv, vars
  <2>1. TypeOK'
    BY DEF TypeOK
  <2>2. DocumentsBound' /\ PolicyPinned' /\ WitnessProvenance'
    BY DEF DocumentsBound, PolicyPinned, WitnessProvenance, VerifiedBy
  <2> QED BY <2>1, <2>2
<1> QED
  BY <1>1, <1>2, <1>3, <1>4, <1>5, <1>6, <1>7, AppleAttestationKeepsInvariant,
     AndroidAttestationKeepsInvariant, AssertionKeepsInvariant DEF Next, AttestNext

(* The invariant holds throughout.                                         *)
LEMMA InvariantHolds == Spec => []IInv
  BY InitEstablishesInvariant, NextKeepsInvariant, PTL DEF Spec

----------------------------------------------------------------------------
(* The state always has the types of the Move structs.                     *)
THEOREM TypeCorrect == Spec => []TypeOK
<1>1. IInv => TypeOK
  BY DEF IInv
<1> QED BY <1>1, InvariantHolds, PTL

(* Every Witness repeats what a build that was pinned had verified.        *)
THEOREM Provenance == Spec => []WitnessProvenance
<1>1. IInv => WitnessProvenance
  BY DEF IInv
<1> QED BY <1>1, InvariantHolds, PTL

(* The two u64 comparisons amount to the window around the NSM time.       *)
LEMMA MintWithinWindow ==
  ASSUME IInv, NEW doc \in docs, NEW payload, Accepts(doc, payload),
         NEW source, NEW value, NEW challenge, NEW detail,
         NewWitness(source, value, challenge, doc.timestamp, detail),
         NEW n \in DOMAIN witnesses' \ DOMAIN witnesses
  PROVE  /\ now - witnesses'[n].timestamp_ms <= MAX_OUTCOME_AGE_MS
         /\ witnesses'[n].timestamp_ms - now <= MAX_CLOCK_SKEW_MS
<1>1. witnesses'[n].timestamp_ms = doc.timestamp
  BY DEF NewWitness
<1>2. doc.timestamp \in Nat /\ now \in Nat
  BY BoundsAssumption DEF IInv, TypeOK
<1>3. /\ doc.timestamp + MAX_OUTCOME_AGE_MS >= now
      /\ doc.timestamp <= now + MAX_CLOCK_SKEW_MS
  BY DEF Accepts, Fresh
<1> QED BY <1>1, <1>2, <1>3, BoundsAssumption

(* A Witness is minted only by the pinned build's word and within the      *)
(* window of its NSM time.                                                 *)
THEOREM MintingWindow == Spec => MintedFromPinned
<1>1. IInv /\ [Next]_vars => [MintStep]_vars
  <2> SUFFICES ASSUME IInv, Next PROVE MintStep
    OBVIOUS
  <2>1. CASE \E doc \in docs, f \in Arguments :
               Len(f) = 3 /\ verify_apple_attestation(doc, f[1], f[2], f[3])
    BY <2>1, AppleAttestationKeepsInvariant, MintWithinWindow
    DEF MintStep, verify_apple_attestation
  <2>2. CASE \E doc \in docs, f \in Arguments :
               Len(f) = 2 /\ verify_apple_assertion(doc, f[1], f[2])
    BY <2>2, AssertionKeepsInvariant, MintWithinWindow DEF MintStep, verify_apple_assertion
  <2>3. CASE \E doc \in docs, f \in Arguments :
               Len(f) = 3 /\ verify_android_attestation(doc, f[1], f[2], f[3])
    BY <2>3, AndroidAttestationKeepsInvariant, MintWithinWindow
    DEF MintStep, verify_android_attestation
  <2>4. CASE DOMAIN witnesses' \subseteq DOMAIN witnesses
    BY <2>4 DEF MintStep
  <2> QED
    BY <2>1, <2>2, <2>3, <2>4
    DEF Next, AttestNext, update_pcrs, attest, attestation_doc, other_document, consume, Tick
<1> QED BY <1>1, InvariantHolds, PTL DEF Spec, MintedFromPinned
=============================================================================
