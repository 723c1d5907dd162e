---------------------------- MODULE Attestation ----------------------------
(***************************************************************************)
(* From verified device evidence to an on-chain Witness.                   *)
(*                                                                         *)
(* Enclaves run the verifier image; for each request it accepts, the image *)
(* asks the Nitro Security Module (NSM) for a document whose user_data is  *)
(* SHA-256(BCS(payload)).  Anybody can submit such a document to one of    *)
(* the three Move `verify` functions (attest_apple::attestation,           *)
(* attest_apple::assertion, attest_android::attestation).  Each compares   *)
(* the document with the shared EnclavePolicy and the clock, and returns a *)
(* linear Witness<Source>.  The holder of the policy's cap rotates the     *)
(* pinned measurements at any time.                                        *)
(*                                                                         *)
(* A Move transaction that aborts has no effect, so an abort is a step     *)
(* that is not taken and every assert is a conjunct of the action's guard. *)
(***************************************************************************)
EXTENDS Integers, FiniteSets, Sequences

CONSTANTS
  Bytes,               \* byte vectors: keys, challenges, hashes of evidence
  Images,              \* enclave images: a function from PCR index to value
  Pinnable,            \* the builds of this repository, which the cap holder pins
  Evidence,            \* [endpoint, fields]: what the image's verifiers accept
  AnyFields,           \* field tuples some other image may put in user_data
  MAX_OUTCOME_AGE_MS,  \* 5 * 60 * 1000 in the code
  MAX_CLOCK_SKEW_MS,   \* 30 * 1000 in the code
  U64Max,              \* 2^64 - 1 in the code
  Drift,               \* bound: distance of NSM time and chain time
  MaxDocs,             \* bound: documents produced
  MaxWitnesses         \* bound: witnesses ever minted

VARIABLES
  now,        \* sui::clock, in milliseconds
  policy,     \* EnclavePolicy<ATTESTATION>: PCR index -> pinned value
  docs,       \* documents with a valid AWS Nitro signature
  witnesses,  \* Witness values in existence, by mint number
  minted,     \* number of witnesses minted so far
  verified,   \* history: what builds of this repository verified
  pinned      \* history: every measurement the policy has held since deployment

vars == <<now, policy, docs, witnesses, minted, verified, pinned>>

----------------------------------------------------------------------------
(* Data *)

PcrIndex == 0..2

Sources == {"AppleAppAttest", "AppleAssertion", "AndroidKeyAttestation"}

Endpoints == {"attest_apple_attestation", "attest_apple_assertion",
              "attest_android_attestation"}

(* BCS writes the fields of a struct one after the other, each with its    *)
(* length, and neither the struct's name nor its package: the bytes        *)
(* determine the tuple of field values and nothing else.                   *)
ApplePayload(value, challenge, detail) == <<value, challenge, detail>>
AndroidPayload(value, challenge, detail) == <<value, challenge, detail>>
AssertionPayload(key, clientData) == <<key, clientData>>

(* SHA-256 is taken to be collision free, and no digest is the empty       *)
(* vector.                                                                 *)
Sha256(bcs) == <<"sha256", bcs>>

(* The measurement kept by the policy: registers 0, 1 and 2 of an image.   *)
Measurement(image) == [i \in PcrIndex |-> image[i]]

(* Move's vector[] for the three registers until the first update_pcrs.    *)
EmptyPolicy == [i \in PcrIndex |-> <<>>]

Option(S) == {{}} \cup {{x} : x \in S}

(* Number of fields of the payload an endpoint binds, and of the one the   *)
(* `verify` of a source rebuilds.                                          *)
EndpointArity(endpoint) == IF endpoint = "attest_apple_assertion" THEN 2 ELSE 3
SourceArity(source) == IF source = "AppleAssertion" THEN 2 ELSE 3

(* The tuples a caller of `verify` may pass as arguments.                  *)
Arguments == {e.fields : e \in Evidence} \cup AnyFields

(* The assumptions on the constants.  Registers an image reports are never *)
(* empty; builds of this repository report registers 0..2; the measurement *)
(* identifies the build, whatever further registers a document lists.      *)
ASSUME ConstantsAssumption ==
  /\ \A image \in Images : \A i \in PcrIndex \cap DOMAIN image : image[i] # <<>>
  /\ Pinnable \subseteq Images
  /\ \A image \in Pinnable : PcrIndex \subseteq DOMAIN image
  /\ \A a \in Pinnable, b \in Images :
       (PcrIndex \subseteq DOMAIN b /\ Measurement(a) = Measurement(b)) => b \in Pinnable
  /\ \A e \in Evidence : /\ e.endpoint \in Endpoints
                         /\ e.fields \in Seq(Bytes)
                         /\ Len(e.fields) = EndpointArity(e.endpoint)
  /\ AnyFields \subseteq {f \in Seq(Bytes) : Len(f) \in 2..3}

ASSUME BoundsAssumption ==
  /\ MAX_OUTCOME_AGE_MS \in Nat
  /\ MAX_CLOCK_SKEW_MS \in Nat
  /\ U64Max \in Nat
  /\ Drift \in Nat
  /\ MaxDocs \in Nat
  /\ MaxWitnesses \in Nat

----------------------------------------------------------------------------
(* Initial state: `init` of attestation.move shares a policy with empty    *)
(* registers.                                                              *)
Init ==
  /\ now = 0
  /\ policy = EmptyPolicy
  /\ docs = {}
  /\ witnesses = <<>>
  /\ minted = 0
  /\ verified = {}
  /\ pinned = {}

(* kagi::enclave_policy::update_pcrs, called with the cap.                 *)
update_pcrs(image) ==
  /\ policy' = Measurement(image)
  /\ pinned' = pinned \cup {Measurement(image)}
  /\ UNCHANGED <<now, docs, witnesses, minted, verified>>

(* The NSM's clock is not the chain's: a document's timestamp is within    *)
(* Drift of the chain's clock when it is produced.                         *)
NsmTimes == {t \in 0..U64Max : now - Drift <= t /\ t <= now + Drift}

NsmDocument(image, userData, publicKey, t) ==
  [pcrs |-> image, user_data |-> userData, public_key |-> publicKey, timestamp |-> t]

(* One request accepted by an attest handler of an enclave that runs a     *)
(* build of this repository, pinned at the moment or not.                  *)
attest(image, e, t) ==
  /\ Cardinality(docs) < MaxDocs
  /\ docs' = docs \cup {NsmDocument(image, {Sha256(e.fields)}, {"enclave_pk"}, t)}
  /\ verified' = verified \cup
       {[image |-> Measurement(image), endpoint |-> e.endpoint,
         fields |-> e.fields, timestamp |-> t]}
  /\ UNCHANGED <<now, policy, witnesses, minted, pinned>>

(* GET /attestation: a document bound to no payload.  The handler passes   *)
(* vec![], so the field is present and empty.                              *)
attestation_doc(image, t) ==
  /\ Cardinality(docs) < MaxDocs
  /\ docs' = docs \cup {NsmDocument(image, {<<>>}, {"enclave_pk"}, t)}
  /\ UNCHANGED <<now, policy, witnesses, minted, verified, pinned>>

(* Any other image on any Nitro instance obtains well-signed documents     *)
(* with the contents it likes, the optional fields left out included.      *)
OtherUserData == Option({<<>>} \cup {Sha256(f) : f \in AnyFields})

other_document(image, userData, publicKey, t) ==
  /\ Cardinality(docs) < MaxDocs
  /\ docs' = docs \cup {NsmDocument(image, userData, publicKey, t)}
  /\ UNCHANGED <<now, policy, witnesses, minted, verified, pinned>>

(* Mutant: the final assert that the three registers were found is gone.   *)
assert_pcrs_match_NotFound(doc) ==
  \A i \in PcrIndex \cap DOMAIN doc.pcrs : doc.pcrs[i] = policy[i]

(* The loop over the document's PCR entries: an entry for register 0, 1 or *)
(* 2 must equal the policy's, and the three must be found.                 *)
assert_pcrs_match(doc) ==
  /\ \A i \in PcrIndex \cap DOMAIN doc.pcrs : doc.pcrs[i] = policy[i]
  /\ PcrIndex \subseteq DOMAIN doc.pcrs

(* Mutant: no bound on timestamps in the future.                           *)
Fresh_NoSkewCheck(doc) ==
  /\ doc.timestamp + MAX_OUTCOME_AGE_MS <= U64Max
  /\ doc.timestamp + MAX_OUTCOME_AGE_MS >= now

(* The two freshness assertions.  u64 addition aborts on overflow.         *)
Fresh(doc) ==
  /\ doc.timestamp + MAX_OUTCOME_AGE_MS <= U64Max
  /\ doc.timestamp + MAX_OUTCOME_AGE_MS >= now
  /\ now + MAX_CLOCK_SKEW_MS <= U64Max
  /\ doc.timestamp <= now + MAX_CLOCK_SKEW_MS

(* Mutant: user_data must be present but is not compared with the payload. *)
Accepts_AnyUserData(doc, payload) ==
  /\ assert_pcrs_match(doc)
  /\ doc.user_data # {}
  /\ Fresh(doc)
  /\ doc.public_key # {}

(* The assertions every `verify` makes of the document, in their order.    *)
(* The document is loaded in the same transaction, and stays available off *)
(* chain for another one.                                                  *)
Accepts(doc, payload) ==
  /\ assert_pcrs_match(doc)
  /\ doc.user_data # {}
  /\ doc.user_data = {Sha256(payload)}
  /\ Fresh(doc)
  /\ doc.public_key # {}

(* witness::new, returned to the transaction that called `verify`.         *)
NewWitness(source, value, challenge, t, detail) ==
  /\ minted < MaxWitnesses
  /\ minted' = minted + 1
  /\ witnesses' = [n \in DOMAIN witnesses \cup {minted'} |->
                     IF n \in DOMAIN witnesses THEN witnesses[n]
                     ELSE [source |-> source, attested_value |-> value,
                           challenge |-> challenge, timestamp_ms |-> t,
                           detail_hash |-> detail]]
  /\ UNCHANGED <<now, policy, docs, verified, pinned>>

(* attest_apple::attestation::verify                                       *)
verify_apple_attestation(doc, value, challenge, detail) ==
  /\ Accepts(doc, ApplePayload(value, challenge, detail))
  /\ NewWitness("AppleAppAttest", value, challenge, doc.timestamp, detail)

(* Mutant: the assertion's detail hash is left empty.                      *)
verify_apple_assertion_NoDetail(doc, key, clientData) ==
  /\ Accepts(doc, AssertionPayload(key, clientData))
  /\ NewWitness("AppleAssertion", key, clientData, doc.timestamp, <<>>)

(* attest_apple::assertion::verify: the detail hash is the user_data.      *)
verify_apple_assertion(doc, key, clientData) ==
  /\ Accepts(doc, AssertionPayload(key, clientData))
  /\ NewWitness("AppleAssertion", key, clientData, doc.timestamp,
                CHOOSE u \in doc.user_data : TRUE)

(* attest_android::attestation::verify                                     *)
verify_android_attestation(doc, value, challenge, detail) ==
  /\ Accepts(doc, AndroidPayload(value, challenge, detail))
  /\ NewWitness("AndroidKeyAttestation", value, challenge, doc.timestamp, detail)

(* Witness has drop and store but not copy: the value can be kept in any   *)
(* object for any time and is given up at most once.                       *)
consume(n) ==
  /\ n \in DOMAIN witnesses
  /\ witnesses' = [m \in DOMAIN witnesses \ {n} |-> witnesses[m]]
  /\ UNCHANGED <<now, policy, docs, minted, verified, pinned>>

Tick ==
  /\ now < U64Max
  /\ now' = now + 1
  /\ UNCHANGED <<policy, docs, witnesses, minted, verified, pinned>>

AttestNext ==
  \/ \E image \in Pinnable : update_pcrs(image)
  \/ \E image \in Pinnable, e \in Evidence, t \in NsmTimes : attest(image, e, t)
  \/ \E image \in Pinnable, t \in NsmTimes : attestation_doc(image, t)
  \/ \E image \in Images \ Pinnable, u \in OtherUserData,
        k \in Option({"enclave_pk"}), t \in NsmTimes : other_document(image, u, k, t)
  \/ \E doc \in docs, f \in Arguments :
        Len(f) = 3 /\ verify_apple_attestation(doc, f[1], f[2], f[3])
  \/ \E doc \in docs, f \in Arguments :
        Len(f) = 2 /\ verify_apple_assertion(doc, f[1], f[2])
  \/ \E doc \in docs, f \in Arguments :
        Len(f) = 3 /\ verify_android_attestation(doc, f[1], f[2], f[3])

Next ==
  \/ AttestNext
  \/ \E n \in DOMAIN witnesses : consume(n)
  \/ Tick

Spec == Init /\ [][Next]_vars

----------------------------------------------------------------------------
(* Properties *)

WitnessRecord ==
  [source : Sources, attested_value : Bytes, challenge : Bytes,
   timestamp_ms : 0..U64Max,
   detail_hash : Bytes \cup {Sha256(AssertionPayload(k, c)) : k \in Bytes, c \in Bytes}]

(* Type invariant: values of the Move structs and of the history.          *)
TypeOK ==
  /\ now \in 0..U64Max
  /\ policy \in {EmptyPolicy} \cup {Measurement(image) : image \in Pinnable}
  /\ \A d \in docs : /\ d.pcrs \in Images
                     /\ d.timestamp \in 0..U64Max
  /\ minted \in 0..MaxWitnesses
  /\ DOMAIN witnesses \subseteq 1..minted
  /\ \A n \in DOMAIN witnesses : witnesses[n] \in WitnessRecord

(* What a witness says was bound to the document it was minted from.       *)
FieldsOf(w) ==
  IF w.source = "AppleAssertion" THEN <<w.attested_value, w.challenge>>
                                 ELSE <<w.attested_value, w.challenge, w.detail_hash>>

(* `measurement` verified what witness w says, at the time w says, at an   *)
(* endpoint whose payload has the shape of w's source.                     *)
VerifiedBy(measurement, w) ==
  \E v \in verified :
    /\ v.image = measurement
    /\ v.fields = FieldsOf(w)
    /\ v.timestamp = w.timestamp_ms
    /\ EndpointArity(v.endpoint) = SourceArity(w.source)

(* Provenance.  Every Witness in existence, however long it was kept and   *)
(* whatever became of its document and of the policy, repeats field for    *)
(* field and with its NSM time what a build of this repository verified,   *)
(* and the policy has held that build's measurement.  Documents of other   *)
(* images, of GET /attestation, and documents submitted while the policy   *)
(* is still empty, never lead to a Witness.                                *)
WitnessProvenance ==
  \A n \in DOMAIN witnesses : \E m \in pinned : VerifiedBy(m, witnesses[n])

(* A Witness is minted only within the window its NSM time allows, on the  *)
(* strength of the measurement pinned at that moment: rotating the policy  *)
(* retires at once the documents of the previous build that are still      *)
(* fresh.                                                                  *)
MintStep ==
  \A n \in DOMAIN witnesses' \ DOMAIN witnesses :
    LET w == witnesses'[n] IN
    /\ VerifiedBy(policy, w)
    /\ now - w.timestamp_ms <= MAX_OUTCOME_AGE_MS
    /\ w.timestamp_ms - now <= MAX_CLOCK_SKEW_MS

MintedFromPinned == [][MintStep]_vars

(* attestation-core's `Outcome.source`: the on-chain consumer rejects      *)
(* outcomes of another source, so they are not transferable between        *)
(* packages.                                                               *)
EndpointOf(source) ==
  CASE source = "AppleAppAttest" -> "attest_apple_attestation"
    [] source = "AppleAssertion" -> "attest_apple_assertion"
    [] source = "AndroidKeyAttestation" -> "attest_android_attestation"

NotTransferable ==
  \A n \in DOMAIN witnesses :
    \E v \in verified :
      /\ v.endpoint = EndpointOf(witnesses[n].source)
      /\ v.fields = FieldsOf(witnesses[n])
      /\ v.timestamp = witnesses[n].timestamp_ms
=============================================================================
