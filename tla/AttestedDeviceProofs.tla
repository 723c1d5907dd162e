------------------------ MODULE AttestedDeviceProofs ------------------------
(***************************************************************************)
(* Proofs about the composition of Attestation and DeviceBinding.  What is *)
(* proved of each part holds of the composition, whose steps are steps of  *)
(* the parts.  A and D of AttestedDevice are P and Q here: the same        *)
(* modules, with their theorems.                                           *)
(***************************************************************************)
EXTENDS AttestedDevice, TLAPS

P == INSTANCE AttestationProofs
Q == INSTANCE DeviceBindingProofs WITH Attestations <- Mintable

----------------------------------------------------------------------------
(* The parts *)

(* The assumptions of the parts, for their theorems.                       *)
LEMMA PartsAssumptions ==
  /\ P!ConstantsAssumption /\ P!BoundsAssumption
  /\ Q!BindingConstants /\ Q!IdEncoding
<1>1. P!ConstantsAssumption
  BY SystemConstants
  DEF A!PcrIndex, A!Endpoints, A!Measurement, A!EndpointArity,
      P!PcrIndex, P!Endpoints, P!Measurement, P!EndpointArity
<1>2. P!BoundsAssumption
  BY SystemConstants
<1>3. Q!BindingConstants /\ Q!IdEncoding
  BY SystemConstants DEF D!Schemes, D!Forms, Q!Schemes, Q!Forms
<1> QED BY <1>1, <1>2, <1>3

(* The constants and actions of P are those of A.                          *)
LEMMA SameAttestation ==
  /\ A!Init <=> P!Init
  /\ A!AttestNext <=> P!AttestNext
  /\ \A n : A!consume(n) <=> P!consume(n)
  /\ A!Tick <=> P!Tick
  /\ A!Sources = P!Sources /\ A!Arguments = P!Arguments
  /\ \A s : A!SourceArity(s) = P!SourceArity(s)
  /\ \A e : A!EndpointArity(e) = P!EndpointArity(e)
  /\ \A m, w : A!VerifiedBy(m, w) <=> P!VerifiedBy(m, w)
<1> USE DEF A!PcrIndex, A!Sources, A!Endpoints, A!ApplePayload, A!AndroidPayload,
      A!AssertionPayload, A!Sha256, A!Measurement, A!EmptyPolicy, A!Option, A!EndpointArity,
      A!SourceArity, A!Arguments, A!NsmTimes, A!NsmDocument, A!OtherUserData,
      A!assert_pcrs_match, A!Fresh, A!Accepts, A!NewWitness, A!Cardinality
<1> USE DEF P!PcrIndex, P!Sources, P!Endpoints, P!ApplePayload, P!AndroidPayload,
      P!AssertionPayload, P!Sha256, P!Measurement, P!EmptyPolicy, P!Option, P!EndpointArity,
      P!SourceArity, P!Arguments, P!NsmTimes, P!NsmDocument, P!OtherUserData,
      P!assert_pcrs_match, P!Fresh, P!Accepts, P!NewWitness, P!Cardinality
<1>1. A!Init <=> P!Init
  BY DEF A!Init, P!Init
<1>2. A!AttestNext <=> P!AttestNext
  BY DEF A!update_pcrs, A!attest, A!attestation_doc, A!other_document,
     A!verify_apple_attestation, A!verify_apple_assertion, A!verify_android_attestation,
     A!AttestNext, P!update_pcrs, P!attest, P!attestation_doc, P!other_document,
     P!verify_apple_attestation, P!verify_apple_assertion, P!verify_android_attestation,
     P!AttestNext
<1>3. (A!Tick <=> P!Tick) /\ \A n : A!consume(n) <=> P!consume(n)
  BY DEF A!consume, P!consume, A!Tick, P!Tick
<1>4. /\ A!Sources = P!Sources /\ A!Arguments = P!Arguments
      /\ \A s : A!SourceArity(s) = P!SourceArity(s)
      /\ \A e : A!EndpointArity(e) = P!EndpointArity(e)
  OBVIOUS
<1>5. \A m, w : A!VerifiedBy(m, w) <=> P!VerifiedBy(m, w)
  BY DEF A!VerifiedBy, P!VerifiedBy, A!FieldsOf, P!FieldsOf
<1> QED BY <1>1, <1>2, <1>3, <1>4, <1>5

(* The same of Q and D.                                                    *)
LEMMA SameBinding ==
  /\ D!Init <=> Q!Init
  /\ D!BindingNext <=> Q!BindingNext
  /\ \A p, a : D!Covers(p, a) <=> Q!Covers(p, a)
<1>1. D!Init <=> Q!Init
  BY DEF D!Init, Q!Init
<1>2. D!BindingNext <=> Q!BindingNext
  BY DEF D!Schemes, D!FormOf, D!MESSAGE_PREFIX, D!canonical_message, D!Without, D!With, D!new,
     D!transfer_to, D!destroy, D!approve, D!Verified, D!verify_action, D!BindingNext,
     D!Cardinality, Q!Schemes, Q!FormOf, Q!MESSAGE_PREFIX, Q!canonical_message, Q!Without,
     Q!With, Q!new, Q!transfer_to, Q!destroy, Q!approve, Q!Verified, Q!verify_action,
     Q!BindingNext, Q!Cardinality
<1>3. \A p, a : D!Covers(p, a) <=> Q!Covers(p, a)
  BY DEF D!Covers, D!Ambiguous, D!IsStrictPrefix, D!IsPrefix, D!canonical_message,
     D!MESSAGE_PREFIX, Q!Covers, Q!Ambiguous, Q!IsStrictPrefix, Q!IsPrefix,
     Q!canonical_message, Q!MESSAGE_PREFIX
<1> QED BY <1>1, <1>2, <1>3

----------------------------------------------------------------------------
(* The composition implements its parts *)

(* `new` takes a Witness and everything else of DeviceBinding leaves the   *)
(* variables of Attestation alone.                                         *)
LEMMA StepOfAttestation == [Next]_vars => [P!Next]_P!vars
<1> SUFFICES ASSUME [Next]_vars PROVE [P!Next]_P!vars
  OBVIOUS
<1>1. CASE D!BindingNext /\ UNCHANGED attestVars
  <2>1. ASSUME NEW n \in DOMAIN witnesses, NEW pk \in Keys, NEW scheme \in Q!Schemes,
               NEW o \in Accounts, Q!new(n, pk, scheme, o)
        PROVE  P!consume(n)
    BY <1>1, <2>1 DEF Q!new, Q!Without, P!consume, attestVars
  <2>2. ASSUME UNCHANGED <<now, witnesses, minted>> PROVE UNCHANGED P!vars
    BY <1>1, <2>2 DEF attestVars, P!vars
  <2>3. Q!BindingNext
    BY <1>1, SameBinding
  <2> QED BY <2>1, <2>2, <2>3
      DEF Q!BindingNext, Q!transfer_to, Q!destroy, Q!approve, Q!verify_action, P!Next
<1>2. CASE UNCHANGED vars
  BY <1>2 DEF vars, attestVars, P!vars
<1> QED BY <1>1, <1>2, SameAttestation DEF Next, P!Next

(* So it keeps every property of Attestation.                              *)
THEOREM AttestationComposed == Spec => P!Spec
<1>1. Init => P!Init
  BY SameAttestation DEF Init
<1> QED BY <1>1, StepOfAttestation, PTL DEF Spec, P!Spec

(* A Witness that a `verify` returns is one DeviceBinding expects.         *)
LEMMA MintIsSupply ==
  ASSUME P!TypeOK, NEW doc \in docs, NEW f \in P!Arguments,
         \/ Len(f) = 3 /\ P!verify_apple_attestation(doc, f[1], f[2], f[3])
         \/ Len(f) = 2 /\ P!verify_apple_assertion(doc, f[1], f[2])
         \/ Len(f) = 3 /\ P!verify_android_attestation(doc, f[1], f[2], f[3]),
         UNCHANGED bindingVars
  PROVE  \E w \in Mintable : Q!supply(w)
<1>1. PICK s, detail :
        /\ s \in A!Sources
        /\ Len(f) = A!SourceArity(s)
        /\ detail = IF s = "AppleAssertion" THEN A!Sha256(f) ELSE f[3]
        /\ P!NewWitness(s, f[1], f[2], doc.timestamp, detail)
  <2>1. ASSUME Len(f) = 2, P!verify_apple_assertion(doc, f[1], f[2])
        PROVE  P!NewWitness("AppleAssertion", f[1], f[2], doc.timestamp, A!Sha256(f))
    <3>1. f \in Seq(Bytes)
      BY PartsAssumptions DEF P!Arguments
    <3>2. f = <<f[1], f[2]>>
      BY <2>1, <3>1
    <3>3. doc.user_data = {A!Sha256(f)}
      BY <2>1, <3>2 DEF P!verify_apple_assertion, P!Accepts, P!AssertionPayload,
                        P!Sha256, A!Sha256
    <3>4. (CHOOSE u \in doc.user_data : TRUE) = A!Sha256(f)
      BY <3>3
    <3> QED BY <2>1, <3>4 DEF P!verify_apple_assertion
  <2> QED BY <2>1
      DEF A!Sources, A!SourceArity, P!verify_apple_attestation, P!verify_android_attestation
<1> DEFINE w == [source |-> s, attested_value |-> f[1], challenge |-> f[2],
                 timestamp_ms |-> doc.timestamp, detail_hash |-> detail]
<1>2. w \in Mintable
  <2>1. doc.timestamp \in 0..U64Max /\ f \in A!Arguments
    BY SameAttestation DEF P!TypeOK
  <2> QED BY <1>1, <2>1 DEF Mintable
<1>3. minted + 1 \notin DOMAIN witnesses
  BY PartsAssumptions DEF P!TypeOK
<1>4. /\ minted < MaxWitnesses /\ minted' = minted + 1 /\ now' = now
      /\ witnesses' = Q!With(witnesses, minted + 1, w)
  <2> HIDE DEF w
  <2>1. /\ minted < MaxWitnesses /\ minted' = minted + 1 /\ now' = now
        /\ witnesses' = [n \in DOMAIN witnesses \cup {minted + 1} |->
                           IF n \in DOMAIN witnesses THEN witnesses[n] ELSE w]
    BY <1>1 DEF P!NewWitness, w
  <2> QED BY <1>3, <2>1 DEF Q!With
<1> QED BY <1>2, <1>4 DEF Q!supply, bindingVars

(* Steps of Attestation other than minting and consumption leave the       *)
(* variables of DeviceBinding alone.                                       *)
LEMMA StepOfBinding == P!TypeOK /\ [Next]_vars => [Q!Next]_Q!vars
<1> SUFFICES ASSUME P!TypeOK, [Next]_vars PROVE [Q!Next]_Q!vars
  OBVIOUS
<1>1. CASE A!AttestNext /\ UNCHANGED bindingVars
  <2>1. ASSUME UNCHANGED <<now, witnesses, minted>> PROVE UNCHANGED Q!vars
    BY <1>1, <2>1 DEF bindingVars, Q!vars
  <2>2. P!AttestNext
    BY <1>1, SameAttestation
  <2>3. ASSUME \E doc \in docs, f \in P!Arguments :
                 \/ Len(f) = 3 /\ P!verify_apple_attestation(doc, f[1], f[2], f[3])
                 \/ Len(f) = 2 /\ P!verify_apple_assertion(doc, f[1], f[2])
                 \/ Len(f) = 3 /\ P!verify_android_attestation(doc, f[1], f[2], f[3])
        PROVE  Q!Next
    BY <1>1, <2>3, MintIsSupply DEF Q!Next
  <2> QED BY <2>1, <2>2, <2>3
      DEF P!AttestNext, P!update_pcrs, P!attest, P!attestation_doc, P!other_document
<1>2. CASE (\E n \in DOMAIN witnesses : A!consume(n)) /\ UNCHANGED bindingVars
  BY <1>2, SameAttestation DEF P!consume, Q!Next, Q!drop, Q!Without, bindingVars
<1>3. CASE A!Tick /\ UNCHANGED bindingVars
  BY <1>3, SameAttestation DEF P!Tick, Q!Next, Q!Tick, bindingVars
<1>4. CASE UNCHANGED vars
  BY <1>4 DEF vars, bindingVars, Q!vars
<1> QED BY <1>1, <1>2, <1>3, <1>4, SameBinding DEF Next, Q!Next

(* So it keeps every property of DeviceBinding.                            *)
THEOREM BindingComposed == Spec => Q!Spec
<1>1. Init => Q!Init
  BY SameBinding DEF Init
<1>2. Spec => []P!TypeOK
  BY AttestationComposed, PartsAssumptions, P!TypeCorrect, PTL
<1> QED BY <1>1, <1>2, StepOfBinding, PTL DEF Spec, Q!Spec

----------------------------------------------------------------------------
(* Provenance of a credential *)

(* No Witness is dated later than the clock allows: it was not when it was *)
(* minted, and the clock goes forward.                                     *)
WitnessDated ==
  \A n \in DOMAIN witnesses : witnesses[n].timestamp_ms - MAX_CLOCK_SKEW_MS <= now

(* The two histories and the clock only grow, and a Witness does not       *)
(* change while it exists.                                                 *)
LEMMA HistoryGrows ==
  ASSUME P!TypeOK, [P!Next]_P!vars
  PROVE  /\ verified \subseteq verified' /\ pinned \subseteq pinned' /\ now <= now'
         /\ \A n \in DOMAIN witnesses \cap DOMAIN witnesses' : witnesses'[n] = witnesses[n]
<1>1. now \in Nat
  BY DEF P!TypeOK
<1>2. CASE P!AttestNext
  <2>1. ASSUME UNCHANGED <<now, witnesses>>, verified \subseteq verified', pinned \subseteq pinned'
        PROVE  /\ verified \subseteq verified' /\ pinned \subseteq pinned' /\ now <= now'
               /\ \A n \in DOMAIN witnesses \cap DOMAIN witnesses' : witnesses'[n] = witnesses[n]
    BY <1>1, <2>1
  <2>2. ASSUME NEW s, NEW v, NEW c, NEW t, NEW d, P!NewWitness(s, v, c, t, d)
        PROVE  /\ verified \subseteq verified' /\ pinned \subseteq pinned' /\ now <= now'
               /\ \A n \in DOMAIN witnesses \cap DOMAIN witnesses' : witnesses'[n] = witnesses[n]
    BY <1>1, <2>2 DEF P!NewWitness
  <2>3. ASSUME NEW doc \in docs, NEW f \in P!Arguments,
               \/ P!verify_apple_attestation(doc, f[1], f[2], f[3])
               \/ P!verify_apple_assertion(doc, f[1], f[2])
               \/ P!verify_android_attestation(doc, f[1], f[2], f[3])
        PROVE  \E s, v, c, t, d : P!NewWitness(s, v, c, t, d)
    BY <2>3 DEF P!verify_apple_attestation, P!verify_apple_assertion,
                P!verify_android_attestation
  <2>4. CASE \E doc \in docs, f \in P!Arguments :
               \/ P!verify_apple_attestation(doc, f[1], f[2], f[3])
               \/ P!verify_apple_assertion(doc, f[1], f[2])
               \/ P!verify_android_attestation(doc, f[1], f[2], f[3])
    BY <2>2, <2>3, <2>4
  <2> QED BY <1>2, <2>1, <2>4
      DEF P!AttestNext, P!update_pcrs, P!attest, P!attestation_doc, P!other_document
<1>3. CASE \E n \in DOMAIN witnesses : P!consume(n)
  BY <1>1, <1>3 DEF P!consume
<1>4. CASE P!Tick
  BY <1>1, <1>4 DEF P!Tick
<1>5. CASE UNCHANGED P!vars
  BY <1>1, <1>5 DEF P!vars
<1> QED BY <1>2, <1>3, <1>4, <1>5 DEF P!Next

LEMMA WitnessesStayDated ==
  ASSUME P!TypeOK, P!TypeOK', WitnessDated, [P!Next]_P!vars, [P!MintStep]_P!vars
  PROVE  WitnessDated'
<1> SUFFICES ASSUME NEW n \in DOMAIN witnesses'
             PROVE  witnesses'[n].timestamp_ms - MAX_CLOCK_SKEW_MS <= now'
  BY DEF WitnessDated
<1>1. /\ now \in Int /\ now' \in Int /\ now <= now' /\ MAX_CLOCK_SKEW_MS \in Int
      /\ witnesses'[n].timestamp_ms \in Int
  BY HistoryGrows, PartsAssumptions DEF P!TypeOK, P!WitnessRecord
<1>2. CASE n \in DOMAIN witnesses
  BY <1>1, <1>2, HistoryGrows DEF WitnessDated
<1>3. CASE n \notin DOMAIN witnesses
  BY <1>1, <1>3 DEF P!MintStep, P!vars
<1> QED BY <1>2, <1>3

(* A binding that is not issued in this step was there before, with the    *)
(* same key, source, time and enrolment.                                   *)
LEMMA BindingsKept ==
  ASSUME Q!TypeOK, [Q!Next]_Q!vars, NEW id \in DOMAIN bindings'
  PROVE  \/ /\ id \in DOMAIN bindings
            /\ bindings'[id].pk = bindings[id].pk
            /\ bindings'[id].source = bindings[id].source
            /\ bindings'[id].issued_at_ms = bindings[id].issued_at_ms
            /\ enrolment'[id] = enrolment[id]
         \/ \E n \in DOMAIN witnesses :
              /\ bindings'[id].pk = witnesses[n].attested_value
              /\ bindings'[id].source = witnesses[n].source
              /\ bindings'[id].issued_at_ms = now
              /\ enrolment'[id].witness = witnesses[n]
<1>1. ASSUME NEW n \in DOMAIN witnesses, NEW pk \in Keys, NEW scheme \in Q!Schemes,
             NEW o \in Accounts, Q!new(n, pk, scheme, o)
      PROVE  \/ /\ id \in DOMAIN bindings /\ bindings'[id] = bindings[id]
                /\ enrolment'[id] = enrolment[id]
             \/ /\ bindings'[id].pk = witnesses[n].attested_value
                /\ bindings'[id].source = witnesses[n].source
                /\ bindings'[id].issued_at_ms = now
                /\ enrolment'[id].witness = witnesses[n]
  <2> DEFINE b == [source |-> witnesses[n].source, scheme |-> scheme, pk |-> pk,
                   issued_at_ms |-> now, owner |-> o]
             e == [number |-> n, witness |-> witnesses[n]]
  <2>1. /\ bindings' = Q!With(bindings, created + 1, b)
        /\ enrolment' = Q!With(enrolment, created + 1, e)
        /\ b.pk = witnesses[n].attested_value /\ b.source = witnesses[n].source
        /\ b.issued_at_ms = now /\ e.witness = witnesses[n]
    BY <1>1 DEF Q!new
  <2>2. DOMAIN bindings \subseteq DOMAIN enrolment
    BY DEF Q!TypeOK
  <2> HIDE DEF b, e
  <2> QED BY <2>1, <2>2 DEF Q!With
<1>2. ASSUME NEW i \in DOMAIN bindings, NEW o \in Accounts, Q!transfer_to(i, o)
      PROVE  /\ id \in DOMAIN bindings
             /\ bindings'[id].pk = bindings[id].pk
             /\ bindings'[id].source = bindings[id].source
             /\ bindings'[id].issued_at_ms = bindings[id].issued_at_ms
             /\ enrolment'[id] = enrolment[id]
  <2>1. /\ DOMAIN bindings' = DOMAIN bindings /\ enrolment' = enrolment
        /\ bindings'[i] = [bindings[i] EXCEPT !.owner = o]
        /\ \A j \in DOMAIN bindings : j # i => bindings'[j] = bindings[j]
    BY <1>2 DEF Q!transfer_to
  <2>2. bindings[i] \in Q!BindingRecord
    BY DEF Q!TypeOK
  <2> QED BY <2>1, <2>2 DEF Q!BindingRecord
<1>3. ASSUME NEW i \in DOMAIN bindings, Q!destroy(i)
      PROVE  id \in DOMAIN bindings /\ bindings'[id] = bindings[id] /\ enrolment' = enrolment
  BY <1>3 DEF Q!destroy, Q!Without
<1>4. ASSUME UNCHANGED <<bindings, enrolment>>
      PROVE  id \in DOMAIN bindings /\ bindings'[id] = bindings[id] /\ enrolment' = enrolment
  BY <1>4
<1> QED BY <1>1, <1>2, <1>3, <1>4
    DEF Q!Next, Q!BindingNext, Q!approve, Q!verify_action, Q!supply, Q!drop, Q!Tick, Q!vars

(* What a build verified stays verified.                                   *)
LEMMA VerifiedStays ==
  ASSUME P!TypeOK, [P!Next]_P!vars, NEW m \in pinned, NEW w, P!VerifiedBy(m, w)
  PROVE  m \in pinned' /\ \E v \in verified' :
                            /\ v.image = m
                            /\ v.fields = P!FieldsOf(w)
                            /\ v.timestamp = w.timestamp_ms
                            /\ P!EndpointArity(v.endpoint) = P!SourceArity(w.source)
  BY HistoryGrows DEF P!VerifiedBy

LEMMA ProvenanceKept ==
  ASSUME P!IInv, Q!TypeOK, WitnessDated, BindingProvenance,
         [P!Next]_P!vars, [Q!Next]_Q!vars
  PROVE  BindingProvenance'
<1> SUFFICES ASSUME NEW id \in DOMAIN bindings'
             PROVE  /\ bindings'[id].pk = enrolment'[id].witness.attested_value
                    /\ bindings'[id].source = enrolment'[id].witness.source
                    /\ enrolment'[id].witness.timestamp_ms - MAX_CLOCK_SKEW_MS
                         <= bindings'[id].issued_at_ms
                    /\ \E m \in pinned' : A!VerifiedBy(m, enrolment[id].witness)'
  BY DEF BindingProvenance
<1> DEFINE w == enrolment'[id].witness
<1>1. /\ bindings'[id].pk = w.attested_value
      /\ bindings'[id].source = w.source
      /\ w.timestamp_ms - MAX_CLOCK_SKEW_MS <= bindings'[id].issued_at_ms
      /\ \E m \in pinned : P!VerifiedBy(m, w)
  <2>1. CASE /\ id \in DOMAIN bindings
             /\ bindings'[id].pk = bindings[id].pk
             /\ bindings'[id].source = bindings[id].source
             /\ bindings'[id].issued_at_ms = bindings[id].issued_at_ms
             /\ enrolment'[id] = enrolment[id]
    BY <2>1, SameAttestation DEF BindingProvenance
  <2>2. ASSUME NEW n \in DOMAIN witnesses,
               bindings'[id].pk = witnesses[n].attested_value,
               bindings'[id].source = witnesses[n].source,
               bindings'[id].issued_at_ms = now,
               w = witnesses[n]
        PROVE  /\ bindings'[id].pk = w.attested_value
               /\ bindings'[id].source = w.source
               /\ w.timestamp_ms - MAX_CLOCK_SKEW_MS <= bindings'[id].issued_at_ms
               /\ \E m \in pinned : P!VerifiedBy(m, w)
    BY <2>2 DEF WitnessDated, P!IInv, P!WitnessProvenance
  <2> QED BY <2>1, <2>2, BindingsKept
<1>2. P!TypeOK
  BY DEF P!IInv
<1> HIDE DEF w
<1>3. \E m \in pinned' : \E v \in verified' :
         /\ v.image = m
         /\ v.fields = P!FieldsOf(w)
         /\ v.timestamp = w.timestamp_ms
         /\ P!EndpointArity(v.endpoint) = P!SourceArity(w.source)
  BY <1>1, <1>2, VerifiedStays
<1> QED BY <1>1, <1>3 DEF w, A!VerifiedBy, A!FieldsOf, P!FieldsOf, A!EndpointArity,
                         P!EndpointArity, A!SourceArity, P!SourceArity

(* Every live binding carries the key and Source of a Witness that a build *)
(* the policy has held verified, field for field, however the policy, the  *)
(* Witness and the binding moved meanwhile.                                *)
THEOREM CredentialProvenance == Spec => []BindingProvenance
<1>1. Init => WitnessDated /\ BindingProvenance
  BY DEF Init, A!Init, D!Init, WitnessDated, BindingProvenance
<1>2. /\ P!IInv /\ P!TypeOK /\ P!TypeOK' /\ Q!TypeOK /\ WitnessDated /\ BindingProvenance
      /\ [P!Next]_P!vars /\ [P!MintStep]_P!vars /\ [Q!Next]_Q!vars
      => WitnessDated' /\ BindingProvenance'
  BY WitnessesStayDated, ProvenanceKept
<1>3. Spec => /\ []P!IInv /\ []P!TypeOK /\ []Q!TypeOK
              /\ [][P!MintStep]_P!vars
              /\ [][P!Next]_P!vars /\ [][Q!Next]_Q!vars
  BY AttestationComposed, BindingComposed, PartsAssumptions, P!InvariantHolds, P!TypeCorrect,
     P!MintingWindow, Q!TypeCorrect, PTL DEF P!MintedFromPinned, P!Spec, Q!Spec
<1> QED BY <1>1, <1>2, <1>3, PTL DEF Spec

----------------------------------------------------------------------------
(* The refinement of Credential *)

(* The image of the state under the refinement mapping.                    *)
Checked == {<<How(A!EndpointArity(v.endpoint)), v.fields[1]>> : v \in verified}
CredentialOf(b) == <<How(A!SourceArity(b.source)), b.pk>>
Credentials == [id \in DOMAIN bindings |-> CredentialOf(bindings[id])]
Approved == {<<a.pk, a.id, <<a.domain, a.action_hash, a.expiry_ms>>>> : a \in approvals}
Allowed == {<<a.id, <<a.domain, a.action_hash, a.expiry_ms>>>> : a \in authorized}

(* An accepted request: the key that was verified becomes a checked one.   *)
LEMMA VerificationIsCheck ==
  ASSUME NEW image, NEW e \in Evidence, NEW t, P!attest(image, e, t),
         UNCHANGED <<bindings, created, approvals, authorized>>
  PROVE  Abstract!Next
<1> DEFINE key == e.fields[1]
           how == How(A!EndpointArity(e.endpoint))
           v == [image |-> P!Measurement(image), endpoint |-> e.endpoint,
                 fields |-> e.fields, timestamp |-> t]
<1>1. e.fields \in A!Arguments /\ Len(e.fields) = A!EndpointArity(e.endpoint)
  BY SystemConstants DEF A!Arguments
<1>2. key \in Keys
  <2>1. PICK s \in A!Sources : Len(e.fields) = A!SourceArity(s)
    <3>1. A!EndpointArity(e.endpoint) \in {A!SourceArity("AppleAssertion"),
                                           A!SourceArity("AppleAppAttest")}
      BY DEF A!EndpointArity, A!SourceArity
    <3> QED BY <1>1, <3>1 DEF A!Sources
  <2>2. 0 \in 0..U64Max
    BY SystemConstants
  <2> DEFINE w == [source |-> s, attested_value |-> e.fields[1], challenge |-> e.fields[2],
                   timestamp_ms |-> 0,
                   detail_hash |-> IF s = "AppleAssertion" THEN A!Sha256(e.fields) ELSE e.fields[3]]
  <2>3. w \in Mintable
    BY <1>1, <2>1, <2>2 DEF Mintable
  <2>4. w.attested_value \in Keys
    <3> HIDE DEF w
    <3> QED BY <2>3, PartsAssumptions
  <2> QED BY <2>4
<1>3. Checked' = Checked \cup {<<how, key>>}
  <2>1. verified' = verified \cup {v}
    BY DEF P!attest
  <2>2. v.endpoint = e.endpoint /\ v.fields = e.fields
    OBVIOUS
  <2> HIDE DEF v
  <2> QED BY <2>1, <2>2 DEF Checked, How, A!EndpointArity
<1>4. how \in {"attested", "asserted"}
  BY DEF How
<1>5. Abstract!Check(how, key)
  <2> HIDE DEF how, key
  <2> QED BY <1>3 DEF Checked, Abstract!Check
<1> HIDE DEF how, key
<1> QED BY <1>2, <1>4, <1>5 DEF Abstract!Next

(* device_binding::new issues a credential for the attested key, which a   *)
(* build verified under evidence of the Witness's kind.                    *)
LEMMA NewIsIssue ==
  ASSUME P!IInv, NEW n \in DOMAIN witnesses, NEW pk \in Keys, NEW scheme, NEW o,
         Q!new(n, pk, scheme, o), UNCHANGED verified
  PROVE  Abstract!Next
<1> DEFINE how == How(A!SourceArity(witnesses[n].source))
           b == [source |-> witnesses[n].source, scheme |-> scheme, pk |-> pk,
                 issued_at_ms |-> now, owner |-> o]
<1>1. /\ created' = created + 1 /\ pk = witnesses[n].attested_value
      /\ bindings' = Q!With(bindings, created + 1, b)
      /\ UNCHANGED <<approvals, authorized>>
  BY DEF Q!new
<1>2. CredentialOf(b) = <<how, pk>>
  BY DEF CredentialOf
<1> HIDE DEF b
<1>3. Credentials' = [i \in DOMAIN Credentials \cup {created'} |->
                        IF i = created' THEN <<how, pk>> ELSE Credentials[i]]
  BY <1>1, <1>2 DEF Credentials, Q!With, CredentialOf, How, A!SourceArity
<1>4. <<how, pk>> \in Checked
  <2>1. PICK v \in verified :
          /\ v.fields = P!FieldsOf(witnesses[n])
          /\ P!EndpointArity(v.endpoint) = P!SourceArity(witnesses[n].source)
    BY DEF P!IInv, P!WitnessProvenance, P!VerifiedBy
  <2>2. v.fields[1] = pk
    BY <1>1, <2>1 DEF P!FieldsOf
  <2>3. How(A!EndpointArity(v.endpoint)) = how
    BY <2>1, SameAttestation
  <2> QED BY <2>2, <2>3 DEF Checked
<1>5. how \in {"attested", "asserted"}
  BY DEF How
<1> HIDE DEF how
<1>6. Abstract!Issue(how, pk)
  BY <1>1, <1>3, <1>4 DEF Checked, Credentials, CredentialOf, Abstract!Issue
<1> QED BY <1>5, <1>6 DEF Abstract!Next

(* transfer_to hands over the object and changes no credential.            *)
LEMMA TransferIsStutter ==
  ASSUME Q!TypeOK, NEW id \in DOMAIN bindings, NEW o, Q!transfer_to(id, o), UNCHANGED verified
  PROVE  UNCHANGED Abstract!vars
<1>1. /\ DOMAIN bindings' = DOMAIN bindings
      /\ bindings'[id] = [bindings[id] EXCEPT !.owner = o]
      /\ \A j \in DOMAIN bindings : j # id => bindings'[j] = bindings[j]
      /\ UNCHANGED <<created, approvals, authorized>>
  BY DEF Q!transfer_to
<1>2. bindings[id] \in Q!BindingRecord
  BY DEF Q!TypeOK
<1>3. bindings'[id].pk = bindings[id].pk /\ bindings'[id].source = bindings[id].source
  BY <1>1, <1>2 DEF Q!BindingRecord
<1>4. \A j \in DOMAIN bindings : CredentialOf(bindings'[j]) = CredentialOf(bindings[j])
  BY <1>1, <1>3 DEF CredentialOf
<1>5. Credentials' = Credentials
  BY <1>1, <1>4 DEF Credentials, CredentialOf, How, A!SourceArity
<1> QED BY <1>1, <1>5 DEF Credentials, CredentialOf, Abstract!vars

(* verify_action allows what an approval of the credential's key covers.   *)
LEMMA VerificationIsAllow ==
  ASSUME Q!IInv, NEW id \in DOMAIN bindings,
         NEW d \in Domains, NEW h \in ActionHashes, NEW x \in Expiries,
         NEW receipt \in Q!Verified(bindings[id].scheme),
         Q!verify_action(id, receipt, d, h, x), UNCHANGED verified
  PROVE  Abstract!Next
<1> DEFINE a == [id |-> id, domain |-> d, action_hash |-> h, expiry_ms |-> x, at |-> now]
           action == <<d, h, x>>
<1>1. authorized' = {a} /\ UNCHANGED <<bindings, created, approvals, enrolment>>
  BY DEF Q!verify_action
<1>2. Q!ActionAuthorized'
  BY Q!VerifyAuthorizes, PartsAssumptions
<1>3. bindings[id].pk = enrolment[id].witness.attested_value
  BY DEF Q!IInv, Q!KeysEnrolled
<1>4. PICK p \in approvals : p.pk = bindings[id].pk /\ Q!Covers(p, a)
  <2>1. \E p \in approvals : /\ p.pk = enrolment[a.id].witness.attested_value
                            /\ Q!Covers(p, a)
    BY <1>1, <1>2 DEF Q!ActionAuthorized, Q!Covers, Q!Ambiguous, Q!canonical_message
  <2> QED BY <1>3, <2>1
<1> DEFINE approved == <<p.domain, p.action_hash, p.expiry_ms>>
<1>5. <<p.pk, p.id, approved>> \in Approved
  BY DEF Approved
<1>6. Allowed' = {<<id, action>>}
  <2>1. a.id = id /\ a.domain = d /\ a.action_hash = h /\ a.expiry_ms = x
    OBVIOUS
  <2> HIDE DEF a
  <2> QED BY <1>1, <2>1 DEF Allowed
<1>7. Credentials[id][2] = bindings[id].pk
  BY DEF Credentials, CredentialOf
<1>8. action \in Domains \X ActionHashes \X Expiries
  OBVIOUS
<1>9. Means(<<p.id, approved>>, <<id, action>>)
  <2>1. D!Covers(p, a)
    BY <1>4, SameBinding
  <2>2. LET s == Statement(<<p.id, approved>>)
            t == Statement(<<id, action>>)
        IN  /\ s.id = p.id /\ s.domain = p.domain /\ s.action_hash = p.action_hash
            /\ s.expiry_ms = p.expiry_ms
            /\ t.id = a.id /\ t.domain = a.domain /\ t.action_hash = a.action_hash
            /\ t.expiry_ms = a.expiry_ms
    BY DEF Statement
  <2> HIDE DEF a, action, approved
  <2> QED BY <2>1, <2>2 DEF Means, D!Covers
<1> HIDE DEF action, approved
<1>10. Abstract!Allow(id, action)
  <2>1. \E q \in Approved : q[1] = Credentials[id][2] /\ Means(<<q[2], q[3]>>, <<id, action>>)
    <3> DEFINE q == <<p.pk, p.id, approved>>
    <3>1. q[1] = p.pk /\ q[2] = p.id /\ q[3] = approved
      OBVIOUS
    <3>2. q \in Approved
      BY <1>5
    <3> HIDE DEF q
    <3> QED BY <1>4, <1>7, <1>9, <3>1, <3>2
  <2> QED BY <1>1, <1>6, <2>1
      DEF Approved, Allowed, Credentials, CredentialOf, Abstract!Allow
<1> QED BY <1>8, <1>10 DEF Abstract!Next

(* A signature of a device approves for its key.                           *)
LEMMA SignatureIsApproval ==
  ASSUME NEW pk \in Keys, NEW id \in 1..created, NEW d \in Domains, NEW h \in ActionHashes,
         NEW x \in Expiries, Q!approve(pk, id, d, h, x), UNCHANGED verified
  PROVE  Abstract!Next
<1> DEFINE a == [pk |-> pk, id |-> id, domain |-> d, action_hash |-> h, expiry_ms |-> x]
           action == <<d, h, x>>
<1>1. approvals' = approvals \cup {a} /\ UNCHANGED <<bindings, created, authorized>>
  BY DEF Q!approve
<1>2. /\ a.pk = pk /\ a.id = id
      /\ <<a.domain, a.action_hash, a.expiry_ms>> = action
  OBVIOUS
<1>3. action \in Domains \X ActionHashes \X Expiries
  OBVIOUS
<1> HIDE DEF a, action
<1>4. Approved' = Approved \cup {<<pk, id, action>>}
  BY <1>1, <1>2 DEF Approved
<1>5. Abstract!Approve(pk, id, action)
  BY <1>1, <1>4 DEF Approved, Abstract!Approve
<1> QED BY <1>3, <1>5 DEF Abstract!Next

(* destroy revokes.                                                        *)
LEMMA DestructionIsRevocation ==
  ASSUME NEW id \in DOMAIN bindings, Q!destroy(id), UNCHANGED verified
  PROVE  Abstract!Next
<1>1. /\ bindings' = Q!Without(bindings, id)
      /\ UNCHANGED <<created, approvals, authorized>>
  BY DEF Q!destroy
<1>2. /\ DOMAIN Credentials = DOMAIN bindings
      /\ Credentials' = [m \in DOMAIN Credentials \ {id} |-> Credentials[m]]
  BY <1>1 DEF Credentials, Q!Without, CredentialOf, How, A!SourceArity
<1>3. Abstract!Revoke(id)
  BY <1>1, <1>2 DEF Credentials, CredentialOf, Abstract!Revoke
<1> QED BY <1>2, <1>3 DEF Abstract!Next, Credentials, CredentialOf

LEMMA StepRefines ==
  ASSUME P!IInv, Q!IInv, [Next]_vars
  PROVE  [Abstract!Next]_Abstract!vars
<1>0. ASSUME UNCHANGED <<verified, bindings, created, approvals, authorized>>
      PROVE  UNCHANGED Abstract!vars
  BY <1>0 DEF Abstract!vars
<1>1. CASE A!AttestNext /\ UNCHANGED bindingVars
  <2>1. UNCHANGED <<bindings, created, approvals, authorized>> /\ P!AttestNext
    BY <1>1, SameAttestation DEF bindingVars
  <2> QED BY <1>0, <2>1, VerificationIsCheck
      DEF P!AttestNext, P!update_pcrs, P!attestation_doc, P!other_document, P!NewWitness,
          P!verify_apple_attestation, P!verify_apple_assertion, P!verify_android_attestation
<1>2. CASE (\E n \in DOMAIN witnesses : A!consume(n)) /\ UNCHANGED bindingVars
  BY <1>0, <1>2 DEF A!consume, bindingVars
<1>3. CASE A!Tick /\ UNCHANGED bindingVars
  BY <1>0, <1>3 DEF A!Tick, bindingVars
<1>4. CASE D!BindingNext /\ UNCHANGED attestVars
  <2>1. UNCHANGED verified /\ Q!BindingNext /\ Q!TypeOK
    BY <1>4, SameBinding DEF attestVars, Q!IInv
  <2> QED BY <2>1, NewIsIssue, TransferIsStutter, DestructionIsRevocation, SignatureIsApproval,
             VerificationIsAllow DEF Q!BindingNext
<1>5. CASE UNCHANGED vars
  BY <1>0, <1>5 DEF vars, attestVars, bindingVars
<1> QED BY <1>1, <1>2, <1>3, <1>4, <1>5 DEF Next

(* Forgetting enclaves, documents, clocks and messages, the system issues  *)
(* credentials only for checked keys and allows only what an approval of   *)
(* the key covers, whatever domains are in use: the approved action on the *)
(* approved binding, or the same bytes under an ambiguous domain.          *)
THEOREM CredentialRefined == Spec => ImplementsCredential
<1>1. Init => Abstract!Init
  <2> SUFFICES ASSUME Init PROVE Abstract!Init
    OBVIOUS
  <2>1. /\ verified = {} /\ bindings = <<>> /\ created = 0 /\ approvals = {} /\ authorized = {}
    BY DEF Init, A!Init, D!Init
  <2>2. Credentials = <<>>
    BY <2>1 DEF Credentials
  <2> QED BY <2>1, <2>2 DEF Abstract!Init, Credentials, CredentialOf
<1>2. P!IInv /\ Q!IInv /\ [Next]_vars => [Abstract!Next]_Abstract!vars
  BY StepRefines
<1>3. Spec => []P!IInv /\ []Q!IInv
  BY AttestationComposed, BindingComposed, PartsAssumptions, P!InvariantHolds,
     Q!InvariantHolds, PTL
<1> QED BY <1>1, <1>2, <1>3, PTL DEF Spec, ImplementsCredential, Abstract!Spec
=============================================================================
