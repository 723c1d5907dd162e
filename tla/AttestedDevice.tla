--------------------------- MODULE AttestedDevice ---------------------------
(***************************************************************************)
(* The system on the chain: Attestation and DeviceBinding run in one       *)
(* world.  They share the clock and the Witness values, which `verify`     *)
(* returns and `new` takes by value.                                       *)
(***************************************************************************)
EXTENDS Integers, FiniteSets, Sequences

CONSTANTS
  Bytes, Images, Pinnable, Evidence, AnyFields, MAX_OUTCOME_AGE_MS,
  MAX_CLOCK_SKEW_MS, U64Max, Drift, MaxDocs, MaxWitnesses,
  Keys, KeyScheme, KeyForm, Accounts, Domains, ActionHashes, Expiries,
  IdBytes(_), MaxBindings, MaxApprovals

VARIABLES
  now, witnesses, minted,                               \* shared
  policy, docs, verified, pinned,                       \* Attestation
  bindings, created, approvals, enrolment, authorized   \* DeviceBinding

attestVars == <<policy, docs, verified, pinned>>
bindingVars == <<bindings, created, approvals, enrolment, authorized>>
vars == <<now, witnesses, minted, attestVars, bindingVars>>

A == INSTANCE Attestation

(* The witnesses the attest packages can return.                           *)
Mintable ==
  UNION {{[source |-> s, attested_value |-> f[1], challenge |-> f[2], timestamp_ms |-> t,
           detail_hash |-> IF s = "AppleAssertion" THEN A!Sha256(f) ELSE f[3]] :
             f \in {g \in A!Arguments : Len(g) = A!SourceArity(s)}, t \in 0..U64Max} :
          s \in A!Sources}

D == INSTANCE DeviceBinding WITH Attestations <- Mintable

(* The assumptions of both parts.                                          *)
ASSUME SystemConstants ==
  A!ConstantsAssumption /\ A!BoundsAssumption /\ D!BindingConstants /\ D!IdEncoding

Init == A!Init /\ D!Init

Next ==
  \/ A!AttestNext /\ UNCHANGED bindingVars
  \/ (\E n \in DOMAIN witnesses : A!consume(n)) /\ UNCHANGED bindingVars
  \/ A!Tick /\ UNCHANGED bindingVars
  \/ D!BindingNext /\ UNCHANGED attestVars

Spec == Init /\ [][Next]_vars

----------------------------------------------------------------------------
(* Properties *)

(* Provenance of a credential, end to end: every live binding carries the  *)
(* key and the Source of the Witness that enrolled it, and some build the  *)
(* policy has held verified what that Witness says (key, challenge and     *)
(* detail), no later than MAX_CLOCK_SKEW_MS after the binding was issued.  *)
(* The property survives the rotation of the policy, the expiry of the     *)
(* document, the time the Witness was kept, and every transfer.  A binding *)
(* with an assertion's Source rests on an assertion and one with an        *)
(* attestation's on an attestation; which of the two attestation endpoints *)
(* it came from the Source does not tell (see NotTransferable).            *)
BindingProvenance ==
  \A id \in DOMAIN bindings :
    LET w == enrolment[id].witness IN
    /\ bindings[id].pk = w.attested_value
    /\ bindings[id].source = w.source
    /\ w.timestamp_ms - MAX_CLOCK_SKEW_MS <= bindings[id].issued_at_ms
    /\ \E m \in pinned : A!VerifiedBy(m, w)

(* Forgetting enclaves, documents, clocks and messages, the composition    *)
(* behaves as Credential says.                                             *)
How(arity) == IF arity = 2 THEN "asserted" ELSE "attested"

(* An approved statement: an action, for a binding.                        *)
Statement(s) ==
  [id |-> s[1], domain |-> s[2][1], action_hash |-> s[2][2], expiry_ms |-> s[2][3]]

Means(s, t) == D!Covers(Statement(s), Statement(t))

Abstract == INSTANCE Credential WITH
  Actions <- Domains \X ActionHashes \X Expiries,
  Covers <- Means,
  checked <- {<<How(A!EndpointArity(v.endpoint)), v.fields[1]>> : v \in verified},
  credentials <- [id \in DOMAIN bindings |->
                    <<How(A!SourceArity(bindings[id].source)), bindings[id].pk>>],
  issued <- created,
  approvals <- {<<a.pk, a.id, <<a.domain, a.action_hash, a.expiry_ms>>>> : a \in approvals},
  allowed <- {<<a.id, <<a.domain, a.action_hash, a.expiry_ms>>>> : a \in authorized}

ImplementsCredential == Abstract!Spec
=============================================================================
