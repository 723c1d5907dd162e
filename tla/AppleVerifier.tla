--------------------------- MODULE AppleVerifier ---------------------------
(***************************************************************************)
(* attest_apple: verify_app_attest and verify_assertion, in the world they *)
(* judge.  Devices make App Attest keys, have them certified by Apple over *)
(* a challenge, and sign client data with them.  A caller may combine any  *)
(* authenticator data, certificates, key and parameters in a request.  The *)
(* wall clock of the enclave is set by its host, to any value.             *)
(*                                                                         *)
(* A call that returns an error changes nothing and is not a step.         *)
(***************************************************************************)
EXTENDS Integers, Sequences, FiniteSets

CONSTANTS
  DeviceKeys,    \* App Attest keys; each belongs to one app and environment
  AppOf,         \* DeviceKeys -> Apps
  AaguidOf,      \* DeviceKeys -> Aaguids
  OtherKeys,     \* key pairs outside App Attest, which sign anything
  Apps,          \* "<teamID>.<bundleID>"
  Challenges,    \* challenges and client data
  Root,          \* APPLE_APP_ATTEST_ROOT_DER
  CaCerts,       \* other certificates a caller can put in x5c
  IssuerKey,     \* the key of Apple App Attestation CA 1
  LeafValidity,  \* [not_before, not_after] of the leaf certificates
  MaxClock,      \* bound: last value of the clock
  MaxSignCount,  \* bound: u32 counter of a key
  MaxLeaves,     \* bound: leaf certificates issued
  MaxSigned,     \* bound: signatures made
  MaxCalls       \* bound: accepted calls remembered

VARIABLES
  clock,       \* SystemTime::now() in the enclave
  signCount,   \* the device's counter of each key
  leaves,      \* leaf certificates Apple has issued
  signatures,  \* [key, digest] made by devices and by other keys
  attested,    \* history: [key, challenge] certified on a device
  asserted,    \* history: [key, client_data] signed on a device
  outcomes     \* the arguments of the calls that returned Ok

appleVars == <<clock, signCount, leaves, signatures, attested, asserted, outcomes>>

Aaguids == {"appattest", "appattestdevelop"}

(* SHA-256, collision free; of two parts when the first is followed by a   *)
(* digest of fixed length.                                                 *)
Sha256(x) == <<"sha256", x>>
Digest(auth, data) == Sha256(<<auth, Sha256(data)>>)

(* authData.  Its key is a COSE_Key; `at` is the attested-credential-data  *)
(* flag, without which there is no aaguid and no key.                      *)
AuthData(app, at, count, aaguid, key) ==
  [rp_id_hash |-> Sha256(app), at |-> at, sign_count |-> count,
   aaguid |-> aaguid, key |-> key]

AttestedAuthData ==
  {AuthData(app, TRUE, n, g, k) :
     app \in Apps, n \in 0..MaxSignCount, g \in Aaguids, k \in DeviceKeys \cup OtherKeys}
ShortAuthData ==
  {AuthData(app, FALSE, n, "none", "none") : app \in Apps, n \in 0..MaxSignCount}

(* Apple's two CA keys certify nothing but each other and device keys.     *)
ASSUME AppleConstants ==
  /\ AppOf \in [DeviceKeys -> Apps]
  /\ AaguidOf \in [DeviceKeys -> Aaguids]
  /\ DeviceKeys \cap OtherKeys = {}
  /\ \A c \in CaCerts :
       c.signer \in {Root.spki, IssuerKey} => c.spki \in {Root.spki, IssuerKey} /\ c.nonce = {}
  /\ {MaxClock, MaxSignCount, MaxLeaves, MaxSigned, MaxCalls} \subseteq Nat

----------------------------------------------------------------------------
(* roots.rs: a certificate is                                              *)
(*   [spki, signer, sig_alg, not_before, not_after, ca, nonce]             *)
(* with `signer` the key that made its signature; a key is [name, alg].    *)
(* check_validity and verify_signature of this crate.                      *)

apple_check_validity(cert) == cert.not_before <= clock /\ clock <= cert.not_after

apple_verify_signature(cert, issuer) ==
  /\ <<issuer.spki.alg, cert.sig_alg>> \in
       {<<"p256", "ecdsa-sha256">>, <<"p384", "ecdsa-sha384">>, <<"p384", "ecdsa-sha256">>}
  /\ cert.signer = issuer.spki

validate_x5c_chain(x5c) ==
  /\ x5c # <<>>
  /\ \A i \in DOMAIN x5c : apple_check_validity(x5c[i])
  /\ \A i \in 2..Len(x5c) : x5c[i].ca
  /\ \A i \in 1..Len(x5c) - 1 : apple_verify_signature(x5c[i], x5c[i + 1])
  /\ apple_check_validity(Root) /\ Root.ca
  /\ apple_verify_signature(x5c[Len(x5c)], Root)

----------------------------------------------------------------------------
(* lib.rs and assertion.rs *)

(* Mutant: the nonce of the certificate is compared with the hash of the   *)
(* challenge alone, the authData left out.                                 *)
NonceMatches_ChallengeOnly(leaf, auth, challenge) ==
  \E n \in leaf.nonce : n[2][2] = Sha256(challenge)

(* extract_nonce_extension and the comparison with the computed nonce.     *)
NonceMatches(leaf, auth, challenge) == leaf.nonce = {Digest(auth, challenge)}

(* The attestation object is (auth, x5c) with fmt "apple-appattest".       *)
AcceptsAttest(auth, x5c, key_id, challenge, app_id, production) ==
  /\ auth.at
  /\ validate_x5c_chain(x5c)
  /\ NonceMatches(x5c[1], auth, challenge)
  /\ key_id = Sha256(auth.key)
  /\ auth.aaguid = IF production THEN "appattest" ELSE "appattestdevelop"
  /\ auth.rp_id_hash = Sha256(app_id)
  /\ auth.sign_count = 0

(* Mutant: the assertion's rpIdHash is not looked at.                      *)
AcceptsAssertion_AnyApp(auth, key, client_data, app_id) ==
  [key |-> key, digest |-> Digest(auth, client_data)] \in signatures

(* The assertion object is (signature, authenticatorData), the signature   *)
(* one that `key` made.  The counter is not looked at.                     *)
AcceptsAssertion(auth, key, client_data, app_id) ==
  /\ auth.rp_id_hash = Sha256(app_id)
  /\ [key |-> key, digest |-> Digest(auth, client_data)] \in signatures

AppleInit ==
  /\ clock \in 0..MaxClock
  /\ signCount = [k \in DeviceKeys |-> 0]
  /\ leaves = {}
  /\ signatures = {}
  /\ attested = {}
  /\ asserted = {}
  /\ outcomes = {}

(* DCAppAttestService.attestKey: Apple certifies the device's key over the *)
(* authData and the challenge.                                             *)
attestKey(k, challenge) ==
  LET auth == AuthData(AppOf[k], TRUE, 0, AaguidOf[k], k) IN
  /\ Cardinality(leaves) < MaxLeaves
  /\ leaves' = leaves \cup
       {[spki |-> [name |-> k, alg |-> "p256"], signer |-> IssuerKey,
         sig_alg |-> "ecdsa-sha256", not_before |-> LeafValidity[1],
         not_after |-> LeafValidity[2], ca |-> FALSE, nonce |-> {Digest(auth, challenge)}]}
  /\ attested' = attested \cup {[key |-> k, challenge |-> challenge]}
  /\ UNCHANGED <<clock, signCount, signatures, asserted, outcomes>>

(* DCAppAttestService.generateAssertion                                    *)
generateAssertion(k, client_data) ==
  LET auth == AuthData(AppOf[k], FALSE, signCount[k] + 1, "none", "none") IN
  /\ signCount[k] < MaxSignCount
  /\ Cardinality(signatures) < MaxSigned
  /\ signCount' = [signCount EXCEPT ![k] = @ + 1]
  /\ signatures' = signatures \cup {[key |-> k, digest |-> Digest(auth, client_data)]}
  /\ asserted' = asserted \cup {[key |-> k, client_data |-> client_data]}
  /\ UNCHANGED <<clock, leaves, attested, outcomes>>

(* Somebody signs with a key of their own.                                 *)
otherSignature(k, auth, client_data) ==
  /\ Cardinality(signatures) < MaxSigned
  /\ signatures' = signatures \cup {[key |-> k, digest |-> Digest(auth, client_data)]}
  /\ UNCHANGED <<clock, signCount, leaves, attested, asserted, outcomes>>

X5cChains == {x \in UNION {[1..n -> leaves \cup CaCerts] : n \in 0..3} : validate_x5c_chain(x)}

verify_app_attest(auth, x5c, key_id, challenge, app_id, production) ==
  /\ AcceptsAttest(auth, x5c, key_id, challenge, app_id, production)
  /\ outcomes' = outcomes \cup
       {[source |-> "apple-app-attest", auth |-> auth, x5c |-> x5c, key |-> auth.key,
         key_id |-> key_id, challenge |-> challenge, app_id |-> app_id,
         production |-> production]}
  /\ UNCHANGED <<clock, signCount, leaves, signatures, attested, asserted>>

verify_assertion(auth, key, client_data, app_id) ==
  /\ AcceptsAssertion(auth, key, client_data, app_id)
  /\ outcomes' = outcomes \cup
       {[source |-> "apple-app-attest-assertion", auth |-> auth, key |-> key,
         challenge |-> client_data, app_id |-> app_id]}
  /\ UNCHANGED <<clock, signCount, leaves, signatures, attested, asserted>>

SetClock(t) ==
  /\ clock' = t
  /\ UNCHANGED <<signCount, leaves, signatures, attested, asserted, outcomes>>

AppleNext ==
  \/ \E k \in DeviceKeys, c \in Challenges : attestKey(k, c) \/ generateAssertion(k, c)
  \/ \E k \in OtherKeys, auth \in ShortAuthData, c \in Challenges : otherSignature(k, auth, c)
  \/ /\ Cardinality(outcomes) < MaxCalls
     /\ \E x5c \in X5cChains, auth \in AttestedAuthData, c \in Challenges :
          /\ NonceMatches(x5c[1], auth, c)
          /\ \E k \in DeviceKeys \cup OtherKeys, app \in Apps, production \in BOOLEAN :
               verify_app_attest(auth, x5c, Sha256(k), c, app, production)
  \/ /\ Cardinality(outcomes) < MaxCalls
     /\ \E auth \in ShortAuthData \cup AttestedAuthData, k \in DeviceKeys \cup OtherKeys,
           c \in Challenges, app \in Apps : verify_assertion(auth, k, c, app)
  \/ \E t \in 0..MaxClock : SetClock(t)

AppleSpec == AppleInit /\ [][AppleNext]_appleVars

----------------------------------------------------------------------------
(* Properties *)

Attestations == {o \in outcomes : o.source = "apple-app-attest"}
Assertions == {o \in outcomes : o.source = "apple-app-attest-assertion"}

(* An attestation is accepted only for a key that a device made, had       *)
(* certified over exactly this challenge, in this app and this environment:*)
(* whatever authData, certificates and parameters are combined, and        *)
(* whatever the host makes of the clock.                                   *)
AttestationGenuine ==
  \A o \in Attestations :
    /\ [key |-> o.key, challenge |-> o.challenge] \in attested
    /\ AppOf[o.key] = o.app_id
    /\ AaguidOf[o.key] = (IF o.production THEN "appattest" ELSE "appattestdevelop")

(* assertion.rs: the rpIdHash proves the assertion was produced by the     *)
(* same app the attestation belonged to.  For a key that was accepted in   *)
(* an attestation, an accepted assertion names the same app, and the       *)
(* device did sign this client data.                                       *)
AssertionFollowsAttestation ==
  \A a \in Attestations, b \in Assertions :
    a.key = b.key => /\ a.app_id = b.app_id
                     /\ [key |-> b.key, client_data |-> b.challenge] \in asserted
=============================================================================
