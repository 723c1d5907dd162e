------------------------ MODULE AppleVerifierProofs ------------------------
(***************************************************************************)
(* Proofs about AppleVerifier: for all devices, apps, other keys and other *)
(* certificates, and however many calls, an accepted attestation is of a   *)
(* key that a device had certified, and an accepted assertion of that key  *)
(* is the device's.  What is assumed is AppleConstants: a key belongs to   *)
(* one app and environment, nobody else has it, and Apple's two CA keys    *)
(* certify nothing else.  That SHA-256 is collision free is in the model.  *)
(*                                                                         *)
(* After them the proofs about Readers: for objects, assertions, chains    *)
(* and authenticator data of any length, what the loops that read them     *)
(* return.  They are functions with a value for every number of turns, so  *)
(* that the least turn at which a statement fails gives its contradiction. *)
(***************************************************************************)
EXTENDS AppleVerifier, Readers, FiniteSetTheorems, SequenceTheorems, TLAPS

AttestedBy(k) == AuthData(AppOf[k], TRUE, 0, AaguidOf[k], k)

(* Every leaf certificate Apple has issued is no CA, and its nonce commits *)
(* to the authData and the challenge of a certified key.                   *)
LeavesAttested ==
  /\ attested \subseteq [key : DeviceKeys, challenge : Challenges]
  /\ \A leaf \in leaves :
       /\ ~leaf.ca
       /\ \E e \in attested : leaf.nonce = {Digest(AttestedBy(e.key), e.challenge)}

(* A signature of a device's key is over client data that the device was   *)
(* asked to sign, with the app of the key in the authData.                 *)
SignaturesAsserted ==
  \A s \in signatures :
    s.key \in DeviceKeys =>
      \E c \in Challenges, n \in 1..MaxSignCount :
        /\ [key |-> s.key, client_data |-> c] \in asserted
        /\ s.digest = Digest(AuthData(AppOf[s.key], FALSE, n, "none", "none"), c)

(* An accepted assertion of a device's key is the device's, for its app.   *)
AssertionsGenuine ==
  \A b \in Assertions :
    b.key \in DeviceKeys =>
      /\ AppOf[b.key] = b.app_id
      /\ [key |-> b.key, client_data |-> b.challenge] \in asserted

Counters == signCount \in [DeviceKeys -> 0..MaxSignCount]

(* The inductive invariant: what was certified and signed, and from it     *)
(* what was accepted.                                                      *)
IInv ==
  /\ Counters /\ LeavesAttested /\ SignaturesAsserted
  /\ AttestationGenuine /\ AssertionsGenuine

----------------------------------------------------------------------------
(* The digest of an authData and data determines both.                     *)
LEMMA DigestInjective ==
  ASSUME NEW a1, NEW d1, NEW a2, NEW d2, Digest(a1, d1) = Digest(a2, d2)
  PROVE  a1 = a2 /\ d1 = d2
BY DEF Digest, Sha256

LEMMA AuthDataInjective ==
  ASSUME NEW app1, NEW at1, NEW n1, NEW g1, NEW k1,
         NEW app2, NEW at2, NEW n2, NEW g2, NEW k2,
         AuthData(app1, at1, n1, g1, k1) = AuthData(app2, at2, n2, g2, k2)
  PROVE  app1 = app2 /\ g1 = g2 /\ k1 = k2
BY DEF AuthData, Sha256

(* A valid chain whose first certificate has a nonce starts at a leaf that *)
(* Apple issued: only Apple's two CA certificates lead from it to the root.*)
LEMMA ChainStartsAtLeaf ==
  ASSUME IInv, NEW x5c \in X5cChains, x5c[1].nonce # {}
  PROVE  x5c[1] \in leaves
<1> DEFINE Apple == {Root.spki, IssuerKey}
<1>1. PICK n \in 0..3 : x5c \in [1..n -> leaves \cup CaCerts]
  BY DEF X5cChains
<1>2. Len(x5c) = n /\ DOMAIN x5c = 1..n /\ n # 0
  BY <1>1 DEF X5cChains, validate_x5c_chain
<1>3. /\ \A i \in 2..n : x5c[i].ca
      /\ \A i \in 1..n - 1 : x5c[i].signer = x5c[i + 1].spki
      /\ x5c[n].signer = Root.spki
  BY <1>2 DEF X5cChains, validate_x5c_chain, apple_verify_signature
<1>4. \A i \in 2..n : x5c[i] \in CaCerts
  BY <1>1, <1>3 DEF IInv, LeavesAttested
<1>5. \A i \in 2..n : x5c[i].signer \in Apple => x5c[i].spki \in Apple
  BY <1>4, AppleConstants
<1>6. x5c[1].signer \in Apple
  <2>1. CASE n = 1
    BY <2>1, <1>3
  <2>2. CASE n = 2
    BY <2>2, <1>3, <1>5
  <2>3. CASE n = 3
    <3>1. x5c[3].spki \in Apple
      BY <2>3, <1>3, <1>5
    <3>2. x5c[2].spki \in Apple
      BY <2>3, <3>1, <1>3, <1>5
    <3> QED BY <2>3, <3>2, <1>3
  <2> QED BY <1>2, <2>1, <2>2, <2>3
<1>7. x5c[1] \notin CaCerts
  BY <1>6, AppleConstants
<1> QED BY <1>1, <1>2, <1>7

----------------------------------------------------------------------------
LEMMA InitEstablishesInvariant == AppleInit => IInv
BY AppleConstants DEF AppleInit, IInv, LeavesAttested, SignaturesAsserted, AttestationGenuine,
       Counters, AssertionsGenuine, Attestations, Assertions

(* Apple certifies a key over its authData and a challenge.                *)
LEMMA AttestKeyKeepsInvariant ==
  ASSUME IInv, NEW k \in DeviceKeys, NEW c \in Challenges, attestKey(k, c)
  PROVE  IInv'
<1> DEFINE e == [key |-> k, challenge |-> c]
<1>1. e \in attested' /\ attested \subseteq attested'
  BY DEF attestKey
<1>2. UNCHANGED <<signatures, asserted, outcomes>>
  BY DEF attestKey
<1>3. LeavesAttested'
  <2>1. attested' \subseteq [key : DeviceKeys, challenge : Challenges]
    BY DEF attestKey, IInv, LeavesAttested
  <2>2. ASSUME NEW leaf \in leaves'
        PROVE  ~leaf.ca /\ \E d \in attested' : leaf.nonce = {Digest(AttestedBy(d.key), d.challenge)}
    <3>1. CASE leaf \in leaves
      BY <3>1, <1>1 DEF IInv, LeavesAttested
    <3>2. CASE leaf \notin leaves
      <4>1. ~leaf.ca /\ leaf.nonce = {Digest(AttestedBy(k), c)}
        <5> DEFINE issued == [spki |-> [name |-> k, alg |-> "p256"], signer |-> IssuerKey,
              sig_alg |-> "ecdsa-sha256", not_before |-> LeafValidity[1],
              not_after |-> LeafValidity[2], ca |-> FALSE, nonce |-> {Digest(AttestedBy(k), c)}]
        <5>1. ~issued.ca /\ issued.nonce = {Digest(AttestedBy(k), c)}
          OBVIOUS
        <5>2. leaves' = leaves \cup {issued}
          BY DEF attestKey, AttestedBy
        <5> HIDE DEF issued
        <5> QED BY <3>2, <5>1, <5>2
      <4>2. leaf.nonce = {Digest(AttestedBy(e.key), e.challenge)}
        BY <4>1
      <4> QED BY <4>1, <4>2, <1>1
    <3> QED BY <3>1, <3>2
  <2> QED BY <2>1, <2>2 DEF LeavesAttested, AttestedBy
<1>4. AttestationGenuine'
  BY <1>1, <1>2 DEF IInv, AttestationGenuine, Attestations
<1> QED BY <1>2, <1>3, <1>4 DEF IInv, Counters, SignaturesAsserted, AssertionsGenuine, Assertions,
                         attestKey

(* A device signs client data with its key.                                *)
LEMMA GenerateAssertionKeepsInvariant ==
  ASSUME IInv, NEW k \in DeviceKeys, NEW c \in Challenges, generateAssertion(k, c)
  PROVE  IInv'
<1> DEFINE n == signCount[k] + 1
           auth == AuthData(AppOf[k], FALSE, n, "none", "none")
           s == [key |-> k, digest |-> Digest(auth, c)]
<1>1. /\ [key |-> k, client_data |-> c] \in asserted'
      /\ asserted \subseteq asserted'
      /\ signatures' = signatures \cup {s}
  BY DEF generateAssertion
<1>2. UNCHANGED <<leaves, attested, outcomes>>
  BY DEF generateAssertion
<1>3. SignaturesAsserted'
  <2>1. n \in 1..MaxSignCount
    BY AppleConstants DEF generateAssertion, IInv, Counters
  <2>2. s.key = k /\ s.digest = Digest(auth, c)
    OBVIOUS
  <2> HIDE DEF n, s
  <2>3. ASSUME NEW r \in signatures', r.key \in DeviceKeys
        PROVE  \E d \in Challenges, m \in 1..MaxSignCount :
                 /\ [key |-> r.key, client_data |-> d] \in asserted'
                 /\ r.digest = Digest(AuthData(AppOf[r.key], FALSE, m, "none", "none"), d)
    BY <1>1, <2>1, <2>2, <2>3 DEF IInv, SignaturesAsserted
  <2> QED BY <2>3 DEF SignaturesAsserted
<1>4. Counters'
  BY AppleConstants DEF generateAssertion, IInv, Counters
<1> QED BY <1>1, <1>2, <1>3, <1>4
        DEF IInv, LeavesAttested, AttestationGenuine, Attestations,
            AssertionsGenuine, Assertions

(* Somebody signs with a key that is no device's.                          *)
LEMMA OtherSignatureKeepsInvariant ==
  ASSUME IInv, NEW k \in OtherKeys, NEW auth, NEW c, otherSignature(k, auth, c)
  PROVE  IInv'
<1> DEFINE s == [key |-> k, digest |-> Digest(auth, c)]
<1>1. SignaturesAsserted'
  <2>1. s.key \notin DeviceKeys
    BY AppleConstants
  <2>2. signatures' = signatures \cup {s} /\ UNCHANGED asserted
    BY DEF otherSignature
  <2> HIDE DEF s
  <2> QED BY <2>1, <2>2 DEF IInv, SignaturesAsserted
<1> QED BY <1>1 DEF otherSignature, IInv, Counters, LeavesAttested, AttestationGenuine, Attestations,
                    AssertionsGenuine, Assertions

(* What verify_app_attest accepts: a key, with the challenge, app and      *)
(* environment, that the leaf's nonce shows a device had certified.        *)
LEMMA AcceptedAttestationIsGenuine ==
  ASSUME IInv, NEW x5c \in X5cChains, NEW auth, NEW key_id, NEW c, NEW app,
         NEW production, AcceptsAttest(auth, x5c, key_id, c, app, production)
  PROVE  /\ [key |-> auth.key, challenge |-> c] \in attested
         /\ AppOf[auth.key] = app
         /\ AaguidOf[auth.key] = IF production THEN "appattest" ELSE "appattestdevelop"
<1>1. x5c[1].nonce = {Digest(auth, c)}
  BY DEF AcceptsAttest, NonceMatches
<1>2. PICK e \in attested : x5c[1].nonce = {Digest(AttestedBy(e.key), e.challenge)}
  BY <1>1, ChainStartsAtLeaf DEF IInv, LeavesAttested
<1>3. auth = AttestedBy(e.key) /\ c = e.challenge
  <2>1. Digest(auth, c) = Digest(AttestedBy(e.key), e.challenge)
    BY <1>1, <1>2
  <2> QED BY <2>1, DigestInjective
<1>4. e = [key |-> e.key, challenge |-> e.challenge]
  BY DEF IInv, LeavesAttested
<1>5. /\ auth.key = e.key /\ auth.aaguid = AaguidOf[e.key]
      /\ auth.rp_id_hash = Sha256(AppOf[e.key])
  BY <1>3 DEF AttestedBy, AuthData
<1>6. Sha256(AppOf[e.key]) = Sha256(app)
  BY <1>5 DEF AcceptsAttest
<1> QED BY <1>3, <1>4, <1>5, <1>6 DEF AcceptsAttest, Sha256

LEMMA VerifyAppAttestKeepsInvariant ==
  ASSUME IInv, NEW x5c \in X5cChains, NEW auth, NEW key_id, NEW c, NEW app,
         NEW production, verify_app_attest(auth, x5c, key_id, c, app, production)
  PROVE  IInv'
<1> DEFINE new == [source |-> "apple-app-attest", auth |-> auth, x5c |-> x5c, key |-> auth.key,
                   key_id |-> key_id, challenge |-> c, app_id |-> app,
                   production |-> production]
<1>1. UNCHANGED <<signCount, leaves, signatures, attested, asserted>> /\ outcomes' = outcomes \cup {new}
  BY DEF verify_app_attest
<1>2. /\ new.source = "apple-app-attest" /\ new.key = auth.key /\ new.challenge = c
      /\ new.app_id = app /\ new.production = production
  OBVIOUS
<1> HIDE DEF new
<1>3. AttestationGenuine'
  <2>1. /\ [key |-> new.key, challenge |-> new.challenge] \in attested
        /\ AppOf[new.key] = new.app_id
        /\ AaguidOf[new.key] = IF new.production THEN "appattest" ELSE "appattestdevelop"
    BY <1>2, AcceptedAttestationIsGenuine DEF verify_app_attest
  <2> QED BY <1>1, <2>1 DEF IInv, AttestationGenuine, Attestations
<1>4. AssertionsGenuine'
  BY <1>1, <1>2 DEF IInv, AssertionsGenuine, Assertions
<1> QED BY <1>1, <1>3, <1>4 DEF IInv, Counters, LeavesAttested, SignaturesAsserted

(* What verify_assertion accepts with a device's key.                      *)
LEMMA AcceptedAssertionIsGenuine ==
  ASSUME IInv, NEW auth, NEW k \in DeviceKeys, NEW c, NEW app,
         AcceptsAssertion(auth, k, c, app)
  PROVE  AppOf[k] = app /\ [key |-> k, client_data |-> c] \in asserted
<1> DEFINE s == [key |-> k, digest |-> Digest(auth, c)]
<1>1. s \in signatures /\ s.key = k /\ s.digest = Digest(auth, c)
  BY DEF AcceptsAssertion
<1> HIDE DEF s
<1>2. PICK d \in Challenges, n \in 1..MaxSignCount :
        /\ [key |-> k, client_data |-> d] \in asserted
        /\ s.digest = Digest(AuthData(AppOf[k], FALSE, n, "none", "none"), d)
  BY <1>1 DEF IInv, SignaturesAsserted
<1>3. auth = AuthData(AppOf[k], FALSE, n, "none", "none") /\ c = d
  <2> DEFINE signed == AuthData(AppOf[k], FALSE, n, "none", "none")
  <2>1. Digest(auth, c) = Digest(signed, d)
    BY <1>1, <1>2
  <2> HIDE DEF signed
  <2>2. auth = signed /\ c = d
    BY <2>1, DigestInjective
  <2> QED BY <2>2 DEF signed
<1>4. Sha256(AppOf[k]) = Sha256(app)
  BY <1>3 DEF AuthData, AcceptsAssertion
<1> QED BY <1>2, <1>3, <1>4 DEF Sha256

LEMMA VerifyAssertionKeepsInvariant ==
  ASSUME IInv, NEW auth, NEW k, NEW c, NEW app, verify_assertion(auth, k, c, app)
  PROVE  IInv'
<1> DEFINE new == [source |-> "apple-app-attest-assertion", auth |-> auth, key |-> k,
                   challenge |-> c, app_id |-> app]
<1>1. UNCHANGED <<signCount, leaves, signatures, attested, asserted>> /\ outcomes' = outcomes \cup {new}
  BY DEF verify_assertion
<1>2. /\ new.source = "apple-app-attest-assertion" /\ new.key = k /\ new.challenge = c
      /\ new.app_id = app
  OBVIOUS
<1> HIDE DEF new
<1>3. AssertionsGenuine'
  BY <1>1, <1>2, AcceptedAssertionIsGenuine
  DEF IInv, AssertionsGenuine, Assertions, verify_assertion
<1>4. AttestationGenuine'
  BY <1>1, <1>2 DEF IInv, AttestationGenuine, Attestations
<1> QED BY <1>1, <1>3, <1>4 DEF IInv, Counters, LeavesAttested, SignaturesAsserted

----------------------------------------------------------------------------
LEMMA NextKeepsInvariant ==
  ASSUME IInv, [AppleNext]_appleVars
  PROVE  IInv'
<1>1. CASE \E k \in DeviceKeys, c \in Challenges : attestKey(k, c)
  BY <1>1, AttestKeyKeepsInvariant
<1>2. CASE \E k \in DeviceKeys, c \in Challenges : generateAssertion(k, c)
  BY <1>2, GenerateAssertionKeepsInvariant
<1>3. CASE \E k \in OtherKeys, auth \in ShortAuthData, c \in Challenges : otherSignature(k, auth, c)
  BY <1>3, OtherSignatureKeepsInvariant
<1>4. CASE \E x5c \in X5cChains, auth \in AttestedAuthData, c \in Challenges,
              k \in DeviceKeys \cup OtherKeys, app \in Apps, production \in BOOLEAN :
             verify_app_attest(auth, x5c, Sha256(k), c, app, production)
  BY <1>4, VerifyAppAttestKeepsInvariant
<1>5. CASE \E auth \in ShortAuthData \cup AttestedAuthData, k \in DeviceKeys \cup OtherKeys,
              c \in Challenges, app \in Apps : verify_assertion(auth, k, c, app)
  BY <1>5, VerifyAssertionKeepsInvariant
<1>6. CASE UNCHANGED <<signCount, leaves, signatures, attested, asserted, outcomes>>
  BY <1>6 DEF IInv, LeavesAttested, SignaturesAsserted, AttestationGenuine, Attestations,
              AssertionsGenuine, Assertions, Counters
<1> QED BY <1>1, <1>2, <1>3, <1>4, <1>5, <1>6 DEF AppleNext, SetClock, appleVars

LEMMA InvariantHolds == AppleSpec => []IInv
BY InitEstablishesInvariant, NextKeepsInvariant, PTL DEF AppleSpec

(* verify_app_attest: whatever authData, certificates and parameters a     *)
(* caller combines, an accepted attestation names a key that a device had  *)
(* certified over this challenge, for this app and this environment.       *)
THEOREM AttestationsAreGenuine == AppleSpec => []AttestationGenuine
BY InvariantHolds, PTL DEF IInv

(* verify_assertion: an accepted assertion of a key that was accepted in   *)
(* an attestation names the same app, and the device signed this client    *)
(* data.                                                                   *)
THEOREM AssertionsFollowAttestations == AppleSpec => []AssertionFollowsAttestation
<1>1. IInv => AssertionFollowsAttestation
  <2> SUFFICES ASSUME IInv, NEW a \in Attestations, NEW b \in Assertions, a.key = b.key
               PROVE  /\ a.app_id = b.app_id
                      /\ [key |-> b.key, client_data |-> b.challenge] \in asserted
    BY DEF AssertionFollowsAttestation
  <2>1. [key |-> a.key, challenge |-> a.challenge] \in attested /\ AppOf[a.key] = a.app_id
    BY DEF IInv, AttestationGenuine
  <2>2. a.key \in DeviceKeys
    BY <2>1 DEF IInv, LeavesAttested
  <2> QED BY <2>1, <2>2 DEF IInv, AssertionsGenuine
<1> QED BY <1>1, InvariantHolds, PTL

----------------------------------------------------------------------------
(* The readers *)

(* A nonempty set of numbers has a least element.                          *)
LEMMA LeastNumber ==
  ASSUME NEW T \in SUBSET Nat, T # {}
  PROVE  \E x \in T : \A y \in T : x <= y
<1> DEFINE U == {0..x : x \in T}
<1>1. U \subseteq FiniteSubsetsOf(Nat) /\ U # {}
  <2>1. ASSUME NEW x \in T PROVE 0..x \in SUBSET Nat /\ IsFiniteSet(0..x)
    BY FS_Interval
  <2> QED BY <2>1 DEF FiniteSubsetsOf
<1>2. PICK I \in U : \A J \in U : <<J, I>> \notin StrictSubsetOrdering(Nat)
  <2> HIDE DEF U
  <2> QED BY <1>1, FS_StrictSubsetOrderingWellFounded, WFMin
<1>3. PICK x \in T : I = 0..x
  OBVIOUS
<1>4. ASSUME NEW y \in T, y < x PROVE FALSE
  <2> DEFINE J == 0..y
  <2>1. J \in U /\ I \in SUBSET Nat /\ J \in SUBSET Nat
    BY ONLY <1>3
  <2>2. J \subseteq I /\ J # I
    BY ONLY <1>3, <1>4
  <2> HIDE DEF J
  <2>3. <<J, I>> \in StrictSubsetOrdering(Nat)
    BY <2>1, <2>2 DEF StrictSubsetOrdering
  <2> QED BY <2>1, <2>3, <1>2
<1> QED BY <1>4

(* What holds at n and passes from every number to the one below holds     *)
(* at 1.                                                                   *)
LEMMA Downward ==
  ASSUME NEW n \in Nat \ {0}, NEW S, n \in S, \A i \in 1..n - 1 : i + 1 \in S => i \in S
  PROVE  1 \in S
<1> DEFINE T == (1..n) \cap S
<1>1. PICK m \in T : \A i \in T : m <= i
  <2>1. T \in SUBSET Nat /\ n \in T
    OBVIOUS
  <2> HIDE DEF T
  <2> QED BY <2>1, LeastNumber
<1>2. m = 1
  <2> SUFFICES ASSUME m # 1 PROVE FALSE
    OBVIOUS
  <2>1. m - 1 \in 1..n - 1 /\ (m - 1) + 1 = m
    BY <1>1
  <2>2. m - 1 \in T
    BY <2>1, <1>1
  <2> QED BY <2>2, <1>1
<1> QED BY <1>1, <1>2

(* What a loop over a map assigns: the value of the last entry with the    *)
(* key, if there is one and it has the type.                               *)
LEMMA AssignedIsLast ==
  ASSUME NEW map, Len(map) \in Nat, DOMAIN map = 1..Len(map), NEW key, NEW type
  PROVE  /\ Assigned(map, key, type)
              = IF Entries(map, key) = {} THEN {} ELSE As(type, LastEntry(map, key))
         /\ Entries(map, key) # {} =>
              \E i \in Entries(map, key) :
                LastEntry(map, key) = map[i].v /\ \A j \in Entries(map, key) : j <= i
<1> DEFINE L == Len(map)
           Match(i) == Same(map[i].k, key)
           Last(n) == CHOOSE i \in 1..n : Match(i) /\ \A j \in i + 1..n : ~Match(j)
           Left(n) == IF \E i \in 1..n : Match(i) THEN As(type, map[Last(n)].v) ELSE {}
           Run(f) == f = [n \in 0..L |-> IF n = 0 THEN {}
                                         ELSE IF Match(n) THEN As(type, map[n].v) ELSE f[n - 1]]
           left == [n \in 0..L |-> Left(n)]
<1>0. L \in Nat /\ Entries(map, key) = {i \in 1..L : Match(i)}
  BY DEF Entries
<1>1. Assigned(map, key, type) = (CHOOSE f : Run(f))[L]
  BY Zenon DEF Assigned
<1> HIDE DEF Match
<1>2. ASSUME NEW n \in 0..L, \E i \in 1..n : Match(i)
      PROVE  Last(n) \in 1..n /\ Match(Last(n)) /\ \A j \in Last(n) + 1..n : ~Match(j)
  <2> DEFINE T == {n - i : i \in {k \in 1..n : Match(k)}}
  <2>1. T \in SUBSET Nat /\ T # {}
    BY <1>2
  <2>2. PICK t \in T : \A u \in T : t <= u
    <3> HIDE DEF T
    <3> QED BY <2>1, LeastNumber
  <2>3. PICK i \in 1..n : Match(i) /\ t = n - i
    BY <2>2
  <2>4. \A j \in i + 1..n : ~Match(j)
    <3> SUFFICES ASSUME NEW j \in i + 1..n, Match(j) PROVE FALSE
      OBVIOUS
    <3>1. j \in 1..n /\ n - j \in T
      BY <2>3
    <3>2. t <= n - j
      BY <3>1, <2>2
    <3> QED BY <3>2, <2>3
  <2> QED BY <2>3, <2>4
<1>3. Left(0) = {}
  OBVIOUS
<1>4. ASSUME NEW n \in 1..L
      PROVE  Left(n) = IF Match(n) THEN As(type, map[n].v) ELSE Left(n - 1)
  <2> n \in 0..L /\ n - 1 \in 0..L
    OBVIOUS
  <2>1. CASE Match(n)
    <3>1. Last(n) = n
      <4>1. \E i \in 1..n : Match(i)
        BY <2>1
      <4> HIDE DEF Last
      <4>2. Last(n) \in 1..n /\ \A j \in Last(n) + 1..n : ~Match(j)
        BY <4>1, <1>2
      <4> QED BY <4>2, <2>1
    <3> QED BY <3>1, <2>1
  <2>2. CASE ~Match(n) /\ \E i \in 1..n - 1 : Match(i)
    <3>1. \E i \in 1..n : Match(i)
      BY <2>2
    <3>2. Last(n) \in 1..n /\ Match(Last(n)) /\ \A j \in Last(n) + 1..n : ~Match(j)
      BY <3>1, <1>2
    <3>3. /\ Last(n - 1) \in 1..n - 1 /\ Match(Last(n - 1))
          /\ \A j \in Last(n - 1) + 1..n - 1 : ~Match(j)
      BY <2>2, <1>2
    <3>4. Last(n) = Last(n - 1)
      <4> HIDE DEF Last
      <4> QED BY <3>2, <3>3, <2>2
    <3> HIDE DEF Last
    <3> QED BY <3>1, <3>4, <2>2
  <2>3. CASE ~Match(n) /\ ~\E i \in 1..n - 1 : Match(i)
    BY <2>3
  <2> QED BY <2>1, <2>2, <2>3
<1> HIDE DEF Last, Left
<1>5. Run(left)
  <2>1. \A n \in 1..L : left[n - 1] = Left(n - 1)
    BY <1>0
  <2> QED BY <2>1, <1>3, <1>4
<1> DEFINE out == CHOOSE f : Run(f)
<1>6. Run(out)
  <2> HIDE DEF Run, left
  <2> QED BY <1>5
<1> HIDE DEF out
<1>7. \A n \in 0..L : out[n] = Left(n)
  <2> SUFFICES ASSUME NEW m \in 0..L, out[m] # Left(m) PROVE FALSE
    OBVIOUS
  <2> DEFINE T == {n \in 0..L : out[n] # Left(n)}
  <2>1. PICK n \in T : \A k \in T : n <= k
    <3>1. T \in SUBSET Nat /\ m \in T
      BY <1>0
    <3> HIDE DEF T
    <3> QED BY <3>1, LeastNumber
  <2>2. n # 0
    BY <2>1, <1>6, <1>3
  <2>3. n \in 1..L /\ n - 1 \in 0..L /\ n - 1 \notin T
    BY <2>1, <2>2, <1>0
  <2>4. out[n - 1] = Left(n - 1)
    BY <2>3
  <2>5. out[n] = IF Match(n) THEN As(type, map[n].v) ELSE out[n - 1]
    BY <2>3, <1>6
  <2> QED BY <2>1, <2>3, <2>4, <2>5, <1>4
<1>8. Assigned(map, key, type) = Left(L)
  BY <1>0, <1>1, <1>7 DEF out
<1>9. ASSUME Entries(map, key) # {}
      PROVE  /\ \E i \in 1..L : Match(i)
             /\ Last(L) \in Entries(map, key) /\ LastEntry(map, key) = map[Last(L)].v
             /\ \A j \in Entries(map, key) : j <= Last(L)
  <2>1. \E i \in 1..L : Match(i)
    BY <1>0, <1>9
  <2>2. Last(L) \in 1..L /\ Match(Last(L)) /\ \A j \in Last(L) + 1..L : ~Match(j)
    BY <2>1, <1>2, <1>0
  <2>3. \A j \in Entries(map, key) : j <= Last(L)
    BY <1>0, <2>2
  <2>4. ASSUME NEW i \in Entries(map, key), \A j \in Entries(map, key) : j <= i
        PROVE  i = Last(L)
    BY <1>0, <2>2, <2>3, <2>4
  <2>5. LastEntry(map, key) = map[Last(L)].v
    <3> DEFINE Greatest(i) == \A j \in Entries(map, key) : j <= i
    <3>1. Last(L) \in Entries(map, key) /\ Greatest(Last(L))
      BY <1>0, <2>2, <2>3
    <3>2. (CHOOSE i \in Entries(map, key) : Greatest(i)) = Last(L)
      BY <3>1, <2>4
    <3> QED BY <3>2 DEF LastEntry
  <2> QED BY <1>0, <2>1, <2>2, <2>3, <2>5
<1>10. CASE Entries(map, key) = {}
  BY <1>10, <1>8, <1>0 DEF Left
<1>11. CASE Entries(map, key) # {}
  BY <1>11, <1>8, <1>9 DEF Left
<1> QED BY <1>10, <1>11

(* Two sequences one after the other.                                      *)
LEMMA Together ==
  ASSUME NEW S, NEW s \in Seq(S), NEW t \in Seq(S)
  PROVE  /\ Len(s) \in Nat /\ Len(t) \in Nat
         /\ s \o t \in Seq(S) /\ Len(s \o t) = Len(s) + Len(t)
         /\ \A i \in 1..Len(s) : (s \o t)[i] = s[i]
         /\ \A i \in 1..Len(t) : (s \o t)[Len(s) + i] = t[i]
<1> DEFINE u == s \o t
           n == Len(s)
           m == Len(t)
<1>1. /\ u \in Seq(S) /\ Len(u) = n + m
      /\ \A i \in 1..n + m : u[i] = IF i <= n THEN s[i] ELSE t[i - n]
  BY ConcatProperties
<1>2. n \in Nat /\ m \in Nat
  BY LenProperties
<1> HIDE DEF u, n, m
<1>3. ASSUME NEW i \in 1..m PROVE u[n + i] = t[i]
  <2>1. n + i \in 1..n + m /\ ~(n + i <= n) /\ (n + i) - n = i
    BY <1>2
  <2> QED BY <1>1, <2>1
<1>4. ASSUME NEW i \in 1..n PROVE u[i] = s[i]
  BY <1>1, <1>2
<1> QED BY <1>1, <1>2, <1>3, <1>4 DEF u, n, m

LEMMA Joined ==
  ASSUME NEW S, NEW s \in Seq(S), NEW t \in Seq(S), NEW u, u = s \o t
  PROVE  /\ Len(u) = Len(s) + Len(t)
         /\ \A i \in 1..Len(s) : u[i] = s[i]
         /\ \A i \in 1..Len(t) : u[Len(s) + i] = t[i]
BY Together

(* A sequence is one over the set of its elements.                         *)
LEMMA SequenceOfElements ==
  ASSUME NEW s, IsSeq(s)
  PROVE  DOMAIN s = 1..Len(s) /\ Len(s) \in Nat /\ s \in Seq({s[i] : i \in DOMAIN s})
<1> DEFINE n == Len(s)
           S == {s[i] : i \in DOMAIN s}
<1>1. n \in Nat /\ s = [i \in 1..n |-> s[i]]
  BY DEF IsSeq
<1> HIDE DEF n
<1>2. DOMAIN s = 1..n /\ \A i \in 1..n : s[i] \in S
  BY <1>1
<1> HIDE DEF S
<1>3. s \in [1..n -> S]
  BY <1>1, <1>2
<1>4. s \in Seq(S)
  BY <1>1, <1>3, SeqDef
<1> QED BY <1>1, <1>2, <1>4 DEF n, S

LEMMA InSeqOfMore ==
  ASSUME NEW s, IsSeq(s), NEW S, \A i \in DOMAIN s : s[i] \in S
  PROVE  s \in Seq(S)
<1> DEFINE R == {s[i] : i \in DOMAIN s}
<1>1. s \in Seq(R) /\ R \subseteq S
  BY SequenceOfElements
<1> HIDE DEF R
<1> QED BY <1>1, SeqMonotonic

LEMMA SequencesAreSeq ==
  ASSUME NEW S, NEW s \in Seq(S)
  PROVE  IsSeq(s)
BY LenProperties DEF IsSeq

(* What is said of the symbols of two sequences holds of both together.    *)
LEMMA DataTogether ==
  ASSUME NEW s, NEW t, IsData(s), IsData(t)
  PROVE  IsData(s \o t) /\ Len(s \o t) = Len(s) + Len(t)
<1> DEFINE S == {s[i] : i \in DOMAIN s} \cup {t[i] : i \in DOMAIN t}
<1>1. s \in Seq(S) /\ t \in Seq(S)
  <2>1. IsSeq(s) /\ IsSeq(t)
    BY DEF IsData
  <2> QED BY <2>1, InSeqOfMore
<1>2. \A x \in S : x.t = "header" => x.v \in Nat
  BY DEF IsData
<1> HIDE DEF S
<1>3. s \o t \in Seq(S) /\ Len(s \o t) = Len(s) + Len(t)
  BY <1>1, ConcatProperties
<1> QED BY <1>2, <1>3, SequencesAreSeq, LenProperties, ElementOfSeq DEF IsData

LEMMA MapsTogether ==
  ASSUME NEW s, NEW t, IsMap(s), IsMap(t)
  PROVE  IsMap(s \o t)
<1> DEFINE S == {s[i] : i \in DOMAIN s} \cup {t[i] : i \in DOMAIN t}
           Good(x) == /\ x.v.t = "map" => IsSeq(x.v.v)
                      /\ Same(x.k, Text("authData")) /\ x.v.t = "bytes" => IsAuthData(x.v.v)
<1>1. s \in Seq(S) /\ t \in Seq(S)
  <2>1. IsSeq(s) /\ IsSeq(t)
    BY DEF IsMap
  <2> QED BY <2>1, InSeqOfMore
<1>2. \A x \in S : Good(x)
  BY DEF IsMap
<1> HIDE DEF S, Good
<1>3. s \o t \in Seq(S)
  BY <1>1, ConcatProperties
<1>4. IsSeq(s \o t) /\ \A i \in DOMAIN (s \o t) : Good((s \o t)[i])
  BY <1>2, <1>3, SequencesAreSeq, LenProperties, ElementOfSeq
<1> QED BY <1>4 DEF IsMap, Good

LEMMA DataUpTo ==
  ASSUME NEW s, IsData(s), NEW n \in 0..Len(s)
  PROVE  /\ IsData(SubSeq(s, 1, n)) /\ Len(SubSeq(s, 1, n)) = n
         /\ \A i \in 1..n : SubSeq(s, 1, n)[i] = s[i]
<1> DEFINE S == {s[i] : i \in DOMAIN s}
           u == SubSeq(s, 1, n)
<1>1. DOMAIN s = 1..Len(s) /\ Len(s) \in Nat
  BY SequenceOfElements DEF IsData
<1>2. \A x \in S : x.t = "header" => x.v \in Nat
  BY DEF IsData
<1>3. \A i \in 1..n : s[i] \in S
  BY <1>1
<1> HIDE DEF S
<1>4. u \in Seq(S) /\ Len(u) = n /\ \A i \in 1..n : u[i] = s[i]
  <2>1. /\ u \in Seq(S) /\ Len(u) = IF 1 <= n THEN n - 1 + 1 ELSE 0
        /\ \A i \in 1..n - 1 + 1 : u[i] = s[1 + i - 1]
    BY <1>3, <1>1, SubSeqProperties
  <2> QED BY <2>1, <1>1
<1> HIDE DEF u
<1>5. IsData(u)
  BY <1>2, <1>4, SequencesAreSeq, LenProperties, ElementOfSeq DEF IsData
<1> QED BY <1>4, <1>5 DEF u

(* What is in the authenticator data, as far as parse looks.               *)
HasFlagsAndLength(e, flags, n) ==
  /\ e[33].v = flags
  /\ e[54] = [t |-> "byte", v |-> n \div 256]
  /\ e[55] = [t |-> "byte", v |-> n % 256]

LEMMA AuthDataIsData ==
  ASSUME NEW flags \in Nat, NEW n \in Nat, NEW cose, IsData(cose),
         NEW e, e = EncAuthData(flags, n, cose)
  PROVE  IsData(e) /\ HasFlagsAndLength(e, flags, n)
<1> DEFINE S == Nat
           hash == [i \in 1..32 |-> i]
           fill == [i \in 1..16 |-> 100 + i]
           id == [i \in 1..n |-> 200]
           s1 == hash \o <<flags>>
           s2 == s1 \o <<0, 0, 0, 0>>
           s3 == s2 \o fill
           s4 == s3 \o <<n \div 256, n % 256>>
           s5 == s4 \o id
<1>1. /\ hash \in Seq(S) /\ fill \in Seq(S) /\ id \in Seq(S)
      /\ <<flags>> \in Seq(S) /\ <<0, 0, 0, 0>> \in Seq(S)
      /\ <<n \div 256, n % 256>> \in Seq(S)
  <2>1. hash \in [1..32 -> S] /\ fill \in [1..16 -> S] /\ id \in [1..n -> S]
    OBVIOUS
  <2>2. hash \in Seq(S) /\ fill \in Seq(S) /\ id \in Seq(S)
    BY <2>1, SeqDef
  <2>3. n \div 256 \in Nat /\ n % 256 \in Nat
    OBVIOUS
  <2>4. <<flags>> \in Seq(S) /\ <<0, 0, 0, 0>> \in Seq(S)
    OBVIOUS
  <2>5. <<n \div 256, n % 256>> \in Seq(S)
    BY <2>3
  <2> QED BY <2>2, <2>4, <2>5
<1>2. Len(hash) = 32 /\ Len(fill) = 16 /\ Len(id) = n
  OBVIOUS
<1> HIDE DEF S, hash, fill, id
<1>3. s1 \in Seq(S) /\ s2 \in Seq(S) /\ s3 \in Seq(S) /\ s4 \in Seq(S) /\ s5 \in Seq(S)
  BY <1>1, ConcatProperties
<1> DEFINE one == <<flags>>
           four == <<0, 0, 0, 0>>
           size == <<n \div 256, n % 256>>
<1>4. /\ Len(one) = 1 /\ one[1] = flags /\ Len(four) = 4
      /\ Len(size) = 2 /\ size[1] = n \div 256 /\ size[2] = n % 256
  OBVIOUS
<1> HIDE DEF one, four, size
<1>5. /\ s1 = hash \o one /\ s2 = s1 \o four /\ s3 = s2 \o fill /\ s4 = s3 \o size
      /\ s5 = s4 \o id
  BY DEF one, four, size
<1>6. one \in Seq(S) /\ four \in Seq(S) /\ size \in Seq(S)
  BY <1>1 DEF one, four, size
<1> HIDE DEF s1, s2, s3, s4, s5
<1>7. Len(s1) = 33 /\ s1[33] = flags
  <2>1. hash \in Seq(S) /\ one \in Seq(S) /\ s1 = hash \o one
    BY <1>1, <1>3, <1>5, <1>6
  <2>2. /\ Len(s1) = Len(hash) + Len(one)
        /\ \A i \in 1..Len(hash) : s1[i] = hash[i]
        /\ \A i \in 1..Len(one) : s1[Len(hash) + i] = one[i]
    BY <2>1, Joined
  <2>3. s1[Len(hash) + 1] = one[1]
    BY <2>2, <1>4
  <2> QED BY <2>2, <2>3, <1>2, <1>4
<1>8. Len(s2) = 37 /\ s2[33] = flags
  <2>1. s1 \in Seq(S) /\ four \in Seq(S) /\ s2 = s1 \o four
    BY <1>1, <1>3, <1>5, <1>6
  <2>2. /\ Len(s2) = Len(s1) + Len(four)
        /\ \A i \in 1..Len(s1) : s2[i] = s1[i]
        /\ \A i \in 1..Len(four) : s2[Len(s1) + i] = four[i]
    BY <2>1, Joined
  <2> QED BY <2>2, <1>2, <1>4, <1>7
<1>9. Len(s3) = 53 /\ s3[33] = flags
  <2>1. s2 \in Seq(S) /\ fill \in Seq(S) /\ s3 = s2 \o fill
    BY <1>1, <1>3, <1>5, <1>6
  <2>2. /\ Len(s3) = Len(s2) + Len(fill)
        /\ \A i \in 1..Len(s2) : s3[i] = s2[i]
        /\ \A i \in 1..Len(fill) : s3[Len(s2) + i] = fill[i]
    BY <2>1, Joined
  <2> QED BY <2>2, <1>2, <1>4, <1>8
<1>10. Len(s4) = 55 /\ s4[33] = flags /\ s4[54] = n \div 256 /\ s4[55] = n % 256
  <2>1. s3 \in Seq(S) /\ size \in Seq(S) /\ s4 = s3 \o size
    BY <1>1, <1>3, <1>5, <1>6
  <2>2. /\ Len(s4) = Len(s3) + Len(size)
        /\ \A i \in 1..Len(s3) : s4[i] = s3[i]
        /\ \A i \in 1..Len(size) : s4[Len(s3) + i] = size[i]
    BY <2>1, Joined
  <2>3. s4[Len(s3) + 1] = size[1] /\ s4[Len(s3) + 2] = size[2]
    BY <2>2, <1>4
  <2> QED BY <2>2, <2>3, <1>9, <1>4
<1>11. Len(s5) = 55 + n /\ s5[33] = flags /\ s5[54] = n \div 256 /\ s5[55] = n % 256
  <2>1. s4 \in Seq(S) /\ id \in Seq(S) /\ s5 = s4 \o id
    BY <1>1, <1>3, <1>5, <1>6
  <2>2. /\ Len(s5) = Len(s4) + Len(id)
        /\ \A i \in 1..Len(s4) : s5[i] = s4[i]
        /\ \A i \in 1..Len(id) : s5[Len(s4) + i] = id[i]
    BY <2>1, Joined
  <2> QED BY <2>2, <1>2, <1>4, <1>10
<1>12. EncAuthData(flags, n, cose) = Bytes(s5) \o cose
  BY DEF EncAuthData, s1, s2, s3, s4, s5, hash, fill, id
<1> DEFINE b == Bytes(s5)
           Byte == {[t |-> "byte", v |-> x] : x \in S}
           R == Byte \cup {cose[i] : i \in DOMAIN cose}
<1>13. Len(b) = 55 + n /\ IsData(b) /\ \A i \in 1..55 + n : b[i] = [t |-> "byte", v |-> s5[i]]
  <2>1. DOMAIN s5 = 1..55 + n /\ \A i \in 1..55 + n : s5[i] \in S
    BY <1>3, <1>11, LenProperties, ElementOfSeq
  <2>2. b = [i \in 1..55 + n |-> [t |-> "byte", v |-> s5[i]]]
    BY <2>1 DEF Bytes
  <2>3. 55 + n \in Nat
    OBVIOUS
  <2> HIDE DEF b
  <2>4. b \in [1..55 + n -> Byte]
    BY <2>1, <2>2
  <2>5. \A x \in Byte : x.t # "header"
    OBVIOUS
  <2> HIDE DEF Byte
  <2>6. b \in Seq(Byte) /\ DOMAIN b = 1..55 + n
    BY <2>3, <2>4, SeqDef
  <2>7. IsSeq(b)
    BY <2>6, SequencesAreSeq
  <2>8. \A i \in DOMAIN b : b[i].t # "header"
    BY <2>4, <2>5, <2>6
  <2>9. Len(b) = 55 + n
    BY <2>3, <2>6, LenProperties
  <2> QED BY <2>2, <2>7, <2>8, <2>9 DEF IsData
<1> HIDE DEF b
<1>14. e = b \o cose
  BY <1>12 DEF b
<1>15. IsData(e)
  BY <1>13, <1>14, DataTogether
<1>16. \A i \in 1..Len(b) : e[i] = b[i]
  <2>1. IsSeq(b) /\ IsSeq(cose) /\ DOMAIN b = 1..Len(b)
    BY <1>13, SequenceOfElements DEF IsData
  <2>2. \A i \in DOMAIN b : b[i] \in Byte
    <3>1. \A i \in 1..55 + n : s5[i] \in S
      BY <1>3, <1>11, ElementOfSeq
    <3> QED BY <2>1, <3>1, <1>13
  <2>3. b \in Seq(R) /\ cose \in Seq(R)
    <3> HIDE DEF Byte
    <3> QED BY <2>1, <2>2, InSeqOfMore
  <2> HIDE DEF R
  <2> QED BY <2>3, <1>14, Together
<1>17. HasFlagsAndLength(e, flags, n)
  <2>1. {33, 54, 55} \subseteq 1..Len(b)
    BY <1>13
  <2>2. e[33] = b[33] /\ e[54] = b[54] /\ e[55] = b[55]
    BY <2>1, <1>16
  <2> QED BY <2>1, <2>2, <1>13, <1>11 DEF HasFlagsAndLength
<1> QED BY <1>15, <1>17

(* A part of a sequence is added to what comes before it.                  *)
LEMMA Adjacent ==
  ASSUME NEW S, NEW s \in Seq(S), NEW k \in Nat, NEW m \in Nat, k <= m, m <= Len(s)
  PROVE  SubSeq(s, 1, k) \o SubSeq(s, k + 1, m) = SubSeq(s, 1, m)
<1>1. 1 \in 1..Len(s) + 1 /\ k \in 1 - 1..Len(s) /\ m \in k..Len(s)
  BY LenProperties
<1> QED BY <1>1, ConcatAdjacentSubSeq

(* parse on the first c symbols of authenticator data.                     *)
Divided(bytes, flags, n, c) ==
  /\ parse(bytes) # {} <=> c >= 55 + n /\ (flags \div 64) % 2 = 1
  /\ \A a \in parse(bytes) :
       /\ a.rp_id_hash \o a.flags \o a.sign_count \o a.aaguid
            \o Bytes(<<n \div 256, n % 256>>) \o a.credential_id \o a.credential_public_key
            = bytes
       /\ Len(a.credential_id) = n

LEMMA ParseDivides ==
  ASSUME NEW flags \in Nat, NEW n \in Nat, NEW cose, IsData(cose),
         NEW c \in 0..Len(EncAuthData(flags, n, cose))
  PROVE  Divided(SubSeq(EncAuthData(flags, n, cose), 1, c), flags, n, c)
<1>0. PICK e : e = EncAuthData(flags, n, cose)
  OBVIOUS
<1> DEFINE b == SubSeq(e, 1, c)
           S == {b[i] : i \in DOMAIN b}
           At == (flags \div 64) % 2 = 1
<1>1. /\ e[33].v = flags
      /\ e[54] = [t |-> "byte", v |-> n \div 256] /\ e[55] = [t |-> "byte", v |-> n % 256]
  <2>1. HasFlagsAndLength(e, flags, n)
    BY <1>0, AuthDataIsData
  <2> QED BY <2>1 DEF HasFlagsAndLength
<1>2. IsData(e)
  BY <1>0, AuthDataIsData
<1>3. c \in 0..Len(e) /\ Len(e) \in Nat
  BY <1>0, <1>2, SequenceOfElements DEF IsData
<1>4. IsData(b) /\ Len(b) = c /\ \A i \in 1..c : b[i] = e[i]
  BY <1>2, <1>3, DataUpTo
<1>5. b \in Seq(S)
  BY <1>4, SequenceOfElements DEF IsData
<1> HIDE DEF b, S
<1>6. c \in Nat
  BY <1>3
<1>7. c >= 55 => cred_id_len(b) = n /\ b[33].v = flags /\ b[54] = e[54] /\ b[55] = e[55]
  <2> SUFFICES ASSUME c >= 55
               PROVE  cred_id_len(b) = n /\ b[33].v = flags /\ b[54] = e[54] /\ b[55] = e[55]
    OBVIOUS
  <2>1. b[33] = e[33] /\ b[54] = e[54] /\ b[55] = e[55]
    BY <1>4, <1>6
  <2>2. n = 256 * (n \div 256) + (n % 256)
    OBVIOUS
  <2> QED BY <2>1, <2>2, <1>1 DEF cred_id_len
<1> DEFINE Whole == c >= 55 + n /\ At
<1>8. CASE ~Whole
  <2>1. parse(b) = {}
    <3> SUFFICES ASSUME Len(b) >= 55, HasAtFlag(b), Len(b) >= 55 + cred_id_len(b) PROVE FALSE
      BY DEF parse
    <3>1. c >= 55
      BY <1>4
    <3> QED BY <3>1, <1>4, <1>7, <1>8 DEF HasAtFlag
  <2> QED BY <2>1, <1>0, <1>8 DEF b, Divided
<1>9. CASE Whole
  <2> DEFINE a == [rp_id_hash |-> SubSeq(b, 1, 32), flags |-> SubSeq(b, 33, 33),
                   sign_count |-> SubSeq(b, 34, 37), aaguid |-> SubSeq(b, 38, 53),
                   credential_id |-> SubSeq(b, 56, 55 + n),
                   credential_public_key |-> SubSeq(b, 56 + n, Len(b))]
             size == Bytes(<<n \div 256, n % 256>>)
  <2>0. c >= 55 /\ c >= 55 + n /\ cred_id_len(b) = n /\ HasAtFlag(b)
    BY <1>6, <1>7, <1>9 DEF HasAtFlag
  <2>1. parse(b) = {a}
    BY <2>0, <1>4, <1>6 DEF parse
  <2>2. size = SubSeq(b, 54, 55)
    <3> DEFINE part == SubSeq(b, 54, 55)
    <3>1. size = <<e[54], e[55]>>
      BY <1>1 DEF Bytes
    <3>2. \A i \in 54..55 : b[i] \in S
      BY <2>0, <1>4, <1>5, <1>6, ElementOfSeq
    <3>3. part \in Seq(S) /\ Len(part) = 2 /\ part[1] = b[54] /\ part[2] = b[55]
      <4>1. /\ part \in Seq(S) /\ Len(part) = IF 54 <= 55 THEN 55 - 54 + 1 ELSE 0
            /\ \A i \in 1..55 - 54 + 1 : part[i] = b[54 + i - 1]
        BY <3>2, SubSeqProperties
      <4> HIDE DEF part
      <4> QED BY <4>1
    <3> HIDE DEF part
    <3>4. part = <<part[1], part[2]>>
      BY <3>3
    <3> QED BY <3>1, <3>3, <3>4, <2>0, <1>7 DEF part
  <2> HIDE DEF size
  <2> DEFINE Upto(k) == SubSeq(b, 1, k)
  <2>3. /\ Upto(32) \o SubSeq(b, 32 + 1, 33) = Upto(33)
        /\ Upto(33) \o SubSeq(b, 33 + 1, 37) = Upto(37)
        /\ Upto(37) \o SubSeq(b, 37 + 1, 53) = Upto(53)
        /\ Upto(53) \o SubSeq(b, 53 + 1, 55) = Upto(55)
    BY <2>0, <1>4, <1>5, <1>6, Adjacent
  <2>4. /\ Upto(55) \o SubSeq(b, 55 + 1, 55 + n) = Upto(55 + n)
        /\ Upto(55 + n) \o SubSeq(b, (55 + n) + 1, Len(b)) = Upto(Len(b))
    BY <2>0, <1>4, <1>5, <1>6, Adjacent
  <2>5. Upto(Len(b)) = b
    BY <1>5, SubSeqFull
  <2>6. Len(SubSeq(b, 56, 55 + n)) = n
    <3>1. \A i \in 56..55 + n : b[i] \in S
      BY <2>0, <1>4, <1>5, <1>6, ElementOfSeq
    <3>2. Len(SubSeq(b, 56, 55 + n)) = IF 56 <= 55 + n THEN (55 + n) - 56 + 1 ELSE 0
      BY <3>1, SubSeqProperties
    <3> QED BY <3>2
  <2>7. /\ a.rp_id_hash \o a.flags \o a.sign_count \o a.aaguid
             \o size \o a.credential_id \o a.credential_public_key
             = b
        /\ Len(a.credential_id) = n
    <3>1. /\ a.rp_id_hash = Upto(32) /\ a.flags = SubSeq(b, 32 + 1, 33)
          /\ a.sign_count = SubSeq(b, 33 + 1, 37) /\ a.aaguid = SubSeq(b, 37 + 1, 53)
          /\ size = SubSeq(b, 53 + 1, 55) /\ a.credential_id = SubSeq(b, 55 + 1, 55 + n)
          /\ a.credential_public_key = SubSeq(b, (55 + n) + 1, Len(b))
      BY <2>2
    <3>2. a.credential_id = SubSeq(b, 56, 55 + n)
      OBVIOUS
    <3> HIDE DEF a, Upto
    <3> QED BY <3>1, <3>2, <2>3, <2>4, <2>5, <2>6, ZenonT(40)
  <2> HIDE DEF a
  <2>8. parse(b) # {} /\ \A x \in parse(b) : x = a
    BY <2>1
  <2> QED BY <2>7, <2>8, <1>0, <1>9, ZenonT(40) DEF b, size, Divided
<1> QED BY <1>8, <1>9

----------------------------------------------------------------------------
(* What is read is one of the families, and no more of it has arrived than *)
(* there is.                                                               *)
ReaderInv ==
  /\ subject.kind = "chain" => \E i \in DOMAIN Chains : subject.chain = Chains[i]
  /\ subject.kind = "object" => /\ \E i \in DOMAIN AuthDatas : subject.auth = AuthDatas[i]
                                /\ \E i \in DOMAIN Objects : subject.object = Objects[i]
  /\ subject.kind = "assertion" =>
       \E i \in DOMAIN AssertionMaps : subject.assertion = AssertionMaps[i]
  /\ cut \in 0..Size(subject)

LEMMA AuthOfSubject ==
  ASSUME subject.kind = "object", \E i \in DOMAIN AuthDatas : subject.auth = AuthDatas[i]
  PROVE  /\ subject.auth.flags \in Nat /\ subject.auth.id \in Nat /\ IsData(subject.auth.key)
         /\ IsData(EncAuthData(subject.auth.flags, subject.auth.id, subject.auth.key))
         /\ Size(subject) = Len(EncAuthData(subject.auth.flags, subject.auth.id, subject.auth.key))
<1>1. PICK i \in DOMAIN AuthDatas : subject.auth = AuthDatas[i]
  OBVIOUS
<1>2. /\ AuthDatas[i].flags \in 0..255 /\ AuthDatas[i].id \in 0..256 * 256 - 1
      /\ IsData(AuthDatas[i].key)
  BY ReadersAssumption
<1>3. subject.auth.flags \in Nat /\ subject.auth.id \in Nat /\ IsData(subject.auth.key)
  <2>1. /\ \A x \in 0..255 : x \in Nat
        /\ \A x \in 0..256 * 256 - 1 : x \in Nat
    OBVIOUS
  <2>2. AuthDatas[i].flags \in Nat /\ AuthDatas[i].id \in Nat /\ IsData(AuthDatas[i].key)
    BY <2>1, <1>2, Zenon
  <2> QED BY <2>2, <1>1
<1>4. Size(subject) = Len(EncAuthData(subject.auth.flags, subject.auth.id, subject.auth.key))
  BY DEF Size
<1> QED BY <1>3, <1>4, AuthDataIsData

LEMMA ReaderInvHolds == ReadersSpec => []ReaderInv
<1>1. ReadersInit => ReaderInv
  <2> SUFFICES ASSUME ReadersInit PROVE ReaderInv
    OBVIOUS
  <2>1. /\ subject.kind = "chain" => \E i \in DOMAIN Chains : subject.chain = Chains[i]
        /\ subject.kind = "object" => /\ \E i \in DOMAIN AuthDatas : subject.auth = AuthDatas[i]
                                      /\ \E i \in DOMAIN Objects : subject.object = Objects[i]
        /\ subject.kind = "assertion" =>
             \E i \in DOMAIN AssertionMaps : subject.assertion = AssertionMaps[i]
    BY DEF ReadersInit
  <2>2. Size(subject) \in Nat
    <3>1. CASE subject.kind = "object"
      BY <2>1, <3>1, AuthOfSubject, SequenceOfElements DEF IsData
    <3>2. CASE subject.kind # "object"
      BY <3>2 DEF Size
    <3> QED BY <3>1, <3>2
  <2> QED BY <2>1, <2>2 DEF ReadersInit, ReaderInv
<1>2. ReaderInv /\ [Arrive]_readerVars => ReaderInv'
  <2> SUFFICES ASSUME ReaderInv, [Arrive]_readerVars PROVE ReaderInv'
    OBVIOUS
  <2>1. subject' = subject
    BY DEF Arrive, readerVars
  <2>2. Size(subject)' = Size(subject)
    BY <2>1 DEF Size
  <2>3. cut' \in 0..Size(subject)
    <3>1. CASE Arrive
      <4>1. Size(subject) \in Nat
        <5>1. CASE subject.kind = "object"
          BY <5>1, AuthOfSubject, SequenceOfElements DEF ReaderInv, IsData
        <5>2. CASE subject.kind # "object"
          BY <5>2 DEF Size
        <5> QED BY <5>1, <5>2
      <4> QED BY <3>1, <4>1 DEF Arrive, ReaderInv
    <3>2. CASE UNCHANGED readerVars
      BY <3>2 DEF readerVars, ReaderInv
    <3> QED BY <3>1, <3>2
  <2> QED BY <2>1, <2>2, <2>3 DEF ReaderInv
<1> QED BY <1>1, <1>2, PTL DEF ReadersSpec

(* parse divides authenticator data of every id length, cut anywhere,      *)
(* without loss or overlap.                                                *)
THEOREM AuthDataDivided == ReadersSpec => []AuthDataWhole
<1>1. ReaderInv => AuthDataWhole
  <2> SUFFICES ASSUME ReaderInv, subject.kind = "object" PROVE AuthDataWhole
    BY DEF AuthDataWhole
  <2> DEFINE e == EncAuthData(subject.auth.flags, subject.auth.id, subject.auth.key)
  <2>1. /\ subject.auth.flags \in Nat /\ subject.auth.id \in Nat /\ IsData(subject.auth.key)
        /\ cut \in 0..Len(e)
    BY AuthOfSubject DEF ReaderInv
  <2>2. Divided(AuthBytes, subject.auth.flags, subject.auth.id, cut)
    BY <2>1, ParseDivides DEF AuthBytes
  <2> QED BY <2>2 DEF AuthDataWhole, Divided
<1> QED BY <1>1, ReaderInvHolds, PTL

(* What a loop assigns, once the map is known to be a sequence.            *)
LEMMA AssignedByLast ==
  ASSUME NEW map, IsSeq(map), NEW key, NEW type
  PROVE  /\ Assigned(map, key, type)
              = IF LastIs(map, key, type) THEN {LastEntry(map, key).v} ELSE {}
         /\ Entries(map, key) # {} =>
              \E i \in DOMAIN map : LastEntry(map, key) = map[i].v /\ Same(map[i].k, key)
<1>1. Len(map) \in Nat /\ DOMAIN map = 1..Len(map)
  BY SequenceOfElements
<1>2. Assigned(map, key, type)
        = IF Entries(map, key) = {} THEN {} ELSE As(type, LastEntry(map, key))
  BY <1>1, AssignedIsLast
<1>3. Entries(map, key) # {} => \E i \in Entries(map, key) : LastEntry(map, key) = map[i].v
  BY <1>1, AssignedIsLast
<1> QED BY <1>2, <1>3 DEF As, LastIs, Entries

LEMMA ObjectIsMap ==
  ASSUME ReaderInv, subject.kind = "object"
  PROVE  IsMap(AttObject.v) /\ AttObject.t = "map"
<1> DEFINE auth == <<[k |-> Text("authData"), v |-> [t |-> "bytes", v |-> AuthBytes]]>>
<1>1. IsAuthData(AuthBytes)
  <2> DEFINE n == subject.auth.id
             e == EncAuthData(subject.auth.flags, n, subject.auth.key)
  <2>1. n \in Nat /\ IsData(e) /\ cut \in 0..Len(e) /\ HasFlagsAndLength(e, subject.auth.flags, n)
    BY AuthOfSubject, AuthDataIsData DEF ReaderInv
  <2> HIDE DEF e, n
  <2>2. /\ IsData(SubSeq(e, 1, cut)) /\ Len(SubSeq(e, 1, cut)) = cut
        /\ \A i \in 1..cut : SubSeq(e, 1, cut)[i] = e[i]
    BY <2>1, DataUpTo
  <2>3. IsData(AuthBytes) /\ Len(AuthBytes) = cut /\ \A i \in 1..cut : AuthBytes[i] = e[i]
    BY <2>2 DEF AuthBytes, e, n
  <2>4. cut \in Nat
    BY <2>1
  <2>5. ASSUME Len(AuthBytes) >= 55 PROVE cred_id_len(AuthBytes) \in Nat
    <3>1. AuthBytes[54] = e[54] /\ AuthBytes[55] = e[55]
      BY <2>3, <2>4, <2>5
    <3>2. e[54].v = n \div 256 /\ e[55].v = n % 256
      BY <2>1 DEF HasFlagsAndLength
    <3> QED BY <3>1, <3>2, <2>1 DEF cred_id_len
  <2> QED BY <2>3, <2>5 DEF IsAuthData
<1>2. IsMap(auth)
  <2>1. IsSeq(auth)
    BY DEF IsSeq
  <2>2. /\ DOMAIN auth = {1} /\ auth[1].v.t = "bytes" /\ auth[1].v.v = AuthBytes
    OBVIOUS
  <2> HIDE DEF auth
  <2> QED BY <1>1, <2>1, <2>2 DEF IsMap
<1>3. IsMap(subject.object.before) /\ IsMap(subject.object.after)
  BY ReadersAssumption DEF ReaderInv
<1> HIDE DEF auth
<1>4. IsMap(subject.object.before \o auth \o subject.object.after)
  BY <1>2, <1>3, MapsTogether
<1> QED BY <1>1, <1>4 DEF AttObject, ObjectMap, auth

LEMMA ObjectRead ==
  ASSUME ReaderInv, subject.kind = "object"
  PROVE  ObjectReadByLast
<1> DEFINE m == AttObject.v
           stmt == LastEntry(m, Text("attStmt")).v
           read == decode_attestation_object(AttObject)
           fmt == LastEntry(m, Text("fmt")).v
           auth == LastEntry(m, Text("authData")).v
           certs == LastEntry(stmt, Text("x5c")).v
           Accepted ==
             /\ AllText(m) /\ LastIs(m, Text("fmt"), "text") /\ LastIs(m, Text("authData"), "bytes")
             /\ LastIs(m, Text("attStmt"), "map") /\ AllText(stmt)
             /\ Entries(stmt, Text("x5c")) # {} /\ X5cValid(stmt)
           Result(f, a, s, c) == [fmt |-> f, auth_data |-> a, x5c |-> [i \in DOMAIN c |-> c[i].v],
                                  receipt |-> Receipt(s)]
<1>1. IsMap(m) /\ AttObject.t = "map"
  BY ObjectIsMap
<1>2. As("map", AttObject) = {m}
  BY <1>1 DEF As
<1> HIDE DEF m
<1>3. \A r : r \in read <=>
        /\ AllText(m)
        /\ \E s \in Assigned(m, Text("attStmt"), "map") :
             /\ AllText(s) /\ X5cValid(s)
             /\ \E f \in Assigned(m, Text("fmt"), "text"),
                   a \in Assigned(m, Text("authData"), "bytes"),
                   c \in Assigned(s, Text("x5c"), "array") : r = Result(f, a, s, c)
  BY <1>2 DEF decode_attestation_object
<1> HIDE DEF read, Result, stmt, fmt, auth, certs
<1>4. /\ Assigned(m, Text("fmt"), "text") = IF LastIs(m, Text("fmt"), "text") THEN {fmt} ELSE {}
      /\ Assigned(m, Text("authData"), "bytes")
           = IF LastIs(m, Text("authData"), "bytes") THEN {auth} ELSE {}
      /\ Assigned(m, Text("attStmt"), "map")
           = IF LastIs(m, Text("attStmt"), "map") THEN {stmt} ELSE {}
  BY <1>1, AssignedByLast DEF IsMap, fmt, auth, stmt
<1>5. ASSUME LastIs(m, Text("attStmt"), "map"), X5cValid(stmt)
      PROVE  Assigned(stmt, Text("x5c"), "array")
               = IF Entries(stmt, Text("x5c")) # {} THEN {certs} ELSE {}
  <2>1. IsSeq(stmt)
    <3>1. PICK i \in DOMAIN m : LastEntry(m, Text("attStmt")) = m[i].v
      BY <1>1, <1>5, AssignedByLast DEF IsMap, LastIs
    <3> QED BY <3>1, <1>1, <1>5 DEF IsMap, LastIs, stmt
  <2>2. Assigned(stmt, Text("x5c"), "array")
          = IF LastIs(stmt, Text("x5c"), "array") THEN {certs} ELSE {}
    BY <2>1, AssignedByLast DEF certs
  <2>3. Entries(stmt, Text("x5c")) # {} => LastEntry(stmt, Text("x5c")).t = "array"
    <3>1. Entries(stmt, Text("x5c")) # {} =>
            \E i \in DOMAIN stmt : /\ LastEntry(stmt, Text("x5c")) = stmt[i].v
                                   /\ Same(stmt[i].k, Text("x5c"))
      BY <2>1, AssignedByLast
    <3> QED BY <3>1, <1>5 DEF X5cValid
  <2> QED BY <2>2, <2>3 DEF LastIs
<1>6. \A r : r \in read <=> Accepted /\ r = Result(fmt, auth, stmt, certs)
  BY <1>3, <1>4, <1>5
<1>7. read # {} <=> Accepted
  BY <1>6
<1>8. \A r \in read : /\ r.fmt = fmt /\ r.auth_data = auth
                      /\ r.x5c = [i \in DOMAIN certs |-> certs[i].v]
  BY <1>6 DEF Result
<1> QED BY <1>7, <1>8 DEF ObjectReadByLast, m, read, stmt, fmt, auth, certs

LEMMA AssertionRead ==
  ASSUME ReaderInv, subject.kind = "assertion"
  PROVE  AssertionReadByLast
<1> DEFINE m == subject.assertion
           read == decode_assertion([t |-> "map", v |-> m])
           signature == LastEntry(m, Text("signature")).v
           auth == LastEntry(m, Text("authenticatorData")).v
           Result(s, a) == [signature |-> s, auth_data |-> a]
<1>1. IsSeq(m)
  BY ReadersAssumption DEF ReaderInv
<1> HIDE DEF m
<1>2. \A r : r \in read <=>
        /\ AllText(m)
        /\ \E s \in Assigned(m, Text("signature"), "bytes"),
              a \in Assigned(m, Text("authenticatorData"), "bytes") :
             Len(a) >= 37 /\ r = Result(s, a)
  BY DEF decode_assertion, As
<1> HIDE DEF read, Result, signature, auth
<1>3. /\ Assigned(m, Text("signature"), "bytes")
           = IF LastIs(m, Text("signature"), "bytes") THEN {signature} ELSE {}
      /\ Assigned(m, Text("authenticatorData"), "bytes")
           = IF LastIs(m, Text("authenticatorData"), "bytes") THEN {auth} ELSE {}
  BY <1>1, AssignedByLast DEF signature, auth
<1>4. \A r : r \in read <=>
        /\ AllText(m) /\ LastIs(m, Text("signature"), "bytes")
        /\ LastIs(m, Text("authenticatorData"), "bytes") /\ Len(auth) >= 37
        /\ r = Result(signature, auth)
  BY <1>2, <1>3
<1>5. \A r \in read : r.signature = signature /\ r.auth_data = auth
  BY <1>4 DEF Result
<1> QED BY <1>4, <1>5 DEF AssertionReadByLast, m, read, signature, auth

(* Of the entries with one key the last decides, in maps of every length.  *)
THEOREM LastDecides == ReadersSpec => []LastEntryDecides
<1>1. ReaderInv => LastEntryDecides
  BY ObjectRead, AssertionRead DEF LastEntryDecides
<1> QED BY <1>1, ReaderInvHolds, PTL

(* A CBOR map read from the items of a COSE_Key has at most one x and y.   *)
LEMMA OneCoordinate ==
  ASSUME NEW map, IsSeq(map), NEW label, NEW x \in Coordinate(map, label),
         NEW y \in Coordinate(map, label)
  PROVE  x = y
BY AssignedByLast DEF Coordinate

LEMMA CoseMapIsSeq ==
  ASSUME NEW items, IsData(items), NEW map \in CoseMap(items)
  PROVE  IsSeq(map) /\ \A other \in CoseMap(items) : other = map
<1> DEFINE S == {items[i] : i \in DOMAIN items}
           n == items[1].v
<1>1. items # <<>> /\ items[1].t = "header"
  BY DEF CoseMap
<1>2. items \in Seq(S) /\ DOMAIN items = 1..Len(items)
  BY SequenceOfElements DEF IsData
<1> HIDE DEF S
<1>3. 1 \in DOMAIN items
  BY <1>1, <1>2, EmptySeq
<1>4. n \in Nat
  BY <1>1, <1>3 DEF IsData
<1>5. map = [i \in 1..n |-> [k |-> items[2 * i], v |-> items[2 * i + 1]]]
  BY <1>1 DEF CoseMap
<1> HIDE DEF n
<1>6. IsSeq(map)
  BY <1>4, <1>5 DEF IsSeq
<1> QED BY <1>6 DEF CoseMap

(* Either reader finds this key, if it finds any.                          *)
KeysOf(items) ==
  UNION {{Sec1(x, y) : x \in Coordinate(m, -2), y \in Coordinate(m, -3)} : m \in CoseMap(items)}

LEMMA OneKey ==
  ASSUME NEW items, IsData(items), NEW k \in KeysOf(items), NEW l \in KeysOf(items)
  PROVE  k = l
<1>1. PICK m \in CoseMap(items) :
        \E x \in Coordinate(m, -2), y \in Coordinate(m, -3) : k = Sec1(x, y)
  BY DEF KeysOf
<1>2. PICK o \in CoseMap(items) :
        \E x \in Coordinate(o, -2), y \in Coordinate(o, -3) : l = Sec1(x, y)
  BY DEF KeysOf
<1>3. IsSeq(m) /\ o = m
  BY CoseMapIsSeq
<1> QED BY <1>1, <1>2, <1>3, OneCoordinate

LEMMA BothReadKeys ==
  ASSUME NEW items
  PROVE  extract_p256_pk(items) \subseteq KeysOf(items) /\ SwiftCoseKey(items) \subseteq KeysOf(items)
BY DEF extract_p256_pk, SwiftCoseKey, KeysOf

LEMMA DataFrom ==
  ASSUME NEW s, IsData(s), NEW k \in Nat \ {0}
  PROVE  IsData(SubSeq(s, k, Len(s)))
<1> DEFINE S == {s[i] : i \in DOMAIN s}
           u == SubSeq(s, k, Len(s))
<1>1. DOMAIN s = 1..Len(s) /\ Len(s) \in Nat
  BY SequenceOfElements DEF IsData
<1>2. \A x \in S : x.t = "header" => x.v \in Nat
  BY DEF IsData
<1>3. \A i \in k..Len(s) : s[i] \in S
  BY <1>1
<1> HIDE DEF S
<1>4. u \in Seq(S)
  BY <1>1, <1>3, SubSeqProperties
<1> HIDE DEF u
<1>5. IsData(u)
  BY <1>2, <1>4, SequencesAreSeq, LenProperties, ElementOfSeq DEF IsData
<1> QED BY <1>5 DEF u

(* The iOS client and the verifier read one key, in every object.          *)
LEMMA OneReadsAsTheOther ==
  ASSUME ReaderInv, subject.kind = "object"
  PROVE  ClientAgrees
<1> DEFINE m == AttObject.v
           authData == LastEntry(m, Text("authData")).v
           items == SubSeq(authData, 56 + cred_id_len(authData), Len(authData))
           There == LastIs(m, Text("authData"), "bytes") /\ Len(authData) >= 55
           server == AttestedKey(AttObject)
           client == extractAttestedPublicKey(AttObject)
           Readable == MapReads(m, "text", [k \in {"authData"} |-> "bytes"])
<1>1. IsMap(m) /\ AttObject.t = "map"
  BY ObjectIsMap
<1>2. As("map", AttObject) = {m}
  BY <1>1 DEF As
<1> HIDE DEF m
<1>3. Assigned(m, Text("authData"), "bytes")
        = IF LastIs(m, Text("authData"), "bytes") THEN {authData} ELSE {}
  BY <1>1, AssignedByLast DEF IsMap
<1>4. There => IsData(items)
  <2> SUFFICES ASSUME There PROVE IsData(items)
    OBVIOUS
  <2>1. PICK i \in DOMAIN m :
          LastEntry(m, Text("authData")) = m[i].v /\ Same(m[i].k, Text("authData"))
    BY <1>1, AssignedByLast DEF IsMap, LastIs
  <2>2. IsAuthData(authData)
    BY <1>1, <2>1 DEF IsMap, LastIs
  <2> HIDE DEF authData
  <2>3. 56 + cred_id_len(authData) \in Nat \ {0}
    BY <2>2 DEF IsAuthData
  <2> QED BY <2>2, <2>3, DataFrom DEF IsAuthData
<1>5. \A o \in decode_attestation_object(AttObject) :
        o.auth_data = authData /\ LastIs(m, Text("authData"), "bytes")
  BY ObjectRead DEF ObjectReadByLast, m
<1> HIDE DEF authData
<1>6. \A a \in parse(authData) : a.credential_public_key = items /\ Len(authData) >= 55
                                  /\ Len(authData) >= 55 + cred_id_len(authData)
  <2> SUFFICES ASSUME NEW a \in parse(authData)
               PROVE  /\ a.credential_public_key = items /\ Len(authData) >= 55
                      /\ Len(authData) >= 55 + cred_id_len(authData)
    OBVIOUS
  <2>1. Len(authData) >= 55 /\ Len(authData) >= 55 + cred_id_len(authData)
    BY DEF parse
  <2>2. a.credential_public_key = items
    <3> DEFINE d == authData
               n == cred_id_len(d)
               r == [rp_id_hash |-> SubSeq(d, 1, 32), flags |-> SubSeq(d, 33, 33),
                     sign_count |-> SubSeq(d, 34, 37), aaguid |-> SubSeq(d, 38, 53),
                     credential_id |-> SubSeq(d, 56, 55 + n),
                     credential_public_key |-> SubSeq(d, 56 + n, Len(d))]
    <3>1. parse(d) \subseteq {r}
      BY DEF parse
    <3>2. r.credential_public_key = items
      BY DEF items
    <3> HIDE DEF r
    <3> QED BY <3>1, <3>2
  <2> QED BY <2>1, <2>2
<1> HIDE DEF items
<1>7. \A k \in server :
        /\ There /\ Len(authData) >= 55 + cred_id_len(authData) /\ k \in extract_p256_pk(items)
        /\ \E o \in decode_attestation_object(AttObject) : \E a \in parse(o.auth_data) :
             a.credential_public_key = items
  BY <1>5, <1>6 DEF AttestedKey
<1>8. \A k : k \in client <=> /\ Readable /\ There /\ 55 + cred_id_len(authData) <= Len(authData)
                              /\ k \in SwiftCoseKey(items)
  BY <1>2, <1>3 DEF extractAttestedPublicKey, items
<1>9. \A k, l \in server \cup client : k = l
  <2>1. \A k \in server \cup client : There /\ k \in KeysOf(items)
    BY <1>7, <1>8, BothReadKeys
  <2> QED BY <2>1, <1>4, OneKey
<1>10. ASSUME server # {}, Readable,
              \A o \in decode_attestation_object(AttObject) : \A a \in parse(o.auth_data) :
                \A c \in CoseMap(a.credential_public_key) : MapReads(c, "int", CoseTypes)
       PROVE  client # {}
  <2>1. PICK k \in server : k \in extract_p256_pk(items)
    BY <1>7, <1>10
  <2>2. /\ There /\ Len(authData) >= 55 + cred_id_len(authData)
        /\ \A c \in CoseMap(items) : MapReads(c, "int", CoseTypes)
    BY <1>7, <1>10, <2>1
  <2>3. k \in SwiftCoseKey(items)
    BY <2>1, <2>2 DEF extract_p256_pk, SwiftCoseKey
  <2> QED BY <2>2, <2>3, <1>8, <1>10
<1>11. server # {} /\ client # {} => server = client
  BY <1>9
<1> QED BY <1>10, <1>11 DEF ClientAgrees, m

THEOREM ClientReadsTheAttestedKey == ReadersSpec => []ClientAgrees
<1>1. ReaderInv => ClientAgrees
  BY OneReadsAsTheOther DEF ClientAgrees
<1> QED BY <1>1, ReaderInvHolds, PTL

(* The loop of canonical_chain_hash_input over n certificates.             *)
Frame(cert) == to_be_bytes(Len(cert))
Run(f, certs, n) ==
  f = [k \in 0..n |-> IF k = 0 THEN <<>> ELSE f[k - 1] \o Frame(certs[k]) \o certs[k]]

(* A recursive function of TLA+ is a CHOOSE, so that there is one has to   *)
(* be shown.                                                               *)
LEMMA RunExists ==
  ASSUME NEW certs, NEW m \in Nat
  PROVE  \E f : Run(f, certs, m)
<1> DEFINE T == {n \in Nat : ~\E f : Run(f, certs, n)}
<1> SUFFICES ASSUME m \in T PROVE FALSE
  OBVIOUS
<1>1. PICK n \in T : \A k \in T : n <= k
  <2>1. T \in SUBSET Nat /\ T # {}
    OBVIOUS
  <2> HIDE DEF T
  <2> QED BY <2>1, LeastNumber
<1>2. n # 0
  <2>1. Run([k \in 0..0 |-> <<>>], certs, 0)
    BY DEF Run
  <2> QED BY <1>1, <2>1
<1>3. n - 1 \in Nat /\ n - 1 \notin T
  BY <1>1, <1>2
<1>4. PICK g : Run(g, certs, n - 1)
  BY <1>3
<1> DEFINE f == [k \in 0..n |-> IF k = n THEN g[n - 1] \o Frame(certs[n]) \o certs[n] ELSE g[k]]
<1>5. \A k \in 0..n : f[k] = IF k = 0 THEN <<>> ELSE f[k - 1] \o Frame(certs[k]) \o certs[k]
  <2> SUFFICES ASSUME NEW k \in 0..n
               PROVE  f[k] = IF k = 0 THEN <<>> ELSE f[k - 1] \o Frame(certs[k]) \o certs[k]
    OBVIOUS
  <2>1. \A j \in 0..n - 1 : f[j] = g[j]
    BY <1>1, <1>3
  <2>2. CASE k = n
    <3>1. f[n] = g[n - 1] \o Frame(certs[n]) \o certs[n]
      BY <2>2
    <3>2. n - 1 \in 0..n - 1
      BY <1>3
    <3> HIDE DEF f
    <3> QED BY <2>1, <2>2, <3>1, <3>2, <1>2
  <2>3. CASE k # n
    <3>1. k \in 0..n - 1 /\ (k # 0 => k - 1 \in 0..n - 1)
      BY <2>3, <1>1
    <3>2. g[k] = IF k = 0 THEN <<>> ELSE g[k - 1] \o Frame(certs[k]) \o certs[k]
      BY <3>1, <1>4 DEF Run
    <3> HIDE DEF f
    <3> QED BY <2>1, <3>1, <3>2
  <2> QED BY <2>2, <2>3
<1>6. Run(f, certs, n)
  <2>1. f = [k \in 0..n |-> f[k]]
    OBVIOUS
  <2> HIDE DEF f
  <2> QED BY <1>5, <2>1 DEF Run
<1> QED BY <1>1, <1>6

LEMMA InputIsRun ==
  ASSUME NEW certs, Len(certs) \in Nat
  PROVE  \E f : Run(f, certs, Len(certs)) /\ canonical_chain_hash_input(certs) = f[Len(certs)]
<1> DEFINE f == CHOOSE g : Run(g, certs, Len(certs))
<1>1. Run(f, certs, Len(certs))
  BY RunExists
<1>2. canonical_chain_hash_input(certs) = f[Len(certs)]
  BY Zenon DEF canonical_chain_hash_input, Run, Frame
<1> HIDE DEF f
<1> QED BY <1>1, <1>2

(* The length of a certificate is written in four bytes.                   *)
LEMMA FrameIsFour ==
  ASSUME NEW n \in Nat
  PROVE  to_be_bytes(n) \in Seq(Nat) /\ Len(to_be_bytes(n)) = 4
<1>1. /\ (n \div (256 * 256 * 256)) % 256 \in Nat /\ (n \div (256 * 256)) % 256 \in Nat
      /\ (n \div 256) % 256 \in Nat /\ n % 256 \in Nat
  OBVIOUS
<1> QED BY <1>1 DEF to_be_bytes

(* A u32 is what its four bytes say.                                       *)
LEMMA FrameDetermines ==
  ASSUME NEW n \in Nat, NEW m \in Nat, n \div (256 * 256 * 256) < 256,
         m \div (256 * 256 * 256) < 256, to_be_bytes(n) = to_be_bytes(m)
  PROVE  n = m
<1>1. /\ (n \div (256 * 256 * 256)) % 256 = (m \div (256 * 256 * 256)) % 256
      /\ (n \div (256 * 256)) % 256 = (m \div (256 * 256)) % 256
      /\ (n \div 256) % 256 = (m \div 256) % 256
      /\ n % 256 = m % 256
  BY DEF to_be_bytes
<1> QED BY <1>1

(* What one turn of the loop adds.                                         *)
Turn(f, certs, n) ==
  LET p == Len(f[n - 1])
      h == Frame(certs[n])
      c == certs[n]
  IN  /\ Len(f[n]) = p + Len(h) + Len(c)
      /\ \A i \in 1..p : f[n][i] = f[n - 1][i]
      /\ \A i \in 1..Len(h) : f[n][p + i] = h[i]
      /\ \A i \in 1..Len(c) : f[n][p + Len(h) + i] = c[i]

(* Three sequences one after the other.                                    *)
LEMMA TurnAppends ==
  ASSUME NEW S, NEW a \in Seq(S), NEW h \in Seq(S), NEW c \in Seq(S), NEW u, u = a \o h \o c
  PROVE  /\ u \in Seq(S) /\ Len(u) = Len(a) + Len(h) + Len(c)
         /\ \A i \in 1..Len(a) : u[i] = a[i]
         /\ \A i \in 1..Len(h) : u[Len(a) + i] = h[i]
         /\ \A i \in 1..Len(c) : u[Len(a) + Len(h) + i] = c[i]
<1> DEFINE v == a \o h
<1>1. /\ v \in Seq(S) /\ Len(v) = Len(a) + Len(h)
      /\ \A i \in 1..Len(a) : v[i] = a[i]
      /\ \A i \in 1..Len(h) : v[Len(a) + i] = h[i]
  BY Together
<1>2. Len(a) \in Nat /\ Len(h) \in Nat
  BY LenProperties
<1>3. u = v \o c
  OBVIOUS
<1> HIDE DEF v
<1>4. /\ u \in Seq(S) /\ Len(u) = Len(v) + Len(c)
      /\ \A i \in 1..Len(v) : u[i] = v[i]
      /\ \A i \in 1..Len(c) : u[Len(v) + i] = c[i]
  <2>1. v \in Seq(S)
    BY <1>1
  <2>2. u \in Seq(S)
    BY <2>1, <1>3, ConcatProperties
  <2> QED BY <2>1, <2>2, <1>3, Joined
<1>5. ASSUME NEW i \in 1..Len(a) PROVE u[i] = a[i]
  BY <1>1, <1>2, <1>4
<1>6. ASSUME NEW i \in 1..Len(h) PROVE u[Len(a) + i] = h[i]
  <2>1. Len(a) + i \in 1..Len(v)
    BY <1>1, <1>2
  <2> QED BY <2>1, <1>1, <1>4
<1> QED BY <1>1, <1>4, <1>5, <1>6

(* Every turn of a run does so, from nothing.                              *)
LEMMA RunTurns ==
  ASSUME NEW certs \in Seq(Seq(Nat)), NEW f, Run(f, certs, Len(certs))
  PROVE  /\ f[0] = <<>> /\ \A n \in 0..Len(certs) : f[n] \in Seq(Nat)
         /\ \A n \in 1..Len(certs) : Turn(f, certs, n)
<1> DEFINE S == Nat
           L == Len(certs)
<1>1. L \in Nat /\ \A n \in 1..L : certs[n] \in Seq(S)
  BY LenProperties, ElementOfSeq
<1>2. \A n \in 1..L : Frame(certs[n]) \in Seq(S)
  BY <1>1, LenProperties, FrameIsFour DEF Frame
<1>3. f[0] = <<>> /\ \A n \in 1..L : f[n] = f[n - 1] \o Frame(certs[n]) \o certs[n]
  <2>1. \A n \in 0..L : f[n] = IF n = 0 THEN <<>> ELSE f[n - 1] \o Frame(certs[n]) \o certs[n]
    BY DEF Run
  <2>2. 0 \in 0..L /\ \A n \in 1..L : n \in 0..L /\ n # 0
    BY <1>1
  <2> HIDE DEF L
  <2> QED BY <2>1, <2>2
<1> HIDE DEF S, L
<1>4. \A n \in 0..L : f[n] \in Seq(S)
  <2> DEFINE T == {n \in 0..L : f[n] \notin Seq(S)}
  <2> SUFFICES ASSUME T # {} PROVE FALSE
    OBVIOUS
  <2>1. PICK n \in T : \A k \in T : n <= k
    <3>1. T \in SUBSET Nat
      BY <1>1
    <3> HIDE DEF T
    <3> QED BY <3>1, LeastNumber
  <2>2. n # 0
    <3>1. <<>> \in Seq(S)
      BY EmptySeq
    <3> QED BY <3>1, <2>1, <1>3
  <2>3. n \in 1..L /\ n - 1 \in 0..L /\ n - 1 \notin T
    BY <2>1, <2>2, <1>1
  <2>4. f[n - 1] \in Seq(S)
    BY <2>3
  <2>5. /\ certs[n] \in Seq(S) /\ Frame(certs[n]) \in Seq(S)
        /\ f[n] = f[n - 1] \o Frame(certs[n]) \o certs[n]
    BY <2>3, <1>1, <1>2, <1>3
  <2>6. f[n] \in Seq(S)
    BY <2>4, <2>5, TurnAppends
  <2> QED BY <2>1, <2>6
<1>5. ASSUME NEW n \in 1..L PROVE Turn(f, certs, n)
  <2>1. n - 1 \in 0..L /\ f[n - 1] \in Seq(S)
    BY <1>1, <1>4
  <2>2. /\ certs[n] \in Seq(S) /\ Frame(certs[n]) \in Seq(S)
        /\ f[n] = f[n - 1] \o Frame(certs[n]) \o certs[n]
    BY <1>1, <1>2, <1>3
  <2>3. f[n - 1] \in Seq(S)
    BY <2>1
  <2> DEFINE a == f[n - 1]
             h == Frame(certs[n])
             c == certs[n]
             u == f[n]
  <2>4. a \in Seq(S) /\ h \in Seq(S) /\ c \in Seq(S) /\ u = a \o h \o c
    BY <2>2, <2>3
  <2> HIDE DEF a, h, c, u
  <2>5. /\ Len(u) = Len(a) + Len(h) + Len(c)
        /\ \A i \in 1..Len(a) : u[i] = a[i]
        /\ \A i \in 1..Len(h) : u[Len(a) + i] = h[i]
        /\ \A i \in 1..Len(c) : u[Len(a) + Len(h) + i] = c[i]
    BY <2>4, TurnAppends
  <2> QED BY <2>5 DEF Turn, a, h, c, u
<1> QED BY <1>3, <1>4, <1>5 DEF S, L

(* What the loop has after n certificates is the beginning of what it has  *)
(* at the end, and shorter if certificates follow.                         *)
Kept(f, certs, n) ==
  LET L == Len(certs)
  IN  /\ Len(f[n]) <= Len(f[L]) /\ (n < L => Len(f[n]) < Len(f[L]))
      /\ \A i \in 1..Len(f[n]) : f[L][i] = f[n][i]

LEMMA Longer ==
  ASSUME NEW a \in Nat, NEW h, NEW x \in Nat, NEW b \in Nat, h = 4, b = a + h + x
  PROVE  a < b
OBVIOUS

LEMMA Within ==
  ASSUME NEW p \in Nat, NEW x \in Nat
  PROVE  /\ \A i \in 1..4 : p + i \in 1..p + 4 + x
         /\ \A i \in 1..x : p + 4 + i \in 1..p + 4 + x
OBVIOUS

LEMMA RunKeeps ==
  ASSUME NEW certs \in Seq(Seq(Nat)), NEW f, Run(f, certs, Len(certs)), NEW n \in 0..Len(certs)
  PROVE  Kept(f, certs, n)
<1> DEFINE L == Len(certs)
           T == {k \in 0..L : ~Kept(f, certs, L - k)}
<1>1. /\ L \in Nat /\ \A k \in 0..L : Len(f[k]) \in Nat
      /\ \A k \in 1..L : Turn(f, certs, k) /\ certs[k] \in Seq(Nat)
                         /\ Len(certs[k]) \in Nat /\ Len(Frame(certs[k])) = 4
  BY RunTurns, LenProperties, ElementOfSeq, FrameIsFour DEF Frame
<1>2. SUFFICES ASSUME T # {} PROVE FALSE
  <2>1. L - n \in 0..L /\ L - (L - n) = n
    BY <1>1
  <2> QED BY <2>1
<1>3. PICK k \in T : \A j \in T : k <= j
  <2>1. T \in SUBSET Nat
    BY <1>1
  <2> HIDE DEF T
  <2> QED BY <2>1, <1>2, LeastNumber
<1>4. k # 0
  <2>1. L - 0 = L /\ L \in 0..L
    BY <1>1
  <2>2. Kept(f, certs, L)
    BY <1>1, <2>1 DEF Kept
  <2> QED BY <2>1, <2>2, <1>3
<1> DEFINE m == L - k
<1>5. /\ m \in 0..L - 1 /\ m \in 0..L /\ m + 1 \in 1..L /\ (m + 1) - 1 = m
      /\ k - 1 \in 0..L /\ ~(k <= k - 1) /\ L - (k - 1) = m + 1
  BY <1>1, <1>3, <1>4
<1>6. Kept(f, certs, m + 1) /\ ~Kept(f, certs, m)
  BY <1>3, <1>5
<1> HIDE DEF m, T
<1>7. /\ Len(f[m + 1]) <= Len(f[L]) /\ \A i \in 1..Len(f[m + 1]) : f[L][i] = f[m + 1][i]
  BY <1>6 DEF Kept
<1>8. /\ Len(f[m + 1]) = Len(f[m]) + Len(Frame(certs[m + 1])) + Len(certs[m + 1])
      /\ \A i \in 1..Len(f[m]) : f[m + 1][i] = f[m][i]
  <2>1. Turn(f, certs, m + 1)
    BY <1>1, <1>5
  <2> QED BY <2>1, <1>5 DEF Turn
<1>9. Len(f[m + 1]) = Len(f[m]) + Len(Frame(certs[m + 1])) + Len(certs[m + 1])
  BY <1>8
<1>10. Len(f[m]) < Len(f[m + 1]) /\ Len(f[m]) \in Nat /\ Len(f[m + 1]) \in Nat /\ Len(f[L]) \in Nat
  <2>1. Len(certs[m + 1]) \in Nat /\ Len(Frame(certs[m + 1])) = 4
    BY <1>1, <1>5
  <2>2. Len(f[m]) \in Nat /\ Len(f[m + 1]) \in Nat /\ Len(f[L]) \in Nat
    <3>1. m + 1 \in 0..L /\ L \in 0..L
      BY <1>1, <1>5
    <3> QED BY <3>1, <1>1, <1>5
  <2> QED BY <2>1, <2>2, <1>9, Longer
<1>11. \A i \in 1..Len(f[m]) : i \in 1..Len(f[m + 1])
  BY <1>10
<1>12. Kept(f, certs, m)
  <2>1. Len(f[m]) <= Len(f[L]) /\ Len(f[m]) < Len(f[L])
    <3>1. Len(f[m + 1]) <= Len(f[L])
      BY <1>7
    <3> QED BY ONLY <3>1, <1>10
  <2>2. \A i \in 1..Len(f[m]) : f[L][i] = f[m][i]
    BY <1>7, <1>8, <1>11
  <2> QED BY <2>1, <2>2 DEF Kept
<1> QED BY <1>6, <1>12

(* The length of every certificate fits in four bytes.                     *)
Short(certs) == \A j \in 1..Len(certs) : Len(certs[j]) \div (256 * 256 * 256) < 256

(* Two runs with one result.                                               *)
Pair(f, c, g, d) ==
  /\ c \in Seq(Seq(Nat)) /\ Run(f, c, Len(c)) /\ Short(c)
  /\ d \in Seq(Seq(Nat)) /\ Run(g, d, Len(d)) /\ Short(d)
  /\ f[Len(c)] = g[Len(d)]

Agree(f, c, g, d) ==
  \A n \in 0..Len(c) : n \in 0..Len(d) => f[n] = g[n] /\ (n # 0 => c[n] = d[n])

(* Where two runs with one result have the same so far, the next           *)
(* certificates are the same: their lengths are written before them.       *)
LEMMA NextIsSame ==
  ASSUME NEW c, NEW d, NEW f, NEW g, Pair(f, c, g, d),
         NEW k, k \in 1..Len(c), k \in 1..Len(d), f[k - 1] = g[k - 1]
  PROVE  c[k] = d[k]
<1>1. /\ c \in Seq(Seq(Nat)) /\ Run(f, c, Len(c)) /\ Short(c)
      /\ d \in Seq(Seq(Nat)) /\ Run(g, d, Len(d)) /\ Short(d)
      /\ f[Len(c)] = g[Len(d)]
  BY DEF Pair
<1> DEFINE u == f[Len(c)]
           p == Len(f[k - 1])
<1>2. /\ p \in Nat /\ Len(c[k]) \in Nat /\ Len(d[k]) \in Nat
      /\ c[k] \in Seq(Nat) /\ d[k] \in Seq(Nat)
  <2>1. k - 1 \in 0..Len(c)
    BY <1>1, LenProperties
  <2> QED BY <2>1, <1>1, RunTurns, LenProperties, ElementOfSeq
<1>3. /\ Len(Frame(c[k])) = 4 /\ Len(Frame(d[k])) = 4
      /\ Frame(c[k]) \in Seq(Nat) /\ Frame(d[k]) \in Seq(Nat)
  BY <1>2, FrameIsFour DEF Frame
<1>4. /\ Len(f[k]) = p + 4 + Len(c[k])
      /\ \A i \in 1..4 : f[k][p + i] = Frame(c[k])[i]
      /\ \A i \in 1..Len(c[k]) : f[k][p + 4 + i] = c[k][i]
      /\ Len(g[k]) = p + 4 + Len(d[k])
      /\ \A i \in 1..4 : g[k][p + i] = Frame(d[k])[i]
      /\ \A i \in 1..Len(d[k]) : g[k][p + 4 + i] = d[k][i]
  <2>1. Turn(f, c, k) /\ Turn(g, d, k)
    BY <1>1, RunTurns
  <2> QED BY <2>1, <1>3 DEF Turn
<1>5. /\ \A i \in 1..Len(f[k]) : u[i] = f[k][i]
      /\ \A i \in 1..Len(g[k]) : u[i] = g[k][i]
  <2>1. k \in 0..Len(c) /\ k \in 0..Len(d)
    BY <1>1, LenProperties
  <2>2. Kept(f, c, k) /\ Kept(g, d, k)
    BY <2>1, <1>1, RunKeeps
  <2> QED BY <2>2, <1>1 DEF Kept
<1> HIDE DEF u, p
<1>6. Len(c[k]) = Len(d[k])
  <2>1. ASSUME NEW i \in 1..4 PROVE Frame(c[k])[i] = Frame(d[k])[i]
    <3>1. p + i \in 1..Len(f[k]) /\ p + i \in 1..Len(g[k])
      <4>1. p + i \in 1..p + 4 + Len(c[k]) /\ p + i \in 1..p + 4 + Len(d[k])
        BY <1>2, Within
      <4> QED BY <4>1, <1>4
    <3> QED BY <3>1, <1>4, <1>5
  <2>2. Frame(c[k]) = Frame(d[k])
    BY <2>1, <1>3, SeqEqual
  <2>3. Len(c[k]) \div (256 * 256 * 256) < 256 /\ Len(d[k]) \div (256 * 256 * 256) < 256
    BY <1>1, ZenonT(40) DEF Short
  <2> QED BY <2>2, <2>3, <1>2, FrameDetermines DEF Frame
<1>7. ASSUME NEW i \in 1..Len(c[k]) PROVE c[k][i] = d[k][i]
  <2>1. p + 4 + i \in 1..Len(f[k]) /\ p + 4 + i \in 1..Len(g[k])
    <3>1. p + 4 + i \in 1..p + 4 + Len(c[k]) /\ i \in 1..Len(d[k])
      BY <1>2, <1>6, Within
    <3> QED BY <3>1, <1>4, <1>6
  <2> QED BY <2>1, <1>4, <1>5, <1>6
<1> QED BY <1>2, <1>6, <1>7, SeqEqual

(* So two runs with one result have the same at every turn.                *)
LEMMA RunsAgree ==
  ASSUME NEW c, NEW d, NEW f, NEW g, Pair(f, c, g, d)
  PROVE  Agree(f, c, g, d)
<1>1. /\ c \in Seq(Seq(Nat)) /\ Run(f, c, Len(c))
      /\ d \in Seq(Seq(Nat)) /\ Run(g, d, Len(d))
  BY DEF Pair
<1> DEFINE T == {k \in 0..Len(c) : k \in 0..Len(d) /\ ~(f[k] = g[k] /\ (k # 0 => c[k] = d[k]))}
<1> SUFFICES ASSUME T # {} PROVE FALSE
  BY DEF Agree
<1>2. Len(c) \in Nat /\ Len(d) \in Nat
  BY <1>1, LenProperties
<1>3. PICK k \in T : \A j \in T : k <= j
  <2>1. T \in SUBSET Nat
    BY <1>2
  <2> HIDE DEF T
  <2> QED BY <2>1, LeastNumber
<1>4. k # 0
  BY <1>1, <1>3, RunTurns
<1>5. /\ k \in 1..Len(c) /\ k \in 1..Len(d) /\ k - 1 \in 0..Len(c) /\ k - 1 \in 0..Len(d)
      /\ k \in 0..Len(c) /\ k \in 0..Len(d) /\ ~(k <= k - 1)
  BY <1>2, <1>3, <1>4
<1>6. f[k - 1] = g[k - 1]
  <2>1. k - 1 \notin T
    BY <1>3, <1>5
  <2> QED BY <2>1, <1>5
<1>7. ~(f[k] = g[k] /\ c[k] = d[k])
  BY <1>3
<1> HIDE DEF T
<1>8. c[k] = d[k]
  BY <1>5, <1>6, NextIsSame
<1>9. /\ f[k] = f[k - 1] \o Frame(c[k]) \o c[k]
      /\ g[k] = g[k - 1] \o Frame(d[k]) \o d[k]
  <2>1. f[k] = IF k = 0 THEN <<>> ELSE f[k - 1] \o Frame(c[k]) \o c[k]
    BY <1>1, <1>5 DEF Run
  <2>2. g[k] = IF k = 0 THEN <<>> ELSE g[k - 1] \o Frame(d[k]) \o d[k]
    BY <1>1, <1>5 DEF Run
  <2> QED BY <2>1, <2>2, <1>4
<1> QED BY <1>6, <1>7, <1>8, <1>9

(* A chain is what its input says, if the lengths fit in four bytes.       *)
LEMMA InputDetermines ==
  ASSUME NEW c \in Seq(Seq(Nat)), NEW d \in Seq(Seq(Nat)),
         Short(c), Short(d),
         canonical_chain_hash_input(c) = canonical_chain_hash_input(d)
  PROVE  c = d
<1>1. Len(c) \in Nat /\ Len(d) \in Nat
  BY LenProperties
<1>2. PICK f : Run(f, c, Len(c)) /\ canonical_chain_hash_input(c) = f[Len(c)]
  BY <1>1, InputIsRun
<1>3. PICK g : Run(g, d, Len(d)) /\ canonical_chain_hash_input(d) = g[Len(d)]
  BY <1>1, InputIsRun
<1>4. f[Len(c)] = g[Len(d)] /\ Pair(f, c, g, d)
  BY <1>2, <1>3 DEF Pair
<1>5. \A n \in 0..Len(c) : n \in 0..Len(d) => f[n] = g[n] /\ (n # 0 => c[n] = d[n])
  <2>1. Agree(f, c, g, d)
    BY <1>4, RunsAgree, Zenon
  <2> QED BY <2>1 DEF Agree
<1>6. Len(c) = Len(d)
  <2>1. \A n \in 0..Len(c) : Kept(f, c, n)
    BY <1>2, RunKeeps
  <2>2. \A n \in 0..Len(d) : Kept(g, d, n)
    BY <1>3, RunKeeps
  <2>3. /\ \A n \in 0..Len(c) : Len(f[n]) \in Nat
        /\ \A n \in 0..Len(d) : Len(g[n]) \in Nat
    BY <1>2, <1>3, RunTurns, LenProperties
  <2>4. Len(c) \in 0..Len(c) /\ Len(d) \in 0..Len(d)
    BY <1>1
  <2>5. CASE Len(c) < Len(d)
    <3>1. Len(c) \in 0..Len(d)
      BY <1>1, <2>5
    <3>2. f[Len(c)] = g[Len(c)] /\ Len(g[Len(c)]) < Len(g[Len(d)])
      BY <3>1, <2>2, <2>4, <2>5, <1>5 DEF Kept
    <3> QED BY <3>1, <3>2, <1>4, <2>3
  <2>6. CASE Len(d) < Len(c)
    <3>1. Len(d) \in 0..Len(c)
      BY <1>1, <2>6
    <3>2. f[Len(d)] = g[Len(d)] /\ Len(f[Len(d)]) < Len(f[Len(c)])
      BY <3>1, <2>1, <2>4, <2>6, <1>5 DEF Kept
    <3> QED BY <3>1, <3>2, <1>4, <2>3
  <2> QED BY <2>5, <2>6, <1>1
<1>7. \A n \in 1..Len(c) : c[n] = d[n]
  <2>1. \A n \in 1..Len(c) : n \in 0..Len(c) /\ n \in 0..Len(d) /\ n # 0
    BY <1>1, <1>6
  <2> QED BY <2>1, <1>5
<1> QED BY <1>6, <1>7, SeqEqual

(* No two chains of certificates have the same input of the hash that the  *)
(* payload commits to.                                                     *)
THEOREM ChainIsCommitted == ReadersSpec => []ChainCommitted
<1>1. ReaderInv => ChainCommitted
  <2> SUFFICES ASSUME ReaderInv, subject.kind = "chain", NEW i \in DOMAIN Chains,
                      canonical_chain_hash_input(Chains[i])
                        = canonical_chain_hash_input(subject.chain)
               PROVE  Chains[i] = subject.chain
    BY DEF ChainCommitted
  <2>1. PICK j \in DOMAIN Chains : subject.chain = Chains[j]
    BY DEF ReaderInv
  <2>2. ASSUME NEW k \in DOMAIN Chains
        PROVE  /\ Chains[k] \in Seq(Seq(Nat))
               /\ Short(Chains[k])
    <3>1. /\ Chains[k] \in Seq(Seq(0..255))
          /\ \A n \in DOMAIN Chains[k] : Len(Chains[k][n]) \div (256 * 256 * 256) < 256
      BY ReadersAssumption
    <3>2. 0..255 \subseteq Nat
      OBVIOUS
    <3>3. Seq(0..255) \subseteq Seq(Nat)
      BY <3>2, SeqMonotonic
    <3>4. Chains[k] \in Seq(Seq(Nat))
      BY <3>1, <3>3, SeqMonotonic
    <3> QED BY <3>1, <3>4, LenProperties DEF Short
  <2> QED BY <2>1, <2>2, InputDetermines
<1> QED BY <1>1, ReaderInvHolds, PTL

=============================================================================
