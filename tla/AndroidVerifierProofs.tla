----------------------- MODULE AndroidVerifierProofs -----------------------
(***************************************************************************)
(* Proofs about AndroidVerifier, for chains of every length, every policy, *)
(* every list of fields and every width of a tag number: an accepted call  *)
(* has passed every check, and the checks together give what the verifier  *)
(* promises.  And about the reader of the status list, for every list,     *)
(* every length of its strings and white space, and every length at which  *)
(* it is cut.                                                              *)
(***************************************************************************)
EXTENDS AndroidVerifier, StatusLists, FiniteSetTheorems, SequenceTheorems, TLAPS

(* The checks still to come when a check has held.                         *)
AfterLevel == {"boot"}
AfterChallenge == {"level"} \cup AfterLevel
AfterDecode == {"challenge"} \cup AfterChallenge
AfterExtension == {"decode"} \cup AfterDecode
AfterStatus == {"extension"} \cup AfterExtension
AfterAnchor == {"status"} \cup AfterStatus
AfterSignatures == {"anchor"} \cup AfterAnchor
AfterValidity == {"signatures"} \cup AfterSignatures
AfterParse == {"validity"} \cup AfterValidity
AfterChain == {"parse"} \cup AfterParse
Stages == {"chain"} \cup AfterChain

Valid == \A i \in DOMAIN chain : check_validity(chain[i])
NotListed == \A i \in DOMAIN chain : check_status(chain[i])
HasExtension == chain[1].ext # {}
Decodes == KeyDescriptionDecodes(kd)
ChallengeMet == kd.challenge = input.challenge

(* The inductive invariant: whoever is past a check has met its condition, *)
(* and the call is pending until the last.                                 *)
Past(stages) == verdict = "ok" \/ pc \in stages
IInv ==
  /\ input \in Inputs
  /\ pc \in Stages => verdict = "pending"
  /\ Past(AfterChain) => chain # <<>>
  /\ Past(AfterValidity) => Valid
  /\ Past(AfterSignatures) => InnerSignatures
  /\ Past(AfterAnchor) => Anchored
  /\ Past(AfterStatus) => NotListed
  /\ Past(AfterExtension) => HasExtension
  /\ Past(AfterDecode) => Decodes
  /\ Past(AfterChallenge) => ChallengeMet
  /\ Past(AfterLevel) => LevelMet
  /\ Past({}) => BootAccepted

----------------------------------------------------------------------------
(* A nonempty set of numbers has a least element.                          *)
LEMMA LeastNumber ==
  ASSUME NEW T \in SUBSET Nat, T # {}
  PROVE  \E x \in T : \A y \in T : x <= y
<1> DEFINE U == {0..x : x \in T}
<1>1. U \subseteq FiniteSubsetsOf(Nat) /\ U # {}
  <2>1. ASSUME NEW x \in T PROVE 0..x \in SUBSET Nat /\ IsFiniteSet(0..x)
    BY FS_Interval
  <2> QED BY <2>1 DEF FiniteSubsetsOf
<1>2. PICK I \in U : \A J \in U : <<J, I>> \notin StrictSubsetOrdering(Nat)
  <2> HIDE DEF U
  <2> QED BY <1>1, FS_StrictSubsetOrderingWellFounded, WFMin
<1>3. PICK x \in T : I = 0..x
  OBVIOUS
<1>4. ASSUME NEW y \in T, y < x PROVE FALSE
  <2> DEFINE J == 0..y
  <2>1. J \in U /\ I \in SUBSET Nat /\ J \in SUBSET Nat
    BY <1>3
  <2>2. J \subseteq I /\ J # I
    BY <1>3, <1>4
  <2> HIDE DEF J
  <2>3. <<J, I>> \in StrictSubsetOrdering(Nat)
    BY <2>1, <2>2 DEF StrictSubsetOrdering
  <2> QED BY <2>1, <2>3, <1>2
<1> QED BY <1>4

(* What holds at n and passes from every number to the one below holds     *)
(* at 1.                                                                   *)
LEMMA Downward ==
  ASSUME NEW n \in Nat \ {0}, NEW S, n \in S, \A i \in 1..n - 1 : i + 1 \in S => i \in S
  PROVE  1 \in S
<1> DEFINE T == (1..n) \cap S
<1>1. PICK m \in T : \A i \in T : m <= i
  <2>1. T \in SUBSET Nat /\ n \in T
    OBVIOUS
  <2> HIDE DEF T
  <2> QED BY <2>1, LeastNumber
<1>2. m = 1
  <2> SUFFICES ASSUME m # 1 PROVE FALSE
    OBVIOUS
  <2>1. m - 1 \in 1..n - 1 /\ (m - 1) + 1 = m
    BY <1>1
  <2>2. m - 1 \in T
    BY <2>1, <1>1
  <2> QED BY <2>2, <1>1
<1> QED BY <1>1, <1>2

(* A tag number that the decoder takes for 704 is 704 and a multiple of    *)
(* the modulus, and conversely.                                            *)
LEMMA TagNumber ==
  ASSUME NEW tag \in Nat
  PROVE  tag % TagModulus = 704 <=> \E n \in 0..tag : tag = 704 + n * TagModulus
<1> DEFINE M == TagModulus
<1>0. M \in Nat /\ M > 709
  BY RootsAssumption
<1> HIDE DEF M
<1>1. ASSUME tag % M = 704 PROVE \E n \in 0..tag : tag = 704 + n * M
  <2> DEFINE q == tag \div M
  <2>1. q \in Nat /\ tag = M * q + 704
    BY <1>0, <1>1
  <2> HIDE DEF q
  <2>2. q <= M * q
    BY <1>0, <2>1
  <2>3. q <= tag
    BY <2>1, <2>2, <1>0
  <2> QED BY <2>1, <2>3, <1>0
<1>2. ASSUME NEW n \in 0..tag, tag = 704 + n * M PROVE tag % M = 704
  BY <1>0, <1>2
<1> QED BY <1>1, <1>2 DEF M

(* The entry that overwrites all others is the last of number 704.         *)
LEMMA LastRootOfTrust ==
  ASSUME NEW list, list \in Seq({list[n] : n \in DOMAIN list}),
         \A n \in DOMAIN list : list[n].tag \in Nat
  PROVE  root_of_trust(list) = RootOfTrust(list)
<1> DEFINE Is704(f) == f.class = 2 /\ \E n \in 0..f.tag : f.tag = 704 + n * TagModulus
           at == {i \in DOMAIN list : list[i].class = 2 /\ tag_number(list[i]) = 704}
<1>1. PICK len \in Nat : DOMAIN list = 1..len /\ Len(list) = len
  OBVIOUS
<1>2. \A i \in DOMAIN list : Is704(list[i]) <=> i \in at
  BY TagNumber DEF tag_number
<1> HIDE DEF Is704, at
<1>3. {i \in at : \A k \in at : k <= i}
        = {j \in DOMAIN list : Is704(list[j]) /\ \A k \in j + 1..Len(list) : ~Is704(list[k])}
  <2>1. at \subseteq DOMAIN list
    BY DEF at
  <2>2. ASSUME NEW i \in DOMAIN list
        PROVE  (i \in at /\ \A k \in at : k <= i)
                 <=> (Is704(list[i]) /\ \A k \in i + 1..Len(list) : ~Is704(list[k]))
    <3>1. ASSUME i \in at, \A k \in at : k <= i, NEW k \in i + 1..Len(list)
          PROVE  ~Is704(list[k])
      BY <3>1, <1>1, <1>2
    <3>2. ASSUME \A k \in i + 1..Len(list) : ~Is704(list[k]), NEW k \in at
          PROVE  k <= i
      BY <3>2, <1>1, <1>2, <2>1
    <3> QED BY <3>1, <3>2, <1>2
  <2> QED BY <2>1, <2>2
<1> QED BY <1>3 DEF root_of_trust, RootOfTrust, at, Is704

(* A chain whose certificates are valid and linked up to a pinned root     *)
(* certifies its first key: from the top down, each key is vouched for.    *)
LEMMA LinkedChainIsCertified ==
  ASSUME input \in Inputs, chain # <<>>, Valid, InnerSignatures, Anchored
  PROVE  Certified(chain[1].spki)
<1> DEFINE certs == {chain[i] : i \in DOMAIN chain}
           roots == {Roots[i] : i \in DOMAIN Roots}
           Closed(S) ==
             /\ \A r \in roots : check_validity(r) => r.spki \in S
             /\ \A c \in certs : (check_validity(c) /\ c.signer \in S) => c.spki \in S
           top == chain[Len(chain)]
<1>1. Len(chain) \in Nat \ {0} /\ DOMAIN chain = 1..Len(chain)
  BY InputsAssumption DEF chain
<1>2. SUFFICES ASSUME NEW S, Closed(S) PROVE chain[1].spki \in S
  BY DEF Certified
<1>3. top \in certs /\ check_validity(top)
  BY <1>1 DEF Valid
<1>4. top.spki \in S
  <2>1. PICK j \in DOMAIN Roots :
          /\ AnchorsTop(Roots[j])
          /\ root_matches_top(Roots[j], top) \/ check_validity(Roots[j])
    BY DEF Anchored
  <2>2. CASE root_matches_top(Roots[j], top)
    <3>1. top = Roots[j]
      BY <2>2, <1>3, InputsAssumption DEF root_matches_top, chain
    <3> QED BY <3>1, <1>2, <1>3
  <2>3. CASE ~root_matches_top(Roots[j], top)
    <3>1. check_validity(Roots[j]) /\ top.signer = Roots[j].spki
      BY <2>1, <2>3 DEF AnchorsTop, verify_signature
    <3> QED BY <3>1, <1>2, <1>3
  <2> QED BY <2>2, <2>3
<1> DEFINE K == {i \in 1..Len(chain) : chain[i].spki \in S}
<1>5. ASSUME NEW i \in 1..Len(chain) - 1, i + 1 \in K PROVE i \in K
  <2>1. i \in 1..Len(chain) /\ chain[i] \in certs
    BY <1>1
  <2>2. check_validity(chain[i]) /\ chain[i].signer = chain[i + 1].spki
    BY <1>1, <2>1 DEF Valid, InnerSignatures, verify_signature
  <2> QED BY <1>2, <1>5, <2>1, <2>2
<1>6. Len(chain) \in K
  BY <1>1, <1>4
<1> HIDE DEF K
<1>7. 1 \in K
  BY <1>1, <1>5, <1>6, Downward
<1> QED BY <1>7 DEF K

----------------------------------------------------------------------------
LEMMA InitEstablishesInvariant == Init => IInv
BY DEF Init, IInv, Past, Stages, AfterChain, AfterParse, AfterValidity, AfterSignatures,
       AfterAnchor, AfterStatus, AfterExtension, AfterDecode, AfterChallenge, AfterLevel

(* The conditions are about the arguments, which stay.                     *)
LEMMA ConditionsStay ==
  ASSUME UNCHANGED input
  PROVE  /\ (chain # <<>>)' = (chain # <<>>) /\ Valid' = Valid
         /\ InnerSignatures' = InnerSignatures /\ Anchored' = Anchored
         /\ NotListed' = NotListed /\ HasExtension' = HasExtension /\ Decodes' = Decodes
         /\ ChallengeMet' = ChallengeMet /\ LevelMet' = LevelMet
         /\ BootAccepted' = BootAccepted
<1>1. UNCHANGED <<chain, policy, kd>>
  BY DEF chain, policy, kd
<1>2. \A cert : check_validity(cert)' = check_validity(cert)
  BY DEF check_validity
<1>3. Valid' = Valid /\ InnerSignatures' = InnerSignatures
  BY <1>1 DEF Valid, InnerSignatures, check_validity
<1>4. Anchored' = Anchored
  BY <1>1 DEF Anchored, AnchorsTop, check_validity
<1>5. NotListed' = NotListed
  BY <1>1 DEF NotListed, check_status
<1>6. LevelMet' = LevelMet /\ BootAccepted' = BootAccepted
  BY <1>1 DEF LevelMet, BootAccepted
<1> QED BY <1>1, <1>3, <1>4, <1>5, <1>6 DEF HasExtension, Decodes, ChallengeMet

LEMMA NextKeepsInvariant == IInv /\ [verify_attestation]_vars => IInv'
<1> SUFFICES ASSUME IInv, [verify_attestation]_vars PROVE IInv'
  OBVIOUS
<1> USE DEF IInv, Past, Stages, AfterChain, AfterParse, AfterValidity, AfterSignatures,
            AfterAnchor, AfterStatus, AfterExtension, AfterDecode, AfterChallenge, AfterLevel
<1>1. CASE UNCHANGED vars
  BY <1>1, ConditionsStay DEF vars
<1>2. CASE Check("chain", chain # <<>>, "EmptyChain", "parse")
  BY <1>2, ConditionsStay DEF Check
<1>3. CASE Check("parse", \A i \in DOMAIN chain : chain[i].parses, "Der", "validity")
  BY <1>3, ConditionsStay DEF Check
<1>4. CASE Check("validity", Valid, "Der", "signatures")
  BY <1>4, ConditionsStay DEF Check
<1>5. CASE Check("signatures", InnerSignatures, SignatureError, "anchor")
  <2>1. SignatureError \in {"UntrustedChain", "Der"}
    BY DEF SignatureError
  <2> QED BY <1>5, <2>1, ConditionsStay DEF Check
<1>6. CASE Check("anchor", Anchored, AnchorError, "status")
  BY <1>6, ConditionsStay DEF Check, AnchorError
<1>7. CASE Check("status", NotListed, "Revoked", "extension")
  BY <1>7, ConditionsStay DEF Check
<1>8. CASE Check("extension", HasExtension, "MissingAttestationExtension", "decode")
  BY <1>8, ConditionsStay DEF Check
<1>9. CASE Check("decode", Decodes, "Der", "challenge")
  BY <1>9, ConditionsStay DEF Check
<1>10. CASE Check("challenge", ChallengeMet, "ChallengeMismatch", "level")
  BY <1>10, ConditionsStay DEF Check
<1>11. CASE Check("level", LevelMet, "InsufficientSecurityLevel", "boot")
  BY <1>11, ConditionsStay DEF Check
<1>12. CASE Check("boot", BootAccepted, BootError, "done")
  BY <1>12, ConditionsStay DEF Check, BootError
<1> QED
  BY <1>1, <1>2, <1>3, <1>4, <1>5, <1>6, <1>7, <1>8, <1>9, <1>10, <1>11, <1>12
  DEF verify_attestation, validate_chain, Valid, NotListed, HasExtension, Decodes, ChallengeMet

LEMMA InvariantHolds == Spec => []IInv
BY InitEstablishesInvariant, NextKeepsInvariant, PTL DEF Spec

(* verify_attestation attests only a key that the pinned roots vouch for   *)
(* over certificates all valid at clock_ms, for chains of every length.    *)
THEOREM AcceptedKeyIsCertified == Spec => []AcceptedIsCertified
<1>1. IInv => AcceptedIsCertified
  BY LinkedChainIsCertified DEF IInv, Past, AcceptedIsCertified
<1> QED BY <1>1, InvariantHolds, PTL

(* verify_attestation accepts only what its policy asks for: both levels,  *)
(* the challenge, and the boot state and lock in the last root of trust of *)
(* the hardware-enforced list.                                             *)
THEOREM AcceptedMeetsThePolicy == Spec => []AcceptedMeetsPolicy
<1>1. IInv => AcceptedMeetsPolicy
  <2> SUFFICES ASSUME IInv, verdict = "ok" PROVE AcceptedMeetsPolicy
    BY DEF AcceptedMeetsPolicy
  <2>1. /\ input \in Inputs /\ chain # <<>> /\ HasExtension /\ Decodes /\ ChallengeMet
        /\ LevelMet /\ BootAccepted
    BY DEF IInv, Past
  <2>2. kd \in chain[1].ext
    BY <2>1 DEF HasExtension, kd
  <2>3. 1 \in DOMAIN chain
    <3>1. Len(chain) \in Nat \ {0} /\ DOMAIN chain = 1..Len(chain)
      BY <2>1, InputsAssumption DEF chain
    <3> QED BY <3>1
  <2>4. root_of_trust(kd.hardware) = RootOfTrust(kd.hardware)
    BY <2>1, <2>2, <2>3, InputsAssumption, LastRootOfTrust, ZenonT(60) DEF chain
  <2>5. {kd.attestation_level, kd.keymint_level} \subseteq policy.min_security_level..2
    BY <2>1, InputsAssumption DEF LevelMet, Decodes, KeyDescriptionDecodes, SecurityLevels, policy
  <2>6. policy.require_verified_boot => RootOfTrust(kd.hardware) # {}
    BY <2>1, <2>4 DEF BootAccepted
  <2>7. ASSUME NEW rot \in RootOfTrust(kd.hardware)
        PROVE  /\ policy.require_device_locked => rot.device_locked
               /\ rot.verified_boot_state = Verified \/ ~policy.require_verified_boot
               /\ policy.allowed_self_signed_keys # {} =>
                    \/ rot.verified_boot_state = Verified
                    \/ /\ rot.verified_boot_state = SelfSigned
                       /\ rot.verified_boot_key \in policy.allowed_self_signed_keys
    BY <2>1, <2>4 DEF BootAccepted
  <2> QED BY <2>1, <2>2, <2>5, <2>6, <2>7 DEF AcceptedMeetsPolicy, ChallengeMet
<1> QED BY <1>1, InvariantHolds, PTL

----------------------------------------------------------------------------
(* The reader of the status list.                                          *)
(* Text: what has arrived.                                                 *)
IsText(B) == B \in Seq(Symbols)

(* After `q` symbols come `k` blanks, or as many as there is room for.     *)
Blank(B, q, k) == \A i \in q + 1..q + k : i <= Len(B) => B[i] = "ws"

(* Symbol `i` is `c`, if it is there.                                      *)
Is(B, i, c) == i <= Len(B) => B[i] = c

(* After `q` symbols comes `s`, or as much of it as there is room for.     *)
Here(B, q, s) == \A i \in 1..Len(s) : q + i <= Len(B) => B[q + i] = s[i]

(* What a reader returns whose last symbol is number `e`.                  *)
Got(B, e, v) == IF e <= Len(B) THEN {[val |-> v, next |-> e + 1]} ELSE {}

LEMMA SkipTo ==
  ASSUME NEW B, IsText(B), NEW q \in 0..Len(B), NEW k \in Nat, NEW s, NEW c, s # "end", c # s,
         \A i \in q + 1..q + k : i <= Len(B) => B[i] = s,
         Is(B, q + k + 1, c)
  PROVE  Skip(s, B, q + 1) = IF q + k + 1 <= Len(B) THEN q + k + 1 ELSE Len(B) + 1
<1> DEFINE n == Len(B)
           P == q + 1..Len(B) + (q + 1)
           Stops(p) == At(B, p) # s /\ \A i \in q + 1..p - 1 : At(B, i) = s
           r == IF q + k + 1 <= n THEN q + k + 1 ELSE n + 1
<1>1. n \in Nat /\ DOMAIN B = 1..n
  BY LenProperties DEF IsText
<1>2. r \in P /\ r \in q + 1..n + 1
  BY <1>1
<1>3. At(B, r) # s
  BY <1>1 DEF At, Is
<1>4. \A i \in q + 1..r - 1 : At(B, i) = s
  BY <1>1 DEF At
<1>5. ASSUME NEW p \in P, Stops(p) PROVE p = r
  <2>1. ~(p < r)
    BY <1>1, <1>2, <1>4, <1>5
  <2>2. ~(r < p)
    BY <1>1, <1>2, <1>3, <1>5
  <2> QED BY <1>1, <1>2, <2>1, <2>2
<1> HIDE DEF r
<1>6. (CHOOSE p \in P : Stops(p)) = r
  <2> HIDE DEF P
  <2>1. Stops(r)
    BY <1>3, <1>4
  <2> HIDE DEF Stops
  <2> QED BY <1>2, <1>5, <2>1
<1> QED BY <1>6 DEF Skip, r

LEMMA WsTo ==
  ASSUME NEW B, IsText(B), NEW q \in 0..Len(B), NEW k \in Nat, NEW c, c # "ws",
         Blank(B, q, k), Is(B, q + k + 1, c)
  PROVE  skip_ws(B, q + 1) = IF q + k + 1 <= Len(B) THEN q + k + 1 ELSE Len(B) + 1
BY SkipTo DEF skip_ws, Blank

LEMMA Expected ==
  ASSUME NEW B, IsText(B), NEW q \in 0..Len(B), NEW k \in Nat, NEW c, c \notin {"ws", "end"},
         Blank(B, q, k), Is(B, q + k + 1, c)
  PROVE  expect_char(B, q + 1, c) = IF q + k + 1 <= Len(B) THEN {q + k + 2} ELSE {}
<1>1. Len(B) \in Nat /\ DOMAIN B = 1..Len(B)
  BY LenProperties DEF IsText
<1>2. skip_ws(B, q + 1) = IF q + k + 1 <= Len(B) THEN q + k + 1 ELSE Len(B) + 1
  BY WsTo
<1>3. CASE q + k + 1 <= Len(B)
  <2>1. At(B, q + k + 1) = c
    BY <1>1, <1>3 DEF At, Is
  <2> QED BY <1>2, <1>3, <2>1 DEF expect_char
<1>4. CASE ~(q + k + 1 <= Len(B))
  <2>1. At(B, Len(B) + 1) = "end"
    BY <1>1 DEF At
  <2> QED BY <1>2, <1>4, <2>1 DEF expect_char
<1> QED BY <1>3, <1>4

(* A function that is given by its value at 0 and by a step from each      *)
(* number to the next exists, and is the only one.                         *)
Steps(f, m, start, step) == f = [n \in 0..m |-> IF n = 0 THEN start ELSE step[n][f[n - 1]]]

LEMMA StepsExist ==
  ASSUME NEW S, NEW m \in Nat, NEW start \in S, NEW step \in [1..m -> [S -> S]]
  PROVE  \E f \in [0..m -> S] : Steps(f, m, start, step)
<1> DEFINE Run(f, n) == /\ f \in [0..n -> S] /\ f[0] = start
                        /\ \A k \in 1..n : f[k] = step[k][f[k - 1]]
           T == {n \in 0..m : ~\E f : Run(f, n)}
<1>1. ASSUME T # {} PROVE FALSE
  <2>1. PICK n \in T : \A k \in T : n <= k
    <3>1. T \in SUBSET Nat /\ T # {}
      BY <1>1
    <3> HIDE DEF T
    <3> QED BY <3>1, LeastNumber
  <2>2. n # 0
    <3>1. Run([k \in 0..0 |-> start], 0)
      BY SMTT(30)
    <3> QED BY <2>1, <3>1
  <2>3. n \in 1..m /\ n - 1 \in 0..m /\ n - 1 \notin T
    <3>1. n \in 0..m
      BY <2>1
    <3>2. n - 1 \notin T
      <4> HIDE DEF T
      <4> QED BY <2>1, <3>1
    <3> QED BY <2>2, <3>1, <3>2
  <2>4. PICK g : Run(g, n - 1)
    <3> HIDE DEF Run
    <3> QED BY <2>3
  <2> DEFINE new == step[n][g[n - 1]]
             f == [k \in 0..n |-> IF k = n THEN new ELSE g[k]]
  <2>5. new \in S
    <3>1. g[n - 1] \in S
      BY <2>3, <2>4
    <3> QED BY <2>3, <3>1
  <2> HIDE DEF new
  <2>6. f \in [0..n -> S]
    BY <2>3, <2>4, <2>5
  <2>7. f[n] = new /\ \A k \in 0..n - 1 : f[k] = g[k]
    BY <2>3
  <2>8. f[0] = start
    BY <2>3, <2>4, <2>7
  <2>9. ASSUME NEW k \in 1..n PROVE f[k] = step[k][f[k - 1]]
    <3> HIDE DEF f
    <3>1. CASE k = n
      BY <3>1, <2>3, <2>7 DEF new
    <3>2. CASE k # n
      <4>1. k \in 1..n - 1 /\ k \in 0..n - 1 /\ k - 1 \in 0..n - 1
        BY <3>2, <2>3
      <4> QED BY <4>1, <2>4, <2>7
    <3> QED BY <3>1, <3>2
  <2>10. Run(f, n)
    <3> HIDE DEF f
    <3> QED BY <2>6, <2>8, <2>9
  <2> QED BY <2>1, <2>10
<1>2. PICK f : Run(f, m)
  <2>1. m \notin T /\ m \in 0..m
    <3> HIDE DEF T
    <3> QED BY <1>1
  <2> HIDE DEF Run
  <2> QED BY <2>1
<1>3. Steps(f, m, start, step)
  BY <1>2 DEF Steps
<1> QED BY <1>2, <1>3

LEMMA StepsAgree ==
  ASSUME NEW m \in Nat, NEW f, NEW g, DOMAIN f = 0..m, DOMAIN g = 0..m, f[0] = g[0],
         \A n \in 1..m : f[n - 1] = g[n - 1] => f[n] = g[n]
  PROVE  \A n \in 0..m : f[n] = g[n]
<1> DEFINE T == {n \in 0..m : f[n] # g[n]}
<1>1. ASSUME T # {} PROVE FALSE
  <2>1. PICK n \in T : \A k \in T : n <= k
    <3>1. T \in SUBSET Nat /\ T # {}
      BY <1>1
    <3> HIDE DEF T
    <3> QED BY <3>1, LeastNumber
  <2>2. n \in 1..m /\ n - 1 \in 0..m /\ n - 1 \notin T
    BY <2>1
  <2> QED BY <2>1, <2>2
<1> QED BY <1>1

LEMMA EscapedIs ==
  ASSUME NEW B, IsText(B), NEW q \in 0..Len(B)
  PROVE  \A p \in 0..Len(B) :
           /\ Escaped(B, q + 1)[p] \in BOOLEAN
           /\ Escaped(B, q + 1)[p]
                <=> p > q + 1 /\ At(B, p - 1) = "backslash" /\ ~Escaped(B, q + 1)[p - 1]
<1> DEFINE n == Len(B)
           Run(f) == f = [p \in 0..n |->
                            p > q + 1 /\ At(B, p - 1) = "backslash" /\ ~f[p - 1]]
           step == [p \in 1..n |-> [b \in BOOLEAN |->
                      p > q + 1 /\ At(B, p - 1) = "backslash" /\ ~b]]
<1>0. n \in Nat
  BY LenProperties DEF IsText
<1>1. PICK f \in [0..n -> BOOLEAN] : Steps(f, n, FALSE, step)
  <2>1. step \in [1..n -> [BOOLEAN -> BOOLEAN]]
    OBVIOUS
  <2> HIDE DEF step
  <2> QED BY <1>0, <2>1, StepsExist
<1>2. ASSUME NEW p \in 0..n
      PROVE  f[p] = (p > q + 1 /\ At(B, p - 1) = "backslash" /\ ~f[p - 1])
  <2>1. CASE p = 0
    <3>1. f[p] = FALSE
      <4> HIDE DEF step
      <4> QED BY <1>1, <2>1 DEF Steps
    <3>2. ~(p > q + 1)
      BY <2>1, <1>0
    <3> QED BY <3>1, <3>2, Zenon
  <2>2. CASE p # 0
    <3>1. p \in 1..n /\ f[p - 1] \in BOOLEAN
      BY <1>1, <2>2
    <3>2. f[p] = step[p][f[p - 1]]
      <4> HIDE DEF step
      <4> QED BY <1>1, <3>1 DEF Steps
    <3> QED BY <3>1, <3>2
  <2> QED BY <2>1, <2>2
<1>3. Run(f)
  <2>1. f = [p \in 0..n |-> f[p]]
    BY <1>1
  <2> QED BY <1>2, <2>1
<1> DEFINE e == CHOOSE g : Run(g)
<1>4. Run(e)
  <2> HIDE DEF Run
  <2> QED BY <1>3
<1>5. e = Escaped(B, q + 1)
  BY Zenon DEF Escaped
<1> HIDE DEF e
<1>6. ASSUME NEW p \in 0..n
      PROVE  e[p] = (p > q + 1 /\ At(B, p - 1) = "backslash" /\ ~e[p - 1])
  BY <1>4
<1> QED BY <1>5, <1>6

(* The choice of escaped symbols that WellEscaped asks for.                *)
Escapes(s, E) ==
  /\ E \in SUBSET DOMAIN s
  /\ \A i \in DOMAIN s : i \in E <=> i # 1 /\ s[i - 1] = "backslash" /\ i - 1 \notin E
  /\ \A i \in DOMAIN s : s[i] = "quote" => i \in E
  /\ s # <<>> /\ s[Len(s)] = "backslash" => Len(s) \in E

(* The scan escapes the same symbols.                                      *)
LEMMA EscapedInString ==
  ASSUME NEW B, IsText(B), NEW q \in 0..Len(B), NEW s \in Seq(Symbols), NEW E, Escapes(s, E),
         Here(B, q, s)
  PROVE  \A i \in 1..Len(s) : q + i <= Len(B) => (Escaped(B, q + 1)[q + i] <=> i \in E)
<1> DEFINE T == {i \in 1..Len(s) : q + i <= Len(B) /\ ~(Escaped(B, q + 1)[q + i] <=> i \in E)}
<1>0. Len(B) \in Nat /\ DOMAIN B = 1..Len(B) /\ Len(s) \in Nat /\ DOMAIN s = 1..Len(s)
  BY LenProperties DEF IsText
<1>1. ASSUME T # {} PROVE FALSE
  <2>1. PICK i \in T : \A k \in T : i <= k
    <3>1. T \in SUBSET Nat /\ T # {}
      BY <1>1, <1>0
    <3> HIDE DEF T
    <3> QED BY <3>1, LeastNumber
  <2>2. i \in 1..Len(s) /\ q + i <= Len(B) /\ ~(Escaped(B, q + 1)[q + i] <=> i \in E)
    BY <2>1
  <2>3. q + i \in 0..Len(B)
    BY <2>2, <1>0
  <2>4. Escaped(B, q + 1)[q + i]
          <=> q + i > q + 1 /\ At(B, (q + i) - 1) = "backslash" /\ ~Escaped(B, q + 1)[(q + i) - 1]
    BY <2>3, EscapedIs
  <2>5. i \in E <=> i # 1 /\ s[i - 1] = "backslash" /\ i - 1 \notin E
    BY <2>2, <1>0 DEF Escapes
  <2>6. CASE i = 1
    BY <2>2, <2>4, <2>5, <2>6
  <2>7. CASE i # 1
    <3>1. /\ i - 1 \in 1..Len(s) /\ q + (i - 1) <= Len(B) /\ (q + i) - 1 = q + (i - 1)
          /\ q + i > q + 1 /\ q + (i - 1) \in DOMAIN B
      BY <2>2, <2>7, <1>0
    <3>2. i - 1 \notin T
      <4> HIDE DEF T
      <4> QED BY <2>1, <2>2, <1>0
    <3>3. Escaped(B, q + 1)[q + (i - 1)] <=> i - 1 \in E
      BY <3>1, <3>2
    <3>4. At(B, q + (i - 1)) = s[i - 1]
      BY <3>1 DEF At, Here
    <3> QED BY <2>2, <2>4, <2>5, <2>7, <3>1, <3>3, <3>4
  <2> QED BY <2>6, <2>7
<1> QED BY <1>1

(* The scan stops at the quote after a well-escaped string, and nowhere if *)
(* it is not there yet.                                                    *)
LEMMA ClosingQuote ==
  ASSUME NEW B, IsText(B), NEW q \in 0..Len(B), NEW s \in Seq(Symbols), WellEscaped(s),
         Here(B, q, s), Is(B, q + Len(s) + 1, "quote")
  PROVE  closing_quote(B, q + 1)
           = IF q + Len(s) + 1 <= Len(B) THEN {q + Len(s) + 1} ELSE {}
<1> DEFINE n == Len(B)
           m == Len(s)
           esc(p) == Escaped(B, q + 1)[p]
           Q == {p \in q + 1..n : B[p] = "quote" /\ ~esc(p)}
<1>0. n \in Nat /\ DOMAIN B = 1..n /\ m \in Nat /\ DOMAIN s = 1..m
  BY LenProperties DEF IsText
<1>1. PICK E : Escapes(s, E)
  BY DEF WellEscaped, Escapes
<1>2. \A i \in 1..m : q + i <= n => (esc(q + i) <=> i \in E)
  BY <1>1, EscapedInString
<1>3. ASSUME NEW i \in 1..m, q + i <= n PROVE q + i \notin Q
  <2>1. ASSUME B[q + i] = "quote" PROVE esc(q + i)
    <3>1. s[i] = "quote"
      BY <1>3, <2>1 DEF Here
    <3>2. i \in E
      BY <1>0, <1>1, <3>1 DEF Escapes
    <3> QED BY <1>2, <1>3, <3>2
  <2> QED BY <2>1
<1>4. ASSUME q + m + 1 <= n PROVE ~esc(q + m + 1)
  <2>1. q + m + 1 \in 0..n
    BY <1>0, <1>4
  <2>2. esc(q + m + 1)
          <=> q + m + 1 > q + 1 /\ At(B, (q + m + 1) - 1) = "backslash" /\ ~esc((q + m + 1) - 1)
    BY <2>1, EscapedIs
  <2>3. (q + m + 1) - 1 = q + m
    BY <1>0
  <2>4. CASE m = 0
    BY <2>2, <2>4
  <2>5. CASE m # 0
    <3>1. m \in 1..m /\ q + m <= n /\ q + m \in DOMAIN B /\ s # <<>>
      BY <1>0, <1>4, <2>5
    <3>2. At(B, q + m) = s[m]
      BY <3>1 DEF At, Here
    <3>3. esc(q + m) <=> m \in E
      BY <1>2, <3>1
    <3>4. s[m] = "backslash" => m \in E
      BY <1>1, <3>1 DEF Escapes
    <3> HIDE DEF esc, m, n
    <3> QED BY <2>2, <2>3, <3>2, <3>3, <3>4
  <2> QED BY <2>4, <2>5
<1>5. ASSUME NEW p \in Q PROVE p >= q + m + 1
  <2>1. ASSUME p < q + m + 1 PROVE FALSE
    <3>1. p - q \in 1..m /\ q + (p - q) = p /\ p <= n
      BY <1>0, <2>1
    <3> HIDE DEF Q
    <3> QED BY <1>3, <3>1
  <2> QED BY <1>0, <2>1
<1>6. CASE q + m + 1 <= n
  <2>1. q + m + 1 \in Q
    BY <1>0, <1>4, <1>6 DEF Is
  <2> HIDE DEF Q
  <2>2. {p \in Q : \A r \in Q : p <= r} = {q + m + 1}
    <3>1. \A p \in Q : p \in Int
      BY <1>0 DEF Q
    <3> QED BY <2>1, <1>5, <1>0, <3>1
  <2> QED BY <1>6, <2>2 DEF closing_quote, Q
<1>7. CASE ~(q + m + 1 <= n)
  <2>1. Q = {}
    <3>1. \A p \in Q : p <= n /\ p \in Int
      BY <1>0
    <3> HIDE DEF Q
    <3> QED BY <3>1, <1>5, <1>7, <1>0
  <2> HIDE DEF Q
  <2>2. {p \in Q : \A r \in Q : p <= r} = {}
    BY <2>1
  <2> QED BY <1>7, <2>2 DEF closing_quote, Q
<1> QED BY <1>6, <1>7

LEMMA PartOf ==
  ASSUME NEW B, IsText(B), NEW r \in 0..Len(B), NEW m \in Nat, r + m <= Len(B)
  PROVE  /\ SubSeq(B, r + 1, r + m) \in Seq(Symbols) /\ Len(SubSeq(B, r + 1, r + m)) = m
         /\ \A i \in 1..m : SubSeq(B, r + 1, r + m)[i] = B[r + i]
<1> DEFINE u == SubSeq(B, r + 1, r + m)
<1>0. Len(B) \in Nat /\ DOMAIN B = 1..Len(B)
  BY LenProperties DEF IsText
<1>1. \A i \in r + 1..r + m : B[i] \in Symbols
  <2>1. \A i \in 1..Len(B) : B[i] \in Symbols
    BY ElementOfSeq DEF IsText
  <2> QED BY <2>1, <1>0
<1>2. /\ u \in Seq(Symbols)
      /\ Len(u) = IF r + 1 <= r + m THEN (r + m) - (r + 1) + 1 ELSE 0
      /\ \A i \in 1..(r + m) - (r + 1) + 1 : u[i] = B[(r + 1) + i - 1]
  BY <1>0, <1>1, SubSeqProperties, SMTT(30)
<1> HIDE DEF u
<1>3. (r + m) - (r + 1) + 1 = m /\ \A i \in 1..m : (r + 1) + i - 1 = r + i
  BY <1>0
<1>4. Len(u) = m
  BY <1>0, <1>2, <1>3
<1> QED BY <1>2, <1>3, <1>4 DEF u

(* A string after `k` blanks.                                              *)
LEMMA StringRead ==
  ASSUME NEW B, IsText(B), NEW q \in 0..Len(B), NEW k \in Nat, NEW s \in Seq(Symbols),
         WellEscaped(s), Blank(B, q, k), Is(B, q + k + 1, "quote"), Here(B, q + k + 1, s),
         Is(B, q + k + 1 + Len(s) + 1, "quote")
  PROVE  read_string(B, q + 1) = Got(B, q + k + 1 + Len(s) + 1, s)
<1> DEFINE n == Len(B)
           r == q + k + 1
           e == q + k + 1 + Len(s) + 1
<1>0. n \in Nat /\ DOMAIN B = 1..n /\ Len(s) \in Nat /\ r \in Nat /\ r + 1 = q + k + 2
  BY LenProperties DEF IsText
<1>1. expect_char(B, q + 1, "quote") = IF r <= n THEN {r + 1} ELSE {}
  BY Expected, <1>0
<1>2. CASE r <= n
  <2>1. closing_quote(B, r + 1) = IF e <= n THEN {e} ELSE {}
    <3>1. r \in 0..n
      BY <1>0, <1>2
    <3> QED BY <3>1, ClosingQuote
  <2>2. CASE e <= n
    <3>1. SubSeq(B, r + 1, e - 1) = s
      <4> DEFINE u == SubSeq(B, r + 1, e - 1)
      <4>1. e - 1 = r + Len(s) /\ r + Len(s) <= n
        BY <1>0, <2>2
      <4>2. u \in Seq(Symbols) /\ Len(u) = Len(s) /\ \A i \in 1..Len(s) : u[i] = B[r + i]
        <5>1. r \in 0..n
          BY <1>0, <1>2
        <5>2. u = SubSeq(B, r + 1, r + Len(s))
          BY <4>1
        <5>3. Len(s) \in Nat /\ r + Len(s) <= Len(B)
          BY <4>1, <1>0
        <5> HIDE DEF u, r, n
        <5>4. /\ SubSeq(B, r + 1, r + Len(s)) \in Seq(Symbols)
              /\ Len(SubSeq(B, r + 1, r + Len(s))) = Len(s)
              /\ \A i \in 1..Len(s) : SubSeq(B, r + 1, r + Len(s))[i] = B[r + i]
          <6> HIDE DEF e
          <6>1. r \in 0..Len(B)
            BY <5>1 DEF n
          <6> QED BY <6>1, <5>3, PartOf
        <5> QED BY <5>2, <5>4, Zenon
      <4>3. \A i \in 1..Len(s) : u[i] = s[i]
        <5> HIDE DEF u, r
        <5>1. ASSUME NEW i \in 1..Len(s) PROVE r + i <= n
          BY <4>1, <1>0
        <5>2. Here(B, r, s)
          BY DEF r
        <5> QED BY <4>2, <5>1, <5>2 DEF Here
      <4> HIDE DEF u
      <4>4. u = s
        BY <4>2, <4>3, SeqEqual
      <4> QED BY <4>4 DEF u
    <3>2. closing_quote(B, r + 1) = {e} /\ expect_char(B, q + 1, "quote") = {r + 1}
      BY <1>1, <1>2, <2>1, <2>2
    <3>3. read_string(B, q + 1) = {[val |-> s, next |-> e + 1]}
      <4> DEFINE R(start) == {[val |-> SubSeq(B, start, end - 1), next |-> end + 1] :
                                end \in closing_quote(B, start)}
      <4>1. read_string(B, q + 1) = UNION {R(start) : start \in expect_char(B, q + 1, "quote")}
        BY DEF read_string
      <4> HIDE DEF r, e
      <4>2. R(r + 1) = {[val |-> s, next |-> e + 1]}
        BY <3>1, <3>2
      <4> HIDE DEF R
      <4> QED BY <3>2, <4>1, <4>2
    <3> QED BY <3>3, <2>2 DEF Got
  <2>3. CASE ~(e <= n)
    BY <1>1, <1>2, <2>1, <2>3 DEF read_string, Got
  <2> QED BY <2>2, <2>3
<1>3. CASE ~(r <= n)
  BY <1>0, <1>1, <1>3 DEF read_string, Got
<1> QED BY <1>2, <1>3

----------------------------------------------------------------------------
(* What is there of a text that is put together.                           *)
LEMMA HereTogether ==
  ASSUME NEW B, NEW q \in Nat, NEW s \in Seq(Symbols), NEW t \in Seq(Symbols), Here(B, q, s \o t)
  PROVE  /\ Here(B, q, s) /\ Here(B, q + Len(s), t)
         /\ s \o t \in Seq(Symbols) /\ Len(s \o t) = Len(s) + Len(t)
<1> DEFINE u == s \o t
           n == Len(s)
           m == Len(t)
<1>1. /\ u \in Seq(Symbols) /\ Len(u) = n + m
      /\ \A i \in 1..n + m : u[i] = IF i <= n THEN s[i] ELSE t[i - n]
  BY ConcatProperties
<1>2. n \in Nat /\ m \in Nat
  BY LenProperties
<1>3. \A i \in 1..n + m : q + i <= Len(B) => B[q + i] = u[i]
  BY <1>1 DEF Here
<1> HIDE DEF u, n, m
<1>4. ASSUME NEW i \in 1..n, q + i <= Len(B) PROVE B[q + i] = s[i]
  BY <1>1, <1>2, <1>3, <1>4
<1>5. ASSUME NEW i \in 1..m, (q + n) + i <= Len(B) PROVE B[(q + n) + i] = t[i]
  <2>1. n + i \in 1..n + m /\ ~(n + i <= n) /\ (n + i) - n = i /\ q + (n + i) = (q + n) + i
    BY <1>2
  <2>2. u[n + i] = t[i]
    BY <1>1, <2>1
  <2>3. B[q + (n + i)] = u[n + i]
    BY <1>3, <1>5, <2>1
  <2> QED BY <2>1, <2>2, <2>3
<1> QED BY <1>1, <1>4, <1>5 DEF Here, u, n, m

LEMMA HereSplit ==
  ASSUME NEW B, NEW q \in Nat, NEW s \in Seq(Symbols), NEW t \in Seq(Symbols), NEW u, u = s \o t,
         Here(B, q, u)
  PROVE  Here(B, q, s) /\ Here(B, q + Len(s), t)
BY HereTogether

LEMMA LengthOf ==
  ASSUME NEW s \in Seq(Symbols), NEW t \in Seq(Symbols), NEW u, u = s \o t
  PROVE  /\ u \in Seq(Symbols) /\ Len(u) = Len(s) + Len(t)
         /\ Len(s) \in Nat /\ Len(t) \in Nat /\ Len(u) \in Nat
BY ConcatProperties, LenProperties

LEMMA HereBlank ==
  ASSUME NEW B, NEW q \in Nat, NEW w \in Seq({"ws"}), Here(B, q, w)
  PROVE  Blank(B, q, Len(w))
<1>1. Len(w) \in Nat /\ \A i \in 1..Len(w) : w[i] = "ws"
  <2>1. \A i \in 1..Len(w) : w[i] \in {"ws"}
    BY ElementOfSeq
  <2> QED BY <2>1, LenProperties
<1>2. ASSUME NEW i \in q + 1..q + Len(w), i <= Len(B) PROVE B[i] = "ws"
  <2>1. i - q \in 1..Len(w) /\ q + (i - q) = i
    BY <1>1
  <2> QED BY <1>1, <1>2, <2>1 DEF Here
<1> QED BY <1>2 DEF Blank

LEMMA HereOne ==
  ASSUME NEW B, NEW q \in Nat, NEW c, Here(B, q, <<c>>)
  PROVE  Is(B, q + 1, c)
<1>1. Len(<<c>>) = 1 /\ <<c>>[1] = c
  OBVIOUS
<1> QED BY <1>1 DEF Here, Is

LEMMA BlanksTogether ==
  ASSUME NEW B, NEW q \in Nat, NEW k \in Nat, NEW l \in Nat, Blank(B, q, k), Blank(B, q + k, l)
  PROVE  Blank(B, q, k + l)
BY DEF Blank

(* Texts are sequences.                                                    *)
LEMMA WhiteSpace ==
  ASSUME NEW w \in Seq({"ws"})
  PROVE  w \in Seq(Symbols) /\ Len(w) \in Nat
<1>1. {"ws"} \subseteq Symbols
  BY DEF Symbols
<1> QED BY <1>1, SeqMonotonic, LenProperties

LEMMA OneSymbol ==
  ASSUME NEW c \in Symbols
  PROVE  <<c>> \in Seq(Symbols) /\ Len(<<c>>) = 1
OBVIOUS

(* A text between two symbols, with white space around them.               *)
Enclosed(s, x, y, w) == w \o <<x>> \o s \o <<y>> \o w

(* Where its parts are, after `q` symbols.                                 *)
Frame(B, q, s, x, y, w, d) ==
  /\ Blank(B, q, Len(w)) /\ Is(B, q + Len(w) + 1, x)
  /\ Here(B, q + Len(w) + 1, s) /\ Is(B, q + Len(w) + 1 + Len(s) + 1, y)
  /\ Blank(B, q + Len(w) + 1 + Len(s) + 1, Len(w))
  /\ d \in Seq(Symbols) /\ Len(s) \in Nat
  /\ Len(d) = Len(w) + 1 + Len(s) + 1 + Len(w)

LEMMA EnclosedHere ==
  ASSUME NEW B, NEW q \in Nat, NEW s \in Seq(Symbols), NEW w \in Seq({"ws"}),
         NEW x \in Symbols, NEW y \in Symbols, NEW d, d = Enclosed(s, x, y, w), Here(B, q, d)
  PROVE  Frame(B, q, s, x, y, w, d)
<1> DEFINE a == w \o <<x>>
           b == a \o s
           c == b \o <<y>>
<1>0. w \in Seq(Symbols) /\ Len(w) \in Nat /\ Len(s) \in Nat
  BY WhiteSpace, LenProperties
<1> DEFINE u == <<x>>
           v == <<y>>
<1>1. /\ u \in Seq(Symbols) /\ Len(u) = 1 /\ v \in Seq(Symbols) /\ Len(v) = 1
  BY OneSymbol
<1>2. a = w \o u /\ b = a \o s /\ c = b \o v /\ d = c \o w
  BY DEF Enclosed
<1> HIDE DEF a, b, c, u, v
<1>3. /\ a \in Seq(Symbols) /\ Len(a) = Len(w) + 1 /\ Len(a) \in Nat
      /\ b \in Seq(Symbols) /\ Len(b) = Len(a) + Len(s) /\ Len(b) \in Nat
      /\ c \in Seq(Symbols) /\ Len(c) = Len(b) + 1 /\ Len(c) \in Nat
      /\ d \in Seq(Symbols) /\ Len(d) = Len(c) + Len(w)
  <2>2. a \in Seq(Symbols) /\ Len(a) = Len(w) + 1 /\ Len(a) \in Nat
    <3>1. a \in Seq(Symbols) /\ Len(a) = Len(w) + Len(u) /\ Len(a) \in Nat
      BY <1>0, <1>1, <1>2, LengthOf
    <3> QED BY <1>1, <3>1
  <2>3. b \in Seq(Symbols) /\ Len(b) = Len(a) + Len(s) /\ Len(b) \in Nat
    BY <1>2, <2>2, LengthOf
  <2>4. c \in Seq(Symbols) /\ Len(c) = Len(b) + 1 /\ Len(c) \in Nat
    <3>1. c \in Seq(Symbols) /\ Len(c) = Len(b) + Len(v) /\ Len(c) \in Nat
      BY <1>1, <1>2, <2>3, LengthOf
    <3> QED BY <1>1, <3>1
  <2>5. d \in Seq(Symbols) /\ Len(d) = Len(c) + Len(w)
    BY <1>0, <1>2, <2>4, LengthOf
  <2> QED BY <2>2, <2>3, <2>4, <2>5
<1>4. Here(B, q, c) /\ Here(B, q + Len(c), w)
  BY <1>0, <1>2, <1>3, HereSplit
<1>5. Here(B, q, b) /\ Here(B, q + Len(b), v)
  BY <1>1, <1>2, <1>3, <1>4, HereSplit
<1>5a. Here(B, q, a) /\ Here(B, q + Len(a), s)
  BY <1>2, <1>3, <1>5, HereSplit
<1>6. Here(B, q, w) /\ Here(B, q + Len(w), u)
  BY <1>0, <1>1, <1>2, <1>3, <1>5a, HereSplit
<1>7. /\ q + Len(a) = q + Len(w) + 1
      /\ q + Len(b) = q + Len(w) + 1 + Len(s)
      /\ q + Len(c) = q + Len(w) + 1 + Len(s) + 1
      /\ Len(d) = Len(w) + 1 + Len(s) + 1 + Len(w)
      /\ q + Len(w) \in Nat /\ q + Len(w) + 1 + Len(s) \in Nat
      /\ q + Len(w) + 1 + Len(s) + 1 \in Nat
  BY <1>0, <1>3
<1>8. Here(B, q + Len(w) + 1, s) /\ Here(B, q + Len(w) + 1 + Len(s), v)
      /\ Here(B, q + Len(w) + 1 + Len(s) + 1, w)
  BY <1>4, <1>5, <1>5a, <1>7
<1>9. Is(B, q + Len(w) + 1, x) /\ Is(B, q + Len(w) + 1 + Len(s) + 1, y)
  BY <1>6, <1>7, <1>8, HereOne DEF u, v
<1>10. Blank(B, q, Len(w)) /\ Blank(B, q + Len(w) + 1 + Len(s) + 1, Len(w))
  BY <1>6, <1>7, <1>8, HereBlank
<1> QED BY <1>0, <1>3, <1>7, <1>8, <1>9, <1>10 DEF Frame

LEMMA QuotedHere ==
  ASSUME NEW B, NEW q \in Nat, NEW s \in Seq(Symbols), NEW w \in Seq({"ws"}),
         Here(B, q, Quoted(s, w))
  PROVE  /\ Blank(B, q, Len(w)) /\ Is(B, q + Len(w) + 1, "quote")
         /\ Here(B, q + Len(w) + 1, s) /\ Is(B, q + Len(w) + 1 + Len(s) + 1, "quote")
         /\ Blank(B, q + Len(w) + 1 + Len(s) + 1, Len(w))
         /\ Quoted(s, w) \in Seq(Symbols)
         /\ Len(Quoted(s, w)) = Len(w) + 1 + Len(s) + 1 + Len(w)
<1> DEFINE d == Quoted(s, w)
           x == "quote"
<1>1. d = Enclosed(s, x, x, w) /\ x \in Symbols
  BY DEF Quoted, Enclosed, Symbols
<1> HIDE DEF d, x
<1>2. Here(B, q, d)
  BY DEF d
<1>3. Frame(B, q, s, x, x, w, d)
  BY <1>1, <1>2, EnclosedHere
<1> QED BY <1>3 DEF Frame, d, x

(* A string as it is written, after `k` more blanks.                       *)
LEMMA QuotedRead ==
  ASSUME NEW B, IsText(B), NEW q \in 0..Len(B), NEW k \in Nat, NEW s \in Seq(Symbols),
         WellEscaped(s), NEW w \in Seq({"ws"}), Blank(B, q, k), Here(B, q + k, Quoted(s, w)),
         NEW e, e = q + k + Len(Quoted(s, w)) - Len(w)
  PROVE  /\ e \in Nat /\ e > q + k /\ read_string(B, q + 1) = Got(B, e, s)
         /\ Blank(B, e, Len(w))
         /\ Len(Quoted(s, w)) \in Nat /\ e + Len(w) = q + k + Len(Quoted(s, w))
         /\ Is(B, q + k + Len(w) + 1, "quote") /\ Blank(B, q, k + Len(w))
<1> DEFINE j == k + Len(w)
<1>0. Len(w) \in Nat /\ Len(s) \in Nat /\ q \in Nat /\ Len(B) \in Nat /\ q + k \in Nat /\ j \in Nat
  BY WhiteSpace, LenProperties DEF IsText
<1>1. /\ Blank(B, q + k, Len(w)) /\ Is(B, (q + k) + Len(w) + 1, "quote")
      /\ Here(B, (q + k) + Len(w) + 1, s) /\ Is(B, (q + k) + Len(w) + 1 + Len(s) + 1, "quote")
      /\ Blank(B, (q + k) + Len(w) + 1 + Len(s) + 1, Len(w))
      /\ Len(Quoted(s, w)) = Len(w) + 1 + Len(s) + 1 + Len(w)
  BY <1>0, QuotedHere
<1>2. Blank(B, q, j)
  BY <1>0, <1>1, BlanksTogether
<1>3. /\ (q + k) + Len(w) + 1 = q + j + 1
      /\ (q + k) + Len(w) + 1 + Len(s) + 1 = q + j + 1 + Len(s) + 1
      /\ e = q + j + 1 + Len(s) + 1
  BY <1>0, <1>1
<1> HIDE DEF j
<1>4. read_string(B, q + 1) = Got(B, e, s)
  BY <1>0, <1>1, <1>2, <1>3, StringRead
<1>5. Blank(B, e, Len(w))
  BY <1>1, <1>3
<1> QED BY <1>0, <1>1, <1>2, <1>3, <1>4, <1>5 DEF j

(* The string and a colon right after it.                                  *)
LEMMA KeyRead ==
  ASSUME NEW B, IsText(B), NEW q \in 0..Len(B), NEW k \in Nat, NEW s \in Seq(Symbols),
         WellEscaped(s), NEW w \in Seq({"ws"}), Blank(B, q, k), Here(B, q + k, Quoted(s, w)),
         NEW c, c = q + k + Len(Quoted(s, w)) + 1, Is(B, c, "colon")
  PROVE  /\ c \in Nat /\ c > q + k /\ read_key(B, q + 1) = Got(B, c, s)
         /\ Is(B, q + k + Len(w) + 1, "quote") /\ Blank(B, q, k + Len(w))
<1> DEFINE e == q + k + Len(Quoted(s, w)) - Len(w)
<1>0. Len(w) \in Nat /\ Len(B) \in Nat
  BY WhiteSpace, LenProperties DEF IsText
<1>1. /\ e \in Nat /\ e > q + k /\ read_string(B, q + 1) = Got(B, e, s)
      /\ Blank(B, e, Len(w)) /\ e + Len(w) + 1 = c /\ c \in Nat
      /\ Is(B, q + k + Len(w) + 1, "quote") /\ Blank(B, q, k + Len(w))
  BY <1>0, QuotedRead
<1> HIDE DEF e
<1>2. CASE e <= Len(B)
  <2>1. expect_char(B, e + 1, "colon") = IF e + Len(w) + 1 <= Len(B) THEN {e + Len(w) + 2} ELSE {}
    <3>1. e \in 0..Len(B) /\ Is(B, e + Len(w) + 1, "colon")
      BY <1>0, <1>1, <1>2
    <3> QED BY <1>0, <1>1, <3>1, Expected
  <2>2. e + Len(w) + 2 = c + 1
    BY <1>0, <1>1
  <2>3. expect_char(B, e + 1, "colon") = IF c <= Len(B) THEN {c + 1} ELSE {}
    BY <1>1, <2>1, <2>2
  <2> DEFINE R(key) == {[val |-> key.val, next |-> p] : p \in expect_char(B, key.next, "colon")}
             x == [val |-> s, next |-> e + 1]
  <2>4. read_key(B, q + 1) = UNION {R(key) : key \in {x}}
    <3>1. read_string(B, q + 1) = {x}
      BY <1>1, <1>2 DEF Got
    <3> HIDE DEF x
    <3> QED BY <3>1 DEF read_key
  <2>5. R(x) = Got(B, c, s)
    BY <2>3 DEF Got
  <2> HIDE DEF R, x
  <2>6. read_key(B, q + 1) = Got(B, c, s)
    BY <2>4, <2>5
  <2> QED BY <1>0, <1>1, <2>6
<1>3. CASE ~(e <= Len(B))
  <2>1. ~(c <= Len(B))
    BY <1>0, <1>1, <1>3
  <2>2. read_string(B, q + 1) = {}
    BY <1>1, <1>3 DEF Got
  <2>3. read_key(B, q + 1) = {}
    BY <2>2 DEF read_key
  <2> QED BY <1>0, <1>1, <2>1, <2>3 DEF Got
<1> QED BY <1>2, <1>3

----------------------------------------------------------------------------
(* The loop over members.                                                  *)
LEMMA AfterRead ==
  ASSUME NEW B, IsText(B), NEW e \in 0..Len(B), NEW c \in Nat, c > e, Blank(B, e, c - e - 1),
         NEW sep \in {"comma", "close"}, Is(B, c, sep), NEW v
  PROVE  AfterMember(B, e + 1, v)
           = IF c <= Len(B) THEN {[val |-> v, next |-> c + 1, more |-> sep = "comma"]} ELSE {}
<1> DEFINE n == Len(B)
           p == skip_ws(B, e + 1)
           k == c - e - 1
<1>0. n \in Nat /\ DOMAIN B = 1..n /\ e \in Nat /\ k \in Nat /\ e + k + 1 = c
  BY LenProperties DEF IsText
<1>1. p = IF c <= n THEN c ELSE n + 1
  <2>1. sep # "ws" /\ Is(B, e + k + 1, sep) /\ Blank(B, e, k)
    BY <1>0
  <2> HIDE DEF k
  <2>2. p = IF e + k + 1 <= n THEN e + k + 1 ELSE n + 1
    BY <1>0, <2>1, WsTo
  <2> QED BY <1>0, <2>2
<1> HIDE DEF p, k
<1>2. CASE c <= n
  <2>1. At(B, p) = sep /\ p = c
    BY <1>0, <1>1, <1>2 DEF At, Is
  <2>2. CASE sep = "comma"
    BY <1>2, <2>1, <2>2 DEF AfterMember, p
  <2>3. CASE sep = "close"
    <3>1. expect_char(B, c, "close") = {c + 1}
      <4>1. /\ c - 1 \in 0..n /\ (c - 1) + 1 = c /\ (c - 1) + 0 + 1 = c /\ (c - 1) + 0 + 2 = c + 1
            /\ Blank(B, c - 1, 0)
        BY <1>0, <1>2 DEF Blank
      <4>2. expect_char(B, (c - 1) + 1, "close")
              = IF (c - 1) + 0 + 1 <= Len(B) THEN {(c - 1) + 0 + 2} ELSE {}
        <5>1. Is(B, (c - 1) + 0 + 1, "close")
          BY <2>3, <4>1
        <5> QED BY <4>1, <5>1, Expected
      <4> QED BY <1>2, <4>1, <4>2
    <3>2. AfterMember(B, e + 1, v)
            = {[val |-> v, next |-> r, more |-> FALSE] : r \in expect_char(B, c, "close")}
      BY <2>1, <2>3 DEF AfterMember, p
    <3>3. (sep = "comma") = FALSE
      BY <2>3
    <3> QED BY <1>2, <3>1, <3>2, <3>3
  <2> QED BY <2>2, <2>3
<1>3. CASE ~(c <= n)
  <2>1. p = n + 1 /\ At(B, n + 1) = "end"
    BY <1>0, <1>1, <1>3 DEF At
  <2>2. expect_char(B, n + 1, "close") = {}
    <3>1. n \in 0..n /\ Blank(B, n, 0) /\ Is(B, n + 0 + 1, "close") /\ ~(n + 0 + 1 <= n)
      BY <1>0 DEF Blank, Is
    <3> QED BY <3>1, Expected
  <2>3. AfterMember(B, e + 1, v)
          = {[val |-> v, next |-> r, more |-> FALSE] : r \in expect_char(B, n + 1, "close")}
    BY <2>1 DEF AfterMember, p
  <2> QED BY <1>3, <2>2, <2>3
<1> QED BY <1>2, <1>3

(* The first `j` values.                                                   *)
Upto(val, j) == [i \in 1..j |-> val[i]]

LEMMA UptoIsSeq ==
  ASSUME NEW j \in Nat, NEW val
  PROVE  /\ Upto(val, j) \in Seq({val[i] : i \in 1..j}) /\ Len(Upto(val, j)) = j
         /\ DOMAIN Upto(val, j) = 1..j /\ \A i \in 1..j : Upto(val, j)[i] = val[i]
<1> DEFINE S == {val[i] : i \in 1..j}
           u == Upto(val, j)
<1>1. u \in [1..j -> S] /\ \A i \in 1..j : u[i] = val[i]
  BY DEF Upto
<1> HIDE DEF S, u
<1>2. u \in Seq(S)
  BY <1>1, SeqDef
<1>3. DOMAIN u = 1..j
  BY <1>1
<1>4. Len(u) = j
  <2>1. Len(u) \in Nat /\ 1..Len(u) = 1..j
    BY <1>2, <1>3, LenProperties
  <2> QED BY <2>1
<1> QED BY <1>1, <1>2, <1>3, <1>4 DEF S, u

LEMMA UptoAppend ==
  ASSUME NEW j \in Nat \ {0}, NEW val
  PROVE  Append(Upto(val, j - 1), val[j]) = Upto(val, j)
<1> DEFINE S == {val[i] : i \in 1..j}
           R == {val[i] : i \in 1..j - 1}
           s == Upto(val, j - 1)
           u == Upto(val, j)
           x == val[j]
<1>1. x \in S /\ R \subseteq S /\ j - 1 \in Nat
  OBVIOUS
<1>2. u \in Seq(S) /\ Len(u) = j /\ \A i \in 1..j : u[i] = val[i]
  BY UptoIsSeq
<1>3. s \in Seq(R) /\ Len(s) = j - 1 /\ \A i \in 1..j - 1 : s[i] = val[i]
  BY <1>1, UptoIsSeq
<1> HIDE DEF S, R, s, u
<1>4. s \in Seq(S)
  BY <1>1, <1>3, SeqMonotonic
<1> HIDE DEF x
<1>5. /\ Append(s, x) \in Seq(S) /\ Len(Append(s, x)) = Len(s) + 1
      /\ \A i \in 1..Len(s) : Append(s, x)[i] = s[i]
      /\ Append(s, x)[Len(s) + 1] = x
  BY <1>1, <1>4, AppendProperties
<1>6. \A i \in 1..j : Append(s, x)[i] = u[i]
  <2> SUFFICES ASSUME NEW i \in 1..j PROVE Append(s, x)[i] = u[i]
    OBVIOUS
  <2>1. CASE i = j
    BY <2>1, <1>2, <1>3, <1>5 DEF x
  <2>2. CASE i # j
    BY <2>2, <1>2, <1>3, <1>5
  <2> QED BY <2>1, <2>2
<1>7. Append(s, x) = u
  <2>1. Len(Append(s, x)) = j
    BY <1>3, <1>5
  <2> QED BY <1>2, <1>5, <1>6, <2>1, SeqEqual
<1> QED BY <1>7 DEF s, u, x

(* The turn after `j` of `m` members, of which number i ends before symbol *)
(* c[i], if that is there.                                                 *)
Reached(B, m, c, val, j) ==
  IF c[j] <= Len(B) THEN {[val |-> Upto(val, j), next |-> c[j] + 1, more |-> j < m]} ELSE {}

Turns(B, member, S) == UNION {NextTurn(B, member, t) : t \in S}

(* Member `j` is read up to symbol e[j], and blanks and a comma or a brace *)
(* follow.                                                                 *)
Reads(B, m, c, e, val, member, j) ==
  /\ c[j - 1] \in Nat /\ c[j] \in Nat /\ e[j] \in Nat /\ c[j - 1] < e[j] /\ e[j] < c[j]
  /\ c[j - 1] <= Len(B) => member[c[j - 1] + 1] = Got(B, e[j], val[j])
  /\ Blank(B, e[j], c[j] - e[j] - 1)
  /\ Is(B, c[j], IF j < m THEN "comma" ELSE "close")

LEMMA OneTurn ==
  ASSUME NEW B, IsText(B), NEW m \in Nat, NEW c, NEW e, NEW val, NEW member, NEW j \in 1..m,
         Reads(B, m, c, e, val, member, j)
  PROVE  Turns(B, member, Reached(B, m, c, val, j - 1)) = Reached(B, m, c, val, j)
<1> DEFINE n == Len(B)
           t == [val |-> Upto(val, j - 1), next |-> c[j - 1] + 1, more |-> TRUE]
           sep == IF j < m THEN "comma" ELSE "close"
<1>0. /\ n \in Nat /\ c[j - 1] \in Nat /\ c[j] \in Nat /\ e[j] \in Nat /\ c[j - 1] < e[j]
      /\ e[j] < c[j]
  BY LenProperties DEF IsText, Reads
<1>1. CASE ~(c[j - 1] <= n)
  <2>1. ~(c[j] <= n)
    BY <1>0, <1>1
  <2> QED BY <1>1, <2>1 DEF Reached, Turns
<1>2. CASE c[j - 1] <= n
  <2>1. Reached(B, m, c, val, j - 1) = {t}
    <3>1. (j - 1 < m) = TRUE
      OBVIOUS
    <3> QED BY <1>2, <3>1 DEF Reached
  <2>2. t.more /\ t.val = Upto(val, j - 1) /\ t.next = c[j - 1] + 1
    OBVIOUS
  <2> HIDE DEF t
  <2>3. Turns(B, member, Reached(B, m, c, val, j - 1)) = NextTurn(B, member, t)
    BY <2>1 DEF Turns
  <2>4. member[t.next] = Got(B, e[j], val[j])
    BY <1>2, <2>2 DEF Reads
  <2>5. NextTurn(B, member, t)
          = UNION {AfterMember(B, r.next, Append(t.val, r.val)) : r \in Got(B, e[j], val[j])}
    BY <2>2, <2>4 DEF NextTurn
  <2>6. CASE ~(e[j] <= n)
    <3>1. ~(c[j] <= n)
      BY <1>0, <2>6
    <3>2. Got(B, e[j], val[j]) = {} /\ Reached(B, m, c, val, j) = {}
      BY <2>6, <3>1 DEF Got, Reached
    <3> QED BY <2>3, <2>5, <3>2
  <2>7. CASE e[j] <= n
    <3> DEFINE r == [val |-> val[j], next |-> e[j] + 1]
    <3>1. Got(B, e[j], val[j]) = {r} /\ r.val = val[j] /\ r.next = e[j] + 1
      BY <2>7 DEF Got
    <3> HIDE DEF r
    <3>2. NextTurn(B, member, t) = AfterMember(B, e[j] + 1, Upto(val, j))
      <4>1. NextTurn(B, member, t) = AfterMember(B, r.next, Append(t.val, r.val))
        BY <2>5, <3>1
      <4>2. Append(t.val, r.val) = Upto(val, j)
        <5>1. j \in Nat \ {0}
          OBVIOUS
        <5>2. Append(Upto(val, j - 1), val[j]) = Upto(val, j)
          BY <5>1, UptoAppend, Zenon
        <5> QED BY <2>2, <3>1, <5>2, Zenon
      <4> QED BY <3>1, <4>1, <4>2
    <3>3. AfterMember(B, e[j] + 1, Upto(val, j))
            = IF c[j] <= n THEN {[val |-> Upto(val, j), next |-> c[j] + 1, more |-> sep = "comma"]}
              ELSE {}
      <4>1. sep \in {"comma", "close"} /\ e[j] \in 0..n
        BY <1>0, <2>7
      <4>2. Is(B, c[j], sep) /\ Blank(B, e[j], c[j] - e[j] - 1)
        BY DEF Reads
      <4> HIDE DEF sep
      <4> QED BY <1>0, <4>1, <4>2, AfterRead
    <3>4. (sep = "comma") = (j < m)
      OBVIOUS
    <3> HIDE DEF sep
    <3> QED BY <2>3, <3>2, <3>3, <3>4 DEF Reached
  <2> QED BY <2>6, <2>7
<1> QED BY <1>1, <1>2

(* All turns, for any function of the turns of ReadMembers.                *)
IsLoop(f, B, start, member) ==
  f = [k \in 0..Len(B) |-> IF k = 0 THEN {FirstTurn(B, start)}
                           ELSE UNION {NextTurn(B, member, t) : t \in f[k - 1]}]

Looped(g, B, start, member) ==
  /\ DOMAIN g = 0..Len(B) /\ g[0] = {FirstTurn(B, start)}
  /\ \A k \in 1..Len(B) : g[k] = Turns(B, member, g[k - 1])

LEMMA LoopIs ==
  ASSUME NEW B, IsText(B), NEW start, NEW member, NEW g, Looped(g, B, start, member)
  PROVE  ReadMembers(B, start, member)
           = {[val |-> t.val, next |-> t.next] : t \in {x \in g[Len(B)] : ~x.more}}
<1>0. Len(B) \in Nat
  BY LenProperties DEF IsText
<1>1. ASSUME NEW f, IsLoop(f, B, start, member) PROVE f[Len(B)] = g[Len(B)]
  <2>1. DOMAIN f = 0..Len(B) /\ f[0] = g[0]
    BY <1>0, <1>1 DEF IsLoop, Looped
  <2>2. ASSUME NEW k \in 1..Len(B), f[k - 1] = g[k - 1] PROVE f[k] = g[k]
    <3>1. f[k] = Turns(B, member, f[k - 1])
      BY <1>0, <1>1 DEF IsLoop, Turns
    <3> QED BY <2>2, <3>1 DEF Looped
  <2>3. \A k \in 1..Len(B) : f[k - 1] = g[k - 1] => f[k] = g[k]
    BY <2>2
  <2>4. \A k \in 0..Len(B) : f[k] = g[k]
    <3>1. DOMAIN g = 0..Len(B)
      BY DEF Looped
    <3> QED BY <1>0, <2>1, <2>3, <3>1, StepsAgree, ZenonT(60)
  <2> QED BY <1>0, <2>4
<1> DEFINE turn == CHOOSE f : IsLoop(f, B, start, member)
           h == [k \in 0..Len(B) |-> g[k]]
<1>2. IsLoop(h, B, start, member)
  <2>1. ASSUME NEW k \in 0..Len(B)
        PROVE  h[k] = IF k = 0 THEN {FirstTurn(B, start)}
                      ELSE UNION {NextTurn(B, member, t) : t \in h[k - 1]}
    <3>1. k # 0 => k \in 1..Len(B) /\ k - 1 \in 0..Len(B)
      BY <1>0
    <3> QED BY <3>1 DEF Turns, Looped
  <2>2. h = [k \in 0..Len(B) |-> h[k]]
    OBVIOUS
  <2> HIDE DEF h
  <2> QED BY <2>1, <2>2 DEF IsLoop
<1>3. IsLoop(turn, B, start, member)
  <2> HIDE DEF h
  <2> QED BY <1>2
<1>4. ReadMembers(B, start, member)
        = {[val |-> t.val, next |-> t.next] : t \in {x \in turn[Len(B)] : ~x.more}}
  BY Zenon DEF ReadMembers, IsLoop
<1> HIDE DEF turn
<1> QED BY <1>1, <1>3, <1>4

(* The members of an object of which `c` gives the ends.                   *)
LEMMA MembersRead ==
  ASSUME NEW B, IsText(B), NEW q \in 0..Len(B), NEW m \in Nat \ {0}, NEW c, NEW e, NEW val,
         NEW member, c[0] = q, \A j \in 1..m : Reads(B, m, c, e, val, member, j),
         At(B, skip_ws(B, q + 1)) # "close"
  PROVE  /\ ReadMembers(B, q + 1, member) = Got(B, c[m], Upto(val, m))
         /\ c[m] \in Nat /\ c[m] > q
<1> DEFINE n == Len(B)
           To(k) == IF k < m THEN k ELSE m
           R(j) == Reached(B, m, c, val, j)
           g == [k \in 0..n |-> R(To(k))]
<1>0. n \in Nat /\ q \in Nat
  BY LenProperties DEF IsText
<1>1. \A j \in 0..m : c[j] \in Nat
  BY <1>0 DEF Reads
<1>2. \A j \in 1..m : c[j - 1] < c[j]
  <2> SUFFICES ASSUME NEW j \in 1..m PROVE c[j - 1] < c[j]
    OBVIOUS
  <2>1. c[j - 1] \in Nat /\ c[j] \in Nat /\ e[j] \in Nat /\ c[j - 1] < e[j] /\ e[j] < c[j]
    BY DEF Reads
  <2> QED BY <2>1
<1>3. \A j \in 0..m : c[j] >= q + j
  <2> DEFINE T == {j \in 0..m : ~(c[j] >= q + j)}
  <2>1. ASSUME T # {} PROVE FALSE
    <3>1. PICK j \in T : \A k \in T : j <= k
      <4>1. T \in SUBSET Nat /\ T # {}
        BY <2>1
      <4> HIDE DEF T
      <4> QED BY <4>1, LeastNumber
    <3>2. j \in 0..m /\ ~(c[j] >= q + j)
      BY <3>1
    <3>3. j # 0
      BY <3>2, <1>0
    <3>4. j \in 1..m /\ j - 1 \in 0..m /\ j - 1 \notin T
      <4>1. j - 1 \notin T
        <5> HIDE DEF T
        <5> QED BY <3>1, <3>2
      <4> QED BY <3>2, <3>3, <4>1
    <3>5. c[j - 1] >= q + (j - 1)
      BY <3>4
    <3> QED BY <3>2, <3>4, <3>5, <1>0, <1>1, <1>2
  <2> QED BY <2>1
<1>4. g[0] = {FirstTurn(B, q + 1)}
  <2>1. FirstTurn(B, q + 1) = [val |-> <<>>, next |-> q + 1, more |-> TRUE]
    BY DEF FirstTurn
  <2>2. Upto(val, 0) = <<>>
    BY DEF Upto
  <2>3. (0 < m) = TRUE /\ To(0) = 0 /\ 0 \in 0..n
    BY <1>0
  <2>4. R(0) = {[val |-> <<>>, next |-> q + 1, more |-> TRUE]}
    <3>1. R(0) = {[val |-> Upto(val, 0), next |-> c[0] + 1, more |-> 0 < m]}
      <4>1. c[0] <= Len(B)
        BY <1>0
      <4> QED BY <4>1 DEF Reached
    <3> QED BY <2>2, <2>3, <3>1
  <2> HIDE DEF To, R
  <2> QED BY <2>1, <2>3, <2>4
<1>5. ASSUME NEW k \in 1..n PROVE g[k] = Turns(B, member, g[k - 1])
  <2>1. k \in 0..n /\ k - 1 \in 0..n
    BY <1>0
  <2>2. g[k] = R(To(k)) /\ g[k - 1] = R(To(k - 1))
    <3> HIDE DEF R, To
    <3> QED BY <2>1
  <2>3. CASE k <= m
    <3>1. k \in 1..m /\ To(k) = k /\ To(k - 1) = k - 1
      BY <2>3
    <3>2. Turns(B, member, R(k - 1)) = R(k)
      BY <3>1, OneTurn
    <3> HIDE DEF R, To, g
    <3> QED BY <2>2, <3>1, <3>2
  <2>4. CASE ~(k <= m)
    <3>1. To(k) = m /\ To(k - 1) = m
      BY <2>4
    <3>2. Turns(B, member, R(m)) = R(m)
      <4>1. \A t \in R(m) : NextTurn(B, member, t) = {t}
        <5>1. ~(m < m)
          OBVIOUS
        <5>2. \A t \in R(m) : t.more = (m < m)
          BY DEF Reached
        <5>3. \A t \in R(m) : ~t.more
          BY <5>1, <5>2
        <5> QED BY <5>3 DEF NextTurn
      <4> HIDE DEF R
      <4> QED BY <4>1 DEF Turns
    <3> HIDE DEF R, To, g
    <3> QED BY <2>2, <3>1, <3>2
  <2> QED BY <2>3, <2>4
<1>6. DOMAIN g = 0..n /\ g[n] = R(To(n))
  BY <1>0
<1> HIDE DEF g, R
<1>7. ReadMembers(B, q + 1, member)
        = {[val |-> t.val, next |-> t.next] : t \in {x \in R(To(n)) : ~x.more}}
  <2>1. \A k \in 1..n : g[k] = Turns(B, member, g[k - 1])
    BY <1>5
  <2>2. Looped(g, B, q + 1, member)
    BY <1>4, <1>6, <2>1 DEF Looped
  <2> HIDE DEF To
  <2>3. ReadMembers(B, q + 1, member)
          = {[val |-> t.val, next |-> t.next] : t \in {x \in g[n] : ~x.more}}
    BY <2>2, LoopIs
  <2> QED BY <1>6, <2>3
<1>8. CASE c[m] <= n
  <2>1. To(n) = m
    BY <1>0, <1>1, <1>3, <1>8
  <2>2. R(m) = {[val |-> Upto(val, m), next |-> c[m] + 1, more |-> FALSE]}
    <3>1. (m < m) = FALSE
      OBVIOUS
    <3> QED BY <1>8, <3>1 DEF R, Reached
  <2> DEFINE last == [val |-> Upto(val, m), next |-> c[m] + 1, more |-> FALSE]
  <2>3. {x \in R(m) : ~x.more} = {last} /\ last.val = Upto(val, m) /\ last.next = c[m] + 1
    BY <2>2
  <2> HIDE DEF To, last
  <2>4. ReadMembers(B, q + 1, member) = {[val |-> Upto(val, m), next |-> c[m] + 1]}
    BY <1>7, <2>1, <2>3
  <2> QED BY <1>0, <1>1, <1>3, <1>8, <2>4 DEF Got
<1>9. CASE ~(c[m] <= n)
  <2>1. {x \in R(To(n)) : ~x.more} = {}
    <3>1. CASE n < m
      <4>1. To(n) = n
        BY <3>1
      <4>2. \A x \in R(n) : x.more = (n < m)
        BY DEF R, Reached
      <4> HIDE DEF To
      <4> QED BY <3>1, <4>1, <4>2
    <3>2. CASE ~(n < m)
      <4>1. To(n) = m
        BY <3>2
      <4> QED BY <4>1, <1>9 DEF R, Reached
    <3> QED BY <3>1, <3>2
  <2> HIDE DEF To
  <2>2. ReadMembers(B, q + 1, member) = {}
    BY <1>7, <2>1
  <2> QED BY <1>0, <1>1, <1>3, <1>9, <2>2 DEF Got
<1> QED BY <1>8, <1>9

(* An object without members.                                              *)
LEMMA NoMembersRead ==
  ASSUME NEW B, IsText(B), NEW q \in 0..Len(B), NEW k \in Nat, Blank(B, q, k), NEW member,
         NEW c, c = q + k + 1, Is(B, c, "close"), ~(c <= Len(B)) => member[q + 1] = {}
  PROVE  ReadMembers(B, q + 1, member) = Got(B, c, <<>>)
<1> DEFINE n == Len(B)
           p == skip_ws(B, q + 1)
           first == FirstTurn(B, q + 1)
<1>0. n \in Nat /\ DOMAIN B = 1..n /\ q \in Nat /\ c \in Nat
  BY LenProperties DEF IsText
<1>1. p = IF c <= n THEN c ELSE n + 1
  BY <1>0, WsTo
<1> HIDE DEF p
<1>2. CASE c <= n
  <2>1. At(B, p) = "close" /\ p = c
    BY <1>0, <1>1, <1>2 DEF At, Is
  <2>2. first = [val |-> <<>>, next |-> c + 1, more |-> FALSE]
    BY <2>1 DEF FirstTurn, p
  <2> DEFINE g == [i \in 0..n |-> {first}]
  <2>3. Turns(B, member, {first}) = {first}
    <3>1. ~first.more
      BY <2>2
    <3> HIDE DEF first
    <3> QED BY <3>1 DEF Turns, NextTurn
  <2>4. Looped(g, B, q + 1, member) /\ g[n] = {first}
    <3> HIDE DEF first
    <3>1. \A i \in 0..n : g[i] = {first}
      OBVIOUS
    <3>2. \A i \in 1..n : i \in 0..n /\ i - 1 \in 0..n
      BY <1>0
    <3>3. DOMAIN g = 0..n /\ 0 \in 0..n /\ n \in 0..n
      BY <1>0
    <3> HIDE DEF g
    <3> QED BY <2>3, <3>1, <3>2, <3>3 DEF Looped, first
  <2> HIDE DEF g
  <2>5. ReadMembers(B, q + 1, member)
          = {[val |-> t.val, next |-> t.next] : t \in {x \in {first} : ~x.more}}
    BY <2>4, LoopIs
  <2> HIDE DEF first
  <2> QED BY <1>2, <2>2, <2>5 DEF Got
<1>3. CASE ~(c <= n)
  <2>1. At(B, p) = "end"
    BY <1>0, <1>1, <1>3 DEF At
  <2>2. first = [val |-> <<>>, next |-> q + 1, more |-> TRUE]
    BY <2>1 DEF FirstTurn, p
  <2> DEFINE g == [i \in 0..n |-> IF i = 0 THEN {first} ELSE {}]
  <2>3. Turns(B, member, {first}) = {} /\ Turns(B, member, {}) = {}
    <3>1. NextTurn(B, member, first) = {}
      BY <1>3, <2>2 DEF NextTurn
    <3> HIDE DEF first
    <3> QED BY <3>1 DEF Turns
  <2>4. Looped(g, B, q + 1, member)
    <3> HIDE DEF first
    <3>1. ASSUME NEW i \in 1..n PROVE g[i] = Turns(B, member, g[i - 1])
      <4>1. i \in 0..n /\ i - 1 \in 0..n /\ g[i] = {}
        BY <1>0
      <4> QED BY <2>3, <4>1
    <3>2. DOMAIN g = 0..n /\ g[0] = {first}
      BY <1>0
    <3> QED BY <3>1, <3>2 DEF Looped, first
  <2>5. {x \in g[n] : ~x.more} = {}
    <3>1. first.more
      BY <2>2
    <3> HIDE DEF first
    <3> QED BY <1>0, <3>1
  <2> HIDE DEF g, first
  <2>6. ReadMembers(B, q + 1, member)
          = {[val |-> t.val, next |-> t.next] : t \in {x \in g[n] : ~x.more}}
    BY <2>4, LoopIs DEF first
  <2>7. ReadMembers(B, q + 1, member) = {}
    BY <2>5, <2>6
  <2> QED BY <1>3, <2>7 DEF Got
<1> QED BY <1>2, <1>3

----------------------------------------------------------------------------
(* The text of the members of an object.                                   *)
Comma(i) == IF i = 1 THEN <<>> ELSE <<"comma">>

Spelled(text, parts, w) ==
  /\ text \in [0..Len(parts) -> Seq(Symbols)] /\ text[0] = w
  /\ \A i \in 1..Len(parts) : text[i] = text[i - 1] \o Comma(i) \o parts[i]
  /\ MembersText(parts, w) = text[Len(parts)]

LEMMA CommaIsText ==
  ASSUME NEW i
  PROVE  Comma(i) \in Seq(Symbols) /\ Len(Comma(i)) = IF i = 1 THEN 0 ELSE 1
<1>1. <<"comma">> \in Seq(Symbols) /\ Len(<<"comma">>) = 1
  BY OneSymbol DEF Symbols
<1>2. <<>> \in Seq(Symbols) /\ Len(<<>>) = 0
  OBVIOUS
<1> QED BY <1>1, <1>2 DEF Comma

LEMMA MembersSpelled ==
  ASSUME NEW parts, Len(parts) \in Nat, \A i \in 1..Len(parts) : parts[i] \in Seq(Symbols),
         NEW w \in Seq(Symbols)
  PROVE  \E text : Spelled(text, parts, w)
<1> DEFINE m == Len(parts)
           T == Seq(Symbols)
           step == [i \in 1..m |-> [t \in T |-> t \o Comma(i) \o parts[i]]]
           Run(f) == f = [n \in 0..m |-> IF n = 0 THEN w
                            ELSE f[n - 1] \o (IF n = 1 THEN <<>> ELSE <<"comma">>) \o parts[n]]
           text == CHOOSE f : Run(f)
<1>1. step \in [1..m -> [T -> T]]
  <2>1. ASSUME NEW i \in 1..m, NEW t \in T PROVE t \o Comma(i) \o parts[i] \in T
    <3>1. Comma(i) \in T /\ parts[i] \in T
      BY CommaIsText
    <3>2. t \o Comma(i) \in T
      BY <3>1, ConcatProperties
    <3> QED BY <3>1, <3>2, ConcatProperties
  <2> HIDE DEF T
  <2> QED BY <2>1
<1>2. PICK f \in [0..m -> T] : Steps(f, m, w, step)
  <2> HIDE DEF T, step, m
  <2>1. w \in T /\ m \in Nat
    BY DEF T, m
  <2> QED BY <1>1, <2>1, StepsExist
<1>3. Run(f)
  <2>1. ASSUME NEW n \in 0..m
        PROVE  f[n] = IF n = 0 THEN w
                      ELSE f[n - 1] \o (IF n = 1 THEN <<>> ELSE <<"comma">>) \o parts[n]
    <3>1. CASE n = 0
      <4> HIDE DEF step
      <4> QED BY <3>1, <1>2 DEF Steps
    <3>2. CASE n # 0
      <4>1. n \in 1..m /\ n - 1 \in 0..m /\ f[n - 1] \in T
        <5>1. n \in 1..m /\ n - 1 \in 0..m
          BY <3>2
        <5> HIDE DEF T
        <5> QED BY <1>2, <5>1
      <4>2. f[n] = step[n][f[n - 1]]
        <5> HIDE DEF step
        <5> QED BY <1>2, <4>1, <3>2 DEF Steps
      <4>3. step[n][f[n - 1]] = f[n - 1] \o Comma(n) \o parts[n]
        <5> HIDE DEF T
        <5> QED BY <4>1
      <4> HIDE DEF step
      <4> QED BY <3>2, <4>2, <4>3 DEF Comma
    <3> QED BY <3>1, <3>2
  <2>2. f = [n \in 0..m |-> f[n]]
    OBVIOUS
  <2> QED BY <2>1, <2>2
<1>4. Run(text)
  <2> HIDE DEF Run
  <2> QED BY <1>3
<1>5. MembersText(parts, w) = text[m]
  BY Zenon DEF MembersText
<1> HIDE DEF text
<1>6. /\ text[0] = w
      /\ \A i \in 1..m : text[i] = text[i - 1] \o Comma(i) \o parts[i]
  <2>1. 0 \in 0..m /\ \A i \in 1..m : i \in 0..m /\ i # 0
    OBVIOUS
  <2>2. DOMAIN text = 0..m
    BY <1>4
  <2>3. ASSUME NEW i \in 1..m PROVE text[i] = text[i - 1] \o Comma(i) \o parts[i]
    <3>1. text[i] = text[i - 1] \o (IF i = 1 THEN <<>> ELSE <<"comma">>) \o parts[i]
      BY <1>4, <2>1
    <3> QED BY <3>1 DEF Comma
  <2> QED BY <1>4, <2>1, <2>3
<1>7. \A n \in 0..m : text[n] = f[n]
  <2>1. DOMAIN text = 0..m /\ DOMAIN f = 0..m /\ text[0] = f[0]
    BY <1>3, <1>4, <1>6
  <2>2. ASSUME NEW i \in 1..m, text[i - 1] = f[i - 1] PROVE text[i] = f[i]
    <3>1. i \in 0..m /\ i # 0
      OBVIOUS
    <3>2. f[i] = f[i - 1] \o (IF i = 1 THEN <<>> ELSE <<"comma">>) \o parts[i]
      BY <1>3, <3>1
    <3>3. text[i] = text[i - 1] \o Comma(i) \o parts[i]
      BY <1>6
    <3> QED BY <2>2, <3>2, <3>3 DEF Comma
  <2>3. \A i \in 1..m : text[i - 1] = f[i - 1] => text[i] = f[i]
    BY <2>2
  <2> HIDE DEF Run
  <2> QED BY <2>1, <2>3, StepsAgree, ZenonT(60)
<1>8. text \in [0..m -> T]
  <2>1. DOMAIN text = 0..m /\ text = [n \in 0..m |-> text[n]]
    BY <1>4
  <2> HIDE DEF T, Run
  <2> QED BY <1>2, <1>7, <2>1
<1> QED BY <1>5, <1>6, <1>8 DEF Spelled

LEMMA MemberPlace ==
  ASSUME NEW B, NEW q \in Nat, NEW t \in Seq(Symbols), NEW part \in Seq(Symbols), NEW i \in Nat,
         NEW u, u = t \o Comma(i) \o part, Here(B, q, u)
  PROVE  /\ Here(B, q, t) /\ Here(B, q + Len(t) + Len(Comma(i)), part)
         /\ Here(B, q + Len(t), Comma(i))
         /\ Len(u) = Len(t) + Len(Comma(i)) + Len(part)
         /\ Len(t) \in Nat /\ Len(part) \in Nat
<1> DEFINE s == t \o Comma(i)
<1>1. Comma(i) \in Seq(Symbols)
  BY CommaIsText
<1>2. s \in Seq(Symbols) /\ Len(s) = Len(t) + Len(Comma(i)) /\ Len(t) \in Nat /\ Len(Comma(i)) \in Nat
  BY <1>1, LengthOf
<1>3. u = s \o part
  OBVIOUS
<1>4. s = t \o Comma(i)
  OBVIOUS
<1> HIDE DEF s
<1>5. Len(u) = Len(s) + Len(part) /\ Len(part) \in Nat
  BY <1>2, <1>3, LengthOf
<1>6. Here(B, q, s) /\ Here(B, q + Len(s), part)
  BY <1>2, <1>3, HereSplit
<1>7. Here(B, q, t) /\ Here(B, q + Len(t), Comma(i))
  BY <1>1, <1>4, <1>6, HereSplit
<1>9. q + Len(s) = q + Len(t) + Len(Comma(i))
  BY <1>2
<1>10. Here(B, q + Len(t) + Len(Comma(i)), part)
  BY <1>6, <1>9
<1>11. Len(u) = Len(t) + Len(Comma(i)) + Len(part)
  BY <1>2, <1>5
<1> QED BY <1>2, <1>5, <1>7, <1>10, <1>11

(* All members and what is between them.                                   *)
Room(w, i) == IF i = 1 THEN Len(w) ELSE 0

Laid(B, parts, w, c, i) ==
  /\ c[i - 1] \in Nat /\ c[i] \in Nat /\ c[i] = c[i - 1] + Room(w, i) + Len(parts[i]) + 1
  /\ Blank(B, c[i - 1], Room(w, i)) /\ Here(B, c[i - 1] + Room(w, i), parts[i])
  /\ Is(B, c[i], IF i < Len(parts) THEN "comma" ELSE "close")

LEMMA TextsHere ==
  ASSUME NEW B, NEW q \in Nat, NEW parts, Len(parts) \in Nat,
         \A i \in 1..Len(parts) : parts[i] \in Seq(Symbols), NEW w,
         NEW text, Spelled(text, parts, w), Here(B, q, MembersText(parts, w))
  PROVE  \A i \in 0..Len(parts) : Here(B, q, text[i])
<1> DEFINE m == Len(parts)
           T == {k \in 0..m : ~Here(B, q, text[m - k])}
<1>1. ASSUME T # {} PROVE FALSE
  <2>1. PICK k \in T : \A l \in T : k <= l
    <3>1. T \in SUBSET Nat /\ T # {}
      BY <1>1
    <3> HIDE DEF T
    <3> QED BY <3>1, LeastNumber
  <2>2. k \in 0..m /\ ~Here(B, q, text[m - k])
    BY <2>1
  <2>3. k # 0
    <3>1. Here(B, q, text[m])
      BY DEF Spelled
    <3>2. m - 0 = m
      OBVIOUS
    <3> QED BY <2>2, <3>1, <3>2
  <2>4. k - 1 \in 0..m /\ m - (k - 1) = (m - k) + 1
    BY <2>2, <2>3
  <2>5. Here(B, q, text[m - (k - 1)])
    <3>1. k - 1 \notin T
      <4> HIDE DEF T
      <4> QED BY <2>1, <2>2, <2>4
    <3> QED BY <2>4, <3>1
  <2> DEFINE i == (m - k) + 1
  <2>6. i \in 1..m /\ i - 1 = m - k /\ i - 1 \in 0..m
    BY <2>2, <2>3
  <2> HIDE DEF i, T
  <2>7. text[i] = text[i - 1] \o Comma(i) \o parts[i] /\ text[i - 1] \in Seq(Symbols)
    BY <2>6 DEF Spelled
  <2>8. Here(B, q, text[i])
    BY <2>4, <2>5 DEF i
  <2>9. Here(B, q, text[i - 1])
    <3> DEFINE t == text[i - 1]
               u == text[i]
               part == parts[i]
    <3>1. t \in Seq(Symbols) /\ part \in Seq(Symbols) /\ u = t \o Comma(i) \o part /\ Here(B, q, u)
      BY <2>6, <2>7, <2>8
    <3>1a. i \in Nat
      BY <2>6
    <3> HIDE DEF t, u, part
    <3>2. Here(B, q, t)
      BY <3>1, <3>1a, MemberPlace
    <3> QED BY <3>2 DEF t
  <2> QED BY <2>2, <2>6, <2>9
<1>2. ASSUME NEW i \in 0..m PROVE Here(B, q, text[i])
  <2>1. m - i \in 0..m /\ m - (m - i) = i /\ m - i \notin T
    <3>1. m - i \notin T
      <4> HIDE DEF T
      <4> QED BY <1>1
    <3> QED BY <3>1
  <2>2. Here(B, q, text[m - (m - i)])
    BY <2>1
  <2> QED BY <2>1, <2>2
<1> QED BY <1>2

LEMMA MembersLaid ==
  ASSUME NEW B, NEW q \in Nat, NEW parts, Len(parts) \in Nat \ {0},
         \A i \in 1..Len(parts) : parts[i] \in Seq(Symbols), NEW w \in Seq({"ws"}),
         Here(B, q, MembersText(parts, w)), Is(B, q + Len(MembersText(parts, w)) + 1, "close")
  PROVE  \E c : /\ c[0] = q /\ \A i \in 1..Len(parts) : Laid(B, parts, w, c, i)
                /\ c[Len(parts)] = q + Len(MembersText(parts, w)) + 1
<1> DEFINE m == Len(parts)
<1>1. w \in Seq(Symbols) /\ Len(w) \in Nat
  BY WhiteSpace
<1>2. PICK text : Spelled(text, parts, w)
  BY <1>1, MembersSpelled
<1>3. \A i \in 0..m : text[i] \in Seq(Symbols) /\ Len(text[i]) \in Nat /\ Here(B, q, text[i])
  <2>1. \A i \in 0..m : text[i] \in Seq(Symbols)
    BY <1>2 DEF Spelled
  <2>2. \A i \in 0..m : Here(B, q, text[i])
    BY <1>2, TextsHere
  <2> QED BY <2>1, <2>2, LenProperties
<1>4. ASSUME NEW i \in 1..m
      PROVE  /\ Here(B, q + Len(text[i - 1]) + (IF i = 1 THEN 0 ELSE 1), parts[i])
             /\ i # 1 => Is(B, q + Len(text[i - 1]) + 1, "comma")
             /\ Len(text[i]) = Len(text[i - 1]) + (IF i = 1 THEN 0 ELSE 1) + Len(parts[i])
             /\ Len(text[i - 1]) \in Nat /\ Len(parts[i]) \in Nat
  <2> DEFINE t == text[i - 1]
             u == text[i]
             part == parts[i]
  <2>1. /\ t \in Seq(Symbols) /\ part \in Seq(Symbols) /\ u = t \o Comma(i) \o part /\ Here(B, q, u)
    <3>1. i \in 0..m /\ i - 1 \in 0..m
      OBVIOUS
    <3> QED BY <1>2, <1>3, <3>1 DEF Spelled
  <2>2. Len(Comma(i)) = IF i = 1 THEN 0 ELSE 1
    BY CommaIsText
  <2>2a. i \in Nat
    OBVIOUS
  <2> HIDE DEF t, u, part, m
  <2>3. /\ Here(B, q + Len(t) + Len(Comma(i)), part)
        /\ i # 1 => Is(B, q + Len(t) + 1, "comma")
        /\ Len(u) = Len(t) + Len(Comma(i)) + Len(part)
        /\ Len(t) \in Nat /\ Len(part) \in Nat
    <3>1. Here(B, q + Len(t) + Len(Comma(i)), part)
      BY <2>1, <2>2a, MemberPlace
    <3>2a. Here(B, q + Len(t), Comma(i)) /\ Len(t) \in Nat
      <4>1. Len(t) \in Nat
        BY <2>1, LenProperties
      <4>2. Here(B, q + Len(t), Comma(i))
        BY <2>1, <2>2a, <4>1, MemberPlace
      <4> QED BY <4>1, <4>2
    <3>2. ASSUME i # 1 PROVE Is(B, q + Len(t) + 1, "comma")
      <4>2. Here(B, q + Len(t), <<"comma">>) /\ q + Len(t) \in Nat
        BY <3>2, <3>2a DEF Comma
      <4> QED BY <4>2, HereOne
    <3>3. Len(u) = Len(t) + Len(Comma(i)) + Len(part) /\ Len(t) \in Nat /\ Len(part) \in Nat
      BY <2>1, <2>2a, MemberPlace
    <3> QED BY <3>1, <3>2, <3>3
  <2> QED BY <2>2, <2>3 DEF t, u, part
<1> DEFINE c == [i \in 0..m |-> IF i = 0 THEN q ELSE q + Len(text[i]) + 1]
<1>5. c[0] = q /\ \A i \in 1..m : c[i] = q + Len(text[i]) + 1
  OBVIOUS
<1>6. text[0] = w /\ MembersText(parts, w) = text[m]
  BY <1>2 DEF Spelled
<1> HIDE DEF c, m
<1>7. m \in Nat \ {0}
  BY DEF m
<1>8. ASSUME NEW i \in 1..m PROVE Laid(B, parts, w, c, i)
  <2>1. CASE i = 1
    <3>1. Blank(B, q, Len(w)) /\ Here(B, q + Len(w), parts[1]) /\ Len(text[1]) = Len(w) + Len(parts[1])
          /\ Len(parts[1]) \in Nat
      <4>1. 0 \in 0..m /\ Here(B, q, w)
        BY <1>3, <1>6, <1>7
      <4>2. Blank(B, q, Len(w))
        BY <4>1, HereBlank
      <4>3. 1 - 1 = 0 /\ 1 \in 1..m
        BY <2>1
      <4>4. /\ Here(B, q + Len(text[0]) + 0, parts[1])
            /\ Len(text[1]) = Len(text[0]) + 0 + Len(parts[1]) /\ Len(parts[1]) \in Nat
        BY <1>4, <4>3
      <4>5. q + Len(w) + 0 = q + Len(w) /\ Len(w) + 0 = Len(w)
        BY <1>1
      <4> QED BY <1>6, <4>2, <4>4, <4>5
    <3>2. c[1] = q + Len(w) + Len(parts[1]) + 1 /\ c[i - 1] = q
      <4>1. 1 \in 1..m /\ i - 1 = 0
        BY <2>1
      <4>2. c[1] = q + Len(text[1]) + 1 /\ c[i - 1] = q
        BY <1>5, <4>1
      <4> DEFINE l == Len(w)
                 p == Len(parts[1])
      <4>3. Len(text[1]) = l + p /\ l \in Nat /\ p \in Nat
        BY <1>1, <3>1
      <4> HIDE DEF l, p
      <4>4. q + (l + p) + 1 = q + l + p + 1
        BY <4>3
      <4> QED BY <4>2, <4>3, <4>4 DEF l, p
    <3>3. Is(B, c[1], IF 1 < m THEN "comma" ELSE "close")
      <4>1. CASE 1 < m
        <5>1. 2 \in 1..m /\ 2 - 1 = 1 /\ 2 # 1 /\ 1 \in 1..m
          BY <1>7, <4>1
        <5>2. Is(B, q + Len(text[1]) + 1, "comma")
          BY <1>4, <5>1
        <5> QED BY <1>5, <4>1, <5>1, <5>2
      <4>2. CASE ~(1 < m)
        <5>1. m = 1 /\ 1 \in 1..m
          BY <1>7, <4>2
        <5> QED BY <1>5, <1>6, <4>2, <5>1
      <4> QED BY <4>1, <4>2
    <3> DEFINE p == Len(parts[1])
    <3>4. c[1] = q + Len(w) + p + 1 /\ q + Len(w) + p + 1 \in Nat
      <4>1. p \in Nat /\ c[1] = q + Len(w) + p + 1
        BY <3>1, <3>2
      <4> HIDE DEF p
      <4> QED BY <1>1, <4>1
    <3>5. i - 1 = 0 /\ c[0] = q
      BY <1>5, <2>1
    <3>6. Room(w, i) = Len(w)
      BY <2>1 DEF Room
    <3> QED BY <2>1, <3>1, <3>3, <3>4, <3>5, <3>6 DEF Laid, m
  <2>2. CASE i # 1
    <3>1. i - 1 \in 1..m /\ i \in 0..m /\ i - 1 \in 0..m
      BY <1>7, <2>2
    <3> DEFINE t == Len(text[i - 1])
               u == Len(text[i])
               p == Len(parts[i])
    <3>2. c[i - 1] = q + t + 1 /\ c[i] = q + u + 1
      BY <1>5, <3>1
    <3>3. u = t + 1 + p /\ t \in Nat /\ p \in Nat /\ Here(B, q + t + 1, parts[i])
      BY <1>4, <2>2
    <3>4. Is(B, q + u + 1, IF i < m THEN "comma" ELSE "close")
      <4>1. CASE i < m
        <5>1. i + 1 \in 1..m /\ (i + 1) - 1 = i /\ i + 1 # 1
          BY <1>7, <4>1
        <5>2. Is(B, q + Len(text[i]) + 1, "comma")
          BY <1>4, <5>1
        <5> QED BY <4>1, <5>2
      <4>2. CASE ~(i < m)
        <5>1. i = m
          BY <1>7, <4>2
        <5> QED BY <1>6, <4>2, <5>1
      <4> QED BY <4>1, <4>2
    <3> HIDE DEF t, u
    <3>5. /\ c[i - 1] \in Nat /\ c[i] \in Nat /\ c[i] = c[i - 1] + 0 + p + 1
          /\ c[i - 1] + 0 = q + t + 1
      <4> HIDE DEF p
      <4> QED BY <3>2, <3>3
    <3>6. Blank(B, c[i - 1], 0)
      BY <3>5 DEF Blank
    <3> QED BY <2>2, <3>2, <3>3, <3>4, <3>5, <3>6 DEF Laid, Room, m
  <2> QED BY <2>1, <2>2
<1>9. c[m] = q + Len(MembersText(parts, w)) + 1
  BY <1>5, <1>6, <1>7
<1> QED BY <1>5, <1>8, <1>9 DEF m

(* `member` reads `part` as `val`, up to the blanks at its end, wherever it *)
(* stands; and reads nothing where nothing is.                             *)
PartRead(B, w, member, part, val) ==
  \A p \in 0..Len(B), k \in Nat :
    Blank(B, p, k) /\ Here(B, p + k, part) =>
      /\ member[p + 1] = Got(B, p + k + Len(part) - Len(w), val)
      /\ Blank(B, p + k + Len(part) - Len(w), Len(w))
      /\ Blank(B, p, k + Len(w)) /\ Is(B, p + k + Len(w) + 1, "quote")

NothingRead(B, member) ==
  \A p \in 0..Len(B), k \in Nat : Blank(B, p, k) /\ ~(p + k + 1 <= Len(B)) => member[p + 1] = {}

LEMMA NoMembersAt ==
  ASSUME NEW B, IsText(B), NEW q \in 0..Len(B), NEW k \in Nat, Blank(B, q, k), NEW member,
         NothingRead(B, member), Is(B, q + k + 1, "close")
  PROVE  ReadMembers(B, q + 1, member) = Got(B, q + k + 1, <<>>)
<1>1. Len(B) \in Nat /\ q \in Nat
  BY LenProperties DEF IsText
<1>2. ~(q + k + 1 <= Len(B)) => member[q + 1] = {}
  BY DEF NothingRead
<1> QED BY <1>1, <1>2, NoMembersRead

LEMMA LaidRead ==
  ASSUME NEW B, IsText(B), NEW w \in Seq({"ws"}), NEW parts, NEW m \in Nat \ {0}, m = Len(parts),
         NEW c, NEW j \in 1..m, Laid(B, parts, w, c, j), NEW member, NEW val,
         PartRead(B, w, member, parts[j], val[j]), Len(parts[j]) \in Nat, Len(parts[j]) > Len(w),
         NEW e, e[j] = c[j] - 1 - Len(w)
  PROVE  Reads(B, m, c, e, val, member, j)
<1> DEFINE n == Len(B)
           l == Len(w)
           p == c[j - 1]
           k == Room(w, j)
           s == Len(parts[j])
<1>0. n \in Nat /\ l \in Nat
  BY WhiteSpace, LenProperties DEF IsText
<1>1. k \in Nat
  BY <1>0 DEF Room
<1>2. /\ p \in Nat /\ c[j] \in Nat /\ c[j] = p + k + s + 1
      /\ Blank(B, p, k) /\ Here(B, p + k, parts[j])
      /\ Is(B, c[j], IF j < m THEN "comma" ELSE "close")
  BY DEF Laid
<1>3. s \in Nat /\ s > l /\ e[j] = c[j] - 1 - l
  OBVIOUS
<1> HIDE DEF n, l, p, k, s
<1>4. /\ e[j] \in Nat /\ p < e[j] /\ e[j] < c[j] /\ c[j] - e[j] - 1 = l /\ e[j] = p + k + s - l
  BY <1>0, <1>1, <1>2, <1>3
<1>5. CASE p <= n
  <2>1. p \in 0..n
    BY <1>0, <1>2, <1>5
  <2>2. member[p + 1] = Got(B, p + k + s - l, val[j]) /\ Blank(B, p + k + s - l, l)
    BY <1>1, <1>2, <2>1 DEF PartRead, n, s, l
  <2>3. member[p + 1] = Got(B, e[j], val[j]) /\ Blank(B, e[j], c[j] - e[j] - 1)
    BY <1>4, <2>2
  <2> QED BY <1>2, <1>4, <2>3 DEF Reads, p
<1>6. CASE ~(p <= n)
  <2>1. Blank(B, e[j], c[j] - e[j] - 1)
    <3>1. \A i \in e[j] + 1..e[j] + (c[j] - e[j] - 1) : ~(i <= n)
      BY <1>0, <1>2, <1>4, <1>6
    <3> QED BY <3>1 DEF Blank, n
  <2> QED BY <1>2, <1>4, <1>6, <2>1 DEF Reads, p, n
<1> QED BY <1>5, <1>6

Readable(B, w, parts, member, val) ==
  /\ Len(parts) \in Nat /\ NothingRead(B, member)
  /\ \A i \in 1..Len(parts) :
       /\ parts[i] \in Seq(Symbols) /\ Len(parts[i]) > Len(w)
       /\ PartRead(B, w, member, parts[i], val[i])

LEMMA ObjectMembers ==
  ASSUME NEW B, IsText(B), NEW q \in 0..Len(B), NEW w \in Seq({"ws"}), NEW parts, NEW member,
         NEW val, Readable(B, w, parts, member, val), Here(B, q, MembersText(parts, w)),
         Len(MembersText(parts, w)) \in Nat,
         NEW e \in Nat, e = q + Len(MembersText(parts, w)) + 1, Is(B, e, "close")
  PROVE  ReadMembers(B, q + 1, member) = Got(B, e, Upto(val, Len(parts))) /\ e > q
<1>a. Len(parts) \in Nat /\ NothingRead(B, member)
  BY DEF Readable
<1>b. \A i \in 1..Len(parts) :
       /\ parts[i] \in Seq(Symbols) /\ Len(parts[i]) > Len(w)
       /\ PartRead(B, w, member, parts[i], val[i])
  BY DEF Readable
<1> DEFINE n == Len(B)
           l == Len(w)
           m == Len(parts)
<1>0. n \in Nat /\ l \in Nat /\ q \in Nat /\ w \in Seq(Symbols)
  BY WhiteSpace, LenProperties DEF IsText
<1>1. CASE m = 0
  <2>1. MembersText(parts, w) = w
    <3>1. PICK text : Spelled(text, parts, w)
      BY <1>0, MembersSpelled, <1>a, <1>b
    <3> QED BY <1>1, <3>1 DEF Spelled
  <2>2. Blank(B, q, l) /\ e = q + l + 1
    BY <1>0, <2>1, HereBlank
  <2>4. ReadMembers(B, q + 1, member) = Got(B, e, <<>>)
    <3> HIDE DEF l, n, m
    <3>1. l \in Nat /\ Blank(B, q, l) /\ e = q + l + 1 /\ Is(B, e, "close")
      BY <1>0, <2>2
    <3>3. Is(B, q + l + 1, "close")
      BY <3>1
    <3>4. ReadMembers(B, q + 1, member) = Got(B, q + l + 1, <<>>)
      BY <1>0, <3>1, <3>3, <1>a, NoMembersAt DEF n
    <3> QED BY <3>1, <3>4
  <2>5. Upto(val, 0) = <<>>
    BY DEF Upto
  <2> QED BY <1>0, <1>1, <2>2, <2>4, <2>5
<1>2. CASE m # 0
  <2>1. PICK c : /\ c[0] = q /\ \A i \in 1..m : Laid(B, parts, w, c, i)
                 /\ c[m] = e
    <3>1. m \in Nat \ {0}
      BY <1>a, <1>2
    <3> QED BY <1>0, <3>1, MembersLaid, <1>a, <1>b
  <2> DEFINE f == [i \in 1..m |-> c[i] - 1 - l]
  <2>2. \A j \in 1..m : f[j] = c[j] - 1 - Len(w)
    OBVIOUS
  <2> HIDE DEF f
  <2>3. ASSUME NEW j \in 1..m PROVE Reads(B, m, c, f, val, member, j)
    <3>1. m \in Nat \ {0} /\ m = Len(parts) /\ Len(parts[j]) \in Nat /\ Len(parts[j]) > Len(w)
      BY <1>a, <1>b, <1>2, LenProperties
    <3>2. Laid(B, parts, w, c, j) /\ f[j] = c[j] - 1 - Len(w) /\ PartRead(B, w, member, parts[j], val[j])
      BY <1>b, <2>1, <2>2
    <3> HIDE DEF m
    <3> QED BY <3>1, <3>2, LaidRead
  <2>4. At(B, skip_ws(B, q + 1)) # "close"
    <3>1. Laid(B, parts, w, c, 1) /\ 1 - 1 = 0 /\ Room(w, 1) = l /\ 1 \in 1..m
      BY <1>a, <1>2, <2>1 DEF Room
    <3>2. Blank(B, q, l) /\ Here(B, q + l, parts[1])
      BY <2>1, <3>1 DEF Laid
    <3>3. Blank(B, q, l + l) /\ Is(B, q + l + l + 1, "quote")
      <4>1. PartRead(B, w, member, parts[1], val[1])
        BY <1>b, <3>1
      <4> QED BY <1>0, <3>2, <4>1 DEF PartRead
    <3> DEFINE k == l + l
    <3>4. k \in Nat /\ q + k + 1 = q + l + l + 1
      BY <1>0
    <3>5. Blank(B, q, k) /\ Is(B, q + k + 1, "quote")
      BY <3>3, <3>4
    <3> HIDE DEF k
    <3>6. skip_ws(B, q + 1) = IF q + k + 1 <= n THEN q + k + 1 ELSE n + 1
      BY <3>4, <3>5, WsTo
    <3>7. DOMAIN B = 1..n
      BY LenProperties DEF IsText
    <3> QED BY <1>0, <3>4, <3>5, <3>6, <3>7 DEF At, Is
  <2>5. ReadMembers(B, q + 1, member) = Got(B, c[m], Upto(val, m)) /\ c[m] \in Nat /\ c[m] > q
    <3>1. m \in Nat \ {0} /\ c[0] = q /\ \A j \in 1..m : Reads(B, m, c, f, val, member, j)
      BY <1>a, <1>2, <2>1, <2>3
    <3> HIDE DEF l, n, m
    <3>2. c[m] \in Nat /\ c[m] > q
      BY <2>4, <3>1, MembersRead
    <3>3. ReadMembers(B, q + 1, member) = Got(B, c[m], Upto(val, m))
      BY <1>0, <2>4, <3>1, <3>2, MembersRead
    <3> QED BY <3>2, <3>3
  <2> QED BY <2>1, <2>5
<1> QED BY <1>1, <1>2

----------------------------------------------------------------------------
(* Objects and their members.                                              *)
LEMMA MembersAreText ==
  ASSUME NEW parts, Len(parts) \in Nat, \A i \in 1..Len(parts) : parts[i] \in Seq(Symbols),
         NEW w \in Seq({"ws"})
  PROVE  MembersText(parts, w) \in Seq(Symbols) /\ Len(MembersText(parts, w)) \in Nat
<1>1. PICK text : Spelled(text, parts, w)
  BY WhiteSpace, MembersSpelled
<1>2. MembersText(parts, w) \in Seq(Symbols)
  BY <1>1 DEF Spelled
<1> QED BY <1>2, LenProperties

LEMMA ObjectHere ==
  ASSUME NEW B, NEW q \in Nat, NEW w \in Seq({"ws"}), NEW parts, Len(parts) \in Nat,
         \A i \in 1..Len(parts) : parts[i] \in Seq(Symbols), NEW d, d = Object(parts, w),
         Here(B, q, d)
  PROVE  Frame(B, q, MembersText(parts, w), "open", "close", w, d)
<1> DEFINE s == MembersText(parts, w)
           x == "open"
           y == "close"
<1>1. s \in Seq(Symbols) /\ Len(s) \in Nat
  BY MembersAreText
<1>2. d = Enclosed(s, x, y, w) /\ x \in Symbols /\ y \in Symbols
  BY DEF Object, Enclosed, Symbols
<1> HIDE DEF s, x, y
<1>3. Frame(B, q, s, x, y, w, d)
  BY <1>1, <1>2, EnclosedHere
<1> QED BY <1>3 DEF s, x, y

ReadObject(B, pos, member) ==
  UNION {ReadMembers(B, p, member) : p \in expect_char(B, pos, "open")}

(* `d` stands after `k` blanks, and is read up to symbol `e`: up to the     *)
(* blanks at its end.                                                      *)
After(B, q, k, d) == Blank(B, q, k) /\ Here(B, q + k, d)

Ends(B, q, k, d, w, e) ==
  e \in Nat /\ e > q + k /\ Blank(B, e, Len(w)) /\ e + Len(w) = q + k + Len(d)

End(q, k, d, w) == q + k + Len(d) - Len(w)

LEMMA ObjectRead ==
  ASSUME NEW B, IsText(B), NEW q \in 0..Len(B), NEW k \in Nat, NEW w \in Seq({"ws"}), NEW parts,
         NEW member, NEW val, Readable(B, w, parts, member, val),
         NEW d, d = Object(parts, w), After(B, q, k, d), NEW e, e = End(q, k, d, w)
  PROVE  /\ ReadObject(B, q + 1, member) = Got(B, e, Upto(val, Len(parts)))
         /\ Ends(B, q, k, d, w, e)
<1>a. Len(parts) \in Nat /\ \A i \in 1..Len(parts) : parts[i] \in Seq(Symbols)
  BY DEF Readable
<1>b. Blank(B, q, k) /\ Here(B, q + k, d) /\ e = q + k + Len(d) - Len(w)
  BY DEF After, End
<1> DEFINE s == MembersText(parts, w)
           l == Len(w)
           r == q + k + l + 1
           n == Len(B)
           v == Upto(val, Len(parts))
<1>0. q \in Nat /\ l \in Nat /\ n \in Nat /\ q + k \in Nat
  BY WhiteSpace, LenProperties DEF IsText
<1>1. /\ Blank(B, q + k, l) /\ Is(B, (q + k) + l + 1, "open")
      /\ Here(B, (q + k) + l + 1, s) /\ Is(B, (q + k) + l + 1 + Len(s) + 1, "close")
      /\ Blank(B, (q + k) + l + 1 + Len(s) + 1, l)
      /\ Len(s) \in Nat /\ Len(d) = l + 1 + Len(s) + 1 + l
  <2> DEFINE a == q + k
  <2>1. a \in Nat /\ Here(B, a, d)
    BY <1>0, <1>b
  <2> HIDE DEF a
  <2>2. Frame(B, a, s, "open", "close", w, d)
    BY <1>a, <2>1, ObjectHere
  <2> QED BY <2>2 DEF a, Frame
<1> HIDE DEF s, n, v
<1>2. e = r + Len(s) + 1 /\ e \in Nat /\ r \in Nat /\ e > r /\ e > q + k /\ e + l = q + k + Len(d)
  <2>1. Len(d) \in Nat /\ Len(s) \in Nat
    BY <1>0, <1>1
  <2> QED BY <1>0, <1>1, <1>b, <2>1
<1>3. Blank(B, e, l) /\ Is(B, e, "close") /\ Here(B, r, s) /\ Is(B, r, "open")
  BY <1>0, <1>1, <1>2
<1>4. expect_char(B, q + 1, "open") = IF r <= n THEN {r + 1} ELSE {}
  <2> DEFINE j == k + l
  <2>1. j \in Nat /\ q + j + 1 = r /\ q + j + 2 = r + 1
    BY <1>0
  <2>2. Blank(B, q, j)
    BY <1>0, <1>1, <1>b, BlanksTogether
  <2> HIDE DEF j, r
  <2>3. Is(B, q + j + 1, "open")
    BY <1>3, <2>1
  <2>4. expect_char(B, q + 1, "open") = IF q + j + 1 <= Len(B) THEN {q + j + 2} ELSE {}
    BY <1>0, <2>1, <2>2, <2>3, Expected
  <2> QED BY <2>1, <2>4 DEF n
<1> HIDE DEF r
<1>5. CASE r <= n
  <2>1. ReadMembers(B, r + 1, member) = Got(B, e, v)
    <3>1. r \in 0..Len(B)
      BY <1>0, <1>2, <1>5 DEF n
    <3>2. Here(B, r, MembersText(parts, w)) /\ e = r + Len(MembersText(parts, w)) + 1
          /\ Len(MembersText(parts, w)) \in Nat
      BY <1>1, <1>2, <1>3 DEF s
    <3>3. Is(B, e, "close") /\ e \in Nat
      BY <1>2, <1>3
    <3>4. Len(d) \in Nat /\ Len(w) \in Nat /\ Len(B) \in Nat /\ r \in Nat /\ k \in Nat
      BY <1>0, <1>1, <1>2 DEF n
    <3> QED BY <3>1, <3>2, <3>3, <3>4, ObjectMembers DEF v
  <2> QED BY <1>2, <1>3, <1>4, <1>5, <2>1 DEF v, ReadObject, Ends
<1>6. CASE ~(r <= n)
  <2>1. ~(e <= Len(B))
    BY <1>0, <1>2, <1>6 DEF n
  <2> QED BY <1>2, <1>3, <1>4, <1>6, <2>1 DEF v, Got, ReadObject, Ends
<1> QED BY <1>5, <1>6

----------------------------------------------------------------------------
(* A key, a colon, and what belongs to the key.                            *)
LEMMA QuotedIsText ==
  ASSUME NEW s \in Seq(Symbols), NEW w \in Seq({"ws"})
  PROVE  /\ Quoted(s, w) \in Seq(Symbols) /\ Len(Quoted(s, w)) \in Nat
         /\ Len(Quoted(s, w)) > Len(w) + 1 /\ Len(w) \in Nat
<1>1. Len(w) \in Nat /\ Len(s) \in Nat
  BY WhiteSpace, LenProperties
<1>2. Here(<<>>, 0, Quoted(s, w))
  BY DEF Here
<1>3. Quoted(s, w) \in Seq(Symbols) /\ Len(Quoted(s, w)) = Len(w) + 1 + Len(s) + 1 + Len(w)
  BY <1>2, QuotedHere
<1> QED BY <1>1, <1>3

PairAt(B, q, key, text, w, d) ==
  /\ Here(B, q, Quoted(key, w)) /\ Is(B, q + Len(Quoted(key, w)) + 1, "colon")
  /\ Here(B, q + Len(Quoted(key, w)) + 1, text)
  /\ d \in Seq(Symbols) /\ Len(d) = Len(Quoted(key, w)) + 1 + Len(text)
  /\ Len(Quoted(key, w)) \in Nat /\ Len(text) \in Nat

LEMMA PairHere ==
  ASSUME NEW B, NEW q \in Nat, NEW key \in Seq(Symbols), NEW text \in Seq(Symbols),
         NEW w \in Seq({"ws"}), NEW d, d = Pair(key, text, w), Here(B, q, d)
  PROVE  PairAt(B, q, key, text, w, d)
<1> DEFINE s == Quoted(key, w)
           u == <<"colon">>
           a == s \o u
<1>1. s \in Seq(Symbols) /\ Len(s) \in Nat /\ u \in Seq(Symbols) /\ Len(u) = 1
  BY QuotedIsText, OneSymbol DEF Symbols
<1>2. a = s \o u /\ d = a \o text
  BY DEF Pair
<1> HIDE DEF s, a, u
<1>3. a \in Seq(Symbols) /\ Len(a) = Len(s) + Len(u) /\ Len(a) \in Nat
  BY <1>1, <1>2, LengthOf
<1>4. d \in Seq(Symbols) /\ Len(d) = Len(a) + Len(text) /\ Len(text) \in Nat
  BY <1>2, <1>3, LengthOf
<1>5. Here(B, q, a) /\ Here(B, q + Len(a), text)
  BY <1>2, <1>3, HereSplit
<1>6. Here(B, q, s) /\ Here(B, q + Len(s), u)
  BY <1>1, <1>2, <1>5, HereSplit
<1>7. Len(a) = Len(s) + 1
  BY <1>1, <1>3
<1>8. Is(B, q + Len(s) + 1, "colon")
  BY <1>1, <1>6, HereOne DEF u
<1>9. q + Len(a) = q + Len(s) + 1 /\ Len(d) = Len(s) + 1 + Len(text)
  BY <1>1, <1>4, <1>7
<1>10. Here(B, q + Len(s) + 1, text)
  BY <1>5, <1>9
<1> QED BY <1>1, <1>4, <1>6, <1>8, <1>9, <1>10 DEF PairAt, s

(* Where nothing but blanks are, neither a string nor a key is read.       *)
LEMMA NoKey ==
  ASSUME NEW B, IsText(B), NEW q \in 0..Len(B), NEW k \in Nat, Blank(B, q, k),
         ~(q + k + 1 <= Len(B))
  PROVE  read_key(B, q + 1) = {}
<1>1. Is(B, q + k + 1, "quote")
  BY DEF Is
<1>2. expect_char(B, q + 1, "quote") = {}
  BY <1>1, Expected
<1>3. read_string(B, q + 1) = {}
  BY <1>2 DEF read_string
<1> QED BY <1>3 DEF read_key

----------------------------------------------------------------------------
(* The fields of a record.                                                 *)
Fields == [key : Seq(Symbols), val : Seq(Symbols)]

LEMMA FieldIsText ==
  ASSUME NEW f \in Fields, NEW w \in Seq({"ws"})
  PROVE  /\ FieldText(f, w) \in Seq(Symbols) /\ Len(FieldText(f, w)) \in Nat
         /\ Len(FieldText(f, w)) > Len(w)
<1> DEFINE t == Quoted(f.val, w)
           s == Quoted(f.key, w)
           d == FieldText(f, w)
<1>1. f.key \in Seq(Symbols) /\ f.val \in Seq(Symbols)
  BY DEF Fields
<1>2. /\ t \in Seq(Symbols) /\ Len(s) \in Nat /\ Len(s) > Len(w) + 1 /\ Len(w) \in Nat
      /\ Len(t) \in Nat
  BY <1>1, QuotedIsText
<1>3. d = Pair(f.key, t, w) /\ Here(<<>>, 0, d)
  BY DEF FieldText, Here
<1> HIDE DEF d, t
<1>4. PairAt(<<>>, 0, f.key, t, w, d)
  BY <1>1, <1>2, <1>3, PairHere
<1>5. d \in Seq(Symbols) /\ Len(d) = Len(s) + 1 + Len(t)
  BY <1>4 DEF PairAt
<1> HIDE DEF s
<1> QED BY <1>2, <1>5 DEF d

LEMMA ValueRead ==
  ASSUME NEW B, IsText(B), NEW q \in 0..Len(B), NEW s \in Seq(Symbols), WellEscaped(s),
         NEW w \in Seq({"ws"}), Here(B, q, Quoted(s, w)),
         NEW e \in Nat, e = q + Len(Quoted(s, w)) - Len(w)
  PROVE  read_string(B, q + 1) = Got(B, e, s) /\ Blank(B, e, Len(w))
<1> DEFINE k == 0
           d == Quoted(s, w)
<1>1. q \in Nat /\ Len(B) \in Nat /\ Len(d) \in Nat /\ Len(w) \in Nat
  BY QuotedIsText, LenProperties DEF IsText
<1>2. k \in Nat /\ q + k = q /\ Blank(B, q, k) /\ e = q + k + Len(Quoted(s, w)) - Len(w)
  BY <1>1 DEF Blank
<1>3. Here(B, q + k, Quoted(s, w))
  BY <1>2
<1> HIDE DEF k
<1> QED BY <1>1, <1>2, <1>3, QuotedRead

LEMMA FieldRead ==
  ASSUME NEW B, IsText(B), NEW w \in Seq({"ws"}), NEW f \in Fields,
         WellEscaped(f.key), WellEscaped(f.val)
  PROVE  PartRead(B, w, read_field(B), FieldText(f, w), f)
<1> DEFINE n == Len(B)
           l == Len(w)
           s == Quoted(f.key, w)
           t == Quoted(f.val, w)
           d == FieldText(f, w)
           member == read_field(B)
<1>0. n \in Nat /\ l \in Nat
  BY WhiteSpace, LenProperties DEF IsText
<1>1. f.key \in Seq(Symbols) /\ f.val \in Seq(Symbols) /\ f = [key |-> f.key, val |-> f.val]
  BY DEF Fields
<1>2. t \in Seq(Symbols) /\ Len(s) \in Nat /\ Len(t) \in Nat /\ Len(t) > l
  BY <1>0, <1>1, QuotedIsText
<1>3. ASSUME NEW p \in 0..n, NEW k \in Nat, Blank(B, p, k), Here(B, p + k, d)
      PROVE  /\ member[p + 1] = Got(B, p + k + Len(d) - Len(w), f)
             /\ Blank(B, p + k + Len(d) - Len(w), Len(w))
             /\ Blank(B, p, k + Len(w)) /\ Is(B, p + k + Len(w) + 1, "quote")
  <2> DEFINE a == p + k
             c == a + Len(s) + 1
             e == p + k + Len(d) - Len(w)
             G(x) == {[val |-> [key |-> x.val, val |-> v.val], next |-> v.next] :
                        v \in read_string(B, x.next)}
  <2>1. a \in Nat /\ p \in Nat /\ d = Pair(f.key, t, w)
    BY <1>0 DEF FieldText
  <2>2. /\ Here(B, a, s) /\ Is(B, c, "colon") /\ Here(B, c, t) /\ Len(d) = Len(s) + 1 + Len(t)
    <3> HIDE DEF a, d, t
    <3>1. PairAt(B, a, f.key, t, w, d)
      BY <1>1, <1>2, <1>3, <2>1, PairHere DEF a
    <3> QED BY <3>1 DEF PairAt
  <2>3. /\ c \in Nat /\ e = c + Len(t) - Len(w) /\ e \in Nat /\ c < e
    <3> HIDE DEF s, t, d
    <3> QED BY <1>0, <1>2, <2>1, <2>2
  <2>4. /\ read_key(B, p + 1) = Got(B, c, f.key)
        /\ Is(B, p + k + Len(w) + 1, "quote") /\ Blank(B, p, k + Len(w))
    <3>1. Here(B, p + k, Quoted(f.key, w)) /\ c = p + k + Len(Quoted(f.key, w)) + 1
      BY <2>2
    <3> HIDE DEF a, c, d, s, t, e
    <3> QED BY <1>0, <1>1, <1>3, <2>2, <2>3, <3>1, KeyRead
  <2>5. member[p + 1] = UNION {G(x) : x \in read_key(B, p + 1)}
    <3>1. p + 1 \in Positions(B)
      BY <1>0 DEF Positions
    <3> QED BY <3>1 DEF read_field
  <2> HIDE DEF member, G, a, c, e, s, t, d, l
  <2>6. CASE c <= n
    <3> DEFINE x == [val |-> f.key, next |-> c + 1]
    <3>1. read_key(B, p + 1) = {x} /\ x.next = c + 1 /\ x.val = f.key
      BY <2>4, <2>6 DEF Got
    <3> HIDE DEF x
    <3>2. member[p + 1] = G(x)
      BY <2>5, <3>1
    <3>3. read_string(B, c + 1) = Got(B, e, f.val) /\ Blank(B, e, Len(w))
      <4>1. /\ c \in 0..Len(B) /\ Here(B, c, Quoted(f.val, w))
            /\ e = c + Len(Quoted(f.val, w)) - Len(w)
        BY <1>0, <2>2, <2>3, <2>6 DEF t
      <4> QED BY <1>0, <1>1, <2>3, <4>1, ValueRead
    <3>4. CASE e <= n
      <4> DEFINE y == [val |-> f.val, next |-> e + 1]
      <4>1. read_string(B, x.next) = {y} /\ y.val = f.val /\ y.next = e + 1
        BY <3>1, <3>3, <3>4 DEF Got
      <4> HIDE DEF y
      <4>2. G(x) = {[val |-> f, next |-> e + 1]}
        BY <1>1, <3>1, <4>1 DEF G
      <4>3. member[p + 1] = Got(B, e, f)
        BY <3>2, <3>4, <4>2 DEF Got
      <4> QED BY <2>4, <3>3, <4>3 DEF e
    <3>5. CASE ~(e <= n)
      <4>1. read_string(B, x.next) = {}
        BY <3>1, <3>3, <3>5 DEF Got
      <4>2. member[p + 1] = Got(B, e, f)
        BY <3>2, <3>5, <4>1 DEF G, Got
      <4> QED BY <2>4, <3>3, <4>2 DEF e
    <3> QED BY <3>4, <3>5
  <2>7. CASE ~(c <= n)
    <3>1. ~(e <= n)
      BY <1>0, <2>3, <2>7
    <3>2. member[p + 1] = Got(B, e, f)
      BY <2>4, <2>5, <2>7, <3>1 DEF Got
    <3>3. Blank(B, e, Len(w))
      BY <1>0, <2>3, <3>1 DEF Blank
    <3> QED BY <2>4, <3>2, <3>3 DEF e
  <2> QED BY <2>6, <2>7
<1> HIDE DEF member, d
<1> QED BY <1>3 DEF PartRead, member, d

LEMMA NoFieldRead ==
  ASSUME NEW B, IsText(B)
  PROVE  NothingRead(B, read_field(B))
<1> SUFFICES ASSUME NEW p \in 0..Len(B), NEW k \in Nat, Blank(B, p, k), ~(p + k + 1 <= Len(B))
             PROVE  read_field(B)[p + 1] = {}
  BY DEF NothingRead
<1>1. read_key(B, p + 1) = {}
  BY NoKey
<1>2. p + 1 \in Positions(B)
  BY LenProperties DEF IsText, Positions
<1> QED BY <1>1, <1>2 DEF read_field

----------------------------------------------------------------------------
(* A record, and an entry with its serial.                                 *)
LEMMA LengthOfParts ==
  ASSUME NEW m \in Nat, NEW parts, DOMAIN parts = 1..m, parts = [i \in 1..m |-> parts[i]]
  PROVE  Len(parts) = m
<1>1. parts = Upto(parts, m)
  BY DEF Upto
<1>2. Len(Upto(parts, m)) = m
  BY UptoIsSeq
<1> QED BY <1>1, <1>2

EscapedFields(fs) ==
  fs \in Seq(Fields) /\ \A i \in DOMAIN fs : WellEscaped(fs[i].key) /\ WellEscaped(fs[i].val)

FieldTexts(fs, w) == [i \in DOMAIN fs |-> FieldText(fs[i], w)]

LEMMA FieldsReadable ==
  ASSUME NEW B, IsText(B), NEW w \in Seq({"ws"}), NEW fs, EscapedFields(fs)
  PROVE  Readable(B, w, FieldTexts(fs, w), read_field(B), fs) /\ Len(FieldTexts(fs, w)) = Len(fs)
<1> DEFINE parts == FieldTexts(fs, w)
           m == Len(fs)
<1>1. m \in Nat /\ DOMAIN fs = 1..m /\ \A i \in 1..m : fs[i] \in Fields
  BY LenProperties, ElementOfSeq DEF EscapedFields
<1>2. DOMAIN parts = 1..m /\ \A i \in 1..m : parts[i] = FieldText(fs[i], w)
  BY <1>1 DEF FieldTexts
<1>3. parts = [i \in 1..m |-> parts[i]]
  BY <1>1 DEF FieldTexts
<1> HIDE DEF parts, m
<1>4. Len(parts) = m
  BY <1>1, <1>2, <1>3, LengthOfParts
<1>5. ASSUME NEW i \in 1..m
      PROVE  /\ parts[i] \in Seq(Symbols) /\ Len(parts[i]) > Len(w)
             /\ PartRead(B, w, read_field(B), parts[i], fs[i])
  <2> DEFINE f == fs[i]
  <2>1. f \in Fields /\ WellEscaped(f.key) /\ WellEscaped(f.val) /\ parts[i] = FieldText(f, w)
    BY <1>1, <1>2 DEF EscapedFields
  <2> HIDE DEF f
  <2>2. FieldText(f, w) \in Seq(Symbols) /\ Len(FieldText(f, w)) > Len(w)
    BY <2>1, FieldIsText
  <2>3. PartRead(B, w, read_field(B), FieldText(f, w), f)
    BY <2>1, FieldRead
  <2> QED BY <2>1, <2>2, <2>3 DEF f
<1>6. NothingRead(B, read_field(B))
  BY NoFieldRead
<1>7. Readable(B, w, parts, read_field(B), fs)
  BY <1>1, <1>4, <1>5, <1>6 DEF Readable
<1> QED BY <1>4, <1>7 DEF parts, m

LEMMA RecordIsText ==
  ASSUME NEW w \in Seq({"ws"}), NEW fs, EscapedFields(fs)
  PROVE  /\ RecordText(fs, w) \in Seq(Symbols) /\ Len(RecordText(fs, w)) \in Nat
         /\ Len(RecordText(fs, w)) > Len(w) /\ Len(w) \in Nat
<1> DEFINE B == <<>>
           parts == FieldTexts(fs, w)
           d == RecordText(fs, w)
           s == MembersText(parts, w)
<1>1. IsText(B) /\ Here(B, 0, d)
  BY DEF IsText, Here
<1> HIDE DEF B
<1>2. Len(parts) \in Nat /\ \A i \in 1..Len(parts) : parts[i] \in Seq(Symbols)
  BY <1>1, FieldsReadable DEF Readable
<1>3. d = Object(parts, w)
  BY DEF RecordText, FieldTexts
<1> HIDE DEF parts, d
<1>4. Frame(B, 0, s, "open", "close", w, d)
  BY <1>1, <1>2, <1>3, ObjectHere
<1>5. d \in Seq(Symbols) /\ Len(s) \in Nat /\ Len(d) = Len(w) + 1 + Len(s) + 1 + Len(w)
  BY <1>4 DEF Frame
<1>6. Len(w) \in Nat
  BY WhiteSpace
<1> HIDE DEF s
<1> QED BY <1>5, <1>6 DEF d

LEMMA RecordRead ==
  ASSUME NEW B, IsText(B), NEW q \in 0..Len(B), NEW k \in Nat, NEW w \in Seq({"ws"}),
         NEW fs, EscapedFields(fs), NEW d, d = RecordText(fs, w), After(B, q, k, d),
         NEW e, e = End(q, k, d, w)
  PROVE  read_status_object(B, q + 1) = Got(B, e, Record(fs)) /\ Ends(B, q, k, d, w, e)
<1> DEFINE parts == FieldTexts(fs, w)
           member == read_field(B)
           R == ReadObject(B, q + 1, member)
           G(x) == [val |-> Record(x.val), next |-> x.next]
<1>1. Readable(B, w, parts, member, fs) /\ Len(parts) = Len(fs)
  BY FieldsReadable
<1>2. d = Object(parts, w)
  BY DEF RecordText, FieldTexts
<1>3. read_status_object(B, q + 1) = {G(x) : x \in R}
  <2>1. read_status_object(B, q + 1)
          = UNION {{G(x) : x \in ReadMembers(B, p, member)} : p \in expect_char(B, q + 1, "open")}
    BY DEF read_status_object
  <2> HIDE DEF G, member
  <2> QED BY <2>1 DEF ReadObject
<1>4. Upto(fs, Len(fs)) = fs
  <2> DEFINE m == Len(fs)
  <2>1. m \in Nat /\ fs \in Seq(Fields)
    BY LenProperties DEF EscapedFields
  <2>2. fs = [i \in 1..m |-> fs[i]]
    BY <2>1, LenProperties
  <2> QED BY <2>2 DEF Upto
<1> HIDE DEF parts, member, R, G
<1>5. R = Got(B, e, fs) /\ Ends(B, q, k, d, w, e)
  <2>1. R = Got(B, e, Upto(fs, Len(parts))) /\ Ends(B, q, k, d, w, e)
    BY <1>1, <1>2, ObjectRead DEF R
  <2> QED BY <1>1, <1>4, <2>1
<1>6. CASE e <= Len(B)
  <2> DEFINE x == [val |-> fs, next |-> e + 1]
  <2>1. R = {x} /\ x.val = fs /\ x.next = e + 1
    BY <1>5, <1>6 DEF Got
  <2> HIDE DEF x
  <2>2. read_status_object(B, q + 1) = {[val |-> Record(fs), next |-> e + 1]}
    BY <1>3, <2>1 DEF G
  <2> QED BY <1>5, <1>6, <2>2 DEF Got
<1>7. CASE ~(e <= Len(B))
  <2>1. read_status_object(B, q + 1) = {}
    BY <1>3, <1>5, <1>7 DEF Got
  <2> QED BY <1>5, <1>7, <2>1 DEF Got
<1> QED BY <1>6, <1>7

Entries == [serial : Seq(Symbols), fields : Seq(Fields)]

EscapedEntry(x) == x \in Entries /\ WellEscaped(x.serial) /\ EscapedFields(x.fields)

(* What reading an entry gives.                                            *)
EntryOf(x) == [serial |-> to_lowercase(x.serial), record |-> Record(x.fields)]

LEMMA EntryRead ==
  ASSUME NEW B, IsText(B), NEW w \in Seq({"ws"}), NEW f, EscapedEntry(f)
  PROVE  PartRead(B, w, read_entry(B), EntryText(f, w), EntryOf(f))
<1> DEFINE n == Len(B)
           l == Len(w)
           s == Quoted(f.serial, w)
           t == RecordText(f.fields, w)
           d == EntryText(f, w)
           member == read_entry(B)
           result == EntryOf(f)
<1>0. n \in Nat /\ l \in Nat
  BY WhiteSpace, LenProperties DEF IsText
<1>1. f.serial \in Seq(Symbols) /\ WellEscaped(f.serial) /\ EscapedFields(f.fields)
  BY DEF EscapedEntry, Entries
<1>2. t \in Seq(Symbols) /\ Len(t) \in Nat /\ Len(t) > l /\ Len(s) \in Nat
  BY <1>1, RecordIsText, QuotedIsText
<1>3. ASSUME NEW p \in 0..n, NEW k \in Nat, Blank(B, p, k), Here(B, p + k, d)
      PROVE  /\ member[p + 1] = Got(B, p + k + Len(d) - Len(w), result)
             /\ Blank(B, p + k + Len(d) - Len(w), Len(w))
             /\ Blank(B, p, k + Len(w)) /\ Is(B, p + k + Len(w) + 1, "quote")
  <2> DEFINE a == p + k
             c == a + Len(s) + 1
             e == p + k + Len(d) - Len(w)
             G(x) == {[val |-> [serial |-> to_lowercase(x.val), record |-> v.val], next |-> v.next] :
                        v \in read_status_object(B, x.next)}
  <2>1. a \in Nat /\ p \in Nat /\ d = Pair(f.serial, t, w)
    BY <1>0 DEF EntryText
  <2>2. /\ Here(B, a, s) /\ Is(B, c, "colon") /\ Here(B, c, t) /\ Len(d) = Len(s) + 1 + Len(t)
    <3> HIDE DEF a, d, t
    <3>1. PairAt(B, a, f.serial, t, w, d)
      BY <1>1, <1>2, <1>3, <2>1, PairHere DEF a
    <3> QED BY <3>1 DEF PairAt
  <2>3. /\ c \in Nat /\ e = c + Len(t) - Len(w) /\ e \in Nat /\ c < e
    <3> HIDE DEF s, t, d
    <3> QED BY <1>0, <1>2, <2>1, <2>2
  <2>4. /\ read_key(B, p + 1) = Got(B, c, f.serial)
        /\ Is(B, p + k + Len(w) + 1, "quote") /\ Blank(B, p, k + Len(w))
    <3>1. Here(B, p + k, Quoted(f.serial, w)) /\ c = p + k + Len(Quoted(f.serial, w)) + 1
      BY <2>2
    <3> HIDE DEF a, c, d, s, t, e
    <3> QED BY <1>0, <1>1, <1>3, <2>2, <2>3, <3>1, KeyRead
  <2>5. member[p + 1] = UNION {G(x) : x \in read_key(B, p + 1)}
    <3>1. p + 1 \in Positions(B)
      BY <1>0 DEF Positions
    <3> QED BY <3>1 DEF read_entry
  <2> HIDE DEF member, G, a, c, e, s, t, d, l, result
  <2>6. CASE c <= n
    <3> DEFINE x == [val |-> f.serial, next |-> c + 1]
    <3>1. read_key(B, p + 1) = {x} /\ x.next = c + 1 /\ x.val = f.serial
      BY <2>4, <2>6 DEF Got
    <3> HIDE DEF x
    <3>2. member[p + 1] = G(x)
      BY <2>5, <3>1
    <3>3. read_status_object(B, c + 1) = Got(B, e, Record(f.fields)) /\ Blank(B, e, Len(w))
      <4>1. c \in 0..Len(B) /\ After(B, c, 0, t) /\ e = End(c, 0, t, w)
        <5>1. c + 0 = c /\ c + 0 + Len(t) - Len(w) = e
          BY <2>3
        <5>2. Blank(B, c, 0)
          BY <2>3 DEF Blank
        <5> QED BY <1>0, <2>2, <2>3, <2>6, <5>1, <5>2 DEF After, End
      <4>2. EscapedFields(f.fields) /\ t = RecordText(f.fields, w)
        BY <1>1 DEF t
      <4>3. 0 \in Nat
        OBVIOUS
      <4> QED BY <4>1, <4>2, <4>3, RecordRead DEF Ends
    <3>4. CASE e <= n
      <4> DEFINE y == [val |-> Record(f.fields), next |-> e + 1]
      <4>1. read_status_object(B, x.next) = {y} /\ y.val = Record(f.fields) /\ y.next = e + 1
        BY <3>1, <3>3, <3>4 DEF Got
      <4> HIDE DEF y
      <4>2. G(x) = {[val |-> result, next |-> e + 1]}
        BY <3>1, <4>1 DEF G, result, EntryOf
      <4>3. member[p + 1] = Got(B, e, result)
        BY <3>2, <3>4, <4>2 DEF Got
      <4> QED BY <2>4, <3>3, <4>3 DEF e
    <3>5. CASE ~(e <= n)
      <4>1. read_status_object(B, x.next) = {}
        BY <3>1, <3>3, <3>5 DEF Got
      <4>2. member[p + 1] = Got(B, e, result)
        BY <3>2, <3>5, <4>1 DEF G, Got
      <4> QED BY <2>4, <3>3, <4>2 DEF e
    <3> QED BY <3>4, <3>5
  <2>7. CASE ~(c <= n)
    <3>1. ~(e <= n)
      BY <1>0, <2>3, <2>7
    <3>2. member[p + 1] = Got(B, e, result)
      BY <2>4, <2>5, <2>7, <3>1 DEF Got
    <3>3. Blank(B, e, Len(w))
      BY <1>0, <2>3, <3>1 DEF Blank
    <3> QED BY <2>4, <3>2, <3>3 DEF e
  <2> QED BY <2>6, <2>7
<1> HIDE DEF member, d, result
<1> QED BY <1>3 DEF PartRead, member, d, result

LEMMA EntryIsText ==
  ASSUME NEW w \in Seq({"ws"}), NEW f, EscapedEntry(f)
  PROVE  EntryText(f, w) \in Seq(Symbols) /\ Len(EntryText(f, w)) > Len(w)
<1> DEFINE t == RecordText(f.fields, w)
           s == Quoted(f.serial, w)
           d == EntryText(f, w)
<1>1. f.serial \in Seq(Symbols) /\ EscapedFields(f.fields)
  BY DEF EscapedEntry, Entries
<1>2. /\ t \in Seq(Symbols) /\ Len(s) \in Nat /\ Len(s) > Len(w) + 1 /\ Len(w) \in Nat
      /\ Len(t) \in Nat
  BY <1>1, QuotedIsText, RecordIsText
<1>3. d = Pair(f.serial, t, w) /\ Here(<<>>, 0, d)
  BY DEF EntryText, Here
<1> HIDE DEF d, t
<1>4. PairAt(<<>>, 0, f.serial, t, w, d)
  BY <1>1, <1>2, <1>3, PairHere
<1>5. d \in Seq(Symbols) /\ Len(d) = Len(s) + 1 + Len(t)
  BY <1>4 DEF PairAt
<1> HIDE DEF s
<1> QED BY <1>2, <1>5 DEF d

LEMMA NoEntryRead ==
  ASSUME NEW B, IsText(B)
  PROVE  NothingRead(B, read_entry(B))
<1> SUFFICES ASSUME NEW p \in 0..Len(B), NEW k \in Nat, Blank(B, p, k), ~(p + k + 1 <= Len(B))
             PROVE  read_entry(B)[p + 1] = {}
  BY DEF NothingRead
<1>1. read_key(B, p + 1) = {}
  BY NoKey
<1>2. p + 1 \in Positions(B)
  BY LenProperties DEF IsText, Positions
<1> QED BY <1>1, <1>2 DEF read_entry

----------------------------------------------------------------------------
(* The whole list.                                                         *)
EscapedDoc(doc) == doc \in Seq(Entries) /\ \A i \in DOMAIN doc : EscapedEntry(doc[i])

EntryTexts(doc, w) == [i \in DOMAIN doc |-> EntryText(doc[i], w)]
ReadEntries(doc) == [i \in 1..Len(doc) |-> EntryOf(doc[i])]

LEMMA EntriesReadable ==
  ASSUME NEW B, IsText(B), NEW w \in Seq({"ws"}), NEW doc, EscapedDoc(doc)
  PROVE  /\ Readable(B, w, EntryTexts(doc, w), read_entry(B), ReadEntries(doc))
         /\ Len(EntryTexts(doc, w)) = Len(doc)
<1> DEFINE parts == EntryTexts(doc, w)
           val == ReadEntries(doc)
           m == Len(doc)
<1>1. m \in Nat /\ DOMAIN doc = 1..m /\ \A i \in 1..m : EscapedEntry(doc[i])
  BY LenProperties DEF EscapedDoc
<1>2. DOMAIN parts = 1..m /\ \A i \in 1..m : parts[i] = EntryText(doc[i], w)
  BY <1>1 DEF EntryTexts
<1>3. parts = [i \in 1..m |-> parts[i]]
  BY <1>1 DEF EntryTexts
<1>4. \A i \in 1..m : val[i] = EntryOf(doc[i])
  BY DEF ReadEntries
<1> HIDE DEF parts, m, val
<1>5. Len(parts) = m
  BY <1>1, <1>2, <1>3, LengthOfParts
<1>6. ASSUME NEW i \in 1..m
      PROVE  /\ parts[i] \in Seq(Symbols) /\ Len(parts[i]) > Len(w)
             /\ PartRead(B, w, read_entry(B), parts[i], val[i])
  <2> DEFINE f == doc[i]
  <2>1. EscapedEntry(f) /\ parts[i] = EntryText(f, w) /\ val[i] = EntryOf(f)
    BY <1>1, <1>2, <1>4
  <2> HIDE DEF f
  <2>2. EntryText(f, w) \in Seq(Symbols) /\ Len(EntryText(f, w)) > Len(w)
    BY <2>1, EntryIsText
  <2>3. PartRead(B, w, read_entry(B), EntryText(f, w), EntryOf(f))
    BY <2>1, EntryRead
  <2> QED BY <2>1, <2>2, <2>3
<1>7. NothingRead(B, read_entry(B))
  BY NoEntryRead
<1>8. Readable(B, w, parts, read_entry(B), val)
  BY <1>1, <1>5, <1>6, <1>7 DEF Readable
<1> QED BY <1>5, <1>8 DEF parts, m, val

LEMMA EntriesAreText ==
  ASSUME NEW w \in Seq({"ws"}), NEW doc, EscapedDoc(doc)
  PROVE  /\ EntriesText(doc, w) \in Seq(Symbols) /\ Len(EntriesText(doc, w)) \in Nat
         /\ Len(EntriesText(doc, w)) > Len(w) /\ Len(w) \in Nat
<1> DEFINE B == <<>>
           parts == EntryTexts(doc, w)
           d == EntriesText(doc, w)
           s == MembersText(parts, w)
<1>1. IsText(B) /\ Here(B, 0, d)
  BY DEF IsText, Here
<1> HIDE DEF B
<1>2. Len(parts) \in Nat /\ \A i \in 1..Len(parts) : parts[i] \in Seq(Symbols)
  BY <1>1, EntriesReadable DEF Readable
<1>3. d = Object(parts, w)
  BY DEF EntriesText, EntryTexts
<1> HIDE DEF parts, d
<1>4. Frame(B, 0, s, "open", "close", w, d)
  BY <1>1, <1>2, <1>3, ObjectHere
<1>5. d \in Seq(Symbols) /\ Len(s) \in Nat /\ Len(d) = Len(w) + 1 + Len(s) + 1 + Len(w)
  BY <1>4 DEF Frame
<1>6. Len(w) \in Nat
  BY WhiteSpace
<1> HIDE DEF s
<1> QED BY <1>5, <1>6 DEF d

LEMMA EntriesObjectRead ==
  ASSUME NEW B, IsText(B), NEW q \in 0..Len(B), NEW k \in Nat, NEW w \in Seq({"ws"}),
         NEW doc, EscapedDoc(doc), NEW d, d = EntriesText(doc, w), After(B, q, k, d),
         NEW e, e = End(q, k, d, w)
  PROVE  /\ ReadObject(B, q + 1, read_entry(B)) = Got(B, e, ReadEntries(doc))
         /\ Ends(B, q, k, d, w, e)
<1> DEFINE parts == EntryTexts(doc, w)
           member == read_entry(B)
           val == ReadEntries(doc)
<1>1. Readable(B, w, parts, member, val) /\ Len(parts) = Len(doc)
  BY EntriesReadable
<1>2. d = Object(parts, w)
  BY DEF EntriesText, EntryTexts
<1>3. Upto(val, Len(doc)) = val
  BY DEF Upto, ReadEntries
<1> HIDE DEF parts, member, val
<1>4. ReadObject(B, q + 1, member) = Got(B, e, Upto(val, Len(parts))) /\ Ends(B, q, k, d, w, e)
  BY <1>1, <1>2, ObjectRead
<1> QED BY <1>1, <1>3, <1>4 DEF val, member

(* The only key of the outer object.                                       *)
LEMMA EntriesKey ==
  <<"entries">> \in Seq(Symbols) /\ WellEscaped(<<"entries">>)
<1> DEFINE s == <<"entries">>
<1>1. s \in Seq(Symbols)
  BY OneSymbol DEF Symbols
<1>2. DOMAIN s = {1} /\ s[1] = "entries" /\ Len(s) = 1
  OBVIOUS
<1>3. {} \in SUBSET DOMAIN s /\ "entries" # "quote" /\ "entries" # "backslash"
  OBVIOUS
<1> HIDE DEF s
<1>4. /\ \A i \in DOMAIN s : i \in {} <=> i # 1 /\ s[i - 1] = "backslash" /\ i - 1 \notin {}
      /\ \A i \in DOMAIN s : s[i] = "quote" => i \in {}
      /\ s # <<>> /\ s[Len(s)] = "backslash" => Len(s) \in {}
  BY <1>2, <1>3
<1>5. WellEscaped(s)
  BY <1>3, <1>4 DEF WellEscaped
<1> QED BY <1>1, <1>5 DEF s

LEMMA BomRead ==
  ASSUME NEW B, IsText(B), NEW b \in {0, 1}, b = 1 => Is(B, 1, "bom"), NEW c, c # "bom",
         Is(B, b + 1, c)
  PROVE  Skip("bom", B, 1) = IF b <= Len(B) THEN b + 1 ELSE Len(B) + 1
<1> DEFINE q == 0
<1>1. Len(B) \in Nat /\ q + 1 = 1 /\ q \in 0..Len(B) /\ q + b + 1 = b + 1 /\ b \in Nat
  BY LenProperties DEF IsText
<1>2. \A i \in q + 1..q + b : i <= Len(B) => B[i] = "bom"
  BY DEF Is
<1> HIDE DEF q
<1>3. Skip("bom", B, q + 1) = IF q + b + 1 <= Len(B) THEN q + b + 1 ELSE Len(B) + 1
  <2> DEFINE s == "bom"
  <2>1. s # "end" /\ c # s /\ \A i \in q + 1..q + b : i <= Len(B) => B[i] = s
    BY <1>2
  <2>2. Is(B, q + b + 1, c)
    BY <1>1
  <2> HIDE DEF s
  <2>3. Skip(s, B, q + 1) = IF q + b + 1 <= Len(B) THEN q + b + 1 ELSE Len(B) + 1
    BY <1>1, <2>1, <2>2, SkipTo
  <2> QED BY <2>3 DEF s
<1> QED BY <1>1, <1>3

OuterMember(doc, w) == Pair(<<"entries">>, EntriesText(doc, w), w)

LEMMA WrittenHere ==
  ASSUME NEW B, NEW b \in Nat, NEW w \in Seq({"ws"}), NEW doc, EscapedDoc(doc),
         Here(B, b, Written(doc, w))
  PROVE  /\ Frame(B, b, OuterMember(doc, w), "open", "close", w, Written(doc, w))
         /\ PairAt(B, b + Len(w) + 1, <<"entries">>, EntriesText(doc, w), w, OuterMember(doc, w))
<1> DEFINE x == "open"
           y == "close"
           key == <<"entries">>
           t == EntriesText(doc, w)
           pair == OuterMember(doc, w)
           d == Written(doc, w)
<1>1. t \in Seq(Symbols) /\ Len(w) \in Nat /\ key \in Seq(Symbols) /\ pair = Pair(key, t, w)
  BY EntriesAreText, EntriesKey DEF OuterMember
<1>2. d = Enclosed(pair, x, y, w) /\ x \in Symbols /\ y \in Symbols /\ Here(B, b, d)
  BY DEF Written, OuterMember, Enclosed, Symbols
<1> HIDE DEF x, y, key, t, pair, d
<1>3. pair \in Seq(Symbols)
  <2>1. Here(<<>>, 0, pair)
    BY DEF Here
  <2>2. PairAt(<<>>, 0, key, t, w, pair)
    BY <1>1, <2>1, PairHere
  <2> QED BY <2>2 DEF PairAt
<1>4. Frame(B, b, pair, x, y, w, d)
  BY <1>2, <1>3, EnclosedHere
<1>5. Here(B, b + Len(w) + 1, pair) /\ b + Len(w) + 1 \in Nat
  BY <1>1, <1>4 DEF Frame
<1>6. PairAt(B, b + Len(w) + 1, key, t, w, pair)
  BY <1>1, <1>5, PairHere
<1> QED BY <1>4, <1>6 DEF x, y, key, t, pair, d

(* The brace of the outer object.                                          *)
LEMMA OuterBrace ==
  ASSUME NEW B, IsText(B), NEW b \in {0, 1}, b = 1 => Is(B, 1, "bom"), NEW w \in Seq({"ws"}),
         Blank(B, b, Len(w)), NEW r, r = b + Len(w) + 1, Is(B, r, "open")
  PROVE  expect_char(B, Skip("bom", B, 1), "open") = IF r <= Len(B) THEN {r + 1} ELSE {}
<1> DEFINE n == Len(B)
           l == Len(w)
           c == IF l = 0 THEN "open" ELSE "ws"
           q == IF b <= n THEN b ELSE n
<1>1. n \in Nat /\ l \in Nat
  BY WhiteSpace, LenProperties DEF IsText
<1>2. c # "bom" /\ Is(B, b + 1, c)
  <2>1. CASE l = 0
    BY <2>1, <1>1 DEF Is
  <2>2. CASE l # 0
    <3>1. b + 1 \in b + 1..b + l
      BY <1>1, <2>2
    <3> QED BY <2>2, <3>1 DEF Is, Blank
  <2> QED BY <2>1, <2>2
<1> HIDE DEF c
<1>3. Skip("bom", B, 1) = q + 1
  BY <1>1, <1>2, BomRead
<1>4. q \in 0..n /\ q \in Nat
  BY <1>1
<1>5. Blank(B, q, l) /\ Is(B, q + l + 1, "open")
  <2>1. CASE b <= n
    BY <2>1
  <2>2. CASE ~(b <= n)
    <3>1. q = n /\ \A i \in q + 1..q + l : ~(i <= n)
      BY <1>1, <2>2
    <3>2. ~(q + l + 1 <= n)
      BY <1>1, <3>1
    <3> QED BY <3>1, <3>2 DEF Blank, Is
  <2> QED BY <2>1, <2>2
<1>6. expect_char(B, q + 1, "open") = IF q + l + 1 <= n THEN {q + l + 2} ELSE {}
  <2> DEFINE x == "open"
  <2>1. x \notin {"ws", "end"} /\ Is(B, q + l + 1, x)
    BY <1>5
  <2> HIDE DEF q, l, x, n
  <2>2. expect_char(B, q + 1, x) = IF q + l + 1 <= Len(B) THEN {q + l + 2} ELSE {}
    BY <1>1, <1>4, <1>5, <2>1, Expected DEF n
  <2> QED BY <2>2 DEF x, n
<1>7. CASE b <= n
  <2>1. q + l + 1 = r /\ q + l + 2 = r + 1
    BY <1>1, <1>7
  <2> HIDE DEF q
  <2> QED BY <1>3, <1>6, <2>1
<1>8. CASE ~(b <= n)
  <2>1. ~(q + l + 1 <= n) /\ ~(r <= n)
    BY <1>1, <1>8
  <2> HIDE DEF q
  <2> QED BY <1>3, <1>6, <2>1
<1> QED BY <1>7, <1>8

(* The list is there once the last brace is, and before that there is      *)
(* none.                                                                   *)
LEMMA ListRead ==
  ASSUME NEW B, IsText(B), NEW b \in {0, 1}, b = 1 => Is(B, 1, "bom"), NEW w \in Seq({"ws"}),
         NEW doc, EscapedDoc(doc), NEW d, d = Written(doc, w), Here(B, b, d),
         NEW z, z = b + Len(d) - Len(w)
  PROVE  from_json(B) = IF z <= Len(B) THEN {Inserted(ReadEntries(doc))} ELSE {}
<1> DEFINE n == Len(B)
           l == Len(w)
           key == <<"entries">>
           s == Quoted(key, w)
           t == EntriesText(doc, w)
           pair == OuterMember(doc, w)
           r == b + l + 1
           c == r + Len(s) + 1
           e == c + Len(t) - l
           list == ReadEntries(doc)
           start == Skip("bom", B, 1)
           Member(x) == IF x.val # key THEN {} ELSE ReadObject(B, x.next, read_entry(B))
           Under(p) == UNION {Member(x) : x \in read_key(B, p)}
           E == EntriesMember(B)
<1>0. n \in Nat /\ l \in Nat /\ b \in Nat
  BY WhiteSpace, LenProperties DEF IsText
<1>1. t \in Seq(Symbols) /\ Len(t) \in Nat /\ Len(t) > l
  BY EntriesAreText
<1>2. key \in Seq(Symbols) /\ WellEscaped(key)
  BY EntriesKey
<1>3. /\ Blank(B, b, l) /\ Is(B, r, "open") /\ Is(B, b + l + 1 + Len(pair) + 1, "close")
      /\ Len(pair) \in Nat /\ Len(d) = l + 1 + Len(pair) + 1 + l
  BY <1>0, WrittenHere DEF Frame
<1>4. /\ Here(B, r, s) /\ Is(B, c, "colon") /\ Here(B, c, t)
      /\ Len(pair) = Len(s) + 1 + Len(t) /\ Len(s) \in Nat
  BY <1>0, WrittenHere DEF PairAt
<1>5. E = UNION {Under(p) : p \in expect_char(B, start, "open")}
  <2>1. E = UNION {UNION {IF x.val # key THEN {}
                          ELSE UNION {ReadMembers(B, p, read_entry(B)) :
                                      p \in expect_char(B, x.next, "open")} :
                          x \in read_key(B, o)} : o \in expect_char(B, start, "open")}
    BY Zenon DEF EntriesMember
  <2> QED BY <2>1, Zenon DEF ReadObject
<1>6. expect_char(B, start, "open") = IF r <= n THEN {r + 1} ELSE {}
  BY <1>3, OuterBrace
<1>7. /\ r \in Nat /\ c \in Nat /\ e \in Nat /\ z \in Nat /\ r < c /\ c < e /\ e < z
      /\ z = e + l + 1 /\ z = b + l + 1 + Len(pair) + 1
  <2> HIDE DEF s, t, pair
  <2>1. Len(d) \in Nat /\ z = b + Len(d) - l
    BY <1>0, <1>3
  <2> QED BY <1>0, <1>1, <1>3, <1>4, <2>1
<1> HIDE DEF n, l, key, s, t, pair, r, c, e, list, start, Member, Under, E
<1>8. E = Got(B, e, list) /\ Blank(B, e, l)
  <2>1. CASE ~(r <= n)
    <3>1. E = {} /\ ~(e <= n)
      BY <1>0, <1>5, <1>6, <1>7, <2>1
    <3>2. Blank(B, e, l)
      BY <1>0, <1>7, <3>1 DEF Blank, n
    <3> QED BY <3>1, <3>2 DEF Got, n
  <2>2. CASE r <= n
    <3>1. E = Under(r + 1)
      BY <1>5, <1>6, <2>2
    <3>2. read_key(B, r + 1) = Got(B, c, key)
      <4> DEFINE k == 0
      <4>1. /\ r \in 0..Len(B) /\ k \in Nat /\ Blank(B, r, k) /\ r + k = r
            /\ c = r + k + Len(Quoted(key, w)) + 1
        BY <1>0, <1>4, <1>7, <2>2 DEF Blank, n, c, s
      <4>2. Here(B, r + k, Quoted(key, w))
        BY <1>4, <4>1 DEF s
      <4> HIDE DEF k
      <4> QED BY <1>2, <1>4, <1>7, <4>1, <4>2, KeyRead
    <3>3. CASE ~(c <= n)
      <4>1. read_key(B, r + 1) = {} /\ ~(e <= n)
        BY <1>0, <1>7, <3>2, <3>3 DEF Got, n
      <4>2. E = {}
        BY <3>1, <4>1 DEF Under
      <4>3. Blank(B, e, l)
        BY <1>0, <1>7, <4>1 DEF Blank, n
      <4> QED BY <4>1, <4>2, <4>3 DEF Got, n
    <3>4. CASE c <= n
      <4> DEFINE x == [val |-> key, next |-> c + 1]
      <4>1. read_key(B, r + 1) = {x} /\ x.val = key /\ x.next = c + 1
        BY <3>2, <3>4 DEF Got, n
      <4> HIDE DEF x
      <4>2. E = ReadObject(B, c + 1, read_entry(B))
        BY <3>1, <4>1 DEF Under, Member
      <4>3. c \in 0..Len(B) /\ After(B, c, 0, t) /\ e = End(c, 0, t, w) /\ t = EntriesText(doc, w)
        <5>1. c + 0 = c /\ c + 0 + Len(t) - l = e /\ Blank(B, c, 0)
          BY <1>1, <1>7 DEF Blank, e
        <5> QED BY <1>0, <1>4, <1>7, <3>4, <5>1 DEF After, End, n, l, t
      <4>4. 0 \in Nat
        OBVIOUS
      <4>5. ReadObject(B, c + 1, read_entry(B)) = Got(B, e, list) /\ Ends(B, c, 0, t, w, e)
        BY <4>3, <4>4, EntriesObjectRead DEF list
      <4> QED BY <4>2, <4>5 DEF Ends, l
    <3> QED BY <3>3, <3>4
  <2> QED BY <2>1, <2>2
<1>9. from_json(B) = {Inserted(x.val) : x \in {y \in E : expect_char(B, y.next, "close") # {}}}
  BY Zenon DEF from_json, E
<1>10. CASE e <= n
  <2> DEFINE x == [val |-> list, next |-> e + 1]
  <2>1. E = {x} /\ x.val = list /\ x.next = e + 1
    BY <1>8, <1>10 DEF Got, n
  <2> HIDE DEF x
  <2>2. expect_char(B, e + 1, "close") = IF z <= n THEN {z + 1} ELSE {}
    <3> DEFINE y == "close"
    <3>1. y \notin {"ws", "end"} /\ Is(B, e + l + 1, y) /\ e \in 0..n /\ e + l + 1 = z
          /\ e + l + 2 = z + 1
      BY <1>0, <1>3, <1>7, <1>10
    <3> HIDE DEF y
    <3>2. expect_char(B, e + 1, y) = IF e + l + 1 <= Len(B) THEN {e + l + 2} ELSE {}
      BY <1>0, <1>7, <1>8, <3>1, Expected DEF n
    <3> QED BY <3>1, <3>2 DEF n, y
  <2>3. CASE z <= n
    <3>1. {y \in E : expect_char(B, y.next, "close") # {}} = {x}
      BY <2>1, <2>2, <2>3
    <3> QED BY <1>9, <2>1, <2>3, <3>1 DEF n, list
  <2>4. CASE ~(z <= n)
    <3>1. {y \in E : expect_char(B, y.next, "close") # {}} = {}
      BY <2>1, <2>2, <2>4
    <3> QED BY <1>9, <2>4, <3>1 DEF n
  <2> QED BY <2>3, <2>4
<1>11. CASE ~(e <= n)
  <2>1. E = {} /\ ~(z <= n)
    BY <1>0, <1>7, <1>8, <1>11 DEF Got, n
  <2> QED BY <1>9, <2>1 DEF n
<1> QED BY <1>10, <1>11

----------------------------------------------------------------------------
(* What is kept of members that are repeated.                              *)
Last(S) == CHOOSE i \in S : \A j \in S : j <= i

LEMMA LastIs ==
  ASSUME NEW m \in Nat, NEW S \in SUBSET (1..m), m \in S
  PROVE  Last(S) = m
<1>1. \A j \in S : j <= m /\ j \in Int
  OBVIOUS
<1>2. ASSUME NEW i \in S, \A j \in S : j <= i PROVE i = m
  BY <1>1, <1>2
<1> QED BY <1>1, <1>2 DEF Last

LEMMA LastExists ==
  ASSUME NEW m \in Nat, NEW S \in SUBSET (1..m), S # {}
  PROVE  Last(S) \in S
<1> DEFINE T == {m - i : i \in S}
<1>1. T \in SUBSET Nat /\ T # {}
  <2>1. \A i \in S : m - i \in Nat
    OBVIOUS
  <2>2. PICK i \in S : TRUE
    OBVIOUS
  <2>3. m - i \in T
    OBVIOUS
  <2> QED BY <2>1, <2>3
<1>2. PICK x \in T : \A y \in T : x <= y
  <2> HIDE DEF T
  <2> QED BY <1>1, LeastNumber
<1>3. PICK i \in S : x = m - i
  BY <1>2
<1>4. \A j \in S : j <= i
  <2> SUFFICES ASSUME NEW j \in S PROVE j <= i
    OBVIOUS
  <2>1. m - j \in T /\ i \in Nat /\ j \in Nat
    OBVIOUS
  <2>2. m - i <= m - j
    BY <1>2, <1>3, <2>1
  <2> QED BY <2>1, <2>2
<1> HIDE DEF T
<1> QED BY <1>4 DEF Last

(* The variables of read_status_object hold what the record says.          *)
LEMMA ValueIs ==
  ASSUME NEW fs \in Seq(Fields), NEW key
  PROVE  Value(fs, key) = LastVal(fs, key)
<1> DEFINE m == Len(fs)
           AtKey(n) == {i \in 1..n : fs[i].key = key}
           g == [n \in 0..m |-> IF AtKey(n) = {} THEN <<>> ELSE fs[Last(AtKey(n))].val]
           Run(f) == f = [n \in 0..m |-> IF n = 0 THEN <<>>
                            ELSE IF fs[n].key = key THEN fs[n].val ELSE f[n - 1]]
           out == CHOOSE f : Run(f)
<1>0. m \in Nat /\ DOMAIN fs = 1..m
  BY LenProperties
<1>1. \A n \in 0..m : g[n] = IF AtKey(n) = {} THEN <<>> ELSE fs[Last(AtKey(n))].val
  OBVIOUS
<1>2. g = [n \in 0..m |-> g[n]]
  OBVIOUS
<1>3. ASSUME NEW n \in 1..m
      PROVE  g[n] = IF fs[n].key = key THEN fs[n].val ELSE g[n - 1]
  <2>1. n \in 0..m /\ n - 1 \in 0..m /\ n \in Nat
    BY <1>0
  <2>2. CASE fs[n].key = key
    <3>1. AtKey(n) \in SUBSET (1..n) /\ n \in AtKey(n)
      BY <2>1, <2>2
    <3> HIDE DEF AtKey, g
    <3>2. Last(AtKey(n)) = n
      BY <2>1, <3>1, LastIs
    <3> QED BY <1>1, <2>1, <2>2, <3>1, <3>2
  <2>3. CASE ~(fs[n].key = key)
    <3>1. AtKey(n) = AtKey(n - 1)
      <4>1. \A i \in 1..n : i # n => i \in 1..n - 1
        BY <2>1
      <4>2. \A i \in 1..n - 1 : i \in 1..n
        BY <2>1
      <4> QED BY <2>3, <4>1, <4>2
    <3> HIDE DEF AtKey, g
    <3> QED BY <1>1, <2>1, <2>3, <3>1
  <2> QED BY <2>2, <2>3
<1>4. g[0] = <<>>
  <2>1. AtKey(0) = {} /\ 0 \in 0..m
    BY <1>0
  <2> HIDE DEF AtKey, g
  <2> QED BY <1>1, <2>1
<1>5. AtKey(m) = {i \in DOMAIN fs : fs[i].key = key}
  BY <1>0
<1> HIDE DEF g, AtKey
<1>6. Run(g)
  <2>1. ASSUME NEW n \in 0..m
        PROVE  g[n] = IF n = 0 THEN <<>> ELSE IF fs[n].key = key THEN fs[n].val ELSE g[n - 1]
    <3>1. n # 0 => n \in 1..m
      BY <1>0
    <3> QED BY <1>3, <1>4, <3>1
  <2> QED BY <1>2, <2>1
<1>7. Run(out)
  <2> HIDE DEF Run
  <2> QED BY <1>6
<1>8. Value(fs, key) = out[m]
  BY Zenon DEF Value
<1> HIDE DEF out
<1>9. out[m] = g[m]
  <2>1. DOMAIN out = 0..m /\ DOMAIN g = 0..m /\ out[0] = g[0]
    <3>1. 0 \in 0..m
      BY <1>0
    <3> QED BY <1>6, <1>7, <3>1
  <2>2. ASSUME NEW n \in 1..m, out[n - 1] = g[n - 1] PROVE out[n] = g[n]
    <3>1. n \in 0..m /\ n # 0
      BY <1>0
    <3>2. out[n] = IF fs[n].key = key THEN fs[n].val ELSE out[n - 1]
      BY <1>7, <3>1
    <3> HIDE DEF Run
    <3> QED BY <1>3, <2>2, <3>2
  <2>3. \A n \in 1..m : out[n - 1] = g[n - 1] => out[n] = g[n]
    BY <2>2
  <2> HIDE DEF Run, m
  <2>4. \A n \in 0..m : out[n] = g[n]
    BY <1>0, <2>1, <2>3, StepsAgree
  <2> QED BY <1>0, <2>4
<1>10. m \in 0..m
  BY <1>0
<1> HIDE DEF m
<1> QED BY <1>1, <1>5, <1>8, <1>9, <1>10 DEF LastVal, Last

LEMMA RecordIs ==
  ASSUME NEW fs \in Seq(Fields)
  PROVE  Record(fs) = [status |-> LastVal(fs, <<"status">>), reason |-> LastVal(fs, <<"reason">>)]
BY ValueIs DEF Record

(* The map that the inserts make.                                          *)
AtSerial(list, n, s) == {i \in 1..n : list[i].serial = s}

InsertedUpto(list, n) ==
  [s \in {list[i].serial : i \in 1..n} |-> list[Last(AtSerial(list, n, s))].record]

Insert(h, x) ==
  [s \in DOMAIN h \cup {x.serial} |-> IF s = x.serial THEN x.record ELSE h[s]]

LEMMA OneInsert ==
  ASSUME NEW list, NEW n \in Nat \ {0}
  PROVE  InsertedUpto(list, n) = Insert(InsertedUpto(list, n - 1), list[n])
<1> DEFINE S(k) == {list[i].serial : i \in 1..k}
           t == list[n].serial
           old == InsertedUpto(list, n - 1)
<1>1. 1..n = 1..n - 1 \cup {n} /\ n \in 1..n
  OBVIOUS
<1>2. S(n) = S(n - 1) \cup {t}
  <2> DEFINE I == 1..n
             J == 1..n - 1
  <2>1. I = J \cup {n}
    BY <1>1
  <2> HIDE DEF I, J
  <2>2. {list[i].serial : i \in I} = {list[i].serial : i \in J} \cup {t}
    BY <2>1
  <2> QED BY <2>2 DEF I, J
<1>3. DOMAIN old = S(n - 1)
  BY DEF InsertedUpto
<1>4. ASSUME NEW s \in S(n)
      PROVE  list[Last(AtSerial(list, n, s))].record
               = IF s = t THEN list[n].record ELSE old[s]
  <2>1. CASE s = t
    <3>1. AtSerial(list, n, s) \in SUBSET (1..n) /\ n \in AtSerial(list, n, s)
      BY <1>1, <2>1 DEF AtSerial
    <3>2. Last(AtSerial(list, n, s)) = n
      BY <3>1, LastIs
    <3> QED BY <2>1, <3>2
  <2>2. CASE s # t
    <3>1. AtSerial(list, n, s) = AtSerial(list, n - 1, s)
      <4> DEFINE I == 1..n
                 J == 1..n - 1
      <4>1. I = J \cup {n}
        BY <1>1
      <4> HIDE DEF I, J
      <4>2. {i \in I : list[i].serial = s} = {i \in J : list[i].serial = s}
        BY <2>2, <4>1
      <4> QED BY <4>2 DEF AtSerial, I, J
    <3>2. s \in S(n - 1)
      BY <1>2, <2>2
    <3>3. old[s] = list[Last(AtSerial(list, n - 1, s))].record
      BY <3>2 DEF InsertedUpto
    <3> QED BY <2>2, <3>1, <3>3
  <2> QED BY <2>1, <2>2
<1>5. InsertedUpto(list, n) = [s \in S(n) |-> list[Last(AtSerial(list, n, s))].record]
  BY DEF InsertedUpto
<1> HIDE DEF S, t, old
<1>6. InsertedUpto(list, n) = [s \in S(n) |-> IF s = t THEN list[n].record ELSE old[s]]
  BY <1>4, <1>5
<1>7. InsertedUpto(list, n)
        = [s \in DOMAIN old \cup {t} |-> IF s = t THEN list[n].record ELSE old[s]]
  BY <1>2, <1>3, <1>6
<1> QED BY <1>7, Zenon DEF t, old, Insert

LEMMA InsertedIs ==
  ASSUME NEW list, Len(list) \in Nat
  PROVE  Inserted(list) = InsertedUpto(list, Len(list))
<1> DEFINE m == Len(list)
           F(n, h) == Insert(h, list[n])
           g == [n \in 0..m |-> InsertedUpto(list, n)]
           Run(f) == f = [n \in 0..m |-> IF n = 0 THEN [s \in {} |-> <<>>] ELSE F(n, f[n - 1])]
           out == CHOOSE f : Run(f)
<1>0. m \in Nat
  OBVIOUS
<1>1. g = [n \in 0..m |-> g[n]] /\ \A n \in 0..m : g[n] = InsertedUpto(list, n)
  OBVIOUS
<1>2. ASSUME NEW n \in 1..m PROVE g[n] = F(n, g[n - 1])
  <2>1. n \in Nat \ {0} /\ n \in 0..m /\ n - 1 \in 0..m
    BY <1>0
  <2>2. InsertedUpto(list, n) = F(n, InsertedUpto(list, n - 1))
    BY <2>1, OneInsert DEF F
  <2> HIDE DEF F, g
  <2> QED BY <1>1, <2>1, <2>2
<1>3. g[0] = [s \in {} |-> <<>>]
  <2>1. 0 \in 0..m /\ {list[i].serial : i \in 1..0} = {}
    BY <1>0
  <2>2. InsertedUpto(list, 0) = [s \in {} |-> <<>>]
    BY <2>1 DEF InsertedUpto
  <2> HIDE DEF g
  <2> QED BY <1>1, <2>1, <2>2
<1>4. Inserted(list) = out[m]
  BY Zenon DEF Inserted, Insert
<1> HIDE DEF g, F
<1>5. Run(g)
  <2>1. ASSUME NEW n \in 0..m
        PROVE  g[n] = IF n = 0 THEN [s \in {} |-> <<>>] ELSE F(n, g[n - 1])
    <3>1. n # 0 => n \in 1..m
      BY <1>0
    <3> QED BY <1>2, <1>3, <3>1
  <2> QED BY <1>1, <2>1
<1>6. Run(out)
  <2> HIDE DEF Run
  <2> QED BY <1>5
<1> HIDE DEF out
<1>7. out[m] = g[m]
  <2>1. DOMAIN out = 0..m /\ DOMAIN g = 0..m /\ out[0] = g[0]
    <3>1. 0 \in 0..m
      BY <1>0
    <3> QED BY <1>5, <1>6, <3>1
  <2>2. ASSUME NEW n \in 1..m, out[n - 1] = g[n - 1] PROVE out[n] = g[n]
    <3>1. n \in 0..m /\ n # 0
      BY <1>0
    <3>2. out[n] = F(n, out[n - 1])
      BY <1>6, <3>1
    <3> HIDE DEF Run
    <3> QED BY <1>2, <2>2, <3>2
  <2>3. \A n \in 1..m : out[n - 1] = g[n - 1] => out[n] = g[n]
    BY <2>2
  <2> HIDE DEF Run, m
  <2>4. \A n \in 0..m : out[n] = g[n]
    BY <1>0, <2>1, <2>3, StepsAgree, ZenonT(60)
  <2> QED BY <1>0, <2>4
<1>8. m \in 0..m
  BY <1>0
<1> QED BY <1>1, <1>4, <1>7, <1>8

----------------------------------------------------------------------------
(* Serials in lower case.                                                  *)
LEMMA Lower ==
  ASSUME NEW t \in Seq(Symbols)
  PROVE  /\ Len(t) \in Nat /\ DOMAIN t = 1..Len(t)
         /\ DOMAIN to_lowercase(t) = 1..Len(t) /\ Len(to_lowercase(t)) = Len(t)
         /\ to_lowercase(t) = [i \in 1..Len(t) |-> to_lowercase(t)[i]]
         /\ \A i \in 1..Len(t) : /\ to_lowercase(t)[i] = IF t[i] = "A" THEN "a" ELSE t[i]
                                 /\ to_lowercase(t)[i] # "A"
<1> DEFINE m == Len(t)
           l == to_lowercase(t)
<1>1. m \in Nat /\ DOMAIN t = 1..m
  BY LenProperties
<1>2. l = [i \in 1..m |-> IF t[i] = "A" THEN "a" ELSE t[i]]
  BY <1>1 DEF to_lowercase
<1>3. DOMAIN l = 1..m /\ l = [i \in 1..m |-> l[i]]
  BY <1>2
<1>4. \A i \in 1..m : l[i] = (IF t[i] = "A" THEN "a" ELSE t[i]) /\ l[i] # "A"
  BY <1>2
<1> HIDE DEF l, m
<1>5. Len(l) = m
  BY <1>1, <1>3, LengthOfParts
<1> QED BY <1>1, <1>3, <1>4, <1>5 DEF l, m

LEMMA SameLower ==
  ASSUME NEW t \in Seq(Symbols), NEW u \in Seq(Symbols), NEW s, s = to_lowercase(u)
  PROVE  SameSerial(t, s) <=> to_lowercase(t) = s
<1> DEFINE l == to_lowercase(t)
           m == Len(t)
<1>1. /\ m \in Nat /\ DOMAIN t = 1..m /\ DOMAIN l = 1..m /\ Len(l) = m
      /\ l = [i \in 1..m |-> l[i]]
      /\ \A i \in 1..m : l[i] = (IF t[i] = "A" THEN "a" ELSE t[i]) /\ l[i] # "A"
  BY Lower
<1>2. /\ DOMAIN s = 1..Len(s) /\ s = [i \in 1..Len(s) |-> s[i]]
      /\ \A i \in 1..Len(s) : s[i] # "A"
  BY Lower
<1> HIDE DEF l, m
<1>3. ASSUME SameSerial(t, s) PROVE l = s
  <2>1. Len(s) = m /\ \A i \in 1..m : t[i] = s[i] \/ {t[i], s[i]} = {"a", "A"}
    BY <1>1, <1>3 DEF SameSerial, m
  <2>2. ASSUME NEW i \in 1..m PROVE l[i] = s[i]
    <3>1. s[i] # "A"
      BY <1>2, <2>1
    <3>2. CASE t[i] = s[i]
      BY <1>1, <3>1, <3>2
    <3>3. CASE {t[i], s[i]} = {"a", "A"}
      <4>1. s[i] = "a" /\ t[i] = "A"
        BY <3>1, <3>3
      <4> QED BY <1>1, <4>1
    <3> QED BY <2>1, <3>2, <3>3
  <2>3. s = [i \in 1..m |-> s[i]]
    BY <1>2, <2>1
  <2> QED BY <1>1, <2>2, <2>3
<1>4. ASSUME l = s PROVE SameSerial(t, s)
  <2>1. Len(t) = Len(s)
    BY <1>1, <1>4 DEF m
  <2>2. ASSUME NEW i \in DOMAIN t PROVE t[i] = s[i] \/ {t[i], s[i]} = {"a", "A"}
    <3>1. i \in 1..m
      BY <1>1
    <3> QED BY <1>1, <1>4, <3>1
  <2> QED BY <2>1, <2>2 DEF SameSerial
<1> QED BY <1>3, <1>4 DEF l

LEMMA SameAsLower ==
  ASSUME NEW u \in Seq(Symbols)
  PROVE  SameSerial(to_lowercase(u), u)
<1> DEFINE l == to_lowercase(u)
<1>1. /\ DOMAIN l = 1..Len(u) /\ Len(l) = Len(u)
      /\ \A i \in 1..Len(u) : l[i] = (IF u[i] = "A" THEN "a" ELSE u[i])
  BY Lower
<1> HIDE DEF l
<1>2. ASSUME NEW i \in DOMAIN l PROVE l[i] = u[i] \/ {l[i], u[i]} = {"a", "A"}
  BY <1>1
<1>3. SameSerial(l, u)
  BY <1>1, <1>2 DEF SameSerial
<1> QED BY <1>3 DEF l

(* The map says what the document says.                                    *)
LEMMA InsertedSays ==
  ASSUME NEW doc, EscapedDoc(doc)
  PROVE  Says(doc, Inserted(ReadEntries(doc)))
<1> DEFINE m == Len(doc)
           list == ReadEntries(doc)
           h == Inserted(list)
<1>1. /\ m \in Nat /\ DOMAIN doc = 1..m
      /\ \A i \in 1..m : doc[i].serial \in Seq(Symbols) /\ doc[i].fields \in Seq(Fields)
  <2>1. \A i \in 1..m : EscapedEntry(doc[i])
    BY LenProperties DEF EscapedDoc
  <2>2. \A i \in 1..m : doc[i].serial \in Seq(Symbols) /\ doc[i].fields \in Seq(Fields)
    BY <2>1 DEF EscapedEntry, Entries
  <2> QED BY <2>2, LenProperties DEF EscapedDoc
<1>2. \A i \in 1..m : /\ list[i].serial = to_lowercase(doc[i].serial)
                      /\ list[i].record = Record(doc[i].fields)
  BY DEF ReadEntries, EntryOf
<1>3. h = InsertedUpto(list, m)
  <2>1. Len(list) = m
    <3>1. DOMAIN list = 1..m /\ list = [i \in 1..m |-> list[i]]
      BY DEF ReadEntries
    <3> HIDE DEF list, m
    <3> QED BY <1>1, <3>1, LengthOfParts
  <2> HIDE DEF list, m
  <2> QED BY <1>1, <2>1, InsertedIs DEF h
<1> HIDE DEF list, m, h
<1>4. /\ DOMAIN h = {list[i].serial : i \in 1..m}
      /\ \A s \in DOMAIN h : h[s] = list[Last(AtSerial(list, m, s))].record
  BY <1>3 DEF InsertedUpto
<1>5. ASSUME NEW s \in DOMAIN h
      PROVE  /\ Listed(doc, s) = AtSerial(list, m, s) /\ Listed(doc, s) # {}
             /\ \A i \in DOMAIN s : s[i] # "A"
  <2>1. PICK k \in 1..m : s = list[k].serial
    BY <1>4
  <2> DEFINE u == doc[k].serial
  <2>2. u \in Seq(Symbols) /\ s = to_lowercase(u)
    BY <1>1, <1>2, <2>1
  <2> HIDE DEF u
  <2>3. \A i \in 1..m : SameSerial(doc[i].serial, s) <=> list[i].serial = s
    <3> SUFFICES ASSUME NEW i \in 1..m PROVE SameSerial(doc[i].serial, s) <=> list[i].serial = s
      OBVIOUS
    <3> DEFINE t == doc[i].serial
    <3>1. t \in Seq(Symbols) /\ list[i].serial = to_lowercase(t)
      BY <1>1, <1>2
    <3> HIDE DEF t
    <3>2. SameSerial(t, s) <=> to_lowercase(t) = s
      BY <2>2, <3>1, SameLower
    <3> QED BY <3>1, <3>2 DEF t
  <2>4. Listed(doc, s) = AtSerial(list, m, s)
    BY <1>1, <2>3 DEF Listed, AtSerial
  <2>5. k \in AtSerial(list, m, s)
    BY <2>1 DEF AtSerial
  <2>6. \A i \in DOMAIN s : s[i] # "A"
    BY <2>2, Lower
  <2> QED BY <2>4, <2>5, <2>6
<1>6. ASSUME NEW i \in DOMAIN doc PROVE \E s \in DOMAIN h : SameSerial(s, doc[i].serial)
  <2> DEFINE s == list[i].serial
  <2>1. i \in 1..m
    BY <1>1
  <2>2. s \in DOMAIN h
    BY <1>4, <2>1
  <2>3. SameSerial(s, doc[i].serial)
    BY <1>1, <1>2, <2>1, SameAsLower
  <2> QED BY <2>2, <2>3
<1>7. ASSUME NEW s \in DOMAIN h
      PROVE  LET last == CHOOSE i \in Listed(doc, s) : \A j \in Listed(doc, s) : j <= i
             IN h[s] = [status |-> LastVal(doc[last].fields, <<"status">>),
                        reason |-> LastVal(doc[last].fields, <<"reason">>)]
  <2> DEFINE last == Last(Listed(doc, s))
  <2>1. Listed(doc, s) = AtSerial(list, m, s) /\ Listed(doc, s) # {}
    BY <1>5
  <2>2. last \in 1..m
    <3>1. Listed(doc, s) \in SUBSET (1..m)
      BY <1>1 DEF Listed
    <3>2. last \in Listed(doc, s)
      BY <1>1, <2>1, <3>1, LastExists
    <3> QED BY <3>1, <3>2
  <2>3. h[s] = list[last].record
    BY <1>4, <2>1
  <2> HIDE DEF last
  <2>4. h[s] = Record(doc[last].fields) /\ doc[last].fields \in Seq(Fields)
    BY <1>1, <1>2, <2>2, <2>3
  <2>5. h[s] = [status |-> LastVal(doc[last].fields, <<"status">>),
                reason |-> LastVal(doc[last].fields, <<"reason">>)]
    BY <2>4, RecordIs
  <2> QED BY <2>5 DEF last, Last
<1>8. \A s \in DOMAIN h : Listed(doc, s) # {} /\ \A i \in DOMAIN s : s[i] # "A"
  BY <1>5
<1>9. Says(doc, h)
  BY <1>6, <1>7, <1>8 DEF Says
<1> QED BY <1>9 DEF h, list

----------------------------------------------------------------------------
(* The text and what has arrived of it.                                    *)
StatusDoc(d) ==
  d.bom \in BOOLEAN /\ d.w \in Seq({"ws"}) /\ EscapedDoc(d.doc)

LEMMA DocsAreEscaped ==
  ASSUME NEW i \in DOMAIN StatusDocs
  PROVE  StatusDoc(StatusDocs[i])
<1> DEFINE d == StatusDocs[i]
<1>1. /\ d.doc \in Seq(Entries) /\ d.w \in Seq({"ws"}) /\ d.bom \in BOOLEAN
      /\ \A n \in DOMAIN d.doc :
           /\ WellEscaped(d.doc[n].serial)
           /\ \A k \in DOMAIN d.doc[n].fields :
                WellEscaped(d.doc[n].fields[k].key) /\ WellEscaped(d.doc[n].fields[k].val)
  BY StatusAssumption DEF Entries, Fields
<1> HIDE DEF d
<1>2. ASSUME NEW n \in DOMAIN d.doc PROVE EscapedEntry(d.doc[n])
  <2>1. d.doc[n] \in Entries
    <3>1. DOMAIN d.doc = 1..Len(d.doc) /\ \A k \in 1..Len(d.doc) : d.doc[k] \in Entries
      BY <1>1, LenProperties, ElementOfSeq
    <3> QED BY <3>1
  <2>2. d.doc[n].fields \in Seq(Fields)
    BY <2>1 DEF Entries
  <2> QED BY <1>1, <2>1, <2>2 DEF EscapedEntry, EscapedFields
<1>3. EscapedDoc(d.doc)
  BY <1>1, <1>2 DEF EscapedDoc
<1> QED BY <1>1, <1>3 DEF StatusDoc, d

LEMMA StatusTextIs ==
  ASSUME NEW d, StatusDoc(d), NEW b, b = (IF d.bom THEN 1 ELSE 0), NEW v, v = Written(d.doc, d.w)
  PROVE  /\ StatusText(d) \in Seq(Symbols) /\ Len(StatusText(d)) = b + Len(v) /\ Len(v) \in Nat
         /\ b = 1 => StatusText(d)[1] = "bom"
         /\ \A i \in 1..Len(v) : StatusText(d)[b + i] = v[i]
<1> DEFINE u == IF d.bom THEN <<"bom">> ELSE <<>>
           t == StatusText(d)
<1>1. v \in Seq(Symbols) /\ Len(v) \in Nat
  <2>1. Here(<<>>, 0, v) /\ EscapedDoc(d.doc) /\ d.w \in Seq({"ws"}) /\ 0 \in Nat
    BY DEF Here, StatusDoc
  <2>2. Frame(<<>>, 0, OuterMember(d.doc, d.w), "open", "close", d.w, v)
    BY <2>1, WrittenHere
  <2>3. v \in Seq(Symbols)
    BY <2>2 DEF Frame
  <2> QED BY <2>3, LenProperties
<1>3. t = u \o v
  BY DEF StatusText
<1>4. u \in Seq(Symbols) /\ Len(u) = b /\ (b = 1 => u[1] = "bom")
  <2>1. <<"bom">> \in Seq(Symbols) /\ Len(<<"bom">>) = 1 /\ <<"bom">>[1] = "bom"
    BY OneSymbol DEF Symbols
  <2>2. <<>> \in Seq(Symbols) /\ Len(<<>>) = 0
    OBVIOUS
  <2> QED BY <2>1, <2>2
<1> HIDE DEF u, t
<1>5. b \in {0, 1}
  OBVIOUS
<1>6. /\ t \in Seq(Symbols) /\ Len(t) = Len(u) + Len(v)
      /\ \A i \in 1..Len(u) + Len(v) : t[i] = IF i <= Len(u) THEN u[i] ELSE v[i - Len(u)]
  BY <1>1, <1>3, <1>4, ConcatProperties
<1>7. /\ t \in Seq(Symbols) /\ Len(t) = b + Len(v)
      /\ \A i \in 1..b + Len(v) : t[i] = IF i <= b THEN u[i] ELSE v[i - b]
  BY <1>4, <1>6
<1>8. ASSUME b = 1 PROVE t[1] = "bom"
  BY <1>1, <1>4, <1>7, <1>8
<1>9. ASSUME NEW i \in 1..Len(v) PROVE t[b + i] = v[i]
  <2>1. b + i \in 1..b + Len(v) /\ ~(b + i <= b) /\ (b + i) - b = i
    BY <1>1, <1>5
  <2> QED BY <1>7, <2>1
<1> QED BY <1>1, <1>7, <1>8, <1>9 DEF t

LEMMA StatusRead ==
  ASSUME NEW d, StatusDoc(d), NEW c \in 0..Len(StatusText(d))
  PROVE  from_json(SubSeq(StatusText(d), 1, c))
           = IF c < Len(StatusText(d)) - Len(d.w) THEN {} ELSE {Inserted(ReadEntries(d.doc))}
<1> DEFINE b == IF d.bom THEN 1 ELSE 0
           v == Written(d.doc, d.w)
           t == StatusText(d)
           B == SubSeq(t, 1, c)
           z == b + Len(v) - Len(d.w)
<1>1. /\ t \in Seq(Symbols) /\ Len(t) = b + Len(v) /\ Len(v) \in Nat
      /\ b = 1 => t[1] = "bom"
      /\ \A i \in 1..Len(v) : t[b + i] = v[i]
  BY StatusTextIs
<1>2. b \in {0, 1} /\ d.w \in Seq({"ws"}) /\ Len(d.w) \in Nat /\ EscapedDoc(d.doc)
  BY WhiteSpace DEF StatusDoc
<1> HIDE DEF b, v, t
<1>3. c \in Nat /\ c <= Len(t)
  BY <1>1, <1>2 DEF t
<1>4. B \in Seq(Symbols) /\ Len(B) = c /\ \A i \in 1..c : B[i] = t[i]
  <2> DEFINE r == 0
  <2>1. IsText(t) /\ r \in 0..Len(t) /\ r + c <= Len(t) /\ r + 1 = 1 /\ r + c = c
        /\ \A i \in 1..c : r + i = i
    BY <1>1, <1>2, <1>3 DEF IsText
  <2> HIDE DEF r
  <2>2. /\ SubSeq(t, r + 1, r + c) \in Seq(Symbols) /\ Len(SubSeq(t, r + 1, r + c)) = c
        /\ \A i \in 1..c : SubSeq(t, r + 1, r + c)[i] = t[r + i]
    BY <1>3, <2>1, PartOf
  <2> QED BY <2>1, <2>2
<1> HIDE DEF B
<1>5. IsText(B) /\ (b = 1 => Is(B, 1, "bom"))
  BY <1>1, <1>3, <1>4 DEF IsText, Is
<1>6. Here(B, b, v)
  <2> SUFFICES ASSUME NEW i \in 1..Len(v), b + i <= Len(B) PROVE B[b + i] = v[i]
    BY DEF Here
  <2>1. b + i \in 1..c
    BY <1>2, <1>3, <1>4
  <2> QED BY <1>1, <1>4, <2>1
<1>7. from_json(B) = IF z <= Len(B) THEN {Inserted(ReadEntries(d.doc))} ELSE {}
  <2>1. v = Written(d.doc, d.w)
    BY DEF v
  <2> QED BY <1>2, <1>5, <1>6, <2>1, ListRead
<1>8. z = Len(t) - Len(d.w) /\ (z <= Len(B) <=> ~(c < z))
  <2> DEFINE l == Len(v)
             k == Len(d.w)
             n == Len(B)
  <2>1. /\ b \in Nat /\ l \in Nat /\ k \in Nat /\ n = c /\ c \in Nat /\ Len(t) = b + l
        /\ z = b + l - k
    BY <1>1, <1>2, <1>3, <1>4
  <2> HIDE DEF l, k, n, z
  <2>2. z = Len(t) - k /\ (z <= n <=> ~(c < z))
    BY <2>1
  <2> QED BY <2>2 DEF k, n
<1>9. from_json(B) = IF c < Len(t) - Len(d.w) THEN {} ELSE {Inserted(ReadEntries(d.doc))}
  <2> HIDE DEF z
  <2> QED BY <1>7, <1>8
<1> QED BY <1>9 DEF B, t

----------------------------------------------------------------------------
(* One of the lists, and as much of it as there is.                        *)
StatusReading ==
  \E i \in DOMAIN StatusDocs :
    /\ subject = [kind |-> "status", status |-> StatusDocs[i]]
    /\ cut \in 0..Len(StatusText(StatusDocs[i]))

LEMMA StatusReadingHolds == StatusSpec => []StatusReading
<1>1. StatusInit => StatusReading
  <2> SUFFICES ASSUME StatusInit PROVE StatusReading
    OBVIOUS
  <2>1. PICK i \in DOMAIN StatusDocs : subject = [kind |-> "status", status |-> StatusDocs[i]]
    BY DEF StatusInit
  <2>2. cut \in 0..Len(StatusText(StatusDocs[i]))
    <3> DEFINE d == StatusDocs[i]
    <3>1. StatusDoc(d)
      BY DocsAreEscaped
    <3> HIDE DEF d
    <3>2. Len(StatusText(d)) \in Nat
      BY <3>1, StatusTextIs, LenProperties
    <3> QED BY <3>2 DEF StatusInit, d
  <2> QED BY <2>1, <2>2 DEF StatusReading
<1>2. StatusReading /\ [Receive]_readerVars => StatusReading'
  <2> SUFFICES ASSUME StatusReading, [Receive]_readerVars PROVE StatusReading'
    OBVIOUS
  <2>1. PICK i \in DOMAIN StatusDocs :
          /\ subject = [kind |-> "status", status |-> StatusDocs[i]]
          /\ cut \in 0..Len(StatusText(StatusDocs[i]))
    BY DEF StatusReading
  <2>2. CASE Receive
    <3>1. StatusLength(subject) = Len(StatusText(StatusDocs[i]))
      BY <2>1 DEF StatusLength
    <3>2. cut' \in 0..Len(StatusText(StatusDocs[i])) /\ subject' = subject
      <4> DEFINE l == Len(StatusText(StatusDocs[i]))
      <4>1. cut < l /\ cut' = cut + 1 /\ cut \in 0..l
        BY <2>1, <2>2, <3>1 DEF Receive
      <4>2. l \in Nat
        <5> DEFINE d == StatusDocs[i]
        <5>1. StatusDoc(d)
          BY DocsAreEscaped
        <5> HIDE DEF d
        <5>2. Len(StatusText(d)) \in Nat
          BY <5>1, StatusTextIs, LenProperties
        <5> QED BY <5>2 DEF d
      <4> HIDE DEF l
      <4>3. cut' \in 0..l
        BY <4>1, <4>2
      <4> QED BY <2>2, <4>3 DEF Receive, l
    <3> QED BY <2>1, <3>2 DEF StatusReading
  <2>3. CASE UNCHANGED readerVars
    BY <2>1, <2>3 DEF StatusReading, readerVars
  <2> QED BY <2>2, <2>3
<1> QED BY <1>1, <1>2, PTL DEF StatusSpec

(* StatusList::from_json, for every list, with whatever serials, fields,   *)
(* escapes and white space: a list of which the end is missing is refused, *)
(* and a whole one is read as what it says.                                *)
THEOREM StatusListIsRead == StatusSpec => []StatusListWhole
<1>1. StatusReading => StatusListWhole
  <2> SUFFICES ASSUME StatusReading PROVE StatusListWhole
    OBVIOUS
  <2>1. PICK i \in DOMAIN StatusDocs :
          /\ subject = [kind |-> "status", status |-> StatusDocs[i]]
          /\ cut \in 0..Len(StatusText(StatusDocs[i]))
    BY DEF StatusReading
  <2> DEFINE d == StatusDocs[i]
             read == from_json(SubSeq(StatusText(d), 1, cut))
             end == StatusLength(subject) - Len(d.w)
  <2>2. StatusDoc(d)
    BY DocsAreEscaped
  <2>3. subject.kind = "status" /\ subject.status = d /\ cut \in 0..Len(StatusText(d))
        /\ StatusLength(subject) = Len(StatusText(d))
    BY <2>1 DEF StatusLength
  <2> HIDE DEF d
  <2>4. read = IF cut < end THEN {} ELSE {Inserted(ReadEntries(d.doc))}
    BY <2>2, <2>3, StatusRead
  <2>5. Says(d.doc, Inserted(ReadEntries(d.doc)))
    BY <2>2, InsertedSays DEF StatusDoc
  <2> HIDE DEF read, end
  <2>6. IF cut < end THEN read = {} ELSE \E e \in read : read = {e} /\ Says(d.doc, e)
    BY <2>4, <2>5
  <2> QED BY <2>3, <2>6 DEF StatusListWhole, read, end
<1> QED BY <1>1, StatusReadingHolds, PTL
=============================================================================
