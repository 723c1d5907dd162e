-------------------------- MODULE AndroidVerifier --------------------------
(***************************************************************************)
(* attest_android::verify_attestation: from a certificate chain to an      *)
(* Outcome, one step per check, in the order of the code.                  *)
(*                                                                         *)
(* A certificate is a record                                               *)
(*   [der, parses, spki, signer, sig_alg, not_before, not_after, serial,   *)
(*    ext]                                                                 *)
(* where `signer` is the key that made its signature, `serial` its bytes,  *)
(* and `ext` holds its KeyDescription, if any.  A key is [name, alg].      *)
(* There is no BasicConstraints flag: validate_chain drops the result of   *)
(* check_is_ca.                                                            *)
(***************************************************************************)
EXTENDS Integers, Sequences, FiniteSets

CONSTANTS
  Roots,       \* PINNED_ROOTS_DER, a sequence of certificates
  Inputs,      \* [chain, challenge, policy, clock_ms]: arguments of a call
  TagModulus   \* 2^32 in the code: tag numbers are u32

VARIABLES
  input,    \* the arguments
  pc,       \* the check to do next, or "done"
  verdict   \* "pending", "ok" or the Error

vars == <<input, pc, verdict>>

chain == input.chain
policy == input.policy

(* The two roots pinned have keys of their own.                            *)
ASSUME RootsAssumption ==
  /\ \A i, j \in DOMAIN Roots : Roots[i].spki = Roots[j].spki => i = j
  /\ TagModulus \in Nat /\ TagModulus > 709

(* Certificates with the same DER are the same; a Policy has one of the    *)
(* three security levels; tags are numbers.                                *)
ASSUME InputsAssumption ==
  \A i \in Inputs :
    LET certs == {i.chain[n] : n \in DOMAIN i.chain} IN
    /\ i.chain \in Seq(certs)
    /\ \A cert \in certs, n \in DOMAIN Roots : cert.der = Roots[n].der => cert = Roots[n]
    /\ i.policy.min_security_level \in 0..2
    /\ \A cert \in certs : \A k \in cert.ext :
         /\ k.hardware \in Seq({k.hardware[n] : n \in DOMAIN k.hardware})
         /\ \A n \in DOMAIN k.hardware : k.hardware[n].tag \in Nat

----------------------------------------------------------------------------
(* roots.rs *)

check_validity(cert) ==
  cert.not_before <= input.clock_ms /\ input.clock_ms <= cert.not_after

(* Issuer algorithm and signature algorithm must be one of four pairs, and *)
(* the signature must verify under the issuer's key.                       *)
SupportedSignatures ==
  {<<"p256", "ecdsa-sha256">>, <<"p384", "ecdsa-sha384">>,
   <<"p384", "ecdsa-sha256">>, <<"rsa", "sha256-rsa">>}

verify_signature(cert, issuer) ==
  /\ <<issuer.spki.alg, cert.sig_alg>> \in SupportedSignatures
  /\ cert.signer = issuer.spki

root_matches_top(root, top) == root.der = top.der

(* Mutant: the link of the topmost issuer is not checked.                  *)
InnerSignatures_OffByOne == \A i \in 1..Len(chain) - 2 : verify_signature(chain[i], chain[i + 1])

InnerSignatures == \A i \in 1..Len(chain) - 1 : verify_signature(chain[i], chain[i + 1])

(* The loop stops at the first link that fails.                            *)
SignatureError ==
  LET i == CHOOSE n \in 1..Len(chain) - 1 :
             /\ ~verify_signature(chain[n], chain[n + 1])
             /\ \A k \in 1..n - 1 : verify_signature(chain[k], chain[k + 1])
  IN  IF <<chain[i + 1].spki.alg, chain[i].sig_alg>> \in SupportedSignatures
      THEN "UntrustedChain" ELSE "Der"

(* The root is the top certificate, or has signed it.                      *)
AnchorsTop(root) ==
  LET top == chain[Len(chain)] IN root_matches_top(root, top) \/ verify_signature(top, root)

(* Mutant: an error under the first root ends the search.                  *)
Anchored_FirstRootOnly == AnchorsTop(Roots[1])

(* The loop over the pinned roots stops at the first that anchors the top; *)
(* unless that root is the top itself, it must be valid.                   *)
Anchored ==
  \E j \in DOMAIN Roots :
    /\ AnchorsTop(Roots[j])
    /\ \A k \in 1..j - 1 : ~AnchorsTop(Roots[k])
    /\ root_matches_top(Roots[j], chain[Len(chain)]) \/ check_validity(Roots[j])

AnchorError ==
  IF \E j \in DOMAIN Roots : AnchorsTop(Roots[j]) THEN "Der" ELSE "UntrustedChain"

----------------------------------------------------------------------------
(* The status list: a set of serials as sequences of hex digits.           *)

(* check_status: leading zero bytes are skipped, every other byte is two   *)
(* digits; zero is "0".                                                    *)
SerialHex(bytes) ==
  LET zeros == CHOOSE z \in 0..Len(bytes) :
                 /\ \A i \in 1..z : bytes[i] = 0
                 /\ z < Len(bytes) => bytes[z + 1] # 0
      rest == SubSeq(bytes, zeros + 1, Len(bytes))
  IN  IF rest = <<>> THEN <<0>>
      ELSE [i \in 1..2 * Len(rest) |->
              IF i % 2 = 1 THEN rest[(i + 1) \div 2] \div 16 ELSE rest[i \div 2] % 16]

check_status(cert) ==
  \A list \in policy.status_list : SerialHex(cert.serial) \notin list

----------------------------------------------------------------------------
(* key_description.rs.  A KeyDescription is                                *)
(*   [attestation_level, keymint_level, challenge, software, hardware]     *)
(* with each AuthorizationList a sequence of [class, tag, decodes, value]: *)
(* `tag` is the number on the wire, `decodes` whether the value has the    *)
(* type the tag asks for.  Levels and boot states are their wire values.   *)

SecurityLevels == 0..2
Verified == 0
SelfSigned == 1
BootStates == 0..3

(* parse_tlv_header: checked_shl checks the distance, not the bits it      *)
(* shifts out.                                                             *)
tag_number(field) == field.tag % TagModulus

DecodedTags == {701, 704, 705, 706, 709}

AuthorizationListDecodes(list) ==
  \A i \in DOMAIN list :
    (list[i].class = 2 /\ tag_number(list[i]) \in DecodedTags)
      => /\ list[i].decodes
         /\ tag_number(list[i]) = 704 => list[i].value.verified_boot_state \in BootStates

(* Each field [704] overwrites the one before.                             *)
root_of_trust(list) ==
  LET at == {i \in DOMAIN list : list[i].class = 2 /\ tag_number(list[i]) = 704}
  IN {list[i].value : i \in {j \in at : \A k \in at : k <= j}}

KeyDescriptionDecodes(kd) ==
  /\ kd.attestation_level \in SecurityLevels
  /\ kd.keymint_level \in SecurityLevels
  /\ AuthorizationListDecodes(kd.software)
  /\ AuthorizationListDecodes(kd.hardware)

----------------------------------------------------------------------------
(* lib.rs *)

kd == CHOOSE k \in chain[1].ext : TRUE

LevelMet ==
  /\ kd.attestation_level >= policy.min_security_level
  /\ kd.keymint_level >= policy.min_security_level

(* Mutant: the arm for a self-signed boot forgets to look at the key.      *)
BootAccepted_AnySelfSigned ==
  LET rots == root_of_trust(kd.hardware) IN
  IF rots = {} THEN ~policy.require_verified_boot
  ELSE \A rot \in rots :
    /\ policy.require_device_locked => rot.device_locked
    /\ \/ rot.verified_boot_state = Verified
       \/ ~policy.require_verified_boot /\ policy.allowed_self_signed_keys = {}
       \/ rot.verified_boot_state = SelfSigned /\ ~policy.require_verified_boot

(* The hardware-enforced list alone is asked; without a root of trust only *)
(* require_verified_boot is looked at.                                     *)
BootAccepted ==
  LET rots == root_of_trust(kd.hardware) IN
  IF rots = {} THEN ~policy.require_verified_boot
  ELSE \A rot \in rots :
    /\ policy.require_device_locked => rot.device_locked
    /\ \/ rot.verified_boot_state = Verified
       \/ ~policy.require_verified_boot /\ policy.allowed_self_signed_keys = {}
       \/ /\ rot.verified_boot_state = SelfSigned
          /\ ~policy.require_verified_boot
          /\ rot.verified_boot_key \in policy.allowed_self_signed_keys

BootError ==
  IF policy.require_device_locked /\ \E rot \in root_of_trust(kd.hardware) : ~rot.device_locked
  THEN "DeviceUnlocked" ELSE "UnacceptableBootState"

Init ==
  /\ input \in Inputs
  /\ pc = "chain"
  /\ verdict = "pending"

(* One check: go on to the next, or return the error.                      *)
Check(stage, holds, error, next) ==
  /\ pc = stage
  /\ pc' = IF holds THEN next ELSE "done"
  /\ verdict' = IF holds THEN (IF next = "done" THEN "ok" ELSE verdict) ELSE error
  /\ UNCHANGED input

(* The result of check_is_ca on each issuer is discarded.                  *)
validate_chain ==
  \/ Check("chain", chain # <<>>, "EmptyChain", "parse")
  \/ Check("parse", \A i \in DOMAIN chain : chain[i].parses, "Der", "validity")
  \/ Check("validity", \A i \in DOMAIN chain : check_validity(chain[i]), "Der", "signatures")
  \/ Check("signatures", InnerSignatures, SignatureError, "anchor")
  \/ Check("anchor", Anchored, AnchorError, "status")

verify_attestation ==
  \/ validate_chain
  \/ Check("status", \A i \in DOMAIN chain : check_status(chain[i]), "Revoked", "extension")
  \/ Check("extension", chain[1].ext # {}, "MissingAttestationExtension", "decode")
  \/ Check("decode", KeyDescriptionDecodes(kd), "Der", "challenge")
  \/ Check("challenge", kd.challenge = input.challenge, "ChallengeMismatch", "level")
  \/ Check("level", LevelMet, "InsufficientSecurityLevel", "boot")
  \/ Check("boot", BootAccepted, BootError, "done")

(* The call is a loop-free computation of one thread: it goes on.          *)
Spec == Init /\ [][verify_attestation]_vars /\ WF_vars(verify_attestation)

----------------------------------------------------------------------------
(* Properties *)

(* Keys the pinned roots vouch for at clock_ms: the least set that holds   *)
(* the keys of the roots and, with the signer of a valid certificate of    *)
(* the chain, the key it certifies.                                        *)
Certified(key) ==
  LET certs == {chain[i] : i \in DOMAIN chain}
      roots == {Roots[i] : i \in DOMAIN Roots}
      Closed(S) ==
        /\ \A r \in roots : check_validity(r) => r.spki \in S
        /\ \A c \in certs : (check_validity(c) /\ c.signer \in S) => c.spki \in S
  IN \A S \in SUBSET {c.spki : c \in certs \cup roots} : Closed(S) => key \in S

(* Only a key that the pinned roots vouch for, over certificates all valid *)
(* at clock_ms, is attested: no link of the chain goes unchecked, whether  *)
(* the chain carries its root, a re-issue of it, or neither.               *)
AcceptedIsCertified == verdict = "ok" => Certified(chain[1].spki)

(* What the hardware says of the device: the field [704], its number read  *)
(* as a u32, the last one if the list repeats it.                          *)
RootOfTrust(list) ==
  LET Is704(f) == f.class = 2 /\ \E n \in 0..f.tag : f.tag = 704 + n * TagModulus
  IN {list[i].value : i \in {j \in DOMAIN list :
                               Is704(list[j]) /\ \A k \in j + 1..Len(list) : ~Is704(list[k])}}

(* What the code accepts: both levels reach the minimum, the challenge is  *)
(* the caller's, and the root of trust that the hardware reports, if it    *)
(* reports one, has an acceptable boot state and a locked boot loader,     *)
(* however the software-enforced list reads.  It must report one only if   *)
(* require_verified_boot is set: BootReported says what the comments ask   *)
(* beyond that, and does not hold.  The number of a field is read as the   *)
(* code reads it, so that a wrapped one passes for 704 here as there.      *)
AcceptedMeetsPolicy ==
  verdict = "ok" =>
    \E k \in chain[1].ext :
      /\ k.challenge = input.challenge
      /\ {k.attestation_level, k.keymint_level} \subseteq policy.min_security_level..2
      /\ policy.require_verified_boot => RootOfTrust(k.hardware) # {}
      /\ \A rot \in RootOfTrust(k.hardware) :
           /\ policy.require_device_locked => rot.device_locked
           /\ rot.verified_boot_state = Verified \/ ~policy.require_verified_boot
           /\ policy.allowed_self_signed_keys # {} =>
                \/ rot.verified_boot_state = Verified
                \/ /\ rot.verified_boot_state = SelfSigned
                   /\ rot.verified_boot_key \in policy.allowed_self_signed_keys

(* lib.rs of the Policy and of its matrix: require_device_locked requires  *)
(* deviceLocked = true, and a list of self-signed keys leaves Verified, or *)
(* SelfSigned with a key of the list.  An accepted call has a root of      *)
(* trust that says so.                                                     *)
BootReported ==
  verdict = "ok" =>
    LET rots == UNION {RootOfTrust(k.hardware) : k \in chain[1].ext} IN
    /\ policy.require_device_locked => \E rot \in rots : rot.device_locked
    /\ policy.allowed_self_signed_keys # {} =>
         \E rot \in rots :
           \/ rot.verified_boot_state = Verified
           \/ /\ rot.verified_boot_state = SelfSigned
              /\ rot.verified_boot_key \in policy.allowed_self_signed_keys

(* A certificate of a genuine chain: signed by the key above it.           *)
ChainGenuine ==
  /\ chain # <<>>
  /\ \A i \in DOMAIN chain : chain[i].parses /\ check_validity(chain[i])
  /\ \A i \in 1..Len(chain) - 1 : verify_signature(chain[i], chain[i + 1])
  /\ \E j \in DOMAIN Roots : /\ check_validity(Roots[j])
                             /\ verify_signature(chain[Len(chain)], Roots[j])

(* No genuine chain is taken for an untrusted one: whichever pinned root   *)
(* signed its top certificate, and whether or not the root, itself or      *)
(* re-issued with the same key, comes with the chain, the call gets past   *)
(* the anchor.                                                             *)
GenuineChainTrusted == (pc = "chain" /\ ChainGenuine) ~> pc = "status"

(* status_list.rs: the list is keyed by serial in lowercase hex, without   *)
(* leading zeros.  An accepted chain has no serial that is listed so.      *)
Unpadded(hex) ==
  LET first == CHOOSE i \in 1..Len(hex) :
                 /\ hex[i] # 0 \/ i = Len(hex)
                 /\ \A j \in 1..i - 1 : hex[j] = 0
  IN SubSeq(hex, first, Len(hex))

RevokedIsRejected ==
  verdict = "ok" =>
    \A list \in policy.status_list : \A i \in DOMAIN chain :
      Unpadded(SerialHex(chain[i].serial)) \notin list
=============================================================================
