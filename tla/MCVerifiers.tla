---------------------------- MODULE MCVerifiers ----------------------------
(* The inputs of MCAndroidVerifier and MCDecoders; and two devices with an *)
(* app each, one in production and one in development, a key outside App   *)
(* Attest, and certificates of Apple and of another CA.                    *)
EXTENDS Verifiers, TLC

(* These lend their inputs, which do not depend on the parameters.         *)
Android == INSTANCE MCAndroidVerifier WITH
  Roots <- <<>>, Inputs <- {}, TagModulus <- 1, input <- 0, pc <- 0, verdict <- 0
Documents == INSTANCE MCDecoders WITH
  TagNumbers <- 1, Words <- {}, StatusDocs <- <<>>, Lists <- <<>>, Descriptions <- <<>>,
  ApplicationIds <- <<>>, Chains <- <<>>, AuthDatas <- <<>>, Objects <- <<>>,
  AssertionMaps <- <<>>, subject <- 0, cut <- 0

CONSTANTS k1, k2, x, app1, app2, c1, c2

MCRoots == Android!MCRoots
MCInputs == Android!MCInputs
MCTagModulus == Android!MCTagModulus
MCTagNumbers == Documents!MCTagNumbers
MCWords == Documents!MCWords
MCStatusDocs == Documents!MCStatusDocs
MCLists == Documents!MCLists
MCDescriptions == Documents!MCDescriptions
MCApplicationIds == Documents!MCApplicationIds
MCChains == Documents!MCChains
MCAuthDatas == Documents!MCAuthDatas
MCObjects == Documents!MCObjects
MCAssertionMaps == Documents!MCAssertionMaps

MCDeviceKeys == {k1, k2}
MCOtherKeys == {x}
MCApps == {app1, app2}
MCChallenges == {c1, c2}
MCAppOf == (k1 :> app1) @@ (k2 :> app2)
MCAaguidOf == (k1 :> "appattest") @@ (k2 :> "appattestdevelop")

Key(name, alg) == [name |-> name, alg |-> alg]
Cert(spki, signer, sig_alg, from, to, ca) ==
  [spki |-> spki, signer |-> signer, sig_alg |-> sig_alg, not_before |-> from,
   not_after |-> to, ca |-> ca, nonce |-> {}]

RootKey == Key("root", "p384")
MCIssuerKey == Key("ca1", "p384")
MCRoot == Cert(RootKey, RootKey, "ecdsa-sha384", 0, 1, TRUE)
Ca1 == Cert(MCIssuerKey, RootKey, "ecdsa-sha384", 0, 1, TRUE)
OtherCa == Cert(Key("other", "p384"), Key("other", "p384"), "ecdsa-sha384", 0, 1, TRUE)
OtherLeaf ==
  [Cert(Key(x, "p256"), Key("other", "p384"), "ecdsa-sha256", 0, 1, FALSE)
     EXCEPT !.nonce = {Digest(AuthData(app1, TRUE, 0, "appattest", x), c1)}]
MCCaCerts == {MCRoot, Ca1, OtherCa, OtherLeaf}
MCLeafValidity == <<1, 1>>
=============================================================================
