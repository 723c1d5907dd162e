--------------------------- MODULE MCAttestation ---------------------------
(* A small instance of Attestation: two builds of the repository that      *)
(* share registers 1 and 2 of their measurement, a foreign image that      *)
(* shares register 0 and does not report register 2, one that shares       *)
(* registers 0 and 1, and one that reports no register.                    *)
EXTENDS Attestation, TLC

CONSTANTS k1, k2, c1, d1, d2

MCBytes == {k1, k2, c1, d1, d2}

BuildA == (0 :> <<1>>) @@ (1 :> <<1>>) @@ (2 :> <<1>>)
BuildB == (0 :> <<2>>) @@ (1 :> <<1>>) @@ (2 :> <<1>>)
NoPcr2 == (0 :> <<1>>) @@ (1 :> <<1>>)
Foreign == (0 :> <<1>>) @@ (1 :> <<1>>) @@ (2 :> <<3>>)

NoPcrs == <<>>

MCImages == {BuildA, BuildB, NoPcr2, Foreign, NoPcrs}
MCPinnable == {BuildA, BuildB}

MCEvidence ==
  {[endpoint |-> "attest_apple_attestation", fields |-> <<k1, c1, d1>>],
   [endpoint |-> "attest_android_attestation", fields |-> <<k2, c1, d2>>],
   [endpoint |-> "attest_apple_assertion", fields |-> <<k1, c1>>]}

(* Evidence of the run that compares the code with a comment.              *)
MCAppleEvidence == {e \in MCEvidence : e.endpoint = "attest_apple_attestation"}

MCAnyFields == {<<k2, c1, d1>>}
=============================================================================
