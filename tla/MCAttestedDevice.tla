-------------------------- MODULE MCAttestedDevice --------------------------
(* A small instance of the composition: two builds of the repository, a    *)
(* foreign image that shares two registers with the first, an App Attest   *)
(* key, an assertion of that key, an Android key, two bindings, and two    *)
(* ambiguous domains: <<1, 2>> without an action hash on the first binding *)
(* has the message of <<1>> with the hash <<1>> on the second.             *)
EXTENDS AttestedDevice, TLC

CONSTANTS apple, android, c1, d1

MCKeys == {apple, android}
MCBytes == MCKeys \cup {c1, d1}

BuildA == (0 :> <<1>>) @@ (1 :> <<1>>) @@ (2 :> <<1>>)
BuildB == (0 :> <<2>>) @@ (1 :> <<1>>) @@ (2 :> <<1>>)
Foreign == (0 :> <<1>>) @@ (1 :> <<1>>) @@ (2 :> <<3>>)
MCImages == {BuildA, BuildB, Foreign}
MCPinnable == {BuildA, BuildB}

MCEvidence ==
  {[endpoint |-> "attest_apple_attestation", fields |-> <<apple, c1, d1>>],
   [endpoint |-> "attest_apple_assertion", fields |-> <<apple, c1>>]}
MCAnyFields == {<<android, c1, d1>>}

MCKeyScheme == [k \in MCKeys |-> "Secp256r1"]
MCKeyForm == (apple :> "x963") @@ (android :> "spki")
MCIdBytes(id) == <<id>>
MCDomains == {<<1>>, <<1, 2>>}
MCActionHashes == {<<>>, <<1>>}
MCExpiries == {1}
=============================================================================
