-------------------------- MODULE MCEnclaveServer --------------------------
(* Requests to a small enclave-server: accepted ones of two platforms, one *)
(* the verifier rejects, one that does not decode, a document request and  *)
(* a health check.                                                         *)
EXTENDS EnclaveServer, TLC

CONSTANTS k1, k2, c1, d1

Body(endpoint, decodes, accepted, fields) ==
  [endpoint |-> endpoint, decodes |-> decodes, accepted |-> accepted, fields |-> fields]

Good ==
  {Body("attest_apple_attestation", TRUE, TRUE, <<k1, c1, d1>>),
   Body("attest_android_attestation", TRUE, TRUE, <<k2, c1, d1>>),
   Body("attest_apple_assertion", TRUE, TRUE, <<k1, c1>>)}
Bad ==
  {Body("attest_apple_attestation", TRUE, FALSE, <<k2, c1, d1>>),
   Body("attest_android_attestation", FALSE, FALSE, <<k2, c1, d1>>)}
Other ==
  {Body("attestation_doc", TRUE, TRUE, <<>>), Body("health", TRUE, TRUE, <<>>)}

MCBodies == Good \cup Bad \cup Other
MCImage == (0 :> <<1>>) @@ (1 :> <<1>>) @@ (2 :> <<1>>)
=============================================================================
