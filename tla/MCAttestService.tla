-------------------------- MODULE MCAttestService --------------------------
(* Two attestations, as many as a double tap starts, one assertion, two    *)
(* keys and one restart.                                                   *)
EXTENDS AttestService
=============================================================================
