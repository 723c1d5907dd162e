-------------------------- MODULE MCDeviceBinding --------------------------
(* Instances of DeviceBinding: an App Attest key (P-256, X9.63) and an     *)
(* Android key (P-256, SPKI).  Bytes are small numbers; an id is one byte  *)
(* that may also occur in a domain or an action hash.                      *)
EXTENDS DeviceBinding, TLC

CONSTANTS apple, android

MCKeys == {apple, android}
MCKeyScheme == [k \in MCKeys |-> "Secp256r1"]
MCKeyForm == (apple :> "x963") @@ (android :> "spki")

MCAttestations ==
  {[source |-> "AppleAppAttest", attested_value |-> apple, timestamp_ms |-> 0],
   [source |-> "AndroidKeyAttestation", attested_value |-> android, timestamp_ms |-> 0]}

MCIdBytes(id) == <<id>>

(* Domains of two lengths.  <<1>> and <<1, 2>> are ambiguous: the 2 may be  *)
(* the id.  <<2>> is told from both.                                       *)
MCDomains == {<<1>>, <<1, 2>>, <<2>>}

MCActionHashes == {<<>>, <<1>>}
MCExpiries == {0, 1}
=============================================================================
