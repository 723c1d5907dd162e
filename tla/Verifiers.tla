----------------------------- MODULE Verifiers -----------------------------
(***************************************************************************)
(* The verifiers of the two platforms and the readers of what they are     *)
(* sent, side by side.  They share no state: each call of the server uses  *)
(* one of them.  So a behaviour is about one part, and the variables of    *)
(* the others stay at rest.                                                *)
(***************************************************************************)
EXTENDS AndroidVerifier, AppleVerifier, Decoders

VARIABLE part  \* "android", "apple" or "reader"

AndroidAtRest == input = "none" /\ pc = "done" /\ verdict = "pending"
AppleAtRest == AppleInit /\ clock = 0
ReaderAtRest == subject = [kind |-> "none"] /\ cut = 0

VerifiersInit ==
  \/ part = "android" /\ Init /\ AppleAtRest /\ ReaderAtRest
  \/ part = "apple" /\ AppleInit /\ AndroidAtRest /\ ReaderAtRest
  \/ /\ part = "reader" /\ (ReadersInit \/ StatusInit \/ DecodersInit)
     /\ AndroidAtRest /\ AppleAtRest

AndroidStep ==
  part = "android" /\ verify_attestation /\ UNCHANGED <<part, appleVars, readerVars>>
AppleStep ==
  part = "apple" /\ AppleNext /\ UNCHANGED <<part, vars, readerVars>>
ReaderStep ==
  part = "reader" /\ (Arrive \/ Receive \/ Continue) /\ UNCHANGED <<part, vars, appleVars>>

VerifiersNext == AndroidStep \/ AppleStep \/ ReaderStep

allVars == <<part, vars, appleVars, readerVars>>

VerifiersSpec == VerifiersInit /\ [][VerifiersNext]_allVars /\ WF_allVars(AndroidStep)
=============================================================================
