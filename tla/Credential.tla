----------------------------- MODULE Credential -----------------------------
(***************************************************************************)
(* What the whole system promises, without enclaves, documents, clocks,    *)
(* policies or messages: a credential is issued only for a key the         *)
(* verifier has checked, keeps that key until it is revoked, and allows    *)
(* only actions its key approved.  What an approval covers, besides the    *)
(* action it names for the credential it names, is a matter of how the     *)
(* system writes it down: Covers says so.                                  *)
(*                                                                         *)
(* A key is checked in one of two ways: "attested" (hardware provenance)   *)
(* or "asserted" (it signed a payload; provenance is a matter between the  *)
(* consumer and an earlier attestation).                                   *)
(***************************************************************************)
EXTENDS Naturals

CONSTANTS
  Keys,
  Actions,
  Covers(_, _)  \* <<credential number, action>> approved, and one it allows

VARIABLES
  checked,      \* <<how, key>> pairs the verifier has accepted
  credentials,  \* credential number -> <<how, key>>
  issued,       \* number of credentials issued so far
  approvals,    \* <<key, credential number, action>> approved
  allowed       \* the last <<credential number, action>> allowed, at most one

vars == <<checked, credentials, issued, approvals, allowed>>

Init ==
  /\ checked = {}
  /\ credentials = <<>>
  /\ issued = 0
  /\ approvals = {}
  /\ allowed = {}

Check(how, key) ==
  /\ checked' = checked \cup {<<how, key>>}
  /\ UNCHANGED <<credentials, issued, approvals, allowed>>

Issue(how, key) ==
  /\ <<how, key>> \in checked
  /\ issued' = issued + 1
  /\ credentials' = [n \in DOMAIN credentials \cup {issued'} |->
                       IF n = issued' THEN <<how, key>> ELSE credentials[n]]
  /\ UNCHANGED <<checked, approvals, allowed>>

Revoke(n) ==
  /\ credentials' = [m \in DOMAIN credentials \ {n} |-> credentials[m]]
  /\ UNCHANGED <<checked, issued, approvals, allowed>>

Approve(key, n, action) ==
  /\ approvals' = approvals \cup {<<key, n, action>>}
  /\ UNCHANGED <<checked, credentials, issued, allowed>>

Allow(n, action) ==
  /\ \E p \in approvals :
       p[1] = credentials[n][2] /\ Covers(<<p[2], p[3]>>, <<n, action>>)
  /\ allowed' = {<<n, action>>}
  /\ UNCHANGED <<checked, credentials, issued, approvals>>

Next ==
  \/ \E how \in {"attested", "asserted"}, key \in Keys : Check(how, key) \/ Issue(how, key)
  \/ \E n \in DOMAIN credentials : Revoke(n)
  \/ \E key \in Keys, n \in 1..issued, action \in Actions : Approve(key, n, action)
  \/ \E n \in DOMAIN credentials, action \in Actions : Allow(n, action)

Spec == Init /\ [][Next]_vars
=============================================================================
