---------------------------- MODULE AttestService ----------------------------
(***************************************************************************)
(* The iOS client: AttestService.attest and assert with the view model     *)
(* that runs them (ContentView.swift), the App Attest service of the       *)
(* device, and UserDefaults.                                               *)
(*                                                                         *)
(* The view model runs on the main actor; the service's functions do not,  *)
(* and wait for a callback of the device at each `await`.  A button is     *)
(* disabled while its flag is set, but the flag is set by the task that    *)
(* the tap creates: until that task runs the button can be tapped again.   *)
(* The app can be killed at any time; a UserDefaults write reaches the     *)
(* disk some time later.                                                   *)
(***************************************************************************)
EXTENDS Integers, FiniteSets

CONSTANTS
  Keys,         \* App Attest keys of the device
  Attests,      \* tasks that run attest()
  Asserts,      \* tasks that run assert()
  MaxRestarts   \* bound: how often the app is killed

ASSUME ClientConstants == MaxRestarts \in Nat

VARIABLES
  stored,           \* UserDefaults: the ActiveKey as [keyId, attestedKey], if any
  flushed,          \* what of it is on disk
  attesting,        \* task -> [at, key]
  asserting,        \* task -> [at, active, signer]
  isAttesting,
  isAsserting,
  lastAttestation,  \* the key of the capture shown, if any
  lastAssertion,    \* the capture shown, if any: [attestedKey, signer]
  made,             \* keys the device has generated
  certified,        \* keys Apple has attested
  saved,            \* history: assertion captures returned
  restarts

vars == <<stored, flushed, attesting, asserting, isAttesting, isAsserting, lastAttestation,
          lastAssertion, made, certified, saved, restarts>>
view == <<isAttesting, isAsserting, lastAttestation, lastAssertion>>
device == <<made, certified>>
app == <<saved, restarts>>

None == {}
ActiveKey(k) == [keyId |-> k, attestedKey |-> k]
NoAttest == [at |-> "idle", key |-> None]
NoAssert == [at |-> "idle", active |-> None, signer |-> None]

AttestStages == {"idle", "tapped", "generating", "attesting", "parsing", "returning", "failed"}
AssertStages == {"idle", "tapped", "starting", "asserting", "returning", "failed"}

Init ==
  /\ stored = None /\ flushed = None
  /\ attesting = [t \in Attests |-> NoAttest]
  /\ asserting = [t \in Asserts |-> NoAssert]
  /\ isAttesting = FALSE /\ isAsserting = FALSE
  /\ lastAttestation = None /\ lastAssertion = None
  /\ made = {} /\ certified = {}
  /\ saved = {} /\ restarts = 0

AttestAt(t, from, to) ==
  /\ attesting[t].at = from
  /\ attesting' = [attesting EXCEPT ![t].at = to]
AssertAt(t, from, to) ==
  /\ asserting[t].at = from
  /\ asserting' = [asserting EXCEPT ![t].at = to]

----------------------------------------------------------------------------
(* The view.  A tap creates a task.                                        *)
TapAttest(t) ==
  /\ ~isAttesting
  /\ AttestAt(t, "idle", "tapped")
  /\ UNCHANGED <<stored, flushed, asserting, view, device, app>>

TapAssert(t) ==
  /\ ~isAsserting /\ stored # None
  /\ AssertAt(t, "idle", "tapped")
  /\ UNCHANGED <<stored, flushed, attesting, view, device, app>>

(* clearActiveKey                                                          *)
TapClear ==
  /\ stored # None
  /\ stored' = None
  /\ lastAttestation' = None /\ lastAssertion' = None
  /\ UNCHANGED <<flushed, attesting, asserting, isAttesting, isAsserting, device, app>>

----------------------------------------------------------------------------
(* attest: the view model's part, up to service.generateKey.               *)
AttestBegin(t) ==
  /\ AttestAt(t, "tapped", "generating")
  /\ isAttesting' = TRUE
  /\ UNCHANGED <<stored, flushed, asserting, isAsserting, lastAttestation, lastAssertion, device, app>>

(* Mutant: the key is stored before it is attested.                        *)
GenerateKey_Persists(t) ==
  \/ \E k \in Keys \ made :
       /\ attesting[t].at = "generating"
       /\ attesting' = [attesting EXCEPT ![t] = [at |-> "attesting", key |-> {k}]]
       /\ made' = made \cup {k}
       /\ stored' = {ActiveKey(k)}
       /\ UNCHANGED <<flushed, asserting, view, certified, app>>
  \/ /\ AttestAt(t, "generating", "failed")
     /\ UNCHANGED <<stored, flushed, asserting, view, device, app>>

(* The callback of generateKey: a new key, or an error.                    *)
GenerateKey(t) ==
  \/ \E k \in Keys \ made :
       /\ attesting[t].at = "generating"
       /\ attesting' = [attesting EXCEPT ![t] = [at |-> "attesting", key |-> {k}]]
       /\ made' = made \cup {k}
       /\ UNCHANGED <<stored, flushed, asserting, view, certified, app>>
  \/ /\ AttestAt(t, "generating", "failed")
     /\ UNCHANGED <<stored, flushed, asserting, view, device, app>>

(* The callback of attestKey.                                              *)
AttestKey(t) ==
  \/ /\ AttestAt(t, "attesting", "parsing")
     /\ certified' = certified \cup attesting[t].key
     /\ UNCHANGED <<stored, flushed, asserting, view, made, app>>
  \/ /\ AttestAt(t, "attesting", "failed")
     /\ UNCHANGED <<stored, flushed, asserting, view, device, app>>

(* extractAttestedPublicKey may throw; then the key is stored.             *)
Persist(t) ==
  \/ /\ AttestAt(t, "parsing", "returning")
     /\ stored' = {ActiveKey(k) : k \in attesting[t].key}
     /\ UNCHANGED <<flushed, asserting, view, device, app>>
  \/ /\ AttestAt(t, "parsing", "failed")
     /\ UNCHANGED <<stored, flushed, asserting, view, device, app>>

(* Mutant: the key is shown whether or not it was attested.                *)
AttestEnd_Shows(t) ==
  /\ attesting[t].at \in {"returning", "failed"}
  /\ lastAttestation' = attesting[t].key /\ lastAssertion' = None
  /\ attesting' = [attesting EXCEPT ![t] = NoAttest]
  /\ isAttesting' = FALSE
  /\ UNCHANGED <<stored, flushed, asserting, isAsserting, device, app>>

(* Back in the view model, with a capture or an error.                     *)
AttestEnd(t) ==
  /\ attesting[t].at \in {"returning", "failed"}
  /\ IF attesting[t].at = "returning"
     THEN lastAttestation' = attesting[t].key /\ lastAssertion' = None
     ELSE UNCHANGED <<lastAttestation, lastAssertion>>
  /\ attesting' = [attesting EXCEPT ![t] = NoAttest]
  /\ isAttesting' = FALSE
  /\ UNCHANGED <<stored, flushed, asserting, isAsserting, device, app>>

----------------------------------------------------------------------------
(* assert *)
AssertBegin(t) ==
  /\ AssertAt(t, "tapped", "starting")
  /\ isAsserting' = TRUE
  /\ UNCHANGED <<stored, flushed, attesting, isAttesting, lastAttestation, lastAssertion, device, app>>

(* service.assert reads the active key, which may be gone by now.          *)
ReadActiveKey(t) ==
  /\ asserting[t].at = "starting"
  /\ asserting' = [asserting EXCEPT ![t] =
                     [at |-> IF stored = None THEN "failed" ELSE "asserting",
                      active |-> stored, signer |-> None]]
  /\ UNCHANGED <<stored, flushed, attesting, view, device, app>>

(* The callback of generateAssertion: the device signs with the key of the *)
(* id it was given, if Apple has attested it.                              *)
GenerateAssertion(t) ==
  LET signer == {a.keyId : a \in asserting[t].active} IN
  \/ /\ asserting[t].at = "asserting" /\ signer \subseteq certified
     /\ asserting' = [asserting EXCEPT ![t].at = "returning", ![t].signer = signer]
     /\ UNCHANGED <<stored, flushed, attesting, view, device, app>>
  \/ /\ AssertAt(t, "asserting", "failed")
     /\ UNCHANGED <<stored, flushed, attesting, view, device, app>>

(* Mutant: the capture takes the key that is active now.                   *)
Capture_Now(t) ==
  [attestedKey |-> {a.attestedKey : a \in stored}, signer |-> asserting[t].signer]

(* The key is the one read before the await.                               *)
Capture(t) ==
  [attestedKey |-> {a.attestedKey : a \in asserting[t].active}, signer |-> asserting[t].signer]

(* Mutant: an error leaves the flag as it is.                              *)
AssertEnd_KeepsFlag(t) ==
  /\ asserting[t].at \in {"returning", "failed"}
  /\ IF asserting[t].at = "returning"
     THEN lastAssertion' = {Capture(t)} /\ saved' = saved \cup {Capture(t)} /\ isAsserting' = FALSE
     ELSE UNCHANGED <<lastAssertion, saved, isAsserting>>
  /\ asserting' = [asserting EXCEPT ![t] = NoAssert]
  /\ UNCHANGED <<stored, flushed, attesting, isAttesting, lastAttestation, device, restarts>>

(* Back in the view model, with a capture or an error.                     *)
AssertEnd(t) ==
  /\ asserting[t].at \in {"returning", "failed"}
  /\ IF asserting[t].at = "returning"
     THEN /\ lastAssertion' = {Capture(t)}
          /\ saved' = saved \cup {Capture(t)}
     ELSE UNCHANGED <<lastAssertion, saved>>
  /\ asserting' = [asserting EXCEPT ![t] = NoAssert]
  /\ isAsserting' = FALSE
  /\ UNCHANGED <<stored, flushed, attesting, isAttesting, lastAttestation, device, restarts>>

----------------------------------------------------------------------------
(* UserDefaults reaches the disk.                                          *)
Flush ==
  /\ flushed # stored
  /\ flushed' = stored
  /\ UNCHANGED <<stored, attesting, asserting, view, device, app>>

(* The app is killed and started again: it keeps what is on disk.  The     *)
(* device keeps its keys.                                                  *)
Restart ==
  /\ restarts < MaxRestarts
  /\ restarts' = restarts + 1
  /\ stored' = flushed
  /\ attesting' = [t \in Attests |-> NoAttest]
  /\ asserting' = [t \in Asserts |-> NoAssert]
  /\ isAttesting' = FALSE /\ isAsserting' = FALSE
  /\ lastAttestation' = None /\ lastAssertion' = None
  /\ UNCHANGED <<flushed, device, saved>>

AttestStep(t) == AttestBegin(t) \/ GenerateKey(t) \/ AttestKey(t) \/ Persist(t) \/ AttestEnd(t)
AssertStep(t) == AssertBegin(t) \/ ReadActiveKey(t) \/ GenerateAssertion(t) \/ AssertEnd(t)

Next ==
  \/ \E t \in Attests : TapAttest(t) \/ AttestStep(t)
  \/ \E t \in Asserts : TapAssert(t) \/ AssertStep(t)
  \/ TapClear \/ Flush \/ Restart

(* Tasks run, and the device calls every completion handler once.          *)
Fairness ==
  /\ \A t \in Attests : WF_vars(AttestStep(t))
  /\ \A t \in Asserts : WF_vars(AssertStep(t))

Spec == Init /\ [][Next]_vars /\ Fairness

----------------------------------------------------------------------------
(* Properties *)

(* Type invariant.                                                         *)
TypeOK ==
  /\ stored \in {None} \cup {{ActiveKey(k)} : k \in Keys}
  /\ flushed \in {None} \cup {{ActiveKey(k)} : k \in Keys}
  /\ \A t \in Attests : /\ attesting[t].at \in AttestStages
                        /\ attesting[t].key \subseteq made
  /\ \A t \in Asserts : asserting[t].at \in AssertStages
  /\ {isAttesting, isAsserting} \subseteq BOOLEAN
  /\ lastAttestation \subseteq certified /\ certified \subseteq made /\ made \subseteq Keys
  /\ lastAssertion \subseteq saved
  /\ restarts \in 0..MaxRestarts

(* An assertion capture carries the key that signed it, and Apple attested *)
(* that key: also if, while the device signs, the active key is cleared or *)
(* replaced by an attestation that ends, and whatever a restart brings     *)
(* back.                                                                   *)
CaptureVerifies ==
  \A c \in saved : c.attestedKey = c.signer /\ c.signer # {} /\ c.signer \subseteq certified

(* The active key is one Apple has attested, in memory and on disk: with   *)
(* attestations in flight, failures at any await, and a kill between       *)
(* generateKey and attestKey or between attestKey and the write.           *)
ActiveKeyAttested ==
  \A a \in stored \cup flushed : a.keyId = a.attestedKey /\ a.attestedKey \in certified

(* The progress indicators end: a flag that is set is reset, on every path *)
(* of its task.                                                            *)
FlagsEnd ==
  /\ isAttesting ~> ~isAttesting
  /\ isAsserting ~> ~isAsserting
=============================================================================
