------------------------ MODULE AttestServiceProofs ------------------------
(***************************************************************************)
(* Proofs about AttestService, for every set of keys and of tasks and any  *)
(* number of restarts.                                                     *)
(***************************************************************************)
EXTENDS AttestService, TLAPS

Option(S) == {None} \cup {{x} : x \in S}
AttestedActiveKeys == {ActiveKey(k) : k \in certified}

(* The active key, in memory and on disk.                                  *)
StoredAttested ==
  /\ stored \in Option(AttestedActiveKeys)
  /\ flushed \in Option(AttestedActiveKeys)

(* What a task of attest() holds: once attestKey has answered, a key that  *)
(* Apple has attested.                                                     *)
AttestTask == [at : AttestStages, key : Option(made)]
AttestTasks ==
  /\ attesting \in [Attests -> AttestTask]
  /\ \A t \in Attests :
       attesting[t].at \in {"parsing", "returning"} => attesting[t].key \subseteq certified

(* What a task of assert() holds: the active key it read before the await, *)
(* and the key that signed, which is that of the id it gave to the device. *)
AssertTask == [at : AssertStages, active : Option(AttestedActiveKeys), signer : SUBSET Keys]
AssertTasks ==
  /\ asserting \in [Asserts -> AssertTask]
  /\ \A t \in Asserts :
       /\ asserting[t].at \in {"asserting", "returning"} => asserting[t].active # None
       /\ asserting[t].at = "returning" =>
            asserting[t].signer = {a.keyId : a \in asserting[t].active}

KeysOfDevice == certified \subseteq made /\ made \subseteq Keys
Shown == lastAttestation \subseteq certified /\ lastAssertion \subseteq saved
Flags == {isAttesting, isAsserting} \subseteq BOOLEAN
RestartsBounded == restarts \in 0..MaxRestarts

(* The inductive invariant.                                                *)
IInv ==
  /\ StoredAttested /\ AttestTasks /\ AssertTasks /\ KeysOfDevice
  /\ Shown /\ Flags /\ RestartsBounded /\ CaptureVerifies

----------------------------------------------------------------------------
LEMMA InvariantImplies == IInv => TypeOK /\ ActiveKeyAttested
<1> SUFFICES ASSUME IInv PROVE TypeOK /\ ActiveKeyAttested
  OBVIOUS
<1>1. ActiveKeyAttested
  BY DEF IInv, StoredAttested, AttestedActiveKeys, Option, ActiveKeyAttested, ActiveKey, None
<1>2. /\ stored \in {None} \cup {{ActiveKey(k)} : k \in Keys}
      /\ flushed \in {None} \cup {{ActiveKey(k)} : k \in Keys}
  BY DEF IInv, StoredAttested, AttestedActiveKeys, Option, KeysOfDevice
<1>3. \A t \in Attests : attesting[t].at \in AttestStages /\ attesting[t].key \subseteq made
  BY DEF IInv, AttestTasks, AttestTask, Option, None
<1>4. \A t \in Asserts : asserting[t].at \in AssertStages
  BY DEF IInv, AssertTasks, AssertTask
<1>5. TypeOK
  BY <1>2, <1>3, <1>4, Zenon DEF IInv, TypeOK, KeysOfDevice, Shown, Flags, RestartsBounded
<1> QED BY <1>1, <1>5

(* Nothing is stored, running or made when the app is first started.       *)
LEMMA InitEstablishesInvariant == Init => IInv
<1> SUFFICES ASSUME Init PROVE IInv
  OBVIOUS
<1>1. StoredAttested /\ KeysOfDevice /\ Shown /\ CaptureVerifies
  BY DEF Init, StoredAttested, KeysOfDevice, Shown, CaptureVerifies, Option, None
<1>2. AttestTasks
  BY DEF Init, AttestTasks, AttestTask, NoAttest, AttestStages, Option, None
<1>3. AssertTasks
  BY DEF Init, AssertTasks, AssertTask, NoAssert, AssertStages, Option, None
<1>4. Flags
  BY Zenon DEF Init, Flags
<1>5. RestartsBounded
  BY ClientConstants DEF Init, RestartsBounded
<1> QED BY <1>1, <1>2, <1>3, <1>4, <1>5 DEF IInv

(* The device forgets no key and Apple withdraws none: what a step leaves  *)
(* alone stays as it should be.                                            *)
LEMMA PartsKept ==
  ASSUME IInv, made \subseteq made', certified \subseteq certified'
  PROVE  /\ UNCHANGED <<stored, flushed>> => StoredAttested'
         /\ UNCHANGED attesting => AttestTasks'
         /\ UNCHANGED asserting => AssertTasks'
         /\ UNCHANGED saved => CaptureVerifies'
         /\ UNCHANGED <<lastAttestation, lastAssertion, saved>> => Shown'
         /\ UNCHANGED <<isAttesting, isAsserting>> => Flags'
         /\ UNCHANGED restarts => RestartsBounded'
<1>1. Option(made) \subseteq Option(made')
  BY DEF Option
<1>2. Option(AttestedActiveKeys) \subseteq Option(AttestedActiveKeys')
  BY DEF Option, AttestedActiveKeys
<1>3. UNCHANGED <<stored, flushed>> => StoredAttested'
  BY <1>2 DEF IInv, StoredAttested, Option
<1>4. UNCHANGED attesting => AttestTasks'
  BY <1>1 DEF IInv, AttestTasks, AttestTask, Option
<1>5. UNCHANGED asserting => AssertTasks'
  BY <1>2 DEF IInv, AssertTasks, AssertTask, Option
<1>6. UNCHANGED saved => CaptureVerifies'
  BY DEF IInv, CaptureVerifies
<1>7. UNCHANGED <<lastAttestation, lastAssertion, saved>> => Shown'
  BY DEF IInv, Shown
<1>8. UNCHANGED <<isAttesting, isAsserting>> => Flags'
  BY Zenon DEF IInv, Flags
<1>9. UNCHANGED restarts => RestartsBounded'
  BY DEF IInv, RestartsBounded
<1> QED BY <1>3, <1>4, <1>5, <1>6, <1>7, <1>8, <1>9

(* One task of attest() moves on; the others go on holding what they hold. *)
LEMMA AttestTaskMoves ==
  ASSUME IInv, made \subseteq made', certified \subseteq certified',
         NEW t \in Attests, NEW task \in AttestTask',
         task.at \in {"parsing", "returning"} => task.key \subseteq certified',
         attesting' = [attesting EXCEPT ![t] = task]
  PROVE  AttestTasks'
<1>1. AttestTask \subseteq AttestTask'
  BY DEF AttestTask, Option
<1>2. attesting' \in [Attests -> AttestTask']
  BY <1>1 DEF IInv, AttestTasks
<1>3. \A u \in Attests : attesting'[u] = IF u = t THEN task ELSE attesting[u]
  BY DEF IInv, AttestTasks
<1> QED BY <1>2, <1>3 DEF IInv, AttestTasks

LEMMA AttestAtMoves ==
  ASSUME IInv, made \subseteq made', certified \subseteq certified',
         NEW t \in Attests, NEW from, NEW to \in AttestStages, AttestAt(t, from, to),
         to \in {"parsing", "returning"} => attesting[t].key \subseteq certified'
  PROVE  AttestTasks'
<1> DEFINE task == [at |-> to, key |-> attesting[t].key]
<1>1. attesting[t] \in AttestTask
  BY DEF IInv, AttestTasks
<1>2. attesting' = [attesting EXCEPT ![t] = task]
  <2>1. task = [attesting[t] EXCEPT !.at = to]
    BY <1>1 DEF AttestTask
  <2>2. attesting' = [attesting EXCEPT ![t] = [attesting[t] EXCEPT !.at = to]]
    BY DEF AttestAt
  <2> QED BY <2>1, <2>2
<1>3. task \in AttestTask' /\ task.at = to /\ task.key = attesting[t].key
  BY <1>1 DEF AttestTask, Option
<1> HIDE DEF task
<1> QED BY <1>2, <1>3, AttestTaskMoves

(* The same for assert().                                                  *)
LEMMA AssertTaskMoves ==
  ASSUME IInv, UNCHANGED certified, NEW t \in Asserts, NEW task \in AssertTask,
         task.at \in {"asserting", "returning"} => task.active # None,
         task.at = "returning" => task.signer = {a.keyId : a \in task.active},
         asserting' = [asserting EXCEPT ![t] = task]
  PROVE  AssertTasks'
<1>1. AssertTask' = AssertTask
  BY DEF AssertTask, AttestedActiveKeys
<1>2. asserting' \in [Asserts -> AssertTask']
  BY <1>1 DEF IInv, AssertTasks
<1>3. \A u \in Asserts : asserting'[u] = IF u = t THEN task ELSE asserting[u]
  BY DEF IInv, AssertTasks
<1> QED BY <1>2, <1>3 DEF IInv, AssertTasks

LEMMA AssertAtMoves ==
  ASSUME IInv, UNCHANGED certified, NEW t \in Asserts, NEW from, NEW to \in AssertStages,
         AssertAt(t, from, to), to \notin {"asserting", "returning"}
  PROVE  AssertTasks'
<1> DEFINE task == [at |-> to, active |-> asserting[t].active, signer |-> asserting[t].signer]
<1>1. asserting[t] \in AssertTask
  BY DEF IInv, AssertTasks
<1>2. asserting' = [asserting EXCEPT ![t] = task]
  <2>1. task = [asserting[t] EXCEPT !.at = to]
    BY <1>1 DEF AssertTask
  <2>2. asserting' = [asserting EXCEPT ![t] = [asserting[t] EXCEPT !.at = to]]
    BY DEF AssertAt
  <2> QED BY <2>1, <2>2
<1>3. task \in AssertTask /\ task.at = to
  BY <1>1 DEF AssertTask
<1> HIDE DEF task
<1> QED BY <1>2, <1>3, AssertTaskMoves

----------------------------------------------------------------------------
(* The steps of attest().                                                  *)
LEMMA AttestStepKeeps ==
  ASSUME IInv, NEW t \in Attests, TapAttest(t) \/ AttestStep(t)
  PROVE  IInv'
<1> USE PartsKept
<1>1. CASE TapAttest(t)
  <2>1. AttestTasks'
    BY <1>1, AttestAtMoves DEF TapAttest, AttestStages, device
  <2> QED BY <1>1, <2>1 DEF IInv, TapAttest, KeysOfDevice, view, device, app
<1>2. CASE AttestBegin(t)
  <2>1. AttestTasks'
    BY <1>2, AttestAtMoves DEF AttestBegin, AttestStages, device
  <2>2. Flags'
    BY <1>2, Zenon DEF IInv, Flags, AttestBegin
  <2> QED BY <1>2, <2>1, <2>2 DEF IInv, AttestBegin, KeysOfDevice, device, app
<1>3. CASE GenerateKey(t)
  <2>1. CASE \E k \in Keys \ made :
               /\ attesting' = [attesting EXCEPT ![t] = [at |-> "attesting", key |-> {k}]]
               /\ made' = made \cup {k}
               /\ UNCHANGED <<stored, flushed, asserting, view, certified, app>>
    <3>1. PICK k \in Keys \ made :
               /\ attesting' = [attesting EXCEPT ![t] = [at |-> "attesting", key |-> {k}]]
               /\ made' = made \cup {k}
      BY <2>1
    <3>2. [at |-> "attesting", key |-> {k}] \in AttestTask'
      BY <3>1 DEF AttestTask, AttestStages, Option
    <3>3. AttestTasks'
      BY <2>1, <3>1, <3>2, AttestTaskMoves
    <3> QED BY <2>1, <3>1, <3>3 DEF IInv, KeysOfDevice, view, app
  <2>2. CASE /\ AttestAt(t, "generating", "failed")
             /\ UNCHANGED <<stored, flushed, asserting, view, device, app>>
    <3>1. AttestTasks'
      BY <2>2, AttestAtMoves DEF AttestStages, device
    <3> QED BY <2>2, <3>1 DEF IInv, KeysOfDevice, view, device, app
  <2> QED BY <1>3, <2>1, <2>2 DEF GenerateKey
<1>4. CASE AttestKey(t)
  <2>1. attesting[t].key \subseteq made
    BY DEF IInv, AttestTasks, AttestTask, Option, None
  <2>2. CASE /\ AttestAt(t, "attesting", "parsing")
             /\ certified' = certified \cup attesting[t].key
             /\ UNCHANGED <<stored, flushed, asserting, view, made, app>>
    <3>1. AttestTasks'
      BY <2>2, AttestAtMoves DEF AttestStages
    <3>2. KeysOfDevice' /\ Shown'
      BY <2>1, <2>2 DEF IInv, KeysOfDevice, Shown, view, app
    <3> QED BY <2>2, <3>1, <3>2 DEF IInv, view, app
  <2>3. CASE /\ AttestAt(t, "attesting", "failed")
             /\ UNCHANGED <<stored, flushed, asserting, view, device, app>>
    <3>1. AttestTasks'
      BY <2>3, AttestAtMoves DEF AttestStages, device
    <3> QED BY <2>3, <3>1 DEF IInv, KeysOfDevice, view, device, app
  <2> QED BY <1>4, <2>2, <2>3 DEF AttestKey
<1>5. CASE Persist(t)
  <2>1. CASE /\ AttestAt(t, "parsing", "returning")
             /\ stored' = {ActiveKey(k) : k \in attesting[t].key}
             /\ UNCHANGED <<flushed, asserting, view, device, app>>
    <3>1. attesting[t].key \in Option(made) /\ attesting[t].key \subseteq certified
      BY <2>1 DEF IInv, AttestTasks, AttestTask, AttestAt
    <3>2. AttestTasks'
      BY <2>1, <3>1, AttestAtMoves DEF AttestStages, device
    <3>3. stored' \in Option(AttestedActiveKeys)
      BY <2>1, <3>1 DEF Option, AttestedActiveKeys, None
    <3>4. StoredAttested'
      BY <2>1, <3>3 DEF IInv, StoredAttested, AttestedActiveKeys, device
    <3> QED BY <2>1, <3>2, <3>4 DEF IInv, KeysOfDevice, view, device, app
  <2>2. CASE /\ AttestAt(t, "parsing", "failed")
             /\ UNCHANGED <<stored, flushed, asserting, view, device, app>>
    <3>1. AttestTasks'
      BY <2>2, AttestAtMoves DEF AttestStages, device
    <3> QED BY <2>2, <3>1 DEF IInv, KeysOfDevice, view, device, app
  <2> QED BY <1>5, <2>1, <2>2 DEF Persist
<1>6. CASE AttestEnd(t)
  <2>1. NoAttest \in AttestTask' /\ NoAttest.at = "idle"
    BY DEF NoAttest, AttestTask, AttestStages, Option
  <2>2. AttestTasks'
    BY <1>6, <2>1, AttestTaskMoves DEF AttestEnd, device
  <2>3. Shown'
    BY <1>6 DEF IInv, AttestEnd, AttestTasks, Shown, None, device, app
  <2>4. Flags'
    BY <1>6, Zenon DEF IInv, Flags, AttestEnd
  <2> QED BY <1>6, <2>2, <2>3, <2>4 DEF IInv, AttestEnd, KeysOfDevice, device, app
<1> QED BY <1>1, <1>2, <1>3, <1>4, <1>5, <1>6 DEF AttestStep

----------------------------------------------------------------------------
(* A capture pairs the key of the active key that was read with the key    *)
(* that signed: they are one key, and Apple attested it.                   *)
LEMMA CaptureOfTask ==
  ASSUME IInv, NEW t \in Asserts, asserting[t].at = "returning"
  PROVE  /\ Capture(t).attestedKey = Capture(t).signer
         /\ Capture(t).signer # {}
         /\ Capture(t).signer \subseteq certified
<1>1. /\ asserting[t].active \in Option(AttestedActiveKeys)
      /\ asserting[t].active # None
      /\ asserting[t].signer = {a.keyId : a \in asserting[t].active}
  BY DEF IInv, AssertTasks, AssertTask
<1>2. PICK k \in certified : asserting[t].active = {ActiveKey(k)}
  BY <1>1 DEF Option, AttestedActiveKeys
<1>3. /\ {a.keyId : a \in asserting[t].active} = {k}
      /\ {a.attestedKey : a \in asserting[t].active} = {k}
  BY <1>2 DEF ActiveKey
<1> QED BY <1>1, <1>3 DEF Capture

(* The steps of assert().                                                  *)
LEMMA AssertStepKeeps ==
  ASSUME IInv, NEW t \in Asserts, TapAssert(t) \/ AssertStep(t)
  PROVE  IInv'
<1> USE PartsKept
<1>1. CASE TapAssert(t)
  <2>1. AssertTasks'
    BY <1>1, AssertAtMoves DEF TapAssert, AssertStages, device
  <2> QED BY <1>1, <2>1 DEF IInv, TapAssert, KeysOfDevice, view, device, app
<1>2. CASE AssertBegin(t)
  <2>1. AssertTasks'
    BY <1>2, AssertAtMoves DEF AssertBegin, AssertStages, device
  <2>2. Flags'
    BY <1>2, Zenon DEF IInv, Flags, AssertBegin
  <2> QED BY <1>2, <2>1, <2>2 DEF IInv, AssertBegin, KeysOfDevice, device, app
<1>3. CASE ReadActiveKey(t)
  <2> DEFINE task == [at |-> IF stored = None THEN "failed" ELSE "asserting",
                      active |-> stored, signer |-> None]
  <2>1. task \in AssertTask
    BY DEF IInv, StoredAttested, AssertTask, AssertStages, None
  <2>2. task.at # "returning" /\ (task.at = "asserting" => task.active # None)
    OBVIOUS
  <2>3. asserting' = [asserting EXCEPT ![t] = task] /\ UNCHANGED certified
    BY <1>3 DEF ReadActiveKey, device
  <2> HIDE DEF task
  <2>4. AssertTasks'
    BY <2>1, <2>2, <2>3, AssertTaskMoves
  <2> QED BY <1>3, <2>4 DEF IInv, ReadActiveKey, KeysOfDevice, view, device, app
<1>4. CASE GenerateAssertion(t)
  <2> DEFINE signer == {a.keyId : a \in asserting[t].active}
  <2>1. CASE /\ asserting[t].at = "asserting" /\ signer \subseteq certified
             /\ asserting' = [asserting EXCEPT ![t].at = "returning", ![t].signer = signer]
             /\ UNCHANGED <<stored, flushed, attesting, view, device, app>>
    <3> DEFINE task == [at |-> "returning", active |-> asserting[t].active, signer |-> signer]
    <3>1. asserting[t] \in AssertTask /\ asserting[t].active # None
      BY <2>1 DEF IInv, AssertTasks
    <3>2. task \in AssertTask
      BY <2>1, <3>1 DEF AssertTask, AssertStages, IInv, KeysOfDevice
    <3>3. asserting' = [asserting EXCEPT ![t] = task]
      <4> HIDE DEF signer
      <4>1. task = [asserting[t] EXCEPT !.at = "returning", !.signer = signer]
        <5> DEFINE signed == [asserting[t] EXCEPT !.at = "returning"]
        <5>1. signed = [at |-> "returning", active |-> asserting[t].active,
                        signer |-> asserting[t].signer]
          BY <3>1 DEF AssertTask
        <5> HIDE DEF signed
        <5>2. [signed EXCEPT !.signer = signer]
                = [at |-> "returning", active |-> asserting[t].active, signer |-> signer]
          BY <5>1
        <5> QED BY <5>2 DEF signed
      <4>2. asserting' = [asserting EXCEPT ![t] = [asserting[t] EXCEPT !.at = "returning",
                                                                       !.signer = signer]]
        BY <2>1, <3>1 DEF IInv, AssertTasks
      <4> QED BY <4>1, <4>2
    <3>4. task.at = "returning" /\ task.active = asserting[t].active /\ task.signer = signer
      OBVIOUS
    <3> HIDE DEF task
    <3>5. AssertTasks'
      BY <2>1, <3>1, <3>2, <3>3, <3>4, AssertTaskMoves DEF device
    <3> QED BY <2>1, <3>5 DEF IInv, KeysOfDevice, view, device, app
  <2>2. CASE /\ AssertAt(t, "asserting", "failed")
             /\ UNCHANGED <<stored, flushed, attesting, view, device, app>>
    <3>1. AssertTasks'
      BY <2>2, AssertAtMoves DEF AssertStages, device
    <3> QED BY <2>2, <3>1 DEF IInv, KeysOfDevice, view, device, app
  <2> QED BY <1>4, <2>1, <2>2 DEF GenerateAssertion
<1>5. CASE AssertEnd(t)
  <2>1. NoAssert \in AssertTask /\ NoAssert.at = "idle"
    BY DEF NoAssert, AssertTask, AssertStages, Option, None
  <2>2. AssertTasks'
    BY <1>5, <2>1, AssertTaskMoves DEF AssertEnd, device
  <2>3. CaptureVerifies' /\ Shown'
    <3>1. CASE asserting[t].at = "returning"
      <4>1. lastAssertion' = {Capture(t)} /\ saved' = saved \cup {Capture(t)}
            /\ UNCHANGED <<lastAttestation, certified>>
        BY <1>5, <3>1 DEF AssertEnd, device
      <4> QED BY <3>1, <4>1, CaptureOfTask DEF IInv, CaptureVerifies, Shown
    <3>2. CASE asserting[t].at # "returning"
      BY <1>5, <3>2 DEF AssertEnd, device, KeysOfDevice
    <3> QED BY <3>1, <3>2
  <2>4. Flags'
    BY <1>5, Zenon DEF IInv, Flags, AssertEnd
  <2> QED BY <1>5, <2>2, <2>3, <2>4 DEF IInv, AssertEnd, KeysOfDevice, device
<1> QED BY <1>1, <1>2, <1>3, <1>4, <1>5 DEF AssertStep

(* The user clears the active key; it reaches the disk; the app is killed  *)
(* and comes back with what is on disk and no task running.                *)
LEMMA OtherStepsKeep ==
  ASSUME IInv, TapClear \/ Flush \/ Restart \/ UNCHANGED vars
  PROVE  IInv'
<1> USE PartsKept
<1>1. CASE TapClear
  <2>1. StoredAttested'
    BY <1>1 DEF IInv, TapClear, StoredAttested, AttestedActiveKeys, Option, device
  <2>2. Shown'
    BY <1>1 DEF TapClear, Shown, None
  <2> QED BY <1>1, <2>1, <2>2 DEF IInv, TapClear, KeysOfDevice, device, app
<1>2. CASE Flush
  <2>1. StoredAttested'
    BY <1>2 DEF IInv, Flush, StoredAttested, AttestedActiveKeys, device
  <2> QED BY <1>2, <2>1 DEF IInv, Flush, KeysOfDevice, view, device, app
<1>3. CASE Restart
  <2>1. StoredAttested'
    BY <1>3 DEF IInv, Restart, StoredAttested, AttestedActiveKeys, device
  <2>2. AttestTasks'
    BY <1>3 DEF Restart, AttestTasks, AttestTask, NoAttest, AttestStages, Option
  <2>3. AssertTasks'
    BY <1>3 DEF Restart, AssertTasks, AssertTask, NoAssert, AssertStages, Option, None
  <2>4. Flags'
    BY <1>3, Zenon DEF Flags, Restart
  <2>5. RestartsBounded'
    BY <1>3, ClientConstants DEF IInv, RestartsBounded, Restart
  <2> QED BY <1>3, <2>1, <2>2, <2>3, <2>4, <2>5 DEF IInv, Restart, KeysOfDevice, Shown, None, device
<1>4. CASE UNCHANGED vars
  BY <1>4 DEF IInv, vars, KeysOfDevice, view, device, app
<1> QED BY <1>1, <1>2, <1>3, <1>4

LEMMA NextKeepsInvariant == IInv /\ [Next]_vars => IInv'
  BY AttestStepKeeps, AssertStepKeeps, OtherStepsKeep DEF Next

LEMMA InvariantHolds == Spec => []IInv
  BY InitEstablishesInvariant, NextKeepsInvariant, PTL DEF Spec

----------------------------------------------------------------------------
(* The tasks, UserDefaults and the view keep their types.                  *)
THEOREM TypeCorrect == Spec => []TypeOK
  BY InvariantHolds, InvariantImplies, PTL

(* AttestService.attest stores a key only after attestKey has answered, so *)
(* no interleaving, failure or kill leaves an active key that Apple has    *)
(* not attested.                                                           *)
THEOREM ActiveKeyIsAttested == Spec => []ActiveKeyAttested
  BY InvariantHolds, InvariantImplies, PTL

(* AttestService.assert uses the active key it read before the await, so   *)
(* a capture names the key that signed it whatever became of the active    *)
(* key meanwhile.                                                          *)
THEOREM CapturesVerify == Spec => []CaptureVerifies
<1>1. IInv => CaptureVerifies
  BY DEF IInv
<1> QED BY <1>1, InvariantHolds, PTL
=============================================================================
