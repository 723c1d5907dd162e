------------------------ MODULE EnclaveServerProofs ------------------------
(* SuccessIsBound, for every set of requests and bodies and every limit on *)
(* descriptors.                                                            *)
EXTENDS EnclaveServer, FiniteSetTheorems, TLAPS

(* A request past its handler is one the verifiers accepted, or asks for   *)
(* the document itself: no later step looks at the verdict again.          *)
VerdictGiven(r) ==
  pc[r] \in {"nsm_init", "nsm_request"} =>
    \/ body[r].endpoint = "attestation_doc"
    \/ body[r].endpoint \in AttestEndpoints /\ body[r].decodes /\ body[r].accepted

(* The answer to a request, if there is one, as SuccessIsBound has it.     *)
Bound(r) ==
  \A a \in response[r] :
    body[r].endpoint # "health" =>
      /\ a.status = 200 <=> a.document # {}
      /\ a.document \subseteq signed
      /\ \A u \in a.document :
           \/ body[r].endpoint = "attestation_doc" /\ u = <<>>
           \/ /\ body[r].decodes /\ body[r].accepted
              /\ u = Sha256(body[r].fields)

IInv ==
  /\ pc \in [Requests -> Stages]
  /\ DOMAIN response = Requests
  /\ \A r \in Requests : VerdictGiven(r) /\ Bound(r)

----------------------------------------------------------------------------
(* What holds of the requests whose stage and answer a step leaves alone.  *)
LEMMA OthersKeep ==
  ASSUME IInv, NEW r \in Requests, UNCHANGED body, signed \subseteq signed',
         pc'[r] \in {"nsm_init", "nsm_request"} => pc'[r] = pc[r], response'[r] = response[r]
  PROVE  VerdictGiven(r)' /\ Bound(r)'
<1>1. VerdictGiven(r) /\ Bound(r)
  BY DEF IInv
<1>2. VerdictGiven(r)'
  BY <1>1 DEF VerdictGiven
<1>3. Bound(r)'
  BY <1>1 DEF Bound
<1> QED BY <1>2, <1>3

(* A step of one request, as all actions of a connection are.              *)
LEMMA StepOfOne ==
  ASSUME IInv, NEW r \in Requests, NEW stage \in Stages, UNCHANGED body, signed \subseteq signed',
         Goto(r, stage), DOMAIN response' = Requests,
         \A q \in Requests \ {r} : response'[q] = response[q],
         VerdictGiven(r)', Bound(r)'
  PROVE  IInv'
<1>1. pc' \in [Requests -> Stages] /\ \A q \in Requests \ {r} : pc'[q] = pc[q]
  BY DEF IInv, Goto
<1>2. \A q \in Requests \ {r} : VerdictGiven(q)' /\ Bound(q)'
  BY <1>1, OthersKeep
<1> QED BY <1>1, <1>2 DEF IInv

(* A step that only moves a request on to a stage before its handler ends. *)
LEMMA StepWithoutAnswer ==
  ASSUME IInv, NEW r \in Requests, NEW stage \in Stages, UNCHANGED <<body, response, signed>>,
         Goto(r, stage), stage \in {"nsm_init", "nsm_request"} => VerdictGiven(r)'
  PROVE  IInv'
<1>1. pc'[r] = stage
  BY DEF IInv, Goto
<1>2. VerdictGiven(r)'
  BY <1>1 DEF VerdictGiven
<1>3. Bound(r)'
  BY DEF IInv, Bound
<1> QED BY <1>2, <1>3, StepOfOne DEF IInv

(* An answer that is an error and has no document.                         *)
LEMMA StepWithError ==
  ASSUME IInv, NEW r \in Requests, NEW error, UNCHANGED <<body, signed>>,
         Answer(r, ErrorStatus(body[r].endpoint, error), error, {})
  PROVE  IInv'
<1>1. Goto(r, "answered") /\ DOMAIN response' = Requests
      /\ \A q \in Requests \ {r} : response'[q] = response[q]
  BY DEF Answer, IInv
<1>2. response'[r] = {[status |-> ErrorStatus(body[r].endpoint, error), error |-> error,
                       document |-> {}]}
  BY DEF Answer, IInv
<1>3. ErrorStatus(body[r].endpoint, error) # 200
  BY DEF ErrorStatus
<1>4. VerdictGiven(r)'
  BY <1>1 DEF VerdictGiven, Goto, IInv
<1>5. Bound(r)'
  BY <1>2, <1>3 DEF Bound
<1> QED BY <1>1, <1>4, <1>5, StepOfOne DEF Stages

LEMMA BootKeeps == IInv /\ Boot => IInv'
<1> SUFFICES ASSUME IInv, Boot PROVE IInv'
  OBVIOUS
<1>1. UNCHANGED <<body, response, signed>>
  BY DEF Boot, setup_loopback, BridgeBind, Serve, Exit, requestVars
<1>2. /\ pc' \in [Requests -> Stages]
      /\ \A r \in Requests : pc'[r] = pc[r] \/ pc'[r] \in {"done", "closed"}
  BY DEF Boot, setup_loopback, BridgeBind, Serve, Exit, IInv, Stages
<1>3. \A r \in Requests : VerdictGiven(r)' /\ Bound(r)'
  BY <1>1, <1>2, OthersKeep
<1> QED BY <1>1, <1>2, <1>3 DEF IInv

LEMMA HandleKeeps ==
  ASSUME IInv, NEW r \in Requests, Handle(r)
  PROVE  IInv'
<1>1. UNCHANGED <<body, signed>>
  BY DEF Handle
<1>2. CASE body[r].endpoint = "health" /\ Answer(r, 200, "none", {})
  <2>1. Goto(r, "answered") /\ DOMAIN response' = Requests
        /\ \A q \in Requests \ {r} : response'[q] = response[q]
    BY <1>2 DEF Answer, IInv
  <2>2. VerdictGiven(r)'
    BY <2>1 DEF VerdictGiven, Goto, IInv
  <2>3. Bound(r)'
    BY <1>1, <1>2 DEF Bound
  <2> QED BY <1>1, <2>1, <2>2, <2>3, StepOfOne DEF Stages
<1>3. CASE \E error : Answer(r, ErrorStatus(body[r].endpoint, error), error, {})
  BY <1>1, <1>3, StepWithError
<1>4. CASE /\ \/ body[r].endpoint = "attestation_doc"
              \/ body[r].endpoint \in AttestEndpoints /\ body[r].decodes /\ body[r].accepted
           /\ Goto(r, "nsm_init") /\ UNCHANGED response
  BY <1>1, <1>4, StepWithoutAnswer DEF VerdictGiven, Stages
<1> QED BY <1>2, <1>3, <1>4 DEF Handle

LEMMA NsmInitKeeps ==
  ASSUME IInv, NEW r \in Requests, nsm_init(r)
  PROVE  IInv'
<1>1. UNCHANGED <<body, signed>> /\ VerdictGiven(r) /\ pc[r] = "nsm_init"
  BY DEF nsm_init, IInv
<1>2. CASE Goto(r, "nsm_request") /\ UNCHANGED response
  <2>1. VerdictGiven(r)'
    BY <1>1 DEF VerdictGiven
  <2> QED BY <1>1, <1>2, <2>1, StepWithoutAnswer DEF Stages
<1>3. CASE Answer(r, ErrorStatus(body[r].endpoint, "NsmInit"), "NsmInit", {})
  BY <1>1, <1>3, StepWithError
<1> QED BY <1>2, <1>3 DEF nsm_init

LEMMA NsmRequestKeeps ==
  ASSUME IInv, NEW r \in Requests, nsm_process_request(r)
  PROVE  IInv'
<1>1. UNCHANGED body /\ VerdictGiven(r) /\ pc[r] = "nsm_request"
  BY DEF nsm_process_request, IInv
<1>2. CASE signed' = signed \cup {UserData(body[r])} /\ Answer(r, 200, "none", {UserData(body[r])})
  <2>1. Goto(r, "answered") /\ DOMAIN response' = Requests
        /\ \A q \in Requests \ {r} : response'[q] = response[q]
    BY <1>2 DEF Answer, IInv
  <2>2. response'[r] = {[status |-> 200, error |-> "none", document |-> {UserData(body[r])}]}
    BY <1>2 DEF Answer, IInv
  <2>3. VerdictGiven(r)'
    BY <2>1 DEF VerdictGiven, Goto, IInv
  <2>4. \/ body[r].endpoint = "attestation_doc" /\ UserData(body[r]) = <<>>
        \/ /\ body[r].decodes /\ body[r].accepted
           /\ UserData(body[r]) = Sha256(body[r].fields)
    BY <1>1 DEF VerdictGiven, UserData, AttestEndpoints
  <2>5. Bound(r)'
    <3> DEFINE document == {UserData(body[r])}
    <3>1. document # {} /\ document \subseteq signed' /\ \A u \in document : u = UserData(body[r])
      BY <1>2
    <3>2. \A a \in response'[r] : a.status = 200 /\ a.document = document
      BY <2>2
    <3> HIDE DEF document
    <3> QED BY <1>1, <2>4, <3>1, <3>2 DEF Bound
  <2> QED BY <1>1, <1>2, <2>1, <2>3, <2>5, StepOfOne DEF Stages
<1>3. CASE /\ Answer(r, ErrorStatus(body[r].endpoint, "Nsm"), "Nsm", {})
           /\ UNCHANGED signed
  BY <1>1, <1>3, StepWithError
<1> QED BY <1>2, <1>3 DEF nsm_process_request

LEMMA NextKeeps == IInv /\ [Next]_vars => IInv'
<1> SUFFICES ASSUME IInv, [Next]_vars PROVE IInv'
  OBVIOUS
<1>1. CASE Boot
  BY <1>1, BootKeeps
<1>2. ASSUME NEW r \in Requests, Dial(r) PROVE IInv'
  <2>1. UNCHANGED <<body, response, signed>>
        /\ (Goto(r, "backlog") \/ Goto(r, "closed"))
    BY <1>2 DEF Dial, requestVars
  <2> QED BY <2>1, StepWithoutAnswer DEF Stages
<1>3. ASSUME NEW r \in Requests, Accept(r) PROVE IInv'
  BY <1>3, StepWithoutAnswer DEF Accept, requestVars, Stages
<1>4. ASSUME NEW r \in Requests, Connect(r) PROVE IInv'
  <2>1. UNCHANGED <<body, response, signed>>
        /\ (Goto(r, "connected") \/ Goto(r, "closed"))
    BY <1>4 DEF Connect, requestVars
  <2> QED BY <2>1, StepWithoutAnswer DEF Stages
<1>5. CASE UNCHANGED vars
  BY <1>5 DEF IInv, VerdictGiven, Bound, vars
<1>6. ASSUME NEW r \in Requests, TcpAccept(r) \/ Hangup(r) PROVE IInv'
  <2>1. UNCHANGED <<body, response, signed>>
        /\ (Goto(r, "handler") \/ Goto(r, "done"))
    BY <1>6 DEF TcpAccept, Hangup, requestVars
  <2> QED BY <2>1, StepWithoutAnswer DEF Stages
<1> QED BY <1>1, <1>2, <1>3, <1>4, <1>5, <1>6, HandleKeeps, NsmInitKeeps, NsmRequestKeeps
        DEF Next, Progress

(* A success is a client's own: however many handlers share the NSM and    *)
(* however it fails, the document in an answer is the one bound to what    *)
(* was accepted for that very request (main.rs, request_nsm_attestation).  *)
THEOREM BoundSuccess == Spec => []SuccessIsBound
<1>1. Init => IInv
  BY DEF Init, IInv, VerdictGiven, Bound, Stages
<1>2. IInv => SuccessIsBound
  BY DEF IInv, Bound, SuccessIsBound
<1> QED BY <1>1, NextKeeps, <1>2, PTL DEF Spec

----------------------------------------------------------------------------
(* Descriptors.  An NSM descriptor was opened by a request that has not    *)
(* come back from the device or has been answered, or closed since.        *)
AfterNsmInit == {r \in Requests : pc[r] \in {"nsm_request", "answered", "done", "closed"}}

FdInv == TypeOK /\ nsmFds <= Cardinality(AfterNsmInit)

LEMMA FiniteParts ==
  /\ IsFiniteSet(Requests) /\ IsFiniteSet(OpenSockets) /\ IsFiniteSet(AfterNsmInit)
  /\ Cardinality(Requests) \in Nat /\ Cardinality(OpenSockets) \in Nat
  /\ Cardinality(AfterNsmInit) \in Nat
  /\ Cardinality(AfterNsmInit) <= Cardinality(Requests)
  /\ IsFiniteSet(OpenSockets') /\ IsFiniteSet(AfterNsmInit')
  /\ Cardinality(OpenSockets') \in Nat /\ Cardinality(AfterNsmInit') \in Nat
  /\ Cardinality(AfterNsmInit') <= Cardinality(Requests)
<1>1. IsFiniteSet({"vsock", "bridge", "axum"})
  <2>1. IsFiniteSet({"vsock"})
    BY FS_Singleton
  <2>2. IsFiniteSet({"vsock"} \cup {"bridge"})
    BY <2>1, FS_AddElement
  <2>3. IsFiniteSet(({"vsock"} \cup {"bridge"}) \cup {"axum"})
    BY <2>2, FS_AddElement
  <2>4. {"vsock", "bridge", "axum"} = ({"vsock"} \cup {"bridge"}) \cup {"axum"}
    OBVIOUS
  <2> QED BY <2>3, <2>4
<1>2. IsFiniteSet(Requests)
  BY ServerConstants
<1>3. IsFiniteSet(Requests \X {"vsock", "bridge", "axum"})
  BY <1>1, <1>2, FS_Product
<1>4. /\ OpenSockets \subseteq Requests \X {"vsock", "bridge", "axum"}
      /\ OpenSockets' \subseteq Requests \X {"vsock", "bridge", "axum"}
      /\ AfterNsmInit \subseteq Requests /\ AfterNsmInit' \subseteq Requests
  BY DEF OpenSockets, AfterNsmInit
<1> QED BY <1>2, <1>3, <1>4, FS_Subset, FS_CardinalityType

(* Connections that only close sockets free descriptors.                   *)
LEMMA SocketsClosed ==
  ASSUME \A q \in Requests : Sockets(pc'[q]) \subseteq Sockets(pc[q])
  PROVE  Cardinality(OpenSockets') <= Cardinality(OpenSockets)
<1>1. OpenSockets' \subseteq OpenSockets
  BY DEF OpenSockets
<1> QED BY <1>1, FiniteParts, FS_Subset

(* A connection that opens a socket adds one descriptor.                   *)
LEMMA SocketOpened ==
  ASSUME NEW r \in Requests, \A q \in Requests \ {r} : pc'[q] = pc[q],
         NEW kind, Sockets(pc'[r]) \subseteq Sockets(pc[r]) \cup {kind}
  PROVE  Cardinality(OpenSockets') <= Cardinality(OpenSockets) + 1
<1> DEFINE One == OpenSockets \cup {<<r, kind>>}
<1>1. IsFiniteSet(One) /\ Cardinality(One) <= Cardinality(OpenSockets) + 1
      /\ Cardinality(One) \in Nat
  <2>1. IsFiniteSet(One)
        /\ Cardinality(One) = IF <<r, kind>> \in OpenSockets THEN Cardinality(OpenSockets)
                              ELSE Cardinality(OpenSockets) + 1
    BY FiniteParts, FS_AddElement
  <2> QED BY <2>1, FiniteParts
<1>2. OpenSockets' \subseteq One
  BY DEF OpenSockets
<1> HIDE DEF One
<1>3. Cardinality(OpenSockets') <= Cardinality(One) /\ Cardinality(OpenSockets') \in Nat
  BY <1>1, <1>2, FS_Subset, FS_CardinalityType
<1> QED BY <1>1, <1>3, FiniteParts

(* A request past nsm_init stays there.                                    *)
LEMMA PastNsmInit ==
  ASSUME \A q \in AfterNsmInit : pc'[q] \in {"nsm_request", "answered", "done", "closed"}
  PROVE  Cardinality(AfterNsmInit) <= Cardinality(AfterNsmInit')
<1>1. AfterNsmInit \subseteq AfterNsmInit' /\ AfterNsmInit' \subseteq Requests
  BY DEF AfterNsmInit
<1>2. IsFiniteSet(AfterNsmInit')
  BY <1>1, FiniteParts, FS_Subset
<1> QED BY <1>1, <1>2, FS_Subset

(* A step that opens no descriptor.                                        *)
LEMMA StepWithoutDescriptor ==
  ASSUME FdInv, UNCHANGED nsmFds,
         \A q \in Requests : Sockets(pc'[q]) \subseteq Sockets(pc[q]),
         \A q \in AfterNsmInit : pc'[q] \in {"nsm_request", "answered", "done", "closed"}
  PROVE  OpenFds' <= FdLimit /\ nsmFds' <= Cardinality(AfterNsmInit')
         /\ nsmFds' \in 0..Cardinality(Requests)
<1>1. /\ nsmFds \in Nat /\ nsmFds <= Cardinality(AfterNsmInit) /\ FdLimit \in Nat
      /\ nsmFds + Cardinality(OpenSockets) <= FdLimit
  BY ServerConstants, FiniteParts DEF FdInv, TypeOK, OpenFds
<1>2. Cardinality(OpenSockets') <= Cardinality(OpenSockets)
  BY SocketsClosed
<1>3. Cardinality(AfterNsmInit) <= Cardinality(AfterNsmInit')
  BY PastNsmInit
<1>4. OpenFds' = nsmFds' + Cardinality(OpenSockets')
  BY DEF OpenFds
<1>5. nsmFds \in 0..Cardinality(Requests)
  BY DEF FdInv, TypeOK
<1> QED BY <1>1, <1>2, <1>3, <1>4, <1>5, FiniteParts

Descriptors ==
  /\ nsmFds \in 0..Cardinality(Requests)
  /\ OpenFds <= FdLimit
  /\ nsmFds <= Cardinality(AfterNsmInit)

(* One request moves on: it is answered now, or has an answer as before.   *)
LEMMA StepKeepsTypes ==
  ASSUME FdInv, NEW r \in Requests, NEW stage \in Stages, UNCHANGED <<main, bridge, body>>,
         Goto(r, stage), Descriptors',
         \/ UNCHANGED response /\ (pc[r] \in Answered <=> stage \in Answered)
         \/ \E a : response' = [response EXCEPT ![r] = {a}] /\ stage = "answered",
         DOMAIN response = Requests
  PROVE  FdInv'
<1>1. pc' \in [Requests -> Stages] /\ pc'[r] = stage /\ \A q \in Requests \ {r} : pc'[q] = pc[q]
  BY DEF FdInv, TypeOK, Goto
<1>2. \A q \in Requests : response'[q] # {} <=> pc'[q] \in Answered
  BY <1>1 DEF FdInv, TypeOK, Answered
<1> QED BY <1>1, <1>2 DEF FdInv, TypeOK, Descriptors

(* A step of one request that opens no descriptor.                         *)
LEMMA QuietStep ==
  ASSUME FdInv, NEW r \in Requests, NEW stage \in Stages, UNCHANGED nsmFds, Goto(r, stage),
         Sockets(stage) \subseteq Sockets(pc[r]),
         pc[r] \in {"nsm_request", "answered", "done", "closed"}
           => stage \in {"nsm_request", "answered", "done", "closed"}
  PROVE  Descriptors'
<1>1. pc'[r] = stage /\ \A q \in Requests \ {r} : pc'[q] = pc[q]
  BY DEF FdInv, TypeOK, Goto
<1> QED BY <1>1, StepWithoutDescriptor DEF Descriptors, AfterNsmInit

(* A step of a connection that opens a socket, with a descriptor to spare. *)
LEMMA SocketStep ==
  ASSUME FdInv, NEW r \in Requests, NEW stage \in Stages, NEW kind,
         UNCHANGED nsmFds, Goto(r, stage), CanOpen(1),
         Sockets(stage) \subseteq Sockets(pc[r]) \cup {kind},
         r \notin AfterNsmInit
  PROVE  Descriptors'
<1>1. /\ pc'[r] = stage /\ \A q \in Requests \ {r} : pc'[q] = pc[q]
      /\ OpenFds + 1 <= FdLimit
  BY DEF Goto, FdInv, TypeOK, CanOpen
<1>2. Cardinality(OpenSockets') <= Cardinality(OpenSockets) + 1
  BY <1>1, SocketOpened
<1>3. Cardinality(AfterNsmInit) <= Cardinality(AfterNsmInit')
  BY <1>1, PastNsmInit DEF AfterNsmInit
<1> QED BY <1>1, <1>2, <1>3, FiniteParts, ServerConstants
        DEF FdInv, TypeOK, OpenFds, Descriptors

(* A step that opens a socket, or the NSM device.                          *)
LEMMA AcceptDescriptors ==
  ASSUME FdInv, NEW r \in Requests, Accept(r) PROVE Descriptors'
<1>1. pc[r] = "backlog" /\ Goto(r, "accepted") /\ CanOpen(1) /\ UNCHANGED nsmFds
  BY DEF Accept, requestVars
<1>2. Sockets("accepted") \subseteq Sockets(pc[r]) \cup {"vsock"} /\ r \notin AfterNsmInit
  BY <1>1 DEF Sockets, AfterNsmInit
<1> QED BY <1>1, <1>2, SocketStep DEF Stages

LEMMA ConnectDescriptors ==
  ASSUME FdInv, NEW r \in Requests, Connect(r) PROVE Descriptors'
<1>0. pc[r] = "accepted" /\ UNCHANGED nsmFds
  BY DEF Connect, requestVars
<1>1. CASE Goto(r, "connected") /\ CanOpen(1)
  <2>1. Sockets("connected") \subseteq Sockets(pc[r]) \cup {"bridge"} /\ r \notin AfterNsmInit
    BY <1>0 DEF Sockets, AfterNsmInit
  <2> QED BY <1>0, <1>1, <2>1, SocketStep DEF Stages
<1>2. CASE Goto(r, "closed")
  BY <1>0, <1>2, QuietStep DEF Stages, Sockets
<1> QED BY <1>1, <1>2 DEF Connect

LEMMA TcpAcceptDescriptors ==
  ASSUME FdInv, NEW r \in Requests, TcpAccept(r) PROVE Descriptors'
<1>1. pc[r] = "connected" /\ Goto(r, "handler") /\ CanOpen(1) /\ UNCHANGED nsmFds
  BY DEF TcpAccept, requestVars
<1>2. Sockets("handler") \subseteq Sockets(pc[r]) \cup {"axum"} /\ r \notin AfterNsmInit
  BY <1>1 DEF Sockets, AfterNsmInit
<1> QED BY <1>1, <1>2, SocketStep DEF Stages

LEMMA NsmInitDescriptors ==
  ASSUME FdInv, NEW r \in Requests, nsm_init(r) PROVE Descriptors'
<1>0. pc[r] = "nsm_init"
  BY DEF nsm_init
<1>1. CASE CanOpen(1) /\ nsmFds' = nsmFds + 1 /\ Goto(r, "nsm_request")
  <2>1. /\ pc'[r] = "nsm_request" /\ \A q \in Requests \ {r} : pc'[q] = pc[q]
        /\ OpenFds + 1 <= FdLimit
    BY <1>1 DEF Goto, FdInv, TypeOK, CanOpen
  <2>2. Cardinality(OpenSockets') <= Cardinality(OpenSockets)
    <3>1. \A q \in Requests : Sockets(pc'[q]) \subseteq Sockets(pc[q])
      BY <1>0, <2>1 DEF Sockets
    <3> QED BY <3>1, SocketsClosed
  <2>3. Cardinality(AfterNsmInit') = Cardinality(AfterNsmInit) + 1
    <3>1. AfterNsmInit' = AfterNsmInit \cup {r} /\ r \notin AfterNsmInit
      BY <1>0, <2>1 DEF AfterNsmInit
    <3> QED BY <3>1, FiniteParts, FS_AddElement
  <2> QED BY <1>1, <2>1, <2>2, <2>3, FiniteParts, ServerConstants
          DEF FdInv, TypeOK, OpenFds, Descriptors
<1>2. CASE UNCHANGED nsmFds /\ Goto(r, "answered")
  BY <1>0, <1>2, QuietStep DEF Stages, Sockets
<1> QED BY <1>1, <1>2 DEF nsm_init, Answer

LEMMA BootKeepsFdInv ==
  ASSUME FdInv, Boot PROVE FdInv'
<1>1. /\ UNCHANGED <<body, response, nsmFds>>
      /\ main' \in {"loopback", "bind", "serving", "exited"}
      /\ bridge' \in {"unborn", "spawned", "listening", "failed"}
  BY DEF Boot, setup_loopback, BridgeBind, Serve, Exit, requestVars, FdInv, TypeOK
<1>2. /\ pc' \in [Requests -> Stages]
      /\ \A r \in Requests :
           \/ pc'[r] = pc[r]
           \/ pc'[r] = "closed" /\ pc[r] \notin Answered
           \/ pc'[r] = "done" /\ pc[r] \in Answered
  <2>1. /\ pc \in [Requests -> Stages]
        /\ UNCHANGED pc \/ Exit
    BY DEF Boot, setup_loopback, BridgeBind, Serve, FdInv, TypeOK
  <2>2. CASE Exit
    <3>1. pc' = [r \in Requests |-> CASE pc[r] = "idle" -> "idle"
                                     [] pc[r] \in Answered -> "done"
                                     [] OTHER -> "closed"]
      BY <2>2 DEF Exit
    <3>2. ASSUME NEW r \in Requests
          PROVE  /\ pc'[r] \in Stages
                 /\ \/ pc'[r] = pc[r]
                    \/ pc'[r] = "closed" /\ pc[r] \notin Answered
                    \/ pc'[r] = "done" /\ pc[r] \in Answered
      <4>1. CASE pc[r] = "idle"
        BY <3>1, <4>1 DEF Stages
      <4>2. CASE pc[r] \in Answered
        BY <3>1, <4>2 DEF Stages, Answered
      <4>3. CASE pc[r] # "idle" /\ pc[r] \notin Answered
        <5>1. pc'[r] = "closed"
          BY <3>1, <4>3
        <5> QED BY <4>3, <5>1 DEF Stages
      <4> QED BY <4>1, <4>2, <4>3
    <3>3. DOMAIN pc' = Requests /\ pc' = [r \in Requests |-> pc'[r]]
      BY <3>1
    <3> QED BY <3>2, <3>3
  <2> QED BY <2>1, <2>2
<1>3. Descriptors'
  <2>1. \A q \in Requests : Sockets(pc'[q]) \subseteq Sockets(pc[q])
    BY <1>2 DEF Sockets
  <2>2. \A q \in AfterNsmInit : pc'[q] \in {"nsm_request", "answered", "done", "closed"}
    BY <1>2 DEF AfterNsmInit
  <2> QED BY <1>1, <2>1, <2>2, StepWithoutDescriptor DEF Descriptors
<1>4. \A r \in Requests : response'[r] # {} <=> pc'[r] \in Answered
  BY <1>1, <1>2 DEF FdInv, TypeOK, Answered
<1> QED BY <1>1, <1>2, <1>3, <1>4 DEF FdInv, TypeOK, Descriptors

LEMMA NextKeepsFdInv ==
  ASSUME IInv, FdInv, [Next]_vars PROVE FdInv'
<1>0. DOMAIN response = Requests
  BY DEF IInv
<1>1. ASSUME NEW r \in Requests, Dial(r) PROVE FdInv'
  <2>1. /\ UNCHANGED <<main, bridge, body, response, nsmFds>> /\ pc[r] = "idle"
        /\ Goto(r, "backlog") \/ Goto(r, "closed")
    BY <1>1 DEF Dial, requestVars
  <2>2. Descriptors'
    BY <2>1, QuietStep DEF Stages, Sockets
  <2> QED BY <1>0, <2>1, <2>2, StepKeepsTypes DEF Stages, Answered
<1>2. ASSUME NEW r \in Requests, Accept(r) PROVE FdInv'
  BY <1>0, <1>2, AcceptDescriptors, StepKeepsTypes
      DEF Accept, requestVars, Stages, Answered
<1>3. ASSUME NEW r \in Requests, Connect(r) PROVE FdInv'
  <2>1. /\ UNCHANGED <<main, bridge, body, response>> /\ pc[r] = "accepted"
        /\ Goto(r, "connected") \/ Goto(r, "closed")
    BY <1>3 DEF Connect, requestVars
  <2> QED BY <1>0, <1>3, <2>1, ConnectDescriptors, StepKeepsTypes DEF Stages, Answered
<1>4. ASSUME NEW r \in Requests, Handle(r) PROVE FdInv'
  <2>1. /\ UNCHANGED <<main, bridge, body, nsmFds>> /\ pc[r] = "handler"
        /\ \/ Goto(r, "nsm_init") /\ UNCHANGED response
           \/ \E a : Goto(r, "answered") /\ response' = [response EXCEPT ![r] = {a}]
    BY <1>4 DEF Handle, Answer
  <2>2. Descriptors'
    BY <2>1, QuietStep DEF Stages, Sockets
  <2> QED BY <1>0, <2>1, <2>2, StepKeepsTypes DEF Stages, Answered
<1>5. ASSUME NEW r \in Requests, nsm_init(r) PROVE FdInv'
  <2>1. /\ UNCHANGED <<main, bridge, body>> /\ pc[r] = "nsm_init"
        /\ \/ Goto(r, "nsm_request") /\ UNCHANGED response
           \/ \E a : Goto(r, "answered") /\ response' = [response EXCEPT ![r] = {a}]
    BY <1>5 DEF nsm_init, Answer
  <2> QED BY <1>0, <1>5, <2>1, NsmInitDescriptors, StepKeepsTypes DEF Stages, Answered
<1>6. ASSUME NEW r \in Requests, nsm_process_request(r) PROVE FdInv'
  <2>1. /\ UNCHANGED <<main, bridge, body, nsmFds>> /\ pc[r] = "nsm_request"
        /\ \E a : Goto(r, "answered") /\ response' = [response EXCEPT ![r] = {a}]
    BY <1>6 DEF nsm_process_request, Answer
  <2>2. Descriptors'
    BY <2>1, QuietStep DEF Stages, Sockets
  <2> QED BY <1>0, <2>1, <2>2, StepKeepsTypes DEF Stages, Answered
<1>7. CASE UNCHANGED vars
  BY <1>7 DEF FdInv, TypeOK, OpenFds, OpenSockets, AfterNsmInit, vars
<1>8. ASSUME NEW r \in Requests, TcpAccept(r) PROVE FdInv'
  <2>1. /\ UNCHANGED <<main, bridge, body, response>> /\ pc[r] = "connected"
        /\ Goto(r, "handler")
    BY <1>8 DEF TcpAccept, requestVars
  <2> QED BY <1>0, <1>8, <2>1, TcpAcceptDescriptors, StepKeepsTypes DEF Stages, Answered
<1>9. ASSUME NEW r \in Requests, Hangup(r) PROVE FdInv'
  <2>1. /\ UNCHANGED <<main, bridge, body, response, nsmFds>> /\ pc[r] = "answered"
        /\ Goto(r, "done")
    BY <1>9 DEF Hangup, requestVars
  <2>2. Descriptors'
    BY <2>1, QuietStep DEF Stages, Sockets
  <2> QED BY <1>0, <2>1, <2>2, StepKeepsTypes DEF Stages, Answered
<1> QED BY <1>1, <1>2, <1>3, <1>4, <1>5, <1>6, <1>7, <1>8, <1>9, BootKeepsFdInv
        DEF Next, Progress

LEMMA InitFdInv == Init => FdInv
<1> SUFFICES ASSUME Init PROVE FdInv
  OBVIOUS
<1>1. OpenSockets = {}
  BY DEF Init, OpenSockets, Sockets
<1>2. OpenFds <= FdLimit
  BY <1>1, FS_EmptySet, ServerConstants DEF OpenFds, Init
<1> QED BY <1>2, FiniteParts DEF Init, FdInv, TypeOK, Stages, Answered

LEMMA InvariantsHold == Spec => [](IInv /\ FdInv)
<1>1. Init => IInv
  BY DEF Init, IInv, VerdictGiven, Bound, Stages
<1> QED BY <1>1, InitFdInv, NextKeeps, NextKeepsFdInv, PTL DEF Spec

(* The types, and the limit of the process: sockets and the descriptors    *)
(* that nsm_init leaks stay within RLIMIT_NOFILE, and a request leaks one  *)
(* at most.                                                                *)
THEOREM TypeCorrect == Spec => []TypeOK
<1>1. FdInv => TypeOK
  BY DEF FdInv
<1> QED BY <1>1, InvariantsHold, PTL

----------------------------------------------------------------------------
(* The refinement of Attestation.  Every document was the answer to a      *)
(* request, and a request is answered once.                                *)
AnsweredOnes == {r \in Requests : pc[r] \in Answered}
DocsCounted == IsFiniteSet(signed) /\ Cardinality(signed) <= Cardinality(AnsweredOnes)

(* The document that the refinement takes for the user_data u.             *)
Doc(u) == [pcrs |-> Image, user_data |-> {u}, public_key |-> {"enclave_pk"}, timestamp |-> 0]
Docs == {Doc(u) : u \in signed}

LEMMA AnsweredFinite ==
  /\ IsFiniteSet(AnsweredOnes) /\ Cardinality(AnsweredOnes) \in Nat
  /\ IsFiniteSet(AnsweredOnes') /\ Cardinality(AnsweredOnes') \in Nat
<1>1. AnsweredOnes \subseteq Requests /\ AnsweredOnes' \subseteq Requests
  BY DEF AnsweredOnes
<1> QED BY <1>1, ServerConstants, FS_Subset, FS_CardinalityType

LEMMA NextKeepsDocsCounted ==
  ASSUME FdInv, DocsCounted, [Next]_vars PROVE DocsCounted'
<1>1. ASSUME UNCHANGED signed, \A r \in AnsweredOnes : pc'[r] \in Answered PROVE DocsCounted'
  <2>1. AnsweredOnes \subseteq AnsweredOnes'
    BY <1>1 DEF AnsweredOnes
  <2>2. Cardinality(AnsweredOnes) <= Cardinality(AnsweredOnes')
    BY <2>1, AnsweredFinite, FS_Subset
  <2> QED BY <1>1, <2>2, AnsweredFinite, FS_CardinalityType DEF DocsCounted
<1>2. ASSUME NEW r \in Requests, pc[r] \notin Answered, NEW stage \in Stages, Goto(r, stage)
      PROVE  \A q \in AnsweredOnes : pc'[q] \in Answered
  BY <1>2 DEF FdInv, TypeOK, Goto, AnsweredOnes
<1>3. ASSUME NEW r \in Requests, nsm_process_request(r) PROVE DocsCounted'
  <2>1. pc[r] = "nsm_request" /\ Goto(r, "answered") /\ r \notin AnsweredOnes
    BY <1>3 DEF nsm_process_request, Answer, AnsweredOnes, Answered
  <2>2. CASE signed' = signed \cup {UserData(body[r])}
    <3>1. AnsweredOnes' = AnsweredOnes \cup {r}
      BY <2>1 DEF FdInv, TypeOK, Goto, AnsweredOnes, Answered
    <3>2. Cardinality(AnsweredOnes') = Cardinality(AnsweredOnes) + 1
      BY <2>1, <3>1, AnsweredFinite, FS_AddElement
    <3> DEFINE u == UserData(body[r])
    <3> HIDE DEF u
    <3>3. /\ IsFiniteSet(signed \cup {u})
          /\ Cardinality(signed \cup {u}) = IF u \in signed THEN Cardinality(signed)
                                           ELSE Cardinality(signed) + 1
      BY FS_AddElement DEF DocsCounted
    <3>4. signed' = signed \cup {u}
      BY <2>2 DEF u
    <3> QED BY <3>2, <3>3, <3>4, AnsweredFinite, FS_CardinalityType DEF DocsCounted
  <2>3. CASE UNCHANGED signed
    BY <1>1, <1>2, <2>1, <2>3 DEF Stages, Answered
  <2> QED BY <1>3, <2>2, <2>3 DEF nsm_process_request
<1>4. ASSUME NEW r \in Requests, Dial(r) \/ Accept(r) \/ Connect(r) \/ TcpAccept(r) \/ Handle(r)
                                \/ nsm_init(r)
      PROVE  DocsCounted'
  <2>1. UNCHANGED signed /\ pc[r] \notin Answered /\ \E stage \in Stages : Goto(r, stage)
    BY <1>4 DEF Dial, Accept, Connect, TcpAccept, Handle, nsm_init, Answer, requestVars, Stages,
                Answered
  <2> QED BY <1>1, <1>2, <2>1
<1>5. CASE Boot
  <2>1. UNCHANGED signed /\ \A r \in AnsweredOnes : pc'[r] \in Answered
    BY <1>5 DEF Boot, setup_loopback, BridgeBind, Serve, Exit, requestVars, AnsweredOnes,
              Answered
  <2> QED BY <1>1, <2>1
<1>6. CASE UNCHANGED vars
  BY <1>1, <1>6 DEF vars, AnsweredOnes
<1>7. ASSUME NEW r \in Requests, Hangup(r) PROVE DocsCounted'
  <2>1. UNCHANGED signed /\ Goto(r, "done")
    BY <1>7 DEF Hangup, requestVars
  <2>2. \A q \in AnsweredOnes : pc'[q] \in Answered
    BY <2>1 DEF FdInv, TypeOK, Goto, AnsweredOnes, Answered
  <2> QED BY <1>1, <2>1, <2>2
<1> QED BY <1>3, <1>4, <1>5, <1>6, <1>7 DEF Next, Progress

(* There is room for one more document while a request has no answer.      *)
LEMMA RoomForDocument ==
  ASSUME DocsCounted, NEW r \in Requests, pc[r] = "nsm_request"
  PROVE  Cardinality(Docs) < Cardinality(Requests)
<1>1. Cardinality(AnsweredOnes) < Cardinality(Requests)
  <2>1. AnsweredOnes \subseteq Requests /\ AnsweredOnes # Requests
    BY DEF AnsweredOnes, Answered
  <2> QED BY <2>1, ServerConstants, AnsweredFinite, FS_Subset, FS_CardinalityType
<1>2. Cardinality(Docs) <= Cardinality(signed) /\ IsFiniteSet(Docs)
  <2> DEFINE f == [u \in signed |-> Doc(u)]
  <2>1. f \in Surjection(signed, Docs)
    BY DEF Surjection, Docs
  <2> QED BY <2>1, FS_Surjection DEF DocsCounted
<1> QED BY <1>1, <1>2, ServerConstants, AnsweredFinite, FS_CardinalityType DEF DocsCounted

LEMMA SameCardinality == \A S : A!Cardinality(S) = Cardinality(S)
BY DEF A!Cardinality, Cardinality

(* The document of an accepted request, or an unbound one, is obtained.    *)
LEMMA DocumentStep ==
  ASSUME IInv, DocsCounted, body \in [Requests -> Bodies], NEW r \in Requests,
         nsm_process_request(r), signed' = signed \cup {UserData(body[r])},
         verified' = verified \cup {[endpoint |-> body[r].endpoint, fields |-> body[r].fields] :
                                      e \in {body[r].endpoint} \cap AttestEndpoints}
  PROVE  A!Next
<1> DEFINE b == body[r]
<1>1. /\ pc[r] = "nsm_request" /\ b \in Bodies
      /\ \/ b.endpoint = "attestation_doc"
         \/ b.endpoint \in AttestEndpoints /\ b.decodes /\ b.accepted
  BY DEF nsm_process_request, IInv, VerdictGiven
<1>2. Cardinality(Docs) < Cardinality(Requests)
  BY <1>1, RoomForDocument
<1>3. Docs' = Docs \cup {Doc(UserData(b))}
  BY DEF Docs, Doc
<1>4. 0 \in A!NsmTimes
  BY DEF A!NsmTimes
<1>5. CASE b.endpoint = "attestation_doc"
  <2>1. verified' = verified /\ UserData(b) = <<>>
    BY <1>5 DEF AttestEndpoints, UserData
  <2>2. A!attestation_doc(Image, 0)
    BY <1>2, <1>3, <2>1, SameCardinality DEF A!attestation_doc, A!NsmDocument, Docs, Doc
  <2> QED BY <1>4, <2>2 DEF A!Next, A!AttestNext
<1>6. CASE b.endpoint \in AttestEndpoints /\ b.decodes /\ b.accepted
  <2> DEFINE e == [endpoint |-> b.endpoint, fields |-> b.fields]
  <2>1. UserData(b) = A!Sha256(e.fields)
    BY <1>6 DEF UserData, AttestEndpoints, Sha256, A!Sha256
  <2>2. verified' = verified \cup {e}
    BY <1>6
  <2>3. e.endpoint = b.endpoint /\ e.fields = b.fields
    OBVIOUS
  <2>4. A!attest(Image, e, 0)
    BY <1>2, <1>3, <2>1, <2>2, <2>3, SameCardinality
    DEF A!attest, A!NsmDocument, A!Measurement, A!PcrIndex, Docs, Doc
  <2> QED BY <1>1, <1>4, <1>6, <2>4 DEF A!Next, A!AttestNext
<1> QED BY <1>1, <1>5, <1>6

(* Every other step leaves what the chain sees of the server alone.        *)
LEMMA StepRefines ==
  ASSUME IInv, FdInv, DocsCounted, [Next]_vars PROVE [A!Next]_(A!vars)
<1>1. CASE UNCHANGED <<signed, verified>>
  BY <1>1 DEF A!vars
<1>2. ASSUME NEW r \in Requests, nsm_process_request(r),
             signed' = signed \cup {UserData(body[r])},
             verified' = verified \cup
               {[endpoint |-> body[r].endpoint, fields |-> body[r].fields] :
                  e \in {body[r].endpoint} \cap AttestEndpoints}
      PROVE  A!Next
  BY <1>2, DocumentStep DEF FdInv, TypeOK
<1> QED BY <1>1, <1>2
        DEF Next, Boot, setup_loopback, BridgeBind, Serve, Exit, Dial, Hangup, Progress, Accept, Connect, TcpAccept,
            Handle, nsm_init, nsm_process_request, requestVars, vars

(* The server is an environment of the chain as Attestation takes it:      *)
(* whatever the interleaving of handlers and failures, it obtains only     *)
(* documents for what its verifiers accepted, and unbound ones.            *)
THEOREM ServerRefinesAttestation == Spec => ImplementsAttestation
<1>1. Init => A!Init /\ DocsCounted
  <2> SUFFICES ASSUME Init PROVE A!Init /\ DocsCounted
    OBVIOUS
  <2>1. DocsCounted
    BY FS_EmptySet, AnsweredFinite DEF Init, DocsCounted
  <2>2. A!Init
    BY DEF Init, A!Init, A!EmptyPolicy, A!PcrIndex
  <2> QED BY <2>1, <2>2
<1>2. IInv /\ FdInv /\ DocsCounted /\ [Next]_vars => DocsCounted' /\ [A!Next]_(A!vars)
  BY NextKeepsDocsCounted, StepRefines
<1> QED BY <1>1, <1>2, InvariantsHold, PTL DEF Spec, ImplementsAttestation, A!Spec
=============================================================================
