--------------------------- MODULE EnclaveServer ---------------------------
(***************************************************************************)
(* enclave-server: boot, the VSOCK to TCP bridge, and the handlers.        *)
(*                                                                         *)
(* A client reaches the server through the host's proxy, which dials the   *)
(* enclave over VSOCK; a task of the bridge accepts the connection and     *)
(* opens a TCP connection to axum on the loopback interface.  Connections  *)
(* are kept alive: the sockets stay open after the answer until the client *)
(* closes.  Handlers run in parallel on the threads of the runtime.  They  *)
(* share nothing but the process: its file descriptors and the NSM device. *)
(* A handler body has no await; its steps are its system calls.  A request *)
(* has a connection of its own here.                                       *)
(***************************************************************************)
EXTENDS Integers, FiniteSets, Sequences

CONSTANTS
  Requests,      \* client requests
  Bodies,        \* what a request carries: [endpoint, decodes, accepted, fields]
  FdLimit,       \* RLIMIT_NOFILE, less the descriptors of the idle server
  NsmMayFail,    \* whether the NSM device may answer with an error
  Image          \* the measurement of the running image

VARIABLES
  main,      \* "loopback" -> "bind" -> "serving", or "exited"
  bridge,    \* "unborn" -> "spawned" -> "listening", or "failed"
  pc,        \* request -> where it is
  body,      \* request -> what it carries, chosen when it is sent
  response,  \* request -> [status, error, document], at most one
  nsmFds,    \* NSM descriptors open: nsm_init opens one, nothing closes it
  signed,    \* history: user_data of the documents obtained
  verified   \* history: [endpoint, fields] bound into a document

vars == <<main, bridge, pc, body, response, nsmFds, signed, verified>>

AttestEndpoints == {"attest_apple_attestation", "attest_apple_assertion",
                    "attest_android_attestation"}
Endpoints == AttestEndpoints \cup {"health", "attestation_doc"}

(* Where a request is: not sent; in the VSOCK backlog; accepted by the     *)
(* bridge; in the backlog of axum's listener; at its handler; in           *)
(* request_nsm_attestation before and after nsm_init; answered, on an open *)
(* connection; answered and hung up; or closed without an answer.          *)
Stages == {"idle", "backlog", "accepted", "connected", "handler", "nsm_init", "nsm_request",
           "answered", "done", "closed"}
Answered == {"answered", "done"}

ASSUME ServerConstants ==
  /\ \A b \in Bodies : /\ b.endpoint \in Endpoints
                       /\ {b.decodes, b.accepted} \subseteq BOOLEAN
  /\ IsFiniteSet(Requests)
  /\ FdLimit \in Nat
  /\ NsmMayFail \in BOOLEAN

(* Descriptors a connection holds: the bridge's VSOCK stream, then its end *)
(* of the loopback connection, then also axum's, once that is accepted.    *)
Sockets(stage) ==
  CASE stage \in {"idle", "backlog", "done", "closed"} -> {}
    [] stage = "accepted" -> {"vsock"}
    [] stage = "connected" -> {"vsock", "bridge"}
    [] stage \in {"handler", "nsm_init", "nsm_request", "answered"} ->
         {"vsock", "bridge", "axum"}

OpenSockets == {s \in Requests \X {"vsock", "bridge", "axum"} : s[2] \in Sockets(pc[s[1]])}

OpenFds == nsmFds + Cardinality(OpenSockets)

CanOpen(n) == OpenFds + n <= FdLimit

Goto(r, stage) == pc' = [pc EXCEPT ![r] = stage]

----------------------------------------------------------------------------
Init ==
  /\ main = "loopback"
  /\ bridge = "unborn"
  /\ pc = [r \in Requests |-> "idle"]
  /\ body \in [Requests -> Bodies]
  /\ response = [r \in Requests |-> {}]
  /\ nsmFds = 0
  /\ signed = {}
  /\ verified = {}

requestVars == <<body, response, nsmFds, signed, verified>>

(* A process that exits takes its tasks and connections with it.           *)
Exit ==
  /\ main' = "exited"
  /\ bridge' = "failed"
  /\ pc' = [r \in Requests |-> CASE pc[r] = "idle" -> "idle"
                                 [] pc[r] \in Answered -> "done"
                                 [] OTHER -> "closed"]
  /\ UNCHANGED requestVars

(* setup_loopback panics on any failure; then the bridge is spawned.       *)
setup_loopback ==
  /\ main = "loopback"
  /\ \/ /\ main' = "bind"
        /\ bridge' = "spawned"
        /\ UNCHANGED <<pc, requestVars>>
     \/ Exit

(* vsock_to_tcp_bridge: a failed bind is logged and ends the task only.    *)
BridgeBind ==
  /\ bridge = "spawned"
  /\ bridge' \in {"listening", "failed"}
  /\ UNCHANGED <<main, pc, requestVars>>

(* TcpListener::bind and axum::serve; an error ends the process.           *)
Serve ==
  /\ main = "bind"
  /\ \/ main' = "serving" /\ UNCHANGED <<bridge, pc, requestVars>>
     \/ Exit

(* The proxy dials VSOCK for a client: queued if the bridge listens,       *)
(* otherwise the dial fails and the client's connection is closed.         *)
Dial(r) ==
  /\ pc[r] = "idle"
  /\ Goto(r, IF bridge = "listening" THEN "backlog" ELSE "closed")
  /\ UNCHANGED <<main, bridge, requestVars>>

(* incoming.accept(); without a free descriptor it errs and tries again.   *)
Accept(r) ==
  /\ bridge = "listening"
  /\ pc[r] = "backlog"
  /\ CanOpen(1)
  /\ Goto(r, "accepted")
  /\ UNCHANGED <<main, bridge, requestVars>>

(* TcpStream::connect to axum's listener: refused before `Serve`, an error *)
(* without a descriptor; either way the VSOCK stream is dropped.  The      *)
(* kernel completes the connection before axum accepts it.                 *)
Connect(r) ==
  /\ pc[r] = "accepted"
  /\ Goto(r, IF main = "serving" /\ CanOpen(1) THEN "connected" ELSE "closed")
  /\ UNCHANGED <<main, bridge, requestVars>>

(* axum::serve accepts the connection; without a free descriptor it sleeps *)
(* and tries again, and the connection waits with two sockets open.        *)
TcpAccept(r) ==
  /\ main = "serving"
  /\ pc[r] = "connected"
  /\ CanOpen(1)
  /\ Goto(r, "handler")
  /\ UNCHANGED <<main, bridge, requestVars>>

Answer(r, status, error, document) ==
  /\ Goto(r, "answered")
  /\ response' = [response EXCEPT ![r] =
                    {[status |-> status, error |-> error, document |-> document]}]

(* `impl IntoResponse for AttestError`, and the match in attestation_doc.  *)
ErrorStatus(endpoint, error) ==
  IF endpoint = "attestation_doc"
  THEN IF error = "NsmInit" THEN 501 ELSE 500
  ELSE 400

(* Mutant: a rejected verification is logged and the handler goes on.      *)
Handle_IgnoresVerdict(r) ==
  LET b == body[r] IN
  /\ pc[r] = "handler"
  /\ \/ /\ b.endpoint = "health"
        /\ Answer(r, 200, "none", {})
     \/ /\ b.endpoint # "health"
        /\ Goto(r, "nsm_init")
        /\ UNCHANGED response
  /\ UNCHANGED <<main, bridge, body, nsmFds, signed, verified>>

(* The part of a handler before request_nsm_attestation.  The attest       *)
(* handlers decode every field and run the verifier; the first error is    *)
(* the answer.  "BadInput" stands for InvalidHex, for a status list that   *)
(* does not parse and for an unknown min_security_level.                   *)
Handle(r) ==
  LET b == body[r] IN
  /\ pc[r] = "handler"
  /\ \/ /\ b.endpoint = "health"
        /\ Answer(r, 200, "none", {})
     \/ /\ b.endpoint \in AttestEndpoints /\ ~b.decodes
        /\ Answer(r, ErrorStatus(b.endpoint, "BadInput"), "BadInput", {})
     \/ /\ b.endpoint \in AttestEndpoints /\ b.decodes /\ ~b.accepted
        /\ Answer(r, ErrorStatus(b.endpoint, "VerifyFailed"), "VerifyFailed", {})
     \/ /\ \/ b.endpoint = "attestation_doc"
           \/ b.endpoint \in AttestEndpoints /\ b.decodes /\ b.accepted
        /\ Goto(r, "nsm_init")
        /\ UNCHANGED response
  /\ UNCHANGED <<main, bridge, body, nsmFds, signed, verified>>

(* Mutant: without a descriptor nsm_init is tried again.                   *)
nsm_init_Retries(r) ==
  /\ pc[r] = "nsm_init"
  /\ CanOpen(1)
  /\ nsmFds' = nsmFds + 1
  /\ Goto(r, "nsm_request")
  /\ UNCHANGED <<main, bridge, body, response, signed, verified>>

(* request_nsm_attestation: nsm_init opens /dev/nsm.                       *)
nsm_init(r) ==
  /\ pc[r] = "nsm_init"
  /\ \/ /\ CanOpen(1)
        /\ nsmFds' = nsmFds + 1
        /\ Goto(r, "nsm_request")
        /\ UNCHANGED response
     \/ /\ ~CanOpen(1)
        /\ Answer(r, ErrorStatus(body[r].endpoint, "NsmInit"), "NsmInit", {})
        /\ UNCHANGED nsmFds
  /\ UNCHANGED <<main, bridge, body, signed, verified>>

(* user_data: SHA-256(BCS(payload)), or the empty vector.                  *)
Sha256(fields) == <<"sha256", fields>>
UserData(b) == IF b.endpoint = "attestation_doc" THEN <<>> ELSE Sha256(b.fields)

(* Mutant: an error of the device is answered as a success.                *)
nsm_process_request_Unsigned(r) ==
  LET b == body[r] IN
  /\ pc[r] = "nsm_request"
  /\ \/ /\ signed' = signed \cup {UserData(b)}
        /\ verified' = verified \cup
             {[endpoint |-> b.endpoint, fields |-> b.fields] :
                e \in {b.endpoint} \cap AttestEndpoints}
        /\ Answer(r, 200, "none", {UserData(b)})
     \/ /\ NsmMayFail
        /\ Answer(r, 200, "none", {})
        /\ UNCHANGED <<signed, verified>>
  /\ UNCHANGED <<main, bridge, body, nsmFds>>

(* Mutant: the descriptor is closed on the error path and once more.       *)
nsm_process_request_ClosesTwice(r) ==
  /\ pc[r] = "nsm_request"
  /\ Answer(r, ErrorStatus(body[r].endpoint, "Nsm"), "Nsm", {})
  /\ nsmFds' = nsmFds - 2
  /\ UNCHANGED <<main, bridge, body, signed, verified>>

(* nsm_process_request, and the answer.  The descriptor stays open.        *)
nsm_process_request(r) ==
  LET b == body[r] IN
  /\ pc[r] = "nsm_request"
  /\ \/ /\ signed' = signed \cup {UserData(b)}
        /\ verified' = verified \cup
             {[endpoint |-> b.endpoint, fields |-> b.fields] :
                e \in {b.endpoint} \cap AttestEndpoints}
        /\ Answer(r, 200, "none", {UserData(b)})
     \/ /\ NsmMayFail
        /\ Answer(r, ErrorStatus(b.endpoint, "Nsm"), "Nsm", {})
        /\ UNCHANGED <<signed, verified>>
  /\ UNCHANGED <<main, bridge, body, nsmFds>>

(* The client, or the proxy for it, closes: copy_bidirectional ends, and   *)
(* the sockets of the connection are closed.                               *)
Hangup(r) ==
  /\ pc[r] = "answered"
  /\ Goto(r, "done")
  /\ UNCHANGED <<main, bridge, requestVars>>

Boot == setup_loopback \/ BridgeBind \/ Serve
Progress(r) ==
  \/ Accept(r) \/ Connect(r) \/ TcpAccept(r)
  \/ Handle(r) \/ nsm_init(r) \/ nsm_process_request(r)

Next == Boot \/ \E r \in Requests : Dial(r) \/ Hangup(r) \/ Progress(r)

(* The runtime schedules every task that can run, and boot goes on.        *)
(* Clients need not send anything, nor hang up.                            *)
Fairness == WF_vars(Boot) /\ \A r \in Requests : WF_vars(Progress(r))

Spec == Init /\ [][Next]_vars /\ Fairness

----------------------------------------------------------------------------
(* Properties *)

(* Type invariant, with the limit on descriptors.                          *)
TypeOK ==
  /\ main \in {"loopback", "bind", "serving", "exited"}
  /\ bridge \in {"unborn", "spawned", "listening", "failed"}
  /\ pc \in [Requests -> Stages]
  /\ body \in [Requests -> Bodies]
  /\ nsmFds \in 0..Cardinality(Requests)
  /\ OpenFds <= FdLimit
  /\ \A r \in Requests : response[r] # {} <=> pc[r] \in Answered

(* The server is an environment of the chain as Attestation assumes it:    *)
(* whatever the interleaving of handlers and failures, it obtains only     *)
(* documents for what its verifiers accepted, and unbound ones.            *)
A == INSTANCE Attestation WITH
  Bytes <- UNION {{b.fields[i] : i \in DOMAIN b.fields} : b \in Bodies},
  Images <- {Image}, Pinnable <- {Image}, AnyFields <- {},
  Evidence <- {[endpoint |-> b.endpoint, fields |-> b.fields] :
                 b \in {x \in Bodies : x.endpoint \in AttestEndpoints /\ x.decodes /\ x.accepted}},
  MAX_OUTCOME_AGE_MS <- 0, MAX_CLOCK_SKEW_MS <- 0, U64Max <- 0, Drift <- 0,
  MaxDocs <- Cardinality(Requests), MaxWitnesses <- 0,
  now <- 0, policy <- [i \in 0..2 |-> <<>>], witnesses <- <<>>, minted <- 0, pinned <- {},
  docs <- {[pcrs |-> Image, user_data |-> {u}, public_key |-> {"enclave_pk"},
            timestamp |-> 0] : u \in signed},
  verified <- {[image |-> [i \in 0..2 |-> Image[i]], endpoint |-> v.endpoint, fields |-> v.fields,
                timestamp |-> 0] : v \in verified}

ImplementsAttestation == A!Spec

(* A client's success is its own: the document in the answer to an attest  *)
(* request is bound to the payload the verifier accepted for that request, *)
(* and an answer without a document is never a success.                    *)
SuccessIsBound ==
  \A r \in Requests : \A a \in response[r] :
    body[r].endpoint # "health" =>
      /\ a.status = 200 <=> a.document # {}
      /\ a.document \subseteq signed
      /\ \A u \in a.document :
           \/ body[r].endpoint = "attestation_doc" /\ u = <<>>
           \/ /\ body[r].decodes /\ body[r].accepted
              /\ u = Sha256(body[r].fields)

(* No descriptor is free, and those that are not leaked are held by        *)
(* connections for which the server has nothing left to do: idle ones, and *)
(* ones that wait for axum's accept, which needs a descriptor too.         *)
Exhausted ==
  /\ ~CanOpen(1)
  /\ OpenSockets # {}
  /\ \A r \in Requests : Sockets(pc[r]) # {} => pc[r] \in {"connected", "answered"}

(* Nobody waits for ever but for one reason: a request that reached its    *)
(* handler is answered, even when no descriptor is left for the NSM; and a *)
(* connection in the backlog is answered or closed, however boot ends,     *)
(* unless the descriptors are exhausted for good by connections that stay. *)
(* Descriptors leaked to the NSM are never the only cause: a document is   *)
(* obtained with three sockets open, which the next connection may use.    *)
EveryRequestSettles ==
  \A r \in Requests :
    /\ pc[r] = "handler" ~> pc[r] \in Answered
    /\ <>[]Exhausted \/ (pc[r] = "backlog" ~> pc[r] \in Answered \cup {"closed"})

(* enclave/README.md: every verification response carries its own freshly  *)
(* generated NSM attestation document.  Here, for a request that was       *)
(* verified while no other connection was open.                            *)
VerifiedCarriesDocument ==
  [][\A r \in Requests :
       /\ body[r].endpoint \in AttestEndpoints
       /\ pc[r] = "nsm_init" /\ pc'[r] = "answered"
       => \E q \in Requests \ {r} : Sockets(pc[q]) # {}]_vars
=============================================================================
