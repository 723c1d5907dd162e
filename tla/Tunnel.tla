------------------------------- MODULE Tunnel -------------------------------
(***************************************************************************)
(* One connection from a client to axum, through `handle` of the host's    *)
(* proxy (enclave/proxy/main.go) and a task of vsock_to_tcp_bridge in the  *)
(* enclave: three hops, each a byte stream in both directions.             *)
(*                                                                         *)
(*    client a--1--b proxy a--2--b bridge a--3--b server                   *)
(*                                                                         *)
(* The two goroutines of the proxy and the two directions of               *)
(* copy_bidirectional each read a chunk and write it; all of them run      *)
(* concurrently.  The i-th chunk of either direction is the number i.      *)
(***************************************************************************)
EXTENDS Integers, Sequences, FiniteSets

CONSTANTS
  ReqLen,    \* chunks of the client's request
  RespLen,   \* chunks of the server's response
  Window     \* chunks a hop holds in one direction before a writer waits

ASSUME TunnelConstants == {ReqLen, RespLen, Window} \subseteq Nat \ {0}

VARIABLES
  q,          \* <<hop, dir>> -> chunks written and not yet read
  fin,        \* <<hop, dir>> -> "no", "fin": the writer ended, "rst": a reset
  open,       \* <<hop, end>> -> the socket at this end is open
  held,       \* copier -> the chunk it has read and not yet written, if any
  goroutine,  \* proxy copier -> "none", "copying", "sending", "ended"
  main,       \* handle: "dialing", "waiting", "closing_enc", "closing_client", "returned"
  done,       \* values in the channel `done`
  bridge,     \* "unborn", "connecting", "copying", "ended"
  shut,       \* directions of copy_bidirectional that are done
  sent,       \* dir -> chunks its source has written
  got,        \* dir -> chunks its destination has read
  impatient   \* the client ended its side before it had the whole response

vars == <<q, fin, open, held, goroutine, main, done, bridge, shut, sent, got, impatient>>

Dirs == {"up", "down"}
Hops == 1..3
Channels == Hops \X Dirs
Ends == Hops \X {"a", "b"}
ProxyCopiers == {"proxy_up", "proxy_down"}
BridgeCopiers == {"bridge_up", "bridge_down"}
Copiers == ProxyCopiers \cup BridgeCopiers

DirOf(c) == IF c \in {"proxy_up", "bridge_up"} THEN "up" ELSE "down"
From(c) == <<CASE c = "proxy_up" -> 1 [] c = "bridge_down" -> 3 [] OTHER -> 2, DirOf(c)>>
To(c) == <<CASE c = "proxy_down" -> 1 [] c = "bridge_up" -> 3 [] OTHER -> 2, DirOf(c)>>

WriterEnd(ch) == <<ch[1], IF ch[2] = "up" THEN "a" ELSE "b">>
ReaderEnd(ch) == <<ch[1], IF ch[2] = "up" THEN "b" ELSE "a">>
Out(end) == CHOOSE ch \in Channels : WriterEnd(ch) = end
In(end) == CHOOSE ch \in Channels : ReaderEnd(ch) = end

----------------------------------------------------------------------------
(* Sockets.  Closing an end discards what was not read there; the peer     *)
(* then gets a reset, which may overtake what was sent to it.              *)
CloseAll(ends) ==
  LET closing == {e \in ends : open[e]}
      resets == {Out(e) : e \in {x \in closing : q[In(x)] # <<>>}}
  IN  /\ open' = [e \in Ends |-> open[e] /\ e \notin ends]
      /\ fin' = [ch \in Channels |->
                   IF ch \in resets THEN "rst"
                   ELSE IF WriterEnd(ch) \in closing /\ fin[ch] = "no" THEN "fin" ELSE fin[ch]]
      /\ \E lost \in SUBSET resets :
           q' = [ch \in Channels |->
                   IF ch \in lost \/ ReaderEnd(ch) \in closing THEN <<>> ELSE q[ch]]

CanRead(ch) == open[ReaderEnd(ch)] /\ q[ch] # <<>>
AtEof(ch) == open[ReaderEnd(ch)] /\ q[ch] = <<>> /\ fin[ch] = "fin"
ReadFails(ch) == ~open[ReaderEnd(ch)] \/ (q[ch] = <<>> /\ fin[ch] = "rst")
Writable(ch) == open[WriterEnd(ch)] /\ open[ReaderEnd(ch)] /\ fin[ch] = "no"
CanWrite(ch) == Writable(ch) /\ Len(q[ch]) < Window

Init ==
  /\ q = [ch \in Channels |-> <<>>]
  /\ fin = [ch \in Channels |-> "no"]
  /\ open = [e \in Ends |-> e[1] = 1]
  /\ held = [c \in Copiers |-> <<>>]
  /\ goroutine = [c \in ProxyCopiers |-> "none"]
  /\ main = "dialing"
  /\ done = 0
  /\ bridge = "unborn"
  /\ shut = {}
  /\ sent = [d \in Dirs |-> 0]
  /\ got = [d \in Dirs |-> <<>>]
  /\ impatient = FALSE

sockets == <<q, fin, open>>
proxyVars == <<goroutine, main, done>>
bridgeVars == <<bridge, shut>>
peerVars == <<sent, got, impatient>>

----------------------------------------------------------------------------
(* A copier, of io.Copy or copy_bidirectional, reads a chunk or writes it. *)

Running(c) ==
  IF c \in ProxyCopiers THEN goroutine[c] = "copying" ELSE bridge = "copying" /\ c \notin shut

Read(c) ==
  /\ Running(c) /\ held[c] = <<>> /\ CanRead(From(c))
  /\ held' = [held EXCEPT ![c] = <<Head(q[From(c)])>>]
  /\ q' = [q EXCEPT ![From(c)] = Tail(@)]
  /\ UNCHANGED <<fin, open, proxyVars, bridgeVars, peerVars>>

(* Mutant: the chunk stays in the buffer after it was written.             *)
Write_Again(c) ==
  /\ Running(c) /\ held[c] # <<>> /\ CanWrite(To(c))
  /\ q' = [q EXCEPT ![To(c)] = @ \o held[c]]
  /\ UNCHANGED <<held, fin, open, proxyVars, bridgeVars, peerVars>>

Write(c) ==
  /\ Running(c) /\ held[c] # <<>> /\ CanWrite(To(c))
  /\ q' = [q EXCEPT ![To(c)] = @ \o held[c]]
  /\ held' = [held EXCEPT ![c] = <<>>]
  /\ UNCHANGED <<fin, open, proxyVars, bridgeVars, peerVars>>

EofSeen(c) == Running(c) /\ held[c] = <<>> /\ AtEof(From(c))
Failed(c) ==
  Running(c) /\ IF held[c] = <<>> THEN ReadFails(From(c)) ELSE ~Writable(To(c))

----------------------------------------------------------------------------
(* main.go *)

(* vsock.Dial; if it fails the deferred client.Close is all that is left.  *)
Dial ==
  /\ main = "dialing"
  /\ \/ /\ main' = "waiting"
        /\ goroutine' = [c \in ProxyCopiers |-> "copying"]
        /\ open' = [open EXCEPT ![<<2, "a">>] = TRUE, ![<<2, "b">>] = TRUE]
        /\ bridge' = "connecting"
     \/ main' = "closing_client" /\ UNCHANGED <<goroutine, open, bridge>>
  /\ UNCHANGED <<q, fin, held, done, shut, peerVars>>

(* io.Copy returns at the end of the input and at any error.               *)
CopyReturns(c) ==
  /\ c \in ProxyCopiers /\ (EofSeen(c) \/ Failed(c))
  /\ goroutine' = [goroutine EXCEPT ![c] = "sending"]
  /\ UNCHANGED <<sockets, held, main, done, bridgeVars, peerVars>>

(* Mutant: the channel is made without a buffer.                           *)
DoneCapacity_None == 0

DoneCapacity == 2

(* Mutant: a copy that ended reports it a second time.                     *)
SendDone_Twice(c) ==
  /\ goroutine[c] = "sending"
  /\ done < DoneCapacity + (IF main = "waiting" THEN 1 ELSE 0)
  /\ done' = done + 2
  /\ goroutine' = [goroutine EXCEPT ![c] = "ended"]
  /\ UNCHANGED <<sockets, held, main, bridgeVars, peerVars>>

(* done <- struct{}{}: there is room in the buffer, or the receiver waits. *)
SendDone(c) ==
  /\ goroutine[c] = "sending"
  /\ done < DoneCapacity + (IF main = "waiting" THEN 1 ELSE 0)
  /\ done' = done + 1
  /\ goroutine' = [goroutine EXCEPT ![c] = "ended"]
  /\ UNCHANGED <<sockets, held, main, bridgeVars, peerVars>>

(* Mutant: handle does not wait for a copy to end.                         *)
ReceiveDone_AtOnce ==
  /\ main = "waiting"
  /\ main' = "closing_enc"
  /\ UNCHANGED <<sockets, held, done, goroutine, bridgeVars, peerVars>>

(* <-done, for the first of the two.                                       *)
ReceiveDone ==
  /\ main = "waiting" /\ done > 0
  /\ done' = done - 1
  /\ main' = "closing_enc"
  /\ UNCHANGED <<sockets, held, goroutine, bridgeVars, peerVars>>

(* The deferred calls, last one first.                                     *)
CloseEnc ==
  /\ main = "closing_enc"
  /\ CloseAll({<<2, "a">>})
  /\ main' = "closing_client"
  /\ UNCHANGED <<held, goroutine, done, bridgeVars, peerVars>>

CloseClient ==
  /\ main = "closing_client"
  /\ CloseAll({<<1, "b">>})
  /\ main' = "returned"
  /\ UNCHANGED <<held, goroutine, done, bridgeVars, peerVars>>

----------------------------------------------------------------------------
(* The task of vsock_to_tcp_bridge *)

(* TcpStream::connect; if it fails the VSOCK stream is dropped.            *)
Connect ==
  /\ bridge = "connecting"
  /\ \/ /\ bridge' = "copying"
        /\ open' = [open EXCEPT ![<<3, "a">>] = TRUE, ![<<3, "b">>] = TRUE]
        /\ UNCHANGED <<q, fin>>
     \/ bridge' = "ended" /\ CloseAll({<<2, "b">>})
  /\ UNCHANGED <<held, shut, proxyVars, peerVars>>

(* A direction at the end of its input shuts down the stream it writes.    *)
Shutdown(c) ==
  /\ c \in BridgeCopiers /\ EofSeen(c)
  /\ fin' = [fin EXCEPT ![To(c)] = IF @ = "no" THEN "fin" ELSE @]
  /\ shut' = shut \cup {c}
  /\ UNCHANGED <<q, open, held, bridge, proxyVars, peerVars>>

(* copy_bidirectional returns when both directions are done, or at the     *)
(* first error in either; both streams are dropped.                        *)
CopyBidirectionalReturns ==
  /\ bridge = "copying"
  /\ shut = BridgeCopiers \/ \E c \in BridgeCopiers : Failed(c)
  /\ bridge' = "ended"
  /\ CloseAll({<<2, "b">>, <<3, "a">>})
  /\ UNCHANGED <<held, shut, proxyVars, peerVars>>

----------------------------------------------------------------------------
(* The peers *)

Put(ch, limit) ==
  /\ CanWrite(ch) /\ sent[ch[2]] < limit
  /\ q' = [q EXCEPT ![ch] = Append(@, sent[ch[2]] + 1)]
  /\ sent' = [sent EXCEPT ![ch[2]] = @ + 1]
  /\ UNCHANGED <<fin, open, held, proxyVars, bridgeVars, got, impatient>>

Take(ch) ==
  /\ CanRead(ch)
  /\ got' = [got EXCEPT ![ch[2]] = Append(@, Head(q[ch]))]
  /\ q' = [q EXCEPT ![ch] = Tail(@)]
  /\ UNCHANGED <<fin, open, held, proxyVars, bridgeVars, sent, impatient>>

ClientSend == Put(<<1, "up">>, ReqLen)
ClientRead == Take(<<1, "down">>)

HasResponse == Len(got["down"]) = RespLen

(* The client shuts down its writing side.                                 *)
ClientHalfClose ==
  /\ open[<<1, "a">>] /\ fin[<<1, "up">>] = "no"
  /\ fin' = [fin EXCEPT ![<<1, "up">>] = "fin"]
  /\ impatient' = (impatient \/ ~HasResponse)
  /\ UNCHANGED <<q, open, held, proxyVars, bridgeVars, sent, got>>

(* The client closes its connection.                                       *)
ClientClose ==
  /\ open[<<1, "a">>]
  /\ CloseAll({<<1, "a">>})
  /\ impatient' = (impatient \/ ~HasResponse)
  /\ UNCHANGED <<held, proxyVars, bridgeVars, sent, got>>

(* The router and the Json extractors may answer as soon as the head of    *)
(* the request is read, its first chunk: a wrong path, method or content   *)
(* type, a body over the limit.  A handler runs on the whole request.      *)
ServerRead == Take(<<3, "up">>)
ServerSend == Len(got["up"]) > 0 /\ Put(<<3, "down">>, RespLen)

(* Nothing is left for it to wait for.                                     *)
ServerAnswers == (Len(got["up"]) = ReqLen \/ sent["down"] > 0) /\ ServerSend

ServerSeesEnd ==
  AtEof(<<3, "up">>) \/ ReadFails(<<3, "up">>) \/ ~Writable(<<3, "down">>)

(* It closes at the end of the client's input, even before its answer is   *)
(* complete, or after its answer when the connection is not kept alive, as *)
(* after an early answer whose request hyper has not read to the end.      *)
ServerClose ==
  /\ open[<<3, "b">>]
  /\ ServerSeesEnd \/ sent["down"] = RespLen
  /\ CloseAll({<<3, "b">>})
  /\ UNCHANGED <<held, proxyVars, bridgeVars, peerVars>>

----------------------------------------------------------------------------
Copying(c) == Read(c) \/ Write(c) \/ CopyReturns(c) \/ SendDone(c) \/ Shutdown(c)
Handle == Dial \/ ReceiveDone \/ CloseEnc \/ CloseClient
Bridge == Connect \/ CopyBidirectionalReturns

Next ==
  \/ \E c \in ProxyCopiers : CopyReturns(c) \/ SendDone(c)
  \/ \E c \in BridgeCopiers : Shutdown(c)
  \/ \E c \in Copiers : Read(c) \/ Write(c)
  \/ Handle \/ Bridge
  \/ ClientSend \/ ClientRead \/ ClientHalfClose \/ ClientClose
  \/ ServerRead \/ ServerSend \/ ServerClose

(* Goroutines and tasks that can run do.  A client that has nothing else   *)
(* to do goes on sending its request and reading the answer; nothing makes *)
(* it close.  axum reads a request, answers it when it has all of it, ends *)
(* an answer it began, and closes at the end of input.                     *)
Fairness ==
  /\ \A c \in ProxyCopiers : WF_vars(Read(c) \/ Write(c) \/ CopyReturns(c) \/ SendDone(c))
  /\ \A c \in BridgeCopiers : WF_vars(Read(c) \/ Write(c) \/ Shutdown(c))
  /\ WF_vars(Handle) /\ WF_vars(Bridge)
  /\ WF_vars(ClientSend) /\ WF_vars(ClientRead)
  /\ WF_vars(ServerRead) /\ WF_vars(ServerAnswers) /\ WF_vars(ServerSeesEnd /\ ServerClose)

Spec == Init /\ [][Next]_vars /\ Fairness

----------------------------------------------------------------------------
(* Properties *)

(* Type invariant; sockets hold at most a window.                          *)
TypeOK ==
  /\ q \in [Channels -> Seq(Nat)] /\ \A ch \in Channels : Len(q[ch]) <= Window
  /\ fin \in [Channels -> {"no", "fin", "rst"}]
  /\ open \in [Ends -> BOOLEAN]
  /\ held \in [Copiers -> Seq(Nat)] /\ \A c \in Copiers : Len(held[c]) <= 1
  /\ goroutine \in [ProxyCopiers -> {"none", "copying", "sending", "ended"}]
  /\ main \in {"dialing", "waiting", "closing_enc", "closing_client", "returned"}
  /\ done \in 0..2
  /\ bridge \in {"unborn", "connecting", "copying", "ended"}
  /\ shut \subseteq BridgeCopiers
  /\ sent \in [Dirs -> Nat] /\ got \in [Dirs -> Seq(Nat)]

(* Through both relays, whatever closes and whenever: what a peer has read *)
(* is a prefix of what the other wrote, in order and without repetition.   *)
InOrder ==
  \A d \in Dirs : Len(got[d]) <= sent[d] /\ \A i \in DOMAIN got[d] : got[d][i] = i

(* The server answered before it had read the whole request, and closed.   *)
AnsweredEarly ==
  sent["down"] = RespLen /\ Len(got["up"]) < ReqLen /\ ~open[<<3, "b">>]

(* A client that keeps its side open until it has the whole response gets  *)
(* it, however slowly each hop drains and even if the server closes right  *)
(* after its answer.  Not promised: the answer to a request the server     *)
(* refuses without reading it, for the rest of the request then makes the  *)
(* bridge's write fail, or the response be overtaken by a reset, and both  *)
(* streams are dropped; and the answer to a client that half-closes, for   *)
(* handle closes both connections when the first direction ends.           *)
PatientClientServed == bridge = "copying" ~> (HasResponse \/ impatient \/ AnsweredEarly)

Released ==
  /\ main = "returned" /\ bridge \in {"unborn", "ended"}
  /\ \A c \in ProxyCopiers : goroutine[c] \in {"none", "ended"}
  /\ \A e \in {<<1, "b">>, <<2, "a">>, <<2, "b">>, <<3, "a">>} : ~open[e]

(* Once either peer ends its side, or the dial or the connect fails, both  *)
(* relays let go of everything: handle returns, both goroutines end, the   *)
(* bridge's task ends, and no socket of theirs stays open.                 *)
NothingLeaks ==
  /\ fin[<<1, "up">>] # "no" ~> Released
  /\ fin[<<3, "down">>] # "no" ~> Released
  /\ main = "closing_client" ~> Released
  /\ bridge = "ended" ~> Released
=============================================================================
