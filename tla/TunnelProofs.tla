---------------------------- MODULE TunnelProofs ----------------------------
(***************************************************************************)
(* Proofs about Tunnel, for every number of chunks and every window.       *)
(***************************************************************************)
EXTENDS Tunnel, SequenceTheorems, TLAPS

Source(d) == IF d = "up" THEN <<1, "up">> ELSE <<3, "down">>
Sink(d) == IF d = "up" THEN <<3, "up">> ELSE <<1, "down">>

(* The hop's two sockets have been made, or never will be.                 *)
Opened(hop) ==
  \/ hop = 1
  \/ hop = 2 /\ main # "dialing"
  \/ hop = 3 /\ bridge \in {"copying", "ended"}

(* The control state of `handle` and of the bridge's task: before the dial *)
(* nothing has started; the channel `done` holds at most one value for     *)
(* each goroutine that ended; only sockets that were made are open.        *)
HasEnded(c) == IF goroutine[c] = "ended" THEN 1 ELSE 0

Control ==
  /\ main = "dialing" =>
       done = 0 /\ bridge = "unborn" /\ \A c \in ProxyCopiers : goroutine[c] = "none"
  /\ done <= HasEnded("proxy_up") + HasEnded("proxy_down")
  /\ \A e \in Ends : open[e] => Opened(e[1])

(* Nothing will be written into this channel any more.                     *)
Dead(ch) == fin[ch] # "no" \/ (~open[ReaderEnd(ch)] /\ Opened(ch[1]))

(* s is the chunks a + 1, ..., b.                                          *)
Holds(s, a, b) == Len(s) = b - a /\ \A i \in 1..Len(s) : s[i] = a + i

(* wr[ch] chunks were written into each channel and rd[ch] read from it:   *)
(* it holds those between, unless a close or a reset discarded them; then  *)
(* it is dead.  A copier holds what it read and did not write.             *)
Flow(wr, rd) ==
  /\ \A ch \in Channels : /\ rd[ch] <= wr[ch]
                          /\ \/ Holds(q[ch], rd[ch], wr[ch])
                             \/ q[ch] = <<>> /\ Dead(ch)
  /\ \A c \in Copiers : Holds(held[c], wr[To(c)], rd[From(c)])
  /\ \A d \in Dirs : wr[Source(d)] = sent[d] /\ Holds(got[d], 0, rd[Sink(d)])

(* The inductive invariant.                                                *)
IInv ==
  /\ TypeOK
  /\ Control
  /\ \E wr, rd \in [Channels -> Nat] : Flow(wr, rd)

----------------------------------------------------------------------------
(* Sequences *)

(* What is left after the first chunk is read.                             *)
LEMMA HoldsTail ==
  ASSUME NEW s \in Seq(Nat), s # <<>>, NEW a \in Nat, NEW b \in Nat, Holds(s, a, b)
  PROVE  Head(s) = a + 1 /\ Holds(Tail(s), a + 1, b) /\ a + 1 <= b
<1>1. /\ Tail(s) \in Seq(Nat) /\ Len(s) \in Nat \ {0} /\ Len(Tail(s)) = Len(s) - 1
      /\ \A i \in 1..Len(Tail(s)) : Tail(s)[i] = s[i + 1]
  BY HeadTailProperties, EmptySeq
<1> QED BY <1>1 DEF Holds

(* What there is after the next chunk is written.                          *)
LEMMA HoldsAppend ==
  ASSUME NEW s \in Seq(Nat), NEW a \in Nat, NEW b \in Nat, Holds(s, a, b)
  PROVE  Holds(Append(s, b + 1), a, b + 1)
<1>1. /\ Len(Append(s, b + 1)) = Len(s) + 1
      /\ \A i \in 1..Len(s) : Append(s, b + 1)[i] = s[i]
      /\ Append(s, b + 1)[Len(s) + 1] = b + 1
  BY AppendProperties
<1> QED BY <1>1 DEF Holds

(* A table of bounded sequences with one entry replaced.                   *)
LEMMA Replaced ==
  ASSUME NEW S, NEW n, NEW f \in [S -> Seq(Nat)], \A y \in S : Len(f[y]) <= n,
         NEW x \in S, NEW s \in Seq(Nat), Len(s) <= n, NEW g, g = [f EXCEPT ![x] = s]
  PROVE  g \in [S -> Seq(Nat)] /\ \A y \in S : Len(g[y]) <= n
<1>1. g \in [S -> Seq(Nat)] /\ \A y \in S : g[y] = IF y = x THEN s ELSE f[y]
  OBVIOUS
<1>2. ASSUME NEW y \in S PROVE Len(g[y]) <= n
  <2>1. CASE y = x
    BY <1>1, <2>1
  <2>2. CASE y # x
    BY <1>1, <2>2
  <2> QED BY <2>1, <2>2
<1> QED BY <1>1, <1>2

----------------------------------------------------------------------------
(* The path of a direction *)

(* No two copiers read or write one channel, a channel that a copier reads *)
(* is no sink and one it writes no source.                                 *)
LEMMA Path ==
  /\ \A c \in Copiers : From(c) \in Channels /\ To(c) \in Channels /\ From(c) # To(c)
  /\ \A c, e \in Copiers : From(c) = From(e) \/ To(c) = To(e) => c = e
  /\ \A d \in Dirs : Source(d) \in Channels /\ Sink(d) \in Channels
  /\ \A c \in Copiers, d \in Dirs : From(c) # Sink(d) /\ To(c) # Source(d)
  /\ Source("up") = From("proxy_up") /\ To("proxy_up") = From("bridge_up")
  /\ To("bridge_up") = Sink("up")
  /\ Source("down") = From("bridge_down") /\ To("bridge_down") = From("proxy_down")
  /\ To("proxy_down") = Sink("down")
<1>1. /\ From("proxy_up") = <<1, "up">> /\ To("proxy_up") = <<2, "up">>
      /\ From("bridge_up") = <<2, "up">> /\ To("bridge_up") = <<3, "up">>
      /\ From("bridge_down") = <<3, "down">> /\ To("bridge_down") = <<2, "down">>
      /\ From("proxy_down") = <<2, "down">> /\ To("proxy_down") = <<1, "down">>
  BY DEF From, To, DirOf
<1>2. Copiers = {"proxy_up", "proxy_down", "bridge_up", "bridge_down"}
  BY DEF Copiers, ProxyCopiers, BridgeCopiers
<1> QED BY <1>1, <1>2 DEF Channels, Hops, Dirs, Source, Sink

(* Nothing arrives before it was sent, and what arrived is in order.       *)
LEMMA FlowInOrder ==
  ASSUME TypeOK, NEW wr \in [Channels -> Nat], NEW rd \in [Channels -> Nat], Flow(wr, rd)
  PROVE  InOrder
<1>1. ASSUME NEW c \in Copiers PROVE wr[To(c)] <= rd[From(c)] /\ rd[From(c)] <= wr[From(c)]
  <2>1. Len(held[c]) = rd[From(c)] - wr[To(c)] /\ Len(held[c]) \in Nat
    BY DEF Flow, Holds, TypeOK
  <2>2. wr[To(c)] \in Nat /\ rd[From(c)] \in Nat
    BY Path
  <2> QED BY <2>1, <2>2, Path DEF Flow
<1>2. ASSUME NEW d \in Dirs PROVE rd[Sink(d)] <= wr[Source(d)]
  <2>1. \A ch \in Channels : wr[ch] \in Nat /\ rd[ch] \in Nat /\ rd[ch] <= wr[ch]
    BY DEF Flow
  <2>2. CASE d = "up"
    BY <1>1, <2>1, <2>2, Path DEF Copiers, ProxyCopiers, BridgeCopiers
  <2>3. CASE d = "down"
    BY <1>1, <2>1, <2>3, Path DEF Copiers, ProxyCopiers, BridgeCopiers
  <2> QED BY <2>2, <2>3 DEF Dirs
<1> SUFFICES ASSUME NEW d \in Dirs
             PROVE  Len(got[d]) <= sent[d] /\ \A i \in DOMAIN got[d] : got[d][i] = i
  BY DEF InOrder
<1>3. /\ got[d] \in Seq(Nat) /\ sent[d] = wr[Source(d)] /\ Holds(got[d], 0, rd[Sink(d)])
      /\ rd[Sink(d)] \in Nat
  BY Path DEF Flow, TypeOK
<1> QED BY <1>2, <1>3 DEF Holds

----------------------------------------------------------------------------
(* Chunks on the move *)

(* Steps that only move chunks keep the control state and what is dead.    *)
LEMMA ControlUnchanged ==
  ASSUME Control, UNCHANGED <<fin, open, proxyVars, bridgeVars>>
  PROVE  Control' /\ \A ch \in Channels : Dead(ch)' <=> Dead(ch)
  BY DEF Control, HasEnded, Opened, Dead, ReaderEnd, proxyVars, bridgeVars

(* A channel that has chunks, or can take one, is intact.                  *)
LEMMA Intact ==
  ASSUME TypeOK, NEW wr \in [Channels -> Nat], NEW rd \in [Channels -> Nat], Flow(wr, rd),
         NEW ch \in Channels, CanRead(ch) \/ CanWrite(ch)
  PROVE  Holds(q[ch], rd[ch], wr[ch])
  BY DEF Flow, Dead, CanRead, CanWrite, Writable

LEMMA ReadKeepsInvariant ==
  ASSUME IInv, NEW c \in Copiers, Read(c)
  PROVE  IInv'
<1>1. PICK wr \in [Channels -> Nat], rd \in [Channels -> Nat] : Flow(wr, rd)
  BY DEF IInv
<1> DEFINE ch == From(c)
           rn == [rd EXCEPT ![ch] = @ + 1]
<1>2. /\ held[c] = <<>> /\ CanRead(ch) /\ q[ch] # <<>>
      /\ held' = [held EXCEPT ![c] = <<Head(q[ch])>>]
      /\ q' = [q EXCEPT ![ch] = Tail(@)]
      /\ UNCHANGED <<fin, open, proxyVars, bridgeVars, sent, got, impatient>>
  BY DEF Read, CanRead, peerVars
<1>3. /\ ch \in Channels /\ q[ch] \in Seq(Nat) /\ wr[ch] \in Nat /\ rd[ch] \in Nat
      /\ wr[To(c)] \in Nat
  BY Path DEF IInv, TypeOK
<1>4. Holds(q[ch], rd[ch], wr[ch])
  BY <1>1, <1>2, <1>3, Intact DEF IInv
<1>5. /\ Head(q[ch]) = rd[ch] + 1 /\ Holds(Tail(q[ch]), rd[ch] + 1, wr[ch])
      /\ rd[ch] + 1 <= wr[ch]
  BY <1>2, <1>3, <1>4, HoldsTail
<1>6. /\ Tail(q[ch]) \in Seq(Nat) /\ Len(Tail(q[ch])) <= Len(q[ch])
  <2>1. Tail(q[ch]) \in Seq(Nat) /\ Len(Tail(q[ch])) = Len(q[ch]) - 1
    BY <1>2, <1>3, HeadTailProperties
  <2> QED BY <1>3, <2>1
<1>7. Control' /\ \A x \in Channels : Dead(x)' <=> Dead(x)
  BY <1>2, ControlUnchanged DEF IInv
<1>8. rd[ch] = wr[To(c)]
  <2>1. Holds(<<>>, wr[To(c)], rd[ch])
    BY <1>1, <1>2 DEF Flow
  <2> QED BY <1>3, <2>1 DEF Holds
<1>9. TypeOK'
  <2> DEFINE u == Tail(q[ch])
             h == <<Head(q[ch])>>
  <2>1. h \in Seq(Nat) /\ Len(h) <= 1
    BY <1>3, <1>5
  <2>2. Len(u) <= Window
    BY <1>3, <1>6, TunnelConstants DEF IInv, TypeOK
  <2>3. u \in Seq(Nat) /\ q' = [q EXCEPT ![ch] = u] /\ held' = [held EXCEPT ![c] = h]
    BY <1>2, <1>6
  <2> HIDE DEF u, h, ch
  <2>4. q' \in [Channels -> Seq(Nat)] /\ \A x \in Channels : Len(q'[x]) <= Window
    BY <1>3, <2>2, <2>3, Replaced DEF IInv, TypeOK
  <2>5. held' \in [Copiers -> Seq(Nat)] /\ \A e \in Copiers : Len(held'[e]) <= 1
    BY <2>1, <2>3, Replaced DEF IInv, TypeOK
  <2> QED BY <1>2, <2>4, <2>5 DEF IInv, TypeOK, proxyVars, bridgeVars
<1>10. rn \in [Channels -> Nat] /\ rn[ch] = rd[ch] + 1
       /\ \A x \in Channels : x # ch => rn[x] = rd[x]
  BY <1>3
<1> HIDE DEF rn
<1>11. Flow(wr, rn)'
  <2>1. ASSUME NEW x \in Channels
        PROVE  /\ rn[x] <= wr[x]
               /\ Holds(q'[x], rn[x], wr[x]) \/ (q'[x] = <<>> /\ Dead(x)')
    BY <1>1, <1>2, <1>3, <1>5, <1>7, <1>10 DEF Flow, IInv, TypeOK
  <2>2. ASSUME NEW e \in Copiers PROVE Holds(held'[e], wr[To(e)], rn[From(e)])
    <3>1. CASE e = c
      <4>1. held'[e] = <<rd[ch] + 1>>
        BY <1>2, <1>5, <3>1 DEF IInv, TypeOK
      <4> QED BY <1>3, <1>8, <1>10, <3>1, <4>1 DEF Holds
    <3>2. CASE e # c
      BY <1>1, <1>2, <1>10, <3>2, Path DEF Flow, IInv, TypeOK
    <3> QED BY <3>1, <3>2
  <2>3. ASSUME NEW d \in Dirs
        PROVE  wr[Source(d)] = sent'[d] /\ Holds(got'[d], 0, rn[Sink(d)])
    BY <1>1, <1>2, <1>10, Path DEF Flow
  <2> QED BY <2>1, <2>2, <2>3 DEF Flow, Holds, From, To, DirOf, Source, Sink
<1> QED BY <1>7, <1>9, <1>10, <1>11 DEF IInv

(* What a copier holds is one chunk, the next one for the channel it       *)
(* writes.                                                                 *)
LEMMA HeldIsNext ==
  ASSUME TypeOK, NEW wr \in [Channels -> Nat], NEW rd \in [Channels -> Nat], Flow(wr, rd),
         NEW c \in Copiers, held[c] # <<>>
  PROVE  held[c] = <<wr[To(c)] + 1>> /\ rd[From(c)] = wr[To(c)] + 1
<1>1. /\ held[c] \in Seq(Nat) /\ Len(held[c]) <= 1
      /\ Holds(held[c], wr[To(c)], rd[From(c)])
      /\ wr[To(c)] \in Nat /\ rd[From(c)] \in Nat
  BY Path DEF TypeOK, Flow
<1>2. Len(held[c]) = 1
  <2>1. ASSUME NEW h \in Seq(Nat), h # <<>>, Len(h) <= 1 PROVE Len(h) = 1
    <3>1. Len(h) \in Nat \ {0}
      BY <2>1, EmptySeq, Zenon
    <3> DEFINE n == Len(h)
    <3>2. n \in Nat \ {0} /\ n <= 1
      BY <2>1, <3>1
    <3> HIDE DEF n
    <3>3. n = 1
      BY <3>2
    <3> QED BY <3>3 DEF n
  <2> QED BY <1>1, <2>1
<1>3. held[c][1] = wr[To(c)] + 1 /\ rd[From(c)] = wr[To(c)] + 1
  BY <1>1, <1>2 DEF Holds
<1> QED BY <1>1, <1>2, <1>3

LEMMA WriteKeepsInvariant ==
  ASSUME IInv, NEW c \in Copiers, Write(c)
  PROVE  IInv'
<1>1. PICK wr \in [Channels -> Nat], rd \in [Channels -> Nat] : Flow(wr, rd)
  BY DEF IInv
<1> DEFINE ch == To(c)
           next == wr[ch] + 1
           wn == [wr EXCEPT ![ch] = next]
           u == Append(q[ch], next)
<1>2. /\ held[c] # <<>> /\ CanWrite(ch) /\ Len(q[ch]) < Window
      /\ held' = [held EXCEPT ![c] = <<>>]
      /\ q' = [q EXCEPT ![ch] = q[ch] \o held[c]]
      /\ UNCHANGED <<fin, open, proxyVars, bridgeVars, sent, got, impatient>>
  BY DEF Write, CanWrite, peerVars
<1>3. /\ ch \in Channels /\ q[ch] \in Seq(Nat) /\ wr[ch] \in Nat /\ rd[ch] \in Nat
      /\ rd[From(c)] \in Nat /\ rd[ch] <= wr[ch]
  BY <1>1, Path DEF IInv, TypeOK, Flow
<1>4. held[c] = <<next>> /\ rd[From(c)] = next
  BY <1>1, <1>2, HeldIsNext DEF IInv
<1>5. Holds(u, rd[ch], next)
  BY <1>1, <1>2, <1>3, Intact, HoldsAppend DEF IInv
<1>6. u \in Seq(Nat) /\ Len(u) <= Window /\ q[ch] \o held[c] = u
  <2>1. Len(u) = Len(q[ch]) + 1 /\ u \in Seq(Nat)
    BY <1>3, AppendProperties
  <2>2. q[ch] \o <<next>> = u
    BY <1>3
  <2> QED BY <1>2, <1>3, <1>4, <2>1, <2>2, TunnelConstants
<1>7. Control' /\ \A x \in Channels : Dead(x)' <=> Dead(x)
  BY <1>2, ControlUnchanged DEF IInv
<1> HIDE DEF u
<1>8. q' = [q EXCEPT ![ch] = u]
  BY <1>2, <1>6
<1>9. TypeOK'
  <2> HIDE DEF ch
  <2>1. q' \in [Channels -> Seq(Nat)] /\ \A x \in Channels : Len(q'[x]) <= Window
    BY <1>3, <1>6, <1>8, Replaced DEF IInv, TypeOK
  <2>2. <<>> \in Seq(Nat) /\ Len(<<>>) <= 1
    OBVIOUS
  <2>3. held' \in [Copiers -> Seq(Nat)] /\ \A e \in Copiers : Len(held'[e]) <= 1
    BY <1>2, <2>2, Replaced DEF IInv, TypeOK
  <2> QED BY <1>2, <2>1, <2>3 DEF IInv, TypeOK, proxyVars, bridgeVars
<1>10. wn \in [Channels -> Nat] /\ wn[ch] = next
       /\ \A x \in Channels : x # ch => wn[x] = wr[x]
  BY <1>3
<1>11. next \in Nat /\ rd[ch] <= next
  BY <1>3
<1> HIDE DEF wn, next
<1>12. Flow(wn, rd)'
  <2>1. ASSUME NEW x \in Channels
        PROVE  /\ rd[x] <= wn[x]
               /\ Holds(q'[x], rd[x], wn[x]) \/ (q'[x] = <<>> /\ Dead(x)')
    BY <1>1, <1>3, <1>5, <1>7, <1>8, <1>10, <1>11 DEF Flow, IInv, TypeOK
  <2>2. ASSUME NEW e \in Copiers PROVE Holds(held'[e], wn[To(e)], rd[From(e)])
    <3>1. CASE e = c
      <4>1. held'[e] = <<>>
        BY <1>2, <3>1 DEF IInv, TypeOK
      <4> QED BY <1>3, <1>4, <1>10, <1>11, <3>1, <4>1 DEF Holds
    <3>2. CASE e # c
      BY <1>1, <1>2, <1>10, <3>2, Path DEF Flow, IInv, TypeOK
    <3> QED BY <3>1, <3>2
  <2>3. ASSUME NEW d \in Dirs
        PROVE  wn[Source(d)] = sent'[d] /\ Holds(got'[d], 0, rd[Sink(d)])
    BY <1>1, <1>2, <1>10, Path DEF Flow
  <2> QED BY <2>1, <2>2, <2>3 DEF Flow, Holds, From, To, DirOf, Source, Sink
<1> QED BY <1>7, <1>9, <1>10, <1>12 DEF IInv

(* A peer writes the next chunk.                                           *)
LEMMA PutKeepsInvariant ==
  ASSUME IInv, NEW d \in Dirs, NEW limit, Put(Source(d), limit)
  PROVE  IInv'
<1>1. PICK wr \in [Channels -> Nat], rd \in [Channels -> Nat] : Flow(wr, rd)
  BY DEF IInv
<1> DEFINE ch == Source(d)
           next == wr[ch] + 1
           wn == [wr EXCEPT ![ch] = next]
           u == Append(q[ch], next)
<1>0. ch[2] = d
  BY DEF Source, Dirs
<1>2. /\ CanWrite(ch) /\ Len(q[ch]) < Window
      /\ q' = [q EXCEPT ![ch] = Append(q[ch], sent[d] + 1)]
      /\ sent' = [sent EXCEPT ![d] = sent[d] + 1]
      /\ UNCHANGED <<fin, open, held, proxyVars, bridgeVars, got, impatient>>
  BY <1>0 DEF Put, CanWrite
<1>3. /\ ch \in Channels /\ q[ch] \in Seq(Nat) /\ wr[ch] \in Nat /\ rd[ch] \in Nat
      /\ rd[ch] <= wr[ch] /\ sent[d] = wr[ch]
  BY <1>1, Path DEF IInv, TypeOK, Flow
<1>4. Holds(u, rd[ch], next)
  BY <1>1, <1>2, <1>3, Intact, HoldsAppend DEF IInv
<1>5. u \in Seq(Nat) /\ Len(u) <= Window
  <2>1. Len(u) = Len(q[ch]) + 1 /\ u \in Seq(Nat)
    BY <1>3, AppendProperties
  <2> QED BY <1>2, <1>3, <2>1, TunnelConstants
<1>6. q' = [q EXCEPT ![ch] = u]
  BY <1>2, <1>3
<1>7. Control' /\ \A x \in Channels : Dead(x)' <=> Dead(x)
  BY <1>2, ControlUnchanged DEF IInv
<1>8. wn \in [Channels -> Nat] /\ wn[ch] = next
      /\ \A x \in Channels : x # ch => wn[x] = wr[x]
  BY <1>3
<1>9. next \in Nat /\ rd[ch] <= next /\ sent' = [sent EXCEPT ![d] = next]
  BY <1>2, <1>3
<1> HIDE DEF u, wn, next
<1>10. TypeOK'
  <2> HIDE DEF ch
  <2>1. q' \in [Channels -> Seq(Nat)] /\ \A x \in Channels : Len(q'[x]) <= Window
    BY <1>3, <1>5, <1>6, Replaced DEF IInv, TypeOK
  <2> QED BY <1>2, <1>9, <2>1 DEF IInv, TypeOK, proxyVars, bridgeVars
<1>11. Flow(wn, rd)'
  <2>1. ASSUME NEW x \in Channels
        PROVE  /\ rd[x] <= wn[x]
               /\ Holds(q'[x], rd[x], wn[x]) \/ (q'[x] = <<>> /\ Dead(x)')
    BY <1>1, <1>3, <1>4, <1>6, <1>7, <1>8, <1>9 DEF Flow, IInv, TypeOK
  <2>2. ASSUME NEW e \in Copiers PROVE Holds(held'[e], wn[To(e)], rd[From(e)])
    BY <1>1, <1>2, <1>8, Path DEF Flow
  <2>3. ASSUME NEW x \in Dirs
        PROVE  wn[Source(x)] = sent'[x] /\ Holds(got'[x], 0, rd[Sink(x)])
    <3>1. x # d => Source(x) # ch
      BY DEF Source, Dirs
    <3> QED BY <1>1, <1>2, <1>8, <1>9, <3>1, Path DEF Flow, IInv, TypeOK
  <2> QED BY <2>1, <2>2, <2>3 DEF Flow, Holds, From, To, DirOf, Source, Sink
<1> QED BY <1>7, <1>8, <1>10, <1>11 DEF IInv

(* A peer reads the next chunk.                                            *)
LEMMA TakeKeepsInvariant ==
  ASSUME IInv, NEW d \in Dirs, Take(Sink(d))
  PROVE  IInv'
<1>1. PICK wr \in [Channels -> Nat], rd \in [Channels -> Nat] : Flow(wr, rd)
  BY DEF IInv
<1> DEFINE ch == Sink(d)
           next == rd[ch] + 1
           rn == [rd EXCEPT ![ch] = next]
           u == Tail(q[ch])
           g == Append(got[d], next)
<1>0. ch[2] = d
  BY DEF Sink, Dirs
<1>2. /\ CanRead(ch) /\ q[ch] # <<>>
      /\ q' = [q EXCEPT ![ch] = u]
      /\ got' = [got EXCEPT ![d] = Append(got[d], Head(q[ch]))]
      /\ UNCHANGED <<fin, open, held, proxyVars, bridgeVars, sent, impatient>>
  BY <1>0 DEF Take, CanRead
<1>3. /\ ch \in Channels /\ q[ch] \in Seq(Nat) /\ wr[ch] \in Nat /\ rd[ch] \in Nat
      /\ got[d] \in Seq(Nat) /\ Holds(got[d], 0, rd[ch])
  BY <1>1, Path DEF IInv, TypeOK, Flow
<1>4. Holds(q[ch], rd[ch], wr[ch])
  BY <1>1, <1>2, <1>3, Intact DEF IInv
<1>5. Head(q[ch]) = next /\ Holds(u, next, wr[ch]) /\ next <= wr[ch]
  BY <1>2, <1>3, <1>4, HoldsTail
<1>6. u \in Seq(Nat) /\ Len(u) <= Window
  <2>1. u \in Seq(Nat) /\ Len(u) = Len(q[ch]) - 1 /\ Len(q[ch]) \in Nat
    BY <1>2, <1>3, HeadTailProperties
  <2> QED BY <1>3, <2>1, TunnelConstants DEF IInv, TypeOK
<1>7. g \in Seq(Nat) /\ Holds(g, 0, next) /\ got' = [got EXCEPT ![d] = g] /\ next \in Nat
  <2>1. next \in Nat
    BY <1>3
  <2>2. g \in Seq(Nat)
    BY <1>3, <2>1, AppendProperties
  <2>3. Holds(g, 0, next)
    BY <1>3, HoldsAppend
  <2> QED BY <1>2, <1>5, <2>1, <2>2, <2>3
<1>8. Control' /\ \A x \in Channels : Dead(x)' <=> Dead(x)
  BY <1>2, ControlUnchanged DEF IInv
<1>9. rn \in [Channels -> Nat] /\ rn[ch] = next
      /\ \A x \in Channels : x # ch => rn[x] = rd[x]
  BY <1>3
<1> HIDE DEF u, g, rn, next
<1>10. TypeOK'
  <2> HIDE DEF ch
  <2>1. q' \in [Channels -> Seq(Nat)] /\ \A x \in Channels : Len(q'[x]) <= Window
    BY <1>2, <1>3, <1>6, Replaced DEF IInv, TypeOK
  <2> QED BY <1>2, <1>7, <2>1 DEF IInv, TypeOK, proxyVars, bridgeVars
<1>11. Flow(wr, rn)'
  <2>1. ASSUME NEW x \in Channels
        PROVE  /\ rn[x] <= wr[x]
               /\ Holds(q'[x], rn[x], wr[x]) \/ (q'[x] = <<>> /\ Dead(x)')
    BY <1>1, <1>2, <1>3, <1>5, <1>8, <1>9 DEF Flow, IInv, TypeOK
  <2>2. ASSUME NEW e \in Copiers PROVE Holds(held'[e], wr[To(e)], rn[From(e)])
    BY <1>1, <1>2, <1>9, Path DEF Flow
  <2>3. ASSUME NEW x \in Dirs
        PROVE  wr[Source(x)] = sent'[x] /\ Holds(got'[x], 0, rn[Sink(x)])
    <3>1. x # d => Sink(x) # ch
      BY DEF Sink, Dirs
    <3> QED BY <1>1, <1>2, <1>7, <1>9, <3>1, Path DEF Flow, IInv, TypeOK
  <2> QED BY <2>1, <2>2, <2>3 DEF Flow, Holds, From, To, DirOf, Source, Sink
<1> QED BY <1>8, <1>9, <1>10, <1>11 DEF IInv

----------------------------------------------------------------------------
(* Sockets that open and close *)

(* A channel that was dead stays so: an end is not shut down twice, and a  *)
(* socket that was made and closed is not made again.                      *)
LEMMA DeadStays ==
  ASSUME NEW ch \in Channels, Dead(ch),
         fin[ch] # "no" => fin'[ch] # "no",
         \A e \in Ends : open'[e] => open[e] \/ ~Opened(e[1]),
         \A hop \in Hops : Opened(hop) => Opened(hop)'
  PROVE  Dead(ch)'
<1>1. ReaderEnd(ch) \in Ends /\ ReaderEnd(ch)[1] = ch[1] /\ ch[1] \in Hops
  BY DEF ReaderEnd, Ends, Channels
<1>2. CASE fin[ch] # "no"
  BY <1>2 DEF Dead
<1>3. CASE ~open[ReaderEnd(ch)] /\ Opened(ch[1])
  <2>1. ~open'[ReaderEnd(ch)] /\ Opened(ch[1])'
    BY <1>1, <1>3
  <2> QED BY <2>1 DEF Dead, ReaderEnd
<1> QED BY <1>2, <1>3 DEF Dead

(* A step that moves no chunk, and loses those of channels that are dead   *)
(* after it.                                                               *)
LEMMA QuietStep ==
  ASSUME IInv, TypeOK', Control', UNCHANGED <<held, sent, got>>,
         \A ch \in Channels : q'[ch] = q[ch] \/ (q'[ch] = <<>> /\ Dead(ch)'),
         \A ch \in Channels : fin[ch] # "no" => fin'[ch] # "no",
         \A e \in Ends : open'[e] => open[e] \/ ~Opened(e[1]),
         \A hop \in Hops : Opened(hop) => Opened(hop)'
  PROVE  IInv'
<1>1. PICK wr \in [Channels -> Nat], rd \in [Channels -> Nat] : Flow(wr, rd)
  BY DEF IInv
<1>2. ASSUME NEW ch \in Channels
      PROVE  /\ rd[ch] <= wr[ch]
             /\ Holds(q'[ch], rd[ch], wr[ch]) \/ (q'[ch] = <<>> /\ Dead(ch)')
  <2>1. CASE q'[ch] = <<>> /\ Dead(ch)'
    BY <1>1, <2>1 DEF Flow
  <2>2. CASE q'[ch] = q[ch]
    BY <1>1, <2>2, DeadStays DEF Flow
  <2> QED BY <2>1, <2>2
<1>3. Flow(wr, rd)'
  BY <1>1, <1>2 DEF Flow, Holds, From, To, DirOf, Source, Sink
<1> QED BY <1>3 DEF IInv

(* What closing sockets does: it opens none, no channel is written again   *)
(* that was ended, and chunks are lost only where the reader closed or a   *)
(* reset came.                                                             *)
LEMMA Closing ==
  ASSUME TypeOK, NEW ends, CloseAll(ends)
  PROVE  /\ q' \in [Channels -> Seq(Nat)] /\ \A ch \in Channels : Len(q'[ch]) <= Window
         /\ fin' \in [Channels -> {"no", "fin", "rst"}]
         /\ open' \in [Ends -> BOOLEAN]
         /\ \A e \in Ends : open'[e] => open[e]
         /\ \A ch \in Channels : fin[ch] # "no" => fin'[ch] # "no"
         /\ \A ch \in Channels :
              \/ q'[ch] = q[ch]
              \/ /\ q'[ch] = <<>>
                 /\ fin'[ch] = "rst" \/ (open[ReaderEnd(ch)] /\ ~open'[ReaderEnd(ch)])
<1> DEFINE closing == {e \in ends : open[e]}
           resets == {Out(e) : e \in {x \in closing : q[In(x)] # <<>>}}
<1>1. /\ open' = [e \in Ends |-> open[e] /\ e \notin ends]
      /\ fin' = [ch \in Channels |->
                   IF ch \in resets THEN "rst"
                   ELSE IF WriterEnd(ch) \in closing /\ fin[ch] = "no" THEN "fin" ELSE fin[ch]]
  BY DEF CloseAll
<1>2. PICK lost \in SUBSET resets :
        q' = [ch \in Channels |->
                IF ch \in lost \/ ReaderEnd(ch) \in closing THEN <<>> ELSE q[ch]]
  BY DEF CloseAll
<1> HIDE DEF resets
<1>3. open' \in [Ends -> BOOLEAN] /\ \A e \in Ends : open'[e] <=> open[e] /\ e \notin ends
  BY <1>1, Zenon DEF TypeOK
<1>4. fin' \in [Channels -> {"no", "fin", "rst"}]
      /\ \A ch \in Channels : /\ fin[ch] # "no" => fin'[ch] # "no"
                              /\ ch \in resets => fin'[ch] = "rst"
  BY <1>1 DEF TypeOK
<1>5. \A ch \in Channels : ReaderEnd(ch) \in Ends
  BY DEF ReaderEnd, Channels, Ends
<1>6. ASSUME NEW ch \in Channels
      PROVE  \/ q'[ch] = q[ch]
             \/ /\ q'[ch] = <<>>
                /\ fin'[ch] = "rst" \/ (open[ReaderEnd(ch)] /\ ~open'[ReaderEnd(ch)])
  BY <1>2, <1>3, <1>4, <1>5
<1>7. <<>> \in Seq(Nat) /\ Len(<<>>) <= Window
  BY TunnelConstants
<1>8. \A ch \in Channels : q'[ch] \in Seq(Nat) /\ Len(q'[ch]) <= Window
  BY <1>6, <1>7 DEF TypeOK
<1>9. q' \in [Channels -> Seq(Nat)]
  BY <1>2, <1>7 DEF TypeOK
<1> QED BY <1>3, <1>4, <1>6, <1>8, <1>9

(* The state of `handle` and of the bridge's task, sockets aside.          *)
RelayState ==
  /\ goroutine \in [ProxyCopiers -> {"none", "copying", "sending", "ended"}]
  /\ main \in {"dialing", "waiting", "closing_enc", "closing_client", "returned"}
  /\ done \in 0..2
  /\ bridge \in {"unborn", "connecting", "copying", "ended"}
  /\ shut \subseteq BridgeCopiers
  /\ main = "dialing" =>
       done = 0 /\ bridge = "unborn" /\ \A c \in ProxyCopiers : goroutine[c] = "none"
  /\ done <= HasEnded("proxy_up") + HasEnded("proxy_down")

LEMMA RelayStateHolds == IInv => RelayState
  BY DEF IInv, TypeOK, Control, RelayState

LEMMA RelayUnchanged ==
  ASSUME RelayState, UNCHANGED <<proxyVars, bridgeVars>>
  PROVE  RelayState' /\ \A hop \in Hops : Opened(hop) => Opened(hop)'
  BY DEF RelayState, HasEnded, Opened, proxyVars, bridgeVars

(* Somebody closes some sockets and goes on.                               *)
LEMMA ClosingKeepsInvariant ==
  ASSUME IInv, NEW ends, CloseAll(ends), UNCHANGED <<held, sent, got>>,
         RelayState', \A hop \in Hops : Opened(hop) => Opened(hop)'
  PROVE  IInv'
<1>1. /\ q' \in [Channels -> Seq(Nat)] /\ \A ch \in Channels : Len(q'[ch]) <= Window
      /\ fin' \in [Channels -> {"no", "fin", "rst"}]
      /\ open' \in [Ends -> BOOLEAN]
      /\ \A e \in Ends : open'[e] => open[e]
      /\ \A ch \in Channels : fin[ch] # "no" => fin'[ch] # "no"
      /\ \A ch \in Channels :
           \/ q'[ch] = q[ch]
           \/ /\ q'[ch] = <<>>
              /\ fin'[ch] = "rst" \/ (open[ReaderEnd(ch)] /\ ~open'[ReaderEnd(ch)])
  BY Closing DEF IInv
<1>2. \A e \in Ends : open[e] => Opened(e[1])'
  BY DEF IInv, Control, Ends
<1>3. TypeOK' /\ Control'
  BY <1>1, <1>2 DEF IInv, TypeOK, Control, RelayState
<1>4. ASSUME NEW ch \in Channels PROVE q'[ch] = q[ch] \/ (q'[ch] = <<>> /\ Dead(ch)')
  <2>1. ReaderEnd(ch) \in Ends /\ ReaderEnd(ch)[1] = ch[1]
    BY DEF ReaderEnd, Ends, Channels
  <2>2. CASE fin'[ch] = "rst"
    BY <1>1, <2>2 DEF Dead
  <2>3. CASE open[ReaderEnd(ch)] /\ ~open'[ReaderEnd(ch)]
    <3>1. Opened(ch[1])'
      BY <1>2, <2>1, <2>3
    <3> QED BY <1>1, <2>3, <3>1 DEF Dead, ReaderEnd
  <2> QED BY <1>1, <2>2, <2>3
<1> QED BY <1>1, <1>3, <1>4, QuietStep

(* Two sockets of a hop are made.                                          *)
LEMMA OpeningKeepsInvariant ==
  ASSUME IInv, NEW hop \in Hops, ~Opened(hop), Opened(hop)',
         open' = [open EXCEPT ![<<hop, "a">>] = TRUE, ![<<hop, "b">>] = TRUE],
         UNCHANGED <<q, fin, held, sent, got>>,
         RelayState', \A x \in Hops : Opened(x) => Opened(x)'
  PROVE  IInv'
<1>1. open' \in [Ends -> BOOLEAN] /\ \A e \in Ends : open'[e] => open[e] \/ e[1] = hop
  <2>1. open \in [Ends -> BOOLEAN] /\ <<hop, "a">> \in Ends /\ <<hop, "b">> \in Ends
    BY DEF IInv, TypeOK, Ends
  <2>2. open' \in [Ends -> BOOLEAN]
    BY <2>1
  <2>3. ASSUME NEW e \in Ends, e[1] # hop PROVE open'[e] = open[e]
    <3>1. e # <<hop, "a">> /\ e # <<hop, "b">>
      BY <2>3
    <3> QED BY <2>1, <3>1
  <2> QED BY <2>2, <2>3
<1>2. \A e \in Ends : open'[e] => Opened(e[1])'
  BY <1>1 DEF IInv, Control, Ends
<1>3. TypeOK' /\ Control'
  BY <1>1, <1>2 DEF IInv, TypeOK, Control, RelayState
<1>4. \A e \in Ends : open'[e] => open[e] \/ ~Opened(e[1])
  BY <1>1
<1> QED BY <1>3, <1>4, QuietStep

(* Nothing happens to the sockets but that an end of a channel is shut     *)
(* down, or nothing at all.                                                *)
LEMMA SocketsStayOpen ==
  ASSUME IInv, UNCHANGED <<q, open, held, sent, got>>,
         fin' \in [Channels -> {"no", "fin", "rst"}],
         \A ch \in Channels : fin[ch] # "no" => fin'[ch] # "no",
         RelayState', \A hop \in Hops : Opened(hop) => Opened(hop)'
  PROVE  IInv'
<1>1. \A e \in Ends : open'[e] => Opened(e[1])'
  BY DEF IInv, Control, Ends
<1>2. TypeOK' /\ Control'
  BY <1>1 DEF IInv, TypeOK, Control, RelayState
<1> QED BY <1>2, QuietStep

----------------------------------------------------------------------------
(* The steps *)

LEMMA InitEstablishesInvariant == Init => IInv
<1> SUFFICES ASSUME Init PROVE IInv
  OBVIOUS
<1>1. TypeOK
  <2>1. <<>> \in Seq(Nat) /\ Len(<<>>) <= Window /\ Len(<<>>) <= 1
    BY TunnelConstants
  <2>2. q \in [Channels -> Seq(Nat)] /\ \A ch \in Channels : Len(q[ch]) <= Window
    BY <2>1 DEF Init
  <2>3. held \in [Copiers -> Seq(Nat)] /\ \A c \in Copiers : Len(held[c]) <= 1
    BY <2>1 DEF Init
  <2>4. open \in [Ends -> BOOLEAN]
    BY DEF Init
  <2>5. got \in [Dirs -> Seq(Nat)]
    BY <2>1 DEF Init
  <2> QED BY <2>2, <2>3, <2>4, <2>5 DEF Init, TypeOK
<1>2. Control
  <2>1. \A e \in Ends : open[e] => e[1] = 1
    BY Zenon DEF Init
  <2>2. HasEnded("proxy_up") = 0 /\ HasEnded("proxy_down") = 0 /\ done = 0
    BY DEF Init, HasEnded, ProxyCopiers
  <2> QED BY <2>1, <2>2 DEF Init, Control, Opened
<1>3. \E wr, rd \in [Channels -> Nat] : Flow(wr, rd)
  <2> DEFINE zero == [ch \in Channels |-> 0]
  <2>1. zero \in [Channels -> Nat] /\ \A ch \in Channels : zero[ch] = 0
    OBVIOUS
  <2> HIDE DEF zero
  <2>2. Holds(<<>>, 0, 0)
    BY DEF Holds
  <2>3. Flow(zero, zero)
    BY <2>1, <2>2, Path DEF Init, Flow
  <2> QED BY <2>1, <2>3
<1> QED BY <1>1, <1>2, <1>3 DEF IInv

(* vsock.Dial of `handle` succeeds or fails.                               *)
LEMMA DialKeepsInvariant == ASSUME IInv, Dial PROVE IInv'
<1>1. /\ main = "dialing" /\ main' # "dialing" /\ RelayState
      /\ UNCHANGED <<q, fin, held, done, shut, sent, got>>
  BY RelayStateHolds DEF Dial, peerVars
<1>2. done = 0 /\ bridge = "unborn" /\ \A c \in ProxyCopiers : goroutine[c] = "none"
  BY <1>1 DEF RelayState
<1>3. RelayState'
  BY <1>1, <1>2 DEF Dial, RelayState, HasEnded, ProxyCopiers
<1>4. \A hop \in Hops : Opened(hop) => Opened(hop)'
  BY <1>1, <1>2 DEF Opened
<1>5. CASE open' = [open EXCEPT ![<<2, "a">>] = TRUE, ![<<2, "b">>] = TRUE]
  <2>1. 2 \in Hops /\ ~Opened(2) /\ Opened(2)'
    BY <1>1 DEF Hops, Opened
  <2> QED BY <1>1, <1>3, <1>4, <1>5, <2>1, OpeningKeepsInvariant
<1>6. CASE UNCHANGED open
  <2>1. fin' \in [Channels -> {"no", "fin", "rst"}]
    BY <1>1 DEF IInv, TypeOK
  <2> QED BY <1>1, <1>3, <1>4, <1>6, <2>1, SocketsStayOpen
<1> QED BY <1>5, <1>6 DEF Dial

(* The rest of `handle` and of its goroutines.                             *)
LEMMA HandleKeepsInvariant ==
  ASSUME IInv,
         \/ \E c \in ProxyCopiers : CopyReturns(c) \/ SendDone(c)
         \/ ReceiveDone \/ CloseEnc \/ CloseClient
  PROVE  IInv'
<1>0. RelayState /\ fin \in [Channels -> {"no", "fin", "rst"}]
  BY RelayStateHolds DEF IInv, TypeOK
<1>1. ASSUME NEW c \in ProxyCopiers, CopyReturns(c) PROVE IInv'
  <2>1. /\ goroutine[c] = "copying" /\ goroutine' = [goroutine EXCEPT ![c] = "sending"]
        /\ UNCHANGED <<q, fin, open, held, main, done, bridge, shut, sent, got>>
    BY <1>1 DEF CopyReturns, EofSeen, Failed, Running, sockets, bridgeVars, peerVars
  <2>2. RelayState'
    BY <1>0, <2>1 DEF RelayState, HasEnded, ProxyCopiers
  <2>3. \A hop \in Hops : Opened(hop) => Opened(hop)'
    BY <2>1 DEF Opened
  <2> QED BY <1>0, <2>1, <2>2, <2>3, SocketsStayOpen
<1>2. ASSUME NEW c \in ProxyCopiers, SendDone(c) PROVE IInv'
  <2>1. /\ goroutine[c] = "sending" /\ goroutine' = [goroutine EXCEPT ![c] = "ended"]
        /\ done' = done + 1
        /\ UNCHANGED <<q, fin, open, held, main, bridge, shut, sent, got>>
    BY <1>2 DEF SendDone, sockets, bridgeVars, peerVars
  <2>2. RelayState'
    BY <1>0, <2>1 DEF RelayState, HasEnded, ProxyCopiers
  <2>3. \A hop \in Hops : Opened(hop) => Opened(hop)'
    BY <2>1 DEF Opened
  <2> QED BY <1>0, <2>1, <2>2, <2>3, SocketsStayOpen
<1>3. CASE ReceiveDone
  <2>1. /\ main = "waiting" /\ main' = "closing_enc" /\ done > 0 /\ done' = done - 1
        /\ UNCHANGED <<q, fin, open, held, goroutine, bridge, shut, sent, got>>
    BY <1>3 DEF ReceiveDone, sockets, bridgeVars, peerVars
  <2>2. RelayState'
    BY <1>0, <2>1 DEF RelayState, HasEnded
  <2>3. \A hop \in Hops : Opened(hop) => Opened(hop)'
    BY <2>1 DEF Opened
  <2> QED BY <1>0, <2>1, <2>2, <2>3, SocketsStayOpen
<1>4. ASSUME NEW ends, CloseAll(ends), main # "dialing",
             main' \in {"closing_client", "returned"},
             UNCHANGED <<held, goroutine, done, bridgeVars, peerVars>>
      PROVE  IInv'
  <2>1. RelayState'
    BY <1>0, <1>4 DEF RelayState, HasEnded, bridgeVars
  <2>2. \A hop \in Hops : Opened(hop) => Opened(hop)'
    BY <1>4 DEF Opened, bridgeVars
  <2> QED BY <1>4, <2>1, <2>2, ClosingKeepsInvariant DEF peerVars
<1> QED BY <1>1, <1>2, <1>3, <1>4 DEF CloseEnc, CloseClient

(* The task of vsock_to_tcp_bridge.                                        *)
LEMMA BridgeKeepsInvariant ==
  ASSUME IInv, Bridge \/ \E c \in BridgeCopiers : Shutdown(c)
  PROVE  IInv'
<1>0. RelayState /\ fin \in [Channels -> {"no", "fin", "rst"}]
  BY RelayStateHolds DEF IInv, TypeOK
<1>1. ASSUME bridge \in {"connecting", "copying"}, bridge' \in {"copying", "ended"},
             UNCHANGED <<held, shut, proxyVars, peerVars>>
      PROVE  /\ RelayState' /\ \A hop \in Hops : Opened(hop) => Opened(hop)'
             /\ UNCHANGED <<held, sent, got>>
  BY <1>0, <1>1 DEF RelayState, HasEnded, Opened, proxyVars, peerVars
<1>2. ASSUME Connect, open' = [open EXCEPT ![<<3, "a">>] = TRUE, ![<<3, "b">>] = TRUE],
             bridge' = "copying", UNCHANGED <<q, fin>>
      PROVE  IInv'
  <2>1. bridge = "connecting" /\ UNCHANGED <<held, shut, proxyVars, peerVars>>
    BY <1>2 DEF Connect
  <2>2. 3 \in Hops /\ ~Opened(3) /\ Opened(3)'
    BY <1>2, <2>1 DEF Hops, Opened
  <2> QED BY <1>1, <1>2, <2>1, <2>2, OpeningKeepsInvariant
<1>3. ASSUME bridge \in {"connecting", "copying"}, bridge' = "ended", NEW ends, CloseAll(ends),
             UNCHANGED <<held, shut, proxyVars, peerVars>>
      PROVE  IInv'
  BY <1>1, <1>3, ClosingKeepsInvariant
<1>4. ASSUME NEW c \in BridgeCopiers, Shutdown(c) PROVE IInv'
  <2>1. /\ fin' = [fin EXCEPT ![To(c)] = IF fin[To(c)] = "no" THEN "fin" ELSE fin[To(c)]]
        /\ shut' = shut \cup {c}
        /\ UNCHANGED <<q, open, held, bridge, proxyVars, peerVars>>
    BY <1>4 DEF Shutdown
  <2>2. /\ fin' \in [Channels -> {"no", "fin", "rst"}]
        /\ \A ch \in Channels : fin[ch] # "no" => fin'[ch] # "no"
    BY <1>0, <2>1
  <2>3. RelayState' /\ \A hop \in Hops : Opened(hop) => Opened(hop)'
    BY <1>0, <2>1 DEF RelayState, HasEnded, Opened, proxyVars
  <2> QED BY <2>1, <2>2, <2>3, SocketsStayOpen DEF peerVars
<1> QED BY <1>2, <1>3, <1>4 DEF Bridge, Connect, CopyBidirectionalReturns

(* The client and axum.                                                    *)
LEMMA PeersKeepInvariant ==
  ASSUME IInv,
         \/ ClientSend \/ ClientRead \/ ClientHalfClose \/ ClientClose
         \/ ServerRead \/ ServerSend \/ ServerClose
  PROVE  IInv'
<1>0. RelayState /\ fin \in [Channels -> {"no", "fin", "rst"}]
  BY RelayStateHolds DEF IInv, TypeOK
<1>1. CASE ClientSend \/ ServerSend
  <2>1. /\ Source("up") = <<1, "up">> /\ Source("down") = <<3, "down">>
        /\ "up" \in Dirs /\ "down" \in Dirs
    BY DEF Source, Dirs
  <2>2. \E d \in Dirs : \E limit : Put(Source(d), limit)
    BY <1>1, <2>1 DEF ClientSend, ServerSend
  <2> QED BY <2>2, PutKeepsInvariant
<1>2. CASE ClientRead \/ ServerRead
  <2>1. /\ Sink("up") = <<3, "up">> /\ Sink("down") = <<1, "down">>
        /\ "up" \in Dirs /\ "down" \in Dirs
    BY DEF Sink, Dirs
  <2>2. \E d \in Dirs : Take(Sink(d))
    BY <1>2, <2>1 DEF ClientRead, ServerRead
  <2> QED BY <2>2, TakeKeepsInvariant
<1>3. CASE ClientHalfClose
  <2>1. /\ fin' = [fin EXCEPT ![<<1, "up">>] = "fin"]
        /\ UNCHANGED <<q, open, held, proxyVars, bridgeVars, sent, got>>
    BY <1>3 DEF ClientHalfClose
  <2>2. /\ fin' \in [Channels -> {"no", "fin", "rst"}]
        /\ \A ch \in Channels : fin[ch] # "no" => fin'[ch] # "no"
    BY <1>0, <2>1
  <2> QED BY <1>0, <2>1, <2>2, RelayUnchanged, SocketsStayOpen
<1>4. ASSUME NEW ends, CloseAll(ends), UNCHANGED <<held, proxyVars, bridgeVars, sent, got>>
      PROVE  IInv'
  BY <1>0, <1>4, RelayUnchanged, ClosingKeepsInvariant
<1> QED BY <1>1, <1>2, <1>3, <1>4 DEF ClientClose, ServerClose, peerVars

LEMMA NextKeepsInvariant == IInv /\ [Next]_vars => IInv'
<1> SUFFICES ASSUME IInv, [Next]_vars PROVE IInv'
  OBVIOUS
<1>1. CASE UNCHANGED vars
  <2>1. RelayState /\ fin \in [Channels -> {"no", "fin", "rst"}]
    BY RelayStateHolds DEF IInv, TypeOK
  <2>2. UNCHANGED <<q, fin, open, held, proxyVars, bridgeVars, sent, got>>
    BY <1>1 DEF vars, proxyVars, bridgeVars
  <2> QED BY <2>1, <2>2, RelayUnchanged, SocketsStayOpen
<1> QED BY <1>1, ReadKeepsInvariant, WriteKeepsInvariant, DialKeepsInvariant,
          HandleKeepsInvariant, BridgeKeepsInvariant, PeersKeepInvariant DEF Next, Handle

LEMMA InvariantHolds == Spec => []IInv
  BY InitEstablishesInvariant, NextKeepsInvariant, PTL DEF Spec

----------------------------------------------------------------------------
(* The relays' state has its types: no hop holds more than its window, and *)
(* `done` (main.go) no more than one value of each goroutine.              *)
THEOREM TypeCorrect == Spec => []TypeOK
<1>1. IInv => TypeOK
  BY DEF IInv
<1> QED BY <1>1, InvariantHolds, PTL

(* The two relays deliver a prefix of what was sent, in order and without  *)
(* repetition, whoever closes whatever at whatever moment.                 *)
THEOREM DeliveryInOrder == Spec => []InOrder
<1>1. IInv => InOrder
  BY FlowInOrder DEF IInv
<1> QED BY <1>1, InvariantHolds, PTL

(* A goroutine of main.go whose io.Copy returned never waits to report it, *)
(* also when `handle` received the other's report and nobody receives any  *)
(* more: the buffer of `done` has room for both.                           *)
NeverBlocksOnDone ==
  \A c \in ProxyCopiers : goroutine[c] = "sending" => done < DoneCapacity

THEOREM SendNeverBlocks == Spec => []NeverBlocksOnDone
<1>1. IInv => NeverBlocksOnDone
  BY DEF IInv, TypeOK, Control, HasEnded, NeverBlocksOnDone, ProxyCopiers, DoneCapacity
<1> QED BY <1>1, InvariantHolds, PTL
=============================================================================
