------------------------- MODULE DeviceBindingProofs -------------------------
(***************************************************************************)
(* Proofs about DeviceBinding, for every set of keys, accounts, domains    *)
(* and hashes and every number of witnesses and bindings.                  *)
(***************************************************************************)
EXTENDS DeviceBinding, SequenceTheorems, TLAPS

(* The key of a live binding is the one its Witness attested.              *)
KeysEnrolled ==
  \A id \in DOMAIN bindings : bindings[id].pk = enrolment[id].witness.attested_value

(* The inductive invariant, but for the authorized action.                 *)
IInv == TypeOK /\ OneBindingPerWitness /\ KeysEnrolled

----------------------------------------------------------------------------
(* Taking an entry away.                                                   *)
LEMMA WithoutEntry ==
  ASSUME NEW f, NEW x
  PROVE  /\ DOMAIN Without(f, x) = DOMAIN f \ {x}
         /\ \A y \in DOMAIN f \ {x} : Without(f, x)[y] = f[y]
  BY DEF Without

(* Two concatenations with prefixes of one length are equal only part by   *)
(* part.                                                                   *)
LEMMA ConcatInjective ==
  ASSUME NEW s \in Seq(Nat), NEW t \in Seq(Nat), NEW u \in Seq(Nat), NEW v \in Seq(Nat),
         Len(s) = Len(u), s \o t = u \o v
  PROVE  s = u /\ t = v
<1>1. /\ Len(s \o t) = Len(s) + Len(t)
      /\ \A i \in 1..(Len(s) + Len(t)) :
           (s \o t)[i] = IF i <= Len(s) THEN s[i] ELSE t[i - Len(s)]
  BY ConcatProperties, Zenon
<1>2. /\ Len(u \o v) = Len(u) + Len(v)
      /\ \A i \in 1..(Len(u) + Len(v)) :
           (u \o v)[i] = IF i <= Len(u) THEN u[i] ELSE v[i - Len(u)]
  BY ConcatProperties, Zenon
<1> DEFINE c == s \o t
<1>3. /\ Len(c) = Len(s) + Len(t) /\ Len(c) = Len(s) + Len(v)
      /\ \A i \in 1..(Len(s) + Len(t)) : c[i] = IF i <= Len(s) THEN s[i] ELSE t[i - Len(s)]
      /\ \A i \in 1..(Len(s) + Len(v)) : c[i] = IF i <= Len(s) THEN u[i] ELSE v[i - Len(s)]
  BY <1>1, <1>2, Zenon
<1> HIDE DEF c
<1>4. Len(s) \in Nat /\ Len(t) \in Nat /\ Len(v) \in Nat
  OBVIOUS
<1>5. Len(t) = Len(v)
  BY <1>3, <1>4
<1>6. \A i \in 1..Len(s) : s[i] = u[i]
  BY <1>3, <1>4, <1>5
<1>7. \A i \in 1..Len(t) : t[i] = v[i]
  <2> TAKE i \in 1..Len(t)
  <2> DEFINE k == Len(s) + i
  <2>1. k \in 1..(Len(s) + Len(t)) /\ ~(k <= Len(s)) /\ k - Len(s) = i
    BY <1>4
  <2>2. c[k] = t[k - Len(s)] /\ c[k] = v[k - Len(s)]
    BY <1>3, <1>5, <2>1
  <2> QED BY <2>1, <2>2
<1> QED BY <1>5, <1>6, <1>7, SeqEqual

----------------------------------------------------------------------------
(* Nothing exists in the initial state.                                    *)
LEMMA InitEstablishesInvariant == Init => IInv
  BY BindingConstants DEF Init, IInv, TypeOK, OneBindingPerWitness, KeysEnrolled

(* `new` consumes the Witness it enrols, under a number of its own.        *)
LEMMA NewKeepsInvariant ==
  ASSUME IInv, NEW n \in DOMAIN witnesses, NEW pk \in Keys, NEW scheme \in Schemes,
         NEW recipient \in Accounts, new(n, pk, scheme, recipient)
  PROVE  IInv'
<1> DEFINE id == created + 1
           b == [source |-> witnesses[n].source, scheme |-> scheme, pk |-> pk,
                 issued_at_ms |-> now, owner |-> recipient]
           e == [number |-> n, witness |-> witnesses[n]]
<1>1. /\ pk = witnesses[n].attested_value
      /\ created < MaxBindings /\ created' = id
      /\ witnesses' = Without(witnesses, n)
      /\ bindings' = With(bindings, id, b)
      /\ enrolment' = With(enrolment, id, e)
      /\ UNCHANGED <<now, minted, approvals, authorized>>
  BY DEF new
<1>2. /\ DOMAIN witnesses' = DOMAIN witnesses \ {n}
      /\ \A m \in DOMAIN witnesses' : witnesses'[m] = witnesses[m]
  BY <1>1, WithoutEntry
<1>3. /\ DOMAIN bindings' = DOMAIN bindings \cup {id}
      /\ bindings'[id] = b
      /\ \A i \in DOMAIN bindings : i # id => bindings'[i] = bindings[i]
  BY <1>1 DEF With
<1>4. /\ DOMAIN enrolment' = DOMAIN enrolment \cup {id}
      /\ enrolment'[id] = e
      /\ \A i \in DOMAIN enrolment : i # id => enrolment'[i] = enrolment[i]
  BY <1>1 DEF With
<1>5. /\ created \in Nat /\ DOMAIN enrolment = 1..created /\ DOMAIN bindings \subseteq 1..created
      /\ n \in 1..minted /\ witnesses[n] \in Attestations /\ now \in 0..U64Max
      /\ id \notin DOMAIN enrolment /\ id \notin DOMAIN bindings
  BY BindingConstants DEF IInv, TypeOK
<1>6. b \in BindingRecord
  BY <1>5 DEF BindingRecord
<1>7. e.number = n /\ e.witness = witnesses[n] /\ b.pk = pk
  OBVIOUS
<1> HIDE DEF b, e
<1>8. TypeOK'
  <2>1. created' \in 0..MaxBindings /\ DOMAIN enrolment' = 1..created'
    <3>1. created' = created + 1 /\ DOMAIN enrolment' = 1..created \cup {created + 1}
      BY <1>1, <1>4, <1>5
    <3>2. created + 1 \in 0..MaxBindings
      BY <1>1, <1>5, BindingConstants
    <3>3. 1..created \cup {created + 1} = 1..(created + 1)
      BY <1>5
    <3> QED BY <3>1, <3>2, <3>3
  <2>2. DOMAIN bindings' \subseteq 1..created'
    BY <1>1, <1>3, <1>5 DEF id
  <2>3. \A i \in DOMAIN bindings' : bindings'[i] \in BindingRecord
    BY <1>3, <1>6 DEF IInv, TypeOK
  <2>4. \A i \in DOMAIN enrolment' : /\ enrolment'[i].number \in 1..minted'
                                     /\ enrolment'[i].witness \in Attestations
    BY <1>1, <1>4, <1>5, <1>7 DEF IInv, TypeOK
  <2>5. /\ now' \in 0..U64Max /\ minted' \in 0..MaxWitnesses
        /\ DOMAIN witnesses' \subseteq 1..minted'
        /\ \A m \in DOMAIN witnesses' : witnesses'[m] \in Attestations
        /\ approvals' \subseteq Approval
    BY <1>1, <1>2 DEF IInv, TypeOK
  <2>6. \A a \in authorized' : a.id \in 1..created'
    BY <1>1, <1>5 DEF IInv, TypeOK, id
  <2> QED BY <2>1, <2>2, <2>3, <2>4, <2>5, <2>6 DEF TypeOK, BindingRecord, Approval
<1>9. OneBindingPerWitness'
  <2>1. \A i \in DOMAIN enrolment : enrolment[i].number # n
    BY DEF IInv, OneBindingPerWitness
  <2>2. ASSUME NEW i \in DOMAIN enrolment', NEW j \in DOMAIN enrolment',
               enrolment'[i].number = enrolment'[j].number
        PROVE  i = j
    BY <1>4, <1>5, <1>7, <2>1, <2>2 DEF IInv, OneBindingPerWitness
  <2>3. ASSUME NEW i \in DOMAIN enrolment' PROVE enrolment'[i].number \notin DOMAIN witnesses'
    BY <1>2, <1>4, <1>5, <1>7, <2>3 DEF IInv, OneBindingPerWitness
  <2> QED BY <2>2, <2>3 DEF OneBindingPerWitness
<1>10. KeysEnrolled'
  <2> SUFFICES ASSUME NEW i \in DOMAIN bindings'
               PROVE  bindings'[i].pk = enrolment'[i].witness.attested_value
    BY DEF KeysEnrolled
  <2>1. CASE i = id
    BY <2>1, <1>1, <1>3, <1>4, <1>7
  <2>2. CASE i # id
    <3>1. i \in DOMAIN bindings /\ i \in DOMAIN enrolment
      BY <2>2, <1>3, <1>5
    <3> QED BY <2>2, <3>1, <1>3, <1>4 DEF IInv, KeysEnrolled
  <2> QED BY <2>1, <2>2
<1> QED BY <1>8, <1>9, <1>10 DEF IInv

(* A supplied Witness has a number that no binding was enrolled with.      *)
LEMMA SupplyKeepsInvariant ==
  ASSUME IInv, NEW w \in Attestations, supply(w)
  PROVE  IInv'
<1>1. /\ minted < MaxWitnesses /\ minted' = minted + 1
      /\ witnesses' = With(witnesses, minted + 1, w)
      /\ UNCHANGED <<now, bindings, created, approvals, enrolment, authorized>>
  BY DEF supply
<1>2. /\ DOMAIN witnesses' = DOMAIN witnesses \cup {minted + 1}
      /\ witnesses'[minted + 1] = w
      /\ \A m \in DOMAIN witnesses : m # minted + 1 => witnesses'[m] = witnesses[m]
  BY <1>1 DEF With
<1>3. minted \in Nat /\ DOMAIN witnesses \subseteq 1..minted
  BY BindingConstants DEF IInv, TypeOK
<1>4. TypeOK'
  <2>1. minted' \in 0..MaxWitnesses /\ DOMAIN witnesses' \subseteq 1..minted'
    BY <1>1, <1>2, <1>3, BindingConstants
  <2>2. \A m \in DOMAIN witnesses' : witnesses'[m] \in Attestations
    BY <1>2 DEF IInv, TypeOK
  <2>3. \A id \in DOMAIN enrolment' : /\ enrolment'[id].number \in 1..minted'
                                      /\ enrolment'[id].witness \in Attestations
    BY <1>1, <1>3 DEF IInv, TypeOK
  <2> QED BY <1>1, <2>1, <2>2, <2>3 DEF IInv, TypeOK, BindingRecord, Approval
<1>5. OneBindingPerWitness'
  <2>1. \A i \in DOMAIN enrolment : enrolment[i].number # minted + 1
    BY <1>3 DEF IInv, TypeOK
  <2> QED BY <1>1, <1>2, <2>1 DEF IInv, OneBindingPerWitness
<1>6. KeysEnrolled'
  BY <1>1 DEF IInv, KeysEnrolled
<1> QED BY <1>4, <1>5, <1>6 DEF IInv

(* Dropping a Witness and destroying a binding only take away.             *)
LEMMA RemovalKeepsInvariant ==
  ASSUME IInv,
         \/ \E n \in DOMAIN witnesses : drop(n)
         \/ \E id \in DOMAIN bindings : destroy(id)
  PROVE  IInv'
<1>1. ASSUME NEW n \in DOMAIN witnesses, drop(n) PROVE IInv'
  <2>1. /\ DOMAIN witnesses' = DOMAIN witnesses \ {n}
        /\ \A m \in DOMAIN witnesses' : witnesses'[m] = witnesses[m]
        /\ UNCHANGED <<now, minted, bindings, created, approvals, enrolment, authorized>>
    BY <1>1, WithoutEntry DEF drop
  <2>2. TypeOK'
    BY <2>1 DEF IInv, TypeOK, BindingRecord, Approval
  <2>3. OneBindingPerWitness' /\ KeysEnrolled'
    BY <2>1 DEF IInv, OneBindingPerWitness, KeysEnrolled
  <2> QED BY <2>2, <2>3 DEF IInv
<1>2. ASSUME NEW id \in DOMAIN bindings, destroy(id) PROVE IInv'
  <2>1. /\ DOMAIN bindings' = DOMAIN bindings \ {id}
        /\ \A i \in DOMAIN bindings' : bindings'[i] = bindings[i]
        /\ UNCHANGED <<now, witnesses, minted, created, approvals, enrolment, authorized>>
    BY <1>2, WithoutEntry DEF destroy
  <2>2. TypeOK'
    BY <2>1 DEF IInv, TypeOK, BindingRecord, Approval
  <2>3. OneBindingPerWitness' /\ KeysEnrolled'
    BY <2>1 DEF IInv, OneBindingPerWitness, KeysEnrolled
  <2> QED BY <2>2, <2>3 DEF IInv
<1> QED BY <1>1, <1>2

(* A transfer changes the owner and nothing else.                          *)
LEMMA TransferKeepsInvariant ==
  ASSUME IInv, NEW id \in DOMAIN bindings, NEW recipient \in Accounts,
         transfer_to(id, recipient)
  PROVE  IInv'
<1>1. /\ DOMAIN bindings' = DOMAIN bindings
      /\ bindings'[id] = [bindings[id] EXCEPT !.owner = recipient]
      /\ \A i \in DOMAIN bindings : i # id => bindings'[i] = bindings[i]
      /\ UNCHANGED <<now, witnesses, minted, created, approvals, enrolment, authorized>>
  BY DEF transfer_to
<1>2. bindings[id] \in BindingRecord
  BY DEF IInv, TypeOK
<1>3. bindings'[id] \in BindingRecord /\ bindings'[id].pk = bindings[id].pk
  BY <1>1, <1>2 DEF BindingRecord
<1>4. \A i \in DOMAIN bindings' : bindings'[i] \in BindingRecord
  BY <1>1, <1>3 DEF IInv, TypeOK
<1>5. TypeOK'
  BY <1>1, <1>4 DEF IInv, TypeOK, BindingRecord, Approval
<1>6. OneBindingPerWitness' /\ KeysEnrolled'
  BY <1>1, <1>3 DEF IInv, OneBindingPerWitness, KeysEnrolled
<1> QED BY <1>5, <1>6 DEF IInv

(* Approvals, authorizations and the clock leave the objects alone.        *)
LEMMA OtherStepsKeepInvariant ==
  ASSUME IInv,
         \/ \E pk \in Keys, id \in 1..created, d \in Domains, h \in ActionHashes,
               x \in Expiries : approve(pk, id, d, h, x)
         \/ \E id \in DOMAIN bindings : \E receipt, d, h, x : verify_action(id, receipt, d, h, x)
         \/ Tick
         \/ UNCHANGED vars
  PROVE  IInv'
<1>1. UNCHANGED <<witnesses, minted, bindings, created, enrolment>>
  BY DEF approve, verify_action, Tick, vars
<1>2. now' \in 0..U64Max
  BY BindingConstants DEF IInv, TypeOK, approve, verify_action, Tick, vars
<1>3. approvals' \subseteq Approval
  <2>1. ASSUME NEW pk \in Keys, NEW id \in 1..created, NEW d \in Domains,
               NEW h \in ActionHashes, NEW x \in Expiries, approve(pk, id, d, h, x)
        PROVE  approvals' \subseteq Approval
    <3>1. id \in 1..MaxBindings
      BY BindingConstants DEF IInv, TypeOK
    <3>2. [pk |-> pk, id |-> id, domain |-> d, action_hash |-> h, expiry_ms |-> x] \in Approval
      BY <3>1 DEF Approval
    <3> QED BY <2>1, <3>2 DEF approve, IInv, TypeOK
  <2> QED BY <2>1 DEF IInv, TypeOK, verify_action, Tick, vars
<1>4. \A a \in authorized' : a.id \in 1..created'
  <2>1. ASSUME NEW id \in DOMAIN bindings, NEW receipt, NEW d, NEW h, NEW x,
               verify_action(id, receipt, d, h, x)
        PROVE  \A a \in authorized' : a.id \in 1..created'
    <3>1. \A a \in authorized' : a.id = id
      BY <2>1 DEF verify_action
    <3> QED BY <1>1, <3>1 DEF IInv, TypeOK
  <2> QED BY <1>1, <2>1 DEF IInv, TypeOK, approve, Tick, vars
<1>5. TypeOK'
  BY <1>1, <1>2, <1>3, <1>4 DEF IInv, TypeOK, BindingRecord, Approval
<1>6. OneBindingPerWitness' /\ KeysEnrolled'
  BY <1>1 DEF IInv, OneBindingPerWitness, KeysEnrolled
<1> QED BY <1>5, <1>6 DEF IInv

(* Every step keeps the invariant.                                         *)
LEMMA NextKeepsInvariant == IInv /\ [Next]_vars => IInv'
  BY NewKeepsInvariant, SupplyKeepsInvariant, RemovalKeepsInvariant,
     TransferKeepsInvariant, OtherStepsKeepInvariant DEF Next, BindingNext

(* The invariant holds throughout.                                         *)
LEMMA InvariantHolds == Spec => []IInv
  BY InitEstablishesInvariant, NextKeepsInvariant, PTL DEF Spec

----------------------------------------------------------------------------
(* The objects and the history keep their types.                           *)
THEOREM TypeCorrect == Spec => []TypeOK
<1>1. IInv => TypeOK
  BY DEF IInv
<1> QED BY <1>1, InvariantHolds, PTL

(* One Witness enrols one binding at most: device_binding::new takes it by *)
(* value, however many witnesses attest the same key.                      *)
THEOREM SingleEnrolment == Spec => []OneBindingPerWitness
<1>1. IInv => OneBindingPerWitness
  BY DEF IInv
<1> QED BY <1>1, InvariantHolds, PTL
----------------------------------------------------------------------------
(* Where sequence m begins with s.                                         *)
Begins(s, m) == Len(s) <= Len(m) /\ \A i \in 1..Len(s) : m[i] = s[i]

LEMMA ConcatBegins ==
  ASSUME NEW s \in Seq(Nat), NEW m \in Seq(Nat), NEW t \in Seq(Nat), Begins(s, m)
  PROVE  m \o t \in Seq(Nat) /\ Begins(s, m \o t)
<1> DEFINE c == m \o t
<1>1. /\ c \in Seq(Nat) /\ Len(c) = Len(m) + Len(t)
      /\ \A i \in 1..(Len(m) + Len(t)) : c[i] = IF i <= Len(m) THEN m[i] ELSE t[i - Len(m)]
  BY ConcatProperties, Zenon
<1>2. Len(s) \in Nat /\ Len(m) \in Nat /\ Len(t) \in Nat
  OBVIOUS
<1> HIDE DEF c
<1>3. Len(s) <= Len(c)
  BY <1>1, <1>2 DEF Begins
<1>4. ASSUME NEW i \in 1..Len(s) PROVE c[i] = s[i]
  <2>1. i \in 1..(Len(m) + Len(t)) /\ i <= Len(m)
    BY <1>2 DEF Begins
  <2>2. c[i] = m[i]
    BY <1>1, <2>1
  <2> QED BY <2>2 DEF Begins
<1> QED BY <1>1, <1>3, <1>4 DEF Begins, c

(* Two sequences that a third begins with: one is the beginning of the     *)
(* other.                                                                  *)
LEMMA ShorterBegins ==
  ASSUME NEW d \in Seq(Nat), NEW e \in Seq(Nat), Len(d) < Len(e),
         \A i \in 1..Len(d) : d[i] = e[i]
  PROVE  IsStrictPrefix(d, e)
<1>1. Len(d) \in Nat /\ Len(e) \in Nat
  OBVIOUS
<1>2. SubSeq(d, 1, Len(d)) = [i \in 1..Len(d) |-> d[i]]
  BY <1>1
<1>3. SubSeq(e, 1, Len(d)) = [i \in 1..Len(d) |-> e[i]]
  BY <1>1
<1>4. SubSeq(d, 1, Len(d)) = SubSeq(e, 1, Len(d))
  BY <1>2, <1>3
<1>5. d # e
  BY <1>1
<1> QED BY <1>1, <1>4, <1>5 DEF IsStrictPrefix, IsPrefix

(* The prefix and the domain begin the message.                            *)
LEMMA DomainBegins ==
  ASSUME NEW i \in 1..MaxBindings, NEW d \in Domains, NEW h \in ActionHashes, NEW x \in Expiries
  PROVE  /\ MESSAGE_PREFIX \o d \in Seq(Nat)
         /\ Begins(MESSAGE_PREFIX \o d, canonical_message(i, d, h, x))
<1> DEFINE s1 == MESSAGE_PREFIX \o d
           s2 == s1 \o IdBytes(i)
           s3 == s2 \o h
<1>1. /\ d \in Seq(Nat) /\ h \in Seq(Nat) /\ IdBytes(i) \in Seq(Nat) /\ <<x>> \in Seq(Nat)
      /\ MESSAGE_PREFIX \in Seq(Nat)
  BY BindingConstants, IdEncoding DEF MESSAGE_PREFIX
<1>2. s1 \in Seq(Nat)
  BY <1>1, ConcatProperties
<1>3. canonical_message(i, d, h, x) = s3 \o <<x>>
  BY DEF canonical_message
<1> HIDE DEF s1
<1>4. Begins(s1, s1)
  BY <1>2 DEF Begins
<1>5. s2 \in Seq(Nat) /\ Begins(s1, s2)
  BY <1>1, <1>2, <1>4, ConcatBegins
<1> HIDE DEF s2
<1>6. s3 \in Seq(Nat) /\ Begins(s1, s3)
  BY <1>1, <1>2, <1>5, ConcatBegins
<1> HIDE DEF s3
<1>7. Begins(s1, s3 \o <<x>>)
  BY <1>1, <1>2, <1>6, ConcatBegins
<1> QED BY <1>2, <1>3, <1>7 DEF s1

(* Of two domains in messages of the same bytes, one begins with the       *)
(* other; so they have one length unless they are ambiguous.               *)
LEMMA DomainsAgree ==
  ASSUME NEW i \in 1..MaxBindings, NEW d \in Domains, NEW h \in ActionHashes, NEW x \in Expiries,
         NEW j \in 1..MaxBindings, NEW e \in Domains, NEW g \in ActionHashes, NEW y \in Expiries,
         canonical_message(i, d, h, x) = canonical_message(j, e, g, y),
         ~Ambiguous(d, e)
  PROVE  Len(d) = Len(e)
<1> DEFINE P == MESSAGE_PREFIX
           m == canonical_message(i, d, h, x)
           s == P \o d
           u == P \o e
<1>1. /\ d \in Seq(Nat) /\ e \in Seq(Nat) /\ Len(d) \in Nat /\ Len(e) \in Nat
      /\ P \in Seq(Nat) /\ Len(P) = 1
  BY BindingConstants DEF MESSAGE_PREFIX
<1>2. Begins(s, m) /\ Begins(u, m)
  BY DomainBegins
<1> HIDE DEF P, m
<1>3. /\ Len(s) = Len(P) + Len(d)
      /\ \A k \in 1..(Len(P) + Len(d)) : s[k] = IF k <= Len(P) THEN P[k] ELSE d[k - Len(P)]
  BY <1>1, ConcatProperties, Zenon
<1>4. /\ Len(u) = Len(P) + Len(e)
      /\ \A k \in 1..(Len(P) + Len(e)) : u[k] = IF k <= Len(P) THEN P[k] ELSE e[k - Len(P)]
  BY <1>1, ConcatProperties, Zenon
<1> HIDE DEF s, u
<1>5. ASSUME NEW k \in Nat, 1 <= k, k <= Len(d) PROVE d[k] = m[k + 1]
  <2>0. k + 1 \in 1..(Len(P) + Len(d)) /\ ~(k + 1 <= Len(P)) /\ (k + 1) - Len(P) = k
    BY <1>1, <1>5
  <2>1. s[k + 1] = d[k]
    BY <1>3, <2>0
  <2>2. m[k + 1] = s[k + 1]
    BY <1>1, <1>2, <1>3, <1>5 DEF Begins
  <2> QED BY <2>1, <2>2
<1>6. ASSUME NEW k \in Nat, 1 <= k, k <= Len(e) PROVE e[k] = m[k + 1]
  <2>0. k + 1 \in 1..(Len(P) + Len(e)) /\ ~(k + 1 <= Len(P)) /\ (k + 1) - Len(P) = k
    BY <1>1, <1>6
  <2>1. u[k + 1] = e[k]
    BY <1>4, <2>0
  <2>2. m[k + 1] = u[k + 1]
    BY <1>1, <1>2, <1>4, <1>6 DEF Begins
  <2> QED BY <2>1, <2>2
<1>7. ~(Len(d) < Len(e))
  <2> SUFFICES ASSUME Len(d) < Len(e) PROVE FALSE
    OBVIOUS
  <2>1. ASSUME NEW k \in 1..Len(d) PROVE d[k] = e[k]
    <3>1. k \in Nat /\ 1 <= k /\ k <= Len(d) /\ k <= Len(e)
      BY <1>1
    <3>2. d[k] = m[k + 1]
      BY <1>5, <3>1
    <3>3. e[k] = m[k + 1]
      BY <1>6, <3>1
    <3> QED BY <3>2, <3>3
  <2> QED BY <1>1, <2>1, ShorterBegins DEF Ambiguous
<1>8. ~(Len(e) < Len(d))
  <2> SUFFICES ASSUME Len(e) < Len(d) PROVE FALSE
    OBVIOUS
  <2>1. ASSUME NEW k \in 1..Len(e) PROVE e[k] = d[k]
    <3>1. k \in Nat /\ 1 <= k /\ k <= Len(d) /\ k <= Len(e)
      BY <1>1
    <3>2. d[k] = m[k + 1]
      BY <1>5, <3>1
    <3>3. e[k] = m[k + 1]
      BY <1>6, <3>1
    <3> QED BY <3>2, <3>3
  <2> QED BY <1>1, <2>1, ShorterBegins DEF Ambiguous
<1> QED BY <1>1, <1>7, <1>8

(* Messages of the same bytes expire at the same time: the last eight      *)
(* bytes are the expiry.                                                   *)
LEMMA SameExpiry ==
  ASSUME NEW i \in 1..MaxBindings, NEW d \in Domains, NEW h \in ActionHashes, NEW x \in Expiries,
         NEW j \in 1..MaxBindings, NEW e \in Domains, NEW g \in ActionHashes, NEW y \in Expiries,
         canonical_message(i, d, h, x) = canonical_message(j, e, g, y)
  PROVE  x = y
<1> DEFINE s == MESSAGE_PREFIX \o d \o IdBytes(i) \o h
           u == MESSAGE_PREFIX \o e \o IdBytes(j) \o g
<1>1. /\ d \in Seq(Nat) /\ e \in Seq(Nat) /\ h \in Seq(Nat) /\ g \in Seq(Nat)
      /\ IdBytes(i) \in Seq(Nat) /\ IdBytes(j) \in Seq(Nat) /\ MESSAGE_PREFIX \in Seq(Nat)
      /\ x \in Nat /\ y \in Nat
  BY BindingConstants, IdEncoding DEF MESSAGE_PREFIX
<1>2. s \in Seq(Nat) /\ u \in Seq(Nat)
  <2>1. MESSAGE_PREFIX \o d \in Seq(Nat) /\ MESSAGE_PREFIX \o e \in Seq(Nat)
    BY <1>1, ConcatProperties
  <2>2. /\ MESSAGE_PREFIX \o d \o IdBytes(i) \in Seq(Nat)
        /\ MESSAGE_PREFIX \o e \o IdBytes(j) \in Seq(Nat)
    BY <1>1, <2>1, ConcatProperties
  <2> QED BY <1>1, <2>2, ConcatProperties
<1>3. s \o <<x>> = u \o <<y>>
  BY DEF canonical_message
<1> HIDE DEF s, u
<1>4. /\ Len(s \o <<x>>) = Len(s) + 1 /\ (s \o <<x>>)[Len(s) + 1] = x
      /\ Len(u \o <<y>>) = Len(u) + 1 /\ (u \o <<y>>)[Len(u) + 1] = y
  BY <1>1, <1>2
<1>5. Len(s) = Len(u)
  BY <1>2, <1>3, <1>4
<1> QED BY <1>3, <1>4, <1>5

(* Domains of one length leave the message no second reading.              *)
LEMMA MessageInjective ==
  ASSUME NEW i \in 1..MaxBindings, NEW d \in Domains, NEW h \in ActionHashes, NEW x \in Expiries,
         NEW j \in 1..MaxBindings, NEW e \in Domains, NEW g \in ActionHashes, NEW y \in Expiries,
         canonical_message(i, d, h, x) = canonical_message(j, e, g, y),
         Len(d) = Len(e)
  PROVE  i = j /\ d = e /\ h = g /\ x = y
<1> DEFINE P == MESSAGE_PREFIX
           s1 == P \o d              u1 == P \o e
           s2 == s1 \o IdBytes(i)    u2 == u1 \o IdBytes(j)
           s3 == s2 \o h             u3 == u2 \o g
<1>1. /\ P \in Seq(Nat) /\ d \in Seq(Nat) /\ e \in Seq(Nat)
      /\ h \in Seq(Nat) /\ g \in Seq(Nat) /\ x \in Nat /\ y \in Nat
      /\ IdBytes(i) \in Seq(Nat) /\ IdBytes(j) \in Seq(Nat)
      /\ Len(d) = Len(e) /\ Len(IdBytes(i)) = Len(IdBytes(j))
  BY BindingConstants, IdEncoding DEF MESSAGE_PREFIX
<1>2. <<x>> \in Seq(Nat) /\ <<y>> \in Seq(Nat) /\ Len(<<x>>) = 1 /\ Len(<<y>>) = 1
  BY <1>1
<1>3. s3 \o <<x>> = u3 \o <<y>>
  BY DEF canonical_message
<1> HIDE DEF P
<1>4. /\ s1 \in Seq(Nat) /\ u1 \in Seq(Nat)
      /\ Len(s1) = Len(P) + Len(d) /\ Len(u1) = Len(P) + Len(e)
  BY <1>1, ConcatProperties
<1> HIDE DEF s1, u1
<1>5. /\ s2 \in Seq(Nat) /\ u2 \in Seq(Nat)
      /\ Len(s2) = Len(s1) + Len(IdBytes(i)) /\ Len(u2) = Len(u1) + Len(IdBytes(j))
  BY <1>1, <1>4, ConcatProperties
<1> HIDE DEF s2, u2
<1>6. /\ s3 \in Seq(Nat) /\ u3 \in Seq(Nat)
  BY <1>1, <1>5, ConcatProperties
<1> HIDE DEF s3, u3
<1>7. Len(s3) = Len(u3)
  <2>1. Len(s3 \o <<x>>) = Len(s3) + 1 /\ Len(u3 \o <<y>>) = Len(u3) + 1
    BY <1>2, <1>6, ConcatProperties
  <2> QED BY <1>3, <1>6, <2>1
<1>8. s3 = u3 /\ <<x>> = <<y>>
  BY <1>2, <1>3, <1>6, <1>7, ConcatInjective
<1>9. s2 = u2 /\ h = g
  <2>1. s2 \o h = u2 \o g
    BY <1>8 DEF s3, u3
  <2>2. Len(s2) = Len(u2)
    BY <1>1, <1>4, <1>5
  <2> QED BY <1>1, <1>5, <2>1, <2>2, ConcatInjective
<1>10. s1 = u1 /\ IdBytes(i) = IdBytes(j)
  <2>1. s1 \o IdBytes(i) = u1 \o IdBytes(j)
    BY <1>9 DEF s2, u2
  <2>2. Len(s1) = Len(u1)
    BY <1>1, <1>4
  <2> QED BY <1>1, <1>4, <2>1, <2>2, ConcatInjective
<1>11. d = e
  <2>1. P \o d = P \o e
    BY <1>10 DEF s1, u1
  <2> QED BY <1>1, <2>1, ConcatInjective
<1>12. i = j
  BY <1>10, IdEncoding
<1>13. x = y
  <2>1. <<x>>[1] = <<y>>[1]
    BY <1>8
  <2> QED BY <2>1
<1> QED BY <1>9, <1>11, <1>12, <1>13

(* verify_action, given a receipt for a signature of the binding's scheme, *)
(* authorizes what that signature approved.                                *)
LEMMA VerifyAuthorizes ==
  ASSUME IInv, NEW id \in DOMAIN bindings,
         NEW d \in Domains, NEW h \in ActionHashes, NEW x \in Expiries,
         NEW receipt \in Verified(bindings[id].scheme), verify_action(id, receipt, d, h, x)
  PROVE  ActionAuthorized'
<1>1. PICK a \in approvals :
        /\ receipt.pk = a.pk
        /\ receipt.message = canonical_message(a.id, a.domain, a.action_hash, a.expiry_ms)
  BY DEF Verified
<1>2. a \in Approval
  BY DEF IInv, TypeOK
<1>3. /\ a.id \in 1..MaxBindings /\ a.domain \in Domains
      /\ a.action_hash \in ActionHashes /\ a.expiry_ms \in Expiries
      /\ a = [pk |-> a.pk, id |-> a.id, domain |-> a.domain,
              action_hash |-> a.action_hash, expiry_ms |-> a.expiry_ms]
  BY <1>2 DEF Approval
<1>4. id \in 1..MaxBindings
  BY BindingConstants DEF IInv, TypeOK
<1>5. /\ now <= x /\ receipt.pk = bindings[id].pk
      /\ receipt.message = canonical_message(id, d, h, x)
      /\ authorized' = {[id |-> id, domain |-> d, action_hash |-> h, expiry_ms |-> x, at |-> now]}
      /\ UNCHANGED <<bindings, approvals, enrolment>>
  BY DEF verify_action
<1>6. canonical_message(a.id, a.domain, a.action_hash, a.expiry_ms)
        = canonical_message(id, d, h, x)
  BY <1>1, <1>5
<1>7. a.expiry_ms = x
  BY <1>3, <1>4, <1>6, SameExpiry
<1>8. \/ a.id = id /\ a.domain = d /\ a.action_hash = h
      \/ Ambiguous(a.domain, d)
  <2> SUFFICES ASSUME ~Ambiguous(a.domain, d)
               PROVE  a.id = id /\ a.domain = d /\ a.action_hash = h
    OBVIOUS
  <2>1. Len(a.domain) = Len(d)
    BY <1>3, <1>4, <1>6, DomainsAgree
  <2> QED BY <1>3, <1>4, <1>6, <2>1, MessageInjective
<1>9. a.pk = enrolment[id].witness.attested_value
  BY <1>1, <1>5 DEF IInv, KeysEnrolled
<1> DEFINE b == [id |-> id, domain |-> d, action_hash |-> h, expiry_ms |-> x, at |-> now]
<1>10. b.id = id /\ b.domain = d /\ b.action_hash = h /\ b.expiry_ms = x /\ b.at = now
  OBVIOUS
<1>11. authorized' = {b}
  BY <1>5
<1> HIDE DEF b
<1>12. Covers(a, b)
  BY <1>6, <1>7, <1>8, <1>10 DEF Covers
<1> QED BY <1>5, <1>9, <1>10, <1>11, <1>12 DEF ActionAuthorized, Covers, canonical_message

(* Whatever else happens, an approval is never withdrawn and the enrolment *)
(* of a binding never changes.                                             *)
LEMMA OtherStepsKeepAuthorized ==
  ASSUME IInv, ActionAuthorized, authorized' = authorized, approvals \subseteq approvals',
         \A i \in 1..created : enrolment'[i] = enrolment[i]
  PROVE  ActionAuthorized'
  BY DEF IInv, TypeOK, ActionAuthorized

(* Every step keeps the last authorization justified.                      *)
LEMMA NextKeepsAuthorized ==
  ASSUME IInv, ActionAuthorized, [Next]_vars
  PROVE  ActionAuthorized'
<1>1. ASSUME NEW n \in DOMAIN witnesses, NEW pk \in Keys, NEW scheme \in Schemes,
             NEW o \in Accounts, new(n, pk, scheme, o)
      PROVE  ActionAuthorized'
  <2>1. \A i \in 1..created : enrolment'[i] = enrolment[i]
    <3>1. created \in Nat /\ DOMAIN enrolment = 1..created
      BY BindingConstants DEF IInv, TypeOK
    <3> QED BY <1>1, <3>1 DEF new, With
  <2> QED BY <1>1, <2>1, OtherStepsKeepAuthorized DEF new
<1>2. ASSUME NEW pk \in Keys, NEW id \in 1..created, NEW d \in Domains,
             NEW h \in ActionHashes, NEW x \in Expiries, approve(pk, id, d, h, x)
      PROVE  ActionAuthorized'
  BY <1>2, OtherStepsKeepAuthorized DEF approve
<1>3. ASSUME NEW id \in DOMAIN bindings, NEW d \in Domains, NEW h \in ActionHashes,
             NEW x \in Expiries, NEW receipt \in Verified(bindings[id].scheme),
             verify_action(id, receipt, d, h, x)
      PROVE  ActionAuthorized'
  BY <1>3, VerifyAuthorizes
<1>4. ASSUME UNCHANGED <<approvals, enrolment, authorized>> PROVE ActionAuthorized'
  BY <1>4, OtherStepsKeepAuthorized
<1>5. ASSUME NEW id \in DOMAIN bindings, NEW o \in Accounts, transfer_to(id, o)
      PROVE  ActionAuthorized'
  BY <1>4, <1>5 DEF transfer_to
<1>6. ASSUME NEW id \in DOMAIN bindings, destroy(id) PROVE ActionAuthorized'
  BY <1>4, <1>6 DEF destroy
<1>7. ASSUME NEW w \in Attestations, supply(w) PROVE ActionAuthorized'
  BY <1>4, <1>7 DEF supply
<1>8. ASSUME NEW n \in DOMAIN witnesses, drop(n) PROVE ActionAuthorized'
  BY <1>4, <1>8 DEF drop
<1>9. CASE Tick
  BY <1>4, <1>9 DEF Tick
<1>10. CASE UNCHANGED vars
  BY <1>4, <1>10 DEF vars
<1> QED BY <1>1, <1>2, <1>3, <1>5, <1>6, <1>7, <1>8, <1>9, <1>10 DEF Next, BindingNext

(* What verify_action authorizes was approved by the device the binding    *)
(* was enrolled with: in these terms and for this binding, whatever the    *)
(* lengths of the domains, unless one of the two domains begins with the   *)
(* other, for canonical_message concatenates without lengths.              *)
THEOREM AuthorizedActions == Spec => []ActionAuthorized
<1>1. Init => ActionAuthorized
  BY DEF Init, ActionAuthorized
<1>2. IInv /\ ActionAuthorized /\ [Next]_vars => ActionAuthorized'
  BY NextKeepsAuthorized
<1> QED BY <1>1, <1>2, InvariantHolds, PTL DEF Spec

----------------------------------------------------------------------------
(* No binding was issued later than now: the clock only goes forward.      *)
IssuedBefore == \A id \in DOMAIN bindings : bindings[id].issued_at_ms <= now

LEMMA NextKeepsIssuedBefore ==
  ASSUME IInv, IssuedBefore, [Next]_vars
  PROVE  IssuedBefore'
<1>0. now \in Nat /\ \A id \in DOMAIN bindings : bindings[id].issued_at_ms \in Nat
  BY BindingConstants DEF IInv, TypeOK, BindingRecord
<1>1. ASSUME NEW n \in DOMAIN witnesses, NEW pk \in Keys, NEW scheme \in Schemes,
             NEW o \in Accounts, new(n, pk, scheme, o)
      PROVE  IssuedBefore'
  <2> DEFINE b == [source |-> witnesses[n].source, scheme |-> scheme, pk |-> pk,
                   issued_at_ms |-> now, owner |-> o]
  <2>1. bindings' = With(bindings, created + 1, b) /\ now' = now /\ b.issued_at_ms = now
    BY <1>1 DEF new
  <2> HIDE DEF b
  <2> QED BY <1>0, <2>1 DEF IssuedBefore, With
<1>2. ASSUME NEW id \in DOMAIN bindings, NEW o \in Accounts, transfer_to(id, o)
      PROVE  IssuedBefore'
  <2>1. /\ DOMAIN bindings' = DOMAIN bindings /\ now' = now
        /\ bindings'[id] = [bindings[id] EXCEPT !.owner = o]
        /\ \A i \in DOMAIN bindings : i # id => bindings'[i] = bindings[i]
    BY <1>2 DEF transfer_to
  <2>2. bindings'[id].issued_at_ms = bindings[id].issued_at_ms
    BY <2>1 DEF IInv, TypeOK, BindingRecord
  <2> QED BY <2>1, <2>2 DEF IssuedBefore
<1>3. ASSUME NEW id \in DOMAIN bindings, destroy(id) PROVE IssuedBefore'
  <2>1. /\ DOMAIN bindings' \subseteq DOMAIN bindings /\ now' = now
        /\ \A i \in DOMAIN bindings' : bindings'[i] = bindings[i]
    BY <1>3, WithoutEntry DEF destroy
  <2> QED BY <2>1 DEF IssuedBefore
<1>4. CASE Tick
  BY <1>0, <1>4 DEF Tick, IssuedBefore
<1>5. CASE UNCHANGED <<now, bindings>>
  BY <1>5 DEF IssuedBefore
<1> QED
  BY <1>1, <1>2, <1>3, <1>4, <1>5 DEF Next, BindingNext, supply, drop, approve, verify_action, vars

(* Only `new` makes a binding, under an id no object had before, and only  *)
(* verify_action authorizes, for the binding it borrows.                   *)
LEMMA StepIsFinal ==
  ASSUME IInv, IssuedBefore, Next
  PROVE  /\ \A id \in DOMAIN bindings' : id \in DOMAIN bindings \/ id \notin DOMAIN enrolment
         /\ authorized' # authorized =>
              \A a \in authorized' : a.id \in DOMAIN bindings /\ a.at >= bindings[a.id].issued_at_ms
<1>0. /\ created \in Nat /\ DOMAIN enrolment = 1..created /\ now \in Nat
      /\ \A id \in DOMAIN bindings : bindings[id].issued_at_ms \in Nat
  BY BindingConstants DEF IInv, TypeOK, BindingRecord
<1>1. ASSUME NEW n \in DOMAIN witnesses, NEW pk \in Keys, NEW scheme \in Schemes,
             NEW o \in Accounts, new(n, pk, scheme, o)
      PROVE  /\ DOMAIN bindings' = DOMAIN bindings \cup {created + 1}
             /\ authorized' = authorized
  BY <1>1 DEF new, With
<1>2. ASSUME NEW id \in DOMAIN bindings, NEW d, NEW h, NEW x, NEW receipt,
             verify_action(id, receipt, d, h, x)
      PROVE  /\ bindings' = bindings
             /\ \A a \in authorized' : a.id = id /\ a.at = now
  BY <1>2 DEF verify_action
<1>3. ASSUME NEW id \in DOMAIN bindings,
             (\E o \in Accounts : transfer_to(id, o)) \/ destroy(id)
      PROVE  DOMAIN bindings' \subseteq DOMAIN bindings /\ authorized' = authorized
  <2>1. CASE \E o \in Accounts : transfer_to(id, o)
    BY <2>1 DEF transfer_to
  <2>2. CASE destroy(id)
    BY <2>2, WithoutEntry DEF destroy
  <2> QED BY <1>3, <2>1, <2>2
<1>4. CASE \/ \E pk \in Keys, id \in 1..created, d \in Domains, h \in ActionHashes,
                 x \in Expiries : approve(pk, id, d, h, x)
           \/ \E w \in Attestations : supply(w)
           \/ \E n \in DOMAIN witnesses : drop(n)
           \/ Tick
  BY <1>4 DEF approve, supply, drop, Tick
<1> QED
  <2>1. CASE \E n \in DOMAIN witnesses, pk \in Keys, scheme \in Schemes, o \in Accounts :
               new(n, pk, scheme, o)
    BY <1>0, <1>1, <2>1
  <2>2. CASE \E id \in DOMAIN bindings, d \in Domains, h \in ActionHashes, x \in Expiries :
               \E receipt \in Verified(bindings[id].scheme) : verify_action(id, receipt, d, h, x)
    <3> PICK id \in DOMAIN bindings : \E d, h, x, receipt : verify_action(id, receipt, d, h, x)
      BY <2>2
    <3>1. bindings' = bindings /\ \A a \in authorized' : a.id = id /\ a.at = now
      BY <1>2
    <3>2. now >= bindings[id].issued_at_ms
      BY <1>0 DEF IssuedBefore
    <3> QED BY <3>1, <3>2
  <2>3. CASE \E id \in DOMAIN bindings, o \in Accounts : transfer_to(id, o)
    BY <1>3, <2>3
  <2>4. CASE \E id \in DOMAIN bindings : destroy(id)
    BY <1>3, <2>4
  <2> QED BY <1>4, <2>1, <2>2, <2>3, <2>4 DEF Next, BindingNext

(* A destroyed binding authorizes nothing more, its id is never given out  *)
(* again, and no action is dated before its binding was issued.            *)
THEOREM RevocationIsFinal == Spec => DestroyedIsFinal
<1>1. Init => IssuedBefore
  BY DEF Init, IssuedBefore
<1>2. IInv /\ IssuedBefore /\ [Next]_vars => IssuedBefore'
  BY NextKeepsIssuedBefore
<1> DEFINE Final ==
      /\ \A id \in DOMAIN bindings' : id \in DOMAIN bindings \/ id \notin DOMAIN enrolment
      /\ authorized' # authorized =>
           \A a \in authorized' : a.id \in DOMAIN bindings /\ a.at >= bindings[a.id].issued_at_ms
<1>3. IInv /\ IssuedBefore /\ [Next]_vars => [Final]_vars
  BY StepIsFinal
<1> QED BY <1>1, <1>2, <1>3, InvariantHolds, PTL DEF Spec, DestroyedIsFinal
=============================================================================
