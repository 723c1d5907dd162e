--------------------------- MODULE DeviceBinding ---------------------------
(***************************************************************************)
(* The device_binding package and its scheme verifiers.                    *)
(*                                                                         *)
(* `new` consumes one Witness and mints a DeviceBinding<Source, Scheme>,   *)
(* an owned object.  A device approves an action by signing the canonical  *)
(* message of (binding id, domain, action hash, expiry); a scheme package  *)
(* turns the signature into a Verified<Scheme> receipt, which              *)
(* `verify_action` matches with the binding in the same transaction.       *)
(*                                                                         *)
(* Where witnesses come from is left open here (see Attestation): the      *)
(* environment supplies any of Attestations.                               *)
(***************************************************************************)
EXTENDS Integers, Sequences, FiniteSets, SequencesExt

CONSTANTS
  Attestations,   \* Witness values that can reach `new`
  Keys,           \* public keys, as the byte strings a Witness carries
  KeyScheme,      \* Keys -> Schemes: the algorithm of the key pair
  KeyForm,        \* Keys -> Forms: how the byte string encodes the key
  Accounts,       \* addresses that may own a binding
  Domains,        \* byte sequences used as `domain`
  ActionHashes,   \* byte sequences used as `action_hash`
  Expiries,       \* values of expiry_ms
  IdBytes(_),     \* BCS of an object id: 32 bytes, all ids alike
  U64Max,         \* bound: last value of the clock
  MaxWitnesses,   \* bound: witnesses ever supplied
  MaxBindings,    \* bound: bindings ever minted
  MaxApprovals    \* bound: actions devices approve

VARIABLES
  now,        \* sui::clock
  witnesses,  \* Witness values in existence, by mint number
  minted,     \* number of witnesses minted so far
  bindings,   \* live DeviceBinding objects, by object id
  created,    \* number of objects created so far: ids are never reused
  approvals,  \* [pk, id, domain, action_hash, expiry_ms] signed by a device
  enrolment,  \* history: object id -> mint number and content of its Witness
  authorized  \* the last action verify_action answered TRUE for, at most one

vars == <<now, witnesses, minted, bindings, created, approvals, enrolment, authorized>>

Schemes == {"Ed25519", "Secp256k1", "Secp256r1"}
Forms == {"raw32", "x963", "spki"}

(* The key encoding each scheme package decodes: 32 bytes as they stand,   *)
(* or X9.63 uncompressed, which `compress` shortens for the native check.  *)
FormOf(scheme) == IF scheme = "Ed25519" THEN "raw32" ELSE "x963"

MESSAGE_PREFIX == <<0>>

(* Mutant: the message does not name the binding.                          *)
canonical_message_NoId(id, domain, action_hash, expiry_ms) ==
  MESSAGE_PREFIX \o domain \o action_hash \o <<expiry_ms>>

(* The prefix, the domain, the object id, the action hash and the 8 bytes  *)
(* of the expiry, one after the other.                                     *)
canonical_message(id, domain, action_hash, expiry_ms) ==
  MESSAGE_PREFIX \o domain \o IdBytes(id) \o action_hash \o <<expiry_ms>>

ASSUME BindingConstants ==
  /\ KeyScheme \in [Keys -> Schemes]
  /\ KeyForm \in [Keys -> Forms]
  /\ \A w \in Attestations : w.attested_value \in Keys
  /\ Domains \subseteq Seq(Nat)
  /\ ActionHashes \subseteq Seq(Nat)
  /\ Expiries \subseteq Nat
  /\ U64Max \in Nat
  /\ MaxWitnesses \in Nat
  /\ MaxBindings \in Nat
  /\ MaxApprovals \in Nat

ASSUME IdEncoding ==
  \A i, j \in 1..MaxBindings :
    /\ IdBytes(i) \in Seq(Nat)
    /\ Len(IdBytes(i)) = Len(IdBytes(j))
    /\ IdBytes(i) = IdBytes(j) => i = j

----------------------------------------------------------------------------
Init ==
  /\ now = 0
  /\ witnesses = <<>>
  /\ minted = 0
  /\ bindings = <<>>
  /\ created = 0
  /\ approvals = {}
  /\ enrolment = <<>>
  /\ authorized = {}

Without(f, x) == [y \in DOMAIN f \ {x} |-> f[y]]
With(f, x, v) == [y \in DOMAIN f \cup {x} |-> IF y = x THEN v ELSE f[y]]

(* Environment: one of the attest packages returns a Witness.              *)
supply(w) ==
  /\ minted < MaxWitnesses
  /\ minted' = minted + 1
  /\ witnesses' = With(witnesses, minted + 1, w)
  /\ UNCHANGED <<now, bindings, created, approvals, enrolment, authorized>>

(* Witness has drop: a value may also simply be given up.                  *)
drop(n) ==
  /\ witnesses' = Without(witnesses, n)
  /\ UNCHANGED <<now, minted, bindings, created, approvals, enrolment, authorized>>

(* Mutant: `new` borrows the Witness instead of taking it by value.        *)
new_KeepsWitness(n, pk, scheme, recipient) ==
  /\ pk = witnesses[n].attested_value
  /\ created < MaxBindings
  /\ created' = created + 1
  /\ bindings' = With(bindings, created + 1,
       [source |-> witnesses[n].source, scheme |-> scheme, pk |-> pk,
        issued_at_ms |-> now, owner |-> recipient])
  /\ enrolment' = With(enrolment, created + 1, [number |-> n, witness |-> witnesses[n]])
  /\ UNCHANGED <<now, witnesses, minted, approvals, authorized>>

(* Mutant: the key is not compared with the attested one.                  *)
new_AnyKey(n, pk, scheme, recipient) ==
  /\ created < MaxBindings
  /\ created' = created + 1
  /\ witnesses' = Without(witnesses, n)
  /\ bindings' = With(bindings, created + 1,
       [source |-> witnesses[n].source, scheme |-> scheme, pk |-> pk,
        issued_at_ms |-> now, owner |-> recipient])
  /\ enrolment' = With(enrolment, created + 1, [number |-> n, witness |-> witnesses[n]])
  /\ UNCHANGED <<now, minted, approvals, authorized>>

(* Mutant: ids are numbered by the bindings alive.                         *)
new_IdReused(n, pk, scheme, recipient) ==
  LET id == Cardinality(DOMAIN bindings) + 1 IN
  /\ pk = witnesses[n].attested_value
  /\ created < MaxBindings
  /\ created' = created + 1
  /\ witnesses' = Without(witnesses, n)
  /\ bindings' = With(bindings, id,
       [source |-> witnesses[n].source, scheme |-> scheme, pk |-> pk,
        issued_at_ms |-> now, owner |-> recipient])
  /\ enrolment' = With(enrolment, id, [number |-> n, witness |-> witnesses[n]])
  /\ UNCHANGED <<now, minted, approvals, authorized>>

(* device_binding::new, and the transfer_to that places its result: the    *)
(* object has neither drop nor store, so the transaction that mints it     *)
(* must place it.  The scheme is the caller's choice.                      *)
new(n, pk, scheme, recipient) ==
  /\ pk = witnesses[n].attested_value
  /\ created < MaxBindings
  /\ created' = created + 1
  /\ witnesses' = Without(witnesses, n)
  /\ bindings' = With(bindings, created + 1,
       [source |-> witnesses[n].source, scheme |-> scheme, pk |-> pk,
        issued_at_ms |-> now, owner |-> recipient])
  /\ enrolment' = With(enrolment, created + 1, [number |-> n, witness |-> witnesses[n]])
  /\ UNCHANGED <<now, minted, approvals, authorized>>

(* transfer_to takes any binding by value, from whoever owns it.           *)
transfer_to(id, recipient) ==
  /\ bindings' = [bindings EXCEPT ![id].owner = recipient]
  /\ UNCHANGED <<now, witnesses, minted, created, approvals, enrolment, authorized>>

destroy(id) ==
  /\ bindings' = Without(bindings, id)
  /\ UNCHANGED <<now, witnesses, minted, created, approvals, enrolment, authorized>>

(* A device signs action_message(binding, ...) for a binding that exists   *)
(* or existed: an id is not known before its object is created.            *)
approve(pk, id, domain, action_hash, expiry_ms) ==
  /\ Cardinality(approvals) < MaxApprovals
  /\ approvals' = approvals \cup
       {[pk |-> pk, id |-> id, domain |-> domain,
         action_hash |-> action_hash, expiry_ms |-> expiry_ms]}
  /\ UNCHANGED <<now, witnesses, minted, bindings, created, enrolment, authorized>>

(* The `verify` of the three scheme packages: the Verified<Scheme>         *)
(* receipts a transaction can obtain.  The native check succeeds only on   *)
(* the signature of a key of this scheme, given in the form it decodes.    *)
Verified(scheme) ==
  {[pk |-> a.pk, message |-> canonical_message(a.id, a.domain, a.action_hash, a.expiry_ms)] :
     a \in {x \in approvals : KeyScheme[x.pk] = scheme /\ KeyForm[x.pk] = FormOf(scheme)}}

(* verify_action answers TRUE.  The binding is borrowed, the receipt is    *)
(* consumed; the same signature makes a new receipt in another transaction.*)
verify_action(id, receipt, domain, action_hash, expiry_ms) ==
  /\ now <= expiry_ms
  /\ receipt.pk = bindings[id].pk
  /\ receipt.message = canonical_message(id, domain, action_hash, expiry_ms)
  /\ authorized' = {[id |-> id, domain |-> domain, action_hash |-> action_hash,
                     expiry_ms |-> expiry_ms, at |-> now]}
  /\ UNCHANGED <<now, witnesses, minted, bindings, created, approvals, enrolment>>

Tick ==
  /\ now < U64Max
  /\ now' = now + 1
  /\ UNCHANGED <<witnesses, minted, bindings, created, approvals, enrolment, authorized>>

BindingNext ==
  \/ \E n \in DOMAIN witnesses, pk \in Keys, scheme \in Schemes, a \in Accounts :
        new(n, pk, scheme, a)
  \/ \E id \in DOMAIN bindings, a \in Accounts : transfer_to(id, a)
  \/ \E id \in DOMAIN bindings : destroy(id)
  \/ \E pk \in Keys, id \in 1..created, d \in Domains, h \in ActionHashes, x \in Expiries :
        approve(pk, id, d, h, x)
  \/ \E id \in DOMAIN bindings, d \in Domains, h \in ActionHashes, x \in Expiries :
        \E receipt \in Verified(bindings[id].scheme) : verify_action(id, receipt, d, h, x)

Next ==
  \/ BindingNext
  \/ \E w \in Attestations : supply(w)
  \/ \E n \in DOMAIN witnesses : drop(n)
  \/ Tick

Spec == Init /\ [][Next]_vars

----------------------------------------------------------------------------
(* Properties *)

BindingRecord ==
  [source : {w.source : w \in Attestations}, scheme : Schemes, pk : Keys,
   issued_at_ms : 0..U64Max, owner : Accounts]

Approval ==
  [pk : Keys, id : 1..MaxBindings, domain : Domains,
   action_hash : ActionHashes, expiry_ms : Expiries]

(* Type invariant of the objects and of the history.                       *)
TypeOK ==
  /\ now \in 0..U64Max
  /\ minted \in 0..MaxWitnesses
  /\ DOMAIN witnesses \subseteq 1..minted
  /\ \A n \in DOMAIN witnesses : witnesses[n] \in Attestations
  /\ created \in 0..MaxBindings
  /\ DOMAIN enrolment = 1..created
  /\ \A id \in DOMAIN enrolment : /\ enrolment[id].number \in 1..minted
                                  /\ enrolment[id].witness \in Attestations
  /\ DOMAIN bindings \subseteq 1..created
  /\ \A id \in DOMAIN bindings : bindings[id] \in BindingRecord
  /\ approvals \subseteq Approval
  /\ \A a \in authorized : a.id \in 1..created

(* One attestation enrols at most one device binding, destroyed ones       *)
(* included, and cannot be used again afterwards: `new` takes the Witness  *)
(* by value.                                                               *)
OneBindingPerWitness ==
  /\ \A i, j \in DOMAIN enrolment : enrolment[i].number = enrolment[j].number => i = j
  /\ \A i \in DOMAIN enrolment : enrolment[i].number \notin DOMAIN witnesses

(* Where a domain ends is not in the message: when one of two domains goes *)
(* on where the other ends, the rest of the longer one may be read as part *)
(* of the id.                                                              *)
Ambiguous(d, e) == IsStrictPrefix(d, e) \/ IsStrictPrefix(e, d)

(* What an approval stands for: its own action on its own binding, and     *)
(* whatever has the same bytes under an ambiguous domain.                  *)
Covers(p, a) ==
  /\ p.expiry_ms = a.expiry_ms
  /\ canonical_message(p.id, p.domain, p.action_hash, p.expiry_ms)
       = canonical_message(a.id, a.domain, a.action_hash, a.expiry_ms)
  /\ \/ p.id = a.id /\ p.domain = a.domain /\ p.action_hash = a.action_hash
     \/ Ambiguous(p.domain, a.domain)

(* What verify_action authorizes, in time, was approved by the device      *)
(* whose attestation enrolled the binding: in exactly these terms and for  *)
(* exactly this binding unless the two domains are ambiguous; so for all   *)
(* domains of one length, and for any two of which neither begins with the *)
(* other, like the `miso/transfer` and `miso/redeem` of the tests.  Also   *)
(* when the key is bound twice, the binding changed hands, or an earlier   *)
(* binding of the key was destroyed.                                       *)
ActionAuthorized ==
  \A a \in authorized :
    /\ a.at <= a.expiry_ms
    /\ \E p \in approvals :
         /\ p.pk = enrolment[a.id].witness.attested_value
         /\ Covers(p, a)

(* device_binding.move, test_action_message_distinct_per_binding_id: "a    *)
(* receipt for one binding can never authorize an action on another".      *)
ReceiptsStayWithBinding ==
  \A a \in authorized :
    \E p \in approvals : p.pk = enrolment[a.id].witness.attested_value /\ p.id = a.id

(* Revocation: once destroyed, a binding authorizes nothing more and its   *)
(* id is never given out again.                                            *)
DestroyedIsFinal ==
  [][/\ \A id \in DOMAIN bindings' : id \in DOMAIN bindings \/ id \notin DOMAIN enrolment
     /\ authorized' # authorized =>
          \A a \in authorized' : a.id \in DOMAIN bindings /\ a.at >= bindings[a.id].issued_at_ms]_vars
=============================================================================
