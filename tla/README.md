# A verification project for `attestation`

The repository turns device attestations (Apple App Attest, Apple assertions,
Android Key Attestation) into on-chain credentials on Sui. A verifier runs in an
AWS Nitro enclave; Move packages accept its results and persist them. This
directory holds TLA+ modules of that system, TLC configurations, and theorems
checked by TLAPS. `PROJECT.json` lists the runs, the source lines behind each
definition, the hazards, the findings and the theorems.

## 1. The system

```
 device ──evidence──▶ proxy ──VSOCK──▶ bridge ──TCP──▶ handler ──▶ NSM
                                                         │ attest-apple / attest-android
                                                         ▼
                            document(user_data = SHA-256(BCS(payload)), PCRs, time)
                                                         │
 cap holder ──update_pcrs──▶ EnclavePolicy ──▶  verify (attest_apple, attest_android)
                                                         │  Witness<Source>, linear
                                                         ▼
 device ──signature──▶ scheme verifier ──Verified<Scheme>──▶ device_binding
```

| Component | State | Operations | What is hard | What makes it correct |
|---|---|---|---|---|
| `attestation`, `attest_apple`, `attest_android` (Move) | shared policy, clock, linear witnesses | `init`, `update_pcrs`, three `verify` | two clocks, u64 sums, rotation while documents are in flight, replay of documents between packages | a Witness repeats what a pinned build verified, within its window |
| `device_binding` and three scheme packages (Move) | owned bindings | `new`, `transfer_to`, `verify_action`, `destroy` | replay of signatures between bindings and actions, several bindings of a key, revocation | one binding per Witness; only approved actions; a destroyed binding is final |
| `enclave-server` (Rust) | boot stage, bridge, requests in flight, descriptors | boot, `vsock_to_tcp_bridge`, five handlers, `request_nsm_attestation` | concurrent handlers, boot races, exhausted descriptors, NSM errors | an answer carries the document of its own payload; nobody waits for ever |
| `attest-android` (Rust) | none, a function | `validate_chain`, `check_status`, `KeyDescription::from_der`, `attestation_application_id`, `StatusList::from_json`, policy | re-issued and several roots, order of checks, number encodings, lengths and ends of hand-read formats | accepted means certified and within policy; genuine chains are not refused an anchor; what is incomplete is refused, what is whole is read as it says |
| `attest-apple` (Rust) | none, two functions | `verify_app_attest`, `verify_assertion`, the CBOR, COSE and authData readers | pieces of several attestations combined; a clock the host sets; repeated and ill-typed map entries | accepted means certified, or signed, on a device for that app |
| proxy (Go) and the bridge's `copy_bidirectional` | a connection, two goroutines, a channel | `handle` | four copiers at once, resets, peers that close at any moment | order is kept; a client that stays gets its whole response; nothing stays behind |
| `ios-demo` (Swift) | the active key in UserDefaults, flags and captures of the view model | `attest`, `assert`, `clearActiveKey` | state across awaits, a double tap, a kill at any point | a capture names the key that signed; the active key is an attested one; indicators end |

The components meet in five places: the enclave hands out documents
(`EnclaveServer` implements the environment that `Attestation` assumes); a
Witness passes from `verify` to `new` (`AttestedDevice` composes the two
packages); the verifiers decide which evidence the handlers accept
(`Evidence` in `Attestation`, `accepted` in `EnclaveServer`, decided by
`AndroidVerifier` and `AppleVerifier`); proxy and bridge carry requests
(`EnclaveServer` takes a request and its answer as a whole, `Tunnel` shows that a
client that stays gets the whole of it); and the client keeps the key it reads from
its attestation object, under which the enclave verifies its assertions
(`AttestService` for the keeping, `ClientAgrees` of `Readers` for the reading).

## 2. Modules

* **`Attestation`**: from verified evidence to a Witness. A document is a record
  with the registers of its image, optional `user_data` and `public_key`, and
  the NSM time. `attest` and `attestation_doc` are what a build of this
  repository may obtain from the NSM; `other_document` is every other image on
  any Nitro host. `verify_apple_attestation`, `verify_apple_assertion` and
  `verify_android_attestation` are the Move functions: every `assert!` is a
  conjunct of the guard, since an aborted transaction changes nothing. BCS keeps
  field boundaries but neither struct names nor packages, so a payload is the
  tuple of its fields. SHA-256 is collision free. `verified` and `pinned` are
  history variables.
* **`DeviceBinding`**: `device_binding` and the scheme packages. Messages are
  sequences of bytes, put together as in `canonical_message`, because the
  property is about that concatenation. `Verified(scheme)` is the set of
  receipts a transaction can obtain: signatures that some device made with a key
  of that algorithm, in the encoding the package decodes. `enrolment` is
  history.
* **`AttestedDevice`** composes the two over one clock and one set of witnesses;
  **`Credential`** is the abstract promise (a credential is issued for a checked
  key, allows only what that key approved for it, and is revoked for good), and
  the composition implements it under the mapping at the end of
  `AttestedDevice`.
* **`EnclaveServer`**: boot, bridge, proxy dial and concurrent handlers. A
  handler body has no await, so its steps are its system calls; a request goes
  through `backlog`, `accepted` (by the bridge), `connected` (to axum's listener),
  `handler`, `nsm_init`, `nsm_request`, and ends `answered` or `closed`. A
  connection is kept alive after its answer, with its sockets open, until the client
  hangs up (`done`); `connected` waits for axum's accept with two sockets open.
  `OpenFds` counts sockets and NSM descriptors. What the
  verifier says of a body is part of the body. An INSTANCE of `Attestation` with
  the chain frozen states that the server obtains no document that module does
  not allow it.
* **`AndroidVerifier`**: `verify_attestation` as one step per check in the order
  of the code, over certificates abstracted to names, keys, signer, validity,
  serial and key description. Serials are bytes and hex digits and tag
  numbers keep their modulus, for there the encoding decides.
* **`AppleVerifier`**: the two Apple verifiers in the world they judge. Devices
  and Apple's CA act; a caller combines any authenticator data, chains, keys and
  parameters; the host sets the clock.
* **`StatusListJson`**, **`KeyDescriptionDer`**, **`AppleCbor`**: the hand-written
  decoders as operators, and beside them the encoding they are to undo and what an
  encoded document means. Status lists are sequences of symbols, DER is bytes,
  CBOR is ciborium's items (the tokens; the loops over the maps are this code's).
  A decoder returns the empty set for an `Err`. `KeyDescriptionDer` uses RECURSIVE
  operators, since its walk goes to the end of its input at every level, and is for
  TLC only. The loops of the other two are recursive functions: those of `AppleCbor`
  of the entry, those of `StatusListJson` of the turn (`ReadMembers`, which both the
  entries and a record are read with, where the code has two loops of one form) and,
  where a string is scanned, of the position (`Escaped`).
* **`StatusLists`** (the status list), **`Readers`** (`AppleCbor`, and the input of the
  hash that commits to an Android chain) and **`Decoders`** (the DER)
  put them in a state machine over the two variables of **`Reading`**: `subject` is a
  document, `cut` how much of it has arrived. `StatusLists` and `Readers` have their
  own specifications, `StatusSpec` and `ReadersSpec`, for the theorems. Every state compares the
  decoder of the document with its meaning. What has an outer length (a list, an application id,
  authenticator data) is cut inside and wrapped again with the right length, so that
  the outer reader cannot hide what the inner one does.
* **`Verifiers`** puts `AndroidVerifier`, `AppleVerifier` and the readers side by side,
  as the handlers call them, for TLC. They share no state, so a behaviour is about one
  of them (`part`) while the others are at rest: the states are the sum of theirs, and
  each step is one of theirs.
* **`Tunnel`**: one connection over three hops, `client - proxy - bridge - server`.
  A hop is a queue of at most `Window` chunks in each direction, the state of its
  writer's end (open, FIN, reset) and two sockets. Each goroutine of `handle` and
  each direction of `copy_bidirectional` is a copier that reads, holds and writes a
  chunk. A socket closed with data unread resets the peer, and the reset may
  overtake data. `done` is the channel, `main` where `handle` stands. axum may answer
  once it has the head of a request, the first chunk (`ServerSend`): the router and the
  Json extractors refuse some before they have read the body.
* **`AttestService`**: the client app. A task of `attest` or `assert` is at one of
  its awaits; the device answers or fails; the user taps, taps twice (the flag is
  set only when the task runs) and clears; UserDefaults is flushed some time later,
  and the app is killed at any point.
* **`AttestationProofs`**, **`DeviceBindingProofs`**, **`AttestedDeviceProofs`**,
  **`EnclaveServerProofs`**, **`AndroidVerifierProofs`**, **`AppleVerifierProofs`**,
  **`TunnelProofs`**, **`AttestServiceProofs`**: the theorems about the module each is
  named after. `AppleVerifierProofs` also has those about `Readers`, and
  `AndroidVerifierProofs` the one about `StatusLists`.
* **`MC*`** and the `.cfg` files: the instances TLC checks.

Operators whose comment starts with "Mutant" are plausible mistakes in the code,
each paired in `PROJECT.json` with the property that detects it.

## 3. Runs

Passing runs:

| Run | Properties | What it shows |
|---|---|---|
| `attestation` | `TypeOK`, `WitnessProvenance`, `MintedFromPinned` | however documents, rotations and clocks interleave, a Witness repeats what a pinned build verified; it is minted under the measurement pinned at that moment and inside the window |
| `device_binding` | `TypeOK`, `OneBindingPerWitness`, `ActionAuthorized`, `DestroyedIsFinal` | enrolment is single use; what is authorized was approved by the enrolled device, in exactly these terms unless one of the two domains begins with the other; destruction is final |
| `attested_device` | `BindingProvenance`, `ImplementsCredential` | what the Witness of a binding says was verified by a pinned build; the composition refines `Credential` |
| `enclave_server` | `TypeOK`, `SuccessIsBound`, `ImplementsAttestation`, `EveryRequestSettles` | answers are bound to their own request; the server is an environment `Attestation` allows; every connection is answered or closed, unless connections that stay hold all descriptors |
| `verifiers` | `AcceptedIsCertified`, `AcceptedMeetsPolicy`, `GenuineChainTrusted` | soundness of chain and policy against independent definitions; no genuine chain is called untrusted |
| | `AttestationGenuine`, `AssertionFollowsAttestation` | no combination of pieces is accepted that a device did not certify or sign, for that app |
| | `StatusListWhole`, `AuthorizationListWhole`, `KeyDescriptionWhole`, `ApplicationIdWhole` | a document is refused at every length at which it is not whole, and read as it says when it is: signs, widths, length forms, unknown and repeated fields |
| | `AuthDataWhole`, `LastEntryDecides`, `ChainCommitted`, `ClientAgrees` | authenticator data is divided without loss; of repeated CBOR keys the last decides, in all three loops; `detail_hash` commits to one chain; client and verifier read the same key |
| `tunnel` | `TypeOK`, `InOrder`, `PatientClientServed`, `NothingLeaks` | whoever closes, whenever: chunks keep their order, a client that stays is served by a server that reads its request, and both relays let go of everything |
| `attest_service` | `TypeOK`, `CaptureVerifies`, `ActiveKeyAttested`, `FlagsEnd` | overlapping tasks, failures, clearing and kills: a capture names the key that signed it, only attested keys are active, no indicator stays on |

Runs that compare the code with what the repository says of it, each violated,
and each a finding in `PROJECT.json`:

| Run | Property | What TLC finds |
|---|---|---|
| `attestation_source` | `NotTransferable` | a document that `attest_apple_attestation` bound mints a `Witness<AndroidKeyAttestation>` (and the other way round): the two payloads have one layout and name no source |
| `device_binding_domains` | `ReceiptsStayWithBinding` | an approval of domain `<<1, 2>>` and no hash for binding 1 authorizes domain `<<1>>` and hash `<<1>>` on binding 2: the message has no lengths |
| `enclave_server_fds` | `VerifiedCarriesDocument` | each request leaves an NSM descriptor open, until no verified request obtains a document |
| `android_verifier_status` | `RevokedIsRejected` | a serial listed without its leading zero digit is not found |
| `android_verifier_boot` | `BootReported` | without a hardware root of trust, a locked device and a list of boot keys are asked for in vain |

The ambiguity of `device_binding_domains` needs one domain to begin with the other
(`Ambiguous`). The domains of the tests, `miso/transfer` and `miso/redeem`, differ in
length and are told apart all the same, and so are domains of one length:
`ActionAuthorized` and the theorem `AuthorizedActions` say that nothing else is
ambiguous. `AcceptedMeetsPolicy` is the part of the policy that the code keeps, and
`BootReported` what its comments ask beyond it.

Further differences between code and comments that the modules reproduce, without
a run of their own:

* `device_binding_secp256r1.move:25` says X9.63 is the form an attestation provides;
  `attest-android` attests a SubjectPublicKeyInfo (`lib.rs:160`), so a binding of an
  Android key can be made and no scheme package can decode its key (`FormOf`).
* `roots.rs:70` says every certificate but the leaf must be a CA; line 74 drops the
  result and says the anchor decides instead. The model has no CA flag, and its
  chains include one that an end-entity certificate issues.
* `transfer_to` moves a binding at any time, though the header of
  `device_binding.move` calls it soulbound.
* The attest handlers answer an NSM failure with 400 (`ErrorStatus`), though a test
  comment in `main.rs` speaks of a 5xx.
* The clock that `main.rs` says is used only as a stamp decides the validity of
  certificates (`check_validity`, `apple_check_validity`).

The decoders are lenient where no comment says what they should do: tag numbers are
taken modulo 2^32 (`tag_bytes`); an ENUMERATED without contents reads as 0; what
follows the last member a SEQUENCE is read for, or the last brace of a status list,
is ignored; strings keep their escapes as they are written.

### Bounds

* `attestation`: two documents, two witnesses, two builds that differ in one
  register, a foreign image that lacks a register, one that differs in one and one
  that reports none, as the policy has none before the first pin.
  Age 2, skew 1, clock 0..5 and a drift of 2 let a document be too old, too new,
  at either edge, and overflow. A violation needs one document, one Witness and
  one rotation; the second of each lets them be confused.
* `device_binding`: two witnesses, two bindings, two approvals, three domains of two
  lengths, one of which begins another, two hashes, two times: a signature can be
  tried on another binding, another action, under another domain, after expiry and
  after destruction. Ids are one byte and may occur in hashes and domains.
* `attested_device`: one document, two witnesses, two bindings, one approval, two
  domains of which one begins the other, two hashes, three times; evidence is an
  attestation and an assertion of one key, and another image binds an Android key.
* `enclave_server`: three requests with any of seven bodies and six descriptors. A
  connection needs three and a document one more that stays, so two in service
  starve a third, and three in the bridge with two each use up the limit.
* `verifiers`, Android: all chains of up to three of eleven certificates and of four
  of seven, at five times; and, for one chain, every policy against every pair of
  levels (an unknown one included) and 26 hardware lists, and one policy against
  another challenge. `TagModulus` is 4096 in
  the place of 2^32: only a tag above it matters.
* `verifiers`, Apple: two device keys in different apps and environments, one
  foreign key, two challenges, two leaves, two signatures, two accepted calls:
  enough for every pair of pieces to be mixed.
* `verifiers`, the readers: status lists of up to two entries with serials that differ in case,
  four lists of fields each, with and without white space and BOM; AuthorizationLists
  of up to two of 40 fields (integers at the limits of every width, both signs, each
  length form, wrong types, unknown tags and classes, roots of trust with each
  defect) and long ones with lengths of one and two bytes; descriptions that differ
  in every member; application ids with up to two packages. `TagNumbers` is 2^18 in
  the place of 2^32.
  Chains of up to three certificates whose bytes look like lengths; CBOR
  objects and assertions with repeated, ill-typed and missing entries in every place;
  credential ids of up to 258 bytes, whose length takes both of its bytes. Each loop
  treats its elements one by one, so two of any kind show how an element bears on the
  next. All documents are cut at every length.
* `tunnel`: three chunks each way over hops that hold two: a copier can hold one,
  a queue be full, and the source not be done, on all three hops.
* `attest_service`: two attestations, as a double tap starts them, one assertion, two
  keys, one kill. A mix-up needs two keys, and a kill between any two steps one.

### Fairness and deadlock

`EnclaveServer` assumes weak fairness of boot and of each request's steps: tokio
polls every task that is ready and the system calls return. Clients need not send
anything nor hang up, and a failing NSM answers with an error. Weak fairness is
enough since a free descriptor, once there for a backlog, is taken by another request
only finitely often. `EveryRequestSettles` excepts behaviours in which from some time
on every descriptor is taken and none of the connections that hold one has anything
left to do but wait for its client or for axum's accept (`Exhausted`): nothing in the
code ends those. What the NSM leaks is never the only cause.

`Tunnel` assumes it of goroutines and tokio tasks, of a client that goes on sending
its request and reading its response, and of axum, which reads a request, answers it
when it has all of it (`ServerAnswers`), ends an answer it began, and closes at the
end of its input. Nothing makes it answer early, and it may close after its answer.
`PatientClientServed` excepts a server that answered early and closed
(`AnsweredEarly`): the rest of the request then makes the bridge's write fail, and
the answer may be lost on the way. Nothing makes a client close: `NothingLeaks` starts
when a peer ends its side. A client that half-closes before it has its response is
not promised it, for `handle` closes both connections then; `PatientClientServed`
says so with `impatient`. `AttestService` assumes that tasks run and that the device
calls each completion handler, as the continuations of the code require.
`AndroidVerifier` and `Verifiers` assume that a loop-free computation goes on. The other specifications have no fairness, and their runs no liveness property.
Deadlock is not checked where the system may stop: when the bounds of a run are
used up, a call has returned, or every request is settled.

## 4. Proofs

Every safety property of a passing run is proved for all values of the constants, but
for the three about the DER in `Decoders`. In each module `IInv` is the inductive invariant; TLC
evaluated it on the instance of the run before it was proved (the counters of
`TunnelProofs` up to three in each direction).

`AttestationProofs`, for every set of images, evidence and byte vectors and every
value of age, skew, clock width and bounds, from `ConstantsAssumption` (a build is
identified by its registers 0..2, registers are never empty, evidence has the
shape of its endpoint) and `BoundsAssumption`:

* `TypeCorrect`, `Provenance` (`WitnessProvenance`) and `MintingWindow`
  (`MintedFromPinned`).
* `WitnessProvenance` is not inductive: it says nothing of the documents a Witness
  is minted from. `IInv` adds `DocumentsBound` (a document of a build of this
  repository is unbound or bound to something that build verified at that time)
  and `PolicyPinned` (the policy is empty or was pinned). `AcceptedWasVerified` is
  the heart: an accepted document matches the policy in three registers, so it is
  not from a foreign image and the policy is not empty, and its hash is that of
  the payload, so by `Sha256Injective` the fields are those verified.

`DeviceBindingProofs`, for every set of keys, accounts, domains and hashes, from
`BindingConstants` and `IdEncoding` (ids have one length and are distinct):

* `TypeCorrect` and `SingleEnrolment` (`OneBindingPerWitness`), from `IInv`, which
  adds that the key of a binding is that of the Witness it was enrolled with.
* `AuthorizedActions` (`ActionAuthorized`), for domains of every length. The argument
  is `MessageInjective`: of two equal messages the expiry comes from the right
  (`SameExpiry`); of their domains one begins with the other (`DomainsAgree`), so they
  are equal or `Ambiguous`; and behind equal domains stand ids of one length, and the
  rest is the hash. That the exception is needed is the run `device_binding_domains`.
* `RevocationIsFinal` (`DestroyedIsFinal`), an action property. Its last part, that
  no binding acts before it is issued, needs `IssuedBefore`: no binding is dated
  later than the clock.

`AttestedDeviceProofs`, from `SystemConstants`, which are the assumptions of the two
parts:

* `AttestationComposed` and `BindingComposed`: the composition implements each part.
  `new` only takes a Witness away, which `Attestation` allows of its environment; and
  each Witness that a verify function returns is one that `DeviceBinding` expects
  (`MintIsSupply`). So all theorems of the two modules hold of the composed system,
  and the proofs below cite them.
* `CredentialProvenance` (`BindingProvenance`). What a binding was issued for is what
  its Witness said, which `Provenance` covers. It says that a pinned build verified
  that key, challenge and detail, and whether by an assertion or an attestation, but
  not by which of the two attestation endpoints: `attestation_source` shows that the
  Source does not tell; that the evidence is not dated later
  than the skew after the issue needs `WitnessDated`, which follows from
  `MintingWindow` and a clock that does not go back.
* `CredentialRefined` (`ImplementsCredential`), for domains of every length: what an
  approval covers is a parameter of `Credential`, here `Covers` of `DeviceBinding`. There is a
  lemma for every kind of step: a verification is `Credential`'s check, `new` its
  issue, a signature its approval, `verify_action` its allow, `destroy` its
  revocation, all else a stutter.

`EnclaveServerProofs`, for every finite set of requests, any bodies, every descriptor
limit and whether or not the NSM fails, from `ServerConstants`:

* `BoundSuccess` (`SuccessIsBound`). The property speaks of answers only; `IInv` adds
  `VerdictGiven`: a request that waits for the NSM is one whose handler accepted it,
  or asks for the unbound document. All else is that a step of one connection leaves
  the stages and answers of the others alone (`StepOfOne`) and that an error carries
  no document (`StepWithError`).
* `TypeCorrect` (`TypeOK`, `OpenFds <= FdLimit` with it). `FdInv` bounds the NSM
  descriptors by the requests that got past `nsm_init`. Each step that opens a
  descriptor is guarded by the limit, and the rest open none (`StepWithoutDescriptor`).
* `ServerRefinesAttestation` (`ImplementsAttestation`). `DocumentStep` maps the answer
  of the NSM to `attestation_doc`, or to the `attest` of the body; `Attestation`
  bounds the number of documents, and `DocsCounted` shows that there is room for one
  more: documents are no more than the requests answered.

`AndroidVerifierProofs`, from `RootsAssumption` and `InputsAssumption`, for chains, key
descriptions and policies of every size:

* `AcceptedKeyIsCertified` and `AcceptedMeetsThePolicy`. `IInv` says that a call past a
  check met its condition. What is left is that the conditions mean what
  `AcceptedIsCertified` and `AcceptedMeetsPolicy` say, by other definitions:
  `LinkedChainIsCertified` goes down the chain from its anchor to the leaf
  (`Downward`), and `LastRootOfTrust` down the list of fields to the last one whose
  tag is that of the root of trust. Induction over positions comes from the
  well-foundedness of strict inclusion among finite sets (`LeastNumber`), which takes
  a set and not an operator.

In the same module, from `StatusAssumption` (a list, its strings and its white space are
finite, and what stands between two quotes can stand there: `WellEscaped`), for status
lists with any number of entries and fields, whatever their names, order and
repetitions, and for strings and white space of every length:

* `StatusListIsRead` (`StatusListWhole`). It has two halves. `ListRead` says that what
  arrived is read to the members that were written, exactly if the last brace is
  there; `InsertedSays` that the map made of these members says what the list does.
* For the first, `Here`, `Blank` and `Is` say what stands at a place of the text *if so
  much of it is there*, so a lemma about a reader covers the whole text and every text
  cut short at once: `Got` is its result if the last symbol it reads has arrived, and
  an error otherwise. `EscapedInString` shows that the scan and the string agree on
  what is escaped, so the closing quote is the one that was written (`ClosingQuote`).
  `OneTurn` takes the loop from one member to the next, `MembersRead` to the end, for
  any reader of a member of which as much is known; so it serves a record, whose
  members are two strings (`FieldRead`), and then the list, whose members are records
  (`EntryRead`). The places come from the lengths of the parts (`MembersLaid`).
* For the second, `LastIs`: the value of a loop that overwrites is that of the last
  turn that writes. `SameAsLower` shows that two serials are the same but for case
  exactly if their lower cases are equal.

`AppleVerifierProofs`, from `AppleConstants` (a key has one app and environment, nobody
else has it, Apple's CA keys certify nothing else):

* `AttestationsAreGenuine` and `AssertionsFollowAttestations`, for every caller. `IInv`
  adds what is in the hands of the caller: leaves that the CA issued are over the
  nonce of a device's attestation (`LeavesAttested`), and signatures of device keys are
  of assertions that device made (`SignaturesAsserted`); a nonce determines its
  authenticator data and challenge (`DigestInjective`).

In the same module, from `ReadersAssumption` (authenticator data is bytes and items
whose counts are numbers, maps and chains are finite, and the length of a certificate
fits in the four bytes written for it), for authenticator data, objects, maps and
chains of every length:

* `AuthDataDivided` (`AuthDataWhole`): the encoding of every credential id is taken
  apart where it was put together (`ParseDivides`), at whatever length it is cut.
* `LastDecides` (`LastEntryDecides`). `AssignedIsLast` says what the loops that share
  `Assigned` compute: the value of the last entry for the key, if it has the type.
  That each entry overwrites what was found before is the code's; that nothing but the
  last remains, and that a refusal depends on the last one alone, is the theorem.
* `ClientReadsTheAttestedKey` (`ClientAgrees`). The client refuses what is not in its
  maps (`MapReads`) where the verifier passes over it, and does not compare `alg`;
  `OneReadsAsTheOther` shows that where both read a COSE_Key they have the same
  entries in their hands.
* `ChainIsCommitted` (`ChainCommitted`). Of two chains with one input, take the first
  certificate that differs (`RunsAgree`): the bytes before it are the same, so the four
  bytes of its length are at the same place, they determine the length
  (`FrameDetermines`), and so the certificate (`NextIsSame`). A chain that ended
  there would have a shorter input (`RunKeeps`).
* A recursive function is a CHOOSE: that one exists (`RunExists`), and what it is at
  every turn, is proved by the least turn at which it fails.

`TunnelProofs`, for every number of chunks and every window, from `TunnelConstants`:

* `TypeCorrect`, `DeliveryInOrder` (`InOrder`) and `SendNeverBlocks`: a goroutine whose
  copy has ended has room in `done`, also when `handle` has stopped receiving.
* `InOrder` speaks of the two ends only. `IInv` has for every hop and direction a
  count of chunks written and one of chunks read (`Flow`): a queue holds exactly the
  chunks between the two, or is empty and `Dead` (ended, reset, or its reader closed);
  a copier holds those read from one hop and not written to the next. A reset throws
  chunks away, so it also takes that a dead direction stays dead (`DeadStays`) and that
  nothing is written to it. `Control` says where `handle` and the bridge stand and
  that the values in `done` are at most those of goroutines that ended.

`AttestServiceProofs`, from `ClientConstants`:

* `TypeCorrect`, `ActiveKeyIsAttested` (`ActiveKeyAttested`) and `CapturesVerify`
  (`CaptureVerifies`). `IInv` adds what a task holds at each await: past `attestKey`, a
  key that Apple attested; in `assert`, an active key, read before the await, and the
  signature of that key after it.

Only model-checked: liveness and leads-to under fairness, which TLAPS does not reach
(`EveryRequestSettles`, `GenuineChainTrusted`, `PatientClientServed`, `NothingLeaks`,
`FlagsEnd`); and the three invariants of `Decoders` about the DER
(`AuthorizationListWhole`, `KeyDescriptionWhole`, `ApplicationIdWhole`): what
`KeyDescriptionDer` reads, it reads with RECURSIVE operators, and what those compute for
every input is an induction over data.

## 5. Not modelled

* Cryptography: signatures are facts about who signed, SHA-256 is collision free,
  the AWS, Apple and Google signatures are genuine.
* Parsing done by external crates (X.509, CBOR tokens, hex, HTTP, JSON requests)
  and the DER of the nonce extension, which `der` derives: represented by what they
  decide. The bytes of CBOR that the Swift reader takes apart are the tokens too: it
  reads indefinite lengths, tags and floats as errors (`Known`), and that it does not
  check the end of a value it skips is not modelled.
* The BCS layout of `Outcome`: it is the `bcs` crate's, and no other component reads
  one.
* Events, logging, `/health` contents, the informational Ed25519 key.
* In the iOS demo: screens, fixture files and networking. Image build, deployments
  and fixtures.
* Several connections of one tunnel at once: they share no state but descriptors,
  which `EnclaveServer` counts.
* `kagi::enclave_policy`, the NSM, `sui::nitro_attestation` and DCAppAttestService
  are external and modelled from how this code uses them.

## 6. Plan

Done: all modules of section 2, their runs, and the proofs of section 4.

Next:

1. `EnclaveServer` with the verifiers' verdict supplied by `AndroidVerifier` and
   `AppleVerifier` in the place of a flag, so that the theorems about the verifiers
   and those about the chain join: what a Witness repeats was certified on a device.
