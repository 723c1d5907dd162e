------------------------- MODULE MCAndroidVerifier -------------------------
(* Chains of up to four certificates over two pinned roots (RSA and P-384, *)
(* with different validity), an earlier issue of the first with its key, a *)
(* foreign root, and device certificates; and the policies a caller can    *)
(* send for one genuine chain.                                             *)
EXTENDS AndroidVerifier, SequencesExt

MCTagModulus == 4096

Key(name, alg) == [name |-> name, alg |-> alg]
RootKeyA == Key("rootA", "rsa")
RootKeyB == Key("rootB", "p384")
InterKeyA == Key("interA", "p256")
InterKeyB == Key("interB", "p384")
ForeignKey == Key("foreign", "rsa")
LeafKey == Key("leaf", "p256")
OtherKey == Key("other", "p256")

Cert(der, spki, signer, sig_alg, from, to, serial, ext) ==
  [der |-> der, parses |-> TRUE, spki |-> spki, signer |-> signer, sig_alg |-> sig_alg,
   not_before |-> from, not_after |-> to, serial |-> serial, ext |-> ext]

Field(class, tag, decodes, value) ==
  [class |-> class, tag |-> tag, decodes |-> decodes, value |-> value]
Rot(key, locked, state) ==
  [verified_boot_key |-> key, device_locked |-> locked, verified_boot_state |-> state]
Description(level1, level2, challenge, software, hardware) ==
  [attestation_level |-> level1, keymint_level |-> level2, challenge |-> challenge,
   software |-> software, hardware |-> hardware]

GoodRot == Rot("k1", TRUE, Verified)
GoodDescription == Description(1, 1, "c1", <<>>, <<Field(2, 704, TRUE, GoodRot)>>)

RootA == Cert("rootA", RootKeyA, RootKeyA, "sha256-rsa", 1, 3, <<1>>, {})
RootB == Cert("rootB", RootKeyB, RootKeyB, "ecdsa-sha384", 2, 4, <<2>>, {})
MCRoots == <<RootA, RootB>>

OldRootA == Cert("oldRootA", RootKeyA, RootKeyA, "sha256-rsa", 0, 2, <<16>>, {})
ForeignRoot == Cert("foreign", ForeignKey, ForeignKey, "sha256-rsa", 0, 4, <<4>>, {})
InterA == Cert("interA", InterKeyA, RootKeyA, "sha256-rsa", 0, 3, <<0, 10>>, {})
InterB == Cert("interB", InterKeyB, RootKeyB, "ecdsa-sha384", 1, 4, <<6>>, {})
Leaf(ext) == Cert("leaf", LeafKey, InterKeyA, "ecdsa-sha256", 0, 4, <<7, 0>>, ext)
LeafA == Leaf({GoodDescription})
LeafB == Cert("leafB", LeafKey, InterKeyB, "ecdsa-sha256", 0, 4, <<18>>, {GoodDescription})
Unsupported == Cert("unsupported", OtherKey, InterKeyA, "ecdsa-sha384", 0, 4, <<9>>, {})
Unparsed == [RootA EXCEPT !.der = "unparsed", !.parses = FALSE]

(* A certificate whose issuer is an end-entity certificate: check_is_ca    *)
(* refuses nothing.                                                        *)
UnderLeaf == Cert("underLeaf", OtherKey, LeafKey, "ecdsa-sha256", 0, 4, <<11>>,
                  {GoodDescription})

Certs == {RootA, RootB, OldRootA, ForeignRoot, InterA, InterB, LeafA, LeafB,
          Unsupported, Unparsed, UnderLeaf}

Policies ==
  [min_security_level : SecurityLevels, require_verified_boot : BOOLEAN,
   allowed_self_signed_keys : {{}, {"k2"}}, require_device_locked : BOOLEAN,
   status_list : {{}, {{<<7, 0>>, <<0, 7, 0, 0>>}}}]
DefaultPolicy ==
  [min_security_level |-> 1, require_verified_boot |-> TRUE, allowed_self_signed_keys |-> {},
   require_device_locked |-> TRUE, status_list |-> {}]

ChainInputs(S, n) ==
  [chain : BoundedSeq(S, n), challenge : {"c1"}, policy : {DefaultPolicy}, clock_ms : 0..4]

HardwareLists ==
  {<<>>, <<Field(0, 704, TRUE, GoodRot)>>, <<Field(2, 704, FALSE, GoodRot)>>,
   <<Field(2, 704 + MCTagModulus, TRUE, GoodRot)>>, <<Field(2, 704, TRUE, Rot("k1", TRUE, 4))>>, <<Field(2, 706, FALSE, 0)>>}
  \cup {<<Field(2, 704, TRUE, Rot(key, locked, state))>> :
          <<key, locked, state>> \in {"k1", "k2"} \X BOOLEAN \X BootStates}
  \cup {<<Field(2, 704, TRUE, Rot("k1", TRUE, state)), Field(2, 704, TRUE, GoodRot)>> :
          state \in BootStates}

Described ==
  {Description(l1, l2, "c1", software, hardware) :
     <<l1, l2, software, hardware>> \in (0..3) \X (0..3)
        \X {<<>>, <<Field(2, 704, TRUE, GoodRot)>>} \X HardwareLists}

DescribedChains == {<<Leaf(ext), InterA>> : ext \in {{}} \cup {{d} : d \in Described}}

PolicyInputs ==
  [chain : DescribedChains, challenge : {"c1"}, policy : Policies, clock_ms : {2}]
ChallengeInputs ==
  [chain : DescribedChains, challenge : {"c2"}, policy : {DefaultPolicy}, clock_ms : {2}]

MCInputs == ChainInputs(Certs, 3) \cup PolicyInputs \cup ChallengeInputs
            \cup {i \in ChainInputs({LeafA, LeafB, InterA, InterB, OldRootA, RootA, RootB}, 4) :
                    Len(i.chain) = 4}

(* Inputs of the runs that compare the code with a comment.                *)
BootInputs ==
  {i \in PolicyInputs : ~i.policy.require_verified_boot /\ i.policy.min_security_level = 1}
StatusInputs ==
  [chain : {<<LeafA, InterA>>}, challenge : {"c1"}, clock_ms : {2},
   policy : {[DefaultPolicy EXCEPT !.status_list = {{<<s>>}}] : s \in 1..15}]
=============================================================================
