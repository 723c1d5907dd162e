----------------------------- MODULE MCDecoders -----------------------------
(* Documents for the decoders: every value kind, both signs, the limits of *)
(* each width, every length form, repeated and unknown entries, values of  *)
(* the wrong type, and each in any place of a short sequence.              *)
EXTENDS Decoders, MCReaders

Identity(S) == [x \in S |-> x]

----------------------------------------------------------------------------
MCWords == {"a", "A", "1", "REVOKED", "SUSPENDED", "KEY_COMPROMISE", "comment"}
StatusField(key, val) == [key |-> <<key>>, val |-> val]
Revoked == StatusField("status", <<"REVOKED">>)
Suspended == StatusField("status", <<"SUSPENDED">>)
Reason == StatusField("reason", <<"KEY_COMPROMISE">>)
Comment == StatusField("comment", <<"backslash", "quote", "close", "comma">>)
StatusEntries ==
  {[serial |-> s, fields |-> f] :
     s \in {<<"a">>, <<"A">>, <<"1", "A">>},
     f \in {<<>>, <<Revoked, Reason>>, <<Reason, Comment, Suspended>>, <<Revoked, Suspended>>}}
MCStatusDocs ==
  Identity({[doc |-> d, w |-> w, bom |-> w # <<>>] : d \in SeqsUpTo(StatusEntries, 2), w \in {<<>>, <<"ws">>}})

----------------------------------------------------------------------------
MCTagNumbers == 2 ^ 18

IntMin == -2147483647 - 1
Ints == <<0, 127, 128, 65536, 2147483647, -1, -129, IntMin>>
Context(slot, form, inner, means) == Field(slot, 2, TagOf[slot], form, inner, means)
Skipped(class, tag, form) == Field("none", class, tag, form, EncInt(1), {})

IntFields ==
  [i \in 1..Len(Ints) |-> Context("os_version", 0, EncInt(Ints[i]), {TwosComplement(Ints[i], 4)})]
    \o [i \in 1..8 |-> LET n == IF i > 4 THEN -1 ELSE 1 IN
          Context("os_patch_level", 1 + (i % 4), EncInt(n), {TwosComplement(n, 4)})]
    \o [i \in 1..Len(Ints) |->
          Context("creation_date_time", 0, EncInt(Ints[i]),
                  IF Ints[i] < 0 THEN {} ELSE {TwosComplement(Ints[i], 8)})]
    \o <<Context("creation_date_time", 0, Enc(INTEGER, <<127, 0, 0, 0, 0, 0, 0, 1>>),
                 {<<127, 0, 0, 0, 0, 0, 0, 1>>}),
         Context("creation_date_time", 0, Enc(INTEGER, <<0, 128, 0, 0, 0, 0, 0, 0, 0>>), {})>>
NotI32 ==
  <<Enc(INTEGER, <<1, 0, 0, 0, 0>>), Enc(INTEGER, <<0, 1>>), Enc(INTEGER, <<>>),
    Enc(OCTET_STRING, <<1>>), <<>>>>
BadFields == [i \in 1..Len(NotI32) |-> Context("os_version", 0, NotI32[i], {})]

Rot(locked, state, hash) ==
  Enc(SEQUENCE, Enc(OCTET_STRING, <<9>>) \o Enc(BOOL, locked) \o Enc(ENUMERATED, state) \o hash)
RotMeans(locked, state, hash) ==
  [verified_boot_key |-> <<9>>, device_locked |-> locked, verified_boot_state |-> state,
   verified_boot_hash |-> hash]
RotField(locked, state, hash, means) ==
  Context("root_of_trust", 0, Rot(locked, state, hash), means)
RotFields ==
  <<RotField(<<255>>, <<0>>, <<>>, {RotMeans(TRUE, 0, {})}),
   RotField(<<0>>, <<3>>, Enc(OCTET_STRING, <<8>>), {RotMeans(FALSE, 3, {<<8>>})}),
   RotField(<<0>>, <<>>, <<>>, {RotMeans(FALSE, 0, {})}),
   RotField(<<1>>, <<0>>, <<>>, {}),
   RotField(<<255>>, <<4>>, <<>>, {}),
   RotField(<<255>>, <<0>>, EncInt(5), {})>>

AppField(n, form) ==
  Context("attestation_application_id", form, Enc(OCTET_STRING, Long(n)), {Long(n)})
SkippedFields ==
  <<Skipped(2, 1, 0), Skipped(2, 702, 1), Skipped(2, 20000, 0), Skipped(1, 705, 0), Skipped(0, 16, 0)>>

Fields == IntFields \o BadFields \o RotFields \o SkippedFields \o <<AppField(3, 0)>>
LongFields == <<AppField(130, 1), AppField(260, 2)>>
MCLists ==
  Family(Fields \o LongFields,
         SeqsUpTo(DOMAIN Fields, 2) \cup {<<Len(Fields) + i, 1>> : i \in DOMAIN LongFields})

Hardware == <<<<RotFields[1]>>, <<RotFields[2], IntFields[1]>>, <<RotFields[4]>>>>
MCDescriptions ==
  [i \in [v : {-2, 3, 400}, l : 0..2, c : {<<>>, <<7, 7>>}, s : 0..1, h : 1..3] |->
     [version |-> i.v, level |-> i.l, challenge |-> i.c,
      software |-> [j \in 1..i.s |-> AppField(3, 0)], hardware |-> Hardware[i.h]]]

Packages == {[name |-> n, version |-> v] : n \in {<<>>, <<65>>}, v \in {-129, 0, 255, 2147483647}}
MCApplicationIds ==
  Identity({[packages |-> p, digests |-> d] :
              p \in SeqsUpTo(Packages, 2), d \in {<<>>, <<Long(32)>>, <<<<1>>, <<>>, <<2>>>>}})
=============================================================================
