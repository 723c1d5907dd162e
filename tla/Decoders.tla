------------------------------ MODULE Decoders ------------------------------
(***************************************************************************)
(* The DER decoders of attest-android, on documents of which more and more *)
(* has arrived: `subject` is a document, `cut` the number of its symbols   *)
(* that are there.  In every state the decoder of its kind is compared     *)
(* with what the document says.  The status lists of StatusLists and the   *)
(* documents of Readers have the same state: Verifiers puts them together. *)
(*                                                                         *)
(* A KeyDescription is cut as it stands.  The body of an AuthorizationList *)
(* and of an application id are cut and then wrapped again with the right  *)
(* length, so that only their own reader can tell.                         *)
(***************************************************************************)
EXTENDS StatusLists, KeyDescriptionDer, Readers

CONSTANTS          \* families of documents: functions from any index set
  Lists,           \* sequences of fields of an AuthorizationList
  Descriptions,    \* [version, level, challenge, software, hardware]
  ApplicationIds   \* [packages, digests]

----------------------------------------------------------------------------
DescriptionBody(d) ==
  EncInt(d.version) \o Enc(ENUMERATED, <<d.level>>) \o EncInt(d.version + 1)
    \o Enc(ENUMERATED, <<2 - d.level>>) \o Enc(OCTET_STRING, d.challenge)
    \o Enc(OCTET_STRING, <<>>) \o EncList(d.software) \o EncList(d.hardware)

DescriptionMeans(d) ==
  [attestation_version |-> TwosComplement(d.version, 4), attestation_security_level |-> d.level,
   keymint_version |-> TwosComplement(d.version + 1, 4), keymint_security_level |-> 2 - d.level,
   attestation_challenge |-> d.challenge, unique_id |-> <<>>,
   software_enforced |-> ListMeans(d.software), hardware_enforced |-> ListMeans(d.hardware)]

Whole(s) ==
  CASE s.kind = "list" -> Len(ListBody(s.list))
    [] s.kind = "description" -> Len(Enc(SEQUENCE, DescriptionBody(s.description)))
    [] s.kind = "application" ->
         Len(EncApplicationId(s.application.packages, s.application.digests))
    [] OTHER -> 0

DecodersInit ==
  /\ cut = 0
  /\ \/ \E i \in DOMAIN Lists : subject = [kind |-> "list", list |-> Lists[i]]
     \/ \E i \in DOMAIN Descriptions :
          subject = [kind |-> "description", description |-> Descriptions[i]]
     \/ \E i \in DOMAIN ApplicationIds :
          subject = [kind |-> "application", application |-> ApplicationIds[i]]

(* One more symbol of the document is there.                               *)
Continue == cut < Whole(subject) /\ cut' = cut + 1 /\ UNCHANGED subject

----------------------------------------------------------------------------
(* Properties *)

(* decode_authorization_list: the walk accepts a body exactly if it ends   *)
(* where a field ends and every value so far has the type of its tag; it   *)
(* reads the last value of each tag, whatever form the lengths have and    *)
(* whatever fields it skips, and integers with their sign.                 *)
AuthorizationListWhole ==
  subject.kind = "list" =>
    LET fields == subject.list
        body == SubSeq(ListBody(fields), 1, cut)
        whole == {k \in 0..Len(fields) : Len(ListBody(SubSeq(fields, 1, k))) = cut}
        there == {SubSeq(fields, 1, k) : k \in whole}
    IN  decode_authorization_list(Enc(SEQUENCE, body), 1)
          = {[val |-> ListMeans(fs), next |-> Len(Enc(SEQUENCE, body)) + 1] :
               fs \in {x \in there : Readable(x)}}

(* KeyDescription::from_der: a description of which the end is missing is  *)
(* refused, also when its outer length was adjusted, and a whole one is    *)
(* read with each version, level and list in its place.                    *)
KeyDescriptionWhole ==
  subject.kind = "description" =>
    LET d == subject.description
        body == DescriptionBody(d)
        means == IF Readable(d.software) /\ Readable(d.hardware)
                 THEN {DescriptionMeans(d)} ELSE {}
    IN  /\ from_der(SubSeq(Enc(SEQUENCE, body), 1, cut)) = IF cut < Whole(subject) THEN {} ELSE means
        /\ cut <= Len(body) =>
             from_der(Enc(SEQUENCE, SubSeq(body, 1, cut))) = IF cut < Len(body) THEN {} ELSE means

(* attestation_application_id reads all packages and all digests, or       *)
(* refuses.                                                                *)
ApplicationIdWhole ==
  subject.kind = "application" =>
    LET a == subject.application
        body == EncApplicationId(a.packages, a.digests)
        Info(p) == [package_name |-> p.name, version |-> TwosComplement(p.version, 8)]
    IN  attestation_application_id(Enc(SEQUENCE, SubSeq(body, 1, cut)))
          = IF cut < Len(body) THEN {}
            ELSE {[package_infos |-> [i \in DOMAIN a.packages |-> Info(a.packages[i])],
                   signature_digests |-> a.digests]}
=============================================================================
