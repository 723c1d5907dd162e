------------------------- MODULE KeyDescriptionDer -------------------------
(***************************************************************************)
(* key_description.rs on bytes: KeyDescription::from_der with its TLV walk *)
(* over an AuthorizationList, attestation_application_id, and the encoding *)
(* they are to read back.                                                  *)
(*                                                                         *)
(* Bytes are 0..255, positions count from 1.  A decoder returns the set of *)
(* its results: {} for an Err, otherwise {[val, next]} with the position   *)
(* after what it read.  Machine integers are their big-endian bytes (4 for *)
(* i32, 8 for i64 and u64).                                                *)
(***************************************************************************)
EXTENDS Integers, Sequences, FiniteSets, SequencesExt

CONSTANT TagNumbers   \* 2^32 in the code: tag numbers are u32

INTEGER == 2
OCTET_STRING == 4
ENUMERATED == 10
SEQUENCE == 48
SET_OF == 49
BOOL == 1

----------------------------------------------------------------------------
(* The `der` crate: a header with a one-byte tag and a minimal length      *)
(* (below 2^16 here), and read_slice.                                      *)
Element(bytes, pos, tag) ==
  LET b(i) == bytes[pos + i]
      n == Len(bytes) - pos + 1
      LongForm(k) == n >= 2 + k /\ b(1) = 128 + k
      header == IF n >= 2 /\ b(1) < 128 THEN {[len |-> b(1), at |-> pos + 2]}
                ELSE IF LongForm(1) /\ b(2) >= 128 THEN {[len |-> b(2), at |-> pos + 3]}
                ELSE IF LongForm(2) /\ b(2) > 0
                THEN {[len |-> 256 * b(2) + b(3), at |-> pos + 4]} ELSE {}
  IN  {[val |-> SubSeq(bytes, h.at, h.at + h.len - 1), next |-> h.at + h.len] :
         h \in {x \in header : bytes[pos] = tag /\ x.at + x.len <= Len(bytes) + 1}}

(* Int::decode: the contents are not empty and minimal.                    *)
Minimal(c) ==
  /\ c # <<>>
  /\ Len(c) > 1 => ~(c[1] = 0 /\ c[2] < 128) /\ ~(c[1] = 255 /\ c[2] >= 128)
Int_decode(bytes, pos) == {e \in Element(bytes, pos, INTEGER) : Minimal(e.val)}

bool(bytes, pos) ==
  {[val |-> e.val = <<255>>, next |-> e.next] :
     e \in {x \in Element(bytes, pos, BOOL) : x.val \in {<<0>>, <<255>>}}}

----------------------------------------------------------------------------
Negative(c) == c # <<>> /\ c[1] >= 128

(* Copy to the right end of a buffer of `width` bytes filled with the sign.*)
SignExtend(c, width) ==
  [i \in 1..width - Len(c) |-> IF Negative(c) THEN 255 ELSE 0] \o c

Extended(elements, width) ==
  {[val |-> SignExtend(e.val, width), next |-> e.next] :
     e \in {x \in elements : Len(x.val) <= width}}

decode_i32(bytes, pos) == Extended(Int_decode(bytes, pos), 4)
decode_u64(bytes, pos) == Extended({x \in Int_decode(bytes, pos) : ~Negative(x.val)}, 8)
decode_i64_from_int(bytes, pos) == Extended(Int_decode(bytes, pos), 8)

(* Neither emptiness nor minimality is checked: no contents read as 0.     *)
decode_enumerated(bytes, pos) == Extended(Element(bytes, pos, ENUMERATED), 4)

(* from_i32 of the enums with `n` values.                                  *)
from_i32(bytes, pos, n) ==
  {[val |-> e.val[4], next |-> e.next] :
     e \in {x \in decode_enumerated(bytes, pos) :
              SubSeq(x.val, 1, 3) = <<0, 0, 0>> /\ x.val[4] < n}}

(* Decoders applied one after the other, what follows the last is ignored: *)
(* the sequence of their values.                                           *)
InTurn(kinds, Decode(_, _, _), bytes, pos) ==
  FoldLeft(LAMBDA rs, kind :
             UNION {{[val |-> Append(r.val, x.val), next |-> x.next] :
                       x \in Decode(kind, bytes, r.next)} : r \in rs},
           {[val |-> <<>>, next |-> pos]}, kinds)

decode_root_of_trust(bytes, pos) ==
  LET Decode(kind, b, p) == CASE kind = "octets" -> Element(b, p, OCTET_STRING)
                              [] kind = "bool" -> bool(b, p)
                              [] kind = "state" -> from_i32(b, p, 4)
      RootOfTrust(r, hash) ==
        [verified_boot_key |-> r.val[1], device_locked |-> r.val[2],
         verified_boot_state |-> r.val[3], verified_boot_hash |-> hash]
      Fields(b) == InTurn(<<"octets", "bool", "state">>, Decode, b, 1)
      Hash(b, r) == IF r.next > Len(b) THEN {{}}
                    ELSE {{h.val} : h \in Element(b, r.next, OCTET_STRING)}
  IN  UNION {UNION {{[val |-> RootOfTrust(r, hash), next |-> e.next] : hash \in Hash(e.val, r)} :
                    r \in Fields(e.val)} : e \in Element(bytes, pos, SEQUENCE)}

----------------------------------------------------------------------------
(* parse_tlv_header *)

(* The continuation bytes of a tag number: u32::checked_shl loses the bits *)
(* it shifts out.                                                          *)
RECURSIVE tag_bytes(_, _, _)
tag_bytes(bytes, cur, n) ==
  IF cur > Len(bytes) THEN {}
  ELSE LET m == ((n * 128) % TagNumbers) + (bytes[cur] % 128)
       IN IF bytes[cur] < 128 THEN {[val |-> m, next |-> cur + 1]}
          ELSE tag_bytes(bytes, cur + 1, m)

(* A short length, or up to four bytes of one, not necessarily minimal.    *)
length_bytes(bytes, cur) ==
  IF cur > Len(bytes) THEN {}
  ELSE IF bytes[cur] < 128 THEN {[val |-> bytes[cur], next |-> cur + 1]}
  ELSE LET n == bytes[cur] % 128 IN
       IF n \in 1..4 /\ cur + n <= Len(bytes)
       THEN {[val |-> FoldLeft(LAMBDA v, b : 256 * v + b, 0, SubSeq(bytes, cur + 1, cur + n)),
              next |-> cur + n + 1]}
       ELSE {}

parse_tlv_header(bytes, pos) ==
  UNION {{[class |-> bytes[pos] \div 64, tag_number |-> t.val, start |-> l.next,
           end |-> l.next + l.val] : l \in length_bytes(bytes, t.next)} :
         t \in IF bytes[pos] % 32 < 31 THEN {[val |-> bytes[pos] % 32, next |-> pos + 1]}
               ELSE tag_bytes(bytes, pos + 1, 0)}

----------------------------------------------------------------------------
TagOf == [creation_date_time |-> 701, root_of_trust |-> 704, os_version |-> 705,
          os_patch_level |-> 706, attestation_application_id |-> 709]
EmptyList == [slot \in DOMAIN TagOf |-> {}]

DecodeSlot(slot, inner) ==
  CASE slot = "creation_date_time" -> decode_u64(inner, 1)
    [] slot = "root_of_trust" -> decode_root_of_trust(inner, 1)
    [] slot \in {"os_version", "os_patch_level"} -> decode_i32(inner, 1)
    [] slot = "attestation_application_id" -> Element(inner, 1, OCTET_STRING)

(* A field stored in `out`, unless it is of another class or has a tag     *)
(* that is not decoded; {} if its value has not the type of its tag.       *)
StoreField(out, h, inner) ==
  LET slots == {s \in DOMAIN TagOf : h.class = 2 /\ TagOf[s] = h.tag_number}
  IN  IF slots = {} THEN {out}
      ELSE UNION {{[out EXCEPT ![s] = {x.val}] : x \in DecodeSlot(s, inner)} : s \in slots}

(* Mutant: the check that a value ends within the list is left out, so     *)
(* that a value cut short is read as far as it goes.                       *)
value_fits_Always(h, bytes) == TRUE

value_fits(h, bytes) == h.end <= Len(bytes) + 1

RECURSIVE walk(_, _, _)
walk(bytes, pos, out) ==
  IF pos > Len(bytes) THEN {out}
  ELSE UNION {UNION {walk(bytes, h.end, o) :
                       o \in StoreField(out, h, SubSeq(bytes, h.start, h.end - 1))} :
              h \in {x \in parse_tlv_header(bytes, pos) : value_fits(x, bytes)}}

decode_authorization_list(bytes, pos) ==
  UNION {{[val |-> l, next |-> e.next] : l \in walk(e.val, 1, EmptyList)} :
         e \in Element(bytes, pos, SEQUENCE)}

----------------------------------------------------------------------------
DecodeMember(kind, b, p) ==
  CASE kind = "i32" -> decode_i32(b, p)
    [] kind = "level" -> from_i32(b, p, 3)
    [] kind = "octets" -> Element(b, p, OCTET_STRING)
    [] kind = "list" -> decode_authorization_list(b, p)

KeyDescription(m) ==
  [attestation_version |-> m[1], attestation_security_level |-> m[2],
   keymint_version |-> m[3], keymint_security_level |-> m[4],
   attestation_challenge |-> m[5], unique_id |-> m[6],
   software_enforced |-> m[7], hardware_enforced |-> m[8]]

Members == <<"i32", "level", "i32", "level", "octets", "octets", "list", "list">>

(* Mutant: the two lists are taken in the wrong order.                     *)
from_der_Swapped(bytes) ==
  UNION {{[KeyDescription(m.val) EXCEPT !.software_enforced = m.val[8],
                                        !.hardware_enforced = m.val[7]] :
            m \in InTurn(Members, DecodeMember, e.val, 1)} : e \in Element(bytes, 1, SEQUENCE)}

from_der(bytes) ==
  UNION {{KeyDescription(m.val) : m \in InTurn(Members, DecodeMember, e.val, 1)} :
         e \in Element(bytes, 1, SEQUENCE)}

PackageInfo(bytes, pos) ==
  UNION {UNION {{[val |-> [package_name |-> name.val, version |-> v.val], next |-> e.next] :
                   v \in decode_i64_from_int(e.val, name.next)} :
                name \in Element(e.val, 1, OCTET_STRING)} : e \in Element(bytes, pos, SEQUENCE)}

(* The elements of a SET OF, to the end of its bytes.                      *)
RECURSIVE SetElements(_, _, _, _)
SetElements(kind, bytes, pos, out) ==
  IF pos > Len(bytes) THEN {out}
  ELSE UNION {SetElements(kind, bytes, x.next, Append(out, x.val)) :
                x \in IF kind = "package" THEN PackageInfo(bytes, pos)
                      ELSE Element(bytes, pos, OCTET_STRING)}

(* Mutant: a missing set of digests is taken for an empty one.             *)
attestation_application_id_Optional(bytes) ==
  LET Digests(b, p) == IF p > Len(b) THEN {[val |-> <<>>, next |-> p]} ELSE Element(b, p, SET_OF)
  IN  UNION {UNION {UNION {
        {[package_infos |-> p, signature_digests |-> s] :
           <<p, s>> \in SetElements("package", pkgs.val, 1, <<>>)
                          \X SetElements("digest", sigs.val, 1, <<>>)} :
        sigs \in Digests(e.val, pkgs.next)} :
        pkgs \in Element(e.val, 1, SET_OF)} : e \in Element(bytes, 1, SEQUENCE)}

attestation_application_id(bytes) ==
  UNION {UNION {UNION {
    {[package_infos |-> p, signature_digests |-> s] :
       <<p, s>> \in SetElements("package", pkgs.val, 1, <<>>)
                      \X SetElements("digest", sigs.val, 1, <<>>)} :
    sigs \in Element(e.val, pkgs.next, SET_OF)} :
    pkgs \in Element(e.val, 1, SET_OF)} : e \in Element(bytes, 1, SEQUENCE)}

----------------------------------------------------------------------------
(* The encoding, and what it means.                                        *)

(* The length in `form` bytes after the first, 0 for the short form.       *)
LengthIn(form, n) ==
  IF form = 0 THEN <<n>>
  ELSE <<128 + form>> \o [i \in 1..form |-> IF form - i > 2 THEN 0
                                            ELSE (n \div 256 ^ (form - i)) % 256]
MinimalForm(n) == IF n < 128 THEN 0 ELSE IF n < 256 THEN 1 ELSE 2

Enc(tag, contents) ==
  <<tag>> \o LengthIn(MinimalForm(Len(contents)), Len(contents)) \o contents

TwosComplement(n, width) ==
  [i \in 1..width |-> IF width - i > 3 THEN (IF n < 0 THEN 255 ELSE 0)
                      ELSE (n \div 256 ^ (width - i)) % 256]
Fits(n, width) == width = 4 \/ (-(2 ^ (8 * width - 1)) <= n /\ n < 2 ^ (8 * width - 1))
EncInt(n) ==
  Enc(INTEGER, TwosComplement(n, CHOOSE w \in 1..4 : Fits(n, w) /\ \A v \in 1..w - 1 : ~Fits(n, v)))

Base128(n) ==
  IF n < 2 ^ 7 THEN <<n>>
  ELSE IF n < 2 ^ 14 THEN <<128 + n \div 2 ^ 7, n % 128>>
  ELSE <<128 + n \div 2 ^ 14, 128 + ((n \div 2 ^ 7) % 128), n % 128>>

(* A field of an AuthorizationList: `slot` names what its tag stands for,  *)
(* "none" for a tag or class not decoded, and `means` is its value, {} if  *)
(* the value has not the type of the tag.                                  *)
Field(slot, class, tag, form, inner, means) ==
  [slot |-> slot, means |-> means,
   bytes |-> (IF tag < 31 THEN <<64 * class + 32 + tag>> ELSE <<64 * class + 63>> \o Base128(tag))
               \o LengthIn(form, Len(inner)) \o inner]

ListBody(fields) == FlattenSeq([i \in DOMAIN fields |-> fields[i].bytes])
EncList(fields) == Enc(SEQUENCE, ListBody(fields))

(* The last field with a tag decides.                                      *)
ListMeans(fields) ==
  [slot \in DOMAIN TagOf |->
     LET at == {i \in DOMAIN fields : fields[i].slot = slot}
     IN IF at = {} THEN {} ELSE fields[CHOOSE i \in at : \A j \in at : j <= i].means]

Readable(fields) == \A i \in DOMAIN fields : fields[i].slot # "none" => fields[i].means # {}

EncApplicationId(packages, digests) ==
  LET Package(p) == Enc(SEQUENCE, Enc(OCTET_STRING, p.name) \o EncInt(p.version)) IN
  Enc(SET_OF, FlattenSeq([i \in DOMAIN packages |-> Package(packages[i])]))
    \o Enc(SET_OF, FlattenSeq([i \in DOMAIN digests |-> Enc(OCTET_STRING, digests[i])]))
=============================================================================
