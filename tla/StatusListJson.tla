--------------------------- MODULE StatusListJson ---------------------------
(***************************************************************************)
(* StatusList::from_json, the hand-written reader of Google's attestation  *)
(* status list, and what a status list says.                               *)
(*                                                                         *)
(* A text is a sequence of symbols: punctuation, "ws" (space, tab or line  *)
(* break), "bom", the backslash, and words.  Words are letters and hex     *)
(* digits, or whole names ("entries", "status", "reason") where only their *)
(* identity matters.  Positions count from 1.  A reader returns the set of *)
(* its results: {} for an Err, otherwise {[val, next]} with the position   *)
(* after what it read.  Loops are functions, recursive in the turn.        *)
(***************************************************************************)
EXTENDS Integers, Sequences

At(bytes, pos) == IF pos \in DOMAIN bytes THEN bytes[pos] ELSE "end"

(* The first position from `pos` on that holds something else than `s`.    *)
Skip(s, bytes, pos) ==
  CHOOSE p \in pos..Len(bytes) + pos :
    At(bytes, p) # s /\ \A q \in pos..p - 1 : At(bytes, q) = s

skip_ws(bytes, pos) == Skip("ws", bytes, pos)

(* The position after `c`.                                                 *)
expect_char(bytes, pos, c) ==
  {p + 1 : p \in {x \in {skip_ws(bytes, pos)} : At(bytes, x) = c}}

(* The symbols that the scan of read_string from `pos` on does not look    *)
(* at: an escape skips the symbol after it.                                *)
Escaped(bytes, pos) ==
  LET escaped[p \in 0..Len(bytes)] ==
        p > pos /\ At(bytes, p - 1) = "backslash" /\ ~escaped[p - 1]
  IN  escaped

closing_quote(bytes, pos) ==
  LET quotes == {p \in pos..Len(bytes) : bytes[p] = "quote" /\ ~Escaped(bytes, pos)[p]}
  IN  {p \in quotes : \A q \in quotes : p <= q}

(* The raw content of a string.                                            *)
read_string(bytes, pos) ==
  UNION {{[val |-> SubSeq(bytes, start, end - 1), next |-> end + 1] :
            end \in closing_quote(bytes, start)} : start \in expect_char(bytes, pos, "quote")}

(* A string and the colon after it.                                        *)
read_key(bytes, pos) ==
  UNION {{[val |-> key.val, next |-> p] : p \in expect_char(bytes, key.next, "colon")} :
         key \in read_string(bytes, pos)}

(* The turns of the loop over the members of an object: what was read so   *)
(* far, and whether there is more.                                         *)
FirstTurn(bytes, pos) ==
  LET p == skip_ws(bytes, pos) IN
  IF At(bytes, p) = "close" THEN [val |-> <<>>, next |-> p + 1, more |-> FALSE]
  ELSE [val |-> <<>>, next |-> pos, more |-> TRUE]

(* A comma after a member means more, otherwise the brace has to follow.   *)
AfterMember(bytes, pos, val) ==
  LET p == skip_ws(bytes, pos) IN
  IF At(bytes, p) = "comma" THEN {[val |-> val, next |-> p + 1, more |-> TRUE]}
  ELSE {[val |-> val, next |-> q, more |-> FALSE] : q \in expect_char(bytes, p, "close")}

NextTurn(bytes, member, t) ==
  IF t.more THEN UNION {AfterMember(bytes, m.next, Append(t.val, m.val)) : m \in member[t.next]}
  ELSE {t}

(* The members from the symbol after the brace on: `member` gives what     *)
(* reading one returns at every position.                                  *)
ReadMembers(bytes, pos, member) ==
  LET turn[n \in 0..Len(bytes)] ==
        IF n = 0 THEN {FirstTurn(bytes, pos)}
        ELSE UNION {NextTurn(bytes, member, t) : t \in turn[n - 1]}
  IN  {[val |-> t.val, next |-> t.next] : t \in {x \in turn[Len(bytes)] : ~x.more}}

Positions(bytes) == 1..Len(bytes) + 1

(* A field of a record: two strings.                                       *)
read_field(bytes) ==
  [pos \in Positions(bytes) |->
     UNION {{[val |-> [key |-> key.val, val |-> val.val], next |-> val.next] :
               val \in read_string(bytes, key.next)} : key \in read_key(bytes, pos)}]

(* The variable that the fields assign for `key`, at first empty.          *)
Value(fields, key) ==
  LET out[n \in 0..Len(fields)] ==
        IF n = 0 THEN <<>> ELSE IF fields[n].key = key THEN fields[n].val ELSE out[n - 1]
  IN  out[Len(fields)]

Record(fields) ==
  [status |-> Value(fields, <<"status">>), reason |-> Value(fields, <<"reason">>)]

read_status_object(bytes, pos) ==
  UNION {{[val |-> Record(fields.val), next |-> fields.next] :
            fields \in ReadMembers(bytes, p, read_field(bytes))} :
         p \in expect_char(bytes, pos, "open")}

(* str::to_lowercase on a serial.                                          *)
to_lowercase(s) == [i \in DOMAIN s |-> IF s[i] = "A" THEN "a" ELSE s[i]]

read_entry(bytes) ==
  [pos \in Positions(bytes) |->
     UNION {{[val |-> [serial |-> to_lowercase(serial.val), record |-> object.val],
              next |-> object.next] :
               object \in read_status_object(bytes, serial.next)} :
            serial \in read_key(bytes, pos)}]

(* The HashMap after all inserts; an insert replaces.                      *)
Inserted(list) ==
  LET entries[n \in 0..Len(list)] ==
        IF n = 0 THEN [s \in {} |-> <<>>]
        ELSE [s \in DOMAIN entries[n - 1] \cup {list[n].serial} |->
                IF s = list[n].serial THEN list[n].record ELSE entries[n - 1][s]]
  IN  entries[Len(list)]

(* All but the last brace.                                                 *)
EntriesMember(bytes) ==
  LET Member(key) ==
        IF key.val # <<"entries">> THEN {}
        ELSE UNION {ReadMembers(bytes, p, read_entry(bytes)) :
                    p \in expect_char(bytes, key.next, "open")}
  IN  UNION {UNION {Member(key) : key \in read_key(bytes, start)} :
             start \in expect_char(bytes, Skip("bom", bytes, 1), "open")}

(* Mutant: the reader is content with the end of the entries.              *)
from_json_NoFinalBrace(bytes) == {Inserted(list.val) : list \in EntriesMember(bytes)}

(* The list read.  What follows the last brace is not looked at.           *)
from_json(bytes) ==
  {Inserted(list.val) :
     list \in {x \in EntriesMember(bytes) : expect_char(bytes, x.next, "close") # {}}}

----------------------------------------------------------------------------
(* What a status list says.  A document is a sequence of [serial, fields], *)
(* its fields a sequence of [key, val].  It is written with white space    *)
(* `w` around every token.                                                 *)

Quoted(s, w) == w \o <<"quote">> \o s \o <<"quote">> \o w

(* The members in `parts`, with white space before the first.              *)
MembersText(parts, w) ==
  LET text[n \in 0..Len(parts)] ==
        IF n = 0 THEN w
        ELSE text[n - 1] \o (IF n = 1 THEN <<>> ELSE <<"comma">>) \o parts[n]
  IN  text[Len(parts)]

Object(parts, w) == w \o <<"open">> \o MembersText(parts, w) \o <<"close">> \o w

Pair(key, text, w) == Quoted(key, w) \o <<"colon">> \o text

FieldText(f, w) == Pair(f.key, Quoted(f.val, w), w)
RecordText(fields, w) == Object([i \in DOMAIN fields |-> FieldText(fields[i], w)], w)
EntryText(e, w) == Pair(e.serial, RecordText(e.fields, w), w)
EntriesText(doc, w) == Object([i \in DOMAIN doc |-> EntryText(doc[i], w)], w)

Written(doc, w) == w \o <<"open">> \o Pair(<<"entries">>, EntriesText(doc, w), w) \o <<"close">> \o w

(* What may stand between two quotes: with the right choice of the symbols *)
(* that are escaped, every quote is, and the last backslash escapes        *)
(* nothing that is not there.                                              *)
WellEscaped(s) ==
  \E escaped \in SUBSET DOMAIN s :
    /\ \A i \in DOMAIN s :
         i \in escaped <=> i # 1 /\ s[i - 1] = "backslash" /\ i - 1 \notin escaped
    /\ \A i \in DOMAIN s : s[i] = "quote" => i \in escaped
    /\ s # <<>> /\ s[Len(s)] = "backslash" => Len(s) \in escaped

(* The value a JSON object gives to a key: the last one written.           *)
LastVal(fields, key) ==
  LET at == {i \in DOMAIN fields : fields[i].key = key}
  IN IF at = {} THEN <<>> ELSE fields[CHOOSE i \in at : \A j \in at : j <= i].val

(* Serials are compared without regard to case.                            *)
SameSerial(s, t) ==
  /\ Len(s) = Len(t)
  /\ \A i \in DOMAIN s : s[i] = t[i] \/ {s[i], t[i]} = {"a", "A"}

Listed(doc, serial) == {i \in DOMAIN doc : SameSerial(doc[i].serial, serial)}

(* `entries` is what `doc` says: every serial is found in lower case, with *)
(* the record that comes last, and nothing else is.                        *)
Says(doc, entries) ==
  /\ \A s \in DOMAIN entries : Listed(doc, s) # {} /\ \A i \in DOMAIN s : s[i] # "A"
  /\ \A i \in DOMAIN doc : \E s \in DOMAIN entries : SameSerial(s, doc[i].serial)
  /\ \A s \in DOMAIN entries :
       LET last == CHOOSE i \in Listed(doc, s) : \A j \in Listed(doc, s) : j <= i
       IN entries[s] = [status |-> LastVal(doc[last].fields, <<"status">>),
                        reason |-> LastVal(doc[last].fields, <<"reason">>)]
=============================================================================
