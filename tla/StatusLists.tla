---------------------------- MODULE StatusLists -----------------------------
(***************************************************************************)
(* The reader of the status list on lists of which more and more has       *)
(* arrived: `subject` is a list, `cut` the number of its symbols that are  *)
(* there.                                                                  *)
(***************************************************************************)
EXTENDS StatusListJson, Reading

CONSTANTS
  Words,      \* letters, digits and other names that strings are made of
  StatusDocs  \* a family of [doc, w, bom]: a list, its white space, a BOM or not

Symbols ==
  Words \cup {"bom", "ws", "open", "close", "colon", "comma", "quote", "backslash",
             "entries", "status", "reason"}

(* What stands between quotes can stand there.                             *)
ASSUME StatusAssumption ==
  \A i \in DOMAIN StatusDocs :
    LET d == StatusDocs[i] IN
    /\ d.doc \in Seq([serial : Seq(Symbols), fields : Seq([key : Seq(Symbols), val : Seq(Symbols)])])
    /\ d.w \in Seq({"ws"}) /\ d.bom \in BOOLEAN
    /\ \A n \in DOMAIN d.doc :
         /\ WellEscaped(d.doc[n].serial)
         /\ \A k \in DOMAIN d.doc[n].fields :
              WellEscaped(d.doc[n].fields[k].key) /\ WellEscaped(d.doc[n].fields[k].val)

StatusText(d) == (IF d.bom THEN <<"bom">> ELSE <<>>) \o Written(d.doc, d.w)

StatusLength(s) == IF s.kind = "status" THEN Len(StatusText(s.status)) ELSE 0

StatusInit ==
  cut = 0 /\ \E i \in DOMAIN StatusDocs : subject = [kind |-> "status", status |-> StatusDocs[i]]

(* One more symbol of the list is there.                                   *)
Receive == cut < StatusLength(subject) /\ cut' = cut + 1 /\ UNCHANGED subject

StatusSpec == StatusInit /\ [][Receive]_readerVars

----------------------------------------------------------------------------
(* StatusList::from_json: a list of which the end is missing is refused,   *)
(* never read as a shorter one in which a revoked serial is absent; a      *)
(* whole list is read as what it says, with escapes in strings, keys in    *)
(* any order, white space anywhere, and serials that are repeated in       *)
(* another case.                                                           *)
StatusListWhole ==
  subject.kind = "status" =>
    LET d == subject.status
        read == from_json(SubSeq(StatusText(d), 1, cut))
        end == StatusLength(subject) - Len(d.w)
    IN  IF cut < end THEN read = {} ELSE \E e \in read : read = {e} /\ Says(d.doc, e)
=============================================================================
