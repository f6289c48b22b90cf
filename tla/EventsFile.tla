------------------------------- MODULE EventsFile --------------------------------
(***************************************************************************)
(* The shapes of input the events command reads (cmd/axt-verify/events.go  *)
(* readEvents): one event, an array of them, a page of the feed, or one    *)
(* object a line.                                                          *)
(*                                                                         *)
(* An input is the sequence of JSON documents in it.  Of a document the    *)
(* model keeps what the framing turns on: whether it is an array or an     *)
(* object, the names of its members in order, what its "data" lists, where *)
(* it breaks off, and how it lies on the lines of the input.               *)
(***************************************************************************)
EXTENDS Integers, Sequences, SequencesExt

\* What a page carries (first_id and last_id are as has_more), and other names.
PageName == {"data", "has_more"}

\* A member's value: an array of events, null, anything else, or broken off.
Value(form, items) == [form |-> form, items |-> items]
Member(name, value) == [name |-> name, value |-> value]

(***************************************************************************)
(* A document.  "tag" tells events apart; "follows" says that it shares a  *)
(* line with the document before it, "spread" that its text has a line     *)
(* break in it.                                                            *)
(***************************************************************************)
Doc(form, members, items, tag, follows, spread) ==
  [form |-> form, members |-> members, items |-> items, tag |-> tag,
   follows |-> follows, spread |-> spread]

\* Documents around raw messages.  What a member other than "data" lists is left out.
DocumentOver(raws) ==
  {doc \in [form : {"array", "object", "other", "garbage"},
            members : Seq([name : STRING,
                           value : [form : {"array", "null", "other", "broken"},
                                    items : Seq(raws)]]),
            items : Seq(raws), tag : Nat, follows : BOOLEAN, spread : BOOLEAN] :
     \A i \in 1..Len(doc.members) :
       doc.members[i].value.items # <<>> =>
         doc.members[i].name = "data" /\ doc.members[i].value.form = "array"}
\* What an event lists in turn decides nothing: the deepest document that is kept lists
\* nothing.
Document == DocumentOver(Seq(DocumentOver({})))

Names(doc) == {doc.members[i].name : i \in 1..Len(doc.members)}

\* json.Valid of the document alone.
Whole(doc) ==
  /\ doc.form # "garbage"
  /\ \A i \in 1..Len(doc.members) : doc.members[i].value.form # "broken"

LooksLikePage(names) == "data" \in names /\ names \subseteq PageName

\* The members an object repeats; all of them are met before it breaks off.
Repeats(doc) == \E i, j \in 1..Len(doc.members) :
                  i # j /\ doc.members[i].name = doc.members[j].name

Fault == [is |-> "fault", members |-> <<>>]
NotOne == [is |-> "nil", members |-> <<>>]

\* Slip: the object is read off the front of the input.
StrictObjectInFront(file) ==
  IF Repeats(file[1]) THEN Fault
  ELSE IF ~Whole(file[1]) THEN NotOne
  ELSE [is |-> "object", members |-> file[1].members]

\* strictObject, over an input that starts with an object.
StrictObject(file) ==
  IF Repeats(file[1]) THEN Fault
  ELSE IF ~Whole(file[1]) THEN NotOne
  ELSE IF Len(file) > 1 THEN IF LooksLikePage(Names(file[1])) THEN Fault ELSE NotOne
  ELSE [is |-> "object", members |-> file[1].members]

Rejected == [ok |-> FALSE, raws |-> <<>>]
Accepted(raws) == [ok |-> TRUE, raws |-> raws]

\* One object a line: every line is one whole document.
Lines(file) ==
  IF \A i \in 1..Len(file) : Whole(file[i]) /\ ~file[i].follows /\ ~file[i].spread
  THEN Accepted([i \in 1..Len(file) |-> <<file[i]>>])
  ELSE Rejected

\* The array json.Unmarshal makes of a page's data; null is an empty one.
ListOf(value) ==
  IF value.form \in {"array", "null"} THEN Accepted(value.items) ELSE Rejected

\* readEvents: the raw messages handed to the verifier, or an input error.
ReadEvents(file) ==
  IF file = <<>> THEN Rejected
  ELSE IF file[1].form = "array" THEN
    IF Len(file) = 1 THEN Accepted(file[1].items) ELSE Rejected
  ELSE IF file[1].form # "object" THEN Rejected
  ELSE
    LET probe == StrictObject(file)
        names == {probe.members[i].name : i \in 1..Len(probe.members)}
    IN IF probe = Fault
       THEN IF LooksLikePage(Names(file[1])) THEN Rejected ELSE Accepted(<<file>>)
       ELSE IF "data" \in names
       THEN IF ~LooksLikePage(names) THEN Rejected
            ELSE ListOf(probe.members[SelectInSeq(probe.members,
                                                  LAMBDA m : m.name = "data")].value)
       ELSE IF Len(file) = 1 /\ Whole(file[1]) THEN Accepted(<<file>>)
       ELSE Lines(file)
----------------------------------------------------------------------------------
\* Whether the verifier is bound to fail a raw message: it is not one object with
\* distinct members and a type.
IsFailed(raw) ==
  \/ Len(raw) # 1 \/ raw[1].form # "object" \/ ~Whole(raw[1])
  \/ Repeats(raw[1]) \/ "type" \notin Names(raw[1])

\* Every event a document has in it, in order: the events it lists, under any of its
\* "data" members if it is a page, or itself.
EventsIn(doc) ==
  CASE doc.form = "array" -> doc.items
    [] doc.form = "object" /\ LooksLikePage(Names(doc)) ->
         FlattenSeq([i \in 1..Len(doc.members) |-> doc.members[i].value.items])
    [] OTHER -> << <<doc>> >>
==================================================================================
