------------------------------- MODULE InputsProofs -------------------------------
(***************************************************************************)
(* Inputs: each of its five invariants, for command lines, events files,   *)
(* rows, texts and notes of any length.  What the reader of a command line *)
(* makes of it is in ArgumentsProofs, with the lemmas about lists.         *)
(***************************************************************************)
EXTENDS Inputs, ArgumentsProofs

----------------------------------------------------------------------------------
\* What a state knows, and a note.

\* What a state of Inputs knows: the input is one of those tried, and what was made of
\* it is what its reader makes of it.
ReadOnce ==
  /\ reader = "arguments" => given \in CommandLine /\ (done => got = ParseCommandArgs(given))
  /\ reader = "events file" => given \in File /\ (done => got = ReadEvents(given))
  /\ reader = "row" => /\ given \in Row
                       /\ done => \/ IsPassedOver(given) /\ got = <<"passed over">>
                                  \/ ~IsPassedOver(given) /\ Parses(given) /\ got = <<"parsed", Parse(given)>>
                                  \/ ~IsPassedOver(given) /\ ~Parses(given) /\ got = <<"failed">>
  /\ reader = "text" =>
       /\ given \in Served
       /\ done => got = [line |-> Shown!Printable(given),
                         json |-> Shown!EscapeDisplay(Shown!Marshal(given)),
                         scrubbed |-> Shown!EscapeDisplay(Shown!Marshal(Shown!Printable(given)))]
  /\ reader = "note" => given \in Invocation /\ (done => got = Checked(given))

\* Every input that is read is one of those tried, and what its reader made of it is
\* what the code's functions return for it (main.go run calls each once).
THEOREM ReadOnceHolds == Spec => []ReadOnce
<1>1. Init => ReadOnce
  BY DEF Init, ReadOnce
<1>2. ReadOnce /\ [Next]_vars => ReadOnce'
  <2> SUFFICES ASSUME ReadOnce, [Next]_vars PROVE ReadOnce'
    OBVIOUS
  <2>1. CASE ReadLine
    BY <2>1 DEF ReadOnce, ReadLine, Makes
  <2>2. CASE ReadFile
    BY <2>2 DEF ReadOnce, ReadFile, Makes
  <2>3. CASE ReadRow
    BY <2>3 DEF ReadOnce, ReadRow, Makes
  <2>4. CASE Show
    BY <2>4 DEF ReadOnce, Show, Makes
  <2>5. CASE ReadNote
    BY <2>5 DEF ReadOnce, ReadNote, Makes
  <2>6. CASE UNCHANGED vars
    BY <2>6 DEF ReadOnce, vars
  <2> QED
    BY <2>1, <2>2, <2>3, <2>4, <2>5, <2>6 DEF Next
<1> QED
  BY <1>1, <1>2, PTL DEF Spec

\* Of the lines of a note by a key, the first decides.
LEMMA FirstLine ==
  ASSUME NEW known, known \in SUBSET Nat, known # {}
  PROVE  LET first == CHOOSE i \in known : \A j \in known : i <= j
         IN first \in known
BY LeastOfNaturals

\* What the key decides is the key and the origin asked for.
LEMMA AskedFor ==
  ASSUME NEW inv, inv \in [org : Org, flag : KeyString, env : KeyString, from : Source, note : Note],
         Resolve(inv.org, LogKeyFrom(inv.flag, inv.env)).ok
  PROVE  /\ Resolve(inv.org, LogKeyFrom(inv.flag, inv.env)).origin = ChosenOrigin(inv)
         /\ Resolve(inv.org, LogKeyFrom(inv.flag, inv.env)).key = ChosenKey(inv)
         /\ ChosenOrigin(inv).org = inv.org
<1> DEFINE logKey == LogKeyFrom(inv.flag, inv.env)
<1>1. inv.flag \in KeyString /\ inv.env \in KeyString
  OBVIOUS
<1>2. logKey \in KeyString
  BY <1>1 DEF LogKeyFrom
<1>3. ~Untrusted.ok
  BY DEF Untrusted
<1>4. CASE logKey.form = "none"
  <2>1. inv.flag.form = "none" /\ inv.env.form = "none"
    BY <1>4 DEF LogKeyFrom
  <2>2. Resolve(inv.org, logKey) = New(OriginOf(inv.org), BuiltinVerifierKey(inv.org))
    BY <1>4 DEF Resolve
  <2>3. /\ Resolve(inv.org, logKey).origin = OriginOf(inv.org)
        /\ Resolve(inv.org, logKey).key = Builtin
    BY <2>2, <1>3 DEF New, BuiltinVerifierKey
  <2>4. OriginOf(inv.org).org = inv.org
    BY DEF OriginOf
  <2> QED
    BY <2>1, <2>3, <2>4 DEF ChosenOrigin, ChosenKey
<1>5. CASE logKey.form # "none"
  <2>1. logKey.form # "other" /\ logKey.name.org = inv.org
    BY <1>3, <1>5 DEF Resolve
  <2>2. Resolve(inv.org, logKey) = New(logKey.name, logKey)
    BY <1>5, <2>1 DEF Resolve
  <2>3. /\ Resolve(inv.org, logKey).origin = logKey.name
        /\ Resolve(inv.org, logKey).key = logKey.key
    BY <2>2, <1>3 DEF New
  <2>4. ChosenOrigin(inv) = logKey.name /\ ChosenKey(inv) = logKey.key
    BY <1>5 DEF ChosenOrigin, ChosenKey, LogKeyFrom
  <2> QED
    BY <2>1, <2>3, <2>4
<1> QED
  BY <1>4, <1>5

\* A checked note is judged as OnlyThisLog says: by cases on where the note is from and
\* on whether a signature of the chosen key stands.
LEMMA NotesAreChecked ==
  ASSUME reader = "note", done, given \in Invocation, got = Checked(given)
  PROVE  OnlyThisLog
<1> DEFINE note == given.note
           v == Resolve(given.org, LogKeyFrom(given.flag, given.env))
           known == {i \in 1..Len(note.sigs) : Known(v, note.sigs[i])}
           first == CHOOSE i \in known : \A j \in known : i <= j
           chosen == {i \in 1..Len(note.sigs) : /\ note.sigs[i].name = ChosenOrigin(given)
                                                /\ note.sigs[i].key = ChosenKey(given)}
<1>1. given \in [org : Org, flag : KeyString, env : KeyString, from : Source, note : Note]
  BY InvocationAssumption
<1>2. /\ given.from \in Source /\ note.form \in {"note", "text", "no checkpoint"}
      /\ Len(note.sigs) \in Nat
      /\ \A i \in 1..Len(note.sigs) : note.sigs[i].valid \in BOOLEAN
  <2>1. note.sigs \in Seq(Line)
    BY <1>1 DEF Note
  <2>2. Len(note.sigs) \in Nat
    BY <2>1, LenProperties
  <2>3. \A i \in 1..Len(note.sigs) : note.sigs[i] \in Line
    BY <2>1, ElementOfSeq
  <2>4. given.from \in Source /\ note.form \in {"note", "text", "no checkpoint"}
    BY <1>1 DEF Note
  <2> QED
    BY <2>2, <2>3, <2>4 DEF Line
<1>3. CASE ~v.ok
  BY <1>3 DEF Checked, OnlyThisLog
<1>4. CASE v.ok
  <2>1. /\ v.origin = ChosenOrigin(given) /\ v.key = ChosenKey(given)
        /\ ChosenOrigin(given).org = given.org
    BY <1>1, <1>4, AskedFor
  <2>2. known = chosen
    BY <2>1 DEF Known
  <2>3. chosen # {} => first \in chosen
    <3>1. known \in SUBSET Nat
      <4>1. known \subseteq 1..Len(note.sigs)
        OBVIOUS
      <4>2. 1..Len(note.sigs) \subseteq Nat
        OBVIOUS
      <4> HIDE DEF known
      <4> QED
        BY <4>1, <4>2
    <3> QED
      BY <3>1, <2>2, FirstLine
  <2>4. got = Fate(v, given.from, note)
    BY <1>4 DEF Checked
  <2>5. Open(v, note) = IF note.form = "text" THEN "malformed"
                        ELSE IF chosen = {} \/ ~note.sigs[first].valid THEN "signature"
                        ELSE "opened"
    BY <2>2 DEF Open
  <2> HIDE DEF v, known, first
  <2>6. /\ got = "believed" =>
             /\ note.origin = ChosenOrigin(given) /\ note.origin.org = given.org
             /\ IsOwnRecord(given.from) \/ \E i \in chosen : note.sigs[i].valid
        /\ note.form = "note" /\ note.origin = ChosenOrigin(given)
             /\ chosen # {} /\ (\A i \in chosen : note.sigs[i].valid) => got = "believed"
        /\ note.form = "note" /\ ~IsOwnRecord(given.from)
             /\ (chosen = {} \/ note.origin # ChosenOrigin(given)) => got = "finding"
    BY <1>2, <2>1, <2>3, <2>4, <2>5 DEF Fate, Verify, ParseTrusted, ParseBody, IsOwnRecord, Source
  <2> QED
    BY <2>6, <1>4 DEF OnlyThisLog, v
<1> QED
  BY <1>3, <1>4

\* Trust decisions, for any keys, origins, signature lines and sources: OnlyThisLog.
THEOREM OnlyThisLogHolds == Spec => []OnlyThisLog
<1>1. ReadOnce => OnlyThisLog
  <2> SUFFICES ASSUME ReadOnce, reader = "note", done PROVE OnlyThisLog
    BY DEF OnlyThisLog
  <2> QED
    BY NotesAreChecked DEF ReadOnce
<1> QED
  BY <1>1, ReadOnceHolds, PTL

----------------------------------------------------------------------------------
\* An events file.

\* What is known of a document.
LEMMA Documents ==
  ASSUME NEW doc \in Document
  PROVE  /\ Len(doc.members) \in Nat /\ doc.items \in Seq(Seq(DocumentOver({})))
         /\ \A i \in 1..Len(doc.members) :
              /\ doc.members[i].value.items \in Seq(Seq(DocumentOver({})))
              /\ doc.members[i].value.items # <<>> =>
                   doc.members[i].name = "data" /\ doc.members[i].value.form = "array"
<1> DEFINE R == Seq(DocumentOver({}))
           M == [name : STRING, value : [form : {"array", "null", "other", "broken"}, items : Seq(R)]]
<1>1. /\ doc.members \in Seq(M) /\ doc.items \in Seq(R)
      /\ \A i \in 1..Len(doc.members) :
           doc.members[i].value.items # <<>> =>
             doc.members[i].name = "data" /\ doc.members[i].value.form = "array"
  <2> HIDE DEF R
  <2>1. Document = DocumentOver(R)
    BY DEF Document, R
  <2> QED
    BY <2>1 DEF DocumentOver
<1> HIDE DEF R
<1>2. \A i \in 1..Len(doc.members) : doc.members[i] \in M
  <2> HIDE DEF M
  <2> QED
    BY <1>1, ElementOfSeq
<1>3. Len(doc.members) \in Nat
  <2> HIDE DEF M
  <2> QED
    BY <1>1, LenProperties
<1> QED
  BY <1>1, <1>2, <1>3 DEF R

\* A page that repeats no name has one list of events, what its "data" has.
LEMMA PageHasOneList ==
  ASSUME NEW doc \in Document, ~Repeats(doc),
         NEW m \in 1..Len(doc.members), doc.members[m].name = "data"
  PROVE  FlattenSeq([i \in 1..Len(doc.members) |-> doc.members[i].value.items])
           = doc.members[m].value.items
<1> DEFINE R == Seq(DocumentOver({}))
           n == Len(doc.members)
           s == [i \in 1..n |-> doc.members[i].value.items]
<1>1. n \in Nat /\ \A i \in 1..n : s[i] \in Seq(R)
  BY Documents
<1>2. \A i \in 1..n : i # m => s[i] = <<>>
  BY Documents DEF Repeats
<1>3. s \in Seq(Seq(R)) /\ Len(s) = n
  <2> HIDE DEF R
  <2>1. s \in [1..n -> Seq(R)]
    BY <1>1
  <2> HIDE DEF s
  <2> QED
    BY <1>1, <2>1
<1>4. FlattenSeq(s) = s[m]
  <2> HIDE DEF s, R, n
  <2>1. m \in 1..Len(s) /\ \A k \in 1..Len(s) : k # m => s[k] = <<>>
    BY <1>2, <1>3 DEF n
  <2> QED
    BY <1>3, <2>1, FlattenOfOne
<1> QED
  BY <1>4

\* Short sequences, and sequences given element by element.
LEMMA OneElement ==
  ASSUME NEW S, NEW x \in S
  PROVE  <<x>> \in Seq(S) /\ Len(<<x>>) = 1 /\ <<x>>[1] = x /\ 1 \in 1..Len(<<x>>)
OBVIOUS

\* The element of a list of one.
LEMMA OnlyElement ==
  ASSUME NEW S, NEW s \in Seq(S), Len(s) = 1
  PROVE  s[1] \in S /\ s = <<s[1]>>
<1>1. s[1] \in S
  BY ElementOfSeq
<1>2. <<s[1]>> \in Seq(S) /\ Len(<<s[1]>>) = 1 /\ <<s[1]>>[1] = s[1]
  BY <1>1, OneElement
<1>3. \A i \in 1..Len(s) : s[i] = <<s[1]>>[i]
  BY <1>2
<1> QED
  BY <1>1, <1>2, <1>3, SeqEqual

\* A function on the first n numbers is a list.
LEMMA Tabulated ==
  ASSUME NEW S, NEW n \in Nat, NEW f \in [1..n -> S]
  PROVE  f \in Seq(S) /\ Len(f) = n
OBVIOUS

\* The first member of a name, if it has one.
LEMMA FirstNamed ==
  ASSUME NEW members, NEW i \in 1..Len(members), members[i].name = "data"
  PROVE  LET m == SelectInSeq(members, LAMBDA x : x.name = "data")
         IN m \in 1..Len(members) /\ members[m].name = "data"
<1> DEFINE I == {k \in 1..Len(members) : members[k].name = "data"}
<1>1. I # {} 
  OBVIOUS
<1>2. I \in SUBSET Nat
  OBVIOUS
<1>3. \E m \in I : \A k \in I : m <= k
  <2> HIDE DEF I
  <2> QED
    BY <1>1, <1>2, LeastOfNaturals
<1>4. Min(I) \in I
  BY <1>3 DEF Min
<1>5. SelectInSeq(members, LAMBDA x : x.name = "data") = Min(I)
  BY <1>1 DEF SelectInSeq
<1> QED
  BY <1>4, <1>5

\* The framing of one object a line hands on every line as an event.
LEMMA LinesAreEvents ==
  ASSUME NEW file \in Seq(Document), Lines(file).ok,
         \A i \in 1..Len(file) : ~IsFailed(<<file[i]>>)
  PROVE  Lines(file).raws = FlattenSeq([i \in 1..Len(file) |-> EventsIn(file[i])])
<1> DEFINE n == Len(file)
           R == Seq(Document)
           t == [i \in 1..n |-> <<file[i]>>]
           s == [i \in 1..n |-> EventsIn(file[i])]
<1>1. n \in Nat /\ \A i \in 1..n : file[i] \in Document
  BY LenProperties, ElementOfSeq
<1>2. Lines(file).raws = t
  BY DEF Lines, Accepted, Rejected
<1>3. ASSUME NEW i \in 1..n PROVE s[i] = <<t[i]>>
  <2> DEFINE doc == file[i]
  <2>1. <<doc>>[1] = doc
    OBVIOUS
  <2>2. doc.form = "object" /\ "type" \in Names(doc)
    BY <2>1 DEF IsFailed
  <2>3. ~LooksLikePage(Names(doc))
    BY <2>2 DEF LooksLikePage, PageName
  <2>4. EventsIn(doc) = << <<doc>> >>
    BY <2>2, <2>3 DEF EventsIn
  <2> QED
    BY <2>4
<1>4. t \in Seq(R) /\ Len(t) = n
  <2>1. \A i \in 1..n : t[i] \in R
    BY <1>1
  <2>2. t \in [1..n -> R]
    BY <2>1
  <2> HIDE DEF t, R
  <2> QED
    BY <1>1, <2>2
<1>5. s \in Seq(Seq(R)) /\ Len(s) = n
  <2>1. \A i \in 1..n : t[i] \in R
    BY <1>1
  <2>2. \A i \in 1..n : <<t[i]>> \in Seq(R)
    <3> HIDE DEF t, R
    <3> QED
      BY <2>1
  <2>3. \A i \in 1..n : s[i] \in Seq(R)
    BY <1>3, <2>2
  <2>4. s \in [1..n -> Seq(R)]
    <3> HIDE DEF R
    <3>1. s = [i \in 1..n |-> s[i]]
      OBVIOUS
    <3> QED
      BY <2>3, <3>1
  <2> HIDE DEF s, R
  <2> QED
    BY <1>1, <2>4
<1>6. FlattenSeq(s) = t
  <2> HIDE DEF s, t, R
  <2>1. Len(s) = Len(t) /\ \A k \in 1..Len(t) : s[k] = <<t[k]>>
    BY <1>3, <1>4, <1>5
  <2> QED
    BY <1>4, <1>5, <2>1, FlattenOfSingles
<1> QED
  BY <1>2, <1>6

\* The events of one document.
LEMMA EventsOfOne ==
  ASSUME NEW file \in Seq(Document), Len(file) = 1,
         NEW R, EventsIn(file[1]) \in Seq(R)
  PROVE  FlattenSeq([i \in 1..Len(file) |-> EventsIn(file[i])]) = EventsIn(file[1])
<1> DEFINE s == [i \in 1..Len(file) |-> EventsIn(file[i])]
<1>1. 1..Len(file) = {1}
  OBVIOUS
<1>2. s[1] = EventsIn(file[1]) /\ \A i \in 1..1 : s[i] = EventsIn(file[1])
  BY <1>1
<1>3. s \in Seq(Seq(R)) /\ Len(s) = 1
  <2>1. s \in [1..Len(file) -> Seq(R)]
    BY <1>1, <1>2
  <2>2. Len(file) \in Nat
    OBVIOUS
  <2> HIDE DEF s
  <2>3. s \in Seq(Seq(R)) /\ Len(s) = Len(file)
    BY <2>1, <2>2, Tabulated
  <2> QED
    BY <2>3
<1>4. FlattenSeq(s) = s[1]
  <2> HIDE DEF s
  <2>1. 1 \in 1..Len(s) /\ \A k \in 1..Len(s) : k # 1 => s[k] = <<>>
    BY <1>3
  <2> QED
    BY <1>3, <2>1, FlattenOfOne
<1> QED
  BY <1>2, <1>4


\* Of the readings, what each says, one way for an input to begin at a time.
EveryEvent(file) == FlattenSeq([i \in 1..Len(file) |-> EventsIn(file[i])])

\* What NothingIsPassedOver asks of what is made of a file.
Faithful(file, result) ==
  /\ result.ok => \/ \E i \in 1..Len(result.raws) : IsFailed(result.raws[i])
                  \/ result.raws = EveryEvent(file)
  /\ Len(file) = 1 /\ file[1].form = "object" /\ Whole(file[1])
       /\ "data" \notin Names(file[1]) => result = Accepted(<<file>>)
  /\ result.ok /\ file[1].form = "object" /\ LooksLikePage(Names(file[1])) =>
       result.raws = EventsIn(file[1])

\* A file is refused, or accepted with what is handed on.
LEMMA Results == ~Rejected.ok /\ \A raws : Accepted(raws).ok /\ Accepted(raws).raws = raws
  BY DEF Rejected, Accepted

\* Files that do not begin with an object.
LEMMA FramedByForm ==
  ASSUME NEW file \in Seq(Document), file = <<>> \/ file[1].form # "object"
  PROVE  Faithful(file, ReadEvents(file))
<1>1. CASE file = <<>>
  <2>1. ReadEvents(file) = Rejected /\ Len(file) # 1
    BY <1>1, EmptySeq DEF ReadEvents
  <2> QED
    BY <2>1, Results DEF Faithful
<1>2. CASE file # <<>> /\ file[1].form = "array"
  <2>1. ReadEvents(file) = IF Len(file) = 1 THEN Accepted(file[1].items) ELSE Rejected
    BY <1>2 DEF ReadEvents
  <2>2. CASE Len(file) = 1
    <3>1. file[1] \in Document
      BY <2>2, OnlyElement
    <3>2. EventsIn(file[1]) = file[1].items /\ file[1].items \in Seq(Seq(DocumentOver({})))
      BY <1>2, <3>1, Documents DEF EventsIn
    <3>3. EveryEvent(file) = EventsIn(file[1])
      BY <2>2, <3>2, EventsOfOne DEF EveryEvent
    <3> QED
      BY <1>2, <2>1, <2>2, <3>2, <3>3, Results DEF Faithful
  <2>3. CASE Len(file) # 1
    BY <2>1, <2>3, Results DEF Faithful
  <2> QED
    BY <2>2, <2>3
<1>3. CASE file # <<>> /\ file[1].form # "array"
  <2>1. ReadEvents(file) = Rejected
    BY <1>3 DEF ReadEvents
  <2> QED
    BY <1>3, <2>1, Results DEF Faithful
<1> QED
  BY <1>1, <1>2, <1>3

\* Files that begin with an object, whole and by itself.
LEMMA FramedAsOne ==
  ASSUME NEW file \in Seq(Document), Len(file) = 1, file[1].form = "object",
         ~Repeats(file[1]), Whole(file[1])
  PROVE  Faithful(file, ReadEvents(file))
<1> DEFINE doc == file[1]
           m == SelectInSeq(doc.members, LAMBDA x : x.name = "data")
<1>1. doc \in Document /\ file = <<doc>> /\ file # <<>>
  <2>1. Len(<<>>) = 0
    OBVIOUS
  <2> QED
    BY <2>1, OnlyElement
<1>2. /\ StrictObject(file) = [is |-> "object", members |-> doc.members]
      /\ StrictObject(file) # Fault /\ StrictObject(file).members = doc.members
  BY DEF StrictObject, Fault
<1>3. Names(doc) = {StrictObject(file).members[i].name : i \in 1..Len(StrictObject(file).members)}
  BY <1>2 DEF Names
<1>4. ReadEvents(file) =
        IF "data" \in Names(doc)
        THEN IF ~LooksLikePage(Names(doc)) THEN Rejected ELSE ListOf(doc.members[m].value)
        ELSE Accepted(<<file>>)
  BY <1>1, <1>2, <1>3 DEF ReadEvents
<1>5. CASE "data" \notin Names(doc)
  <2>1. EventsIn(doc) = << <<doc>> >> /\ ~LooksLikePage(Names(doc))
    BY <1>5 DEF EventsIn, LooksLikePage
  <2>2. EventsIn(doc) \in Seq(Seq(Document))
    BY <1>1, <2>1, OneElement
  <2>3. EveryEvent(file) = <<file>>
    BY <1>1, <2>1, <2>2, EventsOfOne DEF EveryEvent
  <2>4. ReadEvents(file) = Accepted(<<file>>)
    BY <1>4, <1>5
  <2> QED
    BY <2>1, <2>3, <2>4, Results DEF Faithful
<1>6. CASE "data" \in Names(doc) /\ ~LooksLikePage(Names(doc))
  <2>1. ReadEvents(file) = Rejected
    BY <1>4, <1>6
  <2> QED
    BY <1>6, <2>1, Results DEF Faithful
<1>7. CASE LooksLikePage(Names(doc))
  <2>1. "data" \in Names(doc)
    BY <1>7 DEF LooksLikePage
  <2>2. PICK i \in 1..Len(doc.members) : doc.members[i].name = "data"
    BY <2>1 DEF Names
  <2>3. m \in 1..Len(doc.members) /\ doc.members[m].name = "data"
    BY <2>2, FirstNamed
  <2>4. ReadEvents(file) = ListOf(doc.members[m].value)
    BY <1>4, <1>7, <2>1
  <2> HIDE DEF m
  <2>5. EventsIn(doc) = doc.members[m].value.items
    BY <1>1, <1>7, <2>3, PageHasOneList DEF EventsIn
  <2>6. EventsIn(doc) \in Seq(Seq(DocumentOver({})))
    BY <1>1, <2>3, <2>5, Documents
  <2>7. EveryEvent(file) = EventsIn(doc)
    BY <2>6, EventsOfOne DEF EveryEvent
  <2>8. ReadEvents(file).ok => ReadEvents(file).raws = EventsIn(doc)
    BY <2>4, <2>5, Results DEF ListOf
  <2> QED
    BY <2>1, <2>7, <2>8 DEF Faithful
<1> QED
  BY <1>5, <1>6, <1>7

\* Files that begin with an object, and one object a line.
LEMMA FramedByLine ==
  ASSUME NEW file \in Seq(Document), file # <<>>, file[1].form = "object",
         ~Repeats(file[1]), ~Whole(file[1]) \/ Len(file) # 1,
         LooksLikePage(Names(file[1])) => ~Whole(file[1])
  PROVE  Faithful(file, ReadEvents(file))
<1> DEFINE doc == file[1]
           result == Lines(file)
<1>1. Len(file) \in Nat /\ Len(file) >= 1
  BY EmptySeq, LenProperties
<1>2. StrictObject(file) = NotOne
  <2> DEFINE n == Len(file)
  <2>1. n \in Nat /\ n >= 1
    BY <1>1
  <2>2. n # 1 => n > 1
    <3> HIDE DEF n
    <3> QED
      BY <2>1
  <2>3. Whole(doc) => n > 1 /\ ~LooksLikePage(Names(doc))
    BY <2>2
  <2> QED
    BY <2>3 DEF StrictObject
<1>3. NotOne # Fault /\ {NotOne.members[i].name : i \in 1..Len(NotOne.members)} = {}
  <2>1. NotOne # Fault /\ NotOne.members = <<>>
    BY DEF NotOne, Fault
  <2>2. 1..Len(<<>>) = {}
    OBVIOUS
  <2> QED
    BY <2>1, <2>2
<1>4. ReadEvents(file) = result
  <2>1. "data" \notin {}
    OBVIOUS
  <2> QED
    BY <1>2, <1>3, <2>1 DEF ReadEvents
<1>5. result.ok => \A i \in 1..Len(file) : Whole(file[i])
  BY Results DEF Lines
<1>6. 1 \in 1..Len(file)
  BY <1>1
<1>7. result.ok => Whole(doc) /\ ~LooksLikePage(Names(doc)) /\ Len(file) # 1
  BY <1>5, <1>6
<1>8. ASSUME result.ok, \A i \in 1..Len(result.raws) : ~IsFailed(result.raws[i])
      PROVE  result.raws = EveryEvent(file)
  <2> DEFINE t == [i \in 1..Len(file) |-> <<file[i]>>]
  <2>1. result.raws = t
    BY <1>8, Results DEF Lines
  <2>2. Len(t) = Len(file)
    BY <1>1
  <2>3. \A i \in 1..Len(file) : ~IsFailed(<<file[i]>>)
    <3>1. \A i \in 1..Len(file) : t[i] = <<file[i]>>
      OBVIOUS
    <3>2. \A i \in 1..Len(t) : ~IsFailed(t[i])
      BY <1>8, <2>1
    <3> HIDE DEF t
    <3> QED
      BY <2>2, <3>1, <3>2
  <2> QED
    BY <1>8, <2>3, LinesAreEvents DEF EveryEvent
<1>9. Len(file) = 1 => ~Whole(doc)
  OBVIOUS
<1> HIDE DEF result
<1> QED
  BY <1>4, <1>7, <1>8, <1>9 DEF Faithful

\* Files that begin with an object at fault.
LEMMA FramedAtFault ==
  ASSUME NEW file \in Seq(Document), file # <<>>, file[1].form = "object",
         StrictObject(file) = Fault
  PROVE  Faithful(file, ReadEvents(file))
<1> DEFINE doc == file[1]
<1>1. Repeats(doc) \/ LooksLikePage(Names(doc))
  BY DEF StrictObject, NotOne, Fault
<1>2. ReadEvents(file) = IF LooksLikePage(Names(doc)) THEN Rejected ELSE Accepted(<<file>>)
  BY DEF ReadEvents
<1>3. CASE LooksLikePage(Names(doc))
  <2>1. "data" \in Names(doc)
    BY <1>3 DEF LooksLikePage
  <2> QED
    BY <1>2, <1>3, <2>1, Results DEF Faithful
<1>4. CASE ~LooksLikePage(Names(doc))
  <2>1. ReadEvents(file) = Accepted(<<file>>) /\ IsFailed(file)
    BY <1>1, <1>2, <1>4 DEF IsFailed
  <2>2. 1 \in 1..Len(<<file>>) /\ <<file>>[1] = file
    BY OneElement
  <2> QED
    BY <1>4, <2>1, <2>2, Results DEF Faithful
<1> QED
  BY <1>3, <1>4

\* Any file, of any number of documents with any number of members and events, is read
\* faithfully: by cases on how its events are framed (events.go readEvents).
LEMMA FilesAreFaithful ==
  ASSUME NEW file \in Seq(Document)
  PROVE  Faithful(file, ReadEvents(file))
<1>1. CASE file = <<>> \/ file[1].form # "object"
  BY <1>1, FramedByForm
<1>2. CASE file # <<>> /\ file[1].form = "object" /\ StrictObject(file) = Fault
  BY <1>2, FramedAtFault
<1>3. CASE file # <<>> /\ file[1].form = "object" /\ StrictObject(file) # Fault
  <2>1. ~Repeats(file[1])
    BY <1>3 DEF StrictObject
  <2>2. Len(file) \in Nat /\ Len(file) >= 1
    BY <1>3, EmptySeq, LenProperties
  <2>3. CASE Len(file) = 1 /\ Whole(file[1])
    BY <1>3, <2>1, <2>3, FramedAsOne
  <2>4. CASE Len(file) # 1 \/ ~Whole(file[1])
    <3>1. LooksLikePage(Names(file[1])) => ~Whole(file[1])
      <4> DEFINE n == Len(file)
      <4>1. n # 1 => n > 1
        <5>1. n \in Nat /\ n >= 1
          BY <2>2
        <5> HIDE DEF n
        <5> QED
          BY <5>1
      <4> QED
        BY <1>3, <2>1, <2>4, <4>1 DEF StrictObject
    <3> QED
      BY <1>3, <2>1, <2>4, <3>1, FramedByLine
  <2> QED
    BY <2>3, <2>4
<1> QED
  BY <1>1, <1>2, <1>3

\* However events are framed, none drops out before it is judged, and what is refused is
\* refused for the framing alone (events.go readEvents, decodeArray, decodePage).
THEOREM NothingIsPassedOverHolds == Spec => []NothingIsPassedOver
<1>1. ReadOnce => NothingIsPassedOver
  <2> SUFFICES ASSUME ReadOnce, reader = "events file", done PROVE NothingIsPassedOver
    BY DEF NothingIsPassedOver
  <2>1. given \in Seq(Document) /\ got = ReadEvents(given)
    BY FileAssumption DEF ReadOnce
  <2>2. Faithful(given, got)
    BY <2>1, FilesAreFaithful
  <2> QED
    BY <2>2 DEF NothingIsPassedOver, Faithful, EveryEvent
<1> QED
  BY <1>1, ReadOnceHolds, PTL

----------------------------------------------------------------------------------
\* A served row.

\* One step of wellFormed, with what f says of the rest.
WellFormedFrom(raw, f, i) ==
  LET hi == HexEscape(raw, i)
      lo == HexEscape(raw, i + 3)
  IN IF i > Len(raw) THEN TRUE
     ELSE IF raw[i] # Backslash THEN f[i + 1]
     ELSE IF hi = NoRune THEN f[i + 2]
     ELSE IF ~High(hi) /\ ~Low(hi) THEN f[i + 3]
     ELSE High(hi) /\ Low(lo) /\ f[i + 6]

\* What hexEscape returns for no escape is no half of a surrogate pair.
LEMMA NoRuneIsNoHalf == ~Low(NoRune) /\ ~High(NoRune)
  BY DEF Low, High, NoRune

\* A step of wellFormed looks only at later places.
LEMMA WellFormedLooksAhead ==
  ASSUME NEW raw \in Seq(Int), NEW i \in 1..(Len(raw) + 4),
         NEW f, NEW g, \A j \in (i + 1)..(Len(raw) + 4) : f[j] = g[j]
  PROVE  WellFormedFrom(raw, f, i) = WellFormedFrom(raw, g, i)
<1> DEFINE n == Len(raw)
           hi == HexEscape(raw, i)
           lo == HexEscape(raw, i + 3)
<1>1. n \in Nat /\ i \in Nat
  BY LenProperties
<1>2. CASE i > n
  BY <1>2 DEF WellFormedFrom
<1>3. CASE ~(i > n)
  <2>1. i + 1 \in (i + 1)..(n + 4) /\ i + 2 \in (i + 1)..(n + 4) /\ i + 3 \in (i + 1)..(n + 4)
    BY <1>1, <1>3
  <2>2. f[i + 1] = g[i + 1] /\ f[i + 2] = g[i + 2] /\ f[i + 3] = g[i + 3]
    BY <2>1
  <2>3. CASE raw[i] # Backslash \/ hi = NoRune \/ (~High(hi) /\ ~Low(hi))
    <3> HIDE DEF hi, lo, n
    <3> QED
      BY <1>3, <2>2, <2>3 DEF WellFormedFrom, hi, lo, n
  <2>4. CASE ~(raw[i] # Backslash \/ hi = NoRune \/ (~High(hi) /\ ~Low(hi)))
    <3>1. CASE ~Low(lo)
      <4>1. WellFormedFrom(raw, f, i) = FALSE /\ WellFormedFrom(raw, g, i) = FALSE
        BY <1>3, <2>4, <3>1 DEF WellFormedFrom
      <4> QED
        BY <4>1
    <3>2. CASE Low(lo)
      <4>1. lo # NoRune
        BY <3>2, NoRuneIsNoHalf
      <4>2. i + 3 + 2 <= n
        BY <4>1 DEF HexEscape
      <4>3. i + 6 \in (i + 1)..(n + 4)
        BY <1>1, <4>2
      <4>4. f[i + 6] = g[i + 6]
        BY <4>3
      <4> QED
        BY <1>3, <2>4, <3>2, <4>4 DEF WellFormedFrom
    <3> QED
      BY <3>1, <3>2
  <2> QED
    BY <2>3, <2>4
<1> QED
  BY <1>2, <1>3

\* There is a function that the recursion of wellFormed describes.
LEMMA WellFormedExists ==
  ASSUME NEW raw \in Seq(Int)
  PROVE  \E f : f = [i \in 1..(Len(raw) + 4) |-> WellFormedFrom(raw, f, i)]
<1> DEFINE N == Len(raw) + 4
           From(f, k) == \A i \in k..N : f[i] = WellFormedFrom(raw, f, i)
           Starts == {k \in 1..(N + 1) : \E f : From(f, k)}
<1>1. N \in Nat /\ N >= 4
  BY LenProperties
<1> HIDE DEF N
<1>2. N + 1 \in Starts
  <2>1. From(raw, N + 1) /\ N + 1 \in 1..(N + 1)
    BY <1>1
  <2> HIDE DEF From
  <2> QED
    BY <2>1
<1>3. PICK k \in Starts : \A j \in Starts : k <= j
  <2>1. Starts # {}
    BY <1>2
  <2>2. Starts \in SUBSET Nat
    BY <1>1
  <2> HIDE DEF Starts
  <2> QED
    BY <2>1, <2>2, LeastOfNaturals
<1>4. k \in 1..(N + 1) /\ \E f : From(f, k)
  BY <1>3
<1>5. PICK f : From(f, k)
  BY <1>4
<1>6. k = 1
  <2> SUFFICES ASSUME k # 1 PROVE FALSE
    OBVIOUS
  <2> DEFINE m == k - 1
             g == [i \in 1..N |-> IF i = m THEN WellFormedFrom(raw, f, m) ELSE f[i]]
  <2>1. m \in 1..N /\ ~(k <= m) /\ m + 1 = k /\ m \in 1..(N + 1)
    BY <1>1, <1>4
  <2>2. ASSUME NEW i \in m..N PROVE g[i] = WellFormedFrom(raw, g, i)
    <3>1. i \in 1..N /\ i \in 1..(Len(raw) + 4)
      BY <2>1 DEF N
    <3>2. \A j \in (i + 1)..(Len(raw) + 4) : f[j] = g[j]
      <4> TAKE j \in (i + 1)..(Len(raw) + 4)
      <4>1. j \in 1..N /\ j # m
        BY <2>1, <3>1 DEF N
      <4> QED
        BY <4>1
    <3>3. WellFormedFrom(raw, f, i) = WellFormedFrom(raw, g, i)
      <4> HIDE DEF g
      <4> QED
        BY <3>1, <3>2, WellFormedLooksAhead
    <3>4. g[i] = WellFormedFrom(raw, f, i)
      <4>1. CASE i = m
        BY <4>1, <3>1
      <4>2. CASE i # m
        <5>1. i \in k..N
          BY <4>2, <2>1
        <5> QED
          BY <4>2, <5>1, <3>1, <1>5
      <4> QED
        BY <4>1, <4>2
    <3> QED
      BY <3>3, <3>4
  <2>3. From(g, m)
    BY <2>2
  <2>4. m \in Starts
    <3> HIDE DEF g, m
    <3> QED
      BY <2>1, <2>3
  <2> QED
    BY <1>3, <2>1, <2>4
<1> DEFINE h == [i \in 1..N |-> f[i]]
<1>7. ASSUME NEW i \in 1..N PROVE h[i] = WellFormedFrom(raw, h, i)
  <2>1. i \in 1..(Len(raw) + 4)
    BY DEF N
  <2>2. \A j \in (i + 1)..(Len(raw) + 4) : f[j] = h[j]
    BY <2>1 DEF N
  <2>3. WellFormedFrom(raw, f, i) = WellFormedFrom(raw, h, i)
    <3> HIDE DEF h
    <3> QED
      BY <2>1, <2>2, WellFormedLooksAhead
  <2> QED
    BY <2>3, <1>5, <1>6
<1>8. h = [i \in 1..N |-> WellFormedFrom(raw, h, i)]
  BY <1>7
<1> HIDE DEF h
<1> QED
  BY <1>8 DEF N

\* The tokens of a literal, each as it is spelled.
Pieces(tokens) == [i \in 1..Len(tokens) |-> Spelled(tokens[i])]

\* A token is one, two or three units long, and they are these.
LEMMA TokenKinds ==
  ASSUME NEW t \in LiteralToken
  PROVE  /\ t.how = "plain" \/ t.how = "pair" \/ t.how = "quad"
         /\ t.rune \in Int
         /\ t.how = "plain" => t.rune # Backslash
         /\ t.how = "pair" => t.rune # LetterU
         /\ t.how = "quad" => t.rune \in Nat
<1>1. t \in Token
  BY DEF LiteralToken
<1>2. (t.how = "plain" \/ t.how = "pair" \/ t.how = "quad") /\ t.rune \in Int
  BY <1>1 DEF Token
<1>3. /\ t.how = "plain" => t.rune # Backslash
      /\ t.how = "pair" => t.rune # LetterU
      /\ t.how = "quad" => t.rune \in Nat
  BY DEF LiteralToken
<1> QED
  BY <1>2, <1>3

\* A plain token is one unit, its rune.
LEMMA PlainUnits ==
  ASSUME NEW t \in LiteralToken, t.how = "plain"
  PROVE  /\ Spelled(t) \in Seq(Int) /\ Len(Spelled(t)) = 1 /\ Spelled(t)[1] = t.rune
<1> DEFINE r == t.rune
<1>1. r \in Int
  BY TokenKinds
<1>2. Spelled(t) = <<r>>
  BY DEF Spelled
<1> HIDE DEF r
<1> QED
  BY <1>1, <1>2 DEF r

\* A pair is a backslash and a letter.
LEMMA PairUnits ==
  ASSUME NEW t \in LiteralToken, t.how = "pair"
  PROVE  /\ Spelled(t) \in Seq(Int) /\ Len(Spelled(t)) = 2
         /\ Spelled(t)[1] = Backslash /\ Spelled(t)[2] = t.rune
<1> DEFINE r == t.rune
<1>1. r \in Int /\ Backslash \in Int
  BY TokenKinds DEF Backslash
<1>2. Spelled(t) = <<Backslash, r>>
  BY DEF Spelled
<1> HIDE DEF r
<1> QED
  BY <1>1, <1>2 DEF r

\* A quad is a backslash, "u" and four hex digits, which are one unit here.
LEMMA QuadUnits ==
  ASSUME NEW t \in LiteralToken, t.how = "quad"
  PROVE  /\ Spelled(t) \in Seq(Int) /\ Len(Spelled(t)) = 3
         /\ Spelled(t)[1] = Backslash /\ Spelled(t)[2] = LetterU /\ Spelled(t)[3] = Hex(t.rune)
<1> DEFINE r == Hex(t.rune)
<1>1. r \in Int /\ Backslash \in Int /\ LetterU \in Int
  BY TokenKinds DEF Backslash, LetterU, Hex
<1>2. Spelled(t) = <<Backslash, LetterU, r>>
  BY DEF Spelled
<1> HIDE DEF r
<1> QED
  BY <1>1, <1>2 DEF r

\* A spelled token is a list of units.
LEMMA SpelledIsSeq ==
  ASSUME NEW t \in LiteralToken
  PROVE  Spelled(t) \in Seq(Int)
BY TokenKinds, PlainUnits, PairUnits, QuadUnits

\* What stands at the place of a token.
PlainAt(raw, t, p, next) == next = p + 1 /\ p \in 1..Len(raw) /\ raw[p] = t.rune

\* A pair stands at p of raw, and what follows it at next.
PairAt(raw, t, p, next) ==
  next = p + 2 /\ p + 1 \in 1..Len(raw) /\ raw[p] = Backslash /\ raw[p + 1] = t.rune

\* A quad stands at p of raw, and what follows it at next.
QuadAt(raw, t, p, next) ==
  /\ next = p + 3 /\ p + 2 \in 1..Len(raw)
  /\ raw[p] = Backslash /\ raw[p + 1] = LetterU /\ raw[p + 2] = Hex(t.rune)

\* Where each token of a literal stands in its bytes.
TokensAt(tokens, raw, place) ==
  /\ place \in [1..(Len(tokens) + 1) -> Nat \ {0}]
  /\ place[1] = 1 /\ place[Len(tokens) + 1] = Len(raw) + 1
  /\ \A k \in 1..Len(tokens) :
       /\ tokens[k].how = "plain" => PlainAt(raw, tokens[k], place[k], place[k + 1])
       /\ tokens[k].how = "pair" => PairAt(raw, tokens[k], place[k], place[k + 1])
       /\ tokens[k].how = "quad" => QuadAt(raw, tokens[k], place[k], place[k + 1])

\* A token whose units stand at p stands there.
LEMMA UnitsAt ==
  ASSUME NEW t \in LiteralToken, NEW raw, NEW p \in Nat \ {0}, NEW next,
         next = p + Len(Spelled(t)),
         \A j \in 1..Len(Spelled(t)) : p + j - 1 \in 1..Len(raw) /\ raw[p + j - 1] = Spelled(t)[j]
  PROVE  /\ t.how = "plain" => PlainAt(raw, t, p, next)
         /\ t.how = "pair" => PairAt(raw, t, p, next)
         /\ t.how = "quad" => QuadAt(raw, t, p, next)
<1>1. ASSUME t.how = "plain" PROVE PlainAt(raw, t, p, next)
  <2>1. Len(Spelled(t)) = 1 /\ Spelled(t)[1] = t.rune /\ 1 \in 1..1 /\ p + 1 - 1 = p
    BY <1>1, PlainUnits
  <2> QED
    BY <2>1 DEF PlainAt
<1>2. ASSUME t.how = "pair" PROVE PairAt(raw, t, p, next)
  <2>1. Len(Spelled(t)) = 2 /\ Spelled(t)[1] = Backslash /\ Spelled(t)[2] = t.rune
    BY <1>2, PairUnits
  <2>2. 1 \in 1..2 /\ 2 \in 1..2 /\ p + 1 - 1 = p /\ p + 2 - 1 = p + 1
    OBVIOUS
  <2> QED
    BY <2>1, <2>2 DEF PairAt
<1>3. ASSUME t.how = "quad" PROVE QuadAt(raw, t, p, next)
  <2>1. /\ Len(Spelled(t)) = 3 /\ Spelled(t)[1] = Backslash
        /\ Spelled(t)[2] = LetterU /\ Spelled(t)[3] = Hex(t.rune)
    BY <1>3, QuadUnits
  <2>2. /\ 1 \in 1..3 /\ 2 \in 1..3 /\ 3 \in 1..3
        /\ p + 1 - 1 = p /\ p + 2 - 1 = p + 1 /\ p + 3 - 1 = p + 2
    OBVIOUS
  <2> QED
    BY <2>1, <2>2 DEF QuadAt
<1> QED
  BY <1>1, <1>2, <1>3

\* Every token of a literal stands somewhere in it, each after the one before it.
LEMMA LiteralIsLaid ==
  ASSUME NEW tokens \in Seq(LiteralToken)
  PROVE  Literal(tokens) \in Seq(Int) /\ \E place : TokensAt(tokens, Literal(tokens), place)
<1> DEFINE n == Len(tokens)
           s == Pieces(tokens)
           raw == Literal(tokens)
<1>1. n \in Nat /\ \A k \in 1..n : tokens[k] \in LiteralToken
  BY LenProperties, ElementOfSeq
<1>2. s \in [1..n -> Seq(Int)] /\ \A k \in 1..n : s[k] = Spelled(tokens[k])
  BY <1>1, SpelledIsSeq DEF Pieces
<1>3. s \in Seq(Seq(Int)) /\ Len(s) = n
  <2> HIDE DEF s
  <2> QED
    BY <1>1, <1>2, Tabulated
<1>4. raw = FlattenSeq(s)
  BY DEF Literal, Pieces
<1>5. raw \in Seq(Int)
  BY <1>3, <1>4, FlattenIsLaid
<1>6. PICK place : Laid(s, raw, place)
  BY <1>3, <1>4, FlattenIsLaid
<1> HIDE DEF s, raw
<1>7. ASSUME NEW k \in 1..n
      PROVE  /\ tokens[k].how = "plain" => PlainAt(raw, tokens[k], place[k], place[k + 1])
             /\ tokens[k].how = "pair" => PairAt(raw, tokens[k], place[k], place[k + 1])
             /\ tokens[k].how = "quad" => QuadAt(raw, tokens[k], place[k], place[k + 1])
  <2> DEFINE t == tokens[k]
             p == place[k]
             next == place[k + 1]
  <2>1. /\ p \in Nat \ {0} /\ next = p + Len(Spelled(t))
        /\ \A j \in 1..Len(Spelled(t)) : p + j - 1 \in 1..Len(raw) /\ raw[p + j - 1] = Spelled(t)[j]
    <3>1. k \in 1..Len(s) /\ k \in 1..(Len(s) + 1) /\ s[k] = Spelled(t)
      BY <1>1, <1>2, <1>3
    <3>2. p \in Nat \ {0} /\ next = p + Len(s[k])
      BY <3>1, <1>6 DEF Laid
    <3>3. \A j \in 1..Len(s[k]) : p + j - 1 \in 1..Len(raw) /\ raw[p + j - 1] = s[k][j]
      BY <3>1, <1>6 DEF Laid
    <3> QED
      BY <3>1, <3>2, <3>3
  <2>2. t \in LiteralToken
    BY <1>1
  <2> HIDE DEF t, p, next
  <2>3. /\ t.how = "plain" => PlainAt(raw, t, p, next)
        /\ t.how = "pair" => PairAt(raw, t, p, next)
        /\ t.how = "quad" => QuadAt(raw, t, p, next)
    BY <2>1, <2>2, UnitsAt
  <2> QED
    BY <2>3 DEF t, p, next
<1>8. place \in [1..(n + 1) -> Nat \ {0}] /\ place[1] = 1 /\ place[n + 1] = Len(raw) + 1
  BY <1>3, <1>6 DEF Laid
<1>9. TokensAt(tokens, raw, place)
  BY <1>7, <1>8 DEF TokensAt
<1> QED
  BY <1>5, <1>9 DEF raw

\* What hexEscape finds at the place of a token, or past the last one.
LEMMA EscapeAt ==
  ASSUME NEW tokens \in Seq(LiteralToken), NEW raw \in Seq(Int), NEW place,
         TokensAt(tokens, raw, place), NEW k \in 1..(Len(tokens) + 1)
  PROVE  HexEscape(raw, place[k]) =
           IF k \in 1..Len(tokens) /\ tokens[k].how = "quad" THEN tokens[k].rune ELSE NoRune
<1> DEFINE p == place[k]
           t == tokens[k]
           n == Len(raw)
<1>1. p \in Nat \ {0} /\ n \in Nat /\ Len(tokens) \in Nat
  BY LenProperties DEF TokensAt
<1>2. CASE k = Len(tokens) + 1
  <2>1. p = n + 1 /\ k \notin 1..Len(tokens)
    BY <1>1, <1>2 DEF TokensAt
  <2>2. ~(p + 2 <= n)
    BY <1>1, <2>1
  <2> QED
    BY <2>1, <2>2 DEF HexEscape
<1>3. CASE k \in 1..Len(tokens)
  <2>1. t \in LiteralToken
    BY <1>3, ElementOfSeq
  <2>2. /\ t.how = "plain" => PlainAt(raw, t, p, place[k + 1])
        /\ t.how = "pair" => PairAt(raw, t, p, place[k + 1])
        /\ t.how = "quad" => QuadAt(raw, t, p, place[k + 1])
    BY <1>3 DEF TokensAt
  <2> HIDE DEF t, p
  <2>3. CASE t.how = "plain"
    <3>1. raw[p] # Backslash
      BY <2>1, <2>2, <2>3, TokenKinds DEF PlainAt
    <3>2. HexEscape(raw, p) = NoRune
      BY <3>1 DEF HexEscape
    <3> QED
      BY <2>3, <3>2 DEF p, t
  <2>4. CASE t.how = "pair"
    <3>1. raw[p + 1] # LetterU
      BY <2>1, <2>2, <2>4, TokenKinds DEF PairAt
    <3>2. HexEscape(raw, p) = NoRune
      BY <3>1 DEF HexEscape
    <3> QED
      BY <2>4, <3>2 DEF p, t
  <2>5. CASE t.how = "quad"
    <3>1. p + 2 <= n /\ raw[p] = Backslash /\ raw[p + 1] = LetterU /\ raw[p + 2] = Hex(t.rune)
      BY <1>1, <2>2, <2>5 DEF QuadAt
    <3>2. t.rune \in Nat
      BY <2>1, <2>5, TokenKinds
    <3>3. IsHex(Hex(t.rune)) /\ Hex(t.rune) - 2^20 = t.rune
      BY <3>2 DEF IsHex, Hex
    <3>4. HexEscape(raw, p) = t.rune
      BY <3>1, <3>3 DEF HexEscape
    <3> QED
      BY <1>3, <2>5, <3>4 DEF p, t
  <2>6. t.how = "plain" \/ t.how = "pair" \/ t.how = "quad"
    BY <2>1, TokenKinds
  <2> QED
    BY <2>3, <2>4, <2>5, <2>6
<1> QED
  BY <1>1, <1>2, <1>3

\* The low half of a pair that starts one token earlier.
LowOfPair(tokens, k) ==
  /\ k > 1 /\ k <= Len(tokens)
  /\ tokens[k - 1].how = "quad" /\ High(tokens[k - 1].rune)
  /\ tokens[k].how = "quad" /\ Low(tokens[k].rune)

\* wellFormed comes by every token, but for the low half of a pair.
Visited(tokens, f, place, k) == f[place[k]] \/ (LowOfPair(tokens, k) /\ f[place[k + 1]])

\* No rune is both halves of a surrogate pair.
LEMMA HalvesDiffer == \A r : ~(High(r) /\ Low(r) /\ r \in Int)
  BY DEF High, Low

\* A scan that accepts from one token on visits the next, or, after a high half, the
\* one past the low half it is paired with; and it meets no low half alone.
LEMMA VisitsNext ==
  ASSUME NEW tokens \in Seq(LiteralToken), NEW raw \in Seq(Int), NEW place,
         TokensAt(tokens, raw, place),
         NEW f, \A i \in 1..(Len(raw) + 4) : f[i] = WellFormedFrom(raw, f, i),
         NEW k \in 1..Len(tokens), f[place[k]]
  PROVE  Visited(tokens, f, place, k + 1)
         /\ (tokens[k].how = "quad" => ~Low(tokens[k].rune))
         /\ (tokens[k].how = "quad" /\ High(tokens[k].rune) => LowOfPair(tokens, k + 1))
<1> DEFINE p == place[k]
           q == place[k + 1]
           t == tokens[k]
           hi == HexEscape(raw, p)
           lo == HexEscape(raw, p + 3)
<1>1. /\ Len(tokens) \in Nat /\ Len(raw) \in Nat /\ k \in Nat /\ t \in LiteralToken
      /\ k \in 1..(Len(tokens) + 1) /\ k + 1 \in 1..(Len(tokens) + 1)
  <2>1. Len(tokens) \in Nat /\ Len(raw) \in Nat /\ t \in LiteralToken
    BY LenProperties, ElementOfSeq
  <2> QED
    BY <2>1
<1>2. /\ t.how = "plain" => PlainAt(raw, t, p, q)
      /\ t.how = "pair" => PairAt(raw, t, p, q)
      /\ t.how = "quad" => QuadAt(raw, t, p, q)
      /\ p \in Nat \ {0} /\ q \in Nat \ {0}
  BY <1>1 DEF TokensAt
<1>3. hi = IF t.how = "quad" THEN t.rune ELSE NoRune
  BY <1>1, EscapeAt
<1>4. t.rune \in Int /\ (t.how = "plain" \/ t.how = "pair" \/ t.how = "quad")
      /\ (t.how = "plain" => t.rune # Backslash) /\ (t.how = "quad" => t.rune # NoRune)
  <2>1. t.how = "quad" => t.rune \in Nat
    BY <1>1, TokenKinds
  <2>2. NoRune \notin Nat
    BY DEF NoRune
  <2> QED
    BY <1>1, <2>1, <2>2, TokenKinds
<1>5. p <= Len(raw)
  <2>1. CASE t.how = "plain"
    BY <1>1, <1>2, <2>1 DEF PlainAt
  <2>2. CASE t.how = "pair"
    BY <1>1, <1>2, <2>2 DEF PairAt
  <2>3. CASE t.how = "quad"
    BY <1>1, <1>2, <2>3 DEF QuadAt
  <2> QED
    BY <1>4, <2>1, <2>2, <2>3
<1>6. WellFormedFrom(raw, f, p)
  <2>1. p \in 1..(Len(raw) + 4)
    BY <1>1, <1>2, <1>5
  <2> QED
    BY <2>1
<1>7. ~(p > Len(raw))
  BY <1>1, <1>2, <1>5
<1>8. IF raw[p] # Backslash THEN f[p + 1]
      ELSE IF hi = NoRune THEN f[p + 2]
      ELSE IF ~High(hi) /\ ~Low(hi) THEN f[p + 3]
      ELSE High(hi) /\ Low(lo) /\ f[p + 6]
  BY <1>6, <1>7 DEF WellFormedFrom
<1> HIDE DEF p, q, t, hi, lo
<1>9. CASE t.how = "plain"
  <2>1. raw[p] # Backslash /\ q = p + 1
    BY <1>2, <1>4, <1>9 DEF PlainAt
  <2>2. f[q]
    BY <1>8, <2>1
  <2> QED
    BY <1>9, <2>2 DEF Visited, q, t
<1>10. CASE t.how = "pair"
  <2>1. raw[p] = Backslash /\ q = p + 2 /\ hi = NoRune
    BY <1>2, <1>3, <1>10 DEF PairAt
  <2>2. f[q]
    BY <1>8, <2>1
  <2> QED
    BY <1>10, <2>2 DEF Visited, q, t
<1>11. CASE t.how = "quad"
  <2>1. raw[p] = Backslash /\ q = p + 3 /\ hi = t.rune /\ hi # NoRune
    BY <1>2, <1>3, <1>4, <1>11 DEF QuadAt
  <2>2. CASE ~High(t.rune) /\ ~Low(t.rune)
    <3>1. f[q]
      BY <1>8, <2>1, <2>2
    <3> QED
      BY <2>2, <3>1 DEF Visited, q, t
  <2>3. CASE High(t.rune) \/ Low(t.rune)
    <3>1. High(t.rune) /\ Low(lo) /\ f[p + 6]
      BY <1>8, <2>1, <2>3
    <3>2. lo = HexEscape(raw, q)
      BY <2>1 DEF lo
    <3> DEFINE u == tokens[k + 1]
    <3>3. k + 1 \in 1..Len(tokens) /\ u.how = "quad" /\ lo = u.rune
      <4>1. lo = IF k + 1 \in 1..Len(tokens) /\ u.how = "quad" THEN u.rune ELSE NoRune
        BY <1>1, <3>2, EscapeAt DEF q
      <4>2. lo # NoRune
        BY <3>1, NoRuneIsNoHalf
      <4> QED
        BY <4>1, <4>2
    <3>4. LowOfPair(tokens, k + 1)
      <4>1. k + 1 > 1 /\ k + 1 <= Len(tokens) /\ k + 1 - 1 = k
        BY <1>1, <3>3
      <4> QED
        BY <1>11, <3>1, <3>3, <4>1 DEF LowOfPair, t
    <3>5. place[k + 1 + 1] = p + 6
      <4>1. QuadAt(raw, u, q, place[k + 1 + 1])
        BY <3>3 DEF TokensAt, q
      <4>2. place[k + 1 + 1] = q + 3
        BY <4>1 DEF QuadAt
      <4> QED
        BY <1>2, <2>1, <4>2
    <3>6. ~Low(t.rune)
      BY <1>4, <3>1, HalvesDiffer
    <3> QED
      BY <3>1, <3>4, <3>5, <3>6 DEF Visited, t
  <2> QED
    BY <2>2, <2>3
<1> QED
  BY <1>4, <1>9, <1>10, <1>11

\* wellFormed is the function its recursion describes.
LEMMA WellFormedIsFrom ==
  ASSUME NEW raw \in Seq(Int), WellFormed(raw)
  PROVE  /\ NoRune \notin Range(raw)
         /\ \E f : f[1] /\ \A i \in 1..(Len(raw) + 4) : f[i] = WellFormedFrom(raw, f, i)
<1> DEFINE f == CHOOSE f : f = [i \in 1..(Len(raw) + 4) |-> WellFormedFrom(raw, f, i)]
<1>1. f = [i \in 1..(Len(raw) + 4) |-> WellFormedFrom(raw, f, i)]
  BY WellFormedExists
<1>2. NoRune \notin Range(raw) /\ f[1]
  BY DEF WellFormed, WellFormedFrom
<1> HIDE DEF f
<1>3. \A i \in 1..(Len(raw) + 4) : f[i] = WellFormedFrom(raw, f, i)
  BY <1>1
<1> QED
  BY <1>2, <1>3

\* It comes by every token of what it accepts.
LEMMA EveryTokenIsVisited ==
  ASSUME NEW tokens \in Seq(LiteralToken), NEW raw \in Seq(Int), NEW place,
         TokensAt(tokens, raw, place),
         NEW f, \A i \in 1..(Len(raw) + 4) : f[i] = WellFormedFrom(raw, f, i), f[1]
  PROVE  \A k \in 1..Len(tokens) : Visited(tokens, f, place, k)
<1> DEFINE n == Len(tokens)
           Missed == {k \in 1..n : ~Visited(tokens, f, place, k)}
<1>1. n \in Nat
  BY LenProperties
<1>2. SUFFICES ASSUME Missed # {} PROVE FALSE
  OBVIOUS
<1>3. PICK k \in Missed : \A j \in Missed : k <= j
  <2>1. Missed \in SUBSET Nat
    BY <1>1
  <2> HIDE DEF Missed
  <2> QED
    BY <1>2, <2>1, LeastOfNaturals
<1>4. k \in 1..n /\ ~Visited(tokens, f, place, k)
  BY <1>3
<1>5. CASE k = 1
  <2>1. place[1] = 1
    BY DEF TokensAt
  <2>2. Visited(tokens, f, place, 1)
    BY <2>1 DEF Visited
  <2> QED
    BY <1>4, <1>5, <2>2
<1>6. CASE k # 1
  <2> DEFINE m == k - 1
  <2>1. m \in 1..n /\ ~(k <= m) /\ m + 1 = k
    BY <1>1, <1>4, <1>6
  <2>2. Visited(tokens, f, place, m)
    <3>1. m \notin Missed
      <4> HIDE DEF Missed
      <4> QED
        BY <1>3, <2>1
    <3> QED
      BY <2>1, <3>1
  <2> HIDE DEF m
  <2>3. CASE f[place[m]]
    BY <2>1, <2>3, <1>4, VisitsNext
  <2>4. CASE ~f[place[m]]
    <3>1. f[place[k]]
      BY <2>1, <2>2, <2>4 DEF Visited
    <3> QED
      BY <3>1, <1>4 DEF Visited
  <2> QED
    BY <2>3, <2>4
<1> QED
  BY <1>5, <1>6

\* A string optString accepts reads the same to a decoder that repairs and to one that
\* does not: every surrogate in it has its other half, and every byte is UTF-8
\* (leaf.go wellFormed).
THEOREM WellFormedReadsOneWay ==
  ASSUME NEW tokens \in Seq(LiteralToken), WellFormed(Literal(tokens)),
         NEW a \in BOOLEAN, NEW b \in BOOLEAN
  PROVE  Decoded(tokens, a) = Decoded(tokens, b)
<1> DEFINE raw == Literal(tokens)
           n == Len(tokens)
<1>1. n \in Nat /\ raw \in Seq(Int) /\ \A k \in 1..n : tokens[k] \in LiteralToken
  BY LenProperties, ElementOfSeq, LiteralIsLaid
<1>2. PICK place : TokensAt(tokens, raw, place)
  BY LiteralIsLaid
<1>3. NoRune \notin Range(raw)
  BY <1>1, WellFormedIsFrom
<1>4. PICK f : f[1] /\ \A i \in 1..(Len(raw) + 4) : f[i] = WellFormedFrom(raw, f, i)
  BY <1>1, WellFormedIsFrom
<1> HIDE DEF raw
<1>5. ASSUME NEW k \in 1..n
      PROVE  /\ tokens[k].rune # NoRune
             /\ tokens[k].how = "quad" /\ High(tokens[k].rune) =>
                  k < n /\ tokens[k + 1].how = "quad" /\ Low(tokens[k + 1].rune)
             /\ tokens[k].how = "quad" /\ Low(tokens[k].rune) =>
                  k > 1 /\ tokens[k - 1].how = "quad" /\ High(tokens[k - 1].rune)
  <2> DEFINE t == tokens[k]
  <2>1. t \in LiteralToken
    BY <1>1
  <2>2. Visited(tokens, f, place, k)
    BY <1>1, <1>2, <1>4, EveryTokenIsVisited
  <2>3. /\ t.how = "plain" => PlainAt(raw, t, place[k], place[k + 1])
        /\ t.how = "pair" => PairAt(raw, t, place[k], place[k + 1])
    BY <1>2 DEF TokensAt
  <2>4. t.rune # NoRune
    <3>1. \A i \in 1..Len(raw) : raw[i] # NoRune
      BY <1>1, <1>3, LenProperties DEF Range
    <3>2. t.how = "quad" => t.rune # NoRune
      <4>1. t.how = "quad" => t.rune \in Nat
        BY <2>1, TokenKinds
      <4> QED
        BY <4>1 DEF NoRune
    <3> HIDE DEF t
    <3>3. (t.how = "plain" => t.rune # NoRune) /\ (t.how = "pair" => t.rune # NoRune)
      BY <2>3, <3>1 DEF PlainAt, PairAt
    <3> QED
      BY <2>1, <3>2, <3>3, TokenKinds
  <2>5. t.rune \in Int
    BY <2>1, TokenKinds
  <2>6. CASE f[place[k]]
    <3>1. (t.how = "quad" => ~Low(t.rune))
          /\ (t.how = "quad" /\ High(t.rune) => LowOfPair(tokens, k + 1))
      BY <1>1, <1>2, <1>4, <2>6, VisitsNext
    <3>2. LowOfPair(tokens, k + 1) =>
            k < n /\ tokens[k + 1].how = "quad" /\ Low(tokens[k + 1].rune)
      BY <1>1 DEF LowOfPair
    <3> QED
      BY <2>4, <3>1, <3>2
  <2>7. CASE ~f[place[k]]
    <3>1. LowOfPair(tokens, k)
      BY <2>2, <2>7 DEF Visited
    <3>2. ~High(t.rune)
      BY <2>5, <3>1, HalvesDiffer DEF LowOfPair
    <3> QED
      BY <2>4, <3>1, <3>2 DEF LowOfPair
  <2> QED
    BY <2>6, <2>7
<1>6. \A c \in BOOLEAN : Decoded(tokens, c) = [k \in 1..n |-> tokens[k].rune]
  BY <1>1, <1>5 DEF Decoded
<1> QED
  BY <1>6

\* A value of which one more level is looked into is a value, and so is each of its
\* members that is named.
LEMMA MembersAreValues ==
  ASSUME NEW V, NEW v \in JSONOver(V), v.form = "object"
  PROVE  /\ Len(v.members) \in Nat
         /\ \A i \in 1..Len(v.members) :
              v.members[i] \in [name : [base : STRING, exact : BOOLEAN], value : V]
<1>1. v.members \in Seq([name : [base : STRING, exact : BOOLEAN], value : V])
  BY DEF JSONOver
<1> QED
  BY <1>1, LenProperties, ElementOfSeq

\* null is a value.
LEMMA NullIsValue ==
  ASSUME NEW V
  PROVE  Null \in JSONOver(V) /\ Null.form = "null"
BY DEF JSONOver, Null, JSON

\* What a member is set to is a value one level down.
LEMMA PresentIsValue ==
  ASSUME NEW W, NEW v \in JSONOver(JSONOver(W)), NEW key, v.form = "object"
  PROVE  Present(v, key) \in JSONOver(W)
<1> DEFINE I == {i \in 1..Len(v.members) : v.members[i].name = Name(key, TRUE)}
           i == SelectInSeq(v.members, LAMBDA e : e.name = Name(key, TRUE))
<1>1. Len(v.members) \in Nat /\ \A k \in 1..Len(v.members) : v.members[k].value \in JSONOver(W)
  BY MembersAreValues
<1>2. i = IF I # {} THEN Min(I) ELSE 0
  BY DEF SelectInSeq
<1>3. CASE I = {}
  <2>1. i = 0
    BY <1>2, <1>3
  <2> QED
    BY <2>1, NullIsValue DEF Present
<1>4. CASE I # {}
  <2>1. Min(I) \in I
    <3>1. I \in SUBSET Nat
      <4>1. 1..Len(v.members) \subseteq Nat
        OBVIOUS
      <4> QED
        BY <4>1
    <3> HIDE DEF I
    <3>2. \E m \in I : \A n \in I : m <= n
      BY <3>1, <1>4, LeastOfNaturals
    <3> QED
      BY <3>2 DEF Min
  <2>2. i \in 1..Len(v.members) /\ i # 0
    BY <1>1, <1>2, <1>4, <2>1
  <2>3. Present(v, key) = v.members[i].value
    BY <2>2 DEF Present
  <2> QED
    BY <1>1, <2>2, <2>3
<1> QED
  BY <1>3, <1>4

\* What decodeObject reads under a projected name is what any reader finds there: there
\* is one member of that name, and no other that folds to it (leaf.go decodeObject).
LEMMA FoundIsPresent ==
  ASSUME NEW V, NEW v \in JSONOver(V), NEW projected, NEW key \in projected,
         DecodeObject(v, projected), NEW r \in Reader
  PROVE  Found(r, v, key) = Present(v, key)
<1> DEFINE at == {i \in 1..Len(v.members) :
                    /\ v.members[i].name.base = key
                    /\ v.members[i].name.exact \/ r.folds}
           I == {i \in 1..Len(v.members) : v.members[i].name = Name(key, TRUE)}
           last == CHOOSE n \in at : \A k \in at : k <= n
           i == SelectInSeq(v.members, LAMBDA e : e.name = Name(key, TRUE))
<1>1. v.form = "object"
  BY DEF DecodeObject
<1>2. Len(v.members) \in Nat
      /\ \A k \in 1..Len(v.members) : v.members[k].name \in [base : STRING, exact : BOOLEAN]
  BY <1>1, MembersAreValues
<1>3. at = I
  <2>1. ASSUME NEW k \in 1..Len(v.members)
        PROVE  (v.members[k].name.base = key /\ (v.members[k].name.exact \/ r.folds))
                 <=> v.members[k].name = Name(key, TRUE)
    <3> DEFINE name == v.members[k].name
    <3>1. name \in [base : STRING, exact : BOOLEAN] /\ (name.base = key => name.exact)
      BY <1>2 DEF DecodeObject
    <3> HIDE DEF name
    <3>2. CASE name.base = key
      <4>1. name.exact = TRUE
        BY <3>1, <3>2
      <4>2. name = [base |-> key, exact |-> TRUE]
        BY <3>1, <3>2, <4>1
      <4> QED
        BY <3>2, <4>1, <4>2 DEF Name, name
    <3>3. CASE name.base # key
      <4>1. name # Name(key, TRUE)
        BY <3>3 DEF Name
      <4> QED
        BY <3>3, <4>1 DEF name
    <3> QED
      BY <3>2, <3>3
  <2> QED
    BY <2>1
<1>4. \A m, n \in I : m = n
  BY DEF DecodeObject
<1>5. i = IF I # {} THEN Min(I) ELSE 0
  BY DEF SelectInSeq
<1>6. Found(r, v, key) = IF at = {} THEN Null
                         ELSE v.members[IF r.keeps = "first" THEN Least(at) ELSE last].value
  BY <1>1 DEF Found
<1>7. CASE I = {}
  BY <1>3, <1>5, <1>6, <1>7 DEF Present
<1>8. CASE I # {}
  <2>1. PICK m \in I : TRUE
    BY <1>8
  <2>2. m \in 1..Len(v.members) /\ m # 0 /\ m <= m
    BY <1>2, <2>1
  <2>3. I = {m}
    <3> HIDE DEF I
    <3> QED
      BY <1>4, <2>1
  <2> HIDE DEF I, at
  <2>4. Min(I) = m /\ Least(at) = m /\ last = m
    BY <1>3, <2>2, <2>3 DEF Min, Least
  <2>5. i = m
    BY <1>5, <1>8, <2>4
  <2>6. Present(v, key) = v.members[m].value
    BY <2>2, <2>5 DEF Present
  <2>7. Found(r, v, key) = v.members[m].value
    <3>1. at # {}
      BY <1>3, <1>8
    <3>2. (IF r.keeps = "first" THEN Least(at) ELSE last) = m
      BY <2>4
    <3> HIDE DEF last
    <3> QED
      BY <1>6, <3>1, <3>2
  <2> QED
    BY <2>6, <2>7
<1> QED
  BY <1>7, <1>8

\* And a string it reads there reads the same to them all (leaf.go optString).
LEMMA FoundStringIsOptString ==
  ASSUME NEW W, NEW v \in JSONOver(JSONOver(W)), NEW projected, NEW key \in projected,
         DecodeObject(v, projected), IsOptString(v, key), NEW r \in Reader
  PROVE  FoundString(r, v, key) = OptString(v, key)
<1> DEFINE s == Present(v, key)
<1>1. Found(r, v, key) = s
  BY FoundIsPresent
<1>2. v.form = "object"
  BY DEF DecodeObject
<1>3. s \in JSONOver(W)
  BY <1>2, PresentIsValue
<1>4. r.repairs \in BOOLEAN
  BY DEF Reader
<1> HIDE DEF s
<1>5. CASE s = Null
  BY <1>1, <1>5 DEF FoundString, OptString, s
<1>6. CASE s # Null
  <2>1. s.form = "string" /\ WellFormed(Literal(s.text))
    BY <1>6 DEF IsOptString, s
  <2>2. s.text \in Seq(LiteralToken)
    BY <1>3, <2>1 DEF JSONOver
  <2>3. Decoded(s.text, r.repairs) = Decoded(s.text, TRUE)
    BY <1>4, <2>1, <2>2, WellFormedReadsOneWay
  <2> QED
    BY <1>1, <1>6, <2>1, <2>3 DEF FoundString, OptString, s
<1> QED
  BY <1>5, <1>6

\* The orbit of a letter has one smallest rune, whichever of its cases it starts from
\* (leaf.go foldRune).
LEMMA SameLetterFoldsAlike ==
  ASSUME NEW a, NEW b, SameLetter(a, b)
  PROVE  FoldRune(a) = FoldRune(b)
<1> DEFINE orbit(r) == {r, SimpleFold(r), SimpleFold(SimpleFold(r))}
<1>1. SimpleFold(SimpleFold(SimpleFold(a))) = a \/ SimpleFold(SimpleFold(a)) = a
  <2>0. /\ SimpleFold(83) = 115 /\ SimpleFold(115) = 383 /\ SimpleFold(383) = 83
        /\ SimpleFold(75) = 107 /\ SimpleFold(107) = 8490 /\ SimpleFold(8490) = 75
        /\ SimpleFold(65) = 97 /\ SimpleFold(97) = 65
    BY DEF SimpleFold
  <2>1. CASE a \in {83, 115, 383}
    BY <2>0, <2>1
  <2>2. CASE a \in {75, 107, 8490}
    BY <2>0, <2>2
  <2>3. CASE a \in {65, 97}
    BY <2>0, <2>3
  <2>4. CASE a \notin {83, 115, 383, 75, 107, 8490, 65, 97}
    <3>1. SimpleFold(a) = a
      BY <2>4 DEF SimpleFold
    <3> QED
      BY <3>1
  <2> QED
    BY <2>1, <2>2, <2>3, <2>4
<1>2. b = a \/ b = SimpleFold(a) \/ b = SimpleFold(SimpleFold(a))
  BY DEF SameLetter
<1>3. orbit(a) = orbit(b)
  BY <1>1, <1>2
<1> QED
  BY <1>3 DEF FoldRune

\* A type a person would take for ours is one that claims to be ours.
LEMMA NearOursIsClaimed ==
  ASSUME NEW typ, IsNearOurs(typ)
  PROVE  ClaimsOurType(typ)
<1>1. PICK t \in OurTypes :
        \A i \in 1..Len(SelectSeq(typ, IsLetter)) :
          i <= Len(SelectSeq(t, IsLetter)) =>
            SameLetter(SelectSeq(typ, IsLetter)[i], SelectSeq(t, IsLetter)[i])
  BY DEF IsNearOurs
<1> DEFINE a == SelectSeq(typ, IsLetter)
           b == SelectSeq(t, IsLetter)
           m == Len(a)
           n == Len(b)
           A == NormalizeType(typ)
           B == NormalizeType(t)
<1>2. m \in Nat /\ n \in Nat
  OBVIOUS
<1>3. A = [i \in 1..m |-> FoldRune(a[i])] /\ B = [i \in 1..n |-> FoldRune(b[i])]
  BY DEF NormalizeType
<1> HIDE DEF A, B
<1>4. \A i \in 1..m : i <= n => SameLetter(a[i], b[i])
  BY <1>1
<1> HIDE DEF a, b, m, n
<1>5. \A i \in 1..m : i <= n => A[i] = B[i]
  <2> TAKE i \in 1..m
  <2> HAVE i <= n
  <2>1. i \in 1..n
    BY <1>2
  <2>2. FoldRune(a[i]) = FoldRune(b[i])
    BY <1>4, SameLetterFoldsAlike
  <2> QED
    BY <1>3, <2>1, <2>2
<1> DEFINE S == {FoldRune(a[i]) : i \in 1..m} \cup {FoldRune(b[i]) : i \in 1..n}
<1>6. A \in [1..m -> S] /\ B \in [1..n -> S]
  BY <1>3
<1> HIDE DEF S
<1>7. A \in Seq(S) /\ Len(A) = m /\ B \in Seq(S) /\ Len(B) = n
  BY <1>2, <1>6, Tabulated
<1>8. CASE m <= n
  <2>1. SubSeq(A, 1, m) = SubSeq(B, 1, m)
    <3>1. \A i \in 1..m : A[i] = B[i]
      BY <1>2, <1>5, <1>8
    <3> QED
      BY <1>2, <1>7, <1>8, <3>1
  <2>2. IsPrefix(A, B)
    BY <1>7, <1>8, <2>1 DEF IsPrefix
  <2> QED
    BY <2>2 DEF ClaimsOurType, A, B
<1>9. CASE ~(m <= n)
  <2>1. SubSeq(B, 1, n) = SubSeq(A, 1, n)
    <3>1. \A i \in 1..n : A[i] = B[i]
      BY <1>2, <1>5, <1>9
    <3> QED
      BY <1>2, <1>7, <1>9, <3>1
  <2>2. IsPrefix(B, A)
    BY <1>2, <1>7, <1>9, <2>1 DEF IsPrefix
  <2> QED
    BY <2>2 DEF ClaimsOurType, A, B
<1> QED
  BY <1>8, <1>9

\* A row that is passed over has, for every reader, a type nobody takes for ours
\* (leaf.go ClaimsOurType).
LEMMA PassedOverReadsOneWay ==
  ASSUME NEW v \in ServedRow, IsPassedOver(v), NEW r \in Reader
  PROVE  /\ FoundString(r, v, "type")[1] = "is"
         /\ ~IsNearOurs(FoundString(r, v, "type")[2])
<1>1. DecodeObject(v, TopKeys) /\ IsOptString(v, "type") /\ OptString(v, "type") # Nil
      /\ TypeOf(v) = OptString(v, "type")
  BY DEF IsPassedOver, TypeOf
<1>2. FoundString(r, v, "type") = TypeOf(v)
  BY <1>1, FoundStringIsOptString DEF ServedRow, TopKeys
<1>3. TypeOf(v)[1] = "is"
  <2> DEFINE d == Decoded(Present(v, "type").text, TRUE)
  <2>1. OptString(v, "type") = <<"is", d>>
    BY <1>1 DEF OptString
  <2> HIDE DEF d
  <2> QED
    BY <1>1, <2>1
<1>4. ~IsNearOurs(TypeOf(v)[2])
  BY NearOursIsClaimed DEF IsPassedOver
<1> QED
  BY <1>2, <1>3, <1>4

\* A row that is parsed has the same contents for every reader (leaf.go Parse).
LEMMA ParsedReadsOneWay ==
  ASSUME NEW v \in ServedRow, Parses(v), NEW r \in Reader
  PROVE  Reads(r, v) = Parse(v)
<1> DEFINE actor == Present(v, "actor")
           resource == Present(v, "resource_details")
           index == Present(v, "transparency_log_leaf_index")
<1>1. /\ DecodeObject(v, TopKeys) /\ v.form = "object"
      /\ IsOptString(v, "type") /\ IsOptString(v, "id") /\ IsOptString(v, "user_profile_id")
      /\ actor # Null => DecodeObject(actor, ActorKeys) /\ IsOptString(actor, "type")
      /\ resource # Null =>
           /\ DecodeObject(resource, ResourceKeys)
           /\ IsOptString(resource, "id") /\ IsOptString(resource, "type")
      /\ index # Null => index.form = "digits"
  BY DEF Parses, DecodeObject
<1>2. /\ Found(r, v, "actor") = actor
      /\ Found(r, v, "resource_details") = resource
      /\ Found(r, v, "transparency_log_leaf_index") = index
  BY <1>1, FoundIsPresent DEF ServedRow, TopKeys
<1>3. /\ FoundString(r, v, "id") = OptString(v, "id")
      /\ FoundString(r, v, "type") = OptString(v, "type")
      /\ FoundString(r, v, "user_profile_id") = OptString(v, "user_profile_id")
  BY <1>1, FoundStringIsOptString DEF ServedRow, TopKeys
<1>4. actor \in JSONOver(JSONOver({})) /\ resource \in JSONOver(JSONOver({}))
  BY <1>1, PresentIsValue DEF ServedRow
<1> HIDE DEF actor, resource, index
<1>5. actor # Null => FoundString(r, actor, "type") = OptString(actor, "type")
  BY <1>1, <1>4, FoundStringIsOptString DEF ActorKeys
<1>6. resource # Null => /\ FoundString(r, resource, "id") = OptString(resource, "id")
                         /\ FoundString(r, resource, "type") = OptString(resource, "type")
  BY <1>1, <1>4, FoundStringIsOptString DEF ResourceKeys
<1> QED
  BY <1>1, <1>2, <1>3, <1>5, <1>6 DEF Reads, Parse, actor, resource, index

\* Every reader of a served row finds in it what was committed, for rows of any number
\* of members whose strings are of any length (leaf.go decodeObject, optString,
\* wellFormed, ClaimsOurType).
THEOREM EveryReaderAgreesHolds == Spec => []EveryReaderAgrees
<1>1. ReadOnce => EveryReaderAgrees
  <2> SUFFICES ASSUME ReadOnce, reader = "row", done PROVE EveryReaderAgrees
    BY DEF EveryReaderAgrees
  <2>1. given \in ServedRow
    BY RowAssumption DEF ReadOnce
  <2>2. CASE IsPassedOver(given) /\ got = <<"passed over">>
    <3>1. got[1] = "passed over"
      BY <2>2
    <3> QED
      BY <2>1, <2>2, <3>1, PassedOverReadsOneWay DEF EveryReaderAgrees
  <2>3. CASE Parses(given) /\ got = <<"parsed", Parse(given)>>
    <3>1. got[1] = "parsed" /\ got[2] = Parse(given)
      BY <2>3
    <3> QED
      BY <2>1, <2>3, <3>1, ParsedReadsOneWay DEF EveryReaderAgrees
  <2>4. CASE got = <<"failed">>
    <3>1. got[1] = "failed"
      BY <2>4
    <3> QED
      BY <3>1 DEF EveryReaderAgrees
  <2> QED
    BY <2>2, <2>3, <2>4 DEF ReadOnce
<1> QED
  BY <1>1, ReadOnceHolds, PTL

----------------------------------------------------------------------------------
\* Served text on its way out.

\* The powers of 4 that Hex divides by.
LEMMA ShortPowers == 4^0 = 1 /\ 4^1 = 4 /\ 4^2 = 16 /\ 4^3 = 64
  OBVIOUS

\* One hex digit.
LEMMA HexOne ==
  ASSUME NEW r \in 0..3
  PROVE  Shown!Hex(r, 1) = <<r>>
<1>1. Shown!Hex(r, 1) = [i \in 1..1 |-> (r \div 4^(1 - i)) % 4]
  BY DEF Shown!Hex
<1>2. \A i \in 1..1 : (r \div 4^(1 - i)) % 4 = r
  <2> TAKE i \in 1..1
  <2>1. 1 - i = 0
    OBVIOUS
  <2>2. (r \div 1) % 4 = r
    OBVIOUS
  <2> QED
    BY <2>1, <2>2, ShortPowers
<1> QED
  BY <1>1, <1>2

\* Two hex digits.
LEMMA HexTwo ==
  ASSUME NEW r \in 0..15
  PROVE  Shown!Hex(r, 2) = <<r \div 4, r % 4>>
<1>1. Shown!Hex(r, 2) = [i \in 1..2 |-> (r \div 4^(2 - i)) % 4]
  BY DEF Shown!Hex
<1>2. (r \div 4^(2 - 1)) % 4 = r \div 4
  <2>1. 2 - 1 = 1 /\ (r \div 4) % 4 = r \div 4
    OBVIOUS
  <2> QED
    BY <2>1, ShortPowers
<1>3. (r \div 4^(2 - 2)) % 4 = r % 4
  <2>1. 2 - 2 = 0 /\ r \div 1 = r
    OBVIOUS
  <2> QED
    BY <2>1, ShortPowers
<1> QED
  BY <1>1, <1>2, <1>3

\* Four hex digits, of the runes that are written with four.
LEMMA HexFour ==
  ASSUME NEW r, r = 16 \/ r = 17
  PROVE  Shown!Hex(r, 4) = <<0, 1, 0, r - 16>>
<1>1. Shown!Hex(r, 4) = [i \in 1..4 |-> (r \div 4^(4 - i)) % 4]
  BY DEF Shown!Hex
<1>2. (r \div 4^(4 - 1)) % 4 = 0
  <2>1. 4 - 1 = 3 /\ (r \div 64) % 4 = 0
    OBVIOUS
  <2> QED
    BY <2>1, ShortPowers
<1>3. (r \div 4^(4 - 2)) % 4 = 1
  <2>1. 4 - 2 = 2 /\ (r \div 16) % 4 = 1
    OBVIOUS
  <2> QED
    BY <2>1, ShortPowers
<1>4. (r \div 4^(4 - 3)) % 4 = 0
  <2>1. 4 - 3 = 1 /\ (r \div 4) % 4 = 0
    OBVIOUS
  <2> QED
    BY <2>1, ShortPowers
<1>5. (r \div 4^(4 - 4)) % 4 = r - 16
  <2>1. 4 - 4 = 0 /\ (r \div 1) % 4 = r - 16
    OBVIOUS
  <2> QED
    BY <2>1, ShortPowers
<1> QED
  BY <1>1, <1>2, <1>3, <1>4, <1>5

\* The number up to four digits spell.
LEMMA SpelledDigits ==
  ASSUME NEW d \in Seq(Int), Len(d) \in 1..4
  PROVE  Shown!Spelled(d) =
           IF Len(d) = 1 THEN d[1]
           ELSE IF Len(d) = 2 THEN 4 * d[1] + d[2]
           ELSE IF Len(d) = 3 THEN 4 * (4 * d[1] + d[2]) + d[3]
           ELSE 4 * (4 * (4 * d[1] + d[2]) + d[3]) + d[4]
<1> DEFINE n == Len(d)
           Step(f, i) == IF i = 0 THEN 0 ELSE 4 * f[i - 1] + d[i]
           f == CHOOSE f : f = [i \in 0..n |-> IF i = 0 THEN 0 ELSE 4 * f[i - 1] + d[i]]
           g == [i \in 0..n |-> IF i = 0 THEN 0
                                ELSE IF i = 1 THEN d[1]
                                ELSE IF i = 2 THEN 4 * d[1] + d[2]
                                ELSE IF i = 3 THEN 4 * (4 * d[1] + d[2]) + d[3]
                                ELSE 4 * (4 * (4 * d[1] + d[2]) + d[3]) + d[4]]
<1>1. n \in 1..4 /\ \A i \in 1..n : d[i] \in Int
  BY ElementOfSeq
<1>2. Shown!Spelled(d) = f[n]
  BY DEF Shown!Spelled
<1> HIDE DEF n
<1>3. g = [i \in 0..n |-> IF i = 0 THEN 0 ELSE 4 * g[i - 1] + d[i]]
  <2>1. ASSUME NEW i \in 0..n
        PROVE  g[i] = IF i = 0 THEN 0 ELSE 4 * g[i - 1] + d[i]
    <3>1. i = 0 \/ i = 1 \/ i = 2 \/ i = 3 \/ i = 4
      BY <1>1
    <3>2. i # 0 => i - 1 \in 0..n
      BY <1>1
    <3> QED
      BY <1>1, <3>1, <3>2
  <2> QED
    BY <2>1
<1>4. f = [i \in 0..n |-> IF i = 0 THEN 0 ELSE 4 * f[i - 1] + d[i]]
  <2> HIDE DEF g
  <2> QED
    BY <1>3
<1> HIDE DEF f
<1> HIDE DEF g
<1>14. ASSUME NEW i \in 0..n, i # 0 PROVE f[i] = 4 * f[i - 1] + d[i]
  <2> DEFINE h == [k \in 0..n |-> IF k = 0 THEN 0 ELSE 4 * f[k - 1] + d[k]]
  <2>1. h[i] = 4 * f[i - 1] + d[i]
    BY <1>14
  <2>2. f = h
    BY <1>4
  <2> HIDE DEF h
  <2> QED
    BY <2>1, <2>2
<1>5. f[0] = 0 /\ f[1] = 4 * f[0] + d[1]
  <2>1. 0 \in 0..n /\ 1 \in 0..n /\ 1 - 1 = 0
    BY <1>1
  <2> QED
    BY <1>4, <2>1
<1>6. ASSUME n >= 2 PROVE f[2] = 4 * f[1] + d[2]
  <2>1. 2 \in 0..n /\ 2 - 1 = 1 /\ 2 # 0
    BY <1>1, <1>6
  <2> QED
    BY <1>14, <2>1
<1>7. ASSUME n >= 3 PROVE f[3] = 4 * f[2] + d[3]
  <2>1. 3 \in 0..n /\ 3 - 1 = 2 /\ 3 # 0
    BY <1>1, <1>7
  <2> QED
    BY <1>14, <2>1
<1>8. ASSUME n >= 4 PROVE f[4] = 4 * f[3] + d[4]
  <2>1. 4 \in 0..n /\ 4 - 1 = 3 /\ 4 # 0
    BY <1>1, <1>8
  <2> QED
    BY <1>14, <2>1
<1>9. f[1] = d[1]
  BY <1>1, <1>5
<1>10. CASE n = 1
  BY <1>2, <1>9, <1>10 DEF n
<1>11. CASE n = 2
  BY <1>2, <1>6, <1>9, <1>11 DEF n
<1>12. CASE n = 3
  BY <1>2, <1>6, <1>7, <1>9, <1>12 DEF n
<1>13. CASE n = 4
  BY <1>2, <1>6, <1>7, <1>8, <1>9, <1>13 DEF n
<1> QED
  BY <1>1, <1>10, <1>11, <1>12, <1>13

\* A text that is a unit and then a tail of another is a tail of that.
LEMMA UnitThenRest ==
  ASSUME NEW S, NEW s \in Seq(S), NEW k \in 1..Len(s)
  PROVE  <<s[k]>> \o SubSeq(s, k + 1, Len(s)) = SubSeq(s, k, Len(s))
<1> DEFINE n == Len(s)
           x == s[k]
           rest == SubSeq(s, k + 1, n)
           whole == SubSeq(s, k, n)
<1>1. n \in Nat /\ k \in Nat /\ 1 <= k /\ k <= n /\ \A i \in 1..n : s[i] \in S
  BY LenProperties, ElementOfSeq
<1>2. rest \in Seq(S) /\ Len(rest) = n - k /\ \A i \in 1..(n - k) : rest[i] = s[k + i]
  BY <1>1
<1>3. whole \in Seq(S) /\ Len(whole) = n - k + 1 /\ \A i \in 1..(n - k + 1) : whole[i] = s[k + i - 1]
  BY <1>1
<1>4. <<x>> \in Seq(S) /\ Len(<<x>>) = 1 /\ <<x>>[1] = x
  BY <1>1, OneElement
<1>5. x = whole[1]
  BY <1>1, <1>3
<1>6. \A i \in 1..(n - k) : rest[i] = whole[i + 1]
  BY <1>1, <1>2, <1>3
<1> HIDE DEF rest, whole, x, n
<1> DEFINE both == <<x>> \o rest
<1>7. both \in Seq(S) /\ Len(both) = n - k + 1
      /\ both[1] = x /\ \A i \in 1..(n - k) : both[i + 1] = rest[i]
  <2> DEFINE one == <<x>>
  <2> HIDE DEF one
  <2>0. one \in Seq(S) /\ Len(one) = 1 /\ one[1] = x
    BY <1>4 DEF one
  <2>1. /\ one \o rest \in Seq(S)
        /\ Len(one \o rest) = Len(one) + Len(rest)
        /\ \A i \in 1..(Len(one) + Len(rest)) :
             (one \o rest)[i] = IF i <= Len(one) THEN one[i] ELSE rest[i - Len(one)]
    BY <1>2, <2>0, ConcatProperties
  <2> HIDE DEF both
  <2>2. both = one \o rest
    BY DEF both, one
  <2>3. \A i \in 1..(1 + (n - k)) : both[i] = IF i <= 1 THEN x ELSE rest[i - 1]
    <3> TAKE i \in 1..(1 + (n - k))
    <3>1. i \in 1..(Len(one) + Len(rest))
      BY <1>2, <2>0
    <3>2. i <= 1 => i = 1
      BY <1>1
    <3> QED
      BY <2>0, <2>1, <2>2, <3>1, <3>2
  <2>4. both[1] = x
    BY <1>1, <2>3
  <2>5. ASSUME NEW i \in 1..(n - k) PROVE both[i + 1] = rest[i]
    <3>1. i + 1 \in 1..(1 + (n - k)) /\ ~(i + 1 <= 1) /\ (i + 1) - 1 = i
      BY <1>1
    <3> QED
      BY <2>3, <3>1
  <2> QED
    BY <1>1, <1>2, <2>0, <2>1, <2>2, <2>4, <2>5
<1> HIDE DEF both
<1>8. \A i \in 1..(n - k + 1) : both[i] = whole[i]
  <2> TAKE i \in 1..(n - k + 1)
  <2>1. CASE i = 1
    BY <2>1, <1>5, <1>7
  <2>2. CASE i # 1
    <3>1. i - 1 \in 1..(n - k) /\ (i - 1) + 1 = i
      BY <1>1, <2>2
    <3> QED
      BY <3>1, <1>6, <1>7
  <2> QED
    BY <2>1, <2>2
<1>9. both = whole
  BY <1>1, <1>3, <1>7, <1>8
<1> QED
  BY <1>9 DEF both, whole, x, rest, n

\* A reader that comes from the place of each unit, by that unit, to the place of the
\* next reads the text.
LEMMA ReadsUnitByUnit ==
  ASSUME NEW S, NEW text \in Seq(S), NEW place, NEW from,
         from[place[Len(text) + 1]] = <<>>,
         \A k \in 1..Len(text) : from[place[k]] = <<text[k]>> \o from[place[k + 1]]
  PROVE  from[place[1]] = text
<1> DEFINE n == Len(text)
           Bad == {j \in 0..n : from[place[n + 1 - j]] # SubSeq(text, n + 1 - j, n)}
<1>1. n \in Nat
  BY LenProperties
<1>2. Bad = {}
  <2> SUFFICES ASSUME Bad # {} PROVE FALSE
    OBVIOUS
  <2>1. PICK j \in Bad : \A i \in Bad : j <= i
    <3>1. Bad \in SUBSET Nat
      <4>1. 0..n \subseteq Nat
        BY <1>1
      <4> QED
        BY <4>1
    <3> HIDE DEF Bad
    <3> QED
      BY <3>1, LeastOfNaturals
  <2>2. j \in 0..n /\ from[place[n + 1 - j]] # SubSeq(text, n + 1 - j, n)
    BY <2>1
  <2>3. CASE j = 0
    <3>1. n + 1 - j = n + 1
      BY <1>1, <2>3
    <3>2. SubSeq(text, n + 1, n) = <<>>
      BY <1>1
    <3> QED
      BY <2>2, <3>1, <3>2
  <2>4. CASE j # 0
    <3> DEFINE k == n + 1 - j
    <3>1. k \in 1..n /\ j - 1 \in 0..n /\ ~(j <= j - 1) /\ n + 1 - (j - 1) = k + 1
      BY <1>1, <2>2, <2>4
    <3>2. j - 1 \notin Bad
      <4> HIDE DEF Bad
      <4> QED
        BY <2>1, <3>1
    <3>3. from[place[k + 1]] = SubSeq(text, k + 1, n)
      BY <3>1, <3>2
    <3>4. from[place[k]] = <<text[k]>> \o SubSeq(text, k + 1, n)
      BY <3>1, <3>3
    <3>5. from[place[k]] = SubSeq(text, k, n)
      BY <3>1, <3>4, UnitThenRest
    <3> QED
      BY <2>2, <3>5
  <2> QED
    BY <2>3, <2>4
<1>3. from[place[1]] = SubSeq(text, 1, n)
  <2>1. n \in 0..n /\ n + 1 - n = 1
    BY <1>1
  <2> QED
    BY <1>2, <2>1
<1> QED
  BY <1>3

\* f[i] is what is read from i on: at each place one unit, so many places wide.
IsReading(f, n, c, unit, width) ==
  /\ f = [i \in 1..(n + c) |-> f[i]]
  /\ \A i \in 1..(n + c) : f[i] = IF i > n THEN <<>> ELSE <<unit[i]>> \o f[i + width[i]]

\* The recursive function of a reader exists: each place looks only ahead.
LEMMA ReadingExists ==
  ASSUME NEW n \in Nat, NEW c \in Nat,
         NEW U, NEW unit \in [1..n -> U], NEW width \in [1..n -> 1..c]
  PROVE  \E f : IsReading(f, n, c, unit, width)
<1> DEFINE N == n + c
           Step(f, i) == IF i > n THEN <<>> ELSE <<unit[i]>> \o f[i + width[i]]
           From(f, k) == \A i \in k..N : f[i] = Step(f, i)
           Starts == {k \in 1..(N + 1) : \E f : From(f, k)}
<1>0. N \in Nat /\ n <= N
  OBVIOUS
<1>1. ASSUME NEW i \in 1..N, NEW f, NEW g, \A j \in (i + 1)..N : f[j] = g[j]
      PROVE  Step(f, i) = Step(g, i)
  <2>1. CASE i > n
    BY <2>1
  <2>2. CASE ~(i > n)
    <3>1. i \in 1..n
      BY <2>2
    <3>2. width[i] \in 1..c
      BY <3>1
    <3>3. i + width[i] \in (i + 1)..N
      BY <3>1, <3>2
    <3>4. f[i + width[i]] = g[i + width[i]]
      BY <1>1, <3>3
    <3> QED
      BY <2>2, <3>4
  <2> QED
    BY <2>1, <2>2
<1> HIDE DEF N, Step
<1>2. N + 1 \in Starts
  <2>1. From(unit, N + 1) /\ N + 1 \in 1..(N + 1)
    BY <1>0
  <2> HIDE DEF From
  <2> QED
    BY <2>1
<1>3. PICK k \in Starts : \A j \in Starts : k <= j
  <2>1. Starts # {}
    BY <1>2
  <2>2. Starts \in SUBSET Nat
    BY <1>0
  <2> HIDE DEF Starts
  <2> QED
    BY <2>1, <2>2, LeastOfNaturals
<1>4. k \in 1..(N + 1) /\ \E f : From(f, k)
  BY <1>3
<1>5. PICK f : From(f, k)
  BY <1>4
<1>6. k = 1
  <2> SUFFICES ASSUME k # 1 PROVE FALSE
    OBVIOUS
  <2> DEFINE m == k - 1
             g == [i \in 1..N |-> IF i = m THEN Step(f, m) ELSE f[i]]
  <2>1. m \in 1..N /\ ~(k <= m) /\ m + 1 = k /\ m \in 1..(N + 1)
    BY <1>0, <1>4
  <2>2. ASSUME NEW i \in m..N PROVE g[i] = Step(g, i)
    <3>1. i \in 1..N
      BY <1>0, <2>1
    <3>2. \A j \in (i + 1)..N : f[j] = g[j]
      <4> TAKE j \in (i + 1)..N
      <4>1. j \in 1..N /\ j # m
        BY <1>0, <2>1, <3>1
      <4> QED
        BY <4>1
    <3>3. Step(f, i) = Step(g, i)
      <4> HIDE DEF g
      <4> QED
        BY <3>1, <3>2, <1>1
    <3>4. g[i] = Step(f, i)
      <4>1. CASE i = m
        BY <4>1, <3>1
      <4>2. CASE i # m
        <5>1. i \in k..N
          BY <1>0, <4>2, <2>1
        <5> QED
          BY <4>2, <5>1, <3>1, <1>5
      <4> QED
        BY <4>1, <4>2
    <3> QED
      BY <3>3, <3>4
  <2>3. From(g, m)
    BY <2>2
  <2>4. m \in Starts
    <3> HIDE DEF g, m
    <3> QED
      BY <2>1, <2>3
  <2> QED
    BY <1>3, <2>1, <2>4
<1> DEFINE h == [i \in 1..N |-> f[i]]
<1>7. ASSUME NEW i \in 1..N PROVE h[i] = Step(h, i)
  <2>1. \A j \in (i + 1)..N : f[j] = h[j]
    <3> TAKE j \in (i + 1)..N
    <3>1. j \in 1..N
      BY <1>0
    <3> QED
      BY <3>1
  <2>2. Step(f, i) = Step(h, i)
    <3> HIDE DEF h
    <3> QED
      BY <2>1, <1>1
  <2> QED
    BY <2>2, <1>5, <1>6
<1>8. h = [i \in 1..N |-> h[i]]
  OBVIOUS
<1> HIDE DEF h
<1>9. IsReading(h, n, c, unit, width)
  BY <1>7, <1>8 DEF N, Step, IsReading
<1> QED
  BY <1>9

\* Two units and then others.
LEMMA TwoAndThen ==
  ASSUME NEW s \in Seq(Int), Len(s) = 2, NEW t \in Seq(Int)
  PROVE  /\ s \o t \in Seq(Int) /\ Len(s \o t) = Len(t) + 2
         /\ (s \o t)[1] = s[1] /\ (s \o t)[2] = s[2]
         /\ \A j \in 1..Len(t) : (s \o t)[j + 2] = t[j]
<1> DEFINE n == Len(t)
<1>1. n \in Nat
  BY LenProperties
<1>2. /\ s \o t \in Seq(Int) /\ Len(s \o t) = Len(s) + n
      /\ \A i \in 1..(Len(s) + n) : (s \o t)[i] = IF i <= Len(s) THEN s[i] ELSE t[i - Len(s)]
  BY ConcatProperties
<1> HIDE DEF n
<1>3. \A i \in 1..(2 + n) : (s \o t)[i] = IF i <= 2 THEN s[i] ELSE t[i - 2]
  BY <1>2
<1>4. (s \o t)[1] = s[1] /\ (s \o t)[2] = s[2]
  <2>1. 1 \in 1..(2 + n) /\ 2 \in 1..(2 + n) /\ 1 <= 2 /\ 2 <= 2
    BY <1>1
  <2>2. (s \o t)[1] = s[1]
    BY <1>3, <2>1
  <2>3. (s \o t)[2] = s[2]
    BY <1>3, <2>1
  <2> QED
    BY <2>2, <2>3
<1>5. ASSUME NEW j \in 1..n PROVE (s \o t)[j + 2] = t[j]
  <2>1. j + 2 \in 1..(2 + n) /\ ~(j + 2 <= 2) /\ (j + 2) - 2 = j
    BY <1>1
  <2> QED
    BY <1>3, <2>1
<1>6. s \o t \in Seq(Int) /\ Len(s \o t) = n + 2
  BY <1>1, <1>2
<1> QED
  BY <1>4, <1>5, <1>6 DEF n

\* A stretch of a sequence.
LEMMA Stretch ==
  ASSUME NEW s \in Seq(Int), NEW i \in Nat \ {0}, NEW n \in Nat, i + n - 1 <= Len(s)
  PROVE  /\ SubSeq(s, i, i + n - 1) \in Seq(Int) /\ Len(SubSeq(s, i, i + n - 1)) = n
         /\ \A j \in 1..n : SubSeq(s, i, i + n - 1)[j] = s[i + j - 1]
<1>1. \A k \in i..(i + n - 1) : s[k] \in Int
  BY ElementOfSeq
<1> QED
  BY <1>1, SubSeqProperties

\* A pair is a list of two.
LEMMA TupleOfTwo ==
  ASSUME NEW a \in Int, NEW b \in Int, NEW t, t = <<a, b>>
  PROVE  t \in Seq(Int) /\ Len(t) = 2 /\ t[1] = a /\ t[2] = b
OBVIOUS

\* A quadruple is a list of four.
LEMMA TupleOfFour ==
  ASSUME NEW a \in Int, NEW b \in Int, NEW c \in Int, NEW d \in Int, NEW t, t = <<a, b, c, d>>
  PROVE  t \in Seq(Int) /\ Len(t) = 4 /\ t[1] = a /\ t[2] = b /\ t[3] = c /\ t[4] = d
OBVIOUS

\* The digits of a number.
LEMMA HexDigits ==
  /\ \A r \in 0..3 : /\ Shown!Hex(r, 1) \in Seq(Int) /\ Len(Shown!Hex(r, 1)) = 1
                     /\ Shown!Hex(r, 1)[1] = r
  /\ \A r \in 0..15 : /\ Shown!Hex(r, 2) \in Seq(Int) /\ Len(Shown!Hex(r, 2)) = 2
                      /\ Shown!Hex(r, 2)[1] = r \div 4 /\ Shown!Hex(r, 2)[2] = r % 4
  /\ \A r : r = 16 \/ r = 17 =>
       /\ Shown!Hex(r, 4) \in Seq(Int) /\ Len(Shown!Hex(r, 4)) = 4
       /\ Shown!Hex(r, 4)[1] = 0 /\ Shown!Hex(r, 4)[2] = 1
       /\ Shown!Hex(r, 4)[3] = 0 /\ Shown!Hex(r, 4)[4] = r - 16
<1>1. ASSUME NEW r \in 0..3
      PROVE  /\ Shown!Hex(r, 1) \in Seq(Int) /\ Len(Shown!Hex(r, 1)) = 1
             /\ Shown!Hex(r, 1)[1] = r
  <2>1. <<r>> \in Seq(Int) /\ Len(<<r>>) = 1 /\ <<r>>[1] = r
    OBVIOUS
  <2> QED
    BY <2>1, HexOne
<1>2. ASSUME NEW r \in 0..15
      PROVE  /\ Shown!Hex(r, 2) \in Seq(Int) /\ Len(Shown!Hex(r, 2)) = 2
             /\ Shown!Hex(r, 2)[1] = r \div 4 /\ Shown!Hex(r, 2)[2] = r % 4
  <2> DEFINE a == r \div 4
             b == r % 4
  <2>1. a \in Int /\ b \in Int
    OBVIOUS
  <2>2. Shown!Hex(r, 2) = <<a, b>>
    BY HexTwo
  <2> HIDE DEF a, b
  <2>3. /\ Shown!Hex(r, 2) \in Seq(Int) /\ Len(Shown!Hex(r, 2)) = 2
        /\ Shown!Hex(r, 2)[1] = a /\ Shown!Hex(r, 2)[2] = b
    BY <2>1, <2>2, TupleOfTwo DEF a, b
  <2> QED
    BY <2>3 DEF a, b
<1>3. ASSUME NEW r, r = 16 \/ r = 17
      PROVE  /\ Shown!Hex(r, 4) \in Seq(Int) /\ Len(Shown!Hex(r, 4)) = 4
             /\ Shown!Hex(r, 4)[1] = 0 /\ Shown!Hex(r, 4)[2] = 1
             /\ Shown!Hex(r, 4)[3] = 0 /\ Shown!Hex(r, 4)[4] = r - 16
  <2>1. r - 16 \in Int
    BY <1>3
  <2> DEFINE x == r - 16
  <2>2. Shown!Hex(r, 4) = <<0, 1, 0, x>>
    BY <1>3, HexFour
  <2> HIDE DEF x
  <2>3. /\ Shown!Hex(r, 4) \in Seq(Int) /\ Len(Shown!Hex(r, 4)) = 4
        /\ Shown!Hex(r, 4)[1] = 0 /\ Shown!Hex(r, 4)[2] = 1
        /\ Shown!Hex(r, 4)[3] = 0 /\ Shown!Hex(r, 4)[4] = x
    <3>1. x \in Int
      BY <2>1 DEF x
    <3> QED
      BY <2>2, <3>1, TupleOfFour
  <2> QED
    BY <2>3 DEF x
<1> QED
  BY <1>1, <1>2, <1>3

\* The units of served text, by number.
LEMMA ShownUnits ==
  ASSUME NEW u \in Shown!Rune \cup Shown!Byte
  PROVE  /\ u \in Int
         /\ u \in Shown!Byte <=> (u = -4 \/ u = -3 \/ u = -2 \/ u = -1)
         /\ Shown!IsControl(u) <=> (u = 8 \/ u = 9 \/ u = 10 \/ u = 17)
         /\ u \in Shown!Rune <=> (u \in 0..12 \/ u = 16 \/ u = 17)
BY DEF Shown!Rune, Shown!Byte, Shown!Astral, Shown!IsControl, Shown!Newline, Shown!Escape,
       Shown!C1Control

\* What printable makes of a backslash, of a byte that is no UTF-8, of a control
\* character in the BMP and of one outside it, and of anything else.
PrintedAs(u, s) ==
  \/ u = 4 /\ Len(s) = 2 /\ s[1] = 4 /\ s[2] = 4
  \/ u \in -4..-1 /\ Len(s) = 3 /\ s[1] = 4 /\ s[2] = 7 /\ s[3] = -u - 1
  \/ u \in 8..10 /\ Len(s) = 4 /\ s[1] = 4 /\ s[2] = 5 /\ s[3] = u \div 4 /\ s[4] = u % 4
  \/ u = 17 /\ Len(s) = 6 /\ s[1] = 4 /\ s[2] = 6
       /\ s[3] = 0 /\ s[4] = 1 /\ s[5] = 0 /\ s[6] = 1
  \/ u # 4 /\ u \notin -4..-1 /\ u \notin 8..10 /\ u # 17 /\ Len(s) = 1 /\ s[1] = u

\* What printable writes for a unit (main.go printable).
LEMMA PrintedUnits ==
  ASSUME NEW u \in Shown!Rune \cup Shown!Byte
  PROVE  Shown!PrintableUnit(u) \in Seq(Int) /\ PrintedAs(u, Shown!PrintableUnit(u))
<1> DEFINE s == Shown!PrintableUnit(u)
<1>0. /\ Shown!Backslash = 4 /\ Shown!LetterU = 5 /\ Shown!CapitalU = 6 /\ Shown!LetterX = 7
      /\ Shown!LastOfBMP = 15
  BY DEF Shown!Backslash, Shown!LetterU, Shown!CapitalU, Shown!LetterX, Shown!LastOfBMP
<1>1. CASE u = 4
  <2>1. s = <<4, 4>>
    BY <1>0, <1>1 DEF Shown!PrintableUnit
  <2>2. s \in Seq(Int) /\ Len(s) = 2 /\ s[1] = 4 /\ s[2] = 4
    <3> HIDE DEF s
    <3> QED
      BY <2>1, TupleOfTwo
  <2> QED
    BY <1>1, <2>2 DEF PrintedAs
<1>2. CASE u = -4 \/ u = -3 \/ u = -2 \/ u = -1
  <2> DEFINE h == Shown!Hex(-u - 1, 1)
             p == <<4, 7>>
  <2>1. u \in -4..-1 /\ u # 4 /\ -u - 1 \in 0..3 /\ u \in Shown!Byte
    BY <1>2, ShownUnits
  <2>2. h \in Seq(Int) /\ Len(h) = 1 /\ h[1] = -u - 1
    BY <2>1, HexDigits
  <2>3. s = p \o h
    BY <1>0, <2>1 DEF Shown!PrintableUnit
  <2>4. p \in Seq(Int) /\ Len(p) = 2 /\ p[1] = 4 /\ p[2] = 7
    OBVIOUS
  <2> HIDE DEF h, p, s
  <2>5. /\ s \in Seq(Int) /\ Len(s) = Len(h) + 2 /\ s[1] = p[1] /\ s[2] = p[2]
        /\ \A j \in 1..Len(h) : s[j + 2] = h[j]
    <3>1. h \in Seq(Int)
      BY <2>2
    <3>2. p \in Seq(Int) /\ Len(p) = 2
      BY <2>4
    <3>3. /\ p \o h \in Seq(Int) /\ Len(p \o h) = Len(h) + 2
          /\ (p \o h)[1] = p[1] /\ (p \o h)[2] = p[2]
          /\ \A j \in 1..Len(h) : (p \o h)[j + 2] = h[j]
      BY <3>1, <3>2, TwoAndThen
    <3> QED
      BY <2>3, <3>3
  <2>6. s[3] = h[1]
    <3>1. 1 \in 1..1 /\ 1 + 2 = 3
      OBVIOUS
    <3> QED
      BY <2>2, <2>5, <3>1
  <2>7. PrintedAs(u, s)
    BY <1>2, <2>1, <2>2, <2>4, <2>5, <2>6 DEF PrintedAs
  <2> QED
    BY <2>5, <2>7 DEF s
<1>3. CASE u = 8 \/ u = 9 \/ u = 10
  <2> DEFINE h == Shown!Hex(u, 2)
             p == <<4, 5>>
  <2>1. u \in 8..10 /\ u # 4 /\ u \in 0..15 /\ u \notin Shown!Byte /\ Shown!IsControl(u) /\ ~(u > 15)
    BY <1>3, ShownUnits
  <2>2. h \in Seq(Int) /\ Len(h) = 2 /\ h[1] = u \div 4 /\ h[2] = u % 4
    BY <2>1, HexDigits
  <2>3. s = p \o h
    BY <1>0, <2>1 DEF Shown!PrintableUnit
  <2>4. p \in Seq(Int) /\ Len(p) = 2 /\ p[1] = 4 /\ p[2] = 5
    OBVIOUS
  <2> HIDE DEF h, p, s
  <2>5. /\ s \in Seq(Int) /\ Len(s) = Len(h) + 2 /\ s[1] = p[1] /\ s[2] = p[2]
        /\ \A j \in 1..Len(h) : s[j + 2] = h[j]
    <3>1. h \in Seq(Int)
      BY <2>2
    <3>2. p \in Seq(Int) /\ Len(p) = 2
      BY <2>4
    <3>3. /\ p \o h \in Seq(Int) /\ Len(p \o h) = Len(h) + 2
          /\ (p \o h)[1] = p[1] /\ (p \o h)[2] = p[2]
          /\ \A j \in 1..Len(h) : (p \o h)[j + 2] = h[j]
      BY <3>1, <3>2, TwoAndThen
    <3> QED
      BY <2>3, <3>3
  <2>6. s[3] = h[1] /\ s[4] = h[2]
    <3>1. 1 \in 1..2 /\ 1 + 2 = 3 /\ 2 \in 1..2 /\ 2 + 2 = 4
      OBVIOUS
    <3> QED
      BY <2>2, <2>5, <3>1
  <2>7. PrintedAs(u, s)
    BY <1>3, <2>1, <2>2, <2>4, <2>5, <2>6 DEF PrintedAs
  <2> QED
    BY <2>5, <2>7 DEF s
<1>4. CASE u = 17
  <2> DEFINE h == Shown!Hex(u, 4)
             p == <<4, 6>>
  <2>1. u # 4 /\ u \notin Shown!Byte /\ Shown!IsControl(u) /\ u > 15
    BY <1>4, ShownUnits
  <2>2. h \in Seq(Int) /\ Len(h) = 4 /\ h[1] = 0 /\ h[2] = 1 /\ h[3] = 0 /\ h[4] = 1
    <3>1. h \in Seq(Int) /\ Len(h) = 4 /\ h[1] = 0 /\ h[2] = 1 /\ h[3] = 0 /\ h[4] = u - 16
      BY <1>4, HexDigits
    <3>2. u - 16 = 1
      BY <1>4
    <3> QED
      BY <3>1, <3>2
  <2>3. s = p \o h
    BY <1>0, <2>1 DEF Shown!PrintableUnit
  <2>4. p \in Seq(Int) /\ Len(p) = 2 /\ p[1] = 4 /\ p[2] = 6
    OBVIOUS
  <2> HIDE DEF h, p, s
  <2>5. /\ s \in Seq(Int) /\ Len(s) = Len(h) + 2 /\ s[1] = p[1] /\ s[2] = p[2]
        /\ \A j \in 1..Len(h) : s[j + 2] = h[j]
    <3>1. h \in Seq(Int)
      BY <2>2
    <3>2. p \in Seq(Int) /\ Len(p) = 2
      BY <2>4
    <3>3. /\ p \o h \in Seq(Int) /\ Len(p \o h) = Len(h) + 2
          /\ (p \o h)[1] = p[1] /\ (p \o h)[2] = p[2]
          /\ \A j \in 1..Len(h) : (p \o h)[j + 2] = h[j]
      BY <3>1, <3>2, TwoAndThen
    <3> QED
      BY <2>3, <3>3
  <2>6. s[3] = h[1] /\ s[4] = h[2] /\ s[5] = h[3] /\ s[6] = h[4]
    <3>1. 1 \in 1..4 /\ 1 + 2 = 3 /\ 2 \in 1..4 /\ 2 + 2 = 4 /\ 3 \in 1..4 /\ 3 + 2 = 5
              /\ 4 \in 1..4 /\ 4 + 2 = 6
      OBVIOUS
    <3> QED
      BY <2>2, <2>5, <3>1
  <2>7. PrintedAs(u, s)
    BY <1>4, <2>1, <2>2, <2>4, <2>5, <2>6 DEF PrintedAs
  <2> QED
    BY <2>5, <2>7 DEF s
<1>5. CASE ~(u = 4 \/ u = -4 \/ u = -3 \/ u = -2 \/ u = -1 \/ u = 8 \/ u = 9 \/ u = 10 \/ u = 17)
  <2>1. u # 4 /\ u \notin Shown!Byte /\ ~Shown!IsControl(u) /\ u \in Int
    BY <1>5, ShownUnits
  <2>2. s = <<u>>
    BY <1>0, <2>1 DEF Shown!PrintableUnit
  <2>3. s \in Seq(Int) /\ Len(s) = 1 /\ s[1] = u
    <3> HIDE DEF s
    <3> QED
      BY <2>1, <2>2, OneElement
  <2>4. u \notin -4..-1 /\ u \notin 8..10
    BY <1>5, <2>1
  <2> QED
    BY <1>5, <2>3, <2>4 DEF PrintedAs
<1> QED
  BY <1>1, <1>2, <1>3, <1>4, <1>5

\* One step of ReadPrinted, with what f says of the rest.
ReadPrintedFrom(out, f, i) ==
  LET Escaped(width) == Shown!Spelled(SubSeq(out, i + 2, i + 1 + width))
  IN IF i > Len(out) THEN <<>>
     ELSE IF out[i] # 4 THEN <<out[i]>> \o f[i + 1]
     ELSE CASE out[i + 1] = 4 -> <<4>> \o f[i + 2]
            [] out[i + 1] = 7 -> <<-Escaped(1) - 1>> \o f[i + 3]
            [] out[i + 1] = 5 -> <<Escaped(2)>> \o f[i + 4]
            [] out[i + 1] = 6 -> <<Escaped(4)>> \o f[i + 6]
            [] OTHER -> <<11>> \o f[i + 2]

\* What it makes of an escape.
EscapeRead(out, f, i) ==
  /\ out[i + 1] = 4 => ReadPrintedFrom(out, f, i) = <<4>> \o f[i + 2]
  /\ out[i + 1] = 7 =>
       ReadPrintedFrom(out, f, i) =
         <<-Shown!Spelled(SubSeq(out, i + 2, i + 1 + 1)) - 1>> \o f[i + 3]
  /\ out[i + 1] = 5 =>
       ReadPrintedFrom(out, f, i) = <<Shown!Spelled(SubSeq(out, i + 2, i + 1 + 2))>> \o f[i + 4]
  /\ out[i + 1] = 6 =>
       ReadPrintedFrom(out, f, i) = <<Shown!Spelled(SubSeq(out, i + 2, i + 1 + 4))>> \o f[i + 6]

\* Every escape is read so.
LEMMA ReadsEscape ==
  ASSUME NEW out \in Seq(Int), NEW f, NEW i \in 1..Len(out), out[i] = 4
  PROVE  EscapeRead(out, f, i)
<1> DEFINE a == <<4>> \o f[i + 2]
           b == <<-Shown!Spelled(SubSeq(out, i + 2, i + 1 + 1)) - 1>> \o f[i + 3]
           c == <<Shown!Spelled(SubSeq(out, i + 2, i + 1 + 2))>> \o f[i + 4]
           d == <<Shown!Spelled(SubSeq(out, i + 2, i + 1 + 4))>> \o f[i + 6]
           e == <<11>> \o f[i + 2]
<1>1. ~(i > Len(out))
  OBVIOUS
<1>2. ReadPrintedFrom(out, f, i) =
        CASE out[i + 1] = 4 -> <<4>> \o f[i + 2]
          [] out[i + 1] = 7 -> <<-Shown!Spelled(SubSeq(out, i + 2, i + 1 + 1)) - 1>> \o f[i + 3]
          [] out[i + 1] = 5 -> <<Shown!Spelled(SubSeq(out, i + 2, i + 1 + 2))>> \o f[i + 4]
          [] out[i + 1] = 6 -> <<Shown!Spelled(SubSeq(out, i + 2, i + 1 + 4))>> \o f[i + 6]
          [] OTHER -> <<11>> \o f[i + 2]
  BY <1>1 DEF ReadPrintedFrom
<1>3. ReadPrintedFrom(out, f, i) =
        CASE out[i + 1] = 4 -> a [] out[i + 1] = 7 -> b [] out[i + 1] = 5 -> c
          [] out[i + 1] = 6 -> d [] OTHER -> e
  BY <1>2
<1> HIDE DEF a, b, c, d, e
<1>4. /\ out[i + 1] = 4 => ReadPrintedFrom(out, f, i) = a
      /\ out[i + 1] = 7 => ReadPrintedFrom(out, f, i) = b
      /\ out[i + 1] = 5 => ReadPrintedFrom(out, f, i) = c
      /\ out[i + 1] = 6 => ReadPrintedFrom(out, f, i) = d
  BY <1>3
<1> QED
  BY <1>4 DEF a, b, c, d, EscapeRead

\* The recursion of ReadPrinted describes a function, and that is what ReadPrinted reads
\* with.
LEMMA ReadPrintedIsFrom ==
  ASSUME NEW out \in Seq(Int)
  PROVE  \E f : /\ Shown!ReadPrinted(out) = f[1]
                /\ \A i \in 1..(Len(out) + 6) : f[i] = ReadPrintedFrom(out, f, i)
<1> DEFINE n == Len(out)
           Escaped(i, width) == Shown!Spelled(SubSeq(out, i + 2, i + 1 + width))
           unit == [i \in 1..n |->
                      IF out[i] # 4 THEN out[i]
                      ELSE CASE out[i + 1] = 4 -> 4
                             [] out[i + 1] = 7 -> -Escaped(i, 1) - 1
                             [] out[i + 1] = 5 -> Escaped(i, 2)
                             [] out[i + 1] = 6 -> Escaped(i, 4)
                             [] OTHER -> 11]
           width == [i \in 1..n |->
                       IF out[i] # 4 THEN 1
                       ELSE CASE out[i + 1] = 4 -> 2
                              [] out[i + 1] = 7 -> 3
                              [] out[i + 1] = 5 -> 4
                              [] out[i + 1] = 6 -> 6
                              [] OTHER -> 2]
           F == CHOOSE f : f = [i \in 1..(n + 6) |-> ReadPrintedFrom(out, f, i)]
<1>1. n \in Nat
  BY LenProperties
<1>2. width \in [1..n -> 1..6]
  OBVIOUS
<1>3. ASSUME NEW f, NEW i \in 1..(n + 6)
      PROVE  ReadPrintedFrom(out, f, i) =
               IF i > n THEN <<>> ELSE <<unit[i]>> \o f[i + width[i]]
  <2>1. CASE i > n
    BY <2>1 DEF ReadPrintedFrom
  <2>2. CASE ~(i > n)
    <3>1. i \in 1..n
      BY <1>1, <2>2
    <3>2. CASE out[i] # 4
      <4>1. unit[i] = out[i] /\ width[i] = 1
        BY <3>1, <3>2
      <4>2. ReadPrintedFrom(out, f, i) = <<out[i]>> \o f[i + 1]
        BY <2>2, <3>2 DEF ReadPrintedFrom
      <4> HIDE DEF n, unit, width
      <4> QED
        BY <2>2, <4>1, <4>2
    <3>3. CASE out[i] = 4 /\ out[i + 1] = 4
      <4>1. unit[i] = 4 /\ width[i] = 2
        BY <3>1, <3>3
      <4>2. ReadPrintedFrom(out, f, i) = <<4>> \o f[i + 2]
        <5>1. EscapeRead(out, f, i)
          BY <3>1, <3>3, ReadsEscape
        <5> QED
          BY <3>1, <3>3, <5>1 DEF EscapeRead
      <4> HIDE DEF n, unit, width
      <4> QED
        BY <2>2, <4>1, <4>2
    <3>4. CASE out[i] = 4 /\ out[i + 1] = 7
      <4>1. unit[i] = -Escaped(i, 1) - 1 /\ width[i] = 3
        BY <3>1, <3>4
      <4>2. ReadPrintedFrom(out, f, i) = <<-Escaped(i, 1) - 1>> \o f[i + 3]
        <5>1. EscapeRead(out, f, i)
          BY <3>1, <3>4, ReadsEscape
        <5> QED
          BY <3>1, <3>4, <5>1 DEF EscapeRead
      <4> QED
        BY <2>2, <4>1, <4>2
    <3>5. CASE out[i] = 4 /\ out[i + 1] = 5
      <4>1. unit[i] = Escaped(i, 2) /\ width[i] = 4
        BY <3>1, <3>5
      <4>2. ReadPrintedFrom(out, f, i) = <<Escaped(i, 2)>> \o f[i + 4]
        <5>1. EscapeRead(out, f, i)
          BY <3>1, <3>5, ReadsEscape
        <5> QED
          BY <3>1, <3>5, <5>1 DEF EscapeRead
      <4> QED
        BY <2>2, <4>1, <4>2
    <3>6. CASE out[i] = 4 /\ out[i + 1] = 6
      <4>1. unit[i] = Escaped(i, 4) /\ width[i] = 6
        BY <3>1, <3>6
      <4>2. ReadPrintedFrom(out, f, i) = <<Escaped(i, 4)>> \o f[i + 6]
        <5>1. EscapeRead(out, f, i)
          BY <3>1, <3>6, ReadsEscape
        <5> QED
          BY <3>1, <3>6, <5>1 DEF EscapeRead
      <4> QED
        BY <2>2, <4>1, <4>2
    <3>7. CASE out[i] = 4 /\ out[i + 1] # 4 /\ out[i + 1] # 7 /\ out[i + 1] # 5 /\ out[i + 1] # 6
      <4>1. unit[i] = 11 /\ width[i] = 2
        BY <3>1, <3>7
      <4>2. ReadPrintedFrom(out, f, i) = <<11>> \o f[i + 2]
        BY <2>2, <3>7 DEF ReadPrintedFrom
      <4> HIDE DEF n, unit, width
      <4> QED
        BY <2>2, <4>1, <4>2
    <3> QED
      BY <3>2, <3>3, <3>4, <3>5, <3>6, <3>7
  <2> QED
    BY <2>1, <2>2
<1>4. \E f : f = [i \in 1..(n + 6) |-> ReadPrintedFrom(out, f, i)]
  <2> DEFINE U == {unit[i] : i \in 1..n}
  <2>0. unit \in [1..n -> U]
    OBVIOUS
  <2> HIDE DEF n, unit, width, U
  <2> DEFINE c == 6
  <2>1. c \in Nat /\ width \in [1..n -> 1..c]
    BY <1>2
  <2> HIDE DEF c
  <2>3. PICK f : IsReading(f, n, c, unit, width)
    BY <1>1, <2>0, <2>1, ReadingExists
  <2>4. /\ f = [i \in 1..(n + 6) |-> f[i]]
        /\ \A i \in 1..(n + 6) : f[i] = IF i > n THEN <<>> ELSE <<unit[i]>> \o f[i + width[i]]
    BY <2>3 DEF IsReading, c
  <2>5. \A i \in 1..(n + 6) : f[i] = ReadPrintedFrom(out, f, i)
    BY <2>4, <1>3
  <2>2. f = [i \in 1..(n + 6) |-> ReadPrintedFrom(out, f, i)]
    BY <2>4, <2>5
  <2> QED
    BY <2>2
<1>5. F = [i \in 1..(n + 6) |-> ReadPrintedFrom(out, F, i)]
  BY <1>4
<1>6. Shown!ReadPrinted(out) = F[1]
  BY DEF Shown!ReadPrinted, ReadPrintedFrom, Shown!Backslash, Shown!LetterX, Shown!LetterU,
         Shown!CapitalU, Shown!RuneError
<1> HIDE DEF F
<1>7. \A i \in 1..(n + 6) : F[i] = ReadPrintedFrom(out, F, i)
  BY <1>5
<1> QED
  BY <1>6, <1>7

\* The two hex digits of a number give it back.
LEMMA QuotientAndRest ==
  ASSUME NEW u \in Nat
  PROVE  4 * (u \div 4) + (u % 4) = u
OBVIOUS

\* The number that stands after the two units of an escape.
LEMMA EscapedDigits ==
  ASSUME NEW out \in Seq(Int), NEW p \in Nat \ {0}
  PROVE  /\ p + 2 <= Len(out) => Shown!Spelled(SubSeq(out, p + 2, p + 1 + 1)) = out[p + 2]
         /\ p + 3 <= Len(out) =>
              Shown!Spelled(SubSeq(out, p + 2, p + 1 + 2)) = 4 * out[p + 2] + out[p + 3]
         /\ p + 5 <= Len(out) =>
              Shown!Spelled(SubSeq(out, p + 2, p + 1 + 4)) =
                4 * (4 * (4 * out[p + 2] + out[p + 3]) + out[p + 4]) + out[p + 5]
<1>1. ASSUME p + 2 <= Len(out)
      PROVE  Shown!Spelled(SubSeq(out, p + 2, p + 1 + 1)) = out[p + 2]
  <2> DEFINE d == SubSeq(out, p + 2, p + 1 + 1)
             q == p + 2
  <2>1. q \in Nat \ {0} /\ 1 \in Nat /\ q + 1 - 1 <= Len(out) /\ q + 1 - 1 = p + 1 + 1
        /\ 1 \in 1..1 /\ q + 1 - 1 = p + 2
    BY <1>1
  <2>2. d = SubSeq(out, q, q + 1 - 1)
    BY <2>1
  <2> HIDE DEF d, q
  <2>3. d \in Seq(Int) /\ Len(d) = 1 /\ d[1] = out[q + 1 - 1]
    BY <2>1, <2>2, Stretch
  <2>4. Shown!Spelled(d) = d[1]
    BY <2>3, SpelledDigits
  <2> QED
    BY <2>1, <2>3, <2>4 DEF d
<1>2. ASSUME p + 3 <= Len(out)
      PROVE  Shown!Spelled(SubSeq(out, p + 2, p + 1 + 2)) = 4 * out[p + 2] + out[p + 3]
  <2> DEFINE d == SubSeq(out, p + 2, p + 1 + 2)
             q == p + 2
  <2>1. q \in Nat \ {0} /\ 2 \in Nat /\ q + 2 - 1 <= Len(out) /\ q + 2 - 1 = p + 1 + 2
        /\ 1 \in 1..2 /\ 2 \in 1..2 /\ q + 1 - 1 = p + 2 /\ q + 2 - 1 = p + 3
    BY <1>2
  <2>2. d = SubSeq(out, q, q + 2 - 1)
    BY <2>1
  <2> HIDE DEF d, q
  <2>3. d \in Seq(Int) /\ Len(d) = 2 /\ d[1] = out[q + 1 - 1] /\ d[2] = out[q + 2 - 1]
    BY <2>1, <2>2, Stretch
  <2>4. Shown!Spelled(d) = 4 * d[1] + d[2]
    <3>1. Len(d) \in 1..4 /\ Len(d) # 1
      BY <2>3
    <3> QED
      BY <2>3, <3>1, SpelledDigits
  <2> QED
    BY <2>1, <2>3, <2>4 DEF d
<1>3. ASSUME p + 5 <= Len(out)
      PROVE  Shown!Spelled(SubSeq(out, p + 2, p + 1 + 4)) =
               4 * (4 * (4 * out[p + 2] + out[p + 3]) + out[p + 4]) + out[p + 5]
  <2> DEFINE d == SubSeq(out, p + 2, p + 1 + 4)
             q == p + 2
  <2>1. q \in Nat \ {0} /\ 4 \in Nat /\ q + 4 - 1 <= Len(out) /\ q + 4 - 1 = p + 1 + 4
        /\ 1 \in 1..4 /\ 2 \in 1..4 /\ 3 \in 1..4 /\ 4 \in 1..4
        /\ q + 1 - 1 = p + 2 /\ q + 2 - 1 = p + 3 /\ q + 3 - 1 = p + 4 /\ q + 4 - 1 = p + 5
    BY <1>3
  <2>2. d = SubSeq(out, q, q + 4 - 1)
    BY <2>1
  <2> HIDE DEF d, q
  <2>3. /\ d \in Seq(Int) /\ Len(d) = 4 /\ d[1] = out[q + 1 - 1] /\ d[2] = out[q + 2 - 1]
        /\ d[3] = out[q + 3 - 1] /\ d[4] = out[q + 4 - 1]
    BY <2>1, <2>2, Stretch
  <2>4. Shown!Spelled(d) = 4 * (4 * (4 * d[1] + d[2]) + d[3]) + d[4]
    <3>1. Len(d) \in 1..4 /\ Len(d) # 1 /\ Len(d) # 2 /\ Len(d) # 3
      BY <2>3
    <3> QED
      BY <2>3, <3>1, SpelledDigits
  <2> QED
    BY <2>1, <2>3, <2>4 DEF d
<1> QED
  BY <1>1, <1>2, <1>3

\* A printed unit reads back to the unit.
LEMMA ReadsPrintedUnit ==
  ASSUME NEW u \in Shown!Rune \cup Shown!Byte, NEW out \in Seq(Int), NEW p \in Nat \ {0}, NEW f,
         NEW s \in Seq(Int), PrintedAs(u, s),
         \A j \in 1..Len(s) : p + j - 1 \in 1..Len(out) /\ out[p + j - 1] = s[j]
  PROVE  p \in 1..Len(out) /\ ReadPrintedFrom(out, f, p) = <<u>> \o f[p + Len(s)]
<1>1. u \in Int /\ Len(out) \in Nat
  BY ShownUnits, LenProperties
<1>2. CASE u = 4 /\ Len(s) = 2 /\ s[1] = 4 /\ s[2] = 4
  <2>1. p \in 1..Len(out) /\ out[p] = 4 /\ out[p + 1] = 4
    <3>1. 1 \in 1..2 /\ 2 \in 1..2 /\ p + 1 - 1 = p /\ p + 2 - 1 = p + 1
      OBVIOUS
    <3> QED
      BY <1>2, <3>1
  <2>2. ReadPrintedFrom(out, f, p) = <<4>> \o f[p + 2]
    <3>1. EscapeRead(out, f, p)
      BY <2>1, ReadsEscape
    <3> QED
      BY <2>1, <3>1 DEF EscapeRead
  <2> QED
    BY <1>2, <2>1, <2>2
<1>3. CASE u \in -4..-1 /\ Len(s) = 3 /\ s[1] = 4 /\ s[2] = 7 /\ s[3] = -u - 1
  <2>1. p \in 1..Len(out) /\ out[p] = 4 /\ out[p + 1] = 7 /\ out[p + 2] = s[3] /\ p + 2 <= Len(out)
    <3>1. 1 \in 1..3 /\ 2 \in 1..3 /\ 3 \in 1..3 /\ p + 1 - 1 = p /\ p + 2 - 1 = p + 1 /\ p + 3 - 1 = p + 2
      OBVIOUS
    <3>2. p \in 1..Len(out) /\ out[p] = s[1] /\ out[p + 1] = s[2] /\ out[p + 2] = s[3]
          /\ p + 2 \in 1..Len(out)
      BY <1>3, <3>1
    <3> QED
      BY <1>1, <1>3, <3>2
  <2> DEFINE e == Shown!Spelled(SubSeq(out, p + 2, p + 1 + 1))
  <2>2. ReadPrintedFrom(out, f, p) = <<-e - 1>> \o f[p + 3]
    <3>1. p \in 1..Len(out) /\ out[p] = 4 /\ out[p + 1] = 7
      BY <2>1
    <3>2. EscapeRead(out, f, p)
      BY <3>1, ReadsEscape
    <3> QED
      BY <3>1, <3>2 DEF EscapeRead
  <2>3. e = -u - 1
    BY <1>3, <2>1, EscapedDigits
  <2> HIDE DEF e
  <2>4. -e - 1 = u
    BY <1>1, <2>3
  <2> QED
    BY <1>3, <2>1, <2>2, <2>4
<1>4. CASE u \in 8..10 /\ Len(s) = 4 /\ s[1] = 4 /\ s[2] = 5 /\ s[3] = u \div 4 /\ s[4] = u % 4
  <2>1. /\ p \in 1..Len(out) /\ out[p] = 4 /\ out[p + 1] = 5
        /\ out[p + 2] = s[3] /\ out[p + 3] = s[4] /\ p + 3 <= Len(out)
    <3>1. /\ 1 \in 1..4 /\ 2 \in 1..4 /\ 3 \in 1..4 /\ 4 \in 1..4
          /\ p + 1 - 1 = p /\ p + 2 - 1 = p + 1 /\ p + 3 - 1 = p + 2 /\ p + 4 - 1 = p + 3
      OBVIOUS
    <3>2. p \in 1..Len(out) /\ out[p] = s[1] /\ out[p + 1] = s[2] /\ out[p + 2] = s[3]
          /\ out[p + 3] = s[4] /\ p + 3 \in 1..Len(out)
      BY <1>4, <3>1
    <3> QED
      BY <1>1, <1>4, <3>2
  <2> DEFINE e == Shown!Spelled(SubSeq(out, p + 2, p + 1 + 2))
  <2>2. ReadPrintedFrom(out, f, p) = <<e>> \o f[p + 4]
    <3>1. p \in 1..Len(out) /\ out[p] = 4 /\ out[p + 1] = 5
      BY <2>1
    <3>2. EscapeRead(out, f, p)
      BY <3>1, ReadsEscape
    <3> QED
      BY <3>1, <3>2 DEF EscapeRead
  <2>3. e = 4 * s[3] + s[4]
    BY <2>1, EscapedDigits
  <2> HIDE DEF e
  <2>4. e = u
    <3>1. 4 * (u \div 4) + (u % 4) = u
      <4>1. u \in Nat
        BY <1>1, <1>4
      <4> QED
        BY <4>1, QuotientAndRest
    <3> QED
      BY <1>4, <2>3, <3>1
  <2> QED
    BY <1>4, <2>1, <2>2, <2>4
<1>5. CASE u = 17 /\ Len(s) = 6 /\ s[1] = 4 /\ s[2] = 6
             /\ s[3] = 0 /\ s[4] = 1 /\ s[5] = 0 /\ s[6] = 1
  <2>1. /\ p \in 1..Len(out) /\ out[p] = 4 /\ out[p + 1] = 6 /\ p + 5 <= Len(out)
        /\ out[p + 2] = 0 /\ out[p + 3] = 1 /\ out[p + 4] = 0 /\ out[p + 5] = 1
    <3>1. /\ 1 \in 1..6 /\ 2 \in 1..6 /\ 3 \in 1..6 /\ 4 \in 1..6 /\ 5 \in 1..6 /\ 6 \in 1..6
          /\ p + 1 - 1 = p /\ p + 2 - 1 = p + 1 /\ p + 3 - 1 = p + 2 /\ p + 4 - 1 = p + 3
          /\ p + 5 - 1 = p + 4 /\ p + 6 - 1 = p + 5
      OBVIOUS
    <3>2. /\ p \in 1..Len(out) /\ out[p] = s[1] /\ out[p + 1] = s[2] /\ out[p + 2] = s[3]
          /\ out[p + 3] = s[4] /\ out[p + 4] = s[5] /\ out[p + 5] = s[6] /\ p + 5 \in 1..Len(out)
      BY <1>5, <3>1
    <3> QED
      BY <1>1, <1>5, <3>2
  <2> DEFINE e == Shown!Spelled(SubSeq(out, p + 2, p + 1 + 4))
  <2>2. ReadPrintedFrom(out, f, p) = <<e>> \o f[p + 6]
    <3>1. p \in 1..Len(out) /\ out[p] = 4 /\ out[p + 1] = 6
      BY <2>1
    <3>2. EscapeRead(out, f, p)
      BY <3>1, ReadsEscape
    <3> QED
      BY <3>1, <3>2 DEF EscapeRead
  <2>3. e = 4 * (4 * (4 * 0 + 1) + 0) + 1
    BY <2>1, EscapedDigits
  <2> HIDE DEF e
  <2>4. e = u
    BY <1>5, <2>3
  <2> QED
    BY <1>5, <2>1, <2>2, <2>4
<1>6. CASE u # 4 /\ Len(s) = 1 /\ s[1] = u
  <2>1. p \in 1..Len(out) /\ out[p] = u
    <3>1. 1 \in 1..1 /\ p + 1 - 1 = p
      OBVIOUS
    <3> QED
      BY <1>6, <3>1
  <2>2. ReadPrintedFrom(out, f, p) = <<u>> \o f[p + 1]
    BY <1>1, <1>6, <2>1 DEF ReadPrintedFrom
  <2> QED
    BY <1>6, <2>1, <2>2
<1> QED
  BY <1>2, <1>3, <1>4, <1>5, <1>6 DEF PrintedAs

\* Printed text reads back to the very bytes (main.go printable).
THEOREM PrintedReadsBack ==
  ASSUME NEW text \in Seq(Shown!Rune \cup Shown!Byte)
  PROVE  Shown!ReadPrinted(Shown!Printable(text)) = text
<1> DEFINE n == Len(text)
           s == [i \in 1..n |-> Shown!PrintableUnit(text[i])]
           out == Shown!Printable(text)
<1>1. n \in Nat /\ \A k \in 1..n : text[k] \in Shown!Rune \cup Shown!Byte
  BY LenProperties, ElementOfSeq
<1>2. s \in [1..n -> Seq(Int)]
      /\ \A k \in 1..n : s[k] = Shown!PrintableUnit(text[k]) /\ PrintedAs(text[k], s[k])
  BY <1>1, PrintedUnits
<1>3. out = FlattenSeq(s)
  BY DEF Shown!Printable, Shown!Each, Shown!FlattenSeq, FlattenSeq
<1> HIDE DEF s
<1>4. s \in Seq(Seq(Int)) /\ Len(s) = n
  BY <1>1, <1>2, Tabulated
<1>5. out \in Seq(Int)
  BY <1>3, <1>4, FlattenIsLaid
<1>6. PICK place : Laid(s, out, place)
  BY <1>3, <1>4, FlattenIsLaid
<1> HIDE DEF out
<1>7. PICK f : /\ Shown!ReadPrinted(out) = f[1]
               /\ \A i \in 1..(Len(out) + 6) : f[i] = ReadPrintedFrom(out, f, i)
  BY <1>5, ReadPrintedIsFrom
<1>8. Len(out) \in Nat /\ place[1] = 1 /\ place[n + 1] = Len(out) + 1
  BY <1>4, <1>5, <1>6, LenProperties DEF Laid
<1>9. f[place[n + 1]] = <<>>
  <2>1. Len(out) + 1 \in 1..(Len(out) + 6) /\ Len(out) + 1 > Len(out)
    BY <1>8
  <2>2. ReadPrintedFrom(out, f, Len(out) + 1) = <<>>
    BY <2>1 DEF ReadPrintedFrom
  <2> QED
    BY <1>7, <1>8, <2>1, <2>2
<1>10. ASSUME NEW k \in 1..n PROVE f[place[k]] = <<text[k]>> \o f[place[k + 1]]
  <2> DEFINE p == place[k]
             t == s[k]
             u == text[k]
  <2>1. k \in 1..Len(s) /\ k \in 1..(Len(s) + 1)
    BY <1>1, <1>4
  <2>2. /\ p \in Nat \ {0} /\ place[k + 1] = p + Len(t)
        /\ \A j \in 1..Len(t) : p + j - 1 \in 1..Len(out) /\ out[p + j - 1] = t[j]
    BY <1>6, <2>1 DEF Laid
  <2>3. u \in Shown!Rune \cup Shown!Byte /\ t \in Seq(Int) /\ PrintedAs(u, t)
    BY <1>1, <1>2
  <2> HIDE DEF p, t, u
  <2>4. p \in 1..Len(out) /\ ReadPrintedFrom(out, f, p) = <<u>> \o f[p + Len(t)]
    BY <1>5, <2>2, <2>3, ReadsPrintedUnit
  <2>5. f[p] = ReadPrintedFrom(out, f, p)
    <3>1. p \in 1..(Len(out) + 6)
      BY <1>8, <2>4
    <3> QED
      BY <1>7, <3>1
  <2>6. f[p] = <<u>> \o f[place[k + 1]]
    BY <2>2, <2>4, <2>5
  <2> QED
    BY <2>6 DEF p, u
<1>11. f[place[1]] = text
  BY <1>9, <1>10, ReadsUnitByUnit
<1> QED
  BY <1>7, <1>8, <1>11 DEF out

\* So no two texts print alike.
COROLLARY NoTwoPrintAlike ==
  ASSUME NEW a \in Seq(Shown!Rune \cup Shown!Byte), NEW b \in Seq(Shown!Rune \cup Shown!Byte),
         Shown!Printable(a) = Shown!Printable(b)
  PROVE  a = b
<1>1. Shown!ReadPrinted(Shown!Printable(a)) = a /\ Shown!ReadPrinted(Shown!Printable(b)) = b
  BY PrintedReadsBack
<1> QED
  BY <1>1, Zenon

\* Others and then two units.
LEMMA ThenTwo ==
  ASSUME NEW s \in Seq(Int), NEW t \in Seq(Int), Len(t) = 2
  PROVE  /\ s \o t \in Seq(Int) /\ Len(s \o t) = Len(s) + 2
         /\ \A i \in 1..Len(s) : (s \o t)[i] = s[i]
         /\ (s \o t)[Len(s) + 1] = t[1] /\ (s \o t)[Len(s) + 2] = t[2]
<1> DEFINE n == Len(s)
           w == s \o t
<1>1. n \in Nat
  BY LenProperties
<1>2. /\ w \in Seq(Int) /\ Len(w) = n + Len(t)
      /\ \A i \in 1..(n + Len(t)) : w[i] = IF i <= n THEN s[i] ELSE t[i - n]
  BY ConcatProperties
<1> HIDE DEF n, w
<1>3. Len(w) = n + 2 /\ \A i \in 1..(n + 2) : w[i] = IF i <= n THEN s[i] ELSE t[i - n]
  BY <1>2
<1>4. ASSUME NEW i \in 1..n PROVE w[i] = s[i]
  <2>1. i \in 1..(n + 2) /\ i <= n
    BY <1>1
  <2> QED
    BY <1>3, <2>1
<1>5. w[n + 1] = t[1]
  <2>1. n + 1 \in 1..(n + 2) /\ ~(n + 1 <= n) /\ (n + 1) - n = 1
    BY <1>1
  <2> QED
    BY <1>3, <2>1
<1>6. w[n + 2] = t[2]
  <2>1. n + 2 \in 1..(n + 2) /\ ~(n + 2 <= n) /\ (n + 2) - n = 2
    BY <1>1
  <2> QED
    BY <1>3, <2>1
<1> QED
  BY <1>2, <1>3, <1>4, <1>5, <1>6 DEF n, w

\* A \u escape in text.
LEMMA UnicodeEscape ==
  ASSUME NEW r \in 0..15
  PROVE  LET s == <<4, 5>> \o Shown!Hex(r, 2)
         IN s \in Seq(Int) /\ Len(s) = 4 /\ s[1] = 4 /\ s[2] = 5 /\ s[3] = r \div 4 /\ s[4] = r % 4
<1> DEFINE h == Shown!Hex(r, 2)
           p == <<4, 5>>
           a == r \div 4
           b == r % 4
<1>1. h \in Seq(Int) /\ Len(h) = 2 /\ h[1] = a /\ h[2] = b
  BY HexDigits
<1>2. p \in Seq(Int) /\ Len(p) = 2 /\ p[1] = 4 /\ p[2] = 5
  OBVIOUS
<1> HIDE DEF h, p, a, b
<1>3. /\ p \o h \in Seq(Int) /\ Len(p \o h) = Len(p) + 2
      /\ \A i \in 1..Len(p) : (p \o h)[i] = p[i]
      /\ (p \o h)[Len(p) + 1] = h[1] /\ (p \o h)[Len(p) + 2] = h[2]
  BY <1>1, <1>2, ThenTwo
<1>4. /\ p \o h \in Seq(Int) /\ Len(p \o h) = 4 /\ (p \o h)[1] = 4 /\ (p \o h)[2] = 5
      /\ (p \o h)[3] = a /\ (p \o h)[4] = b
  <2>1. 1 \in 1..2 /\ 2 \in 1..2 /\ 2 + 1 = 3 /\ 2 + 2 = 4
    OBVIOUS
  <2> QED
    BY <1>1, <1>2, <1>3, <2>1
<1> QED
  BY <1>4 DEF p, h, a, b

\* The digits of the escaped characters.
LEMMA SomeQuotients ==
  /\ 9 \div 4 = 2 /\ 9 % 4 = 1 /\ 11 \div 4 = 2 /\ 11 % 4 = 3
  /\ 13 \div 4 = 3 /\ 13 % 4 = 1 /\ 15 \div 4 = 3 /\ 15 % 4 = 3
  /\ 8 \div 4 = 2 /\ 8 % 4 = 0 /\ 10 \div 4 = 2 /\ 10 % 4 = 2
OBVIOUS

\* What the JSON encoder makes of a backslash, of the two controls it knows, of a byte
\* that is no UTF-8, and of anything else.
MarshaledAs(u, s) ==
  \/ u = 4 /\ Len(s) = 2 /\ s[1] = 4 /\ s[2] = 4
  \/ u = 8 /\ Len(s) = 2 /\ s[1] = 4 /\ s[2] = 12
  \/ u = 9 /\ Len(s) = 4 /\ s[1] = 4 /\ s[2] = 5 /\ s[3] = 2 /\ s[4] = 1
  \/ u \notin Shown!Rune /\ Len(s) = 4 /\ s[1] = 4 /\ s[2] = 5 /\ s[3] = 2 /\ s[4] = 3
  \/ u \in Shown!Rune \ {4, 8, 9} /\ Len(s) = 1 /\ s[1] = u

\* What encoding/json writes for a unit.
LEMMA MarshaledUnits ==
  ASSUME NEW u \in Shown!Rune \cup Shown!Byte
  PROVE  Shown!MarshalUnit(u) \in Seq(Int) /\ MarshaledAs(u, Shown!MarshalUnit(u))
<1> DEFINE s == Shown!MarshalUnit(u)
<1>0. /\ Shown!Backslash = 4 /\ Shown!LetterU = 5 /\ Shown!Newline = 8 /\ Shown!Escape = 9
      /\ Shown!LetterN = 12 /\ Shown!RuneError = 11
  BY DEF Shown!Backslash, Shown!LetterU, Shown!Newline, Shown!Escape, Shown!LetterN,
         Shown!RuneError
<1>1. CASE u = 4
  <2>1. s = <<4, 4>>
    <3>1. u \notin Shown!Byte
      BY <1>1, ShownUnits
    <3> QED
      BY <1>0, <1>1, <3>1 DEF Shown!MarshalUnit
  <2>2. s \in Seq(Int) /\ Len(s) = 2 /\ s[1] = 4 /\ s[2] = 4
    <3> HIDE DEF s
    <3> QED
      BY <2>1, TupleOfTwo
  <2> QED
    BY <1>1, <2>2 DEF MarshaledAs
<1>2. CASE u = 8
  <2>1. s = <<4, 12>>
    <3>1. u \notin Shown!Byte
      BY <1>2, ShownUnits
    <3> QED
      BY <1>0, <1>2, <3>1 DEF Shown!MarshalUnit
  <2>2. s \in Seq(Int) /\ Len(s) = 2 /\ s[1] = 4 /\ s[2] = 12
    <3> HIDE DEF s
    <3> QED
      BY <2>1, TupleOfTwo
  <2> QED
    BY <1>2, <2>2 DEF MarshaledAs
<1>3. CASE u = 9
  <2>1. s = <<4, 5>> \o Shown!Hex(9, 2)
    <3>1. u \notin Shown!Byte
      BY <1>3, ShownUnits
    <3> QED
      BY <1>0, <1>3, <3>1 DEF Shown!MarshalUnit
  <2>2. s \in Seq(Int) /\ Len(s) = 4 /\ s[1] = 4 /\ s[2] = 5 /\ s[3] = 9 \div 4 /\ s[4] = 9 % 4
    <3>1. 9 \in 0..15
      OBVIOUS
    <3> HIDE DEF s
    <3> QED
      BY <2>1, <3>1, UnicodeEscape
  <2> QED
    BY <1>3, <2>2, SomeQuotients DEF MarshaledAs
<1>4. CASE u \notin Shown!Rune
  <2>1. u \in Shown!Byte /\ u # 4 /\ u # 8 /\ u # 9
    BY <1>4, ShownUnits
  <2>2. s = <<4, 5>> \o Shown!Hex(11, 2)
    BY <1>0, <2>1 DEF Shown!MarshalUnit
  <2>3. s \in Seq(Int) /\ Len(s) = 4 /\ s[1] = 4 /\ s[2] = 5 /\ s[3] = 11 \div 4 /\ s[4] = 11 % 4
    <3>1. 11 \in 0..15
      OBVIOUS
    <3> HIDE DEF s
    <3> QED
      BY <2>2, <3>1, UnicodeEscape
  <2> QED
    BY <1>4, <2>3, SomeQuotients DEF MarshaledAs
<1>5. CASE u \in Shown!Rune \ {4, 8, 9}
  <2>1. u \in Int /\ u \notin Shown!Byte /\ u # 4 /\ u # 8 /\ u # 9
    BY <1>5, ShownUnits
  <2>2. s = <<u>>
    BY <1>0, <2>1 DEF Shown!MarshalUnit
  <2>3. s \in Seq(Int) /\ Len(s) = 1 /\ s[1] = u
    <3> HIDE DEF s
    <3> QED
      BY <2>1, <2>2, OneElement
  <2> QED
    BY <1>5, <2>3 DEF MarshaledAs
<1> QED
  BY <1>1, <1>2, <1>3, <1>4, <1>5

\* What escapeDisplay makes of a control character in the BMP, of one outside it, and
\* of anything else.
DisplayedAs(r, s) ==
  \/ (r = 8 \/ r = 9 \/ r = 10)
       /\ Len(s) = 4 /\ s[1] = 4 /\ s[2] = 5 /\ s[3] = r \div 4 /\ s[4] = r % 4
  \/ r = 17 /\ Len(s) = 8 /\ s[1] = 4 /\ s[2] = 5 /\ s[3] = 3 /\ s[4] = 1
       /\ s[5] = 4 /\ s[6] = 5 /\ s[7] = 3 /\ s[8] = 3
  \/ ~Shown!IsControl(r) /\ Len(s) = 1 /\ s[1] = r

\* What escapeDisplay writes for a rune of the encoded text (main.go escapeDisplay).
LEMMA DisplayedUnits ==
  ASSUME NEW r \in Shown!Rune
  PROVE  Shown!DisplayUnit(r) \in Seq(Int) /\ DisplayedAs(r, Shown!DisplayUnit(r))
<1> DEFINE s == Shown!DisplayUnit(r)
<1>0. Shown!Backslash = 4 /\ Shown!LetterU = 5 /\ Shown!LastOfBMP = 15 /\ Shown!HighHalf = 13
  BY DEF Shown!Backslash, Shown!LetterU, Shown!LastOfBMP, Shown!HighHalf
<1>1. CASE r = 8 \/ r = 9 \/ r = 10
  <2>1. Shown!IsControl(r) /\ ~(r > 15) /\ r \in 0..15
    BY <1>1, ShownUnits
  <2>2. s = <<4, 5>> \o Shown!Hex(r, 2)
    BY <1>0, <2>1 DEF Shown!DisplayUnit, Shown!WriteJSONEscape
  <2>3. s \in Seq(Int) /\ Len(s) = 4 /\ s[1] = 4 /\ s[2] = 5 /\ s[3] = r \div 4 /\ s[4] = r % 4
    <3> HIDE DEF s
    <3> QED
      BY <2>1, <2>2, UnicodeEscape
  <2> QED
    BY <1>1, <2>3 DEF DisplayedAs
<1>2. CASE r = 17
  <2> DEFINE p == <<4, 5>>
             a == Shown!Hex(13, 2)
             b == Shown!Hex(15, 2)
             x == p \o a
             y == x \o p
  <2>1. Shown!IsControl(r) /\ r > 15
    BY <1>2, ShownUnits
  <2>2. Shown!EncodeRune(r)[1] = 13 /\ Shown!EncodeRune(r)[2] = 15
    <3>1. Shown!EncodeRune(r) = <<13, 15>>
      <4>1. 14 + (17 - 16) = 15
        OBVIOUS
      <4> QED
        BY <1>0, <1>2, <4>1 DEF Shown!EncodeRune
    <3> QED
      BY <3>1
  <2>3. s = y \o b
    BY <1>0, <2>1, <2>2 DEF Shown!DisplayUnit, Shown!WriteJSONEscape
  <2>4. p \in Seq(Int) /\ Len(p) = 2 /\ p[1] = 4 /\ p[2] = 5
    OBVIOUS
  <2>5. /\ x \in Seq(Int) /\ Len(x) = 4 /\ x[1] = 4 /\ x[2] = 5 /\ x[3] = 3 /\ x[4] = 1
        /\ b \in Seq(Int) /\ Len(b) = 2 /\ b[1] = 3 /\ b[2] = 3
    <3>1. 13 \in 0..15 /\ 15 \in 0..15
      OBVIOUS
    <3>2. /\ x \in Seq(Int) /\ Len(x) = 4 /\ x[1] = 4 /\ x[2] = 5
          /\ x[3] = 13 \div 4 /\ x[4] = 13 % 4
      BY <3>1, UnicodeEscape
    <3>3. b \in Seq(Int) /\ Len(b) = 2 /\ b[1] = 15 \div 4 /\ b[2] = 15 % 4
      BY <3>1, HexDigits
    <3> QED
      BY <3>2, <3>3, SomeQuotients
  <2> HIDE DEF p, a, b, x, s
  <2>6. /\ y \in Seq(Int) /\ Len(y) = 6 /\ \A i \in 1..4 : y[i] = x[i]
        /\ y[5] = 4 /\ y[6] = 5
    <3>1. /\ x \o p \in Seq(Int) /\ Len(x \o p) = Len(x) + 2
          /\ \A i \in 1..Len(x) : (x \o p)[i] = x[i]
          /\ (x \o p)[Len(x) + 1] = p[1] /\ (x \o p)[Len(x) + 2] = p[2]
      BY <2>4, <2>5, ThenTwo
    <3>2. 4 + 1 = 5 /\ 4 + 2 = 6
      OBVIOUS
    <3> QED
      BY <2>4, <2>5, <3>1, <3>2
  <2> HIDE DEF y
  <2>7. /\ s \in Seq(Int) /\ Len(s) = 8 /\ \A i \in 1..6 : s[i] = y[i]
        /\ s[7] = 3 /\ s[8] = 3
    <3>1. /\ y \o b \in Seq(Int) /\ Len(y \o b) = Len(y) + 2
          /\ \A i \in 1..Len(y) : (y \o b)[i] = y[i]
          /\ (y \o b)[Len(y) + 1] = b[1] /\ (y \o b)[Len(y) + 2] = b[2]
      BY <2>5, <2>6, ThenTwo
    <3>2. 6 + 1 = 7 /\ 6 + 2 = 8
      OBVIOUS
    <3> QED
      BY <2>3, <2>5, <2>6, <3>1, <3>2
  <2>8. /\ s[1] = 4 /\ s[2] = 5 /\ s[3] = 3 /\ s[4] = 1 /\ s[5] = 4 /\ s[6] = 5
    <3>1. /\ 1 \in 1..4 /\ 2 \in 1..4 /\ 3 \in 1..4 /\ 4 \in 1..4
          /\ 1 \in 1..6 /\ 2 \in 1..6 /\ 3 \in 1..6 /\ 4 \in 1..6 /\ 5 \in 1..6 /\ 6 \in 1..6
      OBVIOUS
    <3> QED
      BY <2>5, <2>6, <2>7, <3>1
  <2>9. DisplayedAs(r, s)
    BY <1>2, <2>7, <2>8 DEF DisplayedAs
  <2> QED
    BY <2>7, <2>9 DEF s
<1>3. CASE ~Shown!IsControl(r)
  <2>1. s = <<r>> /\ r \in Int
    BY <1>3, ShownUnits DEF Shown!DisplayUnit
  <2>2. s \in Seq(Int) /\ Len(s) = 1 /\ s[1] = r
    <3> HIDE DEF s
    <3> QED
      BY <2>1, OneElement
  <2> QED
    BY <1>3, <2>2 DEF DisplayedAs
<1> QED
  BY <1>1, <1>2, <1>3, ShownUnits

\* The code unit a \u escape at i spells, or -1.
QuadIn(raw, i) ==
  IF i + 3 <= Len(raw) /\ raw[i] = 4 /\ raw[i + 1] = 5 /\ raw[i + 2] \in 0..3 /\ raw[i + 3] \in 0..3
  THEN Shown!Spelled(SubSeq(raw, i + 2, i + 3)) ELSE -1

\* One step of Unmarshal, with what f says of the rest.
UnmarshalFrom(raw, f, i) ==
  IF i > Len(raw) THEN <<>>
  ELSE IF raw[i] # 4 THEN <<raw[i]>> \o f[i + 1]
  ELSE IF raw[i + 1] = 12 THEN <<8>> \o f[i + 2]
  ELSE IF QuadIn(raw, i) = -1 THEN <<raw[i + 1]>> \o f[i + 2]
  ELSE IF QuadIn(raw, i) = 13 /\ QuadIn(raw, i + 4) \in 14..15
  THEN <<16 + (QuadIn(raw, i + 4) - 14)>> \o f[i + 8]
  ELSE IF QuadIn(raw, i) = 13 \/ QuadIn(raw, i) \in 14..15 THEN <<11>> \o f[i + 4]
  ELSE <<QuadIn(raw, i)>> \o f[i + 4]

\* Unmarshal is the function its recursion describes.
LEMMA UnmarshalIsFrom ==
  ASSUME NEW raw \in Seq(Int)
  PROVE  \E f : /\ Shown!Unmarshal(raw) = f[1]
                /\ \A i \in 1..(Len(raw) + 8) : f[i] = UnmarshalFrom(raw, f, i)
<1> DEFINE n == Len(raw)
           unit == [i \in 1..n |->
                      IF raw[i] # 4 THEN raw[i]
                      ELSE IF raw[i + 1] = 12 THEN 8
                      ELSE IF QuadIn(raw, i) = -1 THEN raw[i + 1]
                      ELSE IF QuadIn(raw, i) = 13 /\ QuadIn(raw, i + 4) \in 14..15
                      THEN 16 + (QuadIn(raw, i + 4) - 14)
                      ELSE IF QuadIn(raw, i) = 13 \/ QuadIn(raw, i) \in 14..15 THEN 11
                      ELSE QuadIn(raw, i)]
           width == [i \in 1..n |->
                       IF raw[i] # 4 THEN 1
                       ELSE IF raw[i + 1] = 12 THEN 2
                       ELSE IF QuadIn(raw, i) = -1 THEN 2
                       ELSE IF QuadIn(raw, i) = 13 /\ QuadIn(raw, i + 4) \in 14..15 THEN 8
                       ELSE 4]
           U == {unit[i] : i \in 1..n}
           F == CHOOSE f : f = [i \in 1..(n + 8) |-> UnmarshalFrom(raw, f, i)]
<1>1. n \in Nat
  BY LenProperties
<1>2. width \in [1..n -> 1..8] /\ unit \in [1..n -> U]
  OBVIOUS
<1>3. ASSUME NEW f, NEW i \in 1..(n + 8)
      PROVE  UnmarshalFrom(raw, f, i) = IF i > n THEN <<>> ELSE <<unit[i]>> \o f[i + width[i]]
  <2>1. CASE i > n
    BY <2>1 DEF UnmarshalFrom
  <2>2. CASE ~(i > n)
    <3>1. i \in 1..n
      BY <1>1, <2>2
    <3> DEFINE q == QuadIn(raw, i)
               r == QuadIn(raw, i + 4)
    <3> HIDE DEF q, r
    <3>2. UnmarshalFrom(raw, f, i) =
            IF raw[i] # 4 THEN <<raw[i]>> \o f[i + 1]
            ELSE IF raw[i + 1] = 12 THEN <<8>> \o f[i + 2]
            ELSE IF q = -1 THEN <<raw[i + 1]>> \o f[i + 2]
            ELSE IF q = 13 /\ r \in 14..15 THEN <<16 + (r - 14)>> \o f[i + 8]
            ELSE IF q = 13 \/ q \in 14..15 THEN <<11>> \o f[i + 4]
            ELSE <<q>> \o f[i + 4]
      BY <2>2 DEF UnmarshalFrom, q, r
    <3>3. /\ unit[i] = IF raw[i] # 4 THEN raw[i]
                       ELSE IF raw[i + 1] = 12 THEN 8
                       ELSE IF q = -1 THEN raw[i + 1]
                       ELSE IF q = 13 /\ r \in 14..15 THEN 16 + (r - 14)
                       ELSE IF q = 13 \/ q \in 14..15 THEN 11
                       ELSE q
          /\ width[i] = IF raw[i] # 4 THEN 1
                        ELSE IF raw[i + 1] = 12 THEN 2
                        ELSE IF q = -1 THEN 2
                        ELSE IF q = 13 /\ r \in 14..15 THEN 8
                        ELSE 4
      BY <3>1 DEF q, r
    <3> HIDE DEF unit, width
    <3> DEFINE paired == 16 + (r - 14)
    <3> HIDE DEF paired
    <3>4. UnmarshalFrom(raw, f, i) = <<unit[i]>> \o f[i + width[i]]
      <4>1. CASE raw[i] # 4
        BY <3>2, <3>3, <4>1
      <4>2. CASE raw[i] = 4 /\ raw[i + 1] = 12
        BY <3>2, <3>3, <4>2
      <4>3. CASE raw[i] = 4 /\ raw[i + 1] # 12 /\ q = -1
        BY <3>2, <3>3, <4>3
      <4>4. CASE raw[i] = 4 /\ raw[i + 1] # 12 /\ q # -1 /\ q = 13 /\ r \in 14..15
        BY <3>2, <3>3, <4>4
      <4>5. CASE raw[i] = 4 /\ raw[i + 1] # 12 /\ q # -1 /\ ~(q = 13 /\ r \in 14..15)
        BY <3>2, <3>3, <4>5
      <4> QED
        BY <4>1, <4>2, <4>3, <4>4, <4>5
    <3> QED
      BY <2>2, <3>4
  <2> QED
    BY <2>1, <2>2
<1>4. \E f : f = [i \in 1..(n + 8) |-> UnmarshalFrom(raw, f, i)]
  <2> DEFINE c == 8
  <2>1. c \in Nat /\ width \in [1..n -> 1..c]
    BY <1>2
  <2> HIDE DEF n, unit, width, U, c
  <2>2. PICK f : IsReading(f, n, c, unit, width)
    BY <1>1, <1>2, <2>1, ReadingExists
  <2>3. /\ f = [i \in 1..(n + 8) |-> f[i]]
        /\ \A i \in 1..(n + 8) : f[i] = IF i > n THEN <<>> ELSE <<unit[i]>> \o f[i + width[i]]
    BY <2>2 DEF IsReading, c
  <2>4. \A i \in 1..(n + 8) : f[i] = UnmarshalFrom(raw, f, i)
    BY <2>3, <1>3
  <2>5. f = [i \in 1..(n + 8) |-> UnmarshalFrom(raw, f, i)]
    BY <2>3, <2>4
  <2> QED
    BY <2>5
<1>5. F = [i \in 1..(n + 8) |-> UnmarshalFrom(raw, F, i)]
  BY <1>4
<1>6. Shown!Unmarshal(raw) = F[1]
  BY DEF Shown!Unmarshal, UnmarshalFrom, QuadIn, Shown!Backslash, Shown!LetterU, Shown!LetterN,
         Shown!Newline, Shown!Digit, Shown!HighHalf, Shown!LowHalf, Shown!RuneError
<1> HIDE DEF F
<1>7. \A i \in 1..(n + 8) : F[i] = UnmarshalFrom(raw, F, i)
  BY <1>5
<1> QED
  BY <1>6, <1>7

\* What stands in a --json report for a rune, from one place to the next.
ReportedAs(u, out, p, next) ==
  \/ u = 4 /\ next = p + 2 /\ p + 1 <= Len(out) /\ out[p] = 4 /\ out[p + 1] = 4
  \/ u = 8 /\ next = p + 2 /\ p + 1 <= Len(out) /\ out[p] = 4 /\ out[p + 1] = 12
  \/ /\ u = 9 \/ u = 10
     /\ next = p + 4 /\ p + 3 <= Len(out)
     /\ out[p] = 4 /\ out[p + 1] = 5 /\ out[p + 2] = 2 /\ out[p + 3] = u - 8
  \/ u = 17 /\ next = p + 8 /\ p + 7 <= Len(out)
       /\ out[p] = 4 /\ out[p + 1] = 5 /\ out[p + 2] = 3 /\ out[p + 3] = 1
       /\ out[p + 4] = 4 /\ out[p + 5] = 5 /\ out[p + 6] = 3 /\ out[p + 7] = 3
  \/ u # 4 /\ next = p + 1 /\ p <= Len(out) /\ out[p] = u

\* The code unit two digits spell.
LEMMA QuadsRead ==
  ASSUME NEW raw \in Seq(Int), NEW i \in Nat \ {0}, i + 3 <= Len(raw),
         raw[i] = 4, raw[i + 1] = 5, raw[i + 2] \in 0..3, raw[i + 3] \in 0..3
  PROVE  QuadIn(raw, i) = 4 * raw[i + 2] + raw[i + 3]
<1>1. QuadIn(raw, i) = Shown!Spelled(SubSeq(raw, i + 2, i + 3))
  BY DEF QuadIn
<1>2. i + 1 + 2 = i + 3
  OBVIOUS
<1>3. Shown!Spelled(SubSeq(raw, i + 2, i + 1 + 2)) = 4 * raw[i + 2] + raw[i + 3]
  BY EscapedDigits
<1> QED
  BY <1>1, <1>2, <1>3

\* A reported rune reads back to the rune.
LEMMA ReadsReportedRune ==
  ASSUME NEW u \in Int, NEW out \in Seq(Int), NEW p \in Nat \ {0}, NEW f, NEW next,
         ReportedAs(u, out, p, next)
  PROVE  p \in 1..Len(out) /\ UnmarshalFrom(out, f, p) = <<u>> \o f[next]
<1>1. Len(out) \in Nat
  BY LenProperties
<1>2. CASE u = 4 /\ next = p + 2 /\ p + 1 <= Len(out) /\ out[p] = 4 /\ out[p + 1] = 4
  <2>1. p \in 1..Len(out) /\ ~(p > Len(out))
    BY <1>1, <1>2
  <2>2. QuadIn(out, p) = -1
    BY <1>2 DEF QuadIn
  <2>3. UnmarshalFrom(out, f, p) = <<out[p + 1]>> \o f[p + 2]
    <3>1. out[p] = 4 /\ out[p + 1] # 12
      BY <1>2
    <3> QED
      BY <2>1, <2>2, <3>1 DEF UnmarshalFrom
  <2> QED
    BY <1>2, <2>1, <2>3
<1>3. CASE u = 8 /\ next = p + 2 /\ p + 1 <= Len(out) /\ out[p] = 4 /\ out[p + 1] = 12
  <2>1. p \in 1..Len(out) /\ ~(p > Len(out))
    BY <1>1, <1>3
  <2>2. UnmarshalFrom(out, f, p) = <<8>> \o f[p + 2]
    BY <1>3, <2>1 DEF UnmarshalFrom
  <2> QED
    BY <1>3, <2>1, <2>2
<1>4. CASE /\ u = 9 \/ u = 10
           /\ next = p + 4 /\ p + 3 <= Len(out)
           /\ out[p] = 4 /\ out[p + 1] = 5 /\ out[p + 2] = 2 /\ out[p + 3] = u - 8
  <2>1. p \in 1..Len(out) /\ ~(p > Len(out)) /\ out[p + 2] \in 0..3 /\ out[p + 3] \in 0..3
    <3>0. p + 3 <= Len(out)
      BY <1>4
    <3>1. p \in 1..Len(out) /\ ~(p > Len(out))
      BY <1>1, <3>0
    <3>2. u - 8 \in 0..3 /\ 2 \in 0..3
      BY <1>4
    <3> QED
      BY <1>4, <3>1, <3>2
  <2>2. QuadIn(out, p) = u
    <3>1. QuadIn(out, p) = 4 * out[p + 2] + out[p + 3]
      BY <1>4, <2>1, QuadsRead
    <3>2. out[p + 2] = 2 /\ out[p + 3] = u - 8 /\ 4 * 2 + (u - 8) = u
      BY <1>4
    <3> QED
      BY <3>1, <3>2
  <2>3. UnmarshalFrom(out, f, p) = <<u>> \o f[p + 4]
    <3>1. u # -1 /\ u # 13 /\ u \notin 14..15
      BY <1>4
    <3>2. out[p] = 4 /\ out[p + 1] # 12
      BY <1>4
    <3> QED
      BY <2>1, <2>2, <3>1, <3>2 DEF UnmarshalFrom
  <2> QED
    BY <1>4, <2>1, <2>3
<1>5. CASE u = 17 /\ next = p + 8 /\ p + 7 <= Len(out)
             /\ out[p] = 4 /\ out[p + 1] = 5 /\ out[p + 2] = 3 /\ out[p + 3] = 1
             /\ out[p + 4] = 4 /\ out[p + 5] = 5 /\ out[p + 6] = 3 /\ out[p + 7] = 3
  <2>1. p \in 1..Len(out) /\ ~(p > Len(out)) /\ p + 3 <= Len(out)
    <3>1. p + 7 <= Len(out)
      BY <1>5
    <3> QED
      BY <1>1, <3>1
  <2>2. QuadIn(out, p) = 13
    <3>1. out[p + 2] \in 0..3 /\ out[p + 3] \in 0..3
      BY <1>5
    <3>2. QuadIn(out, p) = 4 * out[p + 2] + out[p + 3]
      BY <1>5, <2>1, <3>1, QuadsRead
    <3> QED
      BY <1>5, <3>2
  <2>3. QuadIn(out, p + 4) = 15
    <3> DEFINE q == p + 4
    <3>1. q \in Nat \ {0} /\ q + 3 = p + 7 /\ q + 1 = p + 5 /\ q + 2 = p + 6
      OBVIOUS
    <3> HIDE DEF q
    <3>2. out[q] = 4 /\ out[q + 1] = 5 /\ out[q + 2] = 3 /\ out[q + 3] = 3 /\ q + 3 <= Len(out)
      BY <1>5, <3>1 DEF q
    <3>3. out[q + 2] \in 0..3 /\ out[q + 3] \in 0..3
      BY <3>2
    <3>4. QuadIn(out, q) = 4 * out[q + 2] + out[q + 3]
      BY <3>1, <3>2, <3>3, QuadsRead
    <3>5. QuadIn(out, q) = 15
      BY <3>2, <3>4
    <3> QED
      BY <3>5 DEF q
  <2>4. UnmarshalFrom(out, f, p) = <<16 + (15 - 14)>> \o f[p + 8]
    <3>1. 13 # -1 /\ 15 \in 14..15 /\ out[p + 1] # 12
      BY <1>5
    <3> QED
      BY <1>5, <2>1, <2>2, <2>3, <3>1 DEF UnmarshalFrom
  <2>5. 16 + (15 - 14) = 17
    OBVIOUS
  <2> QED
    BY <1>5, <2>1, <2>4, <2>5
<1>6. CASE u # 4 /\ next = p + 1 /\ p <= Len(out) /\ out[p] = u
  <2>1. p \in 1..Len(out) /\ ~(p > Len(out))
    BY <1>1, <1>6
  <2>2. UnmarshalFrom(out, f, p) = <<u>> \o f[p + 1]
    BY <1>6, <2>1 DEF UnmarshalFrom
  <2> QED
    BY <1>6, <2>1, <2>2
<1> QED
  BY <1>2, <1>3, <1>4, <1>5, <1>6 DEF ReportedAs

\* The characters that may be shown.
Harmless == {r \in Shown!Rune : ~Shown!IsControl(r)}

\* What is harmless can be shown, and what can be shown is a number.
LEMMA HarmlessUnits ==
  /\ \A r \in 0..7 : r \in Harmless
  /\ \A r \in 0..12 : r \in Shown!Rune
  /\ Harmless \subseteq Shown!Rune /\ Shown!Rune \subseteq Int
<1>1. \A r \in 0..7 : r \in Shown!Rune /\ ~Shown!IsControl(r)
  BY DEF Shown!Rune, Shown!IsControl, Shown!Newline, Shown!Escape, Shown!C1Control
<1>2. Shown!Rune \subseteq Int
  BY DEF Shown!Rune, Shown!Astral
<1>3. \A r \in 0..12 : r \in Shown!Rune
  BY DEF Shown!Rune
<1> QED
  BY <1>1, <1>2, <1>3 DEF Harmless

\* The digits of an escape are harmless.
LEMMA DigitsAreHarmless ==
  ASSUME NEW r \in 0..15
  PROVE  r \div 4 \in 0..7 /\ r % 4 \in 0..7
OBVIOUS

\* Nothing printable writes is a control character.
LEMMA PrintedIsHarmless ==
  ASSUME NEW u \in Shown!Rune \cup Shown!Byte
  PROVE  Shown!PrintableUnit(u) \in Seq(Harmless)
<1> DEFINE s == Shown!PrintableUnit(u)
<1>1. s \in Seq(Int) /\ PrintedAs(u, s)
  BY PrintedUnits
<1> HIDE DEF s
<1>2. \A i \in 1..Len(s) : s[i] \in Harmless
  <2>1. CASE u = 4 /\ Len(s) = 2 /\ s[1] = 4 /\ s[2] = 4
    <3>1. \A i \in 1..2 : s[i] \in 0..7
      BY <2>1
    <3> QED
      BY <2>1, <3>1, HarmlessUnits
  <2>2. CASE u \in -4..-1 /\ Len(s) = 3 /\ s[1] = 4 /\ s[2] = 7 /\ s[3] = -u - 1
    <3>1. \A i \in 1..3 : s[i] \in 0..7
      <4>1. -u - 1 \in 0..7
        BY <2>2
      <4> QED
        BY <2>2, <4>1
    <3> QED
      BY <2>2, <3>1, HarmlessUnits
  <2>3. CASE u \in 8..10 /\ Len(s) = 4 /\ s[1] = 4 /\ s[2] = 5 /\ s[3] = u \div 4 /\ s[4] = u % 4
    <3> DEFINE a == u \div 4
               b == u % 4
    <3>1. a \in 0..7 /\ b \in 0..7
      <4>1. u \in 0..15
        BY <2>3
      <4> QED
        BY <4>1, DigitsAreHarmless
    <3> HIDE DEF a, b
    <3>2. s[1] = 4 /\ s[2] = 5 /\ s[3] = a /\ s[4] = b
      BY <2>3 DEF a, b
    <3>3. \A i \in 1..4 : s[i] \in 0..7
      BY <3>1, <3>2
    <3> QED
      BY <2>3, <3>3, HarmlessUnits
  <2>4. CASE u = 17 /\ Len(s) = 6 /\ s[1] = 4 /\ s[2] = 6
               /\ s[3] = 0 /\ s[4] = 1 /\ s[5] = 0 /\ s[6] = 1
    <3>1. \A i \in 1..6 : s[i] \in 0..7
      BY <2>4
    <3> QED
      BY <2>4, <3>1, HarmlessUnits
  <2>5. CASE u # 4 /\ u \notin -4..-1 /\ u \notin 8..10 /\ u # 17 /\ Len(s) = 1 /\ s[1] = u
    <3>1. u \in Harmless
      <4>1. u # 8 /\ u # 9 /\ u # 10 /\ u # 17 /\ u # -4 /\ u # -3 /\ u # -2 /\ u # -1
        BY <2>5
      <4> QED
        BY <4>1, ShownUnits DEF Harmless
    <3> QED
      BY <2>5, <3>1
  <2> QED
    BY <1>1, <2>1, <2>2, <2>3, <2>4, <2>5 DEF PrintedAs
<1>3. s \in Seq(Harmless)
  BY <1>1, <1>2, Narrowed
<1> QED
  BY <1>3 DEF s

\* Nor is anything escapeDisplay writes.
LEMMA DisplayedIsHarmless ==
  ASSUME NEW r \in Shown!Rune
  PROVE  Shown!DisplayUnit(r) \in Seq(Harmless)
<1> DEFINE s == Shown!DisplayUnit(r)
<1>1. s \in Seq(Int) /\ DisplayedAs(r, s)
  BY DisplayedUnits
<1> HIDE DEF s
<1>2. \A i \in 1..Len(s) : s[i] \in Harmless
  <2>1. CASE /\ r = 8 \/ r = 9 \/ r = 10
             /\ Len(s) = 4 /\ s[1] = 4 /\ s[2] = 5 /\ s[3] = r \div 4 /\ s[4] = r % 4
    <3> DEFINE a == r \div 4
               b == r % 4
    <3>1. a \in 0..7 /\ b \in 0..7
      <4>1. r \in 0..15
        BY <2>1
      <4> QED
        BY <4>1, DigitsAreHarmless
    <3> HIDE DEF a, b
    <3>2. s[1] = 4 /\ s[2] = 5 /\ s[3] = a /\ s[4] = b
      BY <2>1 DEF a, b
    <3>3. \A i \in 1..4 : s[i] \in 0..7
      BY <3>1, <3>2
    <3> QED
      BY <2>1, <3>3, HarmlessUnits
  <2>2. CASE r = 17 /\ Len(s) = 8 /\ s[1] = 4 /\ s[2] = 5 /\ s[3] = 3 /\ s[4] = 1
               /\ s[5] = 4 /\ s[6] = 5 /\ s[7] = 3 /\ s[8] = 3
    <3>1. \A i \in 1..8 : s[i] \in 0..7
      BY <2>2
    <3> QED
      BY <2>2, <3>1, HarmlessUnits
  <2>3. CASE ~Shown!IsControl(r) /\ Len(s) = 1 /\ s[1] = r
    BY <2>3 DEF Harmless
  <2> QED
    BY <1>1, <2>1, <2>2, <2>3 DEF DisplayedAs
<1>3. s \in Seq(Harmless)
  BY <1>1, <1>2, Narrowed
<1> QED
  BY <1>3 DEF s

\* The JSON encoder writes Unicode.
LEMMA MarshaledIsClean ==
  ASSUME NEW u \in Shown!Rune \cup Shown!Byte
  PROVE  Shown!MarshalUnit(u) \in Seq(Shown!Rune)
<1> DEFINE s == Shown!MarshalUnit(u)
<1>1. s \in Seq(Int) /\ MarshaledAs(u, s)
  BY MarshaledUnits
<1> HIDE DEF s
<1>2. \A i \in 1..Len(s) : s[i] \in Shown!Rune
  <2>1. CASE Len(s) = 2 /\ s[1] = 4 /\ (s[2] = 4 \/ s[2] = 12)
    <3>1. \A i \in 1..2 : s[i] \in 0..12
      BY <2>1
    <3> QED
      BY <2>1, <3>1, HarmlessUnits
  <2>2. CASE Len(s) = 4 /\ s[1] = 4 /\ s[2] = 5 /\ s[3] = 2 /\ (s[4] = 1 \/ s[4] = 3)
    <3>1. \A i \in 1..4 : s[i] \in 0..12
      BY <2>2
    <3> QED
      BY <2>2, <3>1, HarmlessUnits
  <2>3. CASE u \in Shown!Rune \ {4, 8, 9} /\ Len(s) = 1 /\ s[1] = u
    BY <2>3
  <2> QED
    BY <1>1, <2>1, <2>2, <2>3 DEF MarshaledAs
<1>3. s \in Seq(Shown!Rune)
  BY <1>1, <1>2, Narrowed
<1> QED
  BY <1>3 DEF s

\* And so for whole texts.
LEMMA TextsAreClean ==
  /\ \A text \in Seq(Shown!Rune \cup Shown!Byte) :
       Shown!Printable(text) \in Seq(Harmless) /\ Shown!Marshal(text) \in Seq(Shown!Rune)
  /\ \A raw \in Seq(Shown!Rune) : Shown!EscapeDisplay(raw) \in Seq(Harmless)
<1>1. ASSUME NEW text \in Seq(Shown!Rune \cup Shown!Byte)
      PROVE  Shown!Printable(text) \in Seq(Harmless)
  <2> DEFINE s == [i \in 1..Len(text) |-> Shown!PrintableUnit(text[i])]
  <2>1. Len(text) \in Nat /\ \A i \in 1..Len(text) : text[i] \in Shown!Rune \cup Shown!Byte
    BY LenProperties, ElementOfSeq
  <2>2. s \in [1..Len(text) -> Seq(Harmless)]
    BY <2>1, PrintedIsHarmless
  <2>3. Shown!Printable(text) = FlattenSeq(s)
    BY DEF Shown!Printable, Shown!Each, Shown!FlattenSeq, FlattenSeq
  <2> HIDE DEF s
  <2>4. s \in Seq(Seq(Harmless))
    BY <2>1, <2>2, Tabulated
  <2> QED
    BY <2>3, <2>4, FlattenIsLaid
<1>2. ASSUME NEW text \in Seq(Shown!Rune \cup Shown!Byte)
      PROVE  Shown!Marshal(text) \in Seq(Shown!Rune)
  <2> DEFINE s == [i \in 1..Len(text) |-> Shown!MarshalUnit(text[i])]
  <2>1. Len(text) \in Nat /\ \A i \in 1..Len(text) : text[i] \in Shown!Rune \cup Shown!Byte
    BY LenProperties, ElementOfSeq
  <2>2. s \in [1..Len(text) -> Seq(Shown!Rune)]
    BY <2>1, MarshaledIsClean
  <2>3. Shown!Marshal(text) = FlattenSeq(s)
    BY DEF Shown!Marshal, Shown!Each, Shown!FlattenSeq, FlattenSeq
  <2> HIDE DEF s
  <2>4. s \in Seq(Seq(Shown!Rune))
    BY <2>1, <2>2, Tabulated
  <2> QED
    BY <2>3, <2>4, FlattenIsLaid
<1>3. ASSUME NEW raw \in Seq(Shown!Rune)
      PROVE  Shown!EscapeDisplay(raw) \in Seq(Harmless)
  <2> DEFINE s == [i \in 1..Len(raw) |-> Shown!DisplayUnit(raw[i])]
  <2>1. Len(raw) \in Nat /\ \A i \in 1..Len(raw) : raw[i] \in Shown!Rune
    BY LenProperties, ElementOfSeq
  <2>2. s \in [1..Len(raw) -> Seq(Harmless)]
    BY <2>1, DisplayedIsHarmless
  <2>3. Shown!EscapeDisplay(raw) = FlattenSeq(s)
    BY DEF Shown!EscapeDisplay, Shown!Each, Shown!FlattenSeq, FlattenSeq
  <2> HIDE DEF s
  <2>4. s \in Seq(Seq(Harmless))
    BY <2>1, <2>2, Tabulated
  <2> QED
    BY <2>3, <2>4, FlattenIsLaid
<1> QED
  BY <1>1, <1>2, <1>3

\* Where the units of a text stand once it is written, each by a unit of its own.
StandsAt(t, out, p, next) ==
  /\ p \in Nat \ {0} /\ next = p + Len(t)
  /\ \A j \in 1..Len(t) : p + j - 1 \in 1..Len(out) /\ out[p + j - 1] = t[j]

\* What is laid at a place stands there, unit by unit.
LEMMA UnitsStand ==
  ASSUME NEW s \in Seq(Seq(Int)), NEW out, NEW place, Laid(s, out, place), NEW k \in 1..Len(s)
  PROVE  StandsAt(s[k], out, place[k], place[k + 1])
<1>1. Len(s) \in Nat
  BY LenProperties
<1>2. k \in 1..(Len(s) + 1)
  BY <1>1
<1> QED
  BY <1>2 DEF Laid, StandsAt

\* s is what escapeDisplay writes for raw, rune by rune.
DisplayedEach(raw, s) ==
  Len(s) = Len(raw) /\ \A j \in 1..Len(raw) : DisplayedAs(raw[j], s[j])

\* What is written for a rune stands at p of out, and what follows it at next.
ShownAt(r, out, p, next) ==
  /\ ~Shown!IsControl(r) => p \in 1..Len(out) /\ out[p] = r /\ next = p + 1
  /\ r = 10 \/ r = 17 => ReportedAs(r, out, p, next)

\* A character that is no control character stands in the report as it is, and the two
\* that the JSON encoder leaves alone as the escapes of their code units.
LEMMA DisplayedStands ==
  ASSUME NEW raw \in Seq(Shown!Rune), NEW out, NEW place, NEW s \in Seq(Seq(Int)),
         DisplayedEach(raw, s), Laid(s, out, place), NEW j \in 1..Len(raw)
  PROVE  ShownAt(raw[j], out, place[j], place[j + 1])
<1> DEFINE p == place[j]
           t == s[j]
           r == raw[j]
<1>1. /\ p \in Nat \ {0} /\ place[j + 1] = p + Len(t)
      /\ \A i \in 1..Len(t) : p + i - 1 \in 1..Len(out) /\ out[p + i - 1] = t[i]
  <2>1. j \in 1..Len(s)
    BY DEF DisplayedEach
  <2>2. StandsAt(s[j], out, place[j], place[j + 1])
    BY <2>1, UnitsStand
  <2> QED
    BY <2>2 DEF StandsAt
<1>2. DisplayedAs(r, t) /\ r \in Shown!Rune
  BY ElementOfSeq DEF DisplayedEach
<1> HIDE DEF p, t, r
<1>3. r \in Int /\ (Shown!IsControl(r) <=> (r = 8 \/ r = 9 \/ r = 10 \/ r = 17))
  BY <1>2, ShownUnits
<1>4. ASSUME ~Shown!IsControl(r)
      PROVE  p \in 1..Len(out) /\ out[p] = r /\ place[j + 1] = p + 1
  <2>1. Len(t) = 1 /\ t[1] = r
    BY <1>2, <1>3, <1>4 DEF DisplayedAs
  <2>2. 1 \in 1..1 /\ p + 1 - 1 = p
    BY <1>1
  <2> QED
    BY <1>1, <2>1, <2>2
<1>5. ASSUME r = 10 PROVE ReportedAs(r, out, p, place[j + 1])
  <2>1. Len(t) = 4 /\ t[1] = 4 /\ t[2] = 5 /\ t[3] = 10 \div 4 /\ t[4] = 10 % 4
    BY <1>2, <1>3, <1>5 DEF DisplayedAs
  <2>2. t[3] = 2 /\ t[4] = 2
    BY <2>1, SomeQuotients
  <2>3. /\ 1 \in 1..4 /\ 2 \in 1..4 /\ 3 \in 1..4 /\ 4 \in 1..4
        /\ p + 1 - 1 = p /\ p + 2 - 1 = p + 1 /\ p + 3 - 1 = p + 2 /\ p + 4 - 1 = p + 3
    BY <1>1
  <2>4. /\ out[p] = t[1] /\ out[p + 1] = t[2] /\ out[p + 2] = t[3] /\ out[p + 3] = t[4]
        /\ p + 3 \in 1..Len(out) /\ place[j + 1] = p + 4
    BY <1>1, <2>1, <2>3
  <2>5. p + 3 <= Len(out)
    BY <2>4
  <2> QED
    BY <1>5, <2>1, <2>2, <2>4, <2>5 DEF ReportedAs
<1>6. ASSUME r = 17 PROVE ReportedAs(r, out, p, place[j + 1])
  <2>1. /\ Len(t) = 8 /\ t[1] = 4 /\ t[2] = 5 /\ t[3] = 3 /\ t[4] = 1
        /\ t[5] = 4 /\ t[6] = 5 /\ t[7] = 3 /\ t[8] = 3
    BY <1>2, <1>3, <1>6 DEF DisplayedAs
  <2>3. /\ 1 \in 1..8 /\ 2 \in 1..8 /\ 3 \in 1..8 /\ 4 \in 1..8
        /\ 5 \in 1..8 /\ 6 \in 1..8 /\ 7 \in 1..8 /\ 8 \in 1..8
        /\ p + 1 - 1 = p /\ p + 2 - 1 = p + 1 /\ p + 3 - 1 = p + 2 /\ p + 4 - 1 = p + 3
        /\ p + 5 - 1 = p + 4 /\ p + 6 - 1 = p + 5 /\ p + 7 - 1 = p + 6 /\ p + 8 - 1 = p + 7
    BY <1>1
  <2>4. /\ out[p] = t[1] /\ out[p + 1] = t[2] /\ out[p + 2] = t[3] /\ out[p + 3] = t[4]
        /\ out[p + 4] = t[5] /\ out[p + 5] = t[6] /\ out[p + 6] = t[7] /\ out[p + 7] = t[8]
        /\ p + 7 \in 1..Len(out) /\ place[j + 1] = p + 8
    BY <1>1, <2>1, <2>3
  <2>5. p + 7 <= Len(out)
    BY <2>4
  <2> QED
    BY <1>6, <2>1, <2>4, <2>5 DEF ReportedAs
<1> QED
  BY <1>4, <1>5, <1>6 DEF p, r, ShownAt

\* A text in a --json report, rune by rune.
LEMMA ReportIsLaid ==
  ASSUME NEW text \in Seq(Shown!Rune)
  PROVE  LET out == Shown!EscapeDisplay(Shown!Marshal(text))
         IN /\ out \in Seq(Int)
            /\ \E place : /\ place[1] = 1 /\ place[Len(text) + 1] = Len(out) + 1
                          /\ \A k \in 1..Len(text) :
                               /\ place[k] \in Nat \ {0}
                               /\ ReportedAs(text[k], out, place[k], place[k + 1])
<1> DEFINE n == Len(text)
           raw == Shown!Marshal(text)
           m == Len(raw)
           out == Shown!EscapeDisplay(raw)
           s1 == [i \in 1..n |-> Shown!MarshalUnit(text[i])]
           s2 == [i \in 1..m |-> Shown!DisplayUnit(raw[i])]
<1>1. n \in Nat /\ \A k \in 1..n : text[k] \in Shown!Rune /\ text[k] \in Shown!Rune \cup Shown!Byte
  BY LenProperties, ElementOfSeq
<1>2. s1 \in [1..n -> Seq(Int)] /\ \A k \in 1..n : MarshaledAs(text[k], s1[k])
  BY <1>1, MarshaledUnits
<1>3. raw = FlattenSeq(s1) /\ out = FlattenSeq(s2)
  BY DEF Shown!Marshal, Shown!EscapeDisplay, Shown!Each, Shown!FlattenSeq, FlattenSeq
<1>4. raw \in Seq(Shown!Rune)
  <2>1. text \in Seq(Shown!Rune \cup Shown!Byte)
    BY <1>1, Narrowed
  <2> QED
    BY <2>1, TextsAreClean
<1> HIDE DEF raw, out
<1>5. m \in Nat /\ \A j \in 1..m : raw[j] \in Shown!Rune
  BY <1>4, LenProperties, ElementOfSeq
<1>6. s2 \in [1..m -> Seq(Int)] /\ \A j \in 1..m : DisplayedAs(raw[j], s2[j])
  BY <1>5, DisplayedUnits
<1> HIDE DEF s1, s2
<1>7. s1 \in Seq(Seq(Int)) /\ Len(s1) = n /\ s2 \in Seq(Seq(Int)) /\ Len(s2) = m
  BY <1>1, <1>2, <1>5, <1>6, Tabulated
<1>8. PICK at : Laid(s1, raw, at)
  BY <1>3, <1>7, FlattenIsLaid
<1>9. PICK where : Laid(s2, out, where)
  BY <1>3, <1>7, FlattenIsLaid
<1>10. out \in Seq(Int)
  BY <1>3, <1>7, FlattenIsLaid
<1> DEFINE place == [k \in 1..(n + 1) |-> where[at[k]]]
<1>11. at[1] = 1 /\ at[n + 1] = m + 1 /\ where[1] = 1 /\ where[m + 1] = Len(out) + 1
  BY <1>7, <1>8, <1>9 DEF Laid
<1>12. ASSUME NEW j \in 1..m
       PROVE  /\ where[j] \in Nat \ {0}
              /\ ~Shown!IsControl(raw[j]) =>
                   /\ where[j] \in 1..Len(out) /\ out[where[j]] = raw[j]
                   /\ where[j + 1] = where[j] + 1
              /\ (raw[j] = 10 \/ raw[j] = 17) =>
                   ReportedAs(raw[j], out, where[j], where[j + 1])
  <2>0. j \in 1..Len(s2)
    BY <1>7
  <2>1. where[j] \in Nat \ {0}
    <3>1. StandsAt(s2[j], out, where[j], where[j + 1])
      BY <1>7, <1>9, <2>0, UnitsStand
    <3> QED
      BY <3>1 DEF StandsAt
  <2>2. DisplayedEach(raw, s2)
    BY <1>6, <1>7 DEF DisplayedEach
  <2> QED
    <3>1. j \in 1..Len(raw)
      OBVIOUS
    <3> HIDE DEF m
    <3>2. ShownAt(raw[j], out, where[j], where[j + 1])
      BY <1>4, <1>7, <1>9, <2>2, <3>1, DisplayedStands
    <3> QED
      BY <2>1, <3>2 DEF ShownAt
<1>13. ASSUME NEW k \in 1..n
       PROVE  where[at[k]] \in Nat \ {0} /\ ReportedAs(text[k], out, where[at[k]], where[at[k + 1]])
  <2> DEFINE u == text[k]
             t == s1[k]
             j == at[k]
             q == where[j]
  <2>1. /\ j \in Nat \ {0} /\ at[k + 1] = j + Len(t)
        /\ \A i \in 1..Len(t) : j + i - 1 \in 1..m /\ raw[j + i - 1] = t[i]
    <3>1. k \in 1..Len(s1)
      BY <1>7
    <3>2. StandsAt(s1[k], raw, at[k], at[k + 1])
      BY <1>7, <1>8, <3>1, UnitsStand
    <3> QED
      BY <3>2 DEF StandsAt
  <2>2. MarshaledAs(u, t) /\ u \in Shown!Rune
    BY <1>1, <1>2
  <2> HIDE DEF u, t, j
  <2>3. u \in Int /\ (Shown!IsControl(u) <=> (u = 8 \/ u = 9 \/ u = 10 \/ u = 17))
    BY <2>2, ShownUnits
  <2>4. \A r \in 0..7 : ~Shown!IsControl(r)
    BY HarmlessUnits DEF Harmless
  <2>5. ~Shown!IsControl(12)
    BY DEF Shown!IsControl, Shown!Newline, Shown!Escape, Shown!C1Control
  <2>6. CASE Len(t) = 2 /\ t[1] = 4 /\ ((u = 4 /\ t[2] = 4) \/ (u = 8 /\ t[2] = 12))
    <3>1. 1 \in 1..2 /\ 2 \in 1..2 /\ j + 1 - 1 = j /\ j + 2 - 1 = j + 1 /\ j + 1 + 1 = j + 2
      BY <2>1
    <3>2. j \in 1..m /\ raw[j] = 4 /\ j + 1 \in 1..m /\ raw[j + 1] = t[2] /\ at[k + 1] = j + 2
      BY <2>1, <2>6, <3>1
    <3>3. ~Shown!IsControl(raw[j]) /\ ~Shown!IsControl(raw[j + 1])
      <4>1. 4 \in 0..7
        OBVIOUS
      <4> QED
        BY <2>4, <2>5, <2>6, <3>2, <4>1
    <3>4. /\ q \in Nat \ {0} /\ out[q] = 4 /\ where[j + 1] = q + 1
          /\ where[j + 1] \in 1..Len(out) /\ out[where[j + 1]] = t[2]
          /\ where[j + 1 + 1] = where[j + 1] + 1
      BY <1>12, <3>2, <3>3
    <3> HIDE DEF q
    <3>5. q + 1 <= Len(out) /\ out[q + 1] = t[2] /\ where[at[k + 1]] = q + 2
      BY <3>1, <3>2, <3>4
    <3>6. ReportedAs(u, out, q, where[at[k + 1]])
      BY <2>6, <3>4, <3>5 DEF ReportedAs
    <3> QED
      BY <3>4, <3>6 DEF q, u, j
  <2>7. CASE u = 9 /\ Len(t) = 4 /\ t[1] = 4 /\ t[2] = 5 /\ t[3] = 2 /\ t[4] = 1
    <3>1. /\ 1 \in 1..4 /\ 2 \in 1..4 /\ 3 \in 1..4 /\ 4 \in 1..4
          /\ j + 1 - 1 = j /\ j + 2 - 1 = j + 1 /\ j + 3 - 1 = j + 2 /\ j + 4 - 1 = j + 3
          /\ j + 1 + 1 = j + 2 /\ j + 2 + 1 = j + 3 /\ j + 3 + 1 = j + 4
      BY <2>1
    <3>2. /\ j \in 1..m /\ j + 1 \in 1..m /\ j + 2 \in 1..m /\ j + 3 \in 1..m
          /\ raw[j] = 4 /\ raw[j + 1] = 5 /\ raw[j + 2] = 2 /\ raw[j + 3] = 1 /\ at[k + 1] = j + 4
      BY <2>1, <2>7, <3>1
    <3>3. /\ ~Shown!IsControl(raw[j]) /\ ~Shown!IsControl(raw[j + 1])
          /\ ~Shown!IsControl(raw[j + 2]) /\ ~Shown!IsControl(raw[j + 3])
      <4>1. 4 \in 0..7 /\ 5 \in 0..7 /\ 2 \in 0..7 /\ 1 \in 0..7
        OBVIOUS
      <4> QED
        BY <2>4, <3>2, <4>1
    <3>4. q \in Nat \ {0} /\ out[q] = 4 /\ where[j + 1] = q + 1
      BY <1>12, <3>2, <3>3
    <3>5. out[where[j + 1]] = 5 /\ where[j + 2] = where[j + 1] + 1
      BY <1>12, <3>1, <3>2, <3>3
    <3>6. out[where[j + 2]] = 2 /\ where[j + 3] = where[j + 2] + 1
      BY <1>12, <3>1, <3>2, <3>3
    <3>7. /\ out[where[j + 3]] = 1 /\ where[j + 4] = where[j + 3] + 1
          /\ where[j + 3] \in 1..Len(out)
      BY <1>12, <3>1, <3>2, <3>3
    <3> HIDE DEF q
    <3>8. where[j + 2] = q + 2 /\ where[j + 3] = q + 3 /\ where[at[k + 1]] = q + 4
      BY <3>2, <3>4, <3>5, <3>6, <3>7
    <3>9. /\ q + 3 <= Len(out) /\ out[q + 1] = 5 /\ out[q + 2] = 2 /\ out[q + 3] = u - 8
      <4>1. u - 8 = 1
        BY <2>7
      <4> QED
        BY <3>4, <3>5, <3>6, <3>7, <3>8, <4>1
    <3>10. ReportedAs(u, out, q, where[at[k + 1]])
      BY <2>7, <3>4, <3>8, <3>9 DEF ReportedAs
    <3> QED
      BY <3>4, <3>10 DEF q, u, j
  <2>8. CASE u \in Shown!Rune \ {4, 8, 9} /\ Len(t) = 1 /\ t[1] = u
    <3>1. 1 \in 1..1 /\ j + 1 - 1 = j
      BY <2>1
    <3>2. j \in 1..m /\ raw[j] = u /\ at[k + 1] = j + 1
      BY <2>1, <2>8, <3>1
    <3>3. q \in Nat \ {0}
      BY <1>12, <3>2
    <3>4. CASE u = 10 \/ u = 17
      <4>1. ReportedAs(u, out, q, where[at[k + 1]])
        BY <1>12, <3>2, <3>4
      <4> QED
        BY <3>3, <4>1 DEF u, j
    <3>5. CASE ~(u = 10 \/ u = 17)
      <4>1. q \in 1..Len(out) /\ out[q] = u /\ where[j + 1] = q + 1
        BY <1>12, <2>3, <2>8, <3>2, <3>5
      <4> HIDE DEF q
      <4>2. ReportedAs(u, out, q, where[at[k + 1]])
        BY <2>8, <3>2, <4>1 DEF ReportedAs
      <4> QED
        BY <3>3, <4>2 DEF q, u, j
    <3> QED
      BY <3>4, <3>5
  <2>9. \/ Len(t) = 2 /\ t[1] = 4 /\ ((u = 4 /\ t[2] = 4) \/ (u = 8 /\ t[2] = 12))
        \/ u = 9 /\ Len(t) = 4 /\ t[1] = 4 /\ t[2] = 5 /\ t[3] = 2 /\ t[4] = 1
        \/ u \in Shown!Rune \ {4, 8, 9} /\ Len(t) = 1 /\ t[1] = u
    <3> DEFINE a == Len(t)
               b == t[1]
               c == t[2]
               d == t[3]
               e == t[4]
    <3>1. \/ u = 4 /\ a = 2 /\ b = 4 /\ c = 4
          \/ u = 8 /\ a = 2 /\ b = 4 /\ c = 12
          \/ u = 9 /\ a = 4 /\ b = 4 /\ c = 5 /\ d = 2 /\ e = 1
          \/ u \in Shown!Rune \ {4, 8, 9} /\ a = 1 /\ b = u
      BY <2>2 DEF MarshaledAs
    <3> HIDE DEF a, b, c, d, e
    <3>2. \/ a = 2 /\ b = 4 /\ ((u = 4 /\ c = 4) \/ (u = 8 /\ c = 12))
          \/ u = 9 /\ a = 4 /\ b = 4 /\ c = 5 /\ d = 2 /\ e = 1
          \/ u \in Shown!Rune \ {4, 8, 9} /\ a = 1 /\ b = u
      BY <3>1
    <3> QED
      BY <3>2 DEF a, b, c, d, e
  <2> QED
    BY <2>6, <2>7, <2>8, <2>9
<1>14. place[1] = 1 /\ place[n + 1] = Len(out) + 1
  <2>1. 1 \in 1..(n + 1) /\ n + 1 \in 1..(n + 1)
    BY <1>1
  <2> QED
    BY <1>11, <2>1
<1>15. ASSUME NEW k \in 1..n
       PROVE  place[k] \in Nat \ {0} /\ ReportedAs(text[k], out, place[k], place[k + 1])
  <2>1. k \in 1..(n + 1) /\ k + 1 \in 1..(n + 1)
    BY <1>1
  <2>2. place[k] = where[at[k]] /\ place[k + 1] = where[at[k + 1]]
    BY <2>1
  <2> HIDE DEF place
  <2> QED
    BY <1>13, <2>2
<1> HIDE DEF place
<1>16. /\ out \in Seq(Int)
       /\ \E p : /\ p[1] = 1 /\ p[n + 1] = Len(out) + 1
                 /\ \A k \in 1..n : p[k] \in Nat \ {0} /\ ReportedAs(text[k], out, p[k], p[k + 1])
  BY <1>10, <1>14, <1>15
<1> QED
  BY <1>16 DEF out, raw

\* A --json report reads back to the text (main.go escapeDisplay, writeJSONEscape).
THEOREM ReportedReadsBack ==
  ASSUME NEW text \in Seq(Shown!Rune)
  PROVE  Shown!Unmarshal(Shown!EscapeDisplay(Shown!Marshal(text))) = text
<1> DEFINE n == Len(text)
           out == Shown!EscapeDisplay(Shown!Marshal(text))
<1>1. n \in Nat /\ \A k \in 1..n : text[k] \in Int
  BY LenProperties, ElementOfSeq, HarmlessUnits
<1>2. out \in Seq(Int)
  BY ReportIsLaid
<1>3. PICK place : /\ place[1] = 1 /\ place[n + 1] = Len(out) + 1
                   /\ \A k \in 1..n : /\ place[k] \in Nat \ {0}
                                      /\ ReportedAs(text[k], out, place[k], place[k + 1])
  BY ReportIsLaid
<1> HIDE DEF out
<1>4. PICK f : /\ Shown!Unmarshal(out) = f[1]
               /\ \A i \in 1..(Len(out) + 8) : f[i] = UnmarshalFrom(out, f, i)
  BY <1>2, UnmarshalIsFrom
<1>5. Len(out) \in Nat
  BY <1>2, LenProperties
<1>6. f[place[n + 1]] = <<>>
  <2>1. Len(out) + 1 \in 1..(Len(out) + 8) /\ Len(out) + 1 > Len(out)
    BY <1>5
  <2>2. UnmarshalFrom(out, f, Len(out) + 1) = <<>>
    BY <2>1 DEF UnmarshalFrom
  <2> QED
    BY <1>3, <1>4, <2>1, <2>2
<1>7. ASSUME NEW k \in 1..n PROVE f[place[k]] = <<text[k]>> \o f[place[k + 1]]
  <2> DEFINE p == place[k]
             next == place[k + 1]
             u == text[k]
  <2>1. p \in Nat \ {0} /\ ReportedAs(u, out, p, next) /\ u \in Int
    BY <1>1, <1>3
  <2> HIDE DEF p, next, u
  <2>2. p \in 1..Len(out) /\ UnmarshalFrom(out, f, p) = <<u>> \o f[next]
    BY <1>2, <2>1, ReadsReportedRune
  <2>3. f[p] = UnmarshalFrom(out, f, p)
    <3>1. p \in 1..(Len(out) + 8)
      BY <1>5, <2>2
    <3> QED
      BY <1>4, <3>1
  <2> QED
    BY <2>2, <2>3 DEF p, next, u
<1>8. f[place[1]] = text
  BY <1>6, <1>7, ReadsUnitByUnit
<1> QED
  BY <1>3, <1>4, <1>8 DEF out

\* Served text changes nothing around it and can be told from any other, however it is
\* shown (main.go printable, escapeDisplay, writeJSONEscape).
THEOREM ReportReadsBackHolds == Spec => []ReportReadsBack
<1>1. ReadOnce => ReportReadsBack
  <2> SUFFICES ASSUME ReadOnce, reader = "text", done
               PROVE  /\ \A out \in {got.line, got.json, got.scrubbed} :
                           \A i \in 1..Len(out) : out[i] \in Shown!Rune /\ ~Shown!IsControl(out[i])
                      /\ Shown!ReadPrinted(got.line) = given
                      /\ Shown!Clean(given) => Shown!Unmarshal(got.json) = given
                      /\ Shown!ReadPrinted(Shown!Unmarshal(got.scrubbed)) = given
    BY DEF ReportReadsBack
  <2> DEFINE line == Shown!Printable(given)
             json == Shown!EscapeDisplay(Shown!Marshal(given))
             scrubbed == Shown!EscapeDisplay(Shown!Marshal(line))
  <2>1. given \in Seq(Shown!Rune \cup Shown!Byte)
        /\ got = [line |-> line, json |-> json, scrubbed |-> scrubbed]
    BY ServedAssumption DEF ReadOnce
  <2>2. line \in Seq(Harmless)
    BY <2>1, TextsAreClean
  <2>3. line \in Seq(Shown!Rune) /\ line \in Seq(Shown!Rune \cup Shown!Byte)
    <3> HIDE DEF line
    <3>1. \A i \in 1..Len(line) : line[i] \in Shown!Rune /\ line[i] \in Shown!Rune \cup Shown!Byte
      BY <2>2, ElementOfSeq, HarmlessUnits
    <3> QED
      BY <2>2, <3>1, Narrowed
  <2>4. json \in Seq(Harmless) /\ scrubbed \in Seq(Harmless)
    <3> HIDE DEF line
    <3> QED
      BY <2>1, <2>3, TextsAreClean
  <2>5. Shown!ReadPrinted(line) = given
    BY <2>1, PrintedReadsBack
  <2>6. Shown!Clean(given) => Shown!Unmarshal(json) = given
    <3> SUFFICES ASSUME Shown!Clean(given) PROVE Shown!Unmarshal(json) = given
      OBVIOUS
    <3>1. given \in Seq(Shown!Rune)
      BY <2>1, Narrowed DEF Shown!Clean
    <3> QED
      BY <3>1, ReportedReadsBack
  <2>7. Shown!Unmarshal(scrubbed) = line
    <3> HIDE DEF line
    <3> QED
      BY <2>3, ReportedReadsBack
  <2> HIDE DEF line, json, scrubbed
  <2>8. got.line = line /\ got.json = json /\ got.scrubbed = scrubbed
    BY <2>1
  <2>9. ASSUME NEW out \in Seq(Harmless), NEW i \in 1..Len(out)
        PROVE  out[i] \in Shown!Rune /\ ~Shown!IsControl(out[i])
    BY <2>9, ElementOfSeq DEF Harmless
  <2> QED
    BY <2>2, <2>4, <2>5, <2>6, <2>7, <2>8, <2>9
<1> QED
  BY <1>1, ReadOnceHolds, PTL

----------------------------------------------------------------------------------
\* What the command line comes to.

\* A line means one thing, wherever its flags stand (flags.go parseCommandArgs).
THEOREM LiteralStaysPositionalHolds == Spec => []LiteralStaysPositional
<1>1. ReadOnce => LiteralStaysPositional
  <2> SUFFICES ASSUME ReadOnce, reader = "arguments", done PROVE got = Meant(given)
    BY DEF LiteralStaysPositional
  <2>1. given \in Seq(Argument) /\ got = ParseCommandArgs(given)
    BY CommandLineAssumption DEF ReadOnce
  <2> QED
    BY <2>1, LineMeans
<1> QED
  BY <1>1, ReadOnceHolds, PTL

==================================================================================
