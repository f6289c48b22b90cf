--------------------------------- MODULE Inputs ----------------------------------
(***************************************************************************)
(* The readers an invocation puts between itself and what it is given: its *)
(* command line, its events file, a served row, served text on its way     *)
(* back out, and a signed note.  None keeps state, and none depends on     *)
(* another, so a state has one input and what became of it.                *)
(***************************************************************************)
EXTENDS Arguments, EventsFile, LeafObject, Trust

Shown == INSTANCE Display

CONSTANTS CommandLine, File, Row, Served, Invocation   \* the inputs tried

\* What each input is made of.
ASSUME CommandLineAssumption == CommandLine \subseteq Seq(Argument)
ASSUME FileAssumption == File \subseteq Seq(Document)
ASSUME RowAssumption == Row \subseteq ServedRow
ASSUME ServedAssumption == Served \subseteq Seq(Shown!Rune \cup Shown!Byte)
ASSUME InvocationAssumption ==
  Invocation \subseteq [org : Org, flag : KeyString, env : KeyString, from : Source, note : Note]

VARIABLES
  reader,  \* which reader has the input
  given,   \* the input
  done,    \* whether it was read
  got      \* what the reader made of it

vars == <<reader, given, done, got>>

Init ==
  /\ \/ reader = "arguments" /\ given \in CommandLine
     \/ reader = "events file" /\ given \in File
     \/ reader = "row" /\ given \in Row
     \/ reader = "text" /\ given \in Served
     \/ reader = "note" /\ given \in Invocation
  /\ done = FALSE /\ got = <<>>

Makes(of, result) ==
  /\ reader = of /\ ~done
  /\ done' = TRUE /\ got' = result
  /\ UNCHANGED <<reader, given>>

ReadLine == Makes("arguments", ParseCommandArgs(given))
ReadFile == Makes("events file", ReadEvents(given))

\* VerifyEvents and the feed pass: a row is passed over, parsed or failed.
ReadRow ==
  Makes("row", IF IsPassedOver(given) THEN <<"passed over">>
               ELSE IF Parses(given) THEN <<"parsed", Parse(given)>>
               ELSE <<"failed">>)

\* Text in a report (scrub), and text as it is written to the terminal and into a
\* --json report.
Show ==
  Makes("text", [line |-> Shown!Printable(given),
                 json |-> Shown!EscapeDisplay(Shown!Marshal(given)),
                 scrubbed |-> Shown!EscapeDisplay(Shown!Marshal(Shown!Printable(given)))])

ReadNote == Makes("note", Checked(given))

Next == ReadLine \/ ReadFile \/ ReadRow \/ Show \/ ReadNote

Spec == Init /\ [][Next]_vars
----------------------------------------------------------------------------------
\* A line means one thing, wherever its flags stand: what looks like a flag after
\* "--", such as a file name from a glob, sets nothing, no argument is taken twice
\* or lost, and a line with no command is no command (flags.go parseCommandArgs).
LiteralStaysPositional == reader = "arguments" /\ done => got = Meant(given)

\* However events are framed, none drops out before it is judged: a file that is
\* accepted comes to every event in it, once and in order, unless what is handed on
\* has a message the verifier is bound to fail.  And an event's own defects are the
\* verifier's to fail, not the framing's to refuse, while those of the page it starts
\* with are the framing's, and never told as a finding (events.go readEvents).
NothingIsPassedOver ==
  reader = "events file" /\ done =>
    /\ got.ok =>
         \/ \E i \in 1..Len(got.raws) : IsFailed(got.raws[i])
         \/ got.raws = FlattenSeq([i \in 1..Len(given) |-> EventsIn(given[i])])
    /\ Len(given) = 1 /\ given[1].form = "object" /\ Whole(given[1])
         /\ "data" \notin Names(given[1]) => got = Accepted(<<given>>)
    /\ got.ok /\ given[1].form = "object" /\ LooksLikePage(Names(given[1])) =>
         got.raws = EventsIn(given[1])

\* What a parsed row commits is what every other reader of its bytes would read: no
\* second value under a repeated or a differently cased name, and no string that one
\* decoder repairs and another does not.  A row passed over as another product's has
\* for none of them a type a person would take for ours (leaf.go decodeObject,
\* optString, wellFormed, ClaimsOurType).
EveryReaderAgrees ==
  reader = "row" /\ done =>
    /\ got[1] = "parsed" => \A r \in Reader : Reads(r, given) = got[2]
    /\ got[1] = "passed over" =>
         \A r \in Reader : /\ FoundString(r, given, "type")[1] = "is"
                           /\ ~IsNearOurs(FoundString(r, given, "type")[2])

\* Served text is shown so that it changes nothing around it and can be told from any
\* other: no control character is left in it, a line reads back to the very bytes
\* that were served, and a --json report reads back to the text, whether the text
\* was escaped for the report first (ids and reasons) or not (the archived note)
\* (main.go printable, escapeDisplay, writeJSONEscape).
ReportReadsBack ==
  reader = "text" /\ done =>
    /\ \A out \in {got.line, got.json, got.scrubbed} :
         \A i \in 1..Len(out) : out[i] \in Shown!Rune /\ ~Shown!IsControl(out[i])
    /\ Shown!ReadPrinted(got.line) = given
    /\ Shown!Clean(given) => Shown!Unmarshal(got.json) = given
    /\ Shown!ReadPrinted(Shown!Unmarshal(got.scrubbed)) = given

\* A note is believed only if it is for this organization's log under the origin the
\* operator's key names, and, unless it is the caller's own record, the operator's
\* key signed it; whatever other keys signed it as well.  A key that is supplied is
\* never quietly replaced by the one in the release, and a note of another log or
\* without that signature, if the log or an archive hands it over, is a finding
\* (trust.go resolve, checkpoint.go New, Verify and ParseTrusted, events.go
\* readBaselines).
OnlyThisLog ==
  reader = "note" /\ done =>
    LET note == given.note
        chosen == {i \in 1..Len(note.sigs) :
                     /\ note.sigs[i].name = ChosenOrigin(given)
                     /\ note.sigs[i].key = ChosenKey(given)}
        usable == Resolve(given.org, LogKeyFrom(given.flag, given.env)).ok
    IN /\ got = "believed" =>
            /\ note.origin = ChosenOrigin(given) /\ note.origin.org = given.org
            /\ IsOwnRecord(given.from) \/ \E i \in chosen : note.sigs[i].valid
       /\ note.form = "note" /\ note.origin = ChosenOrigin(given) /\ usable
            /\ chosen # {} /\ (\A i \in chosen : note.sigs[i].valid) => got = "believed"
       /\ note.form = "note" /\ usable /\ ~IsOwnRecord(given.from)
            /\ (chosen = {} \/ note.origin # ChosenOrigin(given)) => got = "finding"
==================================================================================
