-------------------------------- MODULE FeedWindow -------------------------------
(***************************************************************************)
(* What the scheduled pass sees of an honest feed (verifier.go: Run's      *)
(* query and high-water mark).  Activities are listed some time after they *)
(* were created, oldest first; a pass reads the window behind the mark     *)
(* that the last one saved, page by page, while more are listed; it may    *)
(* hit its page limit, break off or be killed.                             *)
(*                                                                         *)
(* What becomes of a copy once it is read is FeedPass's subject.  Here it  *)
(* is settled, or contested: a failure, or a withdrawal judged or deferred *)
(* at the end of the pass.  Either way the mark must not leave it behind.  *)
(***************************************************************************)
EXTENDS FeedPaging, Sequences

CONSTANTS
  Feed,      \* every copy the feed will ever list, in the order it lists them
  Limit,     \* the page size
  Overlap,   \* how far behind the high-water mark a pass reads
  Delay,     \* the longest an activity takes to be listed
  Drift,     \* how far this machine's clock may be from the feed's
  MaxSkew,   \* how far ahead of this clock a served time may move the mark
  Doubtful,  \* the copies a pass may contest; fewer than all bound the runs only
  MaxClock   \* bounds the clock, in the runs only

Row == DOMAIN Feed

ASSUME WindowAssumption ==
  /\ {Limit, MaxClock} \subseteq Nat \ {0}
  /\ {Overlap, Delay, Drift, MaxSkew} \subseteq Nat
  /\ Feed \in Seq([id : Cursor, created : 1..MaxClock])
  /\ \A i, j \in Row : i < j => Feed[i].created <= Feed[j].created
  /\ Row = Copy /\ Doubtful \subseteq Row

VARIABLES
  clock,      \* the feed's clock
  listed,     \* the copies listed so far
  pc,         \* where the pass is
  now,        \* this machine's clock when the pass began
  highWater,  \* the mark in the state file
  mark,       \* the mark this pass would save
  pos,        \* the last copy read: where the next page continues
  contested,  \* copies of this pass that failed or contest a record
  outcome,    \* how the last pass ended
  verdict     \* history: what the last saved pass that read a copy made of it

feed == <<clock, listed>>
pass == <<paging, mark, pos, contested>>
vars == <<feed, pc, now, highWater, pass, outcome, verdict>>
----------------------------------------------------------------------------------
WindowInit ==
  /\ NoPages
  /\ clock = 1 /\ listed = {}
  /\ pc = "idle" /\ now = 0 /\ highWater = 0 /\ mark = 0 /\ pos = 0 /\ contested = {}
  /\ outcome = "ok" /\ verdict = [i \in Row |-> "unread"]

\* Time passes; a copy may not stay unlisted for longer than Delay.
Tick ==
  /\ clock < MaxClock
  /\ \A i \in Row \ listed : clock + 1 <= Feed[i].created + Delay
  /\ clock' = clock + 1
  /\ UNCHANGED <<listed, pc, now, highWater, pass, outcome, verdict>>

List(i) ==
  /\ i \in Row \ listed
  /\ Feed[i].created <= clock
  /\ listed' = listed \cup {i}
  /\ UNCHANGED <<clock, pc, now, highWater, pass, outcome, verdict>>

\* Run reads its clock and what the last pass left.
Start ==
  /\ pc = "idle"
  /\ pc' = "reading"
  /\ now' \in {t \in 0..clock + Drift : clock <= t + Drift}
  /\ mark' = highWater
  /\ UNCHANGED <<feed, highWater, paging, pos, contested, outcome, verdict>>

\* The query: everything, on a first run, and else what the overlap reaches.
InWindow(i) == highWater = 0 \/ Feed[i].created + Overlap >= highWater
Window == {i \in listed : InWindow(i)}

\* The feed answers with the oldest of what lies behind the cursor.
Rest == {i \in Window : i > pos}
FirstOf(rest) == {i \in rest : Cardinality({j \in rest : j < i}) < Limit}

IsLargest(n, S) == \A m \in S : m <= n

\* Slip: any served time moves the mark.
MarkAfterServed(page) ==
  LET times == {mark} \cup {Feed[i].created : i \in page}
  IN mark' \in times /\ IsLargest(mark', times)

\* The mark follows the served times, up to this machine's clock.
MarkAfter(page) ==
  LET near == {i \in page : Feed[i].created <= now + MaxSkew}
      times == {mark} \cup {Feed[i].created : i \in near}
  IN mark' \in times /\ IsLargest(mark', times)

\* A page of what rest holds, of whose copies those in bad are found contested.
ReadPage(rest, page, bad) ==
  /\ IF page = {} THEN pos' = pos ELSE pos' \in page /\ IsLargest(pos', page)
  /\ IF page = rest THEN LastPage(page)
     ELSE Refuse(page, Feed[pos'].id) \/ Follow(page, Feed[pos'].id)
  /\ contested' = contested \cup bad
  /\ MarkAfter(page)
  /\ UNCHANGED <<feed, pc, now, highWater, outcome, verdict>>

ReadNextPage ==
  /\ pc = "reading" /\ Listing
  /\ LET rest == Rest
         page == FirstOf(rest)
     IN \E bad \in SUBSET (page \cap Doubtful) : ReadPage(rest, page, bad)

\* A listing fails, or the proof for a copy just read or for a pending record.
BreakOff ==
  /\ pc = "reading"
  /\ stopped \in {"no", "end", "limit"}
  /\ stopped' = "error"
  /\ UNCHANGED <<feed, pc, now, highWater, maxPages, pages, copies, cursors, mark, pos,
                 contested, outcome, verdict>>

Truncate ==
  /\ pc = "reading"
  /\ StopAtLimit
  /\ UNCHANGED <<feed, pc, now, highWater, mark, pos, contested, outcome, verdict>>

\* Slip: a deferral or a failure does not hold the mark.
FinalMarkMoving == mark

\* A failure or a deferred verdict keeps the mark where the pass found it.
FinalMark == IF contested # {} THEN highWater ELSE mark

\* Slip: a truncated pass is taken for progress by the mark it read, not by the one it saves.
HowItEndsByReading ==
  CASE stopped \in {"error", "refused"} -> stopped
    [] stopped = "limit" /\ mark <= highWater -> "stuck"
    [] OTHER -> "ok"

HowItEnds ==
  CASE stopped \in {"error", "refused"} -> stopped
    [] stopped = "limit" /\ FinalMark <= highWater -> "stuck"
    [] OTHER -> "ok"

Leave ==
  /\ pc' = "idle" /\ now' = 0 /\ mark' = 0 /\ pos' = 0 /\ contested' = {}
  /\ maxPages' \in PageLimits
  /\ stopped' = "no" /\ pages' = 0 /\ copies' = {} /\ cursors' = [c \in {} |-> 0]
  /\ UNCHANGED feed

\* The pass ends, and the command saves the state of an incomplete one too.
Exit ==
  /\ pc = "reading" /\ stopped # "no"
  /\ outcome' = HowItEnds
  /\ highWater' = IF HowItEnds = "ok" THEN FinalMark ELSE highWater
  /\ verdict' = [i \in Row |-> IF i \in contested THEN "open"
                               ELSE IF i \in copies THEN "settled" ELSE verdict[i]]
  /\ Leave

\* Killed, or ended by a finding about the log, which saves nothing.
Crash ==
  /\ pc = "reading"
  /\ outcome' = "error"
  /\ UNCHANGED <<highWater, verdict>>
  /\ Leave

PassStep ==
  \/ Start
  \/ ReadNextPage
  \/ Truncate
  \/ Exit

WindowNext == Tick \/ (\E i \in Row : List(i)) \/ PassStep \/ BreakOff \/ Crash

WindowSpec == WindowInit /\ [][WindowNext]_vars

\* The command is run on a schedule, and a pass that is not killed goes on.
FairSpec == WindowSpec /\ WF_vars(PassStep)
----------------------------------------------------------------------------------
\* The types; with an honest feed the saved mark is a time that has passed.
WindowTypeOK ==
  /\ clock \in 1..MaxClock /\ listed \subseteq Row
  /\ pc \in {"idle", "reading"}
  /\ now \in Nat /\ highWater \in 0..clock /\ mark \in 0..clock
  /\ pos \in {0} \cup Row /\ contested \subseteq copies /\ copies \subseteq Row
  /\ outcome \in {"ok", "stuck", "refused", "error"}
  /\ verdict \in [Row -> {"unread", "settled", "open"}]

\* Overlap's comment, "so late-listed events are not skipped": what no saved pass has
\* read, listed or not, is in the window of the next one, whatever pages, limits, breaks
\* and kills came between, if the overlap covers the delay and both clocks' slack.
NothingIsSkipped == \A i \in Row : verdict[i] = "unread" => InWindow(i)

\* "A finding must not age out of [the window] into a clean exit 0 and a deferral must
\* not become a deletion": what last failed or was deferred is listed by the next pass.
OpenStaysListed == \A i \in Row : verdict[i] = "open" => InWindow(i)

\* The cursor rules never refuse a feed that ends, though pages are cut between two
\* copies of one id and activities are listed while it is read.
HonestFeedIsFollowed == outcome # "refused"

\* No page limit repeats itself for ever under a clean exit: if passes keep ending
\* without an error, every copy listed is read.
EverythingIsRead ==
  <>[](outcome = "ok") => \A i \in Row : i \in listed ~> verdict[i] # "unread"

(***************************************************************************)
(* The inductive invariant behind NothingIsSkipped and OpenStaysListed,    *)
(* when Delay + Drift + MaxSkew <= Overlap.  A copy a pass still owes and  *)
(* has gone past was not listed when it did, so it is young for this pass; *)
(* one ahead of it is no older than what moved the mark.                   *)
(***************************************************************************)
Owed(i) == verdict[i] # "settled" /\ i \notin copies
IsReading == pc = "reading"

ListedInTime == \A i \in Row : IF i \in listed THEN Feed[i].created <= clock
                               ELSE clock <= Feed[i].created + Delay
NowFits == IsReading => now <= clock + Drift
PassedAreYoung ==
  IsReading => \A i \in Row : Owed(i) /\ i <= pos => now <= Feed[i].created + Delay + Drift
MarkFits ==
  IsReading => \/ mark = highWater
               \/ pos \in Row /\ mark <= Feed[pos].created /\ mark <= now + MaxSkew
ContestedInWindow == \A i \in contested : InWindow(i)
IdleIsReset == ~IsReading => copies = {} /\ contested = {} /\ pos = 0

WindowInv ==
  /\ WindowTypeOK
  /\ ListedInTime /\ NowFits /\ PassedAreYoung /\ MarkFits /\ ContestedInWindow /\ IdleIsReset
  /\ \A i \in Row : verdict[i] # "settled" => InWindow(i)
==================================================================================
