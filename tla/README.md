# axt-verify in TLA+

`axt-verify` checks an Access Transparency log on behalf of a customer: that
the log only appends, and that every event the customer is shown is committed
in it. The log, its proofs and the activity feed all come from the party being
checked, so nearly every answer in these models is the environment's to choose.

## The system

| Part | State it keeps | Operations | Talks to |
|---|---|---|---|
| **Checkpoint session** (`src/verifier.go` `session`, `start`, `proveAppendOnly`, `link`, `advance`, `provePrefix`, `relate`, `commit`, `finish`) | the newest verified checkpoint, the root and the note behind each linked size, whether the pass is anchored | fetch, anchor to the saved checkpoint and to baselines, link a checkpoint that came with a proof, commit | the log's checkpoint and consistency endpoints; writes the checkpoint of the loaded state |
| **Feed pass** (`Verifier.Run`, `coalesce`, `recheckDone`, `settle`; `FeedState` in `src/state.go`) | records of done and pending events and the high-water mark, kept between passes; sets by id, kept for one pass | read pages, take each copy, check or recheck it, judge withdrawals, move or freeze the mark, prune | the feed, the session (every inclusion proof's checkpoint is linked), the state |
| **Events pass** (`Verifier.VerifyEvents`, `awaitCoverage`, `pollLog`) | none between passes; a wait budget, deferred rows and verdicts in one | parse, wait for coverage, verify, second look | the session, the inclusion endpoint |
| **State file** (`LoadState`, `State.Save`) | the file, and the bytes as loaded | load, compare, write, sync, rename | other processes on the path, the file system |
| **Checkpoint verification** (`src/checkpoint`) | none | which notes are believed; consistency, inclusion | note and Merkle libraries |
| **Leaf canonicalization** (`src/leaf`) | none | parse an event, build its entries and leaf hashes | feed pass, events pass |
| **Compliance client** (`src/compliance/client.go`) | none between requests; the tries and the last failure in one | request with retries and backoff, classify a status | HTTP |
| **Command** (`src/cmd/axt-verify`) | none; what it writes outlives it | split arguments, settle trust, read baselines and events files, load, save, print, exit status | all of the above, and automation that acts on the exit status |
| **Trust configuration** (`src/trust.go`, `trust.go` of the command, `src/builtin_keys.go`) | none | choose the log's key and origin | command |

A pass is one sequential program; it starts no goroutines of its own. What
makes it hard is around it: the log moves between any two requests and is
served by replicas that lag; every answer may be a lie; the pass may break off
or be killed at any request; the next pass starts from what this one left; and
another process may share the state file.

What makes each part correct:

- **session**: all the checkpoints a pass believed are prefixes of its head; the
  head extends the saved checkpoint and every baseline; the saved checkpoint
  moves only forward, through every failure; an honest log is never accused; a
  log cannot hold the pass; the evidence in a report shows what it claims.
- **feed pass**: a clean pass accounts for every copy it was served; records are
  only made of committed events; indices cannot be withdrawn, moved or rewritten
  silently over any number of passes, page limits and broken reads; deadlines
  stand; records outlive open findings; no event is skipped by the window; paging ends.
- **events pass**: a clean file is committed; every row is judged; withheld proofs
  are ruled on; one wait budget; the pass ends.
- **state file**: never torn; no save but a raced one loses anything.
- **client**: the first answer that another try could not better is the one that
  counts; pauses are bounded whatever the server hints.
- **command**: exit 1 for findings and only for them, whatever fails afterwards; exit 2
  only before anything is verified; what is on disk agrees with the verdict; a
  dead key is not retried for ever.
- **readers** (arguments, events file, served row, trusted key) **and escaping**: each says
  of its input what an independent reader of the same input would.

## Modules

| Module | What it is |
|---|---|
| `Trees` | trees as leaf sequences, `Extends` (prefix), `VerifyConsistency` |
| `Session` | one pass after another over an untrusted log: the checkpoint core, with load and save around it |
| `LogView` | the abstract specification: a head that only grows over what earlier passes kept |
| `HonestLog` | `Session` composed with a log that keeps its promises but grows and lags |
| `SessionProofs` | proofs about `Session`, its refinement of `LogView`, and `HonestLog` |
| `Leaf` | which entries, so which leaf hashes, a served event can have |
| `FeedPass`, `FeedPassProofs` | `run` after the session is anchored, over an untrusted feed, pass after pass; proofs |
| `FeedPaging` | the page loop of `run`: cursors, page limits and refusals over an untrusted feed |
| `FeedWindow`, `FeedWindowProofs` | that loop behind the window query and the mark, pass after pass, over an honest feed that lists late; proofs, those about `FeedPaging` among them |
| `EventsPass`, `EventsPassProofs` | `events FILE` after the session is anchored; proofs |
| `StateFile`, `StateFileProofs` | processes sharing a state file; proofs |
| `Client` | one request of the compliance client after another: tries, pauses, interrupts |
| `Command`, `CommandProofs` | invocations of the command, scheduled and rerun, over `Client`; proofs about both, `Spec => ClientSpec` among them |
| `Arguments`, `ArgumentsProofs` | `parseCommandArgs` over the flag package; proofs, and lemmas on lists the other readers' proofs use |
| `EventsFile` | `readEvents`: the shapes an events file can have |
| `LeafObject` | `Parse` and `TypeOf`: reading a served row, with its types, repeats, case and strings |
| `Trust` | which key and origin an invocation settles on, and which notes it then believes |
| `Display` | `printable`, `escapeDisplay`, `writeJSONEscape` |
| `Inputs`, `InputsProofs` | the last five as one specification: an input, and what became of it; proofs, for inputs of any length |
| `MC*` | the instances TLC checks |

Operators introduced by a comment that begins `Slip:` are deliberately wrong
variants of the definition that follows. No specification uses them. Substituting one for
its original is how each property is shown to be able to fail.

### How `Session` corresponds to the code

A checkpoint in hand is a `Note`: a tree and whether a signed note comes with
it. A root hash stands for the sequence of leaves it commits to, which is what
collision resistance says; a root that commits to no history of the log is a
tree on another branch. A proof is a Boolean, right or wrong; verification
succeeds when it is right *and* the claim is true. `Len(tree)` is the size.
The tree of size 0 is a single one (the only root `checkpoint.Verify` admits
for it), and a bare baseline is never empty, as `BaselineFromPair` requires.

One action is the code from one request to the next. `link` becomes the states
`link` (top of a round), `nested` (`provePrefix` has called `advance`) and
`prove` (`provePrefix` holds an answer, in `ahead`). `Answer` is the log's
answer to the one outstanding consistency request; each of its disjuncts is a
path of the code that got the answer, its `forkCheck` included. `Failure` is a
refused, failed or unsigned one. `Begin` loads the state and the baselines,
`Exit` saves as `run` in `main.go` does, `Crash` is a kill or a failed save.
`required` is history: what the pass has to be shown to extend.

### How `FeedPass` corresponds to the code

`st` is the feed state in memory and `file` the saved one. A page is a sequence
of raw copies. `ReadPage` includes `coalesce` and the failures of what does not
parse. `Coalesce` says in closed form what becomes of the copies of each id, with the
place of the first of them (`at`), by which the batch is gone through. `CoalesceLoop` is the loop of the
code, copy by copy (`TakeIn`); that it comes to the same is proved (`CoalesceIsTheLoop`), and checked
in `MCFeedPass` on every page of up to three copies. The loop body for one coalesced copy is one action, named for the branch
taken: `Conflict`, `Contradiction`, `Repeat`, `Withdrawal`, `Relocation`,
`Unchanged`, or `Verdict`, which is `verifyEvent` and `settle` together.
`Recheck` is the loop over pending events, `Conclude` everything after it.
Records have an index and a leaf hash as in `FeedState`; `created_at`, which
the code stores and never reads, is left out, and so is a done record without
an index, which no release this code reads files of writes. The session's head
is a number: `Session` shows it lies on one history, `Log`. An event of another
organization is a failed verdict. A pass without a page limit is a pass whose
limit is not reached. `last` and `served` are history.

### How `FeedPaging` and `FeedWindow` correspond

The page loop of `Run` appears twice, as it has two adversaries. In `FeedPaging`
a page is any set of copies with any cursor: `LastPage`, `Refuse` and `Follow`
are its ways out of one iteration, `StopAtLimit` and `ListingFails` the ways
not to begin one; `copies` and `cursors` are the code's maps. `FeedWindow`
extends it and lets an honest feed choose the pages: the activities are a fixed
sequence in order of creation, listed one by one at some time within `Delay` of
being created; a page holds the first `Limit` of those in the window
that lie behind the cursor. The last copy of a page is the cursor's position,
and its id is what the code sees of it, so that two copies of an id on either
side of a page boundary repeat a cursor.

What becomes of a copy is `FeedPass`'s subject. Here the environment decides
which copies are contested (fail, or have a verdict deferred), and `verdict`
remembers what the last saved pass made of each. `Exit` is the end of `Run`
with the save `run` in `main.go` makes of incomplete passes too; `Crash` is a kill, a failed save,
or a finding about the log, after which nothing is saved. A proof request that breaks off
inside a page appears as a break before or after that page: the mark is not saved then,
and a copy the model takes for read is one the code may not have reached,
which matters to `verdict` only, until a pass that saves its mark reads it.

### How `EventsPass` and `StateFile` correspond

`Parse` is the first loop of `VerifyEvents`; `ReadCheckpoint` and `StartLooking`
are `awaitCoverage`; `NoRequest`, `Served`, `NotServed`, `StillNotServed` and
`Declined` are `verifyEvent` and `verifyInclusion` on one row; `SecondLook`
and `Finish` are the rest. The budget counts polls, `CoverageWait \div
CoveragePoll`. `StateFile` has one action per system call of `Save`.
A sync makes the temporary file's bytes durable; the rename reaches the disk when the
directory does (`Flush`), which `Save` does not wait for, so a power loss may
bring the old file back: whole, or not at all if bytes were not synced.

### How `Client` and `Command` correspond

An answer in `Client` is what one try meets: a body, one past the size cap, one
that breaks off, a transport error, or a status with or without a hint. `Try`
is `do` and what `get`'s loop makes of it, `Wake` the end of `sleep` with the
check of the context behind it, `Ask` and `Take` the call and its return. A
duration is an integer that wraps as `int64` does (`Wrap`): the clamps in
`backoff` and `retryAfter` are there because the products would. `decided` and
`waited` are history.

`Command` EXTENDS it. `Session`, `FeedPass` and `EventsPass` say which request a pass
sends and what it believes of a body; here a body is what they would make of
it (`Contents`), and the subject is every other way a request can end. An
invocation goes through `configure` (`Misused`, `Version`, `ForgedBaseline`,
`Start`), `start` and `anchor` (`Verifier.start`), `check` (the events of a
pass), `close` (`Save`, with a save that fails) and `report` (`--save` and the exit status).
`ExitStatus` lists the cases in the order `run` tries them. `Contradicted`,
`Breaks`, `EventFails`, `Holds`, `Links` and `NotServed` are what a pass does with a
result; `RowFails` is an event that fails without a request. `found` is history: whether
anything in the invocation speaks against the log, decided from the answer
alone (`SpeaksAgainst`), not from what the code makes of it. `Schedule`,
`Rerun`, `Interrupted` and `Revoke` are the world outside.

### How the readers correspond

Each reader is a function of its input, written from the code, beside a second reading of the
same input that shares nothing with it: what a line means (`Meant`), the events
a document has in it (`EventsIn`), what readers that differ in repeats, case and
repair see (`Reads`), what a decoder makes of printed text (`ReadPrinted`,
`Unmarshal`), the key and origin asked for (`ChosenKey`, `ChosenOrigin`). `Inputs` has
one action per reader. Texts are short sequences of units: a JSON document is
its members in order and where it breaks off, a string literal its tokens, and the
runes are the few the code tells apart, with their fold orbits. `Display`
scales Unicode to eighteen runes in base 4, so that an astral rune takes one
digit more than `\u` holds, as U+E0001 does in base 16.

## What is checked

All runs are exhaustive for their instance.

| Run | Shows |
|---|---|
| `session` | With a log that may answer anything, over a history of three leaves and a branch off it: `OneHistory`, `AnchorHeld`, `CommitsAsItAdvances`, `SavedRatchet`, `ForkEvidenceShowsIt`, the refinement `ImplementsView`, and `LinkReturns`: however the log answers, a pass gets out of `link`. |
| `honest_log` | `NoFalseAccusation`, and `AbsorbsMovement`: giving up takes a disturbance in every round but the first. |
| `feed_pass` | `DoneIsCommitted`, `OneRecord`, `CleanAccountsForAll`, `NoSilentWithdrawal`, `GraceIsEnforced`, `DeadlineStands`, `FindingKeepsRecord`. |
| `feed_paging` | `PagesAreBounded`: with a page limit or without, a feed that makes up new copies and cursors gets at most two pages a cursor out of a pass. |
| `feed_window` | `NothingIsSkipped`, `OpenStaysListed`, `HonestFeedIsFollowed`, `EverythingIsRead`. |
| `events_pass` | `CleanFileIsCommitted`, `EveryRowJudged`, `WithheldIsRuledOn`, `WaitsOnce`, `PassEnds`. |
| `state_file` | `NeverTorn`, `UnracedSaveKeeps`. |
| `command` | `FirstAnswerStands`, `WaitsAreBounded` of every request; `FindingIsReported`, `UsageIsBeforeVerified`, `RecordFollowsVerdict` of every invocation; `RevokedKeyStops` of their sequence. |
| `inputs` | `LiteralStaysPositional`, `NothingIsPassedOver`, `EveryReaderAgrees`, `ReportReadsBack`, `OnlyThisLog`, one per reader. |

`session` checks the inductive invariant `Inv` of its proofs as well. Type
invariants and the other inductive invariants are proved and not run again.

Three runs show where the code and what it says of itself part:

| Run | Disagreement |
|---|---|
| `session_refusal` | A consistency request refused while the head advances is reported with one note on both sides: `advance` passes `s.latest` as the older, and `classifyRefusal` uses `s.latest` as the newer. The verdict is right, the evidence is not a pair. |
| `feed_retention` | A deferred withdrawal does not refresh the record it contests, so the next complete pass can prune it. |
| `events_second_look` | The second look goes row by row as the first did, so a head that moves during it can pass a row it left pending without asking. The row is reported as one for which the log serves no proof. |

Two smaller ones have no run. `Overlap`'s comment asks that it exceed the feed's delay; served
times up to `maxFutureSkew` past the start of a pass move the mark too, so what
suffices is delay, clock drift and skew together (the assumption of
`FeedWindowProofs`), which the default of a week has to spare. And two saves can both
compare before either renames: `Save`'s comment admits that this is no lock, its first
sentence and `src/README.md` promise more, and `UnracedSaveKeeps` says what is left.

### Bounds, and why they are enough

- *Session*: trees up to three leaves with a branch after the first, so a fork can
  be met below, at and above the head, and a rollback can land on either side
  of it; three rounds, as in the code. The runs use the baselines their
  `.cfg` names; the proofs hold for every list of them.
- *HonestLog*: five leaves, enough for the head to move in each of three rounds
  after starting behind.
- *FeedPass*: one id; the theorems bound neither ids nor pages. Ids meet only in the high-water mark, whose freeze is in
  `Conclude` and whose course `FeedWindow` follows, and in a page's position, which the order of
  pages already varies. Its leaf is committed at two indices, once per schema
  version, so a change of index can verify. Five servings, pages of up to two
  copies, two pages a pass, three clock readings with window and grace of one, so
  a record can be made, expire and be contested.
- *FeedPaging*: three cursors, one more than a pass follows, and five copies, one more
  than the pages the bound admits: the feed could go on, and is cut by the rules alone.
- *FeedWindow*: five activities, two of them copies of one id on neighbouring
  positions, pages of one, no page limit or one of four, one short of what a first pass
  may find, so that truncated passes happen and are stuck when the mark does not move; an overlap of
  two, a delay and a skew of one; five clock readings, so the window leaves the oldest behind.
  `Drift` is 0 and only the first activity may be contested; the theorems bound neither.
- *EventsPass*: every file of at most three rows from eight, a log of three leaves, two polls;
  the theorems bound none of these.
- *StateFile*: two processes of one log and one of another, sizes 1 and 2.
- *Command*: three tries, and durations scaled with the largest one, so that the
  third try's shift and a hint of two seconds wrap; statuses 400, 401, 404, 429 and 500, one of
  each kind the code tells apart; two requests once anchored, enough for a failed event and then a
  request that fails otherwise. The theorems bound none of these.
- *Inputs*: lines of up to four arguments; files of up to three documents with up to three
  members; strings of up to four tokens and types of up to four runes; objects of up to three members;
  texts of three units; notes of up to two signature lines, from each of the four
  places a note comes from, under every pair of keys. Each takes in every pair of things that could
  interfere, such as a surrogate escape behind a backslash. The theorems bound none of these.

### Fairness

`Session!FairSpec` assumes only that a step of `link` that can be taken is
taken: code runs, and each request is answered or fails, because the client
gives each attempt thirty seconds and makes a bounded number of them. It does
not assume that answers make progress. `EventsPass!FairSpec` assumes the same of
the whole pass; neither assumes that the operator runs the command again or that the log
publishes. `FeedWindow!FairSpec` does assume the former, which is how the command is meant
to be used, on a schedule: a pass starts again, and one that is not
killed goes on. `EverythingIsRead` is conditional on passes that end without an
error, as no schedule makes up for passes that all fail.
`Command!FairSpec` is weakly fair to `Step`: the program, a server that answers or
whose attempt times out, and automation that reruns what exits 3, which is what the
status is documented for. The operator's schedule, interrupts and the
revocation are not fair.

## What is proved

`SessionProofs`, for every set of trees, number of rounds and list of baselines,
from `Tree \subseteq Seq(Leaf)`, `NoTree \notin Tree` and `MaxRelateAttempts`
being a positive number:

- `Invariance`: `Spec => []Inv`. The safety properties are not inductive: they
  speak of anchored passes, and what makes them true is built before. `Inv`
  adds that the head is signed and linked; that each size links a tree of that
  size; that every required tree is still to do, is being linked, or is
  linked; and `LinkedToLatestOrTarget`: every linked tree is a prefix of the
  head, *or*, while the tree served first is being re-linked after a rollback
  was answered by a larger head, a prefix of that tree. That case is why
  `proveAppendOnly` deletes the served entry before it calls `link`; without
  the deletion the invariant fails.
- `OneHistoryHolds`, `AnchorHeldHolds`, `CommitsAsItAdvancesHolds`,
  `SavedRatchetHolds`, `TypeCorrect` follow from it.
- `ForkEvidenceShowsItHolds`, from `Inv` and `Shows`: the note kept for a linked size is
  the tree linked there, a linked tree without a note is one the caller brought, and
  only the tree served first can be left with a note and no link, while it is the target.
- `Refinement`: every step of a session is a step of `LogView` or a stutter, with
  the anchored head for `head` and the state file for `kept`.
- The lemmas are that `Extends` is a partial order, and that two trees of a size
  that one tree extends are equal.

- `LinkCountsDown`: `LinkLeft`, three steps for each round that is left and those of the
  round under way, falls with every step inside `link` and is never negative.

The last part of `SessionProofs` is about `HonestLog`, for any history the log appends to, any number of rounds and any
baselines it published: `NoFalseAccusationHolds` and `AbsorbsMovementHolds`, and
`HonestSessions`, `HonestSpec => Spec`, which carries all of the above over. `HonestInv`
says that everything a session holds is a published prefix of one history, so that no
two roots for a size meet and every right proof convinces; and, for the rounds
(`RoundsAreDisturbed`), that one that leaves the target unlinked was paid for by a late
answer or by a publication while an answer was held, but for the one that may move the
head past the target.

`StateFileProofs`, for any number of processes, logs and sizes:
`StateFileInvariance`, `NeverTornHolds` and `UnracedSaveKeepsHolds`. The
invariant carries what each program point knows: that a compared process no rename has
overtaken still sees the bytes it loaded, and that a temporary file is synced
before it is renamed.

`FeedWindowProofs`, first, about `FeedPaging`, for any cursors, copies and limits:
`TypeCorrect` and `PagesAreBoundedHolds`, from `PagingAssumption` alone. The invariant
counts pages: one for each cursor seen, one more for each seen twice, and one for the
page that stopped the reading. A pass that has followed its last cursor has seen it
once, which leaves the page for the refusal.

Second, about `FeedWindow`, for any feed in order of creation, page size, limits and
choice of contested copies, from `Delay + Drift + MaxSkew <= Overlap`:
`NothingIsSkippedHolds` and `OpenStaysListedHolds`, from `WindowInvariance`.
`WindowInv` adds two facts about a pass under way: `PassedAreYoung`, a copy it
has gone past and still owes was not listed then, hence is at most
`Delay` older than the clock at that time; and `MarkFits`, the mark is still
the saved one, or is no later than the cursor's copy and than `now + MaxSkew`.
That pages have no gaps (`PagesHaveNoGaps`) is what makes the first one hold.

Third, `HonestFeedIsFollowedHolds`, for any page size, limits, delays and clocks, from
`ListedAtMostTwice` (no three copies of one id, which is why the code lets a cursor repeat
once) and `WithinCursors` (at most one copy more than a pass follows cursors). `Followed`
ties each cursor to as many copies behind the last one read as it was followed; a page that is
not the last ends at a copy ahead of them, with another behind it.

Fourth, `PassesMakeProgress`, under the assumption of the second: a copy a pass begins with and has not
read stays ahead of its cursor (`OnItsWay`) until a page holds it, for no page is empty while a copy is
left; so an end without an error has read it, or saves a later mark, and no mark falls.

Last, that `FeedWindow` is `FeedPaging` over an honest feed: `WindowUsesPaging` shows each step of a pass to
be one of that loop, a fresh start or a break-off, whatever the clocks and the overlap, so
`WindowPagesAreBounded` carries the bound over.

`FeedPassProofs`, for any sets of pages, logs, ids and starting files, any limits and any number of
passes, crashes and restarts: `DoneIsCommittedHolds`, `OneRecordHolds`, `CleanAccountsForAllHolds`,
`NoSilentWithdrawalHolds`, `GraceIsEnforcedHolds`, and over the saved file `DeadlineStandsHolds` and
`FindingKeepsRecordHolds`. What a clean pass says is only
true of a pass as a whole, so `FeedInv` says of each id what is so in the middle of
one, in three parts. `SoundAt` is about a feed state alone: a done
record is committed, below the head, and no older than the last failure of its id; a pending
one is of one event. `FollowsAt` relates memory to the file: an awaited event still waits with its deadline,
or is done where it waited. `AccountedAt` follows the copies: each one served waits in the
batch, agrees with the copy its id was last taken from, or its id is flagged;
and the copy taken is verified, awaited, flagged or put off. The step that
needs care is a copy that is news for an id settled earlier in the pass: `HasSettled`
carries that such an id was taken with its index, so that a copy that is news
cannot be of it. That one hash vouches for every hash of an event is `SharedHash`.
`OneIdStep` is the frame: a step on one id changes nothing about another.
`CoalesceIsTheLoop`, for pages of any length, follows the list of `coalesce` copy by copy: one more copy
does to the closed form of its id what it does to the entry of its id (`CoalescedOneMore`).

`EventsPassProofs`, for any file, log and budget: `WaitsOnceHolds`, `EveryRowJudgedHolds`,
`WithheldIsRuledOnHolds`, `CleanFileIsCommittedHolds`. `EventsInv` says where each row is
(parsed out, to look at, held back, judged) and that what a verdict said when it was
given still holds when the pass ends. `PassCountsDown`: `StepsLeft`, which is the budget
that is left with two steps for each look a row still gets, falls with every step of a pass
and is never negative.

`CommandProofs`, first, about `Client`, for any attempts, statuses, hints and durations that satisfy `DurationAssumption`
(what the constants of `client.go` satisfy, and all the code relies on): `ClientInvariance`,
`FirstAnswerStandsHolds` and `WaitsAreBoundedHolds`. `ClientInv` counts the
pauses: those of a request so far, the one under way included, are paid for by its tries at
`LongestPause` each. Its lemmas are that a product within `MaxDuration` does not wrap
(`WrapKeeps`) and that each clamp keeps the product within it (`JitterBounded`, `RetryAfterBounded`).
`RequestCountsDown` bounds the steps of a request, in `RequestLeft`.

Second, about `Command`, for any command lines, any statuses and any number of requests:
`FindingIsReportedHolds`, `UsageIsBeforeVerifiedHolds` and `RecordFollowsVerdictHolds`. What an
exit status says is settled long before it is chosen, so `CommandInv` follows an invocation
through its stages: until a pass is over, it has no error and has found exactly what is in its report;
once it is over, what was found is its error or a failed event; a usage error comes before
anything is verified; what was written is what `SavesState` allowed. `CommandUsesClient` shows `Spec => ClientSpec`,
so `CommandRequests` carries the client's two theorems over. `DeadKeyIsNotRerun`: an invocation that begins
with a dead key stays one (`DeadKeyRun`: its one request is refused and never
tried again, nothing is verified, nothing it could save or lose changes its error) until
it exits with a status other than 3.

`InputsProofs`, for inputs of any length, made of what the assumptions of `Inputs` name (`CommandLineAssumption`
to `InvocationAssumption`: any list of arguments, any documents, any members and strings, any runes and
bytes, any signature lines): all five invariants of `Inputs`. `ReadOnce` says that what a state
holds is what the reader's functions return for its input; the rest is about those functions.

- The readers recurse over their input, and the prover has no induction over data. What holds
  of every place of a list is had from a least counterexample instead (`LeastOfNaturals`, `FromTheEnd`).
  A recursive function is the function its equations choose, so that one exists is proved first
  (`RecursionExists`, and `WellFormedExists` and the like where a step looks only at later places).
- `LineMeans`, in `ArgumentsProofs`: the loop over `fs.Parse` and `Meant` are the same function of a line. One goes
  flag by flag and asks again after every word, the other settles for each argument whether it is
  the value of the one before it; from the end of the line they agree at every place the loop stops.
- `FilesAreFaithful`: by how the events are framed. Each framing hands on a list that is
  `EventsIn` of every document, or holds what the verifier must fail.
- `WellFormedReadsOneWay`: a literal is laid out token by token (`LiteralIsLaid`), `wellFormed` visits
  each token it accepts (`VisitsNext`), and so no half of a pair is left alone for a decoder to repair.
  `ParsedReadsOneWay` and `PassedOverReadsOneWay` add that strict names leave each reader one member to find.
- `PrintedReadsBack`, `ReportedReadsBack`: text is laid out unit by unit (`JoinIsLaid`); a reader that stands where
  a unit begins reads it and stands where the next one begins. For a report that holds through two
  writers, `encoding/json` and `escapeDisplay`.

`Arguments` stands for each slice of the arguments by the position it starts at, as a Go slice
does, which is what lets the recursion be proved about.

Model-checked only: liveness (`LinkReturns`, `PassEnds`, `EverythingIsRead`, `RevokedKeyStops`), which
is beyond the prover. Of each the half that is safety is proved: `LinkCountsDown`,
`PassCountsDown`, `PassesMakeProgress`, and `DeadKeyIsNotRerun` with `RequestCountsDown` say that the steps
the fairness assumptions keep coming run out, or end the right way. What stays with TLC is that a step is always
possible until then (`ENABLED`), and the step from both to "eventually".

## What is not modelled

- Note syntax, signatures and Merkle hashing: libraries; taken as sound.
- Bytes of leaves: rendering is taken as injective in the fields it commits.
- URLs, headers, decoding of proofs and pages, and the layout of reports: a body
  is what it comes to. The cap on input size and unreadable files are a line that is not `readable`.
- A signal is an interrupt of a request (`Client`) or, to the passes, a request that fails.
- `internal/testlog` is a test double: `HonestLog` and the environments of the other modules stand where it does.

## Plan

`FeedPass` with two ids and one mark, to meet `FeedWindow`'s choice of
contested copies from the other side.
