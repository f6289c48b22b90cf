--------------------------------- MODULE Command ---------------------------------
(***************************************************************************)
(* The command, run by a schedule (cmd/axt-verify/main.go run), over the   *)
(* requests of the compliance client: what each request's fate means to a  *)
(* pass, what the command writes, and with which status it exits.          *)
(*                                                                         *)
(* Session, FeedPass and EventsPass say when a pass sends which request    *)
(* and what it believes of a body.  Here a body is what they would make of *)
(* it, a link is the one request that decides it, and a pass sends the     *)
(* requests of its kind in any number and any order they could have; the   *)
(* subject is every other answer.                                          *)
(***************************************************************************)
EXTENDS Client

CONSTANT MaxAsks   \* requests a pass sends once it is anchored; bounds the runs only

ASSUME RequestAssumption ==
  Request = {"checkpoint", "consistency", "activities", "inclusion"}
ASSUME AsksAssumption == MaxAsks \in Nat

VARIABLES
  line,      \* the command line, its environment and the files it names
  stage,     \* where the invocation is
  anchors,   \* checkpoints start has yet to prove a prefix
  verified,  \* the report has a root hash
  failed,    \* the report has a failed event
  withheld,  \* events left pending, which only the events command ends on
  err,       \* what the pass ended with
  saved,     \* the state file has a checkpoint
  wrote,     \* what this invocation wrote: "state", "note"
  unwritten, \* what it tried to write and could not
  exit,      \* the status of the last invocation
  asks,      \* requests since the pass was anchored
  revoked,   \* environment: the key is dead
  found      \* history: something in this invocation speaks against the log

command == <<line, stage, anchors, verified, failed, withheld, err, saved,
             wrote, unwritten, exit, asks, revoked, found>>
vars == <<client, command>>

(***************************************************************************)
(* A command line: the command word ("" when parseCommandArgs refuses the  *)
(* line), whether flags, key and trust configuration are in order, the     *)
(* baseline it brings, whether its operands, its state file or its events  *)
(* file can be read, and whether it asks for --save.                       *)
(***************************************************************************)
Lines == [cmd : {"", "version", "run", "checkpoint", "events", "other"},
          configured : BOOLEAN,
          baseline : {"none", "good", "unreadable", "forged"},
          readable : BOOLEAN,
          save : BOOLEAN]

NoError == [kind |-> "none", code |-> 0]
Error(kind) == [kind |-> kind, code |-> 0]
StatusError(c) == [kind |-> "status", code |-> c]
Errors == {Error(k) : k \in {"none", "usage", "finding", "incomplete"}}
            \cup {StatusError(c) : c \in Status}

NotYet == 4   \* no invocation has exited

\* What a body comes to for the pass that asked.  "advancing" is a log that moved
\* in every round of a link, "unlinked" a proof whose head is still to be linked,
\* "loops" a page that breaks the rules for cursors.
Contents(r) ==
  CASE r = "checkpoint"  -> {"sound", "unlinked", "forged"}
    [] r = "consistency" -> {"sound", "advancing", "wrong", "forged", "malformed"}
    [] r = "activities"  -> {"sound", "loops", "malformed"}
    [] r = "inclusion"   -> {"sound", "unlinked", "wrong", "forged", "malformed"}

KeepsState == line.cmd \in {"run", "checkpoint"}
----------------------------------------------------------------------------------
\* Slip: a credential answer does not count.
RefusedProofButKey(res) == res.how = "status" /\ res.code \in {400, 404}

\* refusedProof: the log declines to answer for what it published.
RefusedProof(res) == res.how = "status" /\ res.code \in {400, 401, 403, 404}

\* permanentRequestError: the API rejected the credential itself.
Permanent(e) == e.kind = "status" /\ e.code \in {401, 403}

\* The error a pass ends with when a request failed and that is no finding.
ErrorFrom(res) ==
  IF res.how = "status" THEN StatusError(res.code) ELSE Error("incomplete")

\* Slip: the credential is to blame whenever it is rejected.
ExitOfRejectedKey(e, anyFailed, anyVerified, noteLost) ==
  CASE e.kind = "usage"          -> 2
    [] e.kind = "finding"        -> 1
    [] OTHER ->
         IF anyFailed THEN 1
         ELSE IF Permanent(e) THEN 2
         ELSE IF e # NoError \/ noteLost THEN 3 ELSE 0

\* Slip: a rejected credential is one more reason to rerun.
ExitAlwaysRerun(e, anyFailed, anyVerified, noteLost) ==
  CASE e.kind = "usage"          -> 2
    [] e.kind = "finding"        -> 1
    [] OTHER ->
         IF anyFailed THEN 1
         ELSE IF e # NoError \/ noteLost THEN 3 ELSE 0

\* The exit status, in the order run looks for one.
ExitStatus(e, anyFailed, anyVerified, noteLost) ==
  CASE e.kind = "usage"          -> 2
    [] e.kind = "finding"        -> 1
    [] OTHER ->
         IF anyFailed THEN 1
         ELSE IF Permanent(e) /\ ~anyVerified THEN 2
         ELSE IF e # NoError \/ noteLost THEN 3 ELSE 0
----------------------------------------------------------------------------------
Init ==
  /\ ClientInit /\ request = "checkpoint"
  /\ line \in Lines
  /\ stage = "off" /\ anchors = 0 /\ asks = 0
  /\ verified = FALSE /\ failed = FALSE /\ withheld = FALSE
  /\ err = NoError /\ saved = FALSE /\ wrote = {} /\ unwritten = {}
  /\ exit = NotYet /\ revoked = FALSE /\ found = FALSE

\* The schedule, or automation that was told to rerun, starts the command.
Invoke ==
  /\ stage = "off"
  /\ stage' = "configure"
  /\ Renew
  /\ anchors' = 0 /\ asks' = 0
  /\ verified' = FALSE /\ failed' = FALSE /\ withheld' = FALSE
  /\ err' = NoError /\ wrote' = {} /\ unwritten' = {} /\ found' = FALSE
  /\ UNCHANGED <<line, saved, exit, revoked>>

Rerun == exit = 3 /\ Invoke
Schedule == exit # 3 /\ Invoke

\* The invocation is over but for what it writes and says.
Close(e) == stage' = "close" /\ err' = e

\* Flags, key, trust, baselines, then operands, state file and events file; the
\* order decides only whether a forged archive or a mistake behind it is told.
Misused ==
  /\ stage = "configure"
  /\ \/ line.cmd = ""
     \/ line.cmd # "version" /\ ~line.configured
     \/ line.cmd # "version" /\ line.configured /\ line.baseline = "unreadable"
     \/ /\ line.cmd # "version" /\ line.configured
        /\ line.baseline \in {"none", "good"}
        /\ line.cmd = "other" \/ ~line.readable
  /\ Close(Error("usage"))
  /\ UNCHANGED <<client, line, anchors, verified, failed, withheld, saved, wrote,
                 unwritten, exit, asks, revoked, found>>

Version ==
  /\ stage = "configure" /\ line.cmd = "version"
  /\ stage' = "off" /\ exit' = 0
  /\ UNCHANGED <<client, line, anchors, verified, failed, withheld, err, saved,
                 wrote, unwritten, asks, revoked, found>>

\* readBaselines: an archive that names another log or that its key did not sign.
ForgedBaseline ==
  /\ stage = "configure"
  /\ line.cmd \notin {"", "version"} /\ line.configured /\ line.baseline = "forged"
  /\ Close(Error("finding"))
  /\ found' = TRUE
  /\ UNCHANGED <<client, line, anchors, verified, failed, withheld, saved, wrote,
                 unwritten, exit, asks, revoked>>

\* The pass starts, with the saved checkpoint and the baseline to prove.
Start ==
  /\ stage = "configure"
  /\ line.cmd \in {"run", "checkpoint", "events"}
  /\ line.configured /\ line.readable /\ line.baseline \in {"none", "good"}
  /\ stage' = "start"
  /\ anchors' = (IF KeepsState /\ saved THEN 1 ELSE 0)
                  + (IF line.baseline = "good" THEN 1 ELSE 0)
  /\ Ask("checkpoint")
  /\ UNCHANGED <<line, verified, failed, withheld, err, saved, wrote, unwritten,
                 exit, asks, revoked, found>>
----------------------------------------------------------------------------------
Passing == {"start", "anchor", "check"}

\* What any reader of the answer would hold against the log: bytes that contradict
\* it, or a proof it will not give for what it published.
SpeaksAgainst(c) ==
  \/ result.how = "body" /\ c \in {"wrong", "forged"}
  \/ /\ result.how = "status"
     /\ \/ request = "consistency" /\ result.code \in {400, 401, 403, 404}
        \/ request = "inclusion" /\ result.code \in {400, 401, 403}

\* The pass has what get returned, and c is what the body comes to.
Has(c) ==
  /\ stage \in Passing /\ phase = "idle" /\ result # NoResult
  /\ IF result.how = "body" THEN c \in Contents(request) ELSE c = "none"
  /\ found' = (found \/ SpeaksAgainst(c))

\* verr, or classifyRefusal: the pass ends with a finding about the log.
Contradicted(c) ==
  /\ Has(c)
  /\ \/ c = "forged"
     \/ request = "consistency" /\ (c = "wrong" \/ RefusedProof(result))
  /\ Close(Error("finding")) /\ Take
  /\ UNCHANGED <<anchors, verified, failed, withheld, asks>>

\* The request failed, or its body says nothing of the log: the pass could not
\* complete.
Breaks(c) ==
  /\ Has(c)
  /\ \/ c \in {"malformed", "loops", "advancing"}
     \/ /\ result.how # "body"
        /\ RefusedProof(result) => request \in {"checkpoint", "activities"}
  /\ Close(ErrorFrom(result)) /\ Take
  /\ UNCHANGED <<anchors, verified, failed, withheld, asks>>

\* verifyInclusion: a proof that binds none of the event's hashes or is for
\* another leaf, or a refusal to prove this one event.
EventFails(c) ==
  /\ Has(c) /\ request = "inclusion"
  /\ c = "wrong" \/ (RefusedProof(result) /\ result.code # 404)
  /\ failed' = TRUE
  /\ Take
  /\ UNCHANGED <<stage, err, anchors, verified, withheld, asks>>

\* A body that holds: one more anchor is proven, or the pass goes on.
Holds(c) ==
  /\ Has(c) /\ c = "sound"
  /\ IF stage = "start" THEN stage' = "anchor" ELSE UNCHANGED stage
  /\ anchors' = IF stage = "anchor" THEN anchors - 1 ELSE anchors
  /\ Take
  /\ UNCHANGED <<err, verified, failed, withheld, asks>>

\* relate: the checkpoint that came with the answer is linked first.
Links(c) ==
  /\ Has(c) /\ c = "unlinked" /\ stage = "check"
  /\ Ask("consistency")
  /\ UNCHANGED <<stage, err, anchors, verified, failed, withheld, asks>>

\* No proof for a leaf the checkpoint covers: run records the event, events asks
\* until its budget is spent, and then rules on what was published when it began.
NotServed ==
  /\ Has("none") /\ request = "inclusion" /\ result = Refused(404)
  /\ \/ line.cmd = "run" /\ Take /\ UNCHANGED <<failed, withheld, asks>>
     \/ /\ line.cmd = "events" /\ asks < MaxAsks
        /\ Ask("inclusion") /\ asks' = asks + 1
        /\ UNCHANGED <<failed, withheld>>
     \/ line.cmd = "events" /\ Take /\ withheld' = TRUE /\ UNCHANGED <<failed, asks>>
  /\ UNCHANGED <<stage, err, anchors, verified>>

\* An answer is taken up.
Answered ==
  /\ \E c \in UNION {Contents(r) : r \in Request} \cup {"none"} :
       Contradicted(c) \/ Breaks(c) \/ EventFails(c) \/ Holds(c) \/ Links(c)
     \/ NotServed
  /\ UNCHANGED <<line, saved, wrote, unwritten, exit, revoked>>

Between == phase = "idle" /\ result = NoResult

\* start proves the next checkpoint a prefix of the head, or finds it is the head.
ProveAnchor ==
  /\ stage = "anchor" /\ anchors > 0 /\ Between
  /\ \/ Ask("consistency") /\ UNCHANGED anchors
     \/ anchors' = anchors - 1 /\ UNCHANGED client
  /\ UNCHANGED <<line, stage, verified, failed, withheld, err, saved, wrote,
                 unwritten, exit, asks, revoked, found>>

\* The end of start: the report has a checkpoint.
Anchored ==
  /\ stage = "anchor" /\ anchors = 0 /\ Between
  /\ stage' = "check" /\ verified' = TRUE
  /\ UNCHANGED <<client, line, anchors, failed, withheld, err, saved, wrote,
                 unwritten, exit, asks, revoked, found>>

\* A pass over events asks for a page, a proof or a newer checkpoint; run reads a
\* page before anything else.
AskNext ==
  /\ stage = "check" /\ Between /\ asks < MaxAsks
  /\ \E r \in CASE line.cmd = "run" -> IF asks = 0 THEN {"activities"}
                                       ELSE {"activities", "inclusion"}
                [] line.cmd = "events" -> {"checkpoint", "inclusion"}
                [] OTHER -> {} :
       Ask(r)
  /\ asks' = asks + 1
  /\ UNCHANGED <<line, stage, anchors, verified, failed, withheld, err, saved,
                 wrote, unwritten, exit, revoked, found>>

HasRows == line.cmd = "events" \/ (line.cmd = "run" /\ asks > 0)

\* A row that fails with no request: it does not parse, belongs to another log,
\* contradicts a copy or a record, or outlived its grace; or events found no proof
\* for a leaf that was published when it began.
RowFails ==
  /\ stage = "check" /\ Between /\ HasRows /\ ~failed
  /\ failed' = TRUE /\ found' = TRUE
  /\ UNCHANGED <<client, line, stage, anchors, verified, withheld, err, saved, wrote,
                 unwritten, exit, asks, revoked>>

\* The pass is over.  It is incomplete if run's page limit ended it behind the
\* mark, or if events leaves rows pending.
EndPass ==
  /\ stage = "check" /\ Between
  /\ line.cmd = "checkpoint" \/ HasRows
  /\ \/ ~withheld /\ Close(NoError)
     \/ HasRows /\ Close(Error("incomplete"))
  /\ UNCHANGED <<client, line, anchors, verified, failed, withheld, saved, wrote,
                 unwritten, exit, asks, revoked, found>>
----------------------------------------------------------------------------------
\* Slip: what verified is saved whatever the verdict.
SavesWhatever == KeepsState /\ (err = NoError \/ verified)

\* Whether run and checkpoint save the state they end with.
SavesState == KeepsState /\ (err = NoError \/ (verified /\ err.kind # "finding"))

\* The state is saved.  A save that fails is the error of a pass that had none.
Save ==
  /\ stage = "close"
  /\ stage' = "report"
  /\ \/ ~SavesState /\ UNCHANGED <<err, saved, wrote, unwritten>>
     \/ /\ SavesState
        /\ saved' = TRUE /\ wrote' = {"state"}
        /\ UNCHANGED <<err, unwritten>>
     \/ /\ SavesState
        /\ unwritten' = {"state"}
        /\ err' = IF err = NoError THEN Error("incomplete") ELSE err
        /\ UNCHANGED <<saved, wrote>>
  /\ UNCHANGED <<client, line, anchors, verified, failed, withheld, exit, asks,
                 revoked, found>>

SavesNote == line.save /\ err = NoError /\ ~failed

\* --save, and the exit status.
Report ==
  /\ stage = "report"
  /\ stage' = "off"
  /\ \E lost \in IF SavesNote THEN BOOLEAN ELSE {FALSE} :
       /\ wrote' = IF SavesNote /\ ~lost THEN wrote \cup {"note"} ELSE wrote
       /\ unwritten' = IF lost THEN unwritten \cup {"note"} ELSE unwritten
       /\ exit' = ExitStatus(err, failed, verified, lost)
  /\ UNCHANGED <<client, line, anchors, verified, failed, withheld, err, saved,
                 asks, revoked, found>>
----------------------------------------------------------------------------------
\* The server answers a try; for a dead key it has one answer.
Answer ==
  /\ \E a \in Answers :
       /\ revoked => a = [kind |-> "status", code |-> 401, hint |-> NoHint]
       /\ Try(a)
  /\ UNCHANGED command

Resume == Wake /\ UNCHANGED command
Interrupted == stage \in Passing /\ Interrupt /\ UNCHANGED command

Revoke ==
  /\ ~revoked /\ revoked' = TRUE
  /\ UNCHANGED <<client, line, stage, anchors, verified, failed, withheld, err, saved,
                 wrote, unwritten, exit, asks, found>>

\* The program, the server that answers it and automation that reruns.
Step ==
  \/ Rerun
  \/ Misused \/ Version \/ ForgedBaseline \/ Start
  \/ Answer \/ Resume \/ Answered
  \/ ProveAnchor \/ Anchored \/ AskNext \/ RowFails \/ EndPass
  \/ Save \/ Report

Next == Step \/ Schedule \/ Interrupted \/ Revoke

Spec == Init /\ [][Next]_vars
FairSpec == Spec /\ WF_vars(Step)
----------------------------------------------------------------------------------
CommandTypeOK ==
  /\ line \in Lines
  /\ stage \in Passing \cup {"off", "configure", "close", "report"}
  /\ anchors \in 0..2 /\ asks \in 0..MaxAsks
  /\ verified \in BOOLEAN /\ failed \in BOOLEAN /\ withheld \in BOOLEAN
  /\ err \in Errors /\ saved \in BOOLEAN
  /\ wrote \subseteq {"state", "note"} /\ unwritten \subseteq {"state", "note"}
  /\ exit \in {0, 1, 2, 3, NotYet} /\ revoked \in BOOLEAN /\ found \in BOOLEAN

Exited == stage = "off" /\ exit # NotYet

\* Exit 1 is for findings and findings are exit 1: nothing that goes wrong after a
\* finding (a broken read, a rejected key, a lost save, an interrupt) hides it
\* behind "rerun" or "usage", and an outage, however long and in whatever order its
\* answers come, is never told as one (main.go run, 284-337; verifier.go
\* classifyRefusal and verifyInclusion).
FindingIsReported == Exited => (found <=> exit = 1)

\* "Fix the invocation" is said of mistakes: an invocation that has verified a
\* checkpoint, or been refused a proof, does not end so, whatever the key's fate
\* after that; it ends so only for a line out of order or a key rejected at the
\* first request (main.go 323-330, trust.go permanentRequestError).
UsageIsBeforeVerified ==
  Exited /\ exit = 2 =>
    /\ ~verified /\ ~found /\ wrote = {}
    /\ err = Error("usage") \/ err \in {StatusError(401), StatusError(403)}

\* What an invocation leaves on disk agrees with what it says: after a finding
\* about the log nothing is written, so the next run holds the log to the same
\* checkpoint; short of one, what verified is saved even if the pass broke off,
\* or the save was tried and failed; the archive is written by clean passes
\* only; and exit 0 means everything that was asked for was written (main.go
\* 198-217 and 242-255).
RecordFollowsVerdict ==
  Exited =>
    /\ err.kind = "finding" => wrote = {}
    /\ "state" \in wrote => verified
    /\ verified /\ KeepsState /\ err.kind # "finding" => "state" \in wrote \cup unwritten
    /\ "note" \in wrote => exit = 0 /\ ~found
    /\ exit = 0 /\ line.cmd # "version" =>
         /\ unwritten = {}
         /\ KeepsState => "state" \in wrote
         /\ line.save => "note" \in wrote

\* Automation that reruns what exits 3 does not retry a dead key for ever: once
\* the key is revoked some invocation ends with another status, unless the
\* operator interrupts it first (main.go 323-330).
RevokedKeyStops == revoked ~> ((stage = "off" /\ exit # 3) \/ interrupted)
==================================================================================
