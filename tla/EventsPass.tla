-------------------------------- MODULE EventsPass -------------------------------
(***************************************************************************)
(* The check of a file of events (verifier.go: VerifyEvents, awaitCoverage,*)
(* pollLog, verifyEvent, verifyInclusion).  It keeps no state between      *)
(* passes, so it waits for what the scheduled pass would leave to the next *)
(* one: for a checkpoint that covers the file and for proofs of covered    *)
(* rows, out of one budget, and it looks at undecided rows a second time.  *)
(*                                                                         *)
(* As in FeedPass the log is untrusted, latest is the size of the newest   *)
(* checkpoint on the one history Session keeps to, and Log is that history.*)
(***************************************************************************)
EXTENDS Leaf, Sequences, FiniteSetsExt

CONSTANTS
  Id,      \* activity ids
  Null,    \* no leaf index
  Files,   \* the files, each a sequence of rows
  Log,     \* the leaves the log commits, in order
  Budget   \* re-reads the wait budget pays for: CoverageWait \div CoveragePoll

\* A row is of another type, an event that does not parse, an event of another
\* organization, or an event of the pinned log.
Kind == {"other", "unparsable", "foreign", "event"}
RowOf == [kind : Kind, id : Id, index : Nat \cup {Null}, body : Body]

ASSUME EventsAssumption ==
  /\ Null \notin Nat /\ Budget \in Nat
  /\ Files \subseteq Seq(RowOf)
  /\ Log \in Seq(LeafHash)

VARIABLES
  pc,        \* where the pass is
  rows,      \* the file
  latest,    \* the size of the session's latest checkpoint
  covered,   \* coveredAtStart: that size when the waiting began
  waited,    \* re-reads charged to the budget
  round,     \* the first or the second look at the rows
  todo,      \* the rows still to look at in this round
  deferred,  \* the rows held back for the second look
  verdict,   \* what the report says of each row
  outcome,   \* how the pass ended
  polls,     \* history: re-reads made
  unserved   \* history: rows whose last look found no proof served

wait == <<covered, waited, polls>>
look == <<round, todo, deferred, verdict>>
vars == <<pc, rows, latest, wait, look, outcome, unserved>>

Parses(i) == rows[i].kind \in {"foreign", "event"}
Placed(i) == Parses(i) /\ rows[i].index # Null

\* Slip: any later copy displaces the remembered one.
RememberedLast(i, j) ==
  /\ Placed(j) /\ j < i /\ rows[j].id = rows[i].id
  /\ \A k \in (j + 1)..(i - 1) : rows[k].id # rows[i].id

\* The position remembered for an id is its first: no later copy displaces it.
Remembered(i, j) ==
  /\ Placed(j) /\ j < i /\ rows[j].id = rows[i].id
  /\ \A k \in 1..(j - 1) : ~(Placed(k) /\ rows[k].id = rows[i].id)

\* Supplied twice at different indices, or at one with different content.
Contradicts(i) ==
  Placed(i) /\ \E j \in DOMAIN rows :
    /\ Remembered(i, j)
    /\ rows[j].index # rows[i].index \/ Hash(rows[j].body) # Hash(rows[i].body)

ParseVerdict(i) ==
  CASE rows[i].kind = "other" -> "skipped"
    [] rows[i].kind = "unparsable" \/ Contradicts(i) -> "failed"
    [] OTHER -> "none"

IsToVerify(i) == ParseVerdict(i) = "none"

\* One past the largest index of the file, zero if it has none.
Wanted == {rows[i].index + 1 : i \in {j \in DOMAIN rows : IsToVerify(j) /\ Placed(j)}}
IsCovered == \A want \in Wanted : latest >= want
----------------------------------------------------------------------------------
Init ==
  /\ pc = "parse" /\ rows \in Files /\ latest \in 0..Len(Log)
  /\ covered = 0 /\ waited = 0 /\ round = 1 /\ todo = {} /\ deferred = {}
  /\ verdict = [i \in DOMAIN rows |-> "none"]
  /\ outcome = "none" /\ polls = 0 /\ unserved = {}

\* Every row is parsed before any is verified, so that the file waits once.
Parse ==
  /\ pc = "parse"
  /\ pc' = "await"
  /\ verdict' = [i \in DOMAIN rows |-> ParseVerdict(i)]
  /\ todo' = {i \in DOMAIN rows : IsToVerify(i)}
  /\ covered' = latest
  /\ UNCHANGED <<rows, latest, waited, round, deferred, outcome, polls, unserved>>

\* pollLog: one more step of the wait, if the pass can still pay for it.
Poll ==
  /\ waited < Budget
  /\ waited' = waited + 1
  /\ polls' = polls + 1
  /\ UNCHANGED covered

IsSpent == waited = Budget

\* awaitCoverage reads the checkpoint again; whatever it is, Session links it.
ReadCheckpoint(size) ==
  /\ pc = "await" /\ ~IsCovered
  /\ Poll
  /\ size \in latest..Len(Log)
  /\ latest' = size
  /\ UNCHANGED <<pc, rows, look, outcome, unserved>>

\* Slip: waiting for proofs has a budget of its own.
StartLookingAfresh ==
  /\ pc = "await"
  /\ IsCovered \/ IsSpent
  /\ pc' = "look"
  /\ waited' = 0
  /\ UNCHANGED <<rows, latest, covered, polls, look, outcome, unserved>>

StartLooking ==
  /\ pc = "await"
  /\ IsCovered \/ IsSpent
  /\ pc' = "look"
  /\ UNCHANGED <<rows, latest, wait, look, outcome, unserved>>
----------------------------------------------------------------------------------
(***************************************************************************)
(* One look at one row.  Both rounds go through their rows in file order.  *)
(***************************************************************************)
Current == Min(todo)
Row == rows[Current]
Looking == pc \in {"look", "poll"} /\ todo # {}

\* Slip: the second look holds rows back too.
TallyNever(oc) ==
  /\ pc' = "look"
  /\ todo' = todo \ {Current}
  /\ IF oc = "pending"
     THEN /\ deferred' = deferred \cup {Current}
          /\ UNCHANGED verdict
     ELSE /\ verdict' = [verdict EXCEPT ![Current] = oc]
          /\ UNCHANGED deferred
  /\ UNCHANGED <<rows, round, outcome>>

\* The first look holds a pending row back, the second reports it.
Tally(oc) ==
  /\ pc' = "look"
  /\ todo' = todo \ {Current}
  /\ IF oc = "pending" /\ round = 1
     THEN /\ deferred' = deferred \cup {Current}
          /\ UNCHANGED verdict
     ELSE /\ verdict' = [verdict EXCEPT ![Current] = oc]
          /\ UNCHANGED deferred
  /\ UNCHANGED <<rows, round, outcome>>

IsAsked == Row.kind = "event" /\ Row.index # Null /\ Row.index < latest

\* What verifyEvent can say without a request.
NoRequest ==
  /\ Looking /\ pc = "look" /\ ~IsAsked
  /\ Tally(CASE Row.kind = "foreign" -> "failed"
             [] Row.kind = "event" /\ Row.index = Null -> "notLogged"
             [] OTHER -> "pending")
  /\ unserved' = unserved \ {Current}
  /\ UNCHANGED <<latest, wait>>

\* A request made when the pass polls is charged to its budget.
Request == IF pc = "poll" THEN Poll ELSE UNCHANGED wait

\* The log answers: with a right proof, if the row is what it committed, or with a
\* wrong one, a proof for another leaf or a refusal.  The proof's checkpoint is
\* linked, which can move the head.
Served(oc, size) ==
  /\ Looking /\ IsAsked
  /\ Request
  /\ oc \in {"verified", "failed"}
  /\ oc = "verified" => Log[Row.index + 1] \in Hashes(Row.body)
  /\ size \in latest..Len(Log)
  /\ latest' = size
  /\ Tally(oc)
  /\ unserved' = unserved \ {Current}

\* Slip: the last published index is left to a rerun.
IsRuledOnShort == Row.index + 1 < covered

\* Whether the pass rules on an index, or leaves it to a rerun: it does on one that was
\* published before the pass began to wait.
IsRuledOn == Row.index < covered

NotServed ==
  /\ pc = "look" /\ Looking /\ IsAsked
  /\ IF IsRuledOn
     THEN pc' = "poll" /\ UNCHANGED <<rows, look, outcome>>
     ELSE Tally("pending")
  /\ unserved' = unserved \cup {Current}
  /\ UNCHANGED <<latest, wait>>

StillNotServed ==
  /\ pc = "poll"
  /\ Poll
  /\ UNCHANGED <<pc, rows, latest, look, outcome, unserved>>

\* Silence to the end of the wait is the log declining.
Declined ==
  /\ pc = "poll" /\ IsSpent
  /\ Tally("failed")
  /\ UNCHANGED <<latest, wait, unserved>>

\* Slip: the second look is another first one.
SecondLookAgain ==
  /\ pc = "look" /\ todo = {} /\ round = 1
  /\ todo' = deferred
  /\ deferred' = {}
  /\ UNCHANGED <<pc, rows, latest, wait, round, verdict, outcome, unserved>>

SecondLook ==
  /\ pc = "look" /\ todo = {} /\ round = 1
  /\ round' = 2
  /\ todo' = deferred
  /\ deferred' = {}
  /\ UNCHANGED <<pc, rows, latest, wait, verdict, outcome, unserved>>

Reported(oc) == {i \in DOMAIN rows : verdict[i] = oc}

Finish ==
  /\ pc = "look" /\ todo = {} /\ round = 2
  /\ pc' = "done"
  /\ outcome' = IF Reported("pending") = {} THEN "ok" ELSE "unchecked"
  /\ UNCHANGED <<rows, latest, wait, look, unserved>>

\* A read breaks off, or its checkpoint is a finding; the report stops where it is.
Breaks ==
  /\ \/ pc = "await" /\ ~IsCovered /\ Poll
     \/ Looking /\ IsAsked /\ Request
  /\ pc' = "done"
  /\ outcome' = "error"
  /\ UNCHANGED <<rows, latest, look, unserved>>

Next ==
  \/ Parse
  \/ \E size \in 0..Len(Log) : ReadCheckpoint(size)
  \/ StartLooking
  \/ NoRequest
  \/ \E oc \in {"verified", "failed"}, size \in 0..Len(Log) : Served(oc, size)
  \/ NotServed \/ StillNotServed \/ Declined
  \/ SecondLook \/ Finish \/ Breaks

Spec == Init /\ [][Next]_vars

\* Each request is answered or fails, and each poll ends.
FairSpec == Spec /\ WF_vars(Next)
----------------------------------------------------------------------------------
Ended == outcome \in {"ok", "unchecked"}

\* The types of what the pass keeps.
TypeOK ==
  /\ pc \in {"parse", "await", "look", "poll", "done"}
  /\ latest \in 0..Len(Log) /\ covered \in 0..latest
  /\ waited \in 0..Budget /\ polls \in Nat
  /\ round \in 1..2 /\ todo \cup deferred \subseteq DOMAIN rows
  /\ verdict \in [DOMAIN rows ->
                    {"none", "skipped", "failed", "verified", "notLogged", "pending"}]
  /\ unserved \subseteq DOMAIN rows
  /\ outcome \in {"none", "ok", "unchecked", "error"}

\* What a file that passes says: every placed event of it is committed where the file
\* puts it, and no id is given two places, wherever its copies stand among the rows.
CleanFileIsCommitted ==
  outcome = "ok" /\ Reported("failed") = {} =>
    \A i \in DOMAIN rows : Placed(i) =>
      /\ rows[i].index < latest
      /\ Log[rows[i].index + 1] \in Hashes(rows[i].body)
      /\ \A j \in DOMAIN rows :
           Placed(j) /\ rows[j].id = rows[i].id => rows[j].index = rows[i].index

\* One row, one verdict, through both looks: a pass that ends has judged every row.
EveryRowJudged == Ended => Reported("none") = {}

\* "Without [a later pass] there is no later verdict": an index that was published when
\* the pass began is ruled on, so a log cannot hold a withheld proof at "rerun".
WithheldIsRuledOn == Ended => \A i \in Reported("pending") : rows[i].index >= covered

\* pollLog: "a file that waits for a checkpoint and then for a proof waits once in
\* total rather than twice", however many rows go unserved.
WaitsOnce == polls <= Budget

\* The pass ends, whatever the log serves or withholds.
PassEnds == <>(pc = "done")

\* The comment above the second look: "an index still beyond it is beyond the log, not
\* beyond this pass".  A row is left unchecked only for lying beyond the checkpoint the
\* report shows, or because the log was asked for its proof and served none.
PendingIsBeyondLog ==
  Ended => \A i \in Reported("pending") : rows[i].index >= latest \/ i \in unserved
==================================================================================
