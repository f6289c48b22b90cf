----------------------------- MODULE EventsPassProofs ----------------------------
(***************************************************************************)
(* What EventsPass promises of a file, for files of any length, any log    *)
(* and any budget.                                                         *)
(*                                                                         *)
(* A row without a verdict is still to look at, and every verdict stands:  *)
(* it says what the log committed and what the file and the checkpoint at  *)
(* the start of the wait were.  Both hold from one row to the next.        *)
(***************************************************************************)
EXTENDS EventsPass, FiniteSetTheorems, WellFoundedInduction, TLAPS

\* The least of a set of naturals is one of them: there is a row to look at.
LEMMA MinIsIn ==
  ASSUME NEW S \in SUBSET Nat, S # {}
  PROVE  /\ Min(S) \in S
         /\ \A y \in S : Min(S) <= y
<1>1. PICK x \in S : \A y \in S : ~(<<y, x>> \in OpToRel(<, Nat))
  BY NatLessThanWellFounded, WFMin
<1>2. \A y \in S : ~(y < x)
  BY <1>1, Zenon DEF OpToRel
<1>3. \A y \in S : x <= y
  BY <1>2
<1> QED
  BY <1>1, <1>3 DEF Min
----------------------------------------------------------------------------------
(***************************************************************************)
(* The inductive invariant.                                                *)
(***************************************************************************)

\* Where the rows are: parsed out, to look at, held back, or judged.
RowsAccounted ==
  /\ todo \cup deferred \subseteq {i \in DOMAIN rows : IsToVerify(i)}
  /\ pc # "parse" =>
       \A i \in DOMAIN rows :
         /\ ~IsToVerify(i) => verdict[i] = ParseVerdict(i)
         /\ verdict[i] = "none" => i \in todo \cup deferred
  /\ round = 2 => deferred = {}
  /\ pc = "parse" => round = 1 /\ deferred = {}
  /\ pc = "poll" => todo # {}

\* What a verdict on a row with an index says.
Stands(i) ==
  /\ verdict[i] = "skipped" => rows[i].kind = "other"
  /\ verdict[i] = "notLogged" => rows[i].index = Null
  /\ verdict[i] = "pending" => rows[i].index \in Nat /\ rows[i].index >= covered
  /\ verdict[i] = "verified" =>
       /\ rows[i].index \in Nat /\ rows[i].index < latest
       /\ Log[rows[i].index + 1] \in Hashes(rows[i].body)

Concluded ==
  /\ pc # "done" => outcome = "none"
  /\ Ended => todo = {} /\ deferred = {}
  /\ outcome = "ok" => Reported("pending") = {}

EventsInv ==
  /\ TypeOK
  /\ rows \in Files
  /\ RowsAccounted
  /\ \A i \in DOMAIN rows : Stands(i)
  /\ Concluded
  /\ polls = waited

\* A file is a sequence of rows whose indices are numbers, or none.
LEMMA RowTypes ==
  ASSUME EventsInv
  PROVE  /\ Len(Log) \in Nat
         /\ DOMAIN rows \subseteq Nat
         /\ \A i \in DOMAIN rows : rows[i] \in RowOf
         /\ \A i \in DOMAIN rows : rows[i].index # Null => rows[i].index \in Nat
<1>1. rows \in Seq(RowOf)
  BY EventsAssumption DEF EventsInv
<1>2. Len(Log) \in Nat
  BY EventsAssumption
<1>3. DOMAIN rows = 1..Len(rows) /\ Len(rows) \in Nat
  BY <1>1
<1>4. \A i \in DOMAIN rows : rows[i] \in RowOf
  BY <1>1
<1>5. \A r \in RowOf : r.index \in Nat \cup {Null}
  BY DEF RowOf
<1> QED
  BY <1>2, <1>3, <1>4, <1>5

LEMMA EventsInvInit == Init => EventsInv
<1> SUFFICES ASSUME Init PROVE EventsInv
  OBVIOUS
<1>1. Len(Log) \in Nat
  BY EventsAssumption
<1>2. TypeOK
  BY <1>1, EventsAssumption DEF Init, TypeOK
<1> QED
  BY <1>2 DEF Init, EventsInv, RowsAccounted, Stands, Concluded, Ended
----------------------------------------------------------------------------------
(***************************************************************************)
(* The steps.                                                              *)
(***************************************************************************)

LEMMA ParseInv == EventsInv /\ Parse => EventsInv'
<1> SUFFICES ASSUME EventsInv, Parse PROVE EventsInv'
  OBVIOUS
<1>1. /\ rows' = rows /\ latest' = latest /\ covered' = latest /\ pc' = "await"
      /\ deferred' = deferred /\ round' = round /\ outcome' = outcome
      /\ waited' = waited /\ polls' = polls /\ unserved' = unserved
  BY DEF Parse
<1>2. /\ verdict' = [i \in DOMAIN rows |-> ParseVerdict(i)]
      /\ todo' = {i \in DOMAIN rows : IsToVerify(i)}
  BY DEF Parse
<1>3. \A i \in DOMAIN rows : ParseVerdict(i) \in {"skipped", "failed", "none"}
  BY DEF ParseVerdict
<1>4. \A i \in DOMAIN rows : IsToVerify(i)' <=> IsToVerify(i)
  BY <1>1 DEF IsToVerify, ParseVerdict, Contradicts, Remembered, Placed, Parses
<1>5. \A i \in DOMAIN rows : ParseVerdict(i)' = ParseVerdict(i)
  BY <1>1 DEF ParseVerdict, Contradicts, Remembered, Placed, Parses
<1>6. TypeOK'
  BY <1>1, <1>2, <1>3, RowTypes DEF EventsInv, TypeOK
<1>7. RowsAccounted'
  BY <1>1, <1>2, <1>4, <1>5 DEF EventsInv, RowsAccounted, IsToVerify
<1>8. \A i \in DOMAIN rows : Stands(i)'
  <2> TAKE i \in DOMAIN rows
  <2>1. ParseVerdict(i) = "skipped" => rows[i].kind = "other"
    BY DEF ParseVerdict
  <2> QED
    BY <2>1, <1>1, <1>2, <1>3 DEF Stands
<1>9. Concluded'
  BY <1>1, <1>2, <1>3 DEF EventsInv, Concluded, Ended, Parse
<1> QED
  BY <1>1, <1>6, <1>7, <1>8, <1>9 DEF EventsInv

\* What a step that leaves the file and the rows' books alone must show.
LEMMA WaitingInv ==
  ASSUME EventsInv, UNCHANGED <<rows, look, outcome>>,
         pc # "parse", pc # "done", pc' \in {"await", "look", "poll"}, pc' = "poll" => todo # {},
         latest' \in latest..Len(Log), covered' = covered,
         waited' \in waited..Budget, polls' = waited',
         unserved' \in SUBSET DOMAIN rows
  PROVE  EventsInv'
<1>1. /\ rows' = rows /\ round' = round /\ todo' = todo /\ deferred' = deferred
      /\ verdict' = verdict /\ outcome' = outcome
  BY DEF look
<1>2. TypeOK'
  BY <1>1, RowTypes, EventsAssumption DEF EventsInv, TypeOK
<1>3. RowsAccounted'
  <2>1. \A i \in DOMAIN rows : ParseVerdict(i)' = ParseVerdict(i)
    BY <1>1 DEF ParseVerdict, Contradicts, Remembered, Placed, Parses
  <2> QED
    BY <2>1, <1>1 DEF EventsInv, RowsAccounted, IsToVerify
<1>4. \A i \in DOMAIN rows : Stands(i)'
  BY <1>1, RowTypes DEF EventsInv, TypeOK, Stands
<1>5. Concluded'
  BY <1>1 DEF EventsInv, Concluded, Ended
<1> QED
  BY <1>1, <1>2, <1>3, <1>4, <1>5 DEF EventsInv
----------------------------------------------------------------------------------
\* There is a row to look at, and it is a row of the file.
LEMMA CurrentIsTodo ==
  ASSUME EventsInv, todo # {}
  PROVE  /\ Current \in todo /\ Current \in DOMAIN rows
         /\ Row \in RowOf
         /\ ParseVerdict(Current) = "none"
<1>1. todo \in SUBSET Nat
  BY RowTypes DEF EventsInv, TypeOK
<1>2. Current \in todo
  BY <1>1, MinIsIn DEF Current
<1> QED
  BY <1>2, RowTypes DEF EventsInv, RowsAccounted, IsToVerify, Row

\* A look at a row keeps the books, whatever its outcome, if the outcome stands.
LEMMA TallyInv ==
  ASSUME EventsInv, todo # {}, pc \in {"look", "poll"},
         NEW oc \in {"failed", "verified", "notLogged", "pending"}, Tally(oc),
         latest' \in latest..Len(Log), covered' = covered,
         waited' \in waited..Budget, polls' = waited',
         unserved' \in SUBSET DOMAIN rows,
         oc = "notLogged" => Row.index = Null,
         oc = "pending" => Row.index \in Nat /\ Row.index >= covered,
         oc = "verified" => /\ Row.index \in Nat /\ Row.index < latest
                            /\ Log[Row.index + 1] \in Hashes(Row.body)
  PROVE  EventsInv'
<1>1. /\ pc' = "look" /\ todo' = todo \ {Current}
      /\ rows' = rows /\ round' = round /\ outcome' = outcome
  BY DEF Tally
<1>2. Current \in todo /\ Current \in DOMAIN rows
  BY CurrentIsTodo
<1>3. \/ /\ round = 1 /\ oc = "pending"
         /\ deferred' = deferred \cup {Current} /\ verdict' = verdict
      \/ /\ deferred' = deferred /\ verdict' = [verdict EXCEPT ![Current] = oc]
  BY DEF Tally
<1>4. TypeOK'
  BY <1>1, <1>2, <1>3, RowTypes, EventsAssumption DEF EventsInv, TypeOK
<1>5. \A i \in DOMAIN rows :
        /\ i # Current => verdict'[i] = verdict[i]
        /\ verdict'[Current] \in {verdict[Current], oc}
  BY <1>2, <1>3 DEF EventsInv, TypeOK
<1>6. RowsAccounted'
  <2>1. \A i \in DOMAIN rows : ParseVerdict(i)' = ParseVerdict(i)
    BY <1>1 DEF ParseVerdict, Contradicts, Remembered, Placed, Parses
  <2>2. \A i \in DOMAIN rows : IsToVerify(i)' <=> IsToVerify(i)
    BY <2>1 DEF IsToVerify
  <2>3. IsToVerify(Current)
    BY <1>2 DEF EventsInv, RowsAccounted
  <2>4. todo' \cup deferred' \subseteq todo \cup deferred
    BY <1>1, <1>2, <1>3
  <2>5. (todo \cup deferred) \ {Current} \subseteq todo' \cup deferred'
    BY <1>1, <1>3
  <2>6. Current \in todo' \cup deferred' \/ verdict'[Current] = oc
    BY <1>2, <1>3 DEF EventsInv, TypeOK
  <2>7. \A i \in DOMAIN rows :
          /\ ~IsToVerify(i) => verdict'[i] = ParseVerdict(i)
          /\ verdict'[i] = "none" => i \in todo' \cup deferred'
    <3> TAKE i \in DOMAIN rows
    <3>1. CASE i = Current
      BY <3>1, <2>3, <2>6
    <3>2. CASE i # Current
      BY <3>2, <1>5, <2>5 DEF EventsInv, RowsAccounted
    <3> QED
      BY <3>1, <3>2
  <2>8. round' = 2 => deferred' = {}
    BY <1>1, <1>3 DEF EventsInv, RowsAccounted
  <2>9. todo' \cup deferred' \subseteq {i \in DOMAIN rows : IsToVerify(i)'}
    BY <2>2, <2>4 DEF EventsInv, RowsAccounted
  <2> QED
    BY <2>1, <2>2, <2>7, <2>8, <2>9, <1>1 DEF RowsAccounted
<1>7. \A i \in DOMAIN rows : Stands(i)'
  <2> TAKE i \in DOMAIN rows
  <2>1. latest \in Nat /\ latest' \in Nat /\ latest <= latest'
    BY RowTypes DEF EventsInv, TypeOK
  <2>2. CASE i # Current \/ verdict'[i] = verdict[i]
    BY <2>1, <2>2, <1>1, <1>5 DEF EventsInv, Stands
  <2>3. CASE i = Current /\ verdict'[i] = oc
    BY <2>1, <2>3, <1>1 DEF Stands, Row
  <2> QED
    BY <2>2, <2>3, <1>5
<1>8. Concluded'
  BY <1>1 DEF EventsInv, Concluded, Ended
<1> QED
  BY <1>1, <1>4, <1>6, <1>7, <1>8 DEF EventsInv
----------------------------------------------------------------------------------
\* A step of the wait is paid for.
LEMMA PollIsPaid ==
  ASSUME EventsInv, Poll
  PROVE  covered' = covered /\ waited' \in waited..Budget /\ polls' = waited'
BY EventsAssumption DEF EventsInv, TypeOK, Poll

LEMMA NoWait ==
  ASSUME EventsInv, UNCHANGED wait
  PROVE  covered' = covered /\ waited' \in waited..Budget /\ polls' = waited'
BY EventsAssumption DEF EventsInv, TypeOK, wait

LEMMA RequestIsPaid ==
  ASSUME EventsInv, Request
  PROVE  covered' = covered /\ waited' \in waited..Budget /\ polls' = waited'
BY PollIsPaid, NoWait DEF Request

\* A head that stays is a head that did not move back.
LEMMA HeadStays == EventsInv => latest \in latest..Len(Log)
BY RowTypes DEF EventsInv, TypeOK

\* Waiting for a checkpoint.
LEMMA AwaitInv ==
  ASSUME EventsInv,
         (\E size \in 0..Len(Log) : ReadCheckpoint(size)) \/ StartLooking
  PROVE  EventsInv'
<1>1. unserved \in SUBSET DOMAIN rows
  BY DEF EventsInv, TypeOK
<1>2. CASE \E size \in 0..Len(Log) : ReadCheckpoint(size)
  BY <1>1, <1>2, WaitingInv, PollIsPaid DEF ReadCheckpoint
<1>3. CASE StartLooking
  BY <1>1, <1>3, WaitingInv, NoWait, HeadStays DEF StartLooking
<1> QED
  BY <1>2, <1>3

LEMMA NoRequestInv ==
  ASSUME EventsInv, NoRequest
  PROVE  EventsInv'
<1>1. todo # {} /\ pc = "look" /\ latest' = latest /\ UNCHANGED wait /\ ~IsAsked
  BY DEF NoRequest, Looking
<1>2. Current \in DOMAIN rows /\ Row \in RowOf /\ ParseVerdict(Current) = "none"
  BY <1>1, CurrentIsTodo
<1>3. unserved' \in SUBSET DOMAIN rows
  BY DEF NoRequest, EventsInv, TypeOK
<1>4. latest \in Nat /\ covered \in Nat /\ covered <= latest
  BY RowTypes DEF EventsInv, TypeOK
<1>5. Row.kind \in {"foreign", "event"}
  BY <1>2 DEF RowOf, Kind, ParseVerdict, Row
<1>6. PICK oc \in {"failed", "notLogged", "pending"} :
        /\ Tally(oc)
        /\ oc = "notLogged" => Row.kind = "event" /\ Row.index = Null
        /\ oc = "pending" => Row.kind = "event" /\ Row.index # Null
  BY <1>5 DEF NoRequest
<1>7. oc = "pending" => Row.index \in Nat /\ Row.index >= covered
  BY <1>1, <1>2, <1>4, <1>6 DEF IsAsked, RowOf
<1> QED
  BY <1>1, <1>3, <1>6, <1>7, TallyInv, NoWait, HeadStays

LEMMA ServedInv ==
  ASSUME EventsInv, NEW oc \in {"verified", "failed"}, NEW size \in 0..Len(Log),
         Served(oc, size)
  PROVE  EventsInv'
<1>1. todo # {} /\ pc \in {"look", "poll"} /\ latest' \in latest..Len(Log) /\ Tally(oc)
  BY DEF Served, Looking
<1>2. Row \in RowOf /\ Current \in DOMAIN rows
  BY <1>1, CurrentIsTodo
<1>3. Row.index \in Nat /\ Row.index < latest
  BY <1>2 DEF Served, IsAsked, RowOf
<1>4. unserved' \in SUBSET DOMAIN rows
  BY DEF Served, EventsInv, TypeOK
<1>5. covered' = covered /\ waited' \in waited..Budget /\ polls' = waited'
  BY RequestIsPaid DEF Served
<1>6. oc = "verified" => Log[Row.index + 1] \in Hashes(Row.body)
  BY DEF Served
<1> QED
  BY <1>1, <1>3, <1>4, <1>5, <1>6, TallyInv

LEMMA NotServedInv ==
  ASSUME EventsInv, NotServed
  PROVE  EventsInv'
<1>1. todo # {} /\ pc = "look" /\ latest' = latest /\ UNCHANGED wait
  BY DEF NotServed, Looking
<1>2. Row \in RowOf /\ Current \in DOMAIN rows
  BY <1>1, CurrentIsTodo
<1>3. Row.index \in Nat
  BY <1>2 DEF NotServed, IsAsked, RowOf
<1>4. unserved' \in SUBSET DOMAIN rows
  BY <1>2 DEF NotServed, EventsInv, TypeOK
<1>5. latest \in Nat /\ covered \in Nat
  BY RowTypes DEF EventsInv, TypeOK
<1>6. CASE IsRuledOn
  BY <1>1, <1>4, <1>6, WaitingInv, NoWait, HeadStays DEF NotServed
<1>7. CASE ~IsRuledOn
  BY <1>1, <1>3, <1>4, <1>5, <1>7, TallyInv, NoWait, HeadStays DEF NotServed, IsRuledOn
<1> QED
  BY <1>6, <1>7

LEMMA PollingInv ==
  ASSUME EventsInv, StillNotServed \/ Declined
  PROVE  EventsInv'
<1>1. unserved \in SUBSET DOMAIN rows
  BY DEF EventsInv, TypeOK
<1>2. pc = "poll" /\ todo # {} /\ latest' = latest /\ unserved' = unserved
  BY DEF StillNotServed, Declined, EventsInv, RowsAccounted
<1>3. CASE StillNotServed
  BY <1>1, <1>2, <1>3, WaitingInv, PollIsPaid, HeadStays DEF StillNotServed
<1>4. CASE Declined
  BY <1>1, <1>2, <1>4, TallyInv, NoWait, HeadStays DEF Declined
<1> QED
  BY <1>3, <1>4

\* The held-back rows are all there is to look at in the second round.
LEMMA SecondLookInv ==
  ASSUME EventsInv, SecondLook
  PROVE  EventsInv'
<1>1. /\ pc = "look" /\ pc' = "look" /\ todo = {} /\ round' = 2
      /\ todo' = deferred /\ deferred' = {}
      /\ rows' = rows /\ latest' = latest /\ covered' = covered /\ waited' = waited
      /\ polls' = polls /\ verdict' = verdict /\ outcome' = outcome /\ unserved' = unserved
  BY DEF SecondLook, wait
<1>2. TypeOK'
  BY <1>1 DEF EventsInv, TypeOK
<1>3. RowsAccounted'
  <2>1. \A i \in DOMAIN rows : ParseVerdict(i)' = ParseVerdict(i)
    BY <1>1 DEF ParseVerdict, Contradicts, Remembered, Placed, Parses
  <2> QED
    BY <2>1, <1>1 DEF EventsInv, RowsAccounted, IsToVerify
<1>4. \A i \in DOMAIN rows : Stands(i)'
  BY <1>1 DEF EventsInv, Stands
<1>5. Concluded'
  BY <1>1 DEF EventsInv, Concluded, Ended
<1> QED
  BY <1>1, <1>2, <1>3, <1>4, <1>5 DEF EventsInv

\* The ways to end.
LEMMA EndInv ==
  ASSUME EventsInv, Finish \/ Breaks
  PROVE  EventsInv'
<1>1. /\ pc # "parse" /\ pc' = "done" /\ UNCHANGED <<rows, latest, look, unserved>>
      /\ covered' = covered /\ waited' \in waited..Budget /\ polls' = waited'
  BY PollIsPaid, RequestIsPaid, NoWait DEF Finish, Breaks, Looking
<1>2. /\ rows' = rows /\ latest' = latest /\ round' = round /\ todo' = todo
      /\ deferred' = deferred /\ verdict' = verdict /\ unserved' = unserved
  BY <1>1 DEF look
<1>3. \/ /\ outcome' \in {"ok", "unchecked"} /\ todo = {} /\ deferred = {}
         /\ outcome' = "ok" => Reported("pending") = {}
      \/ outcome' = "error"
  BY DEF Finish, Breaks, EventsInv, RowsAccounted
<1>4. TypeOK'
  BY <1>1, <1>2, <1>3, EventsAssumption DEF EventsInv, TypeOK
<1>5. RowsAccounted'
  <2>1. \A i \in DOMAIN rows : ParseVerdict(i)' = ParseVerdict(i)
    BY <1>2 DEF ParseVerdict, Contradicts, Remembered, Placed, Parses
  <2> QED
    BY <2>1, <1>1, <1>2 DEF EventsInv, RowsAccounted, IsToVerify
<1>6. \A i \in DOMAIN rows : Stands(i)'
  BY <1>1, <1>2 DEF EventsInv, Stands
<1>7. Concluded'
  BY <1>1, <1>2, <1>3 DEF EventsInv, Concluded, Ended, Reported
<1> QED
  BY <1>1, <1>2, <1>4, <1>5, <1>6, <1>7 DEF EventsInv

LEMMA EventsInvNext == EventsInv /\ [Next]_vars => EventsInv'
<1> SUFFICES ASSUME EventsInv, [Next]_vars PROVE EventsInv'
  OBVIOUS
<1>1. CASE UNCHANGED vars
  <2>1. \A i \in DOMAIN rows : ParseVerdict(i)' = ParseVerdict(i)
    BY <1>1 DEF vars, look, ParseVerdict, Contradicts, Remembered, Placed, Parses
  <2> QED
    BY <2>1, <1>1 DEF vars, wait, look, EventsInv, TypeOK, RowsAccounted, IsToVerify,
                      Stands, Concluded, Ended, Reported
<1>2. CASE Next
  BY <1>2, ParseInv, AwaitInv, NoRequestInv, ServedInv, NotServedInv, PollingInv,
     SecondLookInv, EndInv DEF Next
<1> QED
  BY <1>1, <1>2

\* VerifyEvents accounts for every row, and every verdict it has given stands.
THEOREM EventsInvariance == Spec => []EventsInv
  BY EventsInvInit, EventsInvNext, PTL DEF Spec
----------------------------------------------------------------------------------
(***************************************************************************)
(* What follows.                                                           *)
(***************************************************************************)

\* What a pass keeps about a file has its types.
THEOREM TypeCorrect == Spec => []TypeOK
<1>1. EventsInv => TypeOK
  BY DEF EventsInv
<1> QED
  BY <1>1, EventsInvariance, PTL

\* A file that waits for a checkpoint and then for proofs waits once: the re-reads of
\* awaitCoverage and of every unserved proof together stay within one budget.
THEOREM WaitsOnceHolds == Spec => []WaitsOnce
<1>1. EventsInv => WaitsOnce
  BY EventsAssumption DEF EventsInv, TypeOK, WaitsOnce
<1> QED
  BY <1>1, EventsInvariance, PTL

\* A pass that ends has judged every row, however rows were held back.
THEOREM EveryRowJudgedHolds == Spec => []EveryRowJudged
<1>1. EventsInv => EveryRowJudged
  <2> SUFFICES ASSUME EventsInv, Ended, NEW i \in DOMAIN rows, verdict[i] = "none"
               PROVE  FALSE
    BY DEF EveryRowJudged, Reported
  <2>1. pc = "done" /\ todo = {} /\ deferred = {}
    BY DEF EventsInv, Concluded, Ended
  <2> QED
    BY <2>1 DEF EventsInv, RowsAccounted
<1> QED
  BY <1>1, EventsInvariance, PTL

\* An index published before the wait began is never left to a rerun.
THEOREM WithheldIsRuledOnHolds == Spec => []WithheldIsRuledOn
<1>1. EventsInv => WithheldIsRuledOn
  BY DEF EventsInv, Stands, WithheldIsRuledOn, Reported
<1> QED
  BY <1>1, EventsInvariance, PTL

\* Of the copies of an id that name a place, one is the first, and every other one is
\* compared with it.
LEMMA FirstPlaced ==
  ASSUME EventsInv, NEW i \in DOMAIN rows, Placed(i)
  PROVE  \E f \in DOMAIN rows :
           /\ Placed(f) /\ rows[f].id = rows[i].id
           /\ \A j \in DOMAIN rows :
                Placed(j) /\ rows[j].id = rows[i].id /\ j # f => Remembered(j, f)
<1> DEFINE Copies == {j \in DOMAIN rows : Placed(j) /\ rows[j].id = rows[i].id}
<1>1. Copies \in SUBSET Nat /\ Copies # {}
  BY RowTypes
<1>2. Min(Copies) \in Copies /\ \A j \in Copies : Min(Copies) <= j
  BY <1>1, MinIsIn
<1>3. DOMAIN rows = 1..Len(rows) /\ Len(rows) \in Nat
  BY EventsAssumption DEF EventsInv
<1>4. PICK f \in Copies : \A j \in Copies : f <= j
  BY <1>2
<1>5. \A k \in 1..(f - 1) : k \in DOMAIN rows /\ k \notin Copies
  BY <1>3, <1>4
<1>6. ASSUME NEW j \in Copies, j # f PROVE Remembered(j, f)
  <2>1. f < j
    BY <1>1, <1>4, <1>6
  <2>2. \A k \in 1..(f - 1) : ~(Placed(k) /\ rows[k].id = rows[j].id)
    BY <1>5
  <2> QED
    BY <2>1, <2>2 DEF Remembered
<1> QED
  BY <1>6

\* A file that passes is committed row by row where it says, and gives no id two places.
THEOREM CleanFileIsCommittedHolds == Spec => []CleanFileIsCommitted
<1>1. EventsInv => CleanFileIsCommitted
  <2> SUFFICES ASSUME EventsInv, outcome = "ok", Reported("failed") = {},
                      NEW i \in DOMAIN rows, Placed(i)
               PROVE  /\ rows[i].index < latest
                      /\ Log[rows[i].index + 1] \in Hashes(rows[i].body)
                      /\ \A j \in DOMAIN rows :
                           Placed(j) /\ rows[j].id = rows[i].id =>
                             rows[j].index = rows[i].index
    BY DEF CleanFileIsCommitted
  <2>1. pc = "done" /\ todo = {} /\ deferred = {} /\ Reported("pending") = {}
    BY DEF EventsInv, Concluded, Ended
  <2>2. verdict[i] \notin {"none", "pending", "failed"}
    BY <2>1 DEF EventsInv, RowsAccounted, Reported
  <2>3. verdict[i] \notin {"skipped", "notLogged"}
    BY DEF EventsInv, Stands, Placed, Parses
  <2>4. verdict[i] = "verified"
    BY <2>2, <2>3 DEF EventsInv, TypeOK
  <2>5. \A j \in DOMAIN rows : Placed(j) => ~Contradicts(j)
    <3> SUFFICES ASSUME NEW j \in DOMAIN rows, Placed(j), Contradicts(j) PROVE FALSE
      OBVIOUS
    <3>1. ParseVerdict(j) = "failed"
      BY DEF ParseVerdict, Placed, Parses
    <3>2. verdict[j] = "failed"
      BY <3>1, <2>1 DEF EventsInv, RowsAccounted, IsToVerify
    <3> QED
      BY <3>2 DEF Reported
  <2>6. PICK f \in DOMAIN rows :
          \A j \in DOMAIN rows :
            Placed(j) /\ rows[j].id = rows[i].id /\ j # f => Remembered(j, f)
    BY FirstPlaced
  <2>7. \A j \in DOMAIN rows :
          Placed(j) /\ rows[j].id = rows[i].id => rows[j].index = rows[f].index
    BY <2>5, <2>6 DEF Contradicts
  <2> QED
    BY <2>4, <2>7 DEF EventsInv, Stands
<1> QED
  BY <1>1, EventsInvariance, PTL
----------------------------------------------------------------------------------
(***************************************************************************)
(* A pass counts down.                                                     *)
(***************************************************************************)

\* What is left of the looks: a row is at most asked for and told in each of them.
LooksLeft ==
  IF round = 1 THEN 4 * Cardinality(todo) + 2 * Cardinality(deferred) + 2
  ELSE 2 * Cardinality(todo) + 1

WaitsLeft == Budget - waited

\* What is left of a pass: the budget for re-reads, and the looks.
StepsLeft ==
  CASE pc = "parse" -> WaitsLeft + 4 * Len(rows) + 4
    [] pc = "await" -> WaitsLeft + LooksLeft + 1
    [] pc = "look"  -> WaitsLeft + LooksLeft
    [] pc = "poll"  -> WaitsLeft + LooksLeft - 1
    [] OTHER        -> 0

\* The rows to look at are finitely many, and no more than the file has.
LEMMA RowsAreCounted ==
  ASSUME EventsInv
  PROVE  /\ IsFiniteSet(todo) /\ IsFiniteSet(deferred) /\ IsFiniteSet(DOMAIN rows)
         /\ Cardinality(todo) \in Nat /\ Cardinality(deferred) \in Nat
         /\ Cardinality(DOMAIN rows) = Len(rows) /\ Len(rows) \in Nat
<1>1. DOMAIN rows = 1..Len(rows) /\ Len(rows) \in Nat
  BY EventsAssumption DEF EventsInv
<1>2. IsFiniteSet(DOMAIN rows) /\ Cardinality(DOMAIN rows) = Len(rows)
  <2> DEFINE n == Len(rows)
  <2>1. n \in Nat /\ DOMAIN rows = 1..n
    BY <1>1
  <2> HIDE DEF n
  <2>2. IsFiniteSet(1..n) /\ Cardinality(1..n) = IF 1 > n THEN 0 ELSE n - 1 + 1
    BY <2>1, FS_Interval
  <2>3. IsFiniteSet(DOMAIN rows) /\ Cardinality(DOMAIN rows) = n
    BY <2>1, <2>2
  <2> QED
    BY <2>3 DEF n
<1>3. todo \in SUBSET DOMAIN rows /\ deferred \in SUBSET DOMAIN rows
  BY DEF EventsInv, TypeOK
<1>4. IsFiniteSet(todo) /\ IsFiniteSet(deferred)
  BY <1>2, <1>3, FS_Subset
<1>5. Cardinality(todo) \in Nat /\ Cardinality(deferred) \in Nat
  BY <1>4, FS_CardinalityType
<1> QED
  BY <1>1, <1>2, <1>4, <1>5

\* A row that is to look at is one of them: no poll is the last step.
LEMMA SomeRowIsLeft ==
  ASSUME EventsInv, todo # {}
  PROVE  Cardinality(todo) \in Nat \ {0}
<1>1. IsFiniteSet(todo) /\ Cardinality(todo) \in Nat
  BY RowsAreCounted
<1> QED
  BY <1>1, FS_EmptySet

\* What is left of a pass is a number, and no more than there was to begin with.
LEMMA LooksLeftBounds ==
  ASSUME EventsInv
  PROVE  /\ LooksLeft \in Nat \ {0}
         /\ todo # {} => LooksLeft \in Nat \ {0, 1, 2}
<1>1. Cardinality(todo) \in Nat /\ Cardinality(deferred) \in Nat
  BY RowsAreCounted
<1>2. todo # {} => Cardinality(todo) # 0
  BY SomeRowIsLeft
<1> QED
  BY <1>1, <1>2 DEF LooksLeft

\* The budget is never overdrawn, nor replenished.
LEMMA WaitsLeftFall ==
  ASSUME EventsInv, waited' \in waited..Budget
  PROVE  WaitsLeft \in Nat /\ WaitsLeft' \in Nat /\ WaitsLeft' <= WaitsLeft
<1>1. \A b, w, v \in Nat : w <= v /\ v <= b => b - w \in Nat /\ b - v \in Nat /\ b - v <= b - w
  OBVIOUS
<1>2. Budget \in Nat /\ waited \in Nat /\ waited' \in Nat /\ waited <= waited' /\ waited' <= Budget
  BY EventsAssumption DEF EventsInv, TypeOK
<1> QED
  BY <1>1, <1>2, Zenon DEF WaitsLeft

LEMMA StepsLeftNat ==
  ASSUME EventsInv
  PROVE  StepsLeft \in Nat
<1>1. LooksLeft \in Nat \ {0} /\ Len(rows) \in Nat
  BY LooksLeftBounds, RowsAreCounted
<1>2. WaitsLeft \in Nat
  BY EventsAssumption DEF EventsInv, TypeOK, WaitsLeft
<1> QED
  BY <1>1, <1>2 DEF StepsLeft

\* The rows parsed out are never looked at.
LEMMA ParseIsLess ==
  ASSUME EventsInv, Parse
  PROVE  StepsLeft' < StepsLeft
<1>1. /\ pc = "parse" /\ pc' = "await" /\ rows' = rows /\ waited' = waited
      /\ round' = 1 /\ deferred' = {} /\ todo' \in SUBSET DOMAIN rows
  BY DEF Parse, EventsInv, RowsAccounted
<1>2. /\ Cardinality(todo') \in Nat /\ Cardinality(todo') <= Len(rows)
      /\ Cardinality(deferred') = 0 /\ Len(rows) \in Nat
  BY <1>1, RowsAreCounted, FS_Subset, FS_CardinalityType, FS_EmptySet
<1>3. WaitsLeft \in Nat /\ WaitsLeft' = WaitsLeft
  BY <1>1, EventsAssumption DEF EventsInv, TypeOK, WaitsLeft
<1>4. StepsLeft = WaitsLeft + 4 * Len(rows) + 4
  BY <1>1 DEF StepsLeft
<1>5. StepsLeft' = WaitsLeft + (4 * Cardinality(todo') + 2 * Cardinality(deferred') + 2) + 1
  BY <1>1, <1>3 DEF StepsLeft, LooksLeft
<1> QED
  BY <1>2, <1>3, <1>4, <1>5

\* Waiting costs budget, and leaves it for good.
LEMMA AwaitIsLess ==
  ASSUME EventsInv,
         \/ \E size \in 0..Len(Log) : ReadCheckpoint(size)
         \/ StartLooking
         \/ StillNotServed
         \/ NotServed /\ pc' = "poll"
  PROVE  StepsLeft' < StepsLeft
<1>1. LooksLeft' = LooksLeft
  <2>1. round' = round /\ todo' = todo /\ deferred' = deferred
    BY DEF ReadCheckpoint, StartLooking, StillNotServed, NotServed, Tally, look
  <2> QED
    BY <2>1 DEF LooksLeft
<1>2. waited \in Int /\ Budget \in Int /\ LooksLeft \in Nat
  BY EventsAssumption, LooksLeftBounds DEF EventsInv, TypeOK
<1>3. \/ pc = "await" /\ pc' = "await" /\ waited' = waited + 1
      \/ pc = "await" /\ pc' = "look" /\ waited' = waited
      \/ pc = "poll" /\ pc' = "poll" /\ waited' = waited + 1
      \/ pc = "look" /\ pc' = "poll" /\ waited' = waited
  BY DEF ReadCheckpoint, StartLooking, StillNotServed, NotServed, Poll, wait
<1> QED
  BY <1>1, <1>2, <1>3 DEF StepsLeft, WaitsLeft

\* A row that has been looked at is not looked at again in its round, and a row held
\* back is looked at once more.
LEMMA TallyIsLess ==
  ASSUME EventsInv, pc \in {"look", "poll"}, todo # {}, waited' \in waited..Budget,
         NEW oc, Tally(oc)
  PROVE  StepsLeft' < StepsLeft
<1>1. pc' = "look" /\ round' = round /\ todo' = todo \ {Current}
  BY DEF Tally
<1>2. deferred' = deferred \/ (round = 1 /\ deferred' = deferred \cup {Current})
  BY DEF Tally
<1>3. Current \in todo
  BY CurrentIsTodo
<1>4. IsFiniteSet(todo) /\ IsFiniteSet(deferred)
  BY RowsAreCounted
<1> DEFINE t == Cardinality(todo)
           d == Cardinality(deferred)
<1>5. t \in Nat /\ d \in Nat
  BY RowsAreCounted
<1>6. Cardinality(todo') = t - 1
  BY <1>1, <1>3, <1>4, FS_RemoveElement
<1>7. Cardinality(deferred') \in d..(d + 1) /\ (round # 1 => deferred' = deferred)
  <2>1. Cardinality(deferred \cup {Current}) = IF Current \in deferred THEN d ELSE d + 1
    BY <1>4, FS_AddElement
  <2> HIDE DEF d
  <2>2. Cardinality(deferred \cup {Current}) \in d..(d + 1)
    BY <2>1, <1>5
  <2>3. CASE deferred' = deferred
    <3>1. Cardinality(deferred') = d
      BY <2>3 DEF d
    <3> QED
      BY <2>3, <3>1, <1>5
  <2>4. CASE round = 1 /\ deferred' = deferred \cup {Current}
    BY <2>2, <2>4
  <2> QED
    BY <1>2, <2>3, <2>4
<1>8. WaitsLeft \in Nat /\ WaitsLeft' \in Nat /\ WaitsLeft' <= WaitsLeft
  BY WaitsLeftFall
<1>9. StepsLeft \in {WaitsLeft + LooksLeft, WaitsLeft + LooksLeft - 1}
  BY DEF StepsLeft
<1>10. StepsLeft' = WaitsLeft' + LooksLeft'
  BY <1>1 DEF StepsLeft
<1>11. LooksLeft = IF round = 1 THEN 4 * t + 2 * d + 2 ELSE 2 * t + 1
  BY DEF LooksLeft
<1>12. LooksLeft' = IF round = 1 THEN 4 * (t - 1) + 2 * Cardinality(deferred') + 2
                    ELSE 2 * (t - 1) + 1
  BY <1>1, <1>6 DEF LooksLeft
<1> HIDE DEF t, d
<1>13. LooksLeft' <= LooksLeft - 2 /\ LooksLeft \in Int /\ LooksLeft' \in Int
  <2>1. CASE round = 1
    BY <2>1, <1>5, <1>7, <1>11, <1>12
  <2>2. CASE round # 1
    BY <2>2, <1>5, <1>11, <1>12
  <2> QED
    BY <2>1, <2>2
<1>14. \A w, v, l, k \in Int : v <= w /\ k <= l - 2 => v + k < w + l /\ v + k < w + l - 1
  OBVIOUS
<1>15. WaitsLeft \in Int /\ WaitsLeft' \in Int
  BY <1>8
<1>16. /\ WaitsLeft' + LooksLeft' < WaitsLeft + LooksLeft
       /\ WaitsLeft' + LooksLeft' < WaitsLeft + LooksLeft - 1
  BY <1>8, <1>13, <1>14, <1>15, Zenon
<1> QED
  BY <1>9, <1>10, <1>16, Zenon

\* The looks at single rows.
LEMMA RowIsLess ==
  ASSUME EventsInv,
         \/ NoRequest
         \/ \E oc \in {"verified", "failed"}, size \in 0..Len(Log) : Served(oc, size)
         \/ NotServed \/ Declined
  PROVE  StepsLeft' < StepsLeft
<1>1. CASE NotServed /\ IsRuledOn
  BY <1>1, AwaitIsLess DEF NotServed
<1>2. CASE ~(NotServed /\ IsRuledOn)
  <2>1. \E oc : Tally(oc)
    BY <1>2 DEF NoRequest, Served, NotServed, Declined
  <2>2. pc \in {"look", "poll"} /\ todo # {}
    BY DEF NoRequest, Served, NotServed, Declined, Looking, EventsInv, RowsAccounted
  <2>3. waited' \in waited..Budget
    BY NoWait, RequestIsPaid DEF NoRequest, Served, NotServed, Declined
  <2> QED
    BY <2>1, <2>2, <2>3, TallyIsLess
<1> QED
  BY <1>1, <1>2

\* Between the rounds and at the end.
LEMMA EndIsLess ==
  ASSUME EventsInv, SecondLook \/ Finish \/ Breaks
  PROVE  StepsLeft' < StepsLeft
<1>1. CASE SecondLook
  <2>1. /\ pc = "look" /\ pc' = "look" /\ waited' = waited /\ round = 1 /\ round' = 2
        /\ todo = {} /\ todo' = deferred
    BY <1>1 DEF SecondLook, wait
  <2>2. Cardinality(todo) \in Nat /\ Cardinality(deferred) \in Nat /\ Cardinality(todo) = 0
    BY <2>1, RowsAreCounted, FS_EmptySet
  <2>3. LooksLeft = 2 * Cardinality(deferred) + 2 /\ LooksLeft' = 2 * Cardinality(deferred) + 1
    BY <2>1, <2>2 DEF LooksLeft
  <2>4. StepsLeft = WaitsLeft + LooksLeft /\ StepsLeft' = WaitsLeft + LooksLeft'
    BY <2>1 DEF StepsLeft, WaitsLeft
  <2>5. WaitsLeft \in Nat
    BY EventsAssumption DEF EventsInv, TypeOK, WaitsLeft
  <2> QED
    BY <2>2, <2>3, <2>4, <2>5
<1>2. CASE Finish \/ Breaks
  <2>1. pc \in {"await", "look", "poll"} /\ pc' = "done" /\ (pc = "poll" => todo # {})
    BY <1>2 DEF Finish, Breaks, Looking
  <2>2. WaitsLeft \in Nat
    BY EventsAssumption DEF EventsInv, TypeOK, WaitsLeft
  <2>3. LooksLeft \in Nat \ {0} /\ (todo # {} => LooksLeft \in Nat \ {0, 1, 2})
    BY LooksLeftBounds
  <2>4. StepsLeft' = 0
    BY <2>1 DEF StepsLeft
  <2>5. StepsLeft > 0
    BY <2>1, <2>2, <2>3 DEF StepsLeft
  <2> QED
    BY <2>4, <2>5
<1> QED
  BY <1>1, <1>2

\* The pass ends (PassEnds) because every step of it brings its end nearer, whatever the
\* log serves or withholds and however often its head moves.  From the start of a pass,
\* where StepsLeft is Budget + 4 * Len(rows) + 4, it makes no more steps than that.
THEOREM PassCountsDown ==
  Spec => [](StepsLeft \in Nat) /\ [][StepsLeft' < StepsLeft]_vars
<1>1. EventsInv /\ [Next]_vars => [StepsLeft' < StepsLeft]_vars
  BY ParseIsLess, AwaitIsLess, RowIsLess, EndIsLess DEF Next
<1> QED
  BY <1>1, StepsLeftNat, EventsInvariance, PTL DEF Spec
==================================================================================
