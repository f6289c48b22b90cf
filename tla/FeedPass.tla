--------------------------------- MODULE FeedPass ---------------------------------
(***************************************************************************)
(* The scheduled pass over the activity feed (verifier.go: Run, coalesce,  *)
(* recheckDone, settle, verifyEvent; state.go: FeedState) and the state it *)
(* leaves for the next pass (cmd/axt-verify/main.go).                      *)
(*                                                                         *)
(* The feed is untrusted: a page is any page of Pages, whatever was asked  *)
(* for, and an inclusion request is answered with a right proof only for a *)
(* leaf the log committed, but otherwise as the log pleases.  The head is  *)
(* the session's latest checkpoint, of which Session shows that it stays   *)
(* on one history; Log is that history.                                    *)
(***************************************************************************)
EXTENDS Leaf, Sequences, Integers, FiniteSetsExt

CONSTANTS
  Id,         \* activity ids
  Null,       \* no leaf index
  Pages,      \* the pages the feed can serve, each a sequence of raw copies
  Files,      \* the feed states a first pass can start from
  Log,        \* the leaves the log commits, in order
  Overlap,    \* how far behind the high-water mark a pass reads
  Grace,      \* how long an event may await a covering checkpoint
  MaxSkew,    \* how far ahead of this clock a served time may move the mark
  MaxPages,   \* the page limit of a pass
  MaxNow      \* bounds the clock, in the runs only

\* A raw copy is an activity as a page carries it.  What does not parse still has an id.
Unparsable == [content |-> "unparsable", profile |-> NoProfile]
Raw == [id : Id, index : Nat \cup {Null}, body : Body \cup {Unparsable}, created : Nat]

\* What the state file keeps of the feed.
MapsIdsTo(f, records) == DOMAIN f \subseteq Id /\ \A id \in DOMAIN f : f[id] \in records
DoneRecord == [index : Nat, hash : LeafHash, recordedAt : Nat]
PendingRecord == [index : Nat, hash : LeafHash, hashes : SUBSET LeafHash, firstSeen : Nat]
IsFeedState(feed) ==
  /\ feed = [highWater |-> feed.highWater, done |-> feed.done, pending |-> feed.pending]
  /\ feed.highWater \in Nat
  /\ MapsIdsTo(feed.done, DoneRecord) /\ MapsIdsTo(feed.pending, PendingRecord)

\* A done record stands for an event that the log committed where the record says, and a
\* pending one for the event that its hashes are of.
IsCommitted(d) ==
  \E b \in Body : d.hash \in Hashes(b) /\ d.index < Len(Log) /\ Log[d.index + 1] \in Hashes(b)
IsOfOneEvent(pe) == \E b \in Body : pe.hash \in Hashes(b) /\ pe.hashes \subseteq Hashes(b)

ASSUME FeedAssumption ==
  /\ Overlap \in Nat /\ Grace \in Nat /\ MaxSkew \in Nat
  /\ MaxPages \in Nat \ {0} /\ MaxNow \in Nat
  /\ Null \notin Nat
  /\ Log \in Seq(LeafHash)
  /\ Pages \subseteq Seq(Raw)
  /\ \A feed \in Files :
       /\ IsFeedState(feed)
       /\ feed.highWater <= 1 + MaxSkew
       /\ DOMAIN feed.done \cap DOMAIN feed.pending = {}
       /\ \A id \in DOMAIN feed.done : IsCommitted(feed.done[id])
       /\ \A id \in DOMAIN feed.pending : IsOfOneEvent(feed.pending[id])

VARIABLES
  pc,         \* where the pass is
  now,        \* the clock; a pass reads it once, when it starts
  head,       \* the size of the session's latest checkpoint
  file,       \* the feed state in the state file
  st,         \* the feed state in memory
  mark,       \* the high-water mark this pass would save
  pages,      \* pages read
  batch,      \* coalesced copies of the current page still to process
  seen,       \* the copy each id was last taken from, this pass
  rep,        \* what the pass reports, and its book-keeping by id
  broke,      \* why reading broke off
  outcome,    \* how the pass ended
  served,     \* history: the parsed copies this pass was served
  last        \* history: when each id last failed and last had a verdict deferred

passVars == <<st, mark, pages, batch, seen, rep, broke, served>>
vars == <<pc, now, head, file, passVars, outcome, last>>

TakenCopy == [id : Id, index : Nat \cup {Null}, body : Body, created : Nat,
              at : Nat, conflict : BOOLEAN]
Report == [failed : SUBSET Id, notLogged : SUBSET Id, pending : SUBSET Id,
           withdrawn : SUBSET Id, listed : SUBSET Id, deferred : SUBSET Id,
           truncated : BOOLEAN, complete : BOOLEAN]

NoFeedState == [highWater |-> 0, done |-> <<>>, pending |-> <<>>]
Never == [id \in Id |-> 0]
NoReport == [failed |-> {}, notLogged |-> {}, pending |-> {},
             withdrawn |-> {}, listed |-> {}, deferred |-> {},
             truncated |-> FALSE, complete |-> FALSE]

Set(f, k, v) == [x \in DOMAIN f \cup {k} |-> IF x = k THEN v ELSE f[x]]
Drop(f, k) == [x \in DOMAIN f \ {k} |-> f[x]]
----------------------------------------------------------------------------------
(***************************************************************************)
(* coalesce: one entry per id on a page; an indexed copy supersedes a null *)
(* one, and two indexed copies that differ are a conflict.                 *)
(***************************************************************************)
\* Slip: only the places of two copies are compared.
DifferInPlace(a, b) == a.index # b.index

Differ(a, b) == a.index # b.index \/ Hash(a.body) # Hash(b.body)

Parsed(page) == {i \in DOMAIN page : page[i].body # Unparsable}

\* What becomes of the copies of one id: the first that names a place is kept, in the
\* window where the first of them all stands, and every later one is held against it.
Coalesced(page, id) ==
  LET own == {i \in Parsed(page) : page[i].id = id}
      placed == {i \in own : page[i].index # Null}
      kept == page[Min(IF placed = {} THEN own ELSE placed)]
  IN [id |-> id, index |-> kept.index, body |-> kept.body,
      created |-> page[Min(own)].created, at |-> Min(own),
      conflict |-> \E i \in placed : Differ(kept, page[i])]

Coalesce(page) == {Coalesced(page, page[i].id) : i \in Parsed(page)}

\* The loop of coalesce, copy by copy over the list it returns, which Coalesce says in
\* closed form.
Listed(raw, created) == [id |-> raw.id, index |-> raw.index, body |-> raw.body,
                         created |-> created, conflict |-> FALSE]
Merged(cur, raw) ==
  IF cur.id # raw.id \/ cur.conflict \/ raw.index = Null THEN cur
  ELSE IF cur.index # Null THEN [cur EXCEPT !.conflict = Differ(cur, raw)]
  ELSE Listed(raw, cur.created)
TakeIn(out, raw) ==
  IF raw.body = Unparsable THEN out
  ELSE IF \E k \in DOMAIN out : out[k].id = raw.id
  THEN [k \in DOMAIN out |-> Merged(out[k], raw)]
  ELSE Append(out, Listed(raw, raw.created))
CoalesceLoop(page) ==
  LET out[n \in 0..Len(page)] == IF n = 0 THEN <<>> ELSE TakeIn(out[n - 1], page[n])
  IN out[Len(page)]

BadLeaves(page) == {page[i].id : i \in DOMAIN page \ Parsed(page)}
----------------------------------------------------------------------------------
(***************************************************************************)
(* Operations on the report and the feed state.                            *)
(***************************************************************************)

\* Slip: retention runs on over an open finding.
RefreshNothing(feed, ids) == feed

\* Any record of a failed id is kept alive for another window.
Refresh(feed, ids) ==
  [feed EXCEPT !.done = [id \in DOMAIN @ |->
     IF id \in ids THEN [@[id] EXCEPT !.recordedAt = now] ELSE @[id]]]

Fail(report, ids) ==
  [report EXCEPT !.failed = @ \cup ids, !.listed = @ \cup ids]

\* Withdraws what a superseded null-index copy reported.
Retract(report, ids) ==
  [report EXCEPT !.notLogged = @ \ ids, !.pending = @ \ ids, !.withdrawn = @ \ ids]

\* recheckDone, for an id recorded at an index.
Withdraws(d, copy) == d.index # Null /\ copy.index = Null
Moves(d, copy) == d.index # Null /\ copy.index # Null /\ d.index # copy.index
Reverifies(d, copy) ==
  ~Withdraws(d, copy) /\ ~Moves(d, copy) /\ d.hash \notin Hashes(copy.body)

\* A pending entry built from a serving.
PendingOf(copy) ==
  [index |-> IF copy.index = Null THEN 0 ELSE copy.index,
   hash |-> Hash(copy.body), hashes |-> Hashes(copy.body), firstSeen |-> now]

SameServing(old, pe, bodies) ==
  old.index = pe.index /\ \A b \in bodies : RecordedFrom(b, old.hash)

(***************************************************************************)
(* settle, for an outcome of id that pe records.  bodies holds the serving *)
(* pe was built from, and is empty when pe is the stored entry itself.     *)
(***************************************************************************)
\* Slip: the deadline is not enforced.
JudgedLeniently(id, oc, pe, bodies) ==
  IF /\ oc \in {"pending", "verified"}
     /\ id \in DOMAIN st.pending /\ ~SameServing(st.pending[id], pe, bodies)
  THEN "failed" ELSE oc

Judged(id, oc, pe, bodies) ==
  LET waits == id \in DOMAIN st.pending
      rewritten == waits /\ ~SameServing(st.pending[id], pe, bodies)
      overdue == waits /\ now - st.pending[id].firstSeen > Grace
  IN IF \/ oc \in {"pending", "verified"} /\ rewritten
        \/ oc = "pending" /\ overdue
     THEN "failed" ELSE oc

\* Slip: a null index retires a pending claim.
SettledReportForgiving(report, id, how) ==
  CASE how = "failed"    -> [report EXCEPT !.failed = @ \cup {id}]
    [] how = "pending"   -> [report EXCEPT !.pending = @ \cup {id}]
    [] how = "verified"  -> report
    [] how = "notLogged" -> [report EXCEPT !.notLogged = @ \cup {id}]

SettledReport(report, id, how) ==
  CASE how = "failed"    -> [report EXCEPT !.failed = @ \cup {id}]
    [] how = "pending"   -> [report EXCEPT !.pending = @ \cup {id}]
    [] how = "verified"  -> report
    [] how = "notLogged" ->
         [report EXCEPT
            !.notLogged = @ \cup {id},
            !.withdrawn = IF id \in DOMAIN st.pending THEN @ \cup {id} ELSE @]

\* Slip: a new serving restarts the deadline.
SettledStateAnew(id, how, pe) ==
  CASE how = "failed"    -> Refresh(st, {id})
    [] how = "pending"   -> [st EXCEPT !.pending = Set(@, id, [pe EXCEPT !.firstSeen = now])]
    [] how = "notLogged" -> [st EXCEPT !.done = Drop(@, id)]
    [] how = "verified"  ->
         [st EXCEPT !.done = Set(@, id, [index |-> pe.index, hash |-> pe.hash,
                                         recordedAt |-> now]),
                    !.pending = Drop(@, id)]

\* Slip: a verified event stays pending.
SettledStateTwice(id, how, pe) ==
  CASE how = "failed"    -> Refresh(st, {id})
    [] how = "pending"   -> [st EXCEPT !.pending = Set(@, id, pe)]
    [] how = "notLogged" -> [st EXCEPT !.done = Drop(@, id)]
    [] how = "verified"  ->
         [st EXCEPT !.done = Set(@, id, [index |-> pe.index, hash |-> pe.hash,
                                         recordedAt |-> now])]

SettledState(id, how, pe) ==
  CASE how = "failed"    -> Refresh(st, {id})
    [] how = "pending"   ->
         [st EXCEPT !.pending = Set(@, id,
            IF id \in DOMAIN @ THEN [pe EXCEPT !.firstSeen = st.pending[id].firstSeen] ELSE pe)]
    [] how = "notLogged" -> [st EXCEPT !.done = Drop(@, id)]
    [] how = "verified"  ->
         [st EXCEPT !.done = Set(@, id, [index |-> pe.index, hash |-> pe.hash,
                                         recordedAt |-> now]),
                    !.pending = Drop(@, id)]
----------------------------------------------------------------------------------
Init ==
  /\ pc = "idle" /\ now = 1 /\ head \in 0..Len(Log)
  /\ file \in Files /\ st = file
  /\ \A id \in DOMAIN file.done : file.done[id].index < head
  /\ mark = 0 /\ pages = 0 /\ batch = {} /\ seen = <<>>
  /\ rep = NoReport /\ broke = "no" /\ outcome = "none"
  /\ served = {} /\ last = [deferred |-> Never, failed |-> Never]

\* The log publishes, and a proof or a later checkpoint moves the session's head.
HeadMoves(n) ==
  /\ n \in head + 1 .. Len(Log)
  /\ head' = n
  /\ UNCHANGED <<pc, now, file, passVars, outcome, last>>

\* Time passes between passes.
Tick ==
  /\ pc = "idle" /\ now < MaxNow
  /\ now' = now + 1
  /\ UNCHANGED <<pc, head, file, passVars, outcome, last>>

\* Run, once start has anchored the session.
Start ==
  /\ pc = "idle"
  /\ pc' = "reading"
  /\ st' = file
  /\ mark' = file.highWater
  /\ UNCHANGED <<now, head, file, pages, batch, seen, rep, broke, outcome, served, last>>

\* A page is listed.  What does not parse is a failure of its id at once.
ReadPage(page) ==
  /\ pc = "reading"
  /\ pages < MaxPages
  /\ pc' = "processing"
  /\ pages' = pages + 1
  /\ batch' = Coalesce(page)
  /\ rep' = Fail(rep, BadLeaves(page))
  /\ st' = Refresh(st, BadLeaves(page))
  /\ served' = served \cup {page[i] : i \in Parsed(page)}
  /\ UNCHANGED <<now, head, file, mark, seen, broke, outcome, last>>

Truncate ==
  /\ pc = "reading"
  /\ pages >= MaxPages
  /\ pc' = "rechecking"
  /\ rep' = [rep EXCEPT !.truncated = TRUE]
  /\ UNCHANGED <<now, head, file, st, mark, pages, batch, seen, broke, outcome, served, last>>

\* A listing or a proof fails, and so does the session if the failure is a finding.
BreakOff(why) ==
  /\ pc' = "concluding"
  /\ broke' = why
  /\ batch' = {}
  /\ UNCHANGED <<now, head, file, pages, outcome, served, last>>

ReadFails ==
  /\ pc = "reading"
  /\ pages < MaxPages
  /\ BreakOff("error")
  /\ UNCHANGED <<st, mark, seen, rep>>

\* A page that promises more behind a cursor that did not advance.
Stalls ==
  /\ pc = "processing" /\ batch = {}
  /\ BreakOff("error")
  /\ UNCHANGED <<st, mark, seen, rep>>

EndPage(hasMore) ==
  /\ pc = "processing" /\ batch = {}
  /\ pc' = IF hasMore THEN "reading" ELSE "rechecking"
  /\ rep' = [rep EXCEPT !.complete = ~hasMore]
  /\ UNCHANGED <<now, head, file, st, mark, pages, batch, seen, broke, outcome, served, last>>
----------------------------------------------------------------------------------
(***************************************************************************)
(* One coalesced copy of a page, in the order the page first names them.   *)
(***************************************************************************)
Copy == CHOOSE c \in batch : \A other \in batch : c.at <= other.at

\* The mark never follows a served time past this clock.
NextMark == IF Copy.created > mark /\ Copy.created <= now + MaxSkew THEN Copy.created ELSE mark

Processing ==
  /\ pc = "processing" /\ batch # {}
  /\ mark' = NextMark

NextCopy ==
  /\ batch' = batch \ {Copy}
  /\ UNCHANGED <<pc, now, head, file, pages, broke, outcome, served, last>>

FailCopy ==
  /\ rep' = Fail(rep, {Copy.id})
  /\ st' = Refresh(st, {Copy.id})
  /\ UNCHANGED seen
  /\ NextCopy

Conflict == Processing /\ Copy.conflict /\ FailCopy

IsRepeat == Copy.id \in DOMAIN seen
IsContradiction ==
  IsRepeat /\ seen[Copy.id].index # Null /\ Copy.index # Null /\ Differ(seen[Copy.id], Copy)
Supersedes == IsRepeat /\ seen[Copy.id].index = Null /\ Copy.index # Null

\* Two copies of this pass claim different places or contents.
Contradiction == Processing /\ ~Copy.conflict /\ IsContradiction /\ FailCopy

\* A copy that says nothing the first one did not.
Repeat ==
  /\ Processing
  /\ ~Copy.conflict /\ IsRepeat /\ ~IsContradiction /\ ~Supersedes
  /\ UNCHANGED <<st, seen, rep>>
  /\ NextCopy

\* A first copy, or an indexed copy superseding a null-index one.
IsNews == Processing /\ ~Copy.conflict /\ (~IsRepeat \/ Supersedes)
ReportForNews == IF Supersedes THEN Retract(rep, {Copy.id}) ELSE rep
Taken == seen' = Set(seen, Copy.id, Copy)

IsDone == Copy.id \in DOMAIN st.done
Record == st.done[Copy.id]

\* The index of a recorded event is withdrawn: judged at the end of the pass.
Withdrawal ==
  /\ IsNews /\ IsDone /\ Withdraws(Record, Copy)
  /\ rep' = [ReportForNews EXCEPT !.withdrawn = @ \cup {Copy.id}]
  /\ Taken
  /\ UNCHANGED st
  /\ NextCopy

Relocation ==
  /\ IsNews /\ IsDone /\ Moves(Record, Copy)
  /\ rep' = Fail(ReportForNews, {Copy.id})
  /\ st' = Refresh(st, {Copy.id})
  /\ Taken
  /\ NextCopy

\* Still listed as it was recorded.
Unchanged ==
  /\ IsNews /\ IsDone
  /\ ~Withdraws(Record, Copy) /\ ~Moves(Record, Copy) /\ ~Reverifies(Record, Copy)
  /\ rep' = ReportForNews
  /\ st' = Refresh(st, {Copy.id})
  /\ Taken
  /\ NextCopy

NeedsVerdict == IsNews /\ (IsDone => Reverifies(Record, Copy))

\* Slip: the proof is checked for some leaf, not for this event's.
InclusionOutcomesOfAny(idx, hashes) == {"pending", "failed", "verified"}

(***************************************************************************)
(* The outcomes of an inclusion check of idx against hashes: covered and   *)
(* committed is what "verified" takes, all else is the log's to choose,    *)
(* "pending" being a proof it does not serve yet and "failed" one it       *)
(* refuses or gets wrong.                                                  *)
(***************************************************************************)
InclusionOutcomes(idx, hashes) ==
  {"pending", "failed"} \cup (IF Log[idx + 1] \in hashes THEN {"verified"} ELSE {})

\* verifyEvent: a null-index event of another organization fails too.
EventOutcomes ==
  CASE Copy.index = Null -> {"notLogged", "failed"}
    [] Copy.index # Null /\ Copy.index >= head -> {"pending", "failed"}
    [] OTHER -> InclusionOutcomes(Copy.index, Hashes(Copy.body))

\* An event verified once and served with other bytes must verify at once.
Verdict(oc) ==
  LET final == IF IsDone /\ oc = "pending" THEN "failed" ELSE oc
      pe == PendingOf(Copy)
      how == Judged(Copy.id, final, pe, {Copy.body})
  IN /\ NeedsVerdict
     /\ oc \in EventOutcomes
     /\ rep' = SettledReport([ReportForNews EXCEPT !.listed = @ \cup {Copy.id}], Copy.id, how)
     /\ st' = SettledState(Copy.id, how, pe)
     /\ Taken
     /\ NextCopy

\* The proof request breaks off, or its checkpoint turns out to be a finding.
VerdictFails(why) ==
  /\ NeedsVerdict
  /\ Copy.index # Null /\ Copy.index < head
  /\ why \in {"error", "finding"}
  /\ BreakOff(why)
  /\ rep' = [ReportForNews EXCEPT !.listed = @ \cup {Copy.id}]
  /\ Taken
  /\ UNCHANGED st
----------------------------------------------------------------------------------
(***************************************************************************)
(* Pending events this pass did not list are checked from their records.   *)
(* The code goes through them by id; they do not touch one another.        *)
(***************************************************************************)
ToRecheck == {id \in DOMAIN st.pending : id \notin rep.listed}

Recheck(id, oc) ==
  LET pe == st.pending[id]
      how == Judged(id, oc, pe, {})
  IN /\ pc = "rechecking"
     /\ id \in ToRecheck
     /\ oc \in IF pe.index < head THEN InclusionOutcomes(pe.index, pe.hashes) ELSE {"pending"}
     /\ st' = SettledState(id, how, pe)
     /\ rep' = [SettledReport(rep, id, how) EXCEPT !.listed = @ \cup {id}]
     /\ UNCHANGED <<pc, now, head, file, mark, pages, batch, seen, broke, outcome, served, last>>

RecheckFails(why) ==
  /\ pc = "rechecking"
  /\ \E id \in ToRecheck : st.pending[id].index < head
  /\ why \in {"error", "finding"}
  /\ BreakOff(why)
  /\ UNCHANGED <<st, mark, seen, rep>>

Rechecked ==
  /\ pc = "rechecking"
  /\ ToRecheck = {}
  /\ pc' = "concluding"
  /\ UNCHANGED <<now, head, file, passVars, outcome, last>>
----------------------------------------------------------------------------------
(***************************************************************************)
(* The end of the pass: withdrawals are deferred by a pass that did not    *)
(* read the feed to its end and judged by one that did, a failure or a     *)
(* deferral keeps the mark, and only a pass that completed moves it.       *)
(***************************************************************************)
Partial == rep.truncated \/ ~rep.complete
Deferred == IF Partial THEN rep.withdrawn ELSE {}

\* An indexed copy turned up after all.
Overruled == {id \in rep.withdrawn : id \in DOMAIN seen /\ seen[id].index # Null}
Stands == rep.withdrawn \ (Deferred \cup Overruled)

FinalReport == Fail(Retract([rep EXCEPT !.deferred = Deferred], Deferred \cup Stands), Stands)

FinalMark == IF FinalReport.failed # {} \/ Deferred # {} THEN st.highWater ELSE mark

Prune(feed) ==
  [feed EXCEPT !.done = [id \in {i \in DOMAIN @ : @[i].recordedAt >= now - Overlap} |-> @[id]]]

Conclude ==
  LET settled == Refresh(st, Stands)
      stuck == rep.truncated /\ FinalMark <= st.highWater
  IN /\ pc = "concluding"
     /\ pc' = "done"
     /\ rep' = FinalReport
     /\ mark' = FinalMark
     /\ outcome' = IF broke # "no" THEN broke ELSE IF stuck THEN "stuck" ELSE "ok"
     /\ st' = IF outcome' = "ok" THEN Prune([settled EXCEPT !.highWater = FinalMark])
              ELSE settled
     /\ UNCHANGED <<now, head, file, pages, batch, seen, broke, served, last>>

Reset ==
  /\ pc' = "idle" /\ outcome' = "none"
  /\ st' = file' /\ mark' = 0 /\ pages' = 0 /\ batch' = {} /\ seen' = <<>>
  /\ rep' = NoReport /\ broke' = "no"
  /\ served' = {}
  /\ UNCHANGED <<now, head>>

Latest(times, ids) == [id \in Id |-> IF id \in ids THEN now ELSE times[id]]

\* The command saves the state, of an incomplete pass too, unless the log was found out.
Exit ==
  /\ pc = "done"
  /\ IF outcome = "finding" THEN UNCHANGED <<file, last>>
     ELSE /\ file' = st
          /\ last' = [deferred |-> Latest(last.deferred, rep.deferred),
                      failed |-> Latest(last.failed, rep.failed)]
  /\ Reset

\* The process is killed, or the save fails.
Crash == pc # "idle" /\ UNCHANGED <<file, last>> /\ Reset

Outcomes == {"verified", "pending", "notLogged", "failed"}

Next ==
  \/ \E n \in 1..Len(Log) : HeadMoves(n)
  \/ Tick \/ Start
  \/ \E page \in Pages : ReadPage(page)
  \/ Truncate \/ ReadFails \/ Stalls
  \/ \E hasMore \in BOOLEAN : EndPage(hasMore)
  \/ Conflict \/ Contradiction \/ Repeat \/ Withdrawal \/ Relocation \/ Unchanged
  \/ \E oc \in Outcomes : Verdict(oc)
  \/ \E why \in {"error", "finding"} : VerdictFails(why) \/ RecheckFails(why)
  \/ \E id \in Id, oc \in Outcomes : Recheck(id, oc)
  \/ Rechecked \/ Conclude \/ Exit \/ Crash

Spec == Init /\ [][Next]_vars
----------------------------------------------------------------------------------
(***************************************************************************)
(* Properties.                                                             *)
(***************************************************************************)
Clean == outcome = "ok" /\ rep.failed = {}

\* The types of the state a pass keeps for the next one; no served time carries its mark
\* past the clock.
TypeOK ==
  /\ pc \in {"idle", "reading", "processing", "rechecking", "concluding", "done"}
  /\ now \in Nat \ {0} /\ head \in 0..Len(Log)
  /\ IsFeedState(file) /\ IsFeedState(st)
  /\ {file.highWater, st.highWater, mark} \subseteq 0..(now + MaxSkew)
  /\ batch \subseteq TakenCopy /\ MapsIdsTo(seen, TakenCopy)
  /\ served \subseteq Raw
  /\ rep \in Report
  /\ broke \in {"no", "error", "finding"}
  /\ outcome \in {"none", "ok", "stuck", "error", "finding"}
  /\ last \in [deferred : [Id -> 0..now], failed : [Id -> 0..now]]

\* Whatever pages, retries and servings led there, an id is recorded as done only at
\* an index where the log committed the event a recorded hash stands for.
DoneIsCommitted == \A id \in DOMAIN st.done : IsCommitted(st.done[id])

\* An id awaits a checkpoint or is done, never both: a later serving of a done event
\* cannot open a second, pending record for it.
OneRecord == DOMAIN st.done \cap DOMAIN st.pending = {}

\* What a pass that ends without a finding says: every copy it was served with an
\* index is committed at that index as served, or is on record as awaiting that index
\* with those bytes.  No paging or order of copies slips one past the check.
CleanAccountsForAll ==
  Clean =>
    \A c \in served :
      c.index # Null =>
        \/ c.index < head /\ Log[c.index + 1] \in Hashes(c.body)
        \/ /\ c.id \in DOMAIN st.pending
           /\ st.pending[c.id].index = c.index /\ st.pending[c.id].hash = Hash(c.body)

\* An index that an earlier pass recorded, verified or awaiting, cannot be withdrawn
\* under a pass that ends without a finding, a page limit or a broken read included.
NoSilentWithdrawal ==
  Clean =>
    \A c \in served :
      c.index = Null /\ c.id \in DOMAIN file.done \cup DOMAIN file.pending =>
        \E d \in served : d.id = c.id /\ d.index # Null

\* No event waits past its grace in a pass that ends without a finding.
GraceIsEnforced ==
  Clean => \A id \in DOMAIN st.pending : now - st.pending[id].firstSeen <= Grace

\* Nothing served later restarts an event's deadline or swaps what it awaits: its
\* record stays at its index with its first sighting until it is done at that index.
DeadlineStands ==
  [][\A id \in DOMAIN file.pending :
       LET was == file.pending[id] IN
       \/ /\ id \in DOMAIN file'.pending
          /\ file'.pending[id].index = was.index
          /\ file'.pending[id].hash.content = was.hash.content
          /\ file'.pending[id].firstSeen = was.firstSeen
       \/ /\ id \in DOMAIN file'.done
          /\ file'.done[id].index = was.index
          /\ file'.done[id].hash.content = was.hash.content]_file

Forgotten == DOMAIN file.done \ (DOMAIN file'.done)

\* fail's comment: retention runs whether or not a finding is open, so a record of a
\* failed id outlives the finding by a full window.
FindingKeepsRecord == [][\A id \in Forgotten : last.failed[id] < now - Overlap]_file

\* The mark is frozen by "an unresolved failure, or a deferred verdict [...] a deferral
\* must not become a deletion": a record outlives by a full window the last saved pass
\* that put off its verdict on a withdrawal of it.
DeferralKeepsRecord == [][\A id \in Forgotten : last.deferred[id] < now - Overlap]_file
==================================================================================
