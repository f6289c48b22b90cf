----------------------------- MODULE FeedWindowProofs ----------------------------
(***************************************************************************)
(* The page loop of FeedPaging against any feed, and the scheduled passes  *)
(* of FeedWindow over an honest one.                                       *)
(***************************************************************************)
EXTENDS FeedWindow, FiniteSetTheorems, SequenceTheorems, WellFoundedInduction, TLAPS
----------------------------------------------------------------------------------
(***************************************************************************)
(* PagesAreBounded, for any cursors, copies and limits: nothing that the   *)
(* feed makes up keeps a pass reading.  Of the assumptions this part uses  *)
(* PagingAssumption alone: an honest feed is not presupposed.              *)
(*                                                                         *)
(* The argument counts followed pages: one for each cursor seen and one    *)
(* more for each seen twice.  The last cursor a pass may follow is new, so *)
(* it is not among the latter, and one page is left for the refusal.       *)
(***************************************************************************)
Twice == {c \in Seen : cursors[c] = 2}

Counted ==
  /\ TypeOK
  /\ IsFiniteSet(Seen)
  /\ Cardinality(Seen) <= MaxFeedPages
  /\ Cardinality(Seen) = MaxFeedPages => Cardinality(Twice) < MaxFeedPages
  /\ pages <= Cardinality(Seen) + Cardinality(Twice) + (IF stopped = "no" THEN 0 ELSE 1)

\* The cursors seen twice are some of the cursors seen.
LEMMA TwiceFits ==
  ASSUME IsFiniteSet(Seen)
  PROVE  /\ IsFiniteSet(Twice)
         /\ Cardinality(Twice) <= Cardinality(Seen)
         /\ Cardinality(Seen) \in Nat /\ Cardinality(Twice) \in Nat
BY FS_Subset, FS_CardinalityType DEF Twice

LEMMA CountedInit == NoPages => Counted
<1> SUFFICES ASSUME NoPages PROVE Counted
  OBVIOUS
<1>1. Seen = {} /\ Twice = {}
  BY DEF NoPages, Seen, Twice
<1>2. IsFiniteSet({}) /\ Cardinality({}) = 0
  BY FS_EmptySet
<1>3. cursors \in [{} -> 1..2] /\ {} \in SUBSET Cursor
  BY DEF NoPages
<1>4. TypeOK
  BY <1>3 DEF NoPages, TypeOK
<1> QED
  BY <1>1, <1>2, <1>4, PagingAssumption DEF Counted, NoPages

\* The two ways to follow a cursor: a new one, and one followed once before.
LEMMA CountedFollow ==
  ASSUME Counted, NEW page \in SUBSET Copy, NEW last \in Cursor \cup {NoCursor},
         Follow(page, last)
  PROVE  Counted'
<1>0. IsFiniteSet(Seen) /\ Cardinality(Seen) \in Nat /\ Cardinality(Twice) \in Nat
      /\ IsFiniteSet(Twice) /\ Cardinality(Twice) <= Cardinality(Seen)
  BY TwiceFits DEF Counted
<1>1. /\ last \in Cursor /\ stopped = "no" /\ stopped' = "no" /\ pages' = pages + 1
      /\ Cardinality(Seen) < MaxFeedPages
      /\ copies' = copies \cup page /\ maxPages' = maxPages
      /\ last \in Seen => cursors[last] < 2
  BY <1>0, PagingAssumption DEF Follow, Take, Listing, DoesNotAdvance, Counted, TypeOK, Seen
<1>2. PICK S \in SUBSET Cursor : cursors \in [S -> 1..2]
  BY DEF Counted, TypeOK
<1>3. Seen = S
  BY <1>2 DEF Seen
<1>4. cursors' = [c \in S \cup {last} |-> IF c = last
                                           THEN IF c \in S THEN cursors[c] + 1 ELSE 1
                                           ELSE cursors[c]]
  BY <1>3 DEF Follow
<1>5. cursors' \in [S \cup {last} -> 1..2]
  <2>1. ASSUME NEW c \in S \cup {last} PROVE cursors'[c] \in 1..2
    BY <1>1, <1>2, <1>3, <1>4
  <2> QED
    BY <1>4, <2>1
<1>6. Seen' = S \cup {last}
  BY <1>4 DEF Seen
<1>7. TypeOK'
  BY <1>1, <1>5 DEF TypeOK, Counted
<1>8. CASE last \notin S
  <2>1. IsFiniteSet(Seen') /\ Cardinality(Seen') = Cardinality(Seen) + 1
    BY <1>0, <1>3, <1>6, <1>8, FS_AddElement
  <2>2. Twice' = Twice
    <3>1. \A c \in Seen' : cursors'[c] = 2 <=> c \in S /\ cursors[c] = 2
      BY <1>4, <1>6, <1>8
    <3> QED
      BY <3>1, <1>3, <1>6 DEF Twice
  <2> QED
    BY <2>1, <2>2, <1>0, <1>1, <1>7, PagingAssumption DEF Counted, TypeOK
<1>9. CASE last \in S
  <2>1. cursors[last] = 1
    BY <1>1, <1>2, <1>3, <1>9
  <2>2. Seen' = Seen
    BY <1>3, <1>6, <1>9
  <2>3. Twice' = Twice \cup {last} /\ last \notin Twice
    <3>1. \A c \in S : cursors'[c] = 2 <=> c = last \/ cursors[c] = 2
      BY <1>4, <1>9, <2>1
    <3> QED
      BY <3>1, <2>1, <2>2, <1>3, <1>9 DEF Twice
  <2>4. Cardinality(Twice') = Cardinality(Twice) + 1
    BY <2>3, <1>0, FS_AddElement
  <2> QED
    BY <2>2, <2>4, <1>0, <1>1, <1>7, PagingAssumption DEF Counted, TypeOK
<1> QED
  BY <1>8, <1>9

\* Every other step leaves the cursors alone and stops the reading.
LEMMA CountedNext == Counted /\ [Next]_paging => Counted'
<1> SUFFICES ASSUME Counted, [Next]_paging PROVE Counted'
  OBVIOUS
<1>1. ASSUME UNCHANGED <<maxPages, cursors>>, stopped = "no", pages' \in {pages, pages + 1},
             copies' \in SUBSET Copy, stopped' \in {"end", "limit", "refused", "error"}
      PROVE  Counted'
  <2>1. Seen' = Seen /\ Twice' = Twice
    BY <1>1 DEF Seen, Twice
  <2>2. Cardinality(Seen) \in Nat /\ Cardinality(Twice) \in Nat
    BY TwiceFits DEF Counted
  <2>3. TypeOK'
    BY <1>1 DEF Counted, TypeOK
  <2> QED
    BY <1>1, <2>1, <2>2, <2>3 DEF Counted, TypeOK
<1>2. CASE StopAtLimit \/ ListingFails
  BY <1>1, <1>2 DEF StopAtLimit, ListingFails, Listing, Counted, TypeOK
<1>3. ASSUME NEW page \in SUBSET Copy, LastPage(page) PROVE Counted'
  BY <1>1, <1>3 DEF LastPage, Take, Listing, Counted, TypeOK
<1>4. ASSUME NEW page \in SUBSET Copy, NEW last \in Cursor \cup {NoCursor}, Refuse(page, last)
      PROVE  Counted'
  BY <1>1, <1>4 DEF Refuse, Take, Listing, Counted, TypeOK
<1>5. CASE UNCHANGED paging
  BY <1>5 DEF paging, Counted, TypeOK, Seen, Twice
<1> QED
  BY <1>2, <1>3, <1>4, <1>5, CountedFollow DEF Next

\* The loop's book-keeping keeps its types: no cursor is followed a third time.
THEOREM TypeCorrect == Spec => []TypeOK
<1>1. Counted => TypeOK
  BY DEF Counted
<1> QED
  BY <1>1, CountedInit, CountedNext, PTL DEF Spec

\* What is counted is bounded.
LEMMA CountedBounds == Counted => PagesAreBounded
<1> SUFFICES ASSUME Counted PROVE PagesAreBounded
  OBVIOUS
<1>1. /\ Cardinality(Twice) <= Cardinality(Seen)
      /\ Cardinality(Seen) \in Nat /\ Cardinality(Twice) \in Nat
  BY TwiceFits DEF Counted
<1> QED
  BY <1>1, PagingAssumption DEF Counted, TypeOK, PagesAreBounded

\* "No cursor sequence may page forever", with the bound the loop keeps to.
THEOREM PagesAreBoundedHolds == Spec => []PagesAreBounded
  BY CountedBounds, CountedInit, CountedNext, PTL DEF Spec
----------------------------------------------------------------------------------
(***************************************************************************)
(* NothingIsSkipped and OpenStaysListed, for any feed that lists in order  *)
(* and any page size, limits and overlap, provided that the overlap covers *)
(* the feed's delay, the drift between the clocks and the skew that a      *)
(* served time is allowed.                                                 *)
(*                                                                         *)
(* The argument is about the end of a clean pass that moves the mark, and  *)
(* a copy that it owes.  Behind the cursor, the copy was not listed when   *)
(* the pass went by, so it is at most Delay older than the clock was then; *)
(* the mark is at most MaxSkew ahead of this machine's clock.  Ahead of    *)
(* the cursor, it was created after everything that moved the mark.        *)
(***************************************************************************)
OverlapCovers == Delay + Drift + MaxSkew <= Overlap

\* What the feed's assumption says of its rows.
LEMMA Rows ==
  /\ IsFiniteSet(Row) /\ 0 \notin Row
  /\ \A i \in Row : i \in Nat /\ Feed[i].created \in Nat /\ Feed[i].created >= 1
  /\ \A i, j \in Row : i <= j => Feed[i].created <= Feed[j].created
<1>1. Row = 1..Len(Feed) /\ Len(Feed) \in Nat
  BY WindowAssumption DEF Row
<1>2. IsFiniteSet(Row)
  BY <1>1, FS_Interval
<1>3. \A i \in Row : Feed[i] \in [id : Cursor, created : 1..MaxClock]
  <2>1. Feed \in Seq([id : Cursor, created : 1..MaxClock])
    BY WindowAssumption
  <2> QED
    BY <1>1, <2>1, ElementOfSeq
<1>4. \A i \in Row : i \in Nat /\ i # 0 /\ Feed[i].created \in Nat /\ Feed[i].created >= 1
  <2>1. MaxClock \in Nat
    BY WindowAssumption
  <2> QED
    BY <1>1, <1>3, <2>1
<1>5. ASSUME NEW i \in Row, NEW j \in Row, i <= j PROVE Feed[i].created <= Feed[j].created
  <2>1. CASE i = j
    BY <2>1, <1>4
  <2>2. CASE i < j
    BY <2>2, WindowAssumption
  <2> QED
    BY <2>1, <2>2, <1>4, <1>5
<1> QED
  BY <1>2, <1>4, <1>5

\* A page has no gaps: what the window lists up to a copy of it is on it, or was before.
LEMMA PagesHaveNoGaps ==
  ASSUME listed \subseteq Row,
         NEW k \in FirstOf(Rest), NEW i \in Rest, i <= k
  PROVE  i \in FirstOf(Rest)
<1>1. IsFiniteSet(Rest) /\ \A j \in Rest : j \in Nat
  <2>1. Rest \subseteq Row
    BY DEF Rest, Window
  <2> QED
    BY <2>1, Rows, FS_Subset
<1> DEFINE Before(j) == {r \in Rest : r < j}
<1>2. k \in Rest /\ Cardinality(Before(k)) < Limit
  BY DEF FirstOf
<1>3. Before(i) \subseteq Before(k) /\ Before(k) \subseteq Rest
  BY <1>1, <1>2
<1>4. /\ Cardinality(Before(i)) \in Nat /\ Cardinality(Before(k)) \in Nat
      /\ Cardinality(Before(i)) <= Cardinality(Before(k))
  BY <1>1, <1>3, FS_Subset, FS_CardinalityType
<1>5. Limit \in Nat
  BY WindowAssumption
<1>6. Cardinality(Before(i)) < Limit
  BY <1>2, <1>4, <1>5
<1> QED
  BY <1>6 DEF FirstOf

----------------------------------------------------------------------------------
LEMMA InvInit == WindowInit => WindowInv
<1> SUFFICES ASSUME WindowInit PROVE WindowInv
  OBVIOUS
<1>1. /\ copies = {} /\ clock = 1 /\ listed = {} /\ pc = "idle" /\ now = 0 /\ highWater = 0
      /\ mark = 0 /\ pos = 0 /\ contested = {} /\ outcome = "ok"
      /\ verdict = [i \in Row |-> "unread"]
  BY DEF WindowInit, NoPages
<1>2. WindowTypeOK
  BY <1>1, WindowAssumption DEF WindowTypeOK
<1>3. ListedInTime
  BY <1>1, Rows, WindowAssumption DEF ListedInTime
<1> QED
  BY <1>1, <1>2, <1>3 DEF WindowInv, NowFits, PassedAreYoung, MarkFits, ContestedInWindow,
     IdleIsReset, IsReading, InWindow

LEMMA InvTick == WindowInv /\ Tick => WindowInv'
<1> SUFFICES ASSUME WindowInv, Tick PROVE WindowInv'
  OBVIOUS
<1>1. /\ clock \in Nat /\ clock' = clock + 1 /\ clock < MaxClock /\ MaxClock \in Nat /\ clock >= 1
      /\ {Delay, Drift} \subseteq Nat
  BY WindowAssumption DEF WindowInv, WindowTypeOK, Tick
<1>2. UNCHANGED <<listed, pc, now, highWater, copies, mark, pos, contested, outcome, verdict>>
  BY DEF Tick, pass, paging
<1>3. WindowTypeOK'
  BY <1>1, <1>2 DEF WindowInv, WindowTypeOK
<1>4. ListedInTime'
  BY <1>1, <1>2, Rows DEF WindowInv, ListedInTime, Tick
<1>5. NowFits'
  BY <1>1, <1>2 DEF WindowInv, WindowTypeOK, NowFits, IsReading
<1> QED
  BY <1>2, <1>3, <1>4, <1>5 DEF WindowInv, PassedAreYoung, MarkFits, ContestedInWindow,
     IdleIsReset, IsReading, Owed, InWindow

LEMMA InvList == ASSUME WindowInv, NEW i \in Row, List(i) PROVE WindowInv'
<1>1. UNCHANGED <<clock, pc, now, highWater, copies, mark, pos, contested, outcome, verdict>>
  BY DEF List, pass, paging
<1>2. WindowTypeOK' /\ ListedInTime'
  BY <1>1 DEF WindowInv, WindowTypeOK, ListedInTime, List
<1> QED
  BY <1>1, <1>2 DEF WindowInv, NowFits, PassedAreYoung, MarkFits, ContestedInWindow,
     IdleIsReset, IsReading, Owed, InWindow

LEMMA InvStart == WindowInv /\ Start => WindowInv'
<1> SUFFICES ASSUME WindowInv, Start PROVE WindowInv'
  OBVIOUS
<1>1. UNCHANGED <<clock, listed, highWater, copies, pos, contested, outcome, verdict>>
  BY DEF Start, feed, paging
<1>2. pc' = "reading" /\ mark' = highWater /\ pos = 0
  BY DEF Start, WindowInv, IdleIsReset, IsReading
<1>3. now' \in Nat /\ now' <= clock + Drift
  BY WindowAssumption DEF Start, WindowInv, WindowTypeOK
<1>4. WindowTypeOK'
  BY <1>1, <1>2, <1>3 DEF WindowInv, WindowTypeOK
<1>5. PassedAreYoung'
  <2>1. \A i \in Row : ~(i <= 0)
    BY Rows
  <2> QED
    BY <1>1, <1>2, <2>1 DEF PassedAreYoung
<1>6. NowFits' /\ MarkFits' /\ IdleIsReset'
  BY <1>1, <1>2, <1>3 DEF NowFits, MarkFits, IdleIsReset, IsReading
<1> QED
  BY <1>1, <1>4, <1>5, <1>6 DEF WindowInv, ListedInTime, ContestedInWindow, InWindow

\* What a page leaves alone, and how far it moves the cursor and the mark.
LEMMA OnePage ==
  ASSUME WindowInv, pc = "reading", NEW bad \in SUBSET (FirstOf(Rest) \cap Doubtful),
         ReadPage(Rest, FirstOf(Rest), bad)
  PROVE  /\ UNCHANGED <<clock, listed, pc, now, highWater, outcome, verdict>>
         /\ FirstOf(Rest) \subseteq listed /\ \A i \in FirstOf(Rest) : i > pos /\ InWindow(i)
         /\ copies' = copies \cup FirstOf(Rest) /\ contested' = contested \cup bad
         /\ \/ FirstOf(Rest) = {} /\ pos' = pos
            \/ pos' \in FirstOf(Rest) /\ pos' > pos /\ \A i \in FirstOf(Rest) : i <= pos'
         /\ \/ mark' = mark
            \/ \E i \in FirstOf(Rest) : mark' = Feed[i].created /\ mark' <= now + MaxSkew
<1>1. \A i \in FirstOf(Rest) : i \in listed /\ i > pos /\ InWindow(i)
  BY DEF FirstOf, Rest, Window
<1>2. copies' = copies \cup FirstOf(Rest)
  BY DEF ReadPage, LastPage, Refuse, Follow, Take
<1>3. \/ FirstOf(Rest) = {} /\ pos' = pos
      \/ pos' \in FirstOf(Rest) /\ \A i \in FirstOf(Rest) : i <= pos'
  BY DEF ReadPage, IsLargest
<1>4. \/ mark' = mark
      \/ \E i \in FirstOf(Rest) : mark' = Feed[i].created /\ mark' <= now + MaxSkew
  BY DEF ReadPage, MarkAfter
<1>5. UNCHANGED <<clock, listed, pc, now, highWater, outcome, verdict>>
      /\ contested' = contested \cup bad
  BY DEF ReadPage, feed
<1> QED
  BY <1>1, <1>2, <1>3, <1>4, <1>5

LEMMA InvReadNextPage == WindowInv /\ ReadNextPage => WindowInv'
<1> SUFFICES ASSUME WindowInv, ReadNextPage PROVE WindowInv'
  OBVIOUS
<1> DEFINE page == FirstOf(Rest)
<1>1. pc = "reading"
  BY DEF ReadNextPage
<1>2. PICK bad \in SUBSET (page \cap Doubtful) : ReadPage(Rest, page, bad)
  BY DEF ReadNextPage
<1>3. /\ UNCHANGED <<clock, listed, pc, now, highWater, outcome, verdict>>
      /\ page \subseteq listed /\ \A i \in page : i > pos /\ InWindow(i)
      /\ copies' = copies \cup page /\ contested' = contested \cup bad
      /\ \/ page = {} /\ pos' = pos
         \/ pos' \in page /\ pos' > pos /\ \A i \in page : i <= pos'
      /\ \/ mark' = mark
         \/ \E i \in page : mark' = Feed[i].created /\ mark' <= now + MaxSkew
  BY <1>1, <1>2, OnePage
<1> HIDE DEF page
<1>4. /\ WindowTypeOK /\ listed \subseteq Row /\ page \subseteq Row /\ clock \in Nat /\ now \in Nat
      /\ mark \in Nat /\ highWater \in Nat /\ {Delay, Drift, MaxSkew} \subseteq Nat
      /\ pos \in Nat
  BY <1>3, Rows, WindowAssumption DEF WindowInv, WindowTypeOK
<1>5. WindowTypeOK'
  <2>1. mark' \in 0..clock
    BY <1>3, <1>4, Rows DEF WindowInv, WindowTypeOK, ListedInTime
  <2> QED
    BY <1>2, <1>3, <1>4, <2>1 DEF WindowTypeOK
<1>6. PassedAreYoung'
  <2> SUFFICES ASSUME NEW i \in Row, Owed(i)', i <= pos'
               PROVE  now <= Feed[i].created + Delay + Drift
    BY <1>3 DEF PassedAreYoung
  <2>1. verdict[i] # "settled" /\ i \notin copies /\ i \notin page
    BY <1>3 DEF Owed
  <2>2. CASE i <= pos
    BY <1>1, <2>1, <2>2 DEF WindowInv, PassedAreYoung, IsReading, Owed
  <2>3. CASE i > pos
    <3>1. pos' \in page
      BY <1>3, <1>4, <2>3, Rows
    <3>2. i \notin listed
      <4> SUFFICES ASSUME i \in listed PROVE FALSE
        OBVIOUS
      <4>1. i \in Rest
        BY <2>1, <2>3 DEF WindowInv, Rest, Window
      <4>2. i \in page
        BY <1>4, <3>1, <4>1, PagesHaveNoGaps DEF page
      <4> QED
        BY <2>1, <4>2
    <3>3. clock <= Feed[i].created + Delay
      BY <3>2 DEF WindowInv, ListedInTime
    <3>4. now <= clock + Drift
      BY <1>1 DEF WindowInv, NowFits, IsReading
    <3> QED
      BY <1>4, <3>3, <3>4, Rows
  <2> QED
    BY <1>4, <2>2, <2>3, Rows
<1>7. MarkFits'
  <2>1. CASE mark' = mark
    <3>1. CASE mark = highWater
      BY <1>3, <2>1, <3>1 DEF MarkFits
    <3>2. CASE pos \in Row /\ mark <= Feed[pos].created /\ mark <= now + MaxSkew
      <4>1. pos' \in Row /\ pos <= pos'
        <5>1. pos' = pos \/ (pos' \in Row /\ pos' > pos)
          BY <1>3, <1>4
        <5> QED
          BY <3>2, <5>1, Rows
      <4>2. mark <= Feed[pos'].created
        BY <1>4, <3>2, <4>1, Rows
      <4> QED
        BY <1>3, <2>1, <3>2, <4>1, <4>2 DEF MarkFits
    <3> QED
      BY <1>1, <3>1, <3>2 DEF WindowInv, MarkFits, IsReading
  <2>2. CASE \E i \in page : mark' = Feed[i].created /\ mark' <= now + MaxSkew
    <3>1. PICK i \in page : mark' = Feed[i].created /\ mark' <= now + MaxSkew
      BY <2>2
    <3>2. pos' \in Row /\ i \in Row /\ i <= pos'
      BY <1>3, <1>4
    <3>3. mark' <= Feed[pos'].created
      BY <3>1, <3>2, Rows
    <3> QED
      BY <1>3, <3>1, <3>2, <3>3 DEF MarkFits
  <2> QED
    BY <1>3, <2>1, <2>2
<1>8. ContestedInWindow'
  BY <1>2, <1>3 DEF WindowInv, ContestedInWindow, InWindow
<1> QED
  BY <1>1, <1>3, <1>5, <1>6, <1>7, <1>8 DEF WindowInv, ListedInTime, NowFits, IdleIsReset,
     IsReading, InWindow

LEMMA InvStop == WindowInv /\ (Truncate \/ BreakOff) => WindowInv'
<1> SUFFICES ASSUME WindowInv, Truncate \/ BreakOff PROVE WindowInv'
  OBVIOUS
<1>1. UNCHANGED <<clock, listed, pc, now, highWater, copies, mark, pos, contested, outcome, verdict>>
  BY DEF Truncate, StopAtLimit, BreakOff, feed
<1> QED
  BY <1>1 DEF WindowInv, WindowTypeOK, ListedInTime, NowFits, PassedAreYoung, MarkFits,
     ContestedInWindow, IdleIsReset, IsReading, Owed, InWindow

\* A pass that has been left has nothing to keep but its verdicts and the mark.
LEMMA InvLeave ==
  ASSUME WindowInv, Leave, highWater' \in 0..clock,
         outcome' \in {"ok", "stuck", "refused", "error"},
         verdict' \in [Row -> {"unread", "settled", "open"}],
         \A i \in Row : verdict'[i] # "settled" => InWindow(i)'
  PROVE  WindowInv'
<1>1. /\ pc' = "idle" /\ now' = 0 /\ mark' = 0 /\ pos' = 0 /\ contested' = {} /\ copies' = {}
      /\ UNCHANGED <<clock, listed>>
  BY DEF Leave, feed
<1>2. WindowTypeOK'
  <2>1. clock \in Nat /\ 0 \in 0..clock
    BY WindowAssumption DEF WindowInv, WindowTypeOK
  <2> QED
    BY <1>1, <2>1 DEF WindowInv, WindowTypeOK
<1> QED
  BY <1>1, <1>2 DEF WindowInv, ListedInTime, NowFits, PassedAreYoung, MarkFits,
     ContestedInWindow, IdleIsReset, IsReading

LEMMA InvExit == ASSUME OverlapCovers PROVE WindowInv /\ Exit => WindowInv'
<1> SUFFICES ASSUME WindowInv, Exit PROVE WindowInv'
  OBVIOUS
<1>1. /\ pc = "reading" /\ outcome' = HowItEnds /\ Leave
      /\ highWater' = IF HowItEnds = "ok" THEN FinalMark ELSE highWater
      /\ verdict' = [i \in Row |-> IF i \in contested THEN "open"
                                   ELSE IF i \in copies THEN "settled" ELSE verdict[i]]
  BY DEF Exit
<1>2. /\ mark \in 0..clock /\ highWater \in 0..clock /\ clock \in Nat /\ now \in Nat
      /\ verdict \in [Row -> {"unread", "settled", "open"}] /\ contested \subseteq copies
      /\ {Overlap, Delay, Drift, MaxSkew} \subseteq Nat
  BY WindowAssumption DEF WindowInv, WindowTypeOK
<1>3. highWater' = highWater \/ (contested = {} /\ highWater' = mark)
  BY <1>1 DEF FinalMark
<1>4. verdict' \in [Row -> {"unread", "settled", "open"}]
  BY <1>1, <1>2
<1>5. ASSUME NEW i \in Row, verdict'[i] # "settled" PROVE InWindow(i)'
  <2>1. CASE highWater' = highWater
    <3>1. InWindow(i)
      <4>1. CASE i \in contested
        BY <4>1 DEF WindowInv, ContestedInWindow
      <4>2. CASE i \notin contested
        BY <1>1, <1>5, <4>2 DEF WindowInv
      <4> QED
        BY <4>1, <4>2
    <3> QED
      BY <2>1, <3>1 DEF InWindow
  <2>2. CASE contested = {} /\ highWater' = mark /\ mark # highWater
    <3>1. Owed(i)
      BY <1>1, <1>5, <2>2 DEF Owed
    <3>2. pos \in Row /\ mark <= Feed[pos].created /\ mark <= now + MaxSkew
      BY <1>1, <2>2 DEF WindowInv, MarkFits, IsReading
    <3>3. /\ i \in Nat /\ pos \in Nat /\ Feed[i].created \in Nat /\ Feed[pos].created \in Nat
          /\ mark \in Nat
      BY <1>2, <3>2, Rows
    <3>4. CASE i <= pos
      <4>1. now <= Feed[i].created + Delay + Drift
        BY <1>1, <3>1, <3>4 DEF WindowInv, PassedAreYoung, IsReading
      <4> QED
        BY <1>2, <2>2, <3>2, <3>3, <4>1 DEF OverlapCovers, InWindow
    <3>5. CASE pos <= i
      <4>1. Feed[pos].created <= Feed[i].created
        BY <3>2, <3>5, Rows
      <4> QED
        BY <1>2, <2>2, <3>2, <3>3, <4>1 DEF InWindow
    <3> QED
      BY <3>3, <3>4, <3>5
  <2> QED
    BY <1>3, <2>1, <2>2
<1>6. highWater' \in 0..clock
  BY <1>2, <1>3
<1>7. outcome' \in {"ok", "stuck", "refused", "error"}
  BY <1>1 DEF HowItEnds
<1> QED
  BY <1>1, <1>4, <1>5, <1>6, <1>7, InvLeave

LEMMA InvCrash == WindowInv /\ Crash => WindowInv'
<1> SUFFICES ASSUME WindowInv, Crash PROVE WindowInv'
  OBVIOUS
<1>1. Leave /\ outcome' = "error" /\ UNCHANGED <<highWater, verdict>>
  BY DEF Crash
<1>2. \A i \in Row : verdict'[i] # "settled" => InWindow(i)'
  BY <1>1 DEF WindowInv, InWindow
<1>3. highWater' \in 0..clock /\ verdict' \in [Row -> {"unread", "settled", "open"}]
  BY <1>1 DEF WindowInv, WindowTypeOK
<1> QED
  BY <1>1, <1>2, <1>3, InvLeave

LEMMA InvNext == ASSUME OverlapCovers PROVE WindowInv /\ [WindowNext]_vars => WindowInv'
<1> SUFFICES ASSUME WindowInv, [WindowNext]_vars PROVE WindowInv'
  OBVIOUS
<1>1. CASE UNCHANGED vars
  BY <1>1 DEF vars, feed, pass, paging, WindowInv, WindowTypeOK, ListedInTime, NowFits,
     PassedAreYoung, MarkFits, ContestedInWindow, IdleIsReset, IsReading, Owed, InWindow
<1> QED
  BY <1>1, InvTick, InvList, InvStart, InvReadNextPage, InvStop, InvExit, InvCrash
  DEF WindowNext, PassStep

\* WindowInv holds in every state, if the overlap covers the delay, drift and skew.
THEOREM WindowInvariance == ASSUME OverlapCovers PROVE WindowSpec => []WindowInv
BY InvInit, InvNext, PTL DEF WindowSpec

\* The types; the saved mark is never ahead of the feed's clock.
THEOREM WindowTypeCorrect == ASSUME OverlapCovers PROVE WindowSpec => []WindowTypeOK
<1>1. WindowInv => WindowTypeOK
  BY DEF WindowInv
<1> QED
  BY <1>1, WindowInvariance, PTL

\* No saved pass moves the mark past what it has not read, listed or not.
THEOREM NothingIsSkippedHolds == ASSUME OverlapCovers PROVE WindowSpec => []NothingIsSkipped
<1>1. WindowInv => NothingIsSkipped
  BY DEF WindowInv, NothingIsSkipped
<1> QED
  BY <1>1, WindowInvariance, PTL

\* What failed or was deferred stays in the window of the next pass.
THEOREM OpenStaysListedHolds == ASSUME OverlapCovers PROVE WindowSpec => []OpenStaysListed
<1>1. WindowInv => OpenStaysListed
  BY DEF WindowInv, OpenStaysListed
<1> QED
  BY <1>1, WindowInvariance, PTL
----------------------------------------------------------------------------------
(***************************************************************************)
(* HonestFeedIsFollowed, for any page size, limits, delays and clocks, if  *)
(* the feed has at most one copy more than a pass follows cursors and      *)
(* lists no id more than twice.                                            *)
(*                                                                         *)
(* A page that promises more is not empty, all of it lies behind the last  *)
(* cursor, and a copy lies behind the page.  So what it names is new, or   *)
(* was named at one earlier copy, and the cursors are fewer than the rows. *)
(***************************************************************************)
ListedAtMostTwice ==
  \A i, j, k \in Row : i < j /\ j < k => Feed[i].id # Feed[j].id \/ Feed[j].id # Feed[k].id

\* Every copy but the last can be where a page is followed from.
WithinCursors == Len(Feed) <= MaxFeedPages + 1

\* Each cursor was named at one copy behind pos, and at two if it was followed twice.
NamedBehind(c) ==
  \/ cursors[c] = 1 /\ \E i \in Row : i <= pos /\ Feed[i].id = c
  \/ cursors[c] = 2 /\ \E i, j \in Row : i < j /\ j <= pos /\ Feed[i].id = c /\ Feed[j].id = c

Followed ==
  /\ outcome # "refused" /\ stopped # "refused"
  /\ listed \subseteq Row /\ pos \in {0} \cup Row
  /\ \A i \in copies : i \in Row /\ i <= pos
  /\ \A c \in Seen : NamedBehind(c)
  /\ IsFiniteSet(Seen) /\ Cardinality(Seen) <= pos
  /\ pc # "reading" => pos = 0

\* A set of natural numbers that is not empty has a least one.
LEMMA Least ==
  ASSUME NEW S \in SUBSET Nat, S # {}
  PROVE  \E m \in S : \A k \in S : m <= k
<1> DEFINE R == OpToRel(<, Nat)
<1>1. \A k, m \in S : <<k, m>> \in R <=> k < m
  BY DEF OpToRel
<1>2. IsWellFoundedOn(R, Nat)
  BY NatLessThanWellFounded
<1> HIDE DEF R
<1>3. \E m \in S : \A k \in S : ~(<<k, m>> \in R)
  BY <1>2, WFMin
<1>4. PICK m \in S : \A k \in S : ~(k < m)
  BY <1>1, <1>3
<1>5. \A k \in S : m <= k
  <2> TAKE k \in S
  <2>1. k \in Nat /\ m \in Nat /\ ~(k < m)
    BY <1>4
  <2> QED
    BY <2>1
<1> QED
  BY <1>5

\* A page is not empty while something is left to list.
LEMMA PageIsNotEmpty ==
  ASSUME listed \subseteq Row, Rest # {}
  PROVE  FirstOf(Rest) # {}
<1>1. Rest \in SUBSET Nat
  BY Rows DEF Rest, Window
<1>2. PICK m \in Rest : \A k \in Rest : m <= k
  BY <1>1, Least
<1>3. {j \in Rest : j < m} = {}
  <2>1. ASSUME NEW j \in Rest PROVE ~(j < m)
    <3>1. j \in Nat /\ m \in Nat /\ m <= j
      BY <1>1, <1>2
    <3> QED
      BY <3>1
  <2> QED
    BY <2>1
<1>4. Cardinality({j \in Rest : j < m}) = 0
  BY <1>3, FS_EmptySet
<1>5. Limit \in Nat /\ Limit > 0
  BY WindowAssumption
<1> QED
  BY <1>4, <1>5 DEF FirstOf

LEMMA FollowedInit == WindowInit => Followed
<1> SUFFICES ASSUME WindowInit PROVE Followed
  OBVIOUS
<1>1. /\ Seen = {} /\ IsFiniteSet({}) /\ Cardinality({}) = 0
      /\ copies = {} /\ listed = {} /\ pos = 0 /\ outcome = "ok" /\ stopped = "no"
  BY FS_EmptySet DEF WindowInit, NoPages, Seen
<1> QED
  BY <1>1 DEF Followed

\* The page that continues the reading names a copy it carries, of those not read yet.
LEMMA ContinuingPage ==
  ASSUME Followed, pc = "reading", NEW bad, ReadPage(Rest, FirstOf(Rest), bad)
  PROVE  /\ copies' = copies \cup FirstOf(Rest)
         /\ \A i \in FirstOf(Rest) : i \in Row /\ i > pos /\ i <= pos'
         /\ pos' = pos \/ (pos' \in FirstOf(Rest) /\ pos' > pos)
         /\ FirstOf(Rest) # Rest =>
              pos' \in FirstOf(Rest) /\ pos' > pos /\ pos' < Len(Feed)
         /\ UNCHANGED <<listed, pc, outcome>>
<1>1. FirstOf(Rest) \subseteq Rest /\ Rest \subseteq Row /\ \A i \in Rest : i > pos
  BY DEF FirstOf, Rest, Window, Followed
<1>2. \/ FirstOf(Rest) = {} /\ pos' = pos
      \/ pos' \in FirstOf(Rest) /\ \A i \in FirstOf(Rest) : i <= pos'
  BY DEF ReadPage, IsLargest
<1>3. FirstOf(Rest) # Rest => FirstOf(Rest) # {}
  BY <1>1, PageIsNotEmpty DEF Followed
<1>4. copies' = copies \cup FirstOf(Rest) /\ UNCHANGED <<listed, pc, outcome>>
  BY DEF ReadPage, LastPage, Refuse, Follow, Take, feed
<1>5. ASSUME FirstOf(Rest) # Rest PROVE pos' < Len(Feed)
  <2>1. PICK k \in Rest : k \notin FirstOf(Rest)
    BY <1>1, <1>5
  <2>2. pos' \in FirstOf(Rest)
    BY <1>2, <1>3, <1>5
  <2>3. ~(k <= pos')
    BY <2>1, <2>2, PagesHaveNoGaps DEF Followed
  <2>4. Row = 1..Len(Feed) /\ Len(Feed) \in Nat /\ k \in Row /\ pos' \in Row
    BY <1>1, <2>2, WindowAssumption DEF Row
  <2> QED
    BY <2>3, <2>4
<1> QED
  BY <1>1, <1>2, <1>3, <1>4, <1>5

\* A cursor at a copy not read yet is followed: it is new, or named once before.
LEMMA Advances ==
  ASSUME ListedAtMostTwice, WithinCursors, Followed,
         NEW page \in SUBSET Row, NEW p \in page, p > pos, p < Len(Feed)
  PROVE  /\ ~DoesNotAdvance(Feed[p].id, page) /\ Cardinality(Seen) < MaxFeedPages
         /\ Feed[p].id \in Cursor
         /\ Feed[p].id \in Seen => cursors[Feed[p].id] = 1
<1>1. Row = 1..Len(Feed) /\ Len(Feed) \in Nat /\ MaxFeedPages \in Nat
  BY WindowAssumption, PagingAssumption DEF Row
<1>2. p \in Nat /\ p <= Len(Feed) /\ pos \in Nat
  BY <1>1 DEF Followed
<1>3. Feed[p].id \in Cursor
  <2>1. Feed \in Seq([id : Cursor, created : 1..MaxClock]) /\ p \in 1..Len(Feed)
    BY <1>1, WindowAssumption
  <2>2. Feed[p] \in [id : Cursor, created : 1..MaxClock]
    BY <2>1, ElementOfSeq
  <2> QED
    BY <2>2
<1>4. IsFresh(page)
  <2>1. p \notin copies
    <3>1. p \in copies => p <= pos
      BY DEF Followed
    <3> QED
      BY <1>2, <3>1
  <2> QED
    BY <2>1 DEF IsFresh
<1>5. Cardinality(Seen) < MaxFeedPages
  <2>1. Cardinality(Seen) \in Nat /\ Cardinality(Seen) <= pos
    BY FS_CardinalityType DEF Followed
  <2> QED
    BY <1>1, <1>2, <2>1 DEF WithinCursors
<1>6. ASSUME Feed[p].id \in Seen PROVE cursors[Feed[p].id] = 1
  <2> SUFFICES ASSUME cursors[Feed[p].id] # 1 PROVE FALSE
    OBVIOUS
  <2>1. PICK i \in Row, j \in Row :
          i < j /\ j <= pos /\ Feed[i].id = Feed[p].id /\ Feed[j].id = Feed[p].id
    BY <1>6 DEF Followed, NamedBehind
  <2>2. i < j /\ j < p
    BY <1>1, <1>2, <2>1
  <2> QED
    BY <2>1, <2>2 DEF ListedAtMostTwice
<1>7. Feed[p].id # NoCursor
  BY <1>3, PagingAssumption
<1>8. ~DoesNotAdvance(Feed[p].id, page)
  BY <1>4, <1>6, <1>7 DEF DoesNotAdvance
<1> QED
  BY <1>3, <1>5, <1>6, <1>8

\* Following it names one more copy.
LEMMA NamedOnce ==
  ASSUME Followed, NEW page \in SUBSET Row, NEW p \in Row, p > pos, pos' = p,
         Follow(page, Feed[p].id),
         Feed[p].id \in Seen => cursors[Feed[p].id] = 1
  PROVE  /\ \A c \in Seen' : NamedBehind(c)'
         /\ IsFiniteSet(Seen') /\ Cardinality(Seen') <= pos'
<1> DEFINE last == Feed[p].id
<1>1. pos \in Nat /\ p \in Nat /\ \A i \in Row : i \in Nat
  BY Rows DEF Followed
<1>2. cursors' = [c \in Seen \cup {last} |-> IF c = last
                                              THEN IF c \in Seen THEN cursors[c] + 1 ELSE 1
                                              ELSE cursors[c]]
  BY DEF Follow
<1>3. Seen' = Seen \cup {last}
  BY <1>2 DEF Seen
<1>4. ASSUME NEW c \in Seen, c # last PROVE NamedBehind(c)'
  <2>1. cursors'[c] = cursors[c]
    BY <1>2, <1>4
  <2>2. NamedBehind(c)
    BY DEF Followed
  <2>3. ASSUME NEW i \in Row, i <= pos PROVE i <= pos'
    <3>1. i \in Nat /\ p \in Nat /\ pos \in Nat /\ i <= pos /\ p > pos
      BY <1>1, <2>3
    <3>2. i <= p
      BY <3>1
    <3> QED
      BY <3>2
  <2> QED
    BY <2>1, <2>2, <2>3 DEF NamedBehind
<1>5. NamedBehind(last)'
  <2>1. CASE last \notin Seen
    <3>1. cursors'[last] = 1
      BY <1>2, <2>1
    <3>2. p <= pos'
      BY <1>1
    <3> QED
      BY <3>1, <3>2 DEF NamedBehind
  <2>2. CASE last \in Seen
    <3>1. cursors'[last] = 2
      BY <1>2, <2>2
    <3>2. PICK i \in Row : i <= pos /\ Feed[i].id = last
      BY <2>2 DEF Followed, NamedBehind
    <3>3. i < p /\ p <= pos'
      BY <1>1, <3>2
    <3> QED
      BY <3>1, <3>2, <3>3 DEF NamedBehind
  <2> QED
    BY <2>1, <2>2
<1>6. IsFiniteSet(Seen') /\ Cardinality(Seen') <= pos'
  <2>1. IsFiniteSet(Seen) /\ Cardinality(Seen) \in Nat /\ Cardinality(Seen) <= pos
    BY FS_CardinalityType DEF Followed
  <2>2. IsFiniteSet(Seen') /\ Cardinality(Seen') \in {Cardinality(Seen), Cardinality(Seen) + 1}
    BY <1>3, <2>1, FS_AddElement
  <2>3. Cardinality(Seen) <= pos' /\ Cardinality(Seen) + 1 <= pos'
    BY <1>1, <2>1
  <2> QED
    BY <2>2, <2>3
<1> QED
  BY <1>3, <1>4, <1>5, <1>6

LEMMA FollowedReadNextPage ==
  ASSUME ListedAtMostTwice, WithinCursors, Followed, ReadNextPage
  PROVE  Followed'
<1> DEFINE page == FirstOf(Rest)
<1>1. PICK bad : ReadPage(Rest, page, bad)
  BY DEF ReadNextPage
<1>2. pc = "reading"
  BY DEF ReadNextPage
<1>3. /\ copies' = copies \cup page
      /\ \A i \in page : i \in Row /\ i > pos /\ i <= pos'
      /\ pos' = pos \/ (pos' \in page /\ pos' > pos)
      /\ page # Rest => pos' \in page /\ pos' > pos /\ pos' < Len(Feed)
      /\ UNCHANGED <<listed, pc, outcome>>
  BY <1>1, <1>2, ContinuingPage
<1>4. /\ IF page = Rest THEN LastPage(page)
         ELSE Refuse(page, Feed[pos'].id) \/ Follow(page, Feed[pos'].id)
  BY <1>1 DEF ReadPage
<1> HIDE DEF page
<1>5. pos' \in {0} \cup Row /\ pos \in Nat /\ pos' \in Nat /\ pos <= pos'
  <2>1. pos' = pos \/ (pos' \in Row /\ pos' > pos)
    BY <1>3
  <2>2. pos \in {0} \cup Row /\ pos \in Nat
    BY Rows DEF Followed
  <2> QED
    BY <2>1, <2>2, Rows
<1>6. \A i \in copies' : i \in Row /\ i <= pos'
  <2> TAKE i \in copies'
  <2>1. CASE i \in page
    BY <1>3, <2>1
  <2>2. CASE i \in copies
    <3>1. i \in Row /\ i \in Nat /\ i <= pos
      BY <2>2, Rows DEF Followed
    <3> QED
      BY <1>5, <3>1
  <2> QED
    BY <1>3, <2>1, <2>2
<1>7. CASE page = Rest
  <2>1. stopped' = "end" /\ cursors' = cursors
    BY <1>4, <1>7 DEF LastPage
  <2>2. \A c \in Seen' : NamedBehind(c)'
    <3>1. \A i \in Row : i <= pos => i <= pos'
      BY <1>5, Rows
    <3> QED
      BY <2>1, <3>1 DEF Followed, Seen, NamedBehind
  <2>3. Cardinality(Seen') <= pos' /\ IsFiniteSet(Seen')
    <3>1. Cardinality(Seen) \in Nat /\ Cardinality(Seen) <= pos /\ Seen' = Seen
      BY <2>1, FS_CardinalityType DEF Followed, Seen
    <3> QED
      BY <1>5, <3>1 DEF Followed
  <2> QED
    BY <1>2, <1>3, <1>5, <1>6, <2>1, <2>2, <2>3 DEF Followed
<1>8. CASE page # Rest
  <2>1. page \in SUBSET Row /\ pos' \in page /\ pos' \in Row /\ pos' > pos
    BY <1>3, <1>8
  <2> PICK p \in page : p = pos'
    BY <2>1
  <2>2. p > pos /\ p < Len(Feed)
    BY <1>3, <1>8, <2>1
  <2>3. /\ ~DoesNotAdvance(Feed[p].id, page) /\ Cardinality(Seen) < MaxFeedPages
        /\ Feed[p].id \in Cursor
        /\ Feed[p].id \in Seen => cursors[Feed[p].id] = 1
    BY <2>1, <2>2, Advances
  <2>4. ~(Cardinality(Seen) >= MaxFeedPages)
    <3>1. Cardinality(Seen) \in Nat /\ MaxFeedPages \in Nat
      BY FS_CardinalityType, PagingAssumption DEF Followed
    <3> QED
      BY <2>3, <3>1
  <2>5. Follow(page, Feed[p].id)
    BY <1>4, <1>8, <2>3, <2>4 DEF Refuse
  <2>6. stopped' = "no"
    BY <2>5 DEF Follow, Take, Listing
  <2>7. /\ \A c \in Seen' : NamedBehind(c)'
        /\ IsFiniteSet(Seen') /\ Cardinality(Seen') <= pos'
    BY <2>1, <2>2, <2>3, <2>5, NamedOnce
  <2> QED
    BY <1>2, <1>3, <1>5, <1>6, <2>6, <2>7 DEF Followed
<1> QED
  BY <1>7, <1>8

\* Every other step leaves the cursors as they are, or clears them with the pass.
LEMMA FollowedNext ==
  ASSUME ListedAtMostTwice, WithinCursors
  PROVE  Followed /\ [WindowNext]_vars => Followed'
<1> SUFFICES ASSUME Followed, [WindowNext]_vars PROVE Followed'
  OBVIOUS
<1>1. ASSUME UNCHANGED <<copies, cursors, pos>>, listed' \subseteq Row,
             stopped' # "refused", outcome' # "refused", pc' # "reading" => pos = 0
      PROVE  Followed'
  <2>1. Seen' = Seen /\ \A c : NamedBehind(c)' <=> NamedBehind(c)
    BY <1>1 DEF Seen, NamedBehind
  <2> QED
    BY <1>1, <2>1 DEF Followed
<1>2. CASE Tick \/ \E i \in Row : List(i)
  BY <1>1, <1>2 DEF Tick, List, pass, paging, Followed
<1>3. CASE Start \/ Truncate \/ BreakOff
  BY <1>1, <1>3 DEF Start, Truncate, StopAtLimit, BreakOff, feed, paging, Followed
<1>4. CASE ReadNextPage
  BY <1>4, FollowedReadNextPage
<1>5. CASE Exit \/ Crash
  <2>1. outcome' # "refused"
    BY <1>5 DEF Exit, Crash, HowItEnds, Followed
  <2>2. Leave
    BY <1>5 DEF Exit, Crash
  <2>3. Seen' = {} /\ IsFiniteSet({}) /\ Cardinality({}) = 0
    BY <2>2, FS_EmptySet DEF Leave, Seen
  <2> QED
    BY <2>1, <2>2, <2>3 DEF Leave, feed, Followed
<1>6. CASE UNCHANGED vars
  BY <1>1, <1>6 DEF vars, feed, pass, paging, Followed
<1> QED
  BY <1>2, <1>3, <1>4, <1>5, <1>6 DEF WindowNext, PassStep

\* The cursor rules never refuse an honest feed, wherever its pages are cut and
\* whatever is listed while it is read.
THEOREM HonestFeedIsFollowedHolds ==
  ASSUME ListedAtMostTwice, WithinCursors
  PROVE  WindowSpec => []HonestFeedIsFollowed
<1>1. Followed => HonestFeedIsFollowed
  BY DEF Followed, HonestFeedIsFollowed
<1> QED
  BY <1>1, FollowedInit, FollowedNext, PTL DEF WindowSpec
----------------------------------------------------------------------------------
(***************************************************************************)
(* Passes make progress: what EverythingIsRead rests on.                   *)
(***************************************************************************)

\* The pass under way has read a copy, or will unless it stops short of the feed's end.
OnItsWay(i) ==
  /\ IsReading
  /\ \/ i \in copies
     \/ stopped = "no" /\ i \in listed /\ InWindow(i) /\ pos < i
     \/ stopped \in {"limit", "refused", "error"}

\* Between passes nothing has stopped, and in one the mark does not fall.
MarkRises ==
  /\ ~IsReading => stopped = "no"
  /\ IsReading => highWater <= mark

LEMMA MarkRisesInit == WindowInit => MarkRises
BY DEF WindowInit, NoPages, MarkRises, IsReading

\* The next page has the copy, or leaves it ahead of the cursor.
LEMMA PageBringsNearer ==
  ASSUME WindowInv, ReadNextPage, NEW i \in Row, OnItsWay(i)
  PROVE  OnItsWay(i)'
<1> DEFINE page == FirstOf(Rest)
<1>1. pc = "reading" /\ stopped = "no"
  BY DEF ReadNextPage, Listing
<1>2. PICK bad \in SUBSET (page \cap Doubtful) : ReadPage(Rest, page, bad)
  BY DEF ReadNextPage
<1>3. /\ UNCHANGED <<listed, pc, highWater>> /\ copies' = copies \cup page
      /\ \/ page = {} /\ pos' = pos
         \/ pos' \in page /\ \A j \in page : j <= pos'
  BY <1>1, <1>2, OnePage
<1>4. listed \subseteq Row /\ i \in Nat /\ page \subseteq Rest
  BY Rows DEF WindowInv, WindowTypeOK, FirstOf
<1>5. IsReading'
  BY <1>1, <1>3 DEF IsReading
<1>6. CASE i \in copies
  BY <1>3, <1>5, <1>6 DEF OnItsWay
<1>7. CASE i \notin copies
  <2>1. i \in Rest /\ i \in listed /\ InWindow(i)
    BY <1>1, <1>4, <1>7 DEF OnItsWay, Rest, Window
  <2>2. CASE page = Rest
    BY <2>1, <2>2, <1>3, <1>5 DEF OnItsWay
  <2>3. CASE page # Rest
    <3>1. stopped' = "refused" \/ stopped' = stopped
      BY <1>2, <2>3 DEF ReadPage, Refuse, Follow
    <3>2. CASE stopped' = "refused"
      BY <3>2, <1>5 DEF OnItsWay
    <3>3. CASE stopped' = "no"
      <4>1. page # {}
        BY <1>4, <2>1, PageIsNotEmpty
      <4>2. pos' \in page
        BY <1>3, <4>1
      <4>3. pos' \in Nat
        BY <1>4, <4>2, Rows DEF Rest, Window
      <4>4. CASE i <= pos'
        <5>1. i \in page
          BY <1>4, <2>1, <4>2, <4>4, PagesHaveNoGaps
        <5> QED
          BY <5>1, <1>3, <1>5 DEF OnItsWay
      <4>5. CASE pos' < i
        <5>1. InWindow(i)'
          BY <1>3, <2>1 DEF InWindow
        <5> QED
          BY <5>1, <1>3, <1>5, <2>1, <3>3, <4>5 DEF OnItsWay
      <4> QED
        BY <1>4, <4>3, <4>4, <4>5
    <3> QED
      BY <3>1, <3>2, <3>3, <1>1
  <2> QED
    BY <2>2, <2>3
<1> QED
  BY <1>6, <1>7

\* Nothing but the end of the pass takes a copy off its way.
LEMMA StaysOnItsWay ==
  ASSUME WindowInv, WindowNext, ~Exit, ~Crash, NEW i \in Row, OnItsWay(i)
  PROVE  OnItsWay(i)'
<1>1. pc = "reading"
  BY DEF OnItsWay, IsReading
<1>2. CASE Tick \/ (\E j \in Row : List(j))
  <2>1. /\ UNCHANGED <<pc, highWater, copies, stopped, pos>>
        /\ listed \subseteq listed'
    BY <1>2 DEF Tick, List, pass, paging
  <2> QED
    BY <2>1 DEF OnItsWay, IsReading, InWindow
<1>3. CASE Truncate \/ BreakOff
  BY <1>3 DEF Truncate, StopAtLimit, BreakOff, OnItsWay, IsReading
<1>4. CASE ReadNextPage
  BY <1>4, PageBringsNearer
<1> QED
  BY <1>1, <1>2, <1>3, <1>4 DEF WindowNext, PassStep, Start

\* What a pass that ends has on its way is read, unless the pass stopped short of it: then
\* it failed, or the mark it saves is later than the one it found.
LEMMA ExitHasRead ==
  ASSUME WindowInv, Exit, NEW i \in Row, OnItsWay(i), outcome' = "ok"
  PROVE  verdict'[i] # "unread" \/ highWater < highWater'
<1>1. verdict' = [j \in Row |-> IF j \in contested THEN "open"
                                ELSE IF j \in copies THEN "settled" ELSE verdict[j]]
  BY DEF Exit
<1>2. HowItEnds = "ok" /\ highWater' = FinalMark
  BY DEF Exit
<1>3. CASE i \in copies
  BY <1>1, <1>3
<1>4. CASE i \notin copies
  <2>1. stopped = "limit"
    BY <1>2, <1>4 DEF OnItsWay, Exit, HowItEnds
  <2>2. ~(FinalMark <= highWater)
    BY <1>2, <2>1 DEF HowItEnds
  <2>3. clock \in Nat /\ FinalMark \in Int /\ highWater \in Int
    BY WindowAssumption DEF WindowInv, WindowTypeOK, FinalMark
  <2> QED
    BY <1>2, <2>2, <2>3
<1> QED
  BY <1>3, <1>4

\* The mark only rises, in a pass and from pass to pass.
LEMMA MarkRisesNext ==
  ASSUME WindowInv, MarkRises, [WindowNext]_vars
  PROVE  MarkRises' /\ highWater <= highWater'
<1>1. highWater \in Int /\ mark \in Int
  BY WindowAssumption DEF WindowInv, WindowTypeOK
<1>2. CASE Tick \/ (\E i \in Row : List(i)) \/ Truncate \/ BreakOff \/ UNCHANGED vars
  <2>1. UNCHANGED <<pc, highWater, mark>> /\ (pc = "idle" => stopped' = stopped)
    BY <1>2 DEF Tick, List, Truncate, BreakOff, vars, pass, paging
  <2>2. pc \in {"idle", "reading"}
    BY DEF WindowInv, WindowTypeOK
  <2> QED
    BY <1>1, <2>1, <2>2 DEF MarkRises, IsReading
<1>3. CASE Start
  BY <1>1, <1>3 DEF Start, MarkRises, IsReading
<1>4. CASE ReadNextPage
  <2>1. PICK bad : ReadPage(Rest, FirstOf(Rest), bad)
    BY <1>4 DEF ReadNextPage
  <2>2. UNCHANGED <<pc, highWater>> /\ pc = "reading"
    BY <1>4, <2>1 DEF ReadNextPage, ReadPage
  <2>3. mark <= mark'
    BY <2>1 DEF ReadPage, MarkAfter, IsLargest
  <2>4. mark' \in Int
    <3>1. WindowInv'
      BY <1>4, InvReadNextPage
    <3> QED
      BY <3>1, WindowAssumption DEF WindowInv, WindowTypeOK
  <2> QED
    BY <1>1, <2>2, <2>3, <2>4 DEF MarkRises, IsReading
<1>5. CASE Exit \/ Crash
  <2>1. pc = "reading" /\ pc' = "idle" /\ stopped' = "no"
    BY <1>5 DEF Exit, Crash, Leave
  <2>2. highWater' \in {highWater, FinalMark} /\ FinalMark \in {highWater, mark}
    BY <1>5 DEF Exit, Crash, FinalMark
  <2> QED
    BY <1>1, <2>1, <2>2 DEF MarkRises, IsReading
<1> QED
  BY <1>2, <1>3, <1>4, <1>5 DEF WindowNext, PassStep

\* A copy no saved pass has read is on its way as soon as one begins after it was listed.
LEMMA StartTakesUp ==
  ASSUME WindowInv, MarkRises, Start, NEW i \in Row, i \in listed, verdict[i] = "unread"
  PROVE  OnItsWay(i)'
<1>1. /\ pc = "idle" /\ pc' = "reading"
      /\ UNCHANGED <<listed, highWater, stopped, pos>>
  BY DEF Start, feed, paging
<1>2. stopped = "no" /\ pos = 0
  BY <1>1 DEF MarkRises, WindowInv, IdleIsReset, IsReading
<1>3. InWindow(i) /\ 0 < i
  BY Rows DEF WindowInv
<1>4. InWindow(i)'
  BY <1>1, <1>3 DEF InWindow
<1> QED
  BY <1>1, <1>2, <1>3, <1>4 DEF OnItsWay, IsReading

\* A pass takes up a copy that was listed when it began and that no saved pass has read.
TakesUp(i) == Start /\ i \in listed => (verdict[i] = "unread" => OnItsWay(i)')

\* A copy on its way stays on it until the pass is killed, or ends with the copy read,
\* with an error, or with a later mark than it found.
ComesThrough(i) ==
  OnItsWay(i) =>
    \/ OnItsWay(i)'
    \/ Crash
    \/ Exit /\ (outcome' = "ok" => (verdict'[i] # "unread" \/ highWater < highWater'))

ProgressStep == highWater <= highWater' /\ \A i \in Row : TakesUp(i) /\ ComesThrough(i)

\* No page limit repeats itself under a clean exit: the mark never moves back, and a
\* copy that was listed when a pass began is read by it, or the pass is killed, or it ends
\* with an error, or it moves the mark.  The mark cannot move for ever, as it is never
\* ahead of the feed's clock; so this is EverythingIsRead but for fairness.
THEOREM PassesMakeProgress ==
  ASSUME OverlapCovers
  PROVE  WindowSpec => [][ProgressStep]_vars
<1>1. WindowInv /\ MarkRises /\ WindowNext => \A i \in Row : TakesUp(i)
  BY StartTakesUp DEF TakesUp
<1>2. WindowInv /\ MarkRises /\ WindowNext => \A i \in Row : ComesThrough(i)
  BY StaysOnItsWay, ExitHasRead DEF ComesThrough
<1>3. WindowInv /\ MarkRises /\ [WindowNext]_vars => MarkRises' /\ highWater <= highWater'
  BY MarkRisesNext
<1>4. WindowInv /\ MarkRises /\ [WindowNext]_vars => [ProgressStep]_vars
  BY <1>1, <1>2, <1>3 DEF ProgressStep
<1> QED
  BY <1>3, <1>4, MarkRisesInit, WindowInvariance, PTL DEF WindowSpec
----------------------------------------------------------------------------------
(***************************************************************************)
(* What is proved of FeedPaging against any feed holds of every pass of    *)
(* FeedWindow: it reads its pages by the same loop, from the start on each *)
(* time, and only breaking off stops it otherwise.  Of the feed this uses  *)
(* that it lists its own copies, and of the clocks nothing.                *)
(***************************************************************************)
\* A proof fails, while the pages are read or after the last of them.
BreaksOff ==
  /\ stopped \in {"no", "end", "limit"} /\ stopped' = "error"
  /\ UNCHANGED <<maxPages, pages, copies, cursors>>

LoopStep == Next \/ NoPages' \/ BreaksOff

\* The feed lists nothing but what it has.
ListsItsOwn == listed \subseteq Row

\* A page of the window is one the loop may be served, with a cursor it may be given.
LEMMA WindowPageIsPage ==
  ASSUME ListsItsOwn, ReadNextPage
  PROVE  Next
<1> DEFINE page == FirstOf(Rest)
<1>1. PICK bad : ReadPage(Rest, page, bad)
  BY DEF ReadNextPage
<1>2. page \subseteq Row /\ page \in SUBSET Copy
  BY WindowAssumption DEF FirstOf, Rest, Window, ListsItsOwn
<1>3. CASE page = Rest
  <2>1. LastPage(page)
    BY <1>1, <1>3 DEF ReadPage
  <2> QED
    BY <1>2, <2>1 DEF Next
<1>4. CASE page # Rest
  <2>1. Rest # {}
    BY <1>4 DEF FirstOf
  <2>2. page # {}
    BY <2>1, PageIsNotEmpty DEF ListsItsOwn
  <2>3. pos' \in page
    BY <1>1, <2>2 DEF ReadPage
  <2>4. Feed[pos'].id \in Cursor
    <3>1. \A i \in Row : Feed[i].id \in Cursor
      <4>1. \A i \in Row : Feed[i] \in [id : Cursor, created : 1..MaxClock]
        <5>1. Feed \in Seq([id : Cursor, created : 1..MaxClock])
          BY WindowAssumption
        <5>2. Row = 1..Len(Feed)
          BY <5>1 DEF Row
        <5> QED
          BY <5>1, <5>2, ElementOfSeq
      <4> QED
        BY <4>1
    <3>2. pos' \in Row
      BY <1>2, <2>3
    <3> QED
      BY <3>1, <3>2
  <2>5. Refuse(page, Feed[pos'].id) \/ Follow(page, Feed[pos'].id)
    BY <1>1, <1>4 DEF ReadPage
  <2> QED
    BY <1>2, <2>4, <2>5 DEF Next
<1> QED
  BY <1>3, <1>4

\* Each step of a window is one of the loop, or none of its business.
LEMMA WindowStepIsLoopStep ==
  ListsItsOwn /\ [WindowNext]_vars => ListsItsOwn' /\ [LoopStep]_paging
<1> SUFFICES ASSUME ListsItsOwn, [WindowNext]_vars
             PROVE  ListsItsOwn' /\ [LoopStep]_paging
  OBVIOUS
<1>1. CASE Tick \/ Start \/ \E i \in Row : List(i)
  BY <1>1 DEF Tick, Start, List, feed, pass, ListsItsOwn
<1>2. CASE ReadNextPage
  <2>1. listed' = listed
    BY <1>2 DEF ReadNextPage, ReadPage, feed
  <2> QED
    BY <1>2, <2>1, WindowPageIsPage DEF LoopStep, ListsItsOwn
<1>3. CASE Truncate
  BY <1>3 DEF Truncate, feed, LoopStep, Next, ListsItsOwn
<1>4. CASE BreakOff
  BY <1>4 DEF BreakOff, feed, LoopStep, BreaksOff, ListsItsOwn
<1>5. CASE Exit \/ Crash
  <2>1. Leave
    BY <1>5 DEF Exit, Crash
  <2>2. NoPages' /\ listed' = listed
    BY <2>1 DEF Leave, NoPages, feed
  <2> QED
    BY <2>2 DEF LoopStep, ListsItsOwn
<1>6. CASE UNCHANGED vars
  BY <1>6 DEF vars, feed, pass, ListsItsOwn
<1> QED
  BY <1>1, <1>2, <1>3, <1>4, <1>5, <1>6 DEF WindowNext, PassStep

\* A step of the loop keeps count, though it starts over or breaks off.
LEMMA CountedLoopStep == Counted /\ [LoopStep]_paging => Counted'
<1> SUFFICES ASSUME Counted, [LoopStep]_paging PROVE Counted'
  OBVIOUS
<1>1. CASE [Next]_paging
  BY <1>1, CountedNext
<1>2. CASE NoPages'
  <2>1. (NoPages => Counted)'
    BY CountedInit, PTL
  <2> QED
    BY <1>2, <2>1
<1>3. CASE BreaksOff
  <2>1. Seen' = Seen /\ Twice' = Twice
    BY <1>3 DEF BreaksOff, Seen, Twice
  <2>2. Cardinality(Seen) \in Nat /\ Cardinality(Twice) \in Nat
    BY TwiceFits DEF Counted
  <2> QED
    BY <1>3, <2>1, <2>2 DEF BreaksOff, Counted, TypeOK
<1> QED
  BY <1>1, <1>2, <1>3 DEF LoopStep

\* Every pass reads its pages as FeedPaging says (verifier.go, the page loop of Run).
THEOREM WindowUsesPaging == WindowSpec => NoPages /\ [][LoopStep]_paging
<1>1. WindowInit => NoPages /\ ListsItsOwn
  BY DEF WindowInit, ListsItsOwn
<1> QED
  BY <1>1, WindowStepIsLoopStep, PTL DEF WindowSpec

\* No pass over the window reads more pages than two a cursor, whatever was listed
\* meanwhile and whatever the clocks showed.
COROLLARY WindowPagesAreBounded == WindowSpec => []PagesAreBounded
  BY WindowUsesPaging, CountedInit, CountedLoopStep, CountedBounds, PTL
==================================================================================
