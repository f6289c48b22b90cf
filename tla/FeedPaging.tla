-------------------------------- MODULE FeedPaging -------------------------------
(***************************************************************************)
(* How a pass reads the pages of the activity feed (verifier.go: the page  *)
(* loop of Run): from cursor to cursor until the feed ends, a page limit   *)
(* is reached, or the sequence of cursors is refused.                      *)
(*                                                                         *)
(* The feed is untrusted here: a page carries any copies, names any cursor *)
(* and promises more as it likes.  FeedWindow puts an honest feed behind   *)
(* the same loop.                                                          *)
(***************************************************************************)
EXTENDS Naturals, FiniteSets

CONSTANTS
  Cursor,       \* what last_id can name
  NoCursor,     \* a page that names none
  Copy,         \* what pages carry: the copies of events, by id, content and index
  PageLimits,   \* the page limits a pass may be run with, 0 for none
  MaxFeedPages  \* how many cursors a pass follows

ASSUME PagingAssumption ==
  /\ NoCursor \notin Cursor
  /\ PageLimits \subseteq Nat /\ MaxFeedPages \in Nat \ {0}

VARIABLES
  maxPages, \* MaxPages: this pass's page limit
  stopped,  \* why reading stopped, or "no"
  pages,    \* pages read
  copies,   \* copies this pass has read
  cursors   \* how often each cursor was followed

paging == <<maxPages, stopped, pages, copies, cursors>>

Seen == DOMAIN cursors

NoPages ==
  /\ maxPages \in PageLimits
  /\ stopped = "no" /\ pages = 0 /\ copies = {} /\ cursors = [c \in {} |-> 0]

AtPageLimit == maxPages > 0 /\ pages >= maxPages
Listing == stopped = "no" /\ ~AtPageLimit

\* The page limit ends the pass before it asks for another page.
StopAtLimit ==
  /\ stopped = "no" /\ AtPageLimit
  /\ stopped' = "limit"
  /\ UNCHANGED <<maxPages, pages, copies, cursors>>

ListingFails ==
  /\ Listing
  /\ stopped' = "error"
  /\ UNCHANGED <<maxPages, pages, copies, cursors>>

\* A page carrying a set of copies is read.
Take(page) ==
  /\ Listing
  /\ pages' = pages + 1
  /\ copies' = copies \cup page
  /\ UNCHANGED maxPages

IsFresh(page) == ~(page \subseteq copies)

\* Slip: a cursor may repeat for as long as there is something new behind it.
DoesNotAdvanceStale(last, page) ==
  \/ last = NoCursor
  \/ last \in Seen /\ ~IsFresh(page)

\* Slip: a cursor may not repeat at all.
DoesNotAdvanceOnce(last, page) == last = NoCursor \/ last \in Seen

\* The cursor did not advance: it was followed twice, or once and then to a page of
\* nothing new.  A boundary between two copies of one id repeats it legitimately.
DoesNotAdvance(last, page) ==
  \/ last = NoCursor
  \/ last \in Seen /\ (cursors[last] >= 2 \/ ~IsFresh(page))

\* A page that promises no more ends the feed, whatever it names.
LastPage(page) ==
  /\ Take(page)
  /\ stopped' = "end"
  /\ UNCHANGED cursors

Refuse(page, last) ==
  /\ Take(page)
  /\ DoesNotAdvance(last, page) \/ Cardinality(Seen) >= MaxFeedPages
  /\ stopped' = "refused"
  /\ UNCHANGED cursors

Follow(page, last) ==
  /\ Take(page)
  /\ ~DoesNotAdvance(last, page)
  /\ Cardinality(Seen) < MaxFeedPages
  /\ cursors' = [c \in Seen \cup {last} |-> IF c = last
                                             THEN IF c \in Seen THEN cursors[c] + 1 ELSE 1
                                             ELSE cursors[c]]
  /\ UNCHANGED stopped

Next ==
  \/ StopAtLimit \/ ListingFails
  \/ \E page \in SUBSET Copy :
       \/ LastPage(page)
       \/ \E last \in Cursor \cup {NoCursor} : Refuse(page, last) \/ Follow(page, last)

Spec == NoPages /\ [][Next]_paging
----------------------------------------------------------------------------------
\* The type of the loop's book-keeping.
TypeOK ==
  /\ maxPages \in PageLimits
  /\ stopped \in {"no", "end", "limit", "refused", "error"}
  /\ pages \in Nat
  /\ copies \subseteq Copy
  /\ cursors \in UNION {[S -> 1..2] : S \in SUBSET Cursor}

\* "No cursor sequence may page forever": with a page limit or none, an untrusted feed gets
\* at most two pages a cursor out of a pass, however many new copies it makes up.
PagesAreBounded == pages <= 2 * MaxFeedPages
==================================================================================
