------------------------------ MODULE FeedPassProofs -----------------------------
(***************************************************************************)
(* What FeedPass promises of every pass and of the file it leaves, for any *)
(* pages and logs, any number of ids and passes, and any limits.           *)
(*                                                                         *)
(* SoundAt is about a feed state on its own, in the file or in memory.     *)
(* FollowsAt is what a pass has done so far to the state it started from.  *)
(* AccountedAt follows every copy the pass was served to where it went: it *)
(* waits in the batch, it is the copy its id was last taken from, or its   *)
(* id is flagged; and it follows every copy taken to what it led to.       *)
(***************************************************************************)
EXTENDS FeedPass, WellFoundedInduction, TLAPS

SoundAt(feed, id) ==
  /\ id \notin DOMAIN feed.done \cap DOMAIN feed.pending
  /\ id \in DOMAIN feed.done =>
       /\ IsCommitted(feed.done[id])
       /\ feed.done[id].index < head
       /\ feed.done[id].recordedAt >= last.failed[id]
  /\ id \in DOMAIN feed.pending => IsOfOneEvent(feed.pending[id])

\* The pass cannot end clean on account of id.
Flagged(id) == id \in rep.failed \/ broke # "no"

\* Where the pass keeps the awaited events it found in the file, or what came of them.
KeepsWaiting(id) ==
  /\ id \in DOMAIN st.pending
  /\ st.pending[id].index = file.pending[id].index
  /\ st.pending[id].hash.content = file.pending[id].hash.content
  /\ st.pending[id].firstSeen = file.pending[id].firstSeen

HasSettled(id) ==
  /\ id \in DOMAIN st.done
  /\ st.done[id].index = file.pending[id].index
  /\ st.done[id].hash.content = file.pending[id].hash.content
  /\ st.done[id].recordedAt = now
  /\ pc \in {"reading", "processing"} => id \in DOMAIN seen /\ seen[id].index # Null

FollowsAt(id) ==
  /\ id \in DOMAIN file.pending => KeepsWaiting(id) \/ HasSettled(id)
  /\ id \in DOMAIN file.done =>
       id \in DOMAIN st.done \/ (pc = "done" /\ last.failed[id] < now - Overlap)
  /\ id \in rep.failed \cap DOMAIN st.done => st.done[id].recordedAt = now

\* The pass's books.
Books ==
  /\ pc # "processing" => batch = {}
  /\ pc # "done" => outcome = "none"
  /\ pc = "idle" => st = file /\ seen = <<>> /\ served = {} /\ rep = NoReport
  /\ broke = "no" /\ pc \in {"rechecking", "concluding"} => rep.truncated \/ rep.complete
  /\ broke = "no" /\ pc = "concluding" => DOMAIN st.pending \subseteq rep.listed

\* Two copies claim the same place with the same leaf.
Agree(a, b) == a.index = b.index /\ Hash(a.body) = Hash(b.body)

IsAccountedFor(c) ==
  \/ Flagged(c.id)
  \/ \E e \in batch : e.id = c.id /\ (c.index # Null => e.conflict \/ Agree(e, c))
  \/ c.id \in DOMAIN seen /\ (c.index # Null => Agree(seen[c.id], c))

Verified(c) == c.index < head /\ Log[c.index + 1] \in Hashes(c.body)
Awaits(c) ==
  /\ c.id \in DOMAIN st.pending
  /\ st.pending[c.id].index = c.index /\ st.pending[c.id].hash = Hash(c.body)

HasAnIndex(id) == \E d \in served : d.id = id /\ d.index # Null

AccountedAt(id) ==
  /\ \A c \in served : c.id = id => IsAccountedFor(c)
  /\ \A e \in batch : e.id = id /\ e.index # Null => HasAnIndex(id)
  /\ id \in DOMAIN seen =>
       /\ seen[id].id = id
       /\ seen[id].index # Null =>
            /\ HasAnIndex(id)
            /\ Flagged(id) \/ Verified(seen[id]) \/ (Awaits(seen[id]) /\ id \in rep.listed)
       /\ seen[id].index = Null /\ id \in DOMAIN file.done \cup DOMAIN file.pending =>
            Flagged(id) \/ id \in rep.withdrawn
  /\ id \in rep.withdrawn => id \in DOMAIN seen /\ seen[id].index = Null
  /\ id \in DOMAIN st.pending =>
       \/ now - st.pending[id].firstSeen <= Grace
       \/ id \notin rep.listed \/ Flagged(id) \/ id \in rep.withdrawn

FeedInv ==
  /\ TypeOK
  /\ \A id \in Id : SoundAt(file, id) /\ SoundAt(st, id) /\ FollowsAt(id)
  /\ Books
  /\ pc # "done" => \A id \in Id : AccountedAt(id)
  /\ CleanAccountsForAll /\ NoSilentWithdrawal /\ GraceIsEnforced
----------------------------------------------------------------------------------
(***************************************************************************)
(* Leaves, copies and pages.                                               *)
(***************************************************************************)

\* Every hash of an event is a leaf hash and carries its content.
LEMMA LeafFacts ==
  ASSUME NEW b \in Body
  PROVE  /\ Hash(b) \in Hashes(b) /\ Hashes(b) \subseteq LeafHash
         /\ \A h \in Hashes(b) : h.content = b.content
         /\ \A h : RecordedFrom(b, h) => h.content = b.content
<1>1. Entry(b) \in LeafHash /\ OldEntry(b) \in LeafHash
  BY DEF LeafHash
<1>2. Entry(b).content = b.content /\ OldEntry(b).content = b.content
  BY DEF Entry, OldEntry
<1> QED
  BY <1>1, <1>2 DEF Hash, Hashes, RecordedFrom

\* Two events that share a hash have the same hashes.
LEMMA SharedHash ==
  ASSUME NEW b \in Body, NEW c \in Body, NEW h \in Hashes(b) \cap Hashes(c)
  PROVE  Hashes(b) = Hashes(c)
<1>1. CASE h = Entry(b) /\ h = Entry(c)
  <2>1. b.content = c.content /\ b.profile = c.profile
    BY <1>1 DEF Entry
  <2> QED
    BY <2>1 DEF Hashes, Entry, OldEntry
<1>2. CASE h = OldEntry(b) /\ h = OldEntry(c) /\ b.profile = NoProfile /\ c.profile = NoProfile
  <2>1. b.content = c.content
    BY <1>2 DEF OldEntry
  <2> QED
    BY <2>1, <1>2 DEF Hashes, Entry, OldEntry
<1>3. Entry(b).version = 2 /\ Entry(c).version = 2
      /\ OldEntry(b).version = 1 /\ OldEntry(c).version = 1
  BY DEF Entry, OldEntry
<1> QED
  BY <1>1, <1>2, <1>3 DEF Hashes

LEMMA MinIsIn ==
  ASSUME NEW S \in SUBSET Nat, S # {}
  PROVE  /\ Min(S) \in S
         /\ \A y \in S : Min(S) <= y
<1>1. PICK x \in S : \A y \in S : ~(<<y, x>> \in OpToRel(<, Nat))
  BY NatLessThanWellFounded, WFMin
<1>2. \A y \in S : ~(y < x)
  BY <1>1, Zenon DEF OpToRel
<1>3. \A y \in S : x <= y
  BY <1>2
<1> QED
  BY <1>1, <1>3 DEF Min

\* There is a next copy while the batch is not empty.
LEMMA CopyIsNext ==
  ASSUME TypeOK, batch # {}
  PROVE  Copy \in batch /\ Copy \in TakenCopy
<1> DEFINE ats == {c.at : c \in batch}
<1>1. batch \subseteq TakenCopy
  BY DEF TypeOK
<1>2. ats \in SUBSET Nat /\ ats # {}
  BY <1>1 DEF TakenCopy
<1>3. Min(ats) \in ats /\ \A y \in ats : Min(ats) <= y
  BY <1>2, MinIsIn
<1>4. PICK c \in batch : c.at = Min(ats)
  BY <1>3
<1>5. \A other \in batch : c.at <= other.at
  BY <1>3, <1>4
<1>6. Copy \in batch
  BY <1>5 DEF Copy
<1> QED
  BY <1>1, <1>6

\* A page is a sequence of raw copies.
LEMMA PageTypes ==
  ASSUME NEW page \in Pages
  PROVE  /\ DOMAIN page \subseteq Nat
         /\ \A i \in DOMAIN page : page[i] \in Raw
         /\ \A i \in Parsed(page) : i \in DOMAIN page /\ page[i].body \in Body
         /\ BadLeaves(page) \subseteq Id
<1>1. page \in Seq(Raw)
  BY FeedAssumption
<1>2. DOMAIN page = 1..Len(page) /\ Len(page) \in Nat /\ \A i \in DOMAIN page : page[i] \in Raw
  BY <1>1
<1> QED
  BY <1>2 DEF Parsed, Raw, BadLeaves

\* coalesce makes one copy of those of an id, and keeps a placed one if there is one.
LEMMA CoalescedFacts ==
  ASSUME NEW page \in Pages, NEW n \in Parsed(page)
  PROVE  LET e == Coalesced(page, page[n].id) IN
         /\ e \in TakenCopy /\ e.id = page[n].id
         /\ page[n].index # Null => e.conflict \/ Agree(e, page[n])
         /\ e.index # Null =>
              \E i \in Parsed(page) : page[i].id = e.id /\ page[i].index # Null
<1> DEFINE id == page[n].id
           own == {i \in Parsed(page) : page[i].id = id}
           placed == {i \in own : page[i].index # Null}
           first == Min(IF placed = {} THEN own ELSE placed)
           e == Coalesced(page, id)
<1>1. own \in SUBSET Nat /\ n \in own /\ placed \in SUBSET own
  BY PageTypes DEF Parsed
<1>2. Min(own) \in own
  BY <1>1, MinIsIn
<1>3. first \in own /\ (placed # {} => first \in placed)
  BY <1>1, MinIsIn
<1>4. e = [id |-> id, index |-> page[first].index, body |-> page[first].body,
           created |-> page[Min(own)].created, at |-> Min(own),
           conflict |-> \E i \in placed : Differ(page[first], page[i])]
  BY DEF Coalesced
<1>5. page[first] \in Raw /\ page[first].body \in Body /\ page[Min(own)] \in Raw /\ page[n] \in Raw
  BY <1>1, <1>2, <1>3, PageTypes
<1> HIDE DEF own, placed, first, e
<1>6. e \in TakenCopy /\ e.id = id
  BY <1>1, <1>2, <1>4, <1>5, PageTypes DEF TakenCopy, Raw
<1>7. page[n].index # Null => e.conflict \/ Agree(e, page[n])
  <2> SUFFICES ASSUME page[n].index # Null, ~e.conflict PROVE Agree(e, page[n])
    OBVIOUS
  <2>1. n \in placed
    BY <1>1 DEF placed
  <2>2. ~Differ(page[first], page[n])
    BY <1>4, <2>1
  <2> QED
    BY <1>4, <2>2 DEF Differ, Agree
<1>8. e.index # Null => \E i \in Parsed(page) : page[i].id = e.id /\ page[i].index # Null
  BY <1>3, <1>4 DEF own
<1> QED
  BY <1>6, <1>7, <1>8 DEF e

\* The least element is the only one that is no greater than any.
LEMMA MinIs ==
  ASSUME NEW S \in SUBSET Nat, NEW m \in S, \A y \in S : m <= y
  PROVE  Min(S) = m
<1>1. Min(S) \in S /\ \A y \in S : Min(S) <= y
  BY MinIsIn
<1>2. Min(S) <= m /\ m <= Min(S) /\ Min(S) \in Nat /\ m \in Nat
  BY <1>1
<1> QED
  BY <1>2

\* The copies of an id on a page that parse, and those that name a place.
Own(page, id) == {i \in Parsed(page) : page[i].id = id}
Placed(page, id) == {i \in Own(page, id) : page[i].index # Null}
Kept(page, id) == Min(IF Placed(page, id) = {} THEN Own(page, id) ELSE Placed(page, id))
\* The first copies of a page.
First(page, n) == [i \in 1..n |-> page[i]]

\* A coalesced copy without its place.
Plain(c) == [id |-> c.id, index |-> c.index, body |-> c.body,
             created |-> c.created, conflict |-> c.conflict]

\* Coalesced by what it is made of.
LEMMA CoalescedParts ==
  ASSUME NEW page, NEW id
  PROVE  Coalesced(page, id) =
           [id |-> id, index |-> page[Kept(page, id)].index, body |-> page[Kept(page, id)].body,
            created |-> page[Min(Own(page, id))].created, at |-> Min(Own(page, id)),
            conflict |-> \E i \in Placed(page, id) : Differ(page[Kept(page, id)], page[i])]
  BY DEF Coalesced, Own, Placed, Kept

\* One more copy joins those of its id.
LEMMA OwnOneMore ==
  ASSUME NEW page \in Seq(Raw), NEW n \in Nat, n + 1 \in 1..Len(page), NEW id
  PROVE  /\ Own(First(page, n), id) \in SUBSET (1..n) /\ Placed(First(page, n), id) \in SUBSET (1..n)
         /\ page[n + 1].body = Unparsable \/ page[n + 1].id # id =>
              /\ Own(First(page, n + 1), id) = Own(First(page, n), id)
              /\ Placed(First(page, n + 1), id) = Placed(First(page, n), id)
         /\ page[n + 1].body # Unparsable /\ page[n + 1].id = id =>
              /\ Own(First(page, n + 1), id) = Own(First(page, n), id) \cup {n + 1}
              /\ Placed(First(page, n + 1), id) =
                   Placed(First(page, n), id) \cup (IF page[n + 1].index = Null THEN {} ELSE {n + 1})
<1> DEFINE p == First(page, n)
           q == First(page, n + 1)
<1>1. /\ DOMAIN p = 1..n /\ \A i \in 1..n : p[i] = page[i]
      /\ DOMAIN q = 1..(n + 1) /\ \A i \in 1..(n + 1) : q[i] = page[i]
  BY DEF First
<1>2. 1..(n + 1) = (1..n) \cup {n + 1} /\ n + 1 \notin 1..n
  OBVIOUS
<1> HIDE DEF p, q
<1>3. \A i : i \in Own(p, id) <=> i \in 1..n /\ page[i].body # Unparsable /\ page[i].id = id
  BY <1>1 DEF Own, Parsed
<1>4. \A i : i \in Own(q, id) <=> i \in 1..(n + 1) /\ page[i].body # Unparsable /\ page[i].id = id
  BY <1>1 DEF Own, Parsed
<1>5. \A i : i \in Placed(p, id) <=> i \in Own(p, id) /\ page[i].index # Null
  BY <1>1, <1>3 DEF Placed
<1>6. \A i : i \in Placed(q, id) <=> i \in Own(q, id) /\ page[i].index # Null
  BY <1>1, <1>4 DEF Placed
<1>7. Own(p, id) \in SUBSET (1..n) /\ Placed(p, id) \in SUBSET (1..n)
  BY <1>3, <1>5
<1>8. page[n + 1].body = Unparsable \/ page[n + 1].id # id =>
        Own(q, id) = Own(p, id) /\ Placed(q, id) = Placed(p, id)
  BY <1>2, <1>3, <1>4, <1>5, <1>6
<1>9. page[n + 1].body # Unparsable /\ page[n + 1].id = id =>
        /\ Own(q, id) = Own(p, id) \cup {n + 1}
        /\ Placed(q, id) = Placed(p, id) \cup (IF page[n + 1].index = Null THEN {} ELSE {n + 1})
  <2> SUFFICES ASSUME page[n + 1].body # Unparsable, page[n + 1].id = id
               PROVE  /\ Own(q, id) = Own(p, id) \cup {n + 1}
                      /\ Placed(q, id) = Placed(p, id) \cup (IF page[n + 1].index = Null THEN {} ELSE {n + 1})
    OBVIOUS
  <2>1. Own(q, id) = Own(p, id) \cup {n + 1}
    BY <1>2, <1>3, <1>4
  <2>2. CASE page[n + 1].index = Null
    BY <2>1, <2>2, <1>2, <1>5, <1>6
  <2>3. CASE page[n + 1].index # Null
    BY <2>1, <2>3, <1>2, <1>5, <1>6
  <2> QED
    BY <2>1, <2>2, <2>3
<1> QED
  BY <1>7, <1>8, <1>9 DEF p, q

\* A copy that is taken in is merged into that of its id, whose place stays its own.
LEMMA CoalescedOneMore ==
  ASSUME NEW page \in Seq(Raw), NEW n \in Nat, n + 1 \in 1..Len(page), NEW id,
         Own(First(page, n), id) # {}
  PROVE  /\ Coalesced(First(page, n + 1), id).at = Coalesced(First(page, n), id).at
         /\ Plain(Coalesced(First(page, n + 1), id)) =
              IF page[n + 1].body = Unparsable THEN Plain(Coalesced(First(page, n), id))
              ELSE Merged(Plain(Coalesced(First(page, n), id)), page[n + 1])
<1> DEFINE p == First(page, n)
           q == First(page, n + 1)
           r == page[n + 1]
           own == Own(p, id)
           placed == Placed(p, id)
           e == Coalesced(p, id)
           f == Coalesced(q, id)
<1>1. /\ \A i \in 1..n : p[i] = page[i] /\ q[i] = page[i]
      /\ q[n + 1] = r
  BY DEF First
<1>2. /\ own \in SUBSET (1..n) /\ placed \in SUBSET own /\ own # {}
      /\ r.body = Unparsable \/ r.id # id => Own(q, id) = own /\ Placed(q, id) = placed
      /\ r.body # Unparsable /\ r.id = id =>
           /\ Own(q, id) = own \cup {n + 1}
           /\ Placed(q, id) = placed \cup (IF r.index = Null THEN {} ELSE {n + 1})
  BY OwnOneMore DEF Placed
<1>3. Min(own) \in own /\ \A y \in own : Min(own) <= y
  BY <1>2, MinIsIn
<1>4. placed # {} => Min(placed) \in placed /\ \A y \in placed : Min(placed) <= y
  BY <1>2, MinIsIn
<1>5. /\ e.id = id /\ e.index = p[Kept(p, id)].index /\ e.body = p[Kept(p, id)].body
      /\ e.created = p[Min(own)].created /\ e.at = Min(own)
      /\ e.conflict = \E i \in placed : Differ(p[Kept(p, id)], p[i])
  BY CoalescedParts
<1>6. /\ f.id = id /\ f.index = q[Kept(q, id)].index /\ f.body = q[Kept(q, id)].body
      /\ f.created = q[Min(Own(q, id))].created /\ f.at = Min(Own(q, id))
      /\ f.conflict = \E i \in Placed(q, id) : Differ(q[Kept(q, id)], q[i])
  BY CoalescedParts
<1>7. \A i \in placed : p[i].index # Null
  BY DEF Placed
<1>8. \A i \in own \ placed : p[i].index = Null
  BY DEF Placed
<1> HIDE DEF p, q, r, own, placed, e, f
<1>9. n + 1 \in Nat /\ \A i \in own : i \in 1..n /\ i <= n + 1 /\ i \in Nat /\ p[i] = page[i] /\ q[i] = p[i]
  BY <1>1, <1>2
<1>10. Own(q, id) \in SUBSET Nat
  BY <1>2, <1>9
<1>11. Min(Own(q, id)) = Min(own)
  <2>1. CASE r.body = Unparsable \/ r.id # id
    BY <1>2, <2>1
  <2>2. CASE r.body # Unparsable /\ r.id = id
    <3>1. Own(q, id) = own \cup {n + 1}
      BY <1>2, <2>2
    <3>2. Min(own) \in Own(q, id) /\ \A y \in Own(q, id) : Min(own) <= y
      BY <1>3, <1>9, <3>1
    <3> QED
      BY <1>10, <3>2, MinIs
  <2> QED
    BY <2>1, <2>2
<1>12. f.at = e.at /\ f.created = e.created
  BY <1>3, <1>5, <1>6, <1>9, <1>11
<1>13. Kept(p, id) \in own /\ (placed # {} => Kept(p, id) = Min(placed) /\ Kept(p, id) \in placed)
  BY <1>2, <1>3, <1>4 DEF Kept, own, placed
<1>14. Plain(e) = [id |-> id, index |-> e.index, body |-> e.body,
                   created |-> e.created, conflict |-> e.conflict]
  BY <1>5 DEF Plain
<1>15. Plain(f) = [id |-> id, index |-> f.index, body |-> f.body,
                   created |-> e.created, conflict |-> f.conflict]
  BY <1>6, <1>12 DEF Plain
<1>16. CASE Placed(q, id) = placed
  <2>1. Kept(q, id) = Kept(p, id)
    <3>1. CASE placed = {}
      <4>1. Kept(q, id) = Min(Own(q, id)) /\ Kept(p, id) = Min(own)
        BY <1>16, <3>1 DEF Kept, own, placed
      <4> QED
        BY <1>11, <4>1
    <3>2. CASE placed # {}
      BY <1>16, <3>2 DEF Kept, placed
    <3> QED
      BY <3>1, <3>2
  <2>2. f.index = e.index /\ f.body = e.body
    BY <2>1, <1>5, <1>6, <1>9, <1>13
  <2>3. f.conflict = e.conflict
    BY <2>1, <1>2, <1>5, <1>6, <1>9, <1>13, <1>16
  <2>4. Plain(f) = Plain(e)
    BY <2>2, <2>3, <1>14, <1>15
  <2>5. r.body = Unparsable \/ Merged(Plain(e), r) = Plain(e)
    <3>1. CASE r.body # Unparsable /\ r.id = id
      <4>1. r.index = Null
        BY <1>2, <1>9, <1>16, <3>1
      <4> QED
        BY <4>1 DEF Merged
    <3>2. CASE r.id # id
      BY <3>2, <1>14 DEF Merged
    <3> QED
      BY <3>1, <3>2
  <2> QED
    BY <1>12, <2>4, <2>5 DEF p, q, r, e, f
<1>17. CASE Placed(q, id) # placed
  <2>1. r.body # Unparsable /\ r.id = id /\ r.index # Null /\ Placed(q, id) = placed \cup {n + 1}
    BY <1>2, <1>17
  <2>2. CASE placed = {}
    <3>1. Placed(q, id) = {n + 1}
      BY <2>1, <2>2
    <3>2. Kept(q, id) = n + 1
      <4>1. Min({n + 1}) = n + 1
        BY <1>9, MinIs
      <4> QED
        BY <3>1, <4>1 DEF Kept
    <3>3. q[n + 1] = r
      BY <1>1 DEF q, r
    <3>4. e.conflict = FALSE /\ e.index = Null
      BY <2>2, <1>5, <1>8, <1>13
    <3>5. f.index = r.index /\ f.body = r.body /\ f.conflict = FALSE
      <4>1. ~Differ(r, r)
        BY DEF Differ
      <4>2. f.conflict = \E i \in {n + 1} : Differ(r, q[i])
        BY <3>1, <3>2, <3>3, <1>6
      <4>3. ~\E i \in {n + 1} : Differ(r, q[i])
        BY <4>1, <3>3
      <4> QED
        BY <3>2, <3>3, <4>2, <4>3, <1>6
    <3>6. Merged(Plain(e), r) = Listed(r, e.created)
      <4>1. Plain(e).id = r.id /\ ~Plain(e).conflict /\ Plain(e).index = Null /\ Plain(e).created = e.created
        BY <2>1, <3>4, <1>14
      <4> QED
        BY <4>1, <2>1 DEF Merged
    <3>7. Plain(f) = Merged(Plain(e), r)
      BY <2>1, <3>5, <3>6, <1>15 DEF Listed
    <3> QED
      BY <1>12, <2>1, <3>7 DEF p, q, r, e, f
  <2>3. CASE placed # {}
    <3>1. Placed(q, id) # {} /\ Min(Placed(q, id)) = Min(placed)
      <4>1. Placed(q, id) \in SUBSET Nat
        BY <1>2, <1>9, <2>1
      <4>2. Min(placed) \in Placed(q, id) /\ \A y \in Placed(q, id) : Min(placed) <= y
        BY <1>2, <1>4, <1>9, <2>1, <2>3
      <4> QED
        BY <4>1, <4>2, MinIs
    <3>2. Kept(q, id) = Kept(p, id)
      BY <3>1, <1>13, <2>3 DEF Kept
    <3>3. f.index = e.index /\ f.body = e.body /\ e.index # Null
      BY <3>2, <1>5, <1>6, <1>7, <1>9, <1>13, <2>3
    <3> DEFINE k == p[Kept(p, id)]
    <3>4. q[Kept(q, id)] = k
      BY <3>2, <1>9, <1>13
    <3>5. f.conflict <=> e.conflict \/ Differ(k, r)
      <4>1. f.conflict <=> \E i \in Placed(q, id) : Differ(k, q[i])
        BY <1>6, <3>4
      <4>2. e.conflict <=> \E i \in placed : Differ(k, p[i])
        BY <1>5
      <4> HIDE DEF k
      <4>3. \A i \in placed : q[i] = p[i]
        BY <1>2, <1>9
      <4>4. q[n + 1] = r
        BY <1>1 DEF q, r
      <4> QED
        BY <4>1, <4>2, <4>3, <4>4, <2>1
    <3>6. Differ(Plain(e), r) <=> Differ(k, r)
      <4>1. Plain(e).index = k.index /\ Plain(e).body = k.body
        BY <1>5, <1>14
      <4> QED
        BY <4>1 DEF Differ
    <3>7. e.conflict \in BOOLEAN /\ f.conflict \in BOOLEAN /\ Differ(Plain(e), r) \in BOOLEAN
      BY <1>5, <1>6 DEF Differ
    <3>8. CASE e.conflict
      <4>1. Merged(Plain(e), r) = Plain(e)
        BY <3>8, <1>14 DEF Merged
      <4>2. f.conflict = e.conflict
        BY <3>5, <3>7, <3>8
      <4>3. Plain(f) = Plain(e)
        BY <4>2, <3>3, <1>14, <1>15
      <4> QED
        BY <4>1, <4>3, <1>12, <2>1 DEF p, q, r, e, f
    <3>9. CASE ~e.conflict
      <4>1. Merged(Plain(e), r) = [Plain(e) EXCEPT !.conflict = Differ(Plain(e), r)]
        BY <3>9, <3>3, <2>1, <1>14 DEF Merged
      <4>2. f.conflict = Differ(Plain(e), r)
        BY <3>5, <3>6, <3>7, <3>9
      <4>3. Plain(f) = Merged(Plain(e), r)
        BY <4>1, <4>2, <3>3, <1>14, <1>15
      <4> QED
        BY <4>3, <1>12, <2>1 DEF p, q, r, e, f
    <3> QED
      BY <3>8, <3>9
  <2> QED
    BY <2>2, <2>3
<1> QED
  BY <1>16, <1>17

\* The first copy of an id is listed as it is.
LEMMA CoalescedFirst ==
  ASSUME NEW page \in Seq(Raw), NEW n \in Nat, n + 1 \in 1..Len(page),
         page[n + 1].body # Unparsable, Own(First(page, n), page[n + 1].id) = {}
  PROVE  /\ Coalesced(First(page, n + 1), page[n + 1].id).at = n + 1
         /\ Plain(Coalesced(First(page, n + 1), page[n + 1].id))
              = Listed(page[n + 1], page[n + 1].created)
<1> DEFINE q == First(page, n + 1)
           r == page[n + 1]
           e == Coalesced(q, r.id)
<1>1. q[n + 1] = r
  BY DEF First
<1>2. Own(q, r.id) = {n + 1} /\ Placed(q, r.id) \in SUBSET {n + 1}
  <2>1. /\ page \in Seq(Raw) /\ n \in Nat /\ n + 1 \in 1..Len(page)
        /\ page[n + 1].body # Unparsable /\ page[n + 1].id = r.id
        /\ q = First(page, n + 1) /\ Own(First(page, n), r.id) = {}
    OBVIOUS
  <2> HIDE DEF q, r
  <2>2. Own(q, r.id) = Own(First(page, n), r.id) \cup {n + 1}
    BY <2>1, OwnOneMore, Zenon
  <2>3. Placed(q, r.id) \in SUBSET Own(q, r.id)
    BY DEF Placed
  <2> QED
    BY <2>1, <2>2, <2>3
<1>3. Min({n + 1}) = n + 1
  BY MinIs
<1>4. Kept(q, r.id) = n + 1
  <2>1. Placed(q, r.id) = {} \/ Placed(q, r.id) = {n + 1}
    BY <1>2
  <2> QED
    BY <1>2, <1>3, <2>1 DEF Kept
<1> HIDE DEF q, r
<1>5. /\ e.id = r.id /\ e.index = r.index /\ e.body = r.body
      /\ e.created = r.created /\ e.at = n + 1
      /\ e.conflict = \E i \in Placed(q, r.id) : Differ(r, q[i])
  BY <1>1, <1>2, <1>3, <1>4, CoalescedParts
<1> HIDE DEF e
<1>6. e.conflict = FALSE
  <2>1. \A i \in Placed(q, r.id) : q[i] = r
    BY <1>1, <1>2
  <2>2. ~Differ(r, r)
    BY DEF Differ
  <2>3. ~\E i \in Placed(q, r.id) : Differ(r, q[i])
    BY <2>1, <2>2
  <2> QED
    BY <2>3, <1>5
<1>7. Plain(e) = Listed(r, r.created)
  BY <1>5, <1>6 DEF Plain, Listed
<1> QED
  BY <1>5, <1>7 DEF e, q, r

\* The list the loop makes of a page, in the order in which ids are first named.
IsListOf(out, page) ==
  /\ {out[k].id : k \in DOMAIN out} = {page[i].id : i \in Parsed(page)}
  /\ \A k \in DOMAIN out : out[k] = Plain(Coalesced(page, out[k].id))
  /\ \A j, k \in DOMAIN out :
       j < k => Coalesced(page, out[j].id).at < Coalesced(page, out[k].id).at

\* A copy on the list.
ListedCopy == [id : Id, index : Nat \cup {Null}, body : Body, created : Nat, conflict : BOOLEAN]

\* An id is listed once it has copies that parse.
LEMMA IdsOfPage ==
  ASSUME NEW page, NEW id
  PROVE  id \in {page[i].id : i \in Parsed(page)} <=> Own(page, id) # {}
  BY DEF Own

\* What one more copy does to the list is what it does to the page.
LEMMA TakeInKeeps ==
  ASSUME NEW page \in Seq(Raw), NEW n \in Nat, n + 1 \in 1..Len(page),
         NEW out \in Seq(ListedCopy), IsListOf(out, First(page, n))
  PROVE  /\ TakeIn(out, page[n + 1]) \in Seq(ListedCopy)
         /\ IsListOf(TakeIn(out, page[n + 1]), First(page, n + 1))
<1> DEFINE p == First(page, n)
           q == First(page, n + 1)
           r == page[n + 1]
           new == TakeIn(out, r)
<1>1. r \in Raw
  OBVIOUS
<1>2. DOMAIN out = 1..Len(out) /\ Len(out) \in Nat /\ \A k \in DOMAIN out : out[k] \in ListedCopy
  OBVIOUS
<1>3. \A id : /\ id \in {p[i].id : i \in Parsed(p)} <=> Own(p, id) # {}
              /\ id \in {q[i].id : i \in Parsed(q)} <=> Own(q, id) # {}
  BY IdsOfPage
<1>4. /\ {out[k].id : k \in DOMAIN out} = {p[i].id : i \in Parsed(p)}
      /\ \A k \in DOMAIN out : out[k] = Plain(Coalesced(p, out[k].id))
      /\ \A j, k \in DOMAIN out :
           j < k => Coalesced(p, out[j].id).at < Coalesced(p, out[k].id).at
  BY DEF IsListOf
<1>5. \A id : (\E k \in DOMAIN out : out[k].id = id) <=> Own(p, id) # {}
  BY <1>3, <1>4
<1>6. \A id : Own(p, id) # {} =>
        /\ Coalesced(q, id).at = Coalesced(p, id).at
        /\ Plain(Coalesced(q, id)) =
             IF r.body = Unparsable THEN Plain(Coalesced(p, id))
             ELSE Merged(Plain(Coalesced(p, id)), r)
  BY CoalescedOneMore
<1>7. \A id : Own(q, id) # {} <=> Own(p, id) # {} \/ (r.body # Unparsable /\ r.id = id)
  <2> TAKE id
  <2>1. /\ r.body = Unparsable \/ r.id # id => Own(q, id) = Own(p, id)
        /\ r.body # Unparsable /\ r.id = id => Own(q, id) = Own(p, id) \cup {n + 1}
    BY OwnOneMore
  <2> HIDE DEF p, q, r
  <2> QED
    BY <2>1
<1> HIDE DEF p, q, r, new
<1>8. CASE r.body = Unparsable
  <2>1. new = out
    BY <1>8 DEF TakeIn, new
  <2>2. {new[k].id : k \in DOMAIN new} = {q[i].id : i \in Parsed(q)}
    <3>1. \A id : id \in {q[i].id : i \in Parsed(q)} <=> id \in {p[i].id : i \in Parsed(p)}
      BY <1>3, <1>7, <1>8
    <3> QED
      BY <2>1, <3>1, <1>4
  <2>3. \A k \in DOMAIN new : Own(p, new[k].id) # {}
    BY <2>1, <1>5
  <2>4. /\ \A k \in DOMAIN new : new[k] = Plain(Coalesced(q, new[k].id))
        /\ \A j, k \in DOMAIN new :
             j < k => Coalesced(q, new[j].id).at < Coalesced(q, new[k].id).at
    BY <2>1, <2>3, <1>4, <1>6, <1>8
  <2> QED
    BY <2>1, <2>2, <2>4 DEF IsListOf, new, q, r
<1>9. CASE r.body # Unparsable /\ Own(p, r.id) # {}
  <2>1. new = [k \in DOMAIN out |-> Merged(out[k], r)]
    BY <1>5, <1>9 DEF TakeIn, new
  <2>2. \A cur \in ListedCopy : Merged(cur, r) \in ListedCopy /\ Merged(cur, r).id = cur.id
    BY <1>1, <1>9 DEF Merged, ListedCopy, Raw, Listed, Differ
  <2>3. DOMAIN new = DOMAIN out /\ \A k \in DOMAIN out : new[k] = Merged(out[k], r) /\ new[k].id = out[k].id
    BY <2>1, <2>2, <1>2
  <2>4. new \in Seq(ListedCopy)
    BY <2>1, <2>2, <1>2
  <2>5. {new[k].id : k \in DOMAIN new} = {q[i].id : i \in Parsed(q)}
    <3>1. \A id : id \in {q[i].id : i \in Parsed(q)} <=> id \in {p[i].id : i \in Parsed(p)}
      BY <1>3, <1>7, <1>9
    <3>2. {new[k].id : k \in DOMAIN new} = {out[k].id : k \in DOMAIN out}
      BY <2>3
    <3> QED
      BY <3>1, <3>2, <1>4
  <2>6. \A k \in DOMAIN out : Own(p, out[k].id) # {}
    BY <1>5
  <2>7. \A k \in DOMAIN new : new[k] = Plain(Coalesced(q, new[k].id))
    BY <2>3, <2>6, <1>4, <1>6, <1>9
  <2>8. \A j, k \in DOMAIN new : j < k => Coalesced(q, new[j].id).at < Coalesced(q, new[k].id).at
    BY <2>3, <2>6, <1>4, <1>6
  <2> QED
    BY <2>4, <2>5, <2>7, <2>8 DEF IsListOf, new, q, r
<1>10. CASE r.body # Unparsable /\ Own(p, r.id) = {}
  <2> DEFINE m == Len(out) + 1
             c == Listed(r, r.created)
  <2>1. new = Append(out, c)
    BY <1>5, <1>10 DEF TakeIn, new
  <2>2. c \in ListedCopy /\ c.id = r.id
    BY <1>1, <1>10 DEF ListedCopy, Raw, Listed
  <2> HIDE DEF c
  <2>3. /\ new \in Seq(ListedCopy) /\ DOMAIN new = 1..m /\ new[m] = c
        /\ \A k \in 1..Len(out) : new[k] = out[k]
    BY <2>1, <2>2
  <2>4. m \in 1..m /\ \A k \in 1..m : k = m \/ k \in DOMAIN out
    BY <1>2
  <2>5. Coalesced(q, r.id).at = n + 1 /\ Plain(Coalesced(q, r.id)) = c
    BY <1>10, CoalescedFirst DEF p, q, r, c
  <2>6. \A k \in DOMAIN out : k \in 1..m /\ k < m /\ Own(p, out[k].id) # {} /\ new[k] = out[k]
    BY <1>2, <1>5, <2>3
  <2>7. {new[k].id : k \in DOMAIN new} = {q[i].id : i \in Parsed(q)}
    <3>1. \A id : id \in {new[k].id : k \in DOMAIN new} <=> id = r.id \/ Own(p, id) # {}
      BY <2>2, <2>3, <2>4, <2>6, <1>5
    <3>2. \A id : id \in {q[i].id : i \in Parsed(q)} <=> id = r.id \/ Own(p, id) # {}
      BY <1>3, <1>7, <1>10
    <3> QED
      BY <3>1, <3>2
  <2>8. \A k \in DOMAIN new : new[k] = Plain(Coalesced(q, new[k].id))
    <3> SUFFICES ASSUME NEW k \in 1..m PROVE new[k] = Plain(Coalesced(q, new[k].id))
      BY <2>3
    <3>1. CASE k = m
      BY <3>1, <2>2, <2>3, <2>5
    <3>2. CASE k \in DOMAIN out
      <4>1. r.id # out[k].id
        BY <3>2, <1>10, <2>6
      <4>2. Merged(Plain(Coalesced(p, out[k].id)), r) = out[k]
        BY <4>1, <3>2, <1>4 DEF Merged
      <4> QED
        BY <4>2, <3>2, <2>6, <1>6, <1>10
    <3> QED
      BY <3>1, <3>2, <2>4
  <2>9. \A j, k \in DOMAIN new : j < k => Coalesced(q, new[j].id).at < Coalesced(q, new[k].id).at
    <3> SUFFICES ASSUME NEW j \in 1..m, NEW k \in 1..m, j < k
                 PROVE  Coalesced(q, new[j].id).at < Coalesced(q, new[k].id).at
      BY <2>3
    <3>1. j \in DOMAIN out
      BY <1>2, <2>4
    <3>2. CASE k = m
      <4>1. Coalesced(p, out[j].id).at \in 1..n
        <5>1. Own(p, out[j].id) \in SUBSET (1..n) /\ Own(p, out[j].id) # {}
          BY <3>1, <2>6, OwnOneMore DEF p
        <5>2. Min(Own(p, out[j].id)) \in Own(p, out[j].id)
          BY <5>1, MinIsIn
        <5> QED
          BY <5>1, <5>2, CoalescedParts
      <4>2. Coalesced(q, new[j].id).at \in 1..n
        BY <4>1, <3>1, <2>6, <1>6
      <4>3. Coalesced(q, new[k].id).at = n + 1
        BY <3>2, <2>2, <2>3, <2>5
      <4> QED
        BY <4>2, <4>3
    <3>3. CASE k \in DOMAIN out
      BY <3>1, <3>3, <2>6, <1>4, <1>6
    <3> QED
      BY <3>2, <3>3, <2>4
  <2> QED
    BY <2>3, <2>7, <2>8, <2>9 DEF IsListOf, new, q, r
<1> QED
  BY <1>8, <1>9, <1>10

\* What holds at the start and from each step to the next holds at the end.
LEMMA StepByStep ==
  ASSUME NEW n \in Nat, NEW P, 0 \in P,
         \A k \in 0..n : k # n /\ k \in P => k + 1 \in P
  PROVE  n \in P
<1> SUFFICES ASSUME n \notin P PROVE FALSE
  OBVIOUS
<1> DEFINE Bad == {k \in 0..n : k \notin P}
<1>1. Bad \in SUBSET Nat /\ n \in Bad
  OBVIOUS
<1>2. PICK k \in Bad : \A j \in Bad : k <= j
  BY <1>1, MinIsIn
<1>3. k \in 0..n /\ k \notin P /\ k # 0
  OBVIOUS
<1>4. k - 1 \in 0..n /\ k - 1 # n /\ ~(k <= k - 1) /\ (k - 1) + 1 = k
  BY <1>3
<1>5. k - 1 \in P
  BY <1>2, <1>4
<1> QED
  BY <1>3, <1>4, <1>5

\* There is a function the loop describes.
LEMMA CoalesceLoopExists ==
  ASSUME NEW page \in Seq(Raw)
  PROVE  \E f : f = [n \in 0..Len(page) |-> IF n = 0 THEN <<>> ELSE TakeIn(f[n - 1], page[n])]
<1> DEFINE Upto(f, m) == f = [n \in 0..m |-> IF n = 0 THEN <<>> ELSE TakeIn(f[n - 1], page[n])]
           P == {m \in Nat : \E f : Upto(f, m)}
<1>1. 0 \in P
  <2> DEFINE g == [n \in 0..0 |-> <<>>]
  <2>1. \A n \in 0..0 : n = 0
    OBVIOUS
  <2>2. g = [n \in 0..0 |-> IF n = 0 THEN <<>> ELSE TakeIn(g[n - 1], page[n])]
    BY <2>1, Zenon
  <2>3. Upto(g, 0)
    BY <2>2
  <2> QED
    BY <2>3
<1>2. \A k \in 0..Len(page) : k # Len(page) /\ k \in P => k + 1 \in P
  <2> SUFFICES ASSUME NEW k \in 0..Len(page), k \in P PROVE k + 1 \in P
    OBVIOUS
  <2>0. k \in Nat /\ k + 1 \in Nat
    OBVIOUS
  <2>1. PICK f : Upto(f, k)
    OBVIOUS
  <2> DEFINE g == [n \in 0..(k + 1) |-> IF n = k + 1 THEN TakeIn(f[k], page[k + 1]) ELSE f[n]]
  <2>2. \A n \in 0..(k + 1) : g[n] = IF n = 0 THEN <<>> ELSE TakeIn(g[n - 1], page[n])
    <3> TAKE n \in 0..(k + 1)
    <3>1. CASE n = k + 1
      <4>1. g[n] = TakeIn(f[k], page[n]) /\ g[n - 1] = f[k] /\ n # 0
        BY <3>1
      <4> QED
        BY <4>1
    <3>2. CASE n # k + 1
      <4>1. n \in 0..k /\ g[n] = f[n] /\ (n # 0 => n - 1 \in 0..(k + 1) /\ n - 1 # k + 1)
        BY <3>2
      <4>2. n # 0 => g[n - 1] = f[n - 1]
        BY <4>1
      <4>3. f[n] = IF n = 0 THEN <<>> ELSE TakeIn(f[n - 1], page[n])
        BY <2>1, <4>1
      <4> QED
        BY <4>1, <4>2, <4>3
    <3> QED
      BY <3>1, <3>2
  <2>3. Upto(g, k + 1)
    BY <2>2
  <2>4. \E h : Upto(h, k + 1)
    BY <2>3
  <2> QED
    BY <2>0, <2>4
<1>3. Len(page) \in P
  <2> HIDE DEF P
  <2> QED
    BY <1>1, <1>2, StepByStep
<1> QED
  BY <1>3

\* What Coalesce says of each id is what the loop comes to, in the order in
\* which the page first names them, for pages of any length (verifier.go coalesce).
THEOREM CoalesceIsTheLoop ==
  ASSUME NEW page \in Seq(Raw)
  PROVE  IsListOf(CoalesceLoop(page), page)
<1> DEFINE f == CHOOSE f : f = [n \in 0..Len(page) |-> IF n = 0 THEN <<>> ELSE TakeIn(f[n - 1], page[n])]
<1>1. f = [n \in 0..Len(page) |-> IF n = 0 THEN <<>> ELSE TakeIn(f[n - 1], page[n])]
  BY CoalesceLoopExists
<1>2. CoalesceLoop(page) = f[Len(page)]
  BY DEF CoalesceLoop
<1> HIDE DEF f
<1> DEFINE P == {n \in Nat : f[n] \in Seq(ListedCopy) /\ IsListOf(f[n], First(page, n))}
<1>3. 0 \in P
  <2>1. f[0] = <<>>
    BY <1>1
  <2>2. Parsed(First(page, 0)) = {}
    BY DEF Parsed, First
  <2>3. IsListOf(<<>>, First(page, 0))
    BY <2>2 DEF IsListOf
  <2>4. <<>> \in Seq(ListedCopy)
    OBVIOUS
  <2>5. f[0] \in Seq(ListedCopy) /\ IsListOf(f[0], First(page, 0))
    BY <2>1, <2>3, <2>4, Zenon
  <2> QED
    BY <2>5
<1>4. \A n \in 0..Len(page) : n # Len(page) /\ n \in P => n + 1 \in P
  <2> SUFFICES ASSUME NEW n \in 0..Len(page), n # Len(page), n \in P PROVE n + 1 \in P
    OBVIOUS
  <2>1. n + 1 \in 1..Len(page) /\ n + 1 \in Nat /\ n + 1 # 0 /\ (n + 1) - 1 = n /\ n + 1 \in 0..Len(page)
    OBVIOUS
  <2>2. f[n + 1] = TakeIn(f[n], page[n + 1])
    BY <1>1, <2>1
  <2> QED
    BY <2>1, <2>2, TakeInKeeps
<1>5. Len(page) \in P
  <2> HIDE DEF P
  <2> QED
    BY <1>3, <1>4, StepByStep
<1>6. First(page, Len(page)) = page
  BY DEF First
<1> QED
  BY <1>2, <1>5, <1>6
----------------------------------------------------------------------------------
(***************************************************************************)
(* The operations on a feed state.                                         *)
(***************************************************************************)

\* A refreshed record is the same record, kept for longer.
LEMMA RefreshFacts ==
  ASSUME NEW feed, IsFeedState(feed), now \in Nat, NEW ids
  PROVE  LET new == Refresh(feed, ids) IN
         /\ IsFeedState(new)
         /\ new.highWater = feed.highWater /\ new.pending = feed.pending
         /\ DOMAIN new.done = DOMAIN feed.done
         /\ \A id \in DOMAIN feed.done :
              /\ new.done[id].index = feed.done[id].index
              /\ new.done[id].hash = feed.done[id].hash
              /\ new.done[id].recordedAt = IF id \in ids THEN now ELSE feed.done[id].recordedAt
<1> DEFINE new == Refresh(feed, ids)
<1>1. /\ new.highWater = feed.highWater /\ new.pending = feed.pending
      /\ new.done = [id \in DOMAIN feed.done |->
           IF id \in ids THEN [feed.done[id] EXCEPT !.recordedAt = now] ELSE feed.done[id]]
      /\ new = [highWater |-> new.highWater, done |-> new.done, pending |-> new.pending]
  BY DEF Refresh, IsFeedState
<1>2. \A id \in DOMAIN feed.done : feed.done[id] \in DoneRecord
  BY DEF IsFeedState, MapsIdsTo
<1> HIDE DEF new
<1>3. \A id \in DOMAIN feed.done :
        /\ new.done[id] \in DoneRecord
        /\ new.done[id].index = feed.done[id].index
        /\ new.done[id].hash = feed.done[id].hash
        /\ new.done[id].recordedAt = IF id \in ids THEN now ELSE feed.done[id].recordedAt
  BY <1>1, <1>2 DEF DoneRecord
<1>4. IsFeedState(new)
  BY <1>1, <1>3 DEF IsFeedState, MapsIdsTo
<1> QED
  BY <1>1, <1>3, <1>4 DEF new

\* What a pending record is built from.
LEMMA PendingOfFacts ==
  ASSUME NEW c \in TakenCopy, now \in Nat
  PROVE  LET pe == PendingOf(c) IN
         /\ pe \in PendingRecord /\ IsOfOneEvent(pe)
         /\ c.index # Null => pe.index = c.index
         /\ pe.hash = Hash(c.body) /\ pe.hashes = Hashes(c.body) /\ pe.firstSeen = now
<1>1. c.body \in Body /\ c.index \in Nat \cup {Null}
  BY DEF TakenCopy
<1>2. /\ Hash(c.body) \in LeafHash /\ Hashes(c.body) \in SUBSET LeafHash
      /\ Hash(c.body) \in Hashes(c.body)
  BY <1>1, LeafFacts
<1> QED
  BY <1>1, <1>2 DEF PendingOf, PendingRecord, IsOfOneEvent

\* A record put off is put in place of the one there was, with its deadline.
LEMMA SettledPending ==
  ASSUME IsFeedState(st), NEW id \in Id, NEW pe \in PendingRecord
  PROVE  LET new == SettledState(id, "pending", pe) IN
         /\ IsFeedState(new)
         /\ new.highWater = st.highWater /\ new.done = st.done
         /\ DOMAIN new.pending = DOMAIN st.pending \cup {id}
         /\ \A other \in DOMAIN st.pending \ {id} : new.pending[other] = st.pending[other]
         /\ new.pending[id].index = pe.index /\ new.pending[id].hash = pe.hash
         /\ new.pending[id].hashes = pe.hashes
         /\ new.pending[id].firstSeen =
              IF id \in DOMAIN st.pending THEN st.pending[id].firstSeen ELSE pe.firstSeen
<1> DEFINE new == SettledState(id, "pending", pe)
           was == IF id \in DOMAIN st.pending
                  THEN [pe EXCEPT !.firstSeen = st.pending[id].firstSeen] ELSE pe
<1>1. /\ new.highWater = st.highWater /\ new.done = st.done
      /\ new.pending = Set(st.pending, id, was)
      /\ new = [highWater |-> new.highWater, done |-> new.done, pending |-> new.pending]
  BY DEF SettledState, IsFeedState
<1>2. /\ was \in PendingRecord /\ was.index = pe.index /\ was.hash = pe.hash
      /\ was.hashes = pe.hashes
      /\ was.firstSeen = IF id \in DOMAIN st.pending THEN st.pending[id].firstSeen ELSE pe.firstSeen
  BY DEF PendingRecord, IsFeedState, MapsIdsTo
<1> HIDE DEF new, was
<1>3. /\ DOMAIN new.pending = DOMAIN st.pending \cup {id}
      /\ \A other \in DOMAIN st.pending \ {id} : new.pending[other] = st.pending[other]
      /\ new.pending[id] = was
  BY <1>1 DEF Set
<1>4. IsFeedState(new)
  BY <1>1, <1>2, <1>3 DEF IsFeedState, MapsIdsTo
<1> QED
  BY <1>1, <1>2, <1>3, <1>4 DEF new

\* A verified event is recorded as done, and no longer awaited.
LEMMA SettledVerified ==
  ASSUME IsFeedState(st), now \in Nat, NEW id \in Id, NEW pe \in PendingRecord
  PROVE  LET new == SettledState(id, "verified", pe) IN
         /\ IsFeedState(new)
         /\ new.highWater = st.highWater
         /\ DOMAIN new.done = DOMAIN st.done \cup {id}
         /\ \A other \in DOMAIN st.done \ {id} : new.done[other] = st.done[other]
         /\ new.done[id].index = pe.index /\ new.done[id].hash = pe.hash
         /\ new.done[id].recordedAt = now
         /\ DOMAIN new.pending = DOMAIN st.pending \ {id}
         /\ \A other \in DOMAIN new.pending : new.pending[other] = st.pending[other]
<1> DEFINE new == SettledState(id, "verified", pe)
           is == [index |-> pe.index, hash |-> pe.hash, recordedAt |-> now]
<1>1. /\ new.highWater = st.highWater /\ new.done = Set(st.done, id, is)
      /\ new.pending = Drop(st.pending, id)
      /\ new = [highWater |-> new.highWater, done |-> new.done, pending |-> new.pending]
  BY DEF SettledState, IsFeedState
<1>2. is \in DoneRecord
  BY DEF DoneRecord, PendingRecord
<1>3. is.index = pe.index /\ is.hash = pe.hash /\ is.recordedAt = now
  OBVIOUS
<1> HIDE DEF new, is
<1>4. /\ DOMAIN new.done = DOMAIN st.done \cup {id}
      /\ \A other \in DOMAIN st.done \ {id} : new.done[other] = st.done[other]
      /\ new.done[id] = is
      /\ DOMAIN new.pending = DOMAIN st.pending \ {id}
      /\ \A other \in DOMAIN new.pending : new.pending[other] = st.pending[other]
  BY <1>1 DEF Set, Drop
<1>5. IsFeedState(new)
  BY <1>1, <1>2, <1>4 DEF IsFeedState, MapsIdsTo
<1> QED
  BY <1>1, <1>3, <1>4, <1>5 DEF new

\* An event that is not logged has no done record.
LEMMA SettledNotLogged ==
  ASSUME IsFeedState(st), NEW id, id \notin DOMAIN st.done, NEW pe
  PROVE  LET new == SettledState(id, "notLogged", pe) IN
         /\ IsFeedState(new)
         /\ new.highWater = st.highWater /\ new.pending = st.pending
         /\ DOMAIN new.done = DOMAIN st.done
         /\ \A other \in DOMAIN st.done : new.done[other] = st.done[other]
<1> DEFINE new == SettledState(id, "notLogged", pe)
<1>1. /\ new.highWater = st.highWater /\ new.pending = st.pending
      /\ new.done = Drop(st.done, id)
      /\ new = [highWater |-> new.highWater, done |-> new.done, pending |-> new.pending]
  BY DEF SettledState, IsFeedState
<1> HIDE DEF new
<1>2. DOMAIN new.done = DOMAIN st.done /\ \A other \in DOMAIN st.done : new.done[other] = st.done[other]
  BY <1>1 DEF Drop
<1> QED
  BY <1>1, <1>2 DEF new, IsFeedState, MapsIdsTo
----------------------------------------------------------------------------------
(***************************************************************************)
(* The inductive invariant, initially and around a pass.                   *)
(***************************************************************************)

\* A pass that has not ended has said nothing yet.
LEMMA NothingSaidYet ==
  /\ outcome # "ok" => CleanAccountsForAll /\ NoSilentWithdrawal /\ GraceIsEnforced
  /\ (outcome # "ok" => CleanAccountsForAll /\ NoSilentWithdrawal /\ GraceIsEnforced)'
BY DEF CleanAccountsForAll, NoSilentWithdrawal, GraceIsEnforced, Clean

LEMMA FeedInvTypes ==
  ASSUME FeedInv
  PROVE  /\ Len(Log) \in Nat /\ now \in Nat /\ head \in Nat /\ Overlap \in Nat /\ Grace \in Nat
         /\ IsFeedState(st) /\ IsFeedState(file)
         /\ \A id \in DOMAIN st.done : id \in Id /\ st.done[id] \in DoneRecord
         /\ \A id \in DOMAIN st.pending : id \in Id /\ st.pending[id] \in PendingRecord
         /\ \A id \in DOMAIN file.done : id \in Id /\ file.done[id] \in DoneRecord
         /\ \A id \in DOMAIN file.pending : id \in Id /\ file.pending[id] \in PendingRecord
         /\ \A id \in DOMAIN seen : id \in Id /\ seen[id] \in TakenCopy
         /\ rep \in Report
<1>1. Len(Log) \in Nat
  BY FeedAssumption
<1> QED
  BY <1>1, FeedAssumption DEF FeedInv, TypeOK, IsFeedState, MapsIdsTo

\* A state in which no pass runs, and memory is the file.
Fresh ==
  /\ TypeOK
  /\ pc \in {"idle", "reading"} /\ outcome = "none"
  /\ st = file /\ batch = {} /\ seen = <<>> /\ served = {} /\ rep = NoReport
  /\ \A id \in Id : SoundAt(file, id)

LEMMA FreshInv == Fresh => FeedInv
<1> SUFFICES ASSUME Fresh PROVE FeedInv
  OBVIOUS
<1> USE DEF Fresh
<1>1. /\ rep.failed = {} /\ rep.withdrawn = {} /\ rep.listed = {}
      /\ DOMAIN seen = {}
  BY DEF NoReport
<1>2. ASSUME NEW id \in Id PROVE FollowsAt(id) /\ AccountedAt(id)
  BY <1>1 DEF FollowsAt, KeepsWaiting, AccountedAt
<1>3. Books
  BY DEF Books
<1> QED
  BY <1>2, <1>3, NothingSaidYet DEF FeedInv

LEMMA FreshInvNext == Fresh' => FeedInv'
BY FreshInv, PTL

LEMMA NoReportType == NoReport \in Report /\ MapsIdsTo(<<>>, TakenCopy)
BY DEF NoReport, Report, MapsIdsTo

LEMMA FeedInvInit == Init => FeedInv
<1> SUFFICES ASSUME Init PROVE FeedInv
  OBVIOUS
<1>1. file \in Files /\ st = file /\ now = 1 /\ head \in 0..Len(Log) /\ Len(Log) \in Nat
  BY FeedAssumption DEF Init
<1>2. /\ IsFeedState(file) /\ file.highWater <= 1 + MaxSkew
      /\ DOMAIN file.done \cap DOMAIN file.pending = {}
      /\ \A id \in DOMAIN file.done : IsCommitted(file.done[id]) /\ file.done[id].index < head
      /\ \A id \in DOMAIN file.pending : IsOfOneEvent(file.pending[id])
  BY <1>1, FeedAssumption DEF Init
<1>3. last \in [deferred : [Id -> 0..now], failed : [Id -> 0..now]] /\ last.failed = Never
  BY DEF Init, Never
<1>4. TypeOK
  <2>1. file.highWater \in 0..(now + MaxSkew) /\ mark \in 0..(now + MaxSkew)
    BY <1>1, <1>2, FeedAssumption DEF Init, IsFeedState
  <2> QED
    BY <1>1, <1>2, <1>3, <2>1, NoReportType DEF Init, TypeOK
<1>5. ASSUME NEW id \in Id PROVE SoundAt(file, id)
  <2>1. id \in DOMAIN file.done => file.done[id].recordedAt >= last.failed[id]
    BY <1>2, <1>3 DEF IsFeedState, MapsIdsTo, DoneRecord, Never
  <2> QED
    BY <1>2, <2>1 DEF SoundAt
<1> QED
  BY <1>4, <1>5, FreshInv DEF Init, Fresh

LEMMA TickInv == FeedInv /\ Tick => FeedInv'
<1> SUFFICES ASSUME FeedInv, Tick PROVE FeedInv'
  OBVIOUS
<1>1. /\ pc' = "idle" /\ now' = now + 1 /\ head' = head /\ file' = file /\ st' = st
      /\ mark' = mark /\ batch' = batch /\ seen' = seen /\ served' = served /\ rep' = rep
      /\ broke' = broke /\ outcome' = outcome /\ last' = last /\ pc = "idle"
  BY DEF Tick, passVars
<1>2. /\ st = file /\ seen = <<>> /\ served = {} /\ rep = NoReport /\ outcome = "none"
      /\ batch = {}
  BY <1>1 DEF FeedInv, Books
<1>3. TypeOK'
  BY <1>1, FeedAssumption DEF FeedInv, TypeOK
<1>4. \A id \in Id : SoundAt(file, id)'
  BY <1>1 DEF FeedInv, SoundAt
<1> QED
  BY <1>1, <1>2, <1>3, <1>4, FreshInvNext DEF Fresh

LEMMA StartInv == FeedInv /\ Start => FeedInv'
<1> SUFFICES ASSUME FeedInv, Start PROVE FeedInv'
  OBVIOUS
<1>1. /\ pc' = "reading" /\ now' = now /\ head' = head /\ file' = file /\ st' = file
      /\ mark' = file.highWater /\ batch' = batch /\ seen' = seen /\ served' = served /\ rep' = rep
      /\ broke' = broke /\ outcome' = outcome /\ last' = last /\ pc = "idle"
  BY DEF Start
<1>2. /\ seen = <<>> /\ served = {} /\ rep = NoReport /\ outcome = "none" /\ batch = {}
  BY <1>1 DEF FeedInv, Books
<1>3. TypeOK'
  BY <1>1 DEF FeedInv, TypeOK
<1>4. \A id \in Id : SoundAt(file, id)'
  BY <1>1 DEF FeedInv, SoundAt
<1> QED
  BY <1>1, <1>2, <1>3, <1>4, FreshInvNext DEF Fresh

\* A pass ends, with its state saved or not.
LEMMA ExitInv == FeedInv /\ (Exit \/ Crash) => FeedInv'
<1> SUFFICES ASSUME FeedInv, Exit \/ Crash PROVE FeedInv'
  OBVIOUS
<1>1. /\ pc' = "idle" /\ now' = now /\ head' = head /\ st' = file' /\ mark' = 0
      /\ batch' = {} /\ seen' = <<>> /\ served' = {} /\ rep' = NoReport
      /\ broke' = "no" /\ outcome' = "none"
  BY DEF Exit, Crash, Reset
<1>2. \/ file' = file /\ last' = last
      \/ /\ file' = st
         /\ last' = [deferred |-> Latest(last.deferred, rep.deferred),
                     failed |-> Latest(last.failed, rep.failed)]
  BY DEF Exit, Crash
<1>3. now \in Nat /\ 0 \in 0..(now + MaxSkew)
  BY FeedInvTypes, FeedAssumption
<1>4. CASE file' = file /\ last' = last
  <2>1. TypeOK'
    BY <1>1, <1>3, <1>4, NoReportType DEF FeedInv, TypeOK
  <2>2. \A id \in Id : SoundAt(file, id)'
    BY <1>1, <1>4 DEF FeedInv, SoundAt
  <2> QED
    BY <1>1, <2>1, <2>2, FreshInvNext DEF Fresh
<1>5. CASE /\ file' = st
           /\ last' = [deferred |-> Latest(last.deferred, rep.deferred),
                       failed |-> Latest(last.failed, rep.failed)]
  <2>1. last' \in [deferred : [Id -> 0..now], failed : [Id -> 0..now]]
    BY <1>3, <1>5 DEF FeedInv, TypeOK, Latest
  <2>2. TypeOK'
    BY <1>1, <1>3, <1>5, <2>1, NoReportType DEF FeedInv, TypeOK
  <2>3. ASSUME NEW id \in Id PROVE SoundAt(file, id)'
    <3>1. SoundAt(st, id) /\ FollowsAt(id)
      BY DEF FeedInv
    <3>2. last'.failed[id] = IF id \in rep.failed THEN now ELSE last.failed[id]
      BY <1>5 DEF Latest
    <3>3. id \in DOMAIN st.done => st.done[id].recordedAt >= last'.failed[id]
      BY <3>1, <3>2, <1>3 DEF SoundAt, FollowsAt
    <3> QED
      BY <3>1, <3>3, <1>1, <1>5 DEF SoundAt
  <2> QED
    BY <1>1, <2>2, <2>3, FreshInvNext DEF Fresh
<1> QED
  BY <1>2, <1>4, <1>5

\* A later head covers what the earlier one did.
LEMMA HeadMovesInv ==
  ASSUME FeedInv, NEW n \in 1..Len(Log), HeadMoves(n)
  PROVE  FeedInv'
<1>1. /\ pc' = pc /\ now' = now /\ file' = file /\ st' = st /\ mark' = mark /\ batch' = batch
      /\ seen' = seen /\ served' = served /\ rep' = rep /\ broke' = broke
      /\ outcome' = outcome /\ last' = last
  BY DEF HeadMoves, passVars
<1>2. head' \in 0..Len(Log) /\ head' > head /\ head \in Nat /\ Len(Log) \in Nat
  BY FeedInvTypes DEF HeadMoves
<1>3. TypeOK'
  BY <1>1, <1>2 DEF FeedInv, TypeOK
<1>4. ASSUME NEW id \in Id
      PROVE  SoundAt(file, id)' /\ SoundAt(st, id)' /\ FollowsAt(id)'
  <2>1. SoundAt(file, id) /\ SoundAt(st, id) /\ FollowsAt(id)
    BY DEF FeedInv
  <2>2. /\ id \in DOMAIN file.done => file.done[id].index \in Nat
        /\ id \in DOMAIN st.done => st.done[id].index \in Nat
    BY FeedInvTypes DEF DoneRecord
  <2>3. SoundAt(file, id)'
    BY <1>1, <1>2, <2>1, <2>2 DEF SoundAt
  <2>4. SoundAt(st, id)'
    BY <1>1, <1>2, <2>1, <2>2 DEF SoundAt
  <2>5. FollowsAt(id)'
    BY <1>1, <2>1 DEF FollowsAt, KeepsWaiting, HasSettled
  <2> QED
    BY <2>3, <2>4, <2>5
<1>5. Books'
  BY <1>1 DEF FeedInv, Books
<1>6. ASSUME pc' # "done", NEW id \in Id PROVE AccountedAt(id)'
  <2>1. AccountedAt(id)
    BY <1>1, <1>6 DEF FeedInv
  <2>2. ASSUME id \in DOMAIN seen, seen[id].index # Null, Verified(seen[id])
        PROVE  Verified(seen[id])'
    <3>1. seen[id].index \in Nat
      BY <2>2, FeedInvTypes DEF TakenCopy
    <3> QED
      BY <1>1, <1>2, <2>2, <3>1 DEF Verified
  <2>3. \A c : IsAccountedFor(c)' <=> IsAccountedFor(c)
    BY <1>1 DEF IsAccountedFor, Flagged
  <2>4. /\ HasAnIndex(id)' <=> HasAnIndex(id)
        /\ Flagged(id)' <=> Flagged(id)
        /\ Awaits(seen[id])' <=> Awaits(seen[id])
    BY <1>1 DEF HasAnIndex, Flagged, Awaits
  <2> QED
    BY <1>1, <2>1, <2>2, <2>3, <2>4 DEF AccountedAt
<1>7. CleanAccountsForAll' /\ NoSilentWithdrawal' /\ GraceIsEnforced'
  <2>1. CleanAccountsForAll'
    <3>1. \A c \in served : c.index # Null => c.index \in Nat
      BY DEF FeedInv, TypeOK, Raw
    <3> QED
      BY <1>1, <1>2, <3>1 DEF FeedInv, CleanAccountsForAll, Clean
  <2> QED
    BY <2>1, <1>1 DEF FeedInv, NoSilentWithdrawal, GraceIsEnforced, Clean
<1> QED
  BY <1>3, <1>4, <1>5, <1>6, <1>7 DEF FeedInv
----------------------------------------------------------------------------------
(***************************************************************************)
(* The steps between copies.                                               *)
(***************************************************************************)

\* A step that only says where the pass goes on, or that it breaks off.
LEMMA GoesOn ==
  ASSUME FeedInv, pc \in {"reading", "processing", "rechecking"},
         pc' \in {"reading", "rechecking", "concluding"},
         pc' = "reading" => pc = "processing",
         UNCHANGED <<now, head, file, st, mark, seen, outcome, served, last>>,
         batch' = {}, broke' \in {broke, "error", "finding"}, batch = {} \/ broke' # "no",
         rep' \in Report, rep'.failed = rep.failed, rep'.withdrawn = rep.withdrawn,
         rep'.listed = rep.listed,
         Books'
  PROVE  FeedInv'
<1>1. /\ now' = now /\ head' = head /\ file' = file /\ st' = st /\ mark' = mark /\ seen' = seen
      /\ outcome' = outcome /\ served' = served /\ last' = last
  OBVIOUS
<1>2. TypeOK'
  BY <1>1 DEF FeedInv, TypeOK
<1>3. ASSUME NEW id \in Id
      PROVE  SoundAt(file, id)' /\ SoundAt(st, id)' /\ FollowsAt(id)'
  <2>1. SoundAt(file, id) /\ SoundAt(st, id) /\ FollowsAt(id)
    BY DEF FeedInv
  <2>2. SoundAt(file, id)' /\ SoundAt(st, id)'
    BY <1>1, <2>1 DEF SoundAt
  <2>3. FollowsAt(id)'
    BY <1>1, <2>1 DEF FollowsAt, KeepsWaiting, HasSettled
  <2> QED
    BY <2>2, <2>3
<1>4. ASSUME NEW id \in Id PROVE AccountedAt(id)'
  <2>1. AccountedAt(id)
    BY DEF FeedInv
  <2>2. \A x : Flagged(x) => Flagged(x)'
    BY DEF Flagged
  <2>3. \A c : IsAccountedFor(c) => IsAccountedFor(c)'
    BY <1>1 DEF IsAccountedFor, Flagged
  <2>4. /\ HasAnIndex(id)' <=> HasAnIndex(id)
        /\ Awaits(seen[id])' <=> Awaits(seen[id])
        /\ Verified(seen[id])' <=> Verified(seen[id])
    BY <1>1 DEF HasAnIndex, Awaits, Verified
  <2> QED
    BY <1>1, <2>1, <2>2, <2>3, <2>4 DEF AccountedAt
<1>5. outcome' # "ok"
  BY DEF FeedInv, Books
<1> QED
  BY <1>2, <1>3, <1>4, <1>5, NothingSaidYet DEF FeedInv

LEMMA BetweenCopiesInv ==
  ASSUME FeedInv,
         \/ Truncate \/ ReadFails \/ Stalls \/ Rechecked
         \/ \E hasMore \in BOOLEAN : EndPage(hasMore)
         \/ \E why \in {"error", "finding"} : RecheckFails(why)
  PROVE  FeedInv'
<1>1. rep \in Report /\ TypeOK /\ Books
  BY DEF FeedInv, TypeOK
<1>2. ASSUME NEW flag \in BOOLEAN
      PROVE  /\ [rep EXCEPT !.truncated = flag] \in Report
             /\ [rep EXCEPT !.truncated = flag].failed = rep.failed
             /\ [rep EXCEPT !.truncated = flag].withdrawn = rep.withdrawn
             /\ [rep EXCEPT !.truncated = flag].listed = rep.listed
             /\ [rep EXCEPT !.truncated = flag].truncated = flag
             /\ [rep EXCEPT !.complete = flag] \in Report
             /\ [rep EXCEPT !.complete = flag].failed = rep.failed
             /\ [rep EXCEPT !.complete = flag].withdrawn = rep.withdrawn
             /\ [rep EXCEPT !.complete = flag].listed = rep.listed
             /\ [rep EXCEPT !.complete = flag].complete = flag
  BY <1>1 DEF Report
<1>3. CASE Truncate
  <2>1. Books'
    BY <1>1, <1>2, <1>3 DEF Books, Truncate
  <2> QED
    BY <1>1, <1>2, <1>3, <2>1, GoesOn DEF Truncate, Books
<1>4. CASE ReadFails
  <2>1. Books'
    BY <1>1, <1>4 DEF Books, ReadFails, BreakOff
  <2> QED
    BY <1>1, <1>4, <2>1, GoesOn DEF ReadFails, BreakOff
<1>5. CASE Stalls
  <2>1. Books'
    BY <1>1, <1>5 DEF Books, Stalls, BreakOff
  <2> QED
    BY <1>1, <1>5, <2>1, GoesOn DEF Stalls, BreakOff
<1>6. ASSUME NEW hasMore \in BOOLEAN, EndPage(hasMore) PROVE FeedInv'
  <2> DEFINE flag == ~hasMore
  <2>0. flag \in BOOLEAN
    OBVIOUS
  <2>1. rep' = [rep EXCEPT !.complete = flag] /\ (pc' = "rechecking" => flag)
    BY <1>6, Zenon DEF EndPage
  <2> HIDE DEF flag
  <2>2. pc' = "rechecking" => rep'.complete
    BY <1>2, <2>0, <2>1
  <2>3. Books'
    BY <1>1, <1>6, <2>2 DEF Books, EndPage
  <2> QED
    BY <1>1, <1>2, <1>6, <2>0, <2>1, <2>3, GoesOn DEF EndPage
<1>7. ASSUME NEW why \in {"error", "finding"}, RecheckFails(why) PROVE FeedInv'
  <2>1. Books'
    BY <1>1, <1>7 DEF Books, RecheckFails, BreakOff
  <2> QED
    BY <1>1, <1>7, <2>1, GoesOn DEF RecheckFails, BreakOff
<1>8. CASE Rechecked
  <2>1. /\ pc = "rechecking" /\ pc' = "concluding" /\ ToRecheck = {}
        /\ UNCHANGED <<now, head, file, outcome, last>>
        /\ UNCHANGED <<st, mark, seen, served>> /\ batch' = batch /\ rep' = rep /\ broke' = broke
    BY <1>8 DEF Rechecked, passVars
  <2>2. DOMAIN st.pending \subseteq rep.listed
    BY <2>1 DEF ToRecheck
  <2>3. batch = {}
    BY <1>1, <2>1 DEF Books
  <2>4. Books'
    BY <1>1, <2>1, <2>2, <2>3 DEF Books
  <2> QED
    BY <1>1, <2>1, <2>3, <2>4, GoesOn
<1> QED
  BY <1>3, <1>4, <1>5, <1>6, <1>7, <1>8

\* What does not parse flags its id, and every other copy of the page waits in the batch.
LEMMA ReadPageInv ==
  ASSUME FeedInv, NEW page \in Pages, ReadPage(page)
  PROVE  FeedInv'
<1> DEFINE bad == BadLeaves(page)
           new == {page[i] : i \in Parsed(page)}
<1>1. /\ pc = "reading" /\ pc' = "processing" /\ batch' = Coalesce(page)
      /\ rep' = Fail(rep, bad) /\ st' = Refresh(st, bad) /\ served' = served \cup new
      /\ now' = now /\ head' = head /\ file' = file /\ mark' = mark /\ seen' = seen
      /\ broke' = broke /\ outcome' = outcome /\ last' = last
  BY DEF ReadPage
<1>2. /\ bad \subseteq Id /\ new \subseteq Raw
      /\ batch' \subseteq TakenCopy
      /\ \A e \in batch' : e.index # Null => \E d \in new : d.id = e.id /\ d.index # Null
      /\ \A c \in new : \E e \in batch' : e.id = c.id /\ (c.index # Null => e.conflict \/ Agree(e, c))
  <2>1. bad \subseteq Id /\ new \subseteq Raw
    BY PageTypes
  <2>2. batch' = {Coalesced(page, page[i].id) : i \in Parsed(page)}
    BY <1>1 DEF Coalesce
  <2> QED
    BY <2>1, <2>2, CoalescedFacts
<1> HIDE DEF bad, new
<1>3. /\ rep' \in Report /\ rep'.failed = rep.failed \cup bad /\ rep'.listed = rep.listed \cup bad
      /\ rep'.withdrawn = rep.withdrawn
      /\ rep'.truncated = rep.truncated /\ rep'.complete = rep.complete
  BY <1>1, <1>2, FeedInvTypes DEF Fail, Report
<1>4. /\ IsFeedState(st') /\ st'.highWater = st.highWater /\ st'.pending = st.pending
      /\ DOMAIN st'.done = DOMAIN st.done
      /\ \A id \in DOMAIN st.done :
           /\ st'.done[id].index = st.done[id].index /\ st'.done[id].hash = st.done[id].hash
           /\ st'.done[id].recordedAt = IF id \in bad THEN now ELSE st.done[id].recordedAt
  BY <1>1, FeedInvTypes, RefreshFacts
<1>5. TypeOK'
  BY <1>1, <1>2, <1>3, <1>4 DEF FeedInv, TypeOK
<1>6. ASSUME NEW id \in Id
      PROVE  SoundAt(file, id)' /\ SoundAt(st, id)' /\ FollowsAt(id)'
  <2>1. SoundAt(file, id) /\ SoundAt(st, id) /\ FollowsAt(id)
    BY DEF FeedInv
  <2>2. SoundAt(file, id)'
    BY <1>1, <2>1 DEF SoundAt
  <2>3. SoundAt(st, id)'
    <3>1. last.failed[id] \in 0..now
      BY DEF FeedInv, TypeOK
    <3>2. id \in DOMAIN st.done => st'.done[id].recordedAt >= last.failed[id]
      BY <1>4, <2>1, <3>1, FeedInvTypes DEF SoundAt
    <3> QED
      BY <1>1, <1>4, <2>1, <3>2 DEF SoundAt, IsCommitted
  <2>4. FollowsAt(id)'
    BY <1>1, <1>3, <1>4, <2>1 DEF FollowsAt, KeepsWaiting, HasSettled
  <2> QED
    BY <2>2, <2>3, <2>4
<1>7. Books'
  BY <1>1 DEF FeedInv, Books
<1>8. batch = {}
  BY <1>1 DEF FeedInv, Books
<1>9. ASSUME NEW id \in Id PROVE AccountedAt(id)'
  <2>1. AccountedAt(id)
    BY <1>1 DEF FeedInv
  <2>2. ASSUME NEW c \in served', c.id = id PROVE IsAccountedFor(c)'
    <3>1. CASE c \in served
      BY <1>1, <1>3, <1>8, <2>1, <2>2, <3>1 DEF AccountedAt, IsAccountedFor, Flagged
    <3>2. CASE c \in new
      BY <1>2, <3>2 DEF IsAccountedFor
    <3> QED
      BY <1>1, <3>1, <3>2
  <2>3. Flagged(id) => Flagged(id)'
    BY <1>1, <1>3 DEF Flagged
  <2>4. HasAnIndex(id) => HasAnIndex(id)'
    BY <1>1 DEF HasAnIndex
  <2>5. \A e \in batch' : e.id = id /\ e.index # Null => HasAnIndex(id)'
    BY <1>1, <1>2 DEF HasAnIndex
  <2>6. /\ Awaits(seen[id])' <=> Awaits(seen[id])
        /\ Verified(seen[id])' <=> Verified(seen[id])
    BY <1>1, <1>4 DEF Awaits, Verified
  <2>7. id \in rep'.listed => id \in rep.listed \/ Flagged(id)'
    BY <1>3 DEF Flagged
  <2> QED
    BY <1>1, <1>3, <1>4, <2>1, <2>2, <2>3, <2>4, <2>5, <2>6, <2>7 DEF AccountedAt
<1>10. outcome' # "ok"
  BY <1>1 DEF FeedInv, Books
<1> QED
  BY <1>5, <1>6, <1>7, <1>9, <1>10, NothingSaidYet DEF FeedInv
----------------------------------------------------------------------------------
(***************************************************************************)
(* A step on one id leaves every other id's affairs as they are.           *)
(***************************************************************************)
SameElsewhere(id) ==
  /\ \A other \in Id \ {id} :
       /\ other \in rep'.failed <=> other \in rep.failed
       /\ other \in rep'.withdrawn <=> other \in rep.withdrawn
       /\ other \in rep'.listed <=> other \in rep.listed
       /\ other \in DOMAIN st'.done <=> other \in DOMAIN st.done
       /\ other \in DOMAIN st.done => st'.done[other] = st.done[other]
       /\ other \in DOMAIN st'.pending <=> other \in DOMAIN st.pending
       /\ other \in DOMAIN st.pending => st'.pending[other] = st.pending[other]
       /\ other \in DOMAIN seen' <=> other \in DOMAIN seen
       /\ other \in DOMAIN seen => seen'[other] = seen[other]
  /\ batch' \subseteq batch
  /\ \A e \in batch : e.id # id => e \in batch'

LEMMA OneIdStep ==
  ASSUME FeedInv, NEW id \in Id, pc \in {"processing", "rechecking"}, pc' = pc,
         UNCHANGED <<now, head, file, broke, outcome, served, last>>,
         SameElsewhere(id),
         IsFeedState(st'), st'.highWater = st.highWater, rep' \in Report,
         rep'.truncated = rep.truncated, rep'.complete = rep.complete,
         mark' \in 0..(now + MaxSkew), MapsIdsTo(seen', TakenCopy),
         SoundAt(st, id)', FollowsAt(id)', AccountedAt(id)'
  PROVE  FeedInv'
<1>1. /\ now' = now /\ head' = head /\ file' = file /\ broke' = broke /\ outcome' = outcome
      /\ served' = served /\ last' = last /\ batch' \subseteq batch
  BY DEF SameElsewhere
<1>2. TypeOK'
  BY <1>1 DEF FeedInv, TypeOK
<1>3. ASSUME NEW other \in Id
      PROVE  SoundAt(file, other)' /\ SoundAt(st, other)' /\ FollowsAt(other)'
  <2>1. SoundAt(file, other) /\ SoundAt(st, other) /\ FollowsAt(other)
    BY DEF FeedInv
  <2>2. SoundAt(file, other)'
    BY <1>1, <2>1 DEF SoundAt
  <2>3. CASE other # id
    <3>1. SoundAt(st, other)'
      BY <1>1, <2>1, <2>3 DEF SoundAt, SameElsewhere
    <3>2. FollowsAt(other)'
      BY <1>1, <2>1, <2>3 DEF FollowsAt, KeepsWaiting, HasSettled, SameElsewhere
    <3> QED
      BY <2>2, <3>1, <3>2
  <2> QED
    BY <2>2, <2>3
<1>4. Books'
  <2>1. batch = {} => batch' = {}
    BY <1>1
  <2> QED
    BY <1>1, <2>1 DEF FeedInv, Books
<1>5. ASSUME NEW other \in Id PROVE AccountedAt(other)'
  <2>1. AccountedAt(other)
    BY DEF FeedInv
  <2>2. CASE other # id
    <3>1. Flagged(other)' <=> Flagged(other)
      BY <1>1, <2>2 DEF Flagged, SameElsewhere
    <3>2. HasAnIndex(other)' <=> HasAnIndex(other)
      BY <1>1 DEF HasAnIndex
    <3>3. ASSUME NEW c \in served, c.id = other PROVE IsAccountedFor(c)'
      BY <1>1, <2>1, <2>2, <3>1, <3>3 DEF IsAccountedFor, AccountedAt, SameElsewhere
    <3>4. ASSUME other \in DOMAIN seen
          PROVE  /\ seen'[other] = seen[other] /\ other \in DOMAIN seen'
                 /\ Verified(seen[other])' <=> Verified(seen[other])
                 /\ seen[other].id = other
                 /\ Awaits(seen[other])' <=> Awaits(seen[other])
      <4>1. seen'[other] = seen[other] /\ other \in DOMAIN seen' /\ seen[other].id = other
        BY <2>1, <2>2, <3>4 DEF SameElsewhere, AccountedAt
      <4>2. Verified(seen[other])' <=> Verified(seen[other])
        BY <1>1, <4>1 DEF Verified
      <4>3. Awaits(seen[other])' <=> Awaits(seen[other])
        BY <2>2, <4>1 DEF Awaits, SameElsewhere
      <4> QED
        BY <4>1, <4>2, <4>3
    <3>5. other \in DOMAIN st'.pending =>
            \/ now' - st'.pending[other].firstSeen <= Grace
            \/ other \notin rep'.listed \/ Flagged(other)' \/ other \in rep'.withdrawn
      BY <1>1, <2>1, <2>2, <3>1 DEF AccountedAt, SameElsewhere
    <3>6. other \in DOMAIN seen' <=> other \in DOMAIN seen
      BY <2>2 DEF SameElsewhere
    <3>7. /\ other \in rep'.withdrawn <=> other \in rep.withdrawn
          /\ other \in rep'.listed <=> other \in rep.listed
      BY <2>2 DEF SameElsewhere
    <3> QED
      BY <1>1, <2>1, <3>1, <3>2, <3>3, <3>4, <3>5, <3>6, <3>7 DEF AccountedAt
  <2> QED
    BY <2>2
<1>6. outcome' # "ok"
  BY <1>1 DEF FeedInv, Books
<1> QED
  BY <1>2, <1>3, <1>4, <1>5, <1>6, NothingSaidYet DEF FeedInv
----------------------------------------------------------------------------------
(***************************************************************************)
(* The steps on one copy.                                                  *)
(***************************************************************************)

\* What every one of them starts from.
LEMMA AtCopy ==
  ASSUME FeedInv, Processing
  PROVE  /\ Copy \in batch /\ Copy \in TakenCopy /\ Copy.id \in Id /\ Copy.body \in Body
         /\ Copy.index \in Nat \cup {Null}
         /\ pc = "processing" /\ mark' \in 0..(now + MaxSkew)
         /\ SoundAt(st, Copy.id) /\ FollowsAt(Copy.id) /\ AccountedAt(Copy.id)
         /\ Copy.index # Null => HasAnIndex(Copy.id)
<1>1. pc = "processing" /\ batch # {} /\ mark' = NextMark
  BY DEF Processing
<1>2. Copy \in batch /\ Copy \in TakenCopy
  BY <1>1, CopyIsNext DEF FeedInv
<1>3. Copy.id \in Id /\ Copy.body \in Body /\ Copy.index \in Nat \cup {Null} /\ Copy.created \in Nat
  BY <1>2 DEF TakenCopy
<1>4. mark' \in 0..(now + MaxSkew)
  BY <1>1, <1>3, FeedInvTypes, FeedAssumption DEF NextMark, FeedInv, TypeOK
<1>5. SoundAt(st, Copy.id) /\ FollowsAt(Copy.id) /\ AccountedAt(Copy.id)
  BY <1>1, <1>3 DEF FeedInv
<1> QED
  BY <1>1, <1>2, <1>3, <1>4, <1>5 DEF AccountedAt

\* A copy taken becomes the one its id is last taken from.
LEMMA TakenFacts ==
  ASSUME FeedInv, Processing, Taken
  PROVE  /\ DOMAIN seen' = DOMAIN seen \cup {Copy.id} /\ seen'[Copy.id] = Copy
         /\ \A other \in DOMAIN seen \ {Copy.id} : seen'[other] = seen[other]
         /\ MapsIdsTo(seen', TakenCopy)
<1>1. seen' = Set(seen, Copy.id, Copy)
  BY DEF Taken
<1>2. /\ DOMAIN seen' = DOMAIN seen \cup {Copy.id} /\ seen'[Copy.id] = Copy
      /\ \A other \in DOMAIN seen \ {Copy.id} : seen'[other] = seen[other]
  BY <1>1 DEF Set
<1> QED
  BY <1>2, AtCopy, FeedInvTypes DEF MapsIdsTo

\* A copy that is news supersedes what an earlier one, without an index, was reported as.
LEMMA NewsFacts ==
  ASSUME FeedInv, IsNews
  PROVE  LET new == ReportForNews IN
         /\ new \in Report /\ new.failed = rep.failed /\ new.listed = rep.listed
         /\ new.withdrawn = rep.withdrawn \ {Copy.id}
         /\ new.truncated = rep.truncated /\ new.complete = rep.complete
         /\ Copy.id \in DOMAIN seen => seen[Copy.id].index = Null /\ Copy.index # Null
<1>1. AccountedAt(Copy.id)
  BY AtCopy DEF IsNews
<1>2. Copy.id \in DOMAIN seen => seen[Copy.id].index = Null /\ Copy.index # Null
  BY DEF IsNews, Supersedes, IsRepeat
<1>3. rep \in Report
  BY DEF FeedInv, TypeOK
<1>4. CASE Supersedes
  BY <1>2, <1>3, <1>4 DEF ReportForNews, Retract, Report
<1>5. CASE ~Supersedes
  <2>1. Copy.id \notin DOMAIN seen
    BY <1>5 DEF IsNews, IsRepeat
  <2>2. Copy.id \notin rep.withdrawn
    BY <1>1, <2>1 DEF AccountedAt
  <2> QED
    BY <1>2, <1>3, <1>5, <2>2 DEF ReportForNews
<1> QED
  BY <1>4, <1>5

\* What was accounted for stays accounted for when news is taken.
LEMMA NewsAccounts ==
  ASSUME FeedInv, IsNews, Taken, batch' = batch \ {Copy}, served' = served,
         rep.failed \subseteq rep'.failed, broke' \in {broke, "error", "finding"},
         NEW c \in served, c.id = Copy.id
  PROVE  IsAccountedFor(c)'
<1>1. IsAccountedFor(c) /\ ~Copy.conflict
  BY AtCopy DEF AccountedAt, IsNews
<1>2. /\ DOMAIN seen' = DOMAIN seen \cup {Copy.id} /\ seen'[Copy.id] = Copy
  BY TakenFacts DEF IsNews
<1>3. Copy.id \in DOMAIN seen => seen[Copy.id].index = Null
  BY NewsFacts
<1>4. CASE Flagged(c.id)
  BY <1>4 DEF IsAccountedFor, Flagged
<1>5. ASSUME NEW e \in batch, e.id = c.id, c.index # Null => e.conflict \/ Agree(e, c)
      PROVE  IsAccountedFor(c)'
  <2>1. CASE e = Copy
    BY <1>1, <1>2, <1>5, <2>1 DEF IsAccountedFor
  <2>2. CASE e # Copy
    <3>1. e \in batch'
      BY <1>5, <2>2
    <3> QED
      BY <1>5, <3>1 DEF IsAccountedFor
  <2> QED
    BY <2>1, <2>2
<1>6. CASE c.id \in DOMAIN seen /\ (c.index # Null => Agree(seen[c.id], c))
  <2>1. c.index = Null
    BY <1>3, <1>6 DEF Agree
  <2> QED
    BY <1>2, <2>1 DEF IsAccountedFor
<1> QED
  BY <1>1, <1>4, <1>5, <1>6 DEF IsAccountedFor

\* A copy that flags its id, taken or not.
LEMMA FlagStep ==
  ASSUME FeedInv, Processing, NEW id, id = Copy.id, NextCopy, st' = Refresh(st, {id}),
         rep' \in Report, rep'.failed = rep.failed \cup {id},
         rep'.listed = rep.listed \cup {id},
         rep'.truncated = rep.truncated, rep'.complete = rep.complete,
         \/ seen' = seen /\ rep'.withdrawn = rep.withdrawn
         \/ IsNews /\ Taken /\ rep'.withdrawn = rep.withdrawn \ {id}
  PROVE  FeedInv'
<1>1. /\ pc = "processing" /\ id \in Id /\ Copy \in batch /\ mark' \in 0..(now + MaxSkew)
      /\ SoundAt(st, id) /\ FollowsAt(id) /\ AccountedAt(id)
      /\ Copy.index # Null => HasAnIndex(id)
  BY AtCopy
<1>2. /\ batch' = batch \ {Copy}
      /\ pc' = pc /\ UNCHANGED <<now, head, file, broke, outcome, served, last>>
  BY DEF NextCopy
<1>3. /\ IsFeedState(st') /\ st'.highWater = st.highWater /\ st'.pending = st.pending
      /\ DOMAIN st'.done = DOMAIN st.done
      /\ \A x \in DOMAIN st.done :
           /\ st'.done[x].index = st.done[x].index /\ st'.done[x].hash = st.done[x].hash
           /\ st'.done[x].recordedAt = IF x \in {id} THEN now ELSE st.done[x].recordedAt
      /\ \A x \in DOMAIN st.done \ {id} : st'.done[x] = st.done[x]
  <2>1. IsFeedState(st) /\ now \in Nat /\ st' = Refresh(st, {id})
    BY FeedInvTypes
  <2>2. \A x \in DOMAIN st.done \ {id} : st'.done[x] = st.done[x]
    BY <2>1 DEF Refresh, IsFeedState
  <2>3. /\ IsFeedState(st') /\ st'.highWater = st.highWater /\ st'.pending = st.pending
        /\ DOMAIN st'.done = DOMAIN st.done
        /\ \A x \in DOMAIN st.done :
             /\ st'.done[x].index = st.done[x].index /\ st'.done[x].hash = st.done[x].hash
             /\ st'.done[x].recordedAt = IF x \in {id} THEN now ELSE st.done[x].recordedAt
    BY <2>1, RefreshFacts
  <2> QED
    BY <2>2, <2>3
<1>4. /\ id \in DOMAIN seen => id \in DOMAIN seen'
      /\ id \in DOMAIN seen /\ seen[id].index # Null => seen'[id].index # Null
      /\ DOMAIN seen' \subseteq DOMAIN seen \cup {id}
      /\ \A x \in DOMAIN seen \ {id} : x \in DOMAIN seen' /\ seen'[x] = seen[x]
      /\ id \in DOMAIN seen' => seen'[id] \in {Copy} \cup {seen[x] : x \in {y \in {id} : y \in DOMAIN seen}}
      /\ MapsIdsTo(seen', TakenCopy)
  BY TakenFacts, NewsFacts DEF FeedInv, TypeOK
<1>5. id \in rep'.withdrawn => seen' = seen /\ id \in rep.withdrawn
  OBVIOUS
<1>6. SameElsewhere(id)
  BY <1>2, <1>3, <1>4 DEF SameElsewhere
<1>7. SoundAt(st, id)'
  <2>1. last.failed[id] \in 0..now
    BY <1>1 DEF FeedInv, TypeOK
  <2>2. now \in Nat /\ now >= last.failed[id]
    BY <2>1, FeedInvTypes
  <2>3. id \in DOMAIN st.done => st'.done[id].recordedAt = now
    BY <1>3
  <2> QED
    BY <1>1, <1>2, <1>3, <2>2, <2>3 DEF SoundAt, IsCommitted
<1>8. FollowsAt(id)'
  BY <1>1, <1>2, <1>3, <1>4 DEF FollowsAt, KeepsWaiting, HasSettled
<1>9. AccountedAt(id)'
  <2>1. Flagged(id)'
    BY DEF Flagged
  <2>2. \A c \in served : c.id = id => IsAccountedFor(c)'
    BY <2>1 DEF IsAccountedFor
  <2>3. HasAnIndex(id)' <=> HasAnIndex(id)
    BY <1>2 DEF HasAnIndex
  <2>4. id \in DOMAIN seen' => seen'[id].id = id /\ (seen'[id].index # Null => HasAnIndex(id))
    BY <1>1, <1>4 DEF AccountedAt
  <2>5. id \in rep'.withdrawn => id \in DOMAIN seen' /\ seen'[id].index = Null
    BY <1>1, <1>5 DEF AccountedAt
  <2> QED
    BY <1>1, <1>2, <2>1, <2>2, <2>3, <2>4, <2>5 DEF AccountedAt
<1> QED
  BY <1>1, <1>2, <1>3, <1>4, <1>6, <1>7, <1>8, <1>9, OneIdStep

\* What Fail does to a report.
LEMMA FailFacts ==
  ASSUME NEW report \in Report, NEW ids \in SUBSET Id
  PROVE  LET new == Fail(report, ids) IN
         /\ new \in Report /\ new.failed = report.failed \cup ids
         /\ new.listed = report.listed \cup ids /\ new.withdrawn = report.withdrawn
         /\ new.truncated = report.truncated /\ new.complete = report.complete
BY DEF Fail, Report

LEMMA FlaggingCopyInv ==
  ASSUME FeedInv, Conflict \/ Contradiction \/ Relocation
  PROVE  FeedInv'
<1>1. rep \in Report
  BY FeedInvTypes
<1>2. CASE Conflict \/ Contradiction
  <2>1. Processing /\ rep' = Fail(rep, {Copy.id}) /\ st' = Refresh(st, {Copy.id})
        /\ seen' = seen /\ NextCopy
    BY <1>2 DEF Conflict, Contradiction, FailCopy
  <2>2. {Copy.id} \in SUBSET Id
    BY <2>1, AtCopy
  <2> QED
    BY <1>1, <2>1, <2>2, FailFacts, FlagStep
<1>3. CASE Relocation
  <2>1. IsNews /\ Processing /\ rep' = Fail(ReportForNews, {Copy.id})
        /\ st' = Refresh(st, {Copy.id}) /\ Taken /\ NextCopy
    BY <1>3 DEF Relocation, IsNews
  <2>2. {Copy.id} \in SUBSET Id
    BY <2>1, AtCopy
  <2>3. /\ rep' \in Report /\ rep'.failed = rep.failed \cup {Copy.id}
        /\ rep'.listed = rep.listed \cup {Copy.id}
        /\ rep'.withdrawn = rep.withdrawn \ {Copy.id}
        /\ rep'.truncated = rep.truncated /\ rep'.complete = rep.complete
    BY <2>1, <2>2, NewsFacts, FailFacts
  <2> QED
    BY <2>1, <2>3, FlagStep
<1> QED
  BY <1>2, <1>3

\* A copy that says nothing new was accounted for by the one its id was taken from.
LEMMA RepeatInv ==
  ASSUME FeedInv, Repeat
  PROVE  FeedInv'
<1> SUFFICES ASSUME NEW id, id = Copy.id PROVE FeedInv'
  OBVIOUS
<1>1. /\ Processing /\ NextCopy /\ st' = st /\ seen' = seen /\ rep' = rep
      /\ ~Copy.conflict /\ IsRepeat /\ ~IsContradiction /\ ~Supersedes
  BY DEF Repeat
<1>2. /\ pc = "processing" /\ id \in Id /\ Copy \in batch /\ mark' \in 0..(now + MaxSkew)
      /\ SoundAt(st, id) /\ FollowsAt(id) /\ AccountedAt(id)
  BY <1>1, AtCopy
<1>3. /\ batch' = batch \ {Copy}
      /\ pc' = pc /\ UNCHANGED <<now, head, file, broke, outcome, served, last>>
  BY <1>1 DEF NextCopy
<1>4. id \in DOMAIN seen /\ (Copy.index # Null => Agree(seen[id], Copy))
  BY <1>1 DEF IsRepeat, IsContradiction, Supersedes, Differ, Agree
<1>5. SameElsewhere(id)
  BY <1>1, <1>3 DEF SameElsewhere
<1>6. SoundAt(st, id)' /\ FollowsAt(id)'
  BY <1>1, <1>2, <1>3 DEF SoundAt, FollowsAt, KeepsWaiting, HasSettled
<1>7. AccountedAt(id)'
  <2>1. /\ HasAnIndex(id)' <=> HasAnIndex(id)
        /\ Flagged(id)' <=> Flagged(id)
        /\ Awaits(seen[id])' <=> Awaits(seen[id])
        /\ Verified(seen[id])' <=> Verified(seen[id])
    BY <1>1, <1>3 DEF HasAnIndex, Flagged, Awaits, Verified
  <2>2. ASSUME NEW c \in served, c.id = id PROVE IsAccountedFor(c)'
    <3>1. IsAccountedFor(c)
      BY <1>2, <2>2 DEF AccountedAt
    <3>2. c.index # Null /\ Agree(Copy, c) => Agree(seen[id], c)
      BY <1>4 DEF Agree
    <3> QED
      BY <1>1, <1>3, <1>4, <2>1, <2>2, <3>1, <3>2 DEF IsAccountedFor
  <2> QED
    BY <1>1, <1>2, <1>3, <2>1, <2>2 DEF AccountedAt
<1>8. MapsIdsTo(seen', TakenCopy) /\ rep' \in Report
  BY <1>1 DEF FeedInv, TypeOK
<1> QED
  BY <1>1, <1>2, <1>3, <1>5, <1>6, <1>7, <1>8, FeedInvTypes, OneIdStep

\* A withdrawal is put off, with its id on the list.
LEMMA WithdrawalInv ==
  ASSUME FeedInv, Withdrawal
  PROVE  FeedInv'
<1> SUFFICES ASSUME NEW id, id = Copy.id PROVE FeedInv'
  OBVIOUS
<1>1. /\ IsNews /\ Processing /\ IsDone /\ Copy.index = Null /\ Taken /\ st' = st /\ NextCopy
      /\ rep' = [ReportForNews EXCEPT !.withdrawn = @ \cup {id}]
  BY DEF Withdrawal, IsNews, Withdraws
<1>2. /\ pc = "processing" /\ id \in Id /\ Copy \in batch /\ mark' \in 0..(now + MaxSkew)
      /\ SoundAt(st, id) /\ FollowsAt(id) /\ AccountedAt(id)
  BY <1>1, AtCopy
<1>3. /\ batch' = batch \ {Copy}
      /\ pc' = pc /\ UNCHANGED <<now, head, file, broke, outcome, served, last>>
  BY <1>1 DEF NextCopy
<1>4. id \notin DOMAIN seen
  BY <1>1, NewsFacts
<1>5. /\ rep' \in Report /\ rep'.failed = rep.failed /\ rep'.listed = rep.listed
      /\ rep'.withdrawn = rep.withdrawn \cup {id}
      /\ rep'.truncated = rep.truncated /\ rep'.complete = rep.complete
  BY <1>1, <1>2, NewsFacts DEF Report
<1>6. /\ DOMAIN seen' = DOMAIN seen \cup {id} /\ seen'[id] = Copy
      /\ \A other \in DOMAIN seen \ {id} : seen'[other] = seen[other]
      /\ MapsIdsTo(seen', TakenCopy)
  BY <1>1, TakenFacts
<1>7. SameElsewhere(id)
  BY <1>1, <1>3, <1>5, <1>6 DEF SameElsewhere
<1>8. SoundAt(st, id)' /\ FollowsAt(id)'
  BY <1>1, <1>2, <1>3, <1>4, <1>5 DEF SoundAt, FollowsAt, KeepsWaiting, HasSettled
<1>9. AccountedAt(id)'
  <2>1. \A c \in served : c.id = id => IsAccountedFor(c)'
    BY <1>1, <1>3, <1>5, NewsAccounts
  <2>2. HasAnIndex(id)' <=> HasAnIndex(id)
    BY <1>3 DEF HasAnIndex
  <2> QED
    BY <1>1, <1>2, <1>3, <1>5, <1>6, <2>1, <2>2 DEF AccountedAt
<1> QED
  BY <1>1, <1>2, <1>3, <1>5, <1>6, <1>7, <1>8, <1>9, FeedInvTypes, OneIdStep

\* A recorded hash vouches for a copy only of the event the log committed.
LEMMA RecordVouches ==
  ASSUME FeedInv, IsNews, IsDone, ~Withdraws(Record, Copy), ~Moves(Record, Copy),
         ~Reverifies(Record, Copy)
  PROVE  Copy.index # Null /\ Verified(Copy)
<1>1. /\ SoundAt(st, Copy.id) /\ Copy.id \in DOMAIN st.done /\ Record = st.done[Copy.id]
      /\ Copy.body \in Body
  BY AtCopy DEF IsNews, IsDone, Record
<1>2. Record.index \in Nat /\ Record.index < head /\ IsCommitted(Record)
  BY <1>1, FeedInvTypes DEF SoundAt, DoneRecord
<1>3. Record.index # Null
  BY <1>2, FeedAssumption
<1>4. Copy.index = Record.index /\ Record.hash \in Hashes(Copy.body)
  BY <1>3 DEF Withdraws, Moves, Reverifies
<1>5. PICK b \in Body : Record.hash \in Hashes(b) /\ Log[Record.index + 1] \in Hashes(b)
  BY <1>2 DEF IsCommitted
<1>6. Hashes(b) = Hashes(Copy.body)
  BY <1>1, <1>4, <1>5, SharedHash
<1> QED
  BY <1>2, <1>3, <1>4, <1>5, <1>6 DEF Verified

LEMMA UnchangedInv ==
  ASSUME FeedInv, Unchanged
  PROVE  FeedInv'
<1> SUFFICES ASSUME NEW id, id = Copy.id PROVE FeedInv'
  OBVIOUS
<1>1. /\ IsNews /\ Processing /\ IsDone /\ Taken /\ st' = Refresh(st, {id}) /\ NextCopy
      /\ rep' = ReportForNews
  BY DEF Unchanged, IsNews
<1>2. /\ pc = "processing" /\ id \in Id /\ Copy \in batch /\ mark' \in 0..(now + MaxSkew)
      /\ SoundAt(st, id) /\ FollowsAt(id) /\ AccountedAt(id)
      /\ Copy.index # Null => HasAnIndex(id)
  BY <1>1, AtCopy
<1>3. /\ batch' = batch \ {Copy}
      /\ pc' = pc /\ UNCHANGED <<now, head, file, broke, outcome, served, last>>
  BY <1>1 DEF NextCopy
<1>4. Copy.index # Null /\ Verified(Copy) /\ id \in DOMAIN st.done
  BY <1>1, RecordVouches DEF Unchanged, IsDone
<1>5. /\ rep' \in Report /\ rep'.failed = rep.failed /\ rep'.listed = rep.listed
      /\ rep'.withdrawn = rep.withdrawn \ {id}
      /\ rep'.truncated = rep.truncated /\ rep'.complete = rep.complete
  BY <1>1, NewsFacts
<1>6. /\ DOMAIN seen' = DOMAIN seen \cup {id} /\ seen'[id] = Copy
      /\ \A other \in DOMAIN seen \ {id} : seen'[other] = seen[other]
      /\ MapsIdsTo(seen', TakenCopy)
  BY <1>1, TakenFacts
<1>7. /\ IsFeedState(st') /\ st'.highWater = st.highWater /\ st'.pending = st.pending
      /\ DOMAIN st'.done = DOMAIN st.done
      /\ \A x \in DOMAIN st.done \ {id} : st'.done[x] = st.done[x]
      /\ st'.done[id].index = st.done[id].index /\ st'.done[id].hash = st.done[id].hash
      /\ st'.done[id].recordedAt = now
  <2>1. \A x \in DOMAIN st.done \ {id} : st'.done[x] = st.done[x]
    BY <1>1, FeedInvTypes DEF Refresh, IsFeedState
  <2> QED
    <3>1. /\ IsFeedState(st') /\ st'.highWater = st.highWater /\ st'.pending = st.pending
          /\ DOMAIN st'.done = DOMAIN st.done
          /\ \A x \in DOMAIN st.done :
               /\ st'.done[x].index = st.done[x].index /\ st'.done[x].hash = st.done[x].hash
               /\ st'.done[x].recordedAt = IF x \in {id} THEN now ELSE st.done[x].recordedAt
      BY <1>1, FeedInvTypes, RefreshFacts
    <3> QED
      BY <1>4, <2>1, <3>1
<1>8. SameElsewhere(id)
  BY <1>3, <1>5, <1>6, <1>7 DEF SameElsewhere
<1>9. SoundAt(st, id)'
  <2>1. last.failed[id] \in 0..now /\ now \in Nat
    BY <1>2, FeedInvTypes DEF FeedInv, TypeOK
  <2>2. st'.done[id].recordedAt >= last.failed[id]
    BY <1>7, <2>1
  <2> QED
    BY <1>2, <1>3, <1>4, <1>7, <2>2 DEF SoundAt, IsCommitted
<1>10. FollowsAt(id)'
  BY <1>2, <1>3, <1>4, <1>5, <1>6, <1>7 DEF FollowsAt, KeepsWaiting, HasSettled
<1>11. AccountedAt(id)'
  <2>1. \A c \in served : c.id = id => IsAccountedFor(c)'
    BY <1>1, <1>3, <1>5, NewsAccounts
  <2>2. HasAnIndex(id)' <=> HasAnIndex(id)
    BY <1>3 DEF HasAnIndex
  <2>3. Verified(seen[id])'
    BY <1>3, <1>4, <1>6 DEF Verified
  <2>4. id \notin DOMAIN st'.pending /\ id \notin rep'.withdrawn
    BY <1>2, <1>4, <1>5, <1>7 DEF SoundAt
  <2> QED
    BY <1>2, <1>3, <1>4, <1>6, <2>1, <2>2, <2>3, <2>4 DEF AccountedAt
<1> QED
  BY <1>1, <1>2, <1>3, <1>5, <1>6, <1>7, <1>8, <1>9, <1>10, <1>11, OneIdStep

\* Once a proof request broke off, every id is flagged.
LEMMA VerdictFailsInv ==
  ASSUME FeedInv, NEW why \in {"error", "finding"}, VerdictFails(why)
  PROVE  FeedInv'
<1>1. /\ IsNews /\ Processing /\ Taken /\ st' = st /\ pc' = "concluding" /\ broke' = why /\ batch' = {}
      /\ rep' = [ReportForNews EXCEPT !.listed = @ \cup {Copy.id}]
      /\ now' = now /\ head' = head /\ file' = file /\ outcome' = outcome
      /\ served' = served /\ last' = last
  BY DEF VerdictFails, NeedsVerdict, IsNews, BreakOff
<1>2. /\ pc = "processing" /\ Copy.id \in Id /\ mark' \in 0..(now + MaxSkew)
      /\ Copy.index # Null => HasAnIndex(Copy.id)
  BY <1>1, AtCopy
<1>3. /\ rep' \in Report /\ rep'.failed = rep.failed
      /\ rep'.withdrawn = rep.withdrawn \ {Copy.id}
  BY <1>1, <1>2, NewsFacts DEF Report
<1>4. /\ DOMAIN seen' = DOMAIN seen \cup {Copy.id} /\ seen'[Copy.id] = Copy
      /\ \A other \in DOMAIN seen \ {Copy.id} : seen'[other] = seen[other]
      /\ MapsIdsTo(seen', TakenCopy)
  BY <1>1, TakenFacts
<1>5. TypeOK'
  BY <1>1, <1>2, <1>3, <1>4 DEF FeedInv, TypeOK
<1>6. ASSUME NEW id \in Id
      PROVE  SoundAt(file, id)' /\ SoundAt(st, id)' /\ FollowsAt(id)'
  <2>1. SoundAt(file, id) /\ SoundAt(st, id) /\ FollowsAt(id)
    BY DEF FeedInv
  <2>2. SoundAt(file, id)' /\ SoundAt(st, id)'
    BY <1>1, <2>1 DEF SoundAt
  <2>3. FollowsAt(id)'
    BY <1>1, <1>2, <1>3, <2>1 DEF FollowsAt, KeepsWaiting, HasSettled
  <2> QED
    BY <2>2, <2>3
<1>7. Books'
  BY <1>1, <1>2 DEF FeedInv, Books
<1>8. ASSUME NEW id \in Id PROVE AccountedAt(id)'
  <2>1. AccountedAt(id)
    BY <1>2 DEF FeedInv
  <2>2. Flagged(id)' /\ (\A c : IsAccountedFor(c)')
    BY <1>1 DEF Flagged, IsAccountedFor
  <2>3. HasAnIndex(id)' <=> HasAnIndex(id)
    BY <1>1 DEF HasAnIndex
  <2> QED
    BY <1>1, <1>2, <1>3, <1>4, <2>1, <2>2, <2>3 DEF AccountedAt
<1>9. outcome' # "ok"
  BY <1>1, <1>2 DEF FeedInv, Books
<1> QED
  BY <1>5, <1>6, <1>7, <1>8, <1>9, NothingSaidYet DEF FeedInv
----------------------------------------------------------------------------------
(***************************************************************************)
(* Verdicts.                                                               *)
(***************************************************************************)

\* What a settled report says.
LEMMA SettledReportFacts ==
  ASSUME NEW report \in Report, NEW id \in Id, NEW how \in {"failed", "pending", "verified", "notLogged"}
  PROVE  LET new == SettledReport(report, id, how) IN
         /\ new \in Report
         /\ new.failed = IF how = "failed" THEN report.failed \cup {id} ELSE report.failed
         /\ new.listed = report.listed
         /\ new.withdrawn = IF how = "notLogged" /\ id \in DOMAIN st.pending
                            THEN report.withdrawn \cup {id} ELSE report.withdrawn
         /\ new.truncated = report.truncated /\ new.complete = report.complete
<1>1. CASE how = "failed"
  BY <1>1 DEF SettledReport, Report
<1>2. CASE how = "pending"
  BY <1>2 DEF SettledReport, Report
<1>3. CASE how = "verified"
  BY <1>3 DEF SettledReport, Report
<1>4. CASE how = "notLogged"
  BY <1>4 DEF SettledReport, Report
<1> QED
  BY <1>1, <1>2, <1>3, <1>4

\* What a judgement that is not a failure implies of the record that waits.
LEMMA JudgedFacts ==
  ASSUME NEW id, NEW oc \in {"pending", "verified", "notLogged", "failed"}, NEW pe, NEW bodies
  PROVE  LET how == Judged(id, oc, pe, bodies) IN
         /\ how \in {oc, "failed"}
         /\ how \in {"pending", "verified"} /\ id \in DOMAIN st.pending =>
              SameServing(st.pending[id], pe, bodies)
         /\ how = "pending" /\ id \in DOMAIN st.pending =>
              ~(now - st.pending[id].firstSeen > Grace)
BY DEF Judged

\* A verdict on a copy: the facts that its ways share.
LEMMA VerdictFacts ==
  ASSUME FeedInv, NEW oc \in Outcomes, Verdict(oc), NEW id, id = Copy.id
  PROVE  /\ IsNews /\ Processing /\ NextCopy /\ Taken
         /\ \E how \in {"failed", "pending", "verified", "notLogged"} :
              /\ how = "pending" => Copy.index # Null /\ id \notin DOMAIN st.done
              /\ how = "verified" => Copy.index # Null /\ Verified(Copy)
              /\ how = "notLogged" => Copy.index = Null
              /\ how \in {"pending", "verified"} /\ id \in DOMAIN st.pending =>
                   /\ st.pending[id].index = PendingOf(Copy).index
                   /\ RecordedFrom(Copy.body, st.pending[id].hash)
              /\ how = "pending" /\ id \in DOMAIN st.pending =>
                   ~(now - st.pending[id].firstSeen > Grace)
              /\ st' = SettledState(id, how, PendingOf(Copy))
              /\ rep' \in Report
              /\ rep'.failed = IF how = "failed" THEN rep.failed \cup {id} ELSE rep.failed
              /\ rep'.listed = rep.listed \cup {id}
              /\ rep'.withdrawn = IF how = "notLogged" /\ id \in DOMAIN st.pending
                                  THEN rep.withdrawn \cup {id} ELSE rep.withdrawn \ {id}
              /\ rep'.truncated = rep.truncated /\ rep'.complete = rep.complete
<1> DEFINE final == IF IsDone /\ oc = "pending" THEN "failed" ELSE oc
           pe == PendingOf(Copy)
           how == Judged(id, final, pe, {Copy.body})
           listing == [ReportForNews EXCEPT !.listed = @ \cup {id}]
<1>1. /\ IsNews /\ Processing /\ NextCopy /\ Taken /\ oc \in EventOutcomes
      /\ st' = SettledState(id, how, pe)
      /\ rep' = SettledReport(listing, id, how)
  BY DEF Verdict, NeedsVerdict, IsNews
<1>2. /\ oc \in {"pending", "verified", "notLogged", "failed"}
      /\ final \in {"pending", "verified", "notLogged", "failed"}
      /\ final \in {oc, "failed"} /\ (final = "pending" => ~IsDone)
  BY DEF Outcomes
<1>3. /\ how \in {final, "failed"} /\ how \in {"failed", "pending", "verified", "notLogged"}
      /\ how \in {"pending", "verified"} /\ id \in DOMAIN st.pending =>
           SameServing(st.pending[id], pe, {Copy.body})
      /\ how = "pending" /\ id \in DOMAIN st.pending => ~(now - st.pending[id].firstSeen > Grace)
  BY <1>2, JudgedFacts
<1>4. Copy.index \in Nat \cup {Null} /\ id \in Id /\ head \in Nat
  BY <1>1, AtCopy, FeedInvTypes
<1>5. /\ oc = "pending" => Copy.index # Null
      /\ oc = "verified" => Copy.index # Null /\ Verified(Copy)
      /\ oc = "notLogged" => Copy.index = Null
  BY <1>1, <1>4 DEF EventOutcomes, InclusionOutcomes, Verified
<1>6. /\ listing \in Report /\ listing.failed = rep.failed /\ listing.listed = rep.listed \cup {id}
      /\ listing.withdrawn = rep.withdrawn \ {id}
      /\ listing.truncated = rep.truncated /\ listing.complete = rep.complete
  BY <1>1, <1>4, NewsFacts DEF Report
<1> HIDE DEF final, pe, how, listing
<1>7. /\ rep' \in Report
      /\ rep'.failed = IF how = "failed" THEN listing.failed \cup {id} ELSE listing.failed
      /\ rep'.listed = listing.listed
      /\ rep'.withdrawn = IF how = "notLogged" /\ id \in DOMAIN st.pending
                          THEN listing.withdrawn \cup {id} ELSE listing.withdrawn
      /\ rep'.truncated = listing.truncated /\ rep'.complete = listing.complete
  <2>1. /\ listing \in Report /\ id \in Id
        /\ how \in {"failed", "pending", "verified", "notLogged"}
        /\ rep' = SettledReport(listing, id, how)
    BY <1>1, <1>3, <1>4, <1>6
  <2> QED
    BY ONLY <2>1, SettledReportFacts
<1>8. how \in {"pending", "verified"} /\ id \in DOMAIN st.pending =>
        st.pending[id].index = pe.index /\ RecordedFrom(Copy.body, st.pending[id].hash)
  BY <1>3 DEF SameServing
<1>9. how = "pending" => id \notin DOMAIN st.done
  BY <1>2, <1>3 DEF IsDone
<1> QED
  BY <1>1, <1>2, <1>3, <1>5, <1>6, <1>7, <1>8, <1>9 DEF pe

\* An event that is not logged was not recorded either.
LEMMA NotLoggedIsNew ==
  ASSUME FeedInv, NEW oc \in Outcomes, Verdict(oc), Copy.index = Null
  PROVE  Copy.id \notin DOMAIN st.done
<1>1. SUFFICES ASSUME Copy.id \in DOMAIN st.done PROVE FALSE
  OBVIOUS
<1>2. Reverifies(Record, Copy)
  BY <1>1 DEF Verdict, NeedsVerdict, IsDone
<1>3. Record.index \in Nat
  BY <1>1, FeedInvTypes DEF Record, DoneRecord
<1>4. Record.index # Null
  BY <1>3, FeedAssumption
<1> QED
  BY <1>2, <1>4 DEF Reverifies, Withdraws

LEMMA VerdictInv ==
  ASSUME FeedInv, NEW oc \in Outcomes, Verdict(oc)
  PROVE  FeedInv'
<1> SUFFICES ASSUME NEW id, id = Copy.id PROVE FeedInv'
  OBVIOUS
<1>1. IsNews /\ Processing /\ NextCopy /\ Taken
  BY VerdictFacts
<1>2. PICK how \in {"failed", "pending", "verified", "notLogged"} :
        /\ how = "pending" => Copy.index # Null /\ id \notin DOMAIN st.done
        /\ how = "verified" => Copy.index # Null /\ Verified(Copy)
        /\ how = "notLogged" => Copy.index = Null
        /\ how \in {"pending", "verified"} /\ id \in DOMAIN st.pending =>
             /\ st.pending[id].index = PendingOf(Copy).index
             /\ RecordedFrom(Copy.body, st.pending[id].hash)
        /\ how = "pending" /\ id \in DOMAIN st.pending =>
             ~(now - st.pending[id].firstSeen > Grace)
        /\ st' = SettledState(id, how, PendingOf(Copy))
        /\ rep' \in Report
        /\ rep'.failed = IF how = "failed" THEN rep.failed \cup {id} ELSE rep.failed
        /\ rep'.listed = rep.listed \cup {id}
        /\ rep'.withdrawn = IF how = "notLogged" /\ id \in DOMAIN st.pending
                            THEN rep.withdrawn \cup {id} ELSE rep.withdrawn \ {id}
        /\ rep'.truncated = rep.truncated /\ rep'.complete = rep.complete
  BY VerdictFacts
<1>3. /\ pc = "processing" /\ id \in Id /\ Copy \in batch /\ mark' \in 0..(now + MaxSkew)
      /\ Copy \in TakenCopy /\ Copy.body \in Body /\ Copy.index \in Nat \cup {Null}
      /\ SoundAt(st, id) /\ FollowsAt(id) /\ AccountedAt(id)
      /\ Copy.index # Null => HasAnIndex(id)
  BY <1>1, AtCopy
<1>4. /\ batch' = batch \ {Copy}
      /\ pc' = pc /\ UNCHANGED <<now, head, file, broke, outcome, served, last>>
  BY <1>1 DEF NextCopy
<1>5. /\ DOMAIN seen' = DOMAIN seen \cup {id} /\ seen'[id] = Copy
      /\ \A other \in DOMAIN seen \ {id} : seen'[other] = seen[other]
      /\ MapsIdsTo(seen', TakenCopy)
      /\ id \in DOMAIN seen => seen[id].index = Null /\ Copy.index # Null
  BY <1>1, TakenFacts, NewsFacts
<1>6. /\ IsFeedState(st) /\ now \in Nat /\ Grace \in Nat
      /\ last.failed[id] \in 0..now
      /\ id \in DOMAIN st.pending => st.pending[id] \in PendingRecord
  BY <1>3, FeedInvTypes DEF FeedInv, TypeOK
<1>7. /\ PendingOf(Copy) \in PendingRecord /\ IsOfOneEvent(PendingOf(Copy))
      /\ Copy.index # Null => PendingOf(Copy).index = Copy.index
      /\ PendingOf(Copy).hash = Hash(Copy.body) /\ PendingOf(Copy).hashes = Hashes(Copy.body)
      /\ PendingOf(Copy).firstSeen = now
  BY <1>3, <1>6, PendingOfFacts
<1>8. /\ Hash(Copy.body).content = Copy.body.content
      /\ \A h : RecordedFrom(Copy.body, h) => h.content = Copy.body.content
  BY <1>3, LeafFacts
<1>9. HasAnIndex(id)' <=> HasAnIndex(id)
  BY <1>4 DEF HasAnIndex
<1>10. id \in DOMAIN file.pending => KeepsWaiting(id)
  BY <1>3, <1>5 DEF FollowsAt, HasSettled
<1>11. CASE how = "failed"
  <2>1. st' = Refresh(st, {id})
    BY <1>2, <1>11 DEF SettledState
  <2>2. /\ rep'.failed = rep.failed \cup {id} /\ rep'.withdrawn = rep.withdrawn \ {id}
    BY <1>2, <1>11
  <2> QED
    BY <1>1, <1>2, <2>1, <2>2, FlagStep
<1>12. how # "failed" => \A c \in served : c.id = id => IsAccountedFor(c)'
  <2>1. how # "failed" => rep.failed \subseteq rep'.failed
    BY <1>2
  <2> QED
    BY <1>1, <1>4, <2>1, NewsAccounts
<1>13. CASE how = "pending"
  <2>1. /\ IsFeedState(st') /\ st'.highWater = st.highWater /\ st'.done = st.done
        /\ DOMAIN st'.pending = DOMAIN st.pending \cup {id}
        /\ \A other \in DOMAIN st.pending \ {id} : st'.pending[other] = st.pending[other]
        /\ st'.pending[id].index = PendingOf(Copy).index
        /\ st'.pending[id].hash = PendingOf(Copy).hash
        /\ st'.pending[id].hashes = PendingOf(Copy).hashes
        /\ st'.pending[id].firstSeen =
             IF id \in DOMAIN st.pending THEN st.pending[id].firstSeen ELSE PendingOf(Copy).firstSeen
    BY <1>2, <1>3, <1>6, <1>7, <1>13, SettledPending
  <2>2. /\ rep'.failed = rep.failed /\ rep'.withdrawn = rep.withdrawn \ {id}
        /\ Copy.index # Null /\ id \notin DOMAIN st.done
    BY <1>2, <1>13
  <2>3. SameElsewhere(id)
    BY <1>2, <1>4, <1>5, <2>1, <2>2 DEF SameElsewhere
  <2>4. SoundAt(st, id)'
    BY <1>7, <2>1, <2>2 DEF SoundAt, IsOfOneEvent
  <2>5. FollowsAt(id)'
    <3>1. ASSUME id \in DOMAIN file.pending PROVE KeepsWaiting(id)'
      <4>1. /\ id \in DOMAIN st.pending
            /\ st.pending[id].index = file.pending[id].index
            /\ st.pending[id].hash.content = file.pending[id].hash.content
            /\ st.pending[id].firstSeen = file.pending[id].firstSeen
        BY <1>10, <3>1 DEF KeepsWaiting
      <4>2. st.pending[id].index = PendingOf(Copy).index /\ RecordedFrom(Copy.body, st.pending[id].hash)
        BY <1>2, <1>13, <4>1
      <4>3. st.pending[id].hash.content = PendingOf(Copy).hash.content
        BY <1>7, <1>8, <4>2
      <4> QED
        BY <1>4, <2>1, <4>1, <4>2, <4>3 DEF KeepsWaiting
    <3>2. id \notin DOMAIN file.done
      BY <1>3, <2>2 DEF FollowsAt
    <3> QED
      BY <1>4, <2>1, <2>2, <3>1, <3>2 DEF FollowsAt
  <2>6. AccountedAt(id)'
    <3>1. Awaits(seen[id])'
      BY <1>3, <1>5, <1>7, <2>1, <2>2 DEF Awaits, AccountedAt
    <3>2. now - st'.pending[id].firstSeen <= Grace
      <4>1. CASE id \in DOMAIN st.pending
        <5>1. ~(now - st.pending[id].firstSeen > Grace)
          BY <1>2, <1>13, <4>1
        <5>2. st'.pending[id].firstSeen = st.pending[id].firstSeen
          BY <2>1, <4>1
        <5>3. st.pending[id].firstSeen \in Nat
          BY <1>6, <4>1 DEF PendingRecord
        <5> QED
          BY <1>6, <5>1, <5>2, <5>3
      <4>2. CASE id \notin DOMAIN st.pending
        BY <1>6, <1>7, <2>1, <4>2
      <4> QED
        BY <4>1, <4>2
    <3> QED
      BY <1>2, <1>3, <1>4, <1>5, <1>9, <1>12, <1>13, <2>2, <3>1, <3>2 DEF AccountedAt
  <2> QED
    BY <1>2, <1>3, <1>4, <1>5, <2>1, <2>3, <2>4, <2>5, <2>6, OneIdStep
<1>14. CASE how = "verified"
  <2>1. /\ IsFeedState(st') /\ st'.highWater = st.highWater
        /\ DOMAIN st'.done = DOMAIN st.done \cup {id}
        /\ \A other \in DOMAIN st.done \ {id} : st'.done[other] = st.done[other]
        /\ st'.done[id].index = PendingOf(Copy).index /\ st'.done[id].hash = PendingOf(Copy).hash
        /\ st'.done[id].recordedAt = now
        /\ DOMAIN st'.pending = DOMAIN st.pending \ {id}
        /\ \A other \in DOMAIN st'.pending : st'.pending[other] = st.pending[other]
    BY <1>2, <1>3, <1>6, <1>7, <1>14, SettledVerified
  <2>2. /\ rep'.failed = rep.failed /\ rep'.withdrawn = rep.withdrawn \ {id}
        /\ Copy.index # Null /\ Verified(Copy)
    BY <1>2, <1>14
  <2>3. SameElsewhere(id)
    BY <1>2, <1>4, <1>5, <2>1, <2>2 DEF SameElsewhere
  <2>4. SoundAt(st, id)'
    <3>1. IsCommitted(st'.done[id]) /\ st'.done[id].index < head
      <4>1. /\ Hash(Copy.body) \in Hashes(Copy.body) /\ Copy.index < head
            /\ Log[Copy.index + 1] \in Hashes(Copy.body) /\ Copy.index < Len(Log)
        <5>1. head \in 0..Len(Log) /\ Len(Log) \in Nat
          BY FeedInvTypes DEF FeedInv, TypeOK
        <5> QED
          BY <1>3, <2>2, <5>1, LeafFacts, FeedAssumption DEF Verified
      <4> QED
        BY <1>3, <1>7, <2>1, <2>2, <4>1 DEF IsCommitted
    <3>2. now >= last.failed[id]
      BY <1>6
    <3> QED
      BY <1>4, <2>1, <3>1, <3>2 DEF SoundAt, IsCommitted
  <2>5. FollowsAt(id)'
    <3>1. ASSUME id \in DOMAIN file.pending PROVE HasSettled(id)'
      <4>1. /\ id \in DOMAIN st.pending
            /\ st.pending[id].index = file.pending[id].index
            /\ st.pending[id].hash.content = file.pending[id].hash.content
        BY <1>10, <3>1 DEF KeepsWaiting
      <4>2. st.pending[id].index = Copy.index /\ RecordedFrom(Copy.body, st.pending[id].hash)
        BY <1>2, <1>7, <1>14, <2>2, <4>1
      <4>3. st.pending[id].hash.content = Copy.body.content
        BY <1>8, <4>2
      <4>4. /\ st'.done[id].index = Copy.index
            /\ st'.done[id].hash.content = Copy.body.content
        BY <1>7, <1>8, <2>1, <2>2
      <4>5. id \in DOMAIN st'.done /\ id \in DOMAIN seen' /\ seen'[id].index # Null
        BY <1>5, <2>1, <2>2
      <4> QED
        BY <1>4, <2>1, <4>1, <4>2, <4>3, <4>4, <4>5 DEF HasSettled
    <3> QED
      BY <1>4, <2>1, <3>1 DEF FollowsAt
  <2>6. AccountedAt(id)'
    <3>1. Verified(seen[id])'
      BY <1>4, <1>5, <2>2 DEF Verified
    <3> QED
      BY <1>3, <1>4, <1>5, <1>9, <1>12, <1>14, <2>1, <2>2, <3>1 DEF AccountedAt
  <2> QED
    BY <1>2, <1>3, <1>4, <1>5, <2>1, <2>3, <2>4, <2>5, <2>6, OneIdStep
<1>15. CASE how = "notLogged"
  <2>1. Copy.index = Null /\ id \notin DOMAIN st.done
    BY <1>2, <1>15, NotLoggedIsNew
  <2>2. /\ IsFeedState(st') /\ st'.highWater = st.highWater /\ st'.pending = st.pending
        /\ DOMAIN st'.done = DOMAIN st.done
        /\ \A other \in DOMAIN st.done : st'.done[other] = st.done[other]
    BY <1>2, <1>6, <1>15, <2>1, SettledNotLogged
  <2>3. /\ rep'.failed = rep.failed
        /\ id \in DOMAIN st.pending => id \in rep'.withdrawn
        /\ \A other \in Id \ {id} : other \in rep'.withdrawn <=> other \in rep.withdrawn
    BY <1>2, <1>15
  <2>4. SameElsewhere(id)
    BY <1>2, <1>4, <1>5, <2>2, <2>3 DEF SameElsewhere
  <2>5. SoundAt(st, id)'
    BY <1>3, <2>1, <2>2 DEF SoundAt
  <2>6. FollowsAt(id)'
    BY <1>3, <1>4, <1>10, <2>1, <2>2 DEF FollowsAt, KeepsWaiting
  <2>7. AccountedAt(id)'
    <3>1. id \in DOMAIN file.done \cup DOMAIN file.pending => id \in rep'.withdrawn
      BY <1>3, <1>10, <2>1, <2>3 DEF FollowsAt, KeepsWaiting
    <3> QED
      BY <1>3, <1>4, <1>5, <1>9, <1>12, <1>15, <2>1, <2>2, <2>3, <3>1 DEF AccountedAt
  <2> QED
    BY <1>2, <1>3, <1>4, <1>5, <2>2, <2>4, <2>5, <2>6, <2>7, OneIdStep
<1> QED
  BY <1>2, <1>11, <1>13, <1>14, <1>15

\* What a pass did not list is judged from its record: put off, settled or failed.
LEMMA RecheckFacts ==
  ASSUME FeedInv, NEW id \in Id, NEW oc \in Outcomes, Recheck(id, oc)
  PROVE  LET pe == st.pending[id] IN
         /\ id \in DOMAIN st.pending /\ id \notin rep.listed
         /\ \E how \in {"failed", "pending", "verified"} :
              /\ how = "pending" => ~(now - pe.firstSeen > Grace)
              /\ how = "verified" => pe.index < head /\ Log[pe.index + 1] \in pe.hashes
              /\ st' = SettledState(id, how, pe)
              /\ rep' \in Report
              /\ rep'.failed = IF how = "failed" THEN rep.failed \cup {id} ELSE rep.failed
              /\ rep'.listed = rep.listed \cup {id} /\ rep'.withdrawn = rep.withdrawn
              /\ rep'.truncated = rep.truncated /\ rep'.complete = rep.complete
<1> DEFINE pe == st.pending[id]
           how == Judged(id, oc, pe, {})
           said == SettledReport(rep, id, how)
<1>1. /\ id \in ToRecheck /\ st' = SettledState(id, how, pe)
      /\ oc \in IF pe.index < head THEN InclusionOutcomes(pe.index, pe.hashes) ELSE {"pending"}
      /\ rep' = [said EXCEPT !.listed = @ \cup {id}]
  BY DEF Recheck
<1>2. id \in DOMAIN st.pending /\ id \notin rep.listed
  BY <1>1 DEF ToRecheck
<1>3. /\ oc \in {"pending", "verified", "failed"}
      /\ oc = "verified" => pe.index < head /\ Log[pe.index + 1] \in pe.hashes
  BY <1>1 DEF InclusionOutcomes
<1>4. /\ how \in {oc, "failed"}
      /\ how = "pending" => ~(now - pe.firstSeen > Grace)
  BY <1>2, <1>3, JudgedFacts
<1>5. rep \in Report /\ how \in {"failed", "pending", "verified", "notLogged"}
  BY <1>3, <1>4, FeedInvTypes
<1> HIDE DEF how, said, pe
<1>6. /\ said \in Report
      /\ said.failed = IF how = "failed" THEN rep.failed \cup {id} ELSE rep.failed
      /\ said.listed = rep.listed
      /\ how # "notLogged" => said.withdrawn = rep.withdrawn
      /\ said.truncated = rep.truncated /\ said.complete = rep.complete
  <2>1. /\ rep \in Report /\ id \in Id /\ said = SettledReport(rep, id, how)
        /\ how \in {"failed", "pending", "verified", "notLogged"}
    BY <1>5 DEF said
  <2>2. /\ said \in Report
        /\ said.failed = IF how = "failed" THEN rep.failed \cup {id} ELSE rep.failed
        /\ said.listed = rep.listed
        /\ said.withdrawn = IF how = "notLogged" /\ id \in DOMAIN st.pending
                            THEN rep.withdrawn \cup {id} ELSE rep.withdrawn
        /\ said.truncated = rep.truncated /\ said.complete = rep.complete
    BY ONLY <2>1, SettledReportFacts
  <2> QED
    BY <2>2
<1>7. /\ rep' \in Report /\ rep'.failed = said.failed /\ rep'.listed = said.listed \cup {id}
      /\ rep'.withdrawn = said.withdrawn
      /\ rep'.truncated = said.truncated /\ rep'.complete = said.complete
  BY <1>1, <1>6 DEF Report
<1>8. how \in {"failed", "pending", "verified"} /\ how # "notLogged"
  BY <1>3, <1>4
<1> QED
  BY <1>1, <1>2, <1>3, <1>4, <1>6, <1>7, <1>8 DEF pe

LEMMA RecheckInv ==
  ASSUME FeedInv, NEW id \in Id, NEW oc \in Outcomes, Recheck(id, oc)
  PROVE  FeedInv'
<1>1. id \in DOMAIN st.pending /\ id \notin rep.listed
  BY RecheckFacts
<1>2. PICK how \in {"failed", "pending", "verified"} :
        /\ how = "pending" => ~(now - st.pending[id].firstSeen > Grace)
        /\ how = "verified" =>
             st.pending[id].index < head /\ Log[st.pending[id].index + 1] \in st.pending[id].hashes
        /\ st' = SettledState(id, how, st.pending[id])
        /\ rep' \in Report
        /\ rep'.failed = IF how = "failed" THEN rep.failed \cup {id} ELSE rep.failed
        /\ rep'.listed = rep.listed \cup {id} /\ rep'.withdrawn = rep.withdrawn
        /\ rep'.truncated = rep.truncated /\ rep'.complete = rep.complete
  BY RecheckFacts
<1>3. /\ pc = "rechecking" /\ pc' = pc /\ mark' = mark /\ batch' = batch /\ seen' = seen
      /\ UNCHANGED <<now, head, file, broke, outcome, served, last>>
  BY DEF Recheck
<1>4. /\ SoundAt(st, id) /\ FollowsAt(id) /\ AccountedAt(id)
      /\ mark' \in 0..(now + MaxSkew) /\ MapsIdsTo(seen', TakenCopy)
  BY <1>3 DEF FeedInv, TypeOK
<1>5. id \notin DOMAIN st.done /\ id \notin DOMAIN file.done /\ IsOfOneEvent(st.pending[id])
  BY <1>1, <1>3, <1>4 DEF SoundAt, FollowsAt
<1>6. id \in DOMAIN file.pending => KeepsWaiting(id)
  BY <1>4, <1>5 DEF FollowsAt, HasSettled
<1>7. /\ IsFeedState(st) /\ now \in Nat /\ Grace \in Nat
      /\ last.failed[id] \in 0..now
      /\ st.pending[id] \in PendingRecord
  BY <1>1, FeedInvTypes DEF FeedInv, TypeOK
\* A copy of the event that this pass took was judged then.
<1>8. /\ id \in DOMAIN seen /\ seen[id].index # Null => Flagged(id) \/ Verified(seen[id])
      /\ Flagged(id) => Flagged(id)'
      /\ HasAnIndex(id)' <=> HasAnIndex(id)
      /\ Verified(seen[id])' <=> Verified(seen[id])
      /\ \A c : IsAccountedFor(c) => IsAccountedFor(c)'
  <2>1. \A x : Flagged(x) => Flagged(x)'
    BY <1>2, <1>3 DEF Flagged
  <2>2. \A c : IsAccountedFor(c) => IsAccountedFor(c)'
    BY <1>3, <2>1 DEF IsAccountedFor
  <2> QED
    BY <1>1, <1>3, <1>4, <2>1, <2>2 DEF AccountedAt, HasAnIndex, Verified
<1>9. ASSUME id \in DOMAIN st'.pending =>
               now - st'.pending[id].firstSeen <= Grace \/ Flagged(id)'
      PROVE  AccountedAt(id)'
  BY <1>2, <1>3, <1>4, <1>8, <1>9 DEF AccountedAt
<1>10. CASE how = "failed"
  <2>1. st' = Refresh(st, {id})
    BY <1>2, <1>10 DEF SettledState
  <2>2. /\ IsFeedState(st') /\ st'.highWater = st.highWater /\ st'.pending = st.pending
        /\ DOMAIN st'.done = DOMAIN st.done
        /\ \A x \in DOMAIN st.done : st'.done[x] = st.done[x]
    <3>1. \A x \in DOMAIN st.done : st'.done[x] = st.done[x]
      BY <1>5, <2>1, FeedInvTypes DEF Refresh, IsFeedState
    <3> QED
      BY <2>1, <3>1, <1>7, RefreshFacts
  <2>3. SameElsewhere(id)
    BY <1>2, <1>3, <2>2 DEF SameElsewhere
  <2>4. SoundAt(st, id)'
    BY <1>4, <1>5, <2>2 DEF SoundAt
  <2>5. FollowsAt(id)'
    BY <1>3, <1>5, <1>6, <2>2 DEF FollowsAt, KeepsWaiting
  <2>6. Flagged(id)'
    BY <1>2, <1>10 DEF Flagged
  <2> QED
    BY <1>2, <1>3, <1>4, <1>9, <2>2, <2>3, <2>4, <2>5, <2>6, OneIdStep
<1>11. CASE how = "pending"
  <2>1. /\ IsFeedState(st') /\ st'.highWater = st.highWater /\ st'.done = st.done
        /\ DOMAIN st'.pending = DOMAIN st.pending \cup {id}
        /\ \A other \in DOMAIN st.pending \ {id} : st'.pending[other] = st.pending[other]
        /\ st'.pending[id].index = st.pending[id].index
        /\ st'.pending[id].hash = st.pending[id].hash
        /\ st'.pending[id].hashes = st.pending[id].hashes
        /\ st'.pending[id].firstSeen = st.pending[id].firstSeen
    BY <1>1, <1>2, <1>7, <1>11, SettledPending
  <2>2. SameElsewhere(id)
    BY <1>2, <1>3, <1>11, <2>1 DEF SameElsewhere
  <2>3. SoundAt(st, id)'
    BY <1>5, <2>1 DEF SoundAt, IsOfOneEvent
  <2>4. FollowsAt(id)'
    BY <1>1, <1>3, <1>5, <1>6, <2>1 DEF FollowsAt, KeepsWaiting
  <2>5. now - st'.pending[id].firstSeen <= Grace
    BY <1>2, <1>7, <1>11, <2>1 DEF PendingRecord
  <2> QED
    BY <1>2, <1>3, <1>4, <1>9, <2>1, <2>2, <2>3, <2>4, <2>5, OneIdStep
<1>12. CASE how = "verified"
  <2>1. /\ IsFeedState(st') /\ st'.highWater = st.highWater
        /\ DOMAIN st'.done = DOMAIN st.done \cup {id}
        /\ \A other \in DOMAIN st.done \ {id} : st'.done[other] = st.done[other]
        /\ st'.done[id].index = st.pending[id].index /\ st'.done[id].hash = st.pending[id].hash
        /\ st'.done[id].recordedAt = now
        /\ DOMAIN st'.pending = DOMAIN st.pending \ {id}
        /\ \A other \in DOMAIN st'.pending : st'.pending[other] = st.pending[other]
    BY <1>2, <1>7, <1>12, SettledVerified
  <2>2. SameElsewhere(id)
    BY <1>2, <1>3, <1>12, <2>1 DEF SameElsewhere
  <2>3. SoundAt(st, id)'
    <3>1. PICK b \in Body : /\ st.pending[id].hash \in Hashes(b)
                            /\ st.pending[id].hashes \subseteq Hashes(b)
      BY <1>5 DEF IsOfOneEvent
    <3>2. st.pending[id].index < Len(Log)
      <4>1. head \in 0..Len(Log) /\ Len(Log) \in Nat /\ st.pending[id].index \in Nat
        BY <1>7, FeedInvTypes DEF FeedInv, TypeOK, PendingRecord
      <4> QED
        BY <1>2, <1>12, <4>1
    <3>3. IsCommitted(st'.done[id])
      BY <1>2, <1>12, <2>1, <3>1, <3>2 DEF IsCommitted
    <3>4. now >= last.failed[id]
      BY <1>7
    <3> QED
      BY <1>2, <1>3, <1>12, <2>1, <3>3, <3>4 DEF SoundAt, IsCommitted
  <2>4. FollowsAt(id)'
    <3>1. id \in DOMAIN file.pending => HasSettled(id)'
      BY <1>3, <1>6, <2>1 DEF KeepsWaiting, HasSettled
    <3> QED
      BY <1>3, <2>1, <3>1 DEF FollowsAt
  <2> QED
    BY <1>2, <1>3, <1>4, <1>9, <2>1, <2>2, <2>3, <2>4, OneIdStep
<1> QED
  BY <1>2, <1>10, <1>11, <1>12
----------------------------------------------------------------------------------
(***************************************************************************)
(* The end of a pass.                                                      *)
(***************************************************************************)

\* Equal leaves are of one event.
LEMMA SameLeaf ==
  ASSUME NEW b, NEW c, Hash(b) = Hash(c)
  PROVE  Hashes(b) = Hashes(c)
<1>1. b.content = c.content /\ b.profile = c.profile
  BY DEF Hash, Entry
<1> QED
  BY <1>1 DEF Hashes, Entry, OldEntry

\* Pruning only forgets what was recorded before the overlap.
LEMMA PruneFacts ==
  ASSUME NEW feed, IsFeedState(feed), NEW m \in Nat
  PROVE  LET new == Prune([feed EXCEPT !.highWater = m]) IN
         /\ IsFeedState(new) /\ new.highWater = m /\ new.pending = feed.pending
         /\ \A id : id \in DOMAIN new.done <=>
              id \in DOMAIN feed.done /\ feed.done[id].recordedAt >= now - Overlap
         /\ \A id \in DOMAIN new.done : new.done[id] = feed.done[id]
<1> DEFINE new == Prune([feed EXCEPT !.highWater = m])
           kept == {id \in DOMAIN feed.done : feed.done[id].recordedAt >= now - Overlap}
<1>1. /\ new.highWater = m /\ new.pending = feed.pending
      /\ new.done = [id \in kept |-> feed.done[id]]
      /\ new = [highWater |-> new.highWater, done |-> new.done, pending |-> new.pending]
  <2> DEFINE moved == [feed EXCEPT !.highWater = m]
  <2>1. /\ moved.highWater = m /\ moved.pending = feed.pending /\ moved.done = feed.done
        /\ moved = [highWater |-> m, done |-> feed.done, pending |-> feed.pending]
    BY DEF IsFeedState
  <2>2. new = [moved EXCEPT !.done = [id \in {i \in DOMAIN moved.done :
                 moved.done[i].recordedAt >= now - Overlap} |-> moved.done[id]]]
    BY DEF Prune
  <2> HIDE DEF moved, new
  <2> QED
    BY <2>1, <2>2
<1> HIDE DEF new
<1> QED
  BY <1>1 DEF IsFeedState, MapsIdsTo, new

\* What Conclude leaves.
LEMMA ConcludeFacts ==
  ASSUME FeedInv, Conclude
  PROVE  /\ pc = "concluding" /\ pc' = "done" /\ batch = {}
         /\ UNCHANGED <<now, head, file, batch, seen, broke, served, last>>
         /\ Stands \subseteq Id /\ Stands = rep.withdrawn \ Deferred
         /\ rep' \in Report /\ rep'.failed = rep.failed \cup Stands
         /\ mark' = FinalMark /\ mark' \in 0..(now + MaxSkew)
         /\ outcome' = "ok" => broke = "no" /\ ~(rep.truncated /\ FinalMark <= st.highWater)
         /\ outcome' \in {"ok", "stuck", "error", "finding"}
         /\ IsFeedState(st') /\ st'.highWater \in 0..(now + MaxSkew) /\ st'.pending = st.pending
         /\ DOMAIN st'.done \subseteq DOMAIN st.done
         /\ \A id \in DOMAIN st'.done :
              /\ st'.done[id].index = st.done[id].index /\ st'.done[id].hash = st.done[id].hash
              /\ st'.done[id].recordedAt = IF id \in Stands THEN now ELSE st.done[id].recordedAt
         /\ \A id \in DOMAIN st.done \ DOMAIN st'.done : st.done[id].recordedAt < now - Overlap
<1> DEFINE settled == Refresh(st, Stands)
           first == [rep EXCEPT !.deferred = Deferred]
           second == Retract(first, Deferred \cup Stands)
<1>1. /\ pc = "concluding" /\ pc' = "done"
      /\ UNCHANGED <<now, head, file, batch, seen, broke, served, last>>
      /\ rep' = Fail(second, Stands) /\ mark' = FinalMark
      /\ outcome' = IF broke # "no" THEN broke
                    ELSE IF rep.truncated /\ FinalMark <= st.highWater THEN "stuck" ELSE "ok"
      /\ st' = IF outcome' = "ok" THEN Prune([settled EXCEPT !.highWater = FinalMark]) ELSE settled
  BY DEF Conclude, FinalReport
<1>2. /\ rep \in Report /\ now \in Nat /\ Overlap \in Nat /\ IsFeedState(st)
      /\ \A id \in DOMAIN st.done : id \in Id /\ st.done[id] \in DoneRecord
  BY FeedInvTypes
<1>3. rep.withdrawn \in SUBSET Id
  BY <1>2 DEF Report
<1>4. Overruled = {}
  <2>1. \A id \in rep.withdrawn : id \in DOMAIN seen /\ seen[id].index = Null
    BY <1>1, <1>3 DEF FeedInv, AccountedAt
  <2> QED
    BY <2>1 DEF Overruled
<1>5. Stands = rep.withdrawn \ Deferred /\ Stands \in SUBSET Id /\ Deferred \in SUBSET Id
  BY <1>3, <1>4 DEF Stands, Deferred
<1>6. first \in Report /\ first.failed = rep.failed
  BY <1>2, <1>5 DEF Report
<1>7. second \in Report /\ second.failed = first.failed
  BY <1>6 DEF Retract, Report
<1>8. rep' \in Report /\ rep'.failed = rep.failed \cup Stands
  <2>1. rep' = Fail(second, Stands) /\ second \in Report /\ Stands \in SUBSET Id
    BY <1>1, <1>5, <1>7
  <2> HIDE DEF second, first
  <2>2. rep' \in Report /\ rep'.failed = second.failed \cup Stands
    BY <2>1, FailFacts
  <2> QED
    BY <1>6, <1>7, <2>2
<1>9. FinalMark \in 0..(now + MaxSkew) /\ st.highWater \in 0..(now + MaxSkew)
  BY DEF FinalMark, FeedInv, TypeOK
<1>10. /\ outcome' = "ok" => broke = "no" /\ ~(rep.truncated /\ FinalMark <= st.highWater)
       /\ outcome' \in {"ok", "stuck", "error", "finding"}
  BY <1>1 DEF FeedInv, TypeOK
<1>11. /\ IsFeedState(settled) /\ settled.highWater = st.highWater /\ settled.pending = st.pending
       /\ DOMAIN settled.done = DOMAIN st.done
       /\ \A id \in DOMAIN st.done :
            /\ settled.done[id].index = st.done[id].index
            /\ settled.done[id].hash = st.done[id].hash
            /\ settled.done[id].recordedAt = IF id \in Stands THEN now ELSE st.done[id].recordedAt
  BY <1>2, RefreshFacts
<1> DEFINE Settles ==
             /\ IsFeedState(st') /\ st'.highWater \in 0..(now + MaxSkew) /\ st'.pending = st.pending
             /\ DOMAIN st'.done \subseteq DOMAIN st.done
             /\ \A id \in DOMAIN st'.done :
                  /\ st'.done[id].index = st.done[id].index /\ st'.done[id].hash = st.done[id].hash
                  /\ st'.done[id].recordedAt = IF id \in Stands THEN now ELSE st.done[id].recordedAt
             /\ \A id \in DOMAIN st.done \ DOMAIN st'.done : st.done[id].recordedAt < now - Overlap
<1> HIDE DEF settled, first, second, Settles
<1>12. FinalMark \in Nat /\ (\A m \in 0..(now + MaxSkew) : m \in Nat)
  BY <1>9
<1>13. ASSUME outcome' = "ok" PROVE Settles
  <2>1. st' = Prune([settled EXCEPT !.highWater = FinalMark])
    BY <1>1, <1>13
  <2>2. /\ IsFeedState(st') /\ st'.highWater = FinalMark /\ st'.pending = settled.pending
        /\ \A id : id \in DOMAIN st'.done <=>
             id \in DOMAIN settled.done /\ settled.done[id].recordedAt >= now - Overlap
        /\ \A id \in DOMAIN st'.done : st'.done[id] = settled.done[id]
    BY <1>11, <1>12, <2>1, PruneFacts
  <2>3. ASSUME NEW id \in DOMAIN st.done \ DOMAIN st'.done
        PROVE  st.done[id].recordedAt < now - Overlap
    <3>1. ~(settled.done[id].recordedAt >= now - Overlap)
      BY <1>11, <2>2, <2>3
    <3>2. st.done[id].recordedAt \in Nat
      BY <1>2, <2>3 DEF DoneRecord
    <3> QED
      BY <1>2, <1>11, <2>3, <3>1, <3>2
  <2>4. /\ DOMAIN st'.done \subseteq DOMAIN st.done
        /\ \A id \in DOMAIN st'.done :
             /\ st'.done[id].index = st.done[id].index /\ st'.done[id].hash = st.done[id].hash
             /\ st'.done[id].recordedAt = IF id \in Stands THEN now ELSE st.done[id].recordedAt
    BY <1>11, <2>2
  <2>5. st'.highWater \in 0..(now + MaxSkew) /\ st'.pending = st.pending
    BY <1>9, <1>11, <2>2
  <2> QED
    BY <2>2, <2>3, <2>4, <2>5 DEF Settles
<1>14. ASSUME outcome' # "ok" PROVE Settles
  <2>1. st' = settled
    BY <1>1, <1>14
  <2> QED
    BY <1>9, <1>11, <2>1 DEF Settles
<1>15. batch = {}
  BY <1>1 DEF FeedInv, Books
<1> QED
  BY <1>1, <1>5, <1>8, <1>9, <1>10, <1>13, <1>14, <1>15 DEF Settles

\* A pass that ends clean has no withdrawal, put off or standing.
LEMMA CleanConcludes ==
  ASSUME FeedInv, Conclude, Clean'
  PROVE  broke = "no" /\ rep.failed = {} /\ rep.withdrawn = {}
<1>1. outcome' = "ok" /\ rep'.failed = {}
  BY DEF Clean
<1>2. /\ broke = "no" /\ ~(rep.truncated /\ FinalMark <= st.highWater) /\ pc = "concluding"
      /\ rep'.failed = rep.failed \cup Stands /\ Stands = rep.withdrawn \ Deferred
  BY <1>1, ConcludeFacts
<1>3. rep.truncated \/ rep.complete
  BY <1>2 DEF FeedInv, Books
<1>4. Deferred = {}
  <2>1. SUFFICES ASSUME Deferred # {} PROVE FALSE
    OBVIOUS
  <2>2. rep.truncated
    BY <1>3, <2>1 DEF Deferred, Partial
  <2>3. FinalMark = st.highWater /\ st.highWater \in Nat
    BY <2>1, FeedInvTypes DEF FinalMark, IsFeedState
  <2> QED
    BY <1>2, <2>2, <2>3
<1> QED
  BY <1>1, <1>2, <1>4

LEMMA ConcludeInv ==
  ASSUME FeedInv, Conclude
  PROVE  FeedInv'
<1>1. /\ pc = "concluding" /\ pc' = "done" /\ batch = {}
      /\ UNCHANGED <<now, head, file, batch, seen, broke, served, last>>
      /\ rep' \in Report /\ rep'.failed = rep.failed \cup Stands
      /\ mark' \in 0..(now + MaxSkew)
      /\ outcome' \in {"ok", "stuck", "error", "finding"}
      /\ IsFeedState(st') /\ st'.highWater \in 0..(now + MaxSkew) /\ st'.pending = st.pending
      /\ DOMAIN st'.done \subseteq DOMAIN st.done
      /\ \A id \in DOMAIN st'.done :
           /\ st'.done[id].index = st.done[id].index /\ st'.done[id].hash = st.done[id].hash
           /\ st'.done[id].recordedAt = IF id \in Stands THEN now ELSE st.done[id].recordedAt
      /\ \A id \in DOMAIN st.done \ DOMAIN st'.done : st.done[id].recordedAt < now - Overlap
  BY ConcludeFacts
<1>2. TypeOK'
  BY <1>1 DEF FeedInv, TypeOK
<1>3. ASSUME NEW id \in Id
      PROVE  SoundAt(file, id)' /\ SoundAt(st, id)' /\ FollowsAt(id)'
  <2>1. SoundAt(file, id) /\ SoundAt(st, id) /\ FollowsAt(id)
    BY DEF FeedInv
  <2>2. /\ now \in Nat /\ Overlap \in Nat /\ last.failed[id] \in 0..now
        /\ id \in DOMAIN st.done => st.done[id].recordedAt \in Nat
    BY FeedInvTypes DEF FeedInv, TypeOK, DoneRecord
  <2>3. SoundAt(file, id)'
    BY <1>1, <2>1 DEF SoundAt
  <2>4. SoundAt(st, id)'
    BY <1>1, <2>1, <2>2 DEF SoundAt, IsCommitted
  <2>5. id \in DOMAIN file.pending => (KeepsWaiting(id) \/ HasSettled(id))'
    <3>1. KeepsWaiting(id) => KeepsWaiting(id)'
      BY <1>1 DEF KeepsWaiting
    <3>2. HasSettled(id) => HasSettled(id)'
      <4>1. HasSettled(id) => id \in DOMAIN st'.done
        BY <1>1, <2>2 DEF HasSettled
      <4> QED
        BY <1>1, <4>1 DEF HasSettled
    <3> QED
      BY <2>1, <3>1, <3>2 DEF FollowsAt
  <2>6. id \in DOMAIN file.done => id \in DOMAIN st'.done \/ last.failed[id] < now - Overlap
    <3>1. id \in DOMAIN file.done => id \in DOMAIN st.done
      BY <1>1, <2>1 DEF FollowsAt
    <3>2. id \in DOMAIN st.done \ DOMAIN st'.done => last.failed[id] < now - Overlap
      BY <1>1, <2>1, <2>2 DEF SoundAt
    <3> QED
      BY <3>1, <3>2
  <2>7. id \in rep'.failed \cap DOMAIN st'.done => st'.done[id].recordedAt = now
    BY <1>1, <2>1 DEF FollowsAt
  <2> QED
    BY <1>1, <2>3, <2>4, <2>5, <2>6, <2>7 DEF FollowsAt
<1>4. Books'
  BY <1>1 DEF Books
<1>5. ASSUME Clean', NEW c \in served
      PROVE  /\ c.id \in DOMAIN seen /\ (c.index # Null => Agree(seen[c.id], c))
             /\ AccountedAt(c.id) /\ ~Flagged(c.id) /\ c.id \notin rep.withdrawn
  <2>1. broke = "no" /\ rep.failed = {} /\ rep.withdrawn = {}
    BY <1>5, CleanConcludes
  <2>2. c.id \in Id
    BY <1>5 DEF FeedInv, TypeOK, Raw
  <2>3. AccountedAt(c.id)
    BY <1>1, <2>2 DEF FeedInv
  <2>4. ~Flagged(c.id)
    BY <2>1 DEF Flagged
  <2> QED
    BY <1>1, <1>5, <2>1, <2>3, <2>4 DEF AccountedAt, IsAccountedFor
<1>6. CleanAccountsForAll'
  <2>1. SUFFICES ASSUME Clean', NEW c \in served', c.index # Null
                 PROVE  \/ c.index < head' /\ Log[c.index + 1] \in Hashes(c.body)
                        \/ /\ c.id \in DOMAIN st'.pending
                           /\ st'.pending[c.id].index = c.index
                           /\ st'.pending[c.id].hash = Hash(c.body)
    BY DEF CleanAccountsForAll
  <2>2. c \in served /\ head' = head
    BY <1>1, <2>1
  <2>3. /\ c.id \in DOMAIN seen /\ Agree(seen[c.id], c)
        /\ AccountedAt(c.id) /\ ~Flagged(c.id)
    BY <1>5, <2>1, <2>2
  <2>4. seen[c.id].index = c.index /\ Hash(seen[c.id].body) = Hash(c.body) /\ seen[c.id].id = c.id
    BY <2>3 DEF Agree, AccountedAt
  <2>5. Verified(seen[c.id]) \/ Awaits(seen[c.id])
    BY <2>1, <2>3, <2>4 DEF AccountedAt
  <2>6. Hashes(seen[c.id].body) = Hashes(c.body)
    BY <2>4, SameLeaf
  <2> QED
    BY <1>1, <2>2, <2>4, <2>5, <2>6 DEF Verified, Awaits
<1>7. NoSilentWithdrawal'
  <2>1. SUFFICES ASSUME Clean', NEW c \in served', c.index = Null,
                        c.id \in DOMAIN file'.done \cup DOMAIN file'.pending
                 PROVE  \E d \in served' : d.id = c.id /\ d.index # Null
    BY DEF NoSilentWithdrawal
  <2>2. c \in served /\ served' = served /\ file' = file
    BY <1>1, <2>1
  <2>3. c.id \in DOMAIN seen /\ AccountedAt(c.id) /\ ~Flagged(c.id) /\ c.id \notin rep.withdrawn
    BY <1>5, <2>1, <2>2
  <2>4. seen[c.id].index # Null
    BY <2>1, <2>2, <2>3 DEF AccountedAt
  <2>5. HasAnIndex(c.id)
    BY <2>3, <2>4 DEF AccountedAt
  <2> QED
    BY <2>2, <2>5 DEF HasAnIndex
<1>8. GraceIsEnforced'
  <2>1. SUFFICES ASSUME Clean', NEW id \in DOMAIN st'.pending
                 PROVE  now' - st'.pending[id].firstSeen <= Grace
    BY DEF GraceIsEnforced
  <2>2. broke = "no" /\ rep.failed = {} /\ rep.withdrawn = {}
    BY <2>1, CleanConcludes
  <2>3. id \in DOMAIN st.pending /\ id \in Id /\ st'.pending = st.pending /\ now' = now
    BY <1>1, <2>1, FeedInvTypes
  <2>4. AccountedAt(id) /\ id \in rep.listed
    BY <1>1, <2>2, <2>3 DEF FeedInv, Books
  <2> QED
    BY <2>2, <2>3, <2>4 DEF AccountedAt, Flagged
<1> QED
  BY <1>1, <1>2, <1>3, <1>4, <1>6, <1>7, <1>8 DEF FeedInv
----------------------------------------------------------------------------------
(***************************************************************************)
(* The theorems.                                                           *)
(***************************************************************************)
LEMMA FeedInvStutters == FeedInv /\ UNCHANGED vars => FeedInv'
<1> SUFFICES ASSUME FeedInv, UNCHANGED vars PROVE FeedInv'
  OBVIOUS
<1>1. /\ pc' = pc /\ now' = now /\ head' = head /\ file' = file /\ st' = st /\ mark' = mark
      /\ batch' = batch /\ seen' = seen /\ rep' = rep /\ broke' = broke /\ outcome' = outcome
      /\ served' = served /\ last' = last
  BY DEF vars, passVars
<1>2. TypeOK'
  BY <1>1 DEF FeedInv, TypeOK
<1>3. ASSUME NEW id \in Id
      PROVE  SoundAt(file, id)' /\ SoundAt(st, id)' /\ FollowsAt(id)'
  <2>1. SoundAt(file, id)' /\ SoundAt(st, id)'
    BY <1>1 DEF FeedInv, SoundAt
  <2>2. FollowsAt(id)'
    BY <1>1 DEF FeedInv, FollowsAt, KeepsWaiting, HasSettled
  <2> QED
    BY <2>1, <2>2
<1>4. Books'
  BY <1>1 DEF FeedInv, Books
<1>5. ASSUME NEW id \in Id, pc' # "done" PROVE AccountedAt(id)'
  <2>1. AccountedAt(id)
    BY <1>1, <1>5 DEF FeedInv
  <2>2. \A c : IsAccountedFor(c) => IsAccountedFor(c)'
    BY <1>1 DEF IsAccountedFor, Flagged
  <2>3. /\ HasAnIndex(id)' <=> HasAnIndex(id)
        /\ Flagged(id)' <=> Flagged(id)
        /\ Awaits(seen[id])' <=> Awaits(seen[id])
        /\ Verified(seen[id])' <=> Verified(seen[id])
    BY <1>1 DEF HasAnIndex, Flagged, Awaits, Verified
  <2> QED
    BY <1>1, <2>1, <2>2, <2>3 DEF AccountedAt
<1>6. CleanAccountsForAll' /\ NoSilentWithdrawal' /\ GraceIsEnforced'
  BY <1>1 DEF FeedInv, CleanAccountsForAll, NoSilentWithdrawal, GraceIsEnforced, Clean
<1> QED
  BY <1>2, <1>3, <1>4, <1>5, <1>6 DEF FeedInv

LEMMA FeedInvNext == FeedInv /\ [Next]_vars => FeedInv'
<1> SUFFICES ASSUME FeedInv, [Next]_vars PROVE FeedInv'
  OBVIOUS
<1>1. CASE \E n \in 1..Len(Log) : HeadMoves(n)
  BY <1>1, HeadMovesInv
<1>2. CASE Tick \/ Start \/ Exit \/ Crash
  BY <1>2, TickInv, StartInv, ExitInv
<1>3. CASE \E page \in Pages : ReadPage(page)
  BY <1>3, ReadPageInv
<1>4. CASE Truncate \/ ReadFails \/ Stalls \/ Rechecked
  BY <1>4, BetweenCopiesInv
<1>5. CASE \E hasMore \in BOOLEAN : EndPage(hasMore)
  BY <1>5, BetweenCopiesInv
<1>6. CASE Conflict \/ Contradiction \/ Relocation
  BY <1>6, FlaggingCopyInv
<1>7. CASE Repeat \/ Withdrawal \/ Unchanged
  BY <1>7, RepeatInv, WithdrawalInv, UnchangedInv
<1>8. CASE \E oc \in Outcomes : Verdict(oc)
  BY <1>8, VerdictInv
<1>9. ASSUME NEW why \in {"error", "finding"}, VerdictFails(why) \/ RecheckFails(why)
      PROVE  FeedInv'
  BY <1>9, VerdictFailsInv, BetweenCopiesInv
<1>10. ASSUME NEW id \in Id, NEW oc \in Outcomes, Recheck(id, oc) PROVE FeedInv'
  BY <1>10, RecheckInv
<1>11. CASE Conclude
  BY <1>11, ConcludeInv
<1>12. CASE UNCHANGED vars
  BY <1>12, FeedInvStutters
<1> QED
  BY <1>1, <1>2, <1>3, <1>4, <1>5, <1>6, <1>7, <1>8, <1>9, <1>10, <1>11, <1>12 DEF Next

\* The state a pass keeps stays in step with what it was served.
THEOREM FeedInvariance == Spec => []FeedInv
<1> QED
  BY FeedInvInit, FeedInvNext, PTL DEF Spec

\* Run and the file keep their types, and no served time carries the mark past the clock.
THEOREM TypeCorrect == Spec => []TypeOK
<1>1. FeedInv => TypeOK
  BY DEF FeedInv
<1> QED
  BY <1>1, FeedInvariance, PTL

\* settle and recheckDone record as done only what the log committed, where it did.
THEOREM DoneIsCommittedHolds == Spec => []DoneIsCommitted
<1>1. FeedInv => DoneIsCommitted
  <2> SUFFICES ASSUME FeedInv, NEW id \in DOMAIN st.done PROVE IsCommitted(st.done[id])
    BY DEF DoneIsCommitted
  <2>1. id \in Id
    BY FeedInvTypes
  <2> QED
    BY <2>1 DEF FeedInv, SoundAt
<1> QED
  BY <1>1, FeedInvariance, PTL

\* settle never leaves an id both done and awaited.
THEOREM OneRecordHolds == Spec => []OneRecord
<1>1. FeedInv => OneRecord
  <2> SUFFICES ASSUME FeedInv, NEW id \in DOMAIN st.done \cap DOMAIN st.pending PROVE FALSE
    BY DEF OneRecord
  <2>1. id \in Id
    BY FeedInvTypes
  <2> QED
    BY <2>1 DEF FeedInv, SoundAt
<1> QED
  BY <1>1, FeedInvariance, PTL

\* Run ends clean only when each copy it was served with an index is committed there
\* or on record as awaited.
THEOREM CleanAccountsForAllHolds == Spec => []CleanAccountsForAll
<1>1. FeedInv => CleanAccountsForAll
  BY DEF FeedInv
<1> QED
  BY <1>1, FeedInvariance, PTL

\* Run does not end clean over an index withdrawn from a recorded event.
THEOREM NoSilentWithdrawalHolds == Spec => []NoSilentWithdrawal
<1>1. FeedInv => NoSilentWithdrawal
  BY DEF FeedInv
<1> QED
  BY <1>1, FeedInvariance, PTL

\* Run does not end clean while an event has waited past its grace.
THEOREM GraceIsEnforcedHolds == Spec => []GraceIsEnforced
<1>1. FeedInv => GraceIsEnforced
  BY DEF FeedInv
<1> QED
  BY <1>1, FeedInvariance, PTL

\* Only a pass that has ended changes the file, to the state it ended with.
LEMMA FileMoves ==
  ASSUME [Next]_vars, file' # file
  PROVE  pc = "done" /\ file' = st
<1>1. CASE Exit
  BY <1>1 DEF Exit
<1>2. CASE Crash \/ Tick \/ Start \/ Truncate \/ ReadFails \/ Stalls \/ Rechecked \/ Conclude
  BY <1>2 DEF Crash, Tick, Start, Truncate, ReadFails, Stalls, BreakOff, Rechecked, Conclude
<1>3. CASE Conflict \/ Contradiction \/ Repeat \/ Withdrawal \/ Relocation \/ Unchanged
  BY <1>3 DEF Conflict, Contradiction, FailCopy, Repeat, Withdrawal, Relocation, Unchanged, NextCopy
<1>4. CASE \/ \E n \in 1..Len(Log) : HeadMoves(n)
           \/ \E page \in Pages : ReadPage(page)
           \/ \E hasMore \in BOOLEAN : EndPage(hasMore)
  BY <1>4 DEF HeadMoves, ReadPage, EndPage
<1>5. CASE \/ \E oc \in Outcomes : Verdict(oc)
           \/ \E why \in {"error", "finding"} : VerdictFails(why) \/ RecheckFails(why)
           \/ \E id \in Id, oc \in Outcomes : Recheck(id, oc)
  BY <1>5 DEF Verdict, NextCopy, VerdictFails, RecheckFails, BreakOff, Recheck
<1>6. CASE UNCHANGED vars
  BY <1>6 DEF vars
<1> QED
  BY <1>1, <1>2, <1>3, <1>4, <1>5, <1>6 DEF Next

\* An awaited event keeps its index, its content and its first sighting until settle
\* records it as done there.
THEOREM DeadlineStandsHolds == Spec => DeadlineStands
<1> DEFINE Stood == \A id \in DOMAIN file.pending :
             LET was == file.pending[id] IN
             \/ /\ id \in DOMAIN file'.pending
                /\ file'.pending[id].index = was.index
                /\ file'.pending[id].hash.content = was.hash.content
                /\ file'.pending[id].firstSeen = was.firstSeen
             \/ /\ id \in DOMAIN file'.done
                /\ file'.done[id].index = was.index
                /\ file'.done[id].hash.content = was.hash.content
<1>1. FeedInv /\ [Next]_vars => [Stood]_file
  <2> SUFFICES ASSUME FeedInv, [Next]_vars, file' # file, NEW id \in DOMAIN file.pending
               PROVE  \/ /\ id \in DOMAIN file'.pending
                         /\ file'.pending[id].index = file.pending[id].index
                         /\ file'.pending[id].hash.content = file.pending[id].hash.content
                         /\ file'.pending[id].firstSeen = file.pending[id].firstSeen
                      \/ /\ id \in DOMAIN file'.done
                         /\ file'.done[id].index = file.pending[id].index
                         /\ file'.done[id].hash.content = file.pending[id].hash.content
    OBVIOUS
  <2>1. pc = "done" /\ file' = st
    BY FileMoves
  <2>2. id \in Id
    BY FeedInvTypes
  <2> QED
    BY <2>1, <2>2 DEF FeedInv, FollowsAt, KeepsWaiting, HasSettled
<1> QED
  BY <1>1, FeedInvariance, PTL DEF Spec, DeadlineStands

\* Prune forgets no record of an id whose last failure is within the overlap.
THEOREM FindingKeepsRecordHolds == Spec => FindingKeepsRecord
<1>1. FeedInv /\ [Next]_vars => [\A id \in Forgotten : last.failed[id] < now - Overlap]_file
  <2> SUFFICES ASSUME FeedInv, [Next]_vars, file' # file, NEW id \in Forgotten
               PROVE  last.failed[id] < now - Overlap
    OBVIOUS
  <2>1. pc = "done" /\ file' = st
    BY FileMoves
  <2>2. id \in DOMAIN file.done /\ id \notin DOMAIN st.done
    BY <2>1 DEF Forgotten
  <2>3. id \in Id
    BY <2>2, FeedInvTypes
  <2> QED
    BY <2>1, <2>2, <2>3 DEF FeedInv, FollowsAt
<1> QED
  BY <1>1, FeedInvariance, PTL DEF Spec, FindingKeepsRecord
==================================================================================
