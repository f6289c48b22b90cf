--------------------------------- MODULE Session ---------------------------------
(***************************************************************************)
(* The checkpoint core of a pass (verifier.go: session, start,             *)
(* proveAppendOnly, link, advance, provePrefix) together with what the     *)
(* command does with the state file around it (cmd/axt-verify/main.go).    *)
(*                                                                         *)
(* A pass fetches a checkpoint, proves that the saved checkpoint and every *)
(* baseline the caller brought are prefixes of its history, and only then  *)
(* is anchored.  After that every checkpoint that comes with a proof is    *)
(* linked into the same history before the proof is looked at.             *)
(*                                                                         *)
(* The log is untrusted and holds the signing key: it may answer each      *)
(* request with any signed tree and a right or a wrong proof, refuse it,   *)
(* fail it, or answer with a note that does not verify.  Each request to   *)
(* the log is one action; the code between two requests is one action too. *)
(***************************************************************************)
EXTENDS Trees

CONSTANTS
  NoTree,             \* no checkpoint: a first run
  MaxRelateAttempts,  \* rounds link makes before it gives up
  MaxBaselines        \* baselines one pass brings; bounds the runs only

ASSUME NoTreeIsNoTree == NoTree \notin Tree
ASSUME AttemptsAssumption == MaxRelateAttempts \in Nat \ {0}
ASSUME BaselinesAssumption == MaxBaselines \in Nat

VARIABLES
  pc,          \* where the pass is
  saved,       \* the checkpoint in the state file
  anchor,      \* the checkpoint in the loaded state, which a save writes
  required,    \* history: the trees this pass has to be shown to extend
  latest,      \* the newest checkpoint verified and linked
  bySize,      \* the root behind each linked size
  noteBySize,  \* the signed note behind each linked size
  anchored,    \* every required tree has been proven a prefix
  todo,        \* checkpoints start has yet to pass to proveAppendOnly
  target,      \* link's argument
  round,       \* link's rounds so far
  ahead,       \* the head and proof provePrefix holds while latest moves
  outcome,     \* how the pass ended
  evidence     \* the notes the inconsistency error carries, as <<older, newer>>

session == <<required, latest, bySize, noteBySize, anchored, todo>>
vars == <<pc, saved, anchor, session, target, round, ahead, outcome, evidence>>

(***************************************************************************)
(* A checkpoint in hand: the tree it commits to and whether a signed note  *)
(* comes with it (a caller's bare size and hash has none).                 *)
(***************************************************************************)
Note == [tree : Tree, signed : BOOLEAN]
Signed(t) == [tree |-> t, signed |-> TRUE]
NoNote == [tree |-> NoTree, signed |-> FALSE]
Baseline == {b \in Note : b.signed \/ Len(b.tree) > 0}

\* A checkpoint that came with a proof, and whether that proof is right.
Answers == [tree : Tree, proof : BOOLEAN]
NoAnswer == [tree |-> NoTree, proof |-> FALSE]

Linking == {"link", "nested", "prove"}

\* The two kinds of end that are not findings, besides success, and the findings.
Unfinished == {"incomplete", "advancing"}
Findings == {"fork", "shrank", "inconsistent", "refused", "unsigned"}
----------------------------------------------------------------------------------
\* No size is linked yet.
NoneLinked == [n \in {} |-> NoTree]

Put(f, n, v) == [k \in DOMAIN f \cup {n} |-> IF k = n THEN v ELSE f[k]]

\* forkCheck: a second root for a size that is linked already.
Forks(c) == Len(c.tree) \in DOMAIN bySize /\ bySize[Len(c.tree)] # c.tree

IsLinked(c) == Len(c.tree) \in DOMAIN bySize /\ bySize[Len(c.tree)] = c.tree

\* Slip: the note is not kept with the linked size.
NoteOrPairBare(n) == [tree |-> bySize[n], signed |-> FALSE]

\* What can be shown for a linked size: its note, else the bare pair.
NoteOrPair(n) ==
  IF n \in DOMAIN noteBySize THEN Signed(noteBySize[n])
  ELSE [tree |-> bySize[n], signed |-> FALSE]

RememberIn(notes, c) == IF c.signed THEN Put(notes, Len(c.tree), c.tree) ELSE notes

Remember(c) ==
  /\ bySize' = Put(bySize, Len(c.tree), c.tree)
  /\ noteBySize' = RememberIn(noteBySize, c)

\* commit writes the note itself, so a head without one would erase the anchor.
CommitOf(c) == IF c.signed THEN c.tree ELSE NoTree

\* Slip: the head moves and the state does not.
SetLatestUncommitted(c) == Remember(c) /\ latest' = c /\ anchor' = anchor

SetLatest(c) ==
  /\ Remember(c)
  /\ latest' = c
  /\ anchor' = IF anchored THEN CommitOf(c) ELSE anchor

End(how, shown) ==
  /\ pc' = "done"
  /\ outcome' = how
  /\ evidence' = shown
  /\ UNCHANGED <<saved, anchor, session, target, round, ahead>>

ForkFound(c) == End("fork", {<<NoteOrPair(Len(c.tree)), c>>})
InconsistentFound(older, newer) == End("inconsistent", {<<older, newer>>})

StartLink(c) ==
  /\ pc' = "link"
  /\ target' = c
  /\ round' = 0
  /\ UNCHANGED <<ahead, outcome, evidence>>

\* Slip: going round again costs no round.
NextRoundUncounted ==
  /\ pc' = "link"
  /\ ahead' = NoAnswer
  /\ UNCHANGED <<target, round, outcome, evidence>>

NextRound ==
  /\ pc' = "link"
  /\ round' = round + 1
  /\ ahead' = NoAnswer
  /\ UNCHANGED <<target, outcome, evidence>>

LinkReturnsTo == IF anchored THEN "ready" ELSE "anchor"
----------------------------------------------------------------------------------
Idle ==
  /\ pc = "idle"
  /\ anchor = saved
  /\ required = {} /\ todo = <<>> /\ latest = NoNote
  /\ bySize = NoneLinked /\ noteBySize = NoneLinked /\ anchored = FALSE
  /\ target = NoNote /\ round = 0 /\ ahead = NoAnswer
  /\ outcome = "none" /\ evidence = {}

Init == saved = NoTree /\ Idle

\* Slip: a baseline excuses the saved checkpoint.
BeginBaselinesInstead(baselines) ==
  /\ pc = "idle"
  /\ pc' = "fetch"
  /\ todo' = IF saved = NoTree \/ baselines # <<>> THEN baselines ELSE <<Signed(saved)>>
  /\ required' = {todo'[i].tree : i \in DOMAIN todo'}
  /\ UNCHANGED <<saved, anchor, latest, bySize, noteBySize, anchored,
                 target, round, ahead, outcome, evidence>>

\* The command loads the state file and reads the caller's baselines.
Begin(baselines) ==
  /\ pc = "idle"
  /\ pc' = "fetch"
  /\ todo' = IF saved = NoTree THEN baselines ELSE <<Signed(saved)>> \o baselines
  /\ required' = {todo'[i].tree : i \in DOMAIN todo'}
  /\ UNCHANGED <<saved, anchor, latest, bySize, noteBySize, anchored,
                 target, round, ahead, outcome, evidence>>

\* start: the checkpoint endpoint serves a note that verifies.
Fetch(t) ==
  /\ pc = "fetch"
  /\ pc' = "anchor"
  /\ latest' = Signed(t)
  /\ bySize' = [n \in {Len(t)} |-> t]
  /\ noteBySize' = [n \in {Len(t)} |-> t]
  /\ UNCHANGED <<saved, anchor, required, anchored, todo,
                 target, round, ahead, outcome, evidence>>

\* Slip: a baseline ahead of the served head goes down the plain path too.
AnchorLinkPlain ==
  /\ pc = "anchor"
  /\ todo # <<>>
  /\ StartLink(Head(todo))
  /\ todo' = Tail(todo)
  /\ UNCHANGED <<saved, anchor, required, latest, bySize, noteBySize, anchored>>

(***************************************************************************)
(* proveAppendOnly, for the next checkpoint to anchor to.                  *)
(***************************************************************************)
AnchorLink ==
  /\ pc = "anchor"
  /\ todo # <<>>
  /\ Len(Head(todo).tree) <= Len(latest.tree)
  /\ StartLink(Head(todo))
  /\ todo' = Tail(todo)
  /\ UNCHANGED <<saved, anchor, required, latest, bySize, noteBySize, anchored>>

\* What was served is behind old: old may be lag's doing or a rollback's.
IsBehind == pc = "anchor" /\ todo # <<>> /\ Len(Head(todo).tree) > Len(latest.tree)

BehindFound(head, proof) ==
  LET old == Head(todo) IN
  /\ IsBehind
  /\ \/ Forks(head) /\ ForkFound(head)
     \/ /\ ~Forks(head) /\ Len(head.tree) < Len(old.tree)
        /\ End("shrank", {<<old, head>>})
     \/ /\ ~Forks(head) /\ Len(head.tree) >= Len(old.tree)
        /\ ~VerifyConsistency(old.tree, head.tree, proof)
        /\ InconsistentFound(old, head)

\* Slip: the tree served first stays linked on its signature alone.
BehindKeepsServed(head, proof) ==
  LET old == Head(todo) IN
  /\ IsBehind
  /\ ~Forks(head)
  /\ Len(head.tree) >= Len(old.tree)
  /\ VerifyConsistency(old.tree, head.tree, proof)
  /\ bySize' = Put(Put(bySize, Len(old.tree), old.tree), Len(head.tree), head.tree)
  /\ noteBySize' = RememberIn(RememberIn(noteBySize, old), head)
  /\ latest' = head
  /\ todo' = Tail(todo)
  /\ StartLink(latest)
  /\ UNCHANGED <<saved, anchor, required, anchored>>

\* The log showed a head that covers old.  The tree served first was taken on
\* its signature alone: its entry goes, and it is linked like any other.
Behind(head, proof) ==
  LET old == Head(todo)
      linked == Put(Put(bySize, Len(old.tree), old.tree), Len(head.tree), head.tree)
  IN
  /\ IsBehind
  /\ ~Forks(head)
  /\ Len(head.tree) >= Len(old.tree)
  /\ VerifyConsistency(old.tree, head.tree, proof)
  /\ bySize' = [n \in DOMAIN linked \ {Len(latest.tree)} |-> linked[n]]
  /\ noteBySize' = RememberIn(RememberIn(noteBySize, old), head)
  /\ latest' = head
  /\ anchor' = IF anchored THEN CommitOf(head) ELSE anchor
  /\ todo' = Tail(todo)
  /\ StartLink(latest)
  /\ UNCHANGED <<saved, required, anchored>>

\* Slip: the pass is anchored with a baseline still to be proven.
AnchoredEarly ==
  /\ pc = "anchor"
  /\ pc' = "ready"
  /\ anchored' = TRUE
  /\ anchor' = CommitOf(latest)
  /\ UNCHANGED <<saved, required, latest, bySize, noteBySize, todo,
                 target, round, ahead, outcome, evidence>>

\* Nothing is left to anchor to: the pass is anchored and its head committed.
Anchored ==
  /\ pc = "anchor"
  /\ todo = <<>>
  /\ pc' = "ready"
  /\ anchored' = TRUE
  /\ anchor' = CommitOf(latest)
  /\ UNCHANGED <<saved, required, latest, bySize, noteBySize, todo,
                 target, round, ahead, outcome, evidence>>

(***************************************************************************)
(* link: rounds of forkCheck, lookup, then advance or provePrefix.         *)
(***************************************************************************)
LinkFork == pc = "link" /\ Forks(target) /\ ForkFound(target)

LinkReturn ==
  /\ pc = "link"
  /\ IsLinked(target)
  /\ pc' = LinkReturnsTo
  /\ target' = NoNote /\ round' = 0
  /\ UNCHANGED <<saved, anchor, session, ahead, outcome, evidence>>

Unlinked == pc = "link" /\ Len(target.tree) \notin DOMAIN bySize

LinkGiveUp == Unlinked /\ round = MaxRelateAttempts /\ End("advancing", {})

Rounding == Unlinked /\ round < MaxRelateAttempts
IsAdvance == Rounding /\ Len(target.tree) > Len(latest.tree)
IsProvePrefix == Rounding /\ Len(target.tree) <= Len(latest.tree)

\* Every tree extends the empty tree.
AdvanceFromEmpty ==
  /\ IsAdvance
  /\ Len(latest.tree) = 0
  /\ SetLatest(target)
  /\ NextRound
  /\ UNCHANGED <<saved, required, anchored, todo>>

AsksAdvance == IsAdvance /\ Len(latest.tree) > 0

AdvanceFound(head, proof) ==
  /\ AsksAdvance
  /\ \/ Forks(head) /\ ForkFound(head)
     \/ /\ ~Forks(head) /\ Len(head.tree) >= Len(target.tree)
        /\ ~VerifyConsistency(latest.tree, head.tree, proof)
        /\ InconsistentFound(latest, head)

\* The answer came from behind target, a lagging read: go round again.
AdvanceLags(head) ==
  /\ AsksAdvance
  /\ ~Forks(head)
  /\ Len(head.tree) < Len(target.tree)
  /\ NextRound
  /\ UNCHANGED <<saved, anchor, session>>

Advance(head, proof) ==
  /\ AsksAdvance
  /\ ~Forks(head)
  /\ Len(head.tree) >= Len(target.tree)
  /\ VerifyConsistency(latest.tree, head.tree, proof)
  /\ SetLatest(head)
  /\ NextRound
  /\ UNCHANGED <<saved, required, anchored, todo>>

PrefixEmpty ==
  /\ IsProvePrefix
  /\ Len(target.tree) = 0
  /\ Remember(target)
  /\ NextRound
  /\ UNCHANGED <<saved, anchor, required, latest, anchored, todo>>

AsksPrefix == IsProvePrefix /\ Len(target.tree) > 0

PrefixFound(head) == AsksPrefix /\ Forks(head) /\ ForkFound(head)

\* Slip: the head is not moved up to a log that grew.
PrefixAnsweredAsIs(head, proof) ==
  /\ AsksPrefix
  /\ ~Forks(head)
  /\ pc' = "prove"
  /\ ahead' = [tree |-> head.tree, proof |-> proof]
  /\ UNCHANGED <<saved, anchor, session, target, round, outcome, evidence>>

\* The answer is held while latest moves up to its head, if the log grew since
\* latest was fetched, and is then compared with latest.
PrefixAnswered(head, proof) ==
  /\ AsksPrefix
  /\ ~Forks(head)
  /\ pc' = IF Len(head.tree) > Len(latest.tree) THEN "nested" ELSE "prove"
  /\ ahead' = [tree |-> head.tree, proof |-> proof]
  /\ UNCHANGED <<saved, anchor, session, target, round, outcome, evidence>>

\* advance(head), called by provePrefix with the head of the answer it holds.
NestedFound(head, proof) ==
  /\ pc = "nested"
  /\ \/ Forks(head) /\ ForkFound(head)
     \/ /\ ~Forks(head) /\ Len(head.tree) >= Len(ahead.tree)
        /\ ~VerifyConsistency(latest.tree, head.tree, proof)
        /\ InconsistentFound(latest, head)

NestedLags(head) ==
  /\ pc = "nested"
  /\ ~Forks(head)
  /\ Len(head.tree) < Len(ahead.tree)
  /\ pc' = "prove"
  /\ UNCHANGED <<saved, anchor, session, target, round, ahead, outcome, evidence>>

NestedAdvance(head, proof) ==
  /\ pc = "nested"
  /\ ~Forks(head)
  /\ Len(head.tree) >= Len(ahead.tree)
  /\ VerifyConsistency(latest.tree, head.tree, proof)
  /\ SetLatest(head)
  /\ pc' = "prove"
  /\ UNCHANGED <<saved, required, anchored, todo, target, round, ahead, outcome, evidence>>

\* Slip: a proof to another head than latest is taken for a wrong one.
ProveFoundUnmatched ==
  /\ pc = "prove"
  /\ ~(ahead.tree = latest.tree /\ VerifyConsistency(target.tree, latest.tree, ahead.proof))
  /\ InconsistentFound(target, latest)

\* provePrefix compares the head of the held answer with latest.
ProveFound ==
  /\ pc = "prove"
  /\ \/ Forks(Signed(ahead.tree)) /\ ForkFound(Signed(ahead.tree))
     \/ /\ ahead.tree = latest.tree
        /\ ~VerifyConsistency(target.tree, latest.tree, ahead.proof)
        /\ InconsistentFound(target, latest)

\* Lagging, or moved again: go round again.
ProveLags ==
  /\ pc = "prove"
  /\ ~Forks(Signed(ahead.tree))
  /\ ahead.tree # latest.tree
  /\ NextRound
  /\ UNCHANGED <<saved, anchor, session>>

Prove ==
  /\ pc = "prove"
  /\ ahead.tree = latest.tree
  /\ VerifyConsistency(target.tree, latest.tree, ahead.proof)
  /\ Remember(target)
  /\ NextRound
  /\ UNCHANGED <<saved, anchor, required, latest, anchored, todo>>
----------------------------------------------------------------------------------
(***************************************************************************)
(* Requests that get no usable answer.  Only a consistency request that is *)
(* refused is a finding; any other failure leaves the pass incomplete.     *)
(***************************************************************************)
AsksConsistency == IsBehind \/ AsksAdvance \/ AsksPrefix \/ pc = "nested"

\* The checkpoint whose size the outstanding consistency request starts from.
AskedFrom ==
  IF pc = "anchor" THEN Head(todo)
  ELSE IF AsksPrefix THEN target ELSE latest

\* classifyRefusal: 404, 400, 401 or 403 in answer to a consistency request.
Refused == AsksConsistency /\ End("refused", {<<AskedFrom, latest>>})

\* Any read that breaks off, of a checkpoint, a proof or (once anchored) the feed.
Unavailable ==
  /\ AsksConsistency \/ pc \in {"fetch", "ready"}
  /\ End("incomplete", {})

\* The note that came back does not verify under the pinned key and origin.
Unsigned ==
  /\ AsksConsistency \/ pc \in {"fetch", "ready"}
  /\ End("unsigned", {})
----------------------------------------------------------------------------------
\* relate: a checkpoint came with an inclusion proof or a coverage re-read.
Relate(t) ==
  /\ pc = "ready"
  /\ StartLink(Signed(t))
  /\ UNCHANGED <<saved, anchor, session>>

\* finish: the pass completed, whatever it found about single events.
Finish ==
  /\ pc = "ready"
  /\ pc' = "done"
  /\ outcome' = "ok"
  /\ anchor' = CommitOf(latest)
  /\ UNCHANGED <<saved, session, target, round, ahead, evidence>>

\* The state is saved unless the log was found out or nothing was verified.
Saves == outcome \in {"ok"} \cup Unfinished /\ anchored

Leave ==
  /\ pc' = "idle"
  /\ anchor' = saved'
  /\ required' = {} /\ todo' = <<>> /\ latest' = NoNote
  /\ bySize' = NoneLinked /\ noteBySize' = NoneLinked /\ anchored' = FALSE
  /\ target' = NoNote /\ round' = 0 /\ ahead' = NoAnswer
  /\ outcome' = "none" /\ evidence' = {}

Exit == pc = "done" /\ saved' = (IF Saves THEN anchor ELSE saved) /\ Leave

\* The process is killed, or the final save fails.
Crash == pc # "idle" /\ saved' = saved /\ Leave
----------------------------------------------------------------------------------
Answer(head, proof) ==
  \/ BehindFound(head, proof) \/ Behind(head, proof)
  \/ AdvanceFound(head, proof) \/ AdvanceLags(head) \/ Advance(head, proof)
  \/ PrefixFound(head) \/ PrefixAnswered(head, proof)
  \/ NestedFound(head, proof) \/ NestedLags(head) \/ NestedAdvance(head, proof)

Failure == Refused \/ Unavailable \/ Unsigned

Computation ==
  \/ AnchorLink \/ Anchored
  \/ LinkFork \/ LinkReturn \/ LinkGiveUp \/ AdvanceFromEmpty \/ PrefixEmpty
  \/ ProveFound \/ ProveLags \/ Prove

Baselines == UNION {[1..n -> Baseline] : n \in 0..MaxBaselines}

Next ==
  \/ \E baselines \in Baselines : Begin(baselines)
  \/ \E t \in Tree : Fetch(t) \/ Relate(t)
  \/ \E t \in Tree, proof \in BOOLEAN : Answer(Signed(t), proof)
  \/ Failure
  \/ Computation
  \/ Finish \/ Exit \/ Crash

Spec == Init /\ [][Next]_vars

\* A step of link, or an answer or a failure it waits for.
LinkStep ==
  /\ pc \in Linking
  /\ \/ Computation
     \/ \E t \in Tree, proof \in BOOLEAN : Answer(Signed(t), proof)
     \/ Failure

\* Every request is answered or fails: the client gives it thirty seconds and a
\* bounded number of retries.  Nothing obliges the command to run again.
FairSpec == Spec /\ WF_vars(LinkStep)
----------------------------------------------------------------------------------
(***************************************************************************)
(* Properties.                                                             *)
(***************************************************************************)
PartialOn(S) == UNION {[D -> S] : D \in SUBSET {Len(t) : t \in Tree}}

\* The type of every variable of a session.
TypeOK ==
  /\ pc \in {"idle", "fetch", "anchor", "ready", "done"} \cup Linking
  /\ saved \in Tree \cup {NoTree}
  /\ anchor \in Tree \cup {NoTree}
  /\ required \in SUBSET Tree
  /\ latest \in Note \cup {NoNote}
  /\ bySize \in PartialOn(Tree)
  /\ noteBySize \in PartialOn(Tree)
  /\ anchored \in BOOLEAN
  /\ todo \in Seq(Note)
  /\ target \in Note \cup {NoNote}
  /\ round \in 0..MaxRelateAttempts
  /\ ahead \in Answers \cup {NoAnswer}
  /\ outcome \in {"none", "ok"} \cup Unfinished \cup Findings
  /\ evidence \in SUBSET (Note \X Note)

\* link's promise, "every proof in one pass is checked against mutually
\* consistent views of the log": once a pass is anchored, every checkpoint it has
\* linked is a prefix of the newest one.
OneHistory == anchored => \A n \in DOMAIN bySize : Extends(latest.tree, bySize[n])

\* start's promise: an anchored pass has been shown that its head extends the
\* saved checkpoint and every baseline, so neither a rollback nor a baseline on
\* another branch is ever taken up, not even by way of a lagging read.
AnchorHeld == anchored => \A r \in required : Extends(latest.tree, r)

\* commit's promise, "a pass that breaks off must not leave the state anchored
\* behind it": what a save would write is always the newest verified checkpoint.
CommitsAsItAdvances == anchored => anchor = latest.tree

\* The ratchet of the state file across passes, failures and crashes: the saved
\* checkpoint is replaced only by an extension of it, never lost or rolled back.
SavedRatchet == [][saved # NoTree => saved' # NoTree /\ Extends(saved', saved)]_saved

\* Evidence of a fork shows it, "only evidence while both notes are in hand": two
\* checkpoints of one size with different roots, each with its signed note unless
\* it is a bare pair the caller brought.
ForkEvidenceShowsIt ==
  outcome = "fork" =>
    \A e \in evidence : /\ Len(e[1].tree) = Len(e[2].tree) /\ e[1].tree # e[2].tree
                        /\ \A side \in 1..2 : e[side].signed \/ e[side].tree \in required

\* classifyRefusal's comment: the customer keeps the checkpoint the log will not
\* stand behind and the one it serves instead, "that pair is the whole finding".
RefusalShowsAPair == outcome = "refused" => \A e \in evidence : e[1].tree # e[2].tree

(***************************************************************************)
(* The inductive invariant behind OneHistory, AnchorHeld and SavedRatchet. *)
(* Between a rollback answered by a larger head and the proof that the     *)
(* tree served first belongs to that head's history, older links are       *)
(* prefixes of the tree served first only: target stands in for latest.    *)
(***************************************************************************)
Active == {"anchor", "ready"} \cup Linking

LatestIsLinked ==
  pc \in Active => latest \in Note /\ latest.signed /\ IsLinked(latest)

LinkedBySize == \A n \in DOMAIN bySize : Len(bySize[n]) = n

LinkedToLatestOrTarget ==
  pc \in Active =>
    \A n \in DOMAIN bySize :
      \/ Extends(latest.tree, bySize[n])
      \/ /\ pc \in Linking /\ ~anchored
         /\ n # Len(target.tree) /\ Extends(target.tree, bySize[n])

IsTodo(t) == \E i \in DOMAIN todo : todo[i].tree = t

RequiredAccounted ==
  pc \in {"fetch"} \cup Active /\ ~anchored =>
    \A r \in required :
      \/ IsTodo(r)
      \/ pc \in Linking /\ r = target.tree
      \/ pc \in Active /\ Len(r) \in DOMAIN bySize /\ bySize[Len(r)] = r

AnchoredHolds ==
  /\ pc \in {"fetch", "anchor"} => ~anchored
  /\ pc = "ready" => anchored
  /\ IF anchored
     THEN /\ latest \in Note
          /\ anchor = latest.tree
          /\ \A r \in required : Extends(latest.tree, r)
          /\ \A n \in DOMAIN bySize : Extends(latest.tree, bySize[n])
     ELSE anchor = saved

SavedIsRequired == pc # "idle" /\ saved # NoTree => saved \in required

IdleIsClean == pc = "idle" => ~anchored

TargetFits ==
  /\ pc \in Linking =>
       target \in Note /\ (target.signed \/ Len(target.tree) <= Len(latest.tree))
  /\ pc \in {"nested", "prove"} =>
       /\ ahead \in Answers
       /\ round < MaxRelateAttempts
       /\ Len(target.tree) \notin DOMAIN bySize
       /\ Len(target.tree) <= Len(latest.tree)
  /\ pc = "nested" => Len(ahead.tree) > Len(latest.tree)

Inv ==
  /\ TypeOK
  /\ LatestIsLinked /\ LinkedBySize /\ LinkedToLatestOrTarget
  /\ RequiredAccounted /\ AnchoredHolds /\ SavedIsRequired /\ IdleIsClean /\ TargetFits

\* A pass that a log keeps answering, however it answers, gets out of link.
LinkReturns == pc \in Linking ~> pc \notin Linking

\* A pass promises no more and no less than a view of the log that only grows.
View == INSTANCE LogView WITH
  head <- IF anchored THEN latest.tree ELSE NoTree,
  kept <- saved

ImplementsView == View!Spec
==================================================================================
