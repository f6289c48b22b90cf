------------------------------ MODULE SessionProofs ------------------------------
(***************************************************************************)
(* Proofs that hold for every set of trees, number of rounds and list of   *)
(* baselines: the type invariant of Session, OneHistory, AnchorHeld,       *)
(* CommitsAsItAdvances and SavedRatchet, from the inductive invariant Inv, *)
(* and that a session implements the abstract view of a log that grows.    *)
(* Then, of a session with an honest log: it is a session, and neither     *)
(* accused nor given up on without cause.                                  *)
(***************************************************************************)
EXTENDS HonestLog, TLAPS

(***************************************************************************)
(* Extends is a partial order on trees, and trees of one size that some    *)
(* tree extends are equal.                                                 *)
(***************************************************************************)

\* A tree extends itself (VerifyConsistency between equal checkpoints).
LEMMA ExtendsReflexive ==
  ASSUME NEW t \in Tree
  PROVE  Extends(t, t)
BY TreesAreSequences DEF Extends

\* Consistency proofs chain: what a prefix extends, the whole tree extends.
LEMMA ExtendsTransitive ==
  ASSUME NEW a \in Tree, NEW b \in Tree, NEW c \in Tree,
         Extends(a, b), Extends(b, c)
  PROVE  Extends(a, c)
<1>1. a \in Seq(Leaf) /\ b \in Seq(Leaf) /\ c \in Seq(Leaf)
  BY TreesAreSequences
<1>2. Len(a) \in Nat /\ Len(b) \in Nat /\ Len(c) \in Nat
  BY <1>1
<1> QED
  BY <1>2 DEF Extends

\* A tree of the same size that is a prefix is the tree itself.
LEMMA ExtendsSameSize ==
  ASSUME NEW a \in Tree, NEW b \in Tree, Extends(a, b), Len(a) = Len(b)
  PROVE  a = b
<1>1. a \in Seq(Leaf) /\ b \in Seq(Leaf)
  BY TreesAreSequences
<1>2. \A i \in 1..Len(b) : a[i] = b[i]
  BY DEF Extends
<1> QED
  BY <1>1, <1>2

\* A prefix is no longer than the tree.
LEMMA ExtendsLen ==
  ASSUME NEW a \in Tree, NEW b \in Tree, Extends(a, b)
  PROVE  Len(b) <= Len(a)
BY DEF Extends

\* The size of a tree is a natural number.
LEMMA LenNat == \A t \in Tree : Len(t) \in Nat
BY TreesAreSequences

\* Every tree extends the empty tree.
LEMMA ExtendsEmpty ==
  ASSUME NEW a \in Tree, NEW b \in Tree, Len(b) = 0
  PROVE  Extends(a, b)
BY TreesAreSequences DEF Extends
----------------------------------------------------------------------------------
\* The shape of a partial map from sizes to trees.
LEMMA PartialShape ==
  ASSUME NEW f \in PartialOn(Tree)
  PROVE  /\ f = [n \in DOMAIN f |-> f[n]]
         /\ \A n \in DOMAIN f : f[n] \in Tree /\ n \in {Len(t) : t \in Tree}
BY DEF PartialOn

\* Elements of a sequence have the type of the sequence.
LEMMA SeqShape ==
  ASSUME NEW S, NEW s \in Seq(S)
  PROVE  DOMAIN s = 1..Len(s) /\ \A i \in DOMAIN s : s[i] \in S
OBVIOUS

\* The empty map is a partial map.
LEMMA NoneShape == NoneLinked \in PartialOn(Tree) /\ DOMAIN NoneLinked = {}
<1>1. NoneLinked \in [{} -> Tree] /\ DOMAIN NoneLinked = {}
  BY DEF NoneLinked
<1>2. {} \in SUBSET {Len(u) : u \in Tree}
  OBVIOUS
<1> QED
  BY <1>1, <1>2 DEF PartialOn

\* A map of one size is a partial map.
LEMMA SingleShape ==
  ASSUME NEW t \in Tree
  PROVE  [n \in {Len(t)} |-> t] \in PartialOn(Tree)
<1>1. [n \in {Len(t)} |-> t] \in [{Len(t)} -> Tree]
  OBVIOUS
<1>2. {Len(t)} \in SUBSET {Len(u) : u \in Tree}
  OBVIOUS
<1> QED
  BY <1>1, <1>2 DEF PartialOn

\* Linking a size keeps the map a partial map, and changes that size alone.
LEMMA PutShape ==
  ASSUME NEW f \in PartialOn(Tree), NEW t \in Tree
  PROVE  /\ Put(f, Len(t), t) \in PartialOn(Tree)
         /\ DOMAIN Put(f, Len(t), t) = DOMAIN f \cup {Len(t)}
         /\ Put(f, Len(t), t)[Len(t)] = t
         /\ \A n \in DOMAIN f : n # Len(t) => Put(f, Len(t), t)[n] = f[n]
<1> DEFINE g == Put(f, Len(t), t)
<1> DEFINE D == DOMAIN f \cup {Len(t)}
<1>1. \A n \in DOMAIN f : f[n] \in Tree /\ n \in {Len(u) : u \in Tree}
  BY PartialShape
<1>2. g \in [D -> Tree]
  BY <1>1 DEF Put
<1>3. D \in SUBSET {Len(u) : u \in Tree}
  BY <1>1
<1> QED
  BY <1>2, <1>3 DEF Put, PartialOn

\* Dropping a size from a partial map leaves a partial map.
LEMMA DropShape ==
  ASSUME NEW f \in PartialOn(Tree), NEW m
  PROVE  [n \in DOMAIN f \ {m} |-> f[n]] \in PartialOn(Tree)
<1>1. \A n \in DOMAIN f : f[n] \in Tree /\ n \in {Len(u) : u \in Tree}
  BY PartialShape
<1>2. [n \in DOMAIN f \ {m} |-> f[n]] \in [DOMAIN f \ {m} -> Tree]
  BY <1>1
<1>3. DOMAIN f \ {m} \in SUBSET {Len(u) : u \in Tree}
  BY <1>1
<1> QED
  BY <1>2, <1>3 DEF PartialOn
----------------------------------------------------------------------------------
(***************************************************************************)
(* The initial state and the steps that begin and end a pass.              *)
(***************************************************************************)

\* The invariant holds before the first pass.
LEMMA InitInv == Init => Inv
<1> SUFFICES ASSUME Init PROVE Inv
  OBVIOUS
<1> USE DEF Init, Idle
<1>1. NoneLinked \in PartialOn(Tree) /\ DOMAIN NoneLinked = {}
  BY NoneShape
<1>2. TypeOK
  <2>1. <<>> \in Seq(Note) /\ 0 \in 0..MaxRelateAttempts /\ {} \in SUBSET (Note \X Note)
    BY AttemptsAssumption
  <2> QED
    BY <1>1, <2>1 DEF TypeOK
<1>3. LatestIsLinked /\ LinkedBySize /\ LinkedToLatestOrTarget /\ IdleIsClean
  BY <1>1 DEF LatestIsLinked, LinkedBySize, LinkedToLatestOrTarget, IdleIsClean,
              Active, Linking
<1>4. RequiredAccounted /\ AnchoredHolds /\ SavedIsRequired /\ TargetFits
  BY DEF RequiredAccounted, AnchoredHolds, SavedIsRequired, TargetFits, Active, Linking
<1> QED
  BY <1>2, <1>3, <1>4 DEF Inv

\* Leaving a pass clears the session, whatever is kept of it.
LEMMA LeaveInv ==
  ASSUME saved' \in Tree \cup {NoTree}, Leave
  PROVE  Inv'
<1> USE DEF Leave
<1>1. NoneLinked \in PartialOn(Tree) /\ DOMAIN NoneLinked = {}
  BY NoneShape
<1>2. TypeOK'
  <2>1. <<>> \in Seq(Note) /\ 0 \in 0..MaxRelateAttempts /\ {} \in SUBSET (Note \X Note)
    BY AttemptsAssumption
  <2> QED
    BY <1>1, <2>1 DEF TypeOK
<1>3. LatestIsLinked' /\ LinkedBySize' /\ LinkedToLatestOrTarget' /\ IdleIsClean'
  BY <1>1 DEF LatestIsLinked, LinkedBySize, LinkedToLatestOrTarget, IdleIsClean,
              Active, Linking
<1>4. RequiredAccounted' /\ AnchoredHolds' /\ SavedIsRequired' /\ TargetFits'
  BY DEF RequiredAccounted, AnchoredHolds, SavedIsRequired, TargetFits, Active, Linking
<1> QED
  BY <1>2, <1>3, <1>4 DEF Inv

\* Ending a pass touches nothing but the verdict.
LEMMA EndInv ==
  ASSUME Inv, pc # "idle",
         NEW how \in {"none", "ok"} \cup Unfinished \cup Findings,
         NEW shown \in SUBSET (Note \X Note),
         End(how, shown)
  PROVE  Inv'
<1> USE DEF Inv, End, session
<1>1. TypeOK'
  BY DEF TypeOK
<1>2. LatestIsLinked' /\ LinkedBySize' /\ LinkedToLatestOrTarget' /\ IdleIsClean'
  BY DEF LatestIsLinked, LinkedBySize, LinkedToLatestOrTarget, IdleIsClean, Active, Linking
<1>3. RequiredAccounted' /\ SavedIsRequired' /\ TargetFits'
  BY DEF RequiredAccounted, SavedIsRequired, TargetFits, Active, Linking
<1>4. AnchoredHolds'
  BY DEF AnchoredHolds
<1> QED
  BY <1>1, <1>2, <1>3, <1>4

\* Loading the state and the baselines: every required tree is still to do.
LEMMA BeginInv ==
  ASSUME Inv, NEW baselines \in Baselines, Begin(baselines)
  PROVE  Inv'
<1> USE DEF Inv, Begin
<1>1. baselines \in Seq(Note)
  BY BaselinesAssumption DEF Baselines, Baseline
<1>2. todo' \in Seq(Note)
  <2>1. CASE saved = NoTree
    BY <1>1, <2>1
  <2>2. CASE saved # NoTree
    <3>1. Signed(saved) \in Note
      BY <2>2 DEF TypeOK, Signed, Note
    <3>2. <<Signed(saved)>> \in Seq(Note)
      BY <3>1
    <3> QED
      BY <1>1, <2>2, <3>2
  <2> QED
    BY <2>1, <2>2
<1>3. \A i \in DOMAIN todo' : todo'[i].tree \in Tree
  <2>1. \A i \in DOMAIN todo' : todo'[i] \in Note
    BY <1>2, SeqShape
  <2> QED
    BY <2>1 DEF Note
<1>4. TypeOK'
  BY <1>2, <1>3 DEF TypeOK, Linking
<1>5. saved # NoTree => saved \in required'
  <2> SUFFICES ASSUME saved # NoTree PROVE saved \in required'
    OBVIOUS
  <2>1. 1 \in DOMAIN todo' /\ todo'[1] = Signed(saved)
    BY <1>1 DEF TypeOK, Note, Signed
  <2> QED
    BY <2>1 DEF Signed
<1>6. LatestIsLinked' /\ LinkedBySize' /\ LinkedToLatestOrTarget' /\ IdleIsClean'
  BY DEF LatestIsLinked, LinkedBySize, LinkedToLatestOrTarget, IdleIsClean, Active, Linking
<1>7. RequiredAccounted' /\ SavedIsRequired' /\ TargetFits'
  BY <1>5 DEF RequiredAccounted, IsTodo, SavedIsRequired, TargetFits, Active, Linking
<1>8. AnchoredHolds'
  BY DEF AnchoredHolds, IdleIsClean
<1> QED
  BY <1>4, <1>6, <1>7, <1>8

\* The first checkpoint is linked on its signature alone.
LEMMA FetchInv ==
  ASSUME Inv, NEW t \in Tree, Fetch(t)
  PROVE  Inv'
<1> USE DEF Inv, Fetch
<1>1. bySize' \in PartialOn(Tree) /\ noteBySize' \in PartialOn(Tree)
  BY SingleShape
<1>2. DOMAIN bySize' = {Len(t)} /\ bySize'[Len(t)] = t
  OBVIOUS
<1>3. latest' \in Note /\ latest'.signed /\ latest'.tree = t
  BY DEF Signed, Note
<1>4. TypeOK'
  BY <1>1, <1>3 DEF TypeOK
<1>5. LatestIsLinked' /\ LinkedBySize' /\ IdleIsClean'
  BY <1>2, <1>3 DEF LatestIsLinked, LinkedBySize, IdleIsClean, IsLinked
<1>6. LinkedToLatestOrTarget'
  BY <1>2, <1>3, ExtendsReflexive DEF LinkedToLatestOrTarget
<1>7. RequiredAccounted' /\ SavedIsRequired' /\ TargetFits'
  BY DEF RequiredAccounted, IsTodo, SavedIsRequired, TargetFits, Active, Linking
<1>8. AnchoredHolds'
  BY DEF AnchoredHolds
<1> QED
  BY <1>4, <1>5, <1>6, <1>7, <1>8
----------------------------------------------------------------------------------
(***************************************************************************)
(* What the steps of link do to the linked checkpoints: nothing, link the  *)
(* target, or move latest.  Held is the invariant without TypeOK and       *)
(* TargetFits, which the actions settle one by one.                        *)
(***************************************************************************)
Held ==
  /\ LatestIsLinked /\ LinkedBySize /\ LinkedToLatestOrTarget
  /\ RequiredAccounted /\ AnchoredHolds /\ SavedIsRequired /\ IdleIsClean

\* A round that links nothing disturbs nothing.
LEMMA RoundHeld ==
  ASSUME Inv, pc \in Linking, pc' \in Linking, UNCHANGED <<saved, anchor, session, target>>
  PROVE  Held'
<1> USE DEF Inv, session, Linking, Active
<1>1. LatestIsLinked' /\ LinkedBySize' /\ LinkedToLatestOrTarget' /\ IdleIsClean'
  BY DEF LatestIsLinked, LinkedBySize, LinkedToLatestOrTarget, IdleIsClean, IsLinked
<1>2. RequiredAccounted' /\ AnchoredHolds' /\ SavedIsRequired'
  BY DEF RequiredAccounted, AnchoredHolds, SavedIsRequired, IsTodo
<1> QED
  BY <1>1, <1>2 DEF Held

\* latest is a linked tree, and its size a number, while link runs.
LEMMA LatestShape ==
  ASSUME Inv, pc \in Active
  PROVE  /\ latest.tree \in Tree /\ Len(latest.tree) \in Nat /\ latest.signed
         /\ Len(latest.tree) \in DOMAIN bySize /\ bySize[Len(latest.tree)] = latest.tree
BY LenNat DEF Inv, LatestIsLinked, IsLinked, Note

\* The target is a tree, and its size a number, while link runs.
LEMMA TargetShape ==
  ASSUME Inv, pc \in Linking
  PROVE  target \in Note /\ target.tree \in Tree /\ Len(target.tree) \in Nat
BY LenNat DEF Inv, TargetFits, Note

\* The maps stay partial maps when a checkpoint is remembered.
LEMMA RememberShape ==
  ASSUME TypeOK, NEW c \in Note, Remember(c)
  PROVE  /\ bySize' \in PartialOn(Tree) /\ noteBySize' \in PartialOn(Tree)
         /\ DOMAIN bySize' = DOMAIN bySize \cup {Len(c.tree)}
         /\ bySize'[Len(c.tree)] = c.tree
         /\ \A n \in DOMAIN bySize : n # Len(c.tree) => bySize'[n] = bySize[n]
<1>1. c.tree \in Tree
  BY DEF Note
<1>2. bySize \in PartialOn(Tree) /\ noteBySize \in PartialOn(Tree)
  BY DEF TypeOK
<1> QED
  BY <1>1, <1>2, PutShape DEF Remember, RememberIn

\* Linking a target that latest extends keeps the history one.
LEMMA LinkHeld ==
  ASSUME Inv, pc \in Linking, pc' = "link",
         Len(target.tree) \notin DOMAIN bySize, Extends(latest.tree, target.tree),
         Remember(target),
         UNCHANGED <<saved, anchor, required, latest, anchored, todo, target>>
  PROVE  Held'
<1>1. pc \in Active /\ pc' \in Linking /\ pc' \in Active
  BY DEF Active, Linking
<1>2. target \in Note /\ target.tree \in Tree
  BY TargetShape
<1>3. /\ DOMAIN bySize' = DOMAIN bySize \cup {Len(target.tree)}
      /\ bySize'[Len(target.tree)] = target.tree
      /\ \A n \in DOMAIN bySize : n # Len(target.tree) => bySize'[n] = bySize[n]
  BY <1>2, RememberShape DEF Inv
<1>4. LatestIsLinked'
  BY <1>1, <1>3 DEF Inv, LatestIsLinked, IsLinked
<1>5. LinkedBySize' /\ IdleIsClean'
  BY <1>3 DEF Inv, LinkedBySize, IdleIsClean
<1>6. LinkedToLatestOrTarget'
  BY <1>1, <1>3 DEF Inv, LinkedToLatestOrTarget
<1>7. RequiredAccounted'
  BY <1>1, <1>3 DEF Inv, RequiredAccounted, IsTodo
<1>8. SavedIsRequired'
  BY DEF Inv, SavedIsRequired, Linking
<1>9. AnchoredHolds'
  BY <1>3 DEF Inv, AnchoredHolds
<1> QED
  BY <1>4, <1>5, <1>6, <1>7, <1>8, <1>9 DEF Held

\* Moving latest to a signed head that extends it keeps the history one, and the
\* state's anchor follows.
LEMMA GrowHeld ==
  ASSUME Inv, pc \in Linking, pc' \in Linking,
         NEW c \in Note, c.signed, ~Forks(c), Extends(c.tree, latest.tree),
         SetLatest(c),
         UNCHANGED <<saved, required, anchored, todo, target>>
  PROVE  Held' /\ anchor' \in Tree \cup {NoTree}
<1>1. pc \in Active /\ pc' \in Active /\ pc # "idle" /\ pc' # "idle" /\ pc' # "ready"
      /\ pc' \notin {"fetch", "anchor"} /\ pc \notin {"fetch", "anchor"}
  BY DEF Active, Linking
<1>2. c.tree \in Tree /\ latest.tree \in Tree
  BY <1>1, LatestShape DEF Note
<1>3. /\ DOMAIN bySize' = DOMAIN bySize \cup {Len(c.tree)}
      /\ bySize'[Len(c.tree)] = c.tree
      /\ \A n \in DOMAIN bySize : bySize'[n] = bySize[n]
  <2>1. \A n \in DOMAIN bySize : n = Len(c.tree) => bySize[n] = c.tree
    BY DEF Forks
  <2> QED
    BY <2>1, RememberShape DEF Inv, SetLatest
<1>4. \A n \in DOMAIN bySize : bySize[n] \in Tree
  BY PartialShape DEF Inv, TypeOK
<1>5. \A t \in Tree : Extends(latest.tree, t) => Extends(c.tree, t)
  BY <1>2, ExtendsTransitive
<1>6. latest' = c
  BY DEF SetLatest
<1>7. LatestIsLinked'
  BY <1>3, <1>6 DEF LatestIsLinked, IsLinked
<1>8. LinkedBySize' /\ IdleIsClean'
  BY <1>1, <1>3 DEF Inv, LinkedBySize, IdleIsClean
<1>9. LinkedToLatestOrTarget'
  <2> SUFFICES ASSUME NEW n \in DOMAIN bySize'
               PROVE  \/ Extends(c.tree, bySize'[n])
                      \/ /\ ~anchored /\ n # Len(target.tree)
                         /\ Extends(target.tree, bySize'[n])
    BY <1>6 DEF LinkedToLatestOrTarget
  <2>1. CASE n = Len(c.tree)
    BY <1>2, <1>3, <2>1, ExtendsReflexive
  <2>2. CASE n \in DOMAIN bySize
    BY <1>1, <1>3, <1>4, <1>5, <2>2 DEF Inv, LinkedToLatestOrTarget
  <2> QED
    BY <1>3, <2>1, <2>2
<1>10. RequiredAccounted' /\ SavedIsRequired'
  BY <1>1, <1>3 DEF Inv, RequiredAccounted, SavedIsRequired, IsTodo
<1>11. AnchoredHolds' /\ anchor' \in Tree \cup {NoTree}
  <2>1. CASE anchored
    <3>1. anchor' = c.tree
      BY <2>1 DEF SetLatest, CommitOf
    <3>2. \A r \in required : Extends(c.tree, r)
      BY <1>5, <2>1 DEF Inv, AnchoredHolds, TypeOK
    <3>3. \A n \in DOMAIN bySize' : Extends(c.tree, bySize'[n])
      BY <1>2, <1>3, <1>4, <1>5, <2>1, ExtendsReflexive DEF Inv, AnchoredHolds
    <3> QED
      BY <1>1, <1>2, <1>6, <2>1, <3>1, <3>2, <3>3 DEF AnchoredHolds
  <2>2. CASE ~anchored
    BY <1>1, <2>2 DEF Inv, AnchoredHolds, SetLatest, TypeOK
  <2> QED
    BY <2>1, <2>2
<1> QED
  BY <1>7, <1>8, <1>9, <1>10, <1>11 DEF Held
----------------------------------------------------------------------------------
(***************************************************************************)
(* The actions of link.                                                    *)
(***************************************************************************)

\* Signed notes for trees are notes.
LEMMA SignedShape == \A t \in Tree : Signed(t) \in Note /\ Signed(t).tree = t /\ Signed(t).signed
BY DEF Signed, Note

\* Going another round from a round that was allowed keeps the rest of the type.
LEMMA NextRoundType ==
  ASSUME TypeOK, round < MaxRelateAttempts, NextRound,
         UNCHANGED <<saved, required, anchored, todo>>,
         anchor' \in Tree \cup {NoTree}, latest' \in Note,
         bySize' \in PartialOn(Tree), noteBySize' \in PartialOn(Tree)
  PROVE  TypeOK'
<1>1. round' \in 0..MaxRelateAttempts
  BY AttemptsAssumption DEF TypeOK, NextRound
<1> QED
  BY <1>1 DEF TypeOK, NextRound, Linking

\* link finds the target linked and returns to start or to the pass.
LEMMA LinkReturnInv ==
  ASSUME Inv, LinkReturn
  PROVE  Inv'
<1> USE DEF LinkReturn, session
<1>1. pc \in Active /\ pc \in Linking /\ pc # "idle" /\ pc' # "idle" /\ pc' \notin Linking
  BY DEF Active, Linking, LinkReturnsTo
<1>2. /\ latest.tree \in Tree
      /\ target.tree \in Tree
      /\ \A n \in DOMAIN bySize : bySize[n] \in Tree
  BY <1>1, LatestShape, TargetShape, PartialShape DEF Inv, TypeOK
<1>3. Extends(latest.tree, target.tree)
  BY DEF Inv, LinkedToLatestOrTarget, IsLinked, Active, Linking
<1>4. \A n \in DOMAIN bySize : Extends(latest.tree, bySize[n])
  BY <1>1, <1>2, <1>3, ExtendsTransitive DEF Inv, LinkedToLatestOrTarget
<1>5. TypeOK'
  BY AttemptsAssumption DEF Inv, TypeOK, LinkReturnsTo
<1>6. LatestIsLinked' /\ LinkedBySize' /\ IdleIsClean'
  BY <1>1 DEF Inv, LatestIsLinked, LinkedBySize, IdleIsClean, IsLinked
<1>7. LinkedToLatestOrTarget'
  BY <1>4 DEF LinkedToLatestOrTarget
<1>8. RequiredAccounted'
  BY <1>1 DEF Inv, RequiredAccounted, IsTodo, IsLinked, Active, LinkReturnsTo
<1>9. AnchoredHolds'
  BY <1>1 DEF Inv, AnchoredHolds, LinkReturnsTo
<1>10. SavedIsRequired' /\ TargetFits'
  BY <1>1 DEF Inv, SavedIsRequired, TargetFits, Linking
<1> QED
  BY <1>5, <1>6, <1>7, <1>8, <1>9, <1>10 DEF Inv

\* Every tree extends the empty tree, so the target becomes latest at once.
LEMMA AdvanceFromEmptyInv ==
  ASSUME Inv, AdvanceFromEmpty
  PROVE  Inv'
<1>1. pc \in Linking /\ pc' \in Linking /\ pc \in Active /\ pc' = "link" /\ round < MaxRelateAttempts
  BY DEF AdvanceFromEmpty, IsAdvance, Rounding, Unlinked, NextRound, Linking, Active
<1>2. target \in Note /\ target.signed /\ target.tree \in Tree /\ latest.tree \in Tree
  BY <1>1, TargetShape, LatestShape DEF Inv, TargetFits, AdvanceFromEmpty, IsAdvance
<1>3. ~Forks(target) /\ Extends(target.tree, latest.tree)
  BY <1>2, ExtendsEmpty DEF AdvanceFromEmpty, IsAdvance, Rounding, Unlinked, Forks
<1>4. SetLatest(target) /\ UNCHANGED <<saved, required, anchored, todo, target>>
  BY DEF AdvanceFromEmpty, NextRound
<1>5. Held' /\ anchor' \in Tree \cup {NoTree}
  BY <1>1, <1>2, <1>3, <1>4, GrowHeld
<1>6. bySize' \in PartialOn(Tree) /\ noteBySize' \in PartialOn(Tree) /\ latest' = target
  BY <1>2, <1>4, RememberShape DEF SetLatest, Inv
<1>7. TypeOK'
  BY <1>1, <1>2, <1>4, <1>5, <1>6, NextRoundType DEF Inv, AdvanceFromEmpty
<1>8. TargetFits'
  BY <1>1, <1>2, <1>4 DEF TargetFits
<1> QED
  BY <1>5, <1>7, <1>8 DEF Inv, Held

\* latest moves to a head at or past the target.
LEMMA AdvanceInv ==
  ASSUME Inv, NEW t \in Tree, NEW proof \in BOOLEAN, Advance(Signed(t), proof)
  PROVE  Inv'
<1>1. pc \in Linking /\ pc' \in Linking /\ pc \in Active /\ pc' = "link" /\ round < MaxRelateAttempts
  BY DEF Advance, AsksAdvance, IsAdvance, Rounding, Unlinked, NextRound, Linking, Active
<1>2. target \in Note /\ target.signed
  BY <1>1, TargetShape, LatestShape DEF Inv, TargetFits, Advance, AsksAdvance, IsAdvance
<1>3. ~Forks(Signed(t)) /\ Extends(t, latest.tree) /\ Signed(t) \in Note /\ Signed(t).signed /\ Signed(t).tree = t
  BY SignedShape DEF Advance, VerifyConsistency
<1>4. SetLatest(Signed(t)) /\ UNCHANGED <<saved, required, anchored, todo, target>>
  BY DEF Advance, NextRound
<1>5. Held' /\ anchor' \in Tree \cup {NoTree}
  BY <1>1, <1>3, <1>4, GrowHeld
<1>6. bySize' \in PartialOn(Tree) /\ noteBySize' \in PartialOn(Tree) /\ latest' = Signed(t)
  BY <1>3, <1>4, RememberShape DEF SetLatest, Inv
<1>7. TypeOK'
  BY <1>1, <1>3, <1>4, <1>5, <1>6, NextRoundType DEF Inv, Advance
<1>8. TargetFits'
  BY <1>1, <1>2, <1>4 DEF TargetFits
<1> QED
  BY <1>5, <1>7, <1>8 DEF Inv, Held

\* The empty tree is a prefix of every tree.
LEMMA PrefixEmptyInv ==
  ASSUME Inv, PrefixEmpty
  PROVE  Inv'
<1>1. pc \in Linking /\ pc \in Active /\ pc' = "link" /\ round < MaxRelateAttempts
      /\ Len(target.tree) \notin DOMAIN bySize
  BY DEF PrefixEmpty, IsProvePrefix, Rounding, Unlinked, NextRound, Linking, Active
<1>2. target \in Note /\ target.tree \in Tree /\ latest.tree \in Tree /\ latest \in Note
  BY <1>1, TargetShape, LatestShape DEF Inv, LatestIsLinked
<1>3. Extends(latest.tree, target.tree)
  BY <1>2, ExtendsEmpty DEF PrefixEmpty
<1>4. Remember(target) /\ UNCHANGED <<saved, anchor, required, latest, anchored, todo, target>>
  BY DEF PrefixEmpty, NextRound
<1>5. Held'
  BY <1>1, <1>3, <1>4, LinkHeld
<1>6. bySize' \in PartialOn(Tree) /\ noteBySize' \in PartialOn(Tree)
  BY <1>2, <1>4, RememberShape DEF Inv
<1>7. TypeOK'
  BY <1>1, <1>2, <1>4, <1>6, NextRoundType DEF Inv, PrefixEmpty, TypeOK
<1>8. TargetFits'
  BY <1>1, <1>2, <1>4 DEF TargetFits, Linking, Inv
<1> QED
  BY <1>5, <1>7, <1>8 DEF Inv, Held

\* A lagging answer costs a round and nothing else.
LEMMA AdvanceLagsInv ==
  ASSUME Inv, NEW t \in Tree, AdvanceLags(Signed(t))
  PROVE  Inv'
<1>1. pc \in Linking /\ pc \in Active /\ pc' = "link" /\ pc' \in Linking /\ round < MaxRelateAttempts
  BY DEF AdvanceLags, AsksAdvance, IsAdvance, Rounding, Unlinked, NextRound, Linking, Active
<1>2. UNCHANGED <<saved, anchor, session, target>>
  BY DEF AdvanceLags, NextRound
<1>3. Held'
  BY <1>1, <1>2, RoundHeld
<1>4. TypeOK'
  BY <1>1, <1>2, NextRoundType DEF Inv, AdvanceLags, session, TypeOK, LatestIsLinked
<1>5. TargetFits'
  BY <1>1, <1>2 DEF Inv, TargetFits, session, Linking
<1> QED
  BY <1>3, <1>4, <1>5 DEF Inv, Held

\* So does an answer that latest has passed by the time it is compared.
LEMMA ProveLagsInv ==
  ASSUME Inv, ProveLags
  PROVE  Inv'
<1>1. pc \in Linking /\ pc \in Active /\ pc' = "link" /\ pc' \in Linking /\ round < MaxRelateAttempts
  BY DEF ProveLags, NextRound, Linking, Active, Inv, TargetFits
<1>2. UNCHANGED <<saved, anchor, session, target>>
  BY DEF ProveLags, NextRound
<1>3. Held'
  BY <1>1, <1>2, RoundHeld
<1>4. TypeOK'
  BY <1>1, <1>2, NextRoundType DEF Inv, ProveLags, session, TypeOK, LatestIsLinked
<1>5. TargetFits'
  BY <1>1, <1>2 DEF Inv, TargetFits, session, Linking
<1> QED
  BY <1>3, <1>4, <1>5 DEF Inv, Held

\* provePrefix holds its answer: the target is still unlinked.
LEMMA PrefixAnsweredInv ==
  ASSUME Inv, NEW t \in Tree, NEW proof \in BOOLEAN, PrefixAnswered(Signed(t), proof)
  PROVE  Inv'
<1> USE DEF PrefixAnswered
<1>1. pc = "link" /\ pc \in Linking /\ pc \in Active /\ pc' \in {"nested", "prove"} /\ pc' \in Linking
  BY DEF AsksPrefix, IsProvePrefix, Rounding, Unlinked, Linking, Active
<1>2. UNCHANGED <<saved, anchor, session, target>>
  OBVIOUS
<1>3. Held'
  BY <1>1, <1>2, RoundHeld
<1>4. ahead' \in Answers /\ ahead'.tree = t
  BY SignedShape DEF Answers
<1>5. TypeOK'
  BY <1>1, <1>2, <1>4 DEF Inv, TypeOK, session
<1>6. TargetFits'
  <2>1. target \in Note /\ (target.signed \/ Len(target.tree) <= Len(latest.tree))
    BY <1>1 DEF Inv, TargetFits
  <2>2. /\ round < MaxRelateAttempts /\ Len(target.tree) \notin DOMAIN bySize
        /\ Len(target.tree) <= Len(latest.tree)
    BY DEF AsksPrefix, IsProvePrefix, Rounding, Unlinked
  <2>3. pc' = "nested" => Len(t) > Len(latest.tree)
    BY SignedShape
  <2> QED
    BY <1>2, <1>4, <2>1, <2>2, <2>3 DEF TargetFits, session
<1> QED
  BY <1>3, <1>5, <1>6 DEF Inv, Held

\* advance, called with the held answer's head, was answered from behind it.
LEMMA NestedLagsInv ==
  ASSUME Inv, NEW t \in Tree, NestedLags(Signed(t))
  PROVE  Inv'
<1> USE DEF NestedLags
<1>1. pc \in Linking /\ pc' \in Linking
  BY DEF Linking
<1>2. Held'
  BY <1>1, RoundHeld
<1>3. TypeOK'
  BY <1>1 DEF Inv, TypeOK, session
<1>4. TargetFits'
  BY <1>1 DEF Inv, TargetFits, session
<1> QED
  BY <1>2, <1>3, <1>4 DEF Inv, Held

\* latest moves up while the answer is held; the target's size stays unlinked,
\* for the new head is larger than the target.
LEMMA NestedAdvanceInv ==
  ASSUME Inv, NEW t \in Tree, NEW proof \in BOOLEAN, NestedAdvance(Signed(t), proof)
  PROVE  Inv'
<1> USE DEF NestedAdvance
<1>1. pc \in Linking /\ pc' \in Linking /\ pc \in Active /\ pc' = "prove"
  BY DEF Linking, Active
<1>2. Signed(t) \in Note /\ Signed(t).signed /\ Signed(t).tree = t
  BY SignedShape
<1>3. Extends(t, latest.tree)
  BY <1>2 DEF VerifyConsistency
<1>4. Held' /\ anchor' \in Tree \cup {NoTree}
  BY <1>1, <1>2, <1>3, GrowHeld
<1>5. /\ bySize' \in PartialOn(Tree) /\ noteBySize' \in PartialOn(Tree) /\ latest' = Signed(t)
      /\ DOMAIN bySize' = DOMAIN bySize \cup {Len(t)}
  BY <1>2, RememberShape DEF SetLatest, Inv
<1>6. TypeOK'
  BY <1>1, <1>2, <1>4, <1>5 DEF Inv, TypeOK
<1>7. TargetFits'
  <2>1. /\ target \in Note /\ round < MaxRelateAttempts /\ ahead \in Answers
        /\ Len(target.tree) \notin DOMAIN bySize
        /\ Len(target.tree) <= Len(latest.tree)
        /\ Len(ahead.tree) > Len(latest.tree)
    BY <1>1 DEF Inv, TargetFits
  <2>2. /\ Len(t) \in Nat /\ Len(target.tree) \in Nat /\ Len(ahead.tree) \in Nat
        /\ Len(latest.tree) \in Nat
    BY <1>1, <2>1, LenNat, LatestShape DEF Answers, Note
  <2>3. Len(target.tree) < Len(t)
    BY <1>2, <2>1, <2>2
  <2>4. Len(target.tree) \notin DOMAIN bySize' /\ Len(target.tree) <= Len(t)
    BY <1>5, <2>1, <2>2, <2>3
  <2> QED
    BY <1>1, <1>2, <1>5, <2>1, <2>4 DEF TargetFits
<1> QED
  BY <1>4, <1>6, <1>7 DEF Inv, Held

\* The target is proven a prefix of latest.
LEMMA ProveInv ==
  ASSUME Inv, Prove
  PROVE  Inv'
<1>1. pc \in Linking /\ pc \in Active /\ pc' = "link" /\ round < MaxRelateAttempts
      /\ Len(target.tree) \notin DOMAIN bySize
  BY DEF Prove, NextRound, Linking, Active, Inv, TargetFits
<1>2. target \in Note /\ latest \in Note
  BY <1>1, TargetShape DEF Inv, LatestIsLinked
<1>3. Extends(latest.tree, target.tree)
  BY DEF Prove, VerifyConsistency
<1>4. Remember(target) /\ UNCHANGED <<saved, anchor, required, latest, anchored, todo, target>>
  BY DEF Prove, NextRound
<1>5. Held'
  BY <1>1, <1>3, <1>4, LinkHeld
<1>6. bySize' \in PartialOn(Tree) /\ noteBySize' \in PartialOn(Tree)
  BY <1>2, <1>4, RememberShape DEF Inv
<1>7. TypeOK'
  BY <1>1, <1>2, <1>4, <1>6, NextRoundType DEF Inv, Prove, TypeOK
<1>8. TargetFits'
  BY <1>1, <1>2, <1>4 DEF TargetFits, Linking, Inv
<1> QED
  BY <1>5, <1>7, <1>8 DEF Inv, Held
----------------------------------------------------------------------------------
(***************************************************************************)
(* Anchoring the pass, and what it does once anchored.                     *)
(***************************************************************************)

\* Calling link with a signed checkpoint, or with one no larger than latest.
LEMMA StartLinkFits ==
  ASSUME NEW c \in Note, StartLink(c), c.signed \/ Len(c.tree) <= Len(latest'.tree)
  PROVE  TargetFits' /\ pc' = "link" /\ pc' \in Linking /\ target' = c
BY DEF StartLink, TargetFits, Linking

\* proveAppendOnly links the next checkpoint: it is accounted for by the target.
LEMMA AnchorLinkInv ==
  ASSUME Inv, AnchorLink
  PROVE  Inv'
<1> USE DEF AnchorLink
<1>1. pc \in Active /\ pc' \in Active /\ ~anchored /\ pc' = "link" /\ pc' \in Linking
  BY DEF Active, Linking, StartLink, Inv, AnchoredHolds
<1>2. todo \in Seq(Note) /\ Len(todo) \in Nat /\ Len(todo) > 0 /\ DOMAIN todo = 1..Len(todo)
  BY DEF Inv, TypeOK
<1>3. Head(todo) \in Note /\ Tail(todo) \in Seq(Note) /\ Head(todo) = todo[1]
  BY <1>2, SeqShape
<1>4. \A i \in DOMAIN todo : i # 1 => i - 1 \in DOMAIN Tail(todo) /\ Tail(todo)[i - 1] = todo[i]
  BY <1>2
<1>5. TargetFits' /\ target' = Head(todo)
  BY <1>3, StartLinkFits
<1>6. TypeOK'
  BY <1>3, AttemptsAssumption DEF Inv, TypeOK, StartLink, Linking
<1>7. LatestIsLinked' /\ LinkedBySize' /\ IdleIsClean'
  BY <1>1 DEF Inv, LatestIsLinked, LinkedBySize, IdleIsClean, IsLinked
<1>8. LinkedToLatestOrTarget'
  BY <1>1 DEF Inv, LinkedToLatestOrTarget, Linking
<1>9. RequiredAccounted'
  <2> SUFFICES ASSUME NEW r \in required
               PROVE  \/ IsTodo(r)' \/ r = target'.tree
                      \/ Len(r) \in DOMAIN bySize /\ bySize[Len(r)] = r
    BY <1>1 DEF RequiredAccounted
  <2>1. CASE IsTodo(r)
    BY <1>3, <1>4, <1>5, <2>1 DEF IsTodo
  <2>2. CASE ~IsTodo(r)
    BY <1>1, <2>2 DEF Inv, RequiredAccounted, Linking
  <2> QED
    BY <2>1, <2>2
<1>10. AnchoredHolds' /\ SavedIsRequired'
  BY <1>1 DEF Inv, AnchoredHolds, SavedIsRequired
<1> QED
  BY <1>5, <1>6, <1>7, <1>8, <1>9, <1>10 DEF Inv

\* Nothing is left to do: every required tree is linked, so latest extends it.
LEMMA AnchoredInv ==
  ASSUME Inv, Anchored
  PROVE  Inv'
<1> USE DEF Anchored
<1>1. pc \in Active /\ pc \notin Linking /\ ~anchored /\ pc' \in Active /\ pc' \notin Linking
  BY DEF Active, Linking, Inv, AnchoredHolds
<1>2. latest \in Note /\ latest.signed /\ latest.tree \in Tree
  BY <1>1, LatestShape DEF Inv, LatestIsLinked
<1>3. \A n \in DOMAIN bySize : Extends(latest.tree, bySize[n])
  BY <1>1 DEF Inv, LinkedToLatestOrTarget
<1>4. \A r \in required : ~IsTodo(r)
  BY DEF IsTodo
<1>5. \A r \in required : Extends(latest.tree, r)
  BY <1>1, <1>3, <1>4 DEF Inv, RequiredAccounted
<1>6. TypeOK'
  BY <1>2 DEF Inv, TypeOK, CommitOf
<1>7. AnchoredHolds'
  BY <1>2, <1>3, <1>5 DEF AnchoredHolds, CommitOf
<1>8. LatestIsLinked' /\ LinkedBySize' /\ LinkedToLatestOrTarget' /\ IdleIsClean'
  BY <1>1, <1>3 DEF Inv, LatestIsLinked, LinkedBySize, LinkedToLatestOrTarget, IdleIsClean, IsLinked
<1>9. RequiredAccounted' /\ SavedIsRequired' /\ TargetFits'
  BY <1>1 DEF Inv, RequiredAccounted, SavedIsRequired, TargetFits, Linking
<1> QED
  BY <1>6, <1>7, <1>8, <1>9 DEF Inv

\* relate links a checkpoint that came with a proof.
LEMMA RelateInv ==
  ASSUME Inv, NEW t \in Tree, Relate(t)
  PROVE  Inv'
<1> USE DEF Relate, session
<1>1. pc \in Active /\ anchored /\ pc' \in Active /\ pc' \in Linking /\ pc' = "link"
  BY DEF Active, Linking, StartLink, Inv, AnchoredHolds
<1>2. TargetFits'
  BY SignedShape, StartLinkFits
<1>3. TypeOK'
  BY SignedShape, AttemptsAssumption DEF Inv, TypeOK, StartLink, Linking
<1>4. LatestIsLinked' /\ LinkedBySize' /\ IdleIsClean'
  BY <1>1 DEF Inv, LatestIsLinked, LinkedBySize, IdleIsClean, IsLinked
<1>5. LinkedToLatestOrTarget' /\ RequiredAccounted'
  BY <1>1 DEF Inv, LinkedToLatestOrTarget, RequiredAccounted, AnchoredHolds
<1>6. AnchoredHolds' /\ SavedIsRequired'
  BY <1>1 DEF Inv, AnchoredHolds, SavedIsRequired
<1> QED
  BY <1>2, <1>3, <1>4, <1>5, <1>6 DEF Inv

\* The pass completes.
LEMMA FinishInv ==
  ASSUME Inv, Finish
  PROVE  Inv'
<1> USE DEF Finish, session
<1>1. pc \in Active /\ anchored /\ pc' \notin Active /\ latest.signed
  BY DEF Active, Linking, Inv, AnchoredHolds, LatestIsLinked
<1>2. TypeOK'
  BY <1>1, LatestShape DEF Inv, TypeOK, CommitOf
<1>3. LatestIsLinked' /\ LinkedBySize' /\ LinkedToLatestOrTarget' /\ IdleIsClean'
  BY <1>1 DEF Inv, LatestIsLinked, LinkedBySize, LinkedToLatestOrTarget, IdleIsClean
<1>4. RequiredAccounted' /\ SavedIsRequired' /\ TargetFits'
  BY <1>1 DEF Inv, RequiredAccounted, SavedIsRequired, TargetFits, Linking
<1>5. AnchoredHolds'
  BY <1>1 DEF Inv, AnchoredHolds, CommitOf
<1> QED
  BY <1>2, <1>3, <1>4, <1>5 DEF Inv

(***************************************************************************)
(* A larger head answered for a served tree that was behind.  What was     *)
(* linked to the tree served first is a prefix of that tree, which becomes *)
(* the target; its own entry is dropped and target accounts for it.        *)
(***************************************************************************)
LEMMA BehindInv ==
  ASSUME Inv, NEW t \in Tree, NEW proof \in BOOLEAN, Behind(Signed(t), proof)
  PROVE  Inv'
<1> DEFINE old == Head(todo)
           one == Put(bySize, Len(old.tree), old.tree)
           two == Put(one, Len(t), t)
           served == Len(latest.tree)
<1>1. /\ pc = "anchor" /\ pc \in Active /\ pc \notin Linking /\ ~anchored
      /\ pc' = "link" /\ pc' \in Active /\ pc' \in Linking
  BY DEF Behind, IsBehind, StartLink, Active, Linking, Inv, AnchoredHolds
<1>2. Signed(t) \in Note /\ Signed(t).signed /\ Signed(t).tree = t /\ Len(t) \in Nat
  BY SignedShape, LenNat
<1>3. todo \in Seq(Note) /\ todo # <<>>
  BY DEF Behind, IsBehind, Inv, TypeOK
<1>4. /\ old \in Note /\ Tail(todo) \in Seq(Note) /\ old = todo[1]
      /\ \A i \in DOMAIN todo : i # 1 => i - 1 \in DOMAIN Tail(todo) /\ Tail(todo)[i - 1] = todo[i]
  <2>1. Len(todo) \in Nat /\ Len(todo) > 0 /\ DOMAIN todo = 1..Len(todo)
    BY <1>3
  <2> QED
    BY <1>3, <2>1, SeqShape
<1>5. old.tree \in Tree /\ Len(old.tree) \in Nat
  BY <1>4, LenNat DEF Note
<1>6. /\ latest \in Note /\ latest.signed /\ latest.tree \in Tree /\ served \in Nat
      /\ served \in DOMAIN bySize /\ bySize[served] = latest.tree
  BY <1>1, LatestShape DEF Inv, LatestIsLinked
<1>7. served < Len(old.tree) /\ Len(old.tree) <= Len(t)
  BY <1>2, <1>5, <1>6 DEF Behind, IsBehind
<1>8. Extends(t, old.tree)
  BY <1>2 DEF Behind, VerifyConsistency
<1>9. \A n \in DOMAIN bySize :
        bySize[n] \in Tree /\ Len(bySize[n]) = n /\ n \in Nat /\ Extends(latest.tree, bySize[n])
  <2>1. \A n \in DOMAIN bySize : bySize[n] \in Tree /\ Len(bySize[n]) = n
    BY PartialShape DEF Inv, TypeOK, LinkedBySize
  <2> QED
    BY <1>1, <2>1, LenNat DEF Inv, LinkedToLatestOrTarget
<1>10. \A n \in DOMAIN bySize : n <= served
  BY <1>6, <1>9, ExtendsLen
<1>11. /\ one \in PartialOn(Tree) /\ DOMAIN one = DOMAIN bySize \cup {Len(old.tree)}
       /\ one[Len(old.tree)] = old.tree
       /\ \A n \in DOMAIN bySize : n # Len(old.tree) => one[n] = bySize[n]
  BY <1>5, PutShape DEF Inv, TypeOK
<1>12. /\ two \in PartialOn(Tree) /\ DOMAIN two = DOMAIN one \cup {Len(t)}
       /\ two[Len(t)] = t
       /\ \A n \in DOMAIN one : n # Len(t) => two[n] = one[n]
  BY <1>11, PutShape
<1>13. Len(old.tree) = Len(t) => old.tree = t
  BY <1>5, <1>8, ExtendsSameSize
<1>14. bySize' = [n \in DOMAIN two \ {served} |-> two[n]]
  BY <1>2 DEF Behind
<1>15. /\ DOMAIN bySize' = (DOMAIN bySize \ {served}) \cup {Len(old.tree), Len(t)}
       /\ bySize'[Len(t)] = t /\ bySize'[Len(old.tree)] = old.tree
       /\ \A n \in DOMAIN bySize \ {served} : bySize'[n] = bySize[n]
  <2>1. served # Len(old.tree) /\ served # Len(t)
    BY <1>2, <1>5, <1>6, <1>7
  <2>2. \A n \in DOMAIN bySize : n # Len(old.tree) /\ n # Len(t)
    BY <1>2, <1>5, <1>6, <1>7, <1>9, <1>10
  <2> QED
    BY <1>11, <1>12, <1>13, <1>14, <2>1, <2>2
<1>16. bySize' \in PartialOn(Tree)
  BY <1>12, <1>14, DropShape
<1>17. noteBySize' \in PartialOn(Tree)
  <2>1. RememberIn(noteBySize, old) \in PartialOn(Tree)
    BY <1>5, PutShape DEF RememberIn, Inv, TypeOK
  <2> QED
    BY <1>2, <2>1, PutShape DEF Behind, RememberIn
<1>18. /\ latest' = Signed(t) /\ target' = latest /\ todo' = Tail(todo) /\ round' = 0
       /\ UNCHANGED <<saved, anchor, required, anchored, ahead, outcome, evidence>>
  BY <1>1 DEF Behind, StartLink
<1>19. TypeOK'
  BY <1>1, <1>2, <1>4, <1>6, <1>16, <1>17, <1>18, AttemptsAssumption DEF Inv, TypeOK
<1>20. TargetFits'
  BY <1>1, <1>6, <1>18 DEF TargetFits
<1>21. LatestIsLinked'
  BY <1>2, <1>15, <1>18 DEF LatestIsLinked, IsLinked
<1>22. LinkedBySize'
  BY <1>9, <1>15 DEF LinkedBySize
<1>23. LinkedToLatestOrTarget'
  <2> SUFFICES ASSUME NEW n \in DOMAIN bySize'
               PROVE  \/ Extends(t, bySize'[n])
                      \/ n # served /\ Extends(latest.tree, bySize'[n])
    BY <1>1, <1>2, <1>18 DEF LinkedToLatestOrTarget
  <2>1. CASE n = Len(t)
    BY <1>15, <2>1, ExtendsReflexive
  <2>2. CASE n = Len(old.tree)
    BY <1>8, <1>15, <2>2
  <2>3. CASE n \in DOMAIN bySize \ {served}
    BY <1>9, <1>15, <2>3
  <2> QED
    BY <1>15, <2>1, <2>2, <2>3
<1>24. RequiredAccounted'
  <2> SUFFICES ASSUME NEW r \in required
               PROVE  \/ IsTodo(r)' \/ r = latest.tree
                      \/ Len(r) \in DOMAIN bySize' /\ bySize'[Len(r)] = r
    BY <1>1, <1>18 DEF RequiredAccounted
  <2>1. CASE \E i \in DOMAIN todo : i # 1 /\ todo[i].tree = r
    BY <1>4, <1>18, <2>1 DEF IsTodo
  <2>2. CASE r = old.tree
    BY <1>15, <2>2
  <2>3. CASE Len(r) \in DOMAIN bySize /\ bySize[Len(r)] = r
    BY <1>6, <1>15, <2>3
  <2> QED
    BY <1>1, <1>4, <2>1, <2>2, <2>3 DEF Inv, RequiredAccounted, IsTodo
<1>25. AnchoredHolds' /\ SavedIsRequired' /\ IdleIsClean'
  BY <1>1, <1>18 DEF Inv, AnchoredHolds, SavedIsRequired, IdleIsClean
<1> QED
  BY <1>19, <1>20, <1>21, <1>22, <1>23, <1>24, <1>25 DEF Inv
----------------------------------------------------------------------------------
(***************************************************************************)
(* The steps that end a pass with a verdict.                               *)
(***************************************************************************)

\* What stands behind a linked size can be shown as a note.
LEMMA NoteOrPairShape ==
  ASSUME TypeOK, NEW n \in DOMAIN bySize
  PROVE  NoteOrPair(n) \in Note
BY PartialShape DEF TypeOK, NoteOrPair, Signed, Note

\* A fork found by forkCheck.
LEMMA ForkFoundInv ==
  ASSUME Inv, pc # "idle", NEW c \in Note, Forks(c), ForkFound(c)
  PROVE  Inv'
<1>1. NoteOrPair(Len(c.tree)) \in Note
  BY NoteOrPairShape DEF Inv, Forks
<1>2. {<<NoteOrPair(Len(c.tree)), c>>} \in SUBSET (Note \X Note)
  BY <1>1
<1>3. "fork" \in {"none", "ok"} \cup Unfinished \cup Findings
  BY DEF Findings
<1> QED
  BY <1>2, <1>3, EndInv DEF ForkFound

\* A verdict on two checkpoints in hand.
LEMMA PairFoundInv ==
  ASSUME Inv, pc # "idle", NEW how \in Findings, NEW older \in Note, NEW newer \in Note,
         End(how, {<<older, newer>>})
  PROVE  Inv'
<1>1. {<<older, newer>>} \in SUBSET (Note \X Note)
  OBVIOUS
<1> QED
  BY <1>1, EndInv

\* A verdict with nothing to show.
LEMMA BareEndInv ==
  ASSUME Inv, pc # "idle", NEW how \in Unfinished \cup Findings, End(how, {})
  PROVE  Inv'
<1>1. {} \in SUBSET (Note \X Note)
  OBVIOUS
<1> QED
  BY <1>1, EndInv

\* While checkpoints remain to anchor to, the next one is a note.
LEMMA HeadShape ==
  ASSUME Inv, todo # <<>>
  PROVE  Head(todo) \in Note
<1>1. todo \in Seq(Note) /\ Len(todo) \in Nat /\ Len(todo) > 0
  BY DEF Inv, TypeOK
<1> QED
  BY <1>1, SeqShape

\* Findings among the answers to a consistency request.
LEMMA FoundInv ==
  ASSUME Inv, NEW t \in Tree, NEW proof \in BOOLEAN,
         \/ BehindFound(Signed(t), proof) \/ AdvanceFound(Signed(t), proof)
         \/ PrefixFound(Signed(t)) \/ NestedFound(Signed(t), proof)
  PROVE  Inv'
<1>1. Signed(t) \in Note
  BY SignedShape
<1>2. pc \in Active /\ pc # "idle"
  BY DEF BehindFound, IsBehind, AdvanceFound, AsksAdvance, IsAdvance, PrefixFound, AsksPrefix,
         IsProvePrefix, Rounding, Unlinked, NestedFound, Active, Linking
<1>3. latest \in Note
  BY <1>2 DEF Inv, LatestIsLinked
<1>4. CASE Forks(Signed(t)) /\ ForkFound(Signed(t))
  BY <1>1, <1>2, <1>4, ForkFoundInv
<1>5. CASE IsBehind /\ End("shrank", {<<Head(todo), Signed(t)>>})
  <2>1. Head(todo) \in Note
    BY <1>5, HeadShape DEF IsBehind
  <2> QED
    BY <1>1, <1>2, <1>5, <2>1, PairFoundInv DEF Findings
<1>6. CASE IsBehind /\ InconsistentFound(Head(todo), Signed(t))
  <2>1. Head(todo) \in Note
    BY <1>6, HeadShape DEF IsBehind
  <2> QED
    BY <1>1, <1>2, <1>6, <2>1, PairFoundInv DEF Findings, InconsistentFound
<1>7. CASE InconsistentFound(latest, Signed(t))
  BY <1>1, <1>2, <1>3, <1>7, PairFoundInv DEF Findings, InconsistentFound
<1> QED
  BY <1>4, <1>5, <1>6, <1>7 DEF BehindFound, AdvanceFound, PrefixFound, NestedFound

\* link refuses the target, or provePrefix the answer it held.
LEMMA LinkFoundInv ==
  ASSUME Inv, LinkFork \/ ProveFound
  PROVE  Inv'
<1>1. pc \in Linking /\ pc \in Active /\ pc # "idle"
  BY DEF LinkFork, ProveFound, Linking, Active
<1>2. target \in Note /\ latest \in Note
  BY <1>1, TargetShape DEF Inv, LatestIsLinked
<1>3. CASE LinkFork
  BY <1>1, <1>2, <1>3, ForkFoundInv DEF LinkFork
<1>4. CASE pc = "prove" /\ Forks(Signed(ahead.tree)) /\ ForkFound(Signed(ahead.tree))
  <2>1. ahead \in Answers
    BY <1>4 DEF Inv, TargetFits
  <2>2. Signed(ahead.tree) \in Note
    BY <2>1, SignedShape DEF Answers
  <2> QED
    BY <1>1, <1>4, <2>2, ForkFoundInv
<1>5. CASE InconsistentFound(target, latest)
  BY <1>1, <1>2, <1>5, PairFoundInv DEF Findings, InconsistentFound
<1> QED
  BY <1>3, <1>4, <1>5 DEF ProveFound

\* A request refused, failed, or answered with a note that does not verify.
LEMMA FailureInv ==
  ASSUME Inv, Failure
  PROVE  Inv'
<1>1. pc # "idle"
  BY DEF Failure, Refused, Unavailable, Unsigned, AsksConsistency, IsBehind, AsksAdvance,
         IsAdvance, AsksPrefix, IsProvePrefix, Rounding, Unlinked
<1>2. CASE Refused
  <2>1. pc \in Active
    BY <1>2 DEF Refused, AsksConsistency, IsBehind, AsksAdvance, IsAdvance, AsksPrefix,
                IsProvePrefix, Rounding, Unlinked, Active, Linking
  <2>2. latest \in Note
    BY <2>1 DEF Inv, LatestIsLinked
  <2>3. pc = "anchor" => Head(todo) \in Note
    BY <1>2, HeadShape DEF Refused, AsksConsistency, IsBehind, AsksAdvance, IsAdvance,
                           AsksPrefix, IsProvePrefix, Rounding, Unlinked
  <2>4. AsksPrefix => target \in Note
    BY TargetShape DEF AsksPrefix, IsProvePrefix, Rounding, Unlinked, Linking
  <2>5. AskedFrom \in Note
    BY <2>2, <2>3, <2>4 DEF AskedFrom
  <2> QED
    BY <1>1, <1>2, <2>2, <2>5, PairFoundInv DEF Refused, Findings
<1>3. CASE Unavailable
  BY <1>1, <1>3, BareEndInv DEF Unavailable, Unfinished
<1>4. CASE Unsigned
  BY <1>1, <1>4, BareEndInv DEF Unsigned, Findings
<1> QED
  BY <1>2, <1>3, <1>4 DEF Failure

\* link gives up on a log that keeps moving.
LEMMA LinkGiveUpInv ==
  ASSUME Inv, LinkGiveUp
  PROVE  Inv'
BY BareEndInv DEF LinkGiveUp, Unlinked, Unfinished

\* The next pass loads what this one saved, which is a tree or nothing.
LEMMA ExitInv ==
  ASSUME Inv, Exit \/ Crash
  PROVE  Inv'
<1>1. saved' \in Tree \cup {NoTree}
  BY DEF Inv, TypeOK, Exit, Crash
<1> QED
  BY <1>1, LeaveInv DEF Exit, Crash
----------------------------------------------------------------------------------
(***************************************************************************)
(* The theorems.                                                           *)
(***************************************************************************)

\* The invariant is inductive: one lemma for every action.
LEMMA NextInv == Inv /\ [Next]_vars => Inv'
<1> SUFFICES ASSUME Inv, [Next]_vars PROVE Inv'
  OBVIOUS
<1>1. CASE \E baselines \in Baselines : Begin(baselines)
  BY <1>1, BeginInv
<1>2. CASE \E t \in Tree : Fetch(t) \/ Relate(t)
  BY <1>2, FetchInv, RelateInv
<1>3. CASE \E t \in Tree, proof \in BOOLEAN : Answer(Signed(t), proof)
  <2> PICK t \in Tree, proof \in BOOLEAN : Answer(Signed(t), proof)
    BY <1>3
  <2>1. CASE \/ BehindFound(Signed(t), proof) \/ AdvanceFound(Signed(t), proof)
             \/ PrefixFound(Signed(t)) \/ NestedFound(Signed(t), proof)
    BY <2>1, FoundInv
  <2>2. CASE Behind(Signed(t), proof)
    BY <2>2, BehindInv
  <2>3. CASE AdvanceLags(Signed(t))
    BY <2>3, AdvanceLagsInv
  <2>4. CASE Advance(Signed(t), proof)
    BY <2>4, AdvanceInv
  <2>5. CASE PrefixAnswered(Signed(t), proof)
    BY <2>5, PrefixAnsweredInv
  <2>6. CASE NestedLags(Signed(t))
    BY <2>6, NestedLagsInv
  <2>7. CASE NestedAdvance(Signed(t), proof)
    BY <2>7, NestedAdvanceInv
  <2> QED
    BY <2>1, <2>2, <2>3, <2>4, <2>5, <2>6, <2>7 DEF Answer
<1>4. CASE Failure
  BY <1>4, FailureInv
<1>5. CASE Computation
  BY <1>5, AnchorLinkInv, AnchoredInv, LinkFoundInv, LinkReturnInv, LinkGiveUpInv,
     AdvanceFromEmptyInv, PrefixEmptyInv, ProveLagsInv, ProveInv DEF Computation
<1>6. CASE Finish \/ Exit \/ Crash
  BY <1>6, FinishInv, ExitInv
<1>7. CASE UNCHANGED vars
  BY <1>7 DEF vars, session, Inv, TypeOK, LatestIsLinked, LinkedBySize, LinkedToLatestOrTarget,
              RequiredAccounted, AnchoredHolds, SavedIsRequired, IdleIsClean, TargetFits,
              IsLinked, IsTodo
<1> QED
  BY <1>1, <1>2, <1>3, <1>4, <1>5, <1>6, <1>7 DEF Next

\* The inductive invariant holds in every reachable state.
THEOREM Invariance == Spec => []Inv
<1> QED
  BY InitInv, NextInv, PTL DEF Spec

\* Every variable of a session keeps its type.
THEOREM TypeCorrect == Spec => []TypeOK
<1>1. Inv => TypeOK
  BY DEF Inv
<1> QED
  BY <1>1, Invariance, PTL

\* Once a pass is anchored every checkpoint it has linked is a prefix of the newest,
\* whatever the log answers and however its head moves.
THEOREM OneHistoryHolds == Spec => []OneHistory
<1>1. Inv => OneHistory
  BY DEF Inv, AnchoredHolds, OneHistory
<1> QED
  BY <1>1, Invariance, PTL

\* An anchored pass's head extends the saved checkpoint and every baseline.
THEOREM AnchorHeldHolds == Spec => []AnchorHeld
<1>1. Inv => AnchorHeld
  BY DEF Inv, AnchoredHolds, AnchorHeld
<1> QED
  BY <1>1, Invariance, PTL

\* What a save would write is the newest verified checkpoint.
THEOREM CommitsAsItAdvancesHolds == Spec => []CommitsAsItAdvances
<1>1. Inv => CommitsAsItAdvances
  BY DEF Inv, AnchoredHolds, CommitsAsItAdvances
<1> QED
  BY <1>1, Invariance, PTL

\* Only leaving a pass writes the state file.
LEMMA SavedChanges ==
  ASSUME Inv, [Next]_vars, saved' # saved
  PROVE  Exit /\ Saves /\ saved' = anchor
<1>1. \A how, shown : End(how, shown) => saved' = saved
  BY DEF End
<1>2. CASE Next
  BY <1>1, <1>2
  DEF Next, Begin, Fetch, Relate, Answer, BehindFound, Behind, AdvanceFound, AdvanceLags, Advance,
      PrefixFound, PrefixAnswered, NestedFound, NestedLags, NestedAdvance, ForkFound,
      InconsistentFound, Failure, Refused, Unavailable, Unsigned, Computation, AnchorLink, Anchored,
      LinkFork, LinkReturn, LinkGiveUp, AdvanceFromEmpty, PrefixEmpty, ProveFound, ProveLags, Prove,
      Finish, Exit, Crash
<1> QED
  BY <1>2 DEF vars

\* The state file's checkpoint is only ever replaced by an extension of it, across
\* passes, failures and crashes.
THEOREM SavedRatchetHolds == Spec => SavedRatchet
<1> DEFINE Ratchet == saved # NoTree => saved' # NoTree /\ Extends(saved', saved)
<1>1. Inv /\ [Next]_vars => [Ratchet]_saved
  <2> SUFFICES ASSUME Inv, [Next]_vars, saved' # saved, saved # NoTree
               PROVE  saved' # NoTree /\ Extends(saved', saved)
    OBVIOUS
  <2>1. Exit /\ Saves /\ saved' = anchor
    BY SavedChanges
  <2>2. anchored /\ pc # "idle"
    BY <2>1 DEF Exit, Saves
  <2>3. saved \in required
    BY <2>2 DEF Inv, SavedIsRequired
  <2>4. latest \in Note /\ anchor = latest.tree /\ Extends(latest.tree, saved)
    BY <2>2, <2>3 DEF Inv, AnchoredHolds
  <2> QED
    BY <2>1, <2>4, NoTreeIsNoTree DEF Note
<1> QED
  BY <1>1, Invariance, PTL DEF Spec, SavedRatchet
----------------------------------------------------------------------------------
(***************************************************************************)
(* link counts down.                                                       *)
(***************************************************************************)

\* What is left of a link: three steps a round, and those of the round under way.
LinkLeft ==
  3 * (MaxRelateAttempts - round)
    + (IF pc = "link" THEN 2 ELSE IF pc = "nested" THEN 1 ELSE 0)

\* A link has the rounds MaxRelateAttempts gives it, and no more.
LEMMA LinkLeftBounds ==
  ASSUME TypeOK
  PROVE  LinkLeft \in 0..(3 * MaxRelateAttempts + 2)
BY AttemptsAssumption DEF TypeOK, LinkLeft

\* One more round is less than the round it follows.
LEMMA NextRoundIsLess ==
  ASSUME TypeOK, pc \in Linking, NextRound
  PROVE  LinkLeft' < LinkLeft
<1>1. /\ round \in Nat /\ round' = round + 1 /\ pc' = "link"
      /\ MaxRelateAttempts' = MaxRelateAttempts
  BY DEF TypeOK, NextRound
<1>2. CASE pc = "link"
  BY <1>1, <1>2, AttemptsAssumption DEF LinkLeft
<1>3. CASE pc # "link"
  BY <1>1, <1>3, AttemptsAssumption DEF LinkLeft
<1> QED
  BY <1>2, <1>3

\* Within a round, the answer is held, then the head has moved.
LEMMA HoldingIsLess ==
  ASSUME TypeOK, round' = round,
         \/ pc = "link" /\ pc' \in {"nested", "prove"}
         \/ pc = "nested" /\ pc' = "prove"
  PROVE  LinkLeft' < LinkLeft
BY AttemptsAssumption DEF TypeOK, LinkLeft

\* A step from link to link is of a round.
LEMMA LinkStepIsLess ==
  ASSUME Inv, Next, pc \in Linking, pc' \in Linking
  PROVE  LinkLeft' < LinkLeft
<1>1. TypeOK
  BY DEF Inv
<1>2. \A how, shown : ~End(how, shown)
  BY DEF End, Linking
<1>3. ~(\E baselines \in Baselines : Begin(baselines))
  BY DEF Begin, Linking
<1>4. ~(\E t \in Tree : Fetch(t) \/ Relate(t))
  BY DEF Fetch, Relate, Linking
<1>5. ~(Failure \/ Finish \/ Exit \/ Crash)
  BY <1>2 DEF Failure, Refused, Unavailable, Unsigned, Finish, Exit, Crash, Leave, Linking
<1>6. CASE \E t \in Tree, proof \in BOOLEAN : Answer(Signed(t), proof)
  <2> PICK t \in Tree, proof \in BOOLEAN : Answer(Signed(t), proof)
    BY <1>6
  <2>1. ~(\/ BehindFound(Signed(t), proof) \/ Behind(Signed(t), proof)
          \/ AdvanceFound(Signed(t), proof) \/ PrefixFound(Signed(t))
          \/ NestedFound(Signed(t), proof))
    BY <1>2 DEF BehindFound, Behind, IsBehind, AdvanceFound, PrefixFound, NestedFound,
                ForkFound, InconsistentFound, Linking
  <2>2. CASE AdvanceLags(Signed(t)) \/ Advance(Signed(t), proof)
    BY <1>1, <2>2, NextRoundIsLess DEF AdvanceLags, Advance
  <2>3. CASE PrefixAnswered(Signed(t), proof)
    <3>1. pc = "link" /\ pc' \in {"nested", "prove"} /\ round' = round
      BY <2>3 DEF PrefixAnswered, AsksPrefix, IsProvePrefix, Rounding, Unlinked
    <3> QED
      BY <1>1, <3>1, HoldingIsLess
  <2>4. CASE NestedLags(Signed(t)) \/ NestedAdvance(Signed(t), proof)
    <3>1. pc = "nested" /\ pc' = "prove" /\ round' = round
      BY <2>4 DEF NestedLags, NestedAdvance
    <3> QED
      BY <1>1, <3>1, HoldingIsLess
  <2> QED
    BY <2>1, <2>2, <2>3, <2>4 DEF Answer
<1>7. CASE Computation
  <2>1. AdvanceFromEmpty \/ PrefixEmpty \/ ProveLags \/ Prove
    BY <1>2, <1>7 DEF Computation, AnchorLink, Anchored, LinkFork, LinkReturn, LinkReturnsTo,
                      LinkGiveUp, ProveFound, ForkFound, InconsistentFound, Linking
  <2>2. NextRound
    BY <2>1 DEF AdvanceFromEmpty, PrefixEmpty, ProveLags, Prove
  <2> QED
    BY <1>1, <2>2, NextRoundIsLess
<1> QED
  BY <1>3, <1>4, <1>5, <1>6, <1>7 DEF Next

\* The bound on link ("rounds link makes before it gives up") holds for whatever the log
\* answers: every step inside it brings its end nearer, so a link is over within
\* 3 * MaxRelateAttempts + 2 of them.
THEOREM LinkCountsDown ==
  Spec => /\ [](LinkLeft \in 0..(3 * MaxRelateAttempts + 2))
          /\ [][(pc \in Linking /\ pc' \in Linking) => (LinkLeft' < LinkLeft)]_vars
<1>1. Inv => LinkLeft \in 0..(3 * MaxRelateAttempts + 2)
  BY LinkLeftBounds DEF Inv
<1>2. Inv /\ [Next]_vars
        => [(pc \in Linking /\ pc' \in Linking) => (LinkLeft' < LinkLeft)]_vars
  BY LinkStepIsLess
<1> QED
  BY <1>1, <1>2, Invariance, PTL DEF Spec
----------------------------------------------------------------------------------
(***************************************************************************)
(* Session implements LogView.                                             *)
(***************************************************************************)

\* In the middle of a pass latest stays or moves to a tree that extends it.
LEMMA LatestGrows ==
  ASSUME Inv, [Next]_vars, anchored, ~Exit, ~Crash
  PROVE  /\ anchored' /\ saved' = saved
         /\ \/ latest' = latest
            \/ latest'.tree \in Tree /\ Extends(latest'.tree, latest.tree)
<1>1. pc \notin {"idle", "fetch", "anchor"}
  BY DEF Inv, AnchoredHolds, IdleIsClean
<1>2. \A how, shown : End(how, shown) => /\ anchored' = anchored /\ saved' = saved
                                         /\ latest' = latest
  BY DEF End, session
<1>3. CASE UNCHANGED vars
  BY <1>3 DEF vars, session
<1>4. CASE \E t \in Tree, proof \in BOOLEAN : Answer(Signed(t), proof)
  <2> PICK t \in Tree, proof \in BOOLEAN : Answer(Signed(t), proof)
    BY <1>4
  <2>1. CASE Advance(Signed(t), proof) \/ NestedAdvance(Signed(t), proof)
    BY <2>1, SignedShape DEF Advance, NestedAdvance, SetLatest, VerifyConsistency
  <2>2. CASE ~(Advance(Signed(t), proof) \/ NestedAdvance(Signed(t), proof))
    BY <1>1, <1>2, <2>2
    DEF Answer, BehindFound, Behind, IsBehind, AdvanceFound, AdvanceLags, PrefixFound,
        PrefixAnswered, NestedFound, NestedLags, ForkFound, InconsistentFound, session
  <2> QED
    BY <2>1, <2>2
<1>5. CASE AdvanceFromEmpty
  <2>1. pc \in Linking /\ pc \in Active
    BY <1>5 DEF AdvanceFromEmpty, IsAdvance, Rounding, Unlinked, Linking, Active
  <2>2. target.tree \in Tree /\ latest.tree \in Tree
    BY <2>1, TargetShape, LatestShape
  <2> QED
    BY <1>5, <2>2, ExtendsEmpty DEF AdvanceFromEmpty, SetLatest
<1>6. CASE Computation /\ ~AdvanceFromEmpty
  BY <1>1, <1>2, <1>6
  DEF Computation, AnchorLink, Anchored, LinkFork, LinkReturn, LinkGiveUp, PrefixEmpty,
      ProveFound, ProveLags, Prove, ForkFound, InconsistentFound, session
<1>7. CASE Failure \/ Finish \/ \E t \in Tree : Fetch(t) \/ Relate(t)
  BY <1>1, <1>2, <1>7 DEF Failure, Refused, Unavailable, Unsigned, Finish, Fetch, Relate, session
<1>8. CASE \E baselines \in Baselines : Begin(baselines)
  BY <1>1, <1>8 DEF Begin
<1> QED
  BY <1>3, <1>4, <1>5, <1>6, <1>7, <1>8 DEF Next

\* Before a pass is anchored it shows nothing, and only Anchored changes that.
LEMMA AnchoredOnce ==
  ASSUME Inv, [Next]_vars, ~anchored
  PROVE  saved' = saved /\ (anchored' => Anchored)
<1>1. saved' = saved
  BY SavedChanges DEF Saves
<1>2. \A how, shown : End(how, shown) => anchored' = anchored
  BY DEF End, session
<1>3. ~anchored' \/ Anchored
  BY <1>2
  DEF Next, Begin, Fetch, Relate, Answer, BehindFound, Behind, AdvanceFound, AdvanceLags, Advance,
      PrefixFound, PrefixAnswered, NestedFound, NestedLags, NestedAdvance, ForkFound,
      InconsistentFound, Failure, Refused, Unavailable, Unsigned, Computation, AnchorLink,
      LinkFork, LinkReturn, LinkGiveUp, AdvanceFromEmpty, PrefixEmpty, ProveFound, ProveLags, Prove,
      Finish, Exit, Crash, Leave, vars, session
<1> QED
  BY <1>1, <1>3

\* A pass is a view of the log that only grows, and hands on the newest of it: every
\* step of Session is a step of LogView or leaves its variables alone.
THEOREM Refinement == Spec => ImplementsView
<1> DEFINE head == IF anchored THEN latest.tree ELSE NoTree
<1>1. Init => View!Init
  BY DEF Init, Idle, View!Init
<1>2. Inv /\ Inv' /\ [Next]_vars => [View!Next]_<<head, saved>>
  <2> SUFFICES ASSUME Inv, Inv', [Next]_vars PROVE [View!Next]_<<head, saved>>
    OBVIOUS
  <2>1. CASE ~anchored
    <3>1. saved' = saved /\ (anchored' => Anchored)
      BY <2>1, AnchoredOnce
    <3>2. CASE ~anchored'
      BY <2>1, <3>1, <3>2
    <3>3. CASE anchored'
      <4>1. Anchored
        BY <3>1, <3>3
      <4>2. latest'.tree \in Tree /\ (saved # NoTree => Extends(latest'.tree, saved))
        BY <3>1, <3>3, <4>1 DEF Inv, AnchoredHolds, SavedIsRequired, Anchored, Note
      <4>3. View!Adopt(latest'.tree)
        BY <2>1, <3>1, <3>3, <4>2 DEF View!Adopt, Extends, View!Extends
      <4> QED
        BY <4>2, <4>3 DEF View!Next
    <3> QED
      BY <3>2, <3>3
  <2>2. CASE anchored
    <3>1. latest.tree \in Tree /\ latest.tree # NoTree /\ anchor = latest.tree
      BY <2>2, NoTreeIsNoTree DEF Inv, AnchoredHolds, Note
    <3>2. CASE Exit \/ Crash
      <4>1. ~anchored' /\ (saved' = latest.tree \/ saved' = saved)
        BY <3>1, <3>2 DEF Exit, Crash, Leave
      <4> QED
        BY <2>2, <3>1, <4>1 DEF View!Next, View!Keep, View!Abandon
    <3>3. CASE ~(Exit \/ Crash)
      <4>1. /\ anchored' /\ saved' = saved
            /\ \/ latest' = latest
               \/ latest'.tree \in Tree /\ Extends(latest'.tree, latest.tree)
        BY <2>2, <3>3, LatestGrows
      <4>2. CASE latest' = latest
        BY <2>2, <4>1, <4>2
      <4>3. CASE latest'.tree \in Tree /\ Extends(latest'.tree, latest.tree)
        <5>1. View!Grow(latest'.tree)
          BY <2>2, <3>1, <4>1, <4>3 DEF View!Grow, Extends, View!Extends
        <5> QED
          BY <4>3, <5>1 DEF View!Next
      <4> QED
        BY <4>1, <4>2, <4>3
    <3> QED
      BY <3>2, <3>3
  <2> QED
    BY <2>1, <2>2
<1> QED
  BY <1>1, <1>2, Invariance, PTL DEF Spec, ImplementsView, View!Spec
----------------------------------------------------------------------------------
(***************************************************************************)
(* ForkEvidenceShowsIt.  What is remembered as the note of a linked size   *)
(* is the tree linked there, and a linked tree without a note is one the   *)
(* caller brought.  A note is left without its link only while the tree    *)
(* served first, which Behind unlinked, is the target.                     *)
(***************************************************************************)
NotesMatch ==
  \A n \in DOMAIN bySize :
    IF n \in DOMAIN noteBySize THEN noteBySize[n] = bySize[n] ELSE bySize[n] \in required

NotesAreLinked ==
  \A n \in DOMAIN noteBySize :
    \/ n \in DOMAIN bySize
    \/ pc \in Linking /\ target.signed /\ n = Len(target.tree)

BareIsRequired ==
  /\ \A i \in DOMAIN todo : todo[i].tree \in required
  /\ pc \in Linking => target.signed \/ target.tree \in required

Shows ==
  /\ ForkEvidenceShowsIt /\ (outcome = "fork" => pc = "done")
  /\ pc # "done" => NotesMatch /\ NotesAreLinked /\ BareIsRequired
  /\ pc = "idle" => DOMAIN bySize = {} /\ DOMAIN noteBySize = {}

\* A step that does not end the pass has no fork to show.
LEMMA ShowsNothing ==
  ASSUME Shows, pc # "done", outcome' = outcome
  PROVE  ForkEvidenceShowsIt' /\ outcome' # "fork"
BY DEF Shows, ForkEvidenceShowsIt

\* The fork that forkCheck reports is between two trees of one size.
LEMMA ForkFoundShows ==
  ASSUME Inv, Shows, pc # "done", NEW c \in Note, Forks(c), ForkFound(c),
         c.signed \/ c.tree \in required
  PROVE  Shows'
<1> DEFINE n == Len(c.tree)
<1>1. n \in DOMAIN bySize /\ bySize[n] # c.tree /\ Len(bySize[n]) = n
  BY DEF Forks, Inv, LinkedBySize
<1>2. NoteOrPair(n).tree = bySize[n] /\ (NoteOrPair(n).signed \/ bySize[n] \in required)
  <2>1. IF n \in DOMAIN noteBySize THEN noteBySize[n] = bySize[n] ELSE bySize[n] \in required
    BY <1>1 DEF Shows, NotesMatch
  <2> QED
    BY <2>1 DEF NoteOrPair, Signed
<1>3. /\ pc' = "done" /\ evidence' = {<<NoteOrPair(n), c>>} /\ required' = required
  BY DEF ForkFound, End, session
<1>4. ForkEvidenceShowsIt'
  <2> SUFFICES ASSUME NEW e \in evidence'
               PROVE  /\ Len(e[1].tree) = Len(e[2].tree) /\ e[1].tree # e[2].tree
                      /\ \A side \in 1..2 : e[side].signed \/ e[side].tree \in required
    BY <1>3 DEF ForkEvidenceShowsIt
  <2>1. e[1] = NoteOrPair(n) /\ e[2] = c
    BY <1>3
  <2>2. \A side \in 1..2 : side = 1 \/ side = 2
    OBVIOUS
  <2> QED
    BY <1>1, <1>2, <2>1, <2>2
<1> QED
  BY <1>3, <1>4 DEF Shows

\* No other verdict is a fork.
LEMMA EndShows ==
  ASSUME NEW how, NEW shown, how # "fork", End(how, shown)
  PROVE  Shows'
BY DEF End, Shows, ForkEvidenceShowsIt

\* Remembering a checkpoint of a size that is free keeps the notes matching.
LEMMA RememberMatches ==
  ASSUME Inv, NotesMatch, NotesAreLinked, NEW c \in Note, Remember(c), required' = required,
         \/ c.signed
         \/ c = target /\ c.tree \in required /\ Len(c.tree) \notin DOMAIN bySize
  PROVE  NotesMatch' /\ \A n \in DOMAIN noteBySize' :
                           n \in DOMAIN bySize' \/ n \in DOMAIN noteBySize \ DOMAIN bySize
<1>1. bySize' = Put(bySize, Len(c.tree), c.tree)
  BY DEF Remember
<1>2. CASE c.signed
  <2>1. noteBySize' = Put(noteBySize, Len(c.tree), c.tree)
    BY <1>2 DEF Remember, RememberIn
  <2> QED
    BY <1>1, <2>1 DEF NotesMatch, Put
<1>3. CASE ~c.signed
  <2>1. /\ noteBySize' = noteBySize /\ c = target /\ c.tree \in required
        /\ Len(c.tree) \notin DOMAIN bySize
    BY <1>3 DEF Remember, RememberIn
  <2>2. Len(c.tree) \notin DOMAIN noteBySize
    BY <1>3, <2>1 DEF NotesAreLinked
  <2> QED
    BY <1>1, <2>1, <2>2 DEF NotesMatch, Put
<1> QED
  BY <1>2, <1>3
----------------------------------------------------------------------------------
LEMMA ShowsInit == Init => Shows
<1> SUFFICES ASSUME Init PROVE Shows
  OBVIOUS
<1>1. DOMAIN NoneLinked = {}
  BY NoneShape
<1> QED
  BY <1>1 DEF Init, Idle, Shows, ForkEvidenceShowsIt, NotesMatch, NotesAreLinked, BareIsRequired,
              Linking

\* Every baseline is required, and so is the saved checkpoint.
LEMMA BeginShows ==
  ASSUME Inv, Shows, NEW baselines \in Baselines, Begin(baselines)
  PROVE  Shows'
<1>1. /\ pc = "idle" /\ pc' = "fetch" /\ outcome' = outcome
      /\ UNCHANGED <<bySize, noteBySize>> /\ required' = {todo'[i].tree : i \in DOMAIN todo'}
  BY DEF Begin
<1>2. ForkEvidenceShowsIt' /\ outcome' # "fork"
  BY <1>1, ShowsNothing
<1>3. DOMAIN bySize = {} /\ DOMAIN noteBySize = {}
  BY <1>1 DEF Shows
<1> QED
  BY <1>1, <1>2, <1>3 DEF Shows, NotesMatch, NotesAreLinked, BareIsRequired, Linking

\* The checkpoint served first is linked with its note.
LEMMA FetchShows ==
  ASSUME Shows, NEW t \in Tree, Fetch(t)
  PROVE  Shows'
<1>1. /\ pc = "fetch" /\ pc' = "anchor" /\ outcome' = outcome /\ UNCHANGED <<required, todo>>
      /\ bySize' = [n \in {Len(t)} |-> t] /\ noteBySize' = [n \in {Len(t)} |-> t]
  BY DEF Fetch
<1>2. ForkEvidenceShowsIt' /\ outcome' # "fork"
  BY <1>1, ShowsNothing
<1> QED
  BY <1>1, <1>2 DEF Shows, NotesMatch, NotesAreLinked, BareIsRequired, Linking

\* The way into link: with a signed head, or with what the caller brought.
LEMMA StartLinkShows ==
  ASSUME Inv, Shows, AnchorLink \/ \E t \in Tree : Relate(t)
  PROVE  Shows'
<1>1. /\ pc \in {"anchor", "ready"} /\ pc' = "link" /\ outcome' = outcome
      /\ UNCHANGED <<required, bySize, noteBySize>>
  BY DEF AnchorLink, Relate, StartLink, session
<1>2. ForkEvidenceShowsIt' /\ outcome' # "fork"
  BY <1>1, ShowsNothing
<1>3. NotesMatch /\ NotesAreLinked /\ BareIsRequired /\ pc \notin Linking
  BY <1>1 DEF Shows, Linking
<1>4. BareIsRequired'
  <2>1. CASE AnchorLink
    <3>1. /\ todo \in Seq(Note) /\ todo # <<>> /\ todo' = Tail(todo) /\ target' = Head(todo)
      BY <2>1 DEF AnchorLink, StartLink, Inv, TypeOK
    <3>2. /\ 1 \in DOMAIN todo /\ Head(todo) = todo[1]
          /\ \A i \in DOMAIN Tail(todo) : i + 1 \in DOMAIN todo /\ Tail(todo)[i] = todo[i + 1]
      BY <3>1
    <3> QED
      BY <1>1, <1>3, <3>1, <3>2 DEF BareIsRequired
  <2>2. CASE \E t \in Tree : Relate(t)
    BY <1>1, <1>3, <2>2 DEF Relate, StartLink, Signed, session, BareIsRequired
  <2> QED
    BY <2>1, <2>2
<1> QED
  BY <1>1, <1>2, <1>3, <1>4 DEF Shows, NotesMatch, NotesAreLinked

\* The head that covers a baseline is linked with its note, and so is the baseline if it has one.
LEMMA BehindShows ==
  ASSUME Inv, Shows, NEW t \in Tree, NEW proof \in BOOLEAN, Behind(Signed(t), proof)
  PROVE  Shows'
<1> DEFINE old == Head(todo)
           served == Len(latest.tree)
<1>1. /\ pc = "anchor" /\ pc \in Active /\ pc \notin Linking /\ pc' = "link" /\ outcome' = outcome
      /\ UNCHANGED required /\ todo' = Tail(todo) /\ target' = latest
  BY DEF Behind, IsBehind, StartLink, Active, Linking
<1>2. ForkEvidenceShowsIt' /\ outcome' # "fork"
  BY <1>1, ShowsNothing
<1>3. NotesMatch /\ BareIsRequired /\ DOMAIN noteBySize \subseteq DOMAIN bySize
  BY <1>1 DEF Shows, NotesAreLinked
<1>4. /\ todo \in Seq(Note) /\ todo # <<>> /\ old \in Note /\ old = todo[1] /\ 1 \in DOMAIN todo
      /\ \A i \in DOMAIN Tail(todo) : i + 1 \in DOMAIN todo /\ Tail(todo)[i] = todo[i + 1]
  <2>1. todo \in Seq(Note) /\ todo # <<>>
    BY DEF Behind, IsBehind, Inv, TypeOK
  <2> QED
    BY <2>1, SeqShape
<1>5. old.tree \in Tree /\ Len(old.tree) \in Nat /\ Len(t) \in Nat /\ old.tree \in required
  BY <1>3, <1>4, LenNat DEF Note, BareIsRequired
<1>6. latest.signed /\ latest.tree \in Tree /\ served \in Nat
  BY <1>1, LatestShape
<1>7. served < Len(old.tree) /\ Len(old.tree) <= Len(t) /\ Extends(t, old.tree)
  BY <1>5, <1>6 DEF Behind, IsBehind, Signed, VerifyConsistency
<1>8. \A n \in DOMAIN bySize : n \in Nat /\ n <= served
  <2>1. \A n \in DOMAIN bySize : bySize[n] \in Tree /\ Len(bySize[n]) = n
    BY PartialShape DEF Inv, TypeOK, LinkedBySize
  <2>2. \A n \in DOMAIN bySize : Extends(latest.tree, bySize[n])
    BY <1>1 DEF Inv, LinkedToLatestOrTarget
  <2> QED
    BY <1>6, <2>1, <2>2, ExtendsLen, LenNat
<1>9. Len(old.tree) \notin DOMAIN bySize /\ Len(t) \notin DOMAIN bySize
      /\ served # Len(old.tree) /\ served # Len(t)
  BY <1>5, <1>6, <1>7, <1>8
<1>10. Len(old.tree) = Len(t) => old.tree = t
  BY <1>5, <1>7, ExtendsSameSize
<1>11. bySize' = [n \in (DOMAIN bySize \cup {Len(old.tree), Len(t)}) \ {served} |->
                    IF n = Len(t) THEN t ELSE IF n = Len(old.tree) THEN old.tree ELSE bySize[n]]
  BY DEF Behind, Put, Signed
<1>12. noteBySize' = Put(RememberIn(noteBySize, old), Len(t), t)
  BY DEF Behind, RememberIn, Signed
<1>13. /\ DOMAIN noteBySize' =
            DOMAIN noteBySize \cup {Len(t)} \cup (IF old.signed THEN {Len(old.tree)} ELSE {})
       /\ noteBySize'[Len(t)] = t
       /\ old.signed => noteBySize'[Len(old.tree)] = old.tree
       /\ \A n \in DOMAIN noteBySize : noteBySize'[n] = noteBySize[n]
  <2>1. CASE old.signed
    BY <1>3, <1>9, <1>10, <1>12, <2>1 DEF RememberIn, Put
  <2>2. CASE ~old.signed
    BY <1>3, <1>9, <1>12, <2>2 DEF RememberIn, Put
  <2> QED
    BY <2>1, <2>2
<1>14. NotesMatch'
  BY <1>1, <1>3, <1>5, <1>9, <1>10, <1>11, <1>13 DEF NotesMatch
<1>15. NotesAreLinked'
  BY <1>1, <1>3, <1>6, <1>9, <1>11, <1>13 DEF NotesAreLinked, Linking
<1>16. BareIsRequired'
  BY <1>1, <1>3, <1>4, <1>6 DEF BareIsRequired
<1> QED
  BY <1>1, <1>2, <1>14, <1>15, <1>16 DEF Shows

\* A step of link that links nothing.
LEMMA RoundShows ==
  ASSUME Shows, pc \in Linking, pc' \in Linking, outcome' = outcome, UNCHANGED <<session, target>>
  PROVE  Shows'
<1>1. pc # "done" /\ pc' # "idle"
  BY DEF Linking
<1>2. ForkEvidenceShowsIt' /\ outcome' # "fork"
  BY <1>1, ShowsNothing
<1> QED
  BY <1>1, <1>2 DEF Shows, NotesMatch, NotesAreLinked, BareIsRequired, session

\* A step of link that links a checkpoint: a signed head, or the target where its size is free.
LEMMA LinkShows ==
  ASSUME Inv, Shows, pc \in Linking, pc' \in Linking, outcome' = outcome,
         UNCHANGED <<required, todo, target>>, NEW c \in Note, Remember(c),
         c.signed \/ (c = target /\ Len(c.tree) \notin DOMAIN bySize)
  PROVE  Shows'
<1>1. pc # "done" /\ pc' # "idle"
  BY DEF Linking
<1>2. ForkEvidenceShowsIt' /\ outcome' # "fork"
  BY <1>1, ShowsNothing
<1>3. NotesMatch /\ NotesAreLinked /\ BareIsRequired
  BY <1>1 DEF Shows
<1>4. /\ NotesMatch'
      /\ \A n \in DOMAIN noteBySize' :
           n \in DOMAIN bySize' \/ n \in DOMAIN noteBySize \ DOMAIN bySize
  BY <1>3, RememberMatches DEF BareIsRequired
<1> QED
  BY <1>1, <1>2, <1>3, <1>4 DEF Shows, NotesAreLinked, BareIsRequired

\* link returns with the target linked, and start goes on or is done.
LEMMA ReturnShows ==
  ASSUME Shows, LinkReturn \/ Anchored
  PROVE  Shows'
<1>1. /\ pc \in {"link", "anchor"} /\ pc' \in {"anchor", "ready"} /\ outcome' = outcome
      /\ UNCHANGED <<required, todo, bySize, noteBySize>>
  BY DEF LinkReturn, LinkReturnsTo, Anchored, session
<1>2. ForkEvidenceShowsIt' /\ outcome' # "fork"
  BY <1>1, ShowsNothing
<1>3. NotesMatch /\ NotesAreLinked /\ BareIsRequired
  BY <1>1 DEF Shows
<1>4. DOMAIN noteBySize \subseteq DOMAIN bySize
  <2>1. CASE LinkReturn
    BY <1>3, <2>1 DEF LinkReturn, IsLinked, NotesAreLinked
  <2>2. CASE Anchored
    BY <1>3, <2>2 DEF Anchored, NotesAreLinked, Linking
  <2> QED
    BY <2>1, <2>2
<1> QED
  BY <1>1, <1>2, <1>3, <1>4 DEF Shows, NotesMatch, NotesAreLinked, BareIsRequired, Linking

\* Every fork found among the answers, in link, and by provePrefix can be shown.
LEMMA FindingsShow ==
  ASSUME Inv, Shows, NEW t \in Tree, NEW proof \in BOOLEAN,
         \/ BehindFound(Signed(t), proof) \/ AdvanceFound(Signed(t), proof)
         \/ PrefixFound(Signed(t)) \/ NestedFound(Signed(t), proof)
         \/ LinkFork \/ ProveFound
  PROVE  Shows'
<1>1. pc # "done"
  BY DEF BehindFound, IsBehind, AdvanceFound, AsksAdvance, IsAdvance, PrefixFound, AsksPrefix,
         IsProvePrefix, Rounding, Unlinked, NestedFound, LinkFork, ProveFound
<1>2. \A u \in Tree : Forks(Signed(u)) /\ ForkFound(Signed(u)) => Shows'
  BY <1>1, SignedShape, ForkFoundShows
<1>3. LinkFork => Shows'
  <2> SUFFICES ASSUME LinkFork PROVE Shows'
    OBVIOUS
  <2>1. pc \in Linking /\ Forks(target) /\ ForkFound(target)
    BY DEF LinkFork, Linking
  <2>2. target \in Note /\ (target.signed \/ target.tree \in required)
    BY <1>1, <2>1, TargetShape DEF Shows, BareIsRequired
  <2> QED
    BY <1>1, <2>1, <2>2, ForkFoundShows
<1>4. ProveFound => Shows'
  <2> SUFFICES ASSUME ProveFound PROVE Shows'
    OBVIOUS
  <2>1. ahead.tree \in Tree
    BY DEF ProveFound, Inv, TargetFits, Answers
  <2> QED
    BY <1>2, <2>1, EndShows DEF ProveFound, InconsistentFound
<1> QED
  BY <1>2, <1>3, <1>4, EndShows
  DEF BehindFound, AdvanceFound, PrefixFound, NestedFound, InconsistentFound

LEMMA NextShows == Inv /\ Shows /\ [Next]_vars => Shows'
<1> SUFFICES ASSUME Inv, Shows, [Next]_vars PROVE Shows'
  OBVIOUS
<1>1. CASE \E baselines \in Baselines : Begin(baselines)
  BY <1>1, BeginShows
<1>2. CASE \E t \in Tree : Fetch(t) \/ Relate(t)
  BY <1>2, FetchShows, StartLinkShows
<1>3. CASE \E t \in Tree, proof \in BOOLEAN : Answer(Signed(t), proof)
  <2> PICK t \in Tree, proof \in BOOLEAN : Answer(Signed(t), proof)
    BY <1>3
  <2> DEFINE head == Signed(t)
  <2>1. head \in Note /\ head.signed
    BY SignedShape
  <2> HIDE DEF head
  <2>2. CASE Advance(head, proof) \/ NestedAdvance(head, proof)
    BY <2>1, <2>2, LinkShows
    DEF Advance, AsksAdvance, IsAdvance, Rounding, Unlinked, NestedAdvance, SetLatest, NextRound,
        Linking
  <2>3. CASE AdvanceLags(head) \/ PrefixAnswered(head, proof) \/ NestedLags(head)
    BY <2>3, RoundShows
    DEF AdvanceLags, AsksAdvance, IsAdvance, PrefixAnswered, AsksPrefix, IsProvePrefix, Rounding,
        Unlinked, NestedLags, NextRound, Linking
  <2>4. CASE \/ BehindFound(head, proof) \/ AdvanceFound(head, proof)
             \/ PrefixFound(head) \/ NestedFound(head, proof) \/ Behind(head, proof)
    BY <2>4, FindingsShow, BehindShows DEF head
  <2> QED
    BY <2>2, <2>3, <2>4 DEF Answer, head
<1>4. CASE Failure
  BY <1>4, EndShows DEF Failure, Refused, Unavailable, Unsigned
<1>5. CASE Computation
  <2>1. CASE AnchorLink \/ Anchored \/ LinkReturn
    BY <2>1, StartLinkShows, ReturnShows
  <2>2. CASE LinkFork \/ ProveFound
    <3>1. pc \in Active
      BY <2>2 DEF LinkFork, ProveFound, Active, Linking
    <3>2. latest.tree \in Tree
      BY <3>1, LatestShape
    <3> QED
      BY <2>2, <3>2, FindingsShow
  <2>3. CASE LinkGiveUp
    BY <2>3, EndShows DEF LinkGiveUp
  <2>4. CASE AdvanceFromEmpty \/ PrefixEmpty \/ Prove
    <3>1. /\ pc \in Linking /\ pc' \in Linking /\ outcome' = outcome /\ Remember(target)
          /\ UNCHANGED <<required, todo, target>>
      BY <2>4 DEF AdvanceFromEmpty, IsAdvance, PrefixEmpty, IsProvePrefix, Prove, Rounding,
                  Unlinked, SetLatest, NextRound, Linking
    <3>2. Len(target.tree) \notin DOMAIN bySize
      BY <2>4 DEF AdvanceFromEmpty, IsAdvance, PrefixEmpty, IsProvePrefix, Prove, Rounding,
                  Unlinked, Inv, TargetFits
    <3>3. target \in Note
      BY <3>1, TargetShape
    <3> QED
      BY <3>1, <3>2, <3>3, LinkShows
  <2>5. CASE ProveLags
    BY <2>5, RoundShows DEF ProveLags, NextRound, Linking
  <2> QED
    BY <1>5, <2>1, <2>2, <2>3, <2>4, <2>5 DEF Computation
<1>6. CASE Finish
  BY <1>6 DEF Finish, Shows, ForkEvidenceShowsIt
<1>7. CASE Exit \/ Crash
  <2>1. DOMAIN NoneLinked = {}
    BY NoneShape
  <2> QED
    BY <1>7, <2>1 DEF Exit, Crash, Leave, Shows, ForkEvidenceShowsIt, NotesMatch, NotesAreLinked,
                      BareIsRequired, Linking
<1>8. CASE UNCHANGED vars
  BY <1>8 DEF vars, session, Shows, ForkEvidenceShowsIt, NotesMatch, NotesAreLinked,
              BareIsRequired
<1> QED
  BY <1>1, <1>2, <1>3, <1>4, <1>5, <1>6, <1>7, <1>8 DEF Next

\* Evidence of a fork is two checkpoints of one size with different roots, each with its
\* signed note unless it is a bare pair the caller brought.
THEOREM ForkEvidenceShowsItHolds == Spec => []ForkEvidenceShowsIt
<1>1. Shows => ForkEvidenceShowsIt
  BY DEF Shows
<1> QED
  BY <1>1, ShowsInit, NextShows, Invariance, PTL DEF Spec

----------------------------------------------------------------------------------
(***************************************************************************)
(* An honest log is never accused, and its growth makes a pass give up     *)
(* only if every round but the first was disturbed: for every history,     *)
(* number of rounds and list of baselines.                                 *)
(*                                                                         *)
(* The published trees are a chain of prefixes.  As long as a session      *)
(* holds nothing else, no two roots for one size can meet in it and every  *)
(* claim it checks is true, so that a right proof always convinces it.     *)
(* For the rounds, each answer is either fresh, and then settles what was  *)
(* asked, or late, and then was counted.                                   *)
(***************************************************************************)

\* The published trees are prefixes of each other, told apart by their sizes.
LEMMA Chain ==
  ASSUME published \in 0..Len(History)
  PROVE  /\ \A p \in Published : p \in Tree /\ Len(p) \in 0..published
         /\ \A p, q \in Published : Len(p) <= Len(q) => Extends(q, p)
         /\ \A p, q \in Published : Len(p) = Len(q) => p = q
<1>1. History \in Seq(Leaf) /\ Len(History) \in Nat
  BY HistoryAssumption
<1>2. ASSUME NEW p \in Published
      PROVE  \E n \in 0..published : /\ p = SubSeq(History, 1, n) /\ p \in Tree /\ Len(p) = n
                                     /\ \A i \in 1..n : p[i] = History[i]
  <2> PICK n \in 0..published : p = SubSeq(History, 1, n)
    BY DEF Published
  <2>1. n \in 0..Len(History)
    BY <1>1
  <2>2. p \in Tree
    BY <2>1, HistoryAssumption
  <2>3. Len(p) = n /\ \A i \in 1..n : p[i] = History[i]
    BY <1>1, <2>1
  <2> QED
    BY <2>2, <2>3
<1>3. \A p \in Published : p \in Tree /\ Len(p) \in 0..published
  BY <1>2
<1>4. ASSUME NEW p \in Published, NEW q \in Published, Len(p) <= Len(q)
      PROVE  Extends(q, p)
  BY <1>1, <1>2, <1>4 DEF Extends
<1>5. ASSUME NEW p \in Published, NEW q \in Published, Len(p) = Len(q)
      PROVE  p = q
  BY <1>2, <1>5
<1> QED
  BY <1>3, <1>4, <1>5

\* What a step of the verifier finds published stays so.
LEMMA PublishedStays ==
  ASSUME published' = published
  PROVE  Published' = Published
BY DEF Published

\* A log with one history has one root for a size.
LEMMA NoFork ==
  ASSUME HonestInv, NEW c, c.tree \in Published
  PROVE  ~Forks(c)
BY Chain DEF HonestInv, HoldsPublished, Inv, LinkedBySize, Forks

\* In the middle of a pass latest is a published tree.
LEMMA LatestIsPublished ==
  ASSUME HonestInv, pc \in Active
  PROVE  latest.tree \in Published
BY NoTreeIsNoTree DEF HonestInv, HoldsPublished, Inv, LatestIsLinked, Note, NoNote

\* The next checkpoint to anchor to is a published tree.
LEMMA HeadIsPublished ==
  ASSUME HonestInv, todo # <<>>
  PROVE  Head(todo).tree \in Published
<1>1. todo \in Seq(Note)
  BY DEF HonestInv, Inv, TypeOK
<1>2. 1 \in DOMAIN todo /\ Head(todo) = todo[1]
  BY <1>1
<1> QED
  BY <1>2 DEF HonestInv, HoldsPublished

\* No answer of an honest log is a finding.
LEMMA AnswerIsNoFinding ==
  ASSUME HonestInv, NEW t \in Published, AsksConsistency, Len(t) >= Len(AskedFrom.tree)
  PROVE  /\ ~BehindFound(Signed(t), TRUE) /\ ~AdvanceFound(Signed(t), TRUE)
         /\ ~PrefixFound(Signed(t)) /\ ~NestedFound(Signed(t), TRUE)
<1>1. Signed(t).tree = t /\ ~Forks(Signed(t))
  BY NoFork DEF Signed
<1>2. \A p \in Published : Len(t) >= Len(p) => VerifyConsistency(p, t, TRUE)
  BY Chain DEF HonestInv, HoldsPublished, VerifyConsistency
<1>3. IsBehind => AskedFrom = Head(todo) /\ Head(todo).tree \in Published
  BY HeadIsPublished DEF IsBehind, AskedFrom
<1>4. AsksAdvance \/ pc = "nested" => AskedFrom = latest /\ latest.tree \in Published
  <2> SUFFICES ASSUME AsksAdvance \/ pc = "nested"
               PROVE  AskedFrom = latest /\ latest.tree \in Published
    OBVIOUS
  <2>1. pc \in Active /\ pc \in Linking /\ pc # "anchor"
    BY DEF AsksAdvance, IsAdvance, Rounding, Unlinked, Active, Linking
  <2>2. Len(latest.tree) \in Nat /\ Len(target.tree) \in Nat
    BY <2>1, LatestShape, TargetShape DEF HonestInv
  <2>3. ~AsksPrefix
    BY <2>2 DEF AsksAdvance, IsAdvance, AsksPrefix, IsProvePrefix, Rounding, Unlinked
  <2> QED
    BY <2>1, <2>3, LatestIsPublished DEF AskedFrom
<1>5. \A p \in Published : Len(p) \in Nat
  BY Chain DEF HonestInv, HoldsPublished
<1>6. ~BehindFound(Signed(t), TRUE)
  <2> SUFFICES ASSUME BehindFound(Signed(t), TRUE) PROVE FALSE
    OBVIOUS
  <2>1. IsBehind
    BY DEF BehindFound
  <2>2. PICK p \in Published : p = Head(todo).tree
    BY <1>3, <2>1
  <2>3. Len(t) >= Len(p)
    BY <1>3, <2>1, <2>2
  <2>4. ~(Len(t) < Len(p))
    BY <1>5, <2>3
  <2>5. VerifyConsistency(p, t, TRUE)
    BY <1>2, <2>3
  <2> QED
    BY <1>1, <2>2, <2>4, <2>5 DEF BehindFound
<1>7. ~AdvanceFound(Signed(t), TRUE) /\ ~NestedFound(Signed(t), TRUE)
  BY <1>1, <1>2, <1>4 DEF AdvanceFound, NestedFound
<1>8. ~PrefixFound(Signed(t))
  BY <1>1 DEF PrefixFound
<1> QED
  BY <1>6, <1>7, <1>8

\* Nor is anything that link compares.
LEMMA ComparisonIsNoFinding ==
  ASSUME HonestInv
  PROVE  ~LinkFork /\ ~ProveFound
<1>1. ~LinkFork
  BY NoFork DEF LinkFork, HonestInv, HoldsPublished, Linking
<1>2. ASSUME ProveFound PROVE FALSE
  <2>1. pc = "prove" /\ pc \in Linking /\ pc \in Active
    BY <1>2 DEF ProveFound, Linking, Active
  <2>2. ahead.tree \in Published /\ ahead.proof /\ target.tree \in Published
    BY <2>1 DEF HonestInv, HoldsPublished
  <2>3. ~Forks(Signed(ahead.tree))
    BY <2>2, NoFork DEF Signed
  <2>4. Len(target.tree) <= Len(latest.tree)
    BY <2>1 DEF HonestInv, Inv, TargetFits
  <2>5. VerifyConsistency(target.tree, latest.tree, ahead.proof)
    BY <2>1, <2>2, <2>4, LatestIsPublished, Chain DEF HonestInv, HoldsPublished, VerifyConsistency
  <2> QED
    BY <1>2, <2>3, <2>5 DEF ProveFound
<1> QED
  BY <1>1, <1>2

\* A session with an honest log is a session.
LEMMA HonestIsSession == HonestInv /\ [HonestNext]_honestVars => [Next]_vars
<1> SUFFICES ASSUME HonestInv, [HonestNext]_honestVars PROVE [Next]_vars
  OBVIOUS
<1>1. Published \subseteq Tree
  BY Chain DEF HonestInv, HoldsPublished
<1>2. ASSUME NEW t \in Published, HonestAnswer(t) PROVE Next
  BY <1>1, <1>2 DEF HonestAnswer, Next
<1>3. CASE HonestStep
  BY <1>1, <1>3 DEF HonestStep, Next, Failure
<1>4. CASE UNCHANGED honestVars
  BY <1>4 DEF honestVars
<1>5. ASSUME NEW n \in 1..Len(History), Publish(n) PROVE UNCHANGED vars
  BY <1>5 DEF Publish
<1> QED
  BY <1>2, <1>3, <1>4, <1>5 DEF HonestNext
----------------------------------------------------------------------------------
(***************************************************************************)
(* What every step of a kind leaves to be shown.                           *)
(***************************************************************************)

\* A step that does not end the pass accuses nobody and gives nothing up.
LEMMA GoesOn ==
  ASSUME HonestInv, outcome' = outcome, pc # "done"
  PROVE  NoFalseAccusation' /\ AbsorbsMovement' /\ outcome' # "advancing"
BY DEF HonestInv, RoundsAreDisturbed, NoFalseAccusation, AbsorbsMovement

\* Linking a published tree leaves only published trees linked.
LEMMA RememberPublished ==
  ASSUME HonestInv, NEW c, c.tree \in Published, Remember(c)
  PROVE  /\ \A n \in DOMAIN bySize' : bySize'[n] \in Published
         /\ DOMAIN bySize' = DOMAIN bySize \cup {Len(c.tree)}
<1>1. \A n \in DOMAIN bySize : bySize[n] \in Published
  BY DEF HonestInv, HoldsPublished
<1> QED
  BY <1>1 DEF Remember, Put

\* What is left of the list of checkpoints to anchor to was on it.
LEMMA TailPublished ==
  ASSUME HonestInv, todo # <<>>
  PROVE  \A i \in DOMAIN Tail(todo) : Tail(todo)[i].tree \in Published
<1>1. todo \in Seq(Note) /\ \A i \in DOMAIN todo : todo[i].tree \in Published
  BY DEF HonestInv, HoldsPublished, Inv, TypeOK
<1>2. \A i \in DOMAIN Tail(todo) : i + 1 \in DOMAIN todo /\ Tail(todo)[i] = todo[i + 1]
  BY <1>1
<1> QED
  BY <1>1, <1>2

\* Outside link nothing is counted.
LEMMA CountsNothing ==
  ASSUME HonestInv, NEW happened \in BOOLEAN, Count(happened), pc' \notin Linking
  PROVE  disturbed' \in Nat
BY DEF HonestInv, RoundsAreDisturbed, Count

\* Nothing is published or linked before the first pass.
LEMMA HonestInitInv == HonestInit => HonestInv
<1> SUFFICES ASSUME HonestInit PROVE HonestInv
  OBVIOUS
<1> USE DEF HonestInit, Init, Idle
<1>1. Inv
  BY InitInv
<1>2. published \in 0..Len(History)
  BY HistoryAssumption
<1>3. HoldsPublished
  BY <1>2, NoneShape DEF HoldsPublished, Linking
<1>4. RoundsAreDisturbed /\ NoFalseAccusation /\ AbsorbsMovement
  BY DEF RoundsAreDisturbed, NoFalseAccusation, AbsorbsMovement, Linking, Findings, Unlinked
<1> QED
  BY <1>1, <1>3, <1>4 DEF HonestInv

\* Publishing leaves the verifier as it is, and counts against the round it is in.
LEMMA PublishInv ==
  ASSUME HonestInv, NEW n \in 1..Len(History), Publish(n)
  PROVE  HonestInv'
<1>1. Inv'
  BY NextInv DEF HonestInv, Publish
<1>2. published \in Nat /\ published' = n /\ published < n /\ published' \in 0..Len(History)
  BY HistoryAssumption DEF HonestInv, HoldsPublished, Publish
<1>3. Published \subseteq Published'
  BY <1>2 DEF Published
<1>4. HoldsPublished'
  BY <1>2, <1>3 DEF HonestInv, HoldsPublished, Publish, vars, session
<1>5. NoFalseAccusation'
  BY DEF HonestInv, NoFalseAccusation, Publish, vars
<1>6. CASE pc \in Linking
  <2>1. disturbed \in Nat /\ disturbed' = disturbed + 1
    BY <1>6 DEF HonestInv, RoundsAreDisturbed, Publish, Count
  <2>2. round \in Nat /\ MaxRelateAttempts \in Nat
    BY AttemptsAssumption DEF HonestInv, Inv, TypeOK
  <2>3. pc \in {"nested", "prove"} => Len(target.tree) \notin DOMAIN bySize
    BY DEF HonestInv, Inv, TargetFits
  <2> QED
    BY <1>1, <1>4, <1>5, <1>6, <2>1, <2>2, <2>3
    DEF HonestInv, RoundsAreDisturbed, AbsorbsMovement, Publish, vars, session, Linking, Unlinked
<1>7. CASE pc \notin Linking
  <2>1. /\ disturbed' = IF pc = "done" THEN disturbed ELSE 0
        /\ pc' = pc /\ outcome' = outcome
    BY <1>7 DEF Publish, Count, vars
  <2> QED
    BY <1>1, <1>4, <1>5, <1>7, <2>1
    DEF HonestInv, RoundsAreDisturbed, AbsorbsMovement, Linking, Unlinked
<1> QED
  BY <1>6, <1>7
----------------------------------------------------------------------------------
(***************************************************************************)
(* The answers to a consistency request.                                   *)
(***************************************************************************)

\* What is known when an answer comes: it is the tree asked for, and counted if late.
Answered(t) ==
  /\ HonestInv /\ HonestAnswer(t)
  /\ t \in Published
  /\ Signed(t).tree = t /\ Len(t) \in 0..published
  /\ Published' = Published /\ published' = published

LEMMA BehindHonest ==
  ASSUME NEW t \in Published, Answered(t), Behind(Signed(t), TRUE)
  PROVE  HoldsPublished' /\ RoundsAreDisturbed' /\ NoFalseAccusation' /\ AbsorbsMovement'
<1>1. pc = "anchor" /\ todo # <<>> /\ pc' = "link" /\ outcome' = outcome
  BY DEF Behind, IsBehind, StartLink
<1>2. NoFalseAccusation' /\ AbsorbsMovement' /\ outcome' # "advancing"
  BY <1>1, GoesOn DEF Answered
<1>3. round' = 0 /\ disturbed' = 0
  BY <1>1 DEF Behind, StartLink, Answered, HonestAnswer, Count, Linking
<1>4. RoundsAreDisturbed'
  BY <1>1, <1>2, <1>3 DEF RoundsAreDisturbed
<1>5. latest.tree \in Published /\ Head(todo).tree \in Published
  BY <1>1, LatestIsPublished, HeadIsPublished DEF Answered, Active
<1>6. \A n \in DOMAIN bySize' : bySize'[n] \in Published
  BY <1>5 DEF Behind, Put, Answered, HonestInv, HoldsPublished
<1>7. /\ latest' = Signed(t) /\ target' = latest /\ todo' = Tail(todo) /\ saved' = saved
  BY DEF Behind, StartLink
<1>8. HoldsPublished'
  BY <1>1, <1>5, <1>6, <1>7, TailPublished DEF Answered, HonestInv, HoldsPublished
<1> QED
  BY <1>2, <1>4, <1>8

LEMMA AdvanceLagsHonest ==
  ASSUME NEW t \in Published, Answered(t), AdvanceLags(Signed(t))
  PROVE  HoldsPublished' /\ RoundsAreDisturbed' /\ NoFalseAccusation' /\ AbsorbsMovement'
<1>1. /\ pc = "link" /\ pc' = "link" /\ outcome' = outcome
      /\ Unlinked /\ Len(target.tree) > Len(latest.tree) /\ Len(t) < Len(target.tree)
  BY DEF Answered, AdvanceLags, AsksAdvance, IsAdvance, Rounding, Unlinked, NextRound
<1>2. NoFalseAccusation' /\ AbsorbsMovement' /\ outcome' # "advancing"
  BY <1>1, GoesOn DEF Answered
<1>3. target.tree \in Published /\ Len(target.tree) \in 0..published /\ published \in Nat
  BY <1>1, Chain, HistoryAssumption DEF Answered, HonestInv, HoldsPublished, Linking
<1>4. disturbed' = disturbed + 1
  <2>1. Len(t) < published
    BY <1>1, <1>3 DEF Answered
  <2> QED
    BY <1>1, <2>1 DEF Answered, HonestAnswer, Count, Linking
<1>5. round \in Nat /\ disturbed \in Nat /\ round <= disturbed /\ round' = round + 1
  BY <1>1 DEF Answered, HonestInv, Inv, TypeOK, RoundsAreDisturbed, AdvanceLags, NextRound
<1>6. RoundsAreDisturbed'
  BY <1>1, <1>2, <1>4, <1>5 DEF RoundsAreDisturbed
<1>7. HoldsPublished'
  BY <1>1, <1>3 DEF Answered, HonestInv, HoldsPublished, AdvanceLags, NextRound, session
<1> QED
  BY <1>2, <1>6, <1>7

LEMMA AdvanceHonest ==
  ASSUME NEW t \in Published, Answered(t), Advance(Signed(t), TRUE)
  PROVE  HoldsPublished' /\ RoundsAreDisturbed' /\ NoFalseAccusation' /\ AbsorbsMovement'
<1>1. /\ pc = "link" /\ pc' = "link" /\ outcome' = outcome
      /\ Unlinked /\ Len(target.tree) > Len(latest.tree) /\ Len(t) >= Len(target.tree)
      /\ latest' = Signed(t) /\ target' = target /\ UNCHANGED <<saved, todo>>
      /\ round' = round + 1
  BY DEF Answered, Advance, AsksAdvance, IsAdvance, Rounding, Unlinked, NextRound, SetLatest
<1>2. NoFalseAccusation' /\ AbsorbsMovement' /\ outcome' # "advancing"
  BY <1>1, GoesOn DEF Answered
<1>3. target.tree \in Published /\ Len(target.tree) \in Nat /\ Len(t) \in Nat
  BY <1>1, Chain DEF Answered, HonestInv, HoldsPublished, Linking
<1>4. round \in Nat /\ disturbed \in Nat /\ round <= disturbed
  BY <1>1 DEF Answered, HonestInv, Inv, TypeOK, RoundsAreDisturbed
<1>5. disturbed' = disturbed \/ disturbed' = disturbed + 1
  BY <1>1, <1>4 DEF Answered, HonestAnswer, Count, Linking
<1>6. latest'.tree = t
  BY <1>1 DEF Answered
<1>7. RoundsAreDisturbed'
  <2>1. ~(Len(target'.tree) > Len(latest'.tree))
    BY <1>1, <1>3, <1>6
  <2>2. disturbed' \in Nat /\ round + 1 <= disturbed' + 1
    BY <1>4, <1>5
  <2> QED
    BY <1>1, <1>2, <2>1, <2>2 DEF RoundsAreDisturbed
<1>8. \A n \in DOMAIN bySize' : bySize'[n] \in Published
  BY RememberPublished DEF Answered, Advance, SetLatest
<1>9. HoldsPublished'
  BY <1>1, <1>3, <1>6, <1>8 DEF Answered, HonestInv, HoldsPublished
<1> QED
  BY <1>2, <1>7, <1>9

LEMMA PrefixAnsweredHonest ==
  ASSUME NEW t \in Published, Answered(t), PrefixAnswered(Signed(t), TRUE)
  PROVE  HoldsPublished' /\ RoundsAreDisturbed' /\ NoFalseAccusation' /\ AbsorbsMovement'
<1>1. /\ pc = "link" /\ outcome' = outcome /\ Len(target.tree) \notin DOMAIN bySize
      /\ pc' = (IF Len(t) > Len(latest.tree) THEN "nested" ELSE "prove")
      /\ ahead'.tree = t /\ ahead'.proof = TRUE
      /\ UNCHANGED <<saved, session, target, round>>
  BY DEF Answered, PrefixAnswered, AsksPrefix, IsProvePrefix, Rounding, Unlinked
<1>2. NoFalseAccusation' /\ AbsorbsMovement' /\ outcome' # "advancing"
  BY <1>1, GoesOn DEF Answered
<1>3. target.tree \in Published /\ latest.tree \in Published
  BY <1>1, LatestIsPublished DEF Answered, HonestInv, HoldsPublished, Linking, Active
<1>4. /\ published \in Nat /\ Len(latest.tree) \in 0..published
      /\ Len(t) = Len(latest.tree) => t = latest.tree
  BY <1>3, Chain, HistoryAssumption DEF Answered, HonestInv, HoldsPublished
<1>5. round \in Nat /\ disturbed \in Nat /\ round <= disturbed + 1
  BY <1>1 DEF Answered, HonestInv, Inv, TypeOK, RoundsAreDisturbed, Linking
<1>6. disturbed' = IF Len(t) < published THEN disturbed + 1 ELSE disturbed
  BY <1>1, <1>5 DEF Answered, HonestAnswer, Count, Linking
<1>7. CASE Len(t) < published
  <2>1. round <= disturbed' /\ round <= disturbed' + 1 /\ disturbed' \in Nat
    BY <1>5, <1>6, <1>7
  <2>2. pc' \in {"nested", "prove"} /\ round' = round
    BY <1>1
  <2>3. RoundsAreDisturbed'
    BY <1>2, <2>1, <2>2 DEF RoundsAreDisturbed, Unlinked
  <2>4. HoldsPublished'
    BY <1>1, <1>3 DEF Answered, HonestInv, HoldsPublished, session
  <2> QED
    BY <1>2, <2>3, <2>4
<1>8. CASE Len(t) = published
  <2>1. pc' = "prove" => t = latest.tree
    BY <1>1, <1>4, <1>8
  <2>2. disturbed' = disturbed /\ pc' # "link" /\ latest' = latest
    BY <1>1, <1>6, <1>8 DEF session
  <2>3. RoundsAreDisturbed'
    BY <1>1, <1>2, <1>5, <1>8, <2>1, <2>2 DEF Answered, RoundsAreDisturbed, Unlinked
  <2>4. HoldsPublished'
    BY <1>1, <1>3 DEF Answered, HonestInv, HoldsPublished, session
  <2> QED
    BY <1>2, <2>3, <2>4
<1> QED
  BY <1>4, <1>7, <1>8 DEF Answered

LEMMA NestedHonest ==
  ASSUME NEW t \in Published, Answered(t),
         NestedLags(Signed(t)) \/ NestedAdvance(Signed(t), TRUE)
  PROVE  HoldsPublished' /\ RoundsAreDisturbed' /\ NoFalseAccusation' /\ AbsorbsMovement'
<1>1. /\ pc = "nested" /\ pc' = "prove" /\ outcome' = outcome
      /\ UNCHANGED <<saved, todo, target, round, ahead>>
  BY DEF NestedLags, NestedAdvance, session
<1>2. NoFalseAccusation' /\ AbsorbsMovement' /\ outcome' # "advancing"
  BY <1>1, GoesOn DEF Answered
<1>3. /\ target.tree \in Published /\ ahead.tree \in Published /\ ahead.proof
      /\ Len(ahead.tree) \in 0..published /\ published \in Nat
      /\ Len(t) = Len(ahead.tree) => t = ahead.tree
  BY <1>1, Chain, HistoryAssumption DEF Answered, HonestInv, HoldsPublished, Linking
<1>4. /\ round \in Nat /\ disturbed \in Nat /\ round <= disturbed + 1
      /\ round <= disturbed \/ Len(ahead.tree) = published
  BY <1>1 DEF Answered, HonestInv, Inv, TypeOK, TargetFits, RoundsAreDisturbed, Linking
<1>5. disturbed' = IF Len(t) < published THEN disturbed + 1 ELSE disturbed
  BY <1>1, <1>4 DEF Answered, HonestAnswer, Count, Linking
<1>6. /\ \A n \in DOMAIN bySize' : bySize'[n] \in Published
      /\ latest' # NoNote => latest'.tree \in Published
  <2>1. CASE NestedLags(Signed(t))
    BY <2>1 DEF NestedLags, session, Answered, HonestInv, HoldsPublished
  <2>2. CASE NestedAdvance(Signed(t), TRUE)
    BY <2>2, RememberPublished DEF NestedAdvance, SetLatest, Answered
  <2> QED
    BY <2>1, <2>2
<1>7. HoldsPublished'
  BY <1>1, <1>3, <1>6 DEF Answered, HonestInv, HoldsPublished
<1>8. round <= disturbed' \/ ahead.tree = latest'.tree
  <2>1. CASE Len(t) < published
    BY <1>4, <1>5, <2>1
  <2>2. CASE Len(t) = published /\ NestedLags(Signed(t))
    BY <1>3, <2>2 DEF NestedLags, Answered
  <2>3. CASE Len(t) = published /\ NestedAdvance(Signed(t), TRUE)
    <3>1. latest'.tree = t
      BY <2>3 DEF NestedAdvance, SetLatest, Answered
    <3> QED
      BY <1>3, <1>4, <1>5, <2>3, <3>1
  <2> QED
    <3>1. Len(t) < published \/ Len(t) = published
      BY <1>3 DEF Answered
    <3> QED
      BY <2>1, <2>2, <2>3, <3>1
<1>9. disturbed' \in Nat /\ round <= disturbed' + 1
  BY <1>4, <1>5
<1>10. RoundsAreDisturbed'
  BY <1>1, <1>2, <1>8, <1>9 DEF RoundsAreDisturbed, Unlinked
<1> QED
  BY <1>2, <1>7, <1>10

\* Whatever it is in answer to, an answer of an honest log keeps the invariant.
LEMMA AnswerInv ==
  ASSUME HonestInv, NEW t \in Published, HonestAnswer(t)
  PROVE  HonestInv'
<1>1. Answered(t)
  BY Chain, PublishedStays DEF Answered, HonestAnswer, HonestInv, HoldsPublished, Signed
<1>2. Inv'
  BY HonestIsSession, NextInv DEF HonestNext, HonestInv
<1>3. HoldsPublished' /\ RoundsAreDisturbed' /\ NoFalseAccusation' /\ AbsorbsMovement'
  BY <1>1, AnswerIsNoFinding, BehindHonest, AdvanceLagsHonest, AdvanceHonest,
     PrefixAnsweredHonest, NestedHonest DEF HonestAnswer, Answer
<1> QED
  BY <1>2, <1>3 DEF HonestInv
----------------------------------------------------------------------------------
(***************************************************************************)
(* The steps that the verifier takes by itself.                            *)
(***************************************************************************)
Stepping ==
  /\ HonestInv /\ Count(FALSE)
  /\ published' = published /\ Published' = Published

\* Outside link nothing counts as a disturbance, and a step into link starts counting.
LEMMA OutsideHonest ==
  ASSUME Stepping, outcome' = outcome \/ outcome' = "none", pc # "done",
         \/ pc \notin Linking /\ pc' = "link" /\ round' = 0
         \/ pc' \notin Linking \cup {"done"}
  PROVE  RoundsAreDisturbed' /\ NoFalseAccusation' /\ AbsorbsMovement'
<1>1. NoFalseAccusation' /\ AbsorbsMovement' /\ outcome' # "advancing"
  BY DEF Stepping, HonestInv, RoundsAreDisturbed, NoFalseAccusation, AbsorbsMovement, Findings
<1>2. disturbed \in Nat
  BY DEF Stepping, HonestInv, RoundsAreDisturbed
<1>3. CASE pc \notin Linking /\ pc' = "link" /\ round' = 0
  <2>1. disturbed' = 0
    BY <1>3 DEF Stepping, Count
  <2> QED
    BY <1>1, <1>3, <2>1 DEF RoundsAreDisturbed
<1>4. CASE pc' \notin Linking \cup {"done"}
  <2>1. disturbed' \in Nat
    BY <1>2, <1>4 DEF Stepping, Count
  <2> QED
    BY <1>1, <1>4, <2>1 DEF RoundsAreDisturbed, Linking, Unlinked
<1> QED
  BY <1>3, <1>4

\* Loading a saved checkpoint and baselines that the log published.
LEMMA BeginHonest ==
  ASSUME Stepping, NEW baselines \in Baselines,
         \A i \in DOMAIN baselines : baselines[i].tree \in Published, Begin(baselines)
  PROVE  HoldsPublished' /\ RoundsAreDisturbed' /\ NoFalseAccusation' /\ AbsorbsMovement'
<1>1. /\ pc = "idle" /\ pc' = "fetch" /\ outcome' = outcome
      /\ UNCHANGED <<saved, bySize, latest>>
  BY DEF Begin
<1>2. RoundsAreDisturbed' /\ NoFalseAccusation' /\ AbsorbsMovement'
  BY <1>1, OutsideHonest DEF Linking
<1>3. baselines \in Seq(Note)
  BY BaselinesAssumption DEF Baselines, Baseline
<1>4. \A i \in DOMAIN todo' : todo'[i].tree \in Published
  <2>1. CASE saved = NoTree
    BY <2>1 DEF Begin
  <2>2. CASE saved # NoTree
    <3>1. saved \in Published /\ todo' = <<Signed(saved)>> \o baselines
      BY <2>2 DEF Begin, Stepping, HonestInv, HoldsPublished
    <3>2. <<Signed(saved)>> \in Seq({Signed(saved)}) /\ Len(<<Signed(saved)>>) = 1
      OBVIOUS
    <3>3. ASSUME NEW i \in DOMAIN todo'
          PROVE  \/ todo'[i] = Signed(saved)
                 \/ i - 1 \in DOMAIN baselines /\ todo'[i] = baselines[i - 1]
      BY <1>3, <3>1, <3>2, <3>3
    <3> QED
      BY <3>1, <3>3 DEF Signed
  <2> QED
    BY <2>1, <2>2
<1>5. HoldsPublished'
  BY <1>1, <1>4 DEF Stepping, HonestInv, HoldsPublished, Linking
<1> QED
  BY <1>2, <1>5

\* A served checkpoint, alone or with a proof, is one the log published.
LEMMA ServedHonest ==
  ASSUME Stepping, NEW t \in Published, Fetch(t) \/ Relate(t)
  PROVE  HoldsPublished' /\ RoundsAreDisturbed' /\ NoFalseAccusation' /\ AbsorbsMovement'
<1>1. /\ pc \in {"fetch", "ready"} /\ outcome' = outcome
      /\ pc' = "anchor" \/ (pc' = "link" /\ round' = 0)
  <2>1. CASE Fetch(t)
    BY <2>1 DEF Fetch
  <2>2. CASE Relate(t)
    BY <2>2 DEF Relate, StartLink
  <2> QED
    BY <2>1, <2>2
<1>2. RoundsAreDisturbed' /\ NoFalseAccusation' /\ AbsorbsMovement'
  BY <1>1, OutsideHonest DEF Linking
<1>3. HoldsPublished'
  BY DEF Fetch, Relate, StartLink, session, Signed, Stepping, HonestInv, HoldsPublished, Linking
<1> QED
  BY <1>2, <1>3

\* Between the checkpoints to anchor to, and on the way out of link.
LEMMA AnchoringHonest ==
  ASSUME Stepping, AnchorLink \/ Anchored \/ LinkReturn
  PROVE  HoldsPublished' /\ RoundsAreDisturbed' /\ NoFalseAccusation' /\ AbsorbsMovement'
<1>1. CASE AnchorLink
  <2>1. /\ pc = "anchor" /\ todo # <<>> /\ pc' = "link" /\ round' = 0 /\ outcome' = outcome
        /\ target' = Head(todo) /\ todo' = Tail(todo) /\ UNCHANGED <<saved, bySize, latest>>
    BY <1>1 DEF AnchorLink, StartLink
  <2>2. RoundsAreDisturbed' /\ NoFalseAccusation' /\ AbsorbsMovement'
    BY <2>1, OutsideHonest DEF Linking
  <2>3. HoldsPublished'
    BY <2>1, HeadIsPublished, TailPublished DEF Stepping, HonestInv, HoldsPublished
  <2> QED
    BY <2>2, <2>3
<1>2. CASE Anchored \/ LinkReturn
  <2>1. /\ pc \in {"anchor", "link"} /\ pc' \in {"anchor", "ready"} /\ outcome' = outcome
        /\ UNCHANGED <<saved, bySize, latest, todo>>
    BY <1>2 DEF Anchored, LinkReturn, LinkReturnsTo, session
  <2>2. RoundsAreDisturbed' /\ NoFalseAccusation' /\ AbsorbsMovement'
    BY <2>1, OutsideHonest DEF Linking
  <2>3. HoldsPublished'
    BY <2>1 DEF Stepping, HonestInv, HoldsPublished, Linking
  <2> QED
    BY <2>2, <2>3
<1> QED
  BY <1>1, <1>2

\* The ends of a pass that an honest log can bring about.
LEMMA EndsHonest ==
  ASSUME Stepping, Unavailable \/ Finish \/ LinkGiveUp
  PROVE  HoldsPublished' /\ RoundsAreDisturbed' /\ NoFalseAccusation' /\ AbsorbsMovement'
<1>1. pc' = "done" /\ UNCHANGED <<saved, session>>
  BY DEF Unavailable, Finish, LinkGiveUp, End
<1>2. HoldsPublished'
  BY <1>1 DEF Stepping, HonestInv, HoldsPublished, session, Linking
<1>3. disturbed \in Nat /\ disturbed' = disturbed
  BY <1>1 DEF Stepping, HonestInv, RoundsAreDisturbed, Count
<1>4. RoundsAreDisturbed'
  BY <1>1, <1>3 DEF RoundsAreDisturbed, Linking, Unlinked
<1>5. NoFalseAccusation' /\ AbsorbsMovement'
  <2>1. CASE Unavailable \/ Finish
    BY <2>1 DEF Unavailable, Finish, End, NoFalseAccusation, AbsorbsMovement, Findings
  <2>2. CASE LinkGiveUp
    <3>1. MaxRelateAttempts <= disturbed + 1 /\ MaxRelateAttempts \in Nat
      BY <2>2, AttemptsAssumption
      DEF LinkGiveUp, Unlinked, Linking, Stepping, HonestInv, RoundsAreDisturbed
    <3>2. outcome' = "advancing"
      BY <2>2 DEF LinkGiveUp, End
    <3> QED
      BY <1>3, <3>1, <3>2 DEF NoFalseAccusation, AbsorbsMovement, Findings
  <2> QED
    BY <2>1, <2>2
<1> QED
  BY <1>2, <1>4, <1>5

\* What is saved is the newest verified checkpoint, which the log published.
LEMMA LeavesHonest ==
  ASSUME Stepping, Exit \/ Crash
  PROVE  HoldsPublished' /\ RoundsAreDisturbed' /\ NoFalseAccusation' /\ AbsorbsMovement'
<1>1. Leave
  BY DEF Exit, Crash
<1>2. saved' \in Published \cup {NoTree}
  <2>1. CASE Exit /\ Saves
    <3>1. latest.tree \in Published /\ anchor = latest.tree
      BY <2>1, NoTreeIsNoTree
      DEF Saves, Stepping, HonestInv, Inv, AnchoredHolds, HoldsPublished, Note, NoNote
    <3> QED
      BY <2>1, <3>1 DEF Exit
  <2>2. CASE ~(Exit /\ Saves)
    BY <2>2 DEF Exit, Crash, Stepping, HonestInv, HoldsPublished
  <2> QED
    BY <2>1, <2>2
<1>3. HoldsPublished'
  BY <1>1, <1>2, NoneShape DEF Leave, Stepping, HonestInv, HoldsPublished, Linking
<1>4. disturbed' \in Nat
  BY DEF Stepping, HonestInv, RoundsAreDisturbed, Count
<1>5. RoundsAreDisturbed' /\ NoFalseAccusation' /\ AbsorbsMovement'
  BY <1>1, <1>4
  DEF Leave, RoundsAreDisturbed, NoFalseAccusation, AbsorbsMovement, Linking, Findings, Unlinked
<1> QED
  BY <1>3, <1>5

\* The rounds that link the target without asking, or find their answer comparable.
LEMMA LinksTargetHonest ==
  ASSUME Stepping, AdvanceFromEmpty \/ PrefixEmpty \/ Prove
  PROVE  HoldsPublished' /\ RoundsAreDisturbed' /\ NoFalseAccusation' /\ AbsorbsMovement'
<1>1. /\ pc \in Linking /\ pc # "done" /\ pc' = "link" /\ outcome' = outcome /\ Remember(target)
      /\ UNCHANGED <<saved, todo, target>> /\ latest' \in {latest, target}
  BY DEF AdvanceFromEmpty, IsAdvance, PrefixEmpty, IsProvePrefix, Prove, Rounding, Unlinked,
         NextRound, SetLatest, Linking
<1>2. NoFalseAccusation' /\ AbsorbsMovement' /\ outcome' # "advancing"
  BY <1>1, GoesOn DEF Stepping
<1>3. target.tree \in Published
  BY <1>1 DEF Stepping, HonestInv, HoldsPublished
<1>4. /\ \A n \in DOMAIN bySize' : bySize'[n] \in Published
      /\ Len(target'.tree) \in DOMAIN bySize'
  BY <1>1, <1>3, RememberPublished DEF Stepping
<1>5. HoldsPublished'
  BY <1>1, <1>3, <1>4 DEF Stepping, HonestInv, HoldsPublished
<1>6. disturbed' \in Nat
  BY DEF Stepping, HonestInv, RoundsAreDisturbed, Count
<1>7. RoundsAreDisturbed'
  BY <1>1, <1>2, <1>4, <1>6 DEF RoundsAreDisturbed, Unlinked
<1> QED
  BY <1>2, <1>5, <1>7

\* An answer that latest has left behind was late, or the log moved while it was held.
LEMMA ProveLagsHonest ==
  ASSUME Stepping, ProveLags
  PROVE  HoldsPublished' /\ RoundsAreDisturbed' /\ NoFalseAccusation' /\ AbsorbsMovement'
<1>1. /\ pc = "prove" /\ pc' = "link" /\ outcome' = outcome /\ ahead.tree # latest.tree
      /\ round' = round + 1 /\ UNCHANGED <<saved, session, target>>
  BY DEF ProveLags, NextRound
<1>2. NoFalseAccusation' /\ AbsorbsMovement' /\ outcome' # "advancing"
  BY <1>1, GoesOn DEF Stepping
<1>3. HoldsPublished'
  BY <1>1 DEF Stepping, HonestInv, HoldsPublished, session, Linking
<1>4. round \in Nat /\ disturbed \in Nat /\ round <= disturbed
  BY <1>1 DEF Stepping, HonestInv, Inv, TypeOK, RoundsAreDisturbed
<1>5. disturbed' = disturbed
  BY <1>1, <1>4 DEF Stepping, Count, Linking
<1>6. Len(target.tree) \in Nat /\ Len(latest.tree) \in Nat /\ Len(target.tree) <= Len(latest.tree)
  BY <1>1, TargetShape, LatestShape DEF Stepping, HonestInv, Inv, TargetFits, Linking, Active
<1>7. ~(Len(target'.tree) > Len(latest'.tree))
  BY <1>1, <1>6 DEF session
<1>8. disturbed' \in Nat /\ round' <= disturbed' + 1
  BY <1>1, <1>4, <1>5
<1>9. RoundsAreDisturbed'
  BY <1>1, <1>2, <1>7, <1>8 DEF RoundsAreDisturbed
<1> QED
  BY <1>2, <1>3, <1>9

\* The verifier's own steps keep the invariant.
LEMMA StepInv == ASSUME HonestInv, HonestStep PROVE HonestInv'
<1>1. Stepping
  BY PublishedStays DEF Stepping, HonestStep
<1>2. Inv'
  BY HonestIsSession, NextInv DEF HonestNext, HonestInv
<1>3. HoldsPublished' /\ RoundsAreDisturbed' /\ NoFalseAccusation' /\ AbsorbsMovement'
  BY <1>1, BeginHonest, ServedHonest, AnchoringHonest, EndsHonest, LeavesHonest,
     LinksTargetHonest, ProveLagsHonest, ComparisonIsNoFinding DEF HonestStep, Computation
<1> QED
  BY <1>2, <1>3 DEF HonestInv

\* The invariant is inductive.
LEMMA HonestNextInv == HonestInv /\ [HonestNext]_honestVars => HonestInv'
<1> SUFFICES ASSUME HonestInv, [HonestNext]_honestVars PROVE HonestInv'
  OBVIOUS
<1>1. CASE UNCHANGED honestVars
  <2>1. Inv'
    BY <1>1, NextInv DEF honestVars, HonestInv
  <2>2. Published' = Published /\ UNCHANGED <<published, disturbed>> /\ UNCHANGED vars
    BY <1>1, PublishedStays DEF honestVars
  <2> QED
    BY <2>1, <2>2 DEF HonestInv, HoldsPublished, RoundsAreDisturbed, NoFalseAccusation,
                      AbsorbsMovement, Unlinked, vars, session
<1> QED
  BY <1>1, PublishInv, AnswerInv, StepInv DEF HonestNext
----------------------------------------------------------------------------------
\* A session with an honest log, whatever is published between its requests, is a
\* session in the sense of Session: all that is proved of one holds of it.
THEOREM HonestSessions == HonestSpec => Spec
<1>1. HonestInit => Init
  BY DEF HonestInit
<1> QED
  BY <1>1, HonestInitInv, HonestNextInv, HonestIsSession, PTL DEF HonestSpec, Spec

\* No order of publications and lagging reads makes the verifier report an honest
\* log as forked, shrunk or inconsistent.
THEOREM NoFalseAccusationHolds == HonestSpec => []NoFalseAccusation
<1>1. HonestInv => NoFalseAccusation
  BY DEF HonestInv
<1> QED
  BY <1>1, HonestInitInv, HonestNextInv, PTL DEF HonestSpec

\* "A bounded number of rounds absorbs the movement": giving up takes a disturbance in
\* every round but the first, however many rounds link makes.
THEOREM AbsorbsMovementHolds == HonestSpec => []AbsorbsMovement
<1>1. HonestInv => AbsorbsMovement
  BY DEF HonestInv
<1> QED
  BY <1>1, HonestInitInv, HonestNextInv, PTL DEF HonestSpec
==================================================================================
