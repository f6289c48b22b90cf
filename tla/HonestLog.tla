-------------------------------- MODULE HonestLog --------------------------------
(***************************************************************************)
(* Session against a log that keeps its promises: it only appends to one   *)
(* history, and its consistency endpoint answers with a right proof to a   *)
(* head it published that covers the size asked from.  It may publish      *)
(* between any two requests, and any read may be served by a replica that  *)
(* is behind, so heads go back and forth within what was published.        *)
(*                                                                         *)
(* Session shows that a dishonest log is not believed; this module shows   *)
(* that an honest one is not accused, and what it takes for its ordinary   *)
(* growth to make a pass give up.                                          *)
(***************************************************************************)
EXTENDS Session

CONSTANT History   \* the leaves the log will ever hold

ASSUME HistoryAssumption ==
  /\ History \in Seq(Leaf)
  /\ \A n \in 0..Len(History) : SubSeq(History, 1, n) \in Tree

VARIABLES
  published,   \* the size of the newest published checkpoint
  disturbed    \* publications and reads from behind since link was called

honestVars == <<vars, published, disturbed>>

Published == {SubSeq(History, 1, n) : n \in 0..published}

HonestInit == Init /\ published = 0 /\ disturbed = 0

Count(happened) ==
  disturbed' = IF pc \in Linking THEN disturbed + (IF happened THEN 1 ELSE 0)
               ELSE IF pc' = "done" THEN disturbed ELSE 0

\* The log sequences pending leaves and publishes a checkpoint over them.
Publish(n) ==
  /\ n \in published + 1 .. Len(History)
  /\ published' = n
  /\ UNCHANGED vars
  /\ Count(TRUE)

\* A consistency request is answered, perhaps by a replica behind the newest head.
HonestAnswer(t) ==
  /\ AsksConsistency
  /\ Len(t) >= Len(AskedFrom.tree)
  /\ Answer(Signed(t), TRUE)
  /\ UNCHANGED published
  /\ Count(Len(t) < published)

HonestStep ==
  /\ \/ \E baselines \in Baselines :
          /\ \A i \in DOMAIN baselines : baselines[i].tree \in Published
          /\ Begin(baselines)
     \/ \E t \in Published : Fetch(t) \/ Relate(t)
     \/ Computation
     \/ Unavailable
     \/ Finish \/ Exit \/ Crash
  /\ UNCHANGED published
  /\ Count(FALSE)

HonestNext ==
  \/ \E n \in 1..Len(History) : Publish(n)
  \/ \E t \in Published : HonestAnswer(t)
  \/ HonestStep

HonestSpec == HonestInit /\ [][HonestNext]_honestVars
----------------------------------------------------------------------------------
\* No order of publications and lagging reads makes the verifier report an
\* honest log as forked, shrunk or inconsistent.
NoFalseAccusation == outcome \notin Findings

\* link's comment, "a bounded number of rounds absorbs the movement": a pass gives
\* up on a log as still advancing only when every round but the first was
\* disturbed by a publication or by a read from behind.
AbsorbsMovement == outcome = "advancing" => disturbed >= MaxRelateAttempts - 1

(***************************************************************************)
(* The inductive invariant behind both.  All that a verifier holds of an   *)
(* honest log are prefixes of one history.  A round leaves the target      *)
(* unlinked only when an answer came from behind, when the log grew past   *)
(* the answer held, or, once, because it moved latest past the target.     *)
(***************************************************************************)
HoldsPublished ==
  /\ published \in 0..Len(History)
  /\ saved \in Published \cup {NoTree}
  /\ \A i \in DOMAIN todo : todo[i].tree \in Published
  /\ \A n \in DOMAIN bySize : bySize[n] \in Published
  /\ latest # NoNote => latest.tree \in Published
  /\ pc \in Linking => target.tree \in Published
  /\ pc \in {"nested", "prove"} => ahead.tree \in Published /\ ahead.proof

RoundsAreDisturbed ==
  /\ disturbed \in Nat /\ (outcome = "advancing" => pc = "done")
  /\ pc \in Linking /\ Len(target.tree) \notin DOMAIN bySize => round <= disturbed + 1
  /\ Unlinked /\ Len(target.tree) > Len(latest.tree) => round <= disturbed
  /\ pc = "nested" => round <= disturbed \/ Len(ahead.tree) = published
  /\ pc = "prove" => round <= disturbed \/ ahead.tree = latest.tree

HonestInv ==
  /\ Inv
  /\ HoldsPublished /\ RoundsAreDisturbed
  /\ NoFalseAccusation /\ AbsorbsMovement
==================================================================================
