---------------------------------- MODULE Trees ----------------------------------
(***************************************************************************)
(* The Merkle trees that checkpoints commit to (checkpoint/checkpoint.go). *)
(*                                                                         *)
(* A checkpoint is (size, root hash).  Under collision resistance that     *)
(* pair stands for one sequence of leaves, so a tree IS that sequence: its *)
(* length is the size, and two roots for one size are two sequences of one *)
(* length.  A root that commits to no history the log ever had is a tree   *)
(* on a branch of its own.  A proof is abstracted to whether its hashes    *)
(* are the right ones, so that verification succeeds exactly when the      *)
(* served proof is right and the claim it supports is true.                *)
(***************************************************************************)
EXTENDS Naturals, Sequences

CONSTANTS
  Leaf,   \* leaf hashes
  Tree    \* the trees some signed checkpoint commits to

ASSUME TreesAreSequences == Tree \subseteq Seq(Leaf)

\* t holds everything s held, at the same indices: s is a prefix of t.
Extends(t, s) == Len(s) <= Len(t) /\ \A i \in 1..Len(s) : t[i] = s[i]

\* Slip: the proof's hashes are checked against one of the two roots only.
VerifyConsistencyOneRoot(older, newer, proofIsRight) == proofIsRight

\* The check that older is a prefix of newer, given the served proof.
VerifyConsistency(older, newer, proofIsRight) ==
  proofIsRight /\ Extends(newer, older)
==================================================================================
