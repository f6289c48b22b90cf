--------------------------------- MODULE LogView ---------------------------------
(***************************************************************************)
(* What the passes of a verifier promise about the log, with no mention of *)
(* requests, proofs or rounds: a pass adopts a head only if it extends the *)
(* tree kept from earlier passes, its head only ever grows, and what it    *)
(* leaves for the next pass is the newest head it adopted, or nothing new. *)
(***************************************************************************)
EXTENDS Trees

CONSTANT NoTree   \* no checkpoint

VARIABLES
  head,   \* the head the running pass vouches for, NoTree before it has one
  kept    \* the checkpoint the next pass will hold the log to

Init == head = NoTree /\ kept = NoTree

\* A pass takes its first head.
Adopt(t) ==
  /\ head = NoTree
  /\ kept # NoTree => Extends(t, kept)
  /\ head' = t
  /\ UNCHANGED kept

\* The log was seen to have grown.
Grow(t) ==
  /\ head # NoTree
  /\ Extends(t, head)
  /\ head' = t
  /\ UNCHANGED kept

\* The pass ends and its head is what the next one starts from.
Keep ==
  /\ head # NoTree
  /\ kept' = head
  /\ head' = NoTree

\* The pass ends and leaves nothing new.
Abandon ==
  /\ head # NoTree
  /\ head' = NoTree
  /\ UNCHANGED kept

Next == \/ \E t \in Tree : Adopt(t) \/ Grow(t)
        \/ Keep
        \/ Abandon

Spec == Init /\ [][Next]_<<head, kept>>
==================================================================================
