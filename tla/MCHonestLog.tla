------------------------------- MODULE MCHonestLog -------------------------------
(* HonestLog over a history of five leaves: long enough for the head to move in *)
(* every round of a link that started with the target already behind it.       *)
EXTENDS HonestLog

MCLeaf == {"a"}
MCHistory == <<"a", "a", "a", "a", "a">>
MCTree == {SubSeq(MCHistory, 1, n) : n \in 0..5}
==================================================================================
