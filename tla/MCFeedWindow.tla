------------------------------- MODULE MCFeedWindow ------------------------------
(* FeedWindow over four activities: one that can be listed while a pass is past *)
(* it, one listed twice around the stamping of its index, and two late ones, of *)
(* which a full window is one page short.                                       *)
EXTENDS FeedWindow

MCRow(id, created) == [id |-> id, created |-> created]
MCFeed == <<MCRow("a", 1), MCRow("b", 2), MCRow("b", 2), MCRow("c", 4), MCRow("d", 5)>>
==================================================================================
