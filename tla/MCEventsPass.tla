------------------------------- MODULE MCEventsPass ------------------------------
(* EventsPass for the files of at most three rows over two ids and a log of three *)
(* leaves: an event that is logged at index 0 or 2, one at index 1, tampered,      *)
(* unplaced, foreign and unparsable rows.                                         *)
EXTENDS EventsPass

MCContent == {"a", "b", "tampered"}
MCBody(content) == [content |-> content, profile |-> NoProfile]
MCLog == <<[version |-> 1, content |-> "a", profile |-> NoProfile],
           [version |-> 2, content |-> "b", profile |-> NoProfile],
           [version |-> 2, content |-> "a", profile |-> NoProfile]>>

MCEvent(id, index, content) ==
  [kind |-> "event", id |-> id, index |-> index, body |-> MCBody(content)]
MCRows ==
  {MCEvent("a", 0, "a"), MCEvent("a", 2, "a"), MCEvent("b", 1, "b"),
   MCEvent("a", 0, "tampered"), MCEvent("a", Null, "a"),
   [MCEvent("b", 1, "b") EXCEPT !.kind = "foreign"],
   [MCEvent("b", Null, "b") EXCEPT !.kind = "unparsable"],
   [MCEvent("b", Null, "b") EXCEPT !.kind = "other"]}

MCFiles == UNION {[1..n -> MCRows] : n \in 0..3}
==================================================================================
