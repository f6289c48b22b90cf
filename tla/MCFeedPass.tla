------------------------------- MODULE MCFeedPass --------------------------------
(* FeedPass for one event whose leaf the log committed twice, once by each schema *)
(* version, so that two indices both verify; a second content, the same content   *)
(* with a profile, and a copy without its index are served too.                   *)
EXTENDS FeedPass

MCContent == {"c", "tampered"}
MCProfile == {"p"}
MCBody == [content |-> "c", profile |-> NoProfile]
MCWithProfile == [content |-> "c", profile |-> "p"]
MCTampered == [content |-> "tampered", profile |-> NoProfile]
MCOldHash == [version |-> 1, content |-> "c", profile |-> NoProfile]

MCId == {"e"}
MCLog == <<MCOldHash, [version |-> 2, content |-> "c", profile |-> NoProfile]>>

MCCopy(index, body, created) ==
  [id |-> "e", index |-> index, body |-> body, created |-> created]
MCCopies(created) ==
  {MCCopy(Null, MCBody, created), MCCopy(0, MCBody, created), MCCopy(1, MCBody, created),
   MCCopy(0, MCWithProfile, created), MCCopy(0, MCTampered, created),
   MCCopy(Null, Unparsable, created)}

\* Pages of one copy, created at the first reading of the clock or, for one of them, at
\* the second, and pages of two: a superseded null index, two contents, two indices, one that does not parse.
MCPairs ==
  LET copy(index, body) == MCCopy(index, body, 1)
  IN {<<copy(Null, MCBody), copy(0, MCBody)>>, <<copy(0, MCBody), copy(0, MCTampered)>>,
      <<copy(1, MCBody), copy(0, MCBody)>>, <<copy(Null, Unparsable), copy(0, MCBody)>>}
MCPages == {<<>>} \cup {<<copy>> : copy \in MCCopies(1)} \cup {<<MCCopy(0, MCBody, 2)>>} \cup MCPairs

\* A first run, and the records a release that knew only 0x01 leaves.
MCFiles ==
  {NoFeedState,
   [highWater |-> 1, done |-> <<>>,
    pending |-> [id \in MCId |-> [index |-> 1, firstSeen |-> 1,
                                  hash |-> MCOldHash, hashes |-> {MCOldHash}]]]}

LOCAL INSTANCE SequencesExt
\* What Coalesce says in closed form is what the loop comes to, in the loop's order.
ASSUME CoalesceIsTheLoop ==
  LET raws == [id : {"e", "f"}, index : {Null, 0, 1}, created : 1..2,
               body : {MCBody, MCTampered, Unparsable}]
      Plain(c) == [id |-> c.id, index |-> c.index, body |-> c.body,
                   created |-> c.created, conflict |-> c.conflict]
  IN \A n \in 0..3 : \A page \in [1..n -> raws] :
       LET copies == SetToSortSeq(Coalesce(page), LAMBDA a, b : a.at < b.at)
       IN CoalesceLoop(page) = [i \in DOMAIN copies |-> Plain(copies[i])]
==================================================================================
