----------------------------------- MODULE Leaf -----------------------------------
(***************************************************************************)
(* What a served event can be in the log (leaf/leaf.go).  An event's bytes *)
(* are abstracted to its content, the projected fields every release knows,*)
(* and its user_profile_id, which only the 0x02 entry commits.  The leaf   *)
(* index is no part of any entry: serving it or not changes no hash.       *)
(***************************************************************************)
EXTENDS Naturals, Sequences

CONSTANTS
  Content,    \* what field set v1 commits of an event, its id included
  Profile,    \* user_profile_id values
  NoProfile   \* an event that carries none

ASSUME NoProfileAssumption == NoProfile \notin Profile

Body == [content : Content, profile : Profile \cup {NoProfile}]

Entry(b) == [version |-> 2, content |-> b.content, profile |-> b.profile]

\* The entry over field set v1: what a release that knew only 0x01 would build.
OldEntry(b) == [version |-> 1, content |-> b.content, profile |-> NoProfile]

LeafHash == {Entry(b) : b \in Body} \cup {OldEntry(b) : b \in Body}

\* The leaf hash under the newest version.
Hash(b) == Entry(b)

\* No 0x01 entry commits a user_profile_id, so only an event without one can be
\* logged as one.
Hashes(b) == IF b.profile = NoProfile THEN {Entry(b), OldEntry(b)} ELSE {Entry(b)}

\* Whether some release would have recorded h from this serving; says nothing of
\* what the log holds.
RecordedFrom(b, h) == h \in {Entry(b), OldEntry(b)}
==================================================================================
