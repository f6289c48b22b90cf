------------------------------- MODULE MCStateFile -------------------------------
(* StateFile for two processes of one log and one of another, on one path. *)
EXTENDS StateFile

CONSTANTS p1, p2, p3

MCProc == {p1, p2, p3}
MCOriginOf == [p \in MCProc |-> IF p = p3 THEN "other" ELSE "log"]
==================================================================================
