-------------------------------- MODULE MCCommand --------------------------------
(* Command with a client of three tries.  Durations are scaled down with the     *)
(* largest one, so that the third try's unclamped shift and a hint of two        *)
(* seconds both wrap.                                                            *)
EXTENDS Command

MCRequest == {"checkpoint", "consistency", "activities", "inclusion"}
MCStatus == {400, 401, 404, 429, 500}
MCHint == {NoHint,
           [form |-> "seconds", n |-> -1], [form |-> "seconds", n |-> 2],
           [form |-> "date", n |-> -3], [form |-> "date", n |-> 3]}
==================================================================================
