-------------------------------- MODULE MCSession --------------------------------
(* Session over a history of three leaves and a branch that leaves it after     *)
(* one, as long as the history itself.                                          *)
EXTENDS Session

MCLeaf == {"a", "b"}
MCTree == {<<>>, <<"a">>, <<"a", "a">>, <<"a", "a", "a">>,
           <<"a", "b">>, <<"a", "b", "a">>}

\* A single fork of two leaves: enough for a refusal.
MCSmallTree == {<<>>, <<"a">>, <<"a", "a">>, <<"a", "a", "a">>, <<"a", "b">>}
==================================================================================
