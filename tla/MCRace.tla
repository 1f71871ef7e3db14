------------------------------- MODULE MCRace -------------------------------
(* raceSuccessful() of a promise and of the join of two others. *)
EXTENDS PromiseTree

RaceOverJoin == {[kind |-> <<"race", "leaf", "all", "leaf", "leaf">>,
                  kids |-> <<<<2, 3>>, <<>>, <<4, 5>>, <<>>, <<>>>>]}
=============================================================================
