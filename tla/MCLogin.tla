------------------------------- MODULE MCLogin -------------------------------
(* Two client processes at a time, for TLC. *)
EXTENDS Login
CONSTANTS p1, p2

MCTails == {<<"there", "here">>}
=============================================================================
