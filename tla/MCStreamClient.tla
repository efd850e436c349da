-------------------------- MODULE MCStreamClient --------------------------
(* Two cameras, one of a remote (its name has a colon) and one whose name is  *)
(* the same but for a + in its place, with calls and connections enough for   *)
(* an add, a remove and a getStream at once around a reconnection.            *)
EXTENDS StreamClient, TLC

CONSTANTS c1, c2, g1

MCNames == {<<"east", ":", "cam">>, <<"east", "+", "cam">>}
MCCalls == {c1, c2}
CallSymmetry == Permutations(MCCalls)
MCAsks == {g1}
===========================================================================
