-------------------------- MODULE MCClientChannel --------------------------
(* Two unary and two stream calls on one channel: enough for calls of both  *)
(* kinds to be open, closed, refused and unanswered at the same time.       *)
EXTENDS ClientChannel, TLC

CONSTANTS u1, u2, s1, s2

MCUnary  == {u1, u2}
MCStream == {s1, s2}
MCSymmetry == Permutations(MCUnary) \union Permutations(MCStream)
=============================================================================
