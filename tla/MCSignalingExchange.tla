------------------------ MODULE MCSignalingExchange ------------------------
(* Two candidates: one gathered before the remote description is set and    *)
(* one after it, or both on the same side.                                  *)
EXTENDS SignalingExchange, TLC

CONSTANTS k1, k2

MCCandidates == {k1, k2}
=============================================================================
