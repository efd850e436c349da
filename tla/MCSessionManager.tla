-------------------------- MODULE MCSessionManager --------------------------
(* Three monitored calls: one starts the session, one waits for it or uses  *)
(* it, and one may start the next session after a reset.                    *)
EXTENDS SessionManager

CONSTANTS c1, c2, c3

MCCallers == {c1, c2, c3}
=============================================================================
