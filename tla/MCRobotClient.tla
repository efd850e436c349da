--------------------------- MODULE MCRobotClient ---------------------------
(* One or two dials and a connect of the application.  The configurations   *)
(* of the dials: WebRTC and reconnecting, on a local host so that the gRPC  *)
(* phase can succeed, with a maximum of attempts and a timer or with        *)
(* neither; or WebRTC with noReconnect.                                     *)
EXTENDS RobotClient

CONSTANTS d1, d2, c1

MCDials    == {d1, d2}
MCOneDial  == {d1}
MCConnects == {c1}
MCEmpty    == {}
MCDefault  == [d \in Dials |-> "unset"]
MCMixed    == [d \in Dials |-> IF d = d1 THEN "unset" ELSE "yes"]
=============================================================================
