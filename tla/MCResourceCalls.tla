-------------------------- MODULE MCResourceCalls --------------------------
(* One resource client, of a few classes that between them have a method of   *)
(* every kind, and one method of each kind a class has.  The second call      *)
(* streams the ticks of a board, beside any other call of it, and to the      *)
(* same queue when both do.                                                   *)
EXTENDS ResourceCalls

CONSTANTS r1, c1, c2

Alike(m, n) == m.class = n.class /\ m.gives = n.gives
               /\ (Path(m) \in DefaultMonitored <=> Path(n) \in DefaultMonitored)
Shown == {m \in AllMethods :
            /\ m.class \in {"Arm", "AudioIn", "Board", "Motor", "Slam", "Switch", "Video", "Robot"}
            /\ m = CHOOSE n \in AllMethods : Alike(m, n)}
Second == {m \in AllMethods : Path(m) = <<"Board", "StreamTicks">>}

MCClients == {r1}
MCCalls == {c1, c2}
MCCallable == [c \in MCCalls |-> IF c = c1 THEN Shown ELSE Second]
AnyCallable == [c \in MCCalls |-> IF c = c1 THEN AllMethods ELSE {}]
MCClasses == {m.class : m \in Shown} \ {"Robot"}
MCKeys == {"dtname"}
MCRobotServices == {"Motor", "Board"}
MCRobotMonitors == {<<"Motor", "SetPower">>, <<"Motor", "GoFor">>}
===========================================================================
