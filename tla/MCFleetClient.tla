--------------------------- MODULE MCFleetClient ---------------------------
(* Two parts and three calls at once: the first of one method of each kind,      *)
(* with files of up to two chunks and a bit, the others of the kinds whose    *)
(* calls meet, page objects and logs.                                         *)
EXTENDS FleetClient

CONSTANTS c1, c2, c3

Shown == {m \in FleetMethods : m = CHOOSE n \in FleetMethods : n.gives = m.gives}
Met == {m \in FleetMethods : m.rpc \in {"listDataPipelineRuns", "tailRobotPartLogs"}}

MCCalls == {c1, c2, c3}
MCCallable == (c1 :> Shown) @@ (c2 :> Met) @@ (c3 :> {m \in Met : m.gives = "pages"})
MCLabels == {"p1", "p2", "loc"}
MCParts == {<<"p1", "loc">>, <<"p2", "loc">>}
(* The addresses of the parts, two of other domains and one of none that     *)
(* have the name and the location of a part, and two that name no part.      *)
MCHosts == {Fqdn(p) : p \in MCParts} \union
           {<<"p1", "loc">>, <<"p2", "x", "loc", "viam", "other">>,
            <<"p1", "loc", "viam", "x", "viam", "other">>, <<"p1">>, <<"p1", "x", "viam", "cloud">>}
MCFileSizes == {0, 1, 2, 4, 5}

(* Constraint: connectToMachine and the calls share no state, so a machine is *)
(* looked up while no call runs.                                              *)
Apart == (connect = NotConnecting /\ changes = 0) \/ \A c \in Calls : call[c] = NoCall
===========================================================================
