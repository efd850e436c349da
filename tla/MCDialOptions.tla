--------------------------- MODULE MCDialOptions ---------------------------
(* Options that differ in their authentication, and options that differ in   *)
(* their ICE servers.  Two credential objects: one the application gave an    *)
(* entity, one it did not.  Two TURN servers, one of them also without a      *)
(* port, and a STUN server.                                                   *)
EXTENDS DialOptions

CONSTANTS own, bare

MCCredentials == {own, bare}
MCGivenEntity == [c \in MCCredentials |-> IF c = own THEN "mine" ELSE ""]

stun   == [scheme |-> "stun", host |-> "s", port |-> 1, transport |-> ""]
turnA  == [scheme |-> "turn", host |-> "a", port |-> 1, transport |-> "udp"]
turnA0 == [scheme |-> "turn", host |-> "a", port |-> 0, transport |-> "udp"]
turnB  == [scheme |-> "turn", host |-> "b", port |-> 1, transport |-> ""]

Plain == [token |-> "undefined", creds |-> NoCredentials, ext |-> "undefined", extTo |-> "undefined",
          sigToken |-> "undefined", sigCreds |-> NoCredentials,
          sigExt |-> "undefined", sigExtTo |-> "undefined",
          iceServers |-> {{stun}}, forceP2P |-> FALSE, forceRelay |-> FALSE, turnUri |-> {},
          turnScheme |-> "undefined", turnPort |-> 0, turnTransport |-> "undefined"]

AuthOptions ==
    {[Plain EXCEPT !.token = t, !.creds = c, !.ext = e[1], !.extTo = e[2],
                   !.sigToken = st, !.sigCreds = sc, !.sigExt = se[1], !.sigExtTo = se[2]] :
        t \in {"undefined", "", "token"}, c \in MCCredentials \union {NoCredentials},
        st \in {"undefined", "sigtoken"}, sc \in MCCredentials \union {NoCredentials},
        e \in {<<"undefined", "undefined">>, <<"ext", "undefined">>, <<"ext", "extTo">>, <<"", "extTo">>},
        se \in {<<"undefined", "undefined">>, <<"sigExt", "">>, <<"sigExt", "sigExtTo">>}}

IceOptions ==
    {[Plain EXCEPT !.iceServers = s, !.forceP2P = p, !.forceRelay = r, !.turnUri = u,
                   !.turnScheme = sc, !.turnPort = po, !.turnTransport = tr] :
        s \in {{{stun}}, {{stun}, {turnB}}}, p \in BOOLEAN, r \in BOOLEAN,
        u \in {{}, {turnA}, {turnB}, {turnA0}}, sc \in {"undefined", "turns"}, po \in {0, 2},
        tr \in {"undefined", "tcp"}}

MCOptions == AuthOptions \union IceOptions
MCConfigs == {{{turnA}}, {{turnA, turnB}, {stun, turnA}}, {{turnA0}, {turnB}}}
=============================================================================
