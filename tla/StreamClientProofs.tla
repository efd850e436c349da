------------------------- MODULE StreamClientProofs -------------------------
(***************************************************************************)
(* What StreamClient promises, for any cameras, any calls and any number of *)
(* connections.                                                             *)
(***************************************************************************)
EXTENDS StreamClient, TLAPS

-----------------------------------------------------------------------------
(* The inductive invariant. *)
AskRecord ==
    [name : Names \union {NoName},
     stage : {"idle", "adding", "waiting", "returned", "threw"},
     promise : {"pending", "resolved", "rejected"},
     got : Names \union {NoName},
     listens : BOOLEAN,
     timer : {"off", "on", "fired"},
     heard : BOOLEAN]

CallRecord ==
    [op : {"none", "add", "remove", "options"},
     name : Names \union {NoName},
     attempt : 0 .. 2,
     stage : {"idle", "sent", "accepted"},
     by : Asks \union {NoAsk}]

(* One getStream: its listener, its timer and its promise move together. *)
AskKept(a) ==
    /\ a.listens => a.timer = "on"
    /\ a.timer = "on" /\ a.promise = "pending" => a.listens
    /\ a.stage \in {"adding", "waiting"} /\ a.promise = "pending" => a.timer = "on"
    /\ a.stage = "waiting" => a.promise = "pending"
    /\ a.stage = "returned" => a.promise = "resolved"
    /\ a.promise = "resolved" => a.got \in Names /\ Renamed(TrackName(a.got)) = a.name
    /\ a.heard /\ Plain(a.name) => a.promise = "resolved"

AsksKept == ask \in [Asks -> AskRecord] /\ \A g \in Asks : AskKept(ask[g])

CallsKept ==
    /\ call \in [Calls -> CallRecord]
    /\ \A c \in Calls : call[c] = Idle
            \/ /\ call[c].op \in {"add", "remove", "options"}
               /\ call[c].name \in Names /\ call[c].attempt \in 1 .. 2
               /\ call[c].stage \in {"sent", "accepted"}
               /\ \/ call[c].by = NoAsk
                  \/ call[c].by \in Asks /\ ask[call[c].by].stage = "adding"
    /\ \A c, d \in Calls : call[c].by = call[d].by => call[c].by = NoAsk \/ c = d

(* The connection.  Without one, or without a way to use it, nothing goes on. *)
ConnectionKept ==
    /\ conn \in 1 .. MaxConnections
    /\ up \in BOOLEAN /\ raw \in BOOLEAN
    /\ streams \subseteq Names /\ offered \subseteq added /\ added \subseteq Names
    /\ unclear \subseteq Names
    /\ ~up => added = {} /\ unclear = {}
    /\ ~Reachable => \A c \in Calls : call[c] = Idle

Quiet(n) == \A c \in Calls : call[c] = Idle \/ call[c].name # n

Agrees(n) == n \in streams <=> n \in added

(* A camera whose calls are one at a time and do not fail: between them the *)
(* set agrees with the robot, and during one with what it is about to do.   *)
NameKept(n) ==
    /\ Quiet(n) => Agrees(n)
    /\ \A c \in Calls :
        call[c] # Idle /\ call[c].name = n =>
            /\ \A d \in Calls \ {c} : call[d] = Idle \/ call[d].name # n
            /\ call[c].op = "options" => Agrees(n)
            /\ call[c].op = "add" /\ call[c].stage = "accepted" => n \in added
            /\ call[c].op = "remove" /\ call[c].stage = "accepted" => n \notin added

NamesKept == Reachable => \A n \in Names \ unclear : NameKept(n)

IInv == AsksKept /\ CallsKept /\ ConnectionKept /\ NamesKept

-----------------------------------------------------------------------------
(* A name without a + comes back from its track. *)
LEMMA NameComesBack ==
  ASSUME NEW n \in Names, Plain(n)
  PROVE  Renamed(TrackName(n)) = n /\ n # NoStream
<1>1. n \in Seq(STRING) /\ n # <<>>
  BY NamesAssumption
<1>2. n = [i \in DOMAIN n |-> n[i]]
  BY <1>1
<1>3. DOMAIN TrackName(n) = DOMAIN n
  BY DEF TrackName, Replaced
<1>4. ASSUME NEW i \in DOMAIN n PROVE Renamed(TrackName(n))[i] = n[i]
  BY <1>3 DEF Renamed, TrackName, Replaced, Plain
<1>5. Renamed(TrackName(n)) = [i \in DOMAIN n |-> Renamed(TrackName(n))[i]]
  BY <1>3 DEF Renamed, Replaced
<1> QED
  BY <1>1, <1>2, <1>4, <1>5 DEF NoStream, NoName

(* What becomes of one getStream. *)
LEMMA SettledFields ==
  ASSUME NEW a \in AskRecord
  PROVE  /\ Settled(a) \in AskRecord
         /\ Settled(a).name = a.name /\ Settled(a).promise = a.promise /\ Settled(a).got = a.got
         /\ Settled(a).listens = a.listens /\ Settled(a).timer = a.timer
         /\ Settled(a).heard = a.heard
         /\ a.stage # "waiting" => Settled(a).stage = a.stage
         /\ a.stage = "waiting" /\ a.promise = "pending" => Settled(a).stage = "waiting"
         /\ a.stage = "waiting" /\ a.promise = "resolved" => Settled(a).stage = "returned"
         /\ a.stage = "waiting" /\ a.promise = "rejected" => Settled(a).stage = "threw"
<1> DEFINE stage == IF a.stage # "waiting" THEN a.stage
                    ELSE CASE a.promise = "resolved" -> "returned"
                           [] a.promise = "rejected" -> "threw"
                           [] OTHER -> a.stage
<1>1. Settled(a) = [a EXCEPT !.stage = stage]
  BY DEF Settled
<1>2. stage \in {"idle", "adding", "waiting", "returned", "threw"}
  BY DEF AskRecord
<1>3. /\ a.stage # "waiting" => stage = a.stage
      /\ a.stage = "waiting" /\ a.promise = "pending" => stage = "waiting"
      /\ a.stage = "waiting" /\ a.promise = "resolved" => stage = "returned"
      /\ a.stage = "waiting" /\ a.promise = "rejected" => stage = "threw"
  OBVIOUS
<1> HIDE DEF stage
<1> QED
  BY <1>1, <1>2, <1>3 DEF AskRecord

LEMMA RejectKept ==
  ASSUME NEW a \in AskRecord, AskKept(a)
  PROVE  /\ Reject(a) \in AskRecord /\ AskKept(Reject(a))
         /\ Reject(a).name = a.name
         /\ a.stage = "adding" => Reject(a).stage = "adding"
         /\ a.promise = "resolved" => Reject(a).promise = "resolved"
<1> DEFINE b == [a EXCEPT !.listens = FALSE,
                          !.promise = IF @ = "pending" THEN "rejected" ELSE @]
<1>1. Reject(a) = Settled(b)
  BY DEF Reject
<1>2. /\ b \in AskRecord /\ b.listens = FALSE /\ b.name = a.name /\ b.got = a.got
      /\ b.timer = a.timer /\ b.heard = a.heard /\ b.stage = a.stage
      /\ b.promise \in {"resolved", "rejected"}
      /\ a.promise = "resolved" <=> b.promise = "resolved"
  BY DEF AskRecord
<1> HIDE DEF b
<1> QED
  BY <1>1, <1>2, SettledFields DEF AskKept

(* A promise settles, and with it its getStream. *)
LEMMA SettlingKept ==
  ASSUME NEW a \in AskRecord, AskKept(a), NEW b \in AskRecord, b.listens = FALSE,
         b.name = a.name, b.heard = a.heard, b.stage = a.stage,
         b.promise \in {"resolved", "rejected"},
         a.promise = "resolved" => b.promise = "resolved",
         b.promise = "resolved" => b.got \in Names /\ Renamed(TrackName(b.got)) = b.name
  PROVE  /\ Settled(b) \in AskRecord /\ AskKept(Settled(b)) /\ Settled(b).name = a.name
         /\ a.stage = "adding" => Settled(b).stage = "adding"
         /\ Settled(b).promise = b.promise
<1>1. PICK s \in AskRecord : s = Settled(b)
  BY SettledFields
<1>2. /\ s.name = b.name /\ s.promise = b.promise /\ s.got = b.got /\ s.listens = FALSE
      /\ s.heard = b.heard
  BY <1>1, SettledFields
<1>3. /\ b.stage # "waiting" => s.stage = b.stage
      /\ b.stage = "waiting" => s.stage = IF b.promise = "resolved" THEN "returned" ELSE "threw"
  BY <1>1, SettledFields
<1>4. /\ a.heard /\ Plain(a.name) => a.promise = "resolved"
      /\ a.stage = "returned" => a.promise = "resolved"
  BY ONLY AskKept(a) DEF AskKept
<1>5. s.heard /\ Plain(s.name) => s.promise = "resolved"
  BY ONLY <1>2, <1>4, b.heard = a.heard, b.name = a.name, a.promise = "resolved" => b.promise = "resolved"
<1>6. s.stage # "waiting" /\ s.promise # "pending"
  BY <1>2, <1>3
<1>7. s.stage = "returned" => s.promise = "resolved"
  BY <1>2, <1>3, <1>4
<1>8. s.promise = "resolved" => s.got \in Names /\ Renamed(TrackName(s.got)) = s.name
  BY <1>2
<1>9. AskKept(s)
  BY ONLY <1>2, <1>5, <1>6, <1>7, <1>8 DEF AskKept
<1> QED
  BY <1>1, <1>2, <1>3, <1>9

LEMMA ResolveKept ==
  ASSUME NEW a \in AskRecord, AskKept(a), NEW n \in Names, Renamed(TrackName(n)) = a.name
  PROVE  /\ Resolve(a, n) \in AskRecord /\ AskKept(Resolve(a, n))
         /\ Resolve(a, n).name = a.name
         /\ a.stage = "adding" => Resolve(a, n).stage = "adding"
         /\ a.promise \in {"pending", "resolved"} => Resolve(a, n).promise = "resolved"
<1> DEFINE f == [a EXCEPT !.listens = FALSE,
                          !.promise = IF @ = "pending" THEN "resolved" ELSE @,
                          !.got = IF a.promise = "pending" THEN n ELSE @]
<1>1. Resolve(a, n) = Settled(f)
  BY DEF Resolve
<1>3. PICK b : b = f
  OBVIOUS
<1>4. /\ b \in AskRecord /\ b.listens = FALSE /\ b.name = a.name /\ b.heard = a.heard
      /\ b.stage = a.stage /\ b.promise = (IF a.promise = "pending" THEN "resolved" ELSE a.promise)
      /\ b.got = IF a.promise = "pending" THEN n ELSE a.got
  BY <1>3 DEF AskRecord
<1>5. a.promise = "resolved" => a.got \in Names /\ Renamed(TrackName(a.got)) = a.name
  BY DEF AskKept
<1>6. a.promise \in {"pending", "resolved", "rejected"}
  BY DEF AskRecord
<1>7. /\ b.promise \in {"resolved", "rejected"}
      /\ a.promise = "resolved" => b.promise = "resolved"
      /\ b.promise = "resolved" => b.got \in Names /\ Renamed(TrackName(b.got)) = b.name
      /\ a.promise \in {"pending", "resolved"} => b.promise = "resolved"
  BY ONLY <1>4, <1>5, <1>6, n \in Names, Renamed(TrackName(n)) = a.name
<1>8. /\ Settled(b) \in AskRecord /\ AskKept(Settled(b)) /\ Settled(b).name = a.name
      /\ a.stage = "adding" => Settled(b).stage = "adding"
      /\ Settled(b).promise = b.promise
  BY <1>4, <1>7, SettlingKept
<1> QED
  BY ONLY <1>1, <1>3, <1>7, <1>8

LEMMA TrackKept ==
  ASSUME NEW a \in AskRecord, AskKept(a), NEW n, NEW id,
         id = NoStream \/ (n \in Names /\ id = Renamed(TrackName(n)))
  PROVE  /\ HandleTrack(a, id, n) \in AskRecord /\ AskKept(HandleTrack(a, id, n))
         /\ HandleTrack(a, id, n).name = a.name
         /\ a.stage = "adding" => HandleTrack(a, id, n).stage = "adding"
         /\ a.promise = "resolved" => HandleTrack(a, id, n).promise = "resolved"
<1>1. CASE id = NoStream
  <2>1. HandleTrack(a, id, n) = Reject(a)
    BY <1>1 DEF HandleTrack
  <2> QED
    BY <2>1, RejectKept
<1>2. CASE id # NoStream /\ id = a.name
  <2>1. HandleTrack(a, id, n) = Resolve(a, n)
    BY ONLY <1>2 DEF HandleTrack
  <2> QED
    BY <1>2, <2>1, ResolveKept
<1>3. CASE id # NoStream /\ id # a.name
  BY <1>3 DEF HandleTrack
<1> QED
  BY <1>1, <1>2, <1>3

LEMMA AddSettlesKept ==
  ASSUME NEW a \in AskRecord, AskKept(a), a.stage = "adding", NEW stage \in {"waiting", "threw"}
  PROVE  LET b == Settled([a EXCEPT !.stage = stage]) IN b \in AskRecord /\ AskKept(b)
<1> DEFINE w == [a EXCEPT !.stage = stage]
<1>1. /\ w \in AskRecord /\ w.stage = stage /\ w.name = a.name /\ w.got = a.got
      /\ w.promise = a.promise /\ w.listens = a.listens /\ w.timer = a.timer /\ w.heard = a.heard
  BY DEF AskRecord
<1> HIDE DEF w
<1>2. Settled(w) \in AskRecord /\ AskKept(Settled(w))
  BY <1>1, SettledFields DEF AskKept, AskRecord
<1> QED
  BY <1>2 DEF w

LEMMA TimerKept ==
  ASSUME NEW a \in AskRecord, AskKept(a)
  PROVE  LET b == TimedOut([a EXCEPT !.timer = "fired"])
         IN  /\ b \in AskRecord /\ AskKept(b)
             /\ a.stage = "adding" => b.stage = "adding"
<1> DEFINE f == [a EXCEPT !.timer = "fired"]
           b == [f EXCEPT !.listens = FALSE,
                          !.promise = IF @ = "pending" THEN "rejected" ELSE @]
<1>1. TimedOut(f) = Settled(b)
  BY DEF TimedOut, Reject
<1>2. /\ b \in AskRecord /\ b.listens = FALSE /\ b.name = a.name /\ b.got = a.got
      /\ b.heard = a.heard /\ b.stage = a.stage /\ b.promise \in {"resolved", "rejected"}
      /\ a.promise = "resolved" <=> b.promise = "resolved"
  BY DEF AskRecord
<1> HIDE DEF b
<1>3. /\ Settled(b) \in AskRecord /\ AskKept(Settled(b))
      /\ a.stage = "adding" => Settled(b).stage = "adding"
  BY <1>2, SettledFields DEF AskKept
<1> QED
  BY <1>1, <1>3

-----------------------------------------------------------------------------
(* Steps that leave the calls and the set alone. *)
LEMMA CallsStay ==
  ASSUME CallsKept, call' = call,
         \A g \in Asks : ask[g].stage = "adding" => ask'[g].stage = "adding"
  PROVE  CallsKept'
  BY DEF CallsKept

LEMMA NamesStay ==
  ASSUME ConnectionKept, NamesKept, UNCHANGED <<connVars, callVars, added, unclear>>,
         offered' \subseteq offered
  PROVE  ConnectionKept' /\ NamesKept'
  BY DEF ConnectionKept, NamesKept, NameKept, Quiet, Agrees, Reachable, connVars, callVars

LEMMA InitIInv == Init => IInv
<1> SUFFICES ASSUME Init PROVE IInv
  OBVIOUS
<1>1. AsksKept
  BY DEF Init, AsksKept, AskRecord, AskKept, NotAsked
<1>2. CallsKept
  BY DEF Init, CallsKept, CallRecord, Idle
<1>3. ConnectionKept
  BY MaxConnectionsAssumption DEF Init, ConnectionKept
<1>4. NamesKept
  BY DEF Init, NamesKept, NameKept, Quiet, Agrees
<1> QED
  BY <1>1, <1>2, <1>3, <1>4 DEF IInv

(* A track, its lack of a stream, and the timer. *)
LEMMA TrackSteps ==
  ASSUME IInv, StreamlessTrack \/ \E n \in Names : TrackArrives(n)
  PROVE  IInv'
<1>1. ASSUME StreamlessTrack PROVE IInv'
  <2>1. /\ ask' = Emit(NoStream, NoName)
        /\ UNCHANGED <<connVars, callVars, added, unclear, call>> /\ offered' = offered
    BY <1>1 DEF StreamlessTrack, robotVars, callVars
  <2>2. AsksKept' /\ \A g \in Asks : ask[g].stage = "adding" => ask'[g].stage = "adding"
    <3>1. ASSUME NEW g \in Asks
          PROVE  /\ ask'[g] \in AskRecord /\ AskKept(ask'[g])
                 /\ ask[g].stage = "adding" => ask'[g].stage = "adding"
      BY <2>1, TrackKept DEF Emit, IInv, AsksKept
    <3> QED
      BY <2>1, <3>1 DEF AsksKept, Emit
  <2> QED
    BY <2>1, <2>2, CallsStay, NamesStay DEF IInv
<1>2. ASSUME NEW n \in Names, TrackArrives(n) PROVE IInv'
  <2> DEFINE after == Emit(Renamed(TrackName(n)), n)
             heard(g) == ask[g].heard \/ (ask[g].name = n /\ ask[g].timer = "on"
                                                          /\ ask[g].promise = "pending")
  <2>1. /\ ask' = [g \in Asks |-> [after[g] EXCEPT !.heard = @ \/ (ask[g].name = n
                                        /\ ask[g].timer = "on" /\ ask[g].promise = "pending")]]
        /\ UNCHANGED <<connVars, callVars, added, unclear, call>> /\ offered' \subseteq offered
    BY <1>2 DEF TrackArrives, callVars
  <2>2. ASSUME NEW g \in Asks
        PROVE  /\ ask'[g] \in AskRecord /\ AskKept(ask'[g])
               /\ ask[g].stage = "adding" => ask'[g].stage = "adding"
    <3>1. ask[g] \in AskRecord /\ AskKept(ask[g])
      BY DEF IInv, AsksKept
    <3>2. /\ after[g] \in AskRecord /\ AskKept(after[g]) /\ after[g].name = ask[g].name
          /\ ask[g].stage = "adding" => after[g].stage = "adding"
      BY <3>1, TrackKept DEF Emit
    <3>3. ask[g].name = n /\ ask[g].timer = "on" /\ ask[g].promise = "pending" /\ Plain(n)
             => after[g].promise = "resolved"
      <4> SUFFICES ASSUME ask[g].name = n, ask[g].timer = "on", ask[g].promise = "pending",
                          Plain(n)
                   PROVE  after[g].promise = "resolved"
        OBVIOUS
      <4>1. ask[g].listens
        BY <3>1 DEF AskKept
      <4>2. Renamed(TrackName(n)) = ask[g].name /\ ask[g].name # NoStream
        BY NameComesBack
      <4>3. after[g] = Resolve(ask[g], n)
        BY <4>1, <4>2 DEF Emit, HandleTrack
      <4> QED
        BY <3>1, <4>2, <4>3, ResolveKept
    <3>4. ask'[g] = [after[g] EXCEPT !.heard = @ \/ (ask[g].name = n
                                        /\ ask[g].timer = "on" /\ ask[g].promise = "pending")]
      BY <2>1
    <3> HIDE DEF after
    <3> QED
      BY <3>1, <3>2, <3>3, <3>4 DEF AskRecord, AskKept
  <2>3. AsksKept'
    BY <2>1, <2>2 DEF AsksKept
  <2> QED
    BY <2>1, <2>2, <2>3, CallsStay, NamesStay DEF IInv
<1> QED
  BY <1>1, <1>2

LEMMA TimeoutStep ==
  ASSUME IInv, NEW g \in Asks, Timeout(g)
  PROVE  IInv'
<1>1. /\ ask' = [ask EXCEPT ![g] = TimedOut([ask[g] EXCEPT !.timer = "fired"])]
      /\ UNCHANGED <<connVars, callVars, added, unclear, call>> /\ offered' = offered
  BY DEF Timeout, robotVars, callVars
<1>2. AsksKept' /\ \A h \in Asks : ask[h].stage = "adding" => ask'[h].stage = "adding"
  BY <1>1, TimerKept DEF IInv, AsksKept
<1> QED
  BY <1>1, <1>2, CallsStay, NamesStay DEF IInv

-----------------------------------------------------------------------------
(* Calls *)

(* A call begins.  It may be the one a getStream makes. *)
LEMMA BeginStep ==
  ASSUME IInv, NEW c \in Calls, NEW n \in Names, NEW op \in {"add", "remove", "options"},
         NEW by \in Asks \union {NoAsk}, Reachable,
         Begin(c, op, n, by),
         by # NoAsk => ask[by] = NotAsked /\ ask'[by].stage = "adding",
         \A g \in Asks \ {by} : ask'[g] = ask[g],
         by = NoAsk => ask' = ask,
         UNCHANGED <<connVars, streams, robotVars>>
  PROVE  CallsKept' /\ ConnectionKept' /\ NamesKept'
<1> DEFINE r == Request(op, n, by)
<1>1. /\ call[c] = Idle /\ call' = [call EXCEPT ![c] = r]
      /\ unclear' = IF InFlight(n) THEN unclear \union {n} ELSE unclear
  BY DEF Begin
<1>2. r \in CallRecord /\ r # Idle /\ r.op = op /\ r.name = n /\ r.stage = "sent" /\ r.by = by
      /\ r.attempt = 1
  BY DEF CallRecord, Request, Idle
<1> HIDE DEF r
<1>3. call' \in [Calls -> CallRecord]
  BY <1>1, <1>2 DEF IInv, CallsKept
<1>4. /\ call'[c] = r /\ \A d \in Calls \ {c} : call'[d] = call[d]
  BY <1>1 DEF IInv, CallsKept
<1>5. by # NoAsk => \A d \in Calls : call[d].by # by
  BY DEF IInv, CallsKept, Idle, NotAsked
<1>6. CallsKept'
  <2>1. ASSUME NEW d \in Calls
        PROVE  \/ call'[d] = Idle
               \/ /\ call'[d].op \in {"add", "remove", "options"}
                  /\ call'[d].name \in Names /\ call'[d].attempt \in 1 .. 2
                  /\ call'[d].stage \in {"sent", "accepted"}
                  /\ \/ call'[d].by = NoAsk
                     \/ call'[d].by \in Asks /\ ask'[call'[d].by].stage = "adding"
    <3>1. CASE d = c
      BY <1>2, <1>4, <3>1
    <3>2. CASE d # c
      BY <1>4, <1>5, <3>2 DEF IInv, CallsKept
    <3> QED
      BY <3>1, <3>2
  <2>2. ASSUME NEW d \in Calls, NEW e \in Calls, call'[d].by = call'[e].by
        PROVE  call'[d].by = NoAsk \/ d = e
    BY <1>2, <1>4, <1>5, <2>2 DEF IInv, CallsKept
  <2> QED
    BY <1>3, <2>1, <2>2 DEF CallsKept
<1>7. ConnectionKept' /\ Reachable'
  BY <1>1 DEF IInv, ConnectionKept, Reachable, connVars, robotVars
<1>8. ASSUME NEW m \in Names, m \notin unclear' PROVE NameKept(m)'
  <2>1. m \notin unclear /\ NameKept(m)
    BY <1>1, <1>8 DEF IInv, NamesKept
  <2>2. UNCHANGED <<streams, added>>
    BY DEF robotVars
  <2>3. CASE m # n
    BY <1>1, <1>2, <1>4, <2>1, <2>2, <2>3 DEF NameKept, Quiet, Agrees
  <2>4. CASE m = n
    <3>1. \A d \in Calls : call[d].name # n
      BY <1>1, <1>8, <2>4 DEF InFlight
    <3>2. Agrees(n)
      BY <2>1, <2>4, <3>1 DEF NameKept, Quiet
    <3> QED
      BY <1>2, <1>4, <2>2, <2>4, <3>1, <3>2 DEF NameKept, Quiet, Agrees
  <2> QED
    BY <2>3, <2>4
<1> QED
  BY <1>6, <1>7, <1>8 DEF NamesKept

LEMMA BeginSteps ==
  ASSUME IInv,
         \/ \E c \in Calls, n \in Names : AddOrRemove(c, n)
         \/ \E g \in Asks, n \in Names : GetStream(g, n)
  PROVE  IInv'
<1>1. ASSUME NEW c \in Calls, NEW n \in Names, AddOrRemove(c, n) PROVE IInv'
  <2>1. PICK op \in {"add", "remove", "options"} : Begin(c, op, n, NoAsk)
    BY <1>1 DEF AddOrRemove
  <2>2. CallsKept' /\ ConnectionKept' /\ NamesKept'
    BY <1>1, <2>1, BeginStep DEF AddOrRemove
  <2>3. AsksKept'
    BY <1>1 DEF AddOrRemove, IInv, AsksKept
  <2> QED
    BY <2>2, <2>3 DEF IInv
<1>2. ASSUME NEW g \in Asks, NEW n \in Names, GetStream(g, n) PROVE IInv'
  <2> DEFINE asked == Listening([NotAsked EXCEPT !.name = n, !.stage = "adding", !.timer = "on"])
  <2>1. asked \in AskRecord /\ AskKept(asked) /\ asked.stage = "adding"
    BY DEF AskRecord, AskKept, NotAsked, Listening
  <2>2. /\ [asked EXCEPT !.stage = "threw"] \in AskRecord
        /\ AskKept([asked EXCEPT !.stage = "threw"])
    BY <2>1 DEF AskRecord, AskKept, NotAsked, Listening
  <2>3. ask[g] = NotAsked /\ UNCHANGED <<connVars, streams, robotVars>>
    BY <1>2 DEF GetStream
  <2>4. \/ Reachable /\ (\E c \in Calls : Begin(c, "add", n, g)) /\ ask' = [ask EXCEPT ![g] = asked]
        \/ ~Reachable /\ UNCHANGED <<call, unclear>>
                      /\ ask' = [ask EXCEPT ![g] = [asked EXCEPT !.stage = "threw"]]
    BY <1>2 DEF GetStream
  <2> HIDE DEF asked
  <2>5. AsksKept'
    BY <2>1, <2>2, <2>4 DEF IInv, AsksKept
  <2>6. CASE Reachable /\ (\E c \in Calls : Begin(c, "add", n, g)) /\ ask' = [ask EXCEPT ![g] = asked]
    <3>1. PICK c \in Calls : Begin(c, "add", n, g)
      BY <2>6
    <3>2. ask'[g].stage = "adding" /\ \A h \in Asks \ {g} : ask'[h] = ask[h]
      BY <2>1, <2>6 DEF IInv, AsksKept
    <3>3. g # NoAsk
      BY NobodyAssumption
    <3> QED
      BY <2>3, <2>5, <2>6, <3>1, <3>2, <3>3, BeginStep DEF IInv
  <2>7. CASE ~Reachable /\ UNCHANGED <<call, unclear>>
    <3>1. \A h \in Asks : ask[h].stage = "adding" => ask'[h].stage = "adding"
      BY <2>3, <2>4, <2>7 DEF IInv, AsksKept, NotAsked
    <3> QED
      BY <2>3, <2>5, <2>7, <3>1, CallsStay, NamesStay DEF IInv, callVars, robotVars
  <2> QED
    BY <2>4, <2>6, <2>7
<1> QED
  BY <1>1, <1>2

(* The add of a getStream settles; no other call is for it. *)
LEMMA AskAfterKept ==
  ASSUME IInv, NEW c \in Calls, call[c] # Idle, NEW stage \in {"waiting", "threw"},
         ask' = AskAfter(c, stage)
  PROVE  /\ AsksKept'
         /\ \A d \in Calls \ {c} :
                call[d] = Idle \/ call[d].by = NoAsk
                               \/ (call[d].by \in Asks /\ ask'[call[d].by].stage = "adding")
<1> DEFINE g == call[c].by
<1>1. CASE g = NoAsk
  <2>1. ask' = ask
    BY <1>1, NobodyAssumption DEF AskAfter
  <2> QED
    BY <2>1 DEF IInv, AsksKept, CallsKept
<1>2. CASE g # NoAsk
  <2>1. g \in Asks /\ ask[g].stage = "adding" /\ ask[g] \in AskRecord /\ AskKept(ask[g])
    BY <1>2 DEF IInv, CallsKept, AsksKept
  <2>2. ask' = [ask EXCEPT ![g] = Settled([ask[g] EXCEPT !.stage = stage])]
    BY <2>1 DEF AskAfter
  <2>3. ask'[g] \in AskRecord /\ AskKept(ask'[g])
    BY <2>1, <2>2, AddSettlesKept DEF IInv, AsksKept
  <2>4. \A h \in Asks \ {g} : ask'[h] = ask[h]
    BY <2>2 DEF IInv, AsksKept
  <2>5. AsksKept'
    BY <2>2, <2>3, <2>4 DEF IInv, AsksKept
  <2>6. \A d \in Calls \ {c} : call[d].by # g
    BY <1>2 DEF IInv, CallsKept
  <2> HIDE DEF g
  <2> QED
    BY <2>4, <2>5, <2>6 DEF IInv, CallsKept
<1> QED
  BY <1>1, <1>2

(* A call ends: its name has no other, or is unclear. *)
LEMMA EndedStep ==
  ASSUME IInv, NEW c \in Calls, call[c] # Idle, NEW stage \in {"waiting", "threw"},
         ask' = AskAfter(c, stage), call' = [call EXCEPT ![c] = Idle],
         UNCHANGED <<connVars, robotVars>>, streams' \subseteq Names,
         unclear \subseteq unclear', unclear' \subseteq Names,
         \A m \in Names : m # call[c].name => (m \in streams' <=> m \in streams),
         call[c].name \notin unclear' => (call[c].name \in streams' <=> call[c].name \in added)
  PROVE  IInv'
<1>1. Reachable /\ Reachable'
  BY DEF IInv, ConnectionKept, Reachable, connVars
<1>2. /\ call'[c] = Idle /\ \A d \in Calls \ {c} : call'[d] = call[d]
      /\ call' \in [Calls -> CallRecord]
  BY DEF IInv, CallsKept, Idle, CallRecord
<1>3. CallsKept'
  <2>1. ASSUME NEW d \in Calls
        PROVE  \/ call'[d] = Idle
               \/ /\ call'[d].op \in {"add", "remove", "options"}
                  /\ call'[d].name \in Names /\ call'[d].attempt \in 1 .. 2
                  /\ call'[d].stage \in {"sent", "accepted"}
                  /\ \/ call'[d].by = NoAsk
                     \/ call'[d].by \in Asks /\ ask'[call'[d].by].stage = "adding"
    BY <1>2, AskAfterKept DEF IInv, CallsKept
  <2>2. ASSUME NEW d \in Calls, NEW e \in Calls, call'[d].by = call'[e].by
        PROVE  call'[d].by = NoAsk \/ d = e
    BY <1>2, <2>2 DEF IInv, CallsKept, Idle
  <2> QED
    BY <1>2, <2>1, <2>2 DEF CallsKept
<1>4. ConnectionKept'
  <2>1. up
    BY <1>1 DEF Reachable
  <2> QED
    BY <1>1, <2>1 DEF IInv, ConnectionKept, connVars, robotVars
<1>5. ASSUME NEW m \in Names, m \notin unclear' PROVE NameKept(m)'
  <2>1. NameKept(m)
    BY <1>1, <1>5 DEF IInv, NamesKept
  <2>2. added' = added
    BY DEF robotVars
  <2>3. CASE m # call[c].name
    BY <1>2, <2>1, <2>2, <2>3 DEF NameKept, Quiet, Agrees
  <2>4. CASE m = call[c].name
    <3>1. \A d \in Calls \ {c} : call[d] = Idle \/ call[d].name # m
      BY <2>1, <2>4 DEF NameKept
    <3>2. Agrees(m)'
      BY <1>5, <2>2, <2>4 DEF Agrees
    <3> QED
      BY <1>2, <3>1, <3>2 DEF NameKept, Quiet
  <2> QED
    BY <2>3, <2>4
<1> QED
  BY <1>1, <1>3, <1>4, <1>5, AskAfterKept DEF IInv, NamesKept

LEMMA SucceedsStep ==
  ASSUME IInv, NEW c \in Calls, Succeeds(c)
  PROVE  IInv'
<1> DEFINE n == call[c].name
<1>1. /\ call[c].stage = "accepted" /\ streams' = StreamsAfter(c) /\ unclear' = unclear
      /\ call[c] # Idle
  BY DEF Succeeds, Idle
<1>2. n \in Names /\ call[c].op \in {"add", "remove", "options"} /\ Reachable
  BY <1>1 DEF IInv, CallsKept, ConnectionKept
<1>3. CASE call[c].op = "add"
  <2>1. streams' = streams \union {n}
    BY <1>1, <1>3 DEF StreamsAfter
  <2>2. n \notin unclear => n \in added
    BY <1>1, <1>2, <1>3 DEF IInv, NamesKept, NameKept
  <2> QED
    BY <1>1, <1>2, <2>1, <2>2, EndedStep DEF Succeeds, IInv, ConnectionKept
<1>4. CASE call[c].op = "remove"
  <2>1. streams' = streams \ {n}
    BY <1>1, <1>4 DEF StreamsAfter
  <2>2. n \notin unclear => n \notin added
    BY <1>1, <1>2, <1>4 DEF IInv, NamesKept, NameKept
  <2> QED
    BY <1>1, <1>2, <2>1, <2>2, EndedStep DEF Succeeds, IInv, ConnectionKept
<1>5. CASE call[c].op = "options"
  <2>1. streams' = streams
    BY <1>1, <1>5 DEF StreamsAfter
  <2>2. n \notin unclear => (n \in streams <=> n \in added)
    BY <1>1, <1>2, <1>5 DEF IInv, NamesKept, NameKept, Agrees
  <2> QED
    BY <1>1, <1>2, <2>1, <2>2, EndedStep DEF Succeeds, IInv, ConnectionKept
<1> QED
  BY <1>2, <1>3, <1>4, <1>5

(* The record of one call changes, and stays a call for the same name. *)
LEMMA SameNameStep ==
  ASSUME IInv, NEW c \in Calls, call[c] # Idle, NEW r \in CallRecord,
         call' = [call EXCEPT ![c] = r], r # Idle, r.name = call[c].name, r.by = call[c].by,
         r.op = call[c].op, r.attempt \in 1 .. 2, r.stage \in {"sent", "accepted"},
         UNCHANGED ask
  PROVE  /\ CallsKept' /\ call'[c] = r
         /\ \A d \in Calls \ {c} : call'[d] = call[d]
<1>1. /\ call'[c] = r /\ \A d \in Calls \ {c} : call'[d] = call[d]
      /\ call' \in [Calls -> CallRecord]
  BY DEF IInv, CallsKept
<1> QED
  BY <1>1 DEF IInv, CallsKept

LEMMA AcceptStep ==
  ASSUME IInv, NEW c \in Calls, RobotAccepts(c)
  PROVE  IInv'
<1> DEFINE n == call[c].name
           r == [call[c] EXCEPT !.stage = "accepted"]
<1>1. /\ call[c].stage = "sent" /\ call' = [call EXCEPT ![c] = r] /\ call[c] # Idle
      /\ UNCHANGED <<connVars, streams, ask, unclear>>
  BY DEF RobotAccepts, Idle
<1>2. /\ n \in Names /\ call[c].op \in {"add", "remove", "options"} /\ Reachable
      /\ call[c] \in CallRecord /\ call[c].attempt \in 1 .. 2
  BY <1>1 DEF IInv, CallsKept, ConnectionKept
<1>3. /\ r \in CallRecord /\ r # Idle /\ r.name = n /\ r.by = call[c].by /\ r.op = call[c].op
      /\ r.attempt = call[c].attempt /\ r.stage = "accepted"
  BY <1>2 DEF CallRecord, Idle
<1> HIDE DEF r
<1>4. CallsKept' /\ call'[c] = r /\ \A d \in Calls \ {c} : call'[d] = call[d]
  BY <1>1, <1>2, <1>3, SameNameStep
<1>5. /\ call[c].op = "add" => added' = added \union {n} /\ offered' = offered \union {n}
      /\ call[c].op = "remove" => added' = added \ {n} /\ offered' = offered \ {n}
      /\ call[c].op = "options" => added' = added /\ offered' = offered
  BY DEF RobotAccepts, robotVars
<1>6. ConnectionKept' /\ Reachable'
  BY <1>1, <1>2, <1>5 DEF IInv, ConnectionKept, Reachable, connVars
<1>7. ASSUME NEW m \in Names, m \notin unclear' PROVE NameKept(m)'
  <2>1. NameKept(m)
    BY <1>1, <1>2, <1>7 DEF IInv, NamesKept
  <2>2. CASE m # n
    <3>1. m \in added' <=> m \in added
      BY <1>2, <1>5, <2>2
    <3> QED
      BY <1>1, <1>3, <1>4, <2>1, <2>2, <3>1 DEF NameKept, Quiet, Agrees
  <2>3. CASE m = n
    <3>1. /\ \A d \in Calls \ {c} : call[d] = Idle \/ call[d].name # n
          /\ call[c].op = "options" => Agrees(n)
      BY <1>1, <2>1, <2>3 DEF NameKept
    <3>2. ~Quiet(m)'
      <4>1. call'[c] # Idle /\ call'[c].name = m
        BY <1>3, <1>4, <2>3
      <4> QED
        BY <4>1 DEF Quiet
    <3>3. call[c].op = "options" => Agrees(m)'
      BY <1>1, <1>5, <2>3, <3>1 DEF Agrees
    <3> QED
      BY <1>3, <1>4, <1>5, <2>3, <3>1, <3>2, <3>3 DEF NameKept
  <2> QED
    BY <2>2, <2>3
<1> QED
  BY <1>1, <1>4, <1>6, <1>7 DEF IInv, NamesKept, AsksKept

LEMMA FailsStep ==
  ASSUME IInv, NEW c \in Calls, Fails(c)
  PROVE  IInv'
<1> DEFINE n == call[c].name
           r == [call[c] EXCEPT !.attempt = 2]
<1>1. call[c].stage = "sent" /\ call[c] # Idle /\ UNCHANGED <<connVars, streams, robotVars>>
  BY DEF Fails, Idle
<1>2. /\ n \in Names /\ call[c].op \in {"add", "remove", "options"} /\ Reachable
      /\ call[c] \in CallRecord
  BY <1>1 DEF IInv, CallsKept, ConnectionKept
<1>3. CASE call[c].attempt = 1
  <2>1. call' = [call EXCEPT ![c] = r] /\ UNCHANGED <<ask, unclear>>
    BY <1>3 DEF Fails
  <2>2. /\ r \in CallRecord /\ r # Idle /\ r.name = n /\ r.by = call[c].by /\ r.op = call[c].op
        /\ r.attempt = 2 /\ r.stage = "sent"
    <3>1. Idle.stage = "idle"
      BY DEF Idle
    <3>2. /\ r.name = n /\ r.by = call[c].by /\ r.op = call[c].op
          /\ r.attempt = 2 /\ r.stage = "sent"
      BY <1>1, <1>2 DEF CallRecord
    <3>3. r \in CallRecord
      BY <1>2 DEF CallRecord
    <3>4. r # Idle
      BY ONLY <3>1, <3>2
    <3> QED
      BY ONLY <3>2, <3>3, <3>4
  <2> HIDE DEF r
  <2>3. CallsKept' /\ call'[c] = r /\ \A d \in Calls \ {c} : call'[d] = call[d]
    <3>1. r.attempt \in 1 .. 2 /\ r.stage \in {"sent", "accepted"}
      BY <2>2
    <3> QED
      BY <1>1, <2>1, <2>2, <3>1, SameNameStep
  <2>4. ConnectionKept' /\ Reachable'
    BY <1>1, <1>2, <2>1 DEF IInv, ConnectionKept, Reachable, connVars, robotVars
  <2>5. ASSUME NEW m \in Names, m \notin unclear' PROVE NameKept(m)'
    <3>1. NameKept(m) /\ added' = added /\ streams' = streams
      BY <1>1, <1>2, <2>1, <2>5 DEF IInv, NamesKept, robotVars
    <3>2. \A d \in Calls : /\ call'[d] = Idle <=> call[d] = Idle
                           /\ call'[d].name = call[d].name /\ call'[d].op = call[d].op
                           /\ call'[d].stage = call[d].stage
      BY <1>1, <2>2, <2>3
    <3> QED
      BY <3>1, <3>2 DEF NameKept, Quiet, Agrees
  <2> QED
    BY <2>1, <2>3, <2>4, <2>5 DEF IInv, NamesKept, AsksKept
<1>4. CASE call[c].attempt # 1
  BY <1>1, <1>2, <1>4, EndedStep DEF Fails, IInv, ConnectionKept
<1> QED
  BY <1>3, <1>4

-----------------------------------------------------------------------------
(* Connections *)
LEMMA LostStep ==
  ASSUME IInv, ConnectionLost
  PROVE  IInv'
<1>1. call' = [c \in Calls |-> Idle] /\ UNCHANGED <<conn, raw, streams, ask>>
      /\ up' = FALSE /\ added' = {} /\ offered' = {} /\ unclear' = {}
  BY DEF ConnectionLost
<1>2. AsksKept'
  BY <1>1 DEF IInv, AsksKept
<1>3. CallsKept'
  BY <1>1 DEF CallsKept, CallRecord, Idle
<1>4. ConnectionKept'
  BY <1>1 DEF IInv, ConnectionKept
<1>5. NamesKept'
  BY <1>1 DEF NamesKept, Reachable
<1> QED
  BY <1>2, <1>3, <1>4, <1>5 DEF IInv

LEMMA ConnectedStep ==
  ASSUME IInv, Connected
  PROVE  IInv'
<1>1. /\ conn' = conn + 1 /\ up' = TRUE /\ UNCHANGED <<raw, streams, ask, robotVars, unclear>>
      /\ ~up /\ conn < MaxConnections
  BY DEF Connected
<1>2. /\ added = {} /\ unclear = {} /\ streams \subseteq Names
      /\ \A c \in Calls : call[c] = Idle
  BY <1>1 DEF IInv, ConnectionKept, Reachable
<1>3. AsksKept'
  BY <1>1 DEF IInv, AsksKept
<1>4. /\ conn' \in 1 .. MaxConnections /\ conn' # 1
  BY <1>1, MaxConnectionsAssumption DEF IInv, ConnectionKept
<1>5. CASE raw
  <2>1. call' = call /\ ~Reachable'
    BY <1>1, <1>4, <1>5 DEF Connected, Reachable
  <2>2. ConnectionKept'
    BY <1>1, <1>2, <1>4, <2>1 DEF IInv, ConnectionKept, robotVars
  <2> QED
    BY <1>1, <1>3, <2>1, <2>2, CallsStay DEF IInv, NamesKept
<1>6. CASE ~raw
  <2>1. PICK again \in [streams -> Calls] :
            /\ \A m, n \in streams : again[m] = again[n] => m = n
            /\ call' = [c \in Calls |->
                            IF \E n \in streams : again[n] = c
                            THEN Request("add", CHOOSE n \in streams : again[n] = c, NoAsk)
                            ELSE Idle]
    BY <1>6 DEF Connected, AddedAgain
  <2>2. ASSUME NEW c \in Calls
        PROVE  \/ call'[c] = Idle /\ \A n \in streams : again[n] # c
               \/ \E n \in streams : again[n] = c /\ call'[c] = Request("add", n, NoAsk)
    BY <2>1
  <2>3. ASSUME NEW n \in streams
        PROVE  /\ Request("add", n, NoAsk) # Idle /\ Request("add", n, NoAsk).name = n
               /\ Request("add", n, NoAsk).op = "add" /\ Request("add", n, NoAsk).stage = "sent"
               /\ Request("add", n, NoAsk).by = NoAsk /\ Request("add", n, NoAsk).attempt = 1
               /\ Request("add", n, NoAsk) \in CallRecord
    BY <1>2 DEF Request, Idle, CallRecord
  <2>4. Idle \in CallRecord /\ Idle.by = NoAsk
    BY DEF Idle, CallRecord
  <2>5. CallsKept'
    <3>1. call' \in [Calls -> CallRecord]
      BY <2>1, <2>2, <2>3, <2>4
    <3>2. \A c \in Calls : call'[c].by = NoAsk
      BY <2>2, <2>3, <2>4
    <3> QED
      BY <1>2, <2>2, <2>3, <3>1, <3>2 DEF CallsKept
  <2>6. ConnectionKept'
    BY <1>1, <1>2, <1>4, <1>6 DEF IInv, ConnectionKept, robotVars, Reachable
  <2>7. ASSUME NEW m \in Names PROVE NameKept(m)'
    <3>1. m \notin added' /\ streams' = streams
      BY <1>1, <1>2 DEF robotVars
    <3>2. \A c \in Calls : call'[c] # Idle /\ call'[c].name = m =>
                m \in streams /\ again[m] = c /\ call'[c].op = "add" /\ call'[c].stage = "sent"
      BY <2>2, <2>3
    <3>3. Quiet(m)' => m \notin streams
      <4> SUFFICES ASSUME m \in streams PROVE ~Quiet(m)'
        OBVIOUS
      <4>1. again[m] \in Calls
        BY <2>1
      <4>2. PICK n \in streams : again[n] = again[m]
                                 /\ call'[again[m]] = Request("add", n, NoAsk)
        BY <2>2, <4>1
      <4>3. n = m
        BY <2>1, <4>2
      <4> QED
        BY <2>3, <4>1, <4>2, <4>3 DEF Quiet
    <3> QED
      BY <3>1, <3>2, <3>3 DEF NameKept, Agrees
  <2> QED
    BY <1>3, <2>5, <2>6, <2>7 DEF IInv, NamesKept
<1> QED
  BY <1>5, <1>6 DEF IInv, ConnectionKept

LEMMA QuietStep == IInv /\ UNCHANGED vars => IInv'
  BY DEF IInv, AsksKept, CallsKept, ConnectionKept, NamesKept, NameKept, Quiet, Agrees,
         Reachable, vars, connVars, callVars, robotVars

LEMMA Inductive == IInv /\ [Next]_vars => IInv'
  BY TrackSteps, TimeoutStep, BeginSteps, SucceedsStep, AcceptStep, FailsStep, LostStep,
     ConnectedStep, QuietStep DEF Next

THEOREM Invariant == Spec => []IInv
  BY InitIInv, Inductive, PTL DEF Spec

-----------------------------------------------------------------------------
(* The client is type correct, and the add a getStream made is in flight    *)
(* only while it is adding.                                                 *)
THEOREM TypeCorrect == Spec => []TypeOK
<1>1. IInv => TypeOK
  <2> SUFFICES ASSUME IInv PROVE TypeOK
    OBVIOUS
  <2>1. \A g \in Asks : ask[g] \in AskRecord
    BY DEF IInv, AsksKept
  <2>2. \A g \in Asks :
            /\ ask[g].stage \in {"idle", "adding", "waiting", "returned", "threw"}
            /\ ask[g].promise \in {"pending", "resolved", "rejected"}
    BY <2>1 DEF AskRecord
  <2> QED
    BY <2>2 DEF IInv, ConnectionKept, CallsKept, TypeOK
<1> QED
  BY <1>1, Invariant, PTL

(* With no call under way the set StreamClient keeps is what the robot      *)
(* streams, on every connection.                                            *)
THEOREM SetIsTheRobots == Spec => []SyncedWhenQuiet
<1>1. IInv => SyncedWhenQuiet
  BY DEF IInv, NamesKept, NameKept, Quiet, Agrees, SyncedWhenQuiet
<1> QED
  BY <1>1, Invariant, PTL

(* A getStream does not miss its stream, if its camera has no + in its name.*)
THEOREM TracksAreHeard == Spec => []NoMissedTrack
<1>1. IInv => NoMissedTrack
  BY DEF IInv, AsksKept, AskKept, NoMissedTrack
<1> QED
  BY <1>1, Invariant, PTL

(* Each getStream gives the stream of its own camera, or of one with a + in *)
(* its name.                                                                *)
THEOREM TracksOfTheirAsker == Spec => []TracksGoToTheirAsker
<1>1. IInv => TracksGoToTheirAsker
  <2> SUFFICES ASSUME IInv, NEW g \in Asks, ask[g].stage = "returned", Plain(ask[g].got)
               PROVE  ask[g].got = ask[g].name
    BY DEF TracksGoToTheirAsker
  <2>1. ask[g].got \in Names /\ Renamed(TrackName(ask[g].got)) = ask[g].name
    BY DEF IInv, AsksKept, AskKept
  <2> QED
    BY <2>1, NameComesBack
<1> QED
  BY <1>1, Invariant, PTL

(* A listener ends with its timer at the latest, and a getStream whose      *)
(* camera was added waits no longer than that.                              *)
THEOREM TimersEnd == Spec => []TimerEndsListening
<1>1. IInv => TimerEndsListening
  <2> SUFFICES ASSUME IInv, NEW g \in Asks
               PROVE  /\ ask[g].listens => ask[g].timer = "on"
                      /\ ask[g].stage = "waiting" => ask[g].promise = "pending"
                                                     /\ ask[g].timer = "on"
    BY DEF TimerEndsListening
  <2>1. AskKept(ask[g])
    BY DEF IInv, AsksKept
  <2> QED
    BY <2>1 DEF AskKept
<1> QED
  BY <1>1, Invariant, PTL
=============================================================================
