------------------------ MODULE ResourceCallsProofs ------------------------
(***************************************************************************)
(* The safety of the calls of the component and service clients, for any    *)
(* clients, methods, calls and answers: what the application gets of what   *)
(* comes back.                                                              *)
(***************************************************************************)
EXTENDS ResourceCalls, TLAPS

(* What all calls look at. *)
Surroundings ==
    /\ webrtc \in BOOLEAN /\ raw \in BOOLEAN /\ up \in BOOLEAN
    /\ conn \in 0 .. MaxConnections
    /\ client \in [Clients -> ClientRecord]
    /\ headers \in [Clients -> SUBSET HeaderNames]
    /\ \A i \in Clients : client[i].made <= conn

(* Where call k comes from. *)
Sender(k) ==
    /\ k.stage # "idle" => k.by # NoCaller
    /\ k.by \in Clients => client[k.by] # NotMade

(* How much of its answer there is before it can be read ... *)
Unanswered(k) ==
    /\ k.stage \in {"idle", "made", "metadata", "refused"} =>
            k.came = <<>> /\ k.got = <<>> /\ k.ended = "no"
    /\ k.stage = "sent" /\ ~Streaming(k.method.gives) => k.came = <<>>

(* ... and what a loop or a generator has of a stream. *)
StreamRead(k) ==
    LET gives == k.method.gives
    IN  /\ Streaming(gives) /\ ~Lazy(gives) =>
                k.taken = Len(k.came) /\ (k.stage = "sent" => k.got = <<>>)
        /\ k.stage = "resolved" /\ Streaming(gives) => k.ended = "ok"
        /\ k.ended = "ok" /\ ~webrtc => k.whole
        /\ gives = "present" => \A n \in DOMAIN k.came : k.came[n] \in {"whole", "bare"}

(* ... and what the application has of it. *)
Yielded(k) ==
    LET gives == k.method.gives
    IN  /\ gives = "collected" => k.got = IF k.stage = "resolved" THEN k.came ELSE <<>>
        /\ Lazy(gives) =>
                /\ Ascending(k.got)
                /\ Range(k.got) = {n \in 1 .. k.taken : gives = "each" \/ k.came[n] = "whole"}

(* A call in good order. *)
Good(k) ==
    /\ k \in CallRecord(k.method.gives)
    /\ k.taken <= Len(k.came)
    /\ Sender(k)
    /\ Unanswered(k)
    /\ StreamRead(k)
    /\ Yielded(k)

(* Ticks are pushed for calls that push, in the order they came. *)
QueueOK ==
    /\ queue \in Seq(Calls \X Nat)
    /\ \A i \in DOMAIN queue : Gives(queue[i][1]) = "queued"
    /\ TicksInOrder

(* The inductive invariant: what a call gives needs to know how much of its   *)
(* answer was read.                                                           *)
IInv ==
    /\ Surroundings
    /\ monitored \in {{}, Reflected, DefaultMonitored}
    /\ call = [c \in Calls |-> call[c]]
    /\ \A c \in Calls : Good(call[c])
    /\ QueueOK

-----------------------------------------------------------------------------
(* Every kind of message is one of the three there are. *)
LEMMA KindsOfMessages == \A gives : Kinds(gives) \subseteq Messages
  BY DEF Kinds, Unusable, Messages

(* A generator that leaves out what has no payload tells these two apart. *)
LEMMA PresentKinds == Kinds("present") = {"whole", "bare"}
  BY DEF Kinds, Unusable

(* Generators read streams. *)
LEMMA LazyStreams == \A gives : Lazy(gives) => Streaming(gives)
  BY DEF Lazy, Streaming

(* A call goes out on the transport of the moment (deferredTransport). *)
LEMMA GoingOut ==
    ASSUME Surroundings, NEW k, Good(k), k.stage \in {"made", "metadata"},
           NEW session \in {"unasked", "carried", "none"}
    PROVE  Good(GoOut(k, session)) /\ GoOut(k, session).method = k.method
           /\ GoOut(k, session).came = k.came
<1> DEFINE o == GoOut(k, session)
           on == TransportFor(k.by)
           stage == IF Reaches(on) THEN "sent" ELSE "refused"
           met == IF up THEN conn ELSE 0
<1>0. k \in CallRecord(k.method.gives)
  BY DEF Good
<1>1. /\ k.by \in Clients \union {Robot}
      /\ k.by \in Clients => client[k.by] # NotMade
  BY <1>0 DEF Good, Sender, CallRecord
<1>2. /\ MaxConnections \in Nat /\ Robot \notin Clients
      /\ conn \in 0 .. MaxConnections
      /\ k.by \in Clients => client[k.by].made \in 0 .. conn
  BY <1>1, MaxConnectionsAssumption, CallersAssumption DEF Surroundings, ClientRecord
<1>3. on \in 0 .. MaxConnections
  BY <1>1, <1>2 DEF TransportFor
<1>4. stage \in Stages
  BY DEF Stages
<1>5. met \in 0 .. MaxConnections
  BY <1>2
<1>6. o = [k EXCEPT !.stage = stage, !.conn = on, !.met = met, !.session = session]
  BY DEF GoOut
<1> HIDE DEF o, on, stage, met
<1>8. /\ o \in CallRecord(k.method.gives)
      /\ o.by = k.by /\ o.method = k.method /\ o.came = k.came /\ o.got = k.got
      /\ o.taken = k.taken /\ o.ended = k.ended /\ o.whole = k.whole
      /\ o.headers = k.headers
      /\ o.stage = stage /\ o.conn = on /\ o.met = met
  BY <1>0, <1>3, <1>4, <1>5, <1>6 DEF CallRecord
<1>9. Sender(o)
  BY <1>1, <1>2, <1>8, CallersAssumption DEF Sender
<1>u. k.came = <<>> /\ k.got = <<>> /\ k.ended = "no" /\ k.taken <= Len(k.came)
  BY DEF Good, Unanswered
<1>10. Unanswered(o)
  BY <1>8, <1>u DEF Unanswered
<1>11. StreamRead(o)
  <2>1. StreamRead(k)
    BY DEF Good
  <2>2. o.stage # "resolved" /\ o.ended # "ok"
    BY <1>8, <1>u DEF stage
  <2> QED
    BY <1>8, <1>u, <2>1, <2>2 DEF StreamRead
<1>12. Yielded(o)
  <2>1. Yielded(k) /\ o.stage # "resolved"
    BY <1>8 DEF Good, stage
  <2> QED
    BY <1>8, <1>u, <2>1 DEF Yielded
<1> QED
  BY <1>8, <1>9, <1>u, <1>10, <1>11, <1>12 DEF Good, o

(* Headers are copied, and the call waits for its session or goes out. *)
LEMMA Requesting ==
    ASSUME Surroundings, NEW k, Good(k), k.stage = "made"
    PROVE  Good(Request(k)) /\ Request(k).method = k.method /\ Request(k).came = k.came
<1> DEFINE h == HeadersOf(k.by)
           with == [k EXCEPT !.headers = h]
           wait == [with EXCEPT !.stage = "metadata"]
<1>0. k \in CallRecord(k.method.gives)
  BY DEF Good
<1>1. k.by \in Clients \union {Robot} /\ Robot \notin Clients
  BY <1>0, CallersAssumption DEF Good, Sender, CallRecord
<1>2. h \in SUBSET HeaderNames
  BY <1>1 DEF HeadersOf, Surroundings
<1> HIDE DEF h
<1>3. /\ with \in CallRecord(k.method.gives)
      /\ with.by = k.by /\ with.method = k.method /\ with.came = k.came /\ with.got = k.got
      /\ with.taken = k.taken /\ with.ended = k.ended /\ with.whole = k.whole
      /\ with.headers = h
      /\ with.stage = k.stage /\ with.conn = k.conn /\ with.met = k.met
  BY <1>0, <1>2 DEF CallRecord
<1> HIDE DEF with
<1>4. /\ wait \in CallRecord(k.method.gives)
      /\ wait.by = k.by /\ wait.method = k.method /\ wait.came = k.came /\ wait.got = k.got
      /\ wait.taken = k.taken /\ wait.ended = k.ended /\ wait.whole = k.whole
      /\ wait.headers = h
      /\ wait.stage = "metadata" /\ wait.conn = k.conn /\ wait.met = k.met
  BY <1>3 DEF CallRecord, Stages
<1> HIDE DEF wait
<1>5. k.came = <<>> /\ k.got = <<>> /\ k.ended = "no" /\ k.taken <= Len(k.came)
  BY DEF Good, Unanswered
<1>6. Sender(with) /\ Sender(wait)
  BY <1>3, <1>4 DEF Good, Sender
<1>7. Unanswered(with) /\ Unanswered(wait)
  BY <1>3, <1>4, <1>5 DEF Unanswered
<1>8. StreamRead(with) /\ StreamRead(wait)
  <2>1. StreamRead(k)
    BY DEF Good
  <2> QED
    BY <1>3, <1>4, <1>5, <2>1 DEF StreamRead
<1>9. Yielded(with) /\ Yielded(wait)
  <2>1. Yielded(k)
    BY DEF Good
  <2>2. Yielded(with)
    BY <1>3, <2>1 DEF Yielded
  <2> QED
    BY <1>4, <2>1, <2>2 DEF Yielded
<1>10. Good(with) /\ Good(wait)
  BY <1>3, <1>4, <1>5, <1>6, <1>7, <1>8, <1>9 DEF Good
<1>11. LET o == GoOut(with, "unasked")
       IN  Good(o) /\ o.method = with.method /\ o.came = with.came
  BY <1>3, <1>10, GoingOut
<1>12. Request(k) = IF Waits(k) THEN wait ELSE GoOut(with, "unasked")
  BY DEF Request, h, with, wait
<1> QED
  BY <1>3, <1>4, <1>10, <1>11, <1>12

(* A call as it is made. *)
LEMMA Beginning ==
    ASSUME Surroundings,
           NEW by \in Clients \union {Robot}, NEW m \in AllMethods,
           by \in Clients => client[by] # NotMade
    PROVE  LET k == [NoCall EXCEPT !.by = by, !.method = m, !.stage = "made"]
           IN  Good(k) /\ k.stage = "made" /\ k.came = <<>> /\ k.method = m
<1> DEFINE k == [NoCall EXCEPT !.by = by, !.method = m, !.stage = "made"]
<1>1. 0 \in 0 .. MaxConnections /\ \A S : <<>> \in Seq(S)
  BY MaxConnectionsAssumption
<1>2. NoCall \in CallRecord(m.gives)
  BY <1>1 DEF NoCall, CallRecord, Stages
<1>3. /\ NoCall.conn = 0 /\ NoCall.met = 0 /\ NoCall.headers = {}
      /\ NoCall.came = <<>> /\ NoCall.ended = "no" /\ NoCall.taken = 0 /\ NoCall.got = <<>>
  BY DEF NoCall
<1>4. /\ k \in CallRecord(m.gives)
      /\ k.by = by /\ k.method = m /\ k.stage = "made"
      /\ k.conn = 0 /\ k.met = 0 /\ k.headers = {}
      /\ k.came = <<>> /\ k.ended = "no" /\ k.taken = 0 /\ k.got = <<>>
  BY <1>2, <1>3 DEF CallRecord, Stages
<1> HIDE DEF k
<1>5. Sender(k)
  BY <1>4, CallersAssumption DEF Sender
<1>6. Unanswered(k) /\ StreamRead(k)
  BY <1>4 DEF Unanswered, StreamRead
<1>7. Ascending(k.got) /\ Range(k.got) = {} /\ 1 .. k.taken = {}
  BY <1>4 DEF Ascending, Range
<1>8. Yielded(k)
  BY <1>4, <1>7 DEF Yielded
<1> QED
  BY <1>4, <1>5, <1>6, <1>8 DEF Good, k

(* An error the application gets. *)
LEMMA Rejecting ==
    ASSUME NEW k, Good(k), k.stage \in {"metadata", "sent"}
    PROVE  Good([k EXCEPT !.stage = "rejected"])
<1> DEFINE r == [k EXCEPT !.stage = "rejected"]
<1>0. k \in CallRecord(k.method.gives)
  BY DEF Good
<1>1. /\ r \in CallRecord(k.method.gives)
      /\ r.by = k.by /\ r.method = k.method /\ r.came = k.came /\ r.got = k.got
      /\ r.taken = k.taken /\ r.ended = k.ended /\ r.whole = k.whole
      /\ r.headers = k.headers
      /\ r.stage = "rejected" /\ r.conn = k.conn /\ r.met = k.met
  BY <1>0 DEF CallRecord, Stages
<1> HIDE DEF r
<1>2. Sender(r)
  BY <1>1 DEF Good, Sender
<1>3. Unanswered(r)
  BY <1>1 DEF Unanswered
<1>4. StreamRead(r)
  BY <1>1 DEF Good, StreamRead
<1>5. Yielded(r)
  <2>1. Yielded(k)
    BY DEF Good
  <2> QED
    BY <1>1, <2>1 DEF Yielded
<1> QED
  BY <1>1, <1>2, <1>3, <1>4, <1>5 DEF Good, r

(* The only message of an answer. *)
LEMMA Answering ==
    ASSUME NEW k, Good(k), k.stage = "sent", ~Streaming(k.method.gives),
           NEW msg \in Kinds(k.method.gives)
    PROVE  /\ Good([k EXCEPT !.stage = "rejected", !.came = <<msg>>])
           /\ Good([k EXCEPT !.stage = "resolved", !.came = <<msg>>, !.whole = TRUE,
                             !.got = Value(k.method.gives, msg)])
<1> DEFINE gives == k.method.gives
           v == Value(gives, msg)
           r == [k EXCEPT !.stage = "rejected", !.came = <<msg>>]
           o == [k EXCEPT !.stage = "resolved", !.came = <<msg>>, !.whole = TRUE, !.got = v]
<1>0. k \in CallRecord(k.method.gives)
  BY DEF Good
<1>1. ~Lazy(gives) /\ gives \notin {"collected", "present"}
  BY LazyStreams DEF Streaming
<1>2. <<msg>> \in Seq(Messages) /\ Len(<<msg>>) = 1 /\ DOMAIN <<msg>> = 1 .. 1
  BY KindsOfMessages
<1>3. v \in Seq(Messages \union {"empty"})
  <2>1. msg \in Messages
    BY KindsOfMessages
  <2>2. v \in {<<>>, <<"empty">>, <<msg>>}
    BY DEF Value
  <2>3. <<>> \in Seq(Messages \union {"empty"})
    OBVIOUS
  <2>4. <<"empty">> \in Seq(Messages \union {"empty"})
    OBVIOUS
  <2>5. <<msg>> \in Seq(Messages \union {"empty"})
    BY <2>1
  <2> QED
    BY <2>2, <2>3, <2>4, <2>5
<1>4. v \in Seq(Gotten(gives))
  BY <1>1, <1>3 DEF Gotten
<1>5. k.taken = 0
  BY <1>0 DEF Good, Unanswered, CallRecord
<1> HIDE DEF v
<1>6. /\ r \in CallRecord(gives)
      /\ r.by = k.by /\ r.method = k.method /\ r.came = <<msg>>
      /\ r.taken = k.taken /\ r.ended = k.ended /\ r.whole = k.whole
      /\ r.headers = k.headers
      /\ r.stage = "rejected" /\ r.conn = k.conn /\ r.met = k.met
  BY <1>0, <1>2 DEF CallRecord, Stages
<1>7. /\ o \in CallRecord(gives)
      /\ o.by = k.by /\ o.method = k.method /\ o.came = <<msg>>
      /\ o.taken = k.taken /\ o.ended = k.ended /\ o.whole
      /\ o.headers = k.headers
      /\ o.stage = "resolved" /\ o.conn = k.conn /\ o.met = k.met
  BY <1>0, <1>2, <1>4 DEF CallRecord, Stages
<1> HIDE DEF r, o
<1>8. Sender(r) /\ Sender(o)
  BY <1>6, <1>7 DEF Good, Sender
<1>9. Unanswered(r) /\ Unanswered(o)
  BY <1>6, <1>7 DEF Unanswered
<1>10. StreamRead(r) /\ StreamRead(o)
  BY <1>1, <1>6, <1>7 DEF Good, StreamRead
<1>11. Yielded(r) /\ Yielded(o)
  BY <1>1, <1>6, <1>7 DEF Yielded
<1>12. r.taken <= Len(r.came) /\ o.taken <= Len(o.came)
  BY <1>2, <1>5, <1>6, <1>7
<1>13. Good(r) /\ Good(o)
  BY <1>6, <1>7, <1>8, <1>9, <1>10, <1>11, <1>12 DEF Good
<1> QED
  BY <1>13 DEF r, o, v

(* A message of a stream: a loop takes it at once. *)
LEMMA Streamed ==
    ASSUME NEW k, Good(k), k.stage = "sent", Streaming(k.method.gives),
           NEW msg \in Kinds(k.method.gives)
    PROVE  LET o == [k EXCEPT !.came = Append(@, msg),
                              !.taken = IF Lazy(k.method.gives) THEN @ ELSE @ + 1]
           IN  /\ Good(o)
               /\ o.method = k.method
               /\ o.came = Append(k.came, msg)
<1> DEFINE gives == k.method.gives
           came == Append(k.came, msg)
           taken == IF Lazy(gives) THEN k.taken ELSE k.taken + 1
           o == [k EXCEPT !.came = came, !.taken = taken]
<1>0. k \in CallRecord(k.method.gives) /\ k.taken <= Len(k.came)
  BY DEF Good
<1>1. k.came \in Seq(Messages) /\ k.taken \in Nat
  BY <1>0 DEF CallRecord
<1>2. msg \in Messages
  BY KindsOfMessages
<1>3. /\ came \in Seq(Messages) /\ Len(came) = Len(k.came) + 1
      /\ DOMAIN came = 1 .. Len(came)
      /\ \A n \in 1 .. Len(k.came) : came[n] = k.came[n]
      /\ came[Len(came)] = msg
      /\ DOMAIN k.came = 1 .. Len(k.came) /\ Len(k.came) \in Nat
  BY <1>1, <1>2
<1>4. taken \in Nat /\ taken <= Len(came)
  BY <1>0, <1>1, <1>3
<1> HIDE DEF came, taken
<1>5. /\ o \in CallRecord(gives)
      /\ o.by = k.by /\ o.method = k.method /\ o.came = came /\ o.got = k.got
      /\ o.taken = taken /\ o.ended = k.ended /\ o.whole = k.whole
      /\ o.headers = k.headers
      /\ o.stage = "sent" /\ o.conn = k.conn /\ o.met = k.met
  BY <1>0, <1>3, <1>4 DEF CallRecord
<1> HIDE DEF o
<1>6. Sender(o)
  BY <1>5 DEF Good, Sender
<1>7. Unanswered(o)
  BY <1>5 DEF Unanswered
<1>8. StreamRead(o)
  <2>1. StreamRead(k)
    BY DEF Good
  <2>2. ~Lazy(gives) => k.taken = Len(k.came) /\ k.got = <<>>
    BY <2>1 DEF StreamRead
  <2>3. ~Lazy(gives) => o.taken = Len(o.came) /\ o.got = <<>>
    BY <2>2, <1>3, <1>5 DEF taken
  <2>4. gives = "present" => \A n \in DOMAIN o.came : o.came[n] \in {"whole", "bare"}
    <3> SUFFICES ASSUME gives = "present", NEW n \in DOMAIN o.came
                 PROVE  o.came[n] \in {"whole", "bare"}
      OBVIOUS
    <3>1. msg \in {"whole", "bare"}
      BY PresentKinds
    <3>2. CASE n \in DOMAIN k.came
      BY <1>3, <1>5, <2>1, <3>2 DEF StreamRead
    <3>3. CASE n = Len(came)
      BY <1>3, <1>5, <3>1, <3>3
    <3> QED
      BY <1>3, <1>5, <3>2, <3>3
  <2> QED
    BY <1>5, <2>1, <2>3, <2>4 DEF StreamRead
<1>9. Yielded(o)
  <2>1. Yielded(k) /\ StreamRead(k)
    BY DEF Good
  <2>2. gives = "collected" => o.got = <<>>
    BY <1>5, <2>1 DEF StreamRead, Lazy
  <2>3. Lazy(gives) =>
            {n \in 1 .. o.taken : gives = "each" \/ o.came[n] = "whole"}
                = {n \in 1 .. k.taken : gives = "each" \/ k.came[n] = "whole"}
    BY <1>0, <1>1, <1>3, <1>5 DEF taken
  <2> QED
    BY <1>5, <2>1, <2>2, <2>3 DEF Yielded
<1>10. Good(o)
  BY <1>4, <1>5, <1>6, <1>7, <1>8, <1>9 DEF Good
<1> QED
  BY <1>5, <1>10 DEF came, taken, o

(* The trailers, or the connection going: the stream has an end, and maybe *)
(* less than came.                                                         *)
LEMMA Ending ==
    ASSUME NEW k, Good(k), k.stage = "sent", Streaming(k.method.gives),
           NEW kept \in k.taken .. Len(k.came), NEW ended \in {"ok", "error"},
           NEW whole \in BOOLEAN, ended = "ok" /\ ~webrtc => whole
    PROVE  LET o == Ended(k, ended, kept, whole)
           IN  /\ Good(o)
               /\ o.method = k.method
               /\ ~Lazy(k.method.gives) => o.came = k.came
<1> DEFINE gives == k.method.gives
           came == SubSeq(k.came, 1, kept)
           e == [k EXCEPT !.ended = ended, !.came = came, !.whole = whole]
           o == Ended(k, ended, kept, whole)
<1>0. k \in CallRecord(k.method.gives) /\ k.taken <= Len(k.came)
  BY DEF Good
<1>o. o = AtEnd(e)
  BY DEF Ended
<1>1. k.came \in Seq(Messages) /\ k.taken \in Nat
  BY <1>0 DEF CallRecord
<1>2. /\ came \in Seq(Messages) /\ Len(came) = kept
      /\ DOMAIN came = 1 .. kept /\ DOMAIN k.came = 1 .. Len(k.came)
      /\ \A n \in 1 .. kept : came[n] = k.came[n]
      /\ kept = Len(k.came) => came = k.came
      /\ Len(k.came) \in Nat
  BY <1>1
<1> HIDE DEF came
<1>3. /\ e \in CallRecord(gives)
      /\ e.by = k.by /\ e.method = k.method /\ e.came = came /\ e.got = k.got
      /\ e.taken = k.taken /\ e.ended = ended /\ e.whole = whole
      /\ e.headers = k.headers
      /\ e.stage = "sent" /\ e.conn = k.conn /\ e.met = k.met
  BY <1>0, <1>2 DEF CallRecord
<1> HIDE DEF e, o
<1>4. ~Lazy(gives) => k.taken = Len(k.came) /\ k.got = <<>> /\ came = k.came
  BY <1>1, <1>2 DEF Good, StreamRead
<1>5. Good(e)
  <2>1. Sender(e)
    BY <1>3 DEF Good, Sender
  <2>2. Unanswered(e)
    BY <1>3 DEF Unanswered
  <2>3. StreamRead(e)
    <3>1. StreamRead(k)
      BY DEF Good
    <3>2. e.ended = "ok" /\ ~webrtc => e.whole
      BY <1>3
    <3>3. gives = "present" => \A n \in DOMAIN e.came : e.came[n] \in {"whole", "bare"}
      BY <1>2, <1>3, <3>1 DEF StreamRead
    <3> QED
      BY <1>3, <1>4, <3>1, <3>2, <3>3 DEF StreamRead
  <2>4. Yielded(e)
    <3>1. Yielded(k)
      BY DEF Good
    <3>2. Lazy(gives) =>
              {n \in 1 .. e.taken : gives = "each" \/ e.came[n] = "whole"}
                  = {n \in 1 .. k.taken : gives = "each" \/ k.came[n] = "whole"}
      BY <1>0, <1>1, <1>2, <1>3
    <3>3. gives = "collected" => e.got = <<>>
      BY <1>3, <1>4 DEF Lazy
    <3> QED
      BY <1>3, <3>1, <3>2, <3>3 DEF Yielded
  <2>5. e.taken <= Len(e.came)
    BY <1>1, <1>2, <1>3
  <2> QED
    BY <1>3, <2>1, <2>2, <2>3, <2>4, <2>5 DEF Good
<1>6. CASE Lazy(gives)
  <2>0. Lazy(e.method.gives)
    BY <1>3, <1>6
  <2>1. o = e
    BY <1>o, <2>0 DEF AtEnd
  <2>2. Good(o) /\ o.method = k.method
    BY <1>3, <1>5, <2>1
  <2> QED
    BY <1>6, <2>2 DEF o
<1>7. CASE ~Lazy(gives) /\ ended = "error"
  <2>1. o = [e EXCEPT !.stage = "rejected"]
    BY <1>o, <1>3, <1>7 DEF AtEnd
  <2>2. Good(o)
    BY <1>3, <1>5, <2>1, Rejecting
  <2>3. o.method = k.method /\ o.came = came
    BY <1>3, <2>1 DEF CallRecord
  <2> QED
    BY <1>4, <1>7, <2>2, <2>3 DEF o
<1>8. CASE ~Lazy(gives) /\ ended = "ok"
  <2> DEFINE got == IF gives = "collected" THEN came ELSE <<>>
  <2>1. o = [e EXCEPT !.stage = "resolved", !.got = got]
    BY <1>o, <1>3, <1>8 DEF AtEnd
  <2>2. got \in Seq(Gotten(gives))
    <3>1. Gotten(gives) = Messages \union {"empty"}
      BY <1>8 DEF Gotten
    <3>2. came \in Seq(Messages \union {"empty"}) /\ <<>> \in Seq(Messages \union {"empty"})
      BY <1>2
    <3> QED
      BY <3>1, <3>2
  <2> HIDE DEF got
  <2>3. /\ o \in CallRecord(gives)
        /\ o.by = k.by /\ o.method = k.method /\ o.came = came /\ o.got = got
        /\ o.taken = k.taken /\ o.ended = ended /\ o.whole = whole
        /\ o.headers = k.headers
        /\ o.stage = "resolved" /\ o.conn = k.conn /\ o.met = k.met
    BY <1>3, <2>1, <2>2 DEF CallRecord, Stages
  <2>4. Sender(o)
    BY <2>3 DEF Good, Sender
  <2>5. Unanswered(o)
    BY <2>3 DEF Unanswered
  <2>6. StreamRead(o)
    <3>1. StreamRead(e)
      BY <1>5 DEF Good
    <3> QED
      BY <1>3, <1>8, <2>3, <3>1 DEF StreamRead
  <2>7. Yielded(o)
    BY <1>8, <2>3 DEF Yielded, got
  <2>8. o.taken <= Len(o.came)
    BY <1>3, <1>5, <2>3 DEF Good
  <2>9. Good(o)
    BY <2>3, <2>4, <2>5, <2>6, <2>7, <2>8 DEF Good
  <2> QED
    BY <1>4, <1>8, <2>3, <2>9 DEF o
<1> QED
  BY <1>6, <1>7, <1>8

(* A generator goes on to the next message it yields. *)
LEMMA Yielding ==
    ASSUME NEW k, Good(k), k.stage = "sent", Lazy(k.method.gives), k.taken < Len(k.came)
    PROVE  LET o == Yield(k) IN Good(o) /\ o.method = k.method /\ o.came = k.came
<1> DEFINE gives == k.method.gives
           n == k.taken + 1
           skip == gives = "present" /\ k.came[n] = "bare"
           got == IF skip THEN k.got ELSE Append(k.got, n)
           o == Yield(k)
<1>0. k \in CallRecord(k.method.gives) /\ k.taken <= Len(k.came)
  BY DEF Good
<1>1. k.came \in Seq(Messages) /\ k.taken \in Nat /\ k.got \in Seq(Nat)
  BY <1>0 DEF CallRecord, Gotten
<1>2. n \in DOMAIN k.came /\ n <= Len(k.came) /\ n \in Nat
  BY <1>1
<1>3. /\ Ascending(k.got)
      /\ Range(k.got) = {m \in 1 .. k.taken : gives = "each" \/ k.came[m] = "whole"}
  BY DEF Good, Yielded
<1>4. \A i \in DOMAIN k.got : k.got[i] < n
  <2> SUFFICES ASSUME NEW i \in DOMAIN k.got PROVE k.got[i] < n
    OBVIOUS
  <2>1. k.got[i] \in Range(k.got)
    BY DEF Range
  <2>2. k.got[i] \in 1 .. k.taken
    BY <1>3, <2>1
  <2> QED
    BY <1>1, <2>2
<1>5. got \in Seq(Nat)
  BY <1>1, <1>2
<1>6. /\ skip => got = k.got
      /\ DOMAIN k.got = 1 .. Len(k.got) /\ Len(k.got) \in Nat
      /\ ~skip => /\ DOMAIN got = 1 .. Len(k.got) + 1
                  /\ got[Len(k.got) + 1] = n
                  /\ \A i \in DOMAIN k.got : got[i] = k.got[i] /\ k.got[i] \in Nat
  <2>1. DOMAIN k.got = 1 .. Len(k.got) /\ Len(k.got) \in Nat /\ n \in Nat
        /\ \A i \in DOMAIN k.got : k.got[i] \in Nat
    BY <1>1, <1>2
  <2>2. /\ DOMAIN Append(k.got, n) = 1 .. Len(k.got) + 1
        /\ Append(k.got, n)[Len(k.got) + 1] = n
        /\ \A i \in 1 .. Len(k.got) : Append(k.got, n)[i] = k.got[i]
    <3> HIDE DEF n
    <3> QED
      BY <1>1, <2>1
  <2> HIDE DEF n, skip
  <2> QED
    BY <2>1, <2>2
<1>a. Ascending(got)
  <2>1. CASE skip
    BY <1>3, <1>6, <2>1
  <2>2. CASE ~skip
    BY <1>3, <1>4, <1>6, <2>2 DEF Ascending
  <2> QED
    BY <2>1, <2>2
<1>7. Range(got) = {m \in 1 .. n : gives = "each" \/ k.came[m] = "whole"}
  <2> DEFINE Wanted(m) == gives = "each" \/ k.came[m] = "whole"
  <2>1. 1 .. n = (1 .. k.taken) \union {n}
    BY <1>1
  <2>2. CASE skip
    <3>1. ~Wanted(n)
      BY <2>2
    <3> QED
      BY <1>3, <1>6, <2>1, <2>2, <3>1
  <2>3. CASE ~skip
    <3>1. Wanted(n)
      BY <1>2, <2>3 DEF Good, StreamRead, Lazy
    <3>2. Range(got) = Range(k.got) \union {n}
      BY <1>6, <2>3 DEF Range
    <3> HIDE DEF skip, n
    <3> QED
      BY <1>3, <2>1, <3>1, <3>2
  <2> QED
    BY <2>2, <2>3
<1>8. o = [k EXCEPT !.taken = n, !.got = got]
  BY DEF Yield
<1> HIDE DEF n, got, skip
<1>9. /\ o \in CallRecord(gives)
      /\ o.by = k.by /\ o.method = k.method /\ o.came = k.came /\ o.got = got
      /\ o.taken = n /\ o.ended = k.ended /\ o.whole = k.whole
      /\ o.headers = k.headers
      /\ o.stage = "sent" /\ o.conn = k.conn /\ o.met = k.met
  BY <1>0, <1>2, <1>5, <1>8 DEF CallRecord, Gotten
<1> HIDE DEF o
<1>10. Sender(o)
  BY <1>9 DEF Good, Sender
<1>11. Unanswered(o)
  BY <1>9, LazyStreams DEF Unanswered
<1>12. StreamRead(o)
  BY <1>9 DEF Good, StreamRead
<1>13. Yielded(o)
  BY <1>a, <1>7, <1>9 DEF Yielded, Lazy
<1> QED
  BY <1>2, <1>9, <1>10, <1>11, <1>12, <1>13 DEF Good, o

(* ... and ends with the stream. *)
LEMMA Finishing ==
    ASSUME NEW k, Good(k), k.stage = "sent", Lazy(k.method.gives)
    PROVE  LET o == [k EXCEPT !.stage = IF k.ended = "ok" THEN "resolved" ELSE "rejected"]
           IN  Good(o) /\ o.method = k.method /\ o.came = k.came
<1> DEFINE stage == IF k.ended = "ok" THEN "resolved" ELSE "rejected"
           o == [k EXCEPT !.stage = stage]
<1>0. k \in CallRecord(k.method.gives)
  BY DEF Good
<1>1. stage \in Stages /\ (stage = "resolved" => k.ended = "ok")
      /\ stage \notin {"idle", "made", "metadata", "refused", "sent"}
  BY DEF Stages
<1> HIDE DEF stage
<1>2. /\ o \in CallRecord(k.method.gives)
      /\ o.by = k.by /\ o.method = k.method /\ o.came = k.came /\ o.got = k.got
      /\ o.taken = k.taken /\ o.ended = k.ended /\ o.whole = k.whole
      /\ o.headers = k.headers
      /\ o.stage = stage /\ o.conn = k.conn /\ o.met = k.met
  BY <1>0, <1>1 DEF CallRecord
<1> HIDE DEF o
<1>3. Sender(o)
  BY <1>1, <1>2 DEF Good, Sender
<1>4. Unanswered(o)
  BY <1>1, <1>2 DEF Unanswered
<1>5. StreamRead(o)
  BY <1>1, <1>2 DEF Good, StreamRead
<1>6. Yielded(o)
  <2>1. Yielded(k) /\ o.method.gives # "collected"
    BY <1>2 DEF Good, Lazy
  <2> QED
    BY <1>2, <2>1 DEF Yielded
<1>7. Good(o)
  BY <1>2, <1>3, <1>4, <1>5, <1>6 DEF Good
<1> QED
  BY <1>2, <1>7 DEF o, stage

-----------------------------------------------------------------------------
(* A step of one call that leaves the queue as it is. *)
LEMMA CallStep ==
    ASSUME IInv, NEW c \in Calls, NEW k, Good(k),
           call' = [call EXCEPT ![c] = k],
           \/ /\ k.method = call[c].method
              /\ Gives(c) = "queued" => k.came = call[c].came
           \/ call[c] = NoCall /\ k.came = <<>>,
           UNCHANGED <<connVars, monitored, client, headers, queue>>
    PROVE  IInv'
<1>1. call' = [d \in Calls |-> IF d = c THEN k ELSE call[d]]
  BY DEF IInv
<1>2. call' = [d \in Calls |-> call'[d]]
  BY <1>1
<1>3. \A d \in Calls : Good(call'[d])
  BY <1>1 DEF IInv
<1>4. \A d \in Calls : Good(call[d])'
  BY <1>3 DEF Good, Sender, Unanswered, StreamRead, Yielded, connVars
<1>5. Surroundings' /\ (monitored \in {{}, Reflected, DefaultMonitored})'
  BY DEF IInv, Surroundings, connVars, Reflected
<1>6. QueueOK'
  <2>1. queue \in Seq(Calls \X Nat) /\ \A i \in DOMAIN queue : queue[i][1] \in Calls
    BY DEF IInv, QueueOK
  <2>2. \A i \in DOMAIN queue : Gives(queue[i][1])' = "queued"
    <3> SUFFICES ASSUME NEW i \in DOMAIN queue PROVE Gives(queue[i][1])' = "queued"
      OBVIOUS
    <3>1. Gives(queue[i][1]) = "queued"
      BY DEF IInv, QueueOK
    <3>2. call[c] = NoCall => queue[i][1] # c
      BY <3>1 DEF Gives, NoCall, NoMethod
    <3> QED
      BY <1>1, <2>1, <3>1, <3>2 DEF Gives
  <2>3. TicksInOrder'
    <3> SUFFICES ASSUME NEW d \in Calls, Gives(d)' = "queued"
                 PROVE  /\ \A i, j \in TicksOf(d) : i < j => queue[i][2] < queue[j][2]
                        /\ {queue[i][2] : i \in TicksOf(d)} = DOMAIN call'[d].came
      BY DEF TicksInOrder, TicksOf
    <3>1. CASE Gives(d) = "queued" /\ call'[d].came = call[d].came
      BY <3>1 DEF IInv, QueueOK, TicksInOrder
    <3>2. CASE d = c /\ call[c] = NoCall /\ k.came = <<>>
      <4>1. TicksOf(c) = {}
        BY <3>2 DEF IInv, QueueOK, TicksOf, Gives, NoCall, NoMethod
      <4> QED
        BY <1>1, <3>2, <4>1
    <3> QED
      BY <1>1, <3>1, <3>2 DEF Gives
  <2>4. (queue \in Seq(Calls \X Nat))' /\ (\A i \in DOMAIN queue : Gives(queue[i][1]) = "queued")'
    BY <2>1, <2>2
  <2> QED
    BY <2>3, <2>4 DEF QueueOK
<1> QED
  BY <1>2, <1>4, <1>5, <1>6 DEF IInv

(* A tick is pushed as its message comes. *)
LEMMA TickStep ==
    ASSUME IInv, NEW c \in Calls, NEW k, Good(k),
           call' = [call EXCEPT ![c] = k],
           k.method = call[c].method,
           NEW msg \in Messages, k.came = Append(call[c].came, msg),
           queue' = IF Gives(c) = "queued" THEN Append(queue, <<c, call[c].taken + 1>>) ELSE queue,
           UNCHANGED <<connVars, monitored, client, headers>>
    PROVE  IInv'
<1>1. CASE Gives(c) # "queued"
  <2>1. queue' = queue
    BY <1>1
  <2> QED
    BY <1>1, <2>1, CallStep
<1>2. CASE Gives(c) = "queued"
  <2> DEFINE t == <<c, call[c].taken + 1>>
  <2>0. queue' = Append(queue, t)
    BY <1>2
  <2>1. /\ call' = [d \in Calls |-> IF d = c THEN k ELSE call[d]]
        /\ call' = [d \in Calls |-> call'[d]]
    BY DEF IInv
  <2>2. \A d \in Calls : Good(call[d])'
    <3>1. \A d \in Calls : Good(call'[d])
      BY <2>1 DEF IInv
    <3> QED
      BY <3>1 DEF Good, Sender, Unanswered, StreamRead, Yielded, connVars
  <2>3. Surroundings' /\ (monitored \in {{}, Reflected, DefaultMonitored})'
    BY DEF IInv, Surroundings, connVars, Reflected
  <2>4. /\ call[c].taken = Len(call[c].came)
        /\ call[c].came \in Seq(Messages)
    BY <1>2 DEF IInv, Good, StreamRead, CallRecord, Gives, Streaming, Lazy
  <2>5. /\ DOMAIN call[c].came = 1 .. Len(call[c].came)
        /\ DOMAIN k.came = 1 .. Len(call[c].came) + 1
        /\ Len(call[c].came) \in Nat
    BY <2>4
  <2>6. t \in Calls \X Nat /\ t[1] = c /\ t[2] = Len(call[c].came) + 1
    BY <2>4, <2>5
  <2>7. /\ queue \in Seq(Calls \X Nat)
        /\ \A i \in DOMAIN queue : queue[i][1] \in Calls /\ queue[i][2] \in Nat
    BY DEF IInv, QueueOK
  <2> HIDE DEF t
  <2>8. /\ queue' \in Seq(Calls \X Nat)
        /\ DOMAIN queue' = DOMAIN queue \union {Len(queue) + 1}
        /\ DOMAIN queue = 1 .. Len(queue) /\ Len(queue) \in Nat
        /\ queue'[Len(queue) + 1] = t
        /\ \A i \in DOMAIN queue : queue'[i] = queue[i]
    BY <2>0, <2>6, <2>7
  <2>9. \A d \in Calls : Gives(d)' = Gives(d)
    BY <2>1 DEF Gives
  <2>10. (\A i \in DOMAIN queue : Gives(queue[i][1]) = "queued")'
    <3>1. \A i \in DOMAIN queue : call[queue[i][1]].method.gives = "queued"
      BY DEF IInv, QueueOK, Gives
    <3>2. \A d \in Calls : call'[d].method.gives = call[d].method.gives
      BY <2>9 DEF Gives
    <3>3. call[c].method.gives = "queued"
      BY <1>2 DEF Gives
    <3>4. \A i \in DOMAIN queue' : call'[queue'[i][1]].method.gives = "queued"
      BY <2>6, <2>7, <2>8, <3>1, <3>2, <3>3
    <3> QED
      BY <3>4 DEF Gives
  <2>11. TicksInOrder'
    <3> SUFFICES ASSUME NEW d \in Calls, Gives(d) = "queued"
                 PROVE  /\ \A i, j \in TicksOf(d)' : i < j => queue'[i][2] < queue'[j][2]
                        /\ {queue'[i][2] : i \in TicksOf(d)'} = DOMAIN call'[d].came
      BY <2>9 DEF TicksInOrder
    <3>1. /\ \A i, j \in TicksOf(d) : i < j => queue[i][2] < queue[j][2]
          /\ {queue[i][2] : i \in TicksOf(d)} = DOMAIN call[d].came
      BY DEF IInv, QueueOK, TicksInOrder
    <3>2. CASE d # c
      <4>1. TicksOf(d)' = TicksOf(d)
        BY <2>6, <2>8, <3>2 DEF TicksOf
      <4> QED
        BY <2>1, <2>8, <3>1, <3>2, <4>1 DEF TicksOf
    <3>3. CASE d = c
      <4>1. TicksOf(c)' = TicksOf(c) \union {Len(queue) + 1}
        BY <2>6, <2>8 DEF TicksOf
      <4>2. \A i \in TicksOf(c) : i \in 1 .. Len(queue) /\ queue'[i][2] \in 1 .. Len(call[c].came)
                                  /\ queue'[i][2] = queue[i][2]
        BY <2>5, <2>8, <3>1, <3>3 DEF TicksOf
      <4>3. \A i, j \in TicksOf(c)' : i < j => queue'[i][2] < queue'[j][2]
        BY <2>5, <2>6, <2>8, <3>1, <3>3, <4>1, <4>2
      <4>4. {queue'[i][2] : i \in TicksOf(c)'} = DOMAIN k.came
        <5>1. {queue'[i][2] : i \in TicksOf(c)'} =
                  {queue[i][2] : i \in TicksOf(c)} \union {Len(call[c].came) + 1}
          <6>1. queue'[Len(queue) + 1][2] = Len(call[c].came) + 1
            BY <2>6, <2>8
          <6>2. \A i \in TicksOf(c) : queue'[i][2] = queue[i][2]
            BY <4>2
          <6> DEFINE ticks == TicksOf(c)
                     last == Len(queue) + 1
          <6>3. {queue'[i][2] : i \in TicksOf(c)'} = {queue'[i][2] : i \in ticks \union {last}}
            BY <4>1
          <6> HIDE DEF ticks, last
          <6>4. {queue'[i][2] : i \in ticks \union {last}} =
                    {queue'[i][2] : i \in ticks} \union {queue'[last][2]}
            OBVIOUS
          <6>5. {queue'[i][2] : i \in ticks} = {queue[i][2] : i \in ticks}
            BY <6>2 DEF ticks
          <6> QED
            BY <6>1, <6>3, <6>4, <6>5 DEF ticks, last
        <5>2. {queue[i][2] : i \in TicksOf(c)} = 1 .. Len(call[c].came)
          BY <2>5, <3>1, <3>3
        <5>3. DOMAIN k.came = (1 .. Len(call[c].came)) \union {Len(call[c].came) + 1}
          BY <2>5
        <5> QED
          BY <5>1, <5>2, <5>3
      <4> QED
        BY <2>1, <3>3, <4>3, <4>4
    <3> QED
      BY <3>2, <3>3
  <2> QED
    BY <2>1, <2>2, <2>3, <2>8, <2>10, <2>11 DEF IInv, QueueOK
<1> QED
  BY <1>1, <1>2

(* A step that changes no call and no queue. *)
LEMMA OtherStep ==
    ASSUME IInv, UNCHANGED <<call, queue, webrtc, raw>>,
           Surroundings', (monitored \in {{}, Reflected, DefaultMonitored})',
           \A i \in Clients : client[i] # NotMade => client'[i] = client[i]
    PROVE  IInv'
<1>1. \A c \in Calls : Good(call[c])'
  <2> SUFFICES ASSUME NEW c \in Calls PROVE Good(call[c])'
    OBVIOUS
  <2>1. Good(call[c])
    BY DEF IInv
  <2>2. Sender(call[c])'
    <3>1. Sender(call[c])
      BY <2>1 DEF Good
    <3>2. call[c].by \in Clients => client'[call[c].by] = client[call[c].by]
      BY <3>1 DEF Sender
    <3> QED
      BY <3>1, <3>2 DEF Sender
  <2> QED
    BY <2>1, <2>2 DEF Good, Unanswered, StreamRead, Yielded
<1>2. QueueOK'
  BY DEF IInv, QueueOK, TicksInOrder, TicksOf, Gives
<1> QED
  BY <1>1, <1>2 DEF IInv

(* Nothing was called. *)
LEMMA Initially == Init => IInv
<1> SUFFICES ASSUME Init PROVE IInv
  OBVIOUS
<1>0. \A c \in Calls : call[c] = NoCall
  BY DEF Init
<1>1. Surroundings
  <2>1. 0 \in 0 .. MaxConnections /\ NotMade \in ClientRecord /\ NotMade.made = 0
    BY MaxConnectionsAssumption DEF ClientRecord, NotMade
  <2>2. client \in [Clients -> ClientRecord] /\ headers \in [Clients -> SUBSET HeaderNames]
        /\ conn = 0 /\ \A i \in Clients : client[i].made = 0
    BY <2>1 DEF Init
  <2>3. webrtc \in BOOLEAN /\ raw \in BOOLEAN /\ up \in BOOLEAN
    BY DEF Init
  <2> QED
    BY <2>1, <2>2, <2>3 DEF Surroundings
<1>2. Good(NoCall)
  <2>1. 0 \in 0 .. MaxConnections /\ \A S : <<>> \in Seq(S)
    BY MaxConnectionsAssumption
  <2>2. NoCall \in CallRecord("none")
    BY <2>1 DEF NoCall, CallRecord, Stages
  <2>3. Sender(NoCall)
    BY CallersAssumption DEF NoCall, Sender
  <2>4. NoCall.method.gives = "none" /\ ~Streaming("none") /\ ~Lazy("none")
    BY DEF NoCall, NoMethod, Streaming, Lazy
  <2>5. NoCall.stage = "idle" /\ NoCall.came = <<>> /\ NoCall.got = <<>> /\ NoCall.ended = "no"
        /\ NoCall.taken = 0
    BY DEF NoCall
  <2> QED
    BY <2>2, <2>3, <2>4, <2>5 DEF Good, Unanswered, StreamRead, Yielded
<1>3. QueueOK
  <2>1. queue = <<>> /\ DOMAIN queue = {} /\ queue \in Seq(Calls \X Nat)
    BY DEF Init
  <2>2. \A c \in Calls : Gives(c) = "none"
    BY <1>0 DEF Gives, NoCall, NoMethod
  <2> QED
    BY <2>1, <2>2 DEF QueueOK, TicksInOrder
<1> QED
  BY <1>0, <1>1, <1>2, <1>3 DEF IInv, Init

(* Every operation of the clients and every answer keeps the invariant. *)
LEMMA Inductive == IInv /\ [Next]_vars => IInv'
<1> SUFFICES ASSUME IInv, [Next]_vars PROVE IInv'
  OBVIOUS
<1> USE DEF connVars
<1>g. Surroundings /\ \A c \in Calls : Good(call[c])
  BY DEF IInv
<1>m. MaxConnections \in Nat /\ monitored \in {{}, Reflected, DefaultMonitored}
  BY MaxConnectionsAssumption DEF IInv
<1>1. CASE Connect
  <2>1. Surroundings'
    BY <1>1, <1>g, <1>m DEF Connect, Surroundings, ClientRecord
  <2> QED
    BY <1>1, <1>m, <2>1, OtherStep DEF Connect, Reflected
<1>2. CASE Lose
  <2>1. Surroundings'
    BY <1>2, <1>g DEF Lose, Surroundings
  <2> QED
    BY <1>2, <1>m, <2>1, OtherStep DEF Lose, Reflected
<1>3. CASE GetSessionMetadata
  <2>1. Surroundings'
    BY <1>3, <1>g DEF GetSessionMetadata, Surroundings
  <2>2. monitored' = Reflected => Reflected' = monitored'
    BY RobotMonitorsAssumption DEF Reflected
  <2> QED
    BY <1>3, <2>1, <2>2, OtherStep DEF GetSessionMetadata
<1>4. ASSUME NEW i \in Clients, SetHeaders(i) PROVE IInv'
  <2>1. headers' \in [Clients -> SUBSET HeaderNames]
    BY <1>4, <1>g DEF SetHeaders, AddMetadata, DeleteMetadata, EnableDebugLogging,
                     DisableDebugLogging, Surroundings, HeaderNames
  <2>2. Surroundings'
    BY <1>4, <1>g, <2>1 DEF SetHeaders, Surroundings
  <2> QED
    BY <1>4, <1>m, <2>2, OtherStep DEF SetHeaders, Reflected
<1>5. ASSUME NEW i \in Clients, NEW class \in Made, MakeClient(i, class) PROVE IInv'
  <2>1. class \in Classes
    BY MadeAssumption
  <2>2. [class |-> class, made |-> conn] \in ClientRecord
    BY <1>g, <2>1 DEF Surroundings, ClientRecord
  <2>3. Surroundings'
    BY <1>5, <1>g, <1>m, <2>2 DEF MakeClient, Surroundings
  <2>4. \A j \in Clients : client[j] # NotMade => client'[j] = client[j]
    BY <1>5, <1>g DEF MakeClient, Surroundings
  <2> QED
    BY <1>5, <1>m, <2>3, <2>4, OtherStep DEF MakeClient, Reflected
<1>6. ASSUME NEW c \in Calls, NEW by \in Clients \union {Robot}, NEW m \in Callable[c],
             Begin(c, by, m)
      PROVE  IInv'
  <2> DEFINE k == [NoCall EXCEPT !.by = by, !.method = m, !.stage = "made"]
             n == IF Lazy(m.gives) THEN k ELSE Request(k)
  <2>1. m \in AllMethods
    BY CallableAssumption
  <2>2. by \in Clients => client[by] # NotMade
    BY <1>6, CallersAssumption DEF Begin
  <2>3. Good(k) /\ k.stage = "made" /\ k.came = <<>>
    BY <1>g, <2>1, <2>2, Beginning
  <2>4. Good(Request(k)) /\ Request(k).came = <<>>
    BY <1>g, <2>3, Requesting
  <2>5. call[c] = NoCall /\ call' = [call EXCEPT ![c] = n]
        /\ UNCHANGED <<connVars, monitored, client, headers, queue>>
    BY <1>6 DEF Begin
  <2> HIDE DEF k
  <2>6. Good(n) /\ n.came = <<>>
    BY <2>3, <2>4
  <2> HIDE DEF n
  <2> QED
    BY <2>5, <2>6, CallStep
<1>7. ASSUME NEW c \in Calls, AskFirst(c) PROVE IInv'
  <2> DEFINE k == Request(call[c])
  <2>1. Good(call[c]) /\ call[c].stage = "made"
    BY <1>7, <1>g DEF AskFirst
  <2>2. Good(k) /\ k.method = call[c].method /\ k.came = call[c].came
    BY <1>g, <2>1, Requesting
  <2>3. call' = [call EXCEPT ![c] = k] /\ UNCHANGED <<connVars, monitored, client, headers, queue>>
    BY <1>7 DEF AskFirst
  <2> HIDE DEF k
  <2> QED
    BY <2>2, <2>3, CallStep
<1>8. ASSUME NEW c \in Calls, MetadataComes(c) PROVE IInv'
  <2>0. /\ call[c].stage = "metadata" /\ Good(call[c])
        /\ UNCHANGED <<connVars, monitored, client, headers, queue>>
    BY <1>8, <1>g DEF MetadataComes
  <2>1. ASSUME NEW session \in {"carried", "none"},
               call' = [call EXCEPT ![c] = WithMetadata(c, session)]
        PROVE  IInv'
    <3> DEFINE k == GoOut(call[c], session)
    <3>1. Good(k) /\ k.method = call[c].method /\ k.came = call[c].came
      BY <1>g, <2>0, GoingOut
    <3>2. call' = [call EXCEPT ![c] = k]
      BY <2>1 DEF WithMetadata
    <3> HIDE DEF k
    <3> QED
      BY <2>0, <3>1, <3>2, CallStep
  <2>2. CASE call' = [call EXCEPT ![c].stage = "rejected"]
    <3> DEFINE k == [call[c] EXCEPT !.stage = "rejected"]
    <3>1. Good(k)
      BY <2>0, Rejecting
    <3>2. k.method = call[c].method /\ k.came = call[c].came
      BY <2>0 DEF Good, CallRecord
    <3>3. call' = [call EXCEPT ![c] = k]
      BY <2>2
    <3> HIDE DEF k
    <3> QED
      BY <2>0, <3>1, <3>2, <3>3, CallStep
  <2> QED
    BY <1>8, <2>1, <2>2 DEF MetadataComes
<1>9. ASSUME NEW c \in Calls, Answer(c) PROVE IInv'
  <2> DEFINE gives == Gives(c)
             r(msg) == [call[c] EXCEPT !.stage = "rejected", !.came = <<msg>>]
             o(msg) == [call[c] EXCEPT !.stage = "resolved", !.came = <<msg>>, !.whole = TRUE,
                                       !.got = Value(gives, msg)]
  <2>0. /\ call[c].stage = "sent" /\ Good(call[c]) /\ ~Streaming(call[c].method.gives)
        /\ UNCHANGED <<connVars, monitored, client, headers, queue>>
    BY <1>9, <1>g DEF Answer, Answerable, InFlight, Gives
  <2>1. gives # "queued"
    BY <2>0 DEF Gives, Streaming
  <2>2. ASSUME NEW msg \in Kinds(gives), call' = [call EXCEPT ![c] = r(msg)]
        PROVE  IInv'
    <3> DEFINE k == r(msg)
    <3>1. Good(k)
      BY <2>0, Answering DEF Gives
    <3>2. k.method = call[c].method
      BY <2>0 DEF Good, CallRecord
    <3> HIDE DEF k
    <3> QED
      BY <2>0, <2>1, <2>2, <3>1, <3>2, CallStep DEF k
  <2>3. ASSUME NEW msg \in Kinds(gives), call' = [call EXCEPT ![c] = o(msg)]
        PROVE  IInv'
    <3> DEFINE k == o(msg)
    <3>1. Good(k)
      BY <2>0, Answering DEF Gives
    <3>2. k.method = call[c].method
      BY <2>0 DEF Good, CallRecord
    <3> HIDE DEF k
    <3> QED
      BY <2>0, <2>1, <2>3, <3>1, <3>2, CallStep DEF k
  <2>4. CASE call' = [call EXCEPT ![c].stage = "rejected"]
    <3> DEFINE k == [call[c] EXCEPT !.stage = "rejected"]
    <3>1. Good(k)
      BY <2>0, Rejecting
    <3>2. k.method = call[c].method
      BY <2>0 DEF Good, CallRecord
    <3>3. call' = [call EXCEPT ![c] = k]
      BY <2>4
    <3> HIDE DEF k
    <3> QED
      BY <2>0, <2>1, <3>1, <3>2, <3>3, CallStep
  <2>5. \/ \E msg \in Kinds(gives) : 
              call' = [call EXCEPT ![c] = r(msg)] \/ call' = [call EXCEPT ![c] = o(msg)]
        \/ call' = [call EXCEPT ![c].stage = "rejected"]
    BY <1>9 DEF Answer
  <2> QED
    BY <2>2, <2>3, <2>4, <2>5
<1>10. ASSUME NEW c \in Calls, Message(c) PROVE IInv'
  <2>0. /\ call[c].stage = "sent" /\ Good(call[c]) /\ Streaming(call[c].method.gives)
        /\ UNCHANGED <<connVars, monitored, client, headers>>
        /\ queue' = IF Gives(c) = "queued" THEN Append(queue, <<c, call[c].taken + 1>>) ELSE queue
    BY <1>10, <1>g DEF Message, Answerable, InFlight, Gives, Push
  <2>1. PICK msg \in Kinds(Gives(c)) :
            call' = [call EXCEPT ![c].came = Append(@, msg),
                                 ![c].taken = IF Lazy(Gives(c)) THEN @ ELSE @ + 1]
    BY <1>10 DEF Message
  <2> DEFINE k == [call[c] EXCEPT !.came = Append(@, msg),
                                  !.taken = IF Lazy(call[c].method.gives) THEN @ ELSE @ + 1]
  <2>2. call' = [call EXCEPT ![c] = k]
    BY <2>1 DEF Gives, IInv
  <2>3. Good(k) /\ k.method = call[c].method /\ k.came = Append(call[c].came, msg)
    BY <2>0, Streamed DEF Gives
  <2>4. msg \in Messages
    BY KindsOfMessages
  <2> HIDE DEF k
  <2> QED
    BY <2>0, <2>2, <2>3, <2>4, TickStep
<1>11. ASSUME NEW c \in Calls, End(c) PROVE IInv'
  <2>0. /\ call[c].stage = "sent" /\ Good(call[c]) /\ Streaming(call[c].method.gives)
        /\ UNCHANGED <<connVars, monitored, client, headers, queue>>
    BY <1>11, <1>g DEF End, Answerable, InFlight, Gives
  <2>1. PICK ok \in BOOLEAN, headersCame \in BOOLEAN, kept \in call[c].taken .. Len(call[c].came) :
            /\ ~webrtc => kept = Len(call[c].came)
            /\ call' = [call EXCEPT ![c] =
                        Ended(@, IF ok \/ (webrtc /\ headersCame) THEN "ok" ELSE "error",
                              kept, ok /\ kept = Len(call[c].came))]
    BY <1>11 DEF End
  <2> DEFINE ended == IF ok \/ (webrtc /\ headersCame) THEN "ok" ELSE "error"
             whole == ok /\ kept = Len(call[c].came)
             k == Ended(call[c], ended, kept, whole)
  <2>2. ended \in {"ok", "error"} /\ whole \in BOOLEAN /\ (ended = "ok" /\ ~webrtc => whole)
    BY <2>1
  <2>3. call' = [call EXCEPT ![c] = k]
    BY <2>1
  <2> HIDE DEF ended, whole
  <2>4. Good(k) /\ k.method = call[c].method
        /\ (~Lazy(call[c].method.gives) => k.came = call[c].came)
    BY <2>0, <2>2, Ending
  <2> HIDE DEF k
  <2> QED
    BY <2>0, <2>3, <2>4, CallStep DEF Gives, Lazy
<1>12. ASSUME NEW c \in Calls, FailLost(c) PROVE IInv'
  <2>0. /\ call[c].stage = "sent" /\ Good(call[c])
        /\ UNCHANGED <<connVars, monitored, client, headers, queue>>
    BY <1>12, <1>g DEF FailLost, InFlight, Gives
  <2>1. CASE Streaming(Gives(c))
    <3> DEFINE k == Ended(call[c], "error", call[c].taken, FALSE)
    <3>1. call[c].taken \in call[c].taken .. Len(call[c].came)
      BY <2>0 DEF Good, CallRecord
    <3>2. Good(k) /\ k.method = call[c].method
          /\ (~Lazy(call[c].method.gives) => k.came = call[c].came)
      BY <2>0, <2>1, <3>1, Ending DEF Gives
    <3>3. call' = [call EXCEPT ![c] = k]
      BY <1>12, <2>1 DEF FailLost
    <3> HIDE DEF k
    <3> QED
      BY <2>0, <3>2, <3>3, CallStep DEF Gives, Lazy
  <2>2. CASE ~Streaming(Gives(c))
    <3> DEFINE k == [call[c] EXCEPT !.stage = "rejected"]
    <3>1. Good(k)
      BY <2>0, Rejecting
    <3>2. k.method = call[c].method /\ k.came = call[c].came
      BY <2>0 DEF Good, CallRecord
    <3>3. call' = [call EXCEPT ![c] = k]
      BY <1>12, <2>2 DEF FailLost, IInv
    <3> HIDE DEF k
    <3> QED
      BY <2>0, <3>1, <3>2, <3>3, CallStep
  <2> QED
    BY <2>1, <2>2
<1>13. ASSUME NEW c \in Calls, AskNext(c) PROVE IInv'
  <2>0. /\ call[c].stage = "sent" /\ Good(call[c]) /\ Lazy(call[c].method.gives)
        /\ UNCHANGED <<connVars, monitored, client, headers, queue>>
    BY <1>13, <1>g DEF AskNext, Gives
  <2>1. CASE call[c].taken < Len(call[c].came) /\ call' = [call EXCEPT ![c] = Yield(@)]
    <3> DEFINE k == Yield(call[c])
    <3>1. Good(k) /\ k.method = call[c].method /\ k.came = call[c].came
      BY <2>0, <2>1, Yielding
    <3>2. call' = [call EXCEPT ![c] = k]
      BY <2>1
    <3> HIDE DEF k
    <3> QED
      BY <2>0, <3>1, <3>2, CallStep
  <2>2. CASE call' = [call EXCEPT
                        ![c].stage = IF call[c].ended = "ok" THEN "resolved" ELSE "rejected"]
    <3> DEFINE k == [call[c] EXCEPT
                        !.stage = IF call[c].ended = "ok" THEN "resolved" ELSE "rejected"]
    <3>1. Good(k) /\ k.method = call[c].method /\ k.came = call[c].came
      BY <2>0, Finishing
    <3>2. call' = [call EXCEPT ![c] = k]
      BY <2>2
    <3> HIDE DEF k
    <3> QED
      BY <2>0, <3>1, <3>2, CallStep
  <2> QED
    BY <1>13, <2>1, <2>2 DEF AskNext
<1>14. CASE UNCHANGED vars
  <2>1. Surroundings'
    BY <1>14, <1>g DEF vars, Surroundings
  <2> QED
    BY <1>14, <1>m, <2>1, OtherStep DEF vars, Reflected
<1> QED
  BY <1>1, <1>2, <1>3, <1>4, <1>5, <1>6, <1>7, <1>8, <1>9, <1>10, <1>11, <1>12, <1>13, <1>14
     DEF Next, Application, Environment

(* Whatever is called, and whatever the robot answers and the connection does, *)
(* every call is in good order (clientTransport, SessionTransport, the loops  *)
(* and generators over streams).                                             *)
THEOREM Invariance == Spec => []IInv
<1>1. Init => IInv
  BY Initially
<1>2. IInv /\ [Next]_vars => IInv'
  BY Inductive
<1> QED
  BY <1>1, <1>2, PTL DEF Spec

(* The calls are well formed, no more of a stream is read than came, and      *)
(* reflection finds again what it found (applyHeartbeatMonitoredMethods).     *)
THEOREM TypeCorrect == Spec => []TypeOK
<1>1. IInv => TypeOK
  BY DEF IInv, TypeOK, Surroundings, Good, QueueOK, Gives
<1> QED
  BY <1>1, Invariance, PTL

(* What a stream brings reaches the application in order and once, and over   *)
(* gRPC-web an end without an error is the robot's (getPointCloudMap,         *)
(* streamTicks, getAudio, streamTransformChanges).                           *)
THEOREM StreamsReachTheApplication == Spec => []StreamsAreWhole
<1>1. IInv => EndMeansWhole
  BY DEF IInv, Good, StreamRead, EndMeansWhole, Gives
<1>2. IInv => YieldsInOrder
  BY DEF IInv, Good, Yielded, YieldsInOrder, Gives
<1>3. IInv => TicksInOrder
  BY DEF IInv, QueueOK
<1>4. IInv => StreamsAreWhole
  BY <1>1, <1>2, <1>3 DEF StreamsAreWhole, StreamsInOrder
<1> QED
  BY <1>4, Invariance, PTL
=============================================================================
