------------------------ MODULE ResponseStreamProofs ------------------------
(***************************************************************************)
(* What the reader of a response stream is promised, and what the server is *)
(* sent of the request, for any sizes of packets and any number of messages.*)
(***************************************************************************)
EXTENDS ResponseStream, TLAPS

-----------------------------------------------------------------------------
(* Sequences that count on from a number. *)
CountsFrom(s, k) == \A i \in 1 .. Len(s) : s[i] = k + i

LEMMA CountsEmpty == \A k \in Nat : CountsFrom(<<>>, k)
  BY DEF CountsFrom

LEMMA CountsAppend ==
  ASSUME NEW s \in Seq(Nat), NEW k \in Nat, CountsFrom(s, k)
  PROVE  /\ Append(s, k + Len(s) + 1) \in Seq(Nat)
         /\ Len(Append(s, k + Len(s) + 1)) = Len(s) + 1
         /\ CountsFrom(Append(s, k + Len(s) + 1), k)
  BY DEF CountsFrom

LEMMA CountsTail ==
  ASSUME NEW s \in Seq(Nat), NEW k \in Nat, s # <<>>, CountsFrom(s, k)
  PROVE  /\ Head(s) = k + 1 /\ Tail(s) \in Seq(Nat)
         /\ Len(s) \in Nat \ {0} /\ Len(Tail(s)) = Len(s) - 1
         /\ CountsFrom(Tail(s), k + 1)
  BY DEF CountsFrom

LEMMA CountsConcat ==
  ASSUME NEW s \in Seq(Nat), NEW t \in Seq(Nat), NEW k \in Nat,
         CountsFrom(s, k), CountsFrom(t, k + Len(s))
  PROVE  s \o t \in Seq(Nat) /\ Len(s \o t) = Len(s) + Len(t) /\ CountsFrom(s \o t, k)
<1>1. s \o t \in Seq(Nat) /\ Len(s \o t) = Len(s) + Len(t) /\ Len(s) \in Nat /\ Len(t) \in Nat
  OBVIOUS
<1>2. ASSUME NEW i \in 1 .. Len(s) + Len(t) PROVE (s \o t)[i] = k + i
  <2>1. CASE i <= Len(s)
    <3>1. (s \o t)[i] = s[i] /\ i \in 1 .. Len(s)
      BY <1>1, <2>1
    <3> QED
      BY <3>1 DEF CountsFrom
  <2>2. CASE i > Len(s)
    <3>1. (s \o t)[i] = t[i - Len(s)] /\ i - Len(s) \in 1 .. Len(t)
      BY <1>1, <2>2
    <3>2. t[i - Len(s)] = k + Len(s) + (i - Len(s))
      BY <3>1 DEF CountsFrom
    <3> QED
      BY <1>1, <3>1, <3>2
  <2> QED
    BY <1>1, <2>1, <2>2
<1> QED
  BY <1>1, <1>2 DEF CountsFrom

-----------------------------------------------------------------------------
(* The inductive invariant.  That the application takes the messages in     *)
(* their order needs the order of what is in the iterable and in the queue, *)
(* and that a queue which failed writes no more (InOrder).  Where an end    *)
(* comes from needs to know who closes the iterable (Closing).              *)
InOrder ==
    /\ Len(taken) + Len(items) <= parsed
    /\ ~failed => Len(taken) + Len(items) + Len(queue) = parsed
    /\ failed \/ ~writing => queue = <<>>
    /\ CountsFrom(taken, 0)
    /\ CountsFrom(items, Len(taken))
    /\ CountsFrom(queue, Len(taken) + Len(items))

Closing ==
    /\ trailers # "none" => closed
    /\ ~closed /\ reader # "none" => headers
    /\ streamClosed => trailers # "none" \/ reader = "stopped"
    /\ failed => streamClosed

IInv == TypeOK /\ InOrder /\ Closing /\ EndIsTheServers /\ ResetIsWanted

-----------------------------------------------------------------------------
(* The type invariant in two parts: what is put together, and the rest. *)
Sequences ==
    /\ response \in Seq(Nat)
    /\ complete \in BOOLEAN /\ (~complete => response # <<>>)
    /\ packetBuf \in Seq(PacketRecord)
    /\ packetBufSize \in 0 .. MaxMessageSize
    /\ messages \in Seq(Seq(PacketRecord))
    /\ parsed \in 0 .. Len(messages)
    /\ queue \in Seq(Nat) /\ items \in Seq(Nat) /\ taken \in Seq(Nat)
    /\ written \in Seq(Nat) /\ wire \in Seq(WireRecord)

Flags ==
    /\ open \in BOOLEAN /\ closed \in BOOLEAN /\ headers \in BOOLEAN
    /\ trailers \in {"none", "ok", "error"}
    /\ call \in {"pending", "success", "failure"}
    /\ writing \in BOOLEAN /\ failed \in BOOLEAN /\ streamClosed \in BOOLEAN
    /\ reader \in {"none", "reading", "ended", "stopped"}
    /\ aborted \in BOOLEAN /\ reset \in BOOLEAN /\ inputDone \in BOOLEAN

LEMMA TypeParts == TypeOK <=> Sequences /\ Flags
  BY DEF TypeOK, Sequences, Flags

LEMMA TypePartsNext == TypeOK' <=> Sequences' /\ Flags'
  BY DEF TypeOK, Sequences, Flags

LEMMA InitIInv == Init => IInv
<1> SUFFICES ASSUME Init PROVE IInv
  OBVIOUS
<1>1. Sequences
  BY MaxMessageSizeAssumption DEF Init, Sequences
<1>2. Flags
  BY DEF Init, Flags
<1>3. InOrder
  BY DEF Init, InOrder, CountsFrom
<1>4. Closing /\ EndIsTheServers /\ ResetIsWanted
  BY DEF Init, Closing, EndIsTheServers, ResetIsWanted
<1> QED
  BY <1>1, <1>2, <1>3, <1>4, TypeParts DEF IInv

-----------------------------------------------------------------------------
(* A step that leaves alone what is written, queued and read. *)
LEMMA QuietOrder ==
  ASSUME InOrder, UNCHANGED <<queueVars, items, taken, parsed>>
  PROVE  InOrder'
  BY DEF InOrder, queueVars

(* A write begins: it is the next message after those in the iterable.      *)
LEMMA WriteStep ==
  ASSUME IInv, NEW m, NEW rest \in Seq(Nat), Write(m, rest),
         taken' = taken, parsed' \in Nat, parsed' >= parsed, ~failed,
         m = Len(taken) + Len(items) + 1,
         parsed' = m + Len(rest),
         CountsFrom(rest, m)
  PROVE  InOrder' /\ queue' \in Seq(Nat) /\ items' \in Seq(Nat)
<1>1. queue \in Seq(Nat) /\ items \in Seq(Nat) /\ taken \in Seq(Nat) /\ parsed \in Nat
  BY TypeParts DEF IInv, Sequences
<1>2. /\ CountsFrom(taken, 0) /\ CountsFrom(items, Len(taken))
      /\ Len(taken) + Len(items) <= parsed
  BY DEF IInv, InOrder
<1>3. CASE streamClosed
  <2>1. queue' = <<>> /\ items' = items /\ failed' = TRUE
    BY <1>3 DEF Write
  <2>2. CountsFrom(queue', Len(taken') + Len(items'))
    BY <1>1, <2>1, CountsEmpty
  <2> QED
    BY <1>1, <1>2, <2>1, <2>2 DEF InOrder
<1>4. CASE ~streamClosed
  <2>1. queue' = rest /\ items' = Append(items, m) /\ writing' = TRUE /\ failed' = failed
    BY <1>4 DEF Write
  <2>2. Len(items') = Len(items) + 1 /\ items' \in Seq(Nat) /\ CountsFrom(items', Len(taken))
    BY <1>1, <1>2, <2>1, CountsAppend
  <2>3. CountsFrom(queue', Len(taken') + Len(items'))
    BY <1>1, <2>1, <2>2
  <2>4. Len(taken') + Len(items') + Len(queue') = parsed'
    BY <1>1, <2>1, <2>2
  <2>5. Len(taken') + Len(items') <= parsed'
    BY <1>1, <2>1, <2>2
  <2> QED
    BY <1>2, <2>1, <2>2, <2>3, <2>4, <2>5 DEF InOrder
<1> QED
  BY <1>3, <1>4

LEMMA OnMessageStep ==
  ASSUME IInv, OnMessage(parsed + 1), taken' = taken,
         parsed' = parsed + 1
  PROVE  InOrder' /\ queue' \in Seq(Nat) /\ items' \in Seq(Nat)
<1>1. /\ queue \in Seq(Nat) /\ items \in Seq(Nat) /\ taken \in Seq(Nat)
      /\ parsed \in Nat
  BY TypeParts DEF IInv, Sequences
<1>2. /\ CountsFrom(taken, 0) /\ CountsFrom(items, Len(taken))
      /\ CountsFrom(queue, Len(taken) + Len(items))
      /\ Len(taken) + Len(items) <= parsed
  BY DEF IInv, InOrder
<1>3. CASE failed
  <2>1. UNCHANGED <<queueVars, items>>
    BY <1>3 DEF OnMessage
  <2> QED
    BY <1>1, <1>2, <1>3, <2>1 DEF IInv, InOrder, queueVars
<1>4. CASE ~failed /\ writing
  <2>1. /\ queue' = Append(queue, parsed + 1) /\ UNCHANGED <<writing, failed, items>>
    BY <1>4 DEF OnMessage
  <2>2. parsed = Len(taken) + Len(items) + Len(queue)
    BY <1>4 DEF IInv, InOrder
  <2>3. /\ queue' \in Seq(Nat) /\ Len(queue') = Len(queue) + 1
        /\ CountsFrom(queue', Len(taken) + Len(items))
    BY <1>1, <1>2, <2>1, <2>2, CountsAppend
  <2>4. /\ Len(taken') + Len(items') <= parsed'
        /\ Len(taken') + Len(items') + Len(queue') = parsed'
    BY <1>1, <1>2, <2>1, <2>2, <2>3
  <2> QED
    BY <1>1, <1>2, <1>4, <2>1, <2>3, <2>4 DEF InOrder
<1>5. CASE ~failed /\ ~writing
  <2>1. Write(parsed + 1, <<>>)
    BY <1>5 DEF OnMessage
  <2>2. queue = <<>> /\ parsed = Len(taken) + Len(items) + Len(queue)
    BY <1>5 DEF IInv, InOrder
  <2>3. PICK m : m = parsed + 1
    OBVIOUS
  <2>4. Write(m, <<>>)
    BY <2>1, <2>3 DEF Write
  <2>5. /\ m = Len(taken) + Len(items) + 1 /\ parsed' = m + Len(<<>>)
        /\ parsed' \in Nat /\ parsed' >= parsed
        /\ CountsFrom(<<>>, m) /\ <<>> \in Seq(Nat)
    BY <1>1, <2>2, <2>3, CountsEmpty
  <2> QED
    BY <1>5, <2>4, <2>5, WriteStep
<1> QED
  BY <1>3, <1>4, <1>5

(* A write fails only where the application or the trailers closed the      *)
(* iterable; after the trailers the stream is closed, and nothing is reset. *)
LEMMA WriteCloses ==
  ASSUME IInv, \/ \E m, rest : Write(m, rest)
               \/ \E m : OnMessage(m)
               \/ ResetStream /\ UNCHANGED failed /\ streamClosed
               \/ UNCHANGED <<failed, reset, closed>>
  PROVE  /\ failed' \in BOOLEAN /\ reset' \in BOOLEAN /\ closed' \in BOOLEAN
         /\ closed => closed'
         /\ failed' => failed \/ streamClosed
         /\ reset' => reset \/ (streamClosed /\ ~closed)
<1>1. /\ failed \in BOOLEAN /\ reset \in BOOLEAN /\ closed \in BOOLEAN /\ open \in BOOLEAN
      /\ failed => streamClosed
  BY TypeParts DEF IInv, Flags, Closing
<1>2. CASE UNCHANGED <<failed, reset, closed>>
  BY <1>1, <1>2
<1>3. CASE ResetStream /\ UNCHANGED failed /\ streamClosed
  BY <1>1, <1>3 DEF ResetStream
<1>4. ASSUME NEW m, NEW rest, Write(m, rest)
      PROVE  \/ ResetStream /\ failed' = TRUE /\ streamClosed
             \/ UNCHANGED <<failed, reset, closed>>
  BY <1>4 DEF Write
<1>5. ASSUME NEW m, OnMessage(m)
      PROVE  \/ ResetStream /\ UNCHANGED failed /\ streamClosed
             \/ ResetStream /\ failed' = TRUE /\ streamClosed
             \/ UNCHANGED <<failed, reset, closed>>
  BY <1>1, <1>4, <1>5 DEF OnMessage, queueVars
<1>6. CASE ResetStream /\ failed' = TRUE /\ streamClosed
  BY <1>1, <1>6 DEF ResetStream
<1> QED
  BY <1>2, <1>3, <1>4, <1>5, <1>6

-----------------------------------------------------------------------------
LEMMA AppendIn ==
  ASSUME NEW S, NEW s \in Seq(S), NEW x \in S
  PROVE  Append(s, x) \in Seq(S) /\ Append(s, x) # <<>>
<1>1. Append(s, x) \in Seq(S) /\ Len(Append(s, x)) = Len(s) + 1 /\ Len(s) \in Nat
  OBVIOUS
<1> QED
  BY <1>1

(* A packet is put together with those before it, within the limit. *)
LEMMA PacketTypes ==
  ASSUME Sequences, NEW size \in PacketSizes, NEW eom \in BOOLEAN,
         response' = Sent(size), complete' = eom, processPacketMessage(size, eom)
  PROVE  /\ response' \in Seq(Nat) /\ complete' \in BOOLEAN
         /\ ~complete' => response' # <<>>
         /\ packetBuf' \in Seq(PacketRecord) /\ packetBufSize' \in 0 .. MaxMessageSize
         /\ messages' \in Seq(Seq(PacketRecord))
         /\ Len(messages') = IF eom /\ Fits(size) THEN Len(messages) + 1 ELSE Len(messages)
         /\ ~(eom /\ Fits(size)) => messages' = messages
<1> USE PacketSizesAssumption, MaxMessageSizeAssumption DEF Sequences
<1>1. CASE complete
  <2>1. response' = Append(response, size)
    BY <1>1 DEF Sent
  <2>2. response' \in Seq(Nat) /\ response' # <<>>
    BY <2>1, AppendIn
  <2>3. NextPacket(size) \in PacketRecord
    BY <1>1 DEF NextPacket, PacketRecord
  <2>4. packetBuf' \in Seq(PacketRecord) /\ messages' \in Seq(Seq(PacketRecord))
    BY <2>3 DEF processPacketMessage
  <2>5. packetBufSize' \in 0 .. MaxMessageSize
    BY DEF processPacketMessage, Fits
  <2> QED
    BY <2>2, <2>4, <2>5 DEF processPacketMessage
<1>2. CASE ~complete
  <2>1. /\ response # <<>> /\ Len(response) \in 1 .. Len(response)
        /\ response[Len(response)] \in Nat
    BY <1>2
  <2>2. /\ response' = [response EXCEPT ![Len(response)] = @ + size]
        /\ Last(response) = response[Len(response)]
    BY <1>2 DEF Sent, Last
  <2>3. response' \in Seq(Nat) /\ response' # <<>>
    BY <2>1, <2>2
  <2>4. NextPacket(size) \in PacketRecord
    BY <1>2, <2>1, <2>2 DEF NextPacket, PacketRecord
  <2>5. packetBuf' \in Seq(PacketRecord) /\ messages' \in Seq(Seq(PacketRecord))
    BY <2>4 DEF processPacketMessage
  <2>6. packetBufSize' \in 0 .. MaxMessageSize
    BY DEF processPacketMessage, Fits
  <2> QED
    BY <2>3, <2>5, <2>6 DEF processPacketMessage
<1> QED
  BY <1>1, <1>2

LEMMA PacketStep ==
  ASSUME IInv, NEW size \in PacketSizes, NEW eom \in BOOLEAN, OnPacket(size, eom)
  PROVE  IInv'
<1> USE DEF OnPacket
<1>1. Sequences /\ Flags
  BY TypeParts DEF IInv
<1>2. /\ response' \in Seq(Nat) /\ complete' \in BOOLEAN
      /\ ~complete' => response' # <<>>
      /\ packetBuf' \in Seq(PacketRecord) /\ packetBufSize' \in 0 .. MaxMessageSize
      /\ messages' \in Seq(Seq(PacketRecord))
      /\ Len(messages') = IF eom /\ Fits(size) THEN Len(messages) + 1 ELSE Len(messages)
      /\ ~(eom /\ Fits(size)) => messages' = messages
  BY <1>1, PacketTypes
<1>3. \/ /\ OnMessage(parsed + 1) /\ parsed' = parsed + 1
         /\ Len(messages') = Len(messages) + 1
      \/ /\ UNCHANGED <<parsed, queueVars, items, reset, closed>>
         /\ Len(messages') >= Len(messages)
  <2>1. Len(messages) \in Nat
    BY <1>1 DEF Sequences
  <2> QED
    BY <1>2, <2>1 DEF ParseFails
<1>4. /\ parsed' \in 0 .. Len(messages')
      /\ InOrder' /\ queue' \in Seq(Nat) /\ items' \in Seq(Nat)
  <2>1. /\ parsed \in 0 .. Len(messages) /\ Len(messages) \in Nat /\ Len(messages') \in Nat
        /\ queue \in Seq(Nat) /\ items \in Seq(Nat) /\ taken' = taken
    BY <1>1, <1>2 DEF Sequences
  <2>2. CASE OnMessage(parsed + 1) /\ parsed' = parsed + 1 /\ Len(messages') = Len(messages) + 1
    BY <2>1, <2>2, OnMessageStep
  <2>3. CASE /\ UNCHANGED <<parsed, queueVars, items, reset, closed>>
             /\ Len(messages') >= Len(messages)
    BY <2>1, <2>3, QuietOrder DEF IInv, queueVars
  <2> QED
    BY <1>3, <2>2, <2>3
<1>5. /\ failed' \in BOOLEAN /\ reset' \in BOOLEAN /\ closed' \in BOOLEAN
      /\ closed => closed'
      /\ failed' => failed \/ streamClosed
      /\ reset' => reset \/ (streamClosed /\ ~closed)
  BY <1>3, WriteCloses DEF queueVars
<1>6. writing' \in BOOLEAN
  BY <1>1, <1>3 DEF Flags, OnMessage, Write, queueVars
<1>7. Sequences'
  BY <1>1, <1>2, <1>4 DEF Sequences, requestVars
<1>8. Flags'
  BY <1>1, <1>5, <1>6 DEF Flags, requestVars
<1>9. Closing' /\ EndIsTheServers' /\ ResetIsWanted'
  BY <1>5 DEF IInv, Closing, EndIsTheServers, ResetIsWanted
<1> QED
  BY <1>4, <1>7, <1>8, <1>9, TypePartsNext DEF IInv

LEMMA SettleStep == ASSUME IInv, WriteSettles PROVE IInv'
<1> USE DEF WriteSettles
<1>1. Sequences /\ Flags
  BY TypeParts DEF IInv
<1>2. /\ queue \in Seq(Nat) /\ items \in Seq(Nat) /\ taken \in Seq(Nat)
      /\ parsed \in Nat
  BY <1>1 DEF Sequences
<1>3. InOrder' /\ queue' \in Seq(Nat) /\ items' \in Seq(Nat)
  <2>1. CASE queue = <<>>
    BY <1>2, <2>1 DEF IInv, InOrder, packetVars
  <2>2. CASE queue # <<>>
    <3>1. CountsFrom(queue, Len(taken) + Len(items)) /\ ~failed
          /\ Len(taken) + Len(items) + Len(queue) = parsed
      BY <2>2 DEF IInv, InOrder
    <3>2. PICK m, rest : m = Head(queue) /\ rest = Tail(queue)
      OBVIOUS
    <3>3. /\ m = Len(taken) + Len(items) + 1 /\ rest \in Seq(Nat)
          /\ Len(queue) \in Nat \ {0} /\ Len(rest) = Len(queue) - 1
          /\ CountsFrom(rest, m)
      BY <1>2, <2>2, <3>1, <3>2, CountsTail
    <3>4. Write(m, rest)
      <4>1. Write(Head(queue), Tail(queue))
        BY <2>2
      <4> QED
        BY ONLY <3>2, <4>1 DEF Write
    <3>5. parsed' = parsed
      BY DEF packetVars
    <3>6. parsed' = m + Len(rest) /\ parsed' \in Nat /\ parsed' >= parsed
      <4>1. Len(taken) + Len(items) + Len(queue) = parsed
        BY <3>1
      <4>2. Len(taken) \in Nat /\ Len(items) \in Nat /\ Len(queue) \in Nat
        BY <1>2
      <4>3. parsed = m + Len(rest)
        BY ONLY <3>3, <4>1, <4>2
      <4> QED
        BY ONLY <1>2, <3>5, <4>3
    <3> QED
      BY <3>1, <3>3, <3>4, <3>5, <3>6, WriteStep
  <2> QED
    BY <2>1, <2>2
<1>4. /\ failed' \in BOOLEAN /\ reset' \in BOOLEAN /\ closed' \in BOOLEAN
      /\ closed => closed'
      /\ failed' => failed \/ streamClosed
      /\ reset' => reset \/ (streamClosed /\ ~closed)
  BY WriteCloses
<1>5. writing' \in BOOLEAN
  BY <1>1 DEF Flags, Write
<1>6. Sequences'
  BY <1>1, <1>3 DEF Sequences, packetVars, requestVars
<1>7. Flags'
  BY <1>1, <1>4, <1>5 DEF Flags, requestVars
<1>8. Closing' /\ EndIsTheServers' /\ ResetIsWanted'
  BY <1>4 DEF IInv, Closing, EndIsTheServers, ResetIsWanted
<1> QED
  BY <1>3, <1>6, <1>7, <1>8, TypePartsNext DEF IInv

-----------------------------------------------------------------------------
(* The packets a message of the request is cut into. *)
LEMMA Count ==
  ASSUME NEW size \in Nat
  PROVE  LET n == PacketCount(size)
         IN  /\ n \in Nat \ {0}
             /\ (n - 1) * MaxPacketDataSize <= size
             /\ size <= n * MaxPacketDataSize
             /\ n > 1 => (n - 1) * MaxPacketDataSize < size
<1> DEFINE K == MaxPacketDataSize
           n == (size + K - 1) \div K
           r == (size + K - 1) % K
<1>1. K \in Nat /\ K > 0
  BY MaxPacketDataSizeAssumption
<1>2. n \in Nat /\ r \in 0 .. K - 1 /\ size + K - 1 = K * n + r
  BY <1>1
<1>3. CASE size = 0
  <2>1. PacketCount(size) = 1
    BY <1>3 DEF PacketCount
  <2> QED
    BY <1>1, <1>3, <2>1
<1>4. CASE size # 0
  <2>1. PacketCount(size) = n
    BY <1>4 DEF PacketCount
  <2> HIDE DEF K, n, r
  <2>2. n * K = K * n /\ (n - 1) * K = K * n - K /\ K * n \in Nat
    BY <1>1, <1>2
  <2>3. (n - 1) * K < size /\ size <= n * K
    BY <1>1, <1>2, <2>2
  <2>4. n # 0
    BY <1>1, <1>2, <1>4, <2>2
  <2>5. n \in Nat \ {0} /\ (n - 1) * K <= size
    BY <1>1, <1>2, <2>2, <2>3, <2>4
  <2> QED
    BY ONLY <2>1, <2>3, <2>5 DEF K
<1> QED
  BY <1>3, <1>4

LEMMA Multiples ==
  ASSUME NEW i \in Nat, NEW j \in Nat, i <= j
  PROVE  /\ i * MaxPacketDataSize \in Nat
         /\ i * MaxPacketDataSize <= j * MaxPacketDataSize
         /\ (i + 1) * MaxPacketDataSize = i * MaxPacketDataSize + MaxPacketDataSize
  BY MaxPacketDataSizeAssumption

LEMMA ConcatIn == ASSUME NEW S, NEW s \in Seq(S), NEW t \in Seq(S) PROVE s \o t \in Seq(S)
  OBVIOUS

LEMMA EmptySeq == ASSUME NEW S, NEW s \in Seq(S), Len(s) = 0 PROVE s = <<>>
  OBVIOUS

(* p is the n packets of a message m of that size: the last one ends it.     *)
AreOf(p, n, m, size) ==
    /\ p \in Seq(WireRecord) /\ Len(p) = n
    /\ \A i \in 1 .. n :
          /\ p[i].msg = m /\ p[i].hasMessage = TRUE /\ p[i].eos = FALSE
          /\ p[i].eom = (i = n)
          /\ p[i].size <= MaxPacketDataSize
          /\ i = n => p[i].from + p[i].size = size
          /\ i # n => p[i].from + p[i].size # size
          /\ p[i].from = IF i = 1 THEN 0 ELSE p[i - 1].from + p[i - 1].size

LEMMA PacketsOf ==
  ASSUME NEW m \in Nat, NEW size \in Nat, NEW p, NEW n,
         p = Packets(m, size), n = PacketCount(size)
  PROVE  AreOf(p, n, m, size)
<1> DEFINE K == MaxPacketDataSize
           From(i) == (i - 1) * K
           Size(i) == IF i = n THEN size - From(i) ELSE K
<1>1. K \in Nat /\ K > 0
  BY MaxPacketDataSizeAssumption
<1>2. /\ n \in Nat \ {0} /\ (n - 1) * K <= size /\ size <= n * K
      /\ n > 1 => (n - 1) * K < size
  BY Count
<1>3. ASSUME NEW i \in 1 .. n
      PROVE  p[i] = [msg |-> m, from |-> From(i), size |-> Size(i),
                     hasMessage |-> TRUE, eom |-> i = n, eos |-> FALSE]
  BY DEF Packets
<1>4. p = [i \in 1 .. n |-> p[i]] /\ DOMAIN p = 1 .. n
  BY DEF Packets
<1> HIDE DEF K
<1>5. ASSUME NEW i \in 1 .. n
      PROVE  /\ From(i) \in Nat /\ Size(i) \in Nat /\ Size(i) <= K
             /\ i = n => From(i) + Size(i) = size
             /\ i # n => From(i) + Size(i) # size /\ From(i + 1) = From(i) + Size(i)
             /\ i = 1 => From(i) = 0
  <2>1. /\ (i - 1) * K \in Nat /\ (i - 1) * K <= (n - 1) * K
        /\ i * K = (i - 1) * K + K
    <3>1. i - 1 \in Nat /\ n - 1 \in Nat /\ i - 1 <= n - 1 /\ (i - 1) + 1 = i
      BY <1>2
    <3> QED
      BY <3>1, Multiples DEF K
  <2>2. i = 1 => From(i) = 0
    BY <1>1
  <2>3. CASE i = n
    BY <1>1, <1>2, <2>1, <2>2, <2>3
  <2>4. CASE i # n
    <3>1. i * K \in Nat /\ i * K <= (n - 1) * K /\ n > 1
      <4>1. i \in Nat /\ n - 1 \in Nat /\ i <= n - 1 /\ n > 1
        BY <1>2, <2>4
      <4>2. i * K \in Nat /\ i * K <= (n - 1) * K
        BY <4>1, Multiples DEF K
      <4> QED
        BY <4>1, <4>2
    <3>2. i * K < size
      <4>1. (n - 1) * K \in Nat
        BY <1>2, Multiples DEF K
      <4> QED
        BY <1>2, <3>1, <4>1
    <3>3. From(i + 1) = i * K
      OBVIOUS
    <3> QED
      BY <1>1, <2>1, <2>2, <2>4, <3>1, <3>2, <3>3
  <2> QED
    BY <2>3, <2>4
<1> HIDE DEF From, Size
<1>6. ASSUME NEW i \in 1 .. n
      PROVE  /\ p[i] \in WireRecord
             /\ p[i].msg = m /\ p[i].hasMessage = TRUE /\ p[i].eos = FALSE
             /\ p[i].eom = (i = n)
             /\ p[i].from = From(i) /\ p[i].size = Size(i)
  <2>1. PICK e \in BOOLEAN, from \in Nat, some \in Nat :
           e = (i = n) /\ from = From(i) /\ some = Size(i)
    BY <1>5
  <2>2. p[i] = [msg |-> m, from |-> from, size |-> some,
                hasMessage |-> TRUE, eom |-> e, eos |-> FALSE]
    BY <1>3, <2>1
  <2>3. /\ p[i] \in WireRecord
        /\ p[i].msg = m /\ p[i].hasMessage = TRUE /\ p[i].eos = FALSE /\ p[i].eom = e
        /\ p[i].from = from /\ p[i].size = some
    BY ONLY <2>2, m \in Nat DEF WireRecord
  <2> QED
    BY <2>1, <2>3
<1>7. p \in Seq(WireRecord) /\ Len(p) = n
  <2>1. \A i \in 1 .. n : p[i] \in WireRecord
    BY <1>6
  <2>2. n \in Nat
    BY <1>2
  <2> QED
    BY ONLY <1>4, <2>1, <2>2
<1>8. ASSUME NEW i \in 1 .. n
      PROVE  p[i].from = IF i = 1 THEN 0 ELSE p[i - 1].from + p[i - 1].size
  <2>1. CASE i = 1
    <3>1. p[i].from = From(i) /\ From(i) = 0
      BY <1>5, <1>6, <2>1
    <3> QED
      BY <2>1, <3>1
  <2>2. CASE i # 1
    <3>1. i - 1 \in 1 .. n /\ i - 1 # n /\ (i - 1) + 1 = i
      BY <1>2, <2>2
    <3>2. From((i - 1) + 1) = From(i - 1) + Size(i - 1)
      BY <1>5, <3>1
    <3> QED
      <4>1. p[i].from = From(i)
        BY <1>6
      <4>2. p[i - 1].from = From(i - 1) /\ p[i - 1].size = Size(i - 1)
        BY <1>6, <3>1
      <4>3. From(i) = From(i - 1) + Size(i - 1)
        BY <3>1, <3>2
      <4> QED
        BY ONLY <2>2, <4>1, <4>2, <4>3
  <2> QED
    BY <2>1, <2>2
<1> QED
  <2>1. ASSUME NEW i \in 1 .. n
        PROVE  /\ p[i].msg = m /\ p[i].hasMessage = TRUE /\ p[i].eos = FALSE
               /\ p[i].eom = (i = n)
               /\ p[i].size <= K
               /\ i = n => p[i].from + p[i].size = size
               /\ i # n => p[i].from + p[i].size # size
               /\ p[i].from = IF i = 1 THEN 0 ELSE p[i - 1].from + p[i - 1].size
    <3>1. p[i].from = From(i) /\ p[i].size = Size(i)
      BY <1>6
    <3>2. /\ p[i].size <= K
          /\ i = n => p[i].from + p[i].size = size
          /\ i # n => p[i].from + p[i].size # size
      BY <1>5, <3>1
    <3> QED
      BY ONLY <1>6, <1>8, <3>2
  <2> QED
    BY ONLY <1>7, <2>1 DEF K, AreOf

-----------------------------------------------------------------------------
(* The steps that write no message. *)
LEMMA HeadersAndTrailers ==
  ASSUME IInv, OnHeaders \/ \E ok \in BOOLEAN : OnTrailers(ok)
  PROVE  IInv'
<1>1. Sequences /\ Flags
  BY TypeParts DEF IInv
<1>2. CASE OnHeaders
  <2> USE <1>2 DEF OnHeaders
  <2>1. Sequences' /\ Flags'
    BY <1>1 DEF Sequences, Flags, transportVars, packetVars, queueVars, requestVars
  <2>2. InOrder'
    BY QuietOrder DEF IInv, packetVars
  <2>3. Closing' /\ EndIsTheServers' /\ ResetIsWanted'
    BY DEF IInv, Closing, EndIsTheServers, ResetIsWanted, transportVars, queueVars
  <2> QED
    BY <2>1, <2>2, <2>3, TypePartsNext DEF IInv
<1>3. ASSUME NEW ok \in BOOLEAN, OnTrailers(ok) PROVE IInv'
  <2> USE <1>3 DEF OnTrailers, CloseResponse
  <2>1. Sequences'
    BY <1>1 DEF Sequences, packetVars, queueVars, requestVars
  <2>2. Flags'
    BY <1>1 DEF Flags, queueVars, requestVars
  <2>3. InOrder'
    BY QuietOrder DEF IInv, packetVars
  <2>4. Closing' /\ EndIsTheServers' /\ ResetIsWanted'
    BY <1>1 DEF IInv, Closing, EndIsTheServers, ResetIsWanted, queueVars, Flags
  <2> QED
    BY <2>1, <2>2, <2>3, <2>4, TypePartsNext DEF IInv
<1> QED
  BY <1>2, <1>3

LEMMA ReadSteps == ASSUME IInv, Read \/ ReadEnd \/ StopReading PROVE IInv'
<1>1. Sequences /\ Flags
  BY TypeParts DEF IInv
<1>2. CASE Read
  <2> USE <1>2 DEF Read
  <2>1. /\ items \in Seq(Nat) /\ taken \in Seq(Nat) /\ queue \in Seq(Nat)
        /\ Len(taken) \in Nat /\ Len(items) \in Nat /\ parsed \in Nat
    BY <1>1 DEF Sequences
  <2>2. CountsFrom(taken, 0) /\ CountsFrom(items, Len(taken))
        /\ CountsFrom(queue, Len(taken) + Len(items))
    BY DEF IInv, InOrder
  <2>3. /\ Head(items) = Len(taken) + 1 /\ Tail(items) \in Seq(Nat)
        /\ Len(Tail(items)) = Len(items) - 1
        /\ CountsFrom(Tail(items), Len(taken) + 1)
    BY <2>1, <2>2, CountsTail
  <2>4. taken' = Append(taken, 0 + Len(taken) + 1)
    BY <2>1, <2>3
  <2>5. taken' \in Seq(Nat) /\ Len(taken') = Len(taken) + 1 /\ CountsFrom(taken', 0)
    BY <2>1, <2>2, <2>4, CountsAppend
  <2>6. Len(taken') + Len(items') = Len(taken) + Len(items)
    BY <2>1, <2>3, <2>5
  <2>7. InOrder'
    <3>1. UNCHANGED <<queue, failed, writing, parsed>>
      BY DEF queueVars, packetVars
    <3> QED
      BY <2>1, <2>2, <2>3, <2>5, <2>6, <3>1 DEF IInv, InOrder
  <2>8. Sequences'
    BY <1>1, <2>3, <2>5 DEF Sequences, packetVars, queueVars, requestVars
  <2>9. Flags'
    BY <1>1 DEF Flags, transportVars, queueVars, requestVars
  <2>10. Closing' /\ EndIsTheServers' /\ ResetIsWanted'
    BY DEF IInv, Closing, EndIsTheServers, ResetIsWanted, transportVars, queueVars
  <2> QED
    BY <2>7, <2>8, <2>9, <2>10, TypePartsNext DEF IInv
<1>3. CASE ReadEnd \/ StopReading
  <2> USE <1>3 DEF ReadEnd, StopReading
  <2>1. UNCHANGED <<items, taken, packetVars, queueVars, requestVars, open, trailers, headers, call>>
    BY DEF transportVars
  <2>2. Sequences'
    BY <1>1, <2>1 DEF Sequences, packetVars, queueVars, requestVars
  <2>3. InOrder'
    BY <2>1, QuietOrder DEF IInv, packetVars
  <2>4. /\ UNCHANGED <<closed, aborted, reset>>
        /\ streamClosed' \in BOOLEAN /\ (streamClosed => streamClosed')
    <3>1. CASE ReadEnd
      BY ONLY <1>1, <3>1 DEF ReadEnd, Flags, transportVars
    <3>2. CASE StopReading
      <4>1. PICK stop \in BOOLEAN : streamClosed' = (streamClosed \/ stop)
        BY ONLY <3>2 DEF StopReading
      <4>2. streamClosed' \in BOOLEAN /\ (streamClosed => streamClosed')
        BY ONLY <1>1, <4>1 DEF Flags
      <4> QED
        BY ONLY <3>2, <4>2 DEF StopReading, transportVars
    <3> QED
      BY ONLY <1>3, <3>1, <3>2
  <2>5. /\ reader = "reading" /\ reader' \in {"ended", "stopped"}
        /\ reader' = "ended" => streamClosed
        /\ streamClosed' => streamClosed \/ reader' = "stopped"
    OBVIOUS
  <2>6. Flags'
    BY <1>1, <2>1, <2>4, <2>5 DEF Flags, queueVars, requestVars
  <2>7. Closing' /\ EndIsTheServers' /\ ResetIsWanted'
    BY <2>1, <2>4, <2>5 DEF IInv, Closing, EndIsTheServers, ResetIsWanted, queueVars
  <2> QED
    BY <2>2, <2>3, <2>6, <2>7, TypePartsNext DEF IInv
<1> QED
  BY <1>2, <1>3

(* The abort resets the stream and leaves the reading alone. *)
LEMMA AbortStep == ASSUME IInv, Abort PROVE IInv'
<1> USE DEF Abort
<1>1. Sequences /\ Flags
  BY TypeParts DEF IInv
<1>2. aborted' = TRUE /\ reset' \in BOOLEAN /\ closed' \in BOOLEAN /\ (closed => closed')
  BY <1>1 DEF Flags, ResetStream
<1>3. Sequences'
  BY <1>1 DEF Sequences, packetVars, queueVars, readVars, requestVars
<1>4. Flags'
  BY <1>1, <1>2 DEF Flags, queueVars, readVars, requestVars
<1>5. InOrder'
  BY QuietOrder DEF IInv, packetVars, readVars
<1>6. Closing' /\ EndIsTheServers' /\ ResetIsWanted'
  BY <1>2 DEF IInv, Closing, EndIsTheServers, ResetIsWanted, queueVars, readVars
<1> QED
  BY <1>3, <1>4, <1>5, <1>6, TypePartsNext DEF IInv

LEMMA OtherSteps ==
  ASSUME IInv, Request \/ ChannelLost \/ CloseWithRecvError \/ UNCHANGED vars
  PROVE  IInv'
<1>1. Sequences /\ Flags
  BY TypeParts DEF IInv
<1>2. /\ UNCHANGED <<trailers, headers, call, packetVars, queueVars, readVars, aborted, reset>>
      /\ closed' \in BOOLEAN /\ open' \in BOOLEAN /\ inputDone' \in BOOLEAN
      /\ closed => closed'
      /\ written' \in Seq(Nat) /\ wire' \in Seq(WireRecord)
  <2>1. CASE \E size \in RequestSizes : SendMessage(size)
    <3>1. PICK size \in RequestSizes : SendMessage(size)
      BY <2>1
    <3>2. UNCHANGED <<open, trailers, headers, call, packetVars, queueVars, readVars, aborted,
                      reset, inputDone>>
      BY ONLY <3>1 DEF SendMessage
    <3>3. \/ /\ written' = Append(written, size) /\ closed' = closed
             /\ wire' = wire \o Packets(Len(written) + 1, size)
          \/ closed' = TRUE /\ written' = written /\ wire' = wire
      BY ONLY <3>1 DEF SendMessage
    <3>4. /\ written \in Seq(Nat) /\ size \in Nat
          /\ closed \in BOOLEAN /\ open \in BOOLEAN /\ inputDone \in BOOLEAN
      BY <1>1, RequestSizesAssumption DEF Flags, Sequences
    <3>5. PICK p \in Seq(WireRecord) : p = Packets(Len(written) + 1, size)
      <4>1. PICK m \in Nat : m = Len(written) + 1
        BY <3>4
      <4>2. PICK n : n = PacketCount(size)
        OBVIOUS
      <4>3. PICK q : q = Packets(m, size)
        OBVIOUS
      <4>4. q \in Seq(WireRecord)
        BY ONLY <3>4, <4>1, <4>2, <4>3, PacketsOf DEF AreOf
      <4> QED
        BY ONLY <4>1, <4>3, <4>4
    <3>6. written' = Append(written, size) \/ written' = written
      BY <3>3
    <3>7. wire' = wire \o p \/ wire' = wire
      BY <3>3, <3>5
    <3>8. written' \in Seq(Nat)
      BY ONLY <3>4, <3>6
    <3>9. wire' \in Seq(WireRecord)
      BY <1>1, <3>5, <3>7, ConcatIn DEF Sequences
    <3>10. closed' \in BOOLEAN /\ (closed => closed') /\ open' \in BOOLEAN /\ inputDone' \in BOOLEAN
      BY ONLY <3>2, <3>3, <3>4
    <3> QED
      BY ONLY <3>2, <3>8, <3>9, <3>10
  <2>2. CASE EndInput
    <3>1. EndOfStream \in WireRecord
      BY DEF EndOfStream, WireRecord
    <3>2. wire' = wire \/ wire' = Append(wire, EndOfStream)
      BY <2>2 DEF EndInput
    <3>3. wire' \in Seq(WireRecord)
      BY <1>1, <3>1, <3>2, AppendIn DEF Sequences
    <3> QED
      BY <1>1, <2>2, <3>3 DEF EndInput, Flags, Sequences
  <2>3. CASE InputFails \/ ChannelLost \/ CloseWithRecvError \/ UNCHANGED vars
    BY <1>1, <2>3 DEF InputFails, ChannelLost, CloseWithRecvError, Flags, Sequences, vars,
                      transportVars, requestVars
  <2> QED
    BY <2>1, <2>2, <2>3 DEF Request
<1>3. Sequences'
  BY <1>1, <1>2 DEF Sequences, packetVars, queueVars, readVars
<1>4. Flags'
  BY <1>1, <1>2 DEF Flags, queueVars, readVars
<1>5. InOrder'
  BY <1>2, QuietOrder DEF IInv, packetVars, readVars
<1>6. Closing' /\ EndIsTheServers' /\ ResetIsWanted'
  BY <1>2 DEF IInv, Closing, EndIsTheServers, ResetIsWanted, queueVars, readVars
<1> QED
  BY <1>3, <1>4, <1>5, <1>6, TypePartsNext DEF IInv

LEMMA Inductive == IInv /\ [Next]_vars => IInv'
  BY PacketStep, SettleStep, HeadersAndTrailers, ReadSteps, AbortStep, OtherSteps
     DEF Next, Response, Packet

THEOREM Invariant == Spec => []IInv
  BY InitIInv, Inductive, PTL DEF Spec

-----------------------------------------------------------------------------
(* The second inductive invariant: what is in the buffer carries the message *)
(* under way up to where the server is, from its beginning or, where it was  *)
(* discarded, from a place beyond the limit (Buffered); what was handed on   *)
(* is of messages that have ended (HandedOn); and while the request goes on, *)
(* its last packet ends the last message written (RequestSent).              *)
Buffered ==
    IF complete THEN packetBuf = <<>> /\ packetBufSize = 0
    ELSE LET to == response[Len(response)]
             from == to - packetBufSize
         IN  /\ from = 0 \/ from > MaxMessageSize
             /\ Joined(packetBuf, Len(response), from, to)

HandedOn ==
    \A m \in DOMAIN messages : messages[m][1].msg < Len(response) + IF complete THEN 1 ELSE 0

RequestSent ==
    ~inputDone =>
        /\ \A i \in DOMAIN wire : Framed(wire[i], written)
        /\ IF wire = <<>> THEN written = <<>>
           ELSE wire[Len(wire)].eom /\ wire[Len(wire)].msg = Len(written)

WholeInv == ResponseIsWhole /\ Buffered /\ HandedOn /\ RequestIsFramed /\ RequestSent

LEMMA JoinedAppend ==
  ASSUME NEW p \in Seq(PacketRecord), NEW q \in PacketRecord, NEW k \in Nat,
         NEW from \in Nat, NEW to \in Nat, Joined(p, k, from, to), q.msg = k, q.from = to
  PROVE  /\ Joined(Append(p, q), k, from, to + q.size)
         /\ Append(p, q) # <<>> /\ Append(p, q)[1].msg = k /\ Append(p, q)[1].from = from
<1>1. PICK s : s = Append(p, q)
  OBVIOUS
<1>2. /\ s \in Seq(PacketRecord) /\ Len(s) = Len(p) + 1 /\ Len(p) \in Nat
      /\ s[Len(p) + 1] = q /\ \A i \in 1 .. Len(p) : s[i] = p[i]
  BY <1>1
<1>3. /\ \A i \in 1 .. Len(p) : /\ p[i].msg = k
                                /\ p[i].from = IF i = 1 THEN from ELSE p[i - 1].from + p[i - 1].size
      /\ to = IF p = <<>> THEN from ELSE p[Len(p)].from + p[Len(p)].size
  BY DEF Joined, Last
<1>4. ASSUME NEW i \in 1 .. Len(s)
      PROVE  /\ s[i].msg = k
             /\ s[i].from = IF i = 1 THEN from ELSE s[i - 1].from + s[i - 1].size
  <2>1. CASE i <= Len(p)
    <3>1. i \in 1 .. Len(p) /\ (i # 1 => i - 1 \in 1 .. Len(p))
      BY <1>2, <2>1
    <3> QED
      BY <1>2, <1>3, <3>1
  <2>2. CASE i = Len(p) + 1
    <3>1. s[i] = q
      BY <1>2, <2>2
    <3>2. CASE p = <<>>
      <4>1. i = 1
        BY <2>2, <3>2
      <4> QED
        BY <1>3, <3>1, <3>2, <4>1
    <3>3. CASE p # <<>>
      <4>1. i - 1 = Len(p) /\ i # 1 /\ i - 1 \in 1 .. Len(p)
        BY <1>2, <2>2, <3>3
      <4>2. s[i - 1] = p[Len(p)]
        BY <1>2, <4>1
      <4> QED
        BY <1>3, <3>1, <3>3, <4>1, <4>2
    <3> QED
      BY <3>2, <3>3
  <2> QED
    BY <1>2, <2>1, <2>2
<1>5. s # <<>> /\ 1 \in 1 .. Len(s) /\ DOMAIN s = 1 .. Len(s)
  BY <1>2
<1>6. to + q.size = s[Len(s)].from + s[Len(s)].size
  BY <1>2
<1>7. Joined(s, k, from, to + q.size)
  BY ONLY <1>4, <1>5, <1>6 DEF Joined, Last
<1> QED
  BY <1>1, <1>4, <1>5, <1>7

(* The packet that comes goes on where the buffer ends. *)
LEMMA NextGoesOn ==
  ASSUME Sequences, Buffered, HandedOn, NEW size \in Nat, response' = Sent(size)
  PROVE  LET q == NextPacket(size)
             from == q.from - packetBufSize
         IN  /\ q \in PacketRecord /\ q.size = size
             /\ q.msg = Len(response') /\ q.msg \in Nat \ {0}
             /\ response'[q.msg] = q.from + size
             /\ from \in Nat /\ (from = 0 \/ from > MaxMessageSize)
             /\ Joined(packetBuf, q.msg, from, q.from)
             /\ \A k \in 1 .. q.msg - 1 : k \in DOMAIN response /\ response'[k] = response[k]
             /\ \A m \in DOMAIN messages : messages[m][1].msg < q.msg
<1> DEFINE q == NextPacket(size)
<1>1. /\ response \in Seq(Nat) /\ Len(response) \in Nat /\ packetBufSize \in Nat
      /\ packetBuf \in Seq(PacketRecord) /\ complete \in BOOLEAN /\ MaxMessageSize \in Nat
  BY MaxMessageSizeAssumption DEF Sequences
<1>2. CASE complete
  <2>1. q = [msg |-> Len(response) + 1, from |-> 0, size |-> size] /\ response' = Append(response, size)
    BY <1>2 DEF NextPacket, Sent
  <2>2. packetBuf = <<>> /\ packetBufSize = 0
    BY <1>2 DEF Buffered
  <2>3. q \in PacketRecord /\ q.msg = Len(response) + 1 /\ q.from = 0 /\ q.size = size
    BY <1>1, <2>1 DEF PacketRecord
  <2> HIDE DEF q
  <2>4. /\ Len(response') = Len(response) + 1 /\ response'[Len(response) + 1] = size
        /\ \A k \in 1 .. Len(response) : response'[k] = response[k]
    BY <1>1, <2>1
  <2>5. Joined(packetBuf, q.msg, 0, 0)
    BY <2>2 DEF Joined
  <2>6. \A m \in DOMAIN messages : messages[m][1].msg < q.msg
    BY <1>2, <2>3 DEF HandedOn
  <2>7. q.from - packetBufSize = 0
    BY <2>2, <2>3
  <2> QED
    BY <1>1, <2>3, <2>4, <2>5, <2>6, <2>7 DEF q
<1>3. CASE ~complete
  <2>1. response # <<>> /\ Len(response) \in Nat \ {0} /\ response[Len(response)] \in Nat
    BY <1>1, <1>3 DEF Sequences
  <2>2. /\ q = [msg |-> Len(response), from |-> response[Len(response)], size |-> size]
        /\ response' = [response EXCEPT ![Len(response)] = response[Len(response)] + size]
    BY <1>3 DEF NextPacket, Sent, Last
  <2>3. /\ q \in PacketRecord /\ q.msg = Len(response) /\ q.from = response[Len(response)]
        /\ q.size = size
    BY <2>1, <2>2 DEF PacketRecord
  <2> HIDE DEF q
  <2>4. /\ Len(response') = Len(response)
        /\ response'[Len(response)] = response[Len(response)] + size
        /\ \A k \in 1 .. Len(response) - 1 : response'[k] = response[k]
    BY <1>1, <2>1, <2>2
  <2>5. PICK from : from = response[Len(response)] - packetBufSize
    OBVIOUS
  <2>6. (from = 0 \/ from > MaxMessageSize) /\ Joined(packetBuf, q.msg, from, q.from)
    BY <1>3, <2>3, <2>5 DEF Buffered
  <2>7. from \in Nat
    BY <1>1, <2>1, <2>5, <2>6
  <2>8. \A m \in DOMAIN messages : messages[m][1].msg < q.msg
    <3>1. Len(response) + 0 = Len(response)
      BY <1>1
    <3> QED
      BY <1>3, <2>3, <3>1 DEF HandedOn
  <2>9. from = q.from - packetBufSize
    BY <2>3, <2>5
  <2> QED
    BY <1>1, <2>1, <2>3, <2>4, <2>6, <2>7, <2>8, <2>9 DEF q
<1> QED
  BY <1>1, <1>2, <1>3

LEMMA PacketWhole ==
  ASSUME Sequences, ResponseIsWhole, Buffered, HandedOn,
         NEW size \in PacketSizes, NEW eom \in BOOLEAN,
         response' = Sent(size), complete' = eom, processPacketMessage(size, eom)
  PROVE  ResponseIsWhole' /\ Buffered' /\ HandedOn'
<1>1. size \in Nat /\ MaxMessageSize \in Nat
  BY PacketSizesAssumption, MaxMessageSizeAssumption
<1>2. PICK q : q = NextPacket(size)
  OBVIOUS
<1>3. PICK k : k = q.msg
  OBVIOUS
<1>4. PICK from : from = q.from - packetBufSize
  OBVIOUS
<1>5. /\ q \in PacketRecord /\ q.size = size
      /\ k = Len(response') /\ k \in Nat \ {0}
      /\ response'[k] = q.from + size
      /\ from \in Nat /\ (from = 0 \/ from > MaxMessageSize)
      /\ Joined(packetBuf, k, from, q.from)
      /\ \A j \in 1 .. k - 1 : j \in DOMAIN response /\ response'[j] = response[j]
      /\ \A m \in DOMAIN messages : messages[m][1].msg < k
  BY <1>1, <1>2, <1>3, <1>4, NextGoesOn
<1>6. /\ packetBuf \in Seq(PacketRecord) /\ packetBufSize \in Nat /\ q.from \in Nat
      /\ messages \in Seq(Seq(PacketRecord))
      /\ response \in Seq(Nat) /\ response' \in Seq(Nat)
  <2>1. q.from \in Nat
    BY <1>5 DEF PacketRecord
  <2> QED
    BY <2>1, PacketTypes DEF Sequences
<1>7. PICK full : full = Append(packetBuf, q)
  OBVIOUS
<1>8. /\ Joined(full, k, from, response'[k])
      /\ full # <<>> /\ full[1].msg = k /\ full[1].from = from
  <2>1. PICK to \in Nat : to = q.from
    BY <1>6
  <2>2. q.msg = k /\ Joined(packetBuf, k, from, to) /\ k \in Nat /\ from \in Nat
        /\ q \in PacketRecord /\ packetBuf \in Seq(PacketRecord)
    BY <1>3, <1>5, <1>6, <2>1
  <2>3. /\ Joined(full, k, from, to + q.size)
        /\ full # <<>> /\ full[1].msg = k /\ full[1].from = from
    BY ONLY <1>7, <2>1, <2>2, JoinedAppend
  <2>4. to + q.size = response'[k]
    BY <1>5, <2>1
  <2> QED
    BY ONLY <2>3, <2>4
<1>9. response'[k] = from + (packetBufSize + size) /\ response'[k] \in Nat
  <2>1. response'[k] = q.from + size
    BY <1>5
  <2>2. q.from \in Nat /\ packetBufSize \in Nat
    BY <1>6
  <2> QED
    BY ONLY <1>1, <1>4, <2>1, <2>2
<1>10. /\ packetBuf' = IF eom \/ ~Fits(size) THEN <<>> ELSE full
       /\ packetBufSize' = IF eom \/ ~Fits(size) THEN 0 ELSE packetBufSize + size
       /\ messages' = IF eom /\ Fits(size) THEN Append(messages, full) ELSE messages
  BY <1>2, <1>7 DEF processPacketMessage
<1>11. Fits(size) <=> packetBufSize + size <= MaxMessageSize
  BY <1>1, <1>6 DEF Fits
<1>12. Buffered'
  <2>1. CASE eom
    BY <1>10, <2>1 DEF Buffered
  <2>2. CASE ~eom /\ Fits(size)
    <3>1. packetBuf' = full /\ packetBufSize' = packetBufSize + size
      BY <1>10, <2>2
    <3>2. response'[k] - packetBufSize' = from
      BY <1>1, <1>5, <1>6, <1>9, <3>1
    <3>3. Joined(packetBuf', Len(response'), response'[k] - packetBufSize', response'[k])
      BY <1>5, <1>8, <3>1, <3>2
    <3> QED
      BY <1>5, <2>2, <3>2, <3>3 DEF Buffered, Joined
  <2>3. CASE ~eom /\ ~Fits(size)
    <3>1. packetBuf' = <<>> /\ packetBufSize' = 0
      BY <1>10, <2>3
    <3>2. response'[k] - packetBufSize' = response'[k] /\ response'[k] > MaxMessageSize
      BY <1>1, <1>5, <1>6, <1>9, <1>11, <2>3, <3>1
    <3>3. Joined(packetBuf', Len(response'), response'[k], response'[k])
      BY <3>1 DEF Joined
    <3> QED
      BY <1>5, <2>3, <3>2, <3>3 DEF Buffered, Joined
  <2> QED
    BY <2>1, <2>2, <2>3
<1>13. ASSUME NEW m \in DOMAIN messages
       PROVE  /\ messages[m] # <<>> /\ messages[m][1].msg \in DOMAIN response'
              /\ Joined(messages[m], messages[m][1].msg, messages[m][1].from,
                        response'[messages[m][1].msg])
              /\ response'[messages[m][1].msg] <= MaxMessageSize => messages[m][1].from = 0
  <2> DEFINE j == messages[m][1].msg
  <2>1. j = messages[m][1].msg
    OBVIOUS
  <2>2. /\ messages[m] # <<>> /\ j \in DOMAIN response
        /\ Joined(messages[m], j, messages[m][1].from, response[j])
        /\ response[j] <= MaxMessageSize => messages[m][1].from = 0
    BY DEF ResponseIsWhole
  <2> HIDE DEF j
  <2>3. j \in 1 .. k - 1 /\ j \in DOMAIN response'
    <3>1. j < k /\ k \in Nat /\ k = Len(response')
      BY <1>5, <2>1
    <3>2. response \in Seq(Nat) /\ response' \in Seq(Nat)
      BY <1>6
    <3>3. j \in DOMAIN response
      BY <2>2
    <3>4. j \in 1 .. Len(response)
      BY ONLY <3>2, <3>3
    <3>5. DOMAIN response' = 1 .. k
      BY ONLY <3>1, <3>2
    <3> QED
      BY ONLY <3>1, <3>4, <3>5
  <2>4. response'[j] = response[j]
    BY <1>5, <2>3
  <2> QED
    BY <2>1, <2>2, <2>3, <2>4
<1>14. CASE eom /\ Fits(size)
  <2>1. /\ messages' = Append(messages, full) /\ Len(messages) \in Nat
        /\ DOMAIN messages = 1 .. Len(messages) /\ DOMAIN messages' = 1 .. Len(messages) + 1
        /\ messages'[Len(messages) + 1] = full
        /\ \A m \in 1 .. Len(messages) : messages'[m] = messages[m]
    <3>1. full \in Seq(PacketRecord)
      BY <1>5, <1>6, <1>7, AppendIn
    <3> QED
      BY <1>6, <1>10, <1>14, <3>1
  <2>2. response'[k] <= MaxMessageSize => from = 0
    BY <1>1, <1>5, <1>6, <1>9
  <2>3. k \in DOMAIN response'
    BY <1>5, <1>6
  <2>4. ASSUME NEW m \in DOMAIN messages'
        PROVE  /\ messages'[m] # <<>> /\ messages'[m][1].msg \in DOMAIN response'
               /\ Joined(messages'[m], messages'[m][1].msg, messages'[m][1].from,
                         response'[messages'[m][1].msg])
               /\ response'[messages'[m][1].msg] <= MaxMessageSize => messages'[m][1].from = 0
               /\ messages'[m][1].msg <= k
    <3>1. CASE m = Len(messages) + 1
      BY <1>5, <1>8, <2>1, <2>2, <2>3, <3>1
    <3>2. CASE m \in DOMAIN messages
      <4>1. messages'[m] = messages[m] /\ messages[m][1].msg < k
        BY <1>5, <2>1, <3>2
      <4>2. messages[m][1].msg \in DOMAIN response' /\ messages[m][1].msg <= k
        BY <1>5, <1>6, <1>13, <3>2, <4>1
      <4> QED
        BY <1>13, <3>2, <4>1, <4>2
    <3> QED
      BY <2>1, <3>1, <3>2
  <2>5. ASSUME NEW m \in DOMAIN messages', NEW n \in DOMAIN messages', m < n
        PROVE  messages'[m][1].msg < messages'[n][1].msg
    <3>1. m \in DOMAIN messages /\ messages'[m] = messages[m]
      BY <2>1, <2>5
    <3>2. CASE n = Len(messages) + 1
      BY <1>5, <1>8, <2>1, <3>1, <3>2
    <3>3. CASE n \in DOMAIN messages
      BY <2>1, <2>5, <3>1, <3>3 DEF ResponseIsWhole
    <3> QED
      BY <2>1, <3>2, <3>3
  <2>6. HandedOn'
    <3>1. Len(response') + 1 \in Nat
      BY <1>5
    <3>2. \A m \in DOMAIN messages' : messages'[m][1].msg < Len(response') + 1
      <4>1. \A m \in DOMAIN messages' : messages'[m][1].msg \in 1 .. k
        BY <1>5, <1>6, <2>4
      <4> QED
        BY <1>5, <4>1
    <3> QED
      BY <1>14, <3>2 DEF HandedOn
  <2>7. ResponseIsWhole'
    BY <2>4, <2>5 DEF ResponseIsWhole, Joined
  <2> QED
    BY <1>12, <2>6, <2>7
<1>15. CASE ~(eom /\ Fits(size))
  <2>1. messages' = messages
    BY <1>10, <1>15
  <2>2. ResponseIsWhole'
    BY <1>13, <2>1 DEF ResponseIsWhole, Joined
  <2>3. HandedOn'
    <3>1. \A m \in DOMAIN messages : /\ messages[m][1].msg < Len(response')
                                     /\ messages[m][1].msg < Len(response') + 1
      <4>1. \A m \in DOMAIN messages : messages[m][1].msg \in 1 .. k - 1
        BY <1>5, <1>6, <1>13
      <4> QED
        BY <1>5, <4>1
    <3>2. Len(response') + 0 = Len(response')
      BY <1>5
    <3> QED
      BY <2>1, <3>1, <3>2 DEF HandedOn
  <2> QED
    BY <1>12, <2>2, <2>3
<1> QED
  BY <1>14, <1>15

(* A message of the request is written: its packets go behind those of the   *)
(* messages before it.                                                       *)
LEMMA SendWhole ==
  ASSUME Sequences, Flags, RequestIsFramed, RequestSent, NEW size \in RequestSizes, SendMessage(size)
  PROVE  RequestIsFramed' /\ RequestSent'
<1>1. CASE ~open
  <2>1. UNCHANGED requestVars
    BY <1>1 DEF SendMessage, requestVars
  <2> QED
    BY <2>1 DEF requestVars, RequestIsFramed, RequestSent, Framed, Follows
<1>2. CASE open
  <2>1. /\ ~inputDone /\ ~inputDone'
        /\ written' = Append(written, size)
        /\ wire' = wire \o Packets(Len(written) + 1, size)
    BY <1>2 DEF SendMessage
  <2>2. /\ written \in Seq(Nat) /\ wire \in Seq(WireRecord) /\ size \in Nat /\ Len(wire) \in Nat
        /\ Len(written) \in Nat
    BY RequestSizesAssumption DEF Sequences
  <2>3. PICK k : k = Len(written) + 1
    OBVIOUS
  <2>4. PICK w \in Nat : w = Len(wire)
    BY <2>2
  <2>5. PICK p : p = Packets(k, size)
    OBVIOUS
  <2>6. PICK n : n = PacketCount(size)
    OBVIOUS
  <2>7. /\ k \in Nat \ {0} /\ Len(written') = k /\ written'[k] = size
        /\ \A m \in 1 .. k - 1 : m \in DOMAIN written /\ written'[m] = written[m]
        /\ DOMAIN written' = 1 .. k /\ DOMAIN written = 1 .. k - 1
    BY <2>1, <2>2, <2>3
  <2>8. /\ p \in Seq(WireRecord) /\ Len(p) = n
        /\ \A i \in 1 .. n :
              /\ p[i].msg = k /\ p[i].hasMessage = TRUE /\ p[i].eos = FALSE
              /\ p[i].eom = (i = n)
              /\ p[i].size <= MaxPacketDataSize
              /\ i = n => p[i].from + p[i].size = size
              /\ i # n => p[i].from + p[i].size # size
              /\ p[i].from = IF i = 1 THEN 0 ELSE p[i - 1].from + p[i - 1].size
    <3>1. k \in Nat /\ size \in Nat
      BY <2>2, <2>7
    <3>2. AreOf(p, n, k, size)
      BY ONLY <2>5, <2>6, <3>1, PacketsOf
    <3> QED
      BY ONLY <3>2 DEF AreOf
  <2>9. n \in Nat \ {0}
    BY <2>2, <2>6, Count
  <2>10. wire' = wire \o p
    BY <2>1, <2>3, <2>5
  <2>11. /\ Len(wire') = w + n /\ DOMAIN wire' = 1 .. w + n
         /\ \A i \in 1 .. w : i \in DOMAIN wire /\ wire'[i] = wire[i]
         /\ \A j \in 1 .. n : wire'[w + j] = p[j]
    <3>1. wire \in Seq(WireRecord) /\ w = Len(wire) /\ p \in Seq(WireRecord) /\ n = Len(p)
      BY <2>2, <2>4, <2>8
    <3> QED
      BY ONLY <2>4, <2>9, <2>10, <3>1
  <2>12. ASSUME NEW i \in 1 .. w
         PROVE  /\ Framed(wire[i], written)
                /\ IF i = 1 THEN wire[i].msg = 1 /\ wire[i].from = 0
                   ELSE Follows(wire[i - 1], wire[i])
    <3>1. i \in DOMAIN wire /\ Framed(wire[i], written)
      BY <2>1, <2>11 DEF RequestSent
    <3>2. wire[i] # EndOfStream
      <4>1. wire[i].hasMessage /\ ~EndOfStream.hasMessage
        BY ONLY <3>1 DEF Framed, EndOfStream
      <4> QED
        BY ONLY <4>1
    <3> QED
      BY <3>1, <3>2 DEF RequestIsFramed
  <2>13. ASSUME NEW i \in 1 .. w PROVE Framed(wire'[i], written')
    <3>1. Framed(wire[i], written) /\ wire'[i] = wire[i]
      BY <2>11, <2>12
    <3>2. wire[i].msg \in 1 .. k - 1
      BY ONLY <2>7, <3>1 DEF Framed
    <3>3. wire[i].msg \in DOMAIN written' /\ written'[wire[i].msg] = written[wire[i].msg]
      BY <2>7, <3>2
    <3> QED
      BY ONLY <3>1, <3>3 DEF Framed
  <2>14. ASSUME NEW j \in 1 .. n PROVE Framed(wire'[w + j], written')
    <3>1. wire'[w + j] = p[j] /\ k \in DOMAIN written'
      BY <2>7, <2>11
    <3>2. /\ p[j].eom = (j = n) /\ p[j].msg = k /\ p[j].hasMessage = TRUE /\ p[j].eos = FALSE
          /\ p[j].size <= MaxPacketDataSize
      BY <2>8
    <3>3. (j = n) <=> p[j].from + p[j].size = size
      BY <2>8
    <3>4. p[j].eom <=> p[j].from + p[j].size = written'[p[j].msg]
      BY ONLY <2>7, <3>2, <3>3
    <3> QED
      BY ONLY <3>1, <3>2, <3>4 DEF Framed
  <2>15. ASSUME NEW i \in DOMAIN wire' PROVE i \in 1 .. w \/ \E j \in 1 .. n : i = w + j
    <3>1. i \in 1 .. w + n
      BY <2>11
    <3>2. CASE i > w
      <4>1. i - w \in 1 .. n /\ i = w + (i - w)
        BY <2>9, <3>1, <3>2
      <4> QED
        BY <4>1
    <3> QED
      BY <3>1, <3>2
  <2>16. ASSUME NEW j \in 1 .. n
         PROVE  IF w + j = 1 THEN wire'[w + j].msg = 1 /\ wire'[w + j].from = 0
                ELSE Follows(wire'[w + j - 1], wire'[w + j])
    <3>1. wire'[w + j] = p[j] /\ p[j].msg = k
      BY <2>8, <2>11
    <3>2. CASE j # 1
      <4>1. j - 1 \in 1 .. n /\ w + j # 1 /\ w + j - 1 = w + (j - 1) /\ j - 1 # n
        BY <2>9, <3>2
      <4>2. wire'[w + j - 1] = p[j - 1]
        BY <2>11, <4>1
      <4>3. p[j - 1].eom = FALSE /\ p[j - 1].msg = k /\ p[j].from = p[j - 1].from + p[j - 1].size
        BY <2>8, <3>2, <4>1
      <4> QED
        BY ONLY <3>1, <4>1, <4>2, <4>3 DEF Follows
    <3>3. CASE j = 1 /\ w = 0
      <4>1. w + j = 1 /\ p[j].from = 0
        BY <2>8, <3>3
      <4>2. written = <<>> /\ k = 1
        <5>1. wire = <<>>
          BY <2>2, <2>4, <3>3, EmptySeq
        <5>2. written = <<>>
          BY <2>1, <5>1 DEF RequestSent
        <5> QED
          BY <2>3, <5>2
      <4> QED
        BY <3>1, <4>1, <4>2
    <3>4. CASE j = 1 /\ w # 0
      <4>1. w + j # 1 /\ w + j - 1 = w /\ p[j].from = 0 /\ w \in 1 .. w
        BY <2>8, <3>4
      <4>2. wire'[w] = wire[w] /\ wire # <<>>
        BY <2>2, <2>4, <2>11, <4>1
      <4>3. wire[w].eom /\ wire[w].msg = Len(written)
        BY <2>1, <2>4, <4>2 DEF RequestSent
      <4> QED
        BY ONLY <2>3, <3>1, <4>1, <4>2, <4>3 DEF Follows
    <3> QED
      BY <3>2, <3>3, <3>4
  <2>17. ASSUME NEW i \in 1 .. w
         PROVE  IF i = 1 THEN wire'[i].msg = 1 /\ wire'[i].from = 0
                ELSE Follows(wire'[i - 1], wire'[i])
    <3>1. wire'[i] = wire[i] /\ (i # 1 => wire'[i - 1] = wire[i - 1])
      BY <2>11
    <3> QED
      BY <2>12, <3>1
  <2>18. wire'[w + n] = p[n] /\ p[n].msg = k /\ p[n].eom = TRUE
    <3>1. n \in 1 .. n
      BY <2>9
    <3>2. wire'[w + n] = p[n]
      BY <2>11, <3>1
    <3>3. p[n].msg = k /\ p[n].eom = (n = n)
      BY <2>8, <3>1
    <3> QED
      BY <3>2, <3>3
  <2>19. ASSUME NEW m \in DOMAIN written' PROVE \E i \in DOMAIN wire' : wire'[i].msg = m /\ wire'[i].eom
    <3>1. CASE m = k
      BY <2>9, <2>11, <2>18, <3>1
    <3>2. CASE m # k
      <4>1. m \in DOMAIN written
        BY <2>7, <3>2
      <4>2. PICK i \in DOMAIN wire : wire[i].msg = m /\ wire[i].eom
        BY <4>1 DEF RequestIsFramed
      <4>3. i \in DOMAIN wire' /\ wire'[i] = wire[i]
        BY <2>2, <2>4, <2>9, <2>11
      <4> QED
        BY <4>2, <4>3
    <3> QED
      BY <3>1, <3>2
  <2>20. \A i \in DOMAIN wire' :
            /\ Framed(wire'[i], written')
            /\ IF i = 1 THEN wire'[i].msg = 1 /\ wire'[i].from = 0
               ELSE Follows(wire'[i - 1], wire'[i])
    BY ONLY <2>13, <2>14, <2>15, <2>16, <2>17
  <2>21. RequestIsFramed'
    BY ONLY <2>19, <2>20 DEF RequestIsFramed, Framed, Follows
  <2>22. RequestSent'
    <3>1. wire' # <<>> /\ wire'[Len(wire')] = p[n] /\ Len(written') = k
      BY <2>7, <2>9, <2>11, <2>18
    <3> QED
      BY ONLY <2>18, <2>20, <3>1 DEF RequestSent, Framed
  <2> QED
    BY <2>21, <2>22
<1> QED
  BY <1>1, <1>2 DEF Flags

LEMMA EndWhole ==
  ASSUME Sequences, Flags, RequestIsFramed, RequestSent, EndInput
  PROVE  RequestIsFramed' /\ RequestSent'
<1>1. inputDone' = TRUE /\ ~inputDone /\ written' = written
      /\ (wire' = Append(wire, EndOfStream) \/ wire' = wire)
  BY DEF EndInput
<1>2. RequestSent'
  BY <1>1 DEF RequestSent
<1>3. CASE wire' = wire
  BY <1>1, <1>2, <1>3 DEF RequestIsFramed, Framed, Follows
<1>4. CASE wire' = Append(wire, EndOfStream)
  <2>1. PICK w \in Nat : w = Len(wire)
    BY DEF Sequences
  <2>2. PICK e : e = EndOfStream
    OBVIOUS
  <2>3. /\ Len(wire') = w + 1 /\ DOMAIN wire' = 1 .. w + 1 /\ DOMAIN wire = 1 .. w
        /\ wire'[w + 1] = e /\ \A i \in 1 .. w : wire'[i] = wire[i]
    <3>1. wire \in Seq(WireRecord)
      BY DEF Sequences
    <3> QED
      BY ONLY <1>4, <2>1, <2>2, <3>1
  <2>4. ASSUME NEW i \in 1 .. w
        PROVE  /\ Framed(wire'[i], written')
               /\ IF i = 1 THEN wire'[i].msg = 1 /\ wire'[i].from = 0
                  ELSE Follows(wire'[i - 1], wire'[i])
    <3>1. Framed(wire[i], written)
      BY <1>1, <2>3 DEF RequestSent
    <3>2. wire[i] # EndOfStream
      <4>1. wire[i].hasMessage /\ ~EndOfStream.hasMessage
        BY ONLY <3>1 DEF Framed, EndOfStream
      <4> QED
        BY ONLY <4>1
    <3>3. IF i = 1 THEN wire[i].msg = 1 /\ wire[i].from = 0 ELSE Follows(wire[i - 1], wire[i])
      BY <2>3, <3>2 DEF RequestIsFramed
    <3>4. wire'[i] = wire[i] /\ (i # 1 => wire'[i - 1] = wire[i - 1])
      BY <2>3
    <3>5. Framed(wire'[i], written')
      BY ONLY <1>1, <3>1, <3>4 DEF Framed
    <3> QED
      BY ONLY <3>3, <3>4, <3>5
  <2>5. \A i \in DOMAIN wire' :
           \/ wire'[i] = EndOfStream /\ i = Len(wire')
           \/ /\ Framed(wire'[i], written')
              /\ IF i = 1 THEN wire'[i].msg = 1 /\ wire'[i].from = 0
                 ELSE Follows(wire'[i - 1], wire'[i])
    <3> TAKE i \in DOMAIN wire'
    <3>1. CASE i \in 1 .. w
      BY ONLY <2>4, <3>1
    <3>2. CASE i = w + 1
      BY <2>2, <2>3, <3>2
    <3> QED
      BY <2>3, <3>1, <3>2
  <2>6. \A m \in DOMAIN written' : \E i \in DOMAIN wire' : wire'[i].msg = m /\ wire'[i].eom
    <3> TAKE m \in DOMAIN written'
    <3>1. PICK i \in DOMAIN wire : wire[i].msg = m /\ wire[i].eom
      BY <1>1 DEF RequestIsFramed
    <3>2. i \in DOMAIN wire' /\ wire'[i] = wire[i]
      BY <2>3
    <3> QED
      BY <3>1, <3>2
  <2>7. RequestIsFramed'
    BY ONLY <2>5, <2>6 DEF RequestIsFramed, Framed, Follows, EndOfStream
  <2> QED
    BY <1>2, <2>7
<1> QED
  BY <1>1, <1>3, <1>4

(* The steps that receive no packet and write none of the request. *)
LEMMA WholeKept ==
  ASSUME WholeInv
  PROVE  /\ UNCHANGED packetVars => ResponseIsWhole' /\ Buffered' /\ HandedOn'
         /\ UNCHANGED requestVars => RequestIsFramed' /\ RequestSent'
<1>1. ASSUME UNCHANGED packetVars PROVE ResponseIsWhole' /\ Buffered' /\ HandedOn'
  BY <1>1 DEF WholeInv, packetVars, ResponseIsWhole, Buffered, HandedOn, Joined
<1>2. ASSUME UNCHANGED requestVars PROVE RequestIsFramed' /\ RequestSent'
  BY <1>2 DEF WholeInv, requestVars, RequestIsFramed, RequestSent, Framed, Follows
<1> QED
  BY <1>1, <1>2

LEMMA WholeInductive == IInv /\ WholeInv /\ [Next]_vars => WholeInv'
<1> SUFFICES ASSUME IInv, WholeInv, [Next]_vars PROVE WholeInv'
  OBVIOUS
<1>1. Sequences /\ Flags
  BY TypeParts DEF IInv
<1>2. /\ ResponseIsWhole /\ Buffered /\ HandedOn /\ RequestIsFramed /\ RequestSent
  BY DEF WholeInv
<1>3. ASSUME NEW size \in PacketSizes, NEW eom \in BOOLEAN, OnPacket(size, eom) PROVE WholeInv'
  <2>1. /\ response' = Sent(size) /\ complete' = eom /\ processPacketMessage(size, eom)
        /\ UNCHANGED requestVars
    BY <1>3 DEF OnPacket
  <2> QED
    BY <1>1, <1>2, <2>1, PacketWhole, WholeKept DEF WholeInv
<1>4. ASSUME NEW size \in RequestSizes, SendMessage(size) PROVE WholeInv'
  <2>1. UNCHANGED packetVars
    BY <1>4 DEF SendMessage
  <2> QED
    BY <1>1, <1>2, <1>4, <2>1, SendWhole, WholeKept DEF WholeInv
<1>5. CASE EndInput
  <2>1. UNCHANGED packetVars
    BY <1>5 DEF EndInput
  <2> QED
    BY <1>1, <1>2, <1>5, <2>1, EndWhole, WholeKept DEF WholeInv
<1>6. CASE \/ OnHeaders \/ (\E ok \in BOOLEAN : OnTrailers(ok)) \/ WriteSettles
           \/ Read \/ ReadEnd \/ StopReading \/ Abort \/ ChannelLost \/ CloseWithRecvError
           \/ UNCHANGED vars
  <2>1. UNCHANGED packetVars /\ UNCHANGED requestVars
    BY <1>6 DEF OnHeaders, OnTrailers, WriteSettles, Read, ReadEnd, StopReading, Abort,
                ChannelLost, CloseWithRecvError, vars
  <2> QED
    BY <2>1, WholeKept DEF WholeInv
<1>7. CASE InputFails
  <2>1. UNCHANGED packetVars /\ UNCHANGED <<written, wire>> /\ inputDone' = TRUE
    BY <1>7 DEF InputFails
  <2>2. RequestIsFramed' /\ RequestSent'
    BY <1>2, <2>1 DEF RequestIsFramed, RequestSent, Framed, Follows
  <2> QED
    BY <2>1, <2>2, WholeKept DEF WholeInv
<1> QED
  BY <1>3, <1>4, <1>5, <1>6, <1>7 DEF Next, Response, Packet, Request

-----------------------------------------------------------------------------
(* The stream is type correct, and what it puts together never exceeds      *)
(* MaxMessageSize.                                                          *)
THEOREM TypeCorrect == Spec => []TypeOK
<1>1. IInv => TypeOK
  BY DEF IInv
<1> QED
  BY <1>1, Invariant, PTL

(* The application is told of an end only when the server sent trailers. *)
THEOREM EndsAreTheServers == Spec => []EndIsTheServers
<1>1. IInv => EndIsTheServers
  BY DEF IInv
<1> QED
  BY <1>1, Invariant, PTL

(* A reset goes out only for an application that aborted its call or stopped *)
(* reading.                                                                  *)
THEOREM ResetsAreWanted == Spec => []ResetIsWanted
<1>1. IInv => ResetIsWanted
  BY DEF IInv
<1> QED
  BY <1>1, Invariant, PTL

(* Until a write fails, every message that could be parsed is with the       *)
(* application, in the iterable or in the queue, once and in its order.     *)
THEOREM MessagesAreKept == Spec => []NothingLost
<1>1. IInv => NothingLost
  <2> SUFFICES ASSUME IInv, ~failed
               PROVE  taken \o items \o queue = [i \in 1 .. parsed |-> i]
    BY DEF NothingLost
  <2>1. taken \in Seq(Nat) /\ items \in Seq(Nat) /\ queue \in Seq(Nat) /\ parsed \in Nat
    BY TypeParts DEF IInv, Sequences
  <2>2. /\ CountsFrom(taken, 0) /\ CountsFrom(items, Len(taken))
        /\ CountsFrom(queue, Len(taken) + Len(items))
        /\ Len(taken) + Len(items) + Len(queue) = parsed
    BY DEF IInv, InOrder
  <2>3. PICK both \in Seq(Nat) : both = taken \o items
    <3>1. taken \o items \in Seq(Nat)
      BY <2>1
    <3> QED
      BY <3>1
  <2>4. Len(both) = Len(taken) + Len(items) /\ CountsFrom(both, 0)
    <3>1. CountsFrom(items, 0 + Len(taken))
      BY <2>1, <2>2
    <3> QED
      BY <2>1, <2>2, <2>3, <3>1, CountsConcat
  <2>5. /\ Len(both \o queue) = parsed /\ both \o queue \in Seq(Nat)
        /\ CountsFrom(both \o queue, 0)
    <3>1. CountsFrom(queue, 0 + Len(both))
      BY <2>1, <2>2, <2>4
    <3> QED
      BY <2>1, <2>2, <2>4, <3>1, CountsConcat
  <2>6. PICK all \in Seq(Nat) : all = both \o queue
    BY <2>5
  <2>7. \A i \in 1 .. parsed : all[i] = i
    BY <2>1, <2>5, <2>6 DEF CountsFrom
  <2>8. DOMAIN all = 1 .. parsed
    BY <2>5, <2>6
  <2>9. all = [i \in 1 .. parsed |-> i]
    <3>1. all = [i \in DOMAIN all |-> all[i]]
      OBVIOUS
    <3> QED
      BY <2>7, <2>8, <3>1
  <2> QED
    BY <2>3, <2>6, <2>9
<1> QED
  BY <1>1, Invariant, PTL

(* Messages are whole in both directions: what the client hands on is put    *)
(* together of the packets of one message, all of them unless it is too      *)
(* large; and what it writes of the request puts together to the messages    *)
(* that were written, whatever their sizes.                                  *)
THEOREM MessagesAreWhole == Spec => []WholeMessages
<1>1. Init => WholeInv
  BY DEF Init, WholeInv, ResponseIsWhole, Buffered, HandedOn, RequestIsFramed, RequestSent
<1>2. WholeInv => WholeMessages
  BY DEF WholeInv, WholeMessages
<1> QED
  BY <1>1, <1>2, WholeInductive, Invariant, PTL DEF Spec

(* What the steps that end nothing leave alone. *)
LEMMA QuietSteps ==
  ASSUME [Next]_vars
  PROVE  \/ OnHeaders \/ ReadEnd \/ StopReading \/ \E ok \in BOOLEAN : OnTrailers(ok)
         \/ UNCHANGED <<trailers, headers, call, reader, streamClosed>>
<1>1. Packet \/ WriteSettles \/ Read \/ Abort => UNCHANGED <<trailers, headers, call, reader, streamClosed>>
  BY DEF Packet, OnPacket, WriteSettles, Read, Abort, transportVars, readVars
<1>2. Request \/ ChannelLost \/ CloseWithRecvError \/ UNCHANGED vars
        => UNCHANGED <<trailers, headers, call, reader, streamClosed>>
  BY DEF Request, EndInput, InputFails, SendMessage, ChannelLost, CloseWithRecvError, readVars, vars,
         transportVars
<1> QED
  BY <1>1, <1>2 DEF Next, Response

(* After the trailers the application has an iterable that is closed, or an *)
(* error.  The headers are what gives it the iterable before.               *)
THEOREM TrailersAlwaysClose == Spec => []TrailersCloseReading
<1> DEFINE K == TrailersCloseReading /\ (headers => reader # "none")
<1>1. Init => K
  BY DEF Init, TrailersCloseReading
<1>2. IInv /\ K /\ [Next]_vars => K'
  <2> SUFFICES ASSUME IInv, K, [Next]_vars PROVE K'
    OBVIOUS
  <2>1. Flags /\ Closing
    BY TypeParts DEF IInv
  <2>2. CASE UNCHANGED <<trailers, headers, call, reader, streamClosed>>
    BY <2>2 DEF TrailersCloseReading
  <2>3. CASE OnHeaders
    <3>1. trailers = "none" /\ trailers' = "none" /\ reader' = "reading"
      BY <2>1, <2>3 DEF OnHeaders, Closing, transportVars
    <3> QED
      BY <3>1 DEF TrailersCloseReading
  <2>4. ASSUME NEW ok \in BOOLEAN, OnTrailers(ok) PROVE K'
    BY <2>4 DEF OnTrailers, CloseResponse, TrailersCloseReading
  <2>5. CASE ReadEnd \/ StopReading
    <3>1. reader' # "none" /\ UNCHANGED <<trailers, headers, call>>
      BY <2>5 DEF ReadEnd, StopReading, transportVars
    <3>2. streamClosed => streamClosed'
      <4>1. CASE ReadEnd
        BY <4>1 DEF ReadEnd
      <4>2. CASE StopReading
        BY <4>2 DEF StopReading
      <4> QED
        BY <2>5, <4>1, <4>2
    <3> QED
      BY <3>1, <3>2 DEF TrailersCloseReading
  <2>6. OnHeaders \/ (\E ok \in BOOLEAN : OnTrailers(ok)) \/ ReadEnd \/ StopReading
        \/ UNCHANGED <<trailers, headers, call, reader, streamClosed>>
    BY QuietSteps
  <2> QED
    BY <2>2, <2>3, <2>4, <2>5, <2>6
<1>3. K => TrailersCloseReading
  OBVIOUS
<1> HIDE DEF K
<1> QED
  BY <1>1, <1>2, <1>3, Invariant, PTL DEF Spec

(* Nothing is put into an iterable that is closed, by no write that waited. *)
THEOREM ClosedIsReadOut == Spec => ClosedOnlyEmpties
<1>1. IInv /\ [Next]_vars =>
        (streamClosed => streamClosed' /\ (items' = items \/ items' = Tail(items)))
  <2> SUFFICES ASSUME IInv, [Next]_vars, streamClosed
               PROVE  streamClosed' /\ (items' = items \/ items' = Tail(items))
    OBVIOUS
  <2>1. streamClosed'
    <3>1. CASE OnHeaders \/ ReadEnd
      BY <3>1 DEF OnHeaders, ReadEnd
    <3>2. CASE (\E ok \in BOOLEAN : OnTrailers(ok)) \/ StopReading
      BY <3>2 DEF OnTrailers, CloseResponse, StopReading
    <3> QED
      BY <3>1, <3>2, QuietSteps
  <2>2. items' = items \/ items' = Tail(items)
    <3>1. CASE Packet
      BY <3>1 DEF Packet, OnPacket, ParseFails, OnMessage, Write
    <3>2. CASE WriteSettles
      BY <3>2 DEF WriteSettles, Write
    <3>3. CASE Read
      BY <3>3 DEF Read
    <3>4. CASE UNCHANGED items
      BY <3>4
    <3>5. Packet \/ WriteSettles \/ Read \/ UNCHANGED items
      BY DEF Next, Response, Request, OnHeaders, OnTrailers, ReadEnd, StopReading, Abort, EndInput,
             InputFails, SendMessage, ChannelLost, CloseWithRecvError, vars, readVars
    <3> QED
      BY <3>1, <3>2, <3>3, <3>4, <3>5
  <2> QED
    BY <2>1, <2>2
<1> QED
  BY <1>1, Invariant, PTL DEF Spec, ClosedOnlyEmpties

(* What MessageStream sees of the stream. *)
Seen == <<parsed, Len(taken) + Len(items), taken, streamClosed, reader = "ended">>

(* A write that begins makes the next message readable, unless the iterable *)
(* is closed.                                                               *)
LEMMA WriteDelivers ==
  ASSUME IInv, NEW m, NEW rest, Write(m, rest)
  PROVE  \/ streamClosed /\ items' = items
         \/ ~streamClosed /\ ~failed /\ Len(items') = Len(items) + 1
<1>1. items \in Seq(Nat) /\ (failed => streamClosed)
  BY TypeParts DEF IInv, Sequences, Closing
<1>2. CASE streamClosed
  BY <1>2 DEF Write
<1>3. CASE ~streamClosed
  <2>1. items' = Append(items, m)
    BY <1>3 DEF Write
  <2> QED
    BY <1>1, <1>3, <2>1
<1> QED
  BY <1>2, <1>3

(* What goes through the queue and the iterable is read as MessageStream    *)
(* promises: each step is an arrival, a message becoming readable, both,    *)
(* a taking, the closing, the end, or none of them.                         *)
THEOREM ImplementsMessageStream == Spec => ReadsMessageStream
<1> USE DEF Seen, Reads!Init, Reads!Next, Reads!Arrive, Reads!Deliver, Reads!ArriveReadable,
            Reads!Take, Reads!Shut, Reads!End
<1>1. Init => Reads!Init
  BY DEF Init
<1>2. IInv /\ [Next]_vars => [Reads!Next]_Seen
  <2> SUFFICES ASSUME IInv, [Next]_vars PROVE [Reads!Next]_Seen
    OBVIOUS
  <2>1. /\ Len(taken) \in Nat /\ Len(items) \in Nat /\ Len(queue) \in Nat /\ parsed \in Nat
        /\ items \in Seq(Nat) /\ queue \in Seq(Nat) /\ streamClosed \in BOOLEAN
    BY TypeParts DEF IInv, Sequences, Flags
  <2>2. /\ ~failed => Len(taken) + Len(items) + Len(queue) = parsed
        /\ failed \/ ~writing => queue = <<>>
        /\ failed => streamClosed
        /\ CountsFrom(items, Len(taken))
    BY DEF IInv, InOrder, Closing
  <2>3. ASSUME NEW size \in PacketSizes, NEW eom \in BOOLEAN, OnPacket(size, eom)
        PROVE  [Reads!Next]_Seen
    <3>1. UNCHANGED <<taken, reader, streamClosed>>
      BY <2>3 DEF OnPacket
    <3>2. CASE UNCHANGED <<parsed, items>>
      BY <3>1, <3>2
    <3>3. CASE OnMessage(parsed + 1) /\ parsed' = parsed + 1
      <4>1. \/ items' = items
            \/ ~failed /\ ~writing /\ Write(parsed + 1, <<>>)
        BY <3>3 DEF OnMessage
      <4>2. CASE items' = items
        BY <3>1, <3>3, <4>2
      <4>3. CASE ~failed /\ ~writing /\ Write(parsed + 1, <<>>)
        <5>1. Len(taken) + Len(items) = parsed
          BY <2>1, <2>2, <4>3
        <5>2. \/ streamClosed /\ items' = items
              \/ ~streamClosed /\ Len(items') = Len(items) + 1
          BY <4>3, WriteDelivers
        <5> QED
          BY <2>1, <3>1, <3>3, <5>1, <5>2
      <4> QED
        BY <4>1, <4>2, <4>3
    <3> QED
      BY <2>3, <3>2, <3>3 DEF OnPacket, ParseFails
  <2>4. CASE WriteSettles
    <3>1. UNCHANGED <<parsed, taken, reader, streamClosed>>
      BY <2>4 DEF WriteSettles, packetVars
    <3>2. CASE queue = <<>>
      BY <2>4, <3>1, <3>2 DEF WriteSettles
    <3>3. CASE queue # <<>>
      <4>1. Write(Head(queue), Tail(queue)) /\ Len(queue) > 0
        BY <2>1, <2>4, <3>3, EmptySeq DEF WriteSettles
      <4>2. \/ streamClosed /\ items' = items
            \/ ~streamClosed /\ ~failed /\ Len(items') = Len(items) + 1
        BY <4>1, WriteDelivers
      <4>3. ~failed => Len(taken) + Len(items) < parsed
        BY <2>1, <2>2, <4>1
      <4>4. CASE streamClosed /\ items' = items
        BY <3>1, <4>4
      <4>5. CASE ~streamClosed /\ ~failed /\ Len(items') = Len(items) + 1
        <5>1. Len(taken') + Len(items') = Len(taken) + Len(items) + 1
          BY <2>1, <3>1, <4>5
        <5>2. Reads!Deliver
          BY <3>1, <4>3, <4>5, <5>1
        <5> QED
          BY <5>2
      <4> QED
        BY <4>2, <4>4, <4>5
    <3> QED
      BY <3>2, <3>3
  <2>5. CASE Read
    <3>1. items # <<>> /\ UNCHANGED <<parsed, reader, streamClosed>> /\ reader # "ended"
      BY <2>5 DEF Read, packetVars
    <3>2. /\ Head(items) = Len(taken) + 1 /\ Len(items) \in Nat \ {0}
          /\ Len(Tail(items)) = Len(items) - 1
      BY <2>1, <2>2, <3>1, CountsTail
    <3>3. taken' = Append(taken, Len(taken) + 1) /\ Len(items') = Len(items) - 1
      BY <2>5, <3>2 DEF Read
    <3>4. Len(taken') = Len(taken) + 1
      BY <3>3, TypeParts DEF IInv, Sequences
    <3>5. Len(taken') + Len(items') = Len(taken) + Len(items)
      BY <2>1, <3>3, <3>4
    <3>6. Len(taken) < Len(taken) + Len(items)
      BY <2>1, <3>2
    <3> QED
      BY <3>1, <3>3, <3>5, <3>6
  <2>6. CASE ReadEnd
    <3>1. /\ streamClosed /\ reader' = "ended" /\ Len(items) = 0
          /\ UNCHANGED <<parsed, taken, items, streamClosed>>
      BY <2>6 DEF ReadEnd, packetVars
    <3>2. Len(taken) = Len(taken) + Len(items)
      BY <2>1, <3>1
    <3> QED
      BY <3>1, <3>2
  <2>7. CASE StopReading
    <3>1. /\ reader # "ended" /\ reader' # "ended" /\ UNCHANGED <<parsed, taken, items>>
          /\ streamClosed' = streamClosed \/ streamClosed' = TRUE
      <4>1. reader = "reading" /\ reader' = "stopped"
        BY <2>7 DEF StopReading
      <4>2. PICK stop \in BOOLEAN : streamClosed' = (streamClosed \/ stop)
        BY <2>7 DEF StopReading
      <4> QED
        BY <2>1, <2>7, <4>1, <4>2 DEF StopReading, packetVars
    <3> QED
      BY <3>1
  <2>8. CASE OnHeaders \/ \E ok \in BOOLEAN : OnTrailers(ok)
    <3>1. (reader' = "ended") = (reader = "ended")
      BY <2>8 DEF OnHeaders, OnTrailers, IInv, Closing
    <3>2. UNCHANGED <<parsed, taken, items>>
          /\ (streamClosed' = streamClosed \/ streamClosed' = TRUE)
      BY <2>8 DEF OnHeaders, OnTrailers, CloseResponse, packetVars
    <3> QED
      BY <3>1, <3>2
  <2>9. CASE Abort \/ Request \/ ChannelLost \/ CloseWithRecvError \/ UNCHANGED vars
    <3>1. UNCHANGED <<parsed, taken, items, reader, streamClosed>>
      BY <2>9 DEF Abort, Request, SendMessage, EndInput, InputFails, ChannelLost,
                  CloseWithRecvError, vars, packetVars, readVars
    <3> QED
      BY <3>1
  <2> QED
    BY <2>3, <2>4, <2>5, <2>6, <2>7, <2>8, <2>9 DEF Next, Response, Packet
<1> QED
  BY <1>1, <1>2, Invariant, PTL DEF Spec, ReadsMessageStream, Reads!Spec
=============================================================================
