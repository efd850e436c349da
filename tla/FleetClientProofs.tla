------------------------- MODULE FleetClientProofs -------------------------
(***************************************************************************)
(* What a ViamClient promises, for any calls at once, any machine, listings *)
(* and files of any length.                                                 *)
(***************************************************************************)
EXTENDS FleetClient, WellFoundedInduction, TLAPS

-----------------------------------------------------------------------------
(* The inductive invariant. *)
CallRecord ==
    [method : FleetMethods \union {NoMethod},
     stage : {"idle", "sent", "resolved", "rejected"},
     answer : {"none", "whole", "undefined", "null", "empty", "page"},
     page : Nat,
     size : Nat,
     sent : Seq(Nat \X Nat),
     came : Seq(Nat),
     got : Seq(Nat)]

PageRecord ==
    [rpc : {m.rpc : m \in FleetMethods \union {NoMethod}},
     after : Nat, runs : Seq(Nat), token : Nat \union {NoMore}]

Addresses == Hosts \union {Fqdn(p) : p \in Parts} \union {NoHost}

ConnectRecord ==
    [stage : {"idle", "parts", "secret", "dialed", "rejected"},
     address : Addresses,
     secretOf : Parts \union {NoPart},
     secret : Nat,
     mains : SUBSET Parts]

(* A call that was answered: what it sent, and what it gives. *)
CallKept(r) ==
    /\ r.size \in FileSizes \union {0}
    /\ r.stage # "resolved" => r.got = <<>>
    /\ r.stage = "resolved" /\ r.method.gives = "upload" => r.sent = fileUploadRequests(r.size)
    /\ r.stage = "resolved" /\ r.method.gives \in {"collected", "rows"} => r.got = r.came

CallsKept ==
    /\ call \in [Calls -> CallRecord]
    /\ \A c \in Calls : CallKept(call[c]) /\ call[c].page <= Len(pages)

(* Only calls that follow logs push to the queue. *)
QueueKept ==
    /\ queue \in Seq(Calls \X Nat)
    /\ \A i \in DOMAIN queue : Gives(queue[i][1]) = "queued"
    /\ LogsInOrder

(* A page goes on from an earlier one, and its token is within the listing. *)
PagesKept ==
    /\ pages \in Seq(PageRecord)
    /\ items \in 0 .. MaxItems
    /\ \A n \in 1 .. Len(pages) : pages[n].after < n /\ pages[n].token <= items

(* The main part at the time is among those that were it since the lookup   *)
(* began; the secret that is passed on is one that part has had.            *)
ConnectKept ==
    /\ apiKey \in BOOLEAN /\ fetchOnly \in BOOLEAN
    /\ connect \in ConnectRecord
    /\ main \in Parts
    /\ secret \in [Parts -> Nat \ {0}]
    /\ changes \in 0 .. MaxChanges
    /\ connect.stage \in {"idle", "rejected"} => connect = NotConnecting \/ connect = Rejected
    /\ connect.stage = "parts" => main \in connect.mains
    /\ connect.stage = "secret" => ~apiKey /\ connect.mains = {} /\ connect.address \in Hosts
    /\ connect.stage # "dialed" => connect.secretOf = NoPart

IInv ==
    /\ CallsKept
    /\ QueueKept
    /\ PagesKept
    /\ PagesGoOn
    /\ ConnectKept
    /\ SecretIsOfTheAddress
    /\ DialsAMainPart

-----------------------------------------------------------------------------
(* How many chunks a file has: as many as it takes, and no empty one. *)
LEMMA ChunkCount ==
  ASSUME NEW n \in Nat
  PROVE  LET k == (n + ChunkSize - 1) \div ChunkSize
         IN  k \in Nat /\ k * ChunkSize >= n /\ (k # 0 => (k - 1) * ChunkSize < n)
<1> DEFINE k == (n + ChunkSize - 1) \div ChunkSize
           m == (n + ChunkSize - 1) % ChunkSize
<1>1. ChunkSize \in Nat /\ ChunkSize > 0
  BY ChunkSizeAssumption
<1>2. /\ k \in Nat /\ m \in 0 .. ChunkSize - 1
      /\ n + ChunkSize - 1 = ChunkSize * k + m
  BY <1>1
<1> HIDE DEF k, m
<1>3. k * ChunkSize = ChunkSize * k /\ (k - 1) * ChunkSize = ChunkSize * k - ChunkSize
      /\ ChunkSize * k \in Nat
  BY <1>1, <1>2
<1>4. k * ChunkSize >= n /\ (k - 1) * ChunkSize < n
  BY <1>1, <1>2, <1>3
<1> QED
  BY <1>2, <1>4 DEF k

LEMMA Multiples ==
  ASSUME NEW i \in Nat, NEW j \in Nat, i <= j
  PROVE  i * ChunkSize \in Nat /\ i * ChunkSize <= j * ChunkSize
         /\ (i + 1) * ChunkSize = i * ChunkSize + ChunkSize
  BY ChunkSizeAssumption

(* The requests of an upload. *)
LEMMA Chunks ==
  ASSUME NEW n \in Nat
  PROVE  LET k == (n + ChunkSize - 1) \div ChunkSize
             r == fileUploadRequests(n)
         IN  /\ r \in Seq(Nat \X Nat)
             /\ Len(r) = k + 1
             /\ r[1] = Metadata1
             /\ \A i \in 1 .. k : r[i + 1] = <<(i - 1) * ChunkSize,
                                               IF i * ChunkSize > n THEN n ELSE i * ChunkSize>>
<1> DEFINE k == (n + ChunkSize - 1) \div ChunkSize
           Chunk(i) == <<(i - 1) * ChunkSize, IF i * ChunkSize > n THEN n ELSE i * ChunkSize>>
           chunks == [i \in 1 .. k |-> Chunk(i)]
<1>1. k \in Nat
  BY ChunkCount
<1> HIDE DEF k
<1>2. \A i \in 1 .. k : Chunk(i) \in Nat \X Nat
  <2> TAKE i \in 1 .. k
  <2>1. i \in Nat /\ i - 1 \in Nat
    BY <1>1
  <2>2. i * ChunkSize \in Nat /\ (i - 1) * ChunkSize \in Nat
    BY <2>1, Multiples
  <2> QED
    BY <2>2
<1> HIDE DEF Chunk
<1>3. chunks \in Seq(Nat \X Nat) /\ Len(chunks) = k /\ \A i \in 1 .. k : chunks[i] = Chunk(i)
  BY <1>1, <1>2
<1>4. fileUploadRequests(n) = <<Metadata1>> \o chunks
  BY DEF fileUploadRequests, k, Chunk
<1> HIDE DEF chunks
<1>5. <<Metadata1>> \in Seq(Nat \X Nat) /\ Len(<<Metadata1>>) = 1 /\ <<Metadata1>>[1] = Metadata1
  BY DEF Metadata1
<1> PICK head \in Seq(Nat \X Nat) : head = <<Metadata1>>
  BY <1>5
<1>6. /\ head \o chunks \in Seq(Nat \X Nat)
      /\ Len(head \o chunks) = k + 1
      /\ (head \o chunks)[1] = Metadata1
      /\ \A i \in 1 .. k : (head \o chunks)[i + 1] = chunks[i]
  BY <1>1, <1>3, <1>5
<1> QED
  BY <1>3, <1>4, <1>6 DEF k, Chunk

-----------------------------------------------------------------------------
(* The calls are those there were, but for one. *)
LEMMA OtherCalls ==
  ASSUME IInv, NEW c \in Calls, NEW r \in CallRecord, call' = [call EXCEPT ![c] = r]
  PROVE  call'[c] = r /\ \A d \in Calls \ {c} : call'[d] = call[d]
  BY DEF IInv, CallsKept

(* A call goes on without a log, or begins. *)
LEMMA QueueStays ==
  ASSUME IInv, NEW c \in Calls, NEW r \in CallRecord, call' = [call EXCEPT ![c] = r],
         queue' = queue,
         \/ r.method = call[c].method /\ (r.came = call[c].came \/ Gives(c) # "queued")
         \/ Gives(c) = "none" /\ r.came = <<>>
  PROVE  QueueKept'
<1>1. call'[c] = r /\ \A d \in Calls \ {c} : call'[d] = call[d]
  BY OtherCalls
<1>2. /\ queue \in Seq(Calls \X Nat)
      /\ \A i \in DOMAIN queue : queue[i][1] \in Calls /\ Gives(queue[i][1]) = "queued"
  BY DEF IInv, QueueKept
<1>3. \A d \in Calls : LogsOf(d)' = LogsOf(d)
  BY DEF LogsOf
<1>4. ASSUME NEW d \in Calls, Gives(d) = "queued" PROVE Gives(d)' = "queued"
  BY <1>1, <1>4 DEF Gives
<1>5. ASSUME NEW d \in Calls, Gives(d)' = "queued"
      PROVE  /\ \A i, j \in LogsOf(d) : i < j => queue[i][2] < queue[j][2]
             /\ {queue[i][2] : i \in LogsOf(d)} = DOMAIN call'[d].came
  <2>1. CASE Gives(d) = "queued"
    <3>1. call'[d].came = call[d].came
      BY <1>1, <2>1 DEF Gives
    <3> QED
      BY <2>1, <3>1 DEF IInv, QueueKept, LogsInOrder
  <2>2. CASE Gives(d) # "queued"
    <3>1. d = c /\ call'[d].came = <<>>
      BY <1>1, <1>5, <2>2 DEF Gives
    <3>2. LogsOf(d) = {}
      BY <1>2, <2>2 DEF LogsOf
    <3> QED
      BY <3>1, <3>2
  <2> QED
    BY <2>1, <2>2
<1>6. LogsInOrder'
  BY <1>3, <1>5 DEF LogsInOrder
<1>7. (\A i \in DOMAIN queue : Gives(queue[i][1]) = "queued")'
  <2>1. \A i \in DOMAIN queue : Gives(queue[i][1])' = "queued"
    BY <1>2, <1>4
  <2> QED
    BY <2>1 DEF Gives
<1> QED
  BY <1>2, <1>6, <1>7 DEF QueueKept

(* A log is pushed after those of its call. *)
LEMMA LogStep ==
  ASSUME IInv, NEW c \in Calls, NEW r \in CallRecord, call' = [call EXCEPT ![c] = r],
         Gives(c) = "queued", r.method = call[c].method,
         r.came = Append(call[c].came, Len(call[c].came) + 1),
         queue' = Append(queue, <<c, Len(call[c].came) + 1>>)
  PROVE  QueueKept'
<1> DEFINE log == <<c, Len(call[c].came) + 1>>
<1>1. call'[c] = r /\ \A d \in Calls \ {c} : call'[d] = call[d]
  BY OtherCalls
<1>2. call[c].came \in Seq(Nat) /\ Len(call[c].came) \in Nat
  BY DEF IInv, CallsKept, CallRecord
<1>3. DOMAIN call[c].came = 1 .. Len(call[c].came) /\ DOMAIN r.came = 1 .. Len(call[c].came) + 1
  BY <1>2
<1>4. log \in Calls \X Nat /\ log[1] = c /\ log[2] = Len(call[c].came) + 1
  BY <1>2
<1>5. /\ queue \in Seq(Calls \X Nat)
      /\ \A i \in DOMAIN queue : queue[i][1] \in Calls /\ queue[i][2] \in Nat
  BY DEF IInv, QueueKept
<1>6. queue' = Append(queue, log)
  OBVIOUS
<1> HIDE DEF log
<1>7. /\ queue' \in Seq(Calls \X Nat)
      /\ DOMAIN queue' = DOMAIN queue \union {Len(queue) + 1}
      /\ DOMAIN queue = 1 .. Len(queue) /\ Len(queue) \in Nat
      /\ queue'[Len(queue) + 1] = log
      /\ \A i \in DOMAIN queue : queue'[i] = queue[i]
  BY <1>4, <1>5, <1>6
<1>8. \A d \in Calls : Gives(d)' = Gives(d)
  BY <1>1 DEF Gives
<1>9. (\A i \in DOMAIN queue : Gives(queue[i][1]) = "queued")'
  <2>1. \A i \in DOMAIN queue : call[queue[i][1]].method.gives = "queued"
    BY DEF IInv, QueueKept, Gives
  <2>2. \A d \in Calls : call'[d].method.gives = call[d].method.gives
    BY <1>8 DEF Gives
  <2>3. call[c].method.gives = "queued"
    BY DEF Gives
  <2>4. \A i \in DOMAIN queue' : call'[queue'[i][1]].method.gives = "queued"
    BY <1>4, <1>5, <1>7, <2>1, <2>2, <2>3
  <2> QED
    BY <2>4 DEF Gives
<1>10. LogsInOrder'
  <2> SUFFICES ASSUME NEW d \in Calls, Gives(d) = "queued"
               PROVE  /\ \A i, j \in LogsOf(d)' : i < j => queue'[i][2] < queue'[j][2]
                      /\ {queue'[i][2] : i \in LogsOf(d)'} = DOMAIN call'[d].came
    BY <1>8 DEF LogsInOrder
  <2>1. /\ \A i, j \in LogsOf(d) : i < j => queue[i][2] < queue[j][2]
        /\ {queue[i][2] : i \in LogsOf(d)} = DOMAIN call[d].came
    BY DEF IInv, QueueKept, LogsInOrder
  <2>2. CASE d # c
    <3>1. LogsOf(d)' = LogsOf(d)
      BY <1>4, <1>7, <2>2 DEF LogsOf
    <3> QED
      BY <1>1, <1>7, <2>1, <2>2, <3>1 DEF LogsOf
  <2>3. CASE d = c
    <3>1. LogsOf(c)' = LogsOf(c) \union {Len(queue) + 1}
      BY <1>4, <1>7 DEF LogsOf
    <3>2. \A i \in LogsOf(c) : i \in 1 .. Len(queue) /\ queue'[i][2] \in 1 .. Len(call[c].came)
                                /\ queue'[i][2] = queue[i][2]
      BY <1>2, <1>3, <1>7, <2>1, <2>3 DEF LogsOf
    <3>3. \A i, j \in LogsOf(c)' : i < j => queue'[i][2] < queue'[j][2]
      BY <1>2, <1>3, <1>4, <1>7, <2>1, <2>3, <3>1, <3>2
    <3>4. {queue'[i][2] : i \in LogsOf(c)'} = DOMAIN r.came
      <4>1. {queue'[i][2] : i \in LogsOf(c)'} =
                {queue[i][2] : i \in LogsOf(c)} \union {Len(call[c].came) + 1}
        <5>1. queue'[Len(queue) + 1][2] = Len(call[c].came) + 1
          BY <1>4, <1>7
        <5>2. \A i \in LogsOf(c) : queue'[i][2] = queue[i][2]
          BY <3>2
        <5> DEFINE logs == LogsOf(c)
                   last == Len(queue) + 1
        <5>3. {queue'[i][2] : i \in LogsOf(c)'} = {queue'[i][2] : i \in logs \union {last}}
          BY <3>1
        <5> HIDE DEF logs, last
        <5>4. {queue'[i][2] : i \in logs \union {last}} =
                  {queue'[i][2] : i \in logs} \union {queue'[last][2]}
          OBVIOUS
        <5>5. {queue'[i][2] : i \in logs} = {queue[i][2] : i \in logs}
          BY <5>2 DEF logs
        <5> QED
          BY <5>1, <5>3, <5>4, <5>5 DEF logs, last
      <4>2. {queue[i][2] : i \in LogsOf(c)} = 1 .. Len(call[c].came)
        BY <1>2, <1>3, <2>1, <2>3
      <4>3. DOMAIN r.came = (1 .. Len(call[c].came)) \union {Len(call[c].came) + 1}
        BY <1>2, <1>3
      <4> QED
        BY <4>1, <4>2, <4>3
    <3> QED
      BY <1>1, <2>3, <3>3, <3>4
  <2> QED
    BY <2>2, <2>3
<1> QED
  BY <1>7, <1>9, <1>10 DEF QueueKept

(* One call changes, and the queue with it or not at all. *)
LEMMA CallStep ==
  ASSUME IInv, NEW c \in Calls, NEW r \in CallRecord, CallKept(r), r.page <= Len(pages),
         call' = [call EXCEPT ![c] = r],
         \/ /\ queue' = queue
            /\ \/ r.method = call[c].method /\ (r.came = call[c].came \/ Gives(c) # "queued")
               \/ Gives(c) = "none" /\ r.came = <<>>
         \/ QueueKept',
         UNCHANGED <<apiKey, fetchOnly, pages, connect, machineVars, items>>
  PROVE  IInv'
<1>1. CallsKept'
  BY DEF IInv, CallsKept, CallKept
<1>2. QueueKept'
  BY QueueStays
<1>3. PagesKept' /\ PagesGoOn'
  BY DEF IInv, PagesKept, PagesGoOn
<1>4. ConnectKept' /\ SecretIsOfTheAddress' /\ DialsAMainPart'
  BY DEF IInv, ConnectKept, SecretIsOfTheAddress, DialsAMainPart, machineVars
<1> QED
  BY <1>1, <1>2, <1>3, <1>4 DEF IInv

LEMMA OneCall ==
  ASSUME IInv, NEW c \in Calls
  PROVE  /\ call[c] \in CallRecord /\ CallKept(call[c]) /\ call[c].page <= Len(pages)
         /\ call[c].page \in Nat /\ call[c].size \in Nat
  BY FileSizesAssumption DEF IInv, CallsKept, CallRecord

LEMMA NoCallKept ==
  /\ NoCall \in CallRecord /\ CallKept(NoCall) /\ NoCall.page = 0 /\ NoCall.size = 0
  /\ NoCall.stage = "idle" /\ NoCall.got = <<>> /\ NoCall.came = <<>> /\ NoCall.sent = <<>>
  /\ NoCall.method.gives = "none"
  BY DEF NoCall, CallRecord, CallKept, NoMethod

LEMMA InitIInv == Init => IInv
<1> SUFFICES ASSUME Init PROVE IInv
  OBVIOUS
<1>1. NoCall \in CallRecord /\ CallKept(NoCall) /\ NoCall.page = 0
  BY NoCallKept
<1>2. CallsKept
  BY <1>1 DEF Init, CallsKept
<1>6. QueueKept
  <2>1. queue = <<>> /\ \A c \in Calls : Gives(c) # "queued"
    BY DEF Init, Gives, NoCall, NoMethod
  <2> QED
    BY <2>1 DEF QueueKept, LogsInOrder
<1>3. PagesKept /\ PagesGoOn
  BY BoundsAssumption DEF Init, PagesKept, PagesGoOn
<1>4. ConnectKept
  BY BoundsAssumption DEF Init, ConnectKept, NotConnecting, ConnectRecord, Addresses
<1>5. SecretIsOfTheAddress /\ DialsAMainPart
  BY DEF Init, SecretIsOfTheAddress, DialsAMainPart, NotConnecting
<1> QED
  BY <1>2, <1>6, <1>3, <1>4, <1>5 DEF IInv

(* A call begins. *)
LEMMA BeginSteps ==
  ASSUME IInv, NEW c \in Calls, NEW m \in Callable[c],
         \/ \E page \in 0 .. Len(pages), size \in FileSizes \union {0} : Begin(c, m, page, size)
         \/ Unpaired(c, m)
  PROVE  IInv'
<1>1. m \in FleetMethods
  BY CallableAssumption
<1>2. ASSUME NEW page \in 0 .. Len(pages), NEW size \in FileSizes \union {0},
             Begin(c, m, page, size)
      PROVE  IInv'
  <2> DEFINE r == [NoCall EXCEPT !.method = m, !.stage = "sent", !.page = page, !.size = size]
  <2>1. page \in Nat /\ size \in Nat /\ page <= Len(pages)
    BY FileSizesAssumption DEF IInv, PagesKept
  <2>2. /\ r.page = page /\ r.size = size /\ r.stage = "sent" /\ r.got = <<>> /\ r.came = <<>>
    BY NoCallKept DEF CallRecord
  <2>3. r \in CallRecord
    BY <1>1, <2>1, NoCallKept DEF CallRecord
  <2>4. CallKept(r) /\ r.page <= Len(pages)
    BY <2>1, <2>2 DEF CallKept
  <2>5. call' = [call EXCEPT ![c] = r]
        /\ UNCHANGED <<apiKey, fetchOnly, pages, connect, machineVars, items>>
    BY <1>2 DEF Begin
  <2>6. queue' = queue /\ Gives(c) = "none"
    <3>1. queue' = queue /\ call[c] = NoCall
      BY <1>2 DEF Begin
    <3> QED
      BY <3>1, NoCallKept DEF Gives
  <2> HIDE DEF r
  <2> QED
    BY <2>2, <2>3, <2>4, <2>5, <2>6, CallStep
<1>3. CASE Unpaired(c, m)
  <2> DEFINE r == [NoCall EXCEPT !.method = m, !.stage = "rejected"]
  <2>1. r.page = 0 /\ r.size = 0 /\ r.stage = "rejected" /\ r.got = <<>> /\ r.came = <<>>
    BY NoCallKept DEF CallRecord
  <2>2. r \in CallRecord /\ CallKept(r) /\ r.page <= Len(pages)
    <3>1. r \in CallRecord
      BY <1>1, NoCallKept DEF CallRecord
    <3>2. CallKept(r)
      BY <2>1 DEF CallKept
    <3>3. Len(pages) \in Nat
      BY DEF IInv, PagesKept
    <3> QED
      BY <2>1, <3>1, <3>2, <3>3
  <2>3. call' = [call EXCEPT ![c] = r]
        /\ UNCHANGED <<apiKey, fetchOnly, pages, connect, machineVars, items>>
    BY <1>3 DEF Unpaired
  <2>4. queue' = queue /\ Gives(c) = "none"
    BY <1>3 DEF Unpaired, Gives, NoCall, NoMethod
  <2> HIDE DEF r
  <2> QED
    BY <2>1, <2>2, <2>3, <2>4, CallStep
<1> QED
  BY <1>2, <1>3

(* A call that is under way fails, is answered, or its stream goes on. *)
LEMMA SettleSteps ==
  ASSUME IInv, NEW c \in Calls, call[c].stage = "sent",
         UNCHANGED <<apiKey, fetchOnly, queue, pages, connect, machineVars, items>>,
         \/ Reject(c)
         \/ /\ Gives(c) \notin {"upload", "collected", "rows"}
            /\ \E answer \in {"none", "whole", "undefined", "null", "empty", "page"} :
                    Resolve(c, answer)
         \/ /\ call[c].sent = fileUploadRequests(call[c].size) /\ Gives(c) = "upload"
            /\ Resolve(c, "whole")
  PROVE  IInv'
<1>1. call[c] \in CallRecord /\ CallKept(call[c]) /\ call[c].page <= Len(pages)
  BY OneCall
<1>2. CASE Reject(c)
  <2> DEFINE r == [call[c] EXCEPT !.stage = "rejected"]
  <2>1. /\ r \in CallRecord /\ r.page = call[c].page /\ r.size = call[c].size
        /\ r.stage = "rejected" /\ r.got = call[c].got
        /\ r.method = call[c].method /\ r.came = call[c].came
    BY <1>1 DEF CallRecord
  <2>2. CallKept(r)
    BY <1>1, <2>1 DEF CallKept
  <2>3. call' = [call EXCEPT ![c] = r]
    BY <1>2 DEF Reject
  <2> QED
    BY <1>1, <2>1, <2>2, <2>3, CallStep
<1>3. ASSUME NEW answer \in {"none", "whole", "undefined", "null", "empty", "page"},
             Resolve(c, answer),
             \/ Gives(c) \notin {"upload", "collected", "rows"}
             \/ Gives(c) = "upload" /\ call[c].sent = fileUploadRequests(call[c].size)
      PROVE  IInv'
  <2> DEFINE r == [call[c] EXCEPT !.stage = "resolved", !.answer = answer]
  <2>1. /\ r \in CallRecord /\ r.page = call[c].page /\ r.size = call[c].size
        /\ r.sent = call[c].sent /\ r.method = call[c].method /\ r.came = call[c].came
    BY <1>1 DEF CallRecord
  <2>2. CallKept(r)
    <3>1. r.size \in FileSizes \union {0} /\ r.stage = "resolved"
      BY <1>1, <2>1 DEF CallKept, CallRecord
    <3>2. r.method.gives = "upload" => r.sent = fileUploadRequests(r.size)
      BY <1>3, <2>1 DEF Gives
    <3>3. r.method.gives \notin {"collected", "rows"}
      BY <1>3, <2>1 DEF Gives
    <3> HIDE DEF r
    <3> QED
      BY <3>1, <3>2, <3>3 DEF CallKept
  <2>3. call' = [call EXCEPT ![c] = r]
    BY <1>3 DEF Resolve
  <2> QED
    BY <1>1, <2>1, <2>2, <2>3, CallStep
<1> QED
  BY <1>2, <1>3

LEMMA AnswerSteps ==
  ASSUME IInv, NEW c \in Calls, Fail(c) \/ Answer(c) \/ Uploaded(c)
  PROVE  IInv'
<1>1. Missing(Gives(c)) \in {"none", "undefined", "null", "empty"}
  BY DEF Missing
<1>2. CASE Fail(c)
  BY <1>2, SettleSteps DEF Fail
<1>3. CASE Answer(c)
  <2>1. Gives(c) \notin {"upload", "collected", "rows"}
    BY <1>3 DEF Answer, Streams
  <2>2. Reject(c) \/ \E answer \in {"none", "whole", "undefined", "null", "empty", "page"} :
                          Resolve(c, answer)
    BY <1>1, <1>3 DEF Answer
  <2> QED
    BY <1>3, <2>1, <2>2, SettleSteps DEF Answer
<1>4. CASE Uploaded(c)
  BY <1>4, SettleSteps DEF Uploaded
<1> QED
  BY <1>2, <1>3, <1>4

LEMMA TransferSteps ==
  ASSUME IInv, NEW c \in Calls, Message(c) \/ StreamEnds(c) \/ SendChunk(c)
  PROVE  IInv'
<1>1. call[c] \in CallRecord /\ CallKept(call[c]) /\ call[c].page <= Len(pages)
      /\ call[c].size \in Nat
  BY OneCall
<1>2. call[c].stage = "sent" /\ call[c].got = <<>>
      /\ UNCHANGED <<apiKey, fetchOnly, pages, connect, machineVars, items>>
  BY <1>1 DEF Message, StreamEnds, SendChunk, CallKept
<1>3. ASSUME call' = [call EXCEPT ![c].came = Append(@, Len(@) + 1)],
             queue' = IF Gives(c) = "queued" THEN Append(queue, <<c, Len(call[c].came) + 1>>)
                      ELSE queue
      PROVE  IInv'
  <2> DEFINE r == [call[c] EXCEPT !.came = Append(@, Len(@) + 1)]
  <2>1. Append(call[c].came, Len(call[c].came) + 1) \in Seq(Nat)
    BY <1>1 DEF CallRecord
  <2>2. /\ r \in CallRecord /\ r.page = call[c].page /\ r.size = call[c].size
        /\ r.stage = "sent" /\ r.got = <<>> /\ r.method = call[c].method
        /\ r.came = Append(call[c].came, Len(call[c].came) + 1)
    BY <1>1, <1>2, <2>1 DEF CallRecord
  <2>3. CallKept(r)
    BY <1>1, <2>2 DEF CallKept
  <2>4. call' = [call EXCEPT ![c] = r]
    BY <1>3
  <2> HIDE DEF r
  <2>5. CASE Gives(c) = "queued"
    <3>1. QueueKept'
      BY <1>3, <2>2, <2>4, <2>5, LogStep
    <3> QED
      BY <1>1, <1>2, <2>2, <2>3, <2>4, <3>1, CallStep
  <2>6. CASE Gives(c) # "queued"
    <3>1. queue' = queue
      BY <1>3, <2>6
    <3> QED
      BY <1>1, <1>2, <2>2, <2>3, <2>4, <2>6, <3>1, CallStep
  <2> QED
    BY <2>5, <2>6
<1>4. CASE StreamEnds(c)
  <2> DEFINE answer == IF Gives(c) = "queued" THEN "none" ELSE "whole"
             got == IF Gives(c) = "queued" THEN <<>> ELSE call[c].came
             r == [call[c] EXCEPT !.stage = "resolved", !.answer = answer, !.got = got]
  <2>1. answer \in {"none", "whole"} /\ got \in Seq(Nat)
    BY <1>1 DEF CallRecord
  <2>2. Gives(c) \in {"collected", "rows", "queued"}
    BY <1>4 DEF StreamEnds, Streams
  <2>3. Gives(c) \in {"collected", "rows"} => got = call[c].came
    OBVIOUS
  <2>4. call' = [call EXCEPT ![c] = r]
    BY <1>4 DEF StreamEnds, Together
  <2> HIDE DEF answer, got
  <2>5. /\ r \in CallRecord /\ r.page = call[c].page /\ r.size = call[c].size
        /\ r.stage = "resolved" /\ r.got = got /\ r.came = call[c].came
        /\ r.method = call[c].method
    BY <1>1, <2>1 DEF CallRecord
  <2> HIDE DEF r
  <2>6. CallKept(r)
    BY <1>1, <2>2, <2>3, <2>5 DEF CallKept, Gives
  <2>7. queue' = queue
    BY <1>4 DEF StreamEnds
  <2> QED
    BY <1>1, <1>2, <2>4, <2>5, <2>6, <2>7, CallStep
<1>5. CASE SendChunk(c)
  <2> DEFINE chunk == fileUploadRequests(call[c].size)[Len(call[c].sent) + 1]
             r == [call[c] EXCEPT !.sent = Append(@, chunk)]
  <2>1. /\ fileUploadRequests(call[c].size) \in Seq(Nat \X Nat)
        /\ Len(call[c].sent) < Len(fileUploadRequests(call[c].size))
        /\ call[c].sent \in Seq(Nat \X Nat)
    BY <1>1, <1>5, Chunks DEF SendChunk, CallRecord
  <2>2. chunk \in Nat \X Nat
    BY <2>1
  <2>3. call' = [call EXCEPT ![c] = r]
    BY <1>5 DEF SendChunk
  <2> HIDE DEF chunk
  <2>4. Append(call[c].sent, chunk) \in Seq(Nat \X Nat)
    BY <2>1, <2>2
  <2>5. /\ r \in CallRecord /\ r.page = call[c].page /\ r.size = call[c].size
        /\ r.stage = "sent" /\ r.got = <<>>
        /\ r.method = call[c].method /\ r.came = call[c].came
    BY <1>1, <1>2, <2>4 DEF CallRecord
  <2>6. CallKept(r)
    BY <1>1, <2>5 DEF CallKept
  <2>7. queue' = queue
    BY <1>5 DEF SendChunk
  <2> HIDE DEF r
  <2> QED
    BY <1>1, <1>2, <2>3, <2>5, <2>6, <2>7, CallStep
<1>6. CASE Reject(c) /\ queue' = queue
  BY <1>2, <1>6, SettleSteps
<1> QED
  BY <1>3, <1>4, <1>5, <1>6 DEF Message, Push

-----------------------------------------------------------------------------
(* A page is added: it begins where the one it goes on from ended. *)
LEMMA PageStep ==
  ASSUME IInv, NEW c \in Calls, ListPage(c)
  PROVE  IInv'
<1> DEFINE from == PageToken(c)
           end == IF from + PageSize < items THEN from + PageSize ELSE items
           runs == IF from = NoMore THEN <<>> ELSE [n \in 1 .. (end - from) |-> from + n]
           token == IF from = NoMore \/ end >= items \/ Gives(c) = "tokenless" THEN NoMore ELSE end
           page == [rpc |-> call[c].method.rpc, after |-> call[c].page, runs |-> runs, token |-> token]
<1>1. /\ call[c] \in CallRecord /\ CallKept(call[c]) /\ call[c].page <= Len(pages)
      /\ call[c].page \in Nat
  BY OneCall
<1>2. pages \in Seq(PageRecord) /\ items \in Nat /\ PageSize \in Nat \ {0} /\ Len(pages) \in Nat
  BY ChunkSizeAssumption, BoundsAssumption DEF IInv, PagesKept
<1>3. from \in Nat \union {NoMore} /\ from <= items
  <2>1. CASE call[c].page = 0
    BY <1>2, <2>1 DEF PageToken
  <2>2. CASE call[c].page # 0
    <3>1. call[c].page \in 1 .. Len(pages) /\ from = pages[call[c].page].token
      BY <1>1, <1>2, <2>2 DEF PageToken
    <3>2. pages[call[c].page] \in PageRecord /\ pages[call[c].page].token <= items
      BY <1>2, <3>1 DEF IInv, PagesKept
    <3> QED
      BY <3>1, <3>2 DEF PageRecord
  <2> QED
    BY <2>1, <2>2
<1>4. pages' = Append(pages, page) /\ Resolve(c, "page")
  <2>1. ListPage(c)
    OBVIOUS
  <2>2. CASE from = NoMore
    <3>1. AddPage(c, <<>>, NoMore)
      BY <2>1, <2>2 DEF ListPage, PastTheEnd
    <3>2. runs = <<>> /\ token = NoMore
      BY <2>2
    <3> QED
      BY <3>1, <3>2 DEF AddPage
  <2>3. CASE from # NoMore
    <3>1. AddPage(c, ServicePage(from).runs, ServicePage(from).token)
      BY <2>1, <2>3 DEF ListPage, PastTheEnd
    <3>2. /\ ServicePage(from).runs = runs
          /\ ServicePage(from).token = IF end < items THEN end ELSE NoMore
      BY <2>3 DEF ServicePage
    <3>3. end \in Nat
      BY <1>2, <1>3, <2>3
    <3>4. token = IF Gives(c) = "tokenless" THEN NoMore ELSE ServicePage(from).token
      BY <1>2, <2>3, <3>2, <3>3
    <3> HIDE DEF runs, token, from
    <3> QED
      BY <3>1, <3>2, <3>4 DEF AddPage
  <2> QED
    BY <2>2, <2>3
<1> HIDE DEF from
<1>5. from # NoMore => end \in Nat /\ from <= end /\ end <= items /\ from \in Nat
                       /\ (end < items => end = from + PageSize)
  BY <1>2, <1>3
<1> HIDE DEF end
<1>6. runs \in Seq(Nat) /\ (from # NoMore => Len(runs) = end - from
                                            /\ \A n \in 1 .. Len(runs) : runs[n] = from + n)
  <2>1. CASE from = NoMore
    BY <2>1
  <2>2. CASE from # NoMore
    <3>1. end - from \in Nat /\ runs = [n \in 1 .. (end - from) |-> from + n]
      BY <1>5, <2>2
    <3>2. \A n \in 1 .. (end - from) : from + n \in Nat
      BY <1>5, <2>2
    <3> HIDE DEF runs
    <3> QED
      BY <3>1, <3>2
  <2> QED
    BY <2>1, <2>2
<1>7. from = NoMore => runs = <<>> /\ token = NoMore
  OBVIOUS
<1>8. /\ token \in Nat \union {NoMore} /\ token <= items
      /\ from # NoMore /\ token # NoMore => token = from + Len(runs) /\ Len(runs) > 0
  <2>1. from # NoMore /\ end < items => Len(runs) = PageSize /\ end = from + Len(runs)
    BY <1>2, <1>5, <1>6
  <2> QED
    BY <1>2, <1>5, <1>6, <2>1 DEF NoMore
<1> HIDE DEF runs, token
<1>9. page \in PageRecord /\ page.after = call[c].page /\ page.runs = runs /\ page.token = token
  <2>1. call[c].method \in FleetMethods \union {NoMethod}
    BY <1>1 DEF CallRecord
  <2> QED
    BY <1>1, <1>6, <1>8, <2>1 DEF PageRecord
<1> HIDE DEF page
<1>10. /\ pages' \in Seq(PageRecord) /\ Len(pages') = Len(pages) + 1
       /\ pages'[Len(pages) + 1] = page
       /\ \A n \in 1 .. Len(pages) : pages'[n] = pages[n]
  BY <1>2, <1>4, <1>9
<1>11. items' = items /\ UNCHANGED <<apiKey, fetchOnly, connect, machineVars>>
  BY DEF ListPage
<1>12. PagesKept'
  <2>1. \A n \in 1 .. Len(pages') : pages'[n].after < n /\ pages'[n].token <= items'
    BY <1>1, <1>2, <1>8, <1>9, <1>10, <1>11 DEF IInv, PagesKept
  <2> QED
    BY <1>10, <1>11, <2>1 DEF IInv, PagesKept
<1>13. PagesGoOn'
  <2> DEFINE Starts(ps, p) == IF p.after = 0 THEN 0 ELSE ps[p.after].token
             GoesOn(p, start) ==
                IF start = NoMore THEN p.runs = <<>> /\ p.token = NoMore
                ELSE /\ p.runs = [i \in 1 .. Len(p.runs) |-> start + i]
                     /\ p.token # NoMore => p.token = start + Len(p.runs) /\ p.runs # <<>>
  <2>1. ASSUME NEW n \in 1 .. Len(pages) PROVE GoesOn(pages'[n], Starts(pages', pages'[n]))
    <3>1. pages[n].after \in Nat /\ pages[n].after < n
      <4>1. pages[n] \in PageRecord
        BY <1>2
      <4> QED
        BY <4>1 DEF IInv, PagesKept, PageRecord
    <3>2. Starts(pages', pages'[n]) = Starts(pages, pages[n])
      BY <1>2, <1>10, <3>1
    <3>3. GoesOn(pages[n], Starts(pages, pages[n]))
      BY <1>2 DEF IInv, PagesGoOn
    <3> HIDE DEF Starts, GoesOn
    <3> QED
      BY <1>10, <3>2, <3>3
  <2>2. GoesOn(page, Starts(pages', page))
    <3>1. Starts(pages', page) = from
      BY <1>1, <1>2, <1>9, <1>10 DEF from, PageToken
    <3>2. from # NoMore => runs = [i \in 1 .. Len(runs) |-> from + i]
      BY <1>6
    <3>3. Len(runs) > 0 => runs # <<>>
      BY <1>6
    <3>4. GoesOn(page, from)
      BY <1>7, <1>8, <1>9, <3>2, <3>3
    <3> QED
      BY <3>1, <3>4
  <2>3. \A n \in 1 .. Len(pages') : GoesOn(pages'[n], Starts(pages', pages'[n]))
    <3> HIDE DEF Starts, GoesOn
    <3> TAKE n \in 1 .. Len(pages')
    <3>1. n \in 1 .. Len(pages) \/ n = Len(pages) + 1
      BY <1>2, <1>10
    <3> QED
      BY <1>10, <2>1, <2>2, <3>1
  <2>4. DOMAIN pages' = 1 .. Len(pages')
    BY <1>10
  <2> QED
    BY <2>3, <2>4 DEF PagesGoOn
<1>14. CallsKept' /\ QueueKept'
  <2> DEFINE r == [call[c] EXCEPT !.stage = "resolved", !.answer = "page"]
  <2>1. /\ r \in CallRecord /\ r.page = call[c].page /\ r.size = call[c].size
        /\ r.method = call[c].method /\ r.stage = "resolved"
    BY <1>1 DEF CallRecord
  <2>2. r.method.gives \in {"pages", "token", "tokenless"}
    BY <2>1 DEF ListPage, Paged, Gives
  <2>3. call' = [call EXCEPT ![c] = r]
    BY <1>4 DEF Resolve
  <2> HIDE DEF r
  <2>4. CallKept(r)
    BY <1>1, <2>1, <2>2 DEF CallKept
  <2>5. /\ call'[c] = r /\ \A d \in Calls \ {c} : call'[d] = call[d]
        /\ call' \in [Calls -> CallRecord]
    BY <2>1, <2>3 DEF IInv, CallsKept
  <2>6. \A d \in Calls : CallKept(call[d])' /\ call[d].page <= Len(pages) /\ call[d].page \in Nat
    BY <2>4, <2>5, OneCall DEF CallKept
  <2>7. \A d \in Calls : call'[d].page <= Len(pages')
    BY <1>2, <1>10, <2>1, <2>5, <2>6
  <2>8. queue' = queue /\ r.came = call[c].came
    BY <1>1 DEF ListPage, r, CallRecord
  <2>9. QueueKept'
    BY <2>1, <2>3, <2>8, QueueStays
  <2> QED
    BY <2>5, <2>6, <2>7, <2>9 DEF CallsKept
<1>15. ConnectKept' /\ SecretIsOfTheAddress' /\ DialsAMainPart'
  BY <1>11 DEF IInv, ConnectKept, SecretIsOfTheAddress, DialsAMainPart, machineVars
<1> QED
  BY <1>12, <1>13, <1>14, <1>15 DEF IInv

-----------------------------------------------------------------------------
(* connectToMachine *)

LEMMA PartsArePairs ==
  ASSUME NEW p \in Parts
  PROVE  /\ p # NoPart /\ p = <<p[1], p[2]>>
         /\ p[1] \in STRING /\ p[2] \in STRING \ {"viam"}
<1>1. p \in Labels \X Labels /\ Labels \subseteq STRING \ {"viam"}
  BY PartsAssumption, LabelsAssumption
<1>2. p = <<p[1], p[2]>> /\ p[1] \in Labels /\ p[2] \in Labels
  BY <1>1
<1>3. <<p[1], p[2]>> # <<>>
  OBVIOUS
<1> QED
  BY <1>1, <1>2, <1>3 DEF NoPart

(* Parts have addresses of their own. *)
LEMMA FqdnsDiffer ==
  ASSUME NEW p \in Parts, NEW q \in Parts, Fqdn(p) = Fqdn(q)
  PROVE  p = q
<1>1. p[1] = q[1] /\ p[2] = q[2]
  BY DEF Fqdn
<1> QED
  BY <1>1, PartsArePairs

LEMMA OwnAddress ==
  ASSUME NEW part \in Parts
  PROVE  GoesWith(part, Fqdn(part))
<1>1. part[1] = Fqdn(part)[1] /\ 2 \in DOMAIN Fqdn(part) /\ part[2] = Fqdn(part)[2]
  BY DEF Fqdn
<1> QED
  BY <1>1, FqdnsDiffer DEF GoesWith

(* The label before the first "viam" is a label of the address. *)
LEMMA SplitsBegin ==
  ASSUME NEW host \in Seq(STRING), Splits(host) # {}
  PROVE  Min(Splits(host)) \in Splits(host)
<1>1. Splits(host) \subseteq Nat
  BY DEF Splits
<1>2. PICK x \in Splits(host) : \A y \in Splits(host) : ~(<<y, x>> \in OpToRel(<, Nat))
  BY <1>1, NatLessThanWellFounded, WFMin, Zenon
<1>3. \A y \in Splits(host) : x <= y
  <2> TAKE y \in Splits(host)
  <2>1. x \in Nat /\ y \in Nat
    BY <1>1
  <2>2. ~(y < x)
    BY <1>2, <2>1 DEF OpToRel
  <2> QED
    BY <2>1, <2>2
<1> QED
  BY <1>3 DEF Min

(* What is cut out of an address goes with it. *)
LEMMA CutOut ==
  ASSUME NEW host \in Hosts, PartOfHost(host) # NoPart
  PROVE  PartOfHost(host) \in Parts /\ GoesWith(PartOfHost(host), host)
<1> DEFINE location == LocationOf(host)
           part == <<host[1], location>>
<1>1. part \in Parts /\ PartOfHost(host) = part
  BY DEF PartOfHost
<1>2. host \in Seq(STRING) /\ Len(host) \in Nat \ {0} /\ DOMAIN host = 1 .. Len(host)
  BY HostsAssumption
<1>3. \E i \in DOMAIN host : location = host[i]
  <2>1. CASE Splits(host) = {}
    BY <1>2, <2>1 DEF LocationOf
  <2>2. CASE Splits(host) # {}
    <3>1. Min(Splits(host)) \in 2 .. Len(host) - 1
      BY <1>2, <2>2, SplitsBegin DEF Splits
    <3> QED
      BY <1>2, <2>2, <3>1 DEF LocationOf
  <2> QED
    BY <2>1, <2>2
<1>4. ASSUME NEW p \in Parts, host = Fqdn(p)
      PROVE  part = p
  <2>1. /\ Len(host) = 4 /\ host[1] = p[1] /\ host[2] = p[2] /\ host[3] = "viam"
    BY <1>4 DEF Fqdn
  <2>2. Splits(host) = {3}
    BY <2>1, PartsArePairs DEF Splits
  <2>3. Min({3}) = 3
    BY DEF Min
  <2>4. location = p[2]
    BY <2>1, <2>2, <2>3 DEF LocationOf
  <2> QED
    BY <2>1, <2>4, PartsArePairs
<1> HIDE DEF location
<1> QED
  BY <1>1, <1>3, <1>4 DEF GoesWith

(* Only what belongs to it changes. *)
LEMMA Elsewhere ==
  ASSUME IInv, UNCHANGED <<apiKey, fetchOnly, call, queue, pages, items>>
  PROVE  CallsKept' /\ QueueKept' /\ PagesKept' /\ PagesGoOn'
  BY DEF IInv, CallsKept, CallKept, QueueKept, LogsInOrder, LogsOf, Gives, PagesKept, PagesGoOn

LEMMA RejectedKept ==
  ASSUME IInv, connect' = Rejected, UNCHANGED <<apiKey, fetchOnly, call, queue, pages, machineVars, items>>
  PROVE  IInv'
<1>1. /\ Rejected \in ConnectRecord /\ Rejected.stage = "rejected"
      /\ Rejected.secretOf = NoPart /\ Rejected.mains = {}
  BY DEF Rejected, NotConnecting, ConnectRecord, Addresses
<1>2. ConnectKept'
  BY <1>1 DEF IInv, ConnectKept, machineVars
<1>3. SecretIsOfTheAddress' /\ DialsAMainPart'
  BY <1>1 DEF SecretIsOfTheAddress, DialsAMainPart
<1> QED
  BY <1>2, <1>3, Elsewhere DEF IInv

(* The machine is dialed, with the secret of the part at that address, or   *)
(* with none.                                                               *)
LEMMA DialKept ==
  ASSUME IInv, NEW address \in Addresses, NEW part \in Parts \union {NoPart},
         NEW number \in Nat,
         connect' = Dial(address, part, number),
         connect.stage # "dialed",
         part \in Parts /\ ~apiKey => GoesWith(part, address) /\ number \in 1 .. secret[part],
         connect.mains # {} => \E p \in connect.mains : address = Fqdn(p),
         UNCHANGED <<apiKey, fetchOnly, call, queue, pages, machineVars, items>>
  PROVE  IInv'
<1>1. connect \in ConnectRecord /\ connect.secretOf = NoPart
  BY DEF IInv, ConnectKept
<1>2. CASE apiKey \/ part = NoPart
  <2>1. connect' = [connect EXCEPT !.stage = "dialed", !.address = address]
    BY <1>2 DEF Dial
  <2>2. /\ connect' \in ConnectRecord /\ connect'.stage = "dialed" /\ connect'.address = address
        /\ connect'.secretOf = NoPart /\ connect'.mains = connect.mains
    BY <1>1, <2>1 DEF ConnectRecord
  <2>3. ConnectKept'
    BY <2>2 DEF IInv, ConnectKept, machineVars
  <2>4. SecretIsOfTheAddress' /\ DialsAMainPart'
    BY <2>2 DEF SecretIsOfTheAddress, DialsAMainPart
  <2> QED
    BY <2>3, <2>4, Elsewhere DEF IInv
<1>3. CASE ~(apiKey \/ part = NoPart)
  <2>1. connect' = [connect EXCEPT !.stage = "dialed", !.address = address, !.secretOf = part,
                                   !.secret = number]
    BY <1>3 DEF Dial
  <2>2. /\ connect' \in ConnectRecord /\ connect'.stage = "dialed" /\ connect'.address = address
        /\ connect'.secretOf = part /\ connect'.secret = number /\ connect'.mains = connect.mains
    BY <1>1, <2>1 DEF ConnectRecord
  <2>3. ConnectKept'
    BY <2>2 DEF IInv, ConnectKept, machineVars
  <2>4. SecretIsOfTheAddress' /\ DialsAMainPart'
    BY <1>3, <2>2 DEF SecretIsOfTheAddress, DialsAMainPart, machineVars
  <2> QED
    BY <2>3, <2>4, Elsewhere DEF IInv
<1> QED
  BY <1>2, <1>3

LEMMA LookupSteps ==
  ASSUME IInv,
         \/ ConnectById \/ ConnectToNothing
         \/ \E host \in Hosts \union {NoHost} : ConnectToHost(host)
  PROVE  IInv'
<1>1. /\ NotConnecting \in ConnectRecord /\ NotConnecting.stage = "idle"
      /\ NotConnecting.secretOf = NoPart /\ NotConnecting.mains = {}
  BY DEF NotConnecting, ConnectRecord, Addresses
<1>2. /\ connect = NotConnecting /\ main \in Parts
      /\ UNCHANGED <<apiKey, fetchOnly, call, queue, pages, machineVars, items>>
  BY DEF ConnectById, ConnectToNothing, ConnectToHost, IInv, ConnectKept
<1>3. CASE ConnectById
  <2>1. connect' = [connect EXCEPT !.stage = "parts", !.mains = {main}]
    BY <1>3 DEF ConnectById
  <2>2. /\ connect' \in ConnectRecord /\ connect'.stage = "parts" /\ connect'.mains = {main}
        /\ connect'.secretOf = NoPart
    BY <1>1, <1>2, <2>1 DEF ConnectRecord
  <2>3. ConnectKept' /\ SecretIsOfTheAddress' /\ DialsAMainPart'
    BY <1>2, <2>2 DEF IInv, ConnectKept, SecretIsOfTheAddress, DialsAMainPart, machineVars
  <2> QED
    BY <1>2, <2>3, Elsewhere DEF IInv
<1>4. ASSUME NEW host \in Hosts \union {NoHost}, ConnectToHost(host), host # NoHost, apiKey
      PROVE  IInv'
  <2>1. connect' = Dial(host, NoPart, 0)
    BY <1>4 DEF ConnectToHost
  <2> QED
    BY <1>1, <1>2, <1>4, <2>1, DialKept DEF Addresses
<1>5. ASSUME NEW host \in Hosts \union {NoHost}, ConnectToHost(host), host # NoHost, ~apiKey
      PROVE  IInv'
  <2>1. connect' = [connect EXCEPT !.stage = "secret", !.address = host]
    BY <1>5 DEF ConnectToHost
  <2>2. /\ connect' \in ConnectRecord /\ connect'.stage = "secret" /\ connect'.mains = {}
        /\ connect'.secretOf = NoPart /\ connect'.address \in Hosts
    BY <1>1, <1>2, <1>5, <2>1 DEF ConnectRecord, Addresses
  <2>3. ConnectKept' /\ SecretIsOfTheAddress' /\ DialsAMainPart'
    BY <1>2, <1>5, <2>2 DEF IInv, ConnectKept, SecretIsOfTheAddress, DialsAMainPart, machineVars
  <2> QED
    BY <1>2, <2>3, Elsewhere DEF IInv
<1>6. CASE ConnectToNothing \/ ConnectToHost(NoHost)
  <2>1. connect' = Rejected
    BY <1>6 DEF ConnectToNothing, ConnectToHost
  <2> QED
    BY <1>2, <2>1, RejectedKept
<1> QED
  BY <1>3, <1>4, <1>5, <1>6

LEMMA LookedUpSteps ==
  ASSUME IInv, PartsCome \/ SecretComes
  PROVE  IInv'
<1>1. /\ main \in Parts /\ secret \in [Parts -> Nat \ {0}]
      /\ connect \in ConnectRecord
      /\ UNCHANGED <<apiKey, fetchOnly, call, queue, pages, machineVars, items>>
  BY DEF PartsCome, SecretComes, IInv, ConnectKept
<1>2. CASE PartsCome /\ connect' # Rejected
  <2>1. MainPart([p \in Parts |-> p = main]) = main
    BY <1>1 DEF MainPart
  <2>2. connect' = Dial(Fqdn(main), main, secret[main]) /\ connect.stage = "parts"
    BY <1>2, <2>1 DEF PartsCome
  <2>3. secret[main] \in Nat /\ secret[main] \in 1 .. secret[main]
    BY <1>1
  <2>4. main \in connect.mains /\ GoesWith(main, Fqdn(main)) /\ Fqdn(main) \in Addresses
    BY <1>1, <2>2, OwnAddress DEF IInv, ConnectKept, Addresses
  <2> QED
    BY <1>1, <2>2, <2>3, <2>4, DialKept
<1>3. CASE SecretComes /\ connect' # Rejected
  <2> DEFINE part == PartOfHost(connect.address)
  <2>1. connect.stage = "secret" /\ connect.mains = {} /\ connect.address \in Hosts
        /\ connect.address \in Addresses
    BY <1>1, <1>3 DEF SecretComes, IInv, ConnectKept, Addresses
  <2>2. part \in Parts \union {NoPart}
        /\ (part # NoPart => part \in Parts /\ GoesWith(part, connect.address))
    BY <2>1, CutOut
  <2> HIDE DEF part
  <2>3. CASE part # NoPart /\ connect' = Dial(connect.address, part, secret[part])
    <3>1. secret[part] \in Nat /\ secret[part] \in 1 .. secret[part]
      BY <1>1, <2>2, <2>3
    <3> QED
      BY <1>1, <2>1, <2>2, <2>3, <3>1, DialKept
  <2>4. CASE connect' = Dial(connect.address, NoPart, 0)
    <3>1. connect.secretOf = NoPart /\ Dial(connect.address, NoPart, 0)
                = [connect EXCEPT !.stage = "dialed", !.address = connect.address]
      BY <2>1 DEF Dial, IInv, ConnectKept
    <3>2. /\ connect' \in ConnectRecord /\ connect'.stage = "dialed" /\ connect'.mains = {}
          /\ connect'.secretOf = NoPart
      BY <1>1, <2>1, <2>4, <3>1 DEF ConnectRecord
    <3>3. ConnectKept' /\ SecretIsOfTheAddress' /\ DialsAMainPart'
      BY <1>1, <3>2 DEF IInv, ConnectKept, SecretIsOfTheAddress, DialsAMainPart, machineVars
    <3> QED
      BY <1>1, <3>3, Elsewhere DEF IInv
  <2> QED
    BY <1>3, <2>3, <2>4 DEF SecretComes, part
<1>4. CASE connect' = Rejected
  BY <1>1, <1>4, RejectedKept
<1> QED
  BY <1>2, <1>3, <1>4

(* The machine changes: another main part, a new secret. *)
LEMMA MachineSteps ==
  ASSUME IInv, NEW p \in Parts, MarkPartAsMain(p) \/ RotateSecret(p)
  PROVE  IInv'
<1>1. /\ connect \in ConnectRecord /\ secret \in [Parts -> Nat \ {0}] /\ changes' \in 0 .. MaxChanges
      /\ UNCHANGED <<apiKey, fetchOnly, call, queue, pages, items>>
  BY BoundsAssumption DEF MarkPartAsMain, RotateSecret, IInv, ConnectKept
<1>2. CASE MarkPartAsMain(p)
  <2> DEFINE mains == IF connect.stage = "parts" THEN connect.mains \union {p} ELSE connect.mains
  <2>1. connect' = [connect EXCEPT !.mains = mains] /\ main' = p /\ secret' = secret
    BY <1>2 DEF MarkPartAsMain
  <2>2. mains \in SUBSET Parts /\ (connect.stage # "parts" => mains = connect.mains)
        /\ (connect.stage = "parts" => p \in mains)
    BY <1>1 DEF ConnectRecord
  <2> HIDE DEF mains
  <2>3. /\ connect' \in ConnectRecord /\ connect'.stage = connect.stage
        /\ connect'.address = connect.address /\ connect'.secretOf = connect.secretOf
        /\ connect'.secret = connect.secret /\ connect'.mains = mains
    BY <1>1, <2>1, <2>2 DEF ConnectRecord
  <2>4. connect.stage # "parts" => connect' = connect
    BY <1>1, <2>1, <2>2 DEF ConnectRecord
  <2>5. ConnectKept'
    BY <1>1, <2>1, <2>2, <2>3, <2>4 DEF IInv, ConnectKept
  <2>6. SecretIsOfTheAddress' /\ DialsAMainPart'
    BY <1>1, <2>1, <2>3, <2>4 DEF IInv, SecretIsOfTheAddress, DialsAMainPart
  <2> QED
    BY <1>1, <2>5, <2>6, Elsewhere DEF IInv
<1>3. CASE RotateSecret(p)
  <2>1. secret' = [secret EXCEPT ![p] = secret[p] + 1] /\ UNCHANGED <<connect, main>>
    BY <1>3 DEF RotateSecret
  <2>2. secret' \in [Parts -> Nat \ {0}] /\ \A q \in Parts : secret'[q] >= secret[q]
    BY <1>1, <2>1
  <2>3. ConnectKept'
    BY <1>1, <2>1, <2>2 DEF IInv, ConnectKept
  <2>4. SecretIsOfTheAddress'
    <3> SUFFICES ASSUME connect.stage = "dialed", connect.secretOf # NoPart
                 PROVE  ~apiKey /\ GoesWith(connect.secretOf, connect.address)
                        /\ connect.secret \in 1 .. secret'[connect.secretOf]
      BY <1>1, <2>1 DEF SecretIsOfTheAddress
    <3>1. ~apiKey /\ GoesWith(connect.secretOf, connect.address)
          /\ connect.secret \in 1 .. secret[connect.secretOf]
      BY DEF IInv, SecretIsOfTheAddress
    <3>2. connect.secretOf \in Parts
      BY <1>1 DEF ConnectRecord
    <3>3. secret[connect.secretOf] \in Nat /\ secret'[connect.secretOf] \in Nat
          /\ secret'[connect.secretOf] >= secret[connect.secretOf]
      BY <1>1, <2>2, <3>2
    <3> QED
      BY <3>1, <3>3
  <2>5. DialsAMainPart'
    BY <2>1 DEF IInv, DialsAMainPart
  <2> QED
    BY <1>1, <2>3, <2>4, <2>5, Elsewhere DEF IInv
<1> QED
  BY <1>2, <1>3

LEMMA NewItemStep ==
  ASSUME IInv, NewItem
  PROVE  IInv'
<1>1. items \in Nat /\ items' = items + 1 /\ items' \in 0 .. MaxItems
      /\ UNCHANGED <<apiKey, fetchOnly, call, queue, pages, connect, machineVars>>
  BY BoundsAssumption DEF NewItem, IInv, PagesKept
<1>2. CallsKept' /\ QueueKept' /\ PagesGoOn'
  BY <1>1 DEF IInv, CallsKept, CallKept, QueueKept, LogsInOrder, LogsOf, Gives, PagesGoOn
<1>3. PagesKept'
  <2>1. \A n \in 1 .. Len(pages) : pages[n] \in PageRecord
    BY DEF IInv, PagesKept
  <2>2. \A n \in 1 .. Len(pages) : pages[n].token \in Nat \union {NoMore}
    BY <2>1 DEF PageRecord
  <2> QED
    BY <1>1, <2>2 DEF IInv, PagesKept, NoMore
<1>4. ConnectKept' /\ SecretIsOfTheAddress' /\ DialsAMainPart'
  BY <1>1 DEF IInv, ConnectKept, SecretIsOfTheAddress, DialsAMainPart, machineVars
<1> QED
  BY <1>2, <1>3, <1>4 DEF IInv

LEMMA QuietStep == IInv /\ UNCHANGED vars => IInv'
  BY DEF IInv, CallsKept, CallKept, QueueKept, LogsInOrder, LogsOf, Gives, PagesKept, PagesGoOn,
         ConnectKept, SecretIsOfTheAddress, DialsAMainPart, vars, machineVars

LEMMA Inductive == IInv /\ [Next]_vars => IInv'
<1> SUFFICES ASSUME IInv, [Next]_vars PROVE IInv'
  OBVIOUS
<1>1. CASE Application
  BY <1>1, BeginSteps, LookupSteps DEF Application
<1>2. CASE Service
  BY <1>2, AnswerSteps, TransferSteps, PageStep, LookedUpSteps, MachineSteps, NewItemStep
     DEF Service
<1>3. CASE UNCHANGED vars
  BY <1>3, QuietStep
<1> QED
  BY <1>1, <1>2, <1>3 DEF Next

THEOREM Invariant == Spec => []IInv
  BY InitIInv, Inductive, PTL DEF Spec

-----------------------------------------------------------------------------
(* The client is type correct. *)
THEOREM TypeCorrect == Spec => []TypeOK
<1>1. IInv => TypeOK
  <2> SUFFICES ASSUME IInv PROVE TypeOK
    OBVIOUS
  <2>1. ASSUME NEW c \in Calls
        PROVE  /\ call[c].method \in FleetMethods \union {NoMethod}
               /\ call[c].stage \in {"idle", "sent", "resolved", "rejected"}
               /\ call[c].page \in 0 .. Len(pages)
               /\ call[c].size \in FileSizes \union {0}
    <3>1. Len(pages) \in Nat
      BY DEF IInv, PagesKept
    <3> QED
      BY <3>1, OneCall DEF CallRecord, CallKept
  <2>2. /\ connect.stage \in {"idle", "parts", "secret", "dialed", "rejected"}
        /\ connect.address \in Hosts \union {Fqdn(p) : p \in Parts} \union {NoHost}
        /\ connect.secretOf \in Parts \union {NoPart}
    BY DEF IInv, ConnectKept, ConnectRecord, Addresses
  <2> QED
    BY <2>1, <2>2 DEF IInv, ConnectKept, PagesKept, TypeOK
<1> QED
  BY <1>1, Invariant, PTL

(* A machine is dialed with the secret of a part that goes with its address, *)
(* whatever is cut out of that address: its own part, if it is the address   *)
(* of one.                                                                   *)
THEOREM SecretsStayWithTheirPart == Spec => []SecretIsOfTheAddress
<1>1. IInv => SecretIsOfTheAddress
  BY DEF IInv
<1> QED
  BY <1>1, Invariant, PTL

(* connectToMachine dials a part that was the main one while it ran. *)
THEOREM MainPartsAreDialed == Spec => []DialsAMainPart
<1>1. IInv => DialsAMainPart
  BY DEF IInv
<1> QED
  BY <1>1, Invariant, PTL

(* A page goes on where the one before it ended. *)
THEOREM PagesAreInOrder == Spec => []PagesGoOn
<1>1. IInv => PagesGoOn
  BY DEF IInv
<1> QED
  BY <1>1, Invariant, PTL

(* The file the service has of an upload that resolved is the application's, *)
(* whatever its size and that of a chunk.                                    *)
LEMMA UploadsAreWhole == IInv => UploadIsWhole
<1>1. ASSUME NEW n \in Nat
      PROVE  LET sent == fileUploadRequests(n)
             IN  /\ sent[1] = Metadata1
                 /\ sent[Len(sent)][2] = n
                 /\ \A i \in 2 .. Len(sent) :
                      sent[i][1] = sent[i - 1][2] /\ sent[i][2] - sent[i][1] \in 1 .. ChunkSize
  <2> DEFINE k == (n + ChunkSize - 1) \div ChunkSize
             sent == fileUploadRequests(n)
             To(i) == IF i * ChunkSize > n THEN n ELSE i * ChunkSize
  <2>1. /\ k \in Nat /\ k * ChunkSize >= n /\ (k # 0 => (k - 1) * ChunkSize < n)
    BY ChunkCount
  <2>2. /\ Len(sent) = k + 1 /\ sent[1] = Metadata1
        /\ \A i \in 1 .. k : sent[i + 1] = <<(i - 1) * ChunkSize, To(i)>>
    BY Chunks
  <2> HIDE DEF k, sent
  <2>3. ChunkSize \in Nat \ {0}
    BY ChunkSizeAssumption
  <2>4. ASSUME NEW i \in 1 .. k
        PROVE  /\ i - 1 \in Nat /\ (i - 1) * ChunkSize \in Nat /\ i * ChunkSize \in Nat
               /\ i * ChunkSize = (i - 1) * ChunkSize + ChunkSize
               /\ (i - 1) * ChunkSize < n
    <3>1. i - 1 \in Nat /\ k - 1 \in Nat /\ i - 1 <= k - 1 /\ i = (i - 1) + 1 /\ i \in Nat /\ k # 0
      BY <2>1
    <3>2. (i - 1) * ChunkSize \in Nat /\ (i - 1) * ChunkSize <= (k - 1) * ChunkSize
      BY <3>1, Multiples
    <3>3. ((i - 1) + 1) * ChunkSize = (i - 1) * ChunkSize + ChunkSize
      BY <3>1, Multiples
    <3>4. (k - 1) * ChunkSize \in Nat /\ i * ChunkSize \in Nat
      BY <3>1, Multiples
    <3> QED
      BY <2>1, <3>1, <3>2, <3>3, <3>4
  <2>5. sent[Len(sent)][2] = n
    <3>1. CASE k = 0
      <4>1. 0 * ChunkSize = 0
        BY <2>3
      <4> QED
        BY <2>1, <2>2, <3>1, <4>1 DEF Metadata1
    <3>2. CASE k # 0
      <4>1. k \in 1 .. k /\ k * ChunkSize \in Nat
        BY <2>1, <2>4, <3>2
      <4>2. To(k) = n
        BY <2>1, <4>1
      <4>3. sent[k + 1] = <<(k - 1) * ChunkSize, To(k)>>
        BY <2>2, <4>1
      <4> QED
        BY <2>2, <4>2, <4>3
    <3> QED
      BY <3>1, <3>2
  <2>6. ASSUME NEW i \in 1 .. k
        PROVE  /\ sent[i + 1][1] = sent[i][2]
               /\ sent[i + 1][2] - sent[i + 1][1] \in 1 .. ChunkSize
    <3>1. sent[i + 1][1] = (i - 1) * ChunkSize /\ sent[i + 1][2] = To(i)
      BY <2>2
    <3>2. To(i) - (i - 1) * ChunkSize \in 1 .. ChunkSize
      BY <2>3, <2>4
    <3>3. CASE i = 1
      <4>1. (i - 1) * ChunkSize = 0
        BY <2>3, <3>3
      <4> QED
        BY <2>2, <3>1, <3>2, <3>3, <4>1 DEF Metadata1
    <3>4. CASE i # 1
      <4>1. i - 1 \in 1 .. k /\ (i - 1) + 1 = i
        BY <2>1, <3>4
      <4>2. sent[i] = <<(i - 1 - 1) * ChunkSize, To(i - 1)>>
        BY <2>2, <4>1
      <4>3. To(i - 1) = (i - 1) * ChunkSize
        BY <2>4
      <4> QED
        BY <3>1, <3>2, <4>2, <4>3
    <3> QED
      BY <3>3, <3>4
  <2>7. ASSUME NEW i \in 2 .. Len(sent)
        PROVE  sent[i][1] = sent[i - 1][2] /\ sent[i][2] - sent[i][1] \in 1 .. ChunkSize
    <3>1. i - 1 \in 1 .. k /\ (i - 1) + 1 = i
      BY <2>1, <2>2
    <3> QED
      BY <2>6, <3>1
  <2> QED
    BY <2>2, <2>5, <2>7 DEF sent
<1>2. IInv => UploadIsWhole
  <2> SUFFICES ASSUME IInv, NEW c \in Calls, call[c].stage = "resolved", Gives(c) = "upload"
               PROVE  LET sent == call[c].sent
                      IN  /\ sent[1] = Metadata1
                          /\ sent[Len(sent)][2] = call[c].size
                          /\ \A i \in 2 .. Len(sent) :
                                /\ sent[i][1] = sent[i - 1][2]
                                /\ sent[i][2] - sent[i][1] \in 1 .. ChunkSize
    BY DEF UploadIsWhole
  <2>1. call[c].sent = fileUploadRequests(call[c].size) /\ call[c].size \in Nat
    BY OneCall DEF CallKept, Gives
  <2>2. PICK n \in Nat : n = call[c].size
    BY <2>1
  <2>3. PICK sent : sent = call[c].sent
    OBVIOUS
  <2>4. sent = fileUploadRequests(n)
    BY <2>1, <2>2, <2>3
  <2>5. /\ sent[1] = Metadata1
        /\ sent[Len(sent)][2] = n
        /\ \A i \in 2 .. Len(sent) :
                sent[i][1] = sent[i - 1][2] /\ sent[i][2] - sent[i][1] \in 1 .. ChunkSize
    BY <1>1, <2>4
  <2> QED
    BY <2>2, <2>3, <2>5
<1> QED
  BY <1>2

(* What is uploaded, exported or followed is whole and in order: the chunks of *)
(* a file, the logs of calls that share a queue, and what a stream brought to  *)
(* its end; a stream that failed gives nothing.                               *)
THEOREM TransfersReachTheirEnd == Spec => []TransfersAreWhole
<1>1. IInv => CollectedIsWhole
  BY DEF IInv, CallsKept, CallKept, CollectedIsWhole, Gives
<1>2. IInv => LogsInOrder
  BY DEF IInv, QueueKept
<1>3. IInv => TransfersAreWhole
  BY <1>1, <1>2, UploadsAreWhole DEF TransfersAreWhole
<1> QED
  BY <1>3, Invariant, PTL
=============================================================================
