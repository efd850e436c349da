---------------------------- MODULE FleetClient ----------------------------
(***************************************************************************)
(* A ViamClient: the calls of its app, data, billing, training and          *)
(* provisioning clients, the pages of listings, the upload of files, and    *)
(* connectToMachine, which looks a machine up and dials it.                 *)
(*                                                                          *)
(* All of it goes over one direct transport, so a call whose connection     *)
(* fails is rejected.  The service is the environment: machines change,     *)
(* lists grow, and it answers pages by where the last one ended.            *)
(***************************************************************************)
EXTENDS Integers, Sequences, FiniteSets, SequencesExt, FleetMethods

CONSTANTS
    Calls,          \* the calls the application makes
    Callable,       \* the methods each of them may be of
    Labels,         \* what parts and locations are named
    Parts,          \* the parts of the machine, each its name and its location
    Hosts,          \* the addresses the application connects to
    ChunkSize,      \* UPLOAD_CHUNK_SIZE
    FileSizes,      \* the sizes of the files it uploads
    PageSize,       \* how many items a page of a listing has
    MaxItems,       \* bound: the items of a listing
    MaxMessages,    \* bound: the messages of a response stream
    MaxChanges      \* bound: the changes others make to the machine

ASSUME CallableAssumption == Callable \in [Calls -> SUBSET FleetMethods]
ASSUME LabelsAssumption == Labels \subseteq STRING \ {"viam"}
ASSUME PartsAssumption == Parts \subseteq Labels \X Labels
(* An address is its labels: what is between its dots.                      *)
ASSUME HostsAssumption == \A host \in Hosts : host \in Seq(STRING) /\ host # <<>>
ASSUME ChunkSizeAssumption == ChunkSize \in Nat \ {0} /\ PageSize \in Nat \ {0}
ASSUME FileSizesAssumption == FileSizes \subseteq Nat
ASSUME BoundsAssumption == {MaxItems, MaxMessages, MaxChanges} \subseteq Nat

VARIABLES
    apiKey,     \* the credentials are an API key (else an access token)
    fetchOnly,  \* the transport sends one message a request, as fetch does
    call,       \* each call
    queue,      \* the log queue the application gives every tailRobotPartLogs
    pages,      \* the pages it was given, in that order
    connect,    \* the connectToMachine
    main,       \* environment: the main part of the machine
    secret,     \* environment: the number of each part's secret
    items,      \* environment: how many items the listing has
    changes     \* how often the machine changed

machineVars == <<main, secret, changes>>
vars == <<apiKey, fetchOnly, call, queue, pages, connect, machineVars, items>>

NoMethod == [service |-> "none", rpc |-> "none", gives |-> "none"]
NoPart == <<>>
NoHost == <<>>

(* The address the service gives a part. *)
Fqdn(part) == <<part[1], part[2], "viam", "cloud">>

(* A page token: where the next page begins, or that there is none.         *)
NoMore == -1

NoCall == [method |-> NoMethod, stage |-> "idle", answer |-> "none", page |-> 0, size |-> 0,
           sent |-> <<>>, came |-> <<>>, got |-> <<>>]
NotConnecting == [stage |-> "idle", address |-> NoHost, secretOf |-> NoPart, secret |-> 0,
                  mains |-> {}]

Init ==
    /\ apiKey \in BOOLEAN
    /\ fetchOnly \in BOOLEAN
    /\ call = [c \in Calls |-> NoCall]
    /\ queue = <<>>
    /\ pages = <<>>
    /\ connect = NotConnecting
    /\ main \in Parts
    /\ secret = [p \in Parts |-> 1]
    /\ items \in 0 .. MaxItems
    /\ changes = 0

Gives(c) == call[c].method.gives

-----------------------------------------------------------------------------
(* Calls *)

Resolve(c, answer) == call' = [call EXCEPT ![c].stage = "resolved", ![c].answer = answer]

Reject(c) == call' = [call EXCEPT ![c].stage = "rejected"]

(* A method is called.  A listing begins at the start or at the token of an *)
(* earlier page, which for the page objects is their nextPage.  (page: that *)
(* page, 0 for none.)                                                       *)
Begin(c, m, page, size) ==
    /\ call[c] = NoCall
    /\ page # 0 => Paged(m.gives) /\ pages[page].rpc = m.rpc
    /\ m.gives # "upload" => size = 0
    /\ page # 0 /\ m.gives # "pages" => pages[page].token # NoMore
    /\ call' = [call EXCEPT ![c] = [NoCall EXCEPT !.method = m, !.stage = "sent", !.page = page,
                                                  !.size = size]]
    /\ UNCHANGED <<apiKey, fetchOnly, queue, pages, connect, machineVars, items>>

(* tabularDataCaptureUpload of lists that do not pair up. *)
Unpaired(c, m) ==
    /\ call[c] = NoCall
    /\ m.gives = "paired"
    /\ call' = [call EXCEPT ![c] = [NoCall EXCEPT !.method = m, !.stage = "rejected"]]
    /\ UNCHANGED <<apiKey, fetchOnly, queue, pages, connect, machineVars, items>>

(* The service answers with an error, or its connection fails. *)
Fail(c) ==
    /\ call[c].stage = "sent"
    /\ Reject(c)
    /\ UNCHANGED <<apiKey, fetchOnly, queue, pages, connect, machineVars, items>>

(* What the application gets of an answer that lacks the part it is about.  *)
Missing(gives) ==
    CASE gives = "optional" -> "undefined"
      [] gives = "orNull"   -> "null"
      [] gives = "orEmpty"  -> "empty"
      [] OTHER              -> "none"

Answer(c) ==
    /\ call[c].stage = "sent"
    /\ ~Streams(Gives(c)) /\ ~Paged(Gives(c)) /\ Gives(c) # "upload"
    /\ \/ Resolve(c, IF Gives(c) = "nothing" THEN "none" ELSE "whole")
       \/ Gives(c) \in {"optional", "orNull", "orEmpty"} /\ Resolve(c, Missing(Gives(c)))
       \/ Gives(c) = "wanted" /\ Reject(c)
    /\ UNCHANGED <<apiKey, fetchOnly, queue, pages, connect, machineVars, items>>

-----------------------------------------------------------------------------
(* Streams *)

Push(q, log) == Append(q, log)

(* A message of a stream: a row that lacks a part ends exportTabularData.   *)
Message(c) ==
    /\ call[c].stage = "sent"
    /\ Streams(Gives(c))
    /\ Len(call[c].came) < MaxMessages
    /\ \/ /\ call' = [call EXCEPT ![c].came = Append(@, Len(@) + 1)]
          /\ queue' = IF Gives(c) = "queued" THEN Push(queue, <<c, Len(call[c].came) + 1>>)
                      ELSE queue
       \/ Gives(c) = "rows" /\ Reject(c) /\ UNCHANGED queue
    /\ UNCHANGED <<apiKey, fetchOnly, pages, connect, machineVars, items>>

(* concatArrayU8, and the array of the rows. *)
Together(chunks) == chunks

StreamEnds(c) ==
    /\ call[c].stage = "sent"
    /\ Streams(Gives(c))
    /\ call' = [call EXCEPT ![c].stage = "resolved",
                            ![c].answer = IF Gives(c) = "queued" THEN "none" ELSE "whole",
                            ![c].got = IF Gives(c) = "queued" THEN <<>>
                                       ELSE Together(call[c].came)]
    /\ UNCHANGED <<apiKey, fetchOnly, queue, pages, connect, machineVars, items>>

-----------------------------------------------------------------------------
(* Listings *)

(* The service's answer to a page token: the items from there, and the      *)
(* token of the next page when there are more.                              *)
ServicePage(from) ==
    LET end == IF from + PageSize < items THEN from + PageSize ELSE items
    IN  [runs |-> [n \in 1 .. (end - from) |-> from + n],
         token |-> IF end < items THEN end ELSE NoMore]

FromTheStart(c) == 0                                \* mutant of PageToken
(* The token a listing passes: that of the page it goes on from. *)
PageToken(c) == IF call[c].page = 0 THEN 0 ELSE pages[call[c].page].token

AddPage(c, runs, token) ==
    /\ pages' = Append(pages, [rpc |-> call[c].method.rpc, after |-> call[c].page,
                               runs |-> runs,
                               token |-> IF Gives(c) = "tokenless" THEN NoMore ELSE token])
    /\ Resolve(c, "page")

(* nextPage of the last page asks for nothing. *)
PastTheEnd(c) == PageToken(c) = NoMore

(* listDataPipelineRuns and nextPage, and the other listings, when their    *)
(* answer comes.                                                            *)
ListPage(c) ==
    /\ call[c].stage = "sent"
    /\ Paged(Gives(c))
    /\ IF PastTheEnd(c) THEN AddPage(c, <<>>, NoMore)
       ELSE LET answer == ServicePage(PageToken(c)) IN AddPage(c, answer.runs, answer.token)
    /\ UNCHANGED <<apiKey, fetchOnly, queue, connect, machineVars, items>>

-----------------------------------------------------------------------------
(* Files *)

Metadata1 == <<0, 0>>

WholeChunks(n) ==                                   \* mutant of fileUploadRequests
    <<Metadata1>> \o [i \in 1 .. (n \div ChunkSize) |-> <<(i - 1) * ChunkSize, i * ChunkSize>>]
(* fileUploadRequests: the metadata, then the file in chunks, each from     *)
(* where to where.                                                          *)
fileUploadRequests(n) ==
    <<Metadata1>> \o [i \in 1 .. ((n + ChunkSize - 1) \div ChunkSize) |->
                        <<(i - 1) * ChunkSize,
                          IF i * ChunkSize > n THEN n ELSE i * ChunkSize>>]

(* The transport takes the next request of the generator, if it can send    *)
(* more than one.                                                           *)
SendChunk(c) ==
    /\ call[c].stage = "sent"
    /\ Gives(c) = "upload"
    /\ ~fetchOnly
    /\ Len(call[c].sent) < Len(fileUploadRequests(call[c].size))
    /\ call' = [call EXCEPT ![c].sent =
                    Append(@, fileUploadRequests(call[c].size)[Len(@) + 1])]
    /\ UNCHANGED <<apiKey, fetchOnly, queue, pages, connect, machineVars, items>>

(* The service answers the end of the requests. *)
Uploaded(c) ==
    /\ call[c].stage = "sent"
    /\ Gives(c) = "upload"
    /\ call[c].sent = fileUploadRequests(call[c].size)
    /\ Resolve(c, "whole")
    /\ UNCHANGED <<apiKey, fetchOnly, queue, pages, connect, machineVars, items>>

-----------------------------------------------------------------------------
(* connectToMachine *)

Rejected == [NotConnecting EXCEPT !.stage = "rejected"]

(* createRobotClient, with the credentials of this client, or the secret of *)
(* the part when they are an access token.                                  *)
Dial(address, part, number) ==
    IF apiKey \/ part = NoPart
    THEN [connect EXCEPT !.stage = "dialed", !.address = address]
    ELSE [connect EXCEPT !.stage = "dialed", !.address = address, !.secretOf = part,
                         !.secret = number]

ConnectById ==
    /\ connect = NotConnecting
    /\ connect' = [connect EXCEPT !.stage = "parts", !.mains = {main}]
    /\ UNCHANGED <<apiKey, fetchOnly, call, queue, pages, machineVars, items>>

(* With a host, whether there is an id or not: getRobotSecretFromHost, when *)
(* a secret is wanted.                                                      *)
ConnectToHost(host) ==
    /\ connect = NotConnecting
    /\ connect' = IF host = NoHost THEN Rejected
                  ELSE IF apiKey THEN Dial(host, NoPart, 0)
                  ELSE [connect EXCEPT !.stage = "secret", !.address = host]
    /\ UNCHANGED <<apiKey, fetchOnly, call, queue, pages, machineVars, items>>

(* Neither an address nor an id. *)
ConnectToNothing ==
    /\ connect = NotConnecting
    /\ connect' = Rejected
    /\ UNCHANGED <<apiKey, fetchOnly, call, queue, pages, machineVars, items>>

(* parts.find((part) => part.mainPart) *)
MainPart(parts) == CHOOSE p \in Parts : parts[p]

(* getRobotParts answers: with the parts as they are, or with none that is  *)
(* the main part.                                                           *)
PartsCome ==
    /\ connect.stage = "parts"
    /\ \/ LET part == MainPart([p \in Parts |-> p = main])
          IN  connect' = Dial(Fqdn(part), part, secret[part])
       \/ connect' = Rejected
    /\ UNCHANGED <<apiKey, fetchOnly, call, queue, pages, machineVars, items>>

MainSecret(host) == main                            \* mutant of PartOfHost
(* host.split('.viam.'): where an address has a "viam" between two others.   *)
Splits(host) == {i \in 2 .. Len(host) - 1 : host[i] = "viam"}

(* The last label of what precedes the first of them, of all when there is  *)
(* none.                                                                    *)
LocationOf(host) == IF Splits(host) = {} THEN host[Len(host)] ELSE host[Min(Splits(host)) - 1]

(* The part getRobotSecretFromHost asks for: of that location, and named by *)
(* the first label.                                                         *)
PartOfHost(host) ==
    IF <<host[1], LocationOf(host)>> \in Parts THEN <<host[1], LocationOf(host)>> ELSE NoPart

(* getRobotPartByNameAndLocation answers, maybe without a part, or fails as *)
(* it does when there is none of that name.                                 *)
SecretComes ==
    /\ connect.stage = "secret"
    /\ LET part == PartOfHost(connect.address)
       IN  \/ part # NoPart /\ connect' = Dial(connect.address, part, secret[part])
           \/ connect' = Dial(connect.address, NoPart, 0)
           \/ connect' = Rejected
    /\ UNCHANGED <<apiKey, fetchOnly, call, queue, pages, machineVars, items>>

-----------------------------------------------------------------------------
(* The service, for others or for calls of this client (markPartAsMain,     *)
(* createRobotPartSecret and deleteRobotPartSecret).                        *)

MarkPartAsMain(p) ==
    /\ changes < MaxChanges
    /\ main' = p
    /\ connect' = [connect EXCEPT !.mains = IF connect.stage = "parts" THEN @ \union {p} ELSE @]
    /\ changes' = changes + 1
    /\ UNCHANGED <<apiKey, fetchOnly, call, queue, pages, secret, items>>

RotateSecret(p) ==
    /\ changes < MaxChanges
    /\ secret' = [secret EXCEPT ![p] = @ + 1]
    /\ changes' = changes + 1
    /\ UNCHANGED <<apiKey, fetchOnly, call, queue, pages, connect, main, items>>

NewItem ==
    /\ items < MaxItems
    /\ items' = items + 1
    /\ UNCHANGED <<apiKey, fetchOnly, call, queue, pages, connect, machineVars>>

-----------------------------------------------------------------------------
Application ==
    \/ \E c \in Calls, m \in UNION {Callable[d] : d \in Calls} :
        /\ m \in Callable[c]
        /\ \/ \E page \in 0 .. Len(pages), size \in FileSizes \union {0} : Begin(c, m, page, size)
           \/ Unpaired(c, m)
    \/ ConnectById \/ ConnectToNothing
    \/ \E host \in Hosts \union {NoHost} : ConnectToHost(host)

Service ==
    \/ \E c \in Calls :
        \/ Fail(c) \/ Answer(c) \/ Message(c) \/ StreamEnds(c) \/ ListPage(c)
        \/ SendChunk(c) \/ Uploaded(c)
    \/ PartsCome \/ SecretComes
    \/ \E p \in Parts : MarkPartAsMain(p) \/ RotateSecret(p)
    \/ NewItem

Next == Application \/ Service

Spec == Init /\ [][Next]_vars

-----------------------------------------------------------------------------
TypeOK ==
    /\ apiKey \in BOOLEAN /\ fetchOnly \in BOOLEAN
    /\ \A c \in Calls :
        /\ call[c].method \in FleetMethods \union {NoMethod}
        /\ call[c].stage \in {"idle", "sent", "resolved", "rejected"}
        /\ call[c].page \in 0 .. Len(pages)
        /\ call[c].size \in FileSizes \union {0}
    /\ connect.stage \in {"idle", "parts", "secret", "dialed", "rejected"}
    /\ connect.address \in Hosts \union {Fqdn(p) : p \in Parts} \union {NoHost}
    /\ connect.secretOf \in Parts \union {NoPart}
    /\ main \in Parts
    /\ items \in 0 .. MaxItems
    /\ changes \in 0 .. MaxChanges

(* A part goes with its own address and with no other part's; it may go with *)
(* any other that begins with its name and has its location in it.           *)
GoesWith(part, address) ==
    /\ \A p \in Parts : address = Fqdn(p) => part = p
    /\ part[1] = address[1]
    /\ \E i \in DOMAIN address : part[2] = address[i]

(* A machine is dialed with a robot secret only for an access token, an API  *)
(* key goes on as it is.  The secret is one of a part that goes with the     *)
(* address that is dialed, be it given or looked up.                         *)
SecretIsOfTheAddress ==
    connect.stage = "dialed" /\ connect.secretOf # NoPart =>
        /\ ~apiKey
        /\ GoesWith(connect.secretOf, connect.address)
        /\ connect.secret \in 1 .. secret[connect.secretOf]

(* What does not hold: that the secret of a part goes to that part alone.  An *)
(* address in another domain, or in none, may begin with the part's name and *)
(* have its location, and is then dialed with the part's secret.             *)
SecretOnlyToItsPart ==
    connect.stage = "dialed" /\ connect.secretOf # NoPart =>
        connect.address = Fqdn(connect.secretOf)

(* connectToMachine with an id dials the address of a part that was the main *)
(* part of the machine while it ran, though another may be by now.           *)
DialsAMainPart ==
    connect.stage = "dialed" /\ connect.mains # {} =>
        \E p \in connect.mains : connect.address = Fqdn(p)

(* A page goes on where the one before it ended, however often that one was  *)
(* asked for its next, and though the listing grew: nothing is listed twice  *)
(* and nothing is left out.  After the last page come empty ones.            *)
PagesGoOn ==
    \A n \in DOMAIN pages :
        LET page == pages[n]
            from == IF page.after = 0 THEN 0 ELSE pages[page.after].token
        IN  IF from = NoMore THEN page.runs = <<>> /\ page.token = NoMore
            ELSE /\ page.runs = [i \in 1 .. Len(page.runs) |-> from + i]
                 /\ page.token # NoMore => page.token = from + Len(page.runs) /\ page.runs # <<>>

(* The file the service has of an upload that resolved is the application's: *)
(* its metadata, then its chunks, in order, from the first byte to the last, *)
(* none larger than a chunk.                                                 *)
UploadIsWhole ==
    \A c \in Calls :
        call[c].stage = "resolved" /\ Gives(c) = "upload" =>
            LET sent == call[c].sent
            IN  /\ sent[1] = Metadata1
                /\ sent[Len(sent)][2] = call[c].size
                /\ \A i \in 2 .. Len(sent) :
                    sent[i][1] = sent[i - 1][2] /\ sent[i][2] - sent[i][1] \in 1 .. ChunkSize

(* Where the logs of a call are in the queue. *)
LogsOf(c) == {i \in DOMAIN queue : queue[i][1] = c}

(* Calls of tailRobotPartLogs may share a queue: the logs of each are there, *)
(* in the order they came.                                                   *)
LogsInOrder ==
    \A c \in Calls :
        Gives(c) = "queued" =>
            /\ \A i, j \in LogsOf(c) : i < j => queue[i][2] < queue[j][2]
            /\ {queue[i][2] : i \in LogsOf(c)} = DOMAIN call[c].came

(* An invoice or an export that resolved has all that the stream brought; a  *)
(* stream that failed gives nothing.                                         *)
CollectedIsWhole ==
    \A c \in Calls :
        Gives(c) \in {"collected", "rows"} =>
            call[c].got = IF call[c].stage = "resolved" THEN call[c].came ELSE <<>>

(* What is uploaded, exported or followed is whole and in order, also where   *)
(* calls share a queue.                                                       *)
TransfersAreWhole == UploadIsWhole /\ LogsInOrder /\ CollectedIsWhole
=============================================================================
