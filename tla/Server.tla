------------------------------- MODULE Server -------------------------------
(***************************************************************************)
(* net::stub::AbstractServerStub with its clients.  One thread accepts and  *)
(* reads requests and pushes them into m_queue, a SafeQueue; the readers    *)
(* pop them, run a handler, answer and close; main shuts the server down.   *)
(* Each client makes one call of AbstractClientStub::execute.               *)
(*                                                                          *)
(* Of a message only its length counts: requests and replies are payloads   *)
(* of Transport.  Peers are this program's clients, on a network that       *)
(* resets no connection by itself, so what read and write return below zero *)
(* before the server ends and a size field that does not parse are left     *)
(* out.                                                                     *)
(***************************************************************************)
EXTENDS Transport, Sequences, FiniteSets

CONSTANTS
    Readers,            \* m_threads
    Clients,
    Request,            \* client -> the payload of its request
    Reply,              \* client -> the payload of the answer to it
    NoClient,           \* no connection
    Mortal,             \* the clients whose process may end before the answer came
    Throwing,           \* the clients whose request may make its handler throw
    MayShutDown         \* does main ever call shutDown?

ASSUME ClientsAssumption == IsFiniteSet(Clients) /\ NoClient \notin Clients
ASSUME PayloadsAssumption ==
    /\ Request \in [Clients -> Nat] /\ Reply \in [Clients -> Nat]
    /\ \A c \in Clients : Fits(Request[c]) /\ Fits(Reply[c])
ASSUME BehaviourAssumption ==
    Mortal \subseteq Clients /\ Throwing \subseteq Clients /\ MayShutDown \in BOOLEAN

VARIABLES
    m_isDone,
    listening,          \* is m_sfd open?
    backlog,            \* the connections nobody has accepted yet
    accpc,              \* where the accept thread is
    cfd,                \* its connection
    header,             \* the bytes of the header it has read
    buffer,             \* the bytes read by its current call of detail::read
    rpc,                \* reader -> where it is in readFrames
    packet,             \* reader -> its packet
    opc,                \* where main is in shutDown; "terminated", once the process is gone
    cst,                \* client -> where it is in execute
    coming,             \* client -> the bytes of its request still to be read
    cheader,            \* client -> the bytes of the reply's header it has read
    cbuffer,            \* client -> the bytes read by its current call of detail::read
    answered,           \* the clients whose reply was written and connection closed
    handled,            \* client -> how often its request ran (history)
    m_tasks, m_size, m_abort, cpc, apc, popped      \* m_queue

acceptVars == <<accpc, cfd, header, buffer>>
readerVars == <<rpc, packet, handled>>
clientVars == <<cst, cheader, cbuffer>>
queueVars == <<m_tasks, m_size, m_abort, cpc, apc, popped>>
vars == <<m_isDone, listening, backlog, acceptVars, readerVars, opc, clientVars,
          coming, answered, queueVars>>

\* A packet holds its connection and the number of bytes of its frame.
Packets == [fd : Clients, bytes : Nat]
NoPacket == [fd |-> NoClient, bytes |-> 0]

\* Nothing wakes without a notify here, and every client pushes once.
Queue == INSTANCE SafeQueue WITH
    Consumers <- Readers, Values <- Packets, MaxPushes <- Cardinality(Clients),
    SpuriousWakeups <- FALSE

AcceptPlaces == {"accept", "check", "header", "rest", "exit"}
ReaderPlaces == {"loop", "pop", "route", "respond", "exit"}
OwnerPlaces == {"serving", "close", "joinAccept", "abort", "joinReaders", "ended",
                "terminated"}
ClientPlaces == {"idle", "header", "rest", "true", "reset", "cut", "refused", "dead"}

TypeOK ==
    /\ Queue!TypeOK
    /\ m_isDone \in BOOLEAN
    /\ listening \in BOOLEAN
    /\ backlog \in Seq(Clients)
    /\ accpc \in AcceptPlaces
    /\ cfd \in Clients \union {NoClient}
    /\ header \in Nat
    /\ buffer \in Nat
    /\ rpc \in [Readers -> ReaderPlaces]
    /\ packet \in [Readers -> Packets \union {NoPacket}]
    /\ opc \in OwnerPlaces
    /\ cst \in [Clients -> ClientPlaces]
    /\ coming \in [Clients -> Nat]
    /\ cheader \in [Clients -> Nat]
    /\ cbuffer \in [Clients -> Nat]
    /\ answered \in SUBSET Clients
    /\ handled \in [Clients -> Nat]

\* run() has bound the socket and started the threads.
Init ==
    /\ Queue!Init
    /\ m_isDone = FALSE
    /\ listening = TRUE
    /\ backlog = <<>>
    /\ accpc = "accept"
    /\ cfd = NoClient
    /\ header = 0
    /\ buffer = 0
    /\ rpc = [r \in Readers |-> "loop"]
    /\ packet = [r \in Readers |-> NoPacket]
    /\ opc = "serving"
    /\ cst = [c \in Clients |-> "idle"]
    /\ coming = [c \in Clients |-> 0]
    /\ cheader = [c \in Clients |-> 0]
    /\ cbuffer = [c \in Clients |-> 0]
    /\ answered = {}
    /\ handled = [c \in Clients |-> 0]

\* No thread of the server goes on once it is terminated.
Running == opc # "terminated"

Waits(c) == \E i \in DOMAIN backlog : backlog[i] = c

-----------------------------------------------------------------------------
(* A client: execute                                                        *)

\* servConnect, and the request written in one call.  Without a server the client aborts.
Connect(c) ==
    /\ cst[c] = "idle"
    /\ IF listening
       THEN /\ cst' = [cst EXCEPT ![c] = "header"]
            /\ backlog' = Append(backlog, c)
            /\ coming' = [coming EXCEPT ![c] = FrameLength(Request[c])]
       ELSE /\ cst' = [cst EXCEPT ![c] = "refused"]
            /\ UNCHANGED <<backlog, coming>>
    /\ UNCHANGED <<m_isDone, listening, acceptVars, readerVars, opc, cheader, cbuffer,
                   answered, queueVars>>

\* How many bytes c's current call of detail::read asks for.
CWanted(c) ==
    IF cst[c] = "header" THEN PrefixSize ELSE DeclaredSize(Reply[c]) - cheader[c]

\* The bytes of the reply c has not read yet.
CComing(c) ==
    IF c \in answered THEN FrameLength(Reply[c]) - cheader[c] - cbuffer[c] ELSE 0

\* The client's call of detail::read has not returned yet, or has.
Receives(c) == cst[c] \in {"header", "rest"} /\ ReadsOn(cbuffer[c], CWanted(c))
Received(c) == cst[c] \in {"header", "rest"} /\ ~ReadsOn(cbuffer[c], CWanted(c))

ReadReply(c) ==
    /\ Receives(c)
    /\ \E n \in Chunks(cbuffer[c], CWanted(c), CComing(c)) :
         cbuffer' = [cbuffer EXCEPT ![c] = @ + n]
    /\ UNCHANGED <<m_isDone, listening, backlog, acceptVars, readerVars, opc, cst, cheader,
                   coming, answered, queueVars>>

\* The header gives the size of the rest; after the rest, execute returns true.
ReplyRead(c) ==
    /\ Received(c)
    /\ IF cst[c] = "header"
       THEN /\ cst' = [cst EXCEPT ![c] = "rest"]
            /\ cheader' = [cheader EXCEPT ![c] = cbuffer[c]]
            /\ cbuffer' = [cbuffer EXCEPT ![c] = 0]
       ELSE /\ cst' = [cst EXCEPT ![c] = "true"]
            /\ UNCHANGED <<cheader, cbuffer>>
    /\ UNCHANGED <<m_isDone, listening, backlog, acceptVars, readerVars, opc, coming,
                   answered, queueVars>>

\* The client's process ends; some of its request is never sent.
Die(c) ==
    /\ c \in Mortal
    /\ cst[c] \in {"header", "rest"}
    /\ cst' = [cst EXCEPT ![c] = "dead"]
    /\ \E n \in 0 .. coming[c] : coming' = [coming EXCEPT ![c] = n]
    /\ UNCHANGED <<m_isDone, listening, backlog, acceptVars, readerVars, opc, cheader,
                   cbuffer, answered, queueVars>>

ClientStep(c) == ReadReply(c) \/ ReplyRead(c)

-----------------------------------------------------------------------------
(* The accept thread: acceptFrames                                          *)

\* accept returns a connection, or fails once shutDown has closed the socket.
Accept ==
    /\ accpc = "accept"
    /\ \/ /\ ~listening
          /\ accpc' = "exit"
          /\ UNCHANGED <<backlog, cfd>>
       \/ /\ listening
          /\ backlog # <<>>
          /\ accpc' = "check"
          /\ cfd' = Head(backlog)
          /\ backlog' = Tail(backlog)
    /\ UNCHANGED <<m_isDone, listening, header, buffer, readerVars, opc, clientVars, coming,
                   answered, queueVars>>

\* What accept returned to a server that is done stays open and unread.
CheckDone ==
    /\ accpc = "check"
    /\ accpc' = IF m_isDone THEN "exit" ELSE "header"
    /\ header' = 0
    /\ buffer' = 0
    /\ UNCHANGED <<m_isDone, listening, backlog, cfd, readerVars, opc, clientVars, coming,
                   answered, queueVars>>

\* How many bytes the current call of detail::read asks for.
Wanted == IF accpc = "header" THEN PrefixSize ELSE DeclaredSize(Request[cfd]) - header

\* A ::read that gets bytes.  One that gets none, at the end of a dead client's stream,
\* changes nothing, and the loop goes on.
ReadSome ==
    /\ accpc \in {"header", "rest"}
    /\ ReadsOn(buffer, Wanted)
    /\ \E n \in Chunks(buffer, Wanted, coming[cfd]) :
         /\ buffer' = buffer + n
         /\ coming' = [coming EXCEPT ![cfd] = @ - n]
    /\ UNCHANGED <<m_isDone, listening, backlog, accpc, cfd, header, readerVars, opc,
                   clientVars, answered, queueVars>>

HeaderRead ==
    /\ accpc = "header"
    /\ ~ReadsOn(buffer, Wanted)
    /\ accpc' = "rest"
    /\ header' = buffer
    /\ buffer' = 0
    /\ UNCHANGED <<m_isDone, listening, backlog, cfd, readerVars, opc, clientVars, coming,
                   answered, queueVars>>

PushPacket ==
    /\ accpc = "rest"
    /\ ~ReadsOn(buffer, Wanted)
    /\ Queue!Push([fd |-> cfd, bytes |-> header + buffer])
    /\ accpc' = "accept"
    /\ cfd' = NoClient
    /\ header' = 0
    /\ buffer' = 0
    /\ UNCHANGED <<m_isDone, listening, backlog, readerVars, opc, clientVars, coming,
                   answered>>

AcceptStep == Running /\ (Accept \/ CheckDone \/ ReadSome \/ HeaderRead \/ PushPacket)

-----------------------------------------------------------------------------
(* A reader: readFrames                                                     *)

\* Nothing changes but the queue and the readers.
OnlyReads == UNCHANGED <<m_isDone, listening, backlog, acceptVars, opc, clientVars, coming>>

\* Slip: while (true).
LoopsForever == TRUE
\* while (!m_isDone)
LoopsOn == ~m_isDone

CallPop(r) ==
    /\ rpc[r] = "loop"
    /\ LoopsOn
    /\ Queue!CallPop(r)
    /\ rpc' = [rpc EXCEPT ![r] = "pop"]
    /\ OnlyReads
    /\ UNCHANGED <<packet, answered, handled>>

Leave(r) ==
    /\ rpc[r] = "loop"
    /\ ~LoopsOn
    /\ rpc' = [rpc EXCEPT ![r] = "exit"]
    /\ OnlyReads
    /\ UNCHANGED <<packet, answered, handled, queueVars>>

PopAborted(r) ==
    /\ rpc[r] = "pop"
    /\ Queue!PopAborted(r)
    /\ rpc' = [rpc EXCEPT ![r] = "loop"]
    /\ OnlyReads
    /\ UNCHANGED <<packet, answered, handled>>

PopPacket(r) ==
    /\ rpc[r] = "pop"
    /\ Queue!PopFront(r)
    /\ rpc' = [rpc EXCEPT ![r] = "route"]
    /\ packet' = [packet EXCEPT ![r] = Head(m_tasks)]
    /\ OnlyReads
    /\ UNCHANGED <<answered, handled>>

\* The reader goes to sleep in two steps.
PopSleeps(r) ==
    /\ rpc[r] = "pop"
    /\ Queue!PopWait(r) \/ Queue!Block(r)
    /\ OnlyReads
    /\ UNCHANGED <<readerVars, answered>>

\* route: the handler runs, and returns.
Route(r) ==
    /\ rpc[r] = "route"
    /\ handled' = [handled EXCEPT ![packet[r].fd] = @ + 1]
    /\ rpc' = [rpc EXCEPT ![r] = "respond"]
    /\ OnlyReads
    /\ UNCHANGED <<packet, answered, queueVars>>

\* The handler throws: recursive_directory_iterator at a path that is no directory, dump at
\* a context that cuts a character of more than one byte.  Nothing on the thread's way up
\* catches it, so std::terminate ends the process.  The connections nobody accepted are
\* reset, and those with bytes nobody read; at the others read returns 0 from now on, and
\* execute goes round for ever.
Throw(r) ==
    /\ rpc[r] = "route"
    /\ packet[r].fd \in Throwing
    /\ opc' = "terminated"
    /\ listening' = FALSE
    /\ backlog' = <<>>
    /\ cst' = [c \in Clients |->
                 IF Waits(c) THEN "reset"
                 ELSE IF cst[c] = "header" /\ c \notin answered /\ coming[c] > 0 THEN "cut"
                 ELSE cst[c]]
    /\ UNCHANGED <<m_isDone, acceptVars, readerVars, cheader, cbuffer, coming, answered,
                   queueVars>>

\* dispatchResponse: the reply is written in one call and the connection closed.
Respond(r) ==
    /\ rpc[r] = "respond"
    /\ answered' = answered \union {packet[r].fd}
    /\ packet' = [packet EXCEPT ![r] = NoPacket]
    /\ rpc' = [rpc EXCEPT ![r] = "loop"]
    /\ OnlyReads
    /\ UNCHANGED <<handled, queueVars>>

ReaderStep(r) ==
    /\ Running
    /\ \/ CallPop(r) \/ Leave(r) \/ PopAborted(r) \/ PopPacket(r) \/ PopSleeps(r)
       \/ Route(r) \/ Throw(r) \/ Respond(r)

-----------------------------------------------------------------------------
(* main: shutDown                                                           *)

\* Nothing changes but main and what it is about.
OnlyShuts == UNCHANGED <<acceptVars, readerVars, cheader, cbuffer, coming, answered>>

ShutDown ==
    /\ MayShutDown
    /\ opc = "serving"
    /\ m_isDone' = TRUE
    /\ opc' = "close"
    /\ OnlyShuts
    /\ UNCHANGED <<listening, backlog, cst, queueVars>>

\* shutdown and close of m_sfd: connections nobody accepted are reset, and execute
\* returns false.
CloseSocket ==
    /\ opc = "close"
    /\ listening' = FALSE
    /\ backlog' = <<>>
    /\ cst' = [c \in Clients |-> IF Waits(c) THEN "reset" ELSE cst[c]]
    /\ opc' = "joinAccept"
    /\ OnlyShuts
    /\ UNCHANGED <<m_isDone, queueVars>>

JoinAccept ==
    /\ opc = "joinAccept"
    /\ accpc = "exit"
    /\ opc' = "abort"
    /\ OnlyShuts
    /\ UNCHANGED <<m_isDone, listening, backlog, cst, queueVars>>

\* m_queue->signalAbort()
SignalAbort ==
    /\ opc = "abort"
    /\ \/ Queue!AbortStore /\ UNCHANGED opc
       \/ Queue!AbortNotify /\ opc' = "joinReaders"
    /\ OnlyShuts
    /\ UNCHANGED <<m_isDone, listening, backlog, cst>>

\* Slip: nobody waits for the readers.
JoinNobody ==
    /\ opc = "joinReaders"
    /\ opc' = "ended"
    /\ OnlyShuts
    /\ UNCHANGED <<m_isDone, listening, backlog, cst, queueVars>>

JoinReaders ==
    /\ opc = "joinReaders"
    /\ \A r \in Readers : rpc[r] = "exit"
    /\ opc' = "ended"
    /\ OnlyShuts
    /\ UNCHANGED <<m_isDone, listening, backlog, cst, queueVars>>

MainStep == CloseSocket \/ JoinAccept \/ SignalAbort \/ JoinReaders

Next ==
    \/ \E c \in Clients : Connect(c) \/ ClientStep(c) \/ Die(c)
    \/ AcceptStep
    \/ \E r \in Readers : ReaderStep(r)
    \/ ShutDown
    \/ MainStep

\* Every thread that can take a step takes one, and bytes that were sent arrive.  Nobody
\* has to connect, to die or to shut the server down.
Fairness ==
    /\ \A c \in Clients : WF_vars(ClientStep(c))
    /\ WF_vars(AcceptStep)
    /\ \A r \in Readers : WF_vars(ReaderStep(r))
    /\ WF_vars(MainStep)

Spec == Init /\ [][Next]_vars /\ Fairness

-----------------------------------------------------------------------------
(* Properties                                                               *)

\* The places a connection of c can be at: who must still close it, or has.
HoldersOf(c) ==
    Cardinality({i \in DOMAIN backlog : backlog[i] = c})
      + Cardinality({i \in DOMAIN m_tasks : m_tasks[i].fd = c})
      + Cardinality({r \in Readers : packet[r].fd = c})
      + Cardinality({x \in {cfd} : x = c})
      + Cardinality({x \in answered : x = c})

\* A connection is in one place at a time and none is forgotten: the backlog, the accept
\* thread, m_queue, one reader, or closed with its answer; so no request runs twice, no
\* descriptor is closed twice, and no two readers write to one.
OneHolder ==
    \A c \in Clients :
      /\ HoldersOf(c) = IF cst[c] \in {"idle", "refused", "reset"} THEN 0 ELSE 1
      /\ handled[c] <= 1
      /\ c \in answered => handled[c] = 1

\* However the stream is cut into chunks, a packet and a reply have all bytes of their
\* frame; only the last may be missing, and only where the size has a digit more than
\* the payload's, so that serialize's "+1" is used up.
Whole(payload, bytes) ==
    \/ bytes = FrameLength(payload)
    \/ bytes = FrameLength(payload) - 1 /\ FrameLength(payload) = DeclaredSize(payload)

MessagesWhole ==
    /\ \A i \in DOMAIN popped : Whole(Request[popped[i].fd], popped[i].bytes)
    /\ \A c \in Clients : cst[c] = "true" => Whole(Reply[c], cheader[c] + cbuffer[c])

\* When shutDown has returned every request that a reader took has its answer.  Without one
\* are the packets readers left in m_queue when it was aborted, and a connection that accept
\* returned to a server that was done; they stay open, and no other does.
LeftByShutDown ==
    opc = "ended" =>
      \A c \in Clients :
        \/ cst[c] \in {"idle", "refused", "reset"}
        \/ c \in answered
        \/ c = cfd /\ accpc = "exit"
        \/ \E i \in DOMAIN m_tasks : m_tasks[i].fd = c

\* A client that has connected gets its answer, as long as nobody shuts the server down,
\* dies or makes it terminate: detail::read ends at the end of each frame, for one client
\* after the other.
Served ==
    \A c \in Clients :
      cst[c] = "header" ~> \/ cst[c] = "true"
                           \/ m_isDone \/ ~Running
                           \/ \E d \in Clients : cst[d] = "dead"

\* The abort has come and gone, and a reader sleeps on.
AbortMissed == apc = "after" /\ \E r \in Readers : cpc[r] = "blocked"

\* The accept thread has read all that came from a client that ended, and asks for more.
ReadsFromDead ==
    /\ accpc \in {"header", "rest"}
    /\ cst[cfd] = "dead" /\ coming[cfd] = 0
    /\ ReadsOn(buffer, Wanted)

\* shutDown returns unless a reader missed the abort, the accept thread hangs on a dead
\* client or a handler throws: nothing else can keep a thread from ending.
StopsOrKnownHang ==
    opc = "close" ~> (opc = "ended" \/ AbortMissed \/ ReadsFromDead \/ ~Running)
=============================================================================
