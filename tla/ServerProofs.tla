----------------------------- MODULE ServerProofs -----------------------------
(***************************************************************************)
(* What holds of the server and its clients for every number of readers and *)
(* clients and every length of their messages, in any base and with chunks  *)
(* of any size: each connection is in one place, each request runs once,    *)
(* and both ends cut whole frames out of the stream.                        *)
(***************************************************************************)
EXTENDS Server, FiniteSetTheorems, WellFoundedInduction, TLAPS

-----------------------------------------------------------------------------
(* Numbers and their digits                                                 *)

\* Every set of naturals has a least element.
LEMMA LeastNatural ==
  ASSUME NEW S, S \subseteq Nat, S # {}
  PROVE  \E x \in S : \A y \in S : x <= y
<1> DEFINE R == {ss \in Nat \X Nat : ss[1] < ss[2]}
<1>1. OpToRel(<, Nat) = R  BY DEF OpToRel
<1>2. IsWellFoundedOn(R, Nat)  BY <1>1, NatLessThanWellFounded
<1> HIDE DEF R
<1>3. PICK x \in S : \A y \in S : ~ (<<y, x>> \in R)  BY <1>2, WFMin
<1>4. ASSUME NEW y \in S  PROVE x <= y
  <2>1. <<y, x>> \in Nat \X Nat /\ x \in Nat /\ y \in Nat  OBVIOUS
  <2>2. ~ (y < x)  BY <1>3, <2>1 DEF R
  <2> QED  BY <2>1, <2>2
<1> QED  BY <1>4

\* The powers of Base are numbers, grow, and are larger than their exponents.
LEMMA Powers ==
  /\ \A d \in 0 .. MaxDigits : Base ^ d \in Nat /\ Base ^ d >= d + 1
  /\ \A d \in 0 .. MaxDigits - 1 : Base ^ (d + 1) >= 2 * Base ^ d
<1> USE PowersAssumption, BaseAssumption
<1>1. \A d \in 0 .. MaxDigits - 1 : Base ^ d \in Nat => Base ^ (d + 1) >= 2 * Base ^ d
  <2> SUFFICES ASSUME NEW d \in 0 .. MaxDigits - 1, Base ^ d \in Nat
               PROVE  Base ^ (d + 1) >= 2 * Base ^ d
    OBVIOUS
  <2>1. \A p \in Nat : Base * p >= 2 * p  OBVIOUS
  <2> QED  BY <2>1
<1>2. \A d \in 0 .. MaxDigits : Base ^ d \in Nat /\ Base ^ d >= d + 1
  <2> DEFINE Wrong == {d \in 0 .. MaxDigits : ~ (Base ^ d \in Nat /\ Base ^ d >= d + 1)}
  <2> SUFFICES ASSUME Wrong # {} PROVE FALSE  OBVIOUS
  <2>1. PICK d \in Wrong : \A y \in Wrong : d <= y
    <3>1. Wrong \subseteq Nat  OBVIOUS
    <3> HIDE DEF Wrong
    <3> QED  BY <3>1, LeastNatural
  <2>2. d # 0  OBVIOUS
  <2>3. d - 1 \in 0 .. MaxDigits - 1 /\ (d - 1) + 1 = d /\ d \in Nat  BY <2>2
  <2>4. d - 1 \notin Wrong  BY <2>1, <2>3
  <2>5. Base ^ (d - 1) \in Nat /\ Base ^ (d - 1) >= d  BY <2>3, <2>4
  <2>6. Base ^ d = Base * Base ^ (d - 1)  BY <2>3
  <2>7. Base ^ d >= 2 * Base ^ (d - 1)  BY <1>1, <2>3, <2>5
  <2>8. Base ^ d \in Nat
    <3>1. \A p \in Nat : Base * p \in Nat  OBVIOUS
    <3> QED  BY <2>5, <2>6, <3>1
  <2>9. Base ^ d >= d + 1  BY <2>2, <2>3, <2>5, <2>7, <2>8
  <2> QED  BY <2>8, <2>9
<1>3. \A d \in 0 .. MaxDigits - 1 : Base ^ (d + 1) >= 2 * Base ^ d  BY <1>1, <1>2
<1> QED  BY <1>2, <1>3

\* What Digits chooses.
LEMMA DigitsOf ==
  ASSUME NEW n \in Nat, n < Base ^ MaxDigits
  PROVE  /\ Digits(n) \in 1 .. MaxDigits
         /\ n < Base ^ Digits(n)
         /\ Digits(n) = 1 \/ Base ^ (Digits(n) - 1) <= n
<1> DEFINE Enough == {d \in 1 .. MaxDigits : n < Base ^ d}
<1>1. MaxDigits \in Nat \ {0}  BY PowersAssumption
<1>2. MaxDigits \in Enough  BY <1>1
<1>3. Enough \subseteq Nat  OBVIOUS
<1>4. PICK d \in Enough : \A y \in Enough : d <= y
  <2> HIDE DEF Enough
  <2> QED  BY <1>2, <1>3, LeastNatural
<1>5. d = 1 \/ Base ^ (d - 1) <= n
  <2> SUFFICES ASSUME d # 1 PROVE Base ^ (d - 1) <= n  OBVIOUS
  <2>1. d - 1 \in 1 .. MaxDigits /\ d - 1 < d /\ d \in Nat  BY <1>1
  <2>2. d - 1 \notin Enough  BY <1>4, <2>1
  <2>3. Base ^ (d - 1) \in Nat  BY <1>1, <2>1, Powers
  <2> QED  BY <2>1, <2>2, <2>3
<1> DEFINE Right(e) == n < Base ^ e /\ (e = 1 \/ Base ^ (e - 1) <= n)
<1>6. \E e \in 1 .. MaxDigits : Right(e)  BY <1>5
<1>7. Digits(n) = CHOOSE e \in 1 .. MaxDigits : Right(e)  BY DEF Digits
<1> HIDE DEF Right
<1>8. Digits(n) \in 1 .. MaxDigits /\ Right(Digits(n))  BY <1>6, <1>7
<1> QED  BY <1>8 DEF Right

\* Powers do not shrink.
LEMMA PowersGrow ==
  ASSUME NEW d \in 0 .. MaxDigits, NEW e \in 0 .. MaxDigits, d <= e
  PROVE  Base ^ d <= Base ^ e
<1> DEFINE Wrong == {x \in 0 .. MaxDigits : d <= x /\ ~ (Base ^ d <= Base ^ x)}
<1> SUFFICES ASSUME Wrong # {} PROVE FALSE  OBVIOUS
<1>0. MaxDigits \in Nat  BY PowersAssumption
<1>1. PICK x \in Wrong : \A y \in Wrong : x <= y
  <2>1. Wrong \subseteq Nat  OBVIOUS
  <2> HIDE DEF Wrong
  <2> QED  BY <2>1, LeastNatural
<1>2. Base ^ d \in Nat /\ Base ^ x \in Nat  BY Powers
<1>3. x # d  BY <1>2
<1>4. x - 1 \in 0 .. MaxDigits - 1 /\ d <= x - 1 /\ (x - 1) + 1 = x /\ x \in Nat
  BY <1>0, <1>3
<1>5. Base ^ d <= Base ^ (x - 1)  BY <1>0, <1>1, <1>4
<1>6. Base ^ (x - 1) \in Nat /\ Base ^ x >= 2 * Base ^ (x - 1)  BY <1>0, <1>4, Powers
<1> QED  BY <1>2, <1>5, <1>6

\* A frame is one byte shorter than it declares, or just as long.
LEMMA FrameLengthIs ==
  ASSUME NEW p \in Nat, Fits(p)
  PROVE  /\ DeclaredSize(p) \in Nat /\ FrameLength(p) \in Nat
         /\ FrameLength(p) \in {DeclaredSize(p) - 1, DeclaredSize(p)}
<1> DEFINE d == Digits(p)
           s == DeclaredSize(p)
           e == Digits(s)
<1>0. MaxDigits \in Nat \ {0} /\ Base ^ MaxDigits \in Nat  BY PowersAssumption, Powers
<1>1. p + MaxDigits + 1 < Base ^ MaxDigits  BY DEF Fits
<1>2. p < Base ^ MaxDigits  BY <1>0, <1>1
<1>3. /\ d \in 1 .. MaxDigits /\ p < Base ^ d
      /\ d = 1 \/ Base ^ (d - 1) <= p
  BY <1>2, DigitsOf
<1> HIDE DEF d
<1>4. s = p + d + 1  BY DEF DeclaredSize, d
<1>5. s \in Nat /\ s < Base ^ MaxDigits  BY <1>0, <1>1, <1>3, <1>4
<1> HIDE DEF s
<1>6. /\ e \in 1 .. MaxDigits /\ s < Base ^ e
      /\ e = 1 \/ Base ^ (e - 1) <= s
  BY <1>5, DigitsOf
<1> HIDE DEF e
<1>7. e >= d
  <2> SUFFICES ASSUME e < d PROVE FALSE  BY <1>3, <1>6
  <2>1. d # 1 /\ d - 1 \in 0 .. MaxDigits /\ e \in 0 .. MaxDigits /\ e <= d - 1
    BY <1>0, <1>3, <1>6
  <2>2. Base ^ e <= Base ^ (d - 1)  BY <2>1, PowersGrow
  <2>3. Base ^ e \in Nat /\ Base ^ (d - 1) \in Nat  BY <2>1, Powers
  <2>4. Base ^ (d - 1) <= p  BY <1>3, <2>1
  <2> QED  BY <1>3, <1>4, <1>5, <1>6, <2>2, <2>3, <2>4
<1>8. e <= d + 1
  <2> SUFFICES ASSUME e > d + 1 PROVE FALSE  BY <1>3, <1>6
  <2>1. d \in 0 .. MaxDigits - 1 /\ d + 1 \in 0 .. MaxDigits /\ e - 1 \in 0 .. MaxDigits
        /\ d + 1 <= e - 1 /\ e # 1 /\ d \in 0 .. MaxDigits
    BY <1>0, <1>3, <1>6
  <2>2. Base ^ (d + 1) <= Base ^ (e - 1)  BY <2>1, PowersGrow
  <2>3. Base ^ (d + 1) >= 2 * Base ^ d /\ Base ^ d >= d + 1  BY <2>1, Powers
  <2>4. Base ^ d \in Nat /\ Base ^ (d + 1) \in Nat /\ Base ^ (e - 1) \in Nat  BY <2>1, Powers
  <2>5. Base ^ (e - 1) <= s  BY <1>6, <2>1
  <2> QED  BY <1>3, <1>4, <2>2, <2>3, <2>4, <2>5
<1>9. FrameLength(p) = e + p  BY DEF FrameLength, e, s
<1>10. s \in Nat /\ e + p \in Nat /\ e + p \in {s - 1, s}
  BY <1>3, <1>4, <1>5, <1>6, <1>7, <1>8
<1> QED  BY <1>9, <1>10 DEF s

-----------------------------------------------------------------------------
(* The inductive invariant                                                  *)

\* The connections at each of the places a connection can be.
Waiting == {backlog[i] : i \in DOMAIN backlog}
Accepted == {cfd} \ {NoClient}
Queued == {m_tasks[i].fd : i \in DOMAIN m_tasks}
AtReader == {packet[r].fd : r \in Readers} \ {NoClient}

\* The clients that have connected, and were not reset before anybody accepted them.
Connected == {c \in Clients : cst[c] \notin {"idle", "refused", "reset"}}

\* No connection is twice at one place ...
OnceEach ==
    /\ \A i, j \in DOMAIN backlog : backlog[i] = backlog[j] => i = j
    /\ \A i, j \in DOMAIN m_tasks : m_tasks[i].fd = m_tasks[j].fd => i = j
    /\ \A r, q \in Readers : packet[r].fd = packet[q].fd /\ packet[r].fd # NoClient => r = q

\* ... nor at two places ...
OnePlace ==
    /\ Waiting \intersect Accepted = {} /\ Waiting \intersect Queued = {}
    /\ Waiting \intersect AtReader = {} /\ Waiting \intersect answered = {}
    /\ Accepted \intersect Queued = {} /\ Accepted \intersect AtReader = {}
    /\ Accepted \intersect answered = {} /\ Queued \intersect AtReader = {}
    /\ Queued \intersect answered = {} /\ AtReader \intersect answered = {}

\* ... nor forgotten.
SomePlace == Waiting \union Accepted \union Queued \union AtReader \union answered = Connected

\* Which threads have a connection, and what has run.
Holding ==
    /\ accpc = "accept" => cfd = NoClient
    /\ accpc \in {"check", "header", "rest"} => cfd \in Clients
    /\ \A r \in Readers : packet[r].fd # NoClient <=> rpc[r] \in {"route", "respond"}
    /\ \A r \in Readers : cpc[r] = "out" <=> rpc[r] # "pop"

\* The readers whose handler has run, with c's connection.
Handlers(c, pk, rp) == {r \in Readers : pk[r].fd = c /\ rp[r] = "respond"}
HandledOnce ==
    \A c \in Clients :
      handled[c] = IF c \in answered \/ Handlers(c, packet, rpc) # {} THEN 1 ELSE 0

\* What the accept thread has read, and what is still to be read, of a request.
RequestBytes ==
    /\ \A c \in Clients : coming[c] <= FrameLength(Request[c])
    /\ accpc \in {"header", "rest"} =>
         header + buffer + coming[cfd] <= FrameLength(Request[cfd])
    /\ accpc = "header" => header = 0
    /\ accpc = "rest" =>
         header + buffer <= DeclaredSize(Request[cfd])

\* What a client has read of its reply.
ReplyBytes ==
    \A c \in Clients :
      /\ cst[c] = "idle" => cheader[c] = 0 /\ cbuffer[c] = 0
      /\ cst[c] \in {"header", "rest", "true"} => cheader[c] + cbuffer[c] <= FrameLength(Reply[c])
      /\ cst[c] = "header" => cheader[c] = 0
      /\ cst[c] = "true" => Whole(Reply[c], cheader[c] + cbuffer[c])

\* The packets that are, or were, on their way.
PacketsWhole ==
    /\ \A i \in DOMAIN m_tasks : Whole(Request[m_tasks[i].fd], m_tasks[i].bytes)
    /\ \A i \in DOMAIN popped : Whole(Request[popped[i].fd], popped[i].bytes)

ServerInv ==
    /\ TypeOK /\ m_size = Len(m_tasks)
    /\ OnceEach /\ OnePlace /\ SomePlace /\ Holding /\ HandledOnce
    /\ RequestBytes /\ ReplyBytes /\ PacketsWhole

-----------------------------------------------------------------------------
(* Steps that move no connection                                            *)

LEMMA SameHolders ==
  ASSUME ServerInv, UNCHANGED <<backlog, cfd, m_tasks, packet, answered>>, Connected' = Connected
  PROVE  OnceEach' /\ OnePlace' /\ SomePlace'
<1>1. /\ Waiting' = Waiting /\ Accepted' = Accepted /\ Queued' = Queued /\ AtReader' = AtReader
      /\ answered' = answered
  BY DEF Waiting, Accepted, Queued, AtReader
<1> QED  BY <1>1 DEF ServerInv, OnceEach, OnePlace, SomePlace

LEMMA SameQueue ==
  ASSUME ServerInv, UNCHANGED <<m_tasks, m_size, m_abort, cpc, apc, popped>>
  PROVE  Queue!TypeOK' /\ m_size' = Len(m_tasks')
BY DEF ServerInv, TypeOK, Queue!TypeOK

LEMMA SameHandled ==
  ASSUME ServerInv, UNCHANGED <<handled, answered, packet, rpc>>
  PROVE  HandledOnce'
BY DEF ServerInv, HandledOnce

LEMMA SamePackets ==
  ASSUME ServerInv, UNCHANGED <<m_tasks, popped>>
  PROVE  PacketsWhole'
BY DEF ServerInv, PacketsWhole

\* The sizes of the messages.
LEMMA MessageSizes ==
  ASSUME NEW c \in Clients
  PROVE  /\ FrameLength(Request[c]) \in Nat /\ DeclaredSize(Request[c]) \in Nat
         /\ FrameLength(Request[c]) \in {DeclaredSize(Request[c]) - 1, DeclaredSize(Request[c])}
         /\ FrameLength(Reply[c]) \in Nat /\ DeclaredSize(Reply[c]) \in Nat
         /\ FrameLength(Reply[c]) \in {DeclaredSize(Reply[c]) - 1, DeclaredSize(Reply[c])}
BY PayloadsAssumption, FrameLengthIs

\* A message of as many bytes as detail::read insists on, and not more than there are, is whole.
LEMMA EnoughIsWhole ==
  ASSUME NEW payload \in Nat, Fits(payload), NEW bytes \in Nat,
         bytes <= FrameLength(payload), bytes >= DeclaredSize(payload) - 1
  PROVE  Whole(payload, bytes)
BY FrameLengthIs DEF Whole

-----------------------------------------------------------------------------
(* Steps of the clients                                                     *)

LEMMA ConnectNext ==
  ASSUME ServerInv, NEW c \in Clients, Connect(c)
  PROVE  ServerInv'
<1> USE DEF ServerInv
<1>1. /\ cst[c] = "idle"
      /\ UNCHANGED <<m_isDone, listening, accpc, cfd, header, buffer, rpc, packet, handled, opc, cheader,
                     cbuffer, answered, m_tasks, m_size, m_abort, cpc, apc, popped>>
  BY DEF Connect, acceptVars, readerVars, queueVars
<1>2. c \notin Connected /\ cst \in [Clients -> ClientPlaces] /\ backlog \in Seq(Clients)
  BY <1>1 DEF Connected, TypeOK
<1>3. CASE listening
  <2>1. /\ cst' = [cst EXCEPT ![c] = "header"] /\ backlog' = Append(backlog, c)
        /\ coming' = [coming EXCEPT ![c] = FrameLength(Request[c])]
    BY <1>3 DEF Connect
  <2>2. TypeOK'
    <3>1. FrameLength(Request[c]) \in Nat /\ coming \in [Clients -> Nat]
      BY MessageSizes DEF TypeOK
    <3>2. /\ coming' \in [Clients -> Nat] /\ cst' \in [Clients -> ClientPlaces]
          /\ backlog' \in Seq(Clients)
      BY <1>2, <2>1, <3>1 DEF ClientPlaces
    <3> QED  BY <1>1, <3>2, SameQueue DEF TypeOK
  <2>3. Connected' = Connected \union {c}  BY <1>2, <2>1 DEF Connected
  <2>4. /\ Waiting' = Waiting \union {c}
        /\ c \notin Waiting => \A i, j \in DOMAIN backlog' : backlog'[i] = backlog'[j] => i = j
    BY <1>2, <2>1 DEF Waiting, OnceEach
  <2>5. /\ Accepted' = Accepted /\ Queued' = Queued /\ AtReader' = AtReader
        /\ c \notin Waiting /\ c \notin Accepted /\ c \notin Queued /\ c \notin AtReader /\ c \notin answered
    BY <1>1, <1>2 DEF Accepted, Queued, AtReader, SomePlace
  <2>6. OnceEach' /\ OnePlace' /\ SomePlace'
    <3>1. OnceEach'  BY <1>1, <2>4, <2>5 DEF OnceEach
    <3>2. OnePlace'  BY <1>1, <2>4, <2>5 DEF OnePlace
    <3>3. SomePlace'  BY <1>1, <2>3, <2>4, <2>5 DEF SomePlace
    <3> QED  BY <3>1, <3>2, <3>3
  <2>7. Holding' /\ HandledOnce' /\ PacketsWhole'
    BY <1>1, SameHandled, SamePackets DEF Holding
  <2>8. RequestBytes'
    <3>1. accpc \in {"header", "rest"} => cfd \in Clients /\ cfd # c
      BY <2>5, ClientsAssumption DEF Holding, Accepted
    <3>2. coming' \in [Clients -> Nat] /\ coming \in [Clients -> Nat]  BY <2>1, <2>2 DEF TypeOK
    <3>3. \A d \in Clients : coming'[d] = IF d = c THEN FrameLength(Request[c]) ELSE coming[d]
      BY <2>1, <3>2
    <3>4. \A d \in Clients : coming'[d] <= FrameLength(Request[d])
      BY <3>3, MessageSizes DEF RequestBytes
    <3> QED  BY <1>1, <3>1, <3>3, <3>4 DEF RequestBytes
  <2>9. ReplyBytes'
    BY <1>1, <1>2, <2>1, MessageSizes DEF ReplyBytes
  <2> QED  BY <1>1, <2>2, <2>6, <2>7, <2>8, <2>9
<1>4. CASE ~listening
  <2>1. cst' = [cst EXCEPT ![c] = "refused"] /\ UNCHANGED <<backlog, coming>>
    BY <1>4 DEF Connect
  <2>2. TypeOK'
    <3>1. cst' \in [Clients -> ClientPlaces]  BY <1>2, <2>1 DEF ClientPlaces
    <3> QED  BY <1>1, <2>1, <3>1, SameQueue DEF TypeOK
  <2>3. Connected' = Connected  BY <1>1, <1>2, <2>1 DEF Connected
  <2>4. OnceEach' /\ OnePlace' /\ SomePlace'  BY <1>1, <2>1, <2>3, SameHolders
  <2>5. Holding' /\ HandledOnce' /\ PacketsWhole' /\ RequestBytes'
    BY <1>1, <2>1, SameHandled, SamePackets DEF Holding, RequestBytes
  <2>6. ReplyBytes'  BY <1>1, <1>2, <2>1 DEF ReplyBytes
  <2> QED  BY <1>1, <2>2, <2>4, <2>5, <2>6
<1> QED  BY <1>3, <1>4

\* A client that reads, or ends, is connected before and after.
LEMMA ClientNext ==
  ASSUME ServerInv, NEW c \in Clients, ReadReply(c) \/ ReplyRead(c) \/ Die(c)
  PROVE  ServerInv'
<1> USE DEF ServerInv
<1>1. /\ cst[c] \in {"header", "rest"}
      /\ UNCHANGED <<m_isDone, listening, backlog, accpc, cfd, header, buffer, rpc, packet, handled,
                     opc, answered, m_tasks, m_size, m_abort, cpc, apc, popped>>
  BY DEF ReadReply, ReplyRead, Die, Receives, Received, acceptVars, readerVars, queueVars
<1>2. /\ cst \in [Clients -> ClientPlaces] /\ coming \in [Clients -> Nat]
      /\ cheader \in [Clients -> Nat] /\ cbuffer \in [Clients -> Nat]
      /\ c \in answered \/ c \notin answered
  BY DEF TypeOK
<1>3. /\ FrameLength(Reply[c]) \in Nat /\ DeclaredSize(Reply[c]) \in Nat
      /\ cheader[c] + cbuffer[c] <= FrameLength(Reply[c])
      /\ cst[c] = "header" => cheader[c] = 0
  BY <1>1, MessageSizes DEF ReplyBytes
<1>4. /\ cst' \in [Clients -> ClientPlaces] /\ coming' \in [Clients -> Nat]
      /\ cheader' \in [Clients -> Nat] /\ cbuffer' \in [Clients -> Nat]
      /\ cst'[c] \in {"header", "rest", "true", "dead"}
      /\ \A d \in Clients : coming'[d] <= coming[d]
      /\ \A d \in Clients \ {c} : cst'[d] = cst[d] /\ cheader'[d] = cheader[d] /\ cbuffer'[d] = cbuffer[d]
      /\ cst'[c] \in {"header", "rest", "true"} => cheader'[c] + cbuffer'[c] <= FrameLength(Reply[c])
      /\ cst'[c] = "header" => cheader'[c] = 0
      /\ cst'[c] = "true" => Whole(Reply[c], cheader'[c] + cbuffer'[c])
  <2>1. CASE ReadReply(c)
    <3>1. PICK n \in Chunks(cbuffer[c], CWanted(c), CComing(c)) : cbuffer' = [cbuffer EXCEPT ![c] = @ + n]
      BY <2>1 DEF ReadReply
    <3>2. n \in Nat /\ n <= CComing(c)  BY SizesAssumption DEF Chunks
    <3>3. CComing(c) = 0 \/ CComing(c) = FrameLength(Reply[c]) - cheader[c] - cbuffer[c]
      BY DEF CComing
    <3>4. cheader[c] + (cbuffer[c] + n) <= FrameLength(Reply[c])  BY <1>2, <1>3, <3>2, <3>3
    <3>5. UNCHANGED <<cst, coming, cheader>>  BY <2>1 DEF ReadReply
    <3>6. cbuffer' \in [Clients -> Nat] /\ cbuffer'[c] = cbuffer[c] + n
          /\ \A d \in Clients \ {c} : cbuffer'[d] = cbuffer[d]
      BY <1>2, <3>1, <3>2
    <3> QED  BY <1>1, <1>2, <1>3, <3>4, <3>5, <3>6
  <2>2. CASE ReplyRead(c) /\ cst[c] = "header"
    <3>1. /\ cst' = [cst EXCEPT ![c] = "rest"] /\ cheader' = [cheader EXCEPT ![c] = cbuffer[c]]
          /\ cbuffer' = [cbuffer EXCEPT ![c] = 0] /\ coming' = coming
      BY <2>2 DEF ReplyRead
    <3> QED  BY <1>2, <1>3, <3>1 DEF ClientPlaces
  <2>3. CASE ReplyRead(c) /\ cst[c] # "header"
    <3>1. cst' = [cst EXCEPT ![c] = "true"] /\ UNCHANGED <<cheader, cbuffer, coming>>
      BY <2>3 DEF ReplyRead
    <3>2. ~ (cbuffer[c] < DeclaredSize(Reply[c]) - cheader[c] - 1)
      BY <2>3 DEF ReplyRead, Received, ReadsOn, CWanted
    <3>3. cheader[c] + cbuffer[c] \in Nat /\ cheader[c] + cbuffer[c] >= DeclaredSize(Reply[c]) - 1
      BY <1>2, <1>3, <3>2
    <3>4. Whole(Reply[c], cheader[c] + cbuffer[c])
      BY <1>3, <3>3, EnoughIsWhole, PayloadsAssumption
    <3> QED  BY <1>2, <1>3, <3>1, <3>4 DEF ClientPlaces
  <2>4. CASE Die(c)
    <3>1. PICK n \in 0 .. coming[c] : coming' = [coming EXCEPT ![c] = n]  BY <2>4 DEF Die
    <3>2. cst' = [cst EXCEPT ![c] = "dead"] /\ UNCHANGED <<cheader, cbuffer>>  BY <2>4 DEF Die
    <3>3. n \in Nat /\ n <= coming[c]  BY <1>2
    <3> QED  BY <1>2, <3>1, <3>2, <3>3 DEF ClientPlaces
  <2> QED  BY <2>1, <2>2, <2>3, <2>4
<1>5. TypeOK'  BY <1>1, <1>4, SameQueue DEF TypeOK
<1>6. Connected' = Connected  BY <1>1, <1>4 DEF Connected
<1>7. OnceEach' /\ OnePlace' /\ SomePlace'  BY <1>1, <1>6, SameHolders
<1>8. Holding' /\ HandledOnce' /\ PacketsWhole'
  BY <1>1, SameHandled, SamePackets DEF Holding
<1>9. RequestBytes'
  <2>1. ASSUME NEW d \in Clients  PROVE coming'[d] <= FrameLength(Request[d])
    <3>1. /\ coming'[d] \in Nat /\ coming[d] \in Nat /\ coming'[d] <= coming[d]
          /\ FrameLength(Request[d]) \in Nat
      BY <1>2, <1>4, MessageSizes
    <3>2. coming[d] <= FrameLength(Request[d])  BY DEF RequestBytes
    <3> QED  BY <3>1, <3>2
  <2>2. accpc \in {"header", "rest"} => header + buffer + coming'[cfd] <= FrameLength(Request[cfd])
    <3> SUFFICES ASSUME accpc \in {"header", "rest"}
                 PROVE  header + buffer + coming'[cfd] <= FrameLength(Request[cfd])
      OBVIOUS
    <3>1. cfd \in Clients  BY DEF Holding
    <3>2. /\ header \in Nat /\ buffer \in Nat /\ coming[cfd] \in Nat /\ coming'[cfd] \in Nat
          /\ coming'[cfd] <= coming[cfd] /\ FrameLength(Request[cfd]) \in Nat
      BY <1>2, <1>4, <3>1, MessageSizes DEF TypeOK
    <3>3. header + buffer + coming[cfd] <= FrameLength(Request[cfd])  BY DEF RequestBytes
    <3> QED  BY <3>2, <3>3
  <2> QED  BY <1>1, <2>1, <2>2 DEF RequestBytes
<1>10. ReplyBytes'  BY <1>4 DEF ReplyBytes
<1> QED  BY <1>1, <1>5, <1>7, <1>8, <1>9, <1>10

-----------------------------------------------------------------------------
(* Steps of the accept thread                                               *)

\* What is left of a sequence without repetitions when its first element goes.
LEMMA TailDistinct ==
  ASSUME NEW S, NEW s \in Seq(S), s # <<>>
  PROVE  /\ Tail(s) \in Seq(S) /\ Head(s) \in S /\ Len(Tail(s)) = Len(s) - 1 /\ Len(s) \in Nat \ {0}
         /\ DOMAIN Tail(s) = 1 .. Len(s) - 1 /\ DOMAIN s = 1 .. Len(s) /\ Head(s) = s[1]
         /\ \A i \in DOMAIN Tail(s) : i + 1 \in DOMAIN s /\ Tail(s)[i] = s[i + 1]
         /\ \A i \in DOMAIN s : i # 1 => i - 1 \in DOMAIN Tail(s) /\ Tail(s)[i - 1] = s[i]
<1>1. /\ Tail(s) \in Seq(S) /\ Head(s) \in S /\ Len(Tail(s)) = Len(s) - 1 /\ Len(s) \in Nat \ {0}
      /\ DOMAIN Tail(s) = 1 .. Len(s) - 1 /\ DOMAIN s = 1 .. Len(s) /\ Head(s) = s[1]
      /\ \A i \in 1 .. Len(s) - 1 : Tail(s)[i] = s[i + 1]
  OBVIOUS
<1> QED  BY <1>1

LEMMA AcceptNext ==
  ASSUME ServerInv, Accept
  PROVE  ServerInv'
<1> USE DEF ServerInv
<1>1. /\ accpc = "accept" /\ cfd = NoClient
      /\ UNCHANGED <<m_isDone, listening, header, buffer, rpc, packet, handled, opc, cst, cheader, cbuffer,
                     coming, answered, m_tasks, m_size, m_abort, cpc, apc, popped>>
  BY DEF Accept, Holding, readerVars, clientVars, queueVars
<1>2. HandledOnce' /\ PacketsWhole' /\ ReplyBytes' /\ Queue!TypeOK' /\ m_size' = Len(m_tasks') /\ Connected' = Connected
  BY <1>1, SameHandled, SamePackets, SameQueue DEF ReplyBytes, Connected
<1>3. CASE accpc' = "exit" /\ UNCHANGED <<backlog, cfd>>
  <2>1. TypeOK'  BY <1>1, <1>2, <1>3 DEF TypeOK, AcceptPlaces
  <2>2. OnceEach' /\ OnePlace' /\ SomePlace'  BY <1>1, <1>2, <1>3, SameHolders
  <2>3. Holding' /\ RequestBytes'  BY <1>1, <1>3 DEF Holding, RequestBytes
  <2> QED  BY <1>2, <2>1, <2>2, <2>3
<1>4. CASE backlog # <<>> /\ accpc' = "check" /\ cfd' = Head(backlog) /\ backlog' = Tail(backlog)
  <2>1. backlog \in Seq(Clients)  BY DEF TypeOK
  <2> DEFINE c == Head(backlog)
  <2>2. /\ backlog' \in Seq(Clients) /\ c \in Clients /\ c = backlog[1]
        /\ DOMAIN backlog = 1 .. Len(backlog) /\ Len(backlog) \in Nat \ {0}
        /\ \A i \in DOMAIN backlog' : i + 1 \in DOMAIN backlog /\ backlog'[i] = backlog[i + 1] /\ i \in Nat \ {0}
        /\ \A i \in DOMAIN backlog : i # 1 => i - 1 \in DOMAIN backlog' /\ backlog'[i - 1] = backlog[i]
    BY <1>4, <2>1, TailDistinct
  <2>3. TypeOK'  BY <1>1, <1>2, <1>4, <2>2 DEF TypeOK, AcceptPlaces
  <2>4. \A i, j \in DOMAIN backlog : backlog[i] = backlog[j] => i = j  BY DEF OnceEach
  <2>5. Waiting' = Waiting \ {c} /\ c \in Waiting
    <3>1. c \in Waiting
      <4>1. 1 \in DOMAIN backlog  BY <2>2
      <4>2. backlog[1] \in Waiting  BY <4>1 DEF Waiting
      <4> QED  BY <2>2, <4>2
    <3>2. ASSUME NEW x \in Waiting'  PROVE x \in Waiting \ {c}
      <4>1. PICK i \in DOMAIN backlog' : x = backlog'[i]  BY DEF Waiting
      <4>2. i + 1 \in DOMAIN backlog /\ x = backlog[i + 1] /\ i + 1 # 1 /\ 1 \in DOMAIN backlog
        BY <2>2, <4>1
      <4> QED  BY <2>2, <2>4, <4>2 DEF Waiting
    <3>3. ASSUME NEW x \in Waiting \ {c}  PROVE x \in Waiting'
      <4>1. PICK i \in DOMAIN backlog : x = backlog[i]  BY DEF Waiting
      <4>2. i # 1  BY <2>2, <4>1
      <4> QED  BY <2>2, <4>1, <4>2 DEF Waiting
    <3> QED  BY <3>1, <3>2, <3>3
  <2>6. \A i, j \in DOMAIN backlog' : backlog'[i] = backlog'[j] => i = j
    <3> SUFFICES ASSUME NEW i \in DOMAIN backlog', NEW j \in DOMAIN backlog', backlog'[i] = backlog'[j]
                 PROVE  i = j
      OBVIOUS
    <3>1. i + 1 = j + 1 /\ i \in Nat /\ j \in Nat  BY <2>2, <2>4
    <3> QED  BY <3>1
  <2>7. /\ Accepted = {} /\ Accepted' = {c} /\ Queued' = Queued /\ AtReader' = AtReader /\ answered' = answered
    BY <1>1, <1>4, <2>2, ClientsAssumption DEF Accepted, Queued, AtReader
  <2>8. OnceEach'  BY <1>1, <2>6 DEF OnceEach
  <2>9. OnePlace'  BY <2>5, <2>7 DEF OnePlace
  <2>10. SomePlace'  BY <1>2, <2>5, <2>7 DEF SomePlace
  <2>11. Holding' /\ RequestBytes'  BY <1>1, <1>4, <2>2 DEF Holding, RequestBytes
  <2> QED  BY <1>2, <2>3, <2>8, <2>9, <2>10, <2>11
<1> QED  BY <1>3, <1>4 DEF Accept

\* Steps that read, and no connection changes hands.
LEMMA ReadNext ==
  ASSUME ServerInv, CheckDone \/ ReadSome \/ HeaderRead
  PROVE  ServerInv'
<1> USE DEF ServerInv
<1>1. /\ accpc \in {"check", "header", "rest"} /\ cfd \in Clients
      /\ UNCHANGED <<m_isDone, listening, backlog, cfd, rpc, packet, handled, opc, cst, cheader, cbuffer,
                     answered, m_tasks, m_size, m_abort, cpc, apc, popped>>
  BY DEF CheckDone, ReadSome, HeaderRead, Holding, readerVars, clientVars, queueVars
<1>2. HandledOnce' /\ PacketsWhole' /\ ReplyBytes' /\ Queue!TypeOK' /\ m_size' = Len(m_tasks') /\ Connected' = Connected
  BY <1>1, SameHandled, SamePackets, SameQueue DEF ReplyBytes, Connected
<1>3. OnceEach' /\ OnePlace' /\ SomePlace'  BY <1>1, <1>2, SameHolders
<1> DEFINE frame == FrameLength(Request[cfd])
           declared == DeclaredSize(Request[cfd])
<1>4. /\ header \in Nat /\ buffer \in Nat /\ coming \in [Clients -> Nat] /\ coming[cfd] \in Nat
      /\ frame \in Nat /\ declared \in Nat /\ frame <= declared
      /\ coming[cfd] <= frame
      /\ accpc \in {"header", "rest"} => header + buffer + coming[cfd] <= frame
      /\ accpc = "header" => header = 0
      /\ accpc = "rest" => header + buffer <= declared
  <2>1. frame \in Nat /\ declared \in Nat /\ frame \in {declared - 1, declared}  BY <1>1, MessageSizes
  <2> QED  BY <1>1, <2>1 DEF TypeOK, RequestBytes
<1> HIDE DEF frame, declared
<1>5. /\ accpc' \in AcceptPlaces /\ accpc' # "accept" /\ accpc' # "check"
      /\ header' \in Nat /\ buffer' \in Nat /\ coming' \in [Clients -> Nat]
      /\ \A d \in Clients \ {cfd} : coming'[d] = coming[d]
      /\ coming'[cfd] <= frame
      /\ accpc' \in {"header", "rest"} => header' + buffer' + coming'[cfd] <= frame
      /\ accpc' = "header" => header' = 0
      /\ accpc' = "rest" => header' + buffer' <= declared
  <2>1. CASE CheckDone
    <3>1. accpc' \in {"exit", "header"} /\ header' = 0 /\ buffer' = 0 /\ coming' = coming
      BY <2>1 DEF CheckDone
    <3> QED  BY <1>4, <3>1 DEF AcceptPlaces
  <2>2. CASE ReadSome
    <3>1. PICK n \in Chunks(buffer, Wanted, coming[cfd]) :
            buffer' = buffer + n /\ coming' = [coming EXCEPT ![cfd] = @ - n]
      BY <2>2 DEF ReadSome
    <3>2. n \in Nat /\ n <= coming[cfd] /\ n <= Wanted - buffer  BY SizesAssumption DEF Chunks
    <3>3. accpc \in {"header", "rest"} /\ accpc' = accpc /\ header' = header  BY <2>2 DEF ReadSome
    <3>4. accpc = "rest" => Wanted = declared - header  BY DEF Wanted, declared
    <3>5. coming[cfd] - n \in Nat  BY <1>4, <3>2
    <3>6. coming' \in [Clients -> Nat] /\ coming'[cfd] = coming[cfd] - n
          /\ \A d \in Clients \ {cfd} : coming'[d] = coming[d]
      BY <1>1, <1>4, <3>1, <3>5
    <3>7. accpc = "rest" => header + (buffer + n) <= declared  BY <1>4, <3>2, <3>4
    <3>8. header + (buffer + n) + (coming[cfd] - n) <= frame /\ coming[cfd] - n <= frame
          /\ buffer + n \in Nat
      BY <1>4, <3>2, <3>3
    <3> QED  BY <1>4, <3>1, <3>3, <3>6, <3>7, <3>8 DEF AcceptPlaces
  <2>3. CASE HeaderRead
    <3>1. accpc = "header" /\ accpc' = "rest" /\ header' = buffer /\ buffer' = 0 /\ coming' = coming
      BY <2>3 DEF HeaderRead
    <3> QED  BY <1>4, <3>1 DEF AcceptPlaces
  <2> QED  BY <2>1, <2>2, <2>3
<1>6. TypeOK'  BY <1>1, <1>2, <1>5 DEF TypeOK
<1>7. Holding'  BY <1>1, <1>5 DEF Holding
<1>8. RequestBytes'  BY <1>1, <1>5 DEF RequestBytes, frame, declared
<1> QED  BY <1>2, <1>3, <1>6, <1>7, <1>8

\* A notify moves a sleeping reader on, which stays in pop.
LEMMA Notified ==
  ASSUME ServerInv, Queue!NotifyOne
  PROVE  /\ cpc' \in [Readers -> Queue!Places]
         /\ \A r \in Readers : cpc'[r] = "out" <=> cpc[r] = "out"
<1>1. cpc \in [Readers -> Queue!Places]  BY DEF ServerInv, TypeOK, Queue!TypeOK
<1> QED  BY <1>1 DEF Queue!NotifyOne, Queue!ConsumersAt, Queue!Places

LEMMA PushNext ==
  ASSUME ServerInv, PushPacket
  PROVE  ServerInv'
<1> DEFINE pk == [fd |-> cfd, bytes |-> header + buffer]
<1> USE DEF ServerInv
<1>1. /\ accpc = "rest" /\ cfd \in Clients /\ accpc' = "accept" /\ cfd' = NoClient /\ header' = 0 /\ buffer' = 0
      /\ ~ ReadsOn(buffer, Wanted)
      /\ m_tasks' = Append(m_tasks, pk) /\ m_size' = m_size + 1 /\ Queue!NotifyOne
      /\ UNCHANGED <<m_isDone, listening, backlog, rpc, packet, handled, opc, cst, cheader, cbuffer,
                     answered, coming, m_abort, apc, popped>>
  BY DEF PushPacket, Holding, readerVars, clientVars, Queue!Push, Queue!SizeAfterPush
<1>2. HandledOnce' /\ ReplyBytes' /\ Connected' = Connected
  BY <1>1, SameHandled DEF ReplyBytes, Connected
<1>3. /\ header \in Nat /\ buffer \in Nat /\ header + buffer \in Nat
      /\ m_tasks \in Seq(Packets) /\ m_size = Len(m_tasks)
  BY DEF TypeOK, Queue!TypeOK
<1>4. pk \in Packets  BY <1>1, <1>3 DEF Packets
<1> HIDE DEF pk
<1>5. /\ m_tasks' \in Seq(Packets) /\ Len(m_tasks') = Len(m_tasks) + 1 /\ Len(m_tasks) \in Nat
      /\ DOMAIN m_tasks' = DOMAIN m_tasks \union {Len(m_tasks) + 1}
      /\ Len(m_tasks) + 1 \notin DOMAIN m_tasks
      /\ m_tasks'[Len(m_tasks) + 1] = pk
      /\ \A i \in DOMAIN m_tasks : m_tasks'[i] = m_tasks[i]
  BY <1>1, <1>3, <1>4
<1>6. Queue!TypeOK' /\ m_size' = Len(m_tasks')
  BY <1>1, <1>3, <1>5, Notified DEF TypeOK, Queue!TypeOK
<1>7. TypeOK'  BY <1>1, <1>6 DEF TypeOK, AcceptPlaces
<1>8. pk.fd = cfd /\ pk.bytes = header + buffer  BY DEF pk
<1>9. Accepted = {cfd} /\ Accepted' = {}  BY <1>1, ClientsAssumption DEF Accepted
<1>10. cfd \notin Queued  BY <1>9 DEF OnePlace
<1>11. Queued' = Queued \union {cfd}  BY <1>5, <1>8 DEF Queued
<1>12. Waiting' = Waiting /\ AtReader' = AtReader  BY <1>1 DEF Waiting, AtReader
<1>13. OnceEach'
  <2>1. ASSUME NEW i \in DOMAIN m_tasks', NEW j \in DOMAIN m_tasks', m_tasks'[i].fd = m_tasks'[j].fd
        PROVE  i = j
    <3>1. \A x \in DOMAIN m_tasks : m_tasks[x].fd # cfd  BY <1>10 DEF Queued
    <3>2. \A x, y \in DOMAIN m_tasks : m_tasks[x].fd = m_tasks[y].fd => x = y  BY DEF OnceEach
    <3> QED  BY <1>5, <1>8, <2>1, <3>1, <3>2
  <2> QED  BY <1>1, <2>1 DEF OnceEach
<1>14. OnePlace'  BY <1>1, <1>9, <1>11, <1>12 DEF OnePlace
<1>15. SomePlace'  BY <1>1, <1>2, <1>9, <1>11, <1>12 DEF SomePlace
<1>16. Holding'  BY <1>1, Notified DEF Holding
<1>17. RequestBytes'  BY <1>1 DEF RequestBytes
<1>18. Whole(Request[cfd], header + buffer)
  <2>1. ~ (buffer < DeclaredSize(Request[cfd]) - header - 1)  BY <1>1 DEF ReadsOn, Wanted
  <2>2. /\ DeclaredSize(Request[cfd]) \in Nat /\ FrameLength(Request[cfd]) \in Nat /\ coming[cfd] \in Nat
        /\ header + buffer + coming[cfd] <= FrameLength(Request[cfd])
    BY <1>1, MessageSizes DEF RequestBytes, TypeOK
  <2>3. header + buffer >= DeclaredSize(Request[cfd]) - 1 /\ header + buffer <= FrameLength(Request[cfd])
    BY <1>3, <2>1, <2>2
  <2> QED  BY <1>1, <1>3, <2>3, EnoughIsWhole, PayloadsAssumption
<1>19. PacketsWhole'  BY <1>1, <1>5, <1>8, <1>18 DEF PacketsWhole
<1> QED  BY <1>2, <1>6, <1>7, <1>13, <1>14, <1>15, <1>16, <1>17, <1>19

-----------------------------------------------------------------------------
(* Steps of the readers                                                     *)

\* A reader about its queue, with no packet before or after.
LEMMA QueueNext ==
  ASSUME ServerInv, NEW r \in Readers, CallPop(r) \/ Leave(r) \/ PopAborted(r) \/ PopSleeps(r)
  PROVE  ServerInv'
<1> USE DEF ServerInv
<1>1. UNCHANGED <<m_isDone, listening, backlog, accpc, cfd, header, buffer, packet, handled, opc, cst, cheader,
                  cbuffer, coming, answered, m_tasks, m_size, m_abort, apc, popped>>
  BY DEF CallPop, Leave, PopAborted, PopSleeps, OnlyReads, acceptVars, readerVars, clientVars, queueVars,
         Queue!CallPop, Queue!PopAborted, Queue!PopWait, Queue!Block
<1>2. /\ cpc \in [Readers -> Queue!Places] /\ rpc \in [Readers -> ReaderPlaces]
      /\ \A q \in Readers : cpc[q] = "out" <=> rpc[q] # "pop"
  BY DEF TypeOK, Queue!TypeOK, Holding
<1>3. /\ cpc' \in [Readers -> Queue!Places] /\ rpc' \in [Readers -> ReaderPlaces]
      /\ rpc[r] \in {"loop", "pop"} /\ rpc'[r] \in {"loop", "pop", "exit"}
      /\ cpc'[r] = "out" <=> rpc'[r] # "pop"
      /\ \A q \in Readers \ {r} : cpc'[q] = cpc[q] /\ rpc'[q] = rpc[q]
  <2>1. CASE CallPop(r)
    BY <1>2, <2>1 DEF CallPop, Queue!CallPop, Queue!Places, ReaderPlaces
  <2>2. CASE Leave(r)
    BY <1>2, <2>2 DEF Leave, queueVars, ReaderPlaces
  <2>3. CASE PopAborted(r)
    BY <1>2, <2>3 DEF PopAborted, Queue!PopAborted, Queue!Places, ReaderPlaces
  <2>4. CASE PopSleeps(r)
    BY <1>2, <2>4 DEF PopSleeps, Queue!PopWait, Queue!Block, Queue!Places, readerVars, ReaderPlaces
  <2> QED  BY <2>1, <2>2, <2>3, <2>4
<1>4. Queue!TypeOK' /\ m_size' = Len(m_tasks')  BY <1>1, <1>3 DEF TypeOK, Queue!TypeOK
<1>5. TypeOK'  BY <1>1, <1>3, <1>4 DEF TypeOK
<1>6. Connected' = Connected /\ ReplyBytes' /\ RequestBytes'
  BY <1>1 DEF Connected, ReplyBytes, RequestBytes
<1>7. OnceEach' /\ OnePlace' /\ SomePlace'  BY <1>1, <1>6, SameHolders
<1>8. PacketsWhole'  BY <1>1, SamePackets
<1>9. Holding'  BY <1>1, <1>3 DEF Holding
<1>10. HandledOnce'
  <2>1. ASSUME NEW c \in Clients  PROVE Handlers(c, packet', rpc') = Handlers(c, packet, rpc)
    BY <1>1, <1>3 DEF Handlers
  <2> QED  BY <1>1, <2>1 DEF HandledOnce
<1> QED  BY <1>4, <1>5, <1>6, <1>7, <1>8, <1>9, <1>10

\* The first packet goes to a reader.
LEMMA PopPacketNext ==
  ASSUME ServerInv, NEW r \in Readers, PopPacket(r)
  PROVE  ServerInv'
<1> DEFINE pk == Head(m_tasks)
           c == pk.fd
<1> USE DEF ServerInv
<1>1. /\ rpc[r] = "pop" /\ m_tasks # <<>>
      /\ rpc' = [rpc EXCEPT ![r] = "route"] /\ packet' = [packet EXCEPT ![r] = pk]
      /\ popped' = Append(popped, pk) /\ m_tasks' = Tail(m_tasks) /\ m_size' = m_size - 1
      /\ cpc' = [cpc EXCEPT ![r] = "out"]
      /\ UNCHANGED <<m_isDone, listening, backlog, accpc, cfd, header, buffer, handled, opc, cst, cheader,
                     cbuffer, coming, answered, m_abort, apc>>
  BY DEF PopPacket, Queue!PopFront, Queue!RestAfterFront, OnlyReads, acceptVars, clientVars
<1>2. /\ m_tasks \in Seq(Packets) /\ popped \in Seq(Packets) /\ m_size = Len(m_tasks)
      /\ cpc \in [Readers -> Queue!Places] /\ rpc \in [Readers -> ReaderPlaces]
      /\ packet \in [Readers -> Packets \union {NoPacket}]
  BY DEF TypeOK, Queue!TypeOK
<1>3. /\ m_tasks' \in Seq(Packets) /\ pk \in Packets /\ pk = m_tasks[1]
      /\ Len(m_tasks') = Len(m_tasks) - 1
      /\ DOMAIN m_tasks = 1 .. Len(m_tasks) /\ Len(m_tasks) \in Nat \ {0}
      /\ \A i \in DOMAIN m_tasks' : i + 1 \in DOMAIN m_tasks /\ m_tasks'[i] = m_tasks[i + 1] /\ i \in Nat \ {0}
      /\ \A i \in DOMAIN m_tasks : i # 1 => i - 1 \in DOMAIN m_tasks' /\ m_tasks'[i - 1] = m_tasks[i]
  BY <1>1, <1>2, TailDistinct
<1>4. c \in Clients  BY <1>3 DEF Packets
<1>5. 1 \in DOMAIN m_tasks  BY <1>3
<1> HIDE DEF pk
<1>6. /\ popped' \in Seq(Packets) /\ DOMAIN popped' = DOMAIN popped \union {Len(popped) + 1}
      /\ popped'[Len(popped) + 1] = pk /\ \A i \in DOMAIN popped : popped'[i] = popped[i]
  BY <1>1, <1>2, <1>3
<1>7. /\ cpc' \in [Readers -> Queue!Places] /\ rpc' \in [Readers -> ReaderPlaces]
      /\ packet' \in [Readers -> Packets \union {NoPacket}]
      /\ cpc'[r] = "out" /\ rpc'[r] = "route" /\ packet'[r] = pk
      /\ \A q \in Readers \ {r} : cpc'[q] = cpc[q] /\ rpc'[q] = rpc[q] /\ packet'[q] = packet[q]
  BY <1>1, <1>2, <1>3 DEF Queue!Places, ReaderPlaces
<1>8. Queue!TypeOK' /\ m_size' = Len(m_tasks')
  <2>1. m_size' \in Nat /\ m_size' = Len(m_tasks')  BY <1>1, <1>2, <1>3
  <2> QED  BY <1>1, <1>3, <1>6, <1>7, <2>1 DEF TypeOK, Queue!TypeOK
<1>9. TypeOK'  BY <1>1, <1>7, <1>8 DEF TypeOK
<1>10. Connected' = Connected /\ ReplyBytes' /\ RequestBytes'
  BY <1>1 DEF Connected, ReplyBytes, RequestBytes
<1>11. \A i, j \in DOMAIN m_tasks : m_tasks[i].fd = m_tasks[j].fd => i = j  BY DEF OnceEach
<1>12. Queued' = Queued \ {c} /\ c \in Queued
  <2>1. c \in Queued
    <3>1. m_tasks[1].fd \in Queued  BY <1>5 DEF Queued
    <3> QED  BY <1>3, <3>1
  <2>2. ASSUME NEW x \in Queued'  PROVE x \in Queued \ {c}
    <3>1. PICK i \in DOMAIN m_tasks' : x = m_tasks'[i].fd  BY DEF Queued
    <3>2. i + 1 \in DOMAIN m_tasks /\ x = m_tasks[i + 1].fd /\ i + 1 # 1  BY <1>3, <3>1
    <3>3. x # c  BY <1>3, <1>5, <1>11, <3>2
    <3> QED  BY <3>2, <3>3 DEF Queued
  <2>3. ASSUME NEW x \in Queued \ {c}  PROVE x \in Queued'
    <3>1. PICK i \in DOMAIN m_tasks : x = m_tasks[i].fd  BY DEF Queued
    <3>2. i # 1  BY <1>3, <3>1
    <3>3. i - 1 \in DOMAIN m_tasks' /\ m_tasks'[i - 1].fd = x  BY <1>3, <3>1, <3>2
    <3> QED  BY <3>3 DEF Queued
  <2> QED  BY <2>1, <2>2, <2>3
<1>13. \A i, j \in DOMAIN m_tasks' : m_tasks'[i].fd = m_tasks'[j].fd => i = j
  <2> SUFFICES ASSUME NEW i \in DOMAIN m_tasks', NEW j \in DOMAIN m_tasks', m_tasks'[i].fd = m_tasks'[j].fd
               PROVE  i = j
    OBVIOUS
  <2>1. i + 1 = j + 1 /\ i \in Nat /\ j \in Nat  BY <1>3, <1>11
  <2> QED  BY <2>1
<1>14. packet[r].fd = NoClient  BY <1>1 DEF Holding
<1>15. AtReader' = AtReader \union {c}
  <2>1. c # NoClient  BY <1>4, ClientsAssumption
  <2> QED  BY <1>7, <1>14, <2>1 DEF AtReader
<1>16. c \notin AtReader  BY <1>12 DEF OnePlace
<1>17. Waiting' = Waiting /\ Accepted' = Accepted /\ answered' = answered
  BY <1>1 DEF Waiting, Accepted
<1>18. OnceEach'
  <2>1. ASSUME NEW q \in Readers, NEW p \in Readers, packet'[q].fd = packet'[p].fd, packet'[q].fd # NoClient
        PROVE  q = p
    <3>1. \A x \in Readers : packet[x].fd # c  BY <1>4, <1>16, ClientsAssumption DEF AtReader
    <3>2. \A x, y \in Readers : packet[x].fd = packet[y].fd /\ packet[x].fd # NoClient => x = y
      BY DEF OnceEach
    <3> QED  BY <1>7, <2>1, <3>1, <3>2
  <2> QED  BY <1>1, <1>13, <2>1 DEF OnceEach
<1>19. OnePlace'  BY <1>12, <1>15, <1>17 DEF OnePlace
<1>20. SomePlace'  BY <1>10, <1>12, <1>15, <1>17 DEF SomePlace
<1>21. Holding'
  <2>1. pk.fd # NoClient  BY <1>4, ClientsAssumption
  <2> QED  BY <1>1, <1>7, <2>1 DEF Holding
<1>22. HandledOnce'
  <2>1. ASSUME NEW d \in Clients  PROVE Handlers(d, packet', rpc') = Handlers(d, packet, rpc)
    BY <1>1, <1>7 DEF Handlers
  <2> QED  BY <1>1, <2>1 DEF HandledOnce
<1>23. PacketsWhole'
  <2>1. Whole(Request[c], pk.bytes)
    <3>1. Whole(Request[m_tasks[1].fd], m_tasks[1].bytes)  BY <1>5 DEF PacketsWhole
    <3> QED  BY <1>3, <3>1
  <2>2. \A i \in DOMAIN m_tasks' : Whole(Request[m_tasks'[i].fd], m_tasks'[i].bytes)
    BY <1>3 DEF PacketsWhole
  <2> QED  BY <1>6, <2>1, <2>2 DEF PacketsWhole
<1> QED  BY <1>8, <1>9, <1>10, <1>18, <1>19, <1>20, <1>21, <1>22, <1>23

\* The handler runs for a connection no other reader has.
LEMMA RouteNext ==
  ASSUME ServerInv, NEW r \in Readers, Route(r)
  PROVE  ServerInv'
<1> DEFINE c == packet[r].fd
<1> USE DEF ServerInv
<1>1. /\ rpc[r] = "route" /\ handled' = [handled EXCEPT ![c] = @ + 1]
      /\ rpc' = [rpc EXCEPT ![r] = "respond"]
      /\ UNCHANGED <<m_isDone, listening, backlog, accpc, cfd, header, buffer, packet, opc, cst, cheader,
                     cbuffer, coming, answered, m_tasks, m_size, m_abort, cpc, apc, popped>>
  BY DEF Route, OnlyReads, acceptVars, clientVars, queueVars
<1>2. /\ rpc \in [Readers -> ReaderPlaces] /\ handled \in [Clients -> Nat]
      /\ packet \in [Readers -> Packets \union {NoPacket}]
  BY DEF TypeOK
<1>3. c \in Clients /\ c # NoClient
  <2>1. c # NoClient  BY <1>1 DEF Holding
  <2> QED  BY <1>2, <2>1 DEF Packets, NoPacket
<1>4. /\ rpc' \in [Readers -> ReaderPlaces] /\ rpc'[r] = "respond"
      /\ \A q \in Readers \ {r} : rpc'[q] = rpc[q]
  BY <1>1, <1>2 DEF ReaderPlaces
<1>5. /\ handled' \in [Clients -> Nat] /\ handled'[c] = handled[c] + 1
      /\ \A d \in Clients \ {c} : handled'[d] = handled[d]
  BY <1>1, <1>2, <1>3
<1>6. Queue!TypeOK' /\ m_size' = Len(m_tasks')  BY <1>1, SameQueue
<1>7. TypeOK'  BY <1>1, <1>4, <1>5, <1>6 DEF TypeOK
<1>8. Connected' = Connected /\ ReplyBytes' /\ RequestBytes'
  BY <1>1 DEF Connected, ReplyBytes, RequestBytes
<1>9. OnceEach' /\ OnePlace' /\ SomePlace'  BY <1>1, <1>8, SameHolders
<1>10. PacketsWhole'  BY <1>1, SamePackets
<1>11. Holding'  BY <1>1, <1>4 DEF Holding
<1>12. HandledOnce'
  <2>1. c \in AtReader  BY <1>3 DEF AtReader
  <2>2. c \notin answered  BY <2>1 DEF OnePlace
  <2>3. Handlers(c, packet, rpc) = {}
    <3>1. \A q \in Readers : packet[q].fd = c => q = r  BY <1>3 DEF OnceEach
    <3> QED  BY <1>1, <3>1 DEF Handlers
  <2>4. handled[c] = 0  BY <1>3, <2>2, <2>3 DEF HandledOnce
  <2>5. r \in Handlers(c, packet', rpc')  BY <1>1, <1>4 DEF Handlers
  <2>6. ASSUME NEW d \in Clients \ {c}  PROVE Handlers(d, packet', rpc') = Handlers(d, packet, rpc)
    BY <1>1, <1>4 DEF Handlers
  <2>7. ASSUME NEW d \in Clients
        PROVE  handled'[d] = IF d \in answered' \/ Handlers(d, packet', rpc') # {} THEN 1 ELSE 0
    <3>1. CASE d = c  BY <1>1, <1>3, <1>5, <2>4, <2>5, <3>1
    <3>2. CASE d # c
      <4>1. handled[d] = IF d \in answered \/ Handlers(d, packet, rpc) # {} THEN 1 ELSE 0
        BY DEF HandledOnce
      <4> QED  BY <1>1, <1>5, <2>6, <3>2, <4>1
    <3> QED  BY <3>1, <3>2
  <2> QED  BY <2>7 DEF HandledOnce
<1> QED  BY <1>6, <1>7, <1>8, <1>9, <1>10, <1>11, <1>12

\* The process ends: what a connection is held by stays, but those nobody accepted are reset.
LEMMA ThrowNext ==
  ASSUME ServerInv, NEW r \in Readers, Throw(r)
  PROVE  ServerInv'
<1> USE DEF ServerInv
<1>1. /\ opc' = "terminated" /\ listening' = FALSE /\ backlog' = <<>>
      /\ \A c \in Clients : /\ Waits(c) => cst'[c] = "reset"
                            /\ ~Waits(c) => cst'[c] = cst[c] \/ (cst'[c] = "cut" /\ cst[c] = "header")
      /\ cst' = [c \in Clients |-> cst'[c]]
      /\ UNCHANGED <<m_isDone, accpc, cfd, header, buffer, rpc, packet, handled, cheader, cbuffer, coming,
                     answered, m_tasks, m_size, m_abort, cpc, apc, popped>>
  BY DEF Throw, acceptVars, readerVars, queueVars
<1>2. Queue!TypeOK' /\ m_size' = Len(m_tasks')  BY <1>1, SameQueue
<1>3. \A c \in Clients : Waits(c) <=> c \in Waiting  BY DEF Waits, Waiting
<1>4. cst' \in [Clients -> ClientPlaces]
  <2>1. cst \in [Clients -> ClientPlaces] /\ "reset" \in ClientPlaces /\ "cut" \in ClientPlaces
    BY DEF TypeOK, ClientPlaces
  <2>2. \A c \in Clients : cst'[c] \in ClientPlaces  BY <1>1, <2>1
  <2> QED  BY <1>1, <2>2
<1>5. TypeOK'
  <2>1. backlog' \in Seq(Clients)  BY <1>1
  <2> QED  BY <1>1, <1>2, <1>4, <2>1 DEF TypeOK, OwnerPlaces
<1>6. Waiting' = {}  BY <1>1 DEF Waiting
<1>7. Accepted' = Accepted /\ Queued' = Queued /\ AtReader' = AtReader /\ answered' = answered
  BY <1>1 DEF Accepted, Queued, AtReader
<1>8. Connected' = Connected \ Waiting  BY <1>1, <1>3 DEF Connected
<1>9. OnceEach'  BY <1>1 DEF OnceEach
<1>10. OnePlace'  BY <1>6, <1>7 DEF OnePlace
<1>11. SomePlace'  BY <1>6, <1>7, <1>8 DEF SomePlace, OnePlace
<1>12. Holding' /\ HandledOnce' /\ PacketsWhole' /\ RequestBytes'
  BY <1>1, SameHandled, SamePackets DEF Holding, RequestBytes
<1>13. ReplyBytes'  BY <1>1 DEF ReplyBytes
<1> QED  BY <1>2, <1>5, <1>9, <1>10, <1>11, <1>12, <1>13

\* The connection is closed with its answer.
LEMMA RespondNext ==
  ASSUME ServerInv, NEW r \in Readers, Respond(r)
  PROVE  ServerInv'
<1> DEFINE c == packet[r].fd
<1> USE DEF ServerInv
<1>1. /\ rpc[r] = "respond" /\ answered' = answered \union {c}
      /\ packet' = [packet EXCEPT ![r] = NoPacket] /\ rpc' = [rpc EXCEPT ![r] = "loop"]
      /\ UNCHANGED <<m_isDone, listening, backlog, accpc, cfd, header, buffer, handled, opc, cst, cheader,
                     cbuffer, coming, m_tasks, m_size, m_abort, cpc, apc, popped>>
  BY DEF Respond, OnlyReads, acceptVars, clientVars, queueVars
<1>2. /\ rpc \in [Readers -> ReaderPlaces] /\ answered \subseteq Clients
      /\ packet \in [Readers -> Packets \union {NoPacket}]
  BY DEF TypeOK
<1>3. c \in Clients /\ c # NoClient
  <2>1. c # NoClient  BY <1>1 DEF Holding
  <2> QED  BY <1>2, <2>1 DEF Packets, NoPacket
<1>4. /\ rpc' \in [Readers -> ReaderPlaces] /\ rpc'[r] = "loop"
      /\ packet' \in [Readers -> Packets \union {NoPacket}] /\ packet'[r] = NoPacket
      /\ \A q \in Readers \ {r} : rpc'[q] = rpc[q] /\ packet'[q] = packet[q]
  BY <1>1, <1>2 DEF ReaderPlaces
<1>5. Queue!TypeOK' /\ m_size' = Len(m_tasks')  BY <1>1, SameQueue
<1>6. answered' \in SUBSET Clients  BY <1>1, <1>2, <1>3
<1>7. TypeOK'  BY <1>1, <1>4, <1>5, <1>6 DEF TypeOK
<1>8. Connected' = Connected /\ ReplyBytes' /\ RequestBytes'
  BY <1>1 DEF Connected, ReplyBytes, RequestBytes
<1>9. PacketsWhole'  BY <1>1, SamePackets
<1>10. Holding'  BY <1>1, <1>4 DEF Holding, NoPacket
<1>11. \A q \in Readers : packet[q].fd = c => q = r  BY <1>3 DEF OnceEach
<1>12. AtReader' = AtReader \ {c} /\ c \in AtReader
  BY <1>3, <1>4, <1>11 DEF AtReader, NoPacket
<1>13. Waiting' = Waiting /\ Accepted' = Accepted /\ Queued' = Queued
  BY <1>1 DEF Waiting, Accepted, Queued
<1>14. OnceEach'
  <2>1. \A q, p \in Readers : packet'[q].fd = packet'[p].fd /\ packet'[q].fd # NoClient => q = p
    BY <1>4 DEF OnceEach, NoPacket
  <2> QED  BY <1>1, <2>1 DEF OnceEach
<1>15. OnePlace'  BY <1>1, <1>12, <1>13 DEF OnePlace
<1>16. SomePlace'  BY <1>1, <1>8, <1>12, <1>13 DEF SomePlace
<1>17. HandledOnce'
  <2>1. r \in Handlers(c, packet, rpc)  BY <1>1 DEF Handlers
  <2>2. ASSUME NEW d \in Clients \ {c}  PROVE Handlers(d, packet', rpc') = Handlers(d, packet, rpc)
    BY <1>4, <1>1 DEF Handlers, NoPacket
  <2>3. ASSUME NEW d \in Clients
        PROVE  handled'[d] = IF d \in answered' \/ Handlers(d, packet', rpc') # {} THEN 1 ELSE 0
    <3>1. handled[d] = IF d \in answered \/ Handlers(d, packet, rpc) # {} THEN 1 ELSE 0
      BY DEF HandledOnce
    <3>2. CASE d = c  BY <1>1, <2>1, <3>1, <3>2
    <3>3. CASE d # c  BY <1>1, <2>2, <3>1, <3>3
    <3> QED  BY <3>2, <3>3
  <2> QED  BY <2>3 DEF HandledOnce
<1> QED  BY <1>5, <1>7, <1>8, <1>9, <1>10, <1>14, <1>15, <1>16, <1>17

-----------------------------------------------------------------------------
(* Steps of main                                                            *)

\* Connections nobody accepted are reset; everything else stays where it is.
LEMMA CloseSocketNext ==
  ASSUME ServerInv, CloseSocket
  PROVE  ServerInv'
<1> USE DEF ServerInv
<1>1. /\ opc' = "joinAccept" /\ listening' = FALSE /\ backlog' = <<>>
      /\ cst' = [c \in Clients |-> IF Waits(c) THEN "reset" ELSE cst[c]]
      /\ UNCHANGED <<m_isDone, accpc, cfd, header, buffer, rpc, packet, handled, cheader, cbuffer, coming,
                     answered, m_tasks, m_size, m_abort, cpc, apc, popped>>
  BY DEF CloseSocket, OnlyShuts, acceptVars, readerVars, queueVars
<1>2. Queue!TypeOK' /\ m_size' = Len(m_tasks')  BY <1>1, SameQueue
<1>3. cst \in [Clients -> ClientPlaces]  BY DEF TypeOK
<1>4. /\ cst' \in [Clients -> ClientPlaces]
      /\ \A c \in Clients : cst'[c] = IF c \in Waiting THEN "reset" ELSE cst[c]
  BY <1>1, <1>3 DEF ClientPlaces, Waiting, Waits
<1>5. TypeOK'
  <2>1. backlog' \in Seq(Clients)  BY <1>1
  <2> QED  BY <1>1, <1>2, <1>4, <2>1 DEF TypeOK, OwnerPlaces
<1>6. Waiting' = {}  BY <1>1 DEF Waiting
<1>7. Accepted' = Accepted /\ Queued' = Queued /\ AtReader' = AtReader /\ answered' = answered
  BY <1>1 DEF Accepted, Queued, AtReader
<1>8. Connected' = Connected \ Waiting  BY <1>4 DEF Connected
<1>9. OnceEach'  BY <1>1 DEF OnceEach
<1>10. OnePlace'  BY <1>6, <1>7 DEF OnePlace
<1>11. SomePlace'  BY <1>6, <1>7, <1>8 DEF SomePlace, OnePlace
<1>12. Holding' /\ HandledOnce' /\ PacketsWhole' /\ RequestBytes'
  BY <1>1, SameHandled, SamePackets DEF Holding, RequestBytes
<1>13. ReplyBytes'  BY <1>1, <1>4 DEF ReplyBytes
<1> QED  BY <1>2, <1>5, <1>9, <1>10, <1>11, <1>12, <1>13

\* main's other steps.
LEMMA MainNext ==
  ASSUME ServerInv, ShutDown \/ JoinAccept \/ SignalAbort \/ JoinReaders
  PROVE  ServerInv'
<1> USE DEF ServerInv
<1>1. /\ opc' \in OwnerPlaces /\ m_isDone' \in BOOLEAN
      /\ UNCHANGED <<listening, backlog, accpc, cfd, header, buffer, rpc, packet, handled, cst, cheader,
                     cbuffer, coming, answered, m_tasks, m_size, popped>>
  BY DEF ShutDown, JoinAccept, SignalAbort, JoinReaders, OnlyShuts, acceptVars, readerVars, queueVars,
         Queue!AbortStore, Queue!AbortNotify, OwnerPlaces, TypeOK
<1>2. /\ cpc \in [Readers -> Queue!Places] /\ apc \in {"before", "store", "after"} /\ m_abort \in BOOLEAN
  BY DEF TypeOK, Queue!TypeOK
<1>3. /\ cpc' \in [Readers -> Queue!Places] /\ apc' \in {"before", "store", "after"} /\ m_abort' \in BOOLEAN
      /\ \A r \in Readers : cpc'[r] = "out" <=> cpc[r] = "out"
  BY <1>2 DEF ShutDown, JoinAccept, SignalAbort, JoinReaders, queueVars,
              Queue!AbortStore, Queue!AbortNotify, Queue!NotifyAll, Queue!Places
<1>4. Queue!TypeOK' /\ m_size' = Len(m_tasks')  BY <1>1, <1>3 DEF TypeOK, Queue!TypeOK
<1>5. TypeOK'  BY <1>1, <1>4 DEF TypeOK
<1>6. Connected' = Connected /\ ReplyBytes' /\ RequestBytes'
  BY <1>1 DEF Connected, ReplyBytes, RequestBytes
<1>7. OnceEach' /\ OnePlace' /\ SomePlace'  BY <1>1, <1>6, SameHolders
<1>8. HandledOnce' /\ PacketsWhole'  BY <1>1, SameHandled, SamePackets
<1>9. Holding'  BY <1>1, <1>3 DEF Holding
<1> QED  BY <1>4, <1>5, <1>6, <1>7, <1>8, <1>9

-----------------------------------------------------------------------------
(* The theorems                                                             *)

LEMMA ServerInitInv ==
  ASSUME Init PROVE ServerInv
<1>1. Queue!TypeOK /\ m_size = Len(m_tasks)
  <2>1. Queue!Init  BY DEF Init
  <2>2. cpc \in [Readers -> Queue!Places]  BY <2>1 DEF Queue!Init, Queue!Places
  <2>3. m_tasks = <<>> /\ popped = <<>> /\ m_size = 0 /\ m_abort = FALSE /\ apc = "before"
    BY <2>1 DEF Queue!Init
  <2>4. <<>> \in Seq(Packets) /\ Len(<<>>) = 0  OBVIOUS
  <2> QED  BY <2>2, <2>3, <2>4 DEF Queue!TypeOK
<1>2. TypeOK
  <2>1. <<>> \in Seq(Clients)  OBVIOUS
  <2>2. /\ rpc \in [Readers -> ReaderPlaces] /\ packet \in [Readers -> Packets \union {NoPacket}]
        /\ cst \in [Clients -> ClientPlaces] /\ coming \in [Clients -> Nat] /\ cheader \in [Clients -> Nat]
        /\ cbuffer \in [Clients -> Nat] /\ handled \in [Clients -> Nat]
    BY DEF Init, ReaderPlaces, ClientPlaces
  <2>3. /\ m_isDone \in BOOLEAN /\ listening \in BOOLEAN /\ backlog = <<>> /\ accpc \in AcceptPlaces
        /\ cfd = NoClient /\ header = 0 /\ buffer = 0 /\ opc \in OwnerPlaces /\ answered = {}
    BY DEF Init, AcceptPlaces, OwnerPlaces
  <2> QED  BY <1>1, <2>1, <2>2, <2>3 DEF TypeOK
<1>3. Waiting = {} /\ Accepted = {} /\ Queued = {} /\ AtReader = {} /\ answered = {} /\ Connected = {}
  BY DEF Init, Queue!Init, Waiting, Accepted, Queued, AtReader, Connected, NoPacket
<1>4. OnceEach  BY DEF Init, Queue!Init, OnceEach, NoPacket
<1>5. OnePlace /\ SomePlace  BY <1>3 DEF OnePlace, SomePlace
<1>6. Holding  BY DEF Init, Queue!Init, Holding, NoPacket
<1>7. HandledOnce  BY DEF Init, HandledOnce, Handlers
<1>8. RequestBytes
  <2>1. \A c \in Clients : coming[c] = 0  BY DEF Init
  <2> QED  BY <2>1, MessageSizes DEF Init, RequestBytes
<1>9. ReplyBytes  BY DEF Init, ReplyBytes
<1>10. PacketsWhole  BY DEF Init, Queue!Init, PacketsWhole
<1> QED  BY <1>1, <1>2, <1>4, <1>5, <1>6, <1>7, <1>8, <1>9, <1>10 DEF ServerInv

LEMMA ServerNextInv ==
  ASSUME ServerInv, [Next]_vars
  PROVE  ServerInv'
<1>1. CASE UNCHANGED vars
  <2>1. UNCHANGED <<m_isDone, listening, backlog, accpc, cfd, header, buffer, rpc, packet, handled, opc, cst,
                    cheader, cbuffer, coming, answered, m_tasks, m_size, m_abort, cpc, apc, popped>>
    BY <1>1 DEF vars, acceptVars, readerVars, clientVars, queueVars
  <2>2. Connected' = Connected /\ ReplyBytes' /\ RequestBytes' /\ Holding'
    BY <2>1 DEF ServerInv, Connected, ReplyBytes, RequestBytes, Holding
  <2>3. TypeOK' /\ m_size' = Len(m_tasks')  BY <2>1, SameQueue DEF ServerInv, TypeOK
  <2> QED  BY <2>1, <2>2, <2>3, SameHolders, SameHandled, SamePackets DEF ServerInv
<1>2. ASSUME NEW c \in Clients, Connect(c) \/ ClientStep(c) \/ Die(c)  PROVE ServerInv'
  BY <1>2, ConnectNext, ClientNext DEF ClientStep
<1>3. CASE AcceptStep  BY <1>3, AcceptNext, ReadNext, PushNext DEF AcceptStep
<1>4. ASSUME NEW r \in Readers, ReaderStep(r)  PROVE ServerInv'
  BY <1>4, QueueNext, PopPacketNext, RouteNext, ThrowNext, RespondNext DEF ReaderStep
<1>5. CASE ShutDown \/ MainStep  BY <1>5, CloseSocketNext, MainNext DEF MainStep
<1> QED  BY <1>1, <1>2, <1>3, <1>4, <1>5 DEF Next

LEMMA ServerInvHolds == Spec => []ServerInv
<1>1. Init => ServerInv  BY ServerInitInv
<1>2. ServerInv /\ [Next]_vars => ServerInv'  BY ServerNextInv
<1> QED  BY <1>1, <1>2, PTL DEF Spec

\* The threads of the server and its clients stay where their code has them, the bytes they count
\* do not fall below zero, and what is in m_queue is always a packet.
THEOREM ServerTypes == Spec => []TypeOK
<1>1. ServerInv => TypeOK  BY DEF ServerInv
<1> QED  BY <1>1, ServerInvHolds, PTL

\* How often x is in a sequence or set that has nothing twice.
LEMMA CountOnce ==
  ASSUME NEW S, \A i, j \in S : i = j
  PROVE  Cardinality(S) = IF S = {} THEN 0 ELSE 1
<1>1. CASE S = {}  BY <1>1, FS_EmptySet
<1>2. CASE S # {}
  <2>1. PICK x \in S : S = {x}  BY <1>2
  <2> QED  BY <1>2, <2>1, FS_Singleton
<1> QED  BY <1>1, <1>2

\* A connection is in one place at a time and none is forgotten, and no request runs twice, however
\* the accept thread, the readers, the clients and shutDown take turns.
THEOREM OneHolderEach == Spec => []OneHolder
<1>1. ServerInv => OneHolder
  <2> SUFFICES ASSUME ServerInv, NEW c \in Clients
               PROVE  /\ HoldersOf(c) = IF cst[c] \in {"idle", "refused", "reset"} THEN 0 ELSE 1
                      /\ handled[c] <= 1
                      /\ c \in answered => handled[c] = 1
    BY DEF OneHolder
  <2> USE DEF ServerInv
  <2> DEFINE B == {i \in DOMAIN backlog : backlog[i] = c}
             T == {i \in DOMAIN m_tasks : m_tasks[i].fd = c}
             R == {r \in Readers : packet[r].fd = c}
             A == {x \in {cfd} : x = c}
             D == {x \in answered : x = c}
  <2>0. c # NoClient  BY ClientsAssumption
  <2>1. /\ Cardinality(B) = IF B = {} THEN 0 ELSE 1
        /\ Cardinality(T) = IF T = {} THEN 0 ELSE 1
        /\ Cardinality(R) = IF R = {} THEN 0 ELSE 1
        /\ Cardinality(A) = IF A = {} THEN 0 ELSE 1
        /\ Cardinality(D) = IF D = {} THEN 0 ELSE 1
    <3>1. \A i, j \in B : i = j  BY DEF OnceEach
    <3>2. \A i, j \in T : i = j  BY DEF OnceEach
    <3>3. \A i, j \in R : i = j  BY <2>0 DEF OnceEach
    <3>4. \A i, j \in A : i = j  OBVIOUS
    <3>5. \A i, j \in D : i = j  OBVIOUS
    <3> HIDE DEF B, T, R, A, D
    <3> QED  BY <3>1, <3>2, <3>3, <3>4, <3>5, CountOnce
  <2>2. /\ B = {} <=> c \notin Waiting
        /\ T = {} <=> c \notin Queued
        /\ R = {} <=> c \notin AtReader
        /\ A = {} <=> c \notin Accepted
        /\ D = {} <=> c \notin answered
    BY <2>0 DEF Waiting, Queued, AtReader, Accepted
  <2>3. HoldersOf(c) = Cardinality(B) + Cardinality(T) + Cardinality(R) + Cardinality(A) + Cardinality(D)
    BY DEF HoldersOf
  <2> HIDE DEF B, T, R, A, D
  <2>4. cst[c] \in {"idle", "refused", "reset"} <=> c \notin Connected  BY DEF Connected
  <2>5. CASE c \notin Connected
    <3>1. c \notin Waiting /\ c \notin Queued /\ c \notin AtReader /\ c \notin Accepted /\ c \notin answered
      BY <2>5 DEF SomePlace
    <3> QED  BY <2>1, <2>2, <2>3, <2>4, <2>5, <3>1 DEF HandledOnce, Handlers, SomePlace
  <2>6. CASE c \in Connected
    <3>1. HoldersOf(c) = 1
      <4>1. CASE c \in Waiting  BY <2>1, <2>2, <2>3, <4>1 DEF OnePlace
      <4>2. CASE c \in Accepted  BY <2>1, <2>2, <2>3, <4>2 DEF OnePlace
      <4>3. CASE c \in Queued  BY <2>1, <2>2, <2>3, <4>3 DEF OnePlace
      <4>4. CASE c \in AtReader  BY <2>1, <2>2, <2>3, <4>4 DEF OnePlace
      <4>5. CASE c \in answered  BY <2>1, <2>2, <2>3, <4>5 DEF OnePlace
      <4> QED  BY <2>6, <4>1, <4>2, <4>3, <4>4, <4>5 DEF SomePlace
    <3> QED  BY <2>4, <2>6, <3>1 DEF HandledOnce
  <2> QED  BY <2>5, <2>6
<1> QED  BY <1>1, ServerInvHolds, PTL

\* However the stream is cut into chunks, what the server and its clients take for a message has
\* all bytes of its frame but the one that serialize's "+1" allows to be missing.
THEOREM FramesArriveWhole == Spec => []MessagesWhole
<1>1. ServerInv => MessagesWhole  BY DEF ServerInv, MessagesWhole, PacketsWhole, ReplyBytes
<1> QED  BY <1>1, ServerInvHolds, PTL

-----------------------------------------------------------------------------
(* What shutDown leaves behind                                              *)

\* Once the listening socket is closed nothing is in its backlog, and main closes it before
\* it joins anybody; a thread that has ended stays so.
Joined ==
    /\ opc \in {"joinAccept", "abort", "joinReaders", "ended"} => ~listening
    /\ ~listening => backlog = <<>>
    /\ opc \in {"abort", "joinReaders", "ended"} => accpc = "exit"
    /\ opc = "ended" => \A r \in Readers : rpc[r] = "exit"

LEMMA JoinedNext ==
  ASSUME ServerInv, Joined, [Next]_vars
  PROVE  Joined'
<1> USE DEF Joined
<1>1. CASE UNCHANGED vars
  BY <1>1 DEF vars, acceptVars, readerVars
<1>2. ASSUME NEW c \in Clients, Connect(c)  PROVE Joined'
  BY <1>2 DEF Connect, acceptVars, readerVars
<1>3. ASSUME NEW c \in Clients, ClientStep(c) \/ Die(c)  PROVE Joined'
  BY <1>3 DEF ClientStep, ReadReply, ReplyRead, Die, acceptVars, readerVars
<1>4. CASE AcceptStep
  <2>1. UNCHANGED <<opc, listening, rpc>> /\ accpc # "exit"
    BY <1>4 DEF AcceptStep, Accept, CheckDone, ReadSome, HeaderRead, PushPacket, readerVars
  <2>2. backlog' = backlog \/ listening
    BY <1>4 DEF AcceptStep, Accept, CheckDone, ReadSome, HeaderRead, PushPacket
  <2> QED  BY <2>1, <2>2
<1>5. ASSUME NEW r \in Readers, ReaderStep(r)  PROVE Joined'
  <2>1. CASE Throw(r)  BY <2>1 DEF Throw, acceptVars, readerVars
  <2>2. CASE ~Throw(r)
    <3>1. UNCHANGED <<opc, listening, backlog, accpc>> /\ rpc[r] # "exit"
      BY <1>5, <2>2 DEF ReaderStep, CallPop, Leave, PopAborted, PopPacket, PopSleeps, Route, Respond,
                        OnlyReads, acceptVars
    <3>2. opc # "ended"  BY <3>1
    <3> QED  BY <3>1, <3>2
  <2> QED  BY <2>1, <2>2
<1>6. CASE ShutDown \/ MainStep
  BY <1>6 DEF ShutDown, MainStep, CloseSocket, JoinAccept, SignalAbort, JoinReaders, OnlyShuts,
              acceptVars, readerVars
<1> QED  BY <1>1, <1>2, <1>3, <1>4, <1>5, <1>6 DEF Next

\* When shutDown has returned, the connections without an answer are in m_queue, or the one that
\* accept returned too late, and no reader has one (sstub.cpp:60-84).
THEOREM NothingElseLeft == Spec => []LeftByShutDown
<1>1. Init => Joined  BY DEF Init, Joined
<1>2. ServerInv /\ ServerInv' /\ Joined /\ [Next]_vars => Joined'  BY JoinedNext
<1>3. ServerInv /\ Joined => LeftByShutDown
  <2> SUFFICES ASSUME ServerInv, Joined, opc = "ended", NEW c \in Clients,
                      cst[c] \notin {"idle", "refused", "reset"}
               PROVE  \/ c \in answered
                      \/ c = cfd /\ accpc = "exit"
                      \/ \E i \in DOMAIN m_tasks : m_tasks[i].fd = c
    BY DEF LeftByShutDown
  <2>1. c \in Waiting \union Accepted \union Queued \union AtReader \union answered
    BY DEF ServerInv, SomePlace, Connected
  <2>2. backlog = <<>> /\ accpc = "exit" /\ \A r \in Readers : rpc[r] = "exit"  BY DEF Joined
  <2>3. Waiting = {}  BY <2>2 DEF Waiting
  <2>4. AtReader = {}  BY <2>2 DEF AtReader, ServerInv, Holding
  <2> QED  BY <2>1, <2>2, <2>3, <2>4 DEF Accepted, Queued
<1> QED  BY <1>1, <1>2, <1>3, ServerInvHolds, PTL DEF Spec

-----------------------------------------------------------------------------
(* The queue                                                                *)

\* What leaves the contents of m_queue and its flag alone.
LEMMA FifoOfOthers ==
  ASSUME UNCHANGED <<m_tasks, m_abort, popped>>
  PROVE  UNCHANGED Queue!Fifo!fifoVars
BY DEF Queue!Fifo!fifoVars

\* Taking the front of a sequence to the end of another keeps the two together.
LEMMA FrontMoves ==
  ASSUME NEW V, NEW s \in Seq(V), NEW t \in Seq(V), t # <<>>
  PROVE  /\ Len(s) < Len(s \o t)
         /\ (s \o t)[Len(s) + 1] = Head(t)
         /\ Append(s, Head(t)) \o Tail(t) = s \o t
OBVIOUS

\* Each of these is a step of a queue that is first in, first out.
LEMMA FifoOfQueue ==
  ASSUME Queue!TypeOK,
         \/ \E p \in Packets : Queue!Push(p)
         \/ \E r \in Readers : Queue!PopFront(r)
         \/ Queue!AbortStore
  PROVE  Queue!Fifo!Next
<1>0. m_tasks \in Seq(Packets) /\ popped \in Seq(Packets)  BY DEF Queue!TypeOK
<1>1. ASSUME NEW p \in Packets, Queue!Push(p)  PROVE Queue!Fifo!Next
  <2>1. m_tasks' = Append(m_tasks, p) /\ UNCHANGED <<popped, m_abort>>  BY <1>1 DEF Queue!Push
  <2>2. popped \o Append(m_tasks, p) = Append(popped \o m_tasks, p)  BY <1>0
  <2> QED  BY <2>1, <2>2 DEF Queue!Fifo!Next, Queue!Fifo!Send
<1>2. ASSUME NEW r \in Readers, Queue!PopFront(r)  PROVE Queue!Fifo!Next
  <2>1. /\ ~m_abort /\ m_tasks # <<>> /\ m_abort' = m_abort
        /\ popped' = Append(popped, Head(m_tasks)) /\ m_tasks' = Tail(m_tasks)
    BY <1>2 DEF Queue!PopFront, Queue!RestAfterFront
  <2>2. /\ Len(popped) < Len(popped \o m_tasks)
        /\ (popped \o m_tasks)[Len(popped) + 1] = Head(m_tasks)
        /\ Append(popped, Head(m_tasks)) \o Tail(m_tasks) = popped \o m_tasks
    BY <1>0, <2>1, FrontMoves
  <2> QED  BY <2>1, <2>2 DEF Queue!Fifo!Next, Queue!Fifo!Receive
<1>3. CASE Queue!AbortStore  BY <1>3 DEF Queue!AbortStore, Queue!Fifo!Next, Queue!Fifo!Close
<1> QED  BY <1>1, <1>2, <1>3

\* Requests leave m_queue once and in the order in which the accept thread read them, and none
\* after the abort of shutDown: every step of the server is one of FifoChannel or none.
THEOREM QueueIsFifo == Spec => Queue!Fifo!SafeSpec
<1>1. Init => Queue!Fifo!Init  BY DEF Init, Queue!Init, Queue!Fifo!Init
<1>2. ServerInv /\ [Next]_vars => [Queue!Fifo!Next]_(Queue!Fifo!fifoVars)
  <2> SUFFICES ASSUME ServerInv, [Next]_vars PROVE [Queue!Fifo!Next]_(Queue!Fifo!fifoVars)  OBVIOUS
  <2>0. Queue!TypeOK  BY DEF ServerInv, TypeOK
  <2>1. ASSUME NEW c \in Clients, Connect(c) \/ ClientStep(c) \/ Die(c)
        PROVE  UNCHANGED <<m_tasks, m_abort, popped>>
    BY <2>1 DEF Connect, ClientStep, ReadReply, ReplyRead, Die, queueVars
  <2>2. CASE Accept \/ CheckDone \/ ReadSome \/ HeaderRead
    <3>1. UNCHANGED <<m_tasks, m_abort, popped>>
      BY <2>2 DEF Accept, CheckDone, ReadSome, HeaderRead, queueVars
    <3> QED  BY <3>1, FifoOfOthers
  <2>3. CASE PushPacket
    <3>1. [fd |-> cfd, bytes |-> header + buffer] \in Packets
      BY <2>3 DEF PushPacket, ServerInv, TypeOK, Holding, Packets
    <3>2. Queue!Push([fd |-> cfd, bytes |-> header + buffer])  BY <2>3 DEF PushPacket
    <3> QED  BY <2>0, <3>1, <3>2, FifoOfQueue
  <2>4. ASSUME NEW r \in Readers, ReaderStep(r)  PROVE [Queue!Fifo!Next]_(Queue!Fifo!fifoVars)
    <3>1. CASE PopPacket(r)
      <4>1. Queue!PopFront(r)  BY <3>1 DEF PopPacket
      <4> QED  BY <2>0, <4>1, FifoOfQueue
    <3>2. CASE CallPop(r) \/ PopAborted(r) \/ PopSleeps(r)
      <4>1. UNCHANGED <<m_tasks, m_abort, popped>>
        BY <3>2 DEF CallPop, PopAborted, PopSleeps, Queue!CallPop, Queue!PopAborted, Queue!PopWait, Queue!Block
      <4> QED  BY <4>1, FifoOfOthers
    <3>3. CASE Leave(r) \/ Route(r) \/ Throw(r) \/ Respond(r)
      <4>1. UNCHANGED <<m_tasks, m_abort, popped>>  BY <3>3 DEF Leave, Route, Throw, Respond, queueVars
      <4> QED  BY <4>1, FifoOfOthers
    <3> QED  BY <2>4, <3>1, <3>2, <3>3 DEF ReaderStep
  <2>5. CASE ShutDown \/ MainStep
    <3>1. CASE SignalAbort
      <4>1. CASE Queue!AbortStore  BY <2>0, <4>1, FifoOfQueue
      <4>2. CASE Queue!AbortNotify  BY <4>2, FifoOfOthers DEF Queue!AbortNotify
      <4> QED  BY <3>1, <4>1, <4>2 DEF SignalAbort
    <3>2. CASE ShutDown \/ CloseSocket \/ JoinAccept \/ JoinReaders
      <4>1. UNCHANGED <<m_tasks, m_abort, popped>>
        BY <3>2 DEF ShutDown, CloseSocket, JoinAccept, JoinReaders, queueVars
      <4> QED  BY <4>1, FifoOfOthers
    <3> QED  BY <2>5, <3>1, <3>2 DEF MainStep
  <2>6. CASE UNCHANGED vars  BY <2>6, FifoOfOthers DEF vars, queueVars
  <2> QED  BY <2>1, <2>2, <2>3, <2>4, <2>5, <2>6, FifoOfOthers DEF Next, AcceptStep
<1> QED  BY <1>1, <1>2, ServerInvHolds, PTL DEF Spec, Queue!Fifo!SafeSpec
=============================================================================
