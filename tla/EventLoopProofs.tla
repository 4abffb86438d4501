--------------------------- MODULE EventLoopProofs ---------------------------
(***************************************************************************)
(* Proofs about EventLoop: descriptors are used again, and sessions and    *)
(* events that are found by descriptor still belong to the connection they *)
(* were made for.  The inductive invariant adds what the code relies on    *)
(* and never says: a connection waits in the backlog or has a descriptor,  *)
(* not both; a batch names a descriptor once; and the descriptor that is   *)
(* served is open and has no further event in the batch.                   *)
(***************************************************************************)
EXTENDS EventLoop, SequenceTheorems, FiniteSetTheorems, TLAPS

(* A client is in the backlog once, and then not behind a descriptor.      *)
BacklogApart ==
  /\ \A i \in DOMAIN backlog : \A f \in Fd : owner[f] # backlog[i]
  /\ \A i, j \in DOMAIN backlog : backlog[i] = backlog[j] => i = j

(* A batch has one event for each of some open descriptors.                *)
BatchApart ==
  /\ \A i \in DOMAIN batch : batch[i].fd # LISTEN => Open(batch[i].fd)
  /\ \A i, j \in DOMAIN batch : batch[i].fd = batch[j].fd => i = j

Serving == at \in {"read", "reply", "write", "close"}

(* The descriptor served is open, and the batch goes on with others.       *)
ServedOpen ==
  Serving => fd \in Fd /\ Open(fd) /\ \A i \in DOMAIN batch : batch[i].fd # fd

(* Who is in the middle of a packet has room for it.                       *)
BegunFits == \A k \in begun : input[k] < MaxPackets

LoopInv ==
  /\ TypeOK /\ SessionOfConnection /\ EventsFresh
  /\ BacklogApart /\ BatchApart /\ ServedOpen /\ BegunFits

(* The first event, and those after it.                                    *)
LEMMA TailFacts ==
  ASSUME NEW S, NEW s \in Seq(S), s # <<>>
  PROVE  /\ Tail(s) \in Seq(S) /\ Len(Tail(s)) = Len(s) - 1
         /\ Head(s) = s[1] /\ 1 \in DOMAIN s /\ s[1] \in S /\ Len(s) \in Nat
         /\ \A i \in DOMAIN Tail(s) : i \in Nat /\ i # 0 /\ i + 1 \in DOMAIN s
                                      /\ Tail(s)[i] = s[i + 1]
<1>1. Len(s) \in Nat /\ Len(s) > 0 /\ DOMAIN s = 1 .. Len(s)
  BY EmptySeq, LenProperties
<1>2. /\ Tail(s) \in Seq(S) /\ Len(Tail(s)) = Len(s) - 1
      /\ \A i \in 1 .. Len(Tail(s)) : Tail(s)[i] = s[i + 1]
  BY HeadTailProperties
<1>3. DOMAIN Tail(s) = 1 .. Len(s) - 1
  BY <1>2, LenProperties
<1> QED BY <1>1, <1>2, <1>3, ElementOfSeq

(* The part of the batch that is left keeps what is said of its events.    *)
LEMMA RestFacts ==
  ASSUME LoopInv, batch # <<>>
  PROVE  /\ Rest(batch) \in Seq(Event) /\ Len(Rest(batch)) <= EPOLLEVENTS
         /\ Head(batch) = batch[1] /\ 1 \in DOMAIN batch /\ batch[1] \in Event
         /\ \A i \in DOMAIN Rest(batch) :
              /\ Rest(batch)[i].fd # batch[1].fd
              /\ \E k \in DOMAIN batch : Rest(batch)[i] = batch[k]
         /\ \A i, j \in DOMAIN Rest(batch) :
              Rest(batch)[i].fd = Rest(batch)[j].fd => i = j
<1>1. batch \in Seq(Event) /\ Len(batch) <= EPOLLEVENTS
  BY DEF LoopInv, TypeOK
<1> DEFINE t == Tail(batch)
<1>2. /\ t \in Seq(Event) /\ Len(t) = Len(batch) - 1
      /\ Head(batch) = batch[1] /\ 1 \in DOMAIN batch /\ batch[1] \in Event
      /\ Len(batch) \in Nat
      /\ \A i \in DOMAIN t : i \in Nat /\ i # 0 /\ i + 1 \in DOMAIN batch
                             /\ t[i] = batch[i + 1]
  BY <1>1, TailFacts
<1> HIDE DEF t
<1>3. \A i, j \in DOMAIN batch : batch[i].fd = batch[j].fd => i = j
  BY DEF LoopInv, BatchApart
<1>4. ASSUME NEW i \in DOMAIN t
      PROVE  t[i].fd # batch[1].fd /\ \E k \in DOMAIN batch : t[i] = batch[k]
  BY <1>2, <1>3
<1>5. ASSUME NEW i \in DOMAIN t, NEW j \in DOMAIN t, t[i].fd = t[j].fd
      PROVE  i = j
  <2>1. batch[i + 1].fd = batch[j + 1].fd /\ i + 1 \in DOMAIN batch /\ j + 1 \in DOMAIN batch
    BY <1>2, <1>5
  <2>2. i + 1 = j + 1
    BY <1>3, <2>1
  <2> QED BY <1>2, <2>2
<1>6. Len(t) <= EPOLLEVENTS
  BY <1>1, <1>2, LoopAssumption
<1> QED BY <1>2, <1>4, <1>5, <1>6 DEF Rest, t

-----------------------------------------------------------------------------
(* The process                                                             *)

(* Events of a part of the batch that are fresh stay so.                   *)
LEMMA RestFresh ==
  ASSUME LoopInv, batch # <<>>, NEW i \in DOMAIN Rest(batch)
  PROVE  /\ Rest(batch)[i].fd = LISTEN => backlog # <<>>
         /\ Rest(batch)[i].fd # LISTEN =>
              /\ Rest(batch)[i].fd \in Fd /\ Open(Rest(batch)[i].fd)
              /\ owner[Rest(batch)[i].fd] = Rest(batch)[i].conn
              /\ Rest(batch)[i].in => Readable(Rest(batch)[i].conn)
<1>1. PICK k \in DOMAIN batch : Rest(batch)[i] = batch[k]
  BY RestFacts
<1>2. batch[k] \in Event
  BY ElementOfSeq, LenProperties DEF LoopInv, TypeOK
<1> QED BY <1>1, <1>2 DEF LoopInv, EventsFresh, BatchApart, Event

(* Nothing is open, nobody waits.                                          *)
LEMMA InitLoop == Init => LoopInv
<1> SUFFICES ASSUME Init PROVE LoopInv
  OBVIOUS
<1>1. TypeOK
  BY LoopAssumption, EmptySeq DEF Init, TypeOK, Place
<1> QED BY <1>1 DEF Init, LoopInv, SessionOfConnection, EventsFresh, BacklogApart,
                    BatchApart, ServedOpen, Serving, Open, BegunFits

LEMMA HaltLoop == Halt => LoopInv'
<1> SUFFICES ASSUME Halt PROVE LoopInv'
  OBVIOUS
<1>1. TypeOK'
  <2>1. /\ <<>> \in Seq(Event) /\ <<>> \in Seq(Conn) /\ Len(<<>>) = 0
        /\ 0 \in 0 .. MaxQueued /\ 0 \in 0 .. MaxPackets
        /\ 0 <= EPOLLEVENTS /\ 0 <= LISTENQ
    BY LoopAssumption, EmptySeq
  <2>2. running' \in BOOLEAN /\ at' \in Place /\ fd' \in Fd \cup {NONE}
    BY DEF Halt, Place
  <2>3. /\ owner' \in [Fd -> Conn \cup {NONE}] /\ interest' \subseteq Fd
        /\ session' \in [Fd -> Conn \cup {NONE}] /\ queued' \in [Fd -> 0 .. MaxQueued]
        /\ begun' \subseteq Conn /\ eof' \subseteq Conn
        /\ input' \in [Conn -> 0 .. MaxPackets] /\ output' \in [Conn -> 0 .. MaxPackets]
    BY <2>1 DEF Halt
  <2>4. /\ batch' \in Seq(Event) /\ Len(batch') <= EPOLLEVENTS
        /\ backlog' \in Seq(Conn) /\ Len(backlog') <= LISTENQ
    BY <2>1 DEF Halt
  <2> QED BY <2>2, <2>3, <2>4 DEF TypeOK
<1> QED BY <1>1 DEF Halt, LoopInv, SessionOfConnection, EventsFresh, BacklogApart,
                    BatchApart, ServedOpen, Serving, Open, BegunFits

(* epoll_wait reports each ready descriptor once, and as it is.            *)
LEMMA EpollWaitLoop ==
  ASSUME LoopInv, NEW S \in SUBSET (Fd \cup {LISTEN}), EpollWait(S)
  PROVE  LoopInv'
<1>1. PICK order \in SetToSeqs(S) : batch' = [i \in DOMAIN order |-> EventOf(order[i])]
  BY DEF EpollWait
<1>2. Cardinality(S) \in Nat /\ Cardinality(S) <= EPOLLEVENTS
  <2>1. IsFiniteSet(Fd \cup {LISTEN})
    BY LoopAssumption, FS_AddElement
  <2> QED BY <2>1, FS_Subset, FS_CardinalityType DEF EpollWait
<1> DEFINE n == Cardinality(S)
<1>3. /\ DOMAIN order = 1 .. n
      /\ \A i \in 1 .. n : order[i] \in S /\ order[i] \in Ready
      /\ \A i, j \in 1 .. n : order[i] = order[j] => i = j
  BY DEF SetToSeqs, EpollWait
<1>4. n \in Nat /\ n <= EPOLLEVENTS
  BY <1>2
<1> HIDE DEF n
<1>5. ASSUME NEW f \in Ready
      PROVE  /\ EventOf(f) \in Event /\ EventOf(f).fd = f
             /\ f = LISTEN => backlog # <<>>
             /\ f # LISTEN => /\ f \in Fd /\ Open(f) /\ EventOf(f).conn = owner[f]
                              /\ EventOf(f).in => Readable(owner[f])
  <2>1. CASE f = LISTEN
    <3>1. f \notin interest
      BY <2>1, LoopAssumption DEF LoopInv, TypeOK
    <3> QED BY <2>1, <3>1 DEF EventOf, Event, Ready
  <2>2. CASE f # LISTEN
    <3>1. f \in interest /\ f \in Fd /\ Open(f) /\ owner[f] \in Conn
      BY <2>2 DEF Ready, LoopInv, TypeOK, SessionOfConnection, Open
    <3>2. Readable(owner[f]) \in BOOLEAN
      BY DEF Readable
    <3> QED BY <2>2, <3>1, <3>2 DEF EventOf, Event
  <2> QED BY <2>1, <2>2
<1>6. batch' = [i \in 1 .. n |-> EventOf(order[i])]
  BY <1>1, <1>3
<1>7. batch' \in Seq(Event) /\ Len(batch') = n
  <2>1. \A i \in 1 .. n : EventOf(order[i]) \in Event
    BY <1>3, <1>5
  <2> QED BY <1>4, <1>6, <2>1
<1>8. TypeOK'
  BY <1>4, <1>7 DEF LoopInv, TypeOK, EpollWait, clientVars, Place
<1>9. EventsFresh'
  BY <1>3, <1>5, <1>6 DEF EventsFresh, EpollWait, Readable, clientVars
<1>10. BatchApart'
  BY <1>3, <1>5, <1>6 DEF BatchApart, EpollWait, Open
<1>11. SessionOfConnection' /\ BacklogApart' /\ ServedOpen' /\ BegunFits'
  BY DEF LoopInv, SessionOfConnection, BacklogApart, ServedOpen, Serving, BegunFits,
         EpollWait, clientVars, Open
<1> QED BY <1>8, <1>9, <1>10, <1>11 DEF LoopInv

LEMMA EventsDoneLoop ==
  ASSUME LoopInv, EventsDone
  PROVE  LoopInv'
BY DEF LoopInv, TypeOK, SessionOfConnection, EventsFresh, BacklogApart, BatchApart,
       ServedOpen, Serving, BegunFits, EventsDone, Readable, Open, clientVars, Place

(* A connection is accepted on a descriptor no event of the batch names.   *)
LEMMA HandleAcceptLoop ==
  ASSUME LoopInv, HandleAccept
  PROVE  LoopInv'
<1>1. /\ batch # <<>> /\ batch' = Rest(batch) /\ Head(batch).fd = LISTEN
      /\ at = "next" /\ UNCHANGED <<running, at, fd, queued, begun, eof, input, output>>
  BY DEF HandleAccept, clientVars
<1>2. /\ Rest(batch) \in Seq(Event) /\ Len(Rest(batch)) <= EPOLLEVENTS
      /\ \A i \in DOMAIN Rest(batch) : Rest(batch)[i].fd # LISTEN
      /\ \A i, j \in DOMAIN Rest(batch) : Rest(batch)[i].fd = Rest(batch)[j].fd => i = j
      /\ backlog # <<>>
  BY <1>1, RestFacts DEF LoopInv, EventsFresh
<1>3. \A i \in DOMAIN Rest(batch) :
        /\ Rest(batch)[i].fd \in Fd /\ Open(Rest(batch)[i].fd)
        /\ owner[Rest(batch)[i].fd] = Rest(batch)[i].conn
        /\ Rest(batch)[i].in => Readable(Rest(batch)[i].conn)
  BY <1>1, <1>2, RestFresh
<1>4. CASE UNCHANGED <<backlog, owner, session, interest>>
  BY <1>1, <1>2, <1>3, <1>4
     DEF LoopInv, TypeOK, SessionOfConnection, EventsFresh, BacklogApart, BatchApart,
         ServedOpen, Serving, BegunFits, Readable, Open
<1>5. ASSUME NEW f \in Fd, ~ Open(f),
             backlog' = Tail(backlog), owner' = [owner EXCEPT ![f] = Head(backlog)],
             session' = SessionAdd(f, Head(backlog)), AddEvent(f)
      PROVE  LoopInv'
  <2> DEFINE k == Head(backlog)
             t == Tail(backlog)
  <2>1. /\ t \in Seq(Conn) /\ Len(t) = Len(backlog) - 1 /\ Len(backlog) \in Nat
        /\ k = backlog[1] /\ 1 \in DOMAIN backlog /\ k \in Conn
        /\ \A i \in DOMAIN t : i \in Nat /\ i # 0 /\ i + 1 \in DOMAIN backlog
                               /\ t[i] = backlog[i + 1]
    BY <1>2, TailFacts DEF LoopInv, TypeOK
  <2> HIDE DEF k, t
  <2>2. interest' \subseteq interest \cup {f}
    BY <1>5 DEF AddEvent
  <2>3. owner' = [owner EXCEPT ![f] = k] /\ session' = [session EXCEPT ![f] = k]
        /\ backlog' = t /\ k # NONE
    BY <1>5, <2>1, LoopAssumption
       DEF SessionAdd, k, t, LoopInv, SessionOfConnection, Open
  <2>4. owner \in [Fd -> Conn \cup {NONE}] /\ session = owner
    BY DEF LoopInv, TypeOK, SessionOfConnection
  <2>5. \A g \in Fd : owner[g] # k
    BY <2>1 DEF LoopInv, BacklogApart
  <2>6. TypeOK'
    <3>1. TypeOK
      BY DEF LoopInv
    <3>2. batch' \in Seq(Event) /\ Len(batch') <= EPOLLEVENTS
      BY <1>1, <1>2
    <3>3. backlog' \in Seq(Conn) /\ Len(backlog') <= LISTENQ
      BY <2>1, <2>3, <3>1, LoopAssumption DEF TypeOK
    <3>4. owner' \in [Fd -> Conn \cup {NONE}] /\ session' \in [Fd -> Conn \cup {NONE}]
          /\ interest' \subseteq Fd
      BY <1>5, <2>1, <2>3, <2>2, <3>1 DEF TypeOK
    <3> QED BY <1>1, <3>1, <3>2, <3>3, <3>4 DEF TypeOK
  <2>7. SessionOfConnection'
    BY <1>1, <1>5, <2>3, <2>4, <2>5, <2>2 DEF LoopInv, SessionOfConnection, Open
  <2>8. EventsFresh'
    BY <1>1, <1>2, <1>3, <1>5, <2>3, <2>4 DEF EventsFresh, Readable, Open
  <2>9. BacklogApart'
    <3>1. \A i, j \in DOMAIN backlog : backlog[i] = backlog[j] => i = j
      BY DEF LoopInv, BacklogApart
    <3>2. ASSUME NEW i \in DOMAIN t PROVE t[i] # k /\ \A g \in Fd : owner[g] # t[i]
      <4>1. t[i] = backlog[i + 1] /\ i + 1 \in DOMAIN backlog /\ i + 1 # 1
        BY <2>1
      <4> QED BY <2>1, <3>1, <4>1 DEF LoopInv, BacklogApart
    <3>3. ASSUME NEW i \in DOMAIN t, NEW j \in DOMAIN t, t[i] = t[j] PROVE i = j
      <4>1. i + 1 = j + 1
        BY <2>1, <3>1, <3>3
      <4> QED BY <2>1, <4>1
    <3> QED BY <2>3, <2>4, <3>2, <3>3 DEF BacklogApart
  <2>10. BatchApart'
    BY <1>1, <1>2, <1>3, <2>1, <2>3, <2>4 DEF BatchApart, Open
  <2>11. ServedOpen' /\ BegunFits'
    BY <1>1 DEF LoopInv, ServedOpen, Serving, BegunFits
  <2> QED BY <2>6, <2>7, <2>8, <2>9, <2>10, <2>11 DEF LoopInv
<1> QED BY <1>4, <1>5 DEF HandleAccept

(* The event at the head of the batch is taken over by its handler.        *)
LEMMA DispatchLoop ==
  ASSUME LoopInv, Dispatch
  PROVE  LoopInv'
<1>1. /\ batch # <<>> /\ batch' = Rest(batch) /\ Head(batch).fd # LISTEN
      /\ fd' = Head(batch).fd /\ at' \in {"close", "read", "write"}
      /\ UNCHANGED <<running, owner, interest, session, queued, backlog, begun, eof,
                     input, output>>
  BY DEF Dispatch, clientVars
<1>2. /\ Rest(batch) \in Seq(Event) /\ Len(Rest(batch)) <= EPOLLEVENTS
      /\ Head(batch) = batch[1] /\ 1 \in DOMAIN batch /\ batch[1] \in Event
      /\ \A i \in DOMAIN Rest(batch) : Rest(batch)[i].fd # batch[1].fd
      /\ \A i, j \in DOMAIN Rest(batch) : Rest(batch)[i].fd = Rest(batch)[j].fd => i = j
  BY <1>1, RestFacts
<1>3. fd' \in Fd /\ Open(fd')
  BY <1>1, <1>2 DEF LoopInv, BatchApart, Event
<1>4. \A i \in DOMAIN Rest(batch) :
        /\ Rest(batch)[i].fd = LISTEN => backlog # <<>>
        /\ Rest(batch)[i].fd # LISTEN =>
             /\ Open(Rest(batch)[i].fd)
             /\ owner[Rest(batch)[i].fd] = Rest(batch)[i].conn
             /\ Rest(batch)[i].in => Readable(Rest(batch)[i].conn)
  BY <1>1, RestFresh
<1>5. TypeOK'
  BY <1>1, <1>2, <1>3 DEF LoopInv, TypeOK, Place
<1>6. SessionOfConnection' /\ BacklogApart'
  BY <1>1 DEF LoopInv, SessionOfConnection, BacklogApart, Open
<1>7. EventsFresh' /\ BatchApart'
  BY <1>1, <1>2, <1>4 DEF EventsFresh, BatchApart, Readable, Open
<1>8. ServedOpen' /\ BegunFits'
  BY <1>1, <1>2, <1>3 DEF LoopInv, ServedOpen, BegunFits, Open
<1> QED BY <1>5, <1>6, <1>7, <1>8 DEF LoopInv

(***************************************************************************)
(* A step of a handler that keeps the descriptor open: it moves on, may    *)
(* change what is queued for sessions, read of its own connection's input, *)
(* and write.  The events left are of other connections, so their input is *)
(* as it was.                                                              *)
(***************************************************************************)
LEMMA HandlerLoop ==
  ASSUME LoopInv, Serving, at' \in {"next", "reply", "write", "close"},
         UNCHANGED <<running, fd, batch, owner, interest, session, backlog, begun, eof>>,
         queued' \in [Fd -> 0 .. MaxQueued],
         \A f \in Fd : ~ Open(f) => queued'[f] = queued[f],
         input' \in [Conn -> 0 .. MaxPackets],
         \A k \in Conn \ {owner[fd]} : input'[k] = input[k],
         input'[owner[fd]] <= input[owner[fd]],
         output' \in [Conn -> 0 .. MaxPackets]
  PROVE  LoopInv'
<1>1. TypeOK'
  BY DEF LoopInv, TypeOK, Place
<1>2. SessionOfConnection' /\ BacklogApart'
  BY DEF LoopInv, SessionOfConnection, BacklogApart, Open
<1>3. BatchApart' /\ ServedOpen'
  BY DEF LoopInv, BatchApart, ServedOpen, Serving, Open
<1>4. EventsFresh'
  <2> SUFFICES ASSUME NEW i \in DOMAIN batch
               PROVE  /\ batch[i].fd = LISTEN => backlog # <<>>
                      /\ batch[i].fd # LISTEN =>
                           /\ owner[batch[i].fd] = batch[i].conn
                           /\ batch[i].in => Readable(batch[i].conn)'
    BY DEF EventsFresh
  <2>1. batch[i] \in Event
    BY ElementOfSeq, LenProperties DEF LoopInv, TypeOK
  <2>2. CASE batch[i].fd # LISTEN
    <3>1. /\ batch[i].fd \in Fd /\ Open(batch[i].fd) /\ owner[batch[i].fd] = batch[i].conn
          /\ batch[i].in => Readable(batch[i].conn)
      BY <2>1, <2>2 DEF LoopInv, EventsFresh, BatchApart, Event
    <3>2. batch[i].fd # fd /\ fd \in Fd /\ Open(fd)
      BY DEF LoopInv, ServedOpen
    <3>3. batch[i].conn # owner[fd] /\ batch[i].conn \in Conn
      BY <3>1, <3>2 DEF LoopInv, SessionOfConnection, TypeOK, Open
    <3> QED BY <2>2, <3>1, <3>3 DEF Readable
  <2> QED BY <2>2 DEF LoopInv, EventsFresh
<1>5. BegunFits'
  <2>1. owner[fd] \in Conn
    BY DEF LoopInv, ServedOpen, Open, TypeOK
  <2> SUFFICES ASSUME NEW k \in begun PROVE input'[k] < MaxPackets
    BY DEF BegunFits
  <2>2. k \in Conn /\ input[k] \in 0 .. MaxPackets /\ input[k] < MaxPackets
    BY DEF LoopInv, TypeOK, BegunFits
  <2>3. input'[k] \in 0 .. MaxPackets /\ input'[k] <= input[k]
    BY <2>1, <2>2, LoopAssumption
  <2> QED BY <2>2, <2>3, LoopAssumption
<1> QED BY <1>1, <1>2, <1>3, <1>4, <1>5 DEF LoopInv

(* The buffer a handler leaves alone.                                      *)
LEMMA InputKept ==
  ASSUME LoopInv, Serving, input' = input
  PROVE  input' \in [Conn -> 0 .. MaxPackets] /\ input'[owner[fd]] <= input[owner[fd]]
<1>1. owner[fd] \in Conn
  BY DEF LoopInv, ServedOpen, Open, TypeOK
<1> QED BY <1>1, LoopAssumption DEF LoopInv, TypeOK

LEMMA ReadPacketLoop ==
  ASSUME LoopInv, ReadPacket
  PROVE  LoopInv'
<1>1. fd \in Fd /\ Open(fd) /\ owner[fd] \in Conn /\ Serving
  BY DEF LoopInv, ServedOpen, Serving, ReadPacket, Open, TypeOK
<1>2. /\ input' \in [Conn -> 0 .. MaxPackets]
      /\ \A k \in Conn \ {owner[fd]} : input'[k] = input[k]
      /\ input'[owner[fd]] <= input[owner[fd]]
  BY <1>1, LoopAssumption DEF LoopInv, TypeOK, ReadPacket
<1>3. /\ queued' \in [Fd -> 0 .. MaxQueued]
      /\ \A f \in Fd : ~ Open(f) => queued'[f] = queued[f]
  <2>1. CASE UNCHANGED queued
    BY <2>1 DEF LoopInv, TypeOK
  <2>2. ASSUME NEW F \in SUBSET {f \in Fd : session[f] # NONE}, queued' = Queue(F)
        PROVE  /\ queued' \in [Fd -> 0 .. MaxQueued]
               /\ \A f \in Fd : ~ Open(f) => queued'[f] = queued[f]
    <3>1. queued \in [Fd -> 0 .. MaxQueued] /\ session = owner
      BY DEF LoopInv, TypeOK, SessionOfConnection
    <3> QED BY <2>2, <3>1, LoopAssumption DEF Queue, Open
  <2> QED BY <2>1, <2>2 DEF ReadPacket
<1> QED BY <1>1, <1>2, <1>3, HandlerLoop DEF ReadPacket, clientVars, LoopInv, TypeOK

LEMMA ReadFailsLoop ==
  ASSUME LoopInv, ReadFails
  PROVE  LoopInv'
BY HandlerLoop, InputKept DEF ReadFails, Serving, clientVars, LoopInv, TypeOK

(* What a write does to the send buffers.                                  *)
LEMMA WriteOutput ==
  ASSUME LoopInv, Serving, NEW next, Taken(next) \/ Refused
  PROVE  output' \in [Conn -> 0 .. MaxPackets] /\ at' \in {next, "close"}
<1>1. owner[fd] \in Conn
  BY DEF LoopInv, ServedOpen, Open, TypeOK
<1> DEFINE k == owner[fd]
<1>2. output \in [Conn -> 0 .. MaxPackets]
  BY DEF LoopInv, TypeOK
<1>3. CASE UNCHANGED output /\ at' \in {next, "close"}
  BY <1>2, <1>3
<1>4. CASE output[k] < MaxPackets /\ output' = [output EXCEPT ![k] = @ + 1] /\ at' = next
  <2>1. output[k] + 1 \in 0 .. MaxPackets
    BY <1>1, <1>2, <1>4, LoopAssumption
  <2> QED BY <1>1, <1>2, <1>4, <2>1
<1> QED BY <1>3, <1>4 DEF Taken, Refused

LEMMA WriteReplyLoop ==
  ASSUME LoopInv, WriteReply
  PROVE  LoopInv'
<1>1. Serving
  BY DEF WriteReply, Serving
<1>2. output' \in [Conn -> 0 .. MaxPackets] /\ at' \in {"next", "close"}
  BY <1>1, WriteOutput DEF WriteReply
<1> QED BY <1>1, <1>2, HandlerLoop, InputKept DEF WriteReply, clientVars, LoopInv, TypeOK

LEMMA WriteQueuedLoop ==
  ASSUME LoopInv, WriteQueued
  PROVE  LoopInv'
<1>1. Serving /\ fd \in Fd /\ Open(fd)
  BY DEF WriteQueued, Serving, LoopInv, ServedOpen
<1>2. output' \in [Conn -> 0 .. MaxPackets] /\ at' \in {"write", "close"}
  BY <1>1, WriteOutput DEF WriteQueued
<1>3. /\ queued' \in [Fd -> 0 .. MaxQueued]
      /\ \A f \in Fd : ~ Open(f) => queued'[f] = queued[f]
  BY <1>1, LoopAssumption DEF WriteQueued, LoopInv, TypeOK
<1> QED BY <1>1, <1>2, <1>3, HandlerLoop, InputKept DEF WriteQueued, clientVars, LoopInv, TypeOK

LEMMA QueueWrittenLoop ==
  ASSUME LoopInv, QueueWritten
  PROVE  LoopInv'
BY HandlerLoop, InputKept DEF QueueWritten, Serving, clientVars, LoopInv, TypeOK

(***************************************************************************)
(* handle_disconnect: the descriptor is closed with its session.  No event *)
(* is left that names it, and no other connection's buffers are touched.   *)
(***************************************************************************)
LEMMA HandleDisconnectLoop ==
  ASSUME LoopInv, HandleDisconnect
  PROVE  LoopInv'
<1> DEFINE k == owner[fd]
<1>1. fd \in Fd /\ k \in Conn /\ \A i \in DOMAIN batch : batch[i].fd # fd
  BY DEF LoopInv, ServedOpen, Serving, HandleDisconnect, Open, TypeOK
<1>2. /\ interest' = interest \ {fd} /\ owner' = [owner EXCEPT ![fd] = NONE]
      /\ session' = [session EXCEPT ![fd] = NONE] /\ queued' = [queued EXCEPT ![fd] = 0]
      /\ at' = "next" /\ fd' = NONE /\ begun' = begun \ {k} /\ eof' = eof \ {k}
      /\ input' = [input EXCEPT ![k] = 0] /\ output' = [output EXCEPT ![k] = 0]
      /\ UNCHANGED <<running, batch, backlog>>
  BY DEF HandleDisconnect, DeleteEvent, SessionClean
<1>3. /\ owner \in [Fd -> Conn \cup {NONE}] /\ session = owner
      /\ queued \in [Fd -> 0 .. MaxQueued]
      /\ input \in [Conn -> 0 .. MaxPackets] /\ output \in [Conn -> 0 .. MaxPackets]
      /\ 0 \in 0 .. MaxQueued /\ 0 \in 0 .. MaxPackets
  BY LoopAssumption DEF LoopInv, TypeOK, SessionOfConnection
<1>4. TypeOK'
  BY <1>1, <1>2, <1>3 DEF LoopInv, TypeOK, Place
<1>5. SessionOfConnection'
  BY <1>1, <1>2, <1>3 DEF LoopInv, SessionOfConnection, Open
<1>6. BacklogApart'
  <2>1. \A i \in DOMAIN backlog : backlog[i] # NONE
    BY ElementOfSeq, LenProperties, LoopAssumption DEF LoopInv, TypeOK
  <2> QED BY <1>2, <1>3, <2>1 DEF LoopInv, BacklogApart
<1>7. BatchApart' /\ ServedOpen'
  <2>1. \A i \in DOMAIN batch : batch[i] \in Event
    BY ElementOfSeq, LenProperties DEF LoopInv, TypeOK
  <2> QED BY <1>1, <1>2, <1>3, <2>1 DEF LoopInv, BatchApart, ServedOpen, Serving, Open, Event
<1>8. EventsFresh'
  <2> SUFFICES ASSUME NEW i \in DOMAIN batch
               PROVE  /\ batch[i].fd = LISTEN => backlog # <<>>
                      /\ batch[i].fd # LISTEN =>
                           /\ owner'[batch[i].fd] = batch[i].conn
                           /\ batch[i].in => Readable(batch[i].conn)'
    BY <1>2 DEF EventsFresh
  <2>1. batch[i] \in Event
    BY ElementOfSeq, LenProperties DEF LoopInv, TypeOK
  <2>2. CASE batch[i].fd # LISTEN
    <3>1. /\ batch[i].fd \in Fd /\ Open(batch[i].fd) /\ owner[batch[i].fd] = batch[i].conn
          /\ batch[i].in => Readable(batch[i].conn)
      BY <2>1, <2>2 DEF LoopInv, EventsFresh, BatchApart, Event
    <3>2. batch[i].fd # fd /\ batch[i].conn # k /\ batch[i].conn \in Conn
      BY <1>1, <1>3, <3>1 DEF LoopInv, SessionOfConnection, Open
    <3>3. owner'[batch[i].fd] = batch[i].conn
      BY <1>2, <1>3, <3>1, <3>2
    <3>4. Readable(batch[i].conn) => Readable(batch[i].conn)'
      BY <1>2, <1>3, <3>2 DEF Readable
    <3> QED BY <2>2, <3>1, <3>3, <3>4
  <2> QED BY <2>2 DEF LoopInv, EventsFresh
<1>9. BegunFits'
  BY <1>1, <1>2, <1>3 DEF LoopInv, BegunFits, TypeOK
<1> QED BY <1>4, <1>5, <1>6, <1>7, <1>8, <1>9 DEF LoopInv

-----------------------------------------------------------------------------
(* The clients                                                             *)

(* A client joins the end of the backlog when it is nowhere else.          *)
LEMMA ClientConnectsLoop ==
  ASSUME LoopInv, NEW k \in Conn, ClientConnects(k)
  PROVE  LoopInv'
<1>1. /\ ~ Connected(k) /\ Len(backlog) < LISTENQ /\ backlog' = Append(backlog, k)
      /\ UNCHANGED <<running, at, fd, batch, owner, interest, session, queued, begun, eof,
                     input, output>>
  BY DEF ClientConnects, processVars, clientVars
<1>2. backlog \in Seq(Conn)
  BY DEF LoopInv, TypeOK
<1> DEFINE n == Len(backlog)
           b == Append(backlog, k)
<1>3. /\ b \in Seq(Conn) /\ b # <<>> /\ Len(b) = n + 1 /\ n \in Nat
      /\ \A i \in 1 .. n : b[i] = backlog[i]
      /\ b[n + 1] = k
      /\ DOMAIN backlog = 1 .. n /\ DOMAIN b = 1 .. n + 1
  BY <1>2, AppendProperties, LenProperties
<1>4. n < LISTENQ
  BY <1>1
<1> HIDE DEF n, b
<1>5. backlog' = b
  BY <1>1 DEF b
<1>6. TypeOK'
  <2>1. backlog' \in Seq(Conn) /\ Len(backlog') <= LISTENQ
    BY <1>3, <1>4, <1>5, LoopAssumption
  <2> QED BY <1>1, <2>1 DEF LoopInv, TypeOK
<1>7. BacklogApart'
  <2>1. \A i \in 1 .. n : b[i] # k /\ \A f \in Fd : owner[f] # b[i]
    BY <1>1, <1>3 DEF LoopInv, BacklogApart, Connected, Pending
  <2>2. \A f \in Fd : owner[f] # k
    BY <1>1 DEF Connected
  <2>3. \A i, j \in 1 .. n : b[i] = b[j] => i = j
    BY <1>3 DEF LoopInv, BacklogApart
  <2>4. \A i \in 1 .. n + 1 : i \in 1 .. n \/ i = n + 1
    BY <1>3
  <2> QED BY <1>1, <1>3, <1>5, <2>1, <2>2, <2>3, <2>4 DEF BacklogApart
<1>8. SessionOfConnection' /\ BatchApart' /\ ServedOpen' /\ BegunFits'
  BY <1>1 DEF LoopInv, SessionOfConnection, BatchApart, ServedOpen, Serving, BegunFits, Open
<1>9. EventsFresh'
  BY <1>1, <1>3, <1>5 DEF LoopInv, EventsFresh, Readable
<1> QED BY <1>6, <1>7, <1>8, <1>9 DEF LoopInv

(* What clients do to their own buffers leaves what is readable readable.  *)
LEMMA ClientLoop ==
  ASSUME LoopInv, UNCHANGED processVars, UNCHANGED backlog,
         begun' \subseteq Conn, eof' \subseteq Conn,
         input' \in [Conn -> 0 .. MaxPackets], output' \in [Conn -> 0 .. MaxPackets],
         \A k \in Conn : Readable(k) => Readable(k)',
         BegunFits'
  PROVE  LoopInv'
<1>1. UNCHANGED <<running, at, fd, batch, owner, interest, session, queued, backlog>>
  BY DEF processVars
<1>2. TypeOK'
  BY <1>1 DEF LoopInv, TypeOK
<1>3. SessionOfConnection' /\ BacklogApart' /\ BatchApart' /\ ServedOpen'
  BY <1>1 DEF LoopInv, SessionOfConnection, BacklogApart, BatchApart, ServedOpen, Serving, Open
<1>4. EventsFresh'
  <2> SUFFICES ASSUME NEW i \in DOMAIN batch
               PROVE  /\ batch[i].fd = LISTEN => backlog # <<>>
                      /\ batch[i].fd # LISTEN =>
                           /\ owner[batch[i].fd] = batch[i].conn
                           /\ batch[i].in => Readable(batch[i].conn)'
    BY <1>1 DEF EventsFresh
  <2>1. batch[i] \in Event
    BY ElementOfSeq, LenProperties DEF LoopInv, TypeOK
  <2>2. CASE batch[i].fd # LISTEN
    <3>1. /\ batch[i].fd \in Fd /\ Open(batch[i].fd) /\ owner[batch[i].fd] = batch[i].conn
          /\ batch[i].in => Readable(batch[i].conn)
      BY <2>1, <2>2 DEF LoopInv, EventsFresh, BatchApart, Event
    <3>2. batch[i].conn \in Conn
      BY <3>1 DEF LoopInv, Open, TypeOK
    <3> QED BY <1>1, <2>2, <3>1, <3>2 DEF Readable
  <2> QED BY <2>2 DEF LoopInv, EventsFresh
<1> QED BY <1>2, <1>3, <1>4 DEF LoopInv

LEMMA ClientsLoop ==
  ASSUME LoopInv, NEW k \in Conn,
         BeginPacket(k) \/ FinishPacket(k) \/ ClientReads(k) \/ ClientCloses(k)
  PROVE  LoopInv'
<1>1. /\ begun \subseteq Conn /\ eof \subseteq Conn
      /\ input \in [Conn -> 0 .. MaxPackets] /\ output \in [Conn -> 0 .. MaxPackets]
  BY DEF LoopInv, TypeOK
<1>2. CASE BeginPacket(k)
  <2>1. UNCHANGED processVars /\ UNCHANGED backlog /\ begun' = begun \cup {k}
        /\ UNCHANGED <<eof, input, output>>
    BY <1>2 DEF BeginPacket
  <2>2. BegunFits'
    BY <1>1, <1>2, <2>1 DEF BeginPacket, LoopInv, BegunFits
  <2> QED BY <1>1, <2>1, <2>2, ClientLoop DEF Readable
<1>3. CASE FinishPacket(k)
  <2>1. UNCHANGED processVars /\ UNCHANGED backlog /\ begun' = begun \ {k}
        /\ input' = [input EXCEPT ![k] = @ + 1] /\ UNCHANGED <<eof, output>>
    BY <1>3 DEF FinishPacket
  <2>2. input[k] + 1 \in 0 .. MaxPackets
    BY <1>1, <1>3, LoopAssumption DEF FinishPacket, LoopInv, BegunFits
  <2>3. input' \in [Conn -> 0 .. MaxPackets]
    BY <1>1, <2>1, <2>2
  <2>4. BegunFits'
    BY <1>1, <2>1 DEF LoopInv, BegunFits
  <2>5. ASSUME NEW l \in Conn, Readable(l) PROVE Readable(l)'
    BY <1>1, <2>1, <2>5 DEF Readable
  <2> QED BY <1>1, <2>1, <2>3, <2>4, <2>5, ClientLoop
<1>4. CASE ClientReads(k)
  <2>1. UNCHANGED processVars /\ UNCHANGED backlog /\ UNCHANGED <<begun, eof, input>>
        /\ output[k] > 0 /\ output' = [output EXCEPT ![k] = @ - 1]
    BY <1>4 DEF ClientReads, clientVars
  <2>2. output' \in [Conn -> 0 .. MaxPackets] /\ BegunFits'
    BY <1>1, <2>1, LoopAssumption DEF LoopInv, BegunFits
  <2> QED BY <1>1, <2>1, <2>2, ClientLoop DEF Readable
<1>5. CASE ClientCloses(k)
  <2>1. UNCHANGED processVars /\ UNCHANGED backlog /\ UNCHANGED <<begun, input>>
        /\ eof' = eof \cup {k} /\ output' = [output EXCEPT ![k] = 0]
    BY <1>5 DEF ClientCloses
  <2>2. output' \in [Conn -> 0 .. MaxPackets] /\ BegunFits'
    BY <1>1, <2>1, LoopAssumption DEF LoopInv, BegunFits
  <2> QED BY <1>1, <2>1, <2>2, ClientLoop DEF Readable
<1> QED BY <1>2, <1>3, <1>4, <1>5

-----------------------------------------------------------------------------
(* The theorems                                                            *)

LEMMA NextLoop == LoopInv /\ [Next]_loopVars => LoopInv'
<1> SUFFICES ASSUME LoopInv, [Next]_loopVars PROVE LoopInv'
  OBVIOUS
<1>1. CASE UNCHANGED loopVars
  <2>1. UNCHANGED <<running, at, fd, batch, owner, interest, session, queued, backlog,
                    begun, eof, input, output>>
    BY <1>1 DEF loopVars, processVars, clientVars
  <2> QED BY <2>1 DEF LoopInv, TypeOK, SessionOfConnection, EventsFresh, BacklogApart,
                      BatchApart, ServedOpen, Serving, BegunFits, Readable, Open
<1>2. CASE \E S \in SUBSET (Fd \cup {LISTEN}) : EpollWait(S)
  BY <1>2, EpollWaitLoop
<1>3. CASE Process
  BY <1>3, EventsDoneLoop, HandleAcceptLoop, DispatchLoop, ReadPacketLoop, ReadFailsLoop,
     WriteReplyLoop, WriteQueuedLoop, QueueWrittenLoop, HandleDisconnectLoop DEF Process
<1>4. CASE Sigpipe
  BY <1>4, HaltLoop DEF Sigpipe
<1>5. ASSUME NEW k \in Conn,
             \/ ClientConnects(k) \/ BeginPacket(k) \/ FinishPacket(k)
             \/ ClientReads(k) \/ ClientCloses(k)
      PROVE  LoopInv'
  BY <1>5, ClientConnectsLoop, ClientsLoop
<1> QED BY <1>1, <1>2, <1>3, <1>4, <1>5 DEF Next

(* The invariant that is inductive.                                        *)
THEOREM LoopInvariant == Spec => []LoopInv
<1>1. Init => LoopInv
  BY InitLoop
<1>2. LoopInv /\ [Next]_loopVars => LoopInv'
  BY NextLoop
<1> QED BY <1>1, <1>2, PTL DEF Spec

(* The variables of the event loop keep their types and bounds.            *)
THEOREM LoopTypeCorrect == Spec => []TypeOK
<1>1. LoopInv => TypeOK
  BY DEF LoopInv
<1> QED BY <1>1, LoopInvariant, PTL

(***************************************************************************)
(* Whatever descriptors are used again, a session is found under one       *)
(* exactly while it is open, and is that of the connection behind it.      *)
(***************************************************************************)
THEOREM SessionsOfConnections == Spec => []SessionOfConnection
<1>1. LoopInv => SessionOfConnection
  BY DEF LoopInv
<1> QED BY <1>1, LoopInvariant, PTL

(* No event is handled for a connection it was not reported for.           *)
THEOREM EventsStayFresh == Spec => []EventsFresh
<1>1. LoopInv => EventsFresh
  BY DEF LoopInv
<1> QED BY <1>1, LoopInvariant, PTL

=============================================================================
