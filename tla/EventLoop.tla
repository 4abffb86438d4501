------------------------------ MODULE EventLoop -----------------------------
(***************************************************************************)
(* The event loop (main.c, net.c) over blocking sockets: descriptors, the  *)
(* epoll set, the sessions found by descriptor, and the places in          *)
(* iotbroker_read_packet and iotbroker_write_packet (protocol.c) where the *)
(* one thread of the process may have to wait for a client.  What the      *)
(* handlers do is in Broker; here a packet is read, queues a message for   *)
(* some sessions, and is answered or not.                                  *)
(*                                                                         *)
(* The kernel and the clients are not part of the repository.  A client    *)
(* begins a packet and finishes it, reads what it is sent, closes, and may *)
(* connect again; the payload of a packet arrives in one piece.            *)
(***************************************************************************)
EXTENDS Integers, Sequences, SequencesExt, FiniteSets

CONSTANTS
  Fd,           (* descriptors the process may have open for clients       *)
  Conn,         (* clients: each has one connection at a time              *)
  LISTEN,       (* listenfd                                                *)
  NONE,
  LISTENQ,      (* length of the backlog                                   *)
  EPOLLEVENTS,  (* events one epoll_wait returns                           *)
  MaxPackets,   (* whole packets in a receive buffer, packets in a send    *)
  MaxQueued     (* buffer; bound on the messages queued for a session      *)

ASSUME LoopAssumption ==
  /\ Fd \subseteq Nat /\ IsFiniteSet(Fd) /\ LISTEN \notin Fd /\ NONE \notin Conn \cup Fd
  /\ LISTENQ \in Nat \ {0} /\ EPOLLEVENTS \in Nat \ {0}
  /\ MaxPackets \in Nat \ {0} /\ MaxQueued \in Nat

VARIABLES
  running,   (* FALSE once the process has ended                           *)
  at, fd,    (* where the process is, and the descriptor it is serving     *)
  batch,     (* events of the last epoll_wait still to be handled          *)
  backlog,   (* connections to accept                                      *)
  owner,     (* the connection behind each descriptor                      *)
  interest,  (* descriptors registered with epoll                          *)
  session,   (* by descriptor: the connection its Client was made for      *)
  queued,    (* by descriptor: the outgoing entries of its Client          *)
  begun,     (* the clients in the middle of a packet                      *)
  input,     (* whole packets each client has sent                         *)
  eof,       (* the clients that have closed                               *)
  output     (* packets sent to each client                                *)

processVars == <<running, at, fd, batch, owner, interest, session, queued>>
clientVars == <<begun, eof>>
loopVars == <<processVars, backlog, clientVars, input, output>>

Place == {"wait", "next", "read", "reply", "write", "close"}

(* conn is not in the code: the connection the event was reported for.     *)
Event == [fd : Fd \cup {LISTEN}, conn : Conn \cup {NONE}, in : BOOLEAN]

TypeOK ==
  /\ running \in BOOLEAN /\ at \in Place /\ fd \in Fd \cup {NONE}
  /\ batch \in Seq(Event) /\ Len(batch) <= EPOLLEVENTS
  /\ backlog \in Seq(Conn) /\ Len(backlog) <= LISTENQ
  /\ owner \in [Fd -> Conn \cup {NONE}] /\ interest \subseteq Fd
  /\ session \in [Fd -> Conn \cup {NONE}]
  /\ queued \in [Fd -> 0 .. MaxQueued]
  /\ begun \subseteq Conn /\ eof \subseteq Conn
  /\ input \in [Conn -> 0 .. MaxPackets] /\ output \in [Conn -> 0 .. MaxPackets]

Init ==
  /\ running = TRUE /\ at = "wait" /\ fd = NONE /\ batch = <<>>
  /\ backlog = <<>>
  /\ owner = [f \in Fd |-> NONE] /\ interest = {}
  /\ session = [f \in Fd |-> NONE] /\ queued = [f \in Fd |-> 0]
  /\ begun = {} /\ eof = {}
  /\ input = [k \in Conn |-> 0] /\ output = [k \in Conn |-> 0]

-----------------------------------------------------------------------------
(* The kernel: what epoll_wait reports                                     *)

Open(f) == owner[f] # NONE
Pending(k) == \E i \in DOMAIN backlog : backlog[i] = k
Connected(k) == Pending(k) \/ \E f \in Fd : owner[f] = k

Readable(k) == input[k] > 0 \/ k \in begun \cup eof
Writable(k) == output[k] < MaxPackets \/ k \in eof

EventOf(f) ==
  IF f = LISTEN THEN [fd |-> LISTEN, conn |-> NONE, in |-> TRUE]
  ELSE [fd |-> f, conn |-> owner[f], in |-> Readable(owner[f])]

Ready ==
  {f \in interest : Readable(owner[f]) \/ Writable(owner[f])}
    \cup (IF backlog # <<>> THEN {LISTEN} ELSE {})

(* main: epoll_wait reports some of the ready descriptors, each once.      *)
EpollWait(S) ==
  /\ running /\ at = "wait"
  /\ S # {} /\ S \subseteq Ready /\ Cardinality(S) <= EPOLLEVENTS
  /\ \E order \in SetToSeqs(S) : batch' = [i \in DOMAIN order |-> EventOf(order[i])]
  /\ at' = "next"
  /\ UNCHANGED <<running, fd, owner, interest, session, queued, backlog, clientVars,
                 input, output>>

-----------------------------------------------------------------------------
(* The process                                                             *)

(* Mutant: a readable descriptor gets its write event too.                 *)
RestAndWrite(b) ==
  IF b[1].fd # LISTEN /\ b[1].in THEN <<[b[1] EXCEPT !.in = FALSE]>> \o Tail(b)
  ELSE Tail(b)

Rest(b) == Tail(b)

(* iotbroker_handle_events: the end of the loop over the events.           *)
EventsDone ==
  /\ running /\ at = "next" /\ batch = <<>>
  /\ at' = "wait"
  /\ UNCHANGED <<running, fd, batch, owner, interest, session, queued, backlog,
                 clientVars, input, output>>

(* iotbroker_session_add: a session that is already there stays.           *)
SessionAdd(f, k) == IF session[f] # NONE THEN session ELSE [session EXCEPT ![f] = k]

(* Mutant: the connection is left in the backlog.                          *)
HandleAcceptSkips ==
  /\ running /\ at = "next" /\ batch # <<>> /\ Head(batch).fd = LISTEN
  /\ batch' = Rest(batch)
  /\ UNCHANGED <<running, at, fd, owner, interest, session, queued, backlog,
                 clientVars, input, output>>

(* add_event: epoll_ctl may fail, and nothing but a message says so.       *)
AddEvent(f) == interest' \in {interest, interest \cup {f}}

(***************************************************************************)
(* handle_accept: accept fails, for want of a descriptor or of memory, and *)
(* leaves the connection where it is; or takes the lowest free descriptor, *)
(* with a session whether epoll is going to watch it or not.               *)
(***************************************************************************)
HandleAccept ==
  /\ running /\ at = "next" /\ batch # <<>> /\ Head(batch).fd = LISTEN
  /\ batch' = Rest(batch)
  /\ \/ UNCHANGED <<backlog, owner, session, interest>>
     \/ \E f \in Fd :
          /\ ~ Open(f) /\ \A g \in Fd : g < f => Open(g)
          /\ backlog' = Tail(backlog)
          /\ owner' = [owner EXCEPT ![f] = Head(backlog)]
          /\ session' = SessionAdd(f, Head(backlog))
          /\ AddEvent(f)
  /\ UNCHANGED <<running, at, fd, queued, clientVars, input, output>>

(* Mutants: EPOLLOUT first; EPOLLIN alone; a read for every event.         *)
TakeOver(place) ==
  /\ running /\ at = "next" /\ batch # <<>> /\ Head(batch).fd # LISTEN
  /\ batch' = Rest(batch)
  /\ fd' = Head(batch).fd /\ at' = place
  /\ UNCHANGED <<running, owner, interest, session, queued, backlog, clientVars,
                 input, output>>

DispatchWrites ==
  TakeOver(IF Writable(owner[Head(batch).fd]) THEN "write" ELSE "read")

DispatchReads == TakeOver(IF Head(batch).in THEN "read" ELSE "next")

DispatchReadsAlways == TakeOver("read")

(* iotbroker_handle_events: EPOLLIN first, EPOLLOUT only without it.       *)
Dispatch ==
  /\ running /\ at = "next" /\ batch # <<>> /\ Head(batch).fd # LISTEN
  /\ batch' = Rest(batch)
  /\ fd' = Head(batch).fd
  /\ at' = IF session[fd'] = NONE THEN "close"
           ELSE IF Head(batch).in THEN "read" ELSE "write"
  /\ UNCHANGED <<running, owner, interest, session, queued, backlog, clientVars,
                 input, output>>

(* A message for each of the sessions F.                                   *)
Queue(F) == [f \in Fd |-> IF f \in F /\ queued[f] < MaxQueued THEN queued[f] + 1
                          ELSE queued[f]]

(***************************************************************************)
(* iotbroker_read_packet has a whole packet: it is refused, or handled and *)
(* then answered or not.  With neither a packet nor the end of the stream  *)
(* the process waits here.                                                 *)
(***************************************************************************)
ReadPacket ==
  /\ running /\ at = "read" /\ input[owner[fd]] > 0
  /\ input' = [input EXCEPT ![owner[fd]] = @ - 1]
  /\ \/ at' = "close" /\ UNCHANGED queued
     \/ /\ at' \in {"next", "reply"}
        /\ \E F \in SUBSET {f \in Fd : session[f] # NONE} : queued' = Queue(F)
  /\ UNCHANGED <<running, fd, batch, owner, interest, session, backlog, clientVars,
                 output>>

(* The end of the stream, or a reset, which overtakes what was not read.   *)
ReadFails ==
  /\ running /\ at = "read" /\ owner[fd] \in eof
  /\ at' = "close"
  /\ UNCHANGED <<running, fd, batch, owner, interest, session, queued, backlog,
                 clientVars, input, output>>

(* What the process has in memory is gone, and its descriptors are closed. *)
Halt ==
  /\ running' = FALSE /\ at' = "wait" /\ fd' = NONE /\ batch' = <<>>
  /\ owner' = [f \in Fd |-> NONE] /\ interest' = {}
  /\ session' = [f \in Fd |-> NONE] /\ queued' = [f \in Fd |-> 0]
  /\ backlog' = <<>> /\ begun' = {} /\ eof' = {}
  /\ input' = [k \in Conn |-> 0] /\ output' = [k \in Conn |-> 0]

(* A write the kernel takes, or takes for a peer that has closed.          *)
Taken(next) ==
  /\ at' = next
  /\ LET k == owner[fd]
     IN  IF k \in eof THEN UNCHANGED output
         ELSE output[k] < MaxPackets /\ output' = [output EXCEPT ![k] = @ + 1]

(* A write to a peer that has closed may also fail.                        *)
Refused == owner[fd] \in eof /\ at' = "close" /\ UNCHANGED output

(* The write of a reply waits while the send buffer is full.               *)
WriteReply ==
  /\ running /\ at = "reply"
  /\ Taken("next") \/ Refused
  /\ UNCHANGED <<running, fd, batch, owner, interest, session, queued, backlog,
                 clientVars, input>>

(* Mutant: entries that are not outbound are written too.                  *)
WriteQueuedAny ==
  /\ running /\ at = "write"
  /\ queued' = [queued EXCEPT ![fd] = @ - 1]
  /\ Taken("write") \/ Refused
  /\ UNCHANGED <<running, fd, batch, owner, interest, session, backlog, clientVars,
                 input>>

(* iotbroker_write_packet: one entry after the other; so does each write.  *)
WriteQueued ==
  /\ running /\ at = "write" /\ queued[fd] > 0
  /\ queued' = [queued EXCEPT ![fd] = @ - 1]
  /\ Taken("write") \/ Refused
  /\ UNCHANGED <<running, fd, batch, owner, interest, session, backlog, clientVars,
                 input>>

QueueWritten ==
  /\ running /\ at = "write" /\ queued[fd] = 0
  /\ at' = "next"
  /\ UNCHANGED <<running, fd, batch, owner, interest, session, queued, backlog,
                 clientVars, input, output>>

(* The second write to a peer that has closed raises SIGPIPE.              *)
Sigpipe ==
  /\ running
  /\ at = "reply" \/ (at = "write" /\ queued[fd] > 0)
  /\ owner[fd] \in eof
  /\ Halt

(* Mutant: iotbroker_session_clean is not called.                          *)
SessionCleanNot(f) == UNCHANGED <<session, queued>>

(* iotbroker_session_clean                                                 *)
SessionClean(f) ==
  /\ session' = [session EXCEPT ![f] = NONE]
  /\ queued' = [queued EXCEPT ![f] = 0]

(* delete_event: should epoll_ctl fail, close takes f out of the set too.  *)
DeleteEvent(f) == interest' = interest \ {f}

(* handle_disconnect: what is in the buffers of the connection is lost.    *)
HandleDisconnect ==
  /\ running /\ at = "close"
  /\ DeleteEvent(fd)
  /\ owner' = [owner EXCEPT ![fd] = NONE]
  /\ SessionClean(fd)
  /\ at' = "next" /\ fd' = NONE
  /\ LET k == owner[fd]
     IN  /\ begun' = begun \ {k} /\ eof' = eof \ {k}
         /\ input' = [input EXCEPT ![k] = 0] /\ output' = [output EXCEPT ![k] = 0]
  /\ UNCHANGED <<running, batch, backlog>>

Process ==
  \/ EventsDone \/ HandleAccept \/ Dispatch \/ ReadPacket \/ ReadFails
  \/ WriteReply \/ WriteQueued \/ QueueWritten \/ HandleDisconnect

-----------------------------------------------------------------------------
(* The clients                                                             *)

ClientConnects(k) ==
  /\ running /\ ~ Connected(k) /\ Len(backlog) < LISTENQ
  /\ backlog' = Append(backlog, k)
  /\ UNCHANGED <<processVars, clientVars, input, output>>

Talks(k) == Connected(k) /\ k \notin eof

BeginPacket(k) ==
  /\ Talks(k) /\ k \notin begun /\ input[k] < MaxPackets
  /\ begun' = begun \cup {k}
  /\ UNCHANGED <<processVars, backlog, eof, input, output>>

FinishPacket(k) ==
  /\ Talks(k) /\ k \in begun
  /\ begun' = begun \ {k}
  /\ input' = [input EXCEPT ![k] = @ + 1]
  /\ UNCHANGED <<processVars, backlog, eof, output>>

ClientReads(k) ==
  /\ Talks(k) /\ output[k] > 0
  /\ output' = [output EXCEPT ![k] = @ - 1]
  /\ UNCHANGED <<processVars, backlog, clientVars, input>>

ClientCloses(k) ==
  /\ Talks(k)
  /\ eof' = eof \cup {k}
  /\ output' = [output EXCEPT ![k] = 0]
  /\ UNCHANGED <<processVars, backlog, begun, input>>

Next ==
  \/ \E S \in SUBSET (Fd \cup {LISTEN}) : EpollWait(S)
  \/ Process \/ Sigpipe
  \/ \E k \in Conn :
       \/ ClientConnects(k) \/ BeginPacket(k) \/ FinishPacket(k)
       \/ ClientReads(k) \/ ClientCloses(k)

(***************************************************************************)
(* The process goes on when it can; epoll reports every descriptor that is *)
(* ready again and again (Linux takes them in turn), and does not refuse   *)
(* for ever a connection there is a descriptor for; a client finishes the  *)
(* packets it begins and reads what it is sent, or closes.                 *)
(***************************************************************************)
Fairness ==
  /\ WF_loopVars(Process)
  /\ \A f \in Fd \cup {LISTEN} :
       SF_loopVars(\E S \in SUBSET (Fd \cup {LISTEN}) : f \in S /\ EpollWait(S))
  /\ SF_loopVars(HandleAccept /\ backlog' # backlog)
  /\ \A k \in Conn : WF_loopVars(FinishPacket(k)) /\ WF_loopVars(ClientReads(k))

Spec == Init /\ [][Next]_loopVars /\ Fairness

-----------------------------------------------------------------------------

(***************************************************************************)
(* A descriptor has a session exactly while it is open, made for the       *)
(* connection it belongs to now, and epoll watches none that is closed:    *)
(* descriptors are used again, and iotbroker_session_add keeps what it     *)
(* finds under one.  One that is open may be unwatched: when add_event has *)
(* failed it keeps its session until the process ends.                     *)
(***************************************************************************)
SessionOfConnection ==
  /\ session = owner /\ interest \subseteq {f \in Fd : Open(f)}
  /\ \A f \in Fd : ~ Open(f) => queued[f] = 0
  /\ \A f, g \in Fd : Open(f) /\ owner[f] = owner[g] => f = g

(***************************************************************************)
(* When the turn of an event comes, its descriptor is still that of the    *)
(* connection it was reported for, and still readable if it was: handlers  *)
(* of the same batch close descriptors and accept connections on them.     *)
(***************************************************************************)
EventsFresh ==
  \A i \in DOMAIN batch :
    LET e == batch[i]
    IN  IF e.fd = LISTEN THEN backlog # <<>>
        ELSE owner[e.fd] = e.conn /\ (e.in => Readable(e.conn))

(***************************************************************************)
(* The process, whose sockets block, waits for a client outside epoll_wait *)
(* only in the middle of a packet of that client, or for room to write to  *)
(* it.                                                                     *)
(***************************************************************************)
WaitsMidPacket ==
  at # "wait" /\ ~ ENABLED Process =>
    \/ at = "read" /\ owner[fd] \in begun
    \/ at \in {"reply", "write"} /\ output[owner[fd]] = MaxPackets

(* A connection is accepted unless the process has no descriptor for it.   *)
PendingAccepted ==
  <>[](\E f \in Fd : ~ Open(f)) =>
    \A k \in Conn : Pending(k) ~> ~ Pending(k)

Reading(k) == at = "read" /\ owner[fd] = k

(***************************************************************************)
(* What a client has sent is read, whatever the other clients do, if epoll *)
(* watches its connection: after a failure of add_event (net.c:171-176)    *)
(* nothing is read of it, and it is not closed either.                     *)
(***************************************************************************)
InputRead ==
  \A f \in Fd, k \in Conn :
    owner[f] = k /\ f \in interest /\ Readable(k) ~> Reading(k) \/ owner[f] # k

(***************************************************************************)
(* What is queued for a client is written, if epoll watches its connection *)
(* and the client does not go on sending for ever: EPOLLIN goes before     *)
(* EPOLLOUT (net.c:89-98).                                                 *)
(***************************************************************************)
QueueDrains ==
  \A k \in Conn :
    <>[] ~ Readable(k) =>
      \A f \in Fd :
        owner[f] = k /\ f \in interest /\ queued[f] > 0
          ~> owner[f] # k \/ queued[f] = 0

=============================================================================
