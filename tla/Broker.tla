------------------------------- MODULE Broker -------------------------------
(***************************************************************************)
(* The broker process: the sessions (session.c), the packet handlers       *)
(* (packet_handle.c), the delivery of queued messages (protocol.c) and     *)
(* their composition with the message store and the subscription table.    *)
(*                                                                         *)
(* The process has one thread: main waits for events and runs one handler  *)
(* to its end for each, so a handler is one action.  The packet a handler  *)
(* gets is chosen freely: clients are not constrained.  A handler that     *)
(* returns an error, or whose reply cannot be written, leaves its client   *)
(* in `closing'; net.c then calls handle_disconnect before anything else.  *)
(*                                                                         *)
(* Some handlers follow a pointer to a Client that has been freed, or a    *)
(* pointer nobody has set.  The code has no defined behaviour from there   *)
(* on: the process stops (Halt) and nothing more is said about it.         *)
(***************************************************************************)
EXTENDS Subtree

CONSTANTS
  InPid,      (* packet identifiers clients put in their packets       *)
  Requests    (* SUBSCRIBE payloads: functions from filters to Qos     *)

ASSUME BrokerAssumption ==
  /\ NULL \notin Client \cup ClientId
  /\ InPid \subseteq PacketId
  /\ {Plus, Hash} \cap Name = {} /\ Plus # Hash
  /\ \A req \in Requests :
       DOMAIN req \subseteq Filter /\ req \in [DOMAIN req -> Qos]

VARIABLES
  running,           (* FALSE once the process has stopped                 *)
  sessions,          (* the clients in g_client_session_head               *)
  client_id,         (* Client.client_id                                   *)
  packet_id_source,  (* Client.packet_id_source                            *)
  mq,                (* the list behind Client.mq_head                     *)
  store,             (* g_message_store_head: the stored messages          *)
  subtree,           (* g_subtree_head                                     *)
  closing            (* the client handle_disconnect is due for, or NULL   *)

vars == <<running, sessions, client_id, packet_id_source, mq, store, subtree,
          closing>>

TypeOK ==
  /\ running \in BOOLEAN
  /\ sessions \subseteq Client
  /\ client_id \in [Client -> ClientId \cup {NULL}]
  /\ packet_id_source \in [Client -> PacketId]
  /\ DOMAIN mq = Client /\ \A c \in Client : IsList(mq[c])
  /\ DOMAIN store \subseteq Msg /\ store \in [DOMAIN store -> Message]
  /\ subtree \in [Filter -> Seq(SubNode)]
  /\ closing \in sessions \cup {NULL}

Init ==
  /\ running = TRUE
  /\ sessions = {}
  /\ client_id = [c \in Client |-> NULL]
  /\ packet_id_source = [c \in Client |-> 1 % PidMod]
  /\ mq = [c \in Client |-> EmptyList]
  /\ store = [m \in {} |-> m]
  /\ subtree = [f \in Filter |-> <<>>]
  /\ closing = NULL

-----------------------------------------------------------------------------

(* The process ends and its memory with it.                                *)
Halt ==
  /\ running' = FALSE
  /\ sessions' = {}
  /\ client_id' = [c \in Client |-> NULL]
  /\ packet_id_source' = [c \in Client |-> 1 % PidMod]
  /\ mq' = [c \in Client |-> EmptyList]
  /\ store' = [m \in {} |-> m]
  /\ subtree' = [f \in Filter |-> <<>>]
  /\ closing' = NULL

(* The process waits in epoll_wait, or dispatches an event of client c.    *)
Idle == running /\ closing = NULL
Serves(c) == Idle /\ c \in sessions

(* The reply to c is written, or the write fails.                          *)
Reply(c) == closing' \in {NULL, c}

(* A peer that has closed: write raises SIGPIPE, which nothing handles.    *)
Sigpipe(c) == Serves(c) /\ Halt

(* handle_accept: malloc may return the address of an earlier session.     *)
Accept(c) ==
  /\ Idle /\ c \notin sessions
  /\ sessions' = sessions \cup {c}
  /\ client_id' = [client_id EXCEPT ![c] = NULL]
  /\ packet_id_source' = [packet_id_source EXCEPT ![c] = 1 % PidMod]
  /\ mq' = [mq EXCEPT ![c] = EmptyList]
  /\ UNCHANGED <<running, store, subtree, closing>>

(***************************************************************************)
(* iotbroker_read_packet fails and has changed nothing: end of file, a     *)
(* malformed header, a refused protocol name or flag, a PUBLISH with an    *)
(* invalid QoS, a DISCONNECT, a PINGRESP or a refusing CONNACK that cannot *)
(* be written.                                                             *)
(***************************************************************************)
ReadFails(c) ==
  /\ Serves(c)
  /\ closing' = c
  /\ UNCHANGED <<running, sessions, client_id, packet_id_source, mq, store, subtree>>

(***************************************************************************)
(* handle_disconnect of net.c with iotbroker_session_clean.  The nodes of  *)
(* the subscription table stay as they are.                                *)
(***************************************************************************)
Disconnect(c) ==
  /\ running /\ closing = c
  /\ sessions' = sessions \ {c}
  /\ client_id' = [client_id EXCEPT ![c] = NULL]
  /\ packet_id_source' = [packet_id_source EXCEPT ![c] = 1 % PidMod]
  /\ store' = Deref(store, mq[c], DOMAIN mq[c])
  /\ mq' = [mq EXCEPT ![c] = EmptyList]
  /\ closing' = NULL
  /\ UNCHANGED <<running, subtree>>

(* handle_connect once the packet is accepted.                             *)
HandleConnect(c, id) ==
  /\ Serves(c)
  /\ client_id' = [client_id EXCEPT ![c] = id]
  /\ Reply(c)
  /\ UNCHANGED <<running, sessions, packet_id_source, mq, store, subtree>>

-----------------------------------------------------------------------------
(* Subscriptions                                                           *)

(***************************************************************************)
(* handle_subscribe: req holds the topics before the end of the payload,   *)
(* or before the first topic with a QoS above 2 when bad.  The head of the *)
(* list of return codes has its next field set with the first topic: a     *)
(* payload without one leaves what malloc returned there.                  *)
(***************************************************************************)
HandleSubscribe(c, req, bad) ==
  /\ Serves(c)
  /\ \/ /\ \/ \E f \in DOMAIN req : CompareUndefined(client_id, subtree[f], c)
           \/ DOMAIN req # {} /\ DisplayUndefined(subtree, sessions)
           \/ DOMAIN req = {}
        /\ Halt
     \/ /\ ~ \E f \in DOMAIN req : CompareUndefined(client_id, subtree[f], c)
        /\ DOMAIN req # {} => ~ DisplayUndefined(subtree, sessions)
        /\ subtree' = Sub(client_id, subtree, c, req)
        /\ IF bad THEN closing' = c ELSE Reply(c)
        /\ UNCHANGED <<running, sessions, client_id, packet_id_source, mq, store>>

(* handle_unsubscribe: an absent filter returns before the display.        *)
HandleUnsubscribe(c, fs) ==
  LET present == {f \in fs : subtree[f] # <<>>}
      undefined == \/ \E f \in present : CompareUndefined(client_id, subtree[f], c)
                   \/ present # {} /\ DisplayUndefined(subtree, sessions)
  IN  /\ Serves(c)
      /\ \/ undefined /\ Halt
         \/ /\ ~ undefined
            /\ subtree' = Unsub(client_id, subtree, c, fs)
            /\ Reply(c)
            /\ UNCHANGED <<running, sessions, client_id, packet_id_source, mq, store>>

-----------------------------------------------------------------------------
(* Publishing                                                              *)

(* What insert_message_to_subtree queues; it leaves packet_id unassigned.  *)
Outgoing(m, q) ==
  [ms |-> m, ps |-> "WAIT_TO_PUBLISH", dir |-> "MD_OUT", qos |-> q,
   packet_id |-> NoPid]

(* Mutant: waits for the acknowledgement of the other direction.           *)
IncomingMistaken(m, pid) ==
  [ms |-> m, ps |-> "WAIT_FOR_PUBREC", dir |-> "MD_IN", qos |-> 2,
   packet_id |-> pid]

Incoming(m, pid) ==
  [ms |-> m, ps |-> "WAIT_FOR_PUBREL", dir |-> "MD_IN", qos |-> 2,
   packet_id |-> pid]

(* Mutant: the subscriber's QoS whatever that of the publication.          *)
SubscribersQos(a, b) == b

(* The macro MIN.                                                          *)
Lesser(a, b) == IF a < b THEN a ELSE b

(* Mutant: a full list drops its newest entry for the new message.         *)
DeliverDropping(H, m, q) ==
  [c \in Client |->
     LET q0 == mq[c]
         new == {k \in DOMAIN H : H[k].client = c}
     IN  IF new = {} THEN q0
         ELSE ListAdd(ListDel(q0, {Top(q0)}),
                      Outgoing(m, Lesser(q, H[Max(new)].qos)))]

(* Visiting the nodes of H one after the other, each list_add's an entry.  *)
Deliver(H, m, q) ==
  [c \in Client |->
     LET top == Top(mq[c])
         new == {top + k : k \in {i \in DOMAIN H : H[i].client = c}}
     IN  [p \in DOMAIN mq[c] \cup new |->
            IF p \in DOMAIN mq[c] THEN mq[c][p]
                                  ELSE Outgoing(m, Lesser(q, H[p - top].qos))]]

(* Nodes that outlived their Client; bound on the lists.                   *)
Dangling(H) == \E k \in DOMAIN H : H[k].client \notin sessions
Room(H) == \A k \in DOMAIN H : Top(mq[H[k].client]) + k \in Rank

(* handle_publish, QoS 0 and 1: only QoS 1 has a reply, PUBACK.            *)
HandlePublish(c, t, q) ==
  LET H == Visited(subtree, t)
  IN  /\ Serves(c)
      /\ \/ Dangling(H) /\ Halt
         \/ /\ ~ Dangling(H) /\ Room(H)
            /\ \E m \in Msg \ DOMAIN store :
                 /\ store' = AddReferences(Insert(store, m, t, q), m, Len(H))
                 /\ mq' = Deliver(H, m, q)
            /\ IF q = 0 THEN closing' = NULL ELSE Reply(c)
            /\ UNCHANGED <<running, sessions, client_id, packet_id_source, subtree>>

(* handle_publish, QoS 2: kept in the publisher's own list until PUBREL.   *)
HandlePublish2(c, t, pid) ==
  /\ Serves(c)
  /\ Top(mq[c]) + 1 \in Rank
  /\ \E m \in Msg \ DOMAIN store :
       /\ store' = AddReferences(Insert(store, m, t, 2), m, 1)
       /\ mq' = [mq EXCEPT ![c] = ListAdd(@, Incoming(m, pid))]
  /\ Reply(c)
  /\ UNCHANGED <<running, sessions, client_id, packet_id_source, subtree>>

(* Mutant: the message stays for the next PUBREL with its identifier.      *)
HandlePubrelKeeps(c, pid) ==
  /\ Serves(c)
  /\ \E p \in Rank :
       LET m == mq[c][p].ms
           H == Visited(subtree, store[m].topic)
       IN  /\ IsFirst(p, Waiting(mq[c], "WAIT_FOR_PUBREL", pid))
           /\ ~ Dangling(H) /\ Room(H)
           /\ store' = AddReferences(store, m, Len(H))
           /\ mq' = Deliver(H, m, store[m].qos)
           /\ Reply(c)
           /\ UNCHANGED <<running, sessions, client_id, packet_id_source, subtree>>

(* handle_pubrel: publish, let go of the message, reply PUBCOMP.           *)
HandlePubrel(c, pid) ==
  /\ Serves(c)
  /\ \E p \in Rank :
       LET m == mq[c][p].ms
           H == Visited(subtree, store[m].topic)
       IN  /\ IsFirst(p, Waiting(mq[c], "WAIT_FOR_PUBREL", pid))
           /\ \/ Dangling(H) /\ Halt
              \/ /\ ~ Dangling(H) /\ Room(H)
                 /\ store' = Deref(AddReferences(store, m, Len(H)), mq[c], {p})
                 /\ mq' = [Deliver(H, m, store[m].qos) EXCEPT ![c] = ListDel(@, {p})]
                 /\ Reply(c)
                 /\ UNCHANGED <<running, sessions, client_id, packet_id_source,
                                subtree>>

-----------------------------------------------------------------------------
(* Outgoing messages and their acknowledgements                            *)

(* Mutant: a counter wider than the UINT16 of the identifiers.             *)
AdvanceWide(id, k) == id + k

(* Mutant: the counter is not incremented.                                 *)
AdvanceStays(id, k) == id

(* packet_id_source++, k times: it wraps around to 0.                      *)
Advance(id, k) == (id + k) % PidMod

(* Mutant: the entry stays outbound.                                       *)
SentStaysOutbound(e, pid) ==
  [e EXCEPT !.packet_id = pid,
            !.ps = IF e.qos = 1 THEN "WAIT_FOR_PUBACK" ELSE "WAIT_FOR_PUBREC"]

(* send_publish on an entry with QoS 1 or 2.                               *)
Sent(e, pid) ==
  [e EXCEPT !.packet_id = pid, !.dir = "MD_IN",
            !.ps = IF e.qos = 1 THEN "WAIT_FOR_PUBACK" ELSE "WAIT_FOR_PUBREC"]

(* Mutant: only what will be acknowledged is written.                      *)
OutboundAcked(q) == {p \in DOMAIN q : q[p].dir = "MD_OUT" /\ q[p].qos > 0}

Outbound(q) == {p \in DOMAIN q : q[p].dir = "MD_OUT"}

(***************************************************************************)
(* iotbroker_write_packet: P are the entries written, from the list head   *)
(* on, all of them unless the write of the last one fails.  An entry with  *)
(* QoS 0 leaves the list and lets go of its message before its write.      *)
(***************************************************************************)
WritePacket(c) ==
  /\ Serves(c)
  /\ \E P \in SUBSET Outbound(mq[c]) :
       LET acked == {p \in P : mq[c][p].qos > 0}
           pid(p) == Advance(packet_id_source[c], Cardinality({r \in acked : r > p}))
       IN  /\ P # {}
           /\ \A p \in P, r \in Outbound(mq[c]) : r > p => r \in P
           /\ closing' = c \/ (closing' = NULL /\ P = Outbound(mq[c]))
           /\ packet_id_source' =
                [packet_id_source EXCEPT ![c] = Advance(@, Cardinality(acked))]
           /\ store' = Deref(store, mq[c], P \ acked)
           /\ mq' = [mq EXCEPT
                ![c] = [p \in DOMAIN @ \ (P \ acked) |->
                          IF p \in acked THEN Sent(mq[c][p], pid(p)) ELSE mq[c][p]]]
  /\ UNCHANGED <<running, sessions, client_id, subtree>>

(* Mutant: the entry leaves the list and keeps its reference.              *)
AcknowledgeKeeps(c, p) ==
  /\ mq' = [mq EXCEPT ![c] = ListDel(@, {p})]
  /\ UNCHANGED <<running, sessions, client_id, packet_id_source, store, subtree,
                 closing>>

(* The message acknowledged by entry p of c leaves the list.               *)
Acknowledge(c, p) ==
  /\ store' = Deref(store, mq[c], {p})
  /\ mq' = [mq EXCEPT ![c] = ListDel(@, {p})]
  /\ UNCHANGED <<running, sessions, client_id, packet_id_source, subtree, closing>>

HandlePuback(c, pid) ==
  /\ Serves(c)
  /\ \E p \in Rank :
       /\ IsFirst(p, Waiting(mq[c], "WAIT_FOR_PUBACK", pid))
       /\ Acknowledge(c, p)

(* Mutant: answers without a note of it.                                   *)
HandlePubrecForgets(c, pid) ==
  /\ Serves(c)
  /\ Waiting(mq[c], "WAIT_FOR_PUBREC", pid) # {}
  /\ Reply(c)
  /\ UNCHANGED <<running, sessions, client_id, packet_id_source, mq, store, subtree>>

HandlePubrec(c, pid) ==
  /\ Serves(c)
  /\ \E p \in Rank :
       /\ IsFirst(p, Waiting(mq[c], "WAIT_FOR_PUBREC", pid))
       /\ mq' = [mq EXCEPT
            ![c] = [@ EXCEPT ![p].ps = "WAIT_FOR_PUBCOMP", ![p].dir = "MD_IN"]]
  /\ Reply(c)
  /\ UNCHANGED <<running, sessions, client_id, packet_id_source, store, subtree>>

HandlePubcomp(c, pid) ==
  /\ Serves(c)
  /\ \E p \in Rank :
       /\ IsFirst(p, Waiting(mq[c], "WAIT_FOR_PUBCOMP", pid))
       /\ Acknowledge(c, p)

-----------------------------------------------------------------------------

Next ==
  \E c \in Client :
    \/ Accept(c) \/ ReadFails(c) \/ Disconnect(c) \/ Sigpipe(c)
    \/ \E id \in ClientId : HandleConnect(c, id)
    \/ \E req \in Requests, bad \in BOOLEAN : HandleSubscribe(c, req, bad)
    \/ \E fs \in SUBSET Filter : HandleUnsubscribe(c, fs)
    \/ \E t \in Name, q \in 0 .. 1 : HandlePublish(c, t, q)
    \/ \E t \in Name, pid \in InPid : HandlePublish2(c, t, pid)
    \/ WritePacket(c)
    \/ \E pid \in PacketId :
         \/ HandlePubrel(c, pid) \/ HandlePuback(c, pid)
         \/ HandlePubrec(c, pid) \/ HandlePubcomp(c, pid)

Spec == Init /\ [][Next]_vars

-----------------------------------------------------------------------------
(* Safety of the shared messages                                           *)

(***************************************************************************)
(* The reference count of a stored message (message.h:31) is the number of *)
(* list entries that point to it, over the lists of all the sessions: the  *)
(* increments in handle_publish and insert_message_to_subtree pair up with *)
(* the calls of iotbroker_message_store_deref spread over five handlers.   *)
(***************************************************************************)
RefCountExact ==
  \A m \in DOMAIN store : store[m].refer_count = Cardinality(References(mq, m))

(***************************************************************************)
(* No list entry points to a message that has been freed: send_publish and *)
(* handle_pubrel dereference mq->ms without a check.                       *)
(***************************************************************************)
QueuedIsStored ==
  \A c \in Client : \A p \in DOMAIN mq[c] : mq[c][p].ms \in DOMAIN store

(***************************************************************************)
(* A message published with QoS 2 is in nobody's list but its publisher's  *)
(* until its PUBREL: packet_handle.c:353-374 stores it, :443 publishes it. *)
(***************************************************************************)
HeldUntilReleased ==
  \A c \in Client : \A p \in DOMAIN mq[c] :
    mq[c][p].ps = "WAIT_FOR_PUBREL" => References(mq, mq[c][p].ms) = {<<c, p>>}

(***************************************************************************)
(* An entry is outbound exactly as long as it waits to be published, and   *)
(* that is as long as its packet_id is unassigned.  iotbroker_write_packet *)
(* sends `packet' for every MD_OUT entry though handle_message_queue sets  *)
(* it in state PS_WAIT_TO_PUBLISH only, and the acknowledgement handlers   *)
(* compare packet_id, which malloc leaves unset, in every other state.     *)
(***************************************************************************)
OutboundIsUnsent ==
  \A c \in Client : \A p \in DOMAIN mq[c] :
    LET e == mq[c][p]
    IN  /\ e.dir = "MD_OUT" <=> e.ps = "WAIT_TO_PUBLISH"
        /\ e.packet_id = NoPid <=> e.ps = "WAIT_TO_PUBLISH"

(* What the broker waits for the client to acknowledge.                    *)
Waits == {"WAIT_FOR_PUBACK", "WAIT_FOR_PUBREC", "WAIT_FOR_PUBCOMP"}

(***************************************************************************)
(* An entry is never sent with more than the QoS its message was published *)
(* with, and waits only for acknowledgements of the QoS it is sent with:   *)
(* a QoS 0 entry for none, QoS 1 for PUBACK, QoS 2 for the other three.    *)
(***************************************************************************)
HandshakeFitsQos ==
  \A c \in Client : \A p \in DOMAIN mq[c] :
    LET e == mq[c][p]
    IN  /\ e.qos <= store[e.ms].qos
        /\ e.ps = "WAIT_FOR_PUBACK" => e.qos = 1
        /\ e.ps \in {"WAIT_FOR_PUBREL", "WAIT_FOR_PUBREC", "WAIT_FOR_PUBCOMP"}
             => e.qos = 2

(***************************************************************************)
(* A subscriber list names a Client once at most, whatever ids the clients *)
(* connect with and whichever addresses are used again: so a publication   *)
(* reaches a session once per matching filter (subtree.c:269-286).         *)
(***************************************************************************)
OneNodePerClient ==
  \A f \in Filter : \A i, j \in DOMAIN subtree[f] :
    subtree[f][i].client = subtree[f][j].client => i = j

(***************************************************************************)
(* The handshake of a message in the list of a session that goes on: it    *)
(* keeps its message and, once sent, its packet identifier; it moves one   *)
(* step at a time, and leaves the list only sent with QoS 0, acknowledged  *)
(* with PUBACK or PUBCOMP, or released by PUBREL.  Nothing one client does *)
(* drops or skips a step of what is owed to another.                       *)
(***************************************************************************)
HandshakeStep(e, f) ==
  /\ f.ms = e.ms /\ f.qos = e.qos
  /\ \/ f = e
     \/ e.ps = "WAIT_TO_PUBLISH" /\ f.ps \in {"WAIT_FOR_PUBACK", "WAIT_FOR_PUBREC"}
     \/ e.ps = "WAIT_FOR_PUBREC" /\ f.ps = "WAIT_FOR_PUBCOMP" /\ f.packet_id = e.packet_id

HandshakeOrder ==
  [][running' => \A c \in sessions \cap sessions' : \A p \in DOMAIN mq[c] :
       IF p \in DOMAIN mq'[c]
       THEN HandshakeStep(mq[c][p], mq'[c][p])
       ELSE \/ mq[c][p].ps = "WAIT_TO_PUBLISH" /\ mq[c][p].qos = 0
            \/ mq[c][p].ps \in {"WAIT_FOR_PUBACK", "WAIT_FOR_PUBCOMP", "WAIT_FOR_PUBREL"}
    ]_vars

(***************************************************************************)
(* One step takes from, or changes entries of, the list of one client at   *)
(* most; the lists of the others can only grow.                            *)
(***************************************************************************)
Disturbed(c) ==
  \E p \in DOMAIN mq[c] : p \notin DOMAIN mq'[c] \/ mq'[c][p] # mq[c][p]

OthersOnlyGrow ==
  [][running' => \A c, d \in Client : Disturbed(c) /\ Disturbed(d) => c = d]_vars

(***************************************************************************)
(* The reference counts implement the lifetime a message should have.      *)
(***************************************************************************)
Lifetime == INSTANCE MessageLifetime WITH
  Holder <- Client \X Rank,
  alive <- DOMAIN store,
  holders <- [m \in Msg |-> References(mq, m)]

LifetimeSpec == Lifetime!Spec

-----------------------------------------------------------------------------
(* What the comments say and the code does not do                          *)

(***************************************************************************)
(* message.c:62 "no refrence, delete it": the store keeps no message       *)
(* without a reference.                                                    *)
(***************************************************************************)
NoUnreferencedMessage ==
  \A m \in DOMAIN store : References(mq, m) # {}

(***************************************************************************)
(* subtree.h:11 "the subscriber": the Client a node points to is that of a *)
(* session.                                                                *)
(***************************************************************************)
SubscriberIsLive ==
  \A f \in Filter : \A i \in DOMAIN subtree[f] : subtree[f][i].client \in sessions

=============================================================================
