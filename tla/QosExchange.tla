----------------------------- MODULE QosExchange ----------------------------
(***************************************************************************)
(* Clients, the broker, and the packets between them.  The steps of the    *)
(* broker are the actions of Broker, each taking its packet from a         *)
(* connection and putting its reply there; a connection is a stream in     *)
(* each direction that neither loses nor reorders (TCP) until it is lost   *)
(* as a whole.                                                             *)
(*                                                                         *)
(* The clients are not part of the repository.  They follow MQTT 3.1 and   *)
(* 3.1.1 (README.md:3): a publisher may repeat a packet that has not been  *)
(* acknowledged, on the same connection (3.1) or on the next one; a        *)
(* subscriber answers every packet, and passes a QoS 2 message on when it  *)
(* first sees its identifier.  A name is published once, and stands for    *)
(* the content of its publication.                                         *)
(***************************************************************************)
EXTENDS Broker

CONSTANTS
  PubQos,       (* the QoS of publications, and                            *)
  SubQos,       (* of subscriptions                                        *)
  PidOf,        (* the packet identifier a client uses for each name       *)
  MaxRepeats    (* bound on the packets a publisher sends again            *)

ASSUME ExchangeAssumption ==
  /\ PubQos \cup SubQos \subseteq Qos
  /\ PidOf \in [Name -> InPid]
  /\ MaxRepeats \in Nat
  /\ \E ids \in [Client -> ClientId] : IsInjective(ids)

VARIABLES
  subscribers,  (* the clients that have subscribed, to #                  *)
  inp, out,     (* packets from, and to, each client                       *)
  pub,          (* what the publisher of each name waits for               *)
  repeats,      (* packets sent again                                      *)
  receiving,    (* QoS 2 identifiers each client holds until PUBREL        *)
  delivered     (* how often each client has got each name                 *)

clientVars == <<pub, repeats, receiving, delivered>>
exchangeVars == <<vars, subscribers, inp, out, clientVars>>

Publish(t, q, pid) == [type |-> "PUBLISH", topic |-> t, qos |-> q, pid |-> pid]
Ack(type, pid) == [type |-> type, pid |-> pid]
Connect(id) == [type |-> "CONNECT", id |-> id]

Acks == {"PUBACK", "PUBREC", "PUBREL", "PUBCOMP"}
Packet ==
  [type : {"PUBLISH"}, topic : Name, qos : Qos, pid : PacketId \cup {NoPid}]
  \cup [type : Acks, pid : PacketId] \cup [type : {"CONNECT"}, id : ClientId]
  \cup {[type |-> "CONNACK"]}

(* by: the publisher; sent: how often it sent the PUBLISH; broken: its     *)
(* connection was lost on the way.                                         *)
Pub == [state : {"new", "done"} \cup Acks, qos : Qos, by : Client, sent : Nat,
        broken : BOOLEAN]

ExchangeTypeOK ==
  /\ TypeOK
  /\ subscribers \subseteq Client
  /\ inp \in [Client -> Seq(Packet)] /\ out \in [Client -> Seq(Packet)]
  /\ pub \in [Name -> Pub]
  /\ repeats \in 0 .. MaxRepeats
  /\ receiving \in [Client -> SUBSET PacketId]
  /\ delivered \in [Client -> [Name -> Nat]]

(***************************************************************************)
(* All the clients have connected, each with an id of its own, and the     *)
(* subscribers among them have subscribed.                                 *)
(***************************************************************************)
ExchangeInit ==
  /\ running = TRUE
  /\ sessions = Client
  /\ client_id = CHOOSE ids \in [Client -> ClientId] : IsInjective(ids)
  /\ packet_id_source = [c \in Client |-> 1 % PidMod]
  /\ mq = [c \in Client |-> EmptyList]
  /\ store = [m \in {} |-> m]
  /\ subscribers \in SUBSET Client
  /\ \E q \in SubQos :
       subtree = [f \in Filter |->
         IF f = Hash THEN SetToSeq({[client |-> c, qos |-> q] : c \in subscribers})
         ELSE <<>>]
  /\ closing = NULL
  /\ inp = [c \in Client |-> <<>>]
  /\ out = [c \in Client |-> <<>>]
  /\ pub \in [Name -> [state : {"new"}, qos : PubQos, by : Client, sent : {0},
                     broken : {FALSE}]]
  /\ repeats = 0
  /\ receiving = [c \in Client |-> {}]
  /\ delivered = [c \in Client |-> [t \in Name |-> 0]]

-----------------------------------------------------------------------------
(* The broker                                                              *)

Put(chan, c, s) == [chan EXCEPT ![c] = @ \o s]

(* The reply p to c, unless the write fails or the process has ended.      *)
Answer(c, p) ==
  out' = IF running' /\ closing' = NULL THEN Put(out, c, <<p>>) ELSE out

(* What an acknowledgement from c has to find in the list of c.            *)
Awaited(c, p) ==
  Waiting(mq[c], [PUBACK |-> "WAIT_FOR_PUBACK", PUBREC |-> "WAIT_FOR_PUBREC",
                  PUBREL |-> "WAIT_FOR_PUBREL", PUBCOMP |-> "WAIT_FOR_PUBCOMP"][p.type],
          p.pid)

Handle(c, p) ==
  \/ /\ p.type = "CONNECT"
     /\ HandleConnect(c, p.id) /\ Answer(c, [type |-> "CONNACK"])
  \/ /\ p.type = "PUBLISH" /\ p.qos = 0
     /\ HandlePublish(c, p.topic, 0) /\ UNCHANGED out
  \/ /\ p.type = "PUBLISH" /\ p.qos = 1
     /\ HandlePublish(c, p.topic, 1) /\ Answer(c, Ack("PUBACK", p.pid))
  \/ /\ p.type = "PUBLISH" /\ p.qos = 2
     /\ HandlePublish2(c, p.topic, p.pid) /\ Answer(c, Ack("PUBREC", p.pid))
  \/ /\ p.type = "PUBREL"
     /\ HandlePubrel(c, p.pid) /\ Answer(c, Ack("PUBCOMP", p.pid))
  \/ /\ p.type = "PUBREC"
     /\ HandlePubrec(c, p.pid) /\ Answer(c, Ack("PUBREL", p.pid))
  \/ p.type = "PUBACK" /\ HandlePuback(c, p.pid) /\ UNCHANGED out
  \/ p.type = "PUBCOMP" /\ HandlePubcomp(c, p.pid) /\ UNCHANGED out
  \/ p.type \in Acks /\ Awaited(c, p) = {} /\ UNCHANGED <<vars, out>>

(* iotbroker_read_packet of a whole packet.                                *)
BrokerReads(c) ==
  /\ Serves(c) /\ inp[c] # <<>>
  /\ Handle(c, Head(inp[c]))
  /\ inp' = [inp EXCEPT ![c] = Tail(@)]
  /\ UNCHANGED <<subscribers, clientVars>>

(* S from its greatest element down.                                       *)
Descending(S) ==
  {s \in [1 .. Cardinality(S) -> S] : \A i, j \in DOMAIN s : i < j => s[i] > s[j]}

(***************************************************************************)
(* iotbroker_write_packet: what it takes from the outbound entries goes to *)
(* the connection, newest first, but the entry whose write fails.          *)
(***************************************************************************)
BrokerWrites(c) ==
  /\ WritePacket(c)
  /\ LET gone == {p \in Outbound(mq[c]) : p \notin Outbound(mq'[c])}
         sent == IF closing' = c THEN gone \ {Min(gone)} ELSE gone
         packet(p) == LET e == mq[c][p]
                      IN  Publish(store[e.ms].topic, e.qos,
                                  IF e.qos = 0 THEN NoPid ELSE mq'[c][p].packet_id)
     IN  \E order \in Descending(sent) :
           out' = Put(out, c, [i \in 1 .. Cardinality(sent) |-> packet(order[i])])
  /\ UNCHANGED <<subscribers, inp, clientVars>>

(* The peer has closed, or the connection has failed.                      *)
ConnectionFails(c) ==
  /\ ReadFails(c)
  /\ UNCHANGED <<subscribers, inp, out, clientVars>>

(* Whatever is on the way in either direction is lost.                     *)
BrokerDisconnects(c) ==
  /\ Disconnect(c)
  /\ inp' = [inp EXCEPT ![c] = <<>>]
  /\ out' = [out EXCEPT ![c] = <<>>]
  /\ pub' = [t \in Name |-> IF pub[t].by = c /\ pub[t].state \in Acks
                            THEN [pub[t] EXCEPT !.broken = TRUE] ELSE pub[t]]
  /\ receiving' = [receiving EXCEPT ![c] = {}]
  /\ UNCHANGED <<subscribers, repeats, delivered>>

-----------------------------------------------------------------------------
(* The clients                                                             *)

Connected(c) == running /\ c \in sessions

(* A publisher that never subscribed connects again.                       *)
Reconnect(c) ==
  /\ Accept(c) /\ c \notin subscribers
  /\ \E t \in Name : pub[t].by = c /\ pub[t].state # "done"
  /\ \E id \in ClientId \ {client_id[d] : d \in sessions} :
       inp' = Put(inp, c, <<Connect(id)>>)
  /\ UNCHANGED <<subscribers, out, clientVars>>

PublishOf(t) == Publish(t, pub[t].qos, IF pub[t].qos = 0 THEN NoPid ELSE PidOf[t])

ClientPublishes(t) ==
  /\ Connected(pub[t].by) /\ pub[t].state = "new"
  /\ inp' = Put(inp, pub[t].by, <<PublishOf(t)>>)
  /\ pub' = [pub EXCEPT ![t].sent = 1,
                         ![t].state = <<"done", "PUBACK", "PUBREC">>[pub[t].qos + 1]]
  /\ UNCHANGED <<vars, subscribers, out, repeats, receiving, delivered>>

(* The acknowledgement is late, or was lost with an earlier connection.    *)
ClientRepeats(t) ==
  /\ Connected(pub[t].by) /\ pub[t].state \in Acks
  /\ repeats < MaxRepeats
  /\ repeats' = repeats + 1
  /\ \/ /\ pub[t].state = "PUBCOMP"
        /\ inp' = Put(inp, pub[t].by, <<Ack("PUBREL", PidOf[t])>>)
        /\ UNCHANGED pub
     \/ /\ pub[t].state # "PUBCOMP"
        /\ inp' = Put(inp, pub[t].by, <<PublishOf(t)>>)
        /\ pub' = [pub EXCEPT ![t].sent = @ + 1]
  /\ UNCHANGED <<vars, subscribers, out, receiving, delivered>>

(* The publication an acknowledgement p to c is about.                     *)
Mine(c, p) == {t \in Name : pub[t].by = c /\ PidOf[t] = p.pid /\ pub[t].state # "new"}

(* The publisher's half of the handshakes.                                 *)
TakeAck(c, p) ==
  /\ p.type \in {"PUBACK", "PUBREC", "PUBCOMP"}
  /\ pub' = [t \in Name |->
       IF t \notin Mine(c, p) THEN pub[t]
       ELSE IF p.type = "PUBREC" /\ pub[t].state = "PUBREC"
            THEN [pub[t] EXCEPT !.state = "PUBCOMP"]
       ELSE IF p.type = pub[t].state THEN [pub[t] EXCEPT !.state = "done"]
       ELSE pub[t]]
  /\ inp' = IF p.type = "PUBREC" THEN Put(inp, c, <<Ack("PUBREL", p.pid)>>) ELSE inp
  /\ UNCHANGED <<receiving, delivered>>

(* The subscriber's half.                                                  *)
TakePublish(c, p) ==
  /\ p.type = "PUBLISH"
  /\ inp' = CASE p.qos = 0 -> inp
              [] p.qos = 1 -> Put(inp, c, <<Ack("PUBACK", p.pid)>>)
              [] p.qos = 2 -> Put(inp, c, <<Ack("PUBREC", p.pid)>>)
  /\ delivered' = IF p.qos = 2 /\ p.pid \in receiving[c] THEN delivered
                  ELSE [delivered EXCEPT ![c][p.topic] = @ + 1]
  /\ receiving' = IF p.qos = 2 THEN [receiving EXCEPT ![c] = @ \cup {p.pid}]
                  ELSE receiving
  /\ UNCHANGED pub

TakePubrel(c, p) ==
  /\ p.type = "PUBREL"
  /\ inp' = Put(inp, c, <<Ack("PUBCOMP", p.pid)>>)
  /\ receiving' = [receiving EXCEPT ![c] = @ \ {p.pid}]
  /\ UNCHANGED <<pub, delivered>>

TakeConnack(p) ==
  p.type = "CONNACK" /\ UNCHANGED <<inp, pub, receiving, delivered>>

ClientReads(c) ==
  /\ Connected(c) /\ out[c] # <<>>
  /\ out' = [out EXCEPT ![c] = Tail(@)]
  /\ LET p == Head(out[c])
     IN  TakeAck(c, p) \/ TakePublish(c, p) \/ TakePubrel(c, p) \/ TakeConnack(p)
  /\ UNCHANGED <<vars, subscribers, repeats>>

-----------------------------------------------------------------------------

ExchangeNext ==
  \/ \E c \in Client :
       \/ BrokerReads(c) \/ BrokerWrites(c) \/ ConnectionFails(c)
       \/ BrokerDisconnects(c) \/ Reconnect(c) \/ ClientReads(c)
  \/ \E t \in Name : ClientPublishes(t) \/ ClientRepeats(t)

(***************************************************************************)
(* The broker serves every connection that has something for it again and  *)
(* again, however many others come and go (epoll takes ready descriptors   *)
(* in turn: EventLoop), and clients read what they are sent.  Nobody has   *)
(* to publish, to repeat, or to lose a connection.                         *)
(***************************************************************************)
Fairness ==
  \A c \in Client :
    /\ SF_exchangeVars(BrokerReads(c)) /\ SF_exchangeVars(BrokerWrites(c))
    /\ WF_exchangeVars(BrokerDisconnects(c)) /\ WF_exchangeVars(ClientReads(c))

ExchangeSpec == ExchangeInit /\ [][ExchangeNext]_exchangeVars /\ Fairness

-----------------------------------------------------------------------------

Up == sessions \ {closing}

(* Where packet p, and where a PUBLISH of t, is in a stream.               *)
At(s, p) == {i \in DOMAIN s : s[i] = p}
Publishes(s, t) == {i \in DOMAIN s : s[i].type = "PUBLISH" /\ s[i].topic = t}

(***************************************************************************)
(* The messages that wait for an acknowledgement of one client differ in   *)
(* their identifiers.  send_publish takes the next number of a UINT16      *)
(* (packet_handle.c:726) and never looks whether an older message still    *)
(* has it: this is so as long as no message waits while the counter goes   *)
(* round, and what is said of handshakes and deliveries below rests on it. *)
(***************************************************************************)
IdsDistinct ==
  \A c \in Client : \A p, r \in DOMAIN mq[c] :
    /\ mq[c][p].ps \in Waits /\ mq[c][r].ps \in Waits
    /\ mq[c][p].packet_id = mq[c][r].packet_id
    => p = r

(***************************************************************************)
(* A message sent with QoS 1 or 2 has exactly one packet of its handshake  *)
(* on the way, of the type its state waits for or will make the client     *)
(* send: no identifier of one direction ends a handshake of the other, and *)
(* no handshake of a connection that lasts is left without a packet that   *)
(* can end it (packet_handle.c:379-426, :571-593 and :695-754).  The       *)
(* client holds a QoS 2 identifier exactly between its PUBREC and the      *)
(* PUBREL, so it never takes a new message for one it holds already.       *)
(***************************************************************************)
OneToken(c, e) ==
  LET sent(p) == Cardinality(At(out[c], p))
      back(type) == Cardinality(At(inp[c], Ack(type, e.packet_id)))
      publish == Publish(store[e.ms].topic, e.qos, e.packet_id)
  IN  /\ e.ps = "WAIT_FOR_PUBACK" => sent(publish) + back("PUBACK") = 1
      /\ e.ps = "WAIT_FOR_PUBREC" => sent(publish) + back("PUBREC") = 1
      /\ e.ps = "WAIT_FOR_PUBCOMP" =>
           sent(Ack("PUBREL", e.packet_id)) + back("PUBCOMP") = 1

(* Between PUBREC and PUBREL.                                              *)
HalfWay(c, e) ==
  \/ e.ps = "WAIT_FOR_PUBREC" /\ At(inp[c], Ack("PUBREC", e.packet_id)) # {}
  \/ e.ps = "WAIT_FOR_PUBCOMP" /\ At(out[c], Ack("PUBREL", e.packet_id)) # {}

TokenPerHandshake ==
  \A c \in Up :
    /\ \A p \in DOMAIN mq[c] : OneToken(c, mq[c][p])
    /\ receiving[c] =
         {mq[c][p].packet_id : p \in {r \in DOMAIN mq[c] : HalfWay(c, mq[c][r])}}

(* The entries of c in state ps whose message has topic t.                 *)
Entries(c, ps, t) ==
  {p \in DOMAIN mq[c] : mq[c][p].ps = ps /\ store[mq[c][p].ms].topic = t}

(* PUBLISHes of t that are on the way from d or held until their PUBREL.   *)
Published(d, t) ==
  Cardinality(Publishes(inp[d], t)) + Cardinality(Entries(d, "WAIT_FOR_PUBREL", t))

(* Copies of t that are in the list of c, or sent to it.                   *)
Queued(c, t) == Cardinality(Entries(c, "WAIT_TO_PUBLISH", t))
Written(c, t) == Cardinality(Publishes(out[c], t))

(* Copies of t that are on their way to subscriber c.                      *)
Transit(c, t) ==
  IF c \notin subscribers \cap sessions THEN 0
  ELSE IF c \notin Up THEN Written(c, t)
  ELSE Written(c, t) + Queued(c, t)
         + IF pub[t].by \in Up THEN Published(pub[t].by, t) ELSE 0

(***************************************************************************)
(* No subscriber gets a publication more often than its publisher sent the *)
(* PUBLISH: acknowledgements, late, repeated or for an identifier used in  *)
(* both directions, publish nothing twice.                                 *)
(***************************************************************************)
NoExtraCopy ==
  \A c \in Client, t \in Name : delivered[c][t] + Transit(c, t) <= pub[t].sent

(***************************************************************************)
(* The handlers, lists and identifiers deliver what Delivery promises:     *)
(* nothing is lost but with a connection, nothing is delivered that was    *)
(* not published, and a copy is delivered once, to whom it is meant for.   *)
(***************************************************************************)
D == INSTANCE Delivery WITH
  up <- Up,
  transit <- [c \in Client |-> [t \in Name |-> Transit(c, t)]]

DeliverySpec == D!Spec

(* A publication does not stay on its way for ever.                        *)
CopiesArrive == D!Arrives

(***************************************************************************)
(* The publisher's handshake ends, unless its connection or the process    *)
(* does first.                                                             *)
(***************************************************************************)
HandshakeEnds ==
  \A t \in Name :
    pub[t].state \in Acks ~> pub[t].state = "done" \/ pub[t].broken \/ ~ running

(***************************************************************************)
(* Whatever is queued for a client, and whatever is held for one, leaves   *)
(* its list in the end: the list has no limit and resend_count no reader,  *)
(* so an entry whose handshake never ends would stay as long as the        *)
(* session.                                                                *)
(***************************************************************************)
ListsDrain == \A c \in Client : mq[c] # EmptyList ~> mq[c] = EmptyList

=============================================================================
