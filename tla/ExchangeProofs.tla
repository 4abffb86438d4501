--------------------------- MODULE ExchangeProofs ---------------------------
(***************************************************************************)
(* Proofs about QosExchange: the types, and that no step of the broker     *)
(* makes a copy of a publication out of nothing (NoExtraCopy).             *)
(*                                                                         *)
(* NoExtraCopy is about numbers of packets and list entries, and says      *)
(* nothing of where they come from: a PUBLISH in the stream of somebody    *)
(* else than its publisher, an entry queued for a client that has not      *)
(* subscribed or a second node of a subscriber at # would not break it at  *)
(* once, and would break it some steps later.  XInv excludes these.  With  *)
(* it, every handler that returns moves copies, at most one of each name,  *)
(* out of the publisher's stream and list into the lists of all the        *)
(* subscribers, and from a list into its stream (Flow): the sum Transit    *)
(* takes over them stays, or falls when a connection fails.                *)
(*                                                                         *)
(* The order: counting in streams; XInv, in the first state; what each     *)
(* handler does to the lists, to the numbers of entries and to the         *)
(* streams; Flow; the other steps; the theorems.                           *)
(***************************************************************************)
EXTENDS QosExchange, HandshakeProofs

-----------------------------------------------------------------------------
(* Counting packets in streams                                             *)

(* Where members of S are in s.                                            *)
Positions(s, S) == {i \in DOMAIN s : s[i] \in S}

LEMMA PositionsFinite ==
  ASSUME NEW X, NEW s \in Seq(X), NEW S
  PROVE  /\ IsFiniteSet(Positions(s, S))
         /\ Cardinality(Positions(s, S)) \in Nat
         /\ Cardinality(Positions(s, S)) = 0 <=> Positions(s, S) = {}
<1>1. Len(s) \in Nat /\ DOMAIN s = 1 .. Len(s)
  BY LenProperties
<1>2. IsFiniteSet(1 .. Len(s)) /\ Positions(s, S) \in SUBSET (1 .. Len(s))
  BY <1>1, FS_Interval DEF Positions
<1> QED BY <1>2, FS_Subset, FS_CardinalityType, FS_EmptySet

(* A stream has what its two parts have.                                   *)
LEMMA ConcatPositions ==
  ASSUME NEW X, NEW s \in Seq(X), NEW u \in Seq(X), NEW S
  PROVE  Cardinality(Positions(s \o u, S))
           = Cardinality(Positions(s, S)) + Cardinality(Positions(u, S))
<1> DEFINE n == Len(s)
           k == Len(u)
           A == Positions(s, S)
           B == Positions(u, S)
           C == Positions(s \o u, S)
           B2 == C \ A
           f == [i \in B |-> i + n]
<1>1. /\ n \in Nat /\ k \in Nat /\ DOMAIN s = 1 .. n /\ DOMAIN u = 1 .. k
      /\ DOMAIN (s \o u) = 1 .. n + k
      /\ \A i \in 1 .. n + k : (s \o u)[i] = IF i <= n THEN s[i] ELSE u[i - n]
  <2>1. s \o u \in Seq(X) /\ Len(s \o u) = n + k
    BY ConcatProperties
  <2> QED BY <2>1, LenProperties, ConcatProperties
<1> HIDE DEF n, k
<1>2. A \subseteq C /\ A \subseteq 1 .. n
  BY <1>1 DEF Positions
<1>3. \A i \in B2 : i \in 1 .. n + k /\ i > n /\ i - n \in B
  BY <1>1 DEF Positions
<1>4. \A i \in B : i \in 1 .. k /\ i + n \in B2
  BY <1>1 DEF Positions
<1>5. IsFiniteSet(A) /\ IsFiniteSet(B) /\ IsFiniteSet(C)
  BY PositionsFinite, ConcatProperties
<1> HIDE DEF A, B, C
<1>6. f \in Bijection(B, B2)
  <2>1. f \in [B -> B2]
    BY <1>4
  <2>2. \A a, b \in B : f[a] = f[b] => a = b
    BY <1>1, <1>4
  <2>3. \A t \in B2 : \E a \in B : f[a] = t
    <3> TAKE t \in B2
    <3>1. t - n \in B /\ f[t - n] = t
      BY <1>1, <1>3
    <3> QED BY <3>1
  <2> HIDE DEF f
  <2> QED BY <2>1, <2>2, <2>3, Fun_IsBij
<1>7. IsFiniteSet(B2) /\ Cardinality(B2) = Cardinality(B)
  BY <1>5, <1>6, FS_Bijection, Fun_ExistsBij
<1>8. C = A \cup B2 /\ A \cap B2 = {}
  BY <1>2
<1> HIDE DEF B2
<1>9. Cardinality(C) = Cardinality(A) + Cardinality(B2) - Cardinality({})
  BY <1>5, <1>7, <1>8, FS_Union
<1>10. Cardinality(A) \in Nat /\ Cardinality(B2) \in Nat /\ Cardinality({}) = 0
  BY <1>5, <1>7, FS_CardinalityType, FS_EmptySet
<1> QED BY <1>7, <1>9, <1>10 DEF A, B, C

LEMMA SinglePositions ==
  ASSUME NEW e, NEW S
  PROVE  /\ Cardinality(Positions(<<>>, S)) = 0
         /\ Cardinality(Positions(<<e>>, S)) = IF e \in S THEN 1 ELSE 0
<1>1. Positions(<<>>, S) = {}
  BY DEF Positions
<1>2. DOMAIN <<e>> = {1} /\ <<e>>[1] = e
  OBVIOUS
<1>3. Positions(<<e>>, S) = IF e \in S THEN {1} ELSE {}
  BY <1>2 DEF Positions
<1> QED BY <1>1, <1>3, FS_EmptySet, FS_Singleton

(* What is put at the end counts, and what is taken from the head.         *)
LEMMA PutPositions ==
  ASSUME NEW X, NEW s \in Seq(X), NEW e \in X, NEW S
  PROVE  /\ s \o <<e>> \in Seq(X)
         /\ Cardinality(Positions(s \o <<e>>, S))
              = Cardinality(Positions(s, S)) + IF e \in S THEN 1 ELSE 0
<1>1. <<e>> \in Seq(X)
  OBVIOUS
<1>2. s \o <<e>> \in Seq(X)
  BY <1>1, ConcatProperties
<1>3. Cardinality(Positions(s \o <<e>>, S))
        = Cardinality(Positions(s, S)) + Cardinality(Positions(<<e>>, S))
  BY <1>1, ConcatPositions
<1> QED BY <1>2, <1>3, SinglePositions

LEMMA TailPositions ==
  ASSUME NEW X, NEW s \in Seq(X), s # <<>>, NEW S
  PROVE  /\ Head(s) \in X /\ Tail(s) \in Seq(X)
         /\ Cardinality(Positions(s, S))
              = Cardinality(Positions(Tail(s), S)) + IF Head(s) \in S THEN 1 ELSE 0
<1>1. /\ Head(s) \in X /\ Tail(s) \in Seq(X)
      /\ Len(Tail(s)) = Len(s) - 1
      /\ \A i \in 1 .. Len(Tail(s)) : Tail(s)[i] = s[i + 1]
  BY HeadTailProperties
<1>2. <<Head(s)>> \in Seq(X) /\ Len(<<Head(s)>>) = 1 /\ <<Head(s)>>[1] = s[1]
  BY <1>1
<1>3. s = <<Head(s)>> \o Tail(s)
  <2> DEFINE u == <<Head(s)>> \o Tail(s)
             n == Len(s)
  <2>1. u \in Seq(X) /\ Len(u) = n /\ n \in Nat /\ n # 0
    BY <1>1, <1>2, ConcatProperties, EmptySeq
  <2>2. ASSUME NEW i \in 1 .. n PROVE s[i] = u[i]
    <3>1. u[i] = IF i <= 1 THEN <<Head(s)>>[i] ELSE Tail(s)[i - 1]
      BY <1>1, <1>2, <2>1, ConcatProperties
    <3>2. CASE i = 1
      BY <1>2, <3>1, <3>2
    <3>3. CASE i # 1
      <4>1. i - 1 \in 1 .. Len(Tail(s)) /\ ~ (i <= 1) /\ (i - 1) + 1 = i
        BY <1>1, <2>1, <3>3
      <4> QED BY <1>1, <3>1, <4>1
    <3> QED BY <3>2, <3>3
  <2> HIDE DEF u
  <2>3. s = u
    BY <2>1, <2>2, SeqEqual
  <2> QED BY <2>3 DEF u
<1>4. /\ Cardinality(Positions(<<Head(s)>>, S)) = IF Head(s) \in S THEN 1 ELSE 0
      /\ Cardinality(Positions(Tail(s), S)) \in Nat
  BY <1>1, SinglePositions, PositionsFinite
<1>5. Cardinality(Positions(<<Head(s)>> \o Tail(s), S))
        = Cardinality(Positions(<<Head(s)>>, S)) + Cardinality(Positions(Tail(s), S))
  BY <1>1, <1>2, ConcatPositions
<1> DEFINE a == Cardinality(Positions(<<Head(s)>>, S))
           b == Cardinality(Positions(Tail(s), S))
<1>6. a \in Nat /\ b \in Nat /\ Cardinality(Positions(s, S)) = a + b
  <2>1. a \in Nat
    BY <1>4
  <2> QED BY <1>3, <1>4, <1>5, <2>1
<1>7. a = IF Head(s) \in S THEN 1 ELSE 0
  BY <1>4
<1> HIDE DEF a
<1> QED BY <1>1, <1>6, <1>7

-----------------------------------------------------------------------------
(* The inductive invariant                                                 *)

(* ExchangeTypeOK without the variables of the broker.                     *)
ExchangeTypeRest ==
  /\ subscribers \subseteq Client
  /\ inp \in [Client -> Seq(Packet)] /\ out \in [Client -> Seq(Packet)]
  /\ pub \in [Name -> Pub]
  /\ repeats \in 0 .. MaxRepeats
  /\ receiving \in [Client -> SUBSET PacketId]
  /\ delivered \in [Client -> [Name -> Nat]]

(* A PUBLISH on its way to the broker is that of the publisher of its      *)
(* name; one on its way from the broker goes to a subscriber, and has an   *)
(* identifier unless its QoS is 0.                                         *)
FromClient(c) ==
  {p \in Packet : p.type = "PUBLISH" => pub[p.topic].by = c /\ p = PublishOf(p.topic)}

ToClient(c) ==
  {p \in Packet : p.type = "PUBLISH" =>
                    c \in subscribers /\ (p.qos > 0 => p.pid \in PacketId)}

(* A message is held in its publisher's list, and queued for subscribers.  *)
Owned(c, e) ==
  IF e.ps = "WAIT_FOR_PUBREL" THEN pub[store[e.ms].topic].by = c
                              ELSE c \in subscribers

(* Who has no session has no connection.                                   *)
Away == \A c \in Client \ sessions : inp[c] = <<>> /\ out[c] = <<>> /\ receiving[c] = {}

(* # has one node for each subscriber, and no other filter has any.        *)
TableOfHash ==
  /\ \A f \in Filter \ {Hash} : subtree[f] = <<>>
  /\ OneEach(subtree[Hash])
  /\ {subtree[Hash][i].client : i \in DOMAIN subtree[Hash]} = subscribers

XInv ==
  /\ ExchangeTypeRest
  /\ \A c \in Client : inp[c] \in Seq(FromClient(c)) /\ out[c] \in Seq(ToClient(c))
  /\ \A c \in Client : \A p \in DOMAIN mq[c] : Owned(c, mq[c][p])
  /\ running => Away /\ TableOfHash
  /\ \A t \in Name : pub[t].state = "new" => pub[t].sent = 0

-----------------------------------------------------------------------------
(* The initial states                                                      *)

(* SetToSeq lists each element of a finite set once.                       *)
LEMMA SetToSeqType ==
  ASSUME NEW S, IsFiniteSet(S)
  PROVE  /\ SetToSeq(S) \in Seq(S)
         /\ \A i, j \in DOMAIN SetToSeq(S) : SetToSeq(S)[i] = SetToSeq(S)[j] => i = j
         /\ \A e \in S : \E i \in DOMAIN SetToSeq(S) : SetToSeq(S)[i] = e
<1> DEFINE n == Cardinality(S)
           f == SetToSeq(S)
<1>1. n \in Nat /\ ExistsBijection(1 .. n, S)
  BY FS_CardinalityType
<1>2. \E g \in [1 .. n -> S] : IsInjective(g)
  BY <1>1, Fun_ExistsBij DEF Bijection, Injection
<1>3. f \in [1 .. n -> S] /\ IsInjective(f)
  BY <1>2 DEF SetToSeq
<1>4. IsFiniteSet(1 .. n) /\ Cardinality(1 .. n) = n
  BY <1>1, FS_Interval
<1> HIDE DEF f, n
<1>5. f \in Injection(1 .. n, S)
  BY <1>3 DEF Injection
<1>6. f \in Surjection(1 .. n, S)
  BY <1>4, <1>5, FS_Injection DEF n
<1> USE DEF f
<1>7. f \in Seq(S)
  BY <1>1, <1>3
<1> QED BY <1>3, <1>6, <1>7 DEF Surjection, IsInjective

LEMMA InitXInv == ExchangeInit => IInv /\ HInv /\ XInv
<1> SUFFICES ASSUME ExchangeInit PROVE IInv /\ HInv /\ XInv
  OBVIOUS
<1>1. PICK q \in SubQos : subtree = [f \in Filter |->
         IF f = Hash THEN SetToSeq({[client |-> c, qos |-> q] : c \in subscribers})
         ELSE <<>>]
  BY DEF ExchangeInit
<1> DEFINE S == {[client |-> c, qos |-> q] : c \in subscribers}
           l == SetToSeq(S)
<1>2. subscribers \subseteq Client /\ q \in Qos /\ Hash \in Filter
  BY ExchangeAssumption DEF ExchangeInit, Filter
<1>3. S \subseteq SubNode
  BY <1>2 DEF SubNode
<1>4. IsFiniteSet(S)
  <2> DEFINE g == [c \in subscribers |-> [client |-> c, qos |-> q]]
  <2>1. IsFiniteSet(subscribers)
    BY <1>2, StoreAssumption, FS_Subset
  <2>2. g \in Surjection(subscribers, S)
    BY DEF Surjection
  <2> QED BY <2>1, <2>2, FS_Surjection
<1>5. /\ l \in Seq(S)
      /\ \A i, j \in DOMAIN l : l[i] = l[j] => i = j
      /\ \A e \in S : \E i \in DOMAIN l : l[i] = e
  BY <1>4, SetToSeqType
<1>6. subtree = [f \in Filter |-> IF f = Hash THEN l ELSE <<>>]
  BY <1>1
<1> HIDE DEF l
<1>7. l \in Seq(SubNode) /\ \A i \in DOMAIN l : l[i] \in S
  BY <1>3, <1>5, SeqMonotonic, LenProperties, ElementOfSeq
<1>8. TypeRest
  <2>1. subtree \in [Filter -> Seq(SubNode)]
    BY <1>6, <1>7, EmptySeq
  <2>2. client_id \in [Client -> ClientId]
    BY ExchangeAssumption DEF ExchangeInit
  <2>3. packet_id_source \in [Client -> PacketId]
    BY StoreAssumption DEF ExchangeInit, PacketId
  <2> QED BY <2>1, <2>2, <2>3 DEF TypeRest, ExchangeInit
<1>9. mq = [c \in Client |-> EmptyList] /\ \A c \in Client : DOMAIN mq[c] = {}
  BY DEF ExchangeInit, EmptyList
<1>10. Agree(mq, store)
  BY EmptyAgrees DEF ExchangeInit
<1>11. IInv
  BY <1>8, <1>9, <1>10 DEF IInv, UnusedEmpty
<1>12. HInv
  BY <1>9 DEF HInv, OutboundIsUnsent, HandshakeFitsQos, HeldUntilReleased
<1>13. TableOfHash
  <2>1. subtree[Hash] = l /\ \A f \in Filter \ {Hash} : subtree[f] = <<>>
    BY <1>2, <1>6
  <2>2. \A i \in DOMAIN l : \E c \in subscribers : l[i] = [client |-> c, qos |-> q]
    BY <1>7
  <2>3. OneEach(l)
    BY <1>5, <2>2 DEF OneEach
  <2>4. \A c \in subscribers : \E i \in DOMAIN l : l[i] = [client |-> c, qos |-> q]
    BY <1>5
  <2>5. {l[i].client : i \in DOMAIN l} \subseteq subscribers
    BY <2>2
  <2>6. subscribers \subseteq {l[i].client : i \in DOMAIN l}
    BY <2>4
  <2> QED BY <2>1, <2>3, <2>5, <2>6 DEF TableOfHash
<1>14. ExchangeTypeRest
  <2>1. pub \in [Name -> Pub]
    <3> DEFINE New == [state : {"new"}, qos : PubQos, by : Client, sent : {0},
                       broken : {FALSE}]
    <3>1. New \subseteq Pub
      <4>1. PubQos \subseteq Qos /\ {"new"} \subseteq {"new", "done"} \cup Acks
            /\ {0} \subseteq Nat /\ {FALSE} \subseteq BOOLEAN
        BY ExchangeAssumption
      <4> QED BY <4>1, Zenon DEF Pub
    <3>2. pub \in [Name -> New]
      BY DEF ExchangeInit
    <3> HIDE DEF New
    <3> QED BY <3>1, <3>2
  <2>2. /\ inp \in [Client -> Seq(Packet)] /\ out \in [Client -> Seq(Packet)]
        /\ receiving \in [Client -> SUBSET PacketId]
        /\ delivered \in [Client -> [Name -> Nat]]
        /\ repeats \in 0 .. MaxRepeats
    BY EmptySeq, ExchangeAssumption DEF ExchangeInit
  <2> QED BY <1>2, <2>1, <2>2 DEF ExchangeTypeRest
<1>15. \A c \in Client : inp[c] \in Seq(FromClient(c)) /\ out[c] \in Seq(ToClient(c))
  BY EmptySeq DEF ExchangeInit
<1>16. Away /\ \A t \in Name : pub[t].sent = 0
  BY DEF ExchangeInit, Away
<1>17. XInv
  BY <1>9, <1>13, <1>14, <1>15, <1>16 DEF XInv
<1> QED BY <1>11, <1>12, <1>17

-----------------------------------------------------------------------------
(* The steps of the broker are steps of Broker                             *)

(* What is on its way to the broker is what Next lets a client send.       *)
LEMMA InboundType ==
  ASSUME XInv, NEW c \in Client, inp[c] # <<>>
  PROVE  LET p == Head(inp[c])
         IN  /\ p \in FromClient(c) /\ p \in Packet
             /\ Tail(inp[c]) \in Seq(FromClient(c))
             /\ p.type = "PUBLISH" =>
                  /\ p.topic \in Name /\ p.qos \in Qos
                  /\ p.pid = IF p.qos = 0 THEN NoPid ELSE PidOf[p.topic]
             /\ p.type = "CONNECT" => p.id \in ClientId
             /\ p.type \in Acks => p.pid \in PacketId
<1> DEFINE p == Head(inp[c])
<1>1. inp[c] \in Seq(FromClient(c))
  BY DEF XInv
<1>2. p \in FromClient(c) /\ Tail(inp[c]) \in Seq(FromClient(c))
  BY <1>1, HeadTailProperties
<1>3. p \in Packet
  BY <1>2 DEF FromClient
<1> HIDE DEF p
<1>4. p.type = "PUBLISH" => p.topic \in Name /\ p.qos \in Qos
  BY <1>3 DEF Packet, Acks
<1>5. p.type = "PUBLISH" => p.pid = IF p.qos = 0 THEN NoPid ELSE PidOf[p.topic]
  BY <1>2 DEF FromClient, PublishOf, Publish
<1>6. p.type = "CONNECT" => p.id \in ClientId
  BY <1>3 DEF Packet, Acks
<1>7. p.type \in Acks => p.pid \in PacketId
  BY <1>3 DEF Packet, Acks
<1> QED BY <1>2, <1>3, <1>4, <1>5, <1>6, <1>7 DEF p

LEMMA ExchangeNextIsNext ==
  ASSUME XInv, [ExchangeNext]_exchangeVars
  PROVE  [Next]_vars
<1>1. ASSUME NEW c \in Client, BrokerReads(c)
      PROVE  [Next]_vars
  <2> DEFINE p == Head(inp[c])
  <2>1. Handle(c, p) /\ inp[c] # <<>>
    BY <1>1 DEF BrokerReads
  <2>2. /\ p.type = "PUBLISH" =>
             p.topic \in Name /\ p.pid = IF p.qos = 0 THEN NoPid ELSE PidOf[p.topic]
        /\ p.type = "CONNECT" => p.id \in ClientId
        /\ p.type \in Acks => p.pid \in PacketId
    BY <2>1, InboundType
  <2> HIDE DEF p
  <2>3. CASE p.type = "CONNECT" /\ HandleConnect(c, p.id)
    BY <2>2, <2>3 DEF Next
  <2>4. CASE p.type = "PUBLISH" /\ HandlePublish(c, p.topic, 0)
    BY <2>2, <2>4 DEF Next
  <2>5. CASE p.type = "PUBLISH" /\ HandlePublish(c, p.topic, 1)
    BY <2>2, <2>5 DEF Next
  <2>6. CASE p.type = "PUBLISH" /\ p.qos = 2 /\ HandlePublish2(c, p.topic, p.pid)
    <3>1. p.pid \in InPid /\ p.topic \in Name
      BY <2>2, <2>6, ExchangeAssumption
    <3> QED BY <2>6, <3>1 DEF Next
  <2>7. CASE p.type = "PUBREL" /\ HandlePubrel(c, p.pid)
    BY <2>2, <2>7 DEF Next, Acks
  <2>8. CASE p.type = "PUBREC" /\ HandlePubrec(c, p.pid)
    BY <2>2, <2>8 DEF Next, Acks
  <2>9. CASE p.type = "PUBACK" /\ HandlePuback(c, p.pid)
    BY <2>2, <2>9 DEF Next, Acks
  <2>10. CASE p.type = "PUBCOMP" /\ HandlePubcomp(c, p.pid)
    BY <2>2, <2>10 DEF Next, Acks
  <2>11. CASE UNCHANGED vars
    BY <2>11
  <2> QED BY <2>1, <2>3, <2>4, <2>5, <2>6, <2>7, <2>8, <2>9, <2>10, <2>11 DEF Handle
<1>2. ASSUME NEW c \in Client,
             \/ BrokerWrites(c) \/ ConnectionFails(c) \/ BrokerDisconnects(c)
             \/ Reconnect(c)
      PROVE  Next
  BY <1>2 DEF Next, BrokerWrites, ConnectionFails, BrokerDisconnects, Reconnect
<1>3. ASSUME NEW c \in Client, ClientReads(c)
      PROVE  UNCHANGED vars
  BY <1>3 DEF ClientReads
<1>4. ASSUME NEW t \in Name, ClientPublishes(t) \/ ClientRepeats(t)
      PROVE  UNCHANGED vars
  BY <1>4 DEF ClientPublishes, ClientRepeats
<1> QED BY <1>1, <1>2, <1>3, <1>4 DEF ExchangeNext, exchangeVars

-----------------------------------------------------------------------------
(* What the handlers do to the lists                                       *)

(* Stored messages keep their topics.                                      *)
TopicsKept == \A n \in DOMAIN store \cap DOMAIN store' : store'[n].topic = store[n].topic

(* List r is q without the entries L; or that with one more, which queues  *)
(* message m.                                                              *)
Without(q, r, L) == DOMAIN r = DOMAIN q \ L /\ \A s \in DOMAIN q \ L : r[s] = q[s]

WithOne(q, r, L, m) ==
  \E p \in Rank \ DOMAIN q, k \in Qos :
    /\ DOMAIN r = (DOMAIN q \ L) \cup {p}
    /\ r[p] = Outgoing(m, k)
    /\ \A s \in DOMAIN q \ L : r[s] = q[s]

LEMMA DerefTopics ==
  ASSUME NEW s, NEW q, NEW L
  PROVE  /\ DOMAIN Deref(s, q, L) \subseteq DOMAIN s
         /\ \A n \in DOMAIN Deref(s, q, L) : Deref(s, q, L)[n].topic = s[n].topic
BY DEF Deref

LEMMA AddingTopics ==
  ASSUME NEW s, NEW m, NEW k
  PROVE  /\ DOMAIN AddReferences(s, m, k) = DOMAIN s
         /\ \A n \in DOMAIN s : AddReferences(s, m, k)[n].topic = s[n].topic
BY DEF AddReferences

LEMMA InsertTopics ==
  ASSUME NEW m \in Msg \ DOMAIN store, NEW t, NEW q, NEW k,
         store' = AddReferences(Insert(store, m, t, q), m, k)
  PROVE  TopicsKept /\ m \in DOMAIN store' /\ store'[m].topic = t
<1> DEFINE mid == Insert(store, m, t, q)
<1>1. /\ DOMAIN mid = DOMAIN store \cup {m} /\ mid[m].topic = t
      /\ \A n \in DOMAIN store : mid[n].topic = store[n].topic
  BY DEF Insert
<1> HIDE DEF mid
<1>2. /\ DOMAIN AddReferences(mid, m, k) = DOMAIN mid
      /\ \A n \in DOMAIN mid : AddReferences(mid, m, k)[n].topic = mid[n].topic
  BY AddingTopics
<1>3. store' = AddReferences(mid, m, k)
  BY DEF mid
<1> QED BY <1>1, <1>2, <1>3 DEF TopicsKept

(* With all the nodes at #, one for each subscriber, a publication visits  *)
(* just these, and queues one entry for each subscriber.                   *)
LEMMA DeliverToHash ==
  ASSUME IInv, TableOfHash, NEW t \in Name, NEW m, NEW q \in Qos,
         Room(Visited(subtree, t)), NEW d \in Client
  PROVE  IF d \in subscribers
         THEN WithOne(mq[d], Deliver(Visited(subtree, t), m, q)[d], {}, m)
         ELSE Deliver(Visited(subtree, t), m, q)[d] = mq[d]
<1> DEFINE H == subtree[Hash]
           new == Deliver(H, m, q)[d]
           top == Top(mq[d])
           nodes == {i \in DOMAIN H : H[i].client = d}
           ranks == {top + k : k \in nodes}
<1>1. Visited(subtree, t) = H
  <2>1. subtree[t] = <<>> /\ subtree[Plus] = <<>> /\ H \in Seq(SubNode)
    BY BrokerAssumption DEF TableOfHash, Filter, IInv, TypeRest
  <2>2. <<>> \o <<>> = <<>> /\ <<>> \o H = H
    BY <2>1, ConcatEmptySeq, EmptySeq
  <2> QED BY <2>1, <2>2 DEF Visited
<1>2. /\ IsList(mq[d]) /\ top \in Nat /\ \A p \in DOMAIN mq[d] : p <= top
  <2>1. IsList(mq[d])
    BY DEF IInv, Agree, AreLists
  <2> QED BY <2>1, TopIsGreatest DEF IsList
<1>3. H \in Seq(SubNode) /\ DOMAIN H = 1 .. Len(H) /\ Len(H) \in Nat
      /\ \A i \in DOMAIN H : H[i].client \in Client /\ H[i].qos \in Qos
  <2>1. H \in Seq(SubNode)
    BY DEF IInv, TypeRest, Filter
  <2>2. DOMAIN H = 1 .. Len(H) /\ Len(H) \in Nat /\ \A i \in DOMAIN H : H[i] \in SubNode
    BY <2>1, LenProperties, ElementOfSeq
  <2> QED BY <2>1, <2>2 DEF SubNode
<1>4. \A i \in nodes : top + i \in Rank
  BY <1>1 DEF Room
<1>5. new = [p \in DOMAIN mq[d] \cup ranks |->
               IF p \in DOMAIN mq[d] THEN mq[d][p]
               ELSE Outgoing(m, Lesser(q, H[p - top].qos))]
  BY DEF Deliver
<1>6. CASE d \in subscribers
  <2>1. PICK k \in DOMAIN H : H[k].client = d
    BY <1>6 DEF TableOfHash
  <2>2. nodes = {k}
    BY <2>1 DEF TableOfHash, OneEach
  <2>3. ranks = {top + k} /\ top + k \in Rank /\ top + k \notin DOMAIN mq[d]
        /\ (top + k) - top = k
    BY <1>2, <1>3, <1>4, <2>1, <2>2
  <2>4. Lesser(q, H[k].qos) \in Qos
    BY <1>3, <2>1 DEF Lesser
  <2> HIDE DEF new, ranks, top, H
  <2>5. /\ DOMAIN new = DOMAIN mq[d] \cup {top + k}
        /\ new[top + k] = Outgoing(m, Lesser(q, H[k].qos))
        /\ \A s \in DOMAIN mq[d] : new[s] = mq[d][s]
    BY <1>5, <2>3
  <2>6. WithOne(mq[d], new, {}, m)
    BY <2>3, <2>4, <2>5 DEF WithOne
  <2> QED BY <1>1, <1>6, <2>6 DEF new
<1>7. CASE d \notin subscribers
  <2>1. nodes = {}
    BY <1>7 DEF TableOfHash
  <2>2. ranks = {}
    BY <2>1
  <2> HIDE DEF ranks
  <2>3. new = [p \in DOMAIN mq[d] |-> mq[d][p]]
    BY <1>5, <2>2
  <2>4. new = mq[d]
    BY <1>2, <2>3 DEF IsList
  <2> QED BY <1>1, <1>7, <2>4
<1> QED BY <1>6, <1>7

LEMMA HandlePublishLists ==
  ASSUME IInv, TableOfHash, NEW c \in Client, NEW t \in Name, NEW q \in 0 .. 1,
         HandlePublish(c, t, q), running'
  PROVE  /\ TopicsKept /\ closing' \in {NULL, c}
         /\ \E m \in Msg :
              /\ m \in DOMAIN store' /\ store'[m].topic = t
              /\ \A d \in Client : IF d \in subscribers
                                    THEN WithOne(mq[d], mq'[d], {}, m)
                                    ELSE mq'[d] = mq[d]
<1> DEFINE H == Visited(subtree, t)
<1>1. PICK m \in Msg \ DOMAIN store :
        /\ Room(H)
        /\ store' = AddReferences(Insert(store, m, t, q), m, Len(H))
        /\ mq' = Deliver(H, m, q)
  BY DEF HandlePublish, Halt
<1>2. q \in Qos
  BY DEF Qos
<1>3. \A d \in Client : IF d \in subscribers THEN WithOne(mq[d], mq'[d], {}, m)
                                              ELSE mq'[d] = mq[d]
  BY <1>1, <1>2, DeliverToHash
<1>4. TopicsKept /\ m \in DOMAIN store' /\ store'[m].topic = t
  BY <1>1, InsertTopics
<1>5. closing' \in {NULL, c}
  BY DEF HandlePublish, Halt, Reply
<1> QED BY <1>3, <1>4, <1>5

LEMMA HandlePublish2Lists ==
  ASSUME IInv, NEW c \in Client, NEW t \in Name, NEW pid, HandlePublish2(c, t, pid)
  PROVE  /\ TopicsKept /\ closing' \in {NULL, c}
         /\ \A d \in Client \ {c} : mq'[d] = mq[d]
         /\ \E m \in Msg, p \in Rank \ DOMAIN mq[c] :
              /\ m \in DOMAIN store' /\ store'[m].topic = t
              /\ DOMAIN mq'[c] = DOMAIN mq[c] \cup {p}
              /\ mq'[c][p] = Incoming(m, pid)
              /\ \A s \in DOMAIN mq[c] : mq'[c][s] = mq[c][s]
<1> DEFINE p == Top(mq[c]) + 1
<1>1. PICK m \in Msg \ DOMAIN store :
        /\ store' = AddReferences(Insert(store, m, t, 2), m, 1)
        /\ mq' = [mq EXCEPT ![c] = ListAdd(@, Incoming(m, pid))]
  BY DEF HandlePublish2
<1>2. DOMAIN mq = Client /\ IsList(mq[c])
  BY DEF IInv, Agree, AreLists
<1>3. p \in Rank \ DOMAIN mq[c]
  <2>1. Top(mq[c]) \in Nat /\ \A s \in DOMAIN mq[c] : s <= Top(mq[c])
    BY <1>2, TopIsGreatest DEF IsList
  <2>2. p \in Rank
    BY DEF HandlePublish2
  <2> QED BY <2>1, <2>2 DEF Rank
<1>4. mq'[c] = ListAdd(mq[c], Incoming(m, pid)) /\ \A d \in Client \ {c} : mq'[d] = mq[d]
  BY <1>1, <1>2
<1>5. /\ DOMAIN mq'[c] = DOMAIN mq[c] \cup {p}
      /\ mq'[c][p] = Incoming(m, pid)
      /\ \A s \in DOMAIN mq[c] : mq'[c][s] = mq[c][s]
  BY <1>3, <1>4 DEF ListAdd
<1>6. TopicsKept /\ m \in DOMAIN store' /\ store'[m].topic = t
  BY <1>1, InsertTopics
<1>7. closing' \in {NULL, c}
  BY DEF HandlePublish2, Reply
<1> HIDE DEF p
<1> QED BY <1>3, <1>4, <1>5, <1>6, <1>7

LEMMA HandlePubrelLists ==
  ASSUME IInv, TableOfHash, NEW c \in Client, NEW pid, HandlePubrel(c, pid), running'
  PROVE  /\ TopicsKept /\ closing' \in {NULL, c}
         /\ \E p \in Waiting(mq[c], "WAIT_FOR_PUBREL", pid) :
              \A d \in Client :
                LET L == IF d = c THEN {p} ELSE {}
                IN  IF d \in subscribers THEN WithOne(mq[d], mq'[d], L, mq[c][p].ms)
                                         ELSE Without(mq[d], mq'[d], L)
<1>1. PICK p \in Rank :
        LET m == mq[c][p].ms
            H == Visited(subtree, store[m].topic)
        IN  /\ IsFirst(p, Waiting(mq[c], "WAIT_FOR_PUBREL", pid))
            /\ Room(H)
            /\ store' = Deref(AddReferences(store, m, Len(H)), mq[c], {p})
            /\ mq' = [Deliver(H, m, store[m].qos) EXCEPT ![c] = ListDel(@, {p})]
  BY DEF HandlePubrel, Halt
<1> DEFINE m == mq[c][p].ms
           t == store[m].topic
           H == Visited(subtree, t)
           mid == Deliver(H, m, store[m].qos)
<1>2. p \in Waiting(mq[c], "WAIT_FOR_PUBREL", pid) /\ p \in DOMAIN mq[c]
  BY <1>1 DEF IsFirst, Waiting
<1>3. m \in DOMAIN store /\ t \in Name /\ store[m].qos \in Qos
  BY <1>2 DEF IInv, Agree, IsStore, Message
<1>4. Room(H) /\ mq' = [mid EXCEPT ![c] = ListDel(@, {p})]
      /\ store' = Deref(AddReferences(store, m, Len(H)), mq[c], {p})
  BY <1>1
<1> HIDE DEF m, t, H
<1>5. \A d \in Client : IF d \in subscribers THEN WithOne(mq[d], mid[d], {}, m)
                                              ELSE mid[d] = mq[d]
  BY <1>3, <1>4, DeliverToHash DEF H
<1>6. DOMAIN mid = Client
  BY DEF Deliver
<1> HIDE DEF mid
<1>7. mq'[c] = ListDel(mid[c], {p}) /\ \A d \in Client \ {c} : mq'[d] = mid[d]
  BY <1>4, <1>6
<1>8. ASSUME NEW d \in Client
      PROVE  LET L == IF d = c THEN {p} ELSE {}
             IN  IF d \in subscribers THEN WithOne(mq[d], mq'[d], L, m)
                                      ELSE Without(mq[d], mq'[d], L)
  <2> DEFINE L == IF d = c THEN {p} ELSE {}
             q == mq[d]
             r == mid[d]
  <2>1. L \subseteq DOMAIN q
    BY <1>2
  <2>2. DOMAIN mq'[d] = DOMAIN r \ L /\ \A s \in DOMAIN r \ L : mq'[d][s] = r[s]
    BY <1>7 DEF ListDel
  <2> HIDE DEF L, r
  <2>3. CASE d \in subscribers
    <3>1. PICK s \in Rank \ DOMAIN q, k \in Qos :
            /\ DOMAIN r = (DOMAIN q \ {}) \cup {s}
            /\ r[s] = Outgoing(m, k)
            /\ \A i \in DOMAIN q \ {} : r[i] = q[i]
      BY <1>5, <2>3, Zenon DEF WithOne, r
    <3>2. /\ DOMAIN mq'[d] = (DOMAIN q \ L) \cup {s}
          /\ mq'[d][s] = Outgoing(m, k)
          /\ \A i \in DOMAIN q \ L : mq'[d][i] = q[i]
      BY <2>1, <2>2, <3>1
    <3> HIDE DEF q
    <3>3. WithOne(q, mq'[d], L, m)
      BY <3>2 DEF WithOne
    <3> QED BY <2>3, <3>3 DEF L, q
  <2>4. CASE d \notin subscribers
    <3>1. r = q
      BY <1>5, <2>4 DEF r
    <3>2. Without(q, mq'[d], L)
      BY <2>2, <3>1 DEF Without
    <3> QED BY <2>4, <3>2 DEF L
  <2> QED BY <2>3, <2>4
<1>9. TopicsKept
  <2> DEFINE mid2 == AddReferences(store, m, Len(H))
  <2>1. DOMAIN mid2 = DOMAIN store /\ \A n \in DOMAIN store : mid2[n].topic = store[n].topic
    BY AddingTopics
  <2>2. store' = Deref(mid2, mq[c], {p})
    BY <1>4
  <2> HIDE DEF mid2
  <2> QED BY <2>1, <2>2, DerefTopics DEF TopicsKept
<1>10. closing' \in {NULL, c}
  BY DEF HandlePubrel, Halt, Reply
<1> QED BY <1>2, <1>8, <1>9, <1>10 DEF m

LEMMA AcknowledgeLists ==
  ASSUME IInv, NEW c \in Client, NEW p, Acknowledge(c, p)
  PROVE  /\ TopicsKept
         /\ Without(mq[c], mq'[c], {p})
         /\ \A d \in Client \ {c} : mq'[d] = mq[d]
<1>1. DOMAIN mq = Client
  BY DEF IInv, Agree, AreLists
<1>2. mq'[c] = ListDel(mq[c], {p}) /\ \A d \in Client \ {c} : mq'[d] = mq[d]
  BY <1>1 DEF Acknowledge
<1>3. Without(mq[c], mq'[c], {p})
  BY <1>2 DEF Without, ListDel
<1>4. TopicsKept
  BY DerefTopics DEF Acknowledge, TopicsKept
<1> QED BY <1>2, <1>3, <1>4

(* PUBREC changes the state of one entry, and writing the lists takes the  *)
(* entries P out of those that wait for it.                                *)
LEMMA HandlePubrecLists ==
  ASSUME IInv, NEW c \in Client, NEW pid, HandlePubrec(c, pid)
  PROVE  /\ TopicsKept /\ closing' \in {NULL, c}
         /\ \A d \in Client \ {c} : mq'[d] = mq[d]
         /\ \E p \in Waiting(mq[c], "WAIT_FOR_PUBREC", pid) :
              /\ DOMAIN mq'[c] = DOMAIN mq[c]
              /\ mq'[c][p] = [mq[c][p] EXCEPT !.ps = "WAIT_FOR_PUBCOMP", !.dir = "MD_IN"]
              /\ \A s \in DOMAIN mq[c] \ {p} : mq'[c][s] = mq[c][s]
<1>1. PICK p \in Rank :
        /\ IsFirst(p, Waiting(mq[c], "WAIT_FOR_PUBREC", pid))
        /\ mq' = [mq EXCEPT
             ![c] = [@ EXCEPT ![p].ps = "WAIT_FOR_PUBCOMP", ![p].dir = "MD_IN"]]
  BY DEF HandlePubrec
<1>2. DOMAIN mq = Client /\ IsList(mq[c])
  BY DEF IInv, Agree, AreLists
<1>3. p \in Waiting(mq[c], "WAIT_FOR_PUBREC", pid) /\ p \in DOMAIN mq[c]
  BY <1>1 DEF IsFirst, Waiting
<1>4. /\ mq'[c] = [mq[c] EXCEPT ![p].ps = "WAIT_FOR_PUBCOMP", ![p].dir = "MD_IN"]
      /\ \A d \in Client \ {c} : mq'[d] = mq[d]
  BY <1>1, <1>2
<1>5. /\ DOMAIN mq'[c] = DOMAIN mq[c]
      /\ mq'[c][p] = [mq[c][p] EXCEPT !.ps = "WAIT_FOR_PUBCOMP", !.dir = "MD_IN"]
      /\ \A s \in DOMAIN mq[c] \ {p} : mq'[c][s] = mq[c][s]
  BY <1>2, <1>3, <1>4 DEF IsList
<1>6. TopicsKept /\ closing' \in {NULL, c}
  BY DEF HandlePubrec, Reply, TopicsKept
<1> QED BY <1>3, <1>4, <1>5, <1>6

LEMMA WritePacketLists ==
  ASSUME IInv, HInv, NEW c \in Client, WritePacket(c)
  PROVE  /\ TopicsKept /\ closing' \in {NULL, c}
         /\ \A d \in Client \ {c} : mq'[d] = mq[d]
         /\ LET P == {p \in Outbound(mq[c]) : p \notin Outbound(mq'[c])}
            IN  /\ P # {} /\ (closing' = NULL => P = Outbound(mq[c]))
                /\ DOMAIN mq'[c] = DOMAIN mq[c] \ {p \in P : mq[c][p].qos = 0}
                /\ \A p \in DOMAIN mq[c] \ P : mq'[c][p] = mq[c][p]
                /\ \A p \in P : mq[c][p].qos > 0 =>
                     \E id \in PacketId : mq'[c][p] = Sent(mq[c][p], id)
<1>1. PICK P \in SUBSET Outbound(mq[c]) :
       LET acked == {p \in P : mq[c][p].qos > 0}
           pid(p) == Advance(packet_id_source[c], Cardinality({r \in acked : r > p}))
       IN  /\ P # {}
           /\ closing' = c \/ (closing' = NULL /\ P = Outbound(mq[c]))
           /\ store' = Deref(store, mq[c], P \ acked)
           /\ mq' = [mq EXCEPT
                ![c] = [p \in DOMAIN @ \ (P \ acked) |->
                          IF p \in acked THEN Sent(mq[c][p], pid(p)) ELSE mq[c][p]]]
  BY DEF WritePacket
<1> DEFINE acked == {p \in P : mq[c][p].qos > 0}
           pid(p) == Advance(packet_id_source[c], Cardinality({r \in acked : r > p}))
<1>2. DOMAIN mq = Client /\ IsList(mq[c]) /\ packet_id_source[c] \in PacketId
  BY DEF IInv, Agree, AreLists, TypeRest
<1>3. P \subseteq DOMAIN mq[c] /\ \A p \in P : mq[c][p].dir = "MD_OUT"
  BY DEF Outbound
<1>4. \A p \in DOMAIN mq[c] : mq[c][p] \in Entry
  BY <1>2 DEF IsList
<1>5. P \ acked = {p \in P : mq[c][p].qos = 0}
  <2>1. \A p \in P : mq[c][p].qos \in 0 .. 2
    BY <1>3, <1>4 DEF Entry, Qos
  <2> QED BY <2>1
<1>6. \A p \in P : pid(p) \in PacketId
  <2> TAKE p \in P
  <2>1. IsFiniteSet(Rank) /\ {r \in acked : r > p} \in SUBSET Rank
    BY <1>2, <1>3, StoreAssumption, FS_Interval DEF IsList, Rank
  <2>2. Cardinality({r \in acked : r > p}) \in Nat
    BY <2>1, FS_Subset, FS_CardinalityType
  <2> QED BY <1>2, <2>2, AdvanceType
<1>7. /\ store' = Deref(store, mq[c], P \ acked)
      /\ mq'[c] = [p \in DOMAIN mq[c] \ (P \ acked) |->
                    IF p \in acked THEN Sent(mq[c][p], pid(p)) ELSE mq[c][p]]
      /\ \A d \in Client \ {c} : mq'[d] = mq[d]
  BY <1>1, <1>2
<1> HIDE DEF pid
<1>8. /\ DOMAIN mq'[c] = DOMAIN mq[c] \ {p \in P : mq[c][p].qos = 0}
      /\ \A p \in DOMAIN mq[c] \ P : mq'[c][p] = mq[c][p]
      /\ \A p \in acked : mq'[c][p] = Sent(mq[c][p], pid(p))
  BY <1>3, <1>5, <1>7
<1>9. \A p \in acked : mq'[c][p].dir = "MD_IN"
  BY <1>3, <1>4, <1>8 DEF Sent, Entry
<1>10. P = {p \in Outbound(mq[c]) : p \notin Outbound(mq'[c])}
  <2>1. ASSUME NEW p \in P PROVE p \in Outbound(mq[c]) /\ p \notin Outbound(mq'[c])
    BY <1>5, <1>8, <1>9 DEF Outbound
  <2>2. ASSUME NEW p \in Outbound(mq[c]) \ P PROVE p \in Outbound(mq'[c])
    BY <1>8 DEF Outbound
  <2> QED BY <2>1, <2>2
<1>11. /\ P # {} /\ (closing' = NULL => P = Outbound(mq[c]))
       /\ \A p \in P : mq[c][p].qos > 0 =>
            \E id \in PacketId : mq'[c][p] = Sent(mq[c][p], id)
  <2>1. P # {} /\ (closing' = c \/ (closing' = NULL /\ P = Outbound(mq[c])))
    BY <1>1
  <2>2. c # NULL
    BY BrokerAssumption
  <2> QED BY <1>6, <1>8, <2>1, <2>2
<1>12. TopicsKept
  BY <1>7, DerefTopics DEF TopicsKept
<1>13. closing' \in {NULL, c}
  BY <1>1
<1> QED BY <1>7, <1>8, <1>10, <1>11, <1>12, <1>13

-----------------------------------------------------------------------------
(* Counting entries                                                        *)

LEMMA EntriesFinite ==
  ASSUME NEW d \in Client, NEW ps, NEW t
  PROVE  /\ IInv => /\ IsFiniteSet(Entries(d, ps, t))
                    /\ Cardinality(Entries(d, ps, t)) \in Nat
         /\ IInv' => /\ IsFiniteSet(Entries(d, ps, t)')
                     /\ Cardinality(Entries(d, ps, t)') \in Nat
<1>1. IsFiniteSet(Rank)
  BY StoreAssumption, FS_Interval DEF Rank
<1>2. ASSUME IInv
      PROVE  IsFiniteSet(Entries(d, ps, t)) /\ Cardinality(Entries(d, ps, t)) \in Nat
  <2>1. Entries(d, ps, t) \in SUBSET Rank
    BY <1>2 DEF Entries, IInv, Agree, AreLists, IsList
  <2> QED BY <1>1, <2>1, FS_Subset, FS_CardinalityType
<1>3. ASSUME IInv'
      PROVE  IsFiniteSet(Entries(d, ps, t)') /\ Cardinality(Entries(d, ps, t)') \in Nat
  <2>1. Entries(d, ps, t)' \in SUBSET Rank
    BY <1>3 DEF Entries, IInv, Agree, AreLists, IsList
  <2> QED BY <1>1, <2>1, FS_Subset, FS_CardinalityType
<1> QED BY <1>2, <1>3

(* Entries that stay as they are stay with their topics.                   *)
LEMMA TopicStays ==
  ASSUME IInv, IInv', TopicsKept, NEW d \in Client,
         NEW p \in DOMAIN mq[d] \cap DOMAIN mq'[d], mq'[d][p].ms = mq[d][p].ms
  PROVE  store'[mq'[d][p].ms].topic = store[mq[d][p].ms].topic
<1>1. mq[d][p].ms \in DOMAIN store
  BY DEF IInv, Agree
<1>2. mq'[d][p].ms \in DOMAIN store'
  BY DEF IInv, Agree
<1> QED BY <1>1, <1>2 DEF TopicsKept

LEMMA EntriesWithout ==
  ASSUME IInv, IInv', TopicsKept, NEW d \in Client, NEW L,
         Without(mq[d], mq'[d], L), NEW ps, NEW t
  PROVE  Entries(d, ps, t)' = Entries(d, ps, t) \ L
<1>1. \A p \in DOMAIN mq[d] \ L :
        /\ p \in DOMAIN mq'[d] /\ mq'[d][p] = mq[d][p]
        /\ store'[mq'[d][p].ms].topic = store[mq[d][p].ms].topic
  BY TopicStays DEF Without
<1>2. DOMAIN mq'[d] = DOMAIN mq[d] \ L
  BY DEF Without
<1> QED BY <1>1, <1>2 DEF Entries

LEMMA OldWithOne ==
  ASSUME IInv, IInv', TopicsKept, NEW d \in Client, NEW L, NEW m, NEW r,
         r \notin DOMAIN mq[d], DOMAIN mq'[d] = (DOMAIN mq[d] \ L) \cup {r},
         \A s \in DOMAIN mq[d] \ L : mq'[d][s] = mq[d][s]
  PROVE  \A p \in DOMAIN mq[d] \ L :
           /\ p \in DOMAIN mq'[d] /\ mq'[d][p] = mq[d][p]
           /\ store'[mq'[d][p].ms].topic = store[mq[d][p].ms].topic
BY TopicStays

LEMMA EntriesWithOne ==
  ASSUME IInv, IInv', TopicsKept, NEW d \in Client, NEW L, NEW m,
         WithOne(mq[d], mq'[d], L, m), NEW t,
         NEW ps \in PublishState \ {"WAIT_TO_PUBLISH"}
  PROVE  Entries(d, ps, t)' = Entries(d, ps, t) \ L
<1>1. PICK r \in Rank \ DOMAIN mq[d], k \in Qos :
        /\ DOMAIN mq'[d] = (DOMAIN mq[d] \ L) \cup {r}
        /\ mq'[d][r] = Outgoing(m, k)
        /\ \A s \in DOMAIN mq[d] \ L : mq'[d][s] = mq[d][s]
  BY DEF WithOne
<1>2. \A p \in DOMAIN mq[d] \ L :
        /\ p \in DOMAIN mq'[d] /\ mq'[d][p] = mq[d][p]
        /\ store'[mq'[d][p].ms].topic = store[mq[d][p].ms].topic
  BY <1>1, OldWithOne
<1>3. mq'[d][r].ps = "WAIT_TO_PUBLISH"
  BY <1>1 DEF Outgoing
<1> QED BY <1>1, <1>2, <1>3 DEF Entries

LEMMA QueuedWithOne ==
  ASSUME IInv, IInv', TopicsKept, NEW d \in Client, NEW L, NEW m,
         WithOne(mq[d], mq'[d], L, m), NEW t,
         \A p \in L : p \notin Entries(d, "WAIT_TO_PUBLISH", t)
  PROVE  /\ store'[m].topic = t => Queued(d, t)' = Queued(d, t) + 1
         /\ store'[m].topic # t => Queued(d, t)' = Queued(d, t)
<1>1. PICK r \in Rank \ DOMAIN mq[d], k \in Qos :
        /\ DOMAIN mq'[d] = (DOMAIN mq[d] \ L) \cup {r}
        /\ mq'[d][r] = Outgoing(m, k)
        /\ \A s \in DOMAIN mq[d] \ L : mq'[d][s] = mq[d][s]
  BY DEF WithOne
<1>2. \A p \in DOMAIN mq[d] \ L :
        /\ p \in DOMAIN mq'[d] /\ mq'[d][p] = mq[d][p]
        /\ store'[mq'[d][p].ms].topic = store[mq[d][p].ms].topic
  BY <1>1, OldWithOne
<1>3. mq'[d][r].ps = "WAIT_TO_PUBLISH" /\ mq'[d][r].ms = m
  BY <1>1 DEF Outgoing
<1> DEFINE A == Entries(d, "WAIT_TO_PUBLISH", t)
           B == Entries(d, "WAIT_TO_PUBLISH", t)'
<1>4. B = IF store'[m].topic = t THEN A \cup {r} ELSE A
  BY <1>1, <1>2, <1>3 DEF Entries
<1>5. IsFiniteSet(A) /\ r \notin A
  <2>1. r \notin A
    BY <1>1 DEF Entries
  <2> QED BY <2>1, EntriesFinite
<1> HIDE DEF A, B
<1>6. Cardinality(A \cup {r}) = Cardinality(A) + 1
  BY <1>5, FS_AddElement
<1>7. /\ store'[m].topic = t => Cardinality(B) = Cardinality(A) + 1
      /\ store'[m].topic # t => Cardinality(B) = Cardinality(A)
  BY <1>4, <1>6
<1> QED BY <1>7 DEF A, B, Queued

LEMMA QueuedWithFirst ==
  ASSUME IInv, IInv', TopicsKept, NEW d \in Client, NEW m,
         WithOne(mq[d], mq'[d], {}, m), NEW t
  PROVE  /\ store'[m].topic = t => Queued(d, t)' = Queued(d, t) + 1
         /\ store'[m].topic # t => Queued(d, t)' = Queued(d, t)
<1> DEFINE L == {}
<1>1. WithOne(mq[d], mq'[d], L, m)
  OBVIOUS
<1>2. \A p \in L : p \notin Entries(d, "WAIT_TO_PUBLISH", t)
  OBVIOUS
<1> HIDE DEF L
<1> QED BY <1>1, <1>2, QueuedWithOne

(* What client c holds for t until its PUBREL.                             *)
Held(c, t) == Cardinality(Entries(c, "WAIT_FOR_PUBREL", t))

(***************************************************************************)
(* What a handler that reads a PUBLISH of the topics T from c does to the  *)
(* numbers of entries: what it takes is held, or published for everybody,  *)
(* and what it publishes is c's.                                           *)
(***************************************************************************)
Counts(c, T) ==
  /\ \A d \in Client \ {c}, t \in Name : Held(d, t)' = Held(d, t)
  /\ \A t \in Name : \E k \in 0 .. 1 :
       /\ k = 1 => pub[t].by = c
       /\ Held(c, t) + (IF t \in T THEN 1 ELSE 0) = Held(c, t)' + k
       /\ \A d \in subscribers : Queued(d, t)' = Queued(d, t) + k

AllOwned == \A c \in Client : \A p \in DOMAIN mq[c] : Owned(c, mq[c][p])

LEMMA HeldNat ==
  ASSUME NEW d \in Client, NEW t
  PROVE  /\ IInv => Held(d, t) \in Nat /\ Queued(d, t) \in Nat
         /\ IInv' => Held(d, t)' \in Nat /\ Queued(d, t)' \in Nat
BY EntriesFinite DEF Held, Queued

(* Handlers that neither queue nor hold nor let go of what is held.        *)
LEMMA QuietCounts ==
  ASSUME IInv, XInv, NEW c \in Client,
         \A d \in Client, t \in Name :
           /\ Entries(d, "WAIT_FOR_PUBREL", t)' = Entries(d, "WAIT_FOR_PUBREL", t)
           /\ Entries(d, "WAIT_TO_PUBLISH", t)' = Entries(d, "WAIT_TO_PUBLISH", t)
  PROVE  Counts(c, {})
<1>1. \A d \in Client, t \in Name :
        /\ Held(d, t)' = Held(d, t) /\ Queued(d, t)' = Queued(d, t)
        /\ Held(d, t) \in Nat /\ Queued(d, t) \in Nat
  BY HeldNat DEF Held, Queued
<1>2. subscribers \subseteq Client
  BY DEF XInv, ExchangeTypeRest
<1>3. \A t \in Name : LET k == 0 IN
        /\ k \in 0 .. 1 /\ (k = 1 => pub[t].by = c)
        /\ Held(c, t) + (IF t \in {} THEN 1 ELSE 0) = Held(c, t)' + k
        /\ \A d \in subscribers : Queued(d, t)' = Queued(d, t) + k
  BY <1>1, <1>2
<1> QED BY <1>1, <1>3 DEF Counts

(* Entries that stay, or are Incoming and of their publisher, are owned.   *)
LEMMA StaysOwned ==
  ASSUME IInv, IInv', XInv, TopicsKept, UNCHANGED <<subscribers, pub>>,
         NEW d \in Client, NEW p \in DOMAIN mq[d] \cap DOMAIN mq'[d],
         mq'[d][p].ms = mq[d][p].ms,
         mq'[d][p].ps = "WAIT_FOR_PUBREL" <=> mq[d][p].ps = "WAIT_FOR_PUBREL"
  PROVE  Owned(d, mq[d][p])'
<1>1. Owned(d, mq[d][p])
  BY DEF XInv
<1>2. store'[mq'[d][p].ms].topic = store[mq[d][p].ms].topic
  BY TopicStays
<1> QED BY <1>1, <1>2 DEF Owned

LEMMA WithOneOwned ==
  ASSUME IInv, IInv', XInv, TopicsKept, UNCHANGED <<subscribers, pub>>,
         NEW d \in subscribers, NEW L, NEW m, WithOne(mq[d], mq'[d], L, m),
         NEW p \in DOMAIN mq'[d]
  PROVE  Owned(d, mq[d][p])'
<1>1. d \in Client
  BY DEF XInv, ExchangeTypeRest
<1>2. PICK r \in Rank \ DOMAIN mq[d], k \in Qos :
        /\ DOMAIN mq'[d] = (DOMAIN mq[d] \ L) \cup {r}
        /\ mq'[d][r] = Outgoing(m, k)
        /\ \A s \in DOMAIN mq[d] \ L : mq'[d][s] = mq[d][s]
  BY DEF WithOne
<1>3. CASE p = r
  BY <1>2, <1>3 DEF Owned, Outgoing
<1>4. CASE p # r
  BY <1>1, <1>2, <1>4, StaysOwned
<1> QED BY <1>3, <1>4

LEMMA WithoutOwned ==
  ASSUME IInv, IInv', XInv, TopicsKept, UNCHANGED <<subscribers, pub>>,
         NEW d \in Client, NEW L, Without(mq[d], mq'[d], L), NEW p \in DOMAIN mq'[d]
  PROVE  Owned(d, mq[d][p])'
BY StaysOwned DEF Without

LEMMA HandlePublishCounts ==
  ASSUME IInv, IInv', XInv, UNCHANGED <<subscribers, pub>>,
         NEW c \in Client, NEW t0 \in Name, NEW q \in 0 .. 1,
         HandlePublish(c, t0, q), running', pub[t0].by = c
  PROVE  Counts(c, {t0}) /\ AllOwned'
<1>1. PICK m \in Msg :
        /\ m \in DOMAIN store' /\ store'[m].topic = t0
        /\ \A d \in Client : IF d \in subscribers
                              THEN WithOne(mq[d], mq'[d], {}, m)
                              ELSE mq'[d] = mq[d]
  BY HandlePublishLists DEF XInv, Serves, Idle, HandlePublish
<1>2. TopicsKept /\ TableOfHash /\ subscribers \subseteq Client
  BY HandlePublishLists DEF XInv, ExchangeTypeRest, Serves, Idle, HandlePublish
<1>3. \A d \in Client \ subscribers : Without(mq[d], mq'[d], {})
  BY <1>1 DEF Without
<1>4. \A d \in Client, t \in Name : Held(d, t)' = Held(d, t) /\ Held(d, t) \in Nat
  <2> TAKE d \in Client, t \in Name
  <2>1. Entries(d, "WAIT_FOR_PUBREL", t)' = Entries(d, "WAIT_FOR_PUBREL", t) \ {}
    <3>1. "WAIT_FOR_PUBREL" \in PublishState \ {"WAIT_TO_PUBLISH"}
      BY DEF PublishState
    <3>2. CASE d \in subscribers
      BY <1>1, <1>2, <3>1, <3>2, EntriesWithOne
    <3>3. CASE d \notin subscribers
      BY <1>2, <1>3, <3>3, EntriesWithout
    <3> QED BY <3>2, <3>3
  <2>2. Entries(d, "WAIT_FOR_PUBREL", t)' = Entries(d, "WAIT_FOR_PUBREL", t)
    BY <2>1
  <2> QED BY <2>2, HeldNat DEF Held
<1>5. \A d \in subscribers, t \in Name :
        Queued(d, t)' = Queued(d, t) + (IF t = t0 THEN 1 ELSE 0)
  <2> TAKE d \in subscribers, t \in Name
  <2>1. /\ store'[m].topic = t => Queued(d, t)' = Queued(d, t) + 1
        /\ store'[m].topic # t => Queued(d, t)' = Queued(d, t)
    <3>1. d \in Client /\ WithOne(mq[d], mq'[d], {}, m)
      BY <1>1, <1>2
    <3> QED BY <3>1, <1>2, QueuedWithFirst
  <2>2. Queued(d, t) \in Nat
    BY <1>2, HeldNat
  <2> QED BY <1>1, <2>1, <2>2
<1>6. Counts(c, {t0})
  <2>1. ASSUME NEW t \in Name
        PROVE  \E k \in 0 .. 1 :
                 /\ k = 1 => pub[t].by = c
                 /\ Held(c, t) + (IF t \in {t0} THEN 1 ELSE 0) = Held(c, t)' + k
                 /\ \A d \in subscribers : Queued(d, t)' = Queued(d, t) + k
    <3> DEFINE k == IF t = t0 THEN 1 ELSE 0
    <3>1. k \in 0 .. 1 /\ (k = 1 => pub[t].by = c)
      OBVIOUS
    <3>2. Held(c, t) + (IF t \in {t0} THEN 1 ELSE 0) = Held(c, t)' + k
      BY <1>4
    <3>3. \A d \in subscribers : Queued(d, t)' = Queued(d, t) + k
      BY <1>5
    <3> HIDE DEF k
    <3> QED BY <3>1, <3>2, <3>3
  <2> QED BY <1>4, <2>1 DEF Counts
<1>7. AllOwned'
  <2>1. ASSUME NEW d \in Client, NEW p \in DOMAIN mq'[d]
        PROVE  Owned(d, mq[d][p])'
    BY <1>1, <1>2, <1>3, WithOneOwned, WithoutOwned
  <2> QED BY <2>1 DEF AllOwned
<1> QED BY <1>6, <1>7

LEMMA HandlePublish2Counts ==
  ASSUME IInv, IInv', XInv, UNCHANGED <<subscribers, pub>>,
         NEW c \in Client, NEW t0 \in Name, NEW pid, HandlePublish2(c, t0, pid),
         pub[t0].by = c
  PROVE  Counts(c, {t0}) /\ AllOwned'
<1>1. TopicsKept /\ \A d \in Client \ {c} : mq'[d] = mq[d]
  BY HandlePublish2Lists
<1>2. PICK m \in Msg, p \in Rank \ DOMAIN mq[c] :
        /\ m \in DOMAIN store' /\ store'[m].topic = t0
        /\ DOMAIN mq'[c] = DOMAIN mq[c] \cup {p}
        /\ mq'[c][p] = Incoming(m, pid)
        /\ \A s \in DOMAIN mq[c] : mq'[c][s] = mq[c][s]
  BY HandlePublish2Lists
<1>3. /\ mq'[c][p].ps = "WAIT_FOR_PUBREL"
      /\ store'[mq'[c][p].ms].topic = t0
  BY <1>2 DEF Incoming
<1>4. \A d \in Client \ {c} : Without(mq[d], mq'[d], {})
  BY <1>1 DEF Without
<1>5. \A d \in Client \ {c}, ps \in PublishState, t \in Name :
        Entries(d, ps, t)' = Entries(d, ps, t)
  <2> TAKE d \in Client \ {c}, ps \in PublishState, t \in Name
  <2>1. Entries(d, ps, t)' = Entries(d, ps, t) \ {}
    BY <1>1, <1>4, EntriesWithout
  <2> QED BY <2>1
<1>6. \A s \in DOMAIN mq[c] :
        /\ s \in DOMAIN mq'[c] /\ mq'[c][s] = mq[c][s]
        /\ store'[mq'[c][s].ms].topic = store[mq[c][s].ms].topic
  BY <1>1, <1>2, TopicStays
<1>7. ASSUME NEW t \in Name
      PROVE  /\ Entries(c, "WAIT_TO_PUBLISH", t)' = Entries(c, "WAIT_TO_PUBLISH", t)
             /\ Held(c, t)' = Held(c, t) + IF t = t0 THEN 1 ELSE 0
  <2> DEFINE A == Entries(c, "WAIT_FOR_PUBREL", t)
             B == Entries(c, "WAIT_FOR_PUBREL", t)'
  <2>1. Entries(c, "WAIT_TO_PUBLISH", t)' = Entries(c, "WAIT_TO_PUBLISH", t)
    BY <1>2, <1>3, <1>6 DEF Entries
  <2>2. B = IF t = t0 THEN A \cup {p} ELSE A
    BY <1>2, <1>3, <1>6 DEF Entries
  <2>3. p \notin A /\ IsFiniteSet(A)
    <3>1. p \notin A
      BY DEF Entries
    <3> QED BY <3>1, EntriesFinite
  <2> HIDE DEF A, B
  <2>4. Cardinality(A \cup {p}) = Cardinality(A) + 1 /\ Cardinality(A) \in Nat
    BY <2>3, FS_AddElement, FS_CardinalityType
  <2>5. Cardinality(B) = Cardinality(A) + IF t = t0 THEN 1 ELSE 0
    BY <2>2, <2>4
  <2> QED BY <2>1, <2>5 DEF A, B, Held
<1>8. /\ \A d \in Client, t \in Name : Queued(d, t)' = Queued(d, t)
      /\ \A d \in Client \ {c}, t \in Name : Held(d, t)' = Held(d, t)
  BY <1>5, <1>7 DEF Queued, Held, PublishState
<1>9. subscribers \subseteq Client
  BY DEF XInv, ExchangeTypeRest
<1>10. ASSUME NEW t \in Name
       PROVE  LET k == 0 IN
                /\ k \in 0 .. 1 /\ (k = 1 => pub[t].by = c)
                /\ Held(c, t) + (IF t \in {t0} THEN 1 ELSE 0) = Held(c, t)' + k
                /\ \A d \in subscribers : Queued(d, t)' = Queued(d, t) + k
  <2>1. \A d \in subscribers : Queued(d, t) \in Nat
    BY <1>9, HeldNat
  <2>2. Held(c, t) \in Nat
    BY HeldNat
  <2> QED BY <1>7, <1>8, <1>9, <2>1, <2>2
<1>11. Counts(c, {t0})
  BY <1>8, <1>10 DEF Counts
<1>12. ASSUME NEW d \in Client, NEW s \in DOMAIN mq'[d]
       PROVE  Owned(d, mq[d][s])'
  <2>1. CASE d # c
    BY <1>1, <1>4, <2>1, WithoutOwned
  <2>2. CASE d = c /\ s = p
    BY <1>3, <2>2 DEF Owned
  <2>3. CASE d = c /\ s # p
    BY <1>1, <1>2, <1>6, <2>3, StaysOwned
  <2> QED BY <2>1, <2>2, <2>3
<1> QED BY <1>11, <1>12 DEF AllOwned

LEMMA HandlePubrelCounts ==
  ASSUME IInv, IInv', XInv, UNCHANGED <<subscribers, pub>>,
         NEW c \in Client, NEW pid, HandlePubrel(c, pid), running'
  PROVE  Counts(c, {}) /\ AllOwned'
<1>1. TopicsKept /\ TableOfHash /\ subscribers \subseteq Client
  BY HandlePubrelLists DEF XInv, ExchangeTypeRest, Serves, Idle, HandlePubrel
<1>2. PICK p \in Waiting(mq[c], "WAIT_FOR_PUBREL", pid) :
        \A d \in Client :
          LET L == IF d = c THEN {p} ELSE {}
          IN  IF d \in subscribers THEN WithOne(mq[d], mq'[d], L, mq[c][p].ms)
                                   ELSE Without(mq[d], mq'[d], L)
  BY <1>1, HandlePubrelLists
<1> DEFINE m == mq[c][p].ms
           t0 == store[m].topic
           L(d) == IF d = c THEN {p} ELSE {}
<1>3. p \in DOMAIN mq[c] /\ mq[c][p].ps = "WAIT_FOR_PUBREL"
  BY DEF Waiting
<1>4. pub[t0].by = c
  BY <1>3 DEF XInv, Owned
<1>5. \A d \in subscribers : store'[m].topic = t0
  <2> TAKE d \in subscribers
  <2>1. WithOne(mq[d], mq'[d], L(d), m)
    BY <1>1, <1>2
  <2>2. PICK r \in DOMAIN mq'[d] : mq'[d][r].ms = m
    BY <2>1 DEF WithOne, Outgoing
  <2>3. m \in DOMAIN store'
    BY <1>1, <2>2 DEF IInv, Agree
  <2>4. m \in DOMAIN store
    BY <1>3 DEF IInv, Agree
  <2> QED BY <1>1, <2>3, <2>4 DEF TopicsKept
<1>6. \A d \in Client : IF d \in subscribers THEN WithOne(mq[d], mq'[d], L(d), m)
                                              ELSE Without(mq[d], mq'[d], L(d))
  BY <1>2
<1> HIDE DEF m, t0, L
<1>7. \A d \in Client, t \in Name :
        Entries(d, "WAIT_FOR_PUBREL", t)' = Entries(d, "WAIT_FOR_PUBREL", t) \ L(d)
  <2> TAKE d \in Client, t \in Name
  <2>1. "WAIT_FOR_PUBREL" \in PublishState \ {"WAIT_TO_PUBLISH"}
    BY DEF PublishState
  <2>2. CASE d \in subscribers
    BY <1>1, <1>6, <2>1, <2>2, EntriesWithOne
  <2>3. CASE d \notin subscribers
    BY <1>1, <1>6, <2>3, EntriesWithout
  <2> QED BY <2>2, <2>3
<1>8. \A d \in Client \ {c}, t \in Name : Held(d, t)' = Held(d, t)
  <2> TAKE d \in Client \ {c}, t \in Name
  <2>1. L(d) = {}
    BY DEF L
  <2>2. Entries(d, "WAIT_FOR_PUBREL", t)' = Entries(d, "WAIT_FOR_PUBREL", t) \ L(d)
    BY <1>7
  <2>3. Entries(d, "WAIT_FOR_PUBREL", t)' = Entries(d, "WAIT_FOR_PUBREL", t)
    BY <2>1, <2>2
  <2> QED BY <2>3 DEF Held
<1>9. \A t \in Name : Held(c, t) = Held(c, t)' + IF t = t0 THEN 1 ELSE 0
  <2> TAKE t \in Name
  <2> DEFINE A == Entries(c, "WAIT_FOR_PUBREL", t)
  <2>1. Entries(c, "WAIT_FOR_PUBREL", t)' = A \ {p}
    BY <1>7 DEF L
  <2>2. p \in A <=> t = t0
    BY <1>3 DEF Entries, t0, m
  <2>3. IsFiniteSet(A)
    BY EntriesFinite
  <2> HIDE DEF A
  <2>4. IsFiniteSet(A \ {p}) /\ p \notin A \ {p}
        /\ Cardinality((A \ {p}) \cup {p}) = Cardinality(A \ {p}) + 1
        /\ Cardinality(A \ {p}) \in Nat
    BY <2>3, FS_Subset, FS_AddElement, FS_CardinalityType
  <2>5. IF t = t0 THEN (A \ {p}) \cup {p} = A ELSE A \ {p} = A
    BY <2>2
  <2>6. Cardinality(A) = Cardinality(A \ {p}) + IF t = t0 THEN 1 ELSE 0
    BY <2>4, <2>5
  <2> QED BY <2>1, <2>6 DEF A, Held
<1>10. \A d \in subscribers, t \in Name :
         Queued(d, t)' = Queued(d, t) + IF t = t0 THEN 1 ELSE 0
  <2> TAKE d \in subscribers, t \in Name
  <2>1. d \in Client /\ WithOne(mq[d], mq'[d], L(d), m)
    BY <1>1, <1>6
  <2>2. \A r \in L(d) : r \notin Entries(d, "WAIT_TO_PUBLISH", t)
    BY <1>3 DEF Entries, L
  <2>3. /\ store'[m].topic = t => Queued(d, t)' = Queued(d, t) + 1
        /\ store'[m].topic # t => Queued(d, t)' = Queued(d, t)
    BY <1>1, <2>1, <2>2, QueuedWithOne
  <2>4. Queued(d, t) \in Nat
    BY <2>1, HeldNat
  <2> QED BY <1>5, <2>3, <2>4
<1>11. ASSUME NEW t \in Name
       PROVE  \E k \in 0 .. 1 :
                /\ k = 1 => pub[t].by = c
                /\ Held(c, t) + (IF t \in {} THEN 1 ELSE 0) = Held(c, t)' + k
                /\ \A d \in subscribers : Queued(d, t)' = Queued(d, t) + k
  <2> DEFINE k == IF t = t0 THEN 1 ELSE 0
  <2>1. k \in 0 .. 1 /\ (k = 1 => pub[t].by = c)
    BY <1>4
  <2>2. Held(c, t) \in Nat
    BY HeldNat
  <2>3. Held(c, t) + (IF t \in {} THEN 1 ELSE 0) = Held(c, t)' + k
    BY <1>9, <2>2
  <2>4. \A d \in subscribers : Queued(d, t)' = Queued(d, t) + k
    BY <1>10
  <2> HIDE DEF k
  <2> QED BY <2>1, <2>3, <2>4
<1>12. Counts(c, {})
  BY <1>8, <1>11 DEF Counts
<1>13. ASSUME NEW d \in Client, NEW s \in DOMAIN mq'[d]
       PROVE  Owned(d, mq[d][s])'
  BY <1>1, <1>6, WithOneOwned, WithoutOwned
<1> QED BY <1>12, <1>13 DEF AllOwned

LEMMA HandlePubrecCounts ==
  ASSUME IInv, IInv', XInv, UNCHANGED <<subscribers, pub>>,
         NEW c \in Client, NEW pid, HandlePubrec(c, pid)
  PROVE  Counts(c, {}) /\ AllOwned'
<1>1. TopicsKept /\ \A d \in Client \ {c} : mq'[d] = mq[d]
  BY HandlePubrecLists
<1>2. PICK p \in Waiting(mq[c], "WAIT_FOR_PUBREC", pid) :
        /\ DOMAIN mq'[c] = DOMAIN mq[c]
        /\ mq'[c][p] = [mq[c][p] EXCEPT !.ps = "WAIT_FOR_PUBCOMP", !.dir = "MD_IN"]
        /\ \A s \in DOMAIN mq[c] \ {p} : mq'[c][s] = mq[c][s]
  BY HandlePubrecLists
<1>3. /\ p \in DOMAIN mq[c] /\ mq[c][p].ps = "WAIT_FOR_PUBREC"
      /\ mq'[c][p].ps = "WAIT_FOR_PUBCOMP" /\ mq'[c][p].ms = mq[c][p].ms
  <2>1. p \in DOMAIN mq[c] /\ mq[c][p].ps = "WAIT_FOR_PUBREC"
    BY DEF Waiting
  <2>2. mq[c][p] \in Entry
    BY <2>1 DEF IInv, Agree, AreLists, IsList
  <2> QED BY <1>2, <2>1, <2>2 DEF Entry
<1>4. \A d \in Client : DOMAIN mq'[d] = DOMAIN mq[d] /\ \A s \in DOMAIN mq[d] :
        /\ mq'[d][s].ms = mq[d][s].ms
        /\ \A ps \in {"WAIT_FOR_PUBREL", "WAIT_TO_PUBLISH"} :
             mq'[d][s].ps = ps <=> mq[d][s].ps = ps
  <2> TAKE d \in Client
  <2>1. CASE d # c
    BY <1>1, <2>1
  <2>2. CASE d = c
    <3>1. DOMAIN mq'[c] = DOMAIN mq[c]
      BY <1>2
    <3>2. ASSUME NEW s \in DOMAIN mq[c], s # p
          PROVE  mq'[c][s] = mq[c][s]
      BY <1>2, <3>2
    <3> QED BY <1>3, <2>2, <3>1, <3>2
  <2> QED BY <2>1, <2>2
<1>5. \A d \in Client : \A s \in DOMAIN mq[d] :
        store'[mq'[d][s].ms].topic = store[mq[d][s].ms].topic
  BY <1>1, <1>4, TopicStays
<1>6. Counts(c, {})
  BY <1>4, <1>5, QuietCounts DEF Entries
<1>7. ASSUME NEW d \in Client, NEW s \in DOMAIN mq'[d]
      PROVE  Owned(d, mq[d][s])'
  BY <1>1, <1>4, StaysOwned
<1> QED BY <1>6, <1>7 DEF AllOwned

LEMMA AcknowledgeCounts ==
  ASSUME IInv, IInv', XInv, UNCHANGED <<subscribers, pub>>,
         NEW c \in Client, NEW p \in DOMAIN mq[c], Acknowledge(c, p),
         mq[c][p].ps \in {"WAIT_FOR_PUBACK", "WAIT_FOR_PUBCOMP"}
  PROVE  Counts(c, {}) /\ AllOwned'
<1>1. TopicsKept /\ Without(mq[c], mq'[c], {p})
      /\ \A d \in Client \ {c} : mq'[d] = mq[d]
  BY AcknowledgeLists
<1>2. \A d \in Client : Without(mq[d], mq'[d], IF d = c THEN {p} ELSE {})
  BY <1>1 DEF Without
<1>3. ASSUME NEW d \in Client, NEW t \in Name,
             NEW ps \in {"WAIT_FOR_PUBREL", "WAIT_TO_PUBLISH"}
      PROVE  Entries(d, ps, t)' = Entries(d, ps, t)
  <2>1. Entries(d, ps, t)' = Entries(d, ps, t) \ (IF d = c THEN {p} ELSE {})
    BY <1>1, <1>2, EntriesWithout
  <2>2. d = c => p \notin Entries(d, ps, t)
    BY DEF Entries
  <2> QED BY <2>1, <2>2
<1>4. Counts(c, {})
  BY <1>3, QuietCounts
<1>5. ASSUME NEW d \in Client, NEW s \in DOMAIN mq'[d]
      PROVE  Owned(d, mq[d][s])'
  BY <1>1, <1>2, WithoutOwned
<1> QED BY <1>4, <1>5 DEF AllOwned

-----------------------------------------------------------------------------
(* Counting copies                                                         *)

IsCopy(p, t) == p.type = "PUBLISH" /\ p.topic = t
Copies(s, t) == Cardinality(Publishes(s, t))

LEMMA CopiesArePositions ==
  ASSUME NEW s \in Seq(Packet), NEW t
  PROVE  Publishes(s, t) = Positions(s, {p \in Packet : IsCopy(p, t)})
<1>1. \A i \in DOMAIN s : s[i] \in Packet
  BY ElementOfSeq, LenProperties
<1> QED BY <1>1 DEF Publishes, Positions, IsCopy

LEMMA CopiesNat ==
  ASSUME NEW s \in Seq(Packet), NEW t
  PROVE  Copies(s, t) \in Nat
BY CopiesArePositions, PositionsFinite DEF Copies

LEMMA PutCopies ==
  ASSUME NEW s \in Seq(Packet), NEW e \in Packet, NEW t
  PROVE  /\ s \o <<e>> \in Seq(Packet)
         /\ IsCopy(e, t) => Copies(s \o <<e>>, t) = Copies(s, t) + 1
         /\ ~ IsCopy(e, t) => Copies(s \o <<e>>, t) = Copies(s, t)
<1> DEFINE S == {p \in Packet : IsCopy(p, t)}
           u == s \o <<e>>
<1>1. e \in S <=> IsCopy(e, t)
  OBVIOUS
<1> HIDE DEF S
<1>2. /\ u \in Seq(Packet)
      /\ Cardinality(Positions(u, S)) = Cardinality(Positions(s, S)) + IF e \in S THEN 1 ELSE 0
  BY PutPositions
<1> HIDE DEF u
<1>3. Publishes(u, t) = Positions(u, S) /\ Publishes(s, t) = Positions(s, S)
  BY <1>2, CopiesArePositions DEF S
<1>4. Cardinality(Positions(s, S)) \in Nat
  BY PositionsFinite
<1>5. /\ IsCopy(e, t) => Copies(u, t) = Copies(s, t) + 1
      /\ ~ IsCopy(e, t) => Copies(u, t) = Copies(s, t)
  BY <1>1, <1>2, <1>3, <1>4 DEF Copies
<1> QED BY <1>2, <1>5 DEF u

LEMMA TailCopies ==
  ASSUME NEW s \in Seq(Packet), s # <<>>, NEW t
  PROVE  /\ Head(s) \in Packet /\ Tail(s) \in Seq(Packet)
         /\ IsCopy(Head(s), t) => Copies(s, t) = Copies(Tail(s), t) + 1
         /\ ~ IsCopy(Head(s), t) => Copies(s, t) = Copies(Tail(s), t)
<1> DEFINE S == {p \in Packet : IsCopy(p, t)}
           e == Head(s)
           u == Tail(s)
<1>1. e \in Packet /\ u \in Seq(Packet)
  BY HeadTailProperties
<1>2. e \in S <=> IsCopy(e, t)
  BY <1>1
<1> HIDE DEF S
<1>3. Cardinality(Positions(s, S)) = Cardinality(Positions(u, S)) + IF e \in S THEN 1 ELSE 0
  BY TailPositions
<1> HIDE DEF e, u
<1>4. Publishes(u, t) = Positions(u, S) /\ Publishes(s, t) = Positions(s, S)
  BY <1>1, CopiesArePositions DEF S
<1>5. Cardinality(Positions(u, S)) \in Nat
  BY <1>1, PositionsFinite
<1>6. /\ IsCopy(e, t) => Copies(s, t) = Copies(u, t) + 1
      /\ ~ IsCopy(e, t) => Copies(s, t) = Copies(u, t)
  BY <1>2, <1>3, <1>4, <1>5 DEF Copies
<1> QED BY <1>1, <1>6 DEF e, u

(* What XInv says of the streams to the clients.                           *)
OutboundStreams ==
  out \in [Client -> Seq(Packet)] /\ \A c \in Client : out[c] \in Seq(ToClient(c))

InboundStreams ==
  inp \in [Client -> Seq(Packet)] /\ \A c \in Client : inp[c] \in Seq(FromClient(c))

LEMMA XInvStreams == XInv => OutboundStreams /\ InboundStreams
BY DEF XInv, ExchangeTypeRest, OutboundStreams, InboundStreams

(* An answer puts no copy of a publication into a stream.                  *)
LEMMA AnswerStreams ==
  ASSUME XInv, UNCHANGED subscribers, NEW c \in Client, NEW e \in Packet,
         e.type # "PUBLISH", UNCHANGED out \/ Answer(c, e)
  PROVE  /\ OutboundStreams' /\ \A d \in Client \ {c} : out'[d] = out[d]
         /\ \A d \in Client, t \in Name : Written(d, t)' = Written(d, t)
<1>1. /\ out \in [Client -> Seq(Packet)] /\ \A d \in Client : out[d] \in Seq(ToClient(d))
      /\ \A d \in Client : ToClient(d)' = ToClient(d)
  BY XInvStreams DEF OutboundStreams, ToClient
<1>2. CASE UNCHANGED out
  BY <1>1, <1>2 DEF OutboundStreams, Written
<1>3. CASE out' = Put(out, c, <<e>>)
  <2>1. /\ out'[c] = out[c] \o <<e>>
        /\ \A d \in Client \ {c} : out'[d] = out[d]
        /\ DOMAIN out' = Client /\ out' = [d \in Client |-> out'[d]]
    BY <1>1, <1>3 DEF Put
  <2>2. e \in ToClient(c)
    BY DEF ToClient
  <2>3. out'[c] \in Seq(ToClient(c))
    BY <1>1, <2>1, <2>2, PutPositions
  <2>4. out'[c] \in Seq(Packet) /\ \A t \in Name : Copies(out'[c], t) = Copies(out[c], t)
    BY <1>1, <2>1, PutCopies DEF IsCopy
  <2>5. \A d \in Client : out'[d] \in Seq(Packet)
    BY <1>1, <2>1, <2>4
  <2>6. OutboundStreams'
    BY <1>1, <2>1, <2>3, <2>5 DEF OutboundStreams
  <2>7. \A d \in Client, t \in Name : Written(d, t)' = Written(d, t)
    BY <2>1, <2>4 DEF Copies, Written
  <2> QED BY <2>1, <2>6, <2>7
<1> QED BY <1>2, <1>3 DEF Answer

-----------------------------------------------------------------------------
(* The steps of the broker move copies and make none                       *)

(* A handler that returns: what it does to lists, copies and connections.  *)
Returns(c) ==
  /\ closing' \in {NULL, c} /\ UNCHANGED <<sessions, subtree>>
  /\ AllOwned' /\ OutboundStreams' /\ \A d \in Client \ {c} : out'[d] = out[d]
  /\ \A d \in Client, t \in Name : Written(d, t)' = Written(d, t)

LEMMA HandleReturns ==
  ASSUME IInv, IInv', XInv, UNCHANGED <<subscribers, pub>>,
         NEW c \in Client, BrokerReads(c), running'
  PROVE  /\ Returns(c)
         /\ \E T : /\ Counts(c, T)
                   /\ \A t \in Name : t \in T <=> IsCopy(Head(inp[c]), t)
<1> DEFINE p == Head(inp[c])
<1>1. Handle(c, p) /\ inp[c] # <<>>
  BY DEF BrokerReads
<1>2. /\ p.type = "PUBLISH" =>
           /\ p.topic \in Name /\ p.qos \in Qos
           /\ p.pid = IF p.qos = 0 THEN NoPid ELSE PidOf[p.topic]
      /\ p.type = "CONNECT" => p.id \in ClientId
      /\ p.type \in Acks => p.pid \in PacketId
      /\ p \in FromClient(c)
  BY <1>1, InboundType
<1>3. p.type = "PUBLISH" => pub[p.topic].by = c
  BY <1>2 DEF FromClient
<1> HIDE DEF p
<1>4. p.type \in Acks => p.type # "PUBLISH"
  BY DEF Acks
<1>5. ASSUME p.type # "PUBLISH", Counts(c, {})
      PROVE  \E T : Counts(c, T) /\ \A t \in Name : t \in T <=> IsCopy(p, t)
  <2>1. \A t \in Name : t \in {} <=> IsCopy(p, t)
    BY <1>5 DEF IsCopy
  <2> QED BY <1>5, <2>1
<1>6. ASSUME p.type = "PUBLISH", Counts(c, {p.topic})
      PROVE  \E T : Counts(c, T) /\ \A t \in Name : t \in T <=> IsCopy(p, t)
  <2>1. \A t \in Name : t \in {p.topic} <=> IsCopy(p, t)
    BY <1>6 DEF IsCopy
  <2> QED BY <1>6, <2>1
<1>7. ASSUME NEW type \in Acks, NEW pid \in PacketId
      PROVE  Ack(type, pid) \in Packet /\ Ack(type, pid).type # "PUBLISH"
  <2>1. Ack(type, pid) \in [type : Acks, pid : PacketId]
    BY DEF Ack
  <2>2. Ack(type, pid).type # "PUBLISH"
    BY DEF Ack, Acks
  <2> QED BY <2>1, <2>2, Zenon DEF Packet
<1>8. UNCHANGED <<sessions, subtree, mq, store>> =>
        /\ Counts(c, {}) /\ AllOwned'
  <2> SUFFICES ASSUME UNCHANGED <<sessions, subtree, mq, store>>
               PROVE  Counts(c, {}) /\ AllOwned'
    OBVIOUS
  <2>1. \A d \in Client, t \in Name :
          /\ Entries(d, "WAIT_FOR_PUBREL", t)' = Entries(d, "WAIT_FOR_PUBREL", t)
          /\ Entries(d, "WAIT_TO_PUBLISH", t)' = Entries(d, "WAIT_TO_PUBLISH", t)
    BY DEF Entries
  <2>2. AllOwned'
    BY DEF XInv, AllOwned, Owned
  <2> QED BY <2>1, <2>2, QuietCounts
<1>9. CASE p.type = "CONNECT" /\ HandleConnect(c, p.id) /\ Answer(c, [type |-> "CONNACK"])
  <2>1. [type |-> "CONNACK"] \in Packet
    BY DEF Packet
  <2>2. /\ OutboundStreams' /\ \A d \in Client \ {c} : out'[d] = out[d]
        /\ \A d \in Client, t \in Name : Written(d, t)' = Written(d, t)
    BY <1>9, <2>1, AnswerStreams
  <2>3. closing' \in {NULL, c} /\ UNCHANGED <<sessions, subtree, mq, store>>
    BY <1>9 DEF HandleConnect, Reply
  <2> QED BY <1>5, <1>8, <1>9, <2>2, <2>3 DEF Returns, p
<1>10. CASE p.type = "PUBLISH" /\ p.qos = 0 /\ HandlePublish(c, p.topic, 0) /\ UNCHANGED out
  <2>1. Counts(c, {p.topic}) /\ AllOwned'
    BY <1>2, <1>3, <1>10, HandlePublishCounts
  <2>2. closing' \in {NULL, c} /\ UNCHANGED <<sessions, subtree>>
    BY <1>10 DEF HandlePublish, Halt, Reply
  <2>3. /\ OutboundStreams' /\ \A d \in Client \ {c} : out'[d] = out[d]
        /\ \A d \in Client, t \in Name : Written(d, t)' = Written(d, t)
    <3>1. "PUBACK" \in Acks /\ 1 % PidMod \in PacketId
      BY ResetType DEF Acks
    <3> QED BY <1>7, <1>10, <3>1, AnswerStreams
  <2> QED BY <1>6, <1>10, <2>1, <2>2, <2>3 DEF Returns, p
<1>11. CASE /\ p.type = "PUBLISH" /\ p.qos = 1
            /\ HandlePublish(c, p.topic, 1) /\ Answer(c, Ack("PUBACK", p.pid))
  <2>1. Counts(c, {p.topic}) /\ AllOwned'
    BY <1>2, <1>3, <1>11, HandlePublishCounts
  <2>2. closing' \in {NULL, c} /\ UNCHANGED <<sessions, subtree>>
    BY <1>11 DEF HandlePublish, Halt, Reply
  <2>3. /\ OutboundStreams' /\ \A d \in Client \ {c} : out'[d] = out[d]
        /\ \A d \in Client, t \in Name : Written(d, t)' = Written(d, t)
    <3>1. "PUBACK" \in Acks /\ p.pid \in PacketId
      BY <1>2, <1>11, ExchangeAssumption, BrokerAssumption DEF Acks
    <3> QED BY <1>7, <1>11, <3>1, AnswerStreams
  <2> QED BY <1>6, <1>11, <2>1, <2>2, <2>3 DEF Returns, p
<1>12. CASE /\ p.type = "PUBLISH" /\ p.qos = 2
            /\ HandlePublish2(c, p.topic, p.pid) /\ Answer(c, Ack("PUBREC", p.pid))
  <2>1. Counts(c, {p.topic}) /\ AllOwned'
    BY <1>2, <1>3, <1>12, HandlePublish2Counts
  <2>2. closing' \in {NULL, c} /\ UNCHANGED <<sessions, subtree>>
    BY <1>12 DEF HandlePublish2, Reply
  <2>3. /\ OutboundStreams' /\ \A d \in Client \ {c} : out'[d] = out[d]
        /\ \A d \in Client, t \in Name : Written(d, t)' = Written(d, t)
    <3>1. "PUBREC" \in Acks /\ p.pid \in PacketId
      BY <1>2, <1>12, ExchangeAssumption, BrokerAssumption DEF Acks
    <3> QED BY <1>7, <1>12, <3>1, AnswerStreams
  <2> QED BY <1>6, <1>12, <2>1, <2>2, <2>3 DEF Returns, p
<1>13. CASE p.type = "PUBREL" /\ HandlePubrel(c, p.pid) /\ Answer(c, Ack("PUBCOMP", p.pid))
  <2>1. Counts(c, {}) /\ AllOwned'
    BY <1>13, HandlePubrelCounts
  <2>2. closing' \in {NULL, c} /\ UNCHANGED <<sessions, subtree>>
    BY <1>13 DEF HandlePubrel, Halt, Reply
  <2>3. /\ OutboundStreams' /\ \A d \in Client \ {c} : out'[d] = out[d]
        /\ \A d \in Client, t \in Name : Written(d, t)' = Written(d, t)
    <3>1. "PUBCOMP" \in Acks /\ p.pid \in PacketId
      BY <1>2, <1>13 DEF Acks
    <3> QED BY <1>7, <1>13, <3>1, AnswerStreams
  <2> QED BY <1>5, <1>13, <2>1, <2>2, <2>3 DEF Returns, p
<1>14. CASE p.type = "PUBREC" /\ HandlePubrec(c, p.pid) /\ Answer(c, Ack("PUBREL", p.pid))
  <2>1. Counts(c, {}) /\ AllOwned'
    BY <1>14, HandlePubrecCounts
  <2>2. closing' \in {NULL, c} /\ UNCHANGED <<sessions, subtree>>
    BY <1>14 DEF HandlePubrec, Reply
  <2>3. /\ OutboundStreams' /\ \A d \in Client \ {c} : out'[d] = out[d]
        /\ \A d \in Client, t \in Name : Written(d, t)' = Written(d, t)
    <3>1. "PUBREL" \in Acks /\ p.pid \in PacketId
      BY <1>2, <1>14 DEF Acks
    <3> QED BY <1>7, <1>14, <3>1, AnswerStreams
  <2> QED BY <1>5, <1>14, <2>1, <2>2, <2>3 DEF Returns, p
<1>15. ASSUME p.type \in {"PUBACK", "PUBCOMP"},
              HandlePuback(c, p.pid) \/ HandlePubcomp(c, p.pid), UNCHANGED out
       PROVE  /\ Returns(c)
              /\ \E T : Counts(c, T) /\ \A t \in Name : t \in T <=> IsCopy(p, t)
  <2>1. PICK r \in DOMAIN mq[c] :
          Acknowledge(c, r) /\ mq[c][r].ps \in {"WAIT_FOR_PUBACK", "WAIT_FOR_PUBCOMP"}
    BY <1>15 DEF HandlePuback, HandlePubcomp, IsFirst, Waiting
  <2>2. Counts(c, {}) /\ AllOwned'
    BY <2>1, AcknowledgeCounts
  <2>3. closing' \in {NULL, c} /\ UNCHANGED <<sessions, subtree>>
    BY <1>15, <2>1 DEF Acknowledge, HandlePuback, HandlePubcomp, Serves, Idle
  <2>4. /\ OutboundStreams' /\ \A d \in Client \ {c} : out'[d] = out[d]
        /\ \A d \in Client, t \in Name : Written(d, t)' = Written(d, t)
    <3>1. "PUBACK" \in Acks /\ 1 % PidMod \in PacketId
      BY ResetType DEF Acks
    <3> QED BY <1>7, <1>15, <3>1, AnswerStreams
  <2> QED BY <1>5, <1>15, <2>2, <2>3, <2>4 DEF Returns
<1>16. CASE p.type \in Acks /\ Awaited(c, p) = {} /\ UNCHANGED <<vars, out>>
  <2>1. closing' \in {NULL, c} /\ UNCHANGED <<sessions, subtree, mq, store>>
    BY <1>16 DEF vars, BrokerReads, Serves, Idle
  <2>2. /\ OutboundStreams' /\ \A d \in Client \ {c} : out'[d] = out[d]
        /\ \A d \in Client, t \in Name : Written(d, t)' = Written(d, t)
    <3>1. "PUBACK" \in Acks /\ 1 % PidMod \in PacketId
      BY ResetType DEF Acks
    <3> QED BY <1>7, <1>16, <3>1, AnswerStreams
  <2> QED BY <1>4, <1>5, <1>8, <1>16, <2>1, <2>2 DEF Returns, p
<1> QED BY <1>1, <1>9, <1>10, <1>11, <1>12, <1>13, <1>14, <1>15, <1>16 DEF Handle, p

(***************************************************************************)
(* A step for client c while the process goes on: k copies of t, published *)
(* by c, go from there into the lists of all the subscribers, and from the *)
(* list of c to its connection; some may be lost if that connection fails. *)
(***************************************************************************)
Flow(c) ==
  /\ running' /\ closing' \in {NULL, c}
  /\ UNCHANGED <<sessions, subtree, subscribers, clientVars>>
  /\ InboundStreams' /\ OutboundStreams' /\ AllOwned'
  /\ \A d \in Client \ {c} : inp'[d] = inp[d] /\ out'[d] = out[d]
  /\ \A d \in Client \ {c}, t \in Name : Published(d, t)' = Published(d, t)
  /\ \A t \in Name : \E k \in 0 .. 1 :
       /\ k = 1 => pub[t].by = c
       /\ Published(c, t) = Published(c, t)' + k
       /\ \A d \in subscribers :
            /\ Written(d, t)' <= Written(d, t) + Queued(d, t) + k
            /\ closing' # d =>
                 Written(d, t)' + Queued(d, t)' = Written(d, t) + Queued(d, t) + k

(* The numbers Transit adds.                                               *)
LEMMA NumbersNat ==
  ASSUME NEW d \in Client, NEW t \in Name
  PROVE  /\ IInv /\ InboundStreams => Published(d, t) \in Nat
         /\ IInv /\ OutboundStreams => Written(d, t) \in Nat /\ Queued(d, t) \in Nat
         /\ IInv' /\ InboundStreams' => Published(d, t)' \in Nat
         /\ IInv' /\ OutboundStreams' => Written(d, t)' \in Nat /\ Queued(d, t)' \in Nat
<1>1. /\ IInv => Held(d, t) \in Nat /\ Queued(d, t) \in Nat
      /\ IInv' => Held(d, t)' \in Nat /\ Queued(d, t)' \in Nat
  BY HeldNat
<1>2. /\ OutboundStreams => Written(d, t) \in Nat
      /\ OutboundStreams' => Written(d, t)' \in Nat
  BY CopiesNat DEF OutboundStreams, Written, Copies
<1>3. /\ InboundStreams => Copies(inp[d], t) \in Nat
      /\ InboundStreams' => Copies(inp'[d], t) \in Nat
  BY CopiesNat DEF InboundStreams
<1>4. /\ Published(d, t) = Copies(inp[d], t) + Held(d, t)
      /\ Published(d, t)' = Copies(inp'[d], t) + Held(d, t)'
  BY DEF Published, Copies, Held
<1> QED BY <1>1, <1>2, <1>3, <1>4

LEMMA ReadStreams ==
  ASSUME XInv, NEW c \in Client, BrokerReads(c)
  PROVE  /\ InboundStreams'
         /\ \A d \in Client \ {c} : inp'[d] = inp[d]
         /\ \A t \in Name :
              /\ IsCopy(Head(inp[c]), t) => Copies(inp[c], t) = Copies(inp'[c], t) + 1
              /\ ~ IsCopy(Head(inp[c]), t) => Copies(inp[c], t) = Copies(inp'[c], t)
<1>1. /\ inp \in [Client -> Seq(Packet)] /\ inp[c] # <<>>
      /\ \A d \in Client : inp[d] \in Seq(FromClient(d)) /\ FromClient(d)' = FromClient(d)
  BY XInvStreams DEF InboundStreams, FromClient, PublishOf, BrokerReads, clientVars
<1>2. /\ inp'[c] = Tail(inp[c]) /\ \A d \in Client \ {c} : inp'[d] = inp[d]
      /\ inp' = [d \in Client |-> inp'[d]]
  BY <1>1 DEF BrokerReads
<1>3. inp'[c] \in Seq(FromClient(c))
  BY <1>1, <1>2, HeadTailProperties
<1>4. /\ inp'[c] \in Seq(Packet)
      /\ \A t \in Name :
           /\ IsCopy(Head(inp[c]), t) => Copies(inp[c], t) = Copies(inp'[c], t) + 1
           /\ ~ IsCopy(Head(inp[c]), t) => Copies(inp[c], t) = Copies(inp'[c], t)
  BY <1>1, <1>2, TailCopies
<1>5. \A d \in Client : inp'[d] \in Seq(Packet)
  BY <1>1, <1>2, <1>4
<1>6. \A d \in Client : inp'[d] \in Seq(FromClient(d)')
  BY <1>1, <1>2, <1>3
<1>7. InboundStreams'
  BY <1>2, <1>5, <1>6 DEF InboundStreams
<1> QED BY <1>2, <1>4, <1>7

LEMMA ReadFlow ==
  ASSUME IInv, IInv', XInv, NEW c \in Client, BrokerReads(c), running'
  PROVE  Flow(c)
<1>1. UNCHANGED <<subscribers, clientVars, pub>>
  BY DEF BrokerReads, clientVars
<1>2. Returns(c)
  BY <1>1, HandleReturns
<1>3. PICK T : Counts(c, T) /\ \A t \in Name : t \in T <=> IsCopy(Head(inp[c]), t)
  BY <1>1, HandleReturns
<1>4. /\ InboundStreams' /\ \A d \in Client \ {c} : inp'[d] = inp[d]
      /\ \A t \in Name :
           /\ IsCopy(Head(inp[c]), t) => Copies(inp[c], t) = Copies(inp'[c], t) + 1
           /\ ~ IsCopy(Head(inp[c]), t) => Copies(inp[c], t) = Copies(inp'[c], t)
  BY ReadStreams
<1>5. \A d \in Client, t \in Name :
        /\ Published(d, t) = Copies(inp[d], t) + Held(d, t)
        /\ Published(d, t)' = Copies(inp'[d], t) + Held(d, t)'
  BY DEF Published, Copies, Held
<1>6. \A d \in Client \ {c}, t \in Name : Published(d, t)' = Published(d, t)
  BY <1>3, <1>4, <1>5 DEF Counts
<1>7. ASSUME NEW t \in Name
      PROVE  \E k \in 0 .. 1 :
               /\ k = 1 => pub[t].by = c
               /\ Published(c, t) = Published(c, t)' + k
               /\ \A d \in subscribers :
                    /\ Written(d, t)' <= Written(d, t) + Queued(d, t) + k
                    /\ closing' # d =>
                         Written(d, t)' + Queued(d, t)' = Written(d, t) + Queued(d, t) + k
  <2>1. PICK k \in 0 .. 1 :
          /\ k = 1 => pub[t].by = c
          /\ Held(c, t) + (IF t \in T THEN 1 ELSE 0) = Held(c, t)' + k
          /\ \A d \in subscribers : Queued(d, t)' = Queued(d, t) + k
    BY <1>3 DEF Counts
  <2>2. Published(c, t) = Published(c, t)' + k
    <3>1. Held(c, t) \in Nat /\ Held(c, t)' \in Nat
      BY HeldNat
    <3>2. Copies(inp[c], t) \in Nat /\ Copies(inp'[c], t) \in Nat
      BY <1>4, XInvStreams, CopiesNat DEF InboundStreams
    <3>3. Copies(inp[c], t) = Copies(inp'[c], t) + IF t \in T THEN 1 ELSE 0
      BY <1>3, <1>4, <3>2
    <3> QED BY <1>5, <2>1, <3>1, <3>2, <3>3
  <2>3. ASSUME NEW d \in subscribers
        PROVE  /\ Written(d, t)' <= Written(d, t) + Queued(d, t) + k
               /\ Written(d, t)' + Queued(d, t)' = Written(d, t) + Queued(d, t) + k
    <3>1. d \in Client
      BY DEF XInv, ExchangeTypeRest
    <3>2. Written(d, t) \in Nat /\ Queued(d, t) \in Nat
      BY <3>1, XInvStreams, NumbersNat
    <3>3. Written(d, t)' = Written(d, t) /\ Queued(d, t)' = Queued(d, t) + k
      BY <1>2, <2>1, <3>1 DEF Returns
    <3> QED BY <3>2, <3>3
  <2> QED BY <2>1, <2>2, <2>3
<1> QED BY <1>1, <1>2, <1>4, <1>6, <1>7 DEF Flow, Returns

(* Copies that flow stay in transit, while nobody's connection fails.      *)
LEMMA FlowTransit ==
  ASSUME IInv, IInv', InboundStreams, OutboundStreams, subscribers \subseteq Client,
         pub \in [Name -> Pub],
         NEW c \in Client, closing = NULL, c \in sessions, Flow(c),
         NEW d \in Client, NEW t \in Name
  PROVE  /\ Transit(d, t)' <= Transit(d, t)
         /\ closing' = NULL => Transit(d, t)' = Transit(d, t)
<1>1. PICK b \in Client : b = pub[t].by
  BY DEF Pub
<1>2. b = pub'[t].by
  BY <1>1 DEF Flow, clientVars
<1> DEFINE w == Written(d, t)
           q == Queued(d, t)
           p == Published(b, t)
           w2 == Written(d, t)'
           q2 == Queued(d, t)'
           p2 == Published(b, t)'
<1>3. w \in Nat /\ q \in Nat /\ p \in Nat /\ w2 \in Nat /\ q2 \in Nat /\ p2 \in Nat
  BY NumbersNat DEF Flow
<1>4. PICK k \in 0 .. 1 :
        /\ k = 1 => b = c
        /\ Published(c, t) = Published(c, t)' + k
        /\ d \in subscribers =>
             /\ w2 <= w + q + k
             /\ closing' # d => w2 + q2 = w + q + k
  BY <1>1 DEF Flow
<1>5. p = p2 + k
  <2>1. CASE b = c
    BY <1>4, <2>1
  <2>2. CASE b # c
    <3>1. p2 = p
      BY <2>2 DEF Flow
    <3>2. k = 0
      BY <1>4, <2>2
    <3> QED BY <1>3, <3>1, <3>2
  <2> QED BY <2>1, <2>2
<1>6. Transit(d, t) = IF d \in subscribers /\ d \in sessions
                      THEN w + q + (IF b \in sessions THEN p ELSE 0) ELSE 0
  <2>1. NULL \notin Client
    BY BrokerAssumption
  <2>2. Up = sessions
    BY <2>1 DEF Up, IInv, TypeRest
  <2> HIDE DEF w, q, p
  <2>3. Transit(d, t) = IF d \in subscribers /\ d \in sessions
                        THEN w + (q + (IF b \in sessions THEN p ELSE 0)) ELSE 0
    BY <1>1, <1>3, <2>2 DEF Transit, w, q, p
  <2> QED BY <1>3, <2>3
<1>7. Transit(d, t)' = IF d \in subscribers /\ d \in sessions
                       THEN IF d = closing' THEN w2
                            ELSE w2 + q2 + (IF b \in sessions /\ b # closing' THEN p2 ELSE 0)
                       ELSE 0
  <2>1. UNCHANGED <<sessions, subscribers>>
    BY DEF Flow
  <2>2. \A e : e \in Up' <=> e \in sessions /\ e # closing'
    BY <2>1 DEF Up
  <2> HIDE DEF w2, q2, p2
  <2> QED BY <1>2, <1>3, <2>1, <2>2 DEF Transit, w2, q2, p2
<1>8. closing' \in {NULL, c} /\ NULL # d /\ NULL # b
  BY BrokerAssumption DEF Flow
<1> HIDE DEF w, q, p, w2, q2, p2
<1>9. CASE closing' = NULL
  BY <1>3, <1>4, <1>5, <1>6, <1>7, <1>8, <1>9
<1>10. CASE closing' = c
  <2>1. k = 1 => b \in sessions
    BY <1>4
  <2>2. Transit(d, t)' <= Transit(d, t)
    <3>1. CASE ~ (d \in subscribers /\ d \in sessions)
      BY <1>6, <1>7, <3>1
    <3>2. CASE d \in subscribers /\ d \in sessions /\ d = c
      BY <1>3, <1>4, <1>5, <1>6, <1>7, <1>10, <2>1, <3>2
    <3>3. CASE d \in subscribers /\ d \in sessions /\ d # c
      <4>1. w2 + q2 = w + q + k
        BY <1>4, <1>10, <3>3
      <4> QED BY <1>3, <1>4, <1>5, <1>6, <1>7, <1>10, <2>1, <3>3, <4>1
    <3> QED BY <3>1, <3>2, <3>3
  <2> QED BY <1>8, <1>10, <2>2, BrokerAssumption
<1> QED BY <1>8, <1>9, <1>10

(* A list is written in one order.                                         *)
LEMMA DescendingLists ==
  ASSUME NEW S, IsFiniteSet(S), S \subseteq Nat, NEW order \in Descending(S)
  PROVE  order \in Bijection(1 .. Cardinality(S), S)
<1> DEFINE n == Cardinality(S)
<1>1. n \in Nat
  BY FS_CardinalityType
<1>2. /\ order \in [1 .. n -> S]
      /\ \A i, j \in DOMAIN order : i < j => order[i] > order[j]
  BY DEF Descending
<1>3. IsFiniteSet(1 .. n) /\ Cardinality(1 .. n) = n
  BY <1>1, FS_Interval
<1> HIDE DEF n
<1>4. ASSUME NEW i \in 1 .. n, NEW j \in 1 .. n, order[i] = order[j]
      PROVE  i = j
  <2>1. order[i] \in Nat /\ order[j] \in Nat /\ DOMAIN order = 1 .. n
    BY <1>2
  <2>2. ~ (i < j) /\ ~ (j < i)
    BY <1>2, <1>4, <2>1
  <2> QED BY <1>1, <2>2
<1>5. order \in Injection(1 .. n, S)
  BY <1>2, <1>4 DEF Injection, IsInjective
<1>6. order \in Surjection(1 .. n, S)
  BY <1>3, <1>5, FS_Injection DEF n
<1> QED BY <1>5, <1>6 DEF Bijection, n

(* The copies of t in a list of packets, one for each member of S.         *)
LEMMA ListedCopies ==
  ASSUME NEW S, IsFiniteSet(S), NEW order \in Bijection(1 .. Cardinality(S), S),
         NEW packet, DOMAIN packet = S, \A p \in S : packet[p].type = "PUBLISH",
         NEW t, NEW w, w = [i \in 1 .. Cardinality(S) |-> packet[order[i]]]
  PROVE  Copies(w, t) = Cardinality({p \in S : packet[p].topic = t})
<1> DEFINE n == Cardinality(S)
           A == {i \in 1 .. n : packet[order[i]].topic = t}
           B == {p \in S : packet[p].topic = t}
           f == [i \in A |-> order[i]]
<1>1. /\ n \in Nat /\ IsFiniteSet(1 .. n) /\ order \in [1 .. n -> S]
      /\ \A i, j \in 1 .. n : order[i] = order[j] => i = j
      /\ \A p \in S : \E i \in 1 .. n : order[i] = p
  <2>1. n \in Nat /\ IsFiniteSet(1 .. n)
    BY FS_CardinalityType, FS_Interval
  <2> HIDE DEF n
  <2>2. order \in Bijection(1 .. n, S)
    BY DEF n
  <2> QED BY <2>1, <2>2 DEF Bijection, Injection, Surjection, IsInjective
<1> HIDE DEF n
<1>2. Publishes(w, t) = A
  BY <1>1 DEF Publishes, n
<1>3. f \in Bijection(A, B)
  <2>1. f \in [A -> B]
    BY <1>1
  <2>2. \A a, b \in A : f[a] = f[b] => a = b
    BY <1>1
  <2>3. \A y \in B : \E a \in A : f[a] = y
    <3> TAKE y \in B
    <3>1. PICK i \in 1 .. n : order[i] = y
      BY <1>1
    <3>2. i \in A /\ f[i] = y
      BY <3>1
    <3> QED BY <3>2
  <2> HIDE DEF f, A, B
  <2> QED BY <2>1, <2>2, <2>3, Fun_IsBij
<1>4. IsFiniteSet(A)
  <2>1. A \in SUBSET (1 .. n)
    OBVIOUS
  <2> QED BY <1>1, <2>1, FS_Subset
<1> HIDE DEF f, A, B
<1>5. Cardinality(A) = Cardinality(B)
  BY <1>3, <1>4, FS_Bijection, Fun_ExistsBij
<1> QED BY <1>2, <1>5 DEF Copies, B

(* The entries that a step of BrokerWrites takes, and those it has written. *)
Taken(c) == {p \in Outbound(mq[c]) : p \notin Outbound(mq'[c])}
Wrote(c) == IF closing' = c THEN Taken(c) \ {Min(Taken(c))} ELSE Taken(c)

(* The packet of entry p.                                                  *)
PacketOf(c, p) ==
  LET e == mq[c][p]
  IN  Publish(store[e.ms].topic, e.qos,
              IF e.qos = 0 THEN NoPid ELSE mq'[c][p].packet_id)

LEMMA WriteStreams ==
  ASSUME IInv, HInv, XInv, NEW c \in Client, BrokerWrites(c)
  PROVE  /\ OutboundStreams'
         /\ \A d \in Client \ {c} : out'[d] = out[d]
         /\ \A p \in Wrote(c) : PacketOf(c, p) \in ToClient(c)
         /\ \E order \in Bijection(1 .. Cardinality(Wrote(c)), Wrote(c)),
               w \in Seq(ToClient(c)) :
              /\ w = [i \in 1 .. Cardinality(Wrote(c)) |-> PacketOf(c, order[i])]
              /\ out'[c] = out[c] \o w
<1> DEFINE P == Taken(c)
           S == Wrote(c)
           n == Cardinality(S)
<1>1. WritePacket(c) /\ UNCHANGED <<subscribers, pub, inp>>
  BY DEF BrokerWrites, clientVars
<1>2. PICK order \in Descending(S) :
        out' = Put(out, c, [i \in 1 .. n |-> PacketOf(c, order[i])])
  BY DEF BrokerWrites, Taken, Wrote, PacketOf
<1> DEFINE w == [i \in 1 .. n |-> PacketOf(c, order[i])]
<1>3. /\ P = {p \in Outbound(mq[c]) : p \notin Outbound(mq'[c])}
      /\ \A p \in P : mq[c][p].qos > 0 =>
           \E id \in PacketId : mq'[c][p] = Sent(mq[c][p], id)
  BY <1>1, WritePacketLists DEF Taken
<1>4. S \subseteq P /\ P \subseteq DOMAIN mq[c]
  BY DEF Wrote, Taken, Outbound
<1>5. /\ IsList(mq[c]) /\ DOMAIN mq[c] \subseteq Rank
      /\ \A p \in DOMAIN mq[c] : mq[c][p] \in Entry
      /\ \A p \in DOMAIN mq[c] :
           mq[c][p].ms \in DOMAIN store /\ store[mq[c][p].ms].topic \in Name
  <2>1. IsList(mq[c])
    BY DEF IInv, Agree, AreLists
  <2>2. \A p \in DOMAIN mq[c] : mq[c][p].ms \in DOMAIN store
    BY DEF IInv, Agree
  <2>3. \A m \in DOMAIN store : store[m].topic \in Name
    BY DEF IInv, Agree, IsStore, Message
  <2> QED BY <2>1, <2>2, <2>3 DEF IsList
<1>6. \A p \in P : mq[c][p].ps = "WAIT_TO_PUBLISH"
  BY <1>4 DEF HInv, OutboundIsUnsent, Taken, Outbound
<1>7. ASSUME NEW p \in P
      PROVE  PacketOf(c, p) \in ToClient(c)
  <2> DEFINE e == mq[c][p]
             id == IF e.qos = 0 THEN NoPid ELSE mq'[c][p].packet_id
  <2>1. e \in Entry /\ store[e.ms].topic \in Name /\ e.qos \in Qos
    BY <1>4, <1>5 DEF Entry
  <2>2. e.qos > 0 => mq'[c][p].packet_id \in PacketId
    <3> SUFFICES ASSUME e.qos > 0 PROVE mq'[c][p].packet_id \in PacketId
      OBVIOUS
    <3>1. PICK x \in PacketId : mq'[c][p] = Sent(e, x)
      BY <1>3
    <3> QED BY <2>1, <3>1 DEF Sent, Entry
  <2>3. id \in PacketId \cup {NoPid} /\ (e.qos > 0 => id \in PacketId)
    BY <2>1, <2>2 DEF Qos
  <2>4. PacketOf(c, p) = Publish(store[e.ms].topic, e.qos, id)
    BY DEF PacketOf
  <2> HIDE DEF e, id
  <2>5. /\ PacketOf(c, p) \in
             [type : {"PUBLISH"}, topic : Name, qos : Qos, pid : PacketId \cup {NoPid}]
        /\ PacketOf(c, p).qos = e.qos /\ PacketOf(c, p).pid = id
    BY <2>1, <2>3, <2>4 DEF Publish
  <2>6. PacketOf(c, p) \in Packet
    BY <2>5, Zenon DEF Packet
  <2>7. c \in subscribers
    <3>1. e.ps = "WAIT_TO_PUBLISH" /\ Owned(c, e)
      BY <1>4, <1>6 DEF XInv, e
    <3> QED BY <3>1 DEF Owned
  <2> QED BY <2>3, <2>5, <2>6, <2>7 DEF ToClient
<1>8. IsFiniteSet(S) /\ S \subseteq Nat
  <2>1. IsFiniteSet(Rank) /\ S \in SUBSET Rank
    <3>1. IsFiniteSet(1 .. MaxRank)
      BY StoreAssumption, FS_Interval
    <3>2. S \in SUBSET Rank
      <4> HIDE DEF P, S
      <4> QED BY <1>4, <1>5
    <3> QED BY <3>1, <3>2 DEF Rank
  <2>2. Rank \subseteq Nat
    BY StoreAssumption DEF Rank
  <2> QED BY <2>1, <2>2, FS_Subset
<1> HIDE DEF S, P
<1>9. order \in Bijection(1 .. n, S) /\ n \in Nat
  BY <1>8, DescendingLists, FS_CardinalityType
<1> HIDE DEF n
<1>10. order \in [1 .. n -> S]
  BY <1>9 DEF Bijection, Injection
<1>11. w \in Seq(ToClient(c))
  <2>1. \A i \in 1 .. n : PacketOf(c, order[i]) \in ToClient(c)
    BY <1>4, <1>7, <1>10
  <2> QED BY <1>9, <2>1
<1>12. /\ out \in [Client -> Seq(Packet)] /\ \A d \in Client : out[d] \in Seq(ToClient(d))
       /\ \A d \in Client : ToClient(d)' = ToClient(d)
  BY <1>1, XInvStreams DEF OutboundStreams, ToClient
<1> HIDE DEF w
<1>13. /\ out'[c] = out[c] \o w /\ \A d \in Client \ {c} : out'[d] = out[d]
       /\ out' = [d \in Client |-> out'[d]]
  BY <1>2, <1>12 DEF Put, w
<1>14. out'[c] \in Seq(ToClient(c))
  BY <1>11, <1>12, <1>13, ConcatProperties
<1>15. \A d \in Client : out'[d] \in Seq(ToClient(d)')
  BY <1>12, <1>13, <1>14
<1>16. \A d \in Client : ToClient(d) \subseteq Packet
  BY DEF ToClient
<1>17. \A d \in Client : out'[d] \in Seq(Packet)
  <2> TAKE d \in Client
  <2>1. out'[d] \in Seq(ToClient(d))
    BY <1>12, <1>15
  <2> QED BY <1>16, <2>1, SeqMonotonic
<1>18. OutboundStreams'
  BY <1>13, <1>15, <1>17 DEF OutboundStreams
<1>19. \E o \in Bijection(1 .. Cardinality(S), S), v \in Seq(ToClient(c)) :
         /\ v = [i \in 1 .. Cardinality(S) |-> PacketOf(c, o[i])]
         /\ out'[c] = out[c] \o v
  BY <1>9, <1>11, <1>13 DEF w, n
<1> QED BY <1>4, <1>7, <1>13, <1>18, <1>19 DEF S

LEMMA WriteFlow ==
  ASSUME IInv, IInv', HInv, XInv, NEW c \in Client, BrokerWrites(c)
  PROVE  Flow(c)
<1> DEFINE P == Taken(c)
           S == Wrote(c)
<1>1. WritePacket(c) /\ UNCHANGED <<subscribers, clientVars, pub, inp>>
  BY DEF BrokerWrites, clientVars
<1>2. /\ running' /\ UNCHANGED <<sessions, subtree>> /\ c \in sessions
      /\ closing' \in {NULL, c}
  BY <1>1, WritePacketLists DEF WritePacket, Serves, Idle
<1>3. /\ TopicsKept /\ P # {} /\ (closing' = NULL => P = Outbound(mq[c]))
      /\ \A d \in Client \ {c} : mq'[d] = mq[d]
      /\ DOMAIN mq'[c] = DOMAIN mq[c] \ {p \in P : mq[c][p].qos = 0}
      /\ \A p \in DOMAIN mq[c] \ P : mq'[c][p] = mq[c][p]
      /\ \A p \in P : mq[c][p].qos > 0 =>
           \E id \in PacketId : mq'[c][p] = Sent(mq[c][p], id)
  BY <1>1, WritePacketLists DEF Taken
<1>4. S \subseteq P /\ P \subseteq DOMAIN mq[c] /\ (closing' = NULL => S = P)
  BY BrokerAssumption DEF Wrote, Taken, Outbound
<1>5. /\ \A p \in DOMAIN mq[c] : mq[c][p] \in Entry
      /\ \A p \in P : mq[c][p].ps = "WAIT_TO_PUBLISH"
      /\ \A p \in DOMAIN mq[c] \ P :
           closing' = NULL => mq[c][p].ps # "WAIT_TO_PUBLISH"
  <2>1. IsList(mq[c])
    BY DEF IInv, Agree, AreLists
  <2>2. \A p \in DOMAIN mq[c] : p \in Outbound(mq[c]) <=> mq[c][p].ps = "WAIT_TO_PUBLISH"
    BY DEF HInv, OutboundIsUnsent, Outbound
  <2>3. P \subseteq Outbound(mq[c])
    BY DEF Taken
  <2> QED BY <1>3, <1>4, <2>1, <2>2, <2>3 DEF IsList
<1>6. /\ \A d \in Client \ {c} : out'[d] = out[d]
      /\ OutboundStreams'
      /\ \A p \in S : PacketOf(c, p) \in ToClient(c)
  BY WriteStreams
<1>7. PICK order \in Bijection(1 .. Cardinality(S), S), w \in Seq(ToClient(c)) :
        /\ w = [i \in 1 .. Cardinality(S) |-> PacketOf(c, order[i])]
        /\ out'[c] = out[c] \o w
  BY WriteStreams
<1> HIDE DEF P, S
<1>8. \A p \in P \cap DOMAIN mq'[c] :
        /\ mq'[c][p].ms = mq[c][p].ms
        /\ mq'[c][p].ps \in {"WAIT_FOR_PUBACK", "WAIT_FOR_PUBREC"}
  <2> TAKE p \in P \cap DOMAIN mq'[c]
  <2>1. mq[c][p] \in Entry /\ mq[c][p].qos > 0
    BY <1>3, <1>4, <1>5 DEF Entry, Qos
  <2>2. PICK id \in PacketId : mq'[c][p] = Sent(mq[c][p], id)
    BY <1>3, <2>1
  <2> QED BY <2>1, <2>2 DEF Sent, Entry
<1>9. \A p \in DOMAIN mq[c] \cap DOMAIN mq'[c] :
        /\ mq'[c][p].ms = mq[c][p].ms
        /\ store'[mq'[c][p].ms].topic = store[mq[c][p].ms].topic
  <2> TAKE p \in DOMAIN mq[c] \cap DOMAIN mq'[c]
  <2>1. mq'[c][p].ms = mq[c][p].ms
    BY <1>3, <1>8
  <2> QED BY <1>3, <2>1, TopicStays
<1>10. \A d \in Client \ {c}, ps \in PublishState, t \in Name :
         Entries(d, ps, t)' = Entries(d, ps, t)
  <2> TAKE d \in Client \ {c}, ps \in PublishState, t \in Name
  <2>1. Without(mq[d], mq'[d], {})
    BY <1>3 DEF Without
  <2>2. Entries(d, ps, t)' = Entries(d, ps, t) \ {}
    <3>1. TopicsKept
      BY <1>3
    <3> QED BY <2>1, <3>1, EntriesWithout
  <2> QED BY <2>2
<1>11. \A t : Entries(c, "WAIT_FOR_PUBREL", t)' = Entries(c, "WAIT_FOR_PUBREL", t)
  BY <1>3, <1>4, <1>5, <1>8, <1>9 DEF Entries
<1>12. \A t : Entries(c, "WAIT_TO_PUBLISH", t)' = Entries(c, "WAIT_TO_PUBLISH", t) \ P
  BY <1>3, <1>4, <1>5, <1>8, <1>9 DEF Entries
<1>13. ASSUME NEW t \in Name
       PROVE  /\ Written(c, t)' <= Written(c, t) + Queued(c, t)
              /\ closing' = NULL =>
                   Written(c, t)' + Queued(c, t)' = Written(c, t) + Queued(c, t)
  <2> DEFINE packet == [p \in S |-> PacketOf(c, p)]
             A == Entries(c, "WAIT_TO_PUBLISH", t)
             B == {p \in S : packet[p].topic = t}
             k == Cardinality(B)
  <2>1. B \subseteq A /\ B = A \cap S
    <3>1. \A p \in S : PacketOf(c, p).topic = store[mq[c][p].ms].topic
      BY DEF PacketOf, Publish
    <3> QED BY <1>4, <1>5, <3>1 DEF Entries
  <2>2. IsFiniteSet(A) /\ Cardinality(A) \in Nat
    BY EntriesFinite
  <2>3. IsFiniteSet(S)
    <3>1. IsFiniteSet(Rank) /\ DOMAIN mq[c] \subseteq Rank
      BY StoreAssumption, FS_Interval DEF IInv, Agree, AreLists, IsList, Rank
    <3> QED BY <1>4, <3>1, FS_Subset
  <2>4. Copies(w, t) = k
    <3>1. \A p \in S : packet[p].type = "PUBLISH"
      BY DEF PacketOf, Publish
    <3>2. w = [i \in 1 .. Cardinality(S) |-> packet[order[i]]]
      BY <1>7 DEF Bijection, Injection
    <3>3. DOMAIN packet = S
      OBVIOUS
    <3> HIDE DEF packet
    <3> QED BY <2>3, <3>1, <3>2, <3>3, ListedCopies
  <2> HIDE DEF A, B
  <2>5. k \in Nat /\ k <= Cardinality(A) /\ IsFiniteSet(B)
    BY <2>1, <2>2, FS_Subset, FS_CardinalityType
  <2>6. /\ Written(c, t)' = Written(c, t) + k
        /\ Written(c, t) \in Nat
    <3>1. out[c] \in Seq(Packet) /\ w \in Seq(Packet) /\ out'[c] \in Seq(Packet)
      <4>1. ToClient(c) \subseteq Packet
        BY DEF ToClient
      <4> QED BY <1>6, <1>7, <4>1, SeqMonotonic, XInvStreams DEF OutboundStreams
    <3> DEFINE Q == {p \in Packet : IsCopy(p, t)}
    <3>2. Cardinality(Positions(out[c] \o w, Q))
            = Cardinality(Positions(out[c], Q)) + Cardinality(Positions(w, Q))
      BY <3>1, ConcatPositions
    <3>3. /\ Publishes(out[c], t) = Positions(out[c], Q)
          /\ Publishes(w, t) = Positions(w, Q)
          /\ Publishes(out'[c], t) = Positions(out'[c], Q)
      BY <3>1, CopiesArePositions
    <3> HIDE DEF Q
    <3>4. Copies(out'[c], t) = Copies(out[c], t) + Copies(w, t)
      BY <1>7, <3>2, <3>3 DEF Copies
    <3>5. Copies(out[c], t) \in Nat
      BY <3>1, CopiesNat
    <3> QED BY <2>4, <3>4, <3>5 DEF Written, Copies
  <2>7. Queued(c, t) = Cardinality(A)
    BY DEF Queued, A
  <2>8. closing' = NULL => Queued(c, t)' + k = Queued(c, t)
    <3> SUFFICES ASSUME closing' = NULL PROVE Queued(c, t)' + k = Queued(c, t)
      OBVIOUS
    <3>1. Entries(c, "WAIT_TO_PUBLISH", t)' = {} /\ B = A
      BY <1>4, <1>5, <1>12, <2>1 DEF Entries, A
    <3>2. Queued(c, t)' = 0
      BY <3>1, FS_EmptySet DEF Queued
    <3> QED BY <2>2, <2>7, <3>1, <3>2
  <2>9. Queued(c, t)' \in Nat
    BY HeldNat
  <2> HIDE DEF k
  <2> QED BY <2>2, <2>5, <2>6, <2>7, <2>8, <2>9
<1>14. \A d \in Client, t \in Name : Held(d, t)' = Held(d, t)
  BY <1>10, <1>11 DEF Held, PublishState
<1>15. \A d \in Client, t \in Name :
         /\ Published(d, t)' = Published(d, t) /\ Published(d, t) \in Nat
         /\ Written(d, t) \in Nat /\ Queued(d, t) \in Nat
  <2> TAKE d \in Client, t \in Name
  <2>1. Published(d, t)' = Published(d, t)
    BY <1>1, <1>14 DEF Published, Held
  <2> QED BY <2>1, XInvStreams, NumbersNat
<1>16. \A d \in Client \ {c}, t \in Name :
         Written(d, t)' = Written(d, t) /\ Queued(d, t)' = Queued(d, t)
  BY <1>6, <1>10 DEF Written, Queued, PublishState
<1>17. ASSUME NEW t \in Name, NEW d \in subscribers
       PROVE  /\ Written(d, t)' <= Written(d, t) + Queued(d, t) + 0
              /\ closing' # d =>
                   Written(d, t)' + Queued(d, t)' = Written(d, t) + Queued(d, t) + 0
  <2>1. d \in Client
    BY DEF XInv, ExchangeTypeRest
  <2>2. CASE d = c
    BY <1>2, <1>13, <1>15, <2>1, <2>2
  <2>3. CASE d # c
    BY <1>15, <1>16, <2>1, <2>3
  <2> QED BY <2>2, <2>3
<1>18. InboundStreams'
  BY <1>1, XInvStreams DEF InboundStreams, FromClient, PublishOf
<1>19. ASSUME NEW d \in Client, NEW p \in DOMAIN mq'[d]
       PROVE  Owned(d, mq[d][p])'
  <2>1. CASE d # c
    BY <1>1, <1>3, <2>1, StaysOwned
  <2>2. CASE d = c
    <3>1. p \in DOMAIN mq[c] \cap DOMAIN mq'[c] /\ mq'[c][p].ms = mq[c][p].ms
      BY <1>3, <1>9, <2>2
    <3>2. mq'[c][p].ps = "WAIT_FOR_PUBREL" <=> mq[c][p].ps = "WAIT_FOR_PUBREL"
      BY <1>3, <1>5, <1>8, <3>1
    <3> QED BY <1>1, <1>3, <2>2, <3>1, <3>2, StaysOwned
  <2> QED BY <2>1, <2>2
<1>20. Flow(c)
  <2>1. ASSUME NEW t \in Name
        PROVE  \E k \in 0 .. 1 :
                 /\ k = 1 => pub[t].by = c
                 /\ Published(c, t) = Published(c, t)' + k
                 /\ \A d \in subscribers :
                      /\ Written(d, t)' <= Written(d, t) + Queued(d, t) + k
                      /\ closing' # d => Written(d, t)' + Queued(d, t)'
                                           = Written(d, t) + Queued(d, t) + k
    <3>1. Published(c, t) = Published(c, t)' + 0
      BY <1>15
    <3> QED BY <1>17, <3>1
  <2> QED BY <1>1, <1>2, <1>6, <1>15, <1>18, <1>19, <2>1 DEF Flow, AllOwned
<1> QED BY <1>20

LEMMA FailFlow ==
  ASSUME IInv, IInv', XInv, NEW c \in Client, ConnectionFails(c)
  PROVE  Flow(c)
<1>1. /\ running' /\ closing' = c /\ c \in sessions
      /\ UNCHANGED <<sessions, subtree, subscribers, clientVars, mq, store, inp, out, pub>>
  BY DEF ConnectionFails, ReadFails, Serves, Idle, clientVars
<1>2. InboundStreams' /\ OutboundStreams' /\ AllOwned'
  BY <1>1, XInvStreams DEF InboundStreams, OutboundStreams, FromClient, ToClient,
     PublishOf, XInv, AllOwned, Owned
<1>3. \A d \in Client, t \in Name :
        /\ Published(d, t)' = Published(d, t) /\ Written(d, t)' = Written(d, t)
        /\ Queued(d, t)' = Queued(d, t)
  BY <1>1 DEF Published, Written, Queued, Entries
<1>4. \A d \in Client, t \in Name :
        Published(d, t) \in Nat /\ Written(d, t) \in Nat /\ Queued(d, t) \in Nat
  BY XInvStreams, NumbersNat
<1>5. \A d \in subscribers : d \in Client
  BY DEF XInv, ExchangeTypeRest
<1>6. ASSUME NEW t \in Name
      PROVE  \E k \in 0 .. 1 :
               /\ k = 1 => pub[t].by = c
               /\ Published(c, t) = Published(c, t)' + k
               /\ \A d \in subscribers :
                    /\ Written(d, t)' <= Written(d, t) + Queued(d, t) + k
                    /\ closing' # d => Written(d, t)' + Queued(d, t)'
                                         = Written(d, t) + Queued(d, t) + k
  <2>1. Published(c, t) = Published(c, t)' + 0
    BY <1>3, <1>4
  <2>2. \A d \in subscribers :
          /\ Written(d, t)' <= Written(d, t) + Queued(d, t) + 0
          /\ Written(d, t)' + Queued(d, t)' = Written(d, t) + Queued(d, t) + 0
    BY <1>3, <1>4, <1>5
  <2> QED BY <2>1, <2>2
<1> QED BY <1>1, <1>2, <1>3, <1>6 DEF Flow

-----------------------------------------------------------------------------
(* Every step keeps the invariant and makes no copy out of nothing         *)

(* XInv without the part about a process that goes on.                     *)
LEMMA XInvFrom ==
  ASSUME ExchangeTypeRest', InboundStreams', OutboundStreams', AllOwned',
         running' => Away' /\ TableOfHash',
         \A t \in Name : pub'[t].state = "new" => pub'[t].sent = 0
  PROVE  XInv'
BY DEF XInv, InboundStreams, OutboundStreams, AllOwned

LEMMA FlowXInv ==
  ASSUME XInv, running, NEW c \in sessions, Flow(c)
  PROVE  XInv'
<1>1. ExchangeTypeRest'
  BY DEF XInv, ExchangeTypeRest, Flow, clientVars, InboundStreams, OutboundStreams
<1>2. Away'
  BY DEF XInv, Away, Flow, clientVars
<1>3. TableOfHash'
  BY DEF XInv, TableOfHash, Flow
<1>4. \A t \in Name : pub'[t].state = "new" => pub'[t].sent = 0
  BY DEF XInv, Flow, clientVars
<1> QED BY <1>1, <1>2, <1>3, <1>4, XInvFrom DEF Flow

(* A handler that does not return has stopped the process.                 *)
LEMMA ReadHalts ==
  ASSUME NEW c \in Client, BrokerReads(c), ~ running'
  PROVE  Halt /\ UNCHANGED <<out, subscribers, clientVars>>
<1> DEFINE p == Head(inp[c])
<1>1. Handle(c, p) /\ running /\ UNCHANGED <<subscribers, clientVars>>
  BY DEF BrokerReads, Serves, Idle
<1> HIDE DEF p
<1>2. \A e : Answer(c, e) => UNCHANGED out
  BY DEF Answer
<1>3. \A id : ~ HandleConnect(c, id)
  BY <1>1 DEF HandleConnect
<1>4. \A t, q : HandlePublish(c, t, q) => Halt
  BY <1>1 DEF HandlePublish
<1>5. \A t, pid : ~ HandlePublish2(c, t, pid)
  BY <1>1 DEF HandlePublish2
<1>6. \A pid : HandlePubrel(c, pid) => Halt
  BY <1>1 DEF HandlePubrel
<1>7. \A pid : ~ HandlePubrec(c, pid) /\ ~ HandlePuback(c, pid) /\ ~ HandlePubcomp(c, pid)
  BY <1>1 DEF HandlePubrec, HandlePuback, HandlePubcomp, Acknowledge
<1>8. ~ UNCHANGED vars
  BY <1>1 DEF vars
<1> QED BY <1>1, <1>2, <1>3, <1>4, <1>5, <1>6, <1>7, <1>8 DEF Handle

LEMMA HaltXInv ==
  ASSUME XInv, NEW c \in Client, BrokerReads(c), ~ running'
  PROVE  XInv' /\ \A d \in Client, t \in Name : Transit(d, t)' = 0
<1>1. Halt /\ UNCHANGED <<out, subscribers, clientVars>>
  BY ReadHalts
<1>2. ExchangeTypeRest'
  <2>1. inp' \in [Client -> Seq(Packet)]
    BY ReadStreams DEF InboundStreams
  <2> QED BY <1>1, <2>1 DEF XInv, ExchangeTypeRest, clientVars
<1>3. InboundStreams'
  BY ReadStreams
<1>4. OutboundStreams'
  BY <1>1, XInvStreams DEF OutboundStreams, ToClient
<1>5. AllOwned'
  BY <1>1 DEF Halt, EmptyList, AllOwned
<1>6. \A t \in Name : pub'[t].state = "new" => pub'[t].sent = 0
  BY <1>1 DEF XInv, clientVars
<1>7. sessions' = {}
  BY <1>1 DEF Halt
<1> QED BY <1>2, <1>3, <1>4, <1>5, <1>6, <1>7, XInvFrom DEF Transit

(* The invariant of the copies: none more than what was sent.              *)
LEMMA TransitNat ==
  ASSUME IInv, XInv, NEW d \in Client, NEW t \in Name
  PROVE  Transit(d, t) \in Nat
<1>1. pub[t].by \in Client
  BY DEF XInv, ExchangeTypeRest, Pub
<1>2. Published(pub[t].by, t) \in Nat /\ Written(d, t) \in Nat /\ Queued(d, t) \in Nat
  BY <1>1, XInvStreams, NumbersNat
<1> QED BY <1>2 DEF Transit

LEMMA TransitNatNext ==
  ASSUME IInv', XInv', NEW d \in Client, NEW t \in Name
  PROVE  Transit(d, t)' \in Nat
<1>1. PICK b \in Client : b = pub'[t].by
  BY DEF XInv, ExchangeTypeRest, Pub
<1>2. InboundStreams' /\ OutboundStreams'
  BY DEF XInv, ExchangeTypeRest, InboundStreams, OutboundStreams
<1>3. /\ Published(b, t)' \in Nat
      /\ Written(d, t)' \in Nat /\ Queued(d, t)' \in Nat
  BY <1>2, NumbersNat
<1> QED BY <1>1, <1>3 DEF Transit

(* A step in which no copy is delivered, and none more is in transit.      *)
LEMMA LessInTransit ==
  ASSUME IInv, IInv', XInv, XInv', NoExtraCopy,
         \A d \in Client, t \in Name :
           /\ Transit(d, t)' <= Transit(d, t)
           /\ delivered'[d][t] = delivered[d][t] /\ pub'[t].sent = pub[t].sent
  PROVE  NoExtraCopy'
<1>1. ASSUME NEW d \in Client, NEW t \in Name
      PROVE  delivered'[d][t] + Transit(d, t)' <= pub'[t].sent
  <2>1. Transit(d, t) \in Nat /\ Transit(d, t)' \in Nat
    BY TransitNat, TransitNatNext
  <2>2. delivered[d][t] \in Nat /\ pub[t].sent \in Nat
    BY DEF XInv, ExchangeTypeRest, Pub
  <2>3. delivered[d][t] + Transit(d, t) <= pub[t].sent
    BY DEF NoExtraCopy
  <2> QED BY <2>1, <2>2, <2>3
<1> QED BY <1>1 DEF NoExtraCopy

(***************************************************************************)
(* Steps that leave the broker alone, or but let a client without entries  *)
(* come back: x copies of t leave the connection of d, and y join those on *)
(* their way from the publisher of t.                                      *)
(***************************************************************************)
LEMMA TransitMoves ==
  ASSUME IInv, XInv, NEW d \in Client, NEW t \in Name,
         UNCHANGED <<sessions, closing, subscribers>>, pub'[t].by = pub[t].by,
         NEW x \in Nat, NEW y \in Nat, NEW w \in Nat,
         Written(d, t)' = w, Written(d, t) = w + x,
         Queued(d, t)' = Queued(d, t),
         NEW b \in Client, b = pub[t].by, Published(b, t)' = Published(b, t) + y
  PROVE  /\ Transit(d, t) \in Nat /\ Transit(d, t)' \in Nat
         /\ d \notin subscribers \cap sessions => Transit(d, t)' = 0 /\ Transit(d, t) = 0
         /\ d \in subscribers \cap sessions =>
              /\ (d \notin Up \/ b \notin Up) => Transit(d, t)' + x = Transit(d, t)
              /\ (d \in Up /\ b \in Up) => Transit(d, t)' + x = Transit(d, t) + y
<1>1. Queued(d, t) \in Nat /\ Published(b, t) \in Nat
  BY XInvStreams, NumbersNat
<1>2. Up' = Up /\ pub'[t].by = b
  BY DEF Up
<1> DEFINE q == Queued(d, t)
           p == Published(b, t)
<1>3. Transit(d, t) = IF d \in subscribers /\ d \in sessions
                      THEN IF d \in Up THEN (w + x) + q + (IF b \in Up THEN p ELSE 0)
                           ELSE w + x
                      ELSE 0
  BY DEF Transit
<1>4. Transit(d, t)' = IF d \in subscribers /\ d \in sessions
                       THEN IF d \in Up THEN w + q + (IF b \in Up THEN p + y ELSE 0)
                            ELSE w
                       ELSE 0
  BY <1>2 DEF Transit
<1> HIDE DEF q, p
<1>5. q \in Nat /\ p \in Nat
  BY <1>1 DEF q, p
<1> QED BY <1>3, <1>4, <1>5

(* What a client that answers puts into its stream is no copy.             *)
LEMMA QuietStreams ==
  ASSUME XInv, NEW c \in Client, NEW e \in Packet, e.type # "PUBLISH",
         inp' = inp \/ inp' = Put(inp, c, <<e>>),
         \A t \in Name : pub'[t].by = pub[t].by /\ pub'[t].qos = pub[t].qos
  PROVE  /\ InboundStreams' /\ \A d \in Client \ {c} : inp'[d] = inp[d]
         /\ \A d \in Client, t \in Name : Copies(inp'[d], t) = Copies(inp[d], t)
<1>1. /\ inp \in [Client -> Seq(Packet)]
      /\ \A d \in Client : inp[d] \in Seq(FromClient(d))
  BY XInvStreams DEF InboundStreams
<1>2. \A d \in Client : FromClient(d)' = FromClient(d)
  <2>1. \A p \in Packet : p.type = "PUBLISH" => p.topic \in Name
    BY DEF Packet, Acks
  <2> QED BY <2>1 DEF FromClient, PublishOf, Publish
<1>3. CASE inp' = inp
  BY <1>1, <1>2, <1>3 DEF InboundStreams
<1>4. CASE inp' = Put(inp, c, <<e>>)
  <2>1. /\ inp'[c] = inp[c] \o <<e>>
        /\ \A d \in Client \ {c} : inp'[d] = inp[d]
        /\ DOMAIN inp' = Client /\ inp' = [d \in Client |-> inp'[d]]
    BY <1>1, <1>4 DEF Put
  <2>2. e \in FromClient(c)
    BY DEF FromClient
  <2>3. inp'[c] \in Seq(FromClient(c))
    BY <1>1, <2>1, <2>2, PutPositions
  <2>4. inp'[c] \in Seq(Packet) /\ \A t \in Name : Copies(inp'[c], t) = Copies(inp[c], t)
    BY <1>1, <2>1, PutCopies DEF IsCopy
  <2>5. \A d \in Client : inp'[d] \in Seq(Packet)
    BY <1>1, <2>1, <2>4
  <2>6. \A d \in Client : inp'[d] \in Seq(FromClient(d)')
    BY <1>1, <1>2, <2>1, <2>3
  <2>7. InboundStreams'
    BY <2>1, <2>5, <2>6 DEF InboundStreams
  <2> QED BY <2>1, <2>4, <2>7
<1> QED BY <1>3, <1>4

(* A connection is gone with all that was on its way.                      *)
LEMMA DisconnectLists ==
  ASSUME IInv, IInv', NEW c \in Client, Disconnect(c)
  PROVE  /\ running /\ running' /\ closing = c /\ closing' = NULL /\ c \in sessions
         /\ sessions' = sessions \ {c} /\ UNCHANGED subtree
         /\ TopicsKept /\ mq'[c] = EmptyList
         /\ \A d \in Client \ {c} : mq'[d] = mq[d]
         /\ \A ps, t : \A d \in Client \ {c} : Entries(d, ps, t)' = Entries(d, ps, t)
<1>1. DOMAIN mq = Client /\ closing \in sessions \cup {NULL}
  BY DEF IInv, TypeRest, Agree, AreLists
<1>2. /\ running /\ running' /\ closing = c /\ closing' = NULL /\ UNCHANGED subtree
      /\ sessions' = sessions \ {c} /\ mq'[c] = EmptyList
      /\ \A d \in Client \ {c} : mq'[d] = mq[d]
  BY <1>1 DEF Disconnect
<1>3. c \in sessions
  BY <1>1, <1>2, BrokerAssumption
<1>4. TopicsKept
  BY DerefTopics DEF Disconnect, TopicsKept
<1>5. \A d \in Client \ {c} : Without(mq[d], mq'[d], {})
  BY <1>2 DEF Without
<1>6. \A ps, t : \A d \in Client \ {c} : Entries(d, ps, t)' = Entries(d, ps, t) \ {}
  BY <1>4, <1>5, EntriesWithout
<1> QED BY <1>2, <1>3, <1>4, <1>6

LEMMA DisconnectXInv ==
  ASSUME IInv, IInv', XInv, NEW c \in Client, BrokerDisconnects(c)
  PROVE  /\ XInv'
         /\ \A d \in Client, t \in Name :
              Transit(d, t)' = IF d = c THEN 0 ELSE Transit(d, t)
<1>1. /\ running /\ running' /\ closing = c /\ closing' = NULL /\ c \in sessions
      /\ sessions' = sessions \ {c} /\ UNCHANGED subtree
      /\ TopicsKept /\ mq'[c] = EmptyList
      /\ \A d \in Client \ {c} : mq'[d] = mq[d]
      /\ \A ps, t : \A d \in Client \ {c} : Entries(d, ps, t)' = Entries(d, ps, t)
  BY DisconnectLists DEF BrokerDisconnects
<1>2. /\ inp' = [inp EXCEPT ![c] = <<>>] /\ out' = [out EXCEPT ![c] = <<>>]
      /\ receiving' = [receiving EXCEPT ![c] = {}]
      /\ UNCHANGED <<subscribers, repeats, delivered>>
  BY DEF BrokerDisconnects
<1>3. ExchangeTypeRest
  BY DEF XInv
<1>4. /\ pub' \in [Name -> Pub]
      /\ \A t \in Name : /\ pub'[t].by = pub[t].by /\ pub'[t].qos = pub[t].qos
                         /\ pub'[t].sent = pub[t].sent /\ pub'[t].state = pub[t].state
  <2>1. pub' = [t \in Name |-> IF pub[t].by = c /\ pub[t].state \in Acks
                               THEN [pub[t] EXCEPT !.broken = TRUE] ELSE pub[t]]
    BY DEF BrokerDisconnects
  <2>2. \A t \in Name : pub[t] \in Pub
    BY <1>3 DEF ExchangeTypeRest
  <2> QED BY <2>1, <2>2 DEF Pub
<1>5. /\ inp' \in [Client -> Seq(Packet)] /\ inp'[c] = <<>>
      /\ out' \in [Client -> Seq(Packet)] /\ out'[c] = <<>>
      /\ \A d \in Client \ {c} : inp'[d] = inp[d] /\ out'[d] = out[d]
      /\ receiving' \in [Client -> SUBSET PacketId] /\ receiving'[c] = {}
      /\ \A d \in Client \ {c} : receiving'[d] = receiving[d]
  BY <1>2, <1>3, EmptySeq DEF ExchangeTypeRest
<1>6. ExchangeTypeRest'
  BY <1>2, <1>3, <1>4, <1>5 DEF ExchangeTypeRest
<1>7. InboundStreams'
  <2>1. \A p \in Packet : p.type = "PUBLISH" => p.topic \in Name
    BY DEF Packet, Acks
  <2>2. \A d \in Client : FromClient(d)' = FromClient(d)
    BY <1>4, <2>1 DEF FromClient, PublishOf, Publish
  <2>3. \A d \in Client : inp'[d] \in Seq(FromClient(d))
    BY <1>5, XInvStreams, EmptySeq DEF InboundStreams
  <2> QED BY <1>5, <2>2, <2>3 DEF InboundStreams
<1>8. OutboundStreams'
  <2>1. \A d \in Client : ToClient(d)' = ToClient(d)
    BY <1>2 DEF ToClient
  <2>2. \A d \in Client : out'[d] \in Seq(ToClient(d))
    BY <1>5, XInvStreams, EmptySeq DEF OutboundStreams
  <2> QED BY <1>5, <2>1, <2>2 DEF OutboundStreams
<1>9. ASSUME NEW d \in Client, NEW p \in DOMAIN mq'[d]
      PROVE  Owned(d, mq[d][p])'
  <2>1. d # c
    BY <1>1, <1>9 DEF EmptyList
  <2>2. mq'[d] = mq[d] /\ p \in DOMAIN mq[d]
    BY <1>1, <2>1
  <2>3. Owned(d, mq[d][p])
    BY <2>2 DEF XInv
  <2>4. store'[mq'[d][p].ms].topic = store[mq[d][p].ms].topic
    BY <1>1, <2>2, TopicStays
  <2>5. store[mq[d][p].ms].topic \in Name
    BY <2>2 DEF IInv, Agree, IsStore, Message
  <2> QED BY <1>2, <1>4, <2>2, <2>3, <2>4, <2>5 DEF Owned
<1>10. Away' /\ TableOfHash'
  BY <1>1, <1>2, <1>5 DEF XInv, Away, TableOfHash
<1>11. XInv'
  <2>1. \A t \in Name : pub'[t].state = "new" => pub'[t].sent = 0
    BY <1>4 DEF XInv
  <2> QED BY <1>6, <1>7, <1>8, <1>9, <1>10, <2>1, XInvFrom DEF AllOwned
<1>12. \A d \in Client \ {c}, t \in Name :
         /\ Written(d, t)' = Written(d, t) /\ Queued(d, t)' = Queued(d, t)
         /\ Published(d, t)' = Published(d, t)
  BY <1>1, <1>5 DEF Written, Queued, Published
<1>13. ASSUME NEW d \in Client, NEW t \in Name
       PROVE  Transit(d, t)' = IF d = c THEN 0 ELSE Transit(d, t)
  <2>1. PICK b \in Client : b = pub[t].by
    BY <1>3 DEF ExchangeTypeRest, Pub
  <2>2. b = pub'[t].by
    BY <1>4, <2>1
  <2>3. /\ \A e : e \in Up <=> e \in sessions /\ e # c
        /\ \A e : e \in Up' <=> e \in sessions /\ e # c
    <3>1. NULL \notin sessions
      BY BrokerAssumption DEF IInv, TypeRest
    <3> QED BY <1>1, <3>1 DEF Up
  <2>4. CASE d = c
    BY <1>1, <2>4 DEF Transit
  <2>5. CASE d # c
    <3>1. /\ Written(d, t)' = Written(d, t) /\ Queued(d, t)' = Queued(d, t)
          /\ b # c => Published(b, t)' = Published(b, t)
      BY <1>12, <2>5
    <3> QED BY <1>1, <1>2, <2>1, <2>2, <2>3, <2>5, <3>1 DEF Transit
  <2> QED BY <2>4, <2>5
<1> QED BY <1>11, <1>13

LEMMA ReconnectXInv ==
  ASSUME IInv, IInv', XInv, NEW c \in Client, Reconnect(c)
  PROVE  /\ XInv' /\ c \notin subscribers
         /\ \A d \in Client, t \in Name : Transit(d, t)' = Transit(d, t)
<1>1. /\ running /\ closing = NULL /\ c \notin sessions /\ sessions' = sessions \cup {c}
      /\ UNCHANGED <<running, store, subtree, closing>>
      /\ c \notin subscribers /\ UNCHANGED <<subscribers, out, clientVars>>
  BY DEF Reconnect, Accept, Idle
<1>2. \A d \in Client : mq'[d] = mq[d]
  <2>1. DOMAIN mq = Client /\ DOMAIN mq[c] = {} /\ IsList(mq[c])
    BY <1>1 DEF IInv, Agree, AreLists, UnusedEmpty
  <2>2. mq[c] = EmptyList
    BY <2>1 DEF IsList, EmptyList
  <2>3. mq' = [mq EXCEPT ![c] = EmptyList]
    BY DEF Reconnect, Accept
  <2> QED BY <2>1, <2>2, <2>3
<1>3. PICK id \in ClientId : inp' = Put(inp, c, <<Connect(id)>>)
  BY DEF Reconnect
<1>4. Connect(id) \in Packet /\ Connect(id).type # "PUBLISH"
  BY DEF Connect, Packet
<1>5. /\ InboundStreams' /\ \A d \in Client \ {c} : inp'[d] = inp[d]
      /\ \A d \in Client, t \in Name : Copies(inp'[d], t) = Copies(inp[d], t)
  <2>1. UNCHANGED pub
    BY <1>1 DEF clientVars
  <2> QED BY <1>3, <1>4, <2>1, QuietStreams
<1>6. ExchangeTypeRest'
  BY <1>1, <1>5 DEF XInv, ExchangeTypeRest, InboundStreams, clientVars
<1>7. OutboundStreams' /\ AllOwned'
  BY <1>1, <1>2, XInvStreams DEF OutboundStreams, ToClient, XInv, AllOwned, Owned, clientVars
<1>8. Away' /\ TableOfHash'
  BY <1>1, <1>5 DEF XInv, Away, TableOfHash, clientVars
<1>9. XInv'
  BY <1>1, <1>5, <1>6, <1>7, <1>8, XInvFrom DEF XInv, clientVars
<1>10. \A d \in Client, t \in Name :
         /\ Written(d, t)' = Written(d, t) /\ Queued(d, t)' = Queued(d, t)
         /\ Published(d, t)' = Published(d, t)
  BY <1>1, <1>2, <1>5 DEF Written, Queued, Published, Entries, Copies
<1>11. \A t \in Name : Published(c, t) = 0
  <2>1. inp[c] = <<>> /\ DOMAIN mq[c] = {}
    BY <1>1 DEF XInv, Away, IInv, UnusedEmpty
  <2>2. \A t : Publishes(inp[c], t) = {} /\ Entries(c, "WAIT_FOR_PUBREL", t) = {}
    BY <2>1 DEF Publishes, Entries
  <2> QED BY <2>2, FS_EmptySet DEF Published
<1>12. ASSUME NEW d \in Client, NEW t \in Name
       PROVE  Transit(d, t)' = Transit(d, t)
  <2>1. PICK b \in Client : b = pub[t].by /\ b = pub'[t].by
    BY <1>1 DEF XInv, ExchangeTypeRest, Pub, clientVars
  <2>2. /\ Written(d, t)' = Written(d, t) /\ Queued(d, t)' = Queued(d, t)
        /\ Published(b, t)' = Published(b, t) /\ (b = c => Published(b, t) = 0)
    BY <1>10, <1>11
  <2>3. Up = sessions /\ \A e : e \in Up' <=> e \in sessions \/ e = c
    BY <1>1, BrokerAssumption DEF Up, IInv, TypeRest
  <2>4. d \in subscribers => d # c
    BY <1>1
  <2>5. Published(b, t) \in Nat /\ Written(d, t) \in Nat /\ Queued(d, t) \in Nat
    BY XInvStreams, NumbersNat
  <2> QED BY <1>1, <2>1, <2>2, <2>3, <2>4, <2>5 DEF Transit
<1> QED BY <1>1, <1>9, <1>12

(***************************************************************************)
(* The publisher of t sends its PUBLISH, for the first time or again: the  *)
(* subscribers have one more copy to come, if the publisher is connected.  *)
(***************************************************************************)
Sends(t) ==
  /\ UNCHANGED <<vars, subscribers, out, receiving, delivered>>
  /\ repeats' \in 0 .. MaxRepeats
  /\ inp' = Put(inp, pub[t].by, <<PublishOf(t)>>)
  /\ pub' \in [Name -> Pub]
  /\ \A u \in Name : pub'[u].by = pub[u].by /\ pub'[u].qos = pub[u].qos
  /\ \A u \in Name \ {t} : pub'[u] = pub[u]
  /\ pub'[t].sent = pub[t].sent + 1 /\ pub'[t].state # "new"
  /\ Connected(pub[t].by)

LEMMA PublishesSends ==
  ASSUME XInv, NEW t \in Name,
         \/ ClientPublishes(t)
         \/ ClientRepeats(t) /\ pub[t].state # "PUBCOMP"
  PROVE  Sends(t)
<1>1. /\ pub \in [Name -> Pub] /\ pub[t] \in Pub /\ repeats \in 0 .. MaxRepeats
      /\ pub[t].state = "new" => pub[t].sent = 0
  BY DEF XInv, ExchangeTypeRest
<1>2. CASE ClientPublishes(t)
  <2>1. <<"done", "PUBACK", "PUBREC">>[pub[t].qos + 1] \in {"done", "PUBACK", "PUBREC"}
    BY <1>1 DEF Pub, Qos
  <2>2. pub' = [pub EXCEPT ![t].sent = 1,
                           ![t].state = <<"done", "PUBACK", "PUBREC">>[pub[t].qos + 1]]
    BY <1>2 DEF ClientPublishes
  <2> DEFINE st == <<"done", "PUBACK", "PUBREC">>[pub[t].qos + 1]
  <2> HIDE DEF st
  <2>3. pub' = [pub EXCEPT ![t] = [[pub[t] EXCEPT !.sent = 1] EXCEPT !.state = st]]
    BY <1>1, <2>2 DEF st
  <2>4. /\ pub' \in [Name -> Pub] /\ \A u \in Name \ {t} : pub'[u] = pub[u]
        /\ pub'[t].by = pub[t].by /\ pub'[t].qos = pub[t].qos
        /\ pub'[t].sent = 1 /\ pub'[t].state # "new"
    BY <1>1, <2>1, <2>3 DEF Pub, Acks, st
  <2> QED BY <1>1, <1>2, <2>4 DEF ClientPublishes, Sends
<1>3. CASE ClientRepeats(t) /\ pub[t].state # "PUBCOMP"
  <2>1. pub' = [pub EXCEPT ![t] = [pub[t] EXCEPT !.sent = pub[t].sent + 1]]
    BY <1>1, <1>3 DEF ClientRepeats
  <2>2. /\ pub' \in [Name -> Pub] /\ \A u \in Name \ {t} : pub'[u] = pub[u]
        /\ pub'[t].by = pub[t].by /\ pub'[t].qos = pub[t].qos
        /\ pub'[t].sent = pub[t].sent + 1 /\ pub'[t].state = pub[t].state
    BY <1>1, <2>1 DEF Pub
  <2>3. repeats' \in 0 .. MaxRepeats
    BY <1>1, <1>3, ExchangeAssumption DEF ClientRepeats
  <2>4. pub[t].state # "new"
    BY <1>3 DEF ClientRepeats, Acks
  <2> QED BY <1>3, <2>2, <2>3, <2>4 DEF ClientRepeats, Sends
<1> QED BY <1>2, <1>3

(* A connected client has a PUBLISH of its own to send.                    *)
LEMMA PublishOfType ==
  ASSUME XInv, NEW t \in Name
  PROVE  PublishOf(t) \in Packet /\ IsCopy(PublishOf(t), t)
<1>1. pub[t].qos \in Qos
  BY DEF XInv, ExchangeTypeRest, Pub
<1>2. PidOf[t] \in PacketId
  BY ExchangeAssumption, BrokerAssumption
<1>3. (IF pub[t].qos = 0 THEN NoPid ELSE PidOf[t]) \in PacketId \cup {NoPid}
  BY <1>2
<1> QED BY <1>1, <1>3 DEF PublishOf, Publish, Packet, IsCopy

LEMMA SendsXInv ==
  ASSUME IInv, XInv, NEW t \in Name, Sends(t)
  PROVE  /\ XInv'
         /\ \A d \in Client, u \in Name \ {t} : Transit(d, u)' = Transit(d, u)
         /\ \A d \in Client :
              Transit(d, t)' = Transit(d, t)
                + IF d \in subscribers \cap Up /\ pub[t].by \in Up THEN 1 ELSE 0
<1>1. /\ inp \in [Client -> Seq(Packet)]
      /\ \A d \in Client : inp[d] \in Seq(FromClient(d))
  BY XInvStreams DEF InboundStreams
<1>2. PICK b \in Client : b = pub[t].by
  BY DEF XInv, ExchangeTypeRest, Pub
<1>3. /\ UNCHANGED <<running, sessions, client_id, packet_id_source, mq, store,
                     subtree, closing>>
      /\ UNCHANGED <<subscribers, out, receiving, delivered>>
      /\ running /\ b \in sessions
  BY <1>2 DEF Sends, vars, Connected
<1>4. \A d \in Client : FromClient(d)' = FromClient(d)
  <2>1. \A p \in Packet : p.type = "PUBLISH" => p.topic \in Name
    BY DEF Packet, Acks
  <2> QED BY <2>1 DEF Sends, FromClient, PublishOf, Publish
<1>5. PublishOf(t) \in Packet /\ IsCopy(PublishOf(t), t)
  BY PublishOfType
<1>6. /\ inp'[b] = inp[b] \o <<PublishOf(t)>>
      /\ \A d \in Client \ {b} : inp'[d] = inp[d]
      /\ DOMAIN inp' = Client /\ inp' = [d \in Client |-> inp'[d]]
  BY <1>1, <1>2 DEF Put, Sends
<1>7. PublishOf(t) \in FromClient(b)
  BY <1>2, <1>5 DEF FromClient, IsCopy
<1>8. inp'[b] \in Seq(FromClient(b))
  BY <1>1, <1>6, <1>7, PutPositions
<1>9. /\ inp'[b] \in Seq(Packet)
      /\ Copies(inp'[b], t) = Copies(inp[b], t) + 1
      /\ \A u \in Name \ {t} : Copies(inp'[b], u) = Copies(inp[b], u)
  BY <1>1, <1>5, <1>6, PutCopies DEF IsCopy
<1>10. InboundStreams'
  <2>1. \A d \in Client : inp'[d] \in Seq(Packet)
    BY <1>1, <1>6, <1>9
  <2>2. \A d \in Client : inp'[d] \in Seq(FromClient(d)')
    BY <1>1, <1>4, <1>6, <1>8
  <2> QED BY <1>6, <2>1, <2>2 DEF InboundStreams
<1>11. ExchangeTypeRest'
  BY <1>3, <1>10 DEF XInv, ExchangeTypeRest, InboundStreams, Sends
<1>12. OutboundStreams'
  BY <1>3, XInvStreams DEF OutboundStreams, ToClient
<1>13. ASSUME NEW d \in Client, NEW p \in DOMAIN mq'[d]
       PROVE  Owned(d, mq[d][p])'
  <2>1. Owned(d, mq[d][p]) /\ mq[d][p].ms \in DOMAIN store
    BY <1>3, <1>13 DEF XInv, IInv, Agree
  <2>2. store[mq[d][p].ms].topic \in Name
    BY <2>1 DEF IInv, Agree, IsStore, Message
  <2> QED BY <1>3, <2>1, <2>2 DEF Owned, Sends
<1>14. Away' /\ TableOfHash'
  BY <1>3, <1>6 DEF XInv, Away, TableOfHash
<1>15. XInv'
  <2>1. \A u \in Name : pub'[u].state = "new" => pub'[u].sent = 0
    BY DEF Sends, XInv
  <2> QED BY <1>10, <1>11, <1>12, <1>13, <1>14, <2>1, XInvFrom DEF AllOwned
<1>16. ASSUME NEW d \in Client, NEW u \in Name
       PROVE  /\ Written(d, u)' = Written(d, u) /\ Written(d, u) \in Nat
              /\ Queued(d, u)' = Queued(d, u) /\ Held(d, u)' = Held(d, u)
              /\ Held(d, u) \in Nat /\ Copies(inp[d], u) \in Nat
  <2>1. /\ Written(d, u)' = Written(d, u) /\ Queued(d, u)' = Queued(d, u)
        /\ Held(d, u)' = Held(d, u)
    BY <1>3 DEF Written, Queued, Held, Entries
  <2> QED BY <1>1, <2>1, XInvStreams, NumbersNat, HeldNat, CopiesNat
<1>17. \A d \in Client, u \in Name :
         Published(d, u)' = Published(d, u) + IF d = b /\ u = t THEN 1 ELSE 0
  <2>1. \A d \in Client, u \in Name :
          /\ Published(d, u) = Copies(inp[d], u) + Held(d, u)
          /\ Published(d, u)' = Copies(inp'[d], u) + Held(d, u)'
    BY DEF Published, Copies, Held
  <2>2. \A d \in Client, u \in Name :
          Copies(inp'[d], u) = Copies(inp[d], u) + IF d = b /\ u = t THEN 1 ELSE 0
    <3> TAKE d \in Client, u \in Name
    <3>1. Copies(inp[d], u) \in Nat
      BY <1>16
    <3>2. CASE d = b /\ u = t
      BY <1>9, <3>2
    <3>3. CASE d = b /\ u # t
      BY <1>9, <3>1, <3>3
    <3>4. CASE d # b
      BY <1>6, <3>1, <3>4
    <3> QED BY <3>2, <3>3, <3>4
  <2> QED BY <1>16, <2>1, <2>2
<1>18. ASSUME NEW d \in Client, NEW u \in Name \ {t}
       PROVE  Transit(d, u)' = Transit(d, u)
  <2>1. PICK a \in Client : a = pub[u].by /\ pub'[u].by = pub[u].by
    BY DEF XInv, ExchangeTypeRest, Pub, Sends
  <2>2. Published(a, u)' = Published(a, u) + 0
    BY <1>17
  <2>3. Written(d, u)' = Written(d, u) /\ Written(d, u) = Written(d, u) + 0
        /\ Written(d, u) \in Nat /\ 0 \in Nat
    BY <1>16
  <2>4. /\ Transit(d, u) \in Nat /\ Transit(d, u)' \in Nat
        /\ d \notin subscribers \cap sessions => Transit(d, u)' = 0 /\ Transit(d, u) = 0
        /\ d \in subscribers \cap sessions =>
             /\ (d \notin Up \/ a \notin Up) => Transit(d, u)' + 0 = Transit(d, u)
             /\ (d \in Up /\ a \in Up) => Transit(d, u)' + 0 = Transit(d, u) + 0
    BY <1>3, <1>16, <2>1, <2>2, <2>3, TransitMoves
  <2> QED BY <2>4
<1>19. ASSUME NEW d \in Client
       PROVE  Transit(d, t)' = Transit(d, t)
                + IF d \in subscribers \cap Up /\ pub[t].by \in Up THEN 1 ELSE 0
  <2>1. Published(b, t)' = Published(b, t) + 1 /\ pub'[t].by = pub[t].by
    BY <1>17 DEF Sends
  <2>2. Written(d, t)' = Written(d, t) + 0 /\ Written(d, t) = Written(d, t) + 0
        /\ Written(d, t) \in Nat /\ 0 \in Nat /\ 1 \in Nat
    BY <1>16
  <2>3. /\ Transit(d, t) \in Nat /\ Transit(d, t)' \in Nat
        /\ d \notin subscribers \cap sessions => Transit(d, t)' = 0 /\ Transit(d, t) = 0
        /\ d \in subscribers \cap sessions =>
             /\ (d \notin Up \/ b \notin Up) => Transit(d, t)' + 0 = Transit(d, t)
             /\ (d \in Up /\ b \in Up) => Transit(d, t)' + 0 = Transit(d, t) + 1
    BY <1>2, <1>3, <1>16, <2>1, <2>2, TransitMoves
  <2> QED BY <1>2, <2>3 DEF Up
<1> QED BY <1>15, <1>18, <1>19

(* What a client does with a packet it reads.                              *)
LEMMA ClientAnswers ==
  ASSUME XInv, NEW c \in Client, ClientReads(c)
  PROVE  /\ pub' \in [Name -> Pub]
         /\ \A t \in Name :
              /\ pub'[t].by = pub[t].by /\ pub'[t].qos = pub[t].qos
              /\ pub'[t].sent = pub[t].sent
              /\ pub'[t].state = "new" => pub[t].state = "new"
         /\ \E e \in Packet :
              e.type # "PUBLISH" /\ (inp' = inp \/ inp' = Put(inp, c, <<e>>))
         /\ receiving' \in [Client -> SUBSET PacketId]
         /\ \A d \in Client \ {c} : receiving'[d] = receiving[d]
         /\ delivered' \in [Client -> [Name -> Nat]]
         /\ \A d \in Client, t \in Name :
              \/ delivered'[d][t] = delivered[d][t]
              \/ /\ d = c /\ IsCopy(Head(out[c]), t)
                 /\ delivered'[d][t] = delivered[d][t] + 1
<1> DEFINE p == Head(out[c])
<1>1. out[c] # <<>> /\ out[c] \in Seq(ToClient(c))
  BY XInvStreams DEF ClientReads, OutboundStreams
<1>2. p \in ToClient(c)
  BY <1>1, HeadTailProperties
<1>3. /\ p \in Packet
      /\ p.type = "PUBLISH" /\ p.qos > 0 => p.pid \in PacketId
  BY <1>2 DEF ToClient
<1>4. TakeAck(c, p) \/ TakePublish(c, p) \/ TakePubrel(c, p) \/ TakeConnack(p)
  BY DEF ClientReads
<1>5. /\ pub \in [Name -> Pub] /\ receiving \in [Client -> SUBSET PacketId]
      /\ delivered \in [Client -> [Name -> Nat]]
  BY DEF XInv, ExchangeTypeRest
<1> HIDE DEF p
<1>6. \A type \in Acks, pid \in PacketId :
        Ack(type, pid) \in Packet /\ Ack(type, pid).type # "PUBLISH"
  BY DEF Ack, Packet, Acks
<1>7. [type |-> "CONNACK"] \in Packet /\ [type |-> "CONNACK"].type # "PUBLISH"
  BY DEF Packet
<1> DEFINE Quiet == \E e \in Packet :
             e.type # "PUBLISH" /\ (inp' = inp \/ inp' = Put(inp, c, <<e>>))
<1>8. /\ inp' = inp => Quiet
      /\ \A type \in Acks, pid \in PacketId : inp' = Put(inp, c, <<Ack(type, pid)>>) => Quiet
  BY <1>6, <1>7
<1> HIDE DEF Quiet
<1>9. CASE TakeAck(c, p)
  <2>1. p.type \in {"PUBACK", "PUBREC", "PUBCOMP"} /\ p.pid \in PacketId
    BY <1>3, <1>9 DEF TakeAck, Packet, Acks
  <2>2. Quiet
    BY <1>8, <1>9, <2>1 DEF TakeAck, Acks
  <2>3. pub' = [t \in Name |->
          IF t \notin Mine(c, p) THEN pub[t]
          ELSE IF p.type = "PUBREC" /\ pub[t].state = "PUBREC"
               THEN [pub[t] EXCEPT !.state = "PUBCOMP"]
          ELSE IF p.type = pub[t].state THEN [pub[t] EXCEPT !.state = "done"]
          ELSE pub[t]]
    BY <1>9 DEF TakeAck
  <2>4. \A t \in Name :
          \/ pub'[t] = pub[t] \/ pub'[t] = [pub[t] EXCEPT !.state = "PUBCOMP"]
          \/ pub'[t] = [pub[t] EXCEPT !.state = "done"]
    BY <2>3
  <2>5. \A t \in Name :
          /\ pub'[t] \in Pub
          /\ pub'[t].by = pub[t].by /\ pub'[t].qos = pub[t].qos
          /\ pub'[t].sent = pub[t].sent
          /\ pub'[t].state = "new" => pub[t].state = "new"
    <3> TAKE t \in Name
    <3>1. pub[t] \in Pub
      BY <1>5
    <3>2. CASE pub'[t] = pub[t]
      BY <3>1, <3>2
    <3>3. CASE pub'[t] = [pub[t] EXCEPT !.state = "PUBCOMP"]
      BY <3>1, <3>3 DEF Pub, Acks
    <3>4. CASE pub'[t] = [pub[t] EXCEPT !.state = "done"]
      BY <3>1, <3>4 DEF Pub
    <3> QED BY <2>4, <3>2, <3>3, <3>4
  <2>6. pub' \in [Name -> Pub]
    BY <2>3, <2>5
  <2>7. UNCHANGED <<receiving, delivered>>
    BY <1>9 DEF TakeAck
  <2> QED BY <1>5, <2>2, <2>5, <2>6, <2>7 DEF Quiet
<1>10. CASE TakePublish(c, p)
  <2>1. /\ p.type = "PUBLISH" /\ p.topic \in Name /\ p.qos \in Qos
        /\ p.qos > 0 => p.pid \in PacketId
    BY <1>3, <1>10 DEF TakePublish, Packet, Acks
  <2>2. Quiet
    <3>1. CASE p.qos = 0
      BY <1>8, <1>10, <3>1 DEF TakePublish
    <3>2. CASE p.qos = 1
      BY <1>8, <1>10, <2>1, <3>2 DEF TakePublish, Acks
    <3>3. CASE p.qos = 2
      BY <1>8, <1>10, <2>1, <3>3 DEF TakePublish, Acks
    <3> QED BY <2>1, <3>1, <3>2, <3>3 DEF Qos
  <2>3. /\ receiving' \in [Client -> SUBSET PacketId]
        /\ \A d \in Client \ {c} : receiving'[d] = receiving[d]
    <3>1. CASE p.qos = 2
      BY <1>5, <1>10, <2>1, <3>1 DEF TakePublish
    <3>2. CASE p.qos # 2
      BY <1>5, <1>10, <3>2 DEF TakePublish
    <3> QED BY <3>1, <3>2
  <2>4. UNCHANGED pub
    BY <1>10 DEF TakePublish
  <2>5. /\ delivered' \in [Client -> [Name -> Nat]]
        /\ \A d \in Client, t \in Name :
             \/ delivered'[d][t] = delivered[d][t]
             \/ d = c /\ IsCopy(p, t) /\ delivered'[d][t] = delivered[d][t] + 1
    <3>1. CASE UNCHANGED delivered
      BY <1>5, <3>1
    <3>2. CASE delivered' = [delivered EXCEPT ![c][p.topic] = @ + 1]
      BY <1>5, <2>1, <3>2 DEF IsCopy
    <3> QED BY <1>10, <3>1, <3>2 DEF TakePublish
  <2> QED BY <1>5, <2>2, <2>3, <2>4, <2>5 DEF Quiet, p
<1>11. CASE TakePubrel(c, p)
  <2>1. p.type = "PUBREL" /\ p.pid \in PacketId
    BY <1>3, <1>11 DEF TakePubrel, Packet, Acks
  <2>2. Quiet
    BY <1>8, <1>11, <2>1 DEF TakePubrel, Acks
  <2>3. /\ receiving' \in [Client -> SUBSET PacketId]
        /\ \A d \in Client \ {c} : receiving'[d] = receiving[d]
    BY <1>5, <1>11 DEF TakePubrel
  <2>4. UNCHANGED <<pub, delivered>>
    BY <1>11 DEF TakePubrel
  <2> QED BY <1>5, <2>2, <2>3, <2>4 DEF Quiet
<1>12. CASE TakeConnack(p)
  <2>1. UNCHANGED <<inp, pub, receiving, delivered>>
    BY <1>12 DEF TakeConnack
  <2>2. Quiet
    BY <1>8, <2>1
  <2> QED BY <1>5, <2>1, <2>2 DEF Quiet
<1> QED BY <1>4, <1>9, <1>10, <1>11, <1>12

(***************************************************************************)
(* A step of client c alone that publishes nothing: it may put an answer   *)
(* into its stream, and has taken a packet, or none, from the other.       *)
(***************************************************************************)
Quiet(c) ==
  /\ Connected(c) /\ UNCHANGED <<vars, subscribers>>
  /\ repeats' \in 0 .. MaxRepeats
  /\ \E e \in Packet : e.type # "PUBLISH" /\ (inp' = inp \/ inp' = Put(inp, c, <<e>>))
  /\ out' = out \/ (out[c] # <<>> /\ out' = [out EXCEPT ![c] = Tail(@)])
  /\ pub' \in [Name -> Pub]
  /\ \A t \in Name :
       /\ pub'[t].by = pub[t].by /\ pub'[t].qos = pub[t].qos /\ pub'[t].sent = pub[t].sent
       /\ pub'[t].state = "new" => pub[t].state = "new"
  /\ receiving' \in [Client -> SUBSET PacketId]
  /\ \A d \in Client \ {c} : receiving'[d] = receiving[d]
  /\ delivered' \in [Client -> [Name -> Nat]]

LEMMA QuietXInv ==
  ASSUME IInv, XInv, NEW c \in Client, Quiet(c)
  PROVE  /\ XInv'
         /\ \A d \in Client, t \in Name :
              Transit(d, t) =
                Transit(d, t)' + IF /\ d = c /\ out' # out /\ IsCopy(Head(out[c]), t)
                                    /\ c \in subscribers
                                 THEN 1 ELSE 0
<1>1. PICK e \in Packet : e.type # "PUBLISH" /\ (inp' = inp \/ inp' = Put(inp, c, <<e>>))
  BY DEF Quiet
<1>2. /\ UNCHANGED <<running, sessions, client_id, packet_id_source, mq, store,
                     subtree, closing>>
      /\ UNCHANGED subscribers /\ running /\ c \in sessions
      /\ \A t \in Name : pub'[t].by = pub[t].by /\ pub'[t].qos = pub[t].qos
      /\ \A d \in Client \ {c} : receiving'[d] = receiving[d]
  BY DEF Quiet, vars, Connected
<1>3. /\ InboundStreams' /\ \A d \in Client \ {c} : inp'[d] = inp[d]
      /\ \A d \in Client, t \in Name : Copies(inp'[d], t) = Copies(inp[d], t)
  BY <1>1, <1>2, QuietStreams
<1>4. /\ out \in [Client -> Seq(Packet)] /\ \A d \in Client : out[d] \in Seq(ToClient(d))
      /\ \A d \in Client : ToClient(d)' = ToClient(d)
  BY <1>2, XInvStreams DEF OutboundStreams, ToClient
<1>5. /\ OutboundStreams' /\ \A d \in Client \ {c} : out'[d] = out[d]
      /\ \A d \in Client, t \in Name :
           /\ Written(d, t)' \in Nat
           /\ Written(d, t) =
                Written(d, t)' + IF d = c /\ out' # out /\ IsCopy(Head(out[c]), t)
                                 THEN 1 ELSE 0
  <2>1. CASE out' = out
    <3>1. OutboundStreams'
      BY <1>4, <2>1 DEF OutboundStreams
    <3>2. \A d \in Client, t \in Name : Copies(out[d], t) \in Nat
      BY <1>4, CopiesNat
    <3> QED BY <2>1, <3>1, <3>2 DEF Written, Copies
  <2>2. CASE out' # out
    <3>1. /\ out[c] # <<>> /\ out'[c] = Tail(out[c])
          /\ \A d \in Client \ {c} : out'[d] = out[d]
          /\ DOMAIN out' = Client /\ out' = [d \in Client |-> out'[d]]
      BY <1>4, <2>2 DEF Quiet
    <3>2. out'[c] \in Seq(ToClient(c))
      BY <1>4, <3>1, HeadTailProperties
    <3>3. /\ out'[c] \in Seq(Packet)
          /\ \A t \in Name :
               /\ IsCopy(Head(out[c]), t) => Copies(out[c], t) = Copies(out'[c], t) + 1
               /\ ~ IsCopy(Head(out[c]), t) => Copies(out[c], t) = Copies(out'[c], t)
      BY <1>4, <3>1, TailCopies
    <3>4. \A d \in Client : out'[d] \in Seq(Packet)
      BY <1>4, <3>1, <3>3
    <3>5. \A d \in Client : out'[d] \in Seq(ToClient(d)')
      BY <1>4, <3>1, <3>2
    <3>6. OutboundStreams'
      BY <3>1, <3>4, <3>5 DEF OutboundStreams
    <3>7. ASSUME NEW d \in Client, NEW t \in Name
          PROVE  /\ Copies(out'[d], t) \in Nat
                 /\ Copies(out[d], t) =
                      Copies(out'[d], t) + IF d = c /\ IsCopy(Head(out[c]), t)
                                           THEN 1 ELSE 0
      <4>1. Copies(out'[d], t) \in Nat /\ Copies(out[d], t) \in Nat
        BY <1>4, <3>4, CopiesNat
      <4>2. CASE d = c
        BY <3>3, <4>1, <4>2
      <4>3. CASE d # c
        BY <3>1, <4>1, <4>3
      <4> QED BY <4>2, <4>3
    <3> QED BY <2>2, <3>1, <3>6, <3>7 DEF Written, Copies
  <2> QED BY <2>1, <2>2
<1>6. ExchangeTypeRest'
  BY <1>2, <1>3, <1>5 DEF XInv, ExchangeTypeRest, InboundStreams, OutboundStreams, Quiet
<1>7. ASSUME NEW d \in Client, NEW p \in DOMAIN mq'[d]
      PROVE  Owned(d, mq[d][p])'
  <2>1. Owned(d, mq[d][p]) /\ mq[d][p].ms \in DOMAIN store
    BY <1>2, <1>7 DEF XInv, IInv, Agree
  <2>2. store[mq[d][p].ms].topic \in Name
    BY <2>1 DEF IInv, Agree, IsStore, Message
  <2> QED BY <1>2, <2>1, <2>2 DEF Owned
<1>8. Away' /\ TableOfHash'
  BY <1>2, <1>3, <1>5 DEF XInv, Away, TableOfHash
<1>9. \A t \in Name : pub'[t].state = "new" => pub'[t].sent = 0
  BY DEF Quiet, XInv
<1>10. XInv'
  BY <1>3, <1>5, <1>6, <1>7, <1>8, <1>9, XInvFrom DEF AllOwned
<1>11. ASSUME NEW d \in Client, NEW t \in Name
       PROVE  Transit(d, t) =
                Transit(d, t)' + IF /\ d = c /\ out' # out /\ IsCopy(Head(out[c]), t)
                                    /\ c \in subscribers
                                 THEN 1 ELSE 0
  <2> DEFINE x == IF d = c /\ out' # out /\ IsCopy(Head(out[c]), t) THEN 1 ELSE 0
  <2>1. PICK b \in Client : b = pub[t].by
    BY DEF XInv, ExchangeTypeRest, Pub
  <2>2. Published(b, t)' = Published(b, t) + 0
    <3>1. /\ Published(b, t) = Copies(inp[b], t) + Held(b, t)
          /\ Published(b, t)' = Copies(inp'[b], t) + Held(b, t)'
          /\ Held(b, t)' = Held(b, t)
      BY <1>2 DEF Published, Copies, Held, Entries
    <3>2. Published(b, t) \in Nat
      BY XInvStreams, NumbersNat
    <3> QED BY <1>3, <3>1, <3>2
  <2>3. Queued(d, t)' = Queued(d, t)
    BY <1>2 DEF Queued, Entries
  <2>4. PICK w \in Nat : Written(d, t)' = w /\ Written(d, t) = w + x
    BY <1>5
  <2>5. /\ x \in Nat /\ 0 \in Nat
        /\ UNCHANGED <<sessions, closing, subscribers>> /\ pub'[t].by = pub[t].by
    BY <1>2
  <2> HIDE DEF x
  <2>6. /\ Transit(d, t) \in Nat /\ Transit(d, t)' \in Nat
        /\ d \notin subscribers \cap sessions => Transit(d, t)' = 0 /\ Transit(d, t) = 0
        /\ d \in subscribers \cap sessions =>
             /\ (d \notin Up \/ b \notin Up) => Transit(d, t)' + x = Transit(d, t)
             /\ (d \in Up /\ b \in Up) => Transit(d, t)' + x = Transit(d, t) + 0
    BY <2>1, <2>2, <2>3, <2>4, <2>5, TransitMoves
  <2> QED BY <1>2, <2>6 DEF x
<1> QED BY <1>10, <1>11

(* A client repeats PUBREL, or reads a packet.                             *)
LEMMA AnswersQuiet ==
  ASSUME XInv
  PROVE  /\ \A c \in Client : ClientReads(c) => Quiet(c)
         /\ \A t \in Name : ClientRepeats(t) /\ pub[t].state = "PUBCOMP" =>
              Quiet(pub[t].by) /\ UNCHANGED <<pub, out, receiving, delivered>>
<1>1. ASSUME NEW c \in Client, ClientReads(c) PROVE Quiet(c)
  <2>1. repeats' \in 0 .. MaxRepeats
    BY <1>1 DEF XInv, ExchangeTypeRest, ClientReads
  <2>2. /\ Connected(c) /\ UNCHANGED <<vars, subscribers>> /\ out[c] # <<>>
        /\ out' = [out EXCEPT ![c] = Tail(@)]
    BY <1>1 DEF ClientReads
  <2> QED BY <1>1, <2>1, <2>2, ClientAnswers DEF Quiet
<1>2. ASSUME NEW t \in Name, ClientRepeats(t), pub[t].state = "PUBCOMP"
      PROVE  Quiet(pub[t].by) /\ UNCHANGED <<pub, out, receiving, delivered>>
  <2>1. PidOf[t] \in PacketId
    BY ExchangeAssumption, BrokerAssumption
  <2>2. Ack("PUBREL", PidOf[t]) \in Packet /\ Ack("PUBREL", PidOf[t]).type # "PUBLISH"
    BY <2>1 DEF Ack, Packet, Acks
  <2>3. /\ UNCHANGED <<vars, subscribers, out, receiving, delivered>> /\ UNCHANGED pub
        /\ inp' = Put(inp, pub[t].by, <<Ack("PUBREL", PidOf[t])>>)
        /\ Connected(pub[t].by) /\ repeats < MaxRepeats /\ repeats' = repeats + 1
    BY <1>2 DEF ClientRepeats
  <2>4. /\ pub \in [Name -> Pub] /\ repeats \in 0 .. MaxRepeats
        /\ receiving \in [Client -> SUBSET PacketId]
        /\ delivered \in [Client -> [Name -> Nat]]
    BY DEF XInv, ExchangeTypeRest
  <2>5. repeats' \in 0 .. MaxRepeats
    BY <2>3, <2>4, ExchangeAssumption
  <2> QED BY <2>2, <2>3, <2>4, <2>5 DEF Quiet
<1> QED BY <1>1, <1>2

-----------------------------------------------------------------------------
(* The theorems                                                            *)

(***************************************************************************)
(* The inductive invariant: the lists and the store agree (IInv), an entry *)
(* is in the state its direction and QoS allow (HInv), and the streams and *)
(* lists hold copies where copies may be (XInv).                           *)
(***************************************************************************)
ExchangeInv == IInv /\ HInv /\ XInv

LEMMA StutterXInv ==
  ASSUME XInv, UNCHANGED exchangeVars
  PROVE  XInv' /\ (NoExtraCopy => NoExtraCopy')
<1>1. /\ UNCHANGED <<running, sessions, client_id, packet_id_source, mq, store,
                     subtree, closing>>
      /\ UNCHANGED <<subscribers, inp, out, pub, repeats, receiving, delivered>>
  BY DEF exchangeVars, vars, clientVars
<1>2. XInv'
  <2>1. ExchangeTypeRest'
    BY <1>1 DEF XInv, ExchangeTypeRest
  <2>2. InboundStreams' /\ OutboundStreams'
    BY <1>1, XInvStreams DEF InboundStreams, OutboundStreams, FromClient, ToClient, PublishOf
  <2>3. AllOwned'
    BY <1>1 DEF XInv, AllOwned, Owned
  <2>4. running' => Away' /\ TableOfHash'
    BY <1>1 DEF XInv, Away, TableOfHash
  <2>5. \A t \in Name : pub'[t].state = "new" => pub'[t].sent = 0
    BY <1>1 DEF XInv
  <2> QED BY <2>1, <2>2, <2>3, <2>4, <2>5, XInvFrom
<1>3. NoExtraCopy => NoExtraCopy'
  BY <1>1 DEF NoExtraCopy, Transit, Published, Queued, Written, Entries, Up
<1> QED BY <1>2, <1>3

(* Every step keeps the invariant.                                         *)
LEMMA NextExchangeInv ==
  ASSUME ExchangeInv, [ExchangeNext]_exchangeVars
  PROVE  ExchangeInv'
<1>1. IInv /\ HInv /\ XInv /\ [Next]_vars
  BY ExchangeNextIsNext DEF ExchangeInv
<1>2. IInv' /\ HInv'
  BY <1>1, NextIInv, NextHInv
<1>3. ASSUME NEW c \in Client, Flow(c), running, c \in sessions PROVE XInv'
  BY <1>1, <1>3, FlowXInv
<1>4. ASSUME NEW c \in Client, BrokerReads(c) PROVE XInv'
  <2>1. CASE running'
    BY <1>1, <1>2, <1>3, <1>4, <2>1, ReadFlow DEF BrokerReads, Serves, Idle
  <2>2. CASE ~ running'
    BY <1>1, <1>4, <2>2, HaltXInv
  <2> QED BY <2>1, <2>2
<1>5. ASSUME NEW c \in Client, BrokerWrites(c) PROVE XInv'
  BY <1>1, <1>2, <1>3, <1>5, WriteFlow DEF BrokerWrites, WritePacket, Serves, Idle
<1>6. ASSUME NEW c \in Client, ConnectionFails(c) PROVE XInv'
  BY <1>1, <1>2, <1>3, <1>6, FailFlow DEF ConnectionFails, ReadFails, Serves, Idle
<1>7. ASSUME NEW c \in Client, BrokerDisconnects(c) PROVE XInv'
  BY <1>1, <1>2, <1>7, DisconnectXInv
<1>8. ASSUME NEW c \in Client, Reconnect(c) PROVE XInv'
  BY <1>1, <1>2, <1>8, ReconnectXInv
<1>9. ASSUME NEW c \in Client, ClientReads(c) PROVE XInv'
  BY <1>1, <1>9, AnswersQuiet, QuietXInv
<1>10. ASSUME NEW t \in Name, ClientPublishes(t) PROVE XInv'
  BY <1>1, <1>10, PublishesSends, SendsXInv
<1>11. ASSUME NEW t \in Name, ClientRepeats(t) PROVE XInv'
  <2>1. pub[t].by \in Client
    BY <1>1 DEF XInv, ExchangeTypeRest, Pub
  <2>2. CASE pub[t].state = "PUBCOMP"
    BY <1>1, <1>11, <2>1, <2>2, AnswersQuiet, QuietXInv
  <2>3. CASE pub[t].state # "PUBCOMP"
    BY <1>1, <1>11, <2>3, PublishesSends, SendsXInv
  <2> QED BY <2>2, <2>3
<1>12. ASSUME UNCHANGED exchangeVars PROVE XInv'
  BY <1>1, <1>12, StutterXInv
<1>13. XInv'
  BY <1>4, <1>5, <1>6, <1>7, <1>8, <1>9, <1>10, <1>11, <1>12 DEF ExchangeNext
<1> QED BY <1>2, <1>13 DEF ExchangeInv

(* Every step keeps the number of copies within what was sent.             *)
LEMMA NextNoExtraCopy ==
  ASSUME ExchangeInv, ExchangeInv', NoExtraCopy, [ExchangeNext]_exchangeVars
  PROVE  NoExtraCopy'
<1>1. IInv /\ HInv /\ XInv /\ IInv' /\ XInv'
  BY DEF ExchangeInv
<1>2. \A d \in Client, t \in Name :
        /\ Transit(d, t) \in Nat /\ delivered[d][t] \in Nat /\ pub[t].sent \in Nat
        /\ delivered[d][t] + Transit(d, t) <= pub[t].sent
  BY <1>1, TransitNat DEF XInv, ExchangeTypeRest, Pub, NoExtraCopy
<1>3. ASSUME NEW c \in Client, Flow(c), closing = NULL, c \in sessions
      PROVE  NoExtraCopy'
  <2>1. \A d \in Client, t \in Name : Transit(d, t)' <= Transit(d, t)
    BY <1>1, <1>3, FlowTransit, XInvStreams DEF XInv, ExchangeTypeRest
  <2>2. UNCHANGED <<delivered, pub>>
    BY <1>3 DEF Flow, clientVars
  <2> QED BY <1>1, <2>1, <2>2, LessInTransit
<1>4. ASSUME NEW c \in Client, BrokerReads(c) PROVE NoExtraCopy'
  <2>1. CASE running'
    BY <1>1, <1>3, <1>4, <2>1, ReadFlow DEF BrokerReads, Serves, Idle
  <2>2. CASE ~ running'
    <3>1. \A d \in Client, t \in Name : Transit(d, t)' = 0
      BY <1>1, <1>4, <2>2, HaltXInv
    <3>2. UNCHANGED <<delivered, pub>>
      BY <1>4 DEF BrokerReads, clientVars
    <3>3. \A d \in Client, t \in Name :
            /\ Transit(d, t)' <= Transit(d, t)
            /\ delivered'[d][t] = delivered[d][t] /\ pub'[t].sent = pub[t].sent
      BY <1>2, <3>1, <3>2
    <3> QED BY <1>1, <3>3, LessInTransit
  <2> QED BY <2>1, <2>2
<1>5. ASSUME NEW c \in Client, BrokerWrites(c) PROVE NoExtraCopy'
  BY <1>1, <1>3, <1>5, WriteFlow DEF BrokerWrites, WritePacket, Serves, Idle
<1>6. ASSUME NEW c \in Client, ConnectionFails(c) PROVE NoExtraCopy'
  BY <1>1, <1>3, <1>6, FailFlow DEF ConnectionFails, ReadFails, Serves, Idle
<1>7. ASSUME NEW c \in Client, BrokerDisconnects(c) PROVE NoExtraCopy'
  <2>1. \A d \in Client, t \in Name :
          Transit(d, t)' = IF d = c THEN 0 ELSE Transit(d, t)
    BY <1>1, <1>7, DisconnectXInv
  <2>2. UNCHANGED delivered
    BY <1>7 DEF BrokerDisconnects
  <2>3. \A t \in Name : pub'[t].sent = pub[t].sent
    BY <1>1, <1>7 DEF BrokerDisconnects, XInv, ExchangeTypeRest, Pub
  <2>4. \A d \in Client, t \in Name : Transit(d, t)' <= Transit(d, t)
    BY <1>2, <2>1
  <2> QED BY <1>1, <2>2, <2>3, <2>4, LessInTransit
<1>8. ASSUME NEW c \in Client, Reconnect(c) PROVE NoExtraCopy'
  <2>1. UNCHANGED <<delivered, pub>>
    BY <1>8 DEF Reconnect, clientVars
  <2>2. \A d \in Client, t \in Name : Transit(d, t)' <= Transit(d, t)
    BY <1>1, <1>2, <1>8, ReconnectXInv
  <2> QED BY <1>1, <2>1, <2>2, LessInTransit
<1>9. ASSUME NEW c \in Client, ClientReads(c) PROVE NoExtraCopy'
  <2>1. Quiet(c) /\ out[c] # <<>> /\ out' = [out EXCEPT ![c] = Tail(@)]
    BY <1>1, <1>9, AnswersQuiet DEF ClientReads
  <2>2. out[c] \in Seq(ToClient(c)) /\ out'[c] = Tail(out[c])
    BY <1>1, <2>1, XInvStreams DEF OutboundStreams
  <2>3. out' # out
    <3> DEFINE n == Len(out[c])
    <3>1. Len(Tail(out[c])) = n - 1 /\ n \in Nat
      BY <2>1, <2>2, HeadTailProperties, LenProperties
    <3>2. Len(out'[c]) = n - 1
      BY <2>2, <3>1
    <3>3. out' = out => Len(out'[c]) = n
      OBVIOUS
    <3> HIDE DEF n
    <3> QED BY <3>1, <3>2, <3>3
  <2>4. \A t \in Name : IsCopy(Head(out[c]), t) => c \in subscribers
    BY <2>1, <2>2, HeadTailProperties DEF ToClient, IsCopy
  <2>5. \A d \in Client, t \in Name :
          Transit(d, t) = Transit(d, t)' + IF /\ d = c /\ out' # out
                                              /\ IsCopy(Head(out[c]), t)
                                              /\ c \in subscribers
                                           THEN 1 ELSE 0
    BY <1>1, <2>1, QuietXInv
  <2>6. /\ \A t \in Name : pub'[t].sent = pub[t].sent
        /\ \A d \in Client, t \in Name :
             \/ delivered'[d][t] = delivered[d][t]
             \/ /\ d = c /\ IsCopy(Head(out[c]), t)
                /\ delivered'[d][t] = delivered[d][t] + 1
    BY <1>1, <1>9, ClientAnswers
  <2>7. ASSUME NEW d \in Client, NEW t \in Name
        PROVE  delivered'[d][t] + Transit(d, t)' <= pub'[t].sent
    <3>1. Transit(d, t)' \in Nat
      BY <1>1, TransitNatNext
    <3> QED BY <1>2, <2>3, <2>4, <2>5, <2>6, <3>1
  <2> QED BY <2>7 DEF NoExtraCopy
<1>10. ASSUME NEW t \in Name, Sends(t) PROVE NoExtraCopy'
  <2>1. /\ \A d \in Client, u \in Name \ {t} : Transit(d, u)' = Transit(d, u)
        /\ \A d \in Client :
             Transit(d, t)' = Transit(d, t)
               + IF d \in subscribers \cap Up /\ pub[t].by \in Up THEN 1 ELSE 0
    BY <1>1, <1>10, SendsXInv
  <2>2. /\ UNCHANGED delivered /\ pub'[t].sent = pub[t].sent + 1
        /\ \A u \in Name \ {t} : pub'[u] = pub[u]
    BY <1>10 DEF Sends
  <2>3. ASSUME NEW d \in Client, NEW u \in Name
        PROVE  delivered'[d][u] + Transit(d, u)' <= pub'[u].sent
    <3>1. CASE u = t
      BY <1>2, <2>1, <2>2, <3>1
    <3>2. CASE u # t
      BY <1>2, <2>1, <2>2, <3>2
    <3> QED BY <3>1, <3>2
  <2> QED BY <2>3 DEF NoExtraCopy
<1>11. ASSUME NEW t \in Name, ClientRepeats(t), pub[t].state = "PUBCOMP"
       PROVE  NoExtraCopy'
  <2>1. pub[t].by \in Client
    BY <1>1 DEF XInv, ExchangeTypeRest, Pub
  <2>2. Quiet(pub[t].by) /\ UNCHANGED <<pub, out, receiving, delivered>>
    BY <1>1, <1>11, AnswersQuiet
  <2>3. \A d \in Client, u \in Name : Transit(d, u) = Transit(d, u)' + 0
    BY <1>1, <2>1, <2>2, QuietXInv
  <2>4. \A d \in Client, u \in Name : Transit(d, u)' <= Transit(d, u)
    BY <1>1, <2>3, TransitNatNext
  <2> QED BY <1>1, <2>2, <2>4, LessInTransit
<1>12. CASE UNCHANGED exchangeVars
  BY <1>1, <1>12, StutterXInv
<1> QED BY <1>1, <1>4, <1>5, <1>6, <1>7, <1>8, <1>9, <1>10, <1>11, <1>12, PublishesSends
       DEF ExchangeNext

(***************************************************************************)
(* Whatever the clients and the broker do, the streams, lists and stored   *)
(* messages stay well formed and hold copies only where they may be: in    *)
(* the list of their publisher until PUBREL, and else on the way to        *)
(* clients that have subscribed.                                           *)
(***************************************************************************)
THEOREM ExchangeInvariant == ExchangeSpec => []ExchangeInv
<1>1. ExchangeInit => ExchangeInv
  BY InitXInv DEF ExchangeInv
<1>2. ExchangeInv /\ [ExchangeNext]_exchangeVars => ExchangeInv'
  BY NextExchangeInv
<1> QED BY <1>1, <1>2, PTL DEF ExchangeSpec

(* Every variable keeps its type, those of the clients and connections and *)
(* those of the broker.                                                    *)
THEOREM ExchangeTypeCorrect == ExchangeSpec => []ExchangeTypeOK
<1>1. ExchangeInv => ExchangeTypeOK
  BY IInvImplies DEF ExchangeInv, XInv, ExchangeTypeRest, ExchangeTypeOK
<1> QED BY <1>1, ExchangeInvariant, PTL

(***************************************************************************)
(* The broker multiplies nothing (packet_handle.c:284-454 and :571-754,    *)
(* protocol.c:246-292): a subscriber never gets, and never has on its way, *)
(* more copies of a publication than its publisher sent PUBLISHes of it,   *)
(* for every number of clients, names and identifiers, every QoS, every    *)
(* order of the steps and every loss of connections.                       *)
(***************************************************************************)
THEOREM NoCopyTwice == ExchangeSpec => []NoExtraCopy
<1>1. ExchangeInit => NoExtraCopy
  <2> SUFFICES ASSUME ExchangeInit PROVE NoExtraCopy
    OBVIOUS
  <2>1. \A c \in Client, t \in Name : delivered[c][t] = 0 /\ pub[t].sent = 0
    BY DEF ExchangeInit
  <2>2. \A c \in Client, t \in Name : Transit(c, t) = 0
    <3> TAKE c \in Client, t \in Name
    <3>1. \A d \in Client : inp[d] = <<>> /\ out[d] = <<>> /\ DOMAIN mq[d] = {}
      BY DEF ExchangeInit, EmptyList
    <3>2. \A d \in Client : /\ Publishes(inp[d], t) = {} /\ Publishes(out[d], t) = {}
                            /\ \A ps : Entries(d, ps, t) = {}
      BY <3>1 DEF Publishes, Entries
    <3>3. \A d \in Client : Published(d, t) = 0 /\ Queued(d, t) = 0 /\ Written(d, t) = 0
      BY <3>2, FS_EmptySet DEF Published, Queued, Written
    <3>4. pub[t].by \in Client
      BY InitXInv DEF XInv, ExchangeTypeRest, Pub
    <3> QED BY <3>3, <3>4 DEF Transit
  <2> QED BY <2>1, <2>2 DEF NoExtraCopy
<1>2. ExchangeInv /\ ExchangeInv' /\ NoExtraCopy /\ [ExchangeNext]_exchangeVars
        => NoExtraCopy'
  BY NextNoExtraCopy
<1> QED BY <1>1, <1>2, ExchangeInvariant, PTL DEF ExchangeSpec

=============================================================================
