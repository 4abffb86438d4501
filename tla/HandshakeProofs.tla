--------------------------- MODULE HandshakeProofs ---------------------------
(***************************************************************************)
(* Proofs about Broker, continued.  What a step may do to the message      *)
(* lists is said once, by Serving; each action is shown to do no more, and *)
(* the invariants about handshakes and the two action properties follow.   *)
(***************************************************************************)
EXTENDS BrokerProofs, Numbering

(* How an entry that stays in its list may change.                         *)
Moves(e, f) ==
  \/ f = e
  \/ e.dir = "MD_OUT" /\ e.qos > 0 /\ \E id \in PacketId : f = Sent(e, id)
  \/ /\ e.ps = "WAIT_FOR_PUBREC"
     /\ f = [e EXCEPT !.ps = "WAIT_FOR_PUBCOMP", !.dir = "MD_IN"]

(* Which entries may leave the list of a session that goes on.             *)
MayLeave(e) ==
  \/ e.dir = "MD_OUT" /\ e.qos = 0
  \/ e.ps \in {"WAIT_FOR_PUBACK", "WAIT_FOR_PUBCOMP", "WAIT_FOR_PUBREL"}

(* The entries a step adds.                                                *)
Added == {x \in Client \X Rank : x[2] \in DOMAIN mq'[x[1]] \ DOMAIN mq[x[1]]}

(***************************************************************************)
(* They queue one message, which is new or just released by client c, with *)
(* a QoS it has; or they are the one entry that holds a new message.       *)
(***************************************************************************)
Queues(c) ==
  \E m \in Msg :
    /\ \A x \in Added : \E r \in Qos :
         mq'[x[1]][x[2]] = Outgoing(m, r) /\ r <= store'[m].qos
    /\ \/ m \notin DOMAIN store
       \/ \E p \in DOMAIN mq[c] \ DOMAIN mq'[c] :
            mq[c][p].ms = m /\ mq[c][p].ps = "WAIT_FOR_PUBREL"

Holds ==
  \E m \in Msg \ DOMAIN store, x \in Client \X Rank, pid \in PacketId :
    /\ Added \subseteq {x}
    /\ mq'[x[1]][x[2]] = Incoming(m, pid)
    /\ store'[m].qos = 2

(* A message is stored, and only it gains references.                      *)
Inserts ==
  \E m \in Msg \ DOMAIN store :
    /\ DOMAIN store' = DOMAIN store \cup {m}
    /\ \A n \in Msg \ {m} : References(mq', n) = References(mq, n)

(* What a step for client c may do to lists and stored messages.           *)
Serving(c) ==
  /\ \A d \in Client \ {c} : \A p \in DOMAIN mq[d] :
       p \in DOMAIN mq'[d] /\ mq'[d][p] = mq[d][p]
  /\ \A p \in DOMAIN mq[c] :
       IF p \in DOMAIN mq'[c] THEN Moves(mq[c][p], mq'[c][p])
                              ELSE c \in sessions' => MayLeave(mq[c][p])
  /\ \A m \in DOMAIN store \cap DOMAIN store' : store'[m].qos = store[m].qos
  /\ Added = {} \/ Queues(c) \/ Holds

(* No entry that stays gets another identifier, and no counter advances.   *)
GivesNone ==
  \A d \in Client :
    /\ \A p \in DOMAIN mq[d] \cap DOMAIN mq'[d] :
         mq'[d][p].packet_id = mq[d][p].packet_id
    /\ packet_id_source'[d] = packet_id_source[d] \/ DOMAIN mq'[d] = {}

-----------------------------------------------------------------------------
(* Every action serves its client, or stops the process                    *)

LEMMA StayingMoves ==
  ASSUME NEW e
  PROVE  Moves(e, e)
BY DEF Moves

(* Nothing is added, taken away or changed.                                *)
LEMMA QuietServes ==
  ASSUME NEW c \in Client, UNCHANGED <<mq, store>>
  PROVE  Serving(c) /\ (UNCHANGED packet_id_source => GivesNone)
BY StayingMoves DEF Serving, Added, GivesNone

(* References are added and dropped without a change of the QoS.           *)
LEMMA QosKept ==
  ASSUME NEW s, NEW q, NEW D
  PROVE  /\ DOMAIN Deref(s, q, D) \subseteq DOMAIN s
         /\ \A n \in DOMAIN Deref(s, q, D) : Deref(s, q, D)[n].qos = s[n].qos
BY DEF Deref

LEMMA QosKeptAdding ==
  ASSUME NEW s, NEW m, NEW k
  PROVE  /\ DOMAIN AddReferences(s, m, k) = DOMAIN s
         /\ \A n \in DOMAIN s : AddReferences(s, m, k)[n].qos = s[n].qos
BY DEF AddReferences

(***************************************************************************)
(* Delivering m to the nodes H adds entries that queue m, with at most the *)
(* QoS q of the message.                                                   *)
(***************************************************************************)
LEMMA DeliverAdds ==
  ASSUME AreLists(mq), NEW m, NEW H \in Seq(SubNode), NEW q \in Qos,
         NEW c \in Client, NEW p \in DOMAIN Deliver(H, m, q)[c] \ DOMAIN mq[c]
  PROVE  \E r \in Qos : Deliver(H, m, q)[c][p] = Outgoing(m, r) /\ r <= q
<1> DEFINE new == {Top(mq[c]) + k : k \in {i \in DOMAIN H : H[i].client = c}}
<1>1. /\ p \in new
      /\ Deliver(H, m, q)[c][p] = Outgoing(m, Lesser(q, H[p - Top(mq[c])].qos))
  BY DEF Deliver
<1>2. Top(mq[c]) \in Int
  BY TopIsGreatest DEF AreLists, IsList
<1>3. PICK k \in DOMAIN H : p = Top(mq[c]) + k
  BY <1>1
<1>4. DOMAIN H = 1 .. Len(H) /\ H[k] \in SubNode
  BY LenProperties, ElementOfSeq
<1>5. p - Top(mq[c]) = k
  BY <1>2, <1>3, <1>4
<1>6. H[k].qos \in Qos
  BY <1>4 DEF SubNode
<1>7. Lesser(q, H[k].qos) \in Qos /\ Lesser(q, H[k].qos) <= q
  BY <1>6 DEF Lesser, Qos
<1> QED BY <1>1, <1>5, <1>7

(* Entries for one message change the references of no other.              *)
LEMMA OthersReferences ==
  ASSUME NEW m,
         \A d \in Client : \A p \in DOMAIN mq[d] :
           p \in DOMAIN mq'[d] /\ mq'[d][p] = mq[d][p],
         \A x \in Added : mq'[x[1]][x[2]].ms = m,
         NEW n \in Msg \ {m}
  PROVE  References(mq', n) = References(mq, n)
BY DEF References, Added

LEMMA OutgoingFields ==
  ASSUME NEW m, NEW r
  PROVE  Outgoing(m, r).ms = m /\ Outgoing(m, r).ps = "WAIT_TO_PUBLISH"
BY DEF Outgoing

LEMMA AcceptServes ==
  ASSUME IInv, NEW c \in Client, Accept(c)
  PROVE  Serving(c) /\ GivesNone
<1>1. DOMAIN mq = Client /\ DOMAIN mq[c] = {}
  BY DEF IInv, UnusedEmpty, Accept, Agree, AreLists
<1>2. mq' = [mq EXCEPT ![c] = EmptyList] /\ store' = store /\ DOMAIN EmptyList = {}
  BY DEF Accept, EmptyList
<1>3. Added = {}
  BY <1>1, <1>2 DEF Added
<1>4. GivesNone
  <2>1. /\ \A d \in Client \ {c} : packet_id_source'[d] = packet_id_source[d]
        /\ \A d \in Client \ {c} : mq'[d] = mq[d]
        /\ DOMAIN mq'[c] = {}
    BY <1>1, <1>2 DEF Accept, IInv, TypeRest
  <2> QED BY <2>1 DEF GivesNone
<1> QED BY <1>1, <1>2, <1>3, <1>4 DEF Serving

(* The session ends: what its list loses is nobody's concern.              *)
LEMMA DisconnectServes ==
  ASSUME IInv, NEW c \in Client, Disconnect(c)
  PROVE  Serving(c) /\ GivesNone
<1>1. DOMAIN mq = Client
  BY DEF IInv, Agree, AreLists
<1>2. /\ mq' = [mq EXCEPT ![c] = EmptyList] /\ DOMAIN EmptyList = {}
      /\ store' = Deref(store, mq[c], DOMAIN mq[c]) /\ c \notin sessions'
  BY DEF Disconnect, EmptyList
<1>3. Added = {}
  BY <1>1, <1>2 DEF Added
<1>4. GivesNone
  <2>1. /\ \A d \in Client \ {c} : packet_id_source'[d] = packet_id_source[d]
        /\ \A d \in Client \ {c} : mq'[d] = mq[d]
        /\ DOMAIN mq'[c] = {}
    BY <1>1, <1>2 DEF Disconnect, IInv, TypeRest
  <2> QED BY <2>1 DEF GivesNone
<1> QED BY <1>1, <1>2, <1>3, <1>4, QosKept DEF Serving

LEMMA HandlePublishServes ==
  ASSUME IInv, NEW c \in Client, NEW t \in Name, NEW q \in 0 .. 1,
         HandlePublish(c, t, q), ~ Halt
  PROVE  Serving(c) /\ Inserts /\ GivesNone
<1> DEFINE H == Visited(subtree, t)
<1>1. PICK m \in Msg \ DOMAIN store :
        /\ Room(H)
        /\ store' = AddReferences(Insert(store, m, t, q), m, Len(H))
        /\ mq' = Deliver(H, m, q)
  BY DEF HandlePublish
<1>2. H \in Seq(SubNode) /\ q \in Qos
  BY VisitedType DEF IInv, TypeRest, Qos
<1> HIDE DEF H
<1>3. Agree(mq, Insert(store, m, t, q)) /\ m \in DOMAIN Insert(store, m, t, q)
  <2>1. Agree(mq, store) /\ q \in Qos
    BY <1>2 DEF IInv
  <2> QED BY <2>1, InsertAgrees DEF Insert
<1>4. \A d \in Client : \A p \in DOMAIN mq[d] :
        p \in DOMAIN mq'[d] /\ mq'[d][p] = mq[d][p]
  BY <1>1, <1>2, <1>3, DeliverAgrees
<1>5. /\ \A n \in DOMAIN store : n # m /\ store'[n].qos = store[n].qos
      /\ store'[m].qos = q
  <2> DEFINE ins == Insert(store, m, t, q)
  <2>1. /\ DOMAIN ins = DOMAIN store \cup {m} /\ ins[m].qos = q
        /\ \A n \in DOMAIN store : n # m /\ ins[n] = store[n]
    BY DEF Insert
  <2> HIDE DEF ins
  <2>2. \A n \in DOMAIN ins : store'[n].qos = ins[n].qos
    <3> TAKE n \in DOMAIN ins
    <3>1. store' = AddReferences(ins, m, Len(H))
      BY <1>1 DEF ins
    <3>2. AddReferences(ins, m, Len(H))[n].qos = ins[n].qos
      BY QosKeptAdding
    <3> QED BY <3>1, <3>2
  <2> QED BY <2>1, <2>2
<1>6. \A x \in Added : \E r \in Qos :
        mq'[x[1]][x[2]] = Outgoing(m, r) /\ r <= store'[m].qos
  <2>1. AreLists(mq)
    BY <1>3 DEF Agree
  <2>2. ASSUME NEW x \in Added
        PROVE  \E r \in Qos : mq'[x[1]][x[2]] = Outgoing(m, r) /\ r <= q
    <3>1. x[1] \in Client /\ x[2] \in DOMAIN Deliver(H, m, q)[x[1]] \ DOMAIN mq[x[1]]
      BY <1>1 DEF Added
    <3> QED BY <1>1, <1>2, <2>1, <3>1, DeliverAdds
  <2> QED BY <1>5, <2>2
<1>7. Queues(c)
  BY <1>6 DEF Queues
<1>8. \A x \in Added : mq'[x[1]][x[2]].ms = m
  BY <1>6, OutgoingFields
<1>9. DOMAIN store' = DOMAIN store \cup {m}
  BY <1>1, QosKeptAdding DEF Insert
<1>10. Inserts
  BY <1>4, <1>8, <1>9, OthersReferences DEF Inserts
<1>11. GivesNone
  <2>1. UNCHANGED packet_id_source
    BY DEF HandlePublish
  <2> QED BY <1>4, <2>1 DEF GivesNone
<1> QED BY <1>4, <1>5, <1>7, <1>10, <1>11, StayingMoves DEF Serving

LEMMA HandlePublish2Serves ==
  ASSUME IInv, NEW c \in Client, NEW t \in Name, NEW pid \in InPid,
         HandlePublish2(c, t, pid)
  PROVE  Serving(c) /\ Inserts /\ GivesNone
<1>1. PICK m \in Msg \ DOMAIN store :
        /\ store' = AddReferences(Insert(store, m, t, 2), m, 1)
        /\ mq' = [mq EXCEPT ![c] = ListAdd(@, Incoming(m, pid))]
  BY DEF HandlePublish2
<1> DEFINE top == Top(mq[c])
<1>2. AreLists(mq) /\ DOMAIN mq = Client
  BY DEF IInv, Agree, AreLists
<1>3. top \in Int /\ top + 1 \in Rank /\ \A p \in DOMAIN mq[c] : p <= top
  BY <1>2, TopIsGreatest DEF AreLists, IsList, HandlePublish2
<1> HIDE DEF top
<1>4. /\ \A d \in Client \ {c} : mq'[d] = mq[d]
      /\ DOMAIN mq'[c] = DOMAIN mq[c] \cup {top + 1}
      /\ \A p \in DOMAIN mq[c] : mq'[c][p] = mq[c][p]
      /\ mq'[c][top + 1] = Incoming(m, pid)
  <2>1. top + 1 \notin DOMAIN mq[c]
    BY <1>2, <1>3 DEF AreLists, IsList, Rank
  <2>2. mq'[c] = ListAdd(mq[c], Incoming(m, pid)) /\ \A d \in Client \ {c} : mq'[d] = mq[d]
    BY <1>1, <1>2
  <2> QED BY <2>1, <2>2 DEF ListAdd, top
<1>5. /\ \A n \in DOMAIN store : n # m /\ store'[n].qos = store[n].qos
      /\ store'[m].qos = 2
  <2> DEFINE ins == Insert(store, m, t, 2)
  <2>1. /\ DOMAIN ins = DOMAIN store \cup {m} /\ ins[m].qos = 2
        /\ \A n \in DOMAIN store : n # m /\ ins[n] = store[n]
    BY DEF Insert
  <2> HIDE DEF ins
  <2>2. \A n \in DOMAIN ins : store'[n].qos = ins[n].qos
    <3> TAKE n \in DOMAIN ins
    <3>1. store' = AddReferences(ins, m, 1)
      BY <1>1 DEF ins
    <3>2. AddReferences(ins, m, 1)[n].qos = ins[n].qos
      BY QosKeptAdding
    <3> QED BY <3>1, <3>2
  <2> QED BY <2>1, <2>2
<1>6. Added \subseteq {<<c, top + 1>>}
  BY <1>4 DEF Added
<1>7. Holds
  <2> DEFINE x == <<c, top + 1>>
  <2>1. x \in Client \X Rank /\ pid \in PacketId
    BY <1>3, BrokerAssumption
  <2>2. Added \subseteq {x} /\ mq'[x[1]][x[2]] = Incoming(m, pid) /\ store'[m].qos = 2
    BY <1>4, <1>5, <1>6
  <2> HIDE DEF x
  <2> QED BY <2>1, <2>2 DEF Holds
<1>8. \A x \in Added : mq'[x[1]][x[2]].ms = m
  BY <1>4, <1>6 DEF Incoming
<1>9. DOMAIN store' = DOMAIN store \cup {m}
  BY <1>1, QosKeptAdding DEF Insert
<1>10. Inserts
  BY <1>4, <1>8, <1>9, OthersReferences DEF Inserts
<1>11. GivesNone
  <2>1. UNCHANGED packet_id_source
    BY DEF HandlePublish2
  <2> QED BY <1>4, <2>1 DEF GivesNone
<1> QED BY <1>4, <1>5, <1>7, <1>10, <1>11, StayingMoves DEF Serving

LEMMA HandlePubrelServes ==
  ASSUME IInv, IInv', NEW c \in Client, NEW pid \in PacketId, HandlePubrel(c, pid),
         ~ Halt
  PROVE  Serving(c) /\ GivesNone
<1>1. PICK p \in Rank :
        LET m == mq[c][p].ms
            H == Visited(subtree, store[m].topic)
        IN  /\ IsFirst(p, Waiting(mq[c], "WAIT_FOR_PUBREL", pid))
            /\ Room(H)
            /\ store' = Deref(AddReferences(store, m, Len(H)), mq[c], {p})
            /\ mq' = [Deliver(H, m, store[m].qos) EXCEPT ![c] = ListDel(@, {p})]
  BY DEF HandlePubrel
<1> DEFINE m == mq[c][p].ms
           q == store[m].qos
           H == Visited(subtree, store[m].topic)
           mid == Deliver(H, m, q)
<1>2. Agree(mq, store) /\ AreLists(mq) /\ AreLists(mq') /\ p \in DOMAIN mq[c]
      /\ mq[c][p].ps = "WAIT_FOR_PUBREL"
  BY <1>1 DEF IInv, IsFirst, Waiting, Agree
<1>3. m \in DOMAIN store /\ store[m] \in Message
  BY <1>2 DEF Agree, IsStore
<1>4. H \in Seq(SubNode) /\ q \in Qos
  BY <1>3, VisitedType DEF IInv, TypeRest, Message
<1>5. /\ Room(H)
      /\ store' = Deref(AddReferences(store, m, Len(H)), mq[c], {p})
      /\ mq' = [mid EXCEPT ![c] = ListDel(@, {p})]
  BY <1>1
<1>6. m \in Msg
  BY <1>2, <1>3 DEF Agree, IsStore
<1> HIDE DEF m, q, H
<1>7. \A d \in Client : \A r \in DOMAIN mq[d] :
        r \in DOMAIN mid[d] /\ mid[d][r] = mq[d][r]
  BY <1>2, <1>3, <1>4, <1>5, DeliverAgrees
<1>8. \A d \in Client : \A r \in DOMAIN mid[d] \ DOMAIN mq[d] :
        \E k \in Qos : mid[d][r] = Outgoing(m, k) /\ k <= q
  BY <1>2, <1>4, DeliverAdds
<1>9. DOMAIN mid = Client
  BY DEF Deliver
<1> HIDE DEF mid
<1>10. /\ \A d \in Client \ {c} : mq'[d] = mid[d]
       /\ DOMAIN mq'[c] = DOMAIN mid[c] \ {p}
       /\ \A r \in DOMAIN mq'[c] : mq'[c][r] = mid[c][r]
  BY <1>5, <1>9 DEF ListDel
<1>11. \A n \in DOMAIN store \cap DOMAIN store' : store'[n].qos = store[n].qos
  <2> DEFINE counted == AddReferences(store, m, Len(H))
  <2> SUFFICES ASSUME NEW n \in DOMAIN store \cap DOMAIN store'
               PROVE  store'[n].qos = store[n].qos
    OBVIOUS
  <2>1. counted[n].qos = store[n].qos
    BY QosKeptAdding
  <2> HIDE DEF counted
  <2>2. n \in DOMAIN Deref(counted, mq[c], {p}) => Deref(counted, mq[c], {p})[n].qos = counted[n].qos
    BY QosKept
  <2>3. store' = Deref(counted, mq[c], {p})
    BY <1>5 DEF counted
  <2> QED BY <2>1, <2>2, <2>3
<1>12. ASSUME NEW x \in Added
       PROVE  \E r \in Qos : mq'[x[1]][x[2]] = Outgoing(m, r) /\ r <= store'[m].qos
  <2>1. x[1] \in Client /\ x[2] \in DOMAIN mid[x[1]] \ DOMAIN mq[x[1]]
        /\ x[2] \in DOMAIN mq'[x[1]]
        /\ mq'[x[1]][x[2]] = mid[x[1]][x[2]]
    BY <1>10 DEF Added
  <2>2. PICK r \in Qos : mq'[x[1]][x[2]] = Outgoing(m, r) /\ r <= q
    BY <1>8, <2>1
  <2>3. m \in DOMAIN store'
    <3>1. mq'[x[1]][x[2]].ms \in DOMAIN store'
      BY <2>1 DEF IInv, Agree
    <3> QED BY <2>2, <3>1 DEF Outgoing
  <2>4. store'[m].qos = q
    BY <1>3, <1>11, <2>3 DEF q
  <2> QED BY <2>2, <2>4
<1>13. Queues(c)
  <2>1. p \in DOMAIN mq[c] \ DOMAIN mq'[c] /\ mq[c][p].ms = m
    BY <1>2, <1>10 DEF m
  <2> QED BY <1>2, <1>6, <1>12, <2>1 DEF Queues
<1>14. ASSUME NEW r \in DOMAIN mq[c]
       PROVE  IF r \in DOMAIN mq'[c] THEN mq'[c][r] = mq[c][r] ELSE MayLeave(mq[c][r])
  BY <1>2, <1>7, <1>10 DEF MayLeave
<1>15. GivesNone
  <2>1. UNCHANGED packet_id_source
    BY DEF HandlePubrel
  <2>2. \A d \in Client \ {c} : \A r \in DOMAIN mq[d] : mq'[d][r] = mq[d][r]
    BY <1>7, <1>10
  <2> QED BY <1>14, <2>1, <2>2 DEF GivesNone
<1> QED BY <1>7, <1>10, <1>11, <1>13, <1>14, <1>15, StayingMoves DEF Serving

(* Entries with QoS 0 leave, the others are sent; none is added.           *)
LEMMA WritePacketServes ==
  ASSUME IInv, NEW c \in Client, WritePacket(c)
  PROVE  Serving(c)
<1>1. PICK P \in SUBSET Outbound(mq[c]) :
        LET acked == {p \in P : mq[c][p].qos > 0}
            pid(p) == Advance(packet_id_source[c], Cardinality({r \in acked : r > p}))
        IN  /\ store' = Deref(store, mq[c], P \ acked)
            /\ mq' = [mq EXCEPT
                 ![c] = [p \in DOMAIN @ \ (P \ acked) |->
                           IF p \in acked THEN Sent(mq[c][p], pid(p)) ELSE mq[c][p]]]
  BY DEF WritePacket
<1> DEFINE acked == {p \in P : mq[c][p].qos > 0}
           pid(p) == Advance(packet_id_source[c], Cardinality({r \in acked : r > p}))
           gone == P \ acked
           q == [p \in DOMAIN mq[c] \ gone |->
                   IF p \in acked THEN Sent(mq[c][p], pid(p)) ELSE mq[c][p]]
<1>2. store' = Deref(store, mq[c], gone) /\ mq' = [mq EXCEPT ![c] = q]
  BY <1>1
<1>3. DOMAIN mq = Client /\ IsList(mq[c]) /\ packet_id_source[c] \in PacketId
  BY DEF IInv, TypeRest, Agree, AreLists
<1>4. /\ P \subseteq DOMAIN mq[c] /\ DOMAIN mq[c] \subseteq Rank
      /\ \A p \in P : mq[c][p].dir = "MD_OUT"
      /\ \A p \in DOMAIN mq[c] : mq[c][p].qos \in Qos
  BY <1>3 DEF Outbound, IsList, Entry
<1>5. ASSUME NEW p \in acked PROVE pid(p) \in PacketId
  <2> DEFINE above == {r \in acked : r > p}
  <2>1. IsFiniteSet(Rank)
    BY StoreAssumption, FS_Interval DEF Rank
  <2>2. above \in SUBSET Rank
    BY <1>4
  <2> HIDE DEF above
  <2>3. Cardinality(above) \in Nat
    BY <2>1, <2>2, FS_Subset, FS_CardinalityType
  <2>4. Advance(packet_id_source[c], Cardinality(above)) \in PacketId
    BY <1>3, <2>3, AdvanceType
  <2> QED BY <2>4 DEF above
<1> HIDE DEF pid
<1>6. ASSUME NEW p \in DOMAIN mq[c] \ gone PROVE Moves(mq[c][p], q[p])
  <2>1. CASE p \in acked
    <3>1. q[p] = Sent(mq[c][p], pid(p)) /\ pid(p) \in PacketId
      BY <1>5, <1>6, <2>1
    <3>2. mq[c][p].dir = "MD_OUT" /\ mq[c][p].qos > 0
      BY <1>4, <2>1
    <3> DEFINE e == mq[c][p]
               f == q[p]
    <3>3. e.dir = "MD_OUT" /\ e.qos > 0 /\ f = Sent(e, pid(p)) /\ pid(p) \in PacketId
      BY <3>1, <3>2
    <3> HIDE DEF e, f
    <3>4. Moves(e, f)
      BY <3>3, Zenon DEF Moves
    <3> QED BY <3>4 DEF e, f
  <2>2. CASE p \notin acked
    <3>1. q[p] = mq[c][p]
      BY <1>6, <2>2
    <3> QED BY <3>1, StayingMoves
  <2> QED BY <2>1, <2>2
<1>7. ASSUME NEW p \in gone PROVE MayLeave(mq[c][p])
  BY <1>4 DEF MayLeave, Qos
<1>8. DOMAIN q = DOMAIN mq[c] \ gone
  OBVIOUS
<1> HIDE DEF q, gone
<1>9. Added = {}
  BY <1>2, <1>3, <1>8 DEF Added
<1>10. \A m \in DOMAIN store \cap DOMAIN store' : store'[m].qos = store[m].qos
  BY <1>2, QosKept
<1> QED BY <1>2, <1>3, <1>6, <1>7, <1>8, <1>9, <1>10 DEF Serving

(* The acknowledged entry leaves.                                          *)
LEMMA AcknowledgeServes ==
  ASSUME IInv, NEW c \in Client, NEW p \in DOMAIN mq[c], MayLeave(mq[c][p]),
         Acknowledge(c, p)
  PROVE  Serving(c) /\ GivesNone
<1>1. DOMAIN mq = Client
  BY DEF IInv, Agree, AreLists
<1>2. mq' = [mq EXCEPT ![c] = ListDel(@, {p})] /\ store' = Deref(store, mq[c], {p})
  BY DEF Acknowledge
<1>3. /\ \A d \in Client \ {c} : mq'[d] = mq[d]
      /\ DOMAIN mq'[c] = DOMAIN mq[c] \ {p}
      /\ \A r \in DOMAIN mq'[c] : mq'[c][r] = mq[c][r]
  BY <1>1, <1>2 DEF ListDel
<1>4. Added = {}
  BY <1>3 DEF Added
<1>5. \A m \in DOMAIN store \cap DOMAIN store' : store'[m].qos = store[m].qos
  BY <1>2, QosKept
<1>6. GivesNone
  <2>1. UNCHANGED packet_id_source
    BY DEF Acknowledge
  <2> QED BY <1>3, <2>1 DEF GivesNone
<1> QED BY <1>3, <1>4, <1>5, <1>6, StayingMoves DEF Serving

LEMMA HandlePubrecServes ==
  ASSUME IInv, NEW c \in Client, NEW pid \in PacketId, HandlePubrec(c, pid)
  PROVE  Serving(c) /\ GivesNone
<1>1. PICK p \in Rank :
        /\ IsFirst(p, Waiting(mq[c], "WAIT_FOR_PUBREC", pid))
        /\ mq' = [mq EXCEPT
             ![c] = [@ EXCEPT ![p].ps = "WAIT_FOR_PUBCOMP", ![p].dir = "MD_IN"]]
  BY DEF HandlePubrec
<1>2. DOMAIN mq = Client /\ store' = store /\ IsList(mq[c])
  BY DEF IInv, Agree, AreLists, HandlePubrec
<1>3. p \in DOMAIN mq[c] /\ mq[c][p].ps = "WAIT_FOR_PUBREC" /\ mq[c][p] \in Entry
  BY <1>1, <1>2 DEF IsFirst, Waiting, IsList
<1>4. /\ \A d \in Client \ {c} : mq'[d] = mq[d]
      /\ DOMAIN mq'[c] = DOMAIN mq[c]
      /\ \A r \in DOMAIN mq[c] \ {p} : mq'[c][r] = mq[c][r]
      /\ mq'[c][p] = [mq[c][p] EXCEPT !.ps = "WAIT_FOR_PUBCOMP", !.dir = "MD_IN"]
  BY <1>1, <1>2, <1>3
<1>5. Moves(mq[c][p], mq'[c][p])
  BY <1>3, <1>4, Zenon DEF Moves
<1>6. Added = {}
  BY <1>4 DEF Added
<1>7. GivesNone
  <2>1. UNCHANGED packet_id_source
    BY DEF HandlePubrec
  <2>2. mq'[c][p].packet_id = mq[c][p].packet_id
    BY <1>3, <1>4 DEF Entry
  <2> QED BY <1>4, <2>1, <2>2 DEF GivesNone
<1> QED BY <1>2, <1>4, <1>5, <1>6, <1>7, StayingMoves DEF Serving

(* Every step serves a client, or stops the process; identifiers are given *)
(* by a writing only.                                                      *)
LEMMA NextServes ==
  ASSUME IInv, IInv', Next
  PROVE  Halt \/ \E c \in Client : Serving(c) /\ (GivesNone \/ WritePacket(c))
<1> SUFFICES ASSUME ~ Halt
             PROVE  \E c \in Client : Serving(c) /\ (GivesNone \/ WritePacket(c))
  OBVIOUS
<1>1. PICK c \in Client :
        \/ Accept(c) \/ ReadFails(c) \/ Disconnect(c) \/ Sigpipe(c)
        \/ \E id \in ClientId : HandleConnect(c, id)
        \/ \E req \in Requests, bad \in BOOLEAN : HandleSubscribe(c, req, bad)
        \/ \E fs \in SUBSET Filter : HandleUnsubscribe(c, fs)
        \/ \E t \in Name, q \in 0 .. 1 : HandlePublish(c, t, q)
        \/ \E t \in Name, pid \in InPid : HandlePublish2(c, t, pid)
        \/ WritePacket(c)
        \/ \E pid \in PacketId :
             \/ HandlePubrel(c, pid) \/ HandlePuback(c, pid)
             \/ HandlePubrec(c, pid) \/ HandlePubcomp(c, pid)
  BY DEF Next
<1>2. CASE Accept(c)
  BY <1>2, AcceptServes
<1>3. CASE ReadFails(c)
  BY <1>3, QuietServes DEF ReadFails
<1>4. CASE Disconnect(c)
  BY <1>4, DisconnectServes
<1>5. CASE Sigpipe(c)
  BY <1>5 DEF Sigpipe
<1>6. CASE \E id \in ClientId : HandleConnect(c, id)
  BY <1>6, QuietServes DEF HandleConnect
<1>7. CASE \E req \in Requests, bad \in BOOLEAN : HandleSubscribe(c, req, bad)
  BY <1>7, QuietServes DEF HandleSubscribe
<1>8. CASE \E fs \in SUBSET Filter : HandleUnsubscribe(c, fs)
  BY <1>8, QuietServes DEF HandleUnsubscribe
<1>9. CASE \E t \in Name, q \in 0 .. 1 : HandlePublish(c, t, q)
  BY <1>9, HandlePublishServes
<1>10. CASE \E t \in Name, pid \in InPid : HandlePublish2(c, t, pid)
  BY <1>10, HandlePublish2Serves
<1>11. CASE WritePacket(c)
  BY <1>11, WritePacketServes
<1>12. CASE \E pid \in PacketId : HandlePubrel(c, pid)
  BY <1>12, HandlePubrelServes
<1>13. ASSUME NEW pid \in PacketId, HandlePuback(c, pid) PROVE Serving(c) /\ GivesNone
  <2>1. PICK p \in Rank : /\ IsFirst(p, Waiting(mq[c], "WAIT_FOR_PUBACK", pid))
                          /\ Acknowledge(c, p)
    BY <1>13 DEF HandlePuback
  <2>2. p \in DOMAIN mq[c] /\ MayLeave(mq[c][p])
    BY <2>1 DEF IsFirst, Waiting, MayLeave
  <2> QED BY <2>1, <2>2, AcknowledgeServes
<1>14. CASE \E pid \in PacketId : HandlePubrec(c, pid)
  BY <1>14, HandlePubrecServes
<1>15. ASSUME NEW pid \in PacketId, HandlePubcomp(c, pid) PROVE Serving(c) /\ GivesNone
  <2>1. PICK p \in Rank : /\ IsFirst(p, Waiting(mq[c], "WAIT_FOR_PUBCOMP", pid))
                          /\ Acknowledge(c, p)
    BY <1>15 DEF HandlePubcomp
  <2>2. p \in DOMAIN mq[c] /\ MayLeave(mq[c][p])
    BY <2>1 DEF IsFirst, Waiting, MayLeave
  <2> QED BY <2>1, <2>2, AcknowledgeServes
<1> QED BY <1>1, <1>2, <1>3, <1>4, <1>5, <1>6, <1>7, <1>8, <1>9, <1>10, <1>11,
           <1>12, <1>13, <1>14, <1>15

-----------------------------------------------------------------------------
(* The invariants about handshakes                                         *)

(* What OutboundIsUnsent and HandshakeFitsQos say of one entry.            *)
Unsent(e) ==
  /\ e.dir = "MD_OUT" <=> e.ps = "WAIT_TO_PUBLISH"
  /\ e.packet_id = NoPid <=> e.ps = "WAIT_TO_PUBLISH"

Fits(e) ==
  /\ e.ps = "WAIT_FOR_PUBACK" => e.qos = 1
  /\ e.ps \in {"WAIT_FOR_PUBREL", "WAIT_FOR_PUBREC", "WAIT_FOR_PUBCOMP"} => e.qos = 2

(* Entries that move keep both, and their message.                         *)
LEMMA MovesKeeps ==
  ASSUME NEW e \in Entry, NEW f, Moves(e, f), Unsent(e), Fits(e)
  PROVE  /\ Unsent(f) /\ Fits(f) /\ f.ms = e.ms /\ f.qos = e.qos
         /\ f.ps = "WAIT_FOR_PUBREL" => f = e
<1>1. CASE f = e
  BY <1>1
<1>2. ASSUME e.dir = "MD_OUT", e.qos > 0, NEW id \in PacketId, f = Sent(e, id)
      PROVE  /\ Unsent(f) /\ Fits(f) /\ f.ms = e.ms /\ f.qos = e.qos
             /\ f.ps # "WAIT_FOR_PUBREL"
  <2>1. id # NoPid
    BY StoreAssumption DEF PacketId
  <2>2. e.qos \in {1, 2}
    BY <1>2 DEF Entry, Qos
  <2>3. /\ f.packet_id = id /\ f.dir = "MD_IN" /\ f.ms = e.ms /\ f.qos = e.qos
        /\ f.ps = IF e.qos = 1 THEN "WAIT_FOR_PUBACK" ELSE "WAIT_FOR_PUBREC"
    BY <1>2 DEF Sent, Entry
  <2> QED BY <2>1, <2>2, <2>3 DEF Unsent, Fits
<1>3. CASE /\ e.ps = "WAIT_FOR_PUBREC"
           /\ f = [e EXCEPT !.ps = "WAIT_FOR_PUBCOMP", !.dir = "MD_IN"]
  BY <1>3 DEF Unsent, Fits, Entry
<1> QED BY <1>1, <1>2, <1>3 DEF Moves

(***************************************************************************)
(* An entry after the step was there before and has moved, or it is new    *)
(* and as Outgoing or Incoming makes it.                                   *)
(***************************************************************************)
LEMMA OldOrNew ==
  ASSUME IInv, IInv', NEW c \in Client, Serving(c),
         NEW d \in Client, NEW p \in DOMAIN mq'[d]
  PROVE  \/ p \in DOMAIN mq[d] /\ Moves(mq[d][p], mq'[d][p])
         \/ /\ p \notin DOMAIN mq[d]
            /\ \E m \in Msg :
                 \/ \E r \in Qos : mq'[d][p] = Outgoing(m, r) /\ r <= store'[m].qos
                 \/ \E pid \in PacketId :
                      mq'[d][p] = Incoming(m, pid) /\ store'[m].qos = 2
<1>1. CASE p \in DOMAIN mq[d]
  BY <1>1, StayingMoves DEF Serving
<1>2. CASE p \notin DOMAIN mq[d]
  <2>1. p \in Rank
    BY DEF IInv, Agree, AreLists, IsList
  <2>2. <<d, p>> \in Added
    BY <1>2, <2>1 DEF Added
  <2>3. CASE Queues(c)
    <3>1. PICK m \in Msg : \A x \in Added : \E r \in Qos :
            mq'[x[1]][x[2]] = Outgoing(m, r) /\ r <= store'[m].qos
      BY <2>3 DEF Queues
    <3>2. PICK r \in Qos : mq'[d][p] = Outgoing(m, r) /\ r <= store'[m].qos
      BY <2>2, <3>1
    <3> QED BY <1>2, <3>2
  <2>4. CASE Holds
    <3>1. PICK m \in Msg, x \in Client \X Rank, pid \in PacketId :
            Added \subseteq {x} /\ mq'[x[1]][x[2]] = Incoming(m, pid) /\ store'[m].qos = 2
      BY <2>4 DEF Holds
    <3>2. mq'[d][p] = Incoming(m, pid)
      BY <2>2, <3>1
    <3> QED BY <1>2, <3>1, <3>2
  <2> QED BY <2>2, <2>3, <2>4 DEF Serving
<1> QED BY <1>1, <1>2

LEMMA ServingFits ==
  ASSUME IInv, IInv', OutboundIsUnsent, HandshakeFitsQos,
         NEW c \in Client, Serving(c)
  PROVE  OutboundIsUnsent' /\ HandshakeFitsQos'
<1>1. ASSUME NEW d \in Client, NEW p \in DOMAIN mq'[d]
      PROVE  /\ Unsent(mq'[d][p]) /\ Fits(mq'[d][p])
             /\ mq'[d][p].qos <= store'[mq'[d][p].ms].qos
  <2> DEFINE f == mq'[d][p]
  <2>1. CASE p \in DOMAIN mq[d] /\ Moves(mq[d][p], mq'[d][p])
    <3> DEFINE e == mq[d][p]
    <3>1. e \in Entry /\ e.ms \in DOMAIN store
      BY <2>1 DEF IInv, Agree, AreLists, IsList
    <3>2. Unsent(e) /\ Fits(e) /\ e.qos <= store[e.ms].qos
      BY <2>1 DEF OutboundIsUnsent, HandshakeFitsQos, Unsent, Fits
    <3>3. Moves(e, f)
      BY <2>1
    <3>4. f.ms \in DOMAIN store'
      BY DEF IInv, Agree
    <3> HIDE DEF e, f
    <3>5. Unsent(f) /\ Fits(f) /\ f.ms = e.ms /\ f.qos = e.qos
      BY <3>1, <3>2, <3>3, MovesKeeps
    <3>6. store'[f.ms].qos = store[e.ms].qos
      BY <3>1, <3>4, <3>5 DEF Serving
    <3>7. Unsent(f) /\ Fits(f) /\ f.qos <= store'[f.ms].qos
      BY <3>2, <3>5, <3>6
    <3> QED BY <3>7 DEF f
  <2>2. ASSUME NEW m \in Msg, NEW r \in Qos, f = Outgoing(m, r), r <= store'[m].qos
        PROVE  Unsent(f) /\ Fits(f) /\ f.qos <= store'[f.ms].qos
    BY <2>2 DEF Outgoing, Unsent, Fits
  <2>3. ASSUME NEW m \in Msg, NEW pid \in PacketId, f = Incoming(m, pid), store'[m].qos = 2
        PROVE  Unsent(f) /\ Fits(f) /\ f.qos <= store'[f.ms].qos
    <3>1. pid # NoPid
      BY StoreAssumption DEF PacketId
    <3> QED BY <2>3, <3>1 DEF Incoming, Unsent, Fits
  <2> QED BY <2>1, <2>2, <2>3, OldOrNew
<1> QED BY <1>1 DEF OutboundIsUnsent, HandshakeFitsQos, Unsent, Fits

(***************************************************************************)
(* A held message gets no second reference: what is queued is new or was   *)
(* held by the entry that is released, and that was its only one.          *)
(***************************************************************************)
LEMMA ServingHeld ==
  ASSUME IInv, IInv', OutboundIsUnsent, HandshakeFitsQos, HeldUntilReleased,
         NEW c \in Client, Serving(c)
  PROVE  HeldUntilReleased'
<1> SUFFICES ASSUME NEW d \in Client, NEW p \in DOMAIN mq'[d],
                    mq'[d][p].ps = "WAIT_FOR_PUBREL"
             PROVE  References(mq', mq'[d][p].ms) = {<<d, p>>}
  BY DEF HeldUntilReleased
<1> DEFINE n == mq'[d][p].ms
<1>1. p \in Rank /\ \A b \in Client : DOMAIN mq[b] \subseteq Rank
  BY DEF IInv, Agree, AreLists, IsList
<1>2. <<d, p>> \in References(mq', n)
  BY <1>1 DEF References
<1>3. ASSUME NEW b \in Client, NEW s \in DOMAIN mq'[b], mq'[b][s].ms = n, s \in DOMAIN mq[b]
      PROVE  mq[b][s].ms = n
  <2>1. Moves(mq[b][s], mq'[b][s])
    BY <1>3, StayingMoves DEF Serving
  <2> DEFINE e == mq[b][s]
             f == mq'[b][s]
  <2>2. e \in Entry /\ Unsent(e) /\ Fits(e) /\ Moves(e, f) /\ f.ms = n
    BY <1>3, <2>1 DEF IInv, Agree, AreLists, IsList, OutboundIsUnsent, HandshakeFitsQos,
                      Unsent, Fits
  <2> HIDE DEF e, f, n
  <2>3. e.ms = n
    BY <2>2, MovesKeeps
  <2> QED BY <2>3 DEF e
<1>4. CASE p \in DOMAIN mq[d]
  <2> DEFINE e == mq[d][p]
             f == mq'[d][p]
  <2>1. e \in Entry /\ Unsent(e) /\ Fits(e) /\ Moves(e, f) /\ f.ps = "WAIT_FOR_PUBREL"
    BY <1>4, StayingMoves DEF IInv, Agree, AreLists, IsList, OutboundIsUnsent,
                              HandshakeFitsQos, Unsent, Fits, Serving
  <2>2. f = e
    <3> HIDE DEF e, f
    <3> QED BY <2>1, MovesKeeps
  <2>3. References(mq, n) = {<<d, p>>} /\ n \in DOMAIN store
    BY <1>4, <2>1, <2>2 DEF HeldUntilReleased, IInv, Agree
  <2>4. \A x \in Added : mq'[x[1]][x[2]].ms # n
    <3>1. CASE Queues(c)
      <4>1. PICK m \in Msg :
              /\ \A x \in Added : \E r \in Qos : mq'[x[1]][x[2]] = Outgoing(m, r)
              /\ \/ m \notin DOMAIN store
                 \/ \E s \in DOMAIN mq[c] \ DOMAIN mq'[c] : mq[c][s].ms = m
        BY <3>1 DEF Queues
      <4>2. m # n
        <5> SUFFICES ASSUME m = n PROVE FALSE
          OBVIOUS
        <5>1. PICK s \in DOMAIN mq[c] \ DOMAIN mq'[c] : mq[c][s].ms = n
          BY <2>3, <4>1
        <5>2. <<c, s>> \in References(mq, n)
          BY <1>1, <5>1 DEF References
        <5>3. c = d /\ s = p
          BY <2>3, <5>2
        <5> QED BY <5>1, <5>3
      <4> TAKE x \in Added
      <4>3. PICK r \in Qos : mq'[x[1]][x[2]] = Outgoing(m, r)
        BY <4>1
      <4> QED BY <4>2, <4>3, OutgoingFields
    <3>2. CASE Holds
      <4>1. PICK m \in Msg \ DOMAIN store, x \in Client \X Rank, pid \in PacketId :
              Added \subseteq {x} /\ mq'[x[1]][x[2]] = Incoming(m, pid)
        BY <3>2 DEF Holds
      <4> QED BY <2>3, <4>1 DEF Incoming
    <3> QED BY <3>1, <3>2 DEF Serving
  <2>5. ASSUME NEW x \in References(mq', n) PROVE x = <<d, p>>
    <3>1. x \in Client \X Rank /\ x[2] \in DOMAIN mq'[x[1]] /\ mq'[x[1]][x[2]].ms = n
      BY DEF References
    <3>2. x[2] \in DOMAIN mq[x[1]]
      BY <2>4, <3>1 DEF Added
    <3>3. x \in References(mq, n)
      BY <1>3, <3>1, <3>2 DEF References
    <3> QED BY <2>3, <3>3
  <2> QED BY <1>2, <2>5
<1>5. CASE p \notin DOMAIN mq[d]
  <2>1. <<d, p>> \in Added
    BY <1>1, <1>5 DEF Added
  <2>2. ~ Queues(c)
    <3> SUFFICES ASSUME Queues(c) PROVE FALSE
      OBVIOUS
    <3>1. PICK m \in Msg, r \in Qos : mq'[d][p] = Outgoing(m, r)
      <4>1. PICK m \in Msg : \A x \in Added : \E r \in Qos :
              mq'[x[1]][x[2]] = Outgoing(m, r)
        BY DEF Queues
      <4> QED BY <2>1, <4>1
    <3> QED BY <3>1, OutgoingFields
  <2>3. PICK m \in Msg \ DOMAIN store, x \in Client \X Rank, pid \in PacketId :
          Added \subseteq {x} /\ mq'[x[1]][x[2]] = Incoming(m, pid)
    BY <2>1, <2>2 DEF Serving, Holds
  <2>4. Added = {<<d, p>>} /\ n = m
    BY <2>1, <2>3 DEF Incoming
  <2>5. ASSUME NEW y \in References(mq', n) PROVE y = <<d, p>>
    <3>1. y \in Client \X Rank /\ y[2] \in DOMAIN mq'[y[1]] /\ mq'[y[1]][y[2]].ms = n
      BY DEF References
    <3>2. y[2] \notin DOMAIN mq[y[1]]
      <4> SUFFICES ASSUME y[2] \in DOMAIN mq[y[1]] PROVE FALSE
        OBVIOUS
      <4>1. mq[y[1]][y[2]].ms = n
        BY <1>3, <3>1
      <4> QED BY <2>3, <2>4, <3>1, <4>1 DEF IInv, Agree
    <3> QED BY <2>4, <3>1, <3>2 DEF Added
  <2> QED BY <1>2, <2>5
<1> QED BY <1>4, <1>5

(* What the handshakes rely on, as one invariant.                          *)
HInv == OutboundIsUnsent /\ HandshakeFitsQos /\ HeldUntilReleased

(* A process that has stopped, or not begun, has no entries.               *)
LEMMA EmptyHInv ==
  /\ Init => HInv
  /\ Halt => HInv'
BY DEF Init, Halt, EmptyList, HInv, OutboundIsUnsent, HandshakeFitsQos, HeldUntilReleased

LEMMA NextHInv == IInv /\ IInv' /\ HInv /\ [Next]_vars => HInv'
<1> SUFFICES ASSUME IInv, IInv', HInv, [Next]_vars PROVE HInv'
  OBVIOUS
<1>1. CASE UNCHANGED vars
  BY <1>1 DEF HInv, OutboundIsUnsent, HandshakeFitsQos, HeldUntilReleased, References, vars
<1>2. CASE Halt
  BY <1>2, EmptyHInv
<1>3. ASSUME NEW c \in Client, Serving(c) PROVE HInv'
  BY <1>3, ServingFits, ServingHeld DEF HInv
<1> QED BY <1>1, <1>2, <1>3, NextServes

(* The three invariants about handshakes hold together: each of the        *)
(* handlers keeps the pairing of state, direction and identifier.          *)
THEOREM HandshakeInvariant == Spec => []HInv
<1>1. Init => HInv
  BY EmptyHInv
<1>2. IInv /\ IInv' /\ HInv /\ [Next]_vars => HInv'
  BY NextHInv
<1> QED BY <1>1, <1>2, Invariant, PTL DEF Spec

(* Exactly what waits to be published is outbound and without identifier.  *)
THEOREM UnsentOutbound == Spec => []OutboundIsUnsent
<1>1. HInv => OutboundIsUnsent
  BY DEF HInv
<1> QED BY <1>1, HandshakeInvariant, PTL

(* No entry has more than its message's QoS, or another QoS's handshake.   *)
THEOREM HandshakesFit == Spec => []HandshakeFitsQos
<1>1. HInv => HandshakeFitsQos
  BY DEF HInv
<1> QED BY <1>1, HandshakeInvariant, PTL

(* A QoS 2 message waits for its PUBREL in its publisher's list alone.     *)
THEOREM HeldAlone == Spec => []HeldUntilReleased
<1>1. HInv => HeldUntilReleased
  BY DEF HInv
<1> QED BY <1>1, HandshakeInvariant, PTL

-----------------------------------------------------------------------------
(* What a step may not do                                                  *)

(* An entry that moves takes one step of its handshake.                    *)
LEMMA MovesInOrder ==
  ASSUME NEW e \in Entry, NEW f, Moves(e, f), Unsent(e)
  PROVE  HandshakeStep(e, f)
<1>1. CASE f = e
  BY <1>1 DEF HandshakeStep
<1>2. ASSUME e.dir = "MD_OUT", NEW id \in PacketId, f = Sent(e, id)
      PROVE  HandshakeStep(e, f)
  <2>1. /\ f.ms = e.ms /\ f.qos = e.qos
        /\ f.ps = IF e.qos = 1 THEN "WAIT_FOR_PUBACK" ELSE "WAIT_FOR_PUBREC"
    BY <1>2 DEF Sent, Entry
  <2> QED BY <1>2, <2>1 DEF HandshakeStep, Unsent
<1>3. CASE /\ e.ps = "WAIT_FOR_PUBREC"
           /\ f = [e EXCEPT !.ps = "WAIT_FOR_PUBCOMP", !.dir = "MD_IN"]
  BY <1>3 DEF HandshakeStep, Entry
<1> QED BY <1>1, <1>2, <1>3 DEF Moves

(* No handshake is skipped, turned back or dropped.                        *)
THEOREM HandshakesInOrder == Spec => HandshakeOrder
<1> DEFINE Ordered ==
      running' => \A c \in sessions \cap sessions' : \A p \in DOMAIN mq[c] :
        IF p \in DOMAIN mq'[c]
        THEN HandshakeStep(mq[c][p], mq'[c][p])
        ELSE \/ mq[c][p].ps = "WAIT_TO_PUBLISH" /\ mq[c][p].qos = 0
             \/ mq[c][p].ps \in {"WAIT_FOR_PUBACK", "WAIT_FOR_PUBCOMP", "WAIT_FOR_PUBREL"}
<1>1. IInv /\ IInv' /\ HInv /\ [Next]_vars => [Ordered]_vars
  <2> SUFFICES ASSUME IInv, IInv', HInv, Next, running',
                      NEW d \in sessions \cap sessions', NEW p \in DOMAIN mq[d]
               PROVE  IF p \in DOMAIN mq'[d]
                      THEN HandshakeStep(mq[d][p], mq'[d][p])
                      ELSE \/ mq[d][p].ps = "WAIT_TO_PUBLISH" /\ mq[d][p].qos = 0
                           \/ mq[d][p].ps \in {"WAIT_FOR_PUBACK", "WAIT_FOR_PUBCOMP",
                                               "WAIT_FOR_PUBREL"}
    OBVIOUS
  <2>1. PICK c \in Client : Serving(c)
    BY NextServes DEF Halt
  <2>2. d \in Client
    BY DEF IInv, TypeRest
  <2>3. mq[d][p] \in Entry /\ Unsent(mq[d][p])
    BY <2>2 DEF IInv, Agree, AreLists, IsList, HInv, OutboundIsUnsent, Unsent
  <2>4. CASE p \in DOMAIN mq'[d]
    <3>1. Moves(mq[d][p], mq'[d][p])
      BY <2>1, <2>2, <2>4, StayingMoves DEF Serving
    <3> QED BY <2>3, <2>4, <3>1, MovesInOrder
  <2>5. CASE p \notin DOMAIN mq'[d]
    <3>1. MayLeave(mq[d][p])
      BY <2>1, <2>2, <2>5 DEF Serving
    <3> QED BY <2>3, <2>5, <3>1 DEF MayLeave, Unsent
  <2> QED BY <2>4, <2>5
<1> QED BY <1>1, Invariant, HandshakeInvariant, PTL DEF Spec, HandshakeOrder

(* One client's list at most is taken from, or changed, in a step.         *)
THEOREM OthersLeftAlone == Spec => OthersOnlyGrow
<1> DEFINE Alone == running' => \A c, d \in Client : Disturbed(c) /\ Disturbed(d) => c = d
<1>1. IInv /\ IInv' /\ [Next]_vars => [Alone]_vars
  <2> SUFFICES ASSUME IInv, IInv', Next, running'
               PROVE  \A c, d \in Client : Disturbed(c) /\ Disturbed(d) => c = d
    OBVIOUS
  <2>1. PICK b \in Client : Serving(b)
    BY NextServes DEF Halt
  <2>2. \A d \in Client : Disturbed(d) => d = b
    BY <2>1 DEF Serving, Disturbed
  <2> QED BY <2>2
<1> QED BY <1>1, Invariant, PTL DEF Spec, OthersOnlyGrow, Disturbed

-----------------------------------------------------------------------------
(***************************************************************************)
(* Broker implements MessageLifetime.  A step stores one message, and only *)
(* that gains references (Inserts), or lets go of some messages: then the  *)
(* counts that stay positive are those of messages that keep a reference,  *)
(* because the counts are exact before and after the step.                 *)
(***************************************************************************)

(* A count that is exact is positive when there is a reference.            *)
LEMMA CountedIffReferred ==
  ASSUME NEW lists, NEW s, Agree(lists, s), NEW m \in DOMAIN s
  PROVE  /\ s[m].refer_count \in Nat
         /\ s[m].refer_count > 0 <=> References(lists, m) # {}
<1>1. /\ IsFiniteSet(References(lists, m)) /\ Cardinality(References(lists, m)) \in Nat
      /\ s[m].refer_count = Cardinality(References(lists, m))
  BY ReferencesFinite DEF Agree
<1>2. Cardinality(References(lists, m)) = 0 <=> References(lists, m) = {}
  BY <1>1, FS_EmptySet
<1> QED BY <1>1, <1>2

(* Messages are freed that had a reference, and kept with those they have. *)
LetsGo(s) ==
  /\ DOMAIN s \subseteq DOMAIN store
  /\ \A m \in DOMAIN store :
       store[m].refer_count > 0 => (m \in DOMAIN s => s[m].refer_count > 0)
  /\ \A m \in DOMAIN store \ DOMAIN s : store[m].refer_count > 0

(* Deref does that, also after references have been added.                 *)
LEMMA DerefLetsGo ==
  ASSUME Agree(mq, store), NEW c \in Client, NEW D, D \subseteq DOMAIN mq[c],
         NEW s, DOMAIN s = DOMAIN store,
         \A m \in DOMAIN store :
           s[m] \in Message /\ s[m].refer_count >= store[m].refer_count
  PROVE  LetsGo(Deref(s, mq[c], D))
<1> DEFINE after == Deref(s, mq[c], D)
           n(m) == Count(mq[c], D, m)
<1>1. ASSUME NEW m \in DOMAIN store PROVE n(m) \in Nat /\ (n(m) > 0 => References(mq, m) # {})
  <2> DEFINE S == {p \in D : mq[c][p].ms = m}
  <2>1. DOMAIN mq[c] \subseteq Rank
    BY DEF Agree, AreLists, IsList
  <2>2. IsFiniteSet(Rank) /\ S \in SUBSET Rank
    BY <2>1, StoreAssumption, FS_Interval DEF Rank
  <2> HIDE DEF S
  <2>3. IsFiniteSet(S) /\ Cardinality(S) \in Nat /\ (Cardinality(S) = 0 <=> S = {})
    BY <2>2, FS_Subset, FS_CardinalityType, FS_EmptySet
  <2>4. n(m) = Cardinality(S)
    BY DEF S, Count
  <2>5. S # {} => References(mq, m) # {}
    <3> SUFFICES ASSUME NEW p \in S PROVE <<c, p>> \in References(mq, m)
      OBVIOUS
    <3> QED BY <2>1 DEF S, References
  <2> HIDE DEF n
  <2> QED BY <2>3, <2>4, <2>5
<1> HIDE DEF n
<1>2. /\ DOMAIN after \subseteq DOMAIN store
      /\ \A m \in DOMAIN store : m \in DOMAIN after <=> (n(m) > 0 => s[m].refer_count > n(m))
      /\ \A m \in DOMAIN after : after[m] = [s[m] EXCEPT !.refer_count = @ - n(m)]
  BY DEF Deref, n
<1> HIDE DEF after
<1>3. ASSUME NEW m \in DOMAIN store, m \in DOMAIN after, store[m].refer_count > 0
      PROVE  after[m].refer_count > 0
  <2>1. after[m].refer_count = s[m].refer_count - n(m) /\ s[m].refer_count \in Nat
    BY <1>2, <1>3 DEF Message
  <2>2. n(m) \in Nat /\ store[m].refer_count \in Nat
    BY <1>1, CountedIffReferred
  <2> QED BY <1>2, <1>3, <2>1, <2>2
<1>4. ASSUME NEW m \in DOMAIN store, m \notin DOMAIN after
      PROVE  store[m].refer_count > 0
  <2>1. n(m) > 0
    BY <1>1, <1>2, <1>4
  <2> QED BY <1>1, <2>1, CountedIffReferred
<1> QED BY <1>2, <1>3, <1>4 DEF LetsGo, after

LEMMA HandlePubrelLetsGo ==
  ASSUME IInv, NEW c \in Client, NEW pid \in PacketId, HandlePubrel(c, pid), ~ Halt
  PROVE  LetsGo(store')
<1>1. PICK p \in Rank :
        LET m == mq[c][p].ms
            H == Visited(subtree, store[m].topic)
        IN  /\ IsFirst(p, Waiting(mq[c], "WAIT_FOR_PUBREL", pid))
            /\ store' = Deref(AddReferences(store, m, Len(H)), mq[c], {p})
  BY DEF HandlePubrel
<1> DEFINE m == mq[c][p].ms
           H == Visited(subtree, store[m].topic)
           counted == AddReferences(store, m, Len(H))
<1>2. Agree(mq, store) /\ p \in DOMAIN mq[c]
  BY <1>1 DEF IInv, IsFirst, Waiting
<1>3. m \in DOMAIN store /\ \A n \in DOMAIN store : store[n] \in Message
  BY <1>2 DEF Agree, IsStore
<1>4. H \in Seq(SubNode)
  BY <1>3, VisitedType DEF IInv, TypeRest, Message
<1>5. store' = Deref(counted, mq[c], {p})
  BY <1>1
<1>6. Len(H) \in Nat
  BY <1>4, LenProperties
<1> HIDE DEF m, H
<1>7. /\ DOMAIN counted = DOMAIN store
      /\ \A n \in DOMAIN store : counted[n] \in Message
                                 /\ counted[n].refer_count >= store[n].refer_count
  BY <1>3, <1>6 DEF AddReferences, Message
<1> HIDE DEF counted
<1>8. LetsGo(Deref(counted, mq[c], {p}))
  BY <1>2, <1>7, DerefLetsGo
<1> QED BY <1>5, <1>8

(* Every step stores one message, or lets go of some, or stops.            *)
LEMMA NextLetsGo ==
  ASSUME IInv, Next
  PROVE  Halt \/ Inserts \/ LetsGo(store')
<1> SUFFICES ASSUME ~ Halt PROVE Inserts \/ LetsGo(store')
  OBVIOUS
<1>1. PICK c \in Client :
        \/ Accept(c) \/ ReadFails(c) \/ Disconnect(c) \/ Sigpipe(c)
        \/ \E id \in ClientId : HandleConnect(c, id)
        \/ \E req \in Requests, bad \in BOOLEAN : HandleSubscribe(c, req, bad)
        \/ \E fs \in SUBSET Filter : HandleUnsubscribe(c, fs)
        \/ \E t \in Name, q \in 0 .. 1 : HandlePublish(c, t, q)
        \/ \E t \in Name, pid \in InPid : HandlePublish2(c, t, pid)
        \/ WritePacket(c)
        \/ \E pid \in PacketId :
             \/ HandlePubrel(c, pid) \/ HandlePuback(c, pid)
             \/ HandlePubrec(c, pid) \/ HandlePubcomp(c, pid)
  BY DEF Next
<1>2. Agree(mq, store) /\ \A n \in DOMAIN store : store[n] \in Message
  BY DEF IInv, Agree, IsStore
<1>3. \A n \in DOMAIN store : store[n].refer_count >= store[n].refer_count
  BY <1>2 DEF Message
<1>4. ASSUME NEW D, D \subseteq DOMAIN mq[c] PROVE LetsGo(Deref(store, mq[c], D))
  BY <1>2, <1>3, <1>4, DerefLetsGo
<1>5. CASE store' = store
  BY <1>5 DEF LetsGo
<1>6. CASE Disconnect(c)
  BY <1>4, <1>6 DEF Disconnect
<1>7. CASE \E t \in Name, q \in 0 .. 1 : HandlePublish(c, t, q)
  BY <1>7, HandlePublishServes
<1>8. CASE \E t \in Name, pid \in InPid : HandlePublish2(c, t, pid)
  BY <1>8, HandlePublish2Serves
<1>9. CASE WritePacket(c)
  <2>1. PICK P \in SUBSET Outbound(mq[c]) :
          store' = Deref(store, mq[c], P \ {p \in P : mq[c][p].qos > 0})
    BY <1>9 DEF WritePacket
  <2>2. P \ {p \in P : mq[c][p].qos > 0} \subseteq DOMAIN mq[c]
    BY DEF Outbound
  <2> QED BY <1>4, <2>1, <2>2
<1>10. CASE \E pid \in PacketId : HandlePubrel(c, pid)
  BY <1>10, HandlePubrelLetsGo
<1>11. CASE \E pid \in PacketId : HandlePuback(c, pid) \/ HandlePubcomp(c, pid)
  <2>1. PICK p \in DOMAIN mq[c] : Acknowledge(c, p)
    BY <1>11 DEF HandlePuback, HandlePubcomp, IsFirst, Waiting
  <2>2. store' = Deref(store, mq[c], {p}) /\ {p} \subseteq DOMAIN mq[c]
    BY <2>1 DEF Acknowledge
  <2> QED BY <1>4, <2>2
<1>12. \/ store' = store \/ Disconnect(c)
       \/ \E t \in Name, q \in 0 .. 1 : HandlePublish(c, t, q)
       \/ \E t \in Name, pid \in InPid : HandlePublish2(c, t, pid)
       \/ WritePacket(c)
       \/ \E pid \in PacketId :
            HandlePubrel(c, pid) \/ HandlePuback(c, pid) \/ HandlePubcomp(c, pid)
  BY <1>1 DEF Accept, ReadFails, Sigpipe, HandleConnect, HandleSubscribe,
              HandleUnsubscribe, HandlePubrec
<1> QED BY <1>5, <1>6, <1>7, <1>8, <1>9, <1>10, <1>11, <1>12

(***************************************************************************)
(* Messages live as MessageLifetime says: freed in the step in which the   *)
(* last entry lets go of them, never before and never after.               *)
(***************************************************************************)
THEOREM ImplementsLifetime == Spec => LifetimeSpec
<1> DEFINE alive == DOMAIN store
           holders == [m \in Msg |-> References(mq, m)]
<1>1. Init => Lifetime!Init
  BY DEF Init, Lifetime!Init, References, EmptyList
<1>2. IInv /\ IInv' /\ [Next]_vars => [Lifetime!Next]_<<alive, holders>>
  <2> SUFFICES ASSUME IInv, IInv', [Next]_vars
               PROVE  Lifetime!Next \/ UNCHANGED <<alive, holders>>
    OBVIOUS
  <2>1. holders' \in [Msg -> SUBSET (Client \X Rank)]
    BY DEF References
  <2>2. CASE UNCHANGED vars
    BY <2>2 DEF vars
  <2>3. CASE Halt
    <3>1. alive' = {} /\ holders' = [m \in Msg |-> {}]
      BY <2>3 DEF Halt, References, EmptyList
    <3> QED BY <2>1, <3>1 DEF Lifetime!Next, Lifetime!End
  <2>4. CASE Inserts
    <3>1. PICK m \in Msg \ alive :
            alive' = alive \cup {m}
            /\ \A n \in Msg \ {m} : References(mq', n) = References(mq, n)
      BY <2>4 DEF Inserts
    <3>2. \A n \in Msg \ {m} : holders'[n] = holders[n]
      BY <3>1
    <3> QED BY <2>1, <3>1, <3>2 DEF Lifetime!Next, Lifetime!Publish
  <2>5. CASE LetsGo(store')
    <3>1. alive \subseteq Msg /\ alive' \subseteq alive
      BY <2>5 DEF LetsGo, IInv, Agree, IsStore
    <3>2. \A m \in Msg \ alive' : holders'[m] = {}
      BY DEF References, IInv, Agree
    <3>3. ASSUME NEW m \in alive
          PROVE  m \in alive' <=> (holders[m] # {} => holders'[m] # {})
      <4>1. /\ store[m].refer_count > 0 <=> holders[m] # {}
            /\ m \in alive' => (store'[m].refer_count > 0 <=> holders'[m] # {})
        BY <3>1, CountedIffReferred DEF IInv
      <4> QED BY <2>5, <3>1, <3>2, <4>1 DEF LetsGo
    <3>4. alive' = {m \in alive : holders[m] # {} => holders'[m] # {}}
      BY <3>1, <3>3
    <3> QED BY <2>1, <3>2, <3>4 DEF Lifetime!Next, Lifetime!HandOver
  <2> QED BY <2>2, <2>3, <2>4, <2>5, NextLetsGo
<1> QED BY <1>1, <1>2, Invariant, PTL DEF Spec, LifetimeSpec, Lifetime!Spec

-----------------------------------------------------------------------------
(* Identifiers                                                             *)

(* A remainder that is not far from its dividend, and one that is d later. *)
LEMMA RemainderType ==
  ASSUME NEW n \in Nat \ {0}, NEW a \in Nat
  PROVE  \E q \in Nat, r \in 0 .. n - 1 : a = n * q + r /\ a % n = r
<1>1. PICK q \in Int, r \in Int :
        q = a \div n /\ r = a % n /\ 0 <= r /\ r < n /\ a = n * q + r
  OBVIOUS
<1>2. CASE q < 0
  <2>1. n * q <= - n
    BY <1>2
  <2> QED BY <1>1, <2>1
<1>3. CASE q >= 0
  <2>1. q \in Nat /\ r \in 0 .. n - 1
    BY <1>1, <1>3
  <2> QED BY <1>1, <2>1
<1> QED BY <1>1, <1>2, <1>3

LEMMA OneRound ==
  ASSUME NEW n \in Nat \ {0}, NEW a \in Nat, a < n + n
  PROVE  (a < n => a % n = a) /\ (a >= n => a % n = a - n)
<1>1. PICK q \in Nat, r \in 0 .. n - 1 : a = n * q + r /\ a % n = r
  BY RemainderType
<1>2. CASE q = 0
  BY <1>1, <1>2
<1>3. CASE q = 1
  BY <1>1, <1>3
<1>4. CASE q >= 2
  <2>1. n * q >= n * 2
    BY <1>4
  <2> QED BY <1>1, <2>1
<1> QED BY <1>1, <1>2, <1>3, <1>4

LEMMA StepsLater ==
  ASSUME NEW n \in Nat \ {0}, NEW a \in Nat, NEW d \in 1 .. n
  PROVE  (a % n) + d - ((a + d) % n) \in {0, n}
<1>1. PICK q \in Nat, r \in 0 .. n - 1 : a = n * q + r /\ a % n = r
  BY RemainderType
<1>2. PICK s \in Nat, t \in 0 .. n - 1 : a + d = n * s + t /\ (a + d) % n = t
  <2>1. a + d \in Nat
    OBVIOUS
  <2> QED BY <2>1, RemainderType
<1>3. PICK k \in Int : k = s - q
  OBVIOUS
<1>4. n * k = r + d - t
  <2>1. n * k = n * s - n * q
    BY <1>3
  <2> QED BY <1>1, <1>2, <2>1
<1>5. CASE k < 0
  <2>1. n * k <= - n
    BY <1>5
  <2> QED BY <1>4, <2>1
<1>6. CASE k = 0
  BY <1>1, <1>2, <1>4, <1>6
<1>7. CASE k = 1
  BY <1>1, <1>2, <1>4, <1>7
<1>8. CASE k > 1
  <2>1. n * k >= n * 2
    BY <1>8
  <2> QED BY <1>4, <2>1
<1> QED BY <1>5, <1>6, <1>7, <1>8

-----------------------------------------------------------------------------

(***************************************************************************)
(* Until the counter of d has gone round, an entry's identifier lies as    *)
(* far behind the counter as identifiers have been given since, and no two *)
(* entries have waited for the same number of them.                        *)
(***************************************************************************)
Behind(d, p) ==
  mq[d][p].packet_id + given[d][p] - packet_id_source[d] \in {0, PidMod}

NumberedAt(d) ==
  /\ \A p \in Unanswered(mq[d]) :
       given[d][p] \in 1 .. Around /\ (given[d][p] <= PidMod => Behind(d, p))
  /\ \A p, r \in Unanswered(mq[d]) :
       given[d][p] = given[d][r] /\ given[d][p] <= PidMod => p = r

NumInv == \A d \in Client : NumberedAt(d)

LEMMA PidModType == PidMod \in Nat \ {0} /\ PacketId = 0 .. PidMod - 1
BY StoreAssumption DEF PacketId

LEMMA UnansweredType ==
  /\ IInv => \A d \in Client : \A p \in Unanswered(mq[d]) :
       p \in DOMAIN mq[d] /\ p \in Rank /\ mq[d][p] \in Entry
  /\ IInv' => \A d \in Client : \A p \in Unanswered(mq'[d]) :
       p \in DOMAIN mq'[d] /\ p \in Rank /\ mq'[d][p] \in Entry
BY DEF IInv, Agree, AreLists, IsList, Unanswered

(* An entry that waits has an identifier.                                  *)
LEMMA UnansweredId ==
  ASSUME IInv, HInv, NEW d \in Client, NEW p \in Unanswered(mq[d])
  PROVE  mq[d][p].packet_id \in PacketId
<1>1. mq[d][p] \in Entry /\ p \in DOMAIN mq[d] /\ mq[d][p].ps \in Waits
  BY UnansweredType DEF Unanswered
<1>2. mq[d][p].packet_id # NoPid
  BY <1>1 DEF HInv, OutboundIsUnsent, Waits
<1> QED BY <1>1, <1>2 DEF Entry

(* What waits after a step without numbers waited with its number before.  *)
LEMMA GivesNoneWaits ==
  ASSUME IInv, IInv', HInv, HInv', NEW c \in Client, Serving(c), GivesNone,
         NEW d \in Client, NEW p \in Unanswered(mq'[d])
  PROVE  p \in Unanswered(mq[d]) /\ mq'[d][p].packet_id = mq[d][p].packet_id
<1>1. p \in DOMAIN mq'[d] /\ mq'[d][p].ps \in Waits
  BY DEF Unanswered
<1>2. CASE p \notin DOMAIN mq[d]
  <2>1. PICK m \in Msg : \/ \E r \in Qos : mq'[d][p] = Outgoing(m, r)
                         \/ \E pid \in PacketId : mq'[d][p] = Incoming(m, pid)
    BY <1>1, <1>2, OldOrNew
  <2>2. ASSUME NEW k \in Qos, mq'[d][p] = Outgoing(m, k) PROVE FALSE
    BY <1>1, <2>2 DEF Outgoing, Waits
  <2>3. ASSUME NEW pid \in PacketId, mq'[d][p] = Incoming(m, pid) PROVE FALSE
    BY <1>1, <2>3 DEF Incoming, Waits
  <2> QED BY <2>1, <2>2, <2>3
<1>3. CASE p \in DOMAIN mq[d]
  <2> DEFINE e == mq[d][p]
             f == mq'[d][p]
  <2>1. Moves(e, f) /\ f.packet_id = e.packet_id
    BY <1>1, <1>3, StayingMoves DEF Serving, GivesNone
  <2>2. f.packet_id # NoPid
    BY <1>1 DEF HInv, OutboundIsUnsent, Waits
  <2>3. e.dir # "MD_OUT"
    BY <1>3, <2>1, <2>2 DEF HInv, OutboundIsUnsent
  <2>4. e.ps \in Waits
    <3> HIDE DEF e
    <3> QED BY <1>1, <2>1, <2>3 DEF Moves, Waits
  <2> QED BY <1>3, <2>1, <2>4 DEF Unanswered
<1> QED BY <1>2, <1>3

(* The history of one client, in a step that numbers the entries in B.     *)
LEMMA GiveAt ==
  ASSUME Give, NEW d \in Client, NEW p \in Rank, NEW B,
         B = Unanswered(mq'[d]) \ Unanswered(mq[d]), p \in Unanswered(mq'[d])
  PROVE  /\ p \in B => given'[d][p] = UpToAround(1 + Cardinality({r \in B : r < p}))
         /\ p \notin B => given'[d][p] = UpToAround(given[d][p] + Cardinality(B))
BY DEF Give

LEMMA CappedType ==
  ASSUME NEW n \in Nat \ {0}
  PROVE  /\ UpToAround(n) \in 1 .. Around
         /\ UpToAround(n) <= PidMod => UpToAround(n) = n /\ n <= PidMod
BY PidModType DEF UpToAround, Around

LEMMA CappedSame ==
  ASSUME NEW m \in Nat \ {0}, NEW n \in Nat \ {0},
         UpToAround(m) = UpToAround(n), UpToAround(m) <= PidMod
  PROVE  m = n /\ m <= PidMod
BY PidModType DEF UpToAround, Around

(* A client that is given no identifier.                                   *)
LEMMA NoneNumbers ==
  ASSUME IInv', Give, NEW d \in Client, NumberedAt(d),
         packet_id_source'[d] = packet_id_source[d] \/ DOMAIN mq'[d] = {},
         \A p \in Unanswered(mq'[d]) :
           p \in Unanswered(mq[d]) /\ mq'[d][p].packet_id = mq[d][p].packet_id
  PROVE  NumberedAt(d)'
<1> DEFINE B == Unanswered(mq'[d]) \ Unanswered(mq[d])
<1>1. B = {} /\ Cardinality({}) = 0
  BY FS_EmptySet
<1>2. ASSUME NEW p \in Unanswered(mq'[d])
      PROVE  /\ p \in Unanswered(mq[d]) /\ given[d][p] \in 1 .. Around
             /\ given'[d][p] = given[d][p]
             /\ mq'[d][p].packet_id = mq[d][p].packet_id
             /\ packet_id_source'[d] = packet_id_source[d]
  <2>1. p \in Rank /\ p \in DOMAIN mq'[d]
    BY UnansweredType
  <2>2. given'[d][p] = UpToAround(given[d][p] + 0)
    <3>1. given'[d][p] = UpToAround(given[d][p] + Cardinality(B))
      BY <1>1, <2>1, GiveAt
    <3> QED BY <1>1, <3>1
  <2>3. PICK g \in 1 .. Around : g = given[d][p]
    BY DEF NumberedAt
  <2>4. UpToAround(g + 0) = g
    BY PidModType DEF UpToAround, Around
  <2> QED BY <2>1, <2>2, <2>3, <2>4
<1> QED BY <1>2 DEF NumberedAt, Behind

(* Where an entry stands among those that are numbered in one step.        *)
LEMMA Standing ==
  ASSUME NEW A \in SUBSET Rank, NEW p \in A
  PROVE  LET above == {r \in A : r > p}
             below == {r \in A : r < p}
         IN  /\ Cardinality(above) \in Nat /\ Cardinality(below) \in Nat
             /\ Cardinality(A) = Cardinality(above) + 1 + Cardinality(below)
             /\ \A s \in A : p < s =>
                  Cardinality(below) < Cardinality({r \in A : r < s})
<1> DEFINE above == {r \in A : r > p}
           below == {r \in A : r < p}
<1>1. IsFiniteSet(A) /\ A \subseteq Int
  <2>1. IsFiniteSet(Rank) /\ Rank \subseteq Int
    BY FS_Interval, StoreAssumption DEF Rank
  <2> QED BY <2>1, FS_Subset
<1>2. IsFiniteSet(above) /\ IsFiniteSet(below)
  BY <1>1, FS_Subset
<1>3. /\ Cardinality(below \cup {p}) = Cardinality(below) + 1
      /\ IsFiniteSet(below \cup {p})
  <2>1. p \notin below
    BY <1>1
  <2> HIDE DEF below
  <2> QED BY <1>2, <2>1, FS_AddElement
<1>4. A = above \cup (below \cup {p}) /\ above \cap (below \cup {p}) = {}
  <2>1. \A r \in A : /\ r > p \/ r < p \/ r = p
                     /\ ~ (r > p /\ r < p) /\ ~ (r > p /\ r = p)
    <3> TAKE r \in A
    <3>1. r \in Int /\ p \in Int
      BY <1>1
    <3> QED BY <3>1
  <2> QED BY <2>1
<1>5. Cardinality(A) = Cardinality(above) + Cardinality(below \cup {p})
  <2>1. Cardinality(above \cap (below \cup {p})) = 0
    BY <1>4, FS_EmptySet
  <2>2. Cardinality(above) \in Nat /\ Cardinality(below \cup {p}) \in Nat
    BY <1>2, <1>3, FS_CardinalityType
  <2>3. Cardinality(above \cup (below \cup {p}))
          = Cardinality(above) + Cardinality(below \cup {p})
              - Cardinality(above \cap (below \cup {p}))
    BY <1>2, <1>3, FS_Union
  <2> HIDE DEF above, below
  <2> QED BY <1>4, <2>1, <2>2, <2>3
<1>6. Cardinality(above) \in Nat /\ Cardinality(below) \in Nat
  BY <1>2, FS_CardinalityType
<1>7. ASSUME NEW s \in A, p < s
      PROVE  Cardinality(below) < Cardinality({r \in A : r < s})
  <2> DEFINE T == {r \in A : r < s}
  <2>1. below \cup {p} \in SUBSET T
    <3>1. \A r \in A : r < p => r < s
      <4> TAKE r \in A
      <4>1. r \in Int /\ p \in Int /\ s \in Int
        BY <1>1
      <4> QED BY <1>7, <4>1
    <3> QED BY <1>7, <3>1
  <2>2. IsFiniteSet(T)
    BY <1>1, FS_Subset
  <2> HIDE DEF T, below
  <2>3. Cardinality(below \cup {p}) <= Cardinality(T) /\ Cardinality(T) \in Nat
    BY <2>1, <2>2, FS_Subset, FS_CardinalityType
  <2>4. Cardinality(below) < Cardinality(T)
    BY <1>3, <1>6, <2>3
  <2> QED BY <2>4 DEF T, below
<1>8. Cardinality(A) = Cardinality(above) + 1 + Cardinality(below)
  <2> HIDE DEF above, below
  <2> QED BY <1>3, <1>5, <1>6
<1> QED BY <1>6, <1>7, <1>8

(* What a writing does to a list, and the identifiers it gives.            *)
LEMMA WriteGives ==
  ASSUME IInv, HInv, NEW c \in Client, WritePacket(c)
  PROVE  \E A \in SUBSET DOMAIN mq[c] :
           /\ packet_id_source'[c] = (packet_id_source[c] + Cardinality(A)) % PidMod
           /\ \A p \in A : mq'[c][p].packet_id =
                (packet_id_source[c] + Cardinality({r \in A : r > p})) % PidMod
           /\ A = Unanswered(mq'[c]) \ Unanswered(mq[c])
           /\ \A p \in Unanswered(mq'[c]) \ A :
                p \in Unanswered(mq[c]) /\ mq'[c][p] = mq[c][p]
           /\ \A d \in Client \ {c} :
                mq'[d] = mq[d] /\ packet_id_source'[d] = packet_id_source[d]
<1>1. PICK P \in SUBSET Outbound(mq[c]) :
       LET acked == {p \in P : mq[c][p].qos > 0}
           pid(p) == Advance(packet_id_source[c], Cardinality({r \in acked : r > p}))
       IN  /\ packet_id_source' =
                [packet_id_source EXCEPT ![c] = Advance(@, Cardinality(acked))]
           /\ mq' = [mq EXCEPT
                ![c] = [p \in DOMAIN @ \ (P \ acked) |->
                          IF p \in acked THEN Sent(mq[c][p], pid(p)) ELSE mq[c][p]]]
  BY DEF WritePacket
<1> DEFINE A == {p \in P : mq[c][p].qos > 0}
           id(p) == Advance(packet_id_source[c], Cardinality({r \in A : r > p}))
<1>2. /\ A \in SUBSET DOMAIN mq[c] /\ A \subseteq P
      /\ \A p \in A : mq[c][p].qos > 0 /\ mq[c][p].dir = "MD_OUT"
      /\ packet_id_source' = [packet_id_source EXCEPT ![c] = Advance(@, Cardinality(A))]
      /\ mq' = [mq EXCEPT
           ![c] = [p \in DOMAIN @ \ (P \ A) |->
                     IF p \in A THEN Sent(mq[c][p], id(p)) ELSE mq[c][p]]]
  BY <1>1 DEF Outbound
<1>3. DOMAIN mq = Client /\ DOMAIN packet_id_source = Client /\ IsList(mq[c])
  BY DEF IInv, TypeRest, Agree, AreLists
<1> HIDE DEF A, id
<1>4. /\ \A p \in A : p \in DOMAIN mq'[c] /\ mq'[c][p] = Sent(mq[c][p], id(p))
      /\ \A p \in DOMAIN mq'[c] \ A : p \in DOMAIN mq[c] /\ mq'[c][p] = mq[c][p]
      /\ \A d \in Client \ {c} :
           mq'[d] = mq[d] /\ packet_id_source'[d] = packet_id_source[d]
      /\ packet_id_source'[c] = Advance(packet_id_source[c], Cardinality(A))
  BY <1>2, <1>3
<1>5. ASSUME NEW p \in A
      PROVE  /\ mq'[c][p].packet_id = id(p) /\ p \in Unanswered(mq'[c])
             /\ p \notin Unanswered(mq[c])
  <2>1. mq[c][p] \in Entry /\ mq'[c][p] = Sent(mq[c][p], id(p)) /\ p \in DOMAIN mq'[c]
    BY <1>2, <1>3, <1>4 DEF IsList
  <2>2. mq'[c][p].packet_id = id(p) /\ mq'[c][p].ps \in Waits
    BY <2>1 DEF Sent, Entry, Waits
  <2>3. mq[c][p].ps \notin Waits
    BY <1>2 DEF HInv, OutboundIsUnsent, Waits
  <2> QED BY <2>1, <2>2, <2>3 DEF Unanswered
<1>6. \A p \in Unanswered(mq'[c]) \ A : p \in Unanswered(mq[c]) /\ mq'[c][p] = mq[c][p]
  BY <1>4 DEF Unanswered
<1>7. A = Unanswered(mq'[c]) \ Unanswered(mq[c])
  BY <1>5, <1>6
<1> QED BY <1>2, <1>4, <1>5, <1>6, <1>7 DEF Advance, id

(* The client that is written to.                                          *)
LEMMA WriteNumbers ==
  ASSUME IInv, IInv', HInv, Give, NEW c \in Client, NumberedAt(c), WritePacket(c)
  PROVE  NumberedAt(c)'
<1>1. PICK A \in SUBSET DOMAIN mq[c] :
        /\ packet_id_source'[c] = (packet_id_source[c] + Cardinality(A)) % PidMod
        /\ \A p \in A : mq'[c][p].packet_id =
             (packet_id_source[c] + Cardinality({r \in A : r > p})) % PidMod
        /\ A = Unanswered(mq'[c]) \ Unanswered(mq[c])
        /\ \A p \in Unanswered(mq'[c]) \ A :
             p \in Unanswered(mq[c]) /\ mq'[c][p] = mq[c][p]
  BY WriteGives
<1>2. A \in SUBSET Rank /\ A \subseteq Unanswered(mq'[c])
  BY <1>1 DEF IInv, Agree, AreLists, IsList
<1>3. PICK s \in 0 .. PidMod - 1, t \in 0 .. PidMod - 1 :
        s = packet_id_source[c] /\ t = packet_id_source'[c]
  BY PidModType DEF IInv, TypeRest
<1>4. PICK k \in Nat : k = Cardinality(A) /\ t = (s + k) % PidMod
  <2>1. IsFiniteSet(A)
    <3>1. IsFiniteSet(Rank)
      BY FS_Interval, StoreAssumption DEF Rank
    <3> QED BY <1>2, <3>1, FS_Subset
  <2> QED BY <1>1, <1>3, <2>1, FS_CardinalityType
<1>5. ASSUME NEW p \in A
      PROVE  \E b \in Nat :
               /\ b = Cardinality({r \in A : r < p}) /\ b < k
               /\ given'[c][p] = UpToAround(1 + b)
               /\ 1 + b <= PidMod => mq'[c][p].packet_id + (1 + b) - t \in {0, PidMod}
  <2>1. PICK a \in Nat, b \in Nat :
          /\ a = Cardinality({r \in A : r > p}) /\ b = Cardinality({r \in A : r < p})
          /\ k = a + 1 + b
    <3> DEFINE above == {r \in A : r > p}
               below == {r \in A : r < p}
    <3>1. /\ Cardinality(above) \in Nat /\ Cardinality(below) \in Nat
          /\ Cardinality(A) = Cardinality(above) + 1 + Cardinality(below)
      BY <1>2, Standing
    <3> HIDE DEF above, below
    <3>2. \E a \in Nat, b \in Nat : /\ a = Cardinality(above) /\ b = Cardinality(below)
                                   /\ k = a + 1 + b
      BY <1>4, <3>1
    <3> QED BY <3>2 DEF above, below
  <2>2. given'[c][p] = UpToAround(1 + b)
    BY <1>1, <1>2, <2>1, GiveAt
  <2>3. mq'[c][p].packet_id = (s + a) % PidMod
    BY <1>1, <1>3, <2>1
  <2>4. ASSUME 1 + b <= PidMod
        PROVE  ((s + a) % PidMod) + (1 + b) - ((s + a + (1 + b)) % PidMod) \in {0, PidMod}
    <3>1. s + a \in Nat /\ 1 + b \in 1 .. PidMod
      BY <2>4, PidModType
    <3> QED BY <3>1, PidModType, StepsLater
  <2>5. s + a + (1 + b) = s + k /\ b < k
    BY <2>1
  <2>6. 1 + b <= PidMod => mq'[c][p].packet_id + (1 + b) - t \in {0, PidMod}
    BY <1>4, <2>3, <2>4, <2>5
  <2> QED BY <2>1, <2>2, <2>5, <2>6
<1>6. ASSUME NEW p \in Unanswered(mq'[c]) \ A
      PROVE  \E g \in 1 .. Around :
               /\ p \in Unanswered(mq[c]) /\ g = given[c][p]
               /\ given'[c][p] = UpToAround(g + k)
               /\ g + k <= PidMod => mq'[c][p].packet_id + (g + k) - t \in {0, PidMod}
  <2>1. p \in Rank /\ p \in Unanswered(mq[c]) /\ mq'[c][p] = mq[c][p]
    BY <1>1, UnansweredType
  <2>2. PICK g \in 1 .. Around : g = given[c][p]
    BY <2>1 DEF NumberedAt
  <2>3. given'[c][p] = UpToAround(g + k)
    <3>1. given'[c][p] = UpToAround(given[c][p] + Cardinality(A))
      <4>1. p \in Rank /\ p \in Unanswered(mq'[c]) /\ p \notin A
        BY <2>1
      <4>2. A = Unanswered(mq'[c]) \ Unanswered(mq[c])
        BY <1>1
      <4> QED BY <4>1, <4>2, GiveAt
    <3> QED BY <1>4, <2>2, <3>1
  <2>4. PICK i \in 0 .. PidMod - 1 : i = mq[c][p].packet_id
    BY <2>1, UnansweredId, PidModType
  <2>5. ASSUME g + k <= PidMod PROVE i + (g + k) - t \in {0, PidMod}
    <3>1. g <= PidMod /\ k < PidMod
      BY <2>5, PidModType
    <3>2. i + g = s \/ i + g = s + PidMod
      <4>1. Behind(c, p)
        BY <2>1, <2>2, <3>1 DEF NumberedAt
      <4>2. i + g - s \in {0, PidMod}
        BY <1>3, <2>2, <2>4, <4>1 DEF Behind
      <4> QED BY <4>2, PidModType
    <3>3. (s + k < PidMod => t = s + k) /\ (s + k >= PidMod => t = s + k - PidMod)
      <4>1. PICK n \in Nat \ {0}, a \in Nat : n = PidMod /\ a = s + k /\ a < n + n
        BY <3>1, PidModType
      <4>2. (a < n => a % n = a) /\ (a >= n => a % n = a - n)
        BY <4>1, OneRound
      <4> QED BY <1>4, <4>1, <4>2
    <3>4. PICK n \in Nat \ {0} : n = PidMod
      BY PidModType
    <3> QED BY <2>5, <3>1, <3>2, <3>3, <3>4
  <2> QED BY <2>1, <2>2, <2>3, <2>4, <2>5
<1>7. ASSUME NEW p \in Unanswered(mq'[c])
      PROVE  /\ given'[c][p] \in 1 .. Around
             /\ given'[c][p] <= PidMod => Behind(c, p)'
  <2>1. PICK h \in Nat \ {0} :
          /\ given'[c][p] = UpToAround(h)
          /\ h <= PidMod => mq'[c][p].packet_id + h - t \in {0, PidMod}
    <3>1. CASE p \in A
      <4>1. PICK b \in Nat :
              /\ given'[c][p] = UpToAround(1 + b)
              /\ 1 + b <= PidMod => mq'[c][p].packet_id + (1 + b) - t \in {0, PidMod}
        BY <1>5, <3>1
      <4>2. 1 + b \in Nat \ {0}
        OBVIOUS
      <4> QED BY <4>1, <4>2
    <3>2. CASE p \notin A
      <4>1. PICK g \in 1 .. Around :
              /\ given'[c][p] = UpToAround(g + k)
              /\ g + k <= PidMod => mq'[c][p].packet_id + (g + k) - t \in {0, PidMod}
        BY <1>6, <3>2
      <4>2. g + k \in Nat \ {0}
        BY <1>4
      <4> QED BY <4>1, <4>2
    <3> QED BY <3>1, <3>2
  <2>2. /\ given'[c][p] \in 1 .. Around
        /\ given'[c][p] <= PidMod => given'[c][p] = h /\ h <= PidMod
    BY <2>1, CappedType
  <2> QED BY <1>3, <2>1, <2>2 DEF Behind
<1>8. ASSUME NEW p \in Unanswered(mq'[c]), NEW r \in Unanswered(mq'[c]),
             given'[c][p] = given'[c][r], given'[c][p] <= PidMod
      PROVE  p = r
  <2>1. CASE p \in A /\ r \in A
    <3>1. PICK b \in Nat, d \in Nat :
            /\ b = Cardinality({x \in A : x < p}) /\ given'[c][p] = UpToAround(1 + b)
            /\ d = Cardinality({x \in A : x < r}) /\ given'[c][r] = UpToAround(1 + d)
      BY <1>5, <2>1
    <3>2. b = d
      <4>1. 1 + b \in Nat \ {0} /\ 1 + d \in Nat \ {0}
        OBVIOUS
      <4>2. 1 + b = 1 + d
        BY <1>8, <3>1, <4>1, CappedSame
      <4> QED BY <4>2
    <3>3. ~ (p < r) /\ ~ (r < p)
      <4>1. p < r => b < d
        BY <1>2, <2>1, <3>1, Standing
      <4>2. r < p => d < b
        BY <1>2, <2>1, <3>1, Standing
      <4> QED BY <3>1, <3>2, <4>1, <4>2
    <3>4. p \in Int /\ r \in Int
      BY <1>2, <2>1, StoreAssumption DEF Rank
    <3> QED BY <3>3, <3>4
  <2>2. CASE p \notin A /\ r \notin A
    <3>1. PICK g \in 1 .. Around, h \in 1 .. Around :
            /\ p \in Unanswered(mq[c]) /\ g = given[c][p] /\ given'[c][p] = UpToAround(g + k)
            /\ r \in Unanswered(mq[c]) /\ h = given[c][r] /\ given'[c][r] = UpToAround(h + k)
      BY <1>6, <2>2
    <3>2. g + k \in Nat \ {0} /\ h + k \in Nat \ {0}
      BY <1>4
    <3>3. g + k = h + k /\ g + k <= PidMod
      BY <1>8, <3>1, <3>2, CappedSame
    <3>4. g = h /\ g <= PidMod
      BY <1>4, <3>3, PidModType
    <3> QED BY <3>1, <3>4 DEF NumberedAt
  <2>3. ASSUME NEW x \in A, NEW y \in Unanswered(mq'[c]) \ A,
               given'[c][x] = given'[c][y], given'[c][x] <= PidMod
        PROVE  FALSE
    <3>1. PICK b \in Nat : b < k /\ given'[c][x] = UpToAround(1 + b)
      BY <1>5
    <3>2. PICK g \in 1 .. Around : given'[c][y] = UpToAround(g + k)
      BY <1>6
    <3>3. g + k \in Nat \ {0} /\ 1 + b \in Nat \ {0}
      BY <1>4
    <3>4. g + k = 1 + b
      BY <2>3, <3>1, <3>2, <3>3, CappedSame
    <3> QED BY <1>4, <3>1, <3>4
  <2>4. CASE p \in A /\ r \notin A
    BY <1>8, <2>3, <2>4
  <2>5. CASE p \notin A /\ r \in A
    BY <1>8, <2>3, <2>5
  <2> QED BY <2>1, <2>2, <2>4, <2>5
<1> QED BY <1>7, <1>8 DEF NumberedAt

(* Nothing happens to the lists and counters.                              *)
LEMMA QuietNumbers ==
  ASSUME IInv', NumInv, Give, UNCHANGED vars
  PROVE  NumInv'
<1> SUFFICES ASSUME NEW d \in Client PROVE NumberedAt(d)'
  BY DEF NumInv
<1>1. mq' = mq /\ packet_id_source' = packet_id_source /\ NumberedAt(d)
  BY DEF vars, NumInv
<1> QED BY <1>1, NoneNumbers

LEMMA NextNumInv ==
  /\ IInv /\ IInv' /\ HInv /\ HInv' /\ NumInv
  /\ [Next]_vars /\ [Give]_numberedVars
  => NumInv'
<1> SUFFICES ASSUME IInv, IInv', HInv, HInv', NumInv, [Next]_vars, [Give]_numberedVars
             PROVE  NumInv'
  OBVIOUS
<1>1. CASE UNCHANGED numberedVars
  BY <1>1 DEF NumInv, NumberedAt, Behind, numberedVars, vars
<1>2. CASE UNCHANGED vars /\ Give
  BY <1>2, QuietNumbers
<1>3. CASE Halt
  <2>1. \A d \in Client : DOMAIN mq'[d] = {}
    BY <1>3 DEF Halt, EmptyList
  <2>2. \A d \in Client : Unanswered(mq'[d]) = {}
    BY <2>1 DEF Unanswered
  <2> QED BY <2>2 DEF NumInv, NumberedAt
<1>4. ASSUME Give, NEW c \in Client, Serving(c), GivesNone PROVE NumInv'
  <2> SUFFICES ASSUME NEW d \in Client PROVE NumberedAt(d)'
    BY DEF NumInv
  <2>1. \A p \in Unanswered(mq'[d]) :
          p \in Unanswered(mq[d]) /\ mq'[d][p].packet_id = mq[d][p].packet_id
    BY <1>4, GivesNoneWaits
  <2>2. NumberedAt(d)
    BY DEF NumInv
  <2> QED BY <1>4, <2>1, <2>2, NoneNumbers DEF GivesNone
<1>5. ASSUME Give, NEW c \in Client, WritePacket(c) PROVE NumInv'
  <2> SUFFICES ASSUME NEW d \in Client PROVE NumberedAt(d)'
    BY DEF NumInv
  <2>1. NumberedAt(d)
    BY DEF NumInv
  <2>2. CASE d = c
    BY <1>5, <2>1, <2>2, WriteNumbers
  <2>3. CASE d # c
    <3>1. mq'[d] = mq[d] /\ packet_id_source'[d] = packet_id_source[d]
      BY <1>5, <2>3, WriteGives
    <3> QED BY <1>5, <2>1, <3>1, NoneNumbers
  <2> QED BY <2>2, <2>3
<1>6. CASE Next /\ Give
  BY <1>3, <1>4, <1>5, <1>6, NextServes
<1> QED BY <1>1, <1>2, <1>6

(* Between two entries with one identifier lies a whole round.             *)
LEMMA NumInvShares == IInv /\ HInv /\ NumInv => SharedOnlyAfterRound
<1> SUFFICES ASSUME IInv, HInv, NumInv, NEW c \in Client,
                    NEW p \in Unanswered(mq[c]), NEW r \in Unanswered(mq[c]),
                    mq[c][p].packet_id = mq[c][r].packet_id,
                    ~ (given[c][p] > PidMod), ~ (given[c][r] > PidMod)
             PROVE  p = r
  BY DEF SharedOnlyAfterRound
<1>1. NumberedAt(c)
  BY DEF NumInv
<1>2. PICK g \in 1 .. Around, h \in 1 .. Around : g = given[c][p] /\ h = given[c][r]
  BY <1>1 DEF NumberedAt
<1>3. g <= PidMod /\ h <= PidMod
  BY <1>2, PidModType
<1>4. PICK i \in 0 .. PidMod - 1, s \in 0 .. PidMod - 1 :
        i = mq[c][p].packet_id /\ s = packet_id_source[c]
  <2>1. mq[c][p].packet_id \in PacketId
    BY UnansweredId
  <2>2. packet_id_source[c] \in PacketId
    BY DEF IInv, TypeRest
  <2> QED BY <2>1, <2>2, PidModType
<1>5. Behind(c, p) /\ Behind(c, r)
  BY <1>1, <1>2, <1>3 DEF NumberedAt
<1>6. i + g - s \in {0, PidMod} /\ i + h - s \in {0, PidMod}
  BY <1>2, <1>4, <1>5 DEF Behind
<1>7. g = h
  BY <1>3, <1>6, PidModType
<1> QED BY <1>1, <1>2, <1>3, <1>7 DEF NumberedAt

(***************************************************************************)
(* However many identifiers there are and whatever the clients answer, two *)
(* messages of one client wait with the same identifier only when all the  *)
(* identifiers have been given again while one of the two waited.          *)
(***************************************************************************)
THEOREM SharedAfterRound == NumberedSpec => []SharedOnlyAfterRound
<1>1. NumberedInit => NumInv
  <2> SUFFICES ASSUME NumberedInit PROVE NumInv
    OBVIOUS
  <2>1. \A d \in Client : DOMAIN mq[d] = {}
    BY DEF NumberedInit, Init, EmptyList
  <2>2. \A d \in Client : Unanswered(mq[d]) = {}
    BY <2>1 DEF Unanswered
  <2> QED BY <2>2 DEF NumInv, NumberedAt
<1>2. NumberedInit => IInv /\ HInv
  BY InitIInv, EmptyHInv DEF NumberedInit
<1>3. [Next /\ Give]_numberedVars => [Next]_vars /\ [Give]_numberedVars
  BY DEF numberedVars
<1> QED BY <1>1, <1>2, <1>3, NextIInv, NextHInv, NextNumInv, NumInvShares, PTL
        DEF NumberedSpec

=============================================================================
