--------------------------- MODULE DeliveryProofs ---------------------------
(***************************************************************************)
(* QosExchange keeps one packet for each handshake, and implements         *)
(* Delivery.                                                               *)
(*                                                                         *)
(* The entries of a client's list that wait for an acknowledgement are     *)
(* its handshakes.  The connection is settled if its two streams hold one  *)
(* packet of each handshake, in one of them, and no other packet that      *)
(* could end or take on a handshake; and if the client holds the           *)
(* identifiers of those between PUBREC and PUBREL (SettledAt).  That is    *)
(* inductive as long as no two handshakes of a client share an identifier  *)
(* (IdsDistinct): a packet then belongs to one handshake, and reading it   *)
(* ends this one, or moves its packet to the other stream.                 *)
(*                                                                         *)
(* That identifiers differ is a condition on what the code does not check, *)
(* so the theorems have it as a hypothesis.  It holds as long as no        *)
(* message waits while its client is given every identifier again          *)
(* (DeliveredWithinRound): Numbering's history says how long one waits.    *)
(***************************************************************************)
EXTENDS ExchangeProofs

-----------------------------------------------------------------------------
(* Handshakes and their packets                                            *)

(* The messages of c that wait for an acknowledgement.                     *)
Sending(c) == {p \in DOMAIN mq[c] : mq[c][p].ps \in Waits}

HandshakeOf(c, p) ==
  [ps |-> mq[c][p].ps, id |-> mq[c][p].packet_id, topic |-> store[mq[c][p].ms].topic]

Handshakes(c) == {HandshakeOf(c, p) : p \in Sending(c)}

Handshake == [ps : Waits, id : PacketId, topic : Name]

(* The packet that takes handshake h on: to the client, and its answer.    *)
OutOf(h) ==
  CASE h.ps = "WAIT_FOR_PUBACK" -> Publish(h.topic, 1, h.id)
    [] h.ps = "WAIT_FOR_PUBREC" -> Publish(h.topic, 2, h.id)
    [] h.ps = "WAIT_FOR_PUBCOMP" -> Ack("PUBREL", h.id)

InOf(h) ==
  CASE h.ps = "WAIT_FOR_PUBACK" -> Ack("PUBACK", h.id)
    [] h.ps = "WAIT_FOR_PUBREC" -> Ack("PUBREC", h.id)
    [] h.ps = "WAIT_FOR_PUBCOMP" -> Ack("PUBCOMP", h.id)

(* Packets of a handshake of the broker with a client, in each direction.  *)
OutTokens ==
  {p \in Packet : (p.type = "PUBLISH" /\ p.qos > 0) \/ p.type = "PUBREL"}
InTokens == {p \in Packet : p.type \in {"PUBACK", "PUBREC", "PUBCOMP"}}

Outs(s, i) == Cardinality(Positions(s, {p \in OutTokens : p.pid = i}))
Ins(u, i) == Cardinality(Positions(u, {p \in InTokens : p.pid = i}))

(* Packets that are in no handshake, or in one of H.                       *)
OutFits(H) == {p \in Packet : p \in OutTokens => \E h \in H : p = OutOf(h)}
InFits(H) == {p \in Packet : p \in InTokens => \E h \in H : p = InOf(h)}

(* The client has answered PUBREC, and not yet got PUBREL.                 *)
Half(h, s, u) ==
  \/ h.ps = "WAIT_FOR_PUBREC" /\ Ins(u, h.id) = 1
  \/ h.ps = "WAIT_FOR_PUBCOMP" /\ Outs(s, h.id) = 1

(***************************************************************************)
(* The streams s to a client and u from it fit its handshakes H and the    *)
(* identifiers R it holds: one packet of each, and none of any other.      *)
(***************************************************************************)
Settled(H, s, u, R) ==
  /\ s \in Seq(OutFits(H)) /\ u \in Seq(InFits(H))
  /\ \A h \in H : Outs(s, h.id) + Ins(u, h.id) = 1
  /\ R = {h.id : h \in {g \in H : Half(g, s, u)}}

Distinct(H) == H \subseteq Handshake /\ \A g, h \in H : g.id = h.id => g = h

LEMMA OutOfType ==
  ASSUME NEW h \in Handshake
  PROVE  /\ OutOf(h) \in OutTokens /\ OutOf(h).pid = h.id
         /\ h.ps = "WAIT_FOR_PUBACK" => OutOf(h) = Publish(h.topic, 1, h.id)
         /\ h.ps = "WAIT_FOR_PUBREC" => OutOf(h) = Publish(h.topic, 2, h.id)
         /\ h.ps = "WAIT_FOR_PUBCOMP" => OutOf(h) = Ack("PUBREL", h.id)
<1>1. h.id \in PacketId /\ h.topic \in Name /\ h.ps \in Waits
  BY DEF Handshake
<1>2. CASE h.ps = "WAIT_FOR_PUBACK"
  <2>1. OutOf(h) = Publish(h.topic, 1, h.id)
    BY <1>2 DEF OutOf
  <2> QED BY <1>1, <1>2, <2>1 DEF Publish, Packet, OutTokens, Qos
<1>3. CASE h.ps = "WAIT_FOR_PUBREC"
  <2>1. OutOf(h) = Publish(h.topic, 2, h.id)
    BY <1>3 DEF OutOf
  <2> QED BY <1>1, <1>3, <2>1 DEF Publish, Packet, OutTokens, Qos
<1>4. CASE h.ps = "WAIT_FOR_PUBCOMP"
  <2>1. OutOf(h) = Ack("PUBREL", h.id)
    BY <1>4 DEF OutOf
  <2> QED BY <1>1, <1>4, <2>1 DEF Ack, Acks, Packet, OutTokens
<1> QED BY <1>1, <1>2, <1>3, <1>4 DEF Waits

LEMMA InOfType ==
  ASSUME NEW h \in Handshake
  PROVE  /\ InOf(h) \in InTokens /\ InOf(h).pid = h.id
         /\ h.ps = "WAIT_FOR_PUBACK" <=> InOf(h) = Ack("PUBACK", h.id)
         /\ h.ps = "WAIT_FOR_PUBREC" <=> InOf(h) = Ack("PUBREC", h.id)
         /\ h.ps = "WAIT_FOR_PUBCOMP" <=> InOf(h) = Ack("PUBCOMP", h.id)
<1>1. h.id \in PacketId /\ h.ps \in Waits
  BY DEF Handshake
<1>2. \A type \in {"PUBACK", "PUBREC", "PUBCOMP"} :
        Ack(type, h.id) \in InTokens /\ Ack(type, h.id).pid = h.id
  BY <1>1 DEF Ack, Acks, Packet, InTokens
<1>3. /\ Ack("PUBACK", h.id) # Ack("PUBREC", h.id)
      /\ Ack("PUBACK", h.id) # Ack("PUBCOMP", h.id)
      /\ Ack("PUBREC", h.id) # Ack("PUBCOMP", h.id)
  BY DEF Ack
<1> QED BY <1>1, <1>2, <1>3 DEF Waits, InOf

(* The numbers are natural, and no packet of an identifier is in a stream  *)
(* that fits handshakes without it.                                        *)
LEMMA TokensNat ==
  ASSUME NEW s \in Seq(Packet), NEW i
  PROVE  Outs(s, i) \in Nat /\ Ins(s, i) \in Nat
BY PositionsFinite DEF Outs, Ins

LEMMA FitsPacket ==
  ASSUME NEW H
  PROVE  /\ \A s \in Seq(OutFits(H)) : s \in Seq(Packet)
         /\ \A s \in Seq(InFits(H)) : s \in Seq(Packet)
<1>1. OutFits(H) \subseteq Packet /\ InFits(H) \subseteq Packet
  BY DEF OutFits, InFits
<1> QED BY <1>1, SeqMonotonic

LEMMA NoToken ==
  ASSUME NEW H, H \subseteq Handshake, NEW i, \A h \in H : h.id # i
  PROVE  /\ \A s \in Seq(OutFits(H)) : Outs(s, i) = 0
         /\ \A s \in Seq(InFits(H)) : Ins(s, i) = 0
<1>1. ASSUME NEW s \in Seq(OutFits(H)) PROVE Outs(s, i) = 0
  <2>1. \A k \in DOMAIN s : s[k] \in OutFits(H)
    BY ElementOfSeq, LenProperties
  <2>2. \A k \in DOMAIN s : ~ (s[k] \in OutTokens /\ s[k].pid = i)
    BY <2>1, OutOfType DEF OutFits
  <2>3. Positions(s, {p \in OutTokens : p.pid = i}) = {}
    BY <2>2 DEF Positions
  <2> QED BY <2>3, FS_EmptySet DEF Outs
<1>2. ASSUME NEW s \in Seq(InFits(H)) PROVE Ins(s, i) = 0
  <2>1. \A k \in DOMAIN s : s[k] \in InFits(H)
    BY ElementOfSeq, LenProperties
  <2>2. \A k \in DOMAIN s : ~ (s[k] \in InTokens /\ s[k].pid = i)
    BY <2>1, InOfType DEF InFits
  <2>3. Positions(s, {p \in InTokens : p.pid = i}) = {}
    BY <2>2 DEF Positions
  <2> QED BY <2>3, FS_EmptySet DEF Ins
<1> QED BY <1>1, <1>2

(* Fewer handshakes still fit if no packet of those that are gone is left; *)
(* more always do.                                                         *)
LEMMA FitsFewer ==
  ASSUME NEW H, NEW h, NEW G, H \subseteq Handshake, \A g \in H : g # h => g \in G
  PROVE  /\ \A s \in Seq(OutFits(H)) : Outs(s, h.id) = 0 => s \in Seq(OutFits(G))
         /\ \A s \in Seq(InFits(H)) : Ins(s, h.id) = 0 => s \in Seq(InFits(G))
<1>1. ASSUME NEW s \in Seq(OutFits(H)), Outs(s, h.id) = 0 PROVE s \in Seq(OutFits(G))
  <2>1. s \in Seq(Packet) /\ \A k \in DOMAIN s : s[k] \in OutFits(H)
    BY FitsPacket, ElementOfSeq, LenProperties
  <2>2. Positions(s, {p \in OutTokens : p.pid = h.id}) = {}
    BY <1>1, <2>1, PositionsFinite DEF Outs
  <2>3. \A k \in DOMAIN s : ~ (s[k] \in OutTokens /\ s[k].pid = h.id)
    BY <2>2 DEF Positions
  <2>4. \A k \in DOMAIN s : s[k] \in OutFits(G)
    BY <2>1, <2>3, OutOfType DEF OutFits
  <2> QED BY <2>1, <2>4, LenProperties, SeqDef
<1>2. ASSUME NEW s \in Seq(InFits(H)), Ins(s, h.id) = 0 PROVE s \in Seq(InFits(G))
  <2>1. s \in Seq(Packet) /\ \A k \in DOMAIN s : s[k] \in InFits(H)
    BY FitsPacket, ElementOfSeq, LenProperties
  <2>2. Positions(s, {p \in InTokens : p.pid = h.id}) = {}
    BY <1>2, <2>1, PositionsFinite DEF Ins
  <2>3. \A k \in DOMAIN s : ~ (s[k] \in InTokens /\ s[k].pid = h.id)
    BY <2>2 DEF Positions
  <2>4. \A k \in DOMAIN s : s[k] \in InFits(G)
    BY <2>1, <2>3, InOfType DEF InFits
  <2> QED BY <2>1, <2>4, LenProperties, SeqDef
<1> QED BY <1>1, <1>2

LEMMA FitsMore ==
  ASSUME NEW H, NEW G, H \subseteq G
  PROVE  /\ \A s \in Seq(OutFits(H)) : s \in Seq(OutFits(G))
         /\ \A s \in Seq(InFits(H)) : s \in Seq(InFits(G))
<1>1. OutFits(H) \subseteq OutFits(G) /\ InFits(H) \subseteq InFits(G)
  BY DEF OutFits, InFits
<1> QED BY <1>1, SeqMonotonic

LEMMA PutOut ==
  ASSUME NEW H, NEW s \in Seq(OutFits(H)), NEW e \in OutFits(H), NEW i
  PROVE  /\ s \o <<e>> \in Seq(OutFits(H))
         /\ e \in OutTokens /\ e.pid = i => Outs(s \o <<e>>, i) = Outs(s, i) + 1
         /\ ~ (e \in OutTokens /\ e.pid = i) => Outs(s \o <<e>>, i) = Outs(s, i)
<1> DEFINE S == {p \in OutTokens : p.pid = i}
           u == s \o <<e>>
<1>1. e \in S <=> e \in OutTokens /\ e.pid = i
  OBVIOUS
<1>2. Outs(s, i) = Cardinality(Positions(s, S)) /\ Outs(u, i) = Cardinality(Positions(u, S))
  BY DEF Outs
<1> HIDE DEF S
<1>3. /\ u \in Seq(OutFits(H))
      /\ Cardinality(Positions(u, S)) = Cardinality(Positions(s, S)) + IF e \in S THEN 1 ELSE 0
      /\ Cardinality(Positions(s, S)) \in Nat
  BY PutPositions, PositionsFinite
<1> HIDE DEF u
<1>4. /\ e \in S => Outs(u, i) = Outs(s, i) + 1
      /\ e \notin S => Outs(u, i) = Outs(s, i)
  BY <1>2, <1>3
<1> QED BY <1>1, <1>3, <1>4 DEF u

LEMMA PutIn ==
  ASSUME NEW H, NEW s \in Seq(InFits(H)), NEW e \in InFits(H), NEW i
  PROVE  /\ s \o <<e>> \in Seq(InFits(H))
         /\ e \in InTokens /\ e.pid = i => Ins(s \o <<e>>, i) = Ins(s, i) + 1
         /\ ~ (e \in InTokens /\ e.pid = i) => Ins(s \o <<e>>, i) = Ins(s, i)
<1> DEFINE S == {p \in InTokens : p.pid = i}
           u == s \o <<e>>
<1>1. e \in S <=> e \in InTokens /\ e.pid = i
  OBVIOUS
<1>2. Ins(s, i) = Cardinality(Positions(s, S)) /\ Ins(u, i) = Cardinality(Positions(u, S))
  BY DEF Ins
<1> HIDE DEF S
<1>3. /\ u \in Seq(InFits(H))
      /\ Cardinality(Positions(u, S)) = Cardinality(Positions(s, S)) + IF e \in S THEN 1 ELSE 0
      /\ Cardinality(Positions(s, S)) \in Nat
  BY PutPositions, PositionsFinite
<1> HIDE DEF u
<1>4. /\ e \in S => Ins(u, i) = Ins(s, i) + 1
      /\ e \notin S => Ins(u, i) = Ins(s, i)
  BY <1>2, <1>3
<1> QED BY <1>1, <1>3, <1>4 DEF u

LEMMA TailOut ==
  ASSUME NEW H, NEW s \in Seq(OutFits(H)), s # <<>>, NEW i
  PROVE  /\ Head(s) \in OutFits(H) /\ Tail(s) \in Seq(OutFits(H))
         /\ Head(s) \in OutTokens /\ Head(s).pid = i => Outs(s, i) = Outs(Tail(s), i) + 1
         /\ ~ (Head(s) \in OutTokens /\ Head(s).pid = i) => Outs(s, i) = Outs(Tail(s), i)
<1> DEFINE S == {p \in OutTokens : p.pid = i}
           e == Head(s)
           u == Tail(s)
<1>1. e \in S <=> e \in OutTokens /\ e.pid = i
  OBVIOUS
<1>2. Outs(s, i) = Cardinality(Positions(s, S)) /\ Outs(u, i) = Cardinality(Positions(u, S))
  BY DEF Outs
<1> HIDE DEF S
<1>3. /\ e \in OutFits(H) /\ u \in Seq(OutFits(H))
      /\ Cardinality(Positions(s, S)) = Cardinality(Positions(u, S)) + IF e \in S THEN 1 ELSE 0
  BY TailPositions
<1> HIDE DEF u, e
<1>4. Cardinality(Positions(u, S)) \in Nat
  BY <1>3, PositionsFinite
<1>5. /\ e \in S => Outs(s, i) = Outs(u, i) + 1
      /\ e \notin S => Outs(s, i) = Outs(u, i)
  BY <1>2, <1>3, <1>4
<1> QED BY <1>1, <1>3, <1>5 DEF u, e

LEMMA TailIn ==
  ASSUME NEW H, NEW s \in Seq(InFits(H)), s # <<>>, NEW i
  PROVE  /\ Head(s) \in InFits(H) /\ Tail(s) \in Seq(InFits(H))
         /\ Head(s) \in InTokens /\ Head(s).pid = i => Ins(s, i) = Ins(Tail(s), i) + 1
         /\ ~ (Head(s) \in InTokens /\ Head(s).pid = i) => Ins(s, i) = Ins(Tail(s), i)
<1> DEFINE S == {p \in InTokens : p.pid = i}
           e == Head(s)
           u == Tail(s)
<1>1. e \in S <=> e \in InTokens /\ e.pid = i
  OBVIOUS
<1>2. Ins(s, i) = Cardinality(Positions(s, S)) /\ Ins(u, i) = Cardinality(Positions(u, S))
  BY DEF Ins
<1> HIDE DEF S
<1>3. /\ e \in InFits(H) /\ u \in Seq(InFits(H))
      /\ Cardinality(Positions(s, S)) = Cardinality(Positions(u, S)) + IF e \in S THEN 1 ELSE 0
  BY TailPositions
<1> HIDE DEF u, e
<1>4. Cardinality(Positions(u, S)) \in Nat
  BY <1>3, PositionsFinite
<1>5. /\ e \in S => Ins(s, i) = Ins(u, i) + 1
      /\ e \notin S => Ins(s, i) = Ins(u, i)
  BY <1>2, <1>3, <1>4
<1> QED BY <1>1, <1>3, <1>5 DEF u, e

-----------------------------------------------------------------------------
(* What may happen to a connection keeps it settled                        *)

(* Stream s becomes v with packets that are in no handshake: one is put    *)
(* into it, or taken from it.                                              *)
OutQuiet(s, v) ==
  \/ v = s
  \/ \E e \in Packet \ OutTokens : v = s \o <<e>>
  \/ s # <<>> /\ Head(s) \notin OutTokens /\ v = Tail(s)

InQuiet(s, v) ==
  \/ v = s
  \/ \E e \in Packet \ InTokens : v = s \o <<e>>
  \/ s # <<>> /\ Head(s) \notin InTokens /\ v = Tail(s)

LEMMA OutQuietSame ==
  ASSUME NEW H, NEW s \in Seq(OutFits(H)), NEW v, OutQuiet(s, v)
  PROVE  v \in Seq(OutFits(H)) /\ \A i : Outs(v, i) = Outs(s, i)
<1>1. CASE \E e \in Packet \ OutTokens : v = s \o <<e>>
  <2>1. PICK e \in Packet \ OutTokens : v = s \o <<e>>
    BY <1>1
  <2>2. e \in OutFits(H)
    BY DEF OutFits
  <2> QED BY <2>1, <2>2, PutOut
<1>2. CASE s # <<>> /\ Head(s) \notin OutTokens /\ v = Tail(s)
  BY <1>2, TailOut
<1> QED BY <1>1, <1>2 DEF OutQuiet

LEMMA InQuietSame ==
  ASSUME NEW H, NEW s \in Seq(InFits(H)), NEW v, InQuiet(s, v)
  PROVE  v \in Seq(InFits(H)) /\ \A i : Ins(v, i) = Ins(s, i)
<1>1. CASE \E e \in Packet \ InTokens : v = s \o <<e>>
  <2>1. PICK e \in Packet \ InTokens : v = s \o <<e>>
    BY <1>1
  <2>2. e \in InFits(H)
    BY DEF InFits
  <2> QED BY <2>1, <2>2, PutIn
<1>2. CASE s # <<>> /\ Head(s) \notin InTokens /\ v = Tail(s)
  BY <1>2, TailIn
<1> QED BY <1>1, <1>2 DEF InQuiet

LEMMA SettledQuiet ==
  ASSUME NEW H, NEW s, NEW u, NEW R, Settled(H, s, u, R),
         NEW v, OutQuiet(s, v), NEW w, InQuiet(u, w)
  PROVE  Settled(H, v, w, R)
<1>1. /\ v \in Seq(OutFits(H)) /\ \A i : Outs(v, i) = Outs(s, i)
      /\ w \in Seq(InFits(H)) /\ \A i : Ins(w, i) = Ins(u, i)
  BY OutQuietSame, InQuietSame DEF Settled
<1>2. \A h \in H : Half(h, v, w) <=> Half(h, s, u)
  BY <1>1 DEF Half
<1> QED BY <1>1, <1>2 DEF Settled

(* The client takes a packet of handshake h and answers it.                *)
LEMMA SettledCrosses ==
  ASSUME NEW H, NEW s, NEW u, NEW R, Settled(H, s, u, R), Distinct(H),
         NEW h \in H, s # <<>>, Head(s) = OutOf(h),
         NEW R2,
         h.ps = "WAIT_FOR_PUBACK" => R2 = R,
         h.ps = "WAIT_FOR_PUBREC" => R2 = R \cup {h.id},
         h.ps = "WAIT_FOR_PUBCOMP" => R2 = R \ {h.id}
  PROVE  /\ Settled(H, Tail(s), u \o <<InOf(h)>>, R2)
         /\ h.ps = "WAIT_FOR_PUBREC" => h.id \notin R
<1> DEFINE v == Tail(s)
           e == InOf(h)
           w == u \o <<e>>
<1>1. /\ h \in Handshake /\ h.ps \in Waits
      /\ \A g \in H : g # h => g.id # h.id
      /\ s \in Seq(OutFits(H)) /\ u \in Seq(InFits(H))
      /\ \A g \in H : Outs(s, g.id) + Ins(u, g.id) = 1
  BY DEF Distinct, Settled, Handshake
<1>2. OutOf(h) \in OutTokens /\ OutOf(h).pid = h.id
  BY <1>1, OutOfType
<1>3. e \in InTokens /\ e.pid = h.id
  BY <1>1, InOfType
<1>4. e \in InFits(H)
  BY <1>3 DEF InFits, InTokens
<1> HIDE DEF e
<1>5. v \in Seq(OutFits(H)) /\ w \in Seq(InFits(H))
  BY <1>1, <1>4, TailOut, PutIn
<1>6. Outs(s, h.id) = Outs(v, h.id) + 1 /\ Ins(w, h.id) = Ins(u, h.id) + 1
  BY <1>1, <1>2, <1>3, <1>4, TailOut, PutIn
<1>7. \A g \in H : g # h => Outs(v, g.id) = Outs(s, g.id) /\ Ins(w, g.id) = Ins(u, g.id)
  BY <1>1, <1>2, <1>3, <1>4, TailOut, PutIn
<1>8. Outs(v, h.id) \in Nat /\ Ins(u, h.id) \in Nat
  BY <1>1, <1>5, FitsPacket, TokensNat
<1> HIDE DEF v, w
<1>9. Outs(s, h.id) = 1 /\ Ins(u, h.id) = 0 /\ Outs(v, h.id) = 0 /\ Ins(w, h.id) = 1
  BY <1>1, <1>6, <1>8
<1>10. \A g \in H : Outs(v, g.id) + Ins(w, g.id) = 1
  BY <1>1, <1>7, <1>9
<1>11. /\ \A g \in H : g # h => (Half(g, v, w) <=> Half(g, s, u))
       /\ Half(h, v, w) <=> h.ps = "WAIT_FOR_PUBREC"
       /\ Half(h, s, u) <=> h.ps = "WAIT_FOR_PUBCOMP"
  BY <1>7, <1>9 DEF Half
<1>12. /\ R = {g.id : g \in {k \in H : Half(k, s, u)}}
       /\ h.ps = "WAIT_FOR_PUBREC" => h.id \notin R
  BY <1>1, <1>11 DEF Settled
<1>13. R2 = {g.id : g \in {k \in H : Half(k, v, w)}}
  <2>1. CASE h.ps = "WAIT_FOR_PUBACK"
    BY <1>11, <1>12, <2>1
  <2>2. CASE h.ps = "WAIT_FOR_PUBREC"
    BY <1>11, <1>12, <2>2
  <2>3. CASE h.ps = "WAIT_FOR_PUBCOMP"
    BY <1>1, <1>11, <1>12, <2>3
  <2> QED BY <1>1, <2>1, <2>2, <2>3 DEF Waits
<1>14. Settled(H, v, w, R2)
  BY <1>5, <1>10, <1>13 DEF Settled
<1> QED BY <1>12, <1>14 DEF v, w, e

(* The broker takes the answer that ends handshake h.                      *)
LEMMA SettledEnds ==
  ASSUME NEW H, NEW s, NEW u, NEW R, Settled(H, s, u, R), Distinct(H),
         NEW h \in H, u # <<>>, Head(u) = InOf(h), h.ps # "WAIT_FOR_PUBREC"
  PROVE  Settled(H \ {h}, s, Tail(u), R)
<1> DEFINE w == Tail(u)
           G == H \ {h}
<1>1. /\ H \subseteq Handshake
      /\ \A g \in H : g # h => g.id # h.id
      /\ s \in Seq(OutFits(H)) /\ u \in Seq(InFits(H))
      /\ \A g \in H : Outs(s, g.id) + Ins(u, g.id) = 1
      /\ R = {g.id : g \in {k \in H : Half(k, s, u)}}
  BY DEF Distinct, Settled
<1>2. InOf(h) \in InTokens /\ InOf(h).pid = h.id
  BY <1>1, InOfType
<1>3. w \in Seq(InFits(H)) /\ Ins(u, h.id) = Ins(w, h.id) + 1
  BY <1>1, <1>2, TailIn
<1>4. \A g \in H : g # h => Ins(w, g.id) = Ins(u, g.id)
  BY <1>1, <1>2, TailIn
<1>5. Outs(s, h.id) \in Nat /\ Ins(w, h.id) \in Nat
  BY <1>1, <1>3, FitsPacket, TokensNat
<1> HIDE DEF w
<1>6. Outs(s, h.id) = 0 /\ Ins(w, h.id) = 0
  BY <1>1, <1>3, <1>5
<1>7. s \in Seq(OutFits(G)) /\ w \in Seq(InFits(G))
  <2>1. \A g \in H : g # h => g \in G
    OBVIOUS
  <2> HIDE DEF G
  <2> QED BY <1>1, <1>3, <1>6, <2>1, FitsFewer
<1>8. /\ \A g \in G : Half(g, s, w) <=> Half(g, s, u)
      /\ ~ Half(h, s, u)
  BY <1>4, <1>6 DEF Half
<1>9. R = {g.id : g \in {k \in G : Half(k, s, w)}}
  BY <1>1, <1>8
<1>10. \A g \in G : Outs(s, g.id) + Ins(w, g.id) = 1
  BY <1>1, <1>4
<1> QED BY <1>7, <1>9, <1>10 DEF Settled, w

(* The broker takes PUBREC for handshake h and sends PUBREL for g.         *)
LEMMA SettledTurns ==
  ASSUME NEW H, NEW s, NEW u, NEW R, Settled(H, s, u, R), Distinct(H),
         NEW h \in H, u # <<>>, Head(u) = InOf(h), h.ps = "WAIT_FOR_PUBREC",
         NEW g \in Handshake, g.id = h.id, g.ps = "WAIT_FOR_PUBCOMP"
  PROVE  Settled((H \ {h}) \cup {g}, s \o <<OutOf(g)>>, Tail(u), R)
<1> DEFINE w == Tail(u)
           G == (H \ {h}) \cup {g}
           e == OutOf(g)
           v == s \o <<e>>
<1>1. /\ H \subseteq Handshake
      /\ \A k \in H : k # h => k.id # h.id
      /\ s \in Seq(OutFits(H)) /\ u \in Seq(InFits(H))
      /\ \A k \in H : Outs(s, k.id) + Ins(u, k.id) = 1
      /\ R = {j.id : j \in {k \in H : Half(k, s, u)}}
  BY DEF Distinct, Settled
<1>2. InOf(h) \in InTokens /\ InOf(h).pid = h.id /\ e \in OutTokens /\ e.pid = h.id
  BY <1>1, InOfType, OutOfType
<1>3. w \in Seq(InFits(H)) /\ Ins(u, h.id) = Ins(w, h.id) + 1
  BY <1>1, <1>2, TailIn
<1>4. \A k \in H : k # h => Ins(w, k.id) = Ins(u, k.id)
  BY <1>1, <1>2, TailIn
<1>5. Outs(s, h.id) \in Nat /\ Ins(w, h.id) \in Nat
  BY <1>1, <1>3, FitsPacket, TokensNat
<1>6. Outs(s, h.id) = 0 /\ Ins(w, h.id) = 0 /\ Ins(u, h.id) = 1
  BY <1>1, <1>3, <1>5
<1> HIDE DEF w
<1>7. s \in Seq(OutFits(G)) /\ w \in Seq(InFits(G))
  <2>1. \A k \in H : k # h => k \in G
    OBVIOUS
  <2> HIDE DEF G
  <2> QED BY <1>1, <1>3, <1>6, <2>1, FitsFewer
<1>8. e \in OutFits(G)
  BY <1>2 DEF OutFits, OutTokens
<1>9. g \in G /\ \A k \in G : k = g \/ (k \in H /\ k # h)
  OBVIOUS
<1> HIDE DEF e, G
<1>10. v \in Seq(OutFits(G)) /\ Outs(v, h.id) = Outs(s, h.id) + 1
  BY <1>2, <1>7, <1>8, PutOut
<1>11. \A k \in H : k # h => Outs(v, k.id) = Outs(s, k.id)
  BY <1>1, <1>2, <1>7, <1>8, PutOut
<1> HIDE DEF v
<1>12. \A k \in G : Outs(v, k.id) + Ins(w, k.id) = 1
  BY <1>1, <1>4, <1>6, <1>9, <1>10, <1>11
<1>13. /\ \A k \in H : k # h => (Half(k, v, w) <=> Half(k, s, u))
       /\ Half(h, s, u) /\ Half(g, v, w)
  BY <1>4, <1>6, <1>10, <1>11 DEF Half
<1>14. R = {j.id : j \in {k \in G : Half(k, v, w)}}
  BY <1>1, <1>9, <1>13 DEF G
<1>15. Settled(G, v, w, R)
  BY <1>7, <1>10, <1>12, <1>14 DEF Settled
<1> QED BY <1>15 DEF G, v, w, e

(* The broker begins the handshakes N with identifiers that none of H has, *)
(* with the packets x.                                                     *)
LEMMA SettledBegins ==
  ASSUME NEW H, NEW s, NEW u, NEW R, Settled(H, s, u, R), Distinct(H),
         NEW N, N \subseteq Handshake, \A h \in H, g \in N : h.id # g.id,
         \A g \in N : g.ps # "WAIT_FOR_PUBCOMP",
         NEW x \in Seq(OutFits(N)),
         \A g \in N : Outs(x, g.id) = 1
  PROVE  Settled(H \cup N, s \o x, u, R)
<1> DEFINE G == H \cup N
           v == s \o x
<1>1. /\ H \subseteq Handshake
      /\ s \in Seq(OutFits(H)) /\ u \in Seq(InFits(H))
      /\ \A k \in H : Outs(s, k.id) + Ins(u, k.id) = 1
      /\ R = {j.id : j \in {k \in H : Half(k, s, u)}}
  BY DEF Distinct, Settled
<1>2. s \in Seq(OutFits(G)) /\ u \in Seq(InFits(G)) /\ x \in Seq(OutFits(G))
  <2>1. H \subseteq G /\ N \subseteq G
    OBVIOUS
  <2> HIDE DEF G
  <2> QED BY <1>1, <2>1, FitsMore
<1>3. v \in Seq(OutFits(G))
  BY <1>2, ConcatProperties
<1>4. \A i : Outs(v, i) = Outs(s, i) + Outs(x, i)
  <2> TAKE i
  <2> DEFINE S == {p \in OutTokens : p.pid = i}
  <2>1. /\ Outs(s, i) = Cardinality(Positions(s, S)) /\ Outs(x, i) = Cardinality(Positions(x, S))
        /\ Outs(v, i) = Cardinality(Positions(v, S))
    BY DEF Outs
  <2> HIDE DEF S, G
  <2> QED BY <1>2, <2>1, ConcatPositions
<1>5. /\ \A i : Outs(s, i) \in Nat /\ Ins(u, i) \in Nat /\ Outs(x, i) \in Nat
      /\ \A h \in H : Outs(x, h.id) = 0
      /\ \A g \in N : Outs(s, g.id) = 0 /\ Ins(u, g.id) = 0
  BY <1>1, FitsPacket, TokensNat, NoToken
<1> HIDE DEF v
<1>6. /\ \A h \in H : Outs(v, h.id) = Outs(s, h.id)
      /\ \A g \in N : Outs(v, g.id) = 1 /\ Ins(u, g.id) = 0
  BY <1>4, <1>5
<1>7. \A k \in G : Outs(v, k.id) + Ins(u, k.id) = 1
  BY <1>1, <1>6
<1>8. /\ \A h \in H : Half(h, v, u) <=> Half(h, s, u)
      /\ \A g \in N : ~ Half(g, v, u)
  BY <1>6 DEF Half
<1>9. R = {j.id : j \in {k \in G : Half(k, v, u)}}
  BY <1>1, <1>8
<1> QED BY <1>2, <1>3, <1>7, <1>9 DEF Settled, v

-----------------------------------------------------------------------------
(* Settled streams have the tokens of TokenPerHandshake                    *)

LEMMA HandshakesType ==
  ASSUME IInv, HInv, NEW c \in Client
  PROVE  /\ Handshakes(c) \subseteq Handshake
         /\ IdsDistinct => Distinct(Handshakes(c))
<1>1. \A p \in DOMAIN mq[c] :
        /\ mq[c][p] \in Entry /\ mq[c][p].ms \in DOMAIN store
        /\ store[mq[c][p].ms].topic \in Name
        /\ mq[c][p].packet_id = NoPid <=> mq[c][p].ps = "WAIT_TO_PUBLISH"
  <2>1. \A p \in DOMAIN mq[c] : mq[c][p] \in Entry
    BY DEF IInv, Agree, AreLists, IsList
  <2>2. \A p \in DOMAIN mq[c] : mq[c][p].ms \in DOMAIN store
    BY DEF IInv, Agree
  <2>3. \A m \in DOMAIN store : store[m].topic \in Name
    BY DEF IInv, Agree, IsStore, Message
  <2>4. \A p \in DOMAIN mq[c] : mq[c][p].packet_id = NoPid <=> mq[c][p].ps = "WAIT_TO_PUBLISH"
    BY DEF HInv, OutboundIsUnsent
  <2> QED BY <2>1, <2>2, <2>3, <2>4
<1>2. \A p \in Sending(c) : p \in DOMAIN mq[c] /\ mq[c][p].packet_id \in PacketId
  BY <1>1 DEF Sending, Waits, Entry
<1>3. Handshakes(c) \subseteq Handshake
  BY <1>1, <1>2 DEF Handshakes, HandshakeOf, Handshake, Sending
<1>4. ASSUME IdsDistinct, NEW g \in Handshakes(c), NEW h \in Handshakes(c), g.id = h.id
      PROVE  g = h
  <2>1. PICK p \in Sending(c) : g = HandshakeOf(c, p)
    BY DEF Handshakes
  <2>2. PICK r \in Sending(c) : h = HandshakeOf(c, r)
    BY DEF Handshakes
  <2>3. p = r
    BY <1>4, <2>1, <2>2 DEF HandshakeOf, IdsDistinct, Sending
  <2> QED BY <2>1, <2>2, <2>3
<1> QED BY <1>3, <1>4 DEF Distinct

LEMMA HandshakesTypeNext ==
  ASSUME IInv', HInv', NEW c \in Client
  PROVE  /\ Handshakes(c)' \subseteq Handshake
         /\ IdsDistinct' => Distinct(Handshakes(c)')
<1>1. \A p \in DOMAIN mq'[c] :
        /\ mq'[c][p] \in Entry /\ mq'[c][p].ms \in DOMAIN store'
        /\ store'[mq'[c][p].ms].topic \in Name
        /\ mq'[c][p].packet_id = NoPid <=> mq'[c][p].ps = "WAIT_TO_PUBLISH"
  <2>1. \A p \in DOMAIN mq'[c] : mq'[c][p] \in Entry
    BY DEF IInv, Agree, AreLists, IsList
  <2>2. \A p \in DOMAIN mq'[c] : mq'[c][p].ms \in DOMAIN store'
    BY DEF IInv, Agree
  <2>3. \A m \in DOMAIN store' : store'[m].topic \in Name
    BY DEF IInv, Agree, IsStore, Message
  <2>4. \A p \in DOMAIN mq'[c] : mq'[c][p].packet_id = NoPid <=> mq'[c][p].ps = "WAIT_TO_PUBLISH"
    BY DEF HInv, OutboundIsUnsent
  <2> QED BY <2>1, <2>2, <2>3, <2>4
<1>2. \A p \in Sending(c)' : p \in DOMAIN mq'[c] /\ mq'[c][p].packet_id \in PacketId
  BY <1>1 DEF Sending, Waits, Entry
<1>3. Handshakes(c)' \subseteq Handshake
  BY <1>1, <1>2 DEF Handshakes, HandshakeOf, Handshake, Sending
<1>4. ASSUME IdsDistinct', NEW g \in Handshakes(c)', NEW h \in Handshakes(c)', g.id = h.id
      PROVE  g = h
  <2>1. PICK p \in Sending(c)' : g = HandshakeOf(c, p)'
    BY DEF Handshakes
  <2>2. PICK r \in Sending(c)' : h = HandshakeOf(c, r)'
    BY DEF Handshakes
  <2>3. p = r
    BY <1>4, <2>1, <2>2 DEF HandshakeOf, IdsDistinct, Sending
  <2> QED BY <2>1, <2>2, <2>3 DEF HandshakeOf
<1> QED BY <1>3, <1>4 DEF Distinct

LEMMA TokenPositions ==
  ASSUME NEW H, Distinct(H), NEW h \in H
  PROVE  /\ \A s \in Seq(OutFits(H)) :
              /\ Cardinality(At(s, OutOf(h))) = Outs(s, h.id)
              /\ At(s, OutOf(h)) # {} <=> Outs(s, h.id) # 0
         /\ \A u \in Seq(InFits(H)) :
              /\ Cardinality(At(u, InOf(h))) = Ins(u, h.id)
              /\ At(u, InOf(h)) # {} <=> Ins(u, h.id) # 0
<1>1. /\ H \subseteq Handshake /\ h \in Handshake
      /\ \A g \in H : g.id = h.id => g = h
  BY DEF Distinct
<1>2. ASSUME NEW s \in Seq(OutFits(H))
      PROVE  /\ Cardinality(At(s, OutOf(h))) = Outs(s, h.id)
             /\ At(s, OutOf(h)) # {} <=> Outs(s, h.id) # 0
  <2>1. s \in Seq(Packet) /\ \A k \in DOMAIN s : s[k] \in OutFits(H)
    BY FitsPacket, ElementOfSeq, LenProperties
  <2>2. \A k \in DOMAIN s : s[k] \in OutTokens /\ s[k].pid = h.id <=> s[k] = OutOf(h)
    BY <1>1, <2>1, OutOfType DEF OutFits
  <2>3. At(s, OutOf(h)) = Positions(s, {p \in OutTokens : p.pid = h.id})
    BY <2>2 DEF At, Positions
  <2> QED BY <2>1, <2>3, PositionsFinite DEF Outs
<1>3. ASSUME NEW u \in Seq(InFits(H))
      PROVE  /\ Cardinality(At(u, InOf(h))) = Ins(u, h.id)
             /\ At(u, InOf(h)) # {} <=> Ins(u, h.id) # 0
  <2>1. u \in Seq(Packet) /\ \A k \in DOMAIN u : u[k] \in InFits(H)
    BY FitsPacket, ElementOfSeq, LenProperties
  <2>2. \A k \in DOMAIN u : u[k] \in InTokens /\ u[k].pid = h.id <=> u[k] = InOf(h)
    BY <1>1, <2>1, InOfType DEF InFits
  <2>3. At(u, InOf(h)) = Positions(u, {p \in InTokens : p.pid = h.id})
    BY <2>2 DEF At, Positions
  <2> QED BY <2>1, <2>3, PositionsFinite DEF Ins
<1> QED BY <1>2, <1>3

(* The connections that last are settled.                                  *)
SettledAt(c) == Settled(Handshakes(c), out[c], inp[c], receiving[c])

TInv ==
  /\ running => \A c \in Up : SettledAt(c)
  /\ ~ running => sessions = {}

LEMMA SettledTokens ==
  ASSUME IInv, HInv, IdsDistinct, NEW c \in Client, SettledAt(c)
  PROVE  /\ \A p \in DOMAIN mq[c] : OneToken(c, mq[c][p])
         /\ receiving[c] =
              {mq[c][p].packet_id : p \in {r \in DOMAIN mq[c] : HalfWay(c, mq[c][r])}}
<1> DEFINE H == Handshakes(c)
           s == out[c]
           u == inp[c]
           of(p) == HandshakeOf(c, p)
<1>1. H \subseteq Handshake /\ Distinct(H)
  BY HandshakesType
<1>2. /\ s \in Seq(OutFits(H)) /\ u \in Seq(InFits(H))
      /\ \A h \in H : Outs(s, h.id) + Ins(u, h.id) = 1
      /\ \A i : Outs(s, i) \in Nat /\ Ins(u, i) \in Nat
      /\ receiving[c] = {h.id : h \in {g \in H : Half(g, s, u)}}
  BY FitsPacket, TokensNat DEF Settled, SettledAt
<1>3. /\ \A p \in Sending(c) : of(p) \in H
      /\ \A h \in H : \E p \in Sending(c) : h = of(p)
  BY DEF Handshakes
<1>4. \A p \in Sending(c) :
        /\ of(p).ps = mq[c][p].ps /\ of(p).id = mq[c][p].packet_id
        /\ of(p).topic = store[mq[c][p].ms].topic
  BY DEF HandshakeOf
<1>5. \A p \in DOMAIN mq[c] :
        /\ mq[c][p].ps = "WAIT_FOR_PUBACK" => mq[c][p].qos = 1
        /\ mq[c][p].ps = "WAIT_FOR_PUBREC" => mq[c][p].qos = 2
  BY DEF HInv, HandshakeFitsQos
<1> HIDE DEF H, of
<1>6. ASSUME NEW p \in Sending(c)
      PROVE  /\ OneToken(c, mq[c][p])
             /\ HalfWay(c, mq[c][p]) <=> Half(of(p), s, u)
  <2> DEFINE h == of(p)
             e == mq[c][p]
  <2>1. /\ h \in H /\ h \in Handshake /\ h.ps = e.ps /\ h.id = e.packet_id
        /\ h.topic = store[e.ms].topic
        /\ e.ps = "WAIT_FOR_PUBACK" => e.qos = 1
        /\ e.ps = "WAIT_FOR_PUBREC" => e.qos = 2
    BY <1>1, <1>3, <1>4, <1>5 DEF Sending
  <2>2. /\ Cardinality(At(s, OutOf(h))) = Outs(s, h.id)
        /\ At(s, OutOf(h)) # {} <=> Outs(s, h.id) # 0
        /\ Cardinality(At(u, InOf(h))) = Ins(u, h.id)
        /\ At(u, InOf(h)) # {} <=> Ins(u, h.id) # 0
    BY <1>1, <1>2, <2>1, TokenPositions
  <2>3. Outs(s, h.id) + Ins(u, h.id) = 1 /\ Outs(s, h.id) \in Nat /\ Ins(u, h.id) \in Nat
    BY <1>2, <2>1
  <2>4. /\ h.ps = "WAIT_FOR_PUBACK" => OutOf(h) = Publish(h.topic, 1, h.id)
        /\ h.ps = "WAIT_FOR_PUBREC" => OutOf(h) = Publish(h.topic, 2, h.id)
        /\ h.ps = "WAIT_FOR_PUBCOMP" => OutOf(h) = Ack("PUBREL", h.id)
        /\ h.ps = "WAIT_FOR_PUBACK" <=> InOf(h) = Ack("PUBACK", h.id)
        /\ h.ps = "WAIT_FOR_PUBREC" <=> InOf(h) = Ack("PUBREC", h.id)
        /\ h.ps = "WAIT_FOR_PUBCOMP" <=> InOf(h) = Ack("PUBCOMP", h.id)
    BY <2>1, OutOfType, InOfType
  <2> HIDE DEF h, e
  <2>5. OneToken(c, e)
    BY <2>1, <2>2, <2>3, <2>4 DEF OneToken
  <2>6. HalfWay(c, e) <=> Half(h, s, u)
    BY <2>1, <2>2, <2>3, <2>4 DEF HalfWay, Half
  <2> QED BY <2>5, <2>6 DEF h, e
<1>7. ASSUME NEW p \in DOMAIN mq[c] \ Sending(c)
      PROVE  OneToken(c, mq[c][p]) /\ ~ HalfWay(c, mq[c][p])
  BY DEF OneToken, HalfWay, Sending, Waits
<1>8. receiving[c] =
        {mq[c][p].packet_id : p \in {r \in DOMAIN mq[c] : HalfWay(c, mq[c][r])}}
  <2>1. ASSUME NEW i, i \in receiving[c]
        PROVE  \E p \in DOMAIN mq[c] : HalfWay(c, mq[c][p]) /\ i = mq[c][p].packet_id
    <3>1. PICK h \in H : Half(h, s, u) /\ i = h.id
      BY <1>2, <2>1
    <3>2. PICK p \in Sending(c) : h = of(p)
      BY <1>3
    <3> QED BY <1>4, <1>6, <3>1, <3>2 DEF Sending
  <2>2. ASSUME NEW p \in DOMAIN mq[c], HalfWay(c, mq[c][p])
        PROVE  mq[c][p].packet_id \in receiving[c]
    <3>1. p \in Sending(c)
      BY <1>7, <2>2
    <3>2. of(p) \in H /\ Half(of(p), s, u) /\ of(p).id = mq[c][p].packet_id
      BY <1>3, <1>4, <1>6, <2>2, <3>1
    <3> QED BY <1>2, <3>2
  <2> QED BY <2>1, <2>2
<1>9. \A p \in DOMAIN mq[c] : OneToken(c, mq[c][p])
  BY <1>6, <1>7
<1> QED BY <1>8, <1>9

-----------------------------------------------------------------------------
(* What the steps of the broker do to the handshakes                       *)

LEMMA SameHandshake ==
  ASSUME IInv, IInv', TopicsKept, NEW d \in Client,
         NEW p \in DOMAIN mq[d] \cap DOMAIN mq'[d], mq'[d][p] = mq[d][p]
  PROVE  HandshakeOf(d, p)' = HandshakeOf(d, p)
<1>1. store'[mq'[d][p].ms].topic = store[mq[d][p].ms].topic
  BY TopicStays
<1> QED BY <1>1 DEF HandshakeOf

(* Entries L that are in no handshake leave the list, others may join.     *)
LEMMA KeepsHandshakes ==
  ASSUME IInv, IInv', TopicsKept, NEW d \in Client, NEW L,
         \A p \in DOMAIN mq[d] \cap L : mq[d][p].ps \notin Waits,
         \A p \in DOMAIN mq[d] \ L : p \in DOMAIN mq'[d] /\ mq'[d][p] = mq[d][p],
         \A p \in DOMAIN mq'[d] : p \in DOMAIN mq[d] \ L \/ mq'[d][p].ps \notin Waits
  PROVE  Handshakes(d)' = Handshakes(d)
<1>1. \A p : p \in Sending(d)' <=> p \in Sending(d)
  BY DEF Sending
<1>2. \A p \in Sending(d) : HandshakeOf(d, p)' = HandshakeOf(d, p)
  <2> TAKE p \in Sending(d)
  <2>1. p \in DOMAIN mq[d] \cap DOMAIN mq'[d] /\ mq'[d][p] = mq[d][p]
    BY DEF Sending
  <2> QED BY <2>1, SameHandshake
<1> QED BY <1>1, <1>2 DEF Handshakes

LEMMA WithOneHandshakes ==
  ASSUME IInv, IInv', TopicsKept, NEW d \in Client, NEW L, NEW m,
         \A p \in DOMAIN mq[d] \cap L : mq[d][p].ps \notin Waits,
         Without(mq[d], mq'[d], L) \/ WithOne(mq[d], mq'[d], L, m)
  PROVE  Handshakes(d)' = Handshakes(d)
<1>1. CASE Without(mq[d], mq'[d], L)
  BY <1>1, KeepsHandshakes DEF Without
<1>2. CASE WithOne(mq[d], mq'[d], L, m)
  <2>1. PICK p \in Rank \ DOMAIN mq[d], k \in Qos :
          /\ DOMAIN mq'[d] = (DOMAIN mq[d] \ L) \cup {p}
          /\ mq'[d][p] = Outgoing(m, k)
          /\ \A s \in DOMAIN mq[d] \ L : mq'[d][s] = mq[d][s]
    BY <1>2 DEF WithOne
  <2>2. mq'[d][p].ps \notin Waits
    BY <2>1 DEF Outgoing, Waits
  <2> QED BY <2>1, <2>2, KeepsHandshakes
<1> QED BY <1>1, <1>2

LEMMA HandlePublishHandshakes ==
  ASSUME IInv, IInv', TableOfHash, NEW c \in Client, NEW t \in Name, NEW q \in 0 .. 1,
         HandlePublish(c, t, q), running', NEW d \in Client
  PROVE  Handshakes(d)' = Handshakes(d)
<1>1. PICK m \in Msg :
        /\ TopicsKept
        /\ IF d \in subscribers THEN WithOne(mq[d], mq'[d], {}, m) ELSE mq'[d] = mq[d]
  BY HandlePublishLists
<1>2. Without(mq[d], mq'[d], {}) \/ WithOne(mq[d], mq'[d], {}, m)
  BY <1>1 DEF Without
<1> QED BY <1>1, <1>2, WithOneHandshakes

LEMMA HandlePublish2Handshakes ==
  ASSUME IInv, IInv', NEW c \in Client, NEW t \in Name, NEW pid,
         HandlePublish2(c, t, pid), NEW d \in Client
  PROVE  Handshakes(d)' = Handshakes(d)
<1>1. TopicsKept /\ \A e \in Client \ {c} : mq'[e] = mq[e]
  BY HandlePublish2Lists
<1>2. PICK m \in Msg, p \in Rank \ DOMAIN mq[c] :
        /\ DOMAIN mq'[c] = DOMAIN mq[c] \cup {p}
        /\ mq'[c][p] = Incoming(m, pid)
        /\ \A s \in DOMAIN mq[c] : mq'[c][s] = mq[c][s]
  BY HandlePublish2Lists
<1>3. mq'[c][p].ps \notin Waits
  BY <1>2 DEF Incoming, Waits
<1>4. CASE d = c
  BY <1>1, <1>2, <1>3, <1>4, KeepsHandshakes
<1>5. CASE d # c
  <2>1. Without(mq[d], mq'[d], {})
    BY <1>1, <1>5 DEF Without
  <2> QED BY <1>1, <2>1, WithOneHandshakes
<1> QED BY <1>4, <1>5

LEMMA HandlePubrelHandshakes ==
  ASSUME IInv, IInv', TableOfHash, NEW c \in Client, NEW pid,
         HandlePubrel(c, pid), running', NEW d \in Client
  PROVE  Handshakes(d)' = Handshakes(d)
<1>1. PICK p \in Waiting(mq[c], "WAIT_FOR_PUBREL", pid) :
        LET L == IF d = c THEN {p} ELSE {}
        IN  IF d \in subscribers THEN WithOne(mq[d], mq'[d], L, mq[c][p].ms)
                                 ELSE Without(mq[d], mq'[d], L)
  BY HandlePubrelLists
<1>2. TopicsKept
  BY HandlePubrelLists
<1> DEFINE L == IF d = c THEN {p} ELSE {}
<1>3. \A r \in DOMAIN mq[d] \cap L : mq[d][r].ps \notin Waits
  BY DEF Waiting, Waits
<1>4. Without(mq[d], mq'[d], L) \/ WithOne(mq[d], mq'[d], L, mq[c][p].ms)
  BY <1>1
<1> HIDE DEF L
<1> QED BY <1>2, <1>3, <1>4, WithOneHandshakes

(* The handshake of entry p ends.                                          *)
LEMMA AcknowledgeHandshakes ==
  ASSUME IInv, IInv', HInv, IdsDistinct, NEW c \in Client,
         NEW p \in Sending(c), Acknowledge(c, p)
  PROVE  /\ Handshakes(c)' = Handshakes(c) \ {HandshakeOf(c, p)}
         /\ \A d \in Client \ {c} : Handshakes(d)' = Handshakes(d)
<1>1. /\ TopicsKept /\ Without(mq[c], mq'[c], {p})
      /\ \A d \in Client \ {c} : mq'[d] = mq[d]
  BY AcknowledgeLists
<1>2. ASSUME NEW d \in Client \ {c} PROVE Handshakes(d)' = Handshakes(d)
  <2>1. Without(mq[d], mq'[d], {})
    BY <1>1 DEF Without
  <2> QED BY <1>1, <2>1, WithOneHandshakes
<1>3. \A r : r \in Sending(c)' <=> r \in Sending(c) /\ r # p
  BY <1>1 DEF Sending, Without
<1>4. \A r \in Sending(c) : r # p => HandshakeOf(c, r)' = HandshakeOf(c, r)
  <2> TAKE r \in Sending(c)
  <2>1. r # p => r \in DOMAIN mq[c] \cap DOMAIN mq'[c] /\ mq'[c][r] = mq[c][r]
    BY <1>1 DEF Sending, Without
  <2> QED BY <1>1, <2>1, SameHandshake
<1>5. \A r \in Sending(c) : HandshakeOf(c, r) = HandshakeOf(c, p) => r = p
  <2> TAKE r \in Sending(c)
  <2>1. HandshakeOf(c, r) = HandshakeOf(c, p) => mq[c][r].packet_id = mq[c][p].packet_id
    BY DEF HandshakeOf
  <2> QED BY <2>1 DEF IdsDistinct, Sending
<1>6. Handshakes(c)' = Handshakes(c) \ {HandshakeOf(c, p)}
  BY <1>3, <1>4, <1>5 DEF Handshakes
<1> QED BY <1>2, <1>6

(* The handshake of an entry turns from PUBREC to PUBCOMP.                 *)
LEMMA HandlePubrecHandshakes ==
  ASSUME IInv, IInv', HInv, HInv', IdsDistinct, NEW c \in Client, NEW pid,
         HandlePubrec(c, pid)
  PROVE  /\ \E h \in Handshakes(c), g \in Handshake :
              /\ h.ps = "WAIT_FOR_PUBREC" /\ h.id = pid
              /\ g.ps = "WAIT_FOR_PUBCOMP" /\ g.id = pid
              /\ Handshakes(c)' = (Handshakes(c) \ {h}) \cup {g}
         /\ \A d \in Client \ {c} : Handshakes(d)' = Handshakes(d)
<1>1. PICK p \in Waiting(mq[c], "WAIT_FOR_PUBREC", pid) :
        /\ DOMAIN mq'[c] = DOMAIN mq[c]
        /\ mq'[c][p] = [mq[c][p] EXCEPT !.ps = "WAIT_FOR_PUBCOMP", !.dir = "MD_IN"]
        /\ \A s \in DOMAIN mq[c] \ {p} : mq'[c][s] = mq[c][s]
  BY HandlePubrecLists
<1>2. TopicsKept /\ \A d \in Client \ {c} : mq'[d] = mq[d]
  BY HandlePubrecLists
<1>3. ASSUME NEW d \in Client \ {c} PROVE Handshakes(d)' = Handshakes(d)
  <2>1. Without(mq[d], mq'[d], {})
    BY <1>2 DEF Without
  <2> QED BY <1>2, <2>1, WithOneHandshakes
<1>4. /\ p \in DOMAIN mq[c] /\ mq[c][p].packet_id = pid /\ mq[c][p].ps = "WAIT_FOR_PUBREC"
      /\ mq[c][p] \in Entry
  BY DEF Waiting, IInv, Agree, AreLists, IsList
<1>5. /\ mq'[c][p].ps = "WAIT_FOR_PUBCOMP" /\ mq'[c][p].packet_id = pid
  BY <1>1, <1>4 DEF Entry
<1>6. p \in Sending(c) /\ \A r : r \in Sending(c)' <=> r \in Sending(c)
  BY <1>1, <1>4, <1>5 DEF Sending, Waits
<1>7. \A r \in Sending(c) : r # p => HandshakeOf(c, r)' = HandshakeOf(c, r)
  <2> TAKE r \in Sending(c)
  <2>1. r # p => r \in DOMAIN mq[c] \cap DOMAIN mq'[c] /\ mq'[c][r] = mq[c][r]
    BY <1>1 DEF Sending
  <2> QED BY <1>2, <2>1, SameHandshake
<1>8. \A r \in Sending(c) : HandshakeOf(c, r) = HandshakeOf(c, p) => r = p
  <2> TAKE r \in Sending(c)
  <2>1. HandshakeOf(c, r) = HandshakeOf(c, p) => mq[c][r].packet_id = mq[c][p].packet_id
    BY DEF HandshakeOf
  <2> QED BY <1>6, <2>1 DEF IdsDistinct, Sending
<1>9. Handshakes(c)' = (Handshakes(c) \ {HandshakeOf(c, p)}) \cup {HandshakeOf(c, p)'}
  BY <1>6, <1>7, <1>8 DEF Handshakes
<1>10. HandshakeOf(c, p)' \in Handshake
  <2>1. HandshakeOf(c, p)' \in Handshakes(c)'
    BY <1>6 DEF Handshakes
  <2>2. Handshakes(c)' \subseteq Handshake
    BY HandshakesTypeNext
  <2> QED BY <2>1, <2>2
<1>11. /\ HandshakeOf(c, p) \in Handshakes(c)
       /\ HandshakeOf(c, p).ps = "WAIT_FOR_PUBREC" /\ HandshakeOf(c, p).id = pid
       /\ HandshakeOf(c, p)'.ps = "WAIT_FOR_PUBCOMP" /\ HandshakeOf(c, p)'.id = pid
  BY <1>4, <1>5, <1>6 DEF Handshakes, HandshakeOf
<1> QED BY <1>3, <1>9, <1>10, <1>11

-----------------------------------------------------------------------------
(* The steps of the broker keep the connections settled                    *)

LEMMA StaysSettled ==
  ASSUME NEW c, SettledAt(c), Handshakes(c)' = Handshakes(c),
         OutQuiet(out[c], out'[c]), InQuiet(inp[c], inp'[c]),
         receiving'[c] = receiving[c]
  PROVE  SettledAt(c)'
<1>1. Settled(Handshakes(c), out'[c], inp'[c], receiving[c])
  BY SettledQuiet DEF SettledAt
<1> QED BY <1>1 DEF SettledAt

(* What acknowledges a handshake finds its entry.                          *)
LEMMA AnswerFits ==
  ASSUME NEW c \in Client, SettledAt(c), inp[c] # <<>>, Head(inp[c]) \in InTokens
  PROVE  Awaited(c, Head(inp[c])) # {}
<1> DEFINE p == Head(inp[c])
           H == Handshakes(c)
<1>1. inp[c] \in Seq(InFits(H))
  BY DEF SettledAt, Settled
<1>2. p \in InFits(H)
  BY <1>1, TailIn
<1>3. PICK r \in Sending(c) : p = InOf(HandshakeOf(c, r))
  BY <1>2 DEF InFits, Handshakes
<1> DEFINE h == HandshakeOf(c, r)
<1>4. /\ h.ps = mq[c][r].ps /\ h.id = mq[c][r].packet_id
      /\ r \in DOMAIN mq[c] /\ mq[c][r].ps \in Waits
  BY DEF HandshakeOf, Sending
<1> HIDE DEF h, p
<1>5. \/ h.ps = "WAIT_FOR_PUBACK" /\ p.type = "PUBACK" /\ p.pid = h.id
      \/ h.ps = "WAIT_FOR_PUBREC" /\ p.type = "PUBREC" /\ p.pid = h.id
      \/ h.ps = "WAIT_FOR_PUBCOMP" /\ p.type = "PUBCOMP" /\ p.pid = h.id
  BY <1>3, <1>4 DEF InOf, Ack, Waits, h
<1>6. r \in Awaited(c, p)
  BY <1>4, <1>5 DEF Awaited, Waiting
<1> QED BY <1>6 DEF p

(* An answer of the broker that is in no handshake.                        *)
LEMMA AnswerQuiet ==
  ASSUME XInv, NEW c \in Client, NEW e \in Packet \ OutTokens, Answer(c, e)
  PROVE  OutQuiet(out[c], out'[c])
<1>1. out \in [Client -> Seq(Packet)]
  BY DEF XInv, ExchangeTypeRest
<1>2. out'[c] = out[c] \/ out'[c] = out[c] \o <<e>>
  BY <1>1 DEF Answer, Put
<1> QED BY <1>2 DEF OutQuiet

(* The acknowledgement of entry r arrives, and ends its handshake.         *)
LEMMA AcknowledgeSettles ==
  ASSUME IInv, IInv', HInv, IdsDistinct, NEW c \in Client, SettledAt(c),
         NEW r \in Sending(c), Acknowledge(c, r), UNCHANGED out,
         inp[c] # <<>>, inp'[c] = Tail(inp[c]), receiving'[c] = receiving[c],
         mq[c][r].ps # "WAIT_FOR_PUBREC", Head(inp[c]) = InOf(HandshakeOf(c, r))
  PROVE  /\ SettledAt(c)'
         /\ \A d \in Client \ {c} : Handshakes(d)' = Handshakes(d)
<1> DEFINE h == HandshakeOf(c, r)
<1>1. /\ Handshakes(c)' = Handshakes(c) \ {h}
      /\ \A d \in Client \ {c} : Handshakes(d)' = Handshakes(d)
  BY AcknowledgeHandshakes
<1>2. h \in Handshakes(c) /\ h.ps # "WAIT_FOR_PUBREC" /\ Distinct(Handshakes(c))
  BY HandshakesType DEF Handshakes, HandshakeOf
<1> HIDE DEF h
<1>3. Settled(Handshakes(c) \ {h}, out[c], Tail(inp[c]), receiving[c])
  BY <1>2, SettledEnds DEF SettledAt, h
<1> QED BY <1>1, <1>3 DEF SettledAt

LEMMA PubrecSettles ==
  ASSUME IInv, IInv', HInv, HInv', XInv, IdsDistinct, NEW c \in Client, SettledAt(c),
         NEW pid, HandlePubrec(c, pid), closing' = NULL, Answer(c, Ack("PUBREL", pid)),
         inp[c] # <<>>, inp'[c] = Tail(inp[c]), receiving'[c] = receiving[c],
         Head(inp[c]) = Ack("PUBREC", pid)
  PROVE  SettledAt(c)'
<1>1. PICK h \in Handshakes(c), g \in Handshake :
        /\ h.ps = "WAIT_FOR_PUBREC" /\ h.id = pid
        /\ g.ps = "WAIT_FOR_PUBCOMP" /\ g.id = pid
        /\ Handshakes(c)' = (Handshakes(c) \ {h}) \cup {g}
  BY HandlePubrecHandshakes
<1>2. Distinct(Handshakes(c))
  BY HandshakesType
<1>3. InOf(h) = Ack("PUBREC", pid) /\ OutOf(g) = Ack("PUBREL", pid)
  BY <1>1 DEF InOf, OutOf
<1>4. out'[c] = out[c] \o <<OutOf(g)>>
  BY <1>3 DEF Answer, Put, XInv, ExchangeTypeRest, HandlePubrec, Serves, Idle
<1>5. Settled((Handshakes(c) \ {h}) \cup {g}, out[c] \o <<OutOf(g)>>, Tail(inp[c]), receiving[c])
  BY <1>1, <1>2, <1>3, SettledTurns DEF SettledAt
<1> QED BY <1>1, <1>4, <1>5 DEF SettledAt

(* The broker reads a packet: whoever has still a connection is settled.   *)
LEMMA ReadSettles ==
  ASSUME IInv, IInv', HInv, HInv', XInv, IdsDistinct, TInv,
         NEW c \in Client, BrokerReads(c), running'
  PROVE  \A d \in Up' : SettledAt(d)'
<1> DEFINE p == Head(inp[c])
           Goal == \A d \in Up' : SettledAt(d)'
<1> SUFFICES Goal
  OBVIOUS
<1>1. /\ Handle(c, p) /\ inp[c] # <<>> /\ running /\ closing = NULL /\ c \in sessions
      /\ UNCHANGED <<subscribers, receiving, pub>>
  BY DEF BrokerReads, Serves, Idle, clientVars
<1>2. inp'[c] = Tail(inp[c]) /\ \A d \in Client \ {c} : inp'[d] = inp[d]
  BY DEF BrokerReads, XInv, ExchangeTypeRest
<1>3. /\ sessions' = sessions /\ closing' \in {NULL, c}
      /\ \A d \in Client \ {c} : out'[d] = out[d]
  BY ReadFlow DEF Flow
<1>4. /\ sessions \subseteq Client /\ NULL \notin Client
      /\ Up = sessions /\ \A d \in sessions : SettledAt(d)
  BY <1>1, BrokerAssumption DEF IInv, TypeRest, Up, TInv
<1>5. /\ p \in Packet
      /\ p.type = "PUBLISH" => p.topic \in Name /\ p.qos \in Qos
      /\ p.type = "PUBLISH" /\ p.qos > 0 => p.pid = PidOf[p.topic] /\ p.pid \in PacketId
      /\ p.type \in Acks => p.pid \in PacketId
  <2>1. \A t \in Name : PidOf[t] \in PacketId
    BY ExchangeAssumption, BrokerAssumption
  <2> QED BY <1>1, <2>1, InboundType
<1>6. TableOfHash
  BY <1>1 DEF XInv
<1> HIDE DEF p, Goal
<1>7. \A d \in Up' : d \in sessions /\ (d = c => closing' = NULL)
  BY <1>1, <1>3 DEF Up
<1>8. ASSUME \A d \in Client \ {c} : Handshakes(d)' = Handshakes(d),
             closing' = NULL => SettledAt(c)'
      PROVE  Goal
  <2>1. ASSUME NEW d \in Up', d # c PROVE SettledAt(d)'
    <3>1. /\ d \in Client \ {c} /\ SettledAt(d) /\ receiving'[d] = receiving[d]
          /\ out'[d] = out[d] /\ inp'[d] = inp[d]
      BY <1>1, <1>2, <1>3, <1>4, <1>7, <2>1
    <3> QED BY <1>8, <3>1, StaysSettled DEF OutQuiet, InQuiet
  <2> QED BY <1>7, <1>8, <2>1 DEF Goal
<1>9. ASSUME \A d \in Client : Handshakes(d)' = Handshakes(d), p \notin InTokens,
             closing' = NULL => OutQuiet(out[c], out'[c])
      PROVE  Goal
  <2>1. InQuiet(inp[c], inp'[c])
    BY <1>1, <1>2, <1>9 DEF InQuiet, p
  <2>2. closing' = NULL => SettledAt(c)'
    BY <1>1, <1>4, <1>9, <2>1, StaysSettled
  <2> QED BY <1>8, <1>9, <2>2
<1>10. /\ p.type \notin {"PUBACK", "PUBREC", "PUBCOMP"} => p \notin InTokens
       /\ p.type \in {"PUBACK", "PUBREC", "PUBCOMP"} => p \in InTokens
  BY <1>5 DEF InTokens
<1>11. /\ \A type \in {"PUBACK", "PUBREC", "PUBCOMP"}, pid \in PacketId :
            Ack(type, pid) \in Packet \ OutTokens
       /\ [type |-> "CONNACK"] \in Packet \ OutTokens
  BY DEF Ack, Packet, Acks, OutTokens
<1>12. UNCHANGED <<mq, store>> => \A d \in Client : Handshakes(d)' = Handshakes(d)
  BY DEF Handshakes, HandshakeOf, Sending
<1>13. CASE p.type = "CONNECT" /\ HandleConnect(c, p.id) /\ Answer(c, [type |-> "CONNACK"])
  <2>1. \A d \in Client : Handshakes(d)' = Handshakes(d)
    BY <1>12, <1>13 DEF HandleConnect
  <2>2. OutQuiet(out[c], out'[c])
    BY <1>11, <1>13, AnswerQuiet
  <2> QED BY <1>9, <1>10, <1>13, <2>1, <2>2
<1>14. CASE /\ p.type = "PUBLISH"
            /\ \/ p.qos = 0 /\ HandlePublish(c, p.topic, 0) /\ UNCHANGED out
               \/ /\ p.qos = 1 /\ HandlePublish(c, p.topic, 1)
                  /\ Answer(c, Ack("PUBACK", p.pid))
  <2>1. \A d \in Client : Handshakes(d)' = Handshakes(d)
    BY <1>5, <1>6, <1>14, HandlePublishHandshakes
  <2>2. OutQuiet(out[c], out'[c])
    <3>1. CASE p.qos = 0
      BY <1>14, <3>1 DEF OutQuiet
    <3>2. CASE p.qos = 1 /\ Answer(c, Ack("PUBACK", p.pid))
      <4>1. Ack("PUBACK", p.pid) \in Packet \ OutTokens
        BY <1>5, <1>11, <1>14, <3>2
      <4> QED BY <3>2, <4>1, AnswerQuiet
    <3> QED BY <1>14, <3>1, <3>2
  <2> QED BY <1>9, <1>10, <1>14, <2>1, <2>2
<1>15. CASE /\ p.type = "PUBLISH" /\ p.qos = 2 /\ HandlePublish2(c, p.topic, p.pid)
            /\ Answer(c, Ack("PUBREC", p.pid))
  <2>1. \A d \in Client : Handshakes(d)' = Handshakes(d)
    BY <1>5, <1>15, HandlePublish2Handshakes
  <2>2. Ack("PUBREC", p.pid) \in Packet \ OutTokens
    BY <1>5, <1>11, <1>15
  <2>3. OutQuiet(out[c], out'[c])
    BY <1>15, <2>2, AnswerQuiet
  <2> QED BY <1>9, <1>10, <1>15, <2>1, <2>3
<1>16. CASE /\ p.type = "PUBREL" /\ HandlePubrel(c, p.pid)
            /\ Answer(c, Ack("PUBCOMP", p.pid))
  <2>1. \A d \in Client : Handshakes(d)' = Handshakes(d)
    BY <1>6, <1>16, HandlePubrelHandshakes
  <2>2. Ack("PUBCOMP", p.pid) \in Packet \ OutTokens
    BY <1>5, <1>11, <1>16 DEF Acks
  <2>3. OutQuiet(out[c], out'[c])
    BY <1>16, <2>2, AnswerQuiet
  <2> QED BY <1>9, <1>10, <1>16, <2>1, <2>3
<1>17. p.type \in Acks => p = Ack(p.type, p.pid)
  BY <1>5 DEF Packet, Ack, Acks
<1>18. CASE /\ p.type = "PUBREC" /\ HandlePubrec(c, p.pid)
            /\ Answer(c, Ack("PUBREL", p.pid))
  <2>1. \A d \in Client \ {c} : Handshakes(d)' = Handshakes(d)
    BY <1>18, HandlePubrecHandshakes
  <2>2. p = Ack("PUBREC", p.pid)
    BY <1>17, <1>18 DEF Acks
  <2>3. closing' = NULL => SettledAt(c)'
    BY <1>1, <1>2, <1>4, <1>18, <2>2, PubrecSettles DEF p
  <2> QED BY <1>8, <2>1, <2>3
<1>19. ASSUME NEW ps \in {"WAIT_FOR_PUBACK", "WAIT_FOR_PUBCOMP"},
              ps = "WAIT_FOR_PUBACK" => p.type = "PUBACK",
              ps = "WAIT_FOR_PUBCOMP" => p.type = "PUBCOMP",
              NEW r \in Rank, r \in Waiting(mq[c], ps, p.pid), Acknowledge(c, r),
              UNCHANGED out
       PROVE  Goal
  <2>1. r \in Sending(c) /\ mq[c][r].ps = ps /\ mq[c][r].packet_id = p.pid
    BY <1>19 DEF Waiting, Sending, Waits
  <2>2. p = InOf(HandshakeOf(c, r))
    BY <1>17, <1>19, <2>1 DEF InOf, HandshakeOf, Acks
  <2>3. receiving'[c] = receiving[c] /\ SettledAt(c) /\ mq[c][r].ps # "WAIT_FOR_PUBREC"
    BY <1>1, <1>4, <2>1
  <2>4. /\ SettledAt(c)'
        /\ \A d \in Client \ {c} : Handshakes(d)' = Handshakes(d)
    BY <1>1, <1>2, <1>19, <2>1, <2>2, <2>3, AcknowledgeSettles DEF p
  <2> QED BY <1>8, <2>4
<1>20. CASE p.type = "PUBACK" /\ HandlePuback(c, p.pid) /\ UNCHANGED out
  <2>1. PICK r \in Rank : r \in Waiting(mq[c], "WAIT_FOR_PUBACK", p.pid) /\ Acknowledge(c, r)
    BY <1>20 DEF HandlePuback, IsFirst
  <2> QED BY <1>19, <1>20, <2>1
<1>21. CASE p.type = "PUBCOMP" /\ HandlePubcomp(c, p.pid) /\ UNCHANGED out
  <2>1. PICK r \in Rank : r \in Waiting(mq[c], "WAIT_FOR_PUBCOMP", p.pid) /\ Acknowledge(c, r)
    BY <1>21 DEF HandlePubcomp, IsFirst
  <2> QED BY <1>19, <1>21, <2>1
<1>22. CASE p.type \in Acks /\ Awaited(c, p) = {} /\ UNCHANGED <<vars, out>>
  <2>1. p \notin InTokens
    BY <1>1, <1>4, <1>22, AnswerFits DEF p
  <2>2. \A d \in Client : Handshakes(d)' = Handshakes(d)
    BY <1>12, <1>22 DEF vars
  <2> QED BY <1>9, <1>22, <2>1, <2>2 DEF OutQuiet
<1> QED BY <1>1, <1>13, <1>14, <1>15, <1>16, <1>18, <1>20, <1>21, <1>22 DEF Handle

(* The entries written with QoS 1 or 2, and the handshakes they begin.     *)
Begun(c) == {p \in Taken(c) : mq[c][p].qos > 0}
Begins(c) == {HandshakeOf(c, p)' : p \in Begun(c)}

LEMMA WriteHandshakes ==
  ASSUME IInv, IInv', HInv, HInv', IdsDistinct', NEW c \in Client, WritePacket(c)
  PROVE  /\ Handshakes(c)' = Handshakes(c) \cup Begins(c) /\ Begins(c) \subseteq Handshake
         /\ \A h \in Handshakes(c), g \in Begins(c) : h.id # g.id
         /\ \A p \in Begun(c) :
              /\ mq'[c][p].ps \in {"WAIT_FOR_PUBACK", "WAIT_FOR_PUBREC"}
              /\ p \in Sending(c)' /\ PacketOf(c, p) = OutOf(HandshakeOf(c, p)')
         /\ \A d \in Client \ {c} : Handshakes(d)' = Handshakes(d)
<1> DEFINE P == Taken(c)
           A == Begun(c)
           N == Begins(c)
<1> USE DEF Begun, Begins
<1>1. /\ TopicsKept /\ \A d \in Client \ {c} : mq'[d] = mq[d]
      /\ DOMAIN mq'[c] = DOMAIN mq[c] \ {p \in P : mq[c][p].qos = 0}
      /\ \A p \in DOMAIN mq[c] \ P : mq'[c][p] = mq[c][p]
      /\ \A p \in P : mq[c][p].qos > 0 => \E id \in PacketId : mq'[c][p] = Sent(mq[c][p], id)
  BY WritePacketLists DEF Taken
<1>2. /\ \A p \in P : p \in DOMAIN mq[c] /\ mq[c][p].dir = "MD_OUT"
      /\ \A p \in DOMAIN mq[c] : mq[c][p] \in Entry
  BY DEF Taken, Outbound, IInv, Agree, AreLists, IsList
<1>3. \A p \in Sending(c) : p \in DOMAIN mq[c] \ P
  <2>1. \A p \in DOMAIN mq[c] : mq[c][p].dir = "MD_OUT" <=> mq[c][p].ps = "WAIT_TO_PUBLISH"
    BY DEF HInv, OutboundIsUnsent
  <2> QED BY <1>2, <2>1 DEF Sending, Waits
<1>4. ASSUME NEW p \in A
      PROVE  /\ p \in P /\ p \in DOMAIN mq[c] \cap DOMAIN mq'[c]
             /\ mq'[c][p].ms = mq[c][p].ms /\ mq'[c][p].packet_id \in PacketId
             /\ mq[c][p].qos = 1 => mq'[c][p].ps = "WAIT_FOR_PUBACK"
             /\ mq[c][p].qos = 2 => mq'[c][p].ps = "WAIT_FOR_PUBREC"
             /\ mq[c][p].qos \in {1, 2}
  <2>1. p \in P /\ p \in DOMAIN mq[c] /\ mq[c][p] \in Entry /\ mq[c][p].qos > 0
    BY <1>2
  <2>2. mq[c][p].qos \in {1, 2} /\ mq[c][p].qos # 0
    BY <2>1 DEF Entry, Qos
  <2>3. PICK id \in PacketId : mq'[c][p] = Sent(mq[c][p], id)
    BY <1>1, <2>1
  <2>4. p \in DOMAIN mq'[c]
    BY <1>1, <2>1, <2>2
  <2> QED BY <2>1, <2>2, <2>3, <2>4 DEF Sent, Entry
<1>5. \A p \in A : p \in Sending(c)'
  BY <1>4 DEF Sending, Waits
<1>6. \A p \in Sending(c) : p \in Sending(c)' /\ HandshakeOf(c, p)' = HandshakeOf(c, p)
  <2> TAKE p \in Sending(c)
  <2>1. p \in DOMAIN mq[c] /\ p \notin P /\ mq'[c][p] = mq[c][p] /\ p \in DOMAIN mq'[c]
    BY <1>1, <1>3
  <2> QED BY <1>1, <2>1, SameHandshake DEF Sending
<1>7. \A p \in Sending(c)' : p \in Sending(c) \/ p \in A
  <2> TAKE p \in Sending(c)'
  <2>1. p \in DOMAIN mq'[c] /\ mq'[c][p].ps \in Waits
    BY DEF Sending
  <2>2. p \in DOMAIN mq[c] /\ (p \in P => mq[c][p].qos # 0)
    BY <1>1, <2>1
  <2>3. CASE p \in P
    BY <1>2, <2>2, <2>3 DEF Entry, Qos
  <2>4. CASE p \notin P
    BY <1>1, <2>1, <2>2, <2>4 DEF Sending
  <2> QED BY <2>3, <2>4
<1>8. Handshakes(c)' = Handshakes(c) \cup N
  BY <1>5, <1>6, <1>7 DEF Handshakes
<1>9. N \subseteq Handshake
  BY <1>8, HandshakesTypeNext
<1>10. ASSUME NEW h \in Handshakes(c), NEW g \in N, h.id = g.id PROVE FALSE
  <2>1. PICK p \in Sending(c) : h = HandshakeOf(c, p)'
    BY <1>6 DEF Handshakes
  <2>2. PICK r \in A : g = HandshakeOf(c, r)'
    OBVIOUS
  <2>3. p \in Sending(c)' /\ r \in Sending(c)' /\ mq'[c][p].packet_id = mq'[c][r].packet_id
    BY <1>5, <1>6, <1>10, <2>1, <2>2 DEF HandshakeOf
  <2>4. p = r
    BY <2>3 DEF IdsDistinct, Sending
  <2> QED BY <1>3, <1>4, <2>4
<1>11. ASSUME NEW p \in A PROVE PacketOf(c, p) = OutOf(HandshakeOf(c, p)')
  <2>1. store'[mq'[c][p].ms].topic = store[mq[c][p].ms].topic
    BY <1>1, <1>4, TopicStays
  <2>2. PICK t : t = store[mq[c][p].ms].topic
    OBVIOUS
  <2>3. PICK id : id = mq'[c][p].packet_id
    OBVIOUS
  <2>4. PICK h : h = HandshakeOf(c, p)' /\ h = [ps |-> mq'[c][p].ps, id |-> id, topic |-> t]
    BY <2>1, <2>2, <2>3 DEF HandshakeOf
  <2>5. PacketOf(c, p) = Publish(t, mq[c][p].qos, id)
    BY <1>4, <2>2, <2>3 DEF PacketOf
  <2>6. OutOf(h) = Publish(t, mq[c][p].qos, id)
    BY <1>4, <2>4 DEF OutOf
  <2> QED BY <2>4, <2>5, <2>6
<1>12. ASSUME NEW d \in Client \ {c} PROVE Handshakes(d)' = Handshakes(d)
  <2>1. Without(mq[d], mq'[d], {})
    BY <1>1 DEF Without
  <2> QED BY <1>1, <2>1, WithOneHandshakes
<1> QED BY <1>4, <1>5, <1>8, <1>9, <1>10, <1>11, <1>12

(* What is written holds one packet of each handshake it begins.           *)
LEMMA WrittenTokens ==
  ASSUME IInv, IInv', HInv, HInv', XInv, IdsDistinct', NEW c \in Client, BrokerWrites(c),
         closing' = NULL
  PROVE  \E w \in Seq(OutFits(Begins(c))) :
           out'[c] = out[c] \o w /\ \A g \in Begins(c) : Outs(w, g.id) = 1
<1> DEFINE P == Taken(c)
           A == Begun(c)
           N == Begins(c)
           n == Cardinality(P)
<1>1. WritePacket(c)
  BY DEF BrokerWrites
<1>2. closing' # c /\ Wrote(c) = P
  BY BrokerAssumption DEF Wrote
<1>3. \A p \in P : PacketOf(c, p) \in ToClient(c)
  BY <1>2, WriteStreams
<1>4. PICK order \in Bijection(1 .. n, P), w \in Seq(ToClient(c)) :
        w = [i \in 1 .. n |-> PacketOf(c, order[i])] /\ out'[c] = out[c] \o w
  BY <1>2, WriteStreams
<1>5. /\ N \subseteq Handshake
      /\ \A p \in A : p \in Sending(c)' /\ PacketOf(c, p) = OutOf(HandshakeOf(c, p)')
  BY <1>1, WriteHandshakes
<1> HIDE DEF P, n
<1>6. /\ DOMAIN w = 1 .. n /\ \A i \in 1 .. n : w[i] = PacketOf(c, order[i])
      /\ \A i \in 1 .. n : order[i] \in P
      /\ \A i, j \in 1 .. n : order[i] = order[j] => i = j
      /\ \A p \in P : \E i \in 1 .. n : order[i] = p
  <2>1. DOMAIN w = 1 .. n /\ \A i \in 1 .. n : w[i] = PacketOf(c, order[i])
    BY <1>4
  <2>2. /\ \A i \in 1 .. n : order[i] \in P
        /\ \A i, j \in 1 .. n : order[i] = order[j] => i = j
        /\ \A p \in P : \E i \in 1 .. n : order[i] = p
    <3>1. order \in Bijection(1 .. n, P)
      BY <1>4
    <3> QED BY <3>1 DEF Bijection, Injection, Surjection, IsInjective
  <2> QED BY <2>1, <2>2
<1> USE DEF P, Begun, Begins
<1>7. \A p \in P : PacketOf(c, p) \in Packet
  BY <1>3 DEF ToClient
<1>8. \A p \in P \ A : PacketOf(c, p) \notin OutTokens
  <2> TAKE p \in P \ A
  <2>1. p \in DOMAIN mq[c] /\ mq[c][p] \in Entry
    BY DEF Taken, Outbound, IInv, Agree, AreLists, IsList
  <2>2. ~ (mq[c][p].qos > 0)
    OBVIOUS
  <2>3. PacketOf(c, p).qos = mq[c][p].qos /\ PacketOf(c, p).type = "PUBLISH"
    BY DEF PacketOf, Publish
  <2> QED BY <2>2, <2>3 DEF OutTokens
<1>9. \A p \in A : p \in P /\ HandshakeOf(c, p)' \in N
  OBVIOUS
<1> HIDE DEF P, A, N, Begun, Begins
<1>10. \A i \in 1 .. n : w[i] \in OutFits(N)
  <2> TAKE i \in 1 .. n
  <2>1. order[i] \in P /\ w[i] = PacketOf(c, order[i])
    BY <1>6
  <2>2. CASE order[i] \in A
    BY <1>5, <1>7, <1>9, <2>1, <2>2 DEF OutFits
  <2>3. CASE order[i] \notin A
    BY <1>7, <1>8, <2>1, <2>3 DEF OutFits
  <2> QED BY <2>2, <2>3
<1>11. w \in Seq(OutFits(N))
  <2>1. w \in Seq(ToClient(c))
    BY <1>4
  <2>2. \A i \in DOMAIN w : w[i] \in OutFits(N)
    BY <1>6, <1>10
  <2> HIDE DEF n
  <2> QED BY <2>1, <2>2, LenProperties, SeqDef
<1>12. ASSUME NEW g \in N PROVE Outs(w, g.id) = 1
  <2>1. PICK p \in A : g = HandshakeOf(c, p)'
    BY DEF A, N, Begins
  <2>2. PICK i \in 1 .. n : order[i] = p
    BY <1>6, <1>9, <2>1
  <2>3. g \in Handshake /\ w[i] = OutOf(g)
    BY <1>5, <1>6, <2>1, <2>2
  <2>4. w[i] \in OutTokens /\ w[i].pid = g.id
    BY <2>3, OutOfType
  <2>5. ASSUME NEW j \in 1 .. n, w[j] \in OutTokens, w[j].pid = g.id PROVE j = i
    <3>1. order[j] \in A
      BY <1>6, <1>8, <2>5
    <3>2. PICK r \in A : r = order[j]
      BY <3>1
    <3>3. PICK h \in Handshake : h = HandshakeOf(c, r)' /\ w[j] = OutOf(h)
      BY <1>5, <1>6, <1>9, <3>2
    <3>4. h.id = g.id
      BY <2>5, <3>3, OutOfType
    <3>5. mq'[c][r].packet_id = mq'[c][p].packet_id
      BY <2>1, <3>3, <3>4 DEF HandshakeOf
    <3>6. r = p
      BY <1>5, <3>5 DEF IdsDistinct, Sending
    <3> QED BY <1>6, <2>2, <3>2, <3>6
  <2>6. Positions(w, {q \in OutTokens : q.pid = g.id}) = {i}
    BY <1>6, <2>4, <2>5 DEF Positions
  <2> QED BY <2>6, FS_Singleton DEF Outs
<1> QED BY <1>4, <1>11, <1>12 DEF N

LEMMA WriteSettles ==
  ASSUME IInv, IInv', HInv, HInv', XInv, IdsDistinct, IdsDistinct', TInv,
         NEW c \in Client, BrokerWrites(c)
  PROVE  \A d \in Up' : SettledAt(d)'
<1> DEFINE N == Begins(c)
           H == Handshakes(c)
<1>1. /\ WritePacket(c) /\ UNCHANGED <<inp, receiving>>
      /\ running /\ closing = NULL /\ c \in sessions /\ sessions' = sessions
  BY DEF BrokerWrites, WritePacket, Serves, Idle, clientVars
<1>2. closing' \in {NULL, c} /\ \A d \in Client \ {c} : out'[d] = out[d]
  BY <1>1, WritePacketLists, WriteStreams
<1>3. /\ sessions \subseteq Client /\ NULL \notin Client
      /\ \A d \in sessions : SettledAt(d)
  BY <1>1, BrokerAssumption DEF IInv, TypeRest, Up, TInv
<1>4. /\ Handshakes(c)' = H \cup N /\ N \subseteq Handshake
      /\ \A h \in H, g \in N : h.id # g.id
      /\ \A p \in Begun(c) : mq'[c][p].ps \in {"WAIT_FOR_PUBACK", "WAIT_FOR_PUBREC"}
      /\ \A d \in Client \ {c} : Handshakes(d)' = Handshakes(d)
  BY <1>1, WriteHandshakes
<1>5. \A g \in N : g.ps # "WAIT_FOR_PUBCOMP"
  BY <1>4 DEF HandshakeOf, Begins
<1>6. closing' = NULL => \E w \in Seq(OutFits(N)) :
        out'[c] = out[c] \o w /\ \A g \in N : Outs(w, g.id) = 1
  BY WrittenTokens
<1>7. Distinct(H)
  BY HandshakesType
<1> HIDE DEF N, H
<1>8. ASSUME closing' = NULL PROVE SettledAt(c)'
  <2>1. PICK w \in Seq(OutFits(N)) : out'[c] = out[c] \o w /\ \A g \in N : Outs(w, g.id) = 1
    BY <1>6, <1>8
  <2>2. Settled(H, out[c], inp[c], receiving[c])
    BY <1>1, <1>3 DEF SettledAt, H
  <2>3. Settled(H \cup N, out[c] \o w, inp[c], receiving[c])
    BY <1>4, <1>5, <1>7, <2>1, <2>2, SettledBegins
  <2> QED BY <1>1, <1>4, <2>1, <2>3 DEF SettledAt
<1>9. ASSUME NEW d \in Up', d # c PROVE SettledAt(d)'
  <2>1. /\ d \in Client \ {c} /\ SettledAt(d) /\ receiving'[d] = receiving[d]
        /\ out'[d] = out[d] /\ inp'[d] = inp[d] /\ Handshakes(d)' = Handshakes(d)
    BY <1>1, <1>2, <1>3, <1>4, <1>9 DEF Up
  <2> QED BY <2>1, StaysSettled DEF OutQuiet, InQuiet
<1>10. \A d \in Up' : d = c => closing' = NULL
  BY <1>2 DEF Up
<1> QED BY <1>8, <1>9, <1>10

(* A connection fails, is given up, or is new: the others stay as they are.*)
LEMMA FailSettles ==
  ASSUME IInv, TInv, NEW c \in Client, ConnectionFails(c)
  PROVE  \A d \in Up' : SettledAt(d)'
<1>1. /\ running /\ closing = NULL /\ c \in sessions
      /\ UNCHANGED <<sessions, mq, store, inp, out, receiving>>
  BY DEF ConnectionFails, ReadFails, Serves, Idle, clientVars
<1>2. /\ sessions \subseteq Client /\ NULL \notin Client
      /\ \A d \in sessions : SettledAt(d)
  BY <1>1, BrokerAssumption DEF IInv, TypeRest, Up, TInv
<1>3. \A d \in Up' : d \in sessions
  BY <1>1 DEF Up
<1> QED BY <1>1, <1>2, <1>3 DEF SettledAt, Handshakes, HandshakeOf, Sending

LEMMA DisconnectSettles ==
  ASSUME IInv, IInv', XInv, TInv, NEW c \in Client, BrokerDisconnects(c)
  PROVE  \A d \in Up' : SettledAt(d)'
<1>1. /\ running /\ closing = c /\ sessions' = sessions \ {c} /\ TopicsKept
      /\ \A d \in Client \ {c} : mq'[d] = mq[d]
  BY DisconnectLists DEF BrokerDisconnects
<1>2. \A d \in Client \ {c} :
        inp'[d] = inp[d] /\ out'[d] = out[d] /\ receiving'[d] = receiving[d]
  BY DEF BrokerDisconnects, XInv, ExchangeTypeRest
<1>3. sessions \subseteq Client
  BY DEF IInv, TypeRest
<1>4. ASSUME NEW d \in Up' PROVE SettledAt(d)'
  <2>1. d \in Client \ {c} /\ d \in Up
    BY <1>1, <1>3 DEF Up
  <2>2. SettledAt(d)
    BY <1>1, <2>1 DEF TInv
  <2>3. Without(mq[d], mq'[d], {})
    BY <1>1, <2>1 DEF Without
  <2>4. Handshakes(d)' = Handshakes(d)
    BY <1>1, <2>1, <2>3, WithOneHandshakes
  <2> QED BY <1>2, <2>1, <2>2, <2>4, StaysSettled DEF OutQuiet, InQuiet
<1> QED BY <1>4

(* Who connects again begins with nothing on the way.                      *)
LEMMA ReconnectSettles ==
  ASSUME IInv, XInv, TInv, NEW c \in Client, Reconnect(c)
  PROVE  \A d \in Up' : SettledAt(d)'
<1>1. /\ running /\ closing = NULL /\ closing' = NULL /\ c \notin sessions
      /\ sessions' = sessions \cup {c} /\ mq' = [mq EXCEPT ![c] = EmptyList]
      /\ UNCHANGED <<store, out, receiving>>
  BY DEF Reconnect, Accept, Idle, clientVars
<1>2. PICK id \in ClientId : inp' = Put(inp, c, <<Connect(id)>>)
  BY DEF Reconnect
<1>3. /\ inp \in [Client -> Seq(Packet)] /\ DOMAIN mq = Client
      /\ inp[c] = <<>> /\ out[c] = <<>> /\ receiving[c] = {}
  BY <1>1 DEF XInv, ExchangeTypeRest, Away, IInv, Agree, AreLists
<1>4. /\ mq'[c] = EmptyList /\ \A d \in Client \ {c} : mq'[d] = mq[d] /\ inp'[d] = inp[d]
      /\ inp'[c] = inp[c] \o <<Connect(id)>>
  BY <1>1, <1>2, <1>3 DEF Put
<1>5. sessions \subseteq Client /\ NULL \notin Client /\ \A d \in sessions : SettledAt(d)
  BY <1>1, BrokerAssumption DEF IInv, TypeRest, Up, TInv
<1>6. ASSUME NEW d \in Up', d # c PROVE SettledAt(d)'
  <2>1. d \in sessions /\ d \in Client \ {c}
    BY <1>1, <1>5, <1>6 DEF Up
  <2>2. /\ mq'[d] = mq[d] /\ inp'[d] = inp[d] /\ out'[d] = out[d] /\ store' = store
        /\ receiving'[d] = receiving[d] /\ SettledAt(d)
    BY <1>1, <1>4, <1>5, <2>1
  <2>3. Handshakes(d)' = Handshakes(d)
    BY <2>2 DEF Handshakes, HandshakeOf, Sending
  <2> QED BY <2>2, <2>3 DEF SettledAt
<1>7. SettledAt(c)'
  <2>1. Handshakes(c)' = {}
    BY <1>4 DEF Handshakes, Sending, EmptyList
  <2>2. Connect(id) \in Packet \ InTokens
    BY DEF Connect, Packet, InTokens
  <2>3. Connect(id) \in InFits({})
    BY <2>2 DEF InFits
  <2>4. <<>> \in Seq(OutFits({})) /\ <<>> \in Seq(InFits({}))
    BY EmptySeq
  <2>5. inp'[c] \in Seq(InFits({}))
    BY <1>3, <1>4, <2>3, <2>4, PutIn
  <2> QED BY <1>1, <1>3, <2>1, <2>4, <2>5 DEF SettledAt, Settled
<1> QED BY <1>6, <1>7

(* A publisher sends a packet.                                             *)
LEMMA PutSettles ==
  ASSUME IInv, XInv, TInv, NEW b \in Client, NEW e \in Packet \ InTokens,
         UNCHANGED <<vars, out, receiving>>, inp' = Put(inp, b, <<e>>), running
  PROVE  \A d \in Up' : SettledAt(d)'
<1>1. UNCHANGED <<sessions, closing, mq, store>>
  BY DEF vars
<1>2. /\ inp'[b] = inp[b] \o <<e>> /\ \A d \in Client \ {b} : inp'[d] = inp[d]
  BY DEF XInv, ExchangeTypeRest, Put
<1>3. \A d \in Up' : d \in Up /\ d \in Client
  BY <1>1 DEF Up, IInv, TypeRest
<1>4. ASSUME NEW d \in Up' PROVE SettledAt(d)'
  <2>1. SettledAt(d) /\ Handshakes(d)' = Handshakes(d)
    BY <1>1, <1>3 DEF TInv, Handshakes, HandshakeOf, Sending
  <2>2. InQuiet(inp[d], inp'[d])
    BY <1>2, <1>3 DEF InQuiet
  <2> QED BY <2>1, <2>2, StaysSettled DEF OutQuiet
<1> QED BY <1>4

(* A client takes the next packet, and answers one of a handshake.  A new  *)
(* QoS 2 message never has an identifier the client still holds.           *)
LEMMA TakesSettles ==
  ASSUME IInv, HInv, XInv, IdsDistinct, NEW c \in Client, SettledAt(c), ClientReads(c)
  PROVE  /\ SettledAt(c)'
         /\ Head(out[c]).type = "PUBLISH" /\ Head(out[c]).qos = 2 =>
              Head(out[c]).pid \notin receiving[c]
<1> DEFINE p == Head(out[c])
           H == Handshakes(c)
           u == inp[c]
<1>1. /\ UNCHANGED <<mq, store>> /\ out[c] # <<>> /\ out' = [out EXCEPT ![c] = Tail(@)]
      /\ TakeAck(c, p) \/ TakePublish(c, p) \/ TakePubrel(c, p) \/ TakeConnack(p)
  BY DEF ClientReads, vars
<1>2. /\ out \in [Client -> Seq(Packet)] /\ inp \in [Client -> Seq(Packet)]
      /\ receiving \in [Client -> SUBSET PacketId]
  BY DEF XInv, ExchangeTypeRest
<1>3. out'[c] = Tail(out[c]) /\ Handshakes(c)' = H
  BY <1>1, <1>2 DEF Handshakes, HandshakeOf, Sending
<1>4. out[c] \in Seq(OutFits(H)) /\ Settled(H, out[c], u, receiving[c]) /\ Distinct(H)
  BY HandshakesType DEF SettledAt, Settled
<1>5. p \in OutFits(H) /\ p \in Packet
  BY <1>1, <1>4, TailOut DEF OutFits
<1>6. /\ p.type = "PUBLISH" => p.qos \in Qos
      /\ p.type \in Acks => p.pid \in PacketId
  BY <1>5 DEF Packet, Acks
<1> HIDE DEF p, H
<1>7. ASSUME p \notin OutTokens, InQuiet(u, inp'[c]), receiving'[c] = receiving[c]
      PROVE  SettledAt(c)'
  <2>1. OutQuiet(out[c], out'[c])
    BY <1>1, <1>3, <1>7 DEF OutQuiet, p
  <2> QED BY <1>3, <1>7, <2>1, StaysSettled DEF H
<1>8. ASSUME NEW h \in H, p = OutOf(h), inp'[c] = u \o <<InOf(h)>>,
             h.ps = "WAIT_FOR_PUBACK" => receiving'[c] = receiving[c],
             h.ps = "WAIT_FOR_PUBREC" => receiving'[c] = receiving[c] \cup {h.id},
             h.ps = "WAIT_FOR_PUBCOMP" => receiving'[c] = receiving[c] \ {h.id}
      PROVE  /\ SettledAt(c)'
             /\ h.ps = "WAIT_FOR_PUBREC" => h.id \notin receiving[c]
  <2>1. /\ Settled(H, Tail(out[c]), u \o <<InOf(h)>>, receiving'[c])
        /\ h.ps = "WAIT_FOR_PUBREC" => h.id \notin receiving[c]
    BY <1>1, <1>4, <1>8, SettledCrosses DEF p
  <2> QED BY <1>3, <1>8, <2>1 DEF SettledAt
<1>9. ASSUME p \in OutTokens
      PROVE  \E h \in H :
               /\ p = OutOf(h) /\ h.id = p.pid /\ h \in Handshake /\ h.ps \in Waits
               /\ p.type = "PUBREL" => h.ps = "WAIT_FOR_PUBCOMP"
               /\ p.type = "PUBLISH" /\ p.qos = 1 => h.ps = "WAIT_FOR_PUBACK"
               /\ p.type = "PUBLISH" /\ p.qos = 2 => h.ps = "WAIT_FOR_PUBREC"
  <2>1. PICK h \in H : p = OutOf(h)
    BY <1>5, <1>9 DEF OutFits
  <2>2. h \in Handshake /\ h.ps \in Waits
    BY <1>4 DEF Distinct, Handshake
  <2>3. p.pid = h.id
    BY <2>1, <2>2, OutOfType
  <2>4. \/ h.ps = "WAIT_FOR_PUBACK" /\ p.type = "PUBLISH" /\ p.qos = 1
        \/ h.ps = "WAIT_FOR_PUBREC" /\ p.type = "PUBLISH" /\ p.qos = 2
        \/ h.ps = "WAIT_FOR_PUBCOMP" /\ p.type = "PUBREL"
    BY <2>1, <2>2 DEF OutOf, Publish, Ack, Waits
  <2> QED BY <2>1, <2>2, <2>3, <2>4
<1>10. \A type \in {"PUBACK", "PUBREC", "PUBCOMP"} : p.type = type => p \notin OutTokens
  BY DEF OutTokens
<1>11. CASE TakeAck(c, p)
  <2>1. /\ p.type \in {"PUBACK", "PUBREC", "PUBCOMP"} /\ p.pid \in PacketId
        /\ receiving' = receiving
        /\ inp' = inp \/ inp' = Put(inp, c, <<Ack("PUBREL", p.pid)>>)
    BY <1>6, <1>11 DEF TakeAck, Acks
  <2>2. Ack("PUBREL", p.pid) \in Packet \ InTokens
    BY <2>1 DEF Ack, Packet, Acks, InTokens
  <2>3. inp'[c] = u \/ inp'[c] = u \o <<Ack("PUBREL", p.pid)>>
    BY <1>2, <2>1 DEF Put
  <2>4. InQuiet(u, inp'[c])
    BY <2>2, <2>3 DEF InQuiet
  <2> QED BY <1>7, <1>10, <2>1, <2>4 DEF p
<1>12. CASE TakePublish(c, p)
  <2>1. p.type = "PUBLISH" /\ p.qos \in {0, 1, 2}
    BY <1>6, <1>12 DEF TakePublish, Qos
  <2>2. CASE p.qos = 0
    <3>1. inp' = inp /\ receiving' = receiving
      BY <1>12, <2>2 DEF TakePublish
    <3>2. p \notin OutTokens
      BY <2>1, <2>2 DEF OutTokens
    <3> QED BY <1>7, <2>2, <3>1, <3>2 DEF InQuiet, p
  <2>3. CASE p.qos = 1
    <3>1. inp' = Put(inp, c, <<Ack("PUBACK", p.pid)>>) /\ receiving' = receiving
      BY <1>12, <2>3 DEF TakePublish
    <3>2. p \in OutTokens
      BY <1>5, <2>1, <2>3 DEF OutTokens
    <3>3. PICK h \in H : p = OutOf(h) /\ h.id = p.pid /\ h.ps = "WAIT_FOR_PUBACK"
      BY <1>9, <2>1, <2>3, <3>2
    <3>4. InOf(h) = Ack("PUBACK", p.pid)
      BY <3>3 DEF InOf
    <3>5. inp'[c] = u \o <<InOf(h)>>
      BY <1>2, <3>1, <3>4 DEF Put
    <3>6. SettledAt(c)'
      BY <1>8, <3>1, <3>3, <3>5
    <3> QED BY <2>3, <3>6 DEF p
  <2>4. CASE p.qos = 2
    <3>1. /\ inp' = Put(inp, c, <<Ack("PUBREC", p.pid)>>)
          /\ receiving' = [receiving EXCEPT ![c] = @ \cup {p.pid}]
      BY <1>12, <2>4 DEF TakePublish
    <3>2. p \in OutTokens
      BY <1>5, <2>1, <2>4 DEF OutTokens
    <3>3. PICK h \in H : p = OutOf(h) /\ h.id = p.pid /\ h.ps = "WAIT_FOR_PUBREC"
      BY <1>9, <2>1, <2>4, <3>2
    <3>4. InOf(h) = Ack("PUBREC", p.pid)
      BY <3>3 DEF InOf
    <3>5. inp'[c] = u \o <<InOf(h)>> /\ receiving'[c] = receiving[c] \cup {h.id}
      BY <1>2, <3>1, <3>3, <3>4 DEF Put
    <3>6. SettledAt(c)' /\ h.id \notin receiving[c]
      BY <1>8, <3>3, <3>5
    <3> QED BY <3>3, <3>6 DEF p
  <2> QED BY <2>1, <2>2, <2>3, <2>4
<1>13. CASE TakePubrel(c, p)
  <2>1. /\ p.type = "PUBREL" /\ inp' = Put(inp, c, <<Ack("PUBCOMP", p.pid)>>)
        /\ receiving' = [receiving EXCEPT ![c] = @ \ {p.pid}]
    BY <1>13 DEF TakePubrel
  <2>2. p \in OutTokens
    BY <1>5, <2>1 DEF OutTokens
  <2>3. PICK h \in H : p = OutOf(h) /\ h.id = p.pid /\ h.ps = "WAIT_FOR_PUBCOMP"
    BY <1>9, <2>1, <2>2
  <2>4. InOf(h) = Ack("PUBCOMP", p.pid)
    BY <2>3 DEF InOf
  <2>5. inp'[c] = u \o <<InOf(h)>> /\ receiving'[c] = receiving[c] \ {h.id}
    BY <1>2, <2>1, <2>3, <2>4 DEF Put
  <2>6. SettledAt(c)'
    BY <1>8, <2>3, <2>5
  <2> QED BY <2>1, <2>6 DEF p
<1>14. CASE TakeConnack(p)
  <2>1. p.type = "CONNACK" /\ inp' = inp /\ receiving' = receiving
    BY <1>14 DEF TakeConnack
  <2>2. p \notin OutTokens
    BY <2>1 DEF OutTokens
  <2> QED BY <1>7, <2>1, <2>2 DEF InQuiet, p
<1> QED BY <1>1, <1>11, <1>12, <1>13, <1>14

LEMMA ClientReadsSettles ==
  ASSUME IInv, HInv, XInv, IdsDistinct, TInv, NEW c \in Client, ClientReads(c)
  PROVE  \A d \in Up' : SettledAt(d)'
<1>1. /\ UNCHANGED <<sessions, closing, mq, store>> /\ running
      /\ \A d \in Client \ {c} : out'[d] = out[d]
  BY DEF ClientReads, vars, Connected, XInv, ExchangeTypeRest
<1>2. \A d \in Client \ {c} : inp'[d] = inp[d] /\ receiving'[d] = receiving[d]
  BY ClientAnswers, QuietStreams
<1>3. \A d \in Up' : d \in Up /\ d \in Client /\ SettledAt(d)
  BY <1>1 DEF Up, IInv, TypeRest, TInv
<1>4. ASSUME NEW d \in Up', d # c PROVE SettledAt(d)'
  <2>1. d \in Client \ {c} /\ SettledAt(d)
    BY <1>3, <1>4
  <2> QED BY <1>1, <1>2, <2>1 DEF SettledAt, Handshakes, HandshakeOf, Sending
<1>5. c \in Up' => SettledAt(c)'
  BY <1>3, TakesSettles
<1> QED BY <1>4, <1>5

-----------------------------------------------------------------------------
(* The theorems                                                            *)

LEMMA InitTInv == ExchangeInit => TInv
<1> SUFFICES ASSUME ExchangeInit PROVE TInv
  OBVIOUS
<1>1. running /\ sessions = Client
  BY DEF ExchangeInit
<1>2. ASSUME NEW c \in Client PROVE SettledAt(c)
  <2>1. mq[c] = EmptyList /\ inp[c] = <<>> /\ out[c] = <<>> /\ receiving[c] = {}
    BY DEF ExchangeInit
  <2>2. Handshakes(c) = {}
    BY <2>1 DEF Handshakes, Sending, EmptyList
  <2>3. <<>> \in Seq(OutFits({})) /\ <<>> \in Seq(InFits({}))
    BY EmptySeq
  <2> QED BY <2>1, <2>2, <2>3 DEF SettledAt, Settled
<1> QED BY <1>1, <1>2 DEF TInv, Up

(* Every step keeps the connections settled, while identifiers differ.     *)
LEMMA NextTInv ==
  ASSUME ExchangeInv, ExchangeInv', IdsDistinct, IdsDistinct', TInv,
         [ExchangeNext]_exchangeVars
  PROVE  TInv'
<1>1. IInv /\ HInv /\ XInv /\ IInv' /\ HInv' /\ XInv'
  BY DEF ExchangeInv
<1>2. ASSUME \A d \in Up' : SettledAt(d)', running' PROVE TInv'
  BY <1>2 DEF TInv
<1>3. ASSUME NEW c \in Client, BrokerReads(c) PROVE TInv'
  <2>1. CASE running'
    BY <1>1, <1>2, <1>3, <2>1, ReadSettles
  <2>2. CASE ~ running'
    BY <1>3, <2>2, ReadHalts DEF Halt, TInv
  <2> QED BY <2>1, <2>2
<1>4. ASSUME NEW c \in Client, BrokerWrites(c) PROVE TInv'
  <2>1. running'
    BY <1>4 DEF BrokerWrites, WritePacket, Serves, Idle
  <2> QED BY <1>1, <1>2, <1>4, <2>1, WriteSettles
<1>5. ASSUME NEW c \in Client, ConnectionFails(c) PROVE TInv'
  <2>1. running'
    BY <1>5 DEF ConnectionFails, ReadFails, Serves, Idle
  <2> QED BY <1>1, <1>2, <1>5, <2>1, FailSettles
<1>6. ASSUME NEW c \in Client, BrokerDisconnects(c) PROVE TInv'
  <2>1. running'
    BY <1>6 DEF BrokerDisconnects, Disconnect
  <2> QED BY <1>1, <1>2, <1>6, <2>1, DisconnectSettles
<1>7. ASSUME NEW c \in Client, Reconnect(c) PROVE TInv'
  <2>1. running'
    BY <1>7 DEF Reconnect, Accept, Idle
  <2> QED BY <1>1, <1>2, <1>7, <2>1, ReconnectSettles
<1>8. ASSUME NEW c \in Client, ClientReads(c) PROVE TInv'
  <2>1. running'
    BY <1>8 DEF ClientReads, Connected, vars
  <2> QED BY <1>1, <1>2, <1>8, <2>1, ClientReadsSettles
<1>9. \A t \in Name : PidOf[t] \in PacketId
  BY ExchangeAssumption, BrokerAssumption
<1>10. ASSUME NEW t \in Name, Sends(t) PROVE TInv'
  <2>1. /\ pub[t].by \in Client /\ running /\ running'
        /\ UNCHANGED <<vars, out, receiving>>
        /\ inp' = Put(inp, pub[t].by, <<PublishOf(t)>>)
    BY <1>1, <1>10 DEF Sends, Connected, vars, XInv, ExchangeTypeRest, Pub
  <2>2. PublishOf(t) \in Packet \ InTokens
    <3>1. pub[t].qos \in Qos
      BY <1>1 DEF XInv, ExchangeTypeRest, Pub
    <3> QED BY <1>9, <3>1 DEF PublishOf, Publish, Packet, InTokens
  <2> QED BY <1>1, <1>2, <2>1, <2>2, PutSettles
<1>11. ASSUME NEW t \in Name, ClientRepeats(t), pub[t].state = "PUBCOMP" PROVE TInv'
  <2>1. /\ pub[t].by \in Client /\ running /\ running'
        /\ UNCHANGED <<vars, out, receiving>>
        /\ inp' = Put(inp, pub[t].by, <<Ack("PUBREL", PidOf[t])>>)
    BY <1>1, <1>11 DEF ClientRepeats, Connected, vars, XInv, ExchangeTypeRest, Pub
  <2>2. Ack("PUBREL", PidOf[t]) \in Packet \ InTokens
    BY <1>9 DEF Ack, Packet, Acks, InTokens
  <2> QED BY <1>1, <1>2, <2>1, <2>2, PutSettles
<1>12. CASE UNCHANGED exchangeVars
  BY <1>12 DEF TInv, SettledAt, Handshakes, HandshakeOf, Sending, Up, exchangeVars, vars,
     clientVars
<1> QED BY <1>1, <1>3, <1>4, <1>5, <1>6, <1>7, <1>8, <1>10, <1>11, <1>12, PublishesSends
       DEF ExchangeNext

LEMMA TInvTokens ==
  ASSUME ExchangeInv, IdsDistinct, TInv
  PROVE  TokenPerHandshake
<1>1. IInv /\ HInv /\ sessions \subseteq Client
  BY DEF ExchangeInv, IInv, TypeRest
<1>2. \A c \in Up : c \in Client /\ SettledAt(c)
  BY <1>1 DEF TInv, Up
<1> QED BY <1>1, <1>2, SettledTokens DEF TokenPerHandshake

LEMMA SettledInvariant == ExchangeSpec /\ []IdsDistinct => []TInv
<1>1. ExchangeInit => TInv
  BY InitTInv
<1>2. /\ ExchangeInv /\ ExchangeInv' /\ IdsDistinct /\ IdsDistinct' /\ TInv
      /\ [ExchangeNext]_exchangeVars
      => TInv'
  BY NextTInv
<1> QED BY <1>1, <1>2, ExchangeInvariant, PTL DEF ExchangeSpec

(***************************************************************************)
(* As long as no two unacknowledged messages of one client have the same   *)
(* identifier, a handshake has exactly one packet on the way, and a client *)
(* holds the identifiers of the QoS 2 messages between PUBREC and PUBREL   *)
(* and no other (packet_handle.c:379-426, :571-593 and :695-754), for      *)
(* every number of clients, names, identifiers and entries.                *)
(***************************************************************************)
THEOREM OneTokenEach == ExchangeSpec /\ []IdsDistinct => []TokenPerHandshake
<1>1. ExchangeInv /\ IdsDistinct /\ TInv => TokenPerHandshake
  BY TInvTokens
<1> QED BY <1>1, ExchangeInvariant, SettledInvariant, PTL

-----------------------------------------------------------------------------
(* What the broker promises: the steps of Delivery                         *)

Transits == [c \in Client |-> [t \in Name |-> Transit(c, t)]]

(* Transits, and how its values change.                                    *)
LEMMA SameTransits ==
  ASSUME \A d \in Client, t \in Name : Transit(d, t)' = Transit(d, t)
  PROVE  Transits' = Transits
BY DEF Transits

LEMMA TransitsAt ==
  /\ \A d \in Client, t \in Name : Transits[d][t] = Transit(d, t)
  /\ \A d \in Client, t \in Name : Transits'[d][t] = Transit(d, t)'
BY DEF Transits

(* A step of the broker for c: its connection is lost, or nothing is.      *)
LEMMA FlowDelivers ==
  ASSUME IInv, IInv', XInv, NEW c \in Client, Flow(c), running, closing = NULL,
         c \in sessions
  PROVE  \/ D!Lose(c)
         \/ UNCHANGED <<subscribers, Up, Transits, delivered>>
<1>1. /\ sessions' = sessions /\ closing' \in {NULL, c}
      /\ UNCHANGED <<subscribers, delivered>>
  BY DEF Flow, clientVars
<1>2. ASSUME NEW d \in Client, NEW t \in Name
      PROVE  /\ Transit(d, t)' <= Transit(d, t)
             /\ closing' = NULL => Transit(d, t)' = Transit(d, t)
  BY FlowTransit, XInvStreams DEF XInv, ExchangeTypeRest
<1>3. CASE closing' = NULL
  <2>1. Transits' = Transits
    BY <1>2, <1>3, SameTransits
  <2> QED BY <1>1, <1>3, <2>1 DEF Up
<1>4. CASE closing' = c
  <2>1. c \in Up /\ Up' = Up \ {c}
    BY <1>1, <1>4, BrokerAssumption DEF Up, IInv, TypeRest
  <2>2. \A d \in Client, t \in Name : Transits'[d][t] <= Transits[d][t]
    BY <1>2, TransitsAt
  <2> QED BY <1>1, <2>1, <2>2 DEF D!Lose, Transits
<1> QED BY <1>1, <1>3, <1>4

LEMMA HaltDelivers ==
  ASSUME XInv, NEW c \in Client, BrokerReads(c), ~ running'
  PROVE  D!Stop
<1>1. Halt /\ UNCHANGED <<subscribers, delivered>>
  BY ReadHalts DEF clientVars
<1>2. \A d \in Client, t \in Name : Transit(d, t)' = 0
  BY HaltXInv
<1>3. Up' = {}
  BY <1>1 DEF Halt, Up
<1>4. Transits' = D!None
  BY <1>2 DEF Transits, D!None
<1> QED BY <1>1, <1>3, <1>4 DEF D!Stop, Transits

LEMMA DisconnectDelivers ==
  ASSUME IInv, IInv', XInv, NEW c \in Client, BrokerDisconnects(c)
  PROVE  D!Lose(c)
<1>1. \A d \in Client, t \in Name :
        Transit(d, t)' = IF d = c THEN 0 ELSE Transit(d, t)
  BY DisconnectXInv
<1>2. /\ closing = c /\ closing' = NULL /\ sessions' = sessions \ {c}
      /\ sessions \subseteq Client
      /\ UNCHANGED <<subscribers, delivered>>
  BY DisconnectLists DEF BrokerDisconnects, IInv, TypeRest
<1>3. Up' = Up \ {c} /\ c \notin Up
  BY <1>2, BrokerAssumption DEF Up
<1>4. \A d \in Client, t \in Name : Transit(d, t) \in Nat
  BY TransitNat
<1>5. \A d \in Client, t \in Name : Transits'[d][t] <= Transits[d][t]
  BY <1>1, <1>4, TransitsAt
<1>6. \A d \in Client \ {c} : Transits'[d] = Transits[d]
  BY <1>1 DEF Transits
<1> QED BY <1>2, <1>3, <1>5, <1>6 DEF D!Lose, Transits

LEMMA ReconnectDelivers ==
  ASSUME IInv, IInv', XInv, NEW c \in Client, Reconnect(c)
  PROVE  D!Return(c)
<1>1. \A d \in Client, t \in Name : Transit(d, t)' = Transit(d, t)
  BY ReconnectXInv
<1>2. /\ closing = NULL /\ closing' = NULL /\ c \notin sessions
      /\ sessions' = sessions \cup {c} /\ UNCHANGED <<subscribers, delivered>>
  BY DEF Reconnect, Accept, Idle, clientVars
<1>3. NULL \notin Client /\ sessions \subseteq Client
  BY BrokerAssumption DEF IInv, TypeRest
<1>4. Up' = Up \cup {c}
  BY <1>2, <1>3 DEF Up
<1>5. \A t \in Name : Transits[c][t] = 0
  BY <1>2, TransitsAt DEF Transit
<1>6. Transits' = Transits
  BY <1>1, SameTransits
<1> QED BY <1>2, <1>4, <1>5, <1>6 DEF D!Return, Transits

LEMMA SendsDelivers ==
  ASSUME IInv, XInv, NEW t \in Name, Sends(t)
  PROVE  D!Send(t) \/ UNCHANGED <<subscribers, Up, Transits, delivered>>
<1>1. /\ \A d \in Client, u \in Name \ {t} : Transit(d, u)' = Transit(d, u)
      /\ \A d \in Client :
           Transit(d, t)' = Transit(d, t)
             + IF d \in subscribers \cap Up /\ pub[t].by \in Up THEN 1 ELSE 0
  BY SendsXInv
<1>2. UNCHANGED <<subscribers, delivered, Up>>
  BY DEF Sends, vars, Up
<1>3. CASE pub[t].by \notin Up
  <2>1. \A d \in Client, u \in Name : Transit(d, u) \in Nat
    BY TransitNat
  <2>2. \A d \in Client, u \in Name : Transit(d, u)' = Transit(d, u)
    BY <1>1, <1>3, <2>1
  <2> QED BY <1>2, <2>2, SameTransits
<1>4. CASE pub[t].by \in Up
  <2>1. ASSUME NEW d \in Client
        PROVE  Transits'[d] = [Transits[d] EXCEPT
                 ![t] = @ + IF d \in subscribers \cap Up THEN 1 ELSE 0]
    <3> DEFINE x == IF d \in subscribers \cap Up THEN 1 ELSE 0
    <3>1. Transit(d, t)' = Transit(d, t) + x
      BY <1>1, <1>4
    <3> HIDE DEF x
    <3>2. /\ Transits[d] = [u \in Name |-> Transit(d, u)]
          /\ Transits'[d] = [u \in Name |-> Transit(d, u)']
      BY DEF Transits
    <3>3. Transits'[d] = [Transits[d] EXCEPT ![t] = @ + x]
      BY <1>1, <3>1, <3>2
    <3> QED BY <3>3 DEF x
  <2>2. Transits' = [d \in Client |-> [Transits[d] EXCEPT
                 ![t] = @ + IF d \in subscribers \cap Up THEN 1 ELSE 0]]
    BY <2>1 DEF Transits
  <2> QED BY <1>2, <2>2 DEF D!Send, Transits
<1> QED BY <1>3, <1>4

(* A client takes a copy, or drops one that its connection, which is about *)
(* to close, has brought it twice; other packets are none of Delivery's.   *)
LEMMA TakesDelivers ==
  ASSUME IInv, HInv, XInv, IdsDistinct, TInv, NEW c \in Client, ClientReads(c)
  PROVE  \/ D!Lose(c) \/ \E t \in Name : D!Deliver(c, t)
         \/ UNCHANGED <<subscribers, Up, Transits, delivered>>
<1> DEFINE p == Head(out[c])
<1>1. /\ running /\ c \in sessions /\ UNCHANGED <<subscribers, sessions, closing, Up>>
      /\ out[c] # <<>> /\ out' = [out EXCEPT ![c] = Tail(@)]
      /\ TakeAck(c, p) \/ TakePublish(c, p) \/ TakePubrel(c, p) \/ TakeConnack(p)
  BY DEF ClientReads, Connected, vars, Up
<1>2. out[c] \in Seq(ToClient(c)) /\ out[c] \in Seq(Packet)
  BY XInvStreams DEF OutboundStreams
<1>3. p \in ToClient(c) /\ p \in Packet
  BY <1>1, <1>2, HeadTailProperties DEF ToClient
<1>4. out' # out
  <2> DEFINE n == Len(out[c])
  <2>1. Len(Tail(out[c])) = n - 1 /\ n \in Nat /\ out'[c] = Tail(out[c])
    BY <1>1, <1>2, HeadTailProperties, LenProperties, XInvStreams DEF OutboundStreams
  <2>2. out' = out => Len(out'[c]) = n
    OBVIOUS
  <2> HIDE DEF n
  <2> QED BY <2>1, <2>2
<1>5. /\ p.type = "PUBLISH" => c \in subscribers /\ p.topic \in Name
      /\ delivered \in [Client -> [Name -> Nat]]
  BY <1>3 DEF ToClient, Packet, Acks, XInv, ExchangeTypeRest
<1>6. \A d \in Client, t \in Name :
        /\ Transit(d, t) \in Nat /\ Transit(d, t)' \in Nat
        /\ d = c /\ IsCopy(p, t) => Transit(d, t) = Transit(d, t)' + 1
        /\ ~ (d = c /\ IsCopy(p, t)) => Transit(d, t)' = Transit(d, t)
  <2>1. Quiet(c) /\ IInv' /\ XInv'
    <3>1. Quiet(c) /\ XInv'
      BY AnswersQuiet, QuietXInv
    <3>2. UNCHANGED <<running, sessions, client_id, packet_id_source, mq, store,
                      subtree, closing>>
      BY DEF ClientReads, vars
    <3> QED BY <3>1, <3>2 DEF IInv, TypeRest, Agree, AreLists, IsStore, UnusedEmpty, References
  <2>2. \A d \in Client, t \in Name :
          Transit(d, t) = Transit(d, t)' + IF /\ d = c /\ out' # out /\ IsCopy(p, t)
                                              /\ c \in subscribers
                                           THEN 1 ELSE 0
    BY <2>1, QuietXInv
  <2>3. \A d \in Client, t \in Name : Transit(d, t) \in Nat /\ Transit(d, t)' \in Nat
    BY <2>1, TransitNat, TransitNatNext
  <2>4. \A t \in Name : IsCopy(p, t) => c \in subscribers
    BY <1>5 DEF IsCopy
  <2> HIDE DEF p
  <2> QED BY <1>4, <2>2, <2>3, <2>4
<1>7. c \in Up /\ p.type = "PUBLISH" /\ p.qos = 2 => p.pid \notin receiving[c]
  <2>1. c \in Up => SettledAt(c)
    BY <1>1 DEF TInv
  <2> QED BY <2>1, TakesSettles
<1> HIDE DEF p
<1>8. ASSUME ~ TakePublish(c, p) PROVE UNCHANGED <<subscribers, Up, Transits, delivered>>
  <2>1. p.type # "PUBLISH" /\ delivered' = delivered
    BY <1>1, <1>8 DEF TakeAck, TakePubrel, TakeConnack
  <2>2. \A d \in Client, t \in Name : Transit(d, t)' = Transit(d, t)
    BY <1>6, <2>1 DEF IsCopy
  <2> QED BY <1>1, <2>1, <2>2, SameTransits
<1>9. CASE TakePublish(c, p)
  <2>1. p.type = "PUBLISH"
    BY <1>9 DEF TakePublish
  <2>2. PICK t \in Name : t = p.topic
    BY <1>5, <2>1
  <2>3. \A u \in Name : IsCopy(p, u) <=> u = t
    BY <2>1, <2>2 DEF IsCopy
  <2>4. CASE p.qos = 2 /\ p.pid \in receiving[c]
    <3>1. c \notin Up /\ delivered' = delivered
      BY <1>7, <1>9, <2>1, <2>4 DEF TakePublish
    <3>2. \A d \in Client, u \in Name : Transit(d, u)' <= Transit(d, u)
      BY <1>6
    <3>3. \A d \in Client, u \in Name : Transits'[d][u] <= Transits[d][u]
      BY <3>2, TransitsAt
    <3>4. \A d \in Client \ {c} : Transits'[d] = Transits[d]
      BY <1>6 DEF Transits
    <3>5. Up' = Up \ {c}
      BY <1>1, <3>1
    <3> QED BY <1>1, <3>1, <3>3, <3>4, <3>5 DEF D!Lose, Transits
  <2>5. CASE ~ (p.qos = 2 /\ p.pid \in receiving[c])
    <3>1. delivered' = [delivered EXCEPT ![c][t] = @ + 1]
      BY <1>9, <2>2, <2>5 DEF TakePublish
    <3>2. Transits[c][t] > 0
      <4>1. Transit(c, t) = Transit(c, t)' + 1 /\ Transit(c, t)' \in Nat
        BY <1>6, <2>3
      <4>2. Transit(c, t) > 0
        BY <4>1
      <4> QED BY <4>2, TransitsAt
    <3>3. Transits' = [Transits EXCEPT ![c][t] = @ - 1]
      <4>1. \A d \in Client \ {c} : Transits'[d] = Transits[d]
        BY <1>6 DEF Transits
      <4>2. /\ Transits[c] = [u \in Name |-> Transit(c, u)]
            /\ Transits'[c] = [u \in Name |-> Transit(c, u)']
        BY DEF Transits
      <4>3. /\ Transit(c, t)' = Transit(c, t) - 1
            /\ \A u \in Name \ {t} : Transit(c, u)' = Transit(c, u)
        <5>1. Transit(c, t) = Transit(c, t)' + 1 /\ Transit(c, t)' \in Nat
          BY <1>6, <2>3
        <5>2. \A u \in Name \ {t} : Transit(c, u)' = Transit(c, u)
          BY <1>6, <2>3
        <5> QED BY <5>1, <5>2
      <4>4. Transits'[c] = [Transits[c] EXCEPT ![t] = @ - 1]
        BY <4>2, <4>3
      <4>5. /\ Transits' = [d \in Client |-> Transits'[d]]
            /\ Transits = [d \in Client |-> Transits[d]]
        BY DEF Transits
      <4> QED BY <4>1, <4>4, <4>5
    <3>4. D!Deliver(c, t)
      BY <1>1, <3>1, <3>2, <3>3 DEF D!Deliver, Transits
    <3> QED BY <3>4
  <2> QED BY <2>4, <2>5
<1> QED BY <1>8, <1>9

LEMMA InitDelivers ==
  ASSUME ExchangeInit
  PROVE  D!Init
<1>1. \A c \in Client, t \in Name : Transit(c, t) = 0
  <2> TAKE c \in Client, t \in Name
  <2>1. \A d \in Client : inp[d] = <<>> /\ out[d] = <<>> /\ DOMAIN mq[d] = {}
    BY DEF ExchangeInit, EmptyList
  <2>2. \A d \in Client : /\ Publishes(inp[d], t) = {} /\ Publishes(out[d], t) = {}
                          /\ \A ps : Entries(d, ps, t) = {}
    BY <2>1 DEF Publishes, Entries
  <2>3. \A d \in Client : Published(d, t) = 0 /\ Queued(d, t) = 0 /\ Written(d, t) = 0
    BY <2>2, FS_EmptySet DEF Published, Queued, Written
  <2>4. pub[t].by \in Client
    BY InitXInv DEF XInv, ExchangeTypeRest, Pub
  <2> QED BY <2>3, <2>4 DEF Transit
<1>2. Transits = D!None
  BY <1>1 DEF Transits, D!None
<1>3. delivered = D!None /\ subscribers \subseteq Client
  BY DEF ExchangeInit, D!None
<1>4. Up = Client
  BY BrokerAssumption DEF ExchangeInit, Up
<1> QED BY <1>2, <1>3, <1>4 DEF D!Init, Transits

LEMMA NextDelivers ==
  ASSUME ExchangeInv, ExchangeInv', IdsDistinct, TInv, [ExchangeNext]_exchangeVars
  PROVE  D!Next \/ UNCHANGED <<subscribers, Up, Transits, delivered>>
<1> DEFINE Same == UNCHANGED <<subscribers, Up, Transits, delivered>>
<1>1. IInv /\ HInv /\ XInv /\ IInv' /\ XInv'
  BY DEF ExchangeInv
<1>2. ASSUME NEW c \in Client,
             (Flow(c) /\ Serves(c)) \/ BrokerDisconnects(c) \/ Reconnect(c)
      PROVE  D!Lose(c) \/ D!Return(c) \/ Same
  BY <1>1, <1>2, FlowDelivers, DisconnectDelivers, ReconnectDelivers DEF Serves, Idle
<1>3. ASSUME NEW c \in Client,
             BrokerReads(c) \/ BrokerWrites(c) \/ ConnectionFails(c)
      PROVE  D!Stop \/ (Flow(c) /\ Serves(c))
  <2>1. Serves(c)
    BY <1>3 DEF BrokerReads, BrokerWrites, WritePacket, ConnectionFails, ReadFails
  <2>2. BrokerReads(c) => D!Stop \/ Flow(c)
    BY <1>1, ReadFlow, HaltDelivers
  <2>3. BrokerWrites(c) \/ ConnectionFails(c) => Flow(c)
    BY <1>1, WriteFlow, FailFlow
  <2> QED BY <1>3, <2>1, <2>2, <2>3, SMTT(30)
<1>4. ASSUME NEW c \in Client, ClientReads(c)
      PROVE  D!Lose(c) \/ (\E t \in Name : D!Deliver(c, t)) \/ Same
  BY <1>1, <1>4, TakesDelivers
<1>5. ASSUME NEW t \in Name, Sends(t) PROVE D!Send(t) \/ Same
  BY <1>1, <1>5, SendsDelivers
<1>6. ASSUME NEW t \in Name, ClientRepeats(t), pub[t].state = "PUBCOMP"
      PROVE  Same
  <2>1. pub[t].by \in Client
    BY <1>1 DEF XInv, ExchangeTypeRest, Pub
  <2>2. Quiet(pub[t].by) /\ UNCHANGED <<pub, out, receiving, delivered>>
    BY <1>1, <1>6, AnswersQuiet
  <2>3. \A d \in Client, u \in Name :
          Transit(d, u) = Transit(d, u)' + 0 /\ Transit(d, u)' \in Nat
    BY <1>1, <2>1, <2>2, QuietXInv, TransitNatNext
  <2>4. \A d \in Client, u \in Name : Transit(d, u)' = Transit(d, u)
    BY <2>3
  <2>5. UNCHANGED <<subscribers, Up>>
    BY <1>6 DEF ClientRepeats, vars, Up
  <2> QED BY <2>2, <2>4, <2>5, SameTransits
<1>7. CASE UNCHANGED exchangeVars
  BY <1>7 DEF exchangeVars, vars, clientVars, Up, Transits, Transit, Published, Queued,
       Written, Entries, Publishes
<1> HIDE DEF Same
<1>8. CASE ExchangeNext
  <2>1. CASE \E c \in Client :
               \/ BrokerReads(c) \/ BrokerWrites(c) \/ ConnectionFails(c)
               \/ BrokerDisconnects(c) \/ Reconnect(c) \/ ClientReads(c)
    <3>1. PICK c \in Client :
            \/ BrokerReads(c) \/ BrokerWrites(c) \/ ConnectionFails(c)
            \/ BrokerDisconnects(c) \/ Reconnect(c) \/ ClientReads(c)
      BY <2>1
    <3>2. \/ D!Stop \/ D!Lose(c) \/ D!Return(c)
          \/ (\E t \in Name : D!Deliver(c, t)) \/ Same
      BY <1>2, <1>3, <1>4, <3>1
    <3> QED BY <3>2 DEF D!Next, Same
  <2>2. CASE \E t \in Name : ClientPublishes(t) \/ ClientRepeats(t)
    <3>1. PICK t \in Name : ClientPublishes(t) \/ ClientRepeats(t)
      BY <2>2
    <3>2. Sends(t) \/ (ClientRepeats(t) /\ pub[t].state = "PUBCOMP")
      BY <1>1, <3>1, PublishesSends
    <3>3. D!Send(t) \/ Same
      BY <1>5, <1>6, <3>2
    <3> QED BY <3>3 DEF D!Next, Same
  <2> QED BY <1>8, <2>1, <2>2 DEF ExchangeNext
<1> QED BY <1>7, <1>8 DEF Same

(***************************************************************************)
(* The handlers, lists and identifiers implement Delivery: every step is   *)
(* one of Send, Deliver, Lose, Return and Stop, or leaves the copies as    *)
(* they are.  A copy is lost with a connection only, and taken once.  As   *)
(* above, the identifiers that wait must differ: an acknowledgement of one *)
(* message may otherwise end the handshake of another, whose copy then     *)
(* reaches a client that takes it for a repetition.                        *)
(***************************************************************************)
THEOREM ImplementsDelivery == ExchangeSpec /\ []IdsDistinct => DeliverySpec
<1>1. ExchangeInit => D!Init
  BY InitDelivers
<1>2. ExchangeInv /\ ExchangeInv' /\ IdsDistinct /\ TInv /\ [ExchangeNext]_exchangeVars
      => [D!Next]_<<subscribers, Up, Transits, delivered>>
  BY NextDelivers
<1>3. [D!Next]_<<subscribers, Up, Transits, delivered>> => [D!Next]_D!vars
  BY DEF D!vars, Transits
<1> QED BY <1>1, <1>2, <1>3, ExchangeInvariant, SettledInvariant, PTL
        DEF ExchangeSpec, DeliverySpec, D!Spec

-----------------------------------------------------------------------------
(* How long identifiers differ                                             *)

(***************************************************************************)
(* The history of Numbering along a run of QosExchange, and that no        *)
(* message waits while every identifier is given again.                    *)
(***************************************************************************)
History ==
  given = [c \in Client |-> [p \in Rank |-> 0]] /\ [][Give]_numberedVars

WithinRound ==
  \A c \in Client : \A p \in Unanswered(mq[c]) : given[c][p] <= PidMod

LEMMA WithinRoundDistinct ==
  ASSUME IInv, HInv, NumInv, WithinRound
  PROVE  IdsDistinct
<1> SUFFICES ASSUME NEW c \in Client, NEW p \in DOMAIN mq[c], NEW r \in DOMAIN mq[c],
                    mq[c][p].ps \in Waits, mq[c][r].ps \in Waits,
                    mq[c][p].packet_id = mq[c][r].packet_id
             PROVE  p = r
  BY DEF IdsDistinct
<1>1. p \in Unanswered(mq[c]) /\ r \in Unanswered(mq[c])
  BY DEF Unanswered
<1>2. ~ (given[c][p] > PidMod) /\ ~ (given[c][r] > PidMod)
  <2>1. PICK g \in 1 .. Around, h \in 1 .. Around : g = given[c][p] /\ h = given[c][r]
    BY <1>1 DEF NumInv, NumberedAt
  <2>2. g <= PidMod /\ h <= PidMod
    BY <1>1, <2>1 DEF WithinRound
  <2> QED BY <2>1, <2>2, PidModType
<1> QED BY <1>1, <1>2, NumInvShares DEF SharedOnlyAfterRound

(***************************************************************************)
(* As long as no message waits while its client is given every identifier  *)
(* again (the UINT16 of packet_handle.c:726 may come round as often as it  *)
(* will), a handshake has exactly one packet on the way, and what is       *)
(* published is delivered as Delivery promises.                            *)
(***************************************************************************)
THEOREM DeliveredWithinRound ==
  ExchangeSpec /\ History /\ []WithinRound => []TokenPerHandshake /\ DeliverySpec
<1>1. ExchangeInit /\ given = [c \in Client |-> [p \in Rank |-> 0]] => NumInv
  <2> SUFFICES ASSUME ExchangeInit PROVE NumInv
    OBVIOUS
  <2>1. \A d \in Client : DOMAIN mq[d] = {}
    BY DEF ExchangeInit, EmptyList
  <2>2. \A d \in Client : Unanswered(mq[d]) = {}
    BY <2>1 DEF Unanswered
  <2> QED BY <2>2 DEF NumInv, NumberedAt
<1>2. ExchangeInv => IInv /\ HInv
  BY DEF ExchangeInv
<1>3. ExchangeInv /\ [ExchangeNext]_exchangeVars => [Next]_vars
  BY ExchangeNextIsNext DEF ExchangeInv
<1>4. /\ ExchangeInv /\ ExchangeInv' /\ NumInv
      /\ [ExchangeNext]_exchangeVars /\ [Give]_numberedVars
      => NumInv'
  <2>1. ExchangeInv' => IInv' /\ HInv'
    BY DEF ExchangeInv
  <2> QED BY <1>2, <1>3, <2>1, NextNumInv
<1>5. ExchangeSpec /\ History => []NumInv
  BY <1>1, <1>4, ExchangeInvariant, PTL DEF ExchangeSpec, History
<1>6. ExchangeInv /\ NumInv /\ WithinRound => IdsDistinct
  BY <1>2, WithinRoundDistinct
<1>7. ExchangeSpec /\ History /\ []WithinRound => []IdsDistinct
  BY <1>5, <1>6, ExchangeInvariant, PTL
<1> QED BY <1>7, OneTokenEach, ImplementsDelivery, PTL

=============================================================================
