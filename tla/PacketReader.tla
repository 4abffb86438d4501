---------------------------- MODULE PacketReader ----------------------------
(***************************************************************************)
(* One call of iotbroker_read_packet: the remaining length (PacketLength), *)
(* the payload, and the handler that takes one field after the other from  *)
(* it with the cursor load_pos; then the reply, or the publication sent on *)
(* to a subscriber, as write_packet lays it out.                           *)
(*                                                                         *)
(* A packet is what MQTT says a client may send, a sequence of fields; the *)
(* handlers know nothing of these and count bytes.  The payload is read in *)
(* one piece.  The call for no packet of MQTT, NONE, reads any bytes for a *)
(* length, and is followed that far.                                       *)
(***************************************************************************)
EXTENDS PacketLength

CONSTANTS
  NONE,
  Builds,     (* is DEBUG defined?                                        *)
  Names,      (* protocol names                                           *)
  Levels,     (* protocol levels, of one byte                             *)
  Strings,    (* topics, ids, wills, ...                                  *)
  Contents,   (* contents of publications                                 *)
  Topics,     (* the number of topics of a (UN)SUBSCRIBE                  *)
  CounterMod  (* values of the UINT16 that counts them: 2^16 in the code  *)

(* A string: its length, the bytes before its first zero byte, and whether *)
(* these are "MQTT".                                                       *)
IsString(s) ==
  s \in [len : Nat, text : Nat, mqtt : BOOLEAN] /\ s.text <= s.len

(* The types of the packets a broker sends; the CONNACK of a refusal is    *)
(* told from the other.                                                    *)
Outgoing == {"CONNACK", "REFUSED", "PUBLISH", "PUBACK", "PUBREC", "PUBREL",
             "PUBCOMP", "SUBACK", "UNSUBACK", "PINGRESP"}

ASSUME ReaderAssumption ==
  /\ Builds \subseteq BOOLEAN
  /\ Levels \subseteq 0 .. 255
  /\ Topics \subseteq Nat \ {0} /\ CounterMod \in 1 .. 2^16
  /\ \A s \in Names \cup Strings \cup Contents : IsString(s)
  /\ \A s \in Names \cup Strings : s.len < 2^16
  /\ NONE \notin [type : Outgoing, qos : Nat, remain_len : Nat, load_pos : Nat]

-----------------------------------------------------------------------------
(* The packets of MQTT, and some it forbids but whose layout is the same:  *)
(* with a reserved flag, with a QoS of 3, of a type that is a server's or  *)
(* no type at all                                                          *)

U8(v) == [kind |-> "u8", size |-> 1, val |-> v]
U16 == [kind |-> "u16", size |-> 2, val |-> NONE]
Str(s) == [kind |-> "str", size |-> 2 + s.len, val |-> s]
Rest(s) == [kind |-> "rest", size |-> s.len, val |-> s]

Packet(type, qos, payload) == [type |-> type, qos |-> qos, payload |-> payload]

(* A user name needs no password, but not the other way round.             *)
Flags == {f \in SUBSET {"reserved", "will", "username", "password"} :
            "password" \in f => "username" \in f}

If(b, s) == IF b THEN s ELSE <<>>

Connects ==
  {Packet("CONNECT", 0,
      <<Str(name), U8(level), U8(f), U16, Str(s)>>
        \o If("will" \in f, <<Str(s), Str(s)>>)
        \o If("username" \in f, <<Str(s)>>) \o If("password" \in f, <<Str(s)>>)) :
    name \in Names, level \in Levels, f \in Flags, s \in Strings}

Publications ==
  {Packet("PUBLISH", q, <<Str(s)>> \o If(q > 0, <<U16>>) \o <<Rest(content)>>) :
    q \in 0 .. 3, s \in Strings, content \in Contents}

Repeated(n, s) == FlattenSeq([i \in 1 .. n |-> s])

Requests ==
  {Packet("SUBSCRIBE", 1, <<U16>> \o Repeated(n, <<Str(s), U8(q)>>)) :
    n \in Topics, s \in Strings, q \in 0 .. 3}
  \cup {Packet("UNSUBSCRIBE", 1, <<U16>> \o Repeated(n, <<Str(s)>>)) :
    n \in Topics, s \in Strings}

Acks == {"PUBACK", "PUBREC", "PUBREL", "PUBCOMP"}

Packets ==
  Connects \cup Publications \cup Requests
  \cup {Packet(type, 0, <<U16>>) : type \in Acks}
  \cup {Packet(type, 0, <<>>) : type \in {"PINGREQ", "DISCONNECT", "CONNACK", "INVALID"}}

Size(p) == FoldLeft(LAMBDA n, field : n + field.size, 0, p.payload)

-----------------------------------------------------------------------------
VARIABLES
  debug,
  packet,     (* what the client sends                                    *)
  stage,      (* what follows the length                                  *)
  next,       (* the field the handler reads next                         *)
  taken,      (* how many it has read,                                    *)
  load_pos,   (* how many bytes of the payload,                           *)
  seen,       (* and the values in them                                   *)
  reply,      (* out_packet: the bytes allocated, and those filled in     *)
  session     (* the state of the client                                  *)

(* The stages behind the length, "read" and "handle", end with             *)
(*   "failed"     the read of the payload, or the test of the type         *)
(*   "handled"    handle_packet returns SUCESS                             *)
(*   "overrun"    it has written behind what it allocated for the reply: C *)
(*                does not say what follows                                *)
(*   "closed"     it returns HANDLE_RET_CLOSE_CLIENT                       *)
(*   "astray"     the field read is not there: C does not say what is read *)
(*   "written"    the reply is in the buffer of write_packet               *)
(*   "forwarded"  so is the publication, for a subscriber                  *)
(*   "aborted"    the assertion of iotbroker_malloc                        *)
handling == <<next, taken, load_pos, seen>>
readerVars == <<vars, debug, packet, stage, handling, reply, session>>

NoValues == [f \in {} |-> f]
With(values, f, v) ==
  [g \in DOMAIN values \cup {f} |-> IF g = f THEN v ELSE values[g]]

ReaderInit ==
  /\ Init
  /\ debug \in Builds
  /\ packet \in Packets \cup {NONE}
  /\ stage = "read"
  /\ next = NONE /\ taken = 0 /\ load_pos = 0 /\ seen = NoValues
  /\ reply = NONE
  /\ session = "CS_WAIT_FOR_CONNECT"

(* Mutant: a limit that is too low.                                        *)
TooLargeEarly(size) == debug /\ size > 1024 * 3

(* The assertion of iotbroker_malloc.                                      *)
TooLarge(size) == debug /\ size > 1024 * 4

ReadLength(b) ==
  /\ phase = "length"
  /\ IF packet = NONE THEN b \in Byte
     ELSE b = Written(Size(packet))[Len(bytes) + 1]
  /\ ReadByte(b)
  /\ UNCHANGED <<debug, packet, stage, handling, reply, session>>

LengthFails ==
  ReadFails /\ UNCHANGED <<debug, packet, stage, handling, reply, session>>

First ==
  CASE packet.type = "CONNECT" -> "protocol_name"
    [] packet.type = "PUBLISH" -> "topic"
    [] packet.type \in Acks \cup {"SUBSCRIBE", "UNSUBSCRIBE"} -> "packet_id"
    [] OTHER -> "end"

(* The read of the payload, the test of the type, and the choice of the    *)
(* handler.  handle_publish looks at its QoS before it reads anything, and *)
(* handle_disconnect does not read.                                        *)
Load ==
  /\ phase = "load" /\ stage = "read" /\ packet # NONE
  /\ stage' = IF TooLarge(remainlen_value) THEN "aborted"
              ELSE IF packet.type = "INVALID" THEN "failed"
              ELSE IF packet.qos > 2 \/ packet.type = "DISCONNECT" THEN "closed"
              ELSE "handle"
  /\ next' = IF stage' = "handle" THEN First ELSE NONE
  /\ UNCHANGED <<vars, debug, packet, taken, load_pos, seen, reply, session>>

LoadFails ==
  /\ phase = "load" /\ stage = "read" /\ packet # NONE /\ remainlen_value > 0
  /\ ~TooLarge(remainlen_value)
  /\ stage' = "failed"
  /\ UNCHANGED <<vars, debug, packet, handling, reply, session>>

-----------------------------------------------------------------------------
(* The handlers                                                            *)

Kind(f) ==
  CASE f \in {"protocol_level", "connect_flags", "topic_qos"} -> "u8"
    [] f \in {"keepalive", "packet_id"} -> "u16"
    [] f = "content" -> "rest"
    [] OTHER -> "str"

(* protocol_level is an INT8, a char: signed where the broker is built.    *)
SignedLevel(level) == IF level < 128 THEN level ELSE level - 256

(* Mutant: the maximum itself is refused.                                  *)
InvalidLevelFour(level) == SignedLevel(level) >= 4

InvalidLevel(level) == SignedLevel(level) > 4

(* The connection is closed when the field f has the value v.              *)
Closes(f, v) ==
  \/ f = "protocol_name" /\ ~v.mqtt
  \/ f = "connect_flags" /\ "reserved" \in v
  \/ f = "topic_qos" /\ v > 2

(* The field behind f, in each handler.                                    *)
AfterConnect(f, flags) ==
  CASE f = "protocol_name" -> "protocol_level"
    [] f = "protocol_level" -> "connect_flags"
    [] f = "connect_flags" -> "keepalive"
    [] f = "keepalive" -> "client_id"
    [] f = "client_id" /\ "will" \in flags -> "will_topic"
    [] f = "will_topic" -> "will_msg"
    [] /\ f = "will_msg" \/ (f = "client_id" /\ "will" \notin flags)
       /\ "username" \in flags -> "username"
    [] f = "username" -> "password"
    [] OTHER -> "end"

AfterPublish(f) ==
  CASE f = "topic" /\ packet.qos > 0 -> "packet_id"
    [] (f = "topic" /\ packet.qos = 0) \/ f = "packet_id" -> "content"
    [] OTHER -> "end"

(* Mutant: no loop over the topics.                                        *)
AfterTopicsOnce(f, pos) ==
  CASE f = "topic" /\ packet.type = "SUBSCRIBE" -> "topic_qos"
    [] f = "packet_id" /\ pos < remainlen_value -> "topic"
    [] OTHER -> "end"

AfterTopics(f, pos) ==
  CASE f = "topic" /\ packet.type = "SUBSCRIBE" -> "topic_qos"
    [] (f # "topic" \/ packet.type # "SUBSCRIBE") /\ pos < remainlen_value -> "topic"
    [] OTHER -> "end"

After(f, values, pos) ==
  CASE packet.type = "CONNECT" ->
         AfterConnect(f, IF f \in {"protocol_name", "protocol_level"} THEN {}
                         ELSE values["connect_flags"])
    [] packet.type = "PUBLISH" -> AfterPublish(f)
    [] packet.type \in {"SUBSCRIBE", "UNSUBSCRIBE"} -> AfterTopics(f, pos)
    [] OTHER -> "end"

(* Mutant: one byte less.                                                  *)
RemainLengthShort == (remainlen_value - load_pos - 1) % 2^16

(* len in read_remain_str is a UINT16.                                     *)
RemainLength == (remainlen_value - load_pos) % 2^16

Shorter(m, n) == IF m < n THEN m ELSE n

(* What the handler keeps of the field, and the bytes it takes for it:     *)
(* strncpy stops at a zero byte.                                           *)
Value(field) ==
  IF field.kind = "rest"
  THEN [field.val EXCEPT !.len = RemainLength, !.text = Shorter(@, RemainLength)]
  ELSE field.val

Bytes(field) == IF field.kind = "rest" THEN RemainLength ELSE field.size

(* Two bytes, those of a CONNACK or of an identifier; and for a SUBACK the *)
(* room made for codes, and the codes written.                             *)
Out(type, size, codes) ==
  [type |-> type, qos |-> 0, remain_len |-> 2 + size, load_pos |-> 2 + codes]

Refusal == Out("REFUSED", 0, 0)

(* read_str, read_uint16, read_uint8 or read_remain_str, and the tests of  *)
(* the value.  The allocations for strings are below that of the payload.  *)
ReadField ==
  /\ stage = "handle" /\ next # "end"
  /\ IF taken < Len(packet.payload) /\ packet.payload[taken + 1].kind = Kind(next)
     THEN LET field == packet.payload[taken + 1]
              v == Value(field)
          IN  /\ taken' = taken + 1
              /\ load_pos' = load_pos + Bytes(field)
              /\ seen' = With(seen, next, v)
              /\ \/ /\ Closes(next, v)
                    /\ stage' = "closed" /\ UNCHANGED <<next, reply>>
                 \/ /\ next = "protocol_level" /\ InvalidLevel(v)
                    /\ stage' = "handled" /\ reply' = Refusal /\ UNCHANGED next
                 \/ /\ ~Closes(next, v)
                    /\ ~(next = "protocol_level" /\ InvalidLevel(v))
                    /\ next' = After(next, seen', load_pos')
                    /\ UNCHANGED <<stage, reply>>
     ELSE stage' = "astray" /\ UNCHANGED <<handling, reply>>
  /\ UNCHANGED <<vars, debug, packet, session>>

(* handle_subscribe counts the topics in a UINT16, send_suback writes a    *)
(* code for each.                                                          *)
Suback(codes) == Out("SUBACK", codes % CounterMod, codes)

Replies ==
  CASE packet.type = "CONNECT" -> {Out("CONNACK", 0, 0)}
    [] packet.type = "PUBLISH" ->
         {IF packet.qos = 0 THEN NONE
          ELSE Out(IF packet.qos = 1 THEN "PUBACK" ELSE "PUBREC", 0, 0)}
    [] packet.type = "PUBREC" -> {NONE, Out("PUBREL", 0, 0)}
    [] packet.type = "PUBREL" -> {NONE, Out("PUBCOMP", 0, 0)}
    [] packet.type = "SUBSCRIBE" -> {Suback((taken - 1) \div 2)}
    [] packet.type = "UNSUBSCRIBE" -> {Out("UNSUBACK", 0, 0)}
    [] packet.type = "PINGREQ" ->
         {[Out("PINGRESP", 0, 0) EXCEPT !.remain_len = 0, !.load_pos = 0]}
    [] OTHER -> {NONE}

Overruns(r) == r # NONE /\ r.load_pos > r.remain_len

(* iotbroker_session_state_mod                                             *)
StateMod(newstate) == session' = newstate

(* The end of the handler.  Whether an acknowledgement was awaited, and is *)
(* answered, is left to Broker.                                            *)
Handled ==
  /\ stage = "handle" /\ next = "end"
  /\ reply' \in Replies
  /\ stage' = IF Overruns(reply') THEN "overrun" ELSE "handled"
  /\ IF packet.type = "CONNECT" THEN StateMod("CS_CONNECTING")
     ELSE UNCHANGED session
  /\ UNCHANGED <<vars, debug, packet, handling>>

(* write_packet for the reply.                                             *)
WriteReply ==
  /\ stage = "handled" /\ reply # NONE
  /\ stage' = IF TooLarge(5 + reply.remain_len) THEN "aborted" ELSE "written"
  /\ UNCHANGED <<vars, debug, packet, handling, reply, session>>

-----------------------------------------------------------------------------
(* The publication                                                         *)

(* Mutant: no room for the identifier.                                     *)
PublishLengthShort(q) == 2 + seen["topic"].text + seen["content"].text

(* p->remain_len in send_publish.                                          *)
PublishLength(q) ==
  2 + seen["topic"].text + seen["content"].text + (IF q > 0 THEN 2 ELSE 0)

(* What write_str, write_uint16 and write_remain_str put in.               *)
PublishFilled(q) ==
  2 + (seen["topic"].text % 2^16) + (IF q > 0 THEN 2 ELSE 0)
    + (seen["content"].text % 2^16)

(* The message goes to a subscriber, with no greater QoS than it came      *)
(* with: send_publish and write_packet.                                    *)
Forward(q) ==
  /\ packet # NONE /\ packet.type = "PUBLISH"
  /\ stage = IF packet.qos = 0 THEN "handled" ELSE "written"
  /\ q <= packet.qos
  /\ reply' = [type |-> "PUBLISH", qos |-> q,
               remain_len |-> PublishLength(q), load_pos |-> PublishFilled(q)]
  /\ stage' = IF TooLarge(5 + PublishLength(q)) THEN "aborted" ELSE "forwarded"
  /\ UNCHANGED <<vars, debug, packet, handling, session>>

ReaderNext ==
  \/ LengthFails \/ Load \/ LoadFails \/ ReadField \/ Handled \/ WriteReply
  \/ \E b \in 0 .. 255 : ReadLength(b)
  \/ \E q \in 0 .. 2 : Forward(q)

ReaderSpec == ReaderInit /\ [][ReaderNext]_readerVars

-----------------------------------------------------------------------------
(* Properties                                                              *)

Answered == {"handled", "written", "forwarded"}

(* MQTT's strings have no zero byte; a content may have any.               *)
Whole(s) == s.text = s.len

(***************************************************************************)
(* The handlers and MQTT agree on the layout of every packet: the cursor   *)
(* is at the end of the payload when the handler is done with it, having   *)
(* taken every field for what it is, unless it has refused a CONNECT or    *)
(* met a content of 2^16 bytes or more (packet_handle.c:82).  No handler   *)
(* reads behind the payload but for a CONNECT with a user name and no      *)
(* password (packet_handle.c:225).                                         *)
(***************************************************************************)
CursorAtEnd ==
  /\ /\ packet # NONE /\ stage \in Answered
     /\ reply # Refusal
     /\ "content" \in DOMAIN seen => Last(packet.payload).size < 2^16
     => load_pos = remainlen_value /\ taken = Len(packet.payload)
  /\ stage = "astray"
     => /\ packet.type = "CONNECT"
        /\ {"username", "password"} \cap packet.payload[3].val = {"username"}

(***************************************************************************)
(* A client is told what has become of its CONNECT: it gets the CONNACK of *)
(* success just when its session is connected, that of a refusal only for  *)
(* a level above 4, and none when it is closed.  A CONNECT for MQTT with a *)
(* level up to 4 and a clear reserved flag succeeds whatever else it has,  *)
(* and none does with the flag set.                                        *)
(***************************************************************************)
ConnectOutcome ==
  packet # NONE /\ packet.type = "CONNECT" /\ stage \in Answered \cup {"closed"} =>
    LET field(i) == packet.payload[i].val
        connected == session = "CS_CONNECTING"
    IN  /\ connected <=> reply = Out("CONNACK", 0, 0)
        /\ stage = "closed" <=> reply = NONE
        /\ reply = Refusal => field(2) > 4
        /\ field(1).mqtt /\ field(2) <= 4 /\ "reserved" \notin field(3) => connected
        /\ "reserved" \in field(3) => ~connected

(* The topics of a SUBSCRIBE.                                              *)
TopicsOf(p) == (Len(p.payload) - 1) \div 2

(***************************************************************************)
(* What is allocated for an outgoing packet is filled to the last byte and *)
(* not beyond, whatever lengths the strings of a publication have, but for *)
(* the SUBACK of as many topics as come round in the UINT16 that counts    *)
(* them (packet_handle.c:456): its codes go behind the allocation.  The    *)
(* remaining length fits the five bytes of header write_packet allows, and *)
(* is one that iotbroker_read_packet would accept.                         *)
(***************************************************************************)
BufferFilled ==
  reply # NONE =>
    /\ stage = "overrun" <=> packet.type = "SUBSCRIBE" /\ TopicsOf(packet) >= CounterMod
    /\ stage # "overrun" => reply.load_pos = reply.remain_len
    /\ 1 + Len(Written(reply.remain_len)) <= 5
    /\ reply.remain_len < 128 * 128 * 128

(***************************************************************************)
(* A publication is sent on with all its bytes when topic and content have *)
(* no zero byte and the content less than 2^16 bytes; the strings the      *)
(* handlers keep do not do for others (packet_handle.c:70, 82).            *)
(***************************************************************************)
ForwardedWhole ==
  stage = "forwarded" =>
    LET topic == Head(packet.payload).val
        content == Last(packet.payload).val
        identifier(q) == IF q > 0 THEN 2 ELSE 0
    IN  Whole(topic) /\ Whole(content) /\ content.len < 2^16
          => reply.remain_len - identifier(reply.qos)
               = Size(packet) - identifier(packet.qos)

(***************************************************************************)
(* The limit of iotbroker_malloc ends the process only for a packet with   *)
(* more than 4091 bytes behind its length: up to there a publication that  *)
(* could be read can be sent on, whatever the QoS of the subscriber.       *)
(***************************************************************************)
AbortsOnlyOversize ==
  stage = "aborted" => debug /\ remainlen_value + 5 > 1024 * 4

=============================================================================

