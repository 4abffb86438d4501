--------------------------- MODULE MCPacketReader ---------------------------
(* Values for the constants of PacketReader: the bytes and lengths of      *)
(* MCPacketLength; both protocol names; levels at both ends of those       *)
(* accepted; contents around the limits of the two builds, empty, and with *)
(* a zero byte.                                                            *)
EXTENDS PacketReader

BoundaryBytes == {0, 1, 127, 128, 129, 255}

BoundaryLengths ==
  {0, 1, 127, 128, 255, 16383, 16384, 2097151, 2097152, 268435455}

Text(n) == [len |-> n, text |-> n, mqtt |-> FALSE]
Cut(n, zero) == [len |-> n, text |-> zero, mqtt |-> FALSE]

MQTT == [Text(4) EXCEPT !.mqtt = TRUE]
MQIsdp == Text(6)

BothNames == {MQTT, MQIsdp}
BoundaryLevels == {3, 4, 5, 127, 128, 255}
TwoStrings == {Text(0), Text(3)}
BoundaryContents ==
  {Text(n) : n \in {0, 1, 4084, 4086, 4087, 4091, 4092, 65535, 65536, 65540}}
    \cup {Cut(9, 4)}

(***************************************************************************)
(* The server is based on MQTT 3.1.1 and compatible with 3.1               *)
(* (README.md:3), and 4 is the maximum protocol level                      *)
(* (packet_handle.h:12): a CONNECT is accepted just when it has the name   *)
(* of one of these versions and a level up to that.                        *)
(***************************************************************************)
VersionsServed ==
  packet # NONE /\ packet.type = "CONNECT" /\ stage \in Answered \cup {"closed"} =>
    LET field(i) == packet.payload[i].val
    IN  "reserved" \notin field(3) =>
          (session = "CS_CONNECTING" <=> field(1) \in BothNames /\ field(2) <= 4)

=============================================================================
