---------------------------- MODULE PacketLength ----------------------------
(***************************************************************************)
(* The remaining length of a packet (protocol.c): how iotbroker_read_packet *)
(* reads it, one read of the socket for each byte, and how                 *)
(* set_packet_remainlength writes it.  A behaviour is one call of          *)
(* iotbroker_read_packet, from the byte behind the packet type on; the     *)
(* bytes are whatever the client sends.  The counters are UINT32: that     *)
(* they stay below 2^32, so that their arithmetic is exact, is part of     *)
(* LengthBounded.                                                          *)
(***************************************************************************)
EXTENDS Integers, Sequences, SequencesExt

CONSTANTS
  Byte,       (* values of a byte the client may send                     *)
  Lengths     (* lengths the broker may write                             *)

ASSUME LengthAssumption == Byte \subseteq 0 .. 255 /\ Lengths \subseteq Nat

MAX_REMAIN_BYTE_LEN == 4

VARIABLES
  phase,              (* "length", then "load" or "error"                 *)
  bytes,              (* the bytes read so far                            *)
  remainlen_value,
  multiplier

vars == <<phase, bytes, remainlen_value, multiplier>>

Init ==
  /\ phase = "length"
  /\ bytes = <<>>
  /\ remainlen_value = 0
  /\ multiplier = 1

(* Mutant: no test of the multiplier.                                      *)
NeverTooLong(mult) == FALSE

(* The test behind multiplier *= 128.                                      *)
TooLong(mult) == mult > 128 * 128 * 128

(* One round of the loop, when the read of its byte succeeds.              *)
ReadByte(b) ==
  /\ phase = "length"
  /\ bytes' = Append(bytes, b)
  /\ remainlen_value' = remainlen_value + (b % 128) * multiplier
  /\ multiplier' = multiplier * 128
  /\ phase' = IF TooLong(multiplier') THEN "error"
              ELSE IF b >= 128 THEN "length" ELSE "load"

(* End of file, or an error of the socket.                                 *)
ReadFails ==
  /\ phase = "length"
  /\ phase' = "error"
  /\ UNCHANGED <<bytes, remainlen_value, multiplier>>

Next == ReadFails \/ \E b \in Byte : ReadByte(b)

Spec == Init /\ [][Next]_vars

-----------------------------------------------------------------------------

(* Mutant: the most significant seven bits first.                          *)
WrittenBigEnd(v) ==
  LET written[n \in Nat] ==
        IF n < 128 THEN <<n>> ELSE written[n \div 128] \o <<128 + (n % 128)>>
  IN  written[v]

(* What set_packet_remainlength writes for the length v.                   *)
Written(v) ==
  LET written[n \in Nat] ==
        IF n < 128 THEN <<n>> ELSE <<128 + (n % 128)>> \o written[n \div 128]
  IN  written[v]

-----------------------------------------------------------------------------
(* Properties                                                              *)

(***************************************************************************)
(* The reader and the writer agree: a length below 128^3 is read as what   *)
(* it was written for, after its last byte and not before.                 *)
(***************************************************************************)
ReadsWhatIsWritten ==
  \A v \in {n \in Lengths : n < 128 * 128 * 128} :
    /\ bytes = Written(v) => phase = "load" /\ remainlen_value = v
    /\ IsStrictPrefix(bytes, Written(v)) => phase # "load"

(***************************************************************************)
(* Whatever bytes a client sends, the loop ends with the fourth of them,   *)
(* neither counter has come near 2^32 by then (the value stays below the   *)
(* multiplier, which is the next power of 128), and the length for which   *)
(* memory is allocated is below 128^3.                                     *)
(***************************************************************************)
LengthBounded ==
  /\ Len(bytes) <= MAX_REMAIN_BYTE_LEN
  /\ Len(bytes) = MAX_REMAIN_BYTE_LEN => phase = "error"
  /\ remainlen_value < multiplier /\ multiplier <= 128 * 128 * 128 * 128
  /\ phase = "load" => remainlen_value < 128 * 128 * 128

(***************************************************************************)
(* protocol.c:152 "read remain length, invalid when bytes more than        *)
(* MAX_REMAIN_BYTE_LEN": a length of up to MAX_REMAIN_BYTE_LEN bytes is    *)
(* not refused.                                                            *)
(***************************************************************************)
FourBytesAllowed ==
  [][\A b \in Byte :
       ReadByte(b) /\ b < 128 /\ Len(bytes') <= MAX_REMAIN_BYTE_LEN
         => phase' = "load"]_vars

=============================================================================
