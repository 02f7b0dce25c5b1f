---------------------------- MODULE PacketCheck ----------------------------
(***************************************************************************)
(* The bytes behind the frames of Telemetry: a packet as it was sent, with *)
(* checksum and parity, the errors of its way, and the check every handler *)
(* makes of what it heard (sensor.c and the others).                       *)
(*                                                                         *)
(* Checksum and code are linear and start from zero: whether a word passes *)
(* at the length it was sent with, and what the decoder makes of it,       *)
(* depends on its errors alone (VerdictOfErrors and DecoderSeesErrors of   *)
(* TelemetryProofs), so one content per kind of packet is enough.  Heard   *)
(* as a kind of another length, one content in 65536 passes by chance.     *)
(***************************************************************************)
EXTENDS Telemetry, ReedSolomon, Crc16

CONSTANT Errors   \* what can be added to the bytes of a packet

VARIABLE error    \* what was added to the bytes of this one

MTU_SIZE == 64

ASSUME ErrorsAssumption == Errors \subseteq [0 .. MTU_SIZE - 1 -> Byte]

\* packetDefs.h: the values of the type byte.
TypeByte ==
  [kind \in Kinds |->
     CASE kind = "START_IMAGE" -> 255 [] kind = "IMAGE_DATA" -> 238 [] kind = "END_IMAGE" -> 221
       [] kind = "GPS_GGA" -> 193 [] kind = "GPS_GGA_1" -> 194 [] kind = "GPS_GGA_2" -> 195
       [] kind = "GPS_RMC" -> 177 [] kind = "GPS_RMC_1" -> 178 [] kind = "GPS_RMC_2" -> 179
       [] kind = "INT_TEMP" -> 170 [] kind = "EXT_TEMP" -> 153 [] kind = "BATT_INFO" -> 136
       [] kind = "PRESS_INFO" -> 119 [] kind = "HUM_INFO" -> 102 [] kind = "INFO_DATA" -> 85
       [] kind = "CW_ID" -> 68]

Heard(byte) ==
  IF \E kind \in Kinds : TypeByte[kind] = byte
  THEN CHOOSE kind \in Kinds : TypeByte[kind] = byte ELSE "unknown"

Parity(kind) == IF Coded(kind) THEN NPAR ELSE 0

\* The place of the checksum, after the content.
CrcPlace(kind) == SizeOf(kind) - 2 - Parity(kind)

\* The packet as it is sent, in the transmitter's frame.
Packet ==
  [kind \in Kinds |->
     LET content == [i \in 0 .. MTU_SIZE - 1 |->
                       IF i = 0 THEN TypeByte[kind] ELSE (7 * i * (i - 1)) % 256]
         crc     == crc_16(content, CrcPlace(kind))
         checked == [i \in 0 .. MTU_SIZE - 1 |->
                       IF i = CrcPlace(kind) THEN crc % 256
                       ELSE IF i = CrcPlace(kind) + 1 THEN crc \div 256 ELSE content[i]]
         coded   == encode_data(checked, CrcPlace(kind) + 2)
     IN  [i \in 0 .. MTU_SIZE - 1 |->
            IF kind \in Gps THEN content[i]
            ELSE IF ~Coded(kind) THEN checked[i]
            ELSE IF i < SizeOf(kind) THEN coded[i] ELSE 0]]

\* The damage errors do to a packet of this kind.
DamageOf(kind, e) ==
  LET wrong == {i \in 0 .. SizeOf(kind) - 1 : e[i] # 0}
  IN  IF \A i \in wrong : Coded(kind) /\ i >= CrcPlace(kind) + 2 THEN "no"
      ELSE IF 2 * Cardinality(wrong) <= NPAR THEN "few" ELSE "many"

\* The bytes heard.
Word(sent, e) == [i \in 0 .. MTU_SIZE - 1 |-> Xor[Packet[sent][i]][e[i]]]

PacketInit ==
  /\ \E sent \in Kinds, e \in Errors :
       /\ error = e
       /\ frame = [sent |-> sent, heard |-> Heard(Word(sent, e)[0]), damage |-> DamageOf(sent, e)]
  /\ stage = "heard"
  /\ size = 0 /\ handled = "none" /\ reports = {} /\ written = {}

PacketNext == Next /\ UNCHANGED error

PacketSpec == PacketInit /\ [][PacketNext]_<<vars, error>>

-----------------------------------------------------------------------------
CrcRight(kind, bytes) ==
  crc_16(bytes, CrcPlace(kind)) = bytes[CrcPlace(kind)] + 256 * bytes[CrcPlace(kind) + 1]

\* What a handler's correction makes of each word that can be heard.
Corrected ==
  [sent \in Kinds |-> [e \in Errors |->
     LET bytes == Word(sent, e)
         kind  == Heard(bytes[0])
     IN  IF kind \in Kinds /\ Coded(kind) THEN rscode_decode(bytes, SizeOf(kind))
         ELSE [word |-> bytes, defined |-> TRUE]]]

\* Slip: the checksum is not calculated again after the correction.
SlipAccepts(kind, bytes, fixed) == CrcRight(kind, bytes) \/ Coded(kind)

\* Slip: it is calculated of the bytes as they were heard once more.
SlipAcceptsHeard(kind, bytes, fixed) == CrcRight(kind, bytes)

\* The check of a handler: the checksum, and once more after a correction.
Accepts(kind, bytes, fixed) ==
  CrcRight(kind, bytes) \/ (Coded(kind) /\ CrcRight(kind, fixed))

\* A packet that has a checksum is with its handler.
Checking == stage = "queued" /\ reports = {} /\ frame.heard \notin Gps

Passes(kind, bytes, fixed) ==
  /\ Accepts(kind, bytes, fixed.word)
  /\ CrcRight(kind, bytes) \/ fixed.defined

\* What Telemetry calls valid from its damage alone passes the handler's check of
\* the bytes, wherever the errors are: at once if they are in the parity only, and
\* else after a correction that is defined.
ValidPasses ==
  Checking /\ IsValid(frame.heard) =>
    Passes(frame.heard, Word(frame.sent, error), Corrected[frame.sent][error])

Refuses(kind, bytes, fixed) == fixed.defined => ~Accepts(kind, bytes, fixed.word)

\* Nothing else passes: no packet with more errors, corrected to another one, and
\* none of another length for its checksum standing elsewhere.
InvalidRefused ==
  Checking /\ ~IsValid(frame.heard) =>
    Refuses(frame.heard, Word(frame.sent, error), Corrected[frame.sent][error])

Restores(packet, fixed) ==
  fixed.defined /\ \A i \in 0 .. size - 1 : fixed.word[i] = packet[i]

\* Up to NPAR / 2 wrong bytes anywhere in a packet, its parity included, are
\* all corrected, the divisions that takes being defined; the type byte as it
\* was sent comes back too.
CorrectionRestores ==
  /\ stage = "queued" /\ reports = {}
  /\ Coded(frame.heard) /\ Coded(frame.sent) /\ SizeOf(frame.sent) = size
  /\ 2 * Cardinality({i \in 0 .. size - 1 : error[i] # 0}) <= NPAR
  => Restores(Packet[frame.sent], Corrected[frame.sent][error])
=============================================================================
