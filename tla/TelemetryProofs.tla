-------------------------- MODULE TelemetryProofs --------------------------
(***************************************************************************)
(* The tables of interrupt handler, handlers and web client agree for      *)
(* every number of parity bytes; and the bytes behind the frames, from the *)
(* arithmetic up to what the handlers make of packets:                     *)
(*                                                                         *)
(*   - checksum and syndromes of what is heard depend on the errors of its *)
(*     way alone (VerdictOfErrors, DecoderSeesErrors);                     *)
(*   - what the encoder makes of a message is a codeword (CodewordsPass);  *)
(*   - NPAR errors are noticed (DetectsErrors), half as many corrected     *)
(*     (DecoderRestores);                                                  *)
(*   - packets with their errors are frames of Telemetry, and those that   *)
(*     Telemetry has corrected are (PacketCorrectionRestores,              *)
(*     PacketValidPasses).                                                 *)
(***************************************************************************)
EXTENDS PacketCheck, FiniteSetTheorems, WellFoundedInduction, TLAPS

\* What the steps add up to: a size comes from the type heard, a handler takes
\* valid packets of the kind heard, and a report is of a type the web client
\* writes, unless it is the info text.
Inv ==
  /\ frame \in Frame
  /\ size # 0 => frame.heard \in Kinds /\ size = RxSize(frame.heard)
  /\ stage \in {"heard", "queued"} => handled = "none" /\ written = {}
  /\ stage = "heard" => size = 0 /\ reports = {}
  /\ stage = "queued" => size # 0
  /\ stage \in {"web", "done"} /\ size # 0 /\ frame.damage = "no" => handled = frame.sent
  /\ handled \notin Gps \cup {"none"} => handled = frame.heard /\ IsValid(handled)
  /\ \A r \in reports : Writes(r.type) <=> r.label # "INFO_DATA"
  /\ stage = "done" => written = {r.label : r \in {x \in reports : Writes(x.type)}}

\* No structure is empty.
LEMMA SizePositive == \A kind \in Kinds : RxSize(kind) # 0
BY NparAssumption DEF RxSize, SizeOf

\* The only kinds of the length of the info text and of the call sign are
\* these themselves; those as long as the battery's are all written.
LEMMA TypeWritten ==
  ASSUME frame \in Frame, NEW kind \in {"BATT_INFO", "CW_ID", "INFO_DATA"}, IsValid(kind),
         frame.heard = kind
  PROVE  Writes(frame.sent) <=> kind # "INFO_DATA"
<1>1. frame.sent \in Kinds /\ frame.damage \in Damage
      /\ (frame.damage = "no" => frame.sent = kind)
  BY DEF Frame
<1>2. CASE frame.damage = "no"
  BY <1>1, <1>2 DEF Writes
<1>3. CASE frame.damage = "few"
  <2>1. Coded(frame.sent) /\ SizeOf(frame.sent) = SizeOf(kind)
    BY <1>3 DEF IsValid
  <2>2. CASE kind = "BATT_INFO"
    <3>1. SizeOf(frame.sent) = 8 + NPAR
      BY <2>1, <2>2 DEF SizeOf
    <3>2. frame.sent \in {"EXT_TEMP", "BATT_INFO", "PRESS_INFO", "HUM_INFO"}
      BY <1>1, <2>1, <3>1, NparAssumption DEF SizeOf, Coded, Kinds, Gps
    <3> QED BY <2>2, <3>2 DEF Writes
  <2>3. CASE kind = "CW_ID"
    <3>1. SizeOf(frame.sent) = 17 + NPAR
      BY <2>1, <2>3 DEF SizeOf
    <3>2. frame.sent = "CW_ID"
      BY <1>1, <2>1, <3>1, NparAssumption DEF SizeOf, Coded, Kinds, Gps
    <3> QED BY <2>3, <3>2 DEF Writes
  <2>4. CASE kind = "INFO_DATA"
    <3>1. SizeOf(frame.sent) = 37 + NPAR
      BY <2>1, <2>4 DEF SizeOf
    <3>2. frame.sent = "INFO_DATA"
      BY <1>1, <2>1, <3>1, NparAssumption DEF SizeOf, Coded, Kinds, Gps
    <3> QED BY <2>4, <3>2 DEF Writes
  <2> QED BY <2>2, <2>3, <2>4
<1> QED
  BY <1>1, <1>2, <1>3 DEF IsValid

\* It holds at the start, ...
LEMMA InitInv == Init => Inv
BY DEF Init, Inv

\* ... after the interrupt handler, ...
LEMMA QueueFrameInv == Inv /\ QueueFrame => Inv'
<1> SUFFICES ASSUME Inv, QueueFrame PROVE Inv'
  OBVIOUS
<1>1. frame' = frame /\ handled' = "none" /\ reports' = {} /\ written' = {} /\ stage = "heard"
  BY DEF QueueFrame, Inv
<1>2. written' = {r.label : r \in {x \in reports' : Writes(x.type)}}
  BY <1>1
<1>3. CASE frame.heard \in Kinds /\ size' = RxSize(frame.heard) /\ stage' = "queued"
  BY <1>1, <1>2, <1>3, SizePositive DEF Inv
<1>4. CASE size' = size /\ stage' = "done"
  BY <1>1, <1>2, <1>4 DEF Inv
<1> QED
  BY <1>3, <1>4 DEF QueueFrame

\* The other senders' reports, which come before the frame is dispatched.
LEMMA OtherReportInv == Inv /\ (ReportRssi \/ Ping) => Inv'
<1> SUFFICES ASSUME Inv, ReportRssi \/ Ping PROVE Inv'
  OBVIOUS
<1>1. /\ UNCHANGED <<frame, stage, size, handled, written>> /\ stage = "queued"
      /\ \/ reports' = {[label |-> "RSSI_INFO", type |-> "RSSI_INFO"]}
         \/ reports' = {[label |-> "PING", type |-> "PING"]}
  BY DEF ReportRssi, Ping, Report
<1>2. \A r \in reports' : Writes(r.type) <=> r.label # "INFO_DATA"
  BY <1>1 DEF Writes
<1> QED
  BY <1>1, <1>2 DEF Inv, IsValid

\* ... after the switch and the handlers, ...
LEMMA DispatchInv == Inv /\ Dispatch => Inv'
<1> SUFFICES ASSUME Inv, Dispatch PROVE Inv'
  OBVIOUS
<1> DEFINE kind == frame.heard
<1>1. /\ stage = "queued" /\ stage' = "web" /\ UNCHANGED <<frame, size, written>>
      /\ handled = "none" /\ kind \in Kinds /\ size # 0 /\ size = RxSize(kind)
  BY DEF Dispatch, Inv
<1>2. \/ Refuse(kind) /\ kind \notin Gps
      \/ Handle(kind) /\ UNCHANGED reports
      \/ kind \in {"INT_TEMP", "EXT_TEMP", "PRESS_INFO", "HUM_INFO"} /\ Handle(kind) /\ Report(kind, kind)
      \/ kind \in {"BATT_INFO", "CW_ID", "INFO_DATA"} /\ Handle(kind) /\ Report(kind, frame.sent)
      \/ kind \in Gps /\ handled' = kind /\ UNCHANGED reports
      \/ kind \in Gps \ {"GPS_GGA_1", "GPS_RMC_1"} /\ handled' = kind /\ Report(kind, kind)
  BY DEF Dispatch, ProcessSensor, ProcessBattInfo, ProcessCallSign, ProcessInfo,
         ProcessImageFile, ProcessGPS, Gps
<1>3. frame.damage = "no" => kind = frame.sent /\ IsValid(kind)
  BY <1>1 DEF Inv, Frame, IsValid, RxSize
<1>4. frame.damage = "no" => handled' = frame.sent
  BY <1>2, <1>3 DEF Refuse, Handle
<1>5. handled' \notin Gps \cup {"none"} => handled' = kind /\ IsValid(kind)
  BY <1>1, <1>2 DEF Refuse, Handle
<1>6. \A r \in reports' : Writes(r.type) <=> r.label # "INFO_DATA"
  <2>1. CASE reports' = reports
    BY <2>1 DEF Inv
  <2>2. ASSUME NEW type, reports' = reports \cup {[label |-> kind, type |-> type]},
               Writes(type) <=> kind # "INFO_DATA"
        PROVE  \A r \in reports' : Writes(r.type) <=> r.label # "INFO_DATA"
    BY <2>2 DEF Inv
  <2>3. CASE /\ kind \in {"INT_TEMP", "EXT_TEMP", "PRESS_INFO", "HUM_INFO"}
             /\ Report(kind, kind)
    BY <2>2, <2>3 DEF Report, Writes
  <2>4. CASE /\ kind \in {"BATT_INFO", "CW_ID", "INFO_DATA"}
             /\ Handle(kind) /\ Report(kind, frame.sent)
    <3>1. Writes(frame.sent) <=> kind # "INFO_DATA"
      BY <2>4, TypeWritten DEF Inv, Handle
    <3> QED BY <2>2, <2>4, <3>1 DEF Report
  <2>5. CASE kind \in Gps \ {"GPS_GGA_1", "GPS_RMC_1"} /\ Report(kind, kind)
    BY <2>2, <2>5 DEF Report, Writes, Gps
  <2> QED
    BY <1>2, <2>1, <2>3, <2>4, <2>5 DEF Refuse
<1>7. \A k : IsValid(k)' <=> IsValid(k)
  BY <1>1 DEF IsValid
<1> QED
  BY <1>1, <1>4, <1>5, <1>6, <1>7 DEF Inv

\* ... after the web client, ...
LEMMA WriteReportsInv == Inv /\ WriteReports => Inv'
BY DEF Inv, WriteReports, IsValid

\* ... so after every step, ...
LEMMA StepInv == Inv /\ [Next]_vars => Inv'
<1>1. Inv /\ UNCHANGED vars => Inv'
  BY DEF Inv, vars, IsValid
<1> QED
  BY <1>1, QueueFrameInv, OtherReportInv, DispatchInv, WriteReportsInv DEF Next

\* ... and always.
LEMMA Invariant == Spec => []Inv
BY InitInv, StepInv, PTL DEF Spec

\* An undamaged frame is taken for what it is, with the length its handler
\* expects: modem.c's table of lengths against those of the handlers.
THEOREM IntactHandled == Spec => []IntactIsHandled
<1>1. Inv => IntactIsHandled
  BY DEF Inv, IntactIsHandled
<1> QED
  BY <1>1, Invariant, PTL

\* A frame is only taken for another kind when it could be corrected and both
\* kinds have the same length, although the type byte is used unchecked.
THEOREM TakenAsSent == Spec => []HandledAsSent
<1>1. Inv => HandledAsSent
  BY DEF Inv, HandledAsSent, IsValid, Frame
<1> QED
  BY <1>1, Invariant, PTL

\* What the handlers, those of GPS sentences included, the signal strength and
\* the status thread report is of a type the web client writes, except the info
\* text: their types against the web client's switch, and no correction leads
\* from one to the other.
THEOREM ReportsReach == Spec => []ReportsReachServer
<1>1. Inv => ReportsReachServer
  <2> SUFFICES ASSUME Inv, stage = "done", NEW r \in reports
               PROVE  r.label \in written <=> r.label # "INFO_DATA"
    BY DEF ReportsReachServer
  <2>1. written = {x.label : x \in {y \in reports : Writes(y.type)}}
    BY DEF Inv
  <2>2. \A x \in reports : Writes(x.type) <=> x.label # "INFO_DATA"
    BY DEF Inv
  <2> QED
    BY <2>1, <2>2
<1> QED
  BY <1>1, Invariant, PTL

-----------------------------------------------------------------------------
\* Exclusive or, bit by bit.  The weights of the bits are numbers.
LEMMA Powers ==
  /\ 2^0 = 1 /\ 2^1 = 2 /\ 2^2 = 4 /\ 2^3 = 8
  /\ 2^4 = 16 /\ 2^5 = 32 /\ 2^6 = 64 /\ 2^7 = 128
OBVIOUS

\* A byte is the sum of its bits.
LEMMA ByteOfBits ==
  ASSUME NEW x \in Byte
  PROVE  /\ \A i \in 0..7 : Bit(x, i) \in 0..1
         /\ x = Bit(x, 0) + 2 * Bit(x, 1) + 4 * Bit(x, 2) + 8 * Bit(x, 3) + 16 * Bit(x, 4)
                + 32 * Bit(x, 5) + 64 * Bit(x, 6) + 128 * Bit(x, 7)
<1>1. /\ Bit(x, 0) = x % 2 /\ Bit(x, 1) = (x \div 2) % 2
      /\ Bit(x, 2) = (x \div 4) % 2 /\ Bit(x, 3) = (x \div 8) % 2
      /\ Bit(x, 4) = (x \div 16) % 2 /\ Bit(x, 5) = (x \div 32) % 2
      /\ Bit(x, 6) = (x \div 64) % 2 /\ Bit(x, 7) = (x \div 128) % 2
  BY Powers DEF Bit, Byte
<1>2. x \in 0..255
  BY DEF Byte
<1>3. \A i \in 0..7 : Bit(x, i) \in 0..1
  BY <1>1, <1>2
<1>4. /\ x = 2 * (x \div 2) + (x % 2)
      /\ x \div 2 = 2 * (x \div 4) + ((x \div 2) % 2)
      /\ x \div 4 = 2 * (x \div 8) + ((x \div 4) % 2)
      /\ x \div 8 = 2 * (x \div 16) + ((x \div 8) % 2)
      /\ x \div 16 = 2 * (x \div 32) + ((x \div 16) % 2)
      /\ x \div 32 = 2 * (x \div 64) + ((x \div 32) % 2)
      /\ x \div 64 = 2 * (x \div 128) + ((x \div 64) % 2)
      /\ x \div 128 = (x \div 128) % 2
  BY <1>2
<1> QED
  BY <1>1, <1>2, <1>3, <1>4

\* The bits of a sum of bits are these, and the sum is a byte.
LEMMA BitsOfSum ==
  ASSUME NEW a \in 0..1, NEW b \in 0..1, NEW c \in 0..1, NEW d \in 0..1,
         NEW e \in 0..1, NEW f \in 0..1, NEW g \in 0..1, NEW h \in 0..1,
         NEW x, x = a + 2 * b + 4 * c + 8 * d + 16 * e + 32 * f + 64 * g + 128 * h
  PROVE  /\ x \in Byte
         /\ Bit(x, 0) = a /\ Bit(x, 1) = b /\ Bit(x, 2) = c /\ Bit(x, 3) = d
         /\ Bit(x, 4) = e /\ Bit(x, 5) = f /\ Bit(x, 6) = g /\ Bit(x, 7) = h
<1>1. x \in 0..255
  OBVIOUS
<1>2. /\ Bit(x, 0) = x % 2 /\ Bit(x, 1) = (x \div 2) % 2
      /\ Bit(x, 2) = (x \div 4) % 2 /\ Bit(x, 3) = (x \div 8) % 2
      /\ Bit(x, 4) = (x \div 16) % 2 /\ Bit(x, 5) = (x \div 32) % 2
      /\ Bit(x, 6) = (x \div 64) % 2 /\ Bit(x, 7) = (x \div 128) % 2
  BY <1>1, Powers DEF Bit
<1>3. /\ x \div 2 = b + 2 * c + 4 * d + 8 * e + 16 * f + 32 * g + 64 * h
      /\ x \div 4 = c + 2 * d + 4 * e + 8 * f + 16 * g + 32 * h
      /\ x \div 8 = d + 2 * e + 4 * f + 8 * g + 16 * h
      /\ x \div 16 = e + 2 * f + 4 * g + 8 * h
      /\ x \div 32 = f + 2 * g + 4 * h
      /\ x \div 64 = g + 2 * h
      /\ x \div 128 = h
  OBVIOUS
<1> QED
  BY <1>1, <1>2, <1>3 DEF Byte

\* Bytes with the same bits are the same.
LEMMA SameBits ==
  ASSUME NEW x \in Byte, NEW y \in Byte, \A i \in 0..7 : Bit(x, i) = Bit(y, i)
  PROVE  x = y
<1>1. \A i \in {0, 1, 2, 3, 4, 5, 6, 7} : Bit(x, i) = Bit(y, i)
  OBVIOUS
<1> QED
  BY <1>1, ByteOfBits

\* The bits of an exclusive or.
LEMMA XorBits ==
  ASSUME NEW x \in Byte, NEW y \in Byte
  PROVE  /\ Xor[x][y] \in Byte
         /\ \A i \in 0..7 : Bit(Xor[x][y], i) = (Bit(x, i) + Bit(y, i)) % 2
<1> DEFINE b(i) == (Bit(x, i) + Bit(y, i)) % 2
<1>1. \A i \in 0..7 : b(i) \in 0..1
  <2> SUFFICES ASSUME NEW i \in 0..7 PROVE b(i) \in 0..1
    OBVIOUS
  <2>1. Bit(x, i) \in 0..1 /\ Bit(y, i) \in 0..1
    BY ByteOfBits
  <2> QED
    BY <2>1
<1>2. Xor[x][y] = 2^0 * b(0) + 2^1 * b(1) + 2^2 * b(2) + 2^3 * b(3)
                    + 2^4 * b(4) + 2^5 * b(5) + 2^6 * b(6) + 2^7 * b(7)
  BY DEF Xor
<1> HIDE DEF b
<1>3. Xor[x][y] = b(0) + 2 * b(1) + 4 * b(2) + 8 * b(3) + 16 * b(4) + 32 * b(5) + 64 * b(6)
                    + 128 * b(7)
  BY <1>1, <1>2, Powers
<1>4. /\ b(0) \in 0..1 /\ b(1) \in 0..1 /\ b(2) \in 0..1 /\ b(3) \in 0..1
      /\ b(4) \in 0..1 /\ b(5) \in 0..1 /\ b(6) \in 0..1 /\ b(7) \in 0..1
  BY <1>1
<1>5. /\ Xor[x][y] \in Byte
      /\ Bit(Xor[x][y], 0) = b(0) /\ Bit(Xor[x][y], 1) = b(1) /\ Bit(Xor[x][y], 2) = b(2)
      /\ Bit(Xor[x][y], 3) = b(3) /\ Bit(Xor[x][y], 4) = b(4) /\ Bit(Xor[x][y], 5) = b(5)
      /\ Bit(Xor[x][y], 6) = b(6) /\ Bit(Xor[x][y], 7) = b(7)
  BY <1>3, <1>4, BitsOfSum
<1>6. ASSUME NEW i \in 0..7 PROVE Bit(Xor[x][y], i) = b(i)
  <2>1. \/ i = 0 \/ i = 1 \/ i = 2 \/ i = 3 \/ i = 4 \/ i = 5 \/ i = 6 \/ i = 7
    OBVIOUS
  <2> QED
    BY <1>5, <2>1
<1> QED
  BY <1>5, <1>6 DEF b

\* Bytes with exclusive or are a group in which every element is its own inverse.
LEMMA XorLaws ==
  /\ \A x, y \in Byte : Xor[x][y] \in Byte /\ Xor[x][y] = Xor[y][x]
  /\ \A x, y, z \in Byte : Xor[Xor[x][y]][z] = Xor[x][Xor[y][z]]
  /\ \A x \in Byte : Xor[x][0] = x /\ Xor[x][x] = 0
<1>1. ASSUME NEW x \in Byte, NEW y \in Byte PROVE Xor[x][y] \in Byte /\ Xor[x][y] = Xor[y][x]
  <2>1. Xor[x][y] \in Byte /\ Xor[y][x] \in Byte
    BY XorBits
  <2>2. ASSUME NEW i \in 0..7 PROVE Bit(Xor[x][y], i) = Bit(Xor[y][x], i)
    <3>1. Bit(x, i) \in 0..1 /\ Bit(y, i) \in 0..1
      BY ByteOfBits
    <3>2. Bit(Xor[x][y], i) = (Bit(x, i) + Bit(y, i)) % 2
      BY XorBits
    <3>3. Bit(Xor[y][x], i) = (Bit(y, i) + Bit(x, i)) % 2
      BY XorBits
    <3> QED
      BY <3>1, <3>2, <3>3
  <2> QED
    BY <2>1, <2>2, SameBits
<1>2. ASSUME NEW x \in Byte, NEW y \in Byte, NEW z \in Byte
      PROVE  Xor[Xor[x][y]][z] = Xor[x][Xor[y][z]]
  <2>1. /\ Xor[x][y] \in Byte /\ Xor[y][z] \in Byte
        /\ Xor[Xor[x][y]][z] \in Byte /\ Xor[x][Xor[y][z]] \in Byte
    BY XorBits
  <2>2. ASSUME NEW i \in 0..7 PROVE Bit(Xor[Xor[x][y]][z], i) = Bit(Xor[x][Xor[y][z]], i)
    <3>1. Bit(x, i) \in 0..1 /\ Bit(y, i) \in 0..1 /\ Bit(z, i) \in 0..1
      BY ByteOfBits
    <3>2. Bit(Xor[Xor[x][y]][z], i) = (((Bit(x, i) + Bit(y, i)) % 2) + Bit(z, i)) % 2
      BY <2>1, XorBits
    <3>3. Bit(Xor[x][Xor[y][z]], i) = (Bit(x, i) + ((Bit(y, i) + Bit(z, i)) % 2)) % 2
      BY <2>1, XorBits
    <3> QED
      BY <3>1, <3>2, <3>3
  <2> QED
    BY <2>1, <2>2, SameBits
<1>3. 0 \in Byte /\ \A i \in 0..7 : Bit(0, i) = 0
  <2>1. 0 \in Byte
    BY DEF Byte
  <2>2. Bit(0, 0) = 0 /\ Bit(0, 1) = 0 /\ Bit(0, 2) = 0 /\ Bit(0, 3) = 0
        /\ Bit(0, 4) = 0 /\ Bit(0, 5) = 0 /\ Bit(0, 6) = 0 /\ Bit(0, 7) = 0
    BY Powers DEF Bit
  <2>3. \A i \in 0..7 : i \in {0, 1, 2, 3, 4, 5, 6, 7}
    OBVIOUS
  <2> QED
    BY <2>1, <2>2, <2>3
<1>4. ASSUME NEW x \in Byte PROVE Xor[x][0] = x /\ Xor[x][x] = 0
  <2>1. Xor[x][0] \in Byte /\ Xor[x][x] \in Byte
    BY <1>3, XorBits
  <2>2. ASSUME NEW i \in 0..7 PROVE Bit(Xor[x][0], i) = Bit(x, i) /\ Bit(Xor[x][x], i) = Bit(0, i)
    <3>1. Bit(x, i) \in 0..1 /\ Bit(0, i) = 0
      BY <1>3, ByteOfBits
    <3>2. Bit(Xor[x][0], i) = (Bit(x, i) + Bit(0, i)) % 2
      BY <1>3, XorBits
    <3>3. Bit(Xor[x][x], i) = (Bit(x, i) + Bit(x, i)) % 2
      BY XorBits
    <3> QED
      BY <3>1, <3>2, <3>3
  <2> QED
    BY <1>3, <2>1, <2>2, SameBits
<1> QED
  BY <1>1, <1>2, <1>4

\* Exclusive or regroups its operands, ...
LEMMA XorRegroup ==
  ASSUME NEW x \in Byte, NEW y \in Byte, NEW z \in Byte
  PROVE  Xor[Xor[x][y]][z] = Xor[x][Xor[y][z]]
BY XorLaws

\* ... and two in the middle of four change places.
LEMMA XorSwap ==
  ASSUME NEW a \in Byte, NEW b \in Byte, NEW c \in Byte, NEW d \in Byte
  PROVE  Xor[Xor[a][b]][Xor[c][d]] = Xor[Xor[a][c]][Xor[b][d]]
<1>1. Xor[c][d] \in Byte /\ Xor[b][d] \in Byte
  BY XorLaws
<1>2. Xor[Xor[a][b]][Xor[c][d]] = Xor[a][Xor[b][Xor[c][d]]]
  BY <1>1, XorRegroup
<1>3. Xor[b][Xor[c][d]] = Xor[Xor[b][c]][d]
  BY XorRegroup
<1>4. Xor[b][c] = Xor[c][b]
  BY XorLaws
<1>5. Xor[Xor[c][b]][d] = Xor[c][Xor[b][d]]
  BY XorRegroup
<1>6. Xor[a][Xor[c][Xor[b][d]]] = Xor[Xor[a][c]][Xor[b][d]]
  BY <1>1, XorRegroup
<1> QED
  BY <1>2, <1>3, <1>4, <1>5, <1>6

\* The values of a checksum.
Sum16 == 0 .. 65535

\* Zero is a checksum, and so is the upper byte of any.
LEMMA ZeroSum == 0 \in Sum16 /\ \A x \in Sum16 : x \div 256 \in Sum16
<1>1. 0 \in Sum16
  BY SMT DEF Sum16
<1>2. ASSUME NEW x \in Sum16 PROVE x \div 256 \in Sum16
  BY SMT DEF Sum16
<1> QED
  BY <1>1, <1>2

\* A checksum is its two bytes, ...
LEMMA Bytes16 ==
  ASSUME NEW x \in Sum16
  PROVE  x \div 256 \in Byte /\ x % 256 \in Byte /\ x = 256 * (x \div 256) + (x % 256)
BY SMT DEF Sum16, Byte

\* ... any two bytes are those of a checksum, ...
LEMMA Word16 ==
  ASSUME NEW h \in Byte, NEW l \in Byte, NEW x, x = 256 * h + l
  PROVE  x \in Sum16 /\ x \div 256 = h /\ x % 256 = l
BY SMT DEF Sum16, Byte

\* ... exclusive or works on both by themselves, ...
LEMMA Xor16Bytes ==
  ASSUME NEW x \in Sum16, NEW y \in Sum16
  PROVE  /\ Xor16(x, y) \in Sum16
         /\ Xor16(x, y) \div 256 = Xor[x \div 256][y \div 256]
         /\ Xor16(x, y) % 256 = Xor[x % 256][y % 256]
<1>1. Xor[x \div 256][y \div 256] \in Byte /\ Xor[x % 256][y % 256] \in Byte
  BY Bytes16, XorLaws
<1>2. Xor16(x, y) = 256 * Xor[x \div 256][y \div 256] + Xor[x % 256][y % 256]
  BY DEF Xor16
<1> HIDE DEF Xor16
<1> QED
  BY <1>1, <1>2, Word16

\* ... and checksums with the same bytes are the same.
LEMMA SameBytes ==
  ASSUME NEW x \in Sum16, NEW y \in Sum16, x \div 256 = y \div 256, x % 256 = y % 256
  PROVE  x = y
BY Bytes16

\* Checksums too are a group in which every element is its own inverse.
LEMMA Xor16Laws ==
  /\ \A x, y \in Sum16 : Xor16(x, y) = Xor16(y, x)
  /\ \A x \in Sum16 : Xor16(x, 0) = x /\ Xor16(x, x) = 0
<1>1. ASSUME NEW x \in Sum16, NEW y \in Sum16 PROVE Xor16(x, y) = Xor16(y, x)
  <2>1. /\ Xor[x \div 256][y \div 256] = Xor[y \div 256][x \div 256]
        /\ Xor[x % 256][y % 256] = Xor[y % 256][x % 256]
    BY Bytes16, XorLaws
  <2> QED
    BY <2>1 DEF Xor16
<1>2. ASSUME NEW x \in Sum16 PROVE Xor16(x, 0) = x /\ Xor16(x, x) = 0
  <2>1. 0 \div 256 = 0 /\ 0 % 256 = 0
    BY SMT
  <2>2. /\ Xor[x \div 256][0] = x \div 256 /\ Xor[x % 256][0] = x % 256
        /\ Xor[x \div 256][x \div 256] = 0 /\ Xor[x % 256][x % 256] = 0
    BY Bytes16, XorLaws
  <2>3. Xor16(x, 0) = 256 * (x \div 256) + (x % 256)
    BY <2>1, <2>2 DEF Xor16
  <2>4. Xor16(x, x) = 256 * 0 + 0
    BY <2>2 DEF Xor16
  <2> QED
    BY <2>3, <2>4, Bytes16
<1> QED
  BY <1>1, <1>2

\* The two in the middle of four change places here too.
LEMMA Xor16Swap ==
  ASSUME NEW a \in Sum16, NEW b \in Sum16, NEW c \in Sum16, NEW d \in Sum16
  PROVE  Xor16(Xor16(a, b), Xor16(c, d)) = Xor16(Xor16(a, c), Xor16(b, d))
<1>1. /\ Xor16(a, b) \in Sum16 /\ Xor16(c, d) \in Sum16
      /\ Xor16(a, c) \in Sum16 /\ Xor16(b, d) \in Sum16
  BY Xor16Bytes
<1>2. /\ Xor16(Xor16(a, b), Xor16(c, d)) \in Sum16
      /\ Xor16(Xor16(a, c), Xor16(b, d)) \in Sum16
  BY <1>1, Xor16Bytes
<1>3. Xor16(Xor16(a, b), Xor16(c, d)) \div 256 = Xor16(Xor16(a, c), Xor16(b, d)) \div 256
  <2> DEFINE H(w) == w \div 256
  <2>1. H(a) \in Byte /\ H(b) \in Byte /\ H(c) \in Byte /\ H(d) \in Byte
    BY Bytes16
  <2>2. Xor[Xor[H(a)][H(b)]][Xor[H(c)][H(d)]] = Xor[Xor[H(a)][H(c)]][Xor[H(b)][H(d)]]
    BY <2>1, XorSwap
  <2>3. /\ H(Xor16(Xor16(a, b), Xor16(c, d))) = Xor[Xor[H(a)][H(b)]][Xor[H(c)][H(d)]]
        /\ H(Xor16(Xor16(a, c), Xor16(b, d))) = Xor[Xor[H(a)][H(c)]][Xor[H(b)][H(d)]]
    BY <1>1, Xor16Bytes
  <2> QED
    BY <2>2, <2>3
<1>4. Xor16(Xor16(a, b), Xor16(c, d)) % 256 = Xor16(Xor16(a, c), Xor16(b, d)) % 256
  <2> DEFINE L(w) == w % 256
  <2>1. L(a) \in Byte /\ L(b) \in Byte /\ L(c) \in Byte /\ L(d) \in Byte
    BY Bytes16
  <2>2. Xor[Xor[L(a)][L(b)]][Xor[L(c)][L(d)]] = Xor[Xor[L(a)][L(c)]][Xor[L(b)][L(d)]]
    BY <2>1, XorSwap
  <2>3. /\ L(Xor16(Xor16(a, b), Xor16(c, d))) = Xor[Xor[L(a)][L(b)]][Xor[L(c)][L(d)]]
        /\ L(Xor16(Xor16(a, c), Xor16(b, d))) = Xor[Xor[L(a)][L(c)]][Xor[L(b)][L(d)]]
    BY <1>1, Xor16Bytes
  <2> QED
    BY <2>2, <2>3
<1> QED
  BY <1>2, <1>3, <1>4, SameBytes

\* Halving, the shift of the checksum, goes along with exclusive or: what becomes
\* of the byte l, the lowest bit of h being shifted into it.
Half(l, h) == (l \div 2) + 128 * (h % 2)

\* Its bits are those of l, moved down, below the lowest of h.
LEMMA HalfByte ==
  ASSUME NEW l \in Byte, NEW h \in Byte
  PROVE  /\ Half(l, h) \in Byte /\ Bit(Half(l, h), 7) = Bit(h, 0)
         /\ \A i \in 0..6 : Bit(Half(l, h), i) = Bit(l, i + 1)
<1> DEFINE y == Half(l, h)
<1>1. Bit(h, 0) = h % 2 /\ h % 2 \in 0..1
  BY Powers DEF Bit, Byte
<1>2. l = Bit(l, 0) + 2 * Bit(l, 1) + 4 * Bit(l, 2) + 8 * Bit(l, 3) + 16 * Bit(l, 4)
                + 32 * Bit(l, 5) + 64 * Bit(l, 6) + 128 * Bit(l, 7)
  BY ByteOfBits
<1>3. /\ Bit(l, 0) \in 0..1 /\ Bit(l, 1) \in 0..1 /\ Bit(l, 2) \in 0..1 /\ Bit(l, 3) \in 0..1
      /\ Bit(l, 4) \in 0..1 /\ Bit(l, 5) \in 0..1 /\ Bit(l, 6) \in 0..1 /\ Bit(l, 7) \in 0..1
  BY ByteOfBits
<1>4. l \div 2 = Bit(l, 1) + 2 * Bit(l, 2) + 4 * Bit(l, 3) + 8 * Bit(l, 4)
                + 16 * Bit(l, 5) + 32 * Bit(l, 6) + 64 * Bit(l, 7)
  BY <1>2, <1>3
<1>5. y = Bit(l, 1) + 2 * Bit(l, 2) + 4 * Bit(l, 3) + 8 * Bit(l, 4)
                + 16 * Bit(l, 5) + 32 * Bit(l, 6) + 64 * Bit(l, 7) + 128 * Bit(h, 0)
  BY <1>1, <1>3, <1>4 DEF Half
<1> HIDE DEF y
<1>6. /\ y \in Byte
      /\ Bit(y, 0) = Bit(l, 1) /\ Bit(y, 1) = Bit(l, 2) /\ Bit(y, 2) = Bit(l, 3)
      /\ Bit(y, 3) = Bit(l, 4) /\ Bit(y, 4) = Bit(l, 5) /\ Bit(y, 5) = Bit(l, 6)
      /\ Bit(y, 6) = Bit(l, 7) /\ Bit(y, 7) = Bit(h, 0)
  BY <1>1, <1>3, <1>5, BitsOfSum
<1>7. ASSUME NEW i \in 0..6 PROVE Bit(y, i) = Bit(l, i + 1)
  <2>1. \/ (i = 0 /\ i + 1 = 1) \/ (i = 1 /\ i + 1 = 2) \/ (i = 2 /\ i + 1 = 3)
        \/ (i = 3 /\ i + 1 = 4) \/ (i = 4 /\ i + 1 = 5) \/ (i = 5 /\ i + 1 = 6)
        \/ (i = 6 /\ i + 1 = 7)
    OBVIOUS
  <2> QED
    BY <1>6, <2>1
<1> QED
  BY <1>6, <1>7 DEF y

\* So it goes along with exclusive or in both arguments.
LEMMA HalfXor ==
  ASSUME NEW l \in Byte, NEW h \in Byte, NEW k \in Byte, NEW g \in Byte
  PROVE  Half(Xor[l][k], Xor[h][g]) = Xor[Half(l, h)][Half(k, g)]
<1>1. Xor[l][k] \in Byte /\ Xor[h][g] \in Byte
  BY XorLaws
<1>2. Half(l, h) \in Byte /\ Half(k, g) \in Byte /\ Half(Xor[l][k], Xor[h][g]) \in Byte
  BY <1>1, HalfByte
<1>3. Xor[Half(l, h)][Half(k, g)] \in Byte
  BY <1>2, XorLaws
<1>4. ASSUME NEW i \in 0..6
      PROVE  Bit(Half(Xor[l][k], Xor[h][g]), i) = Bit(Xor[Half(l, h)][Half(k, g)], i)
  <2>1. i \in 0..7 /\ i + 1 \in 0..7
    OBVIOUS
  <2>2. Bit(Half(Xor[l][k], Xor[h][g]), i) = Bit(Xor[l][k], i + 1)
    BY <1>1, HalfByte
  <2>3. Bit(Xor[l][k], i + 1) = (Bit(l, i + 1) + Bit(k, i + 1)) % 2
    BY <2>1, XorBits
  <2>4. Bit(Half(l, h), i) = Bit(l, i + 1) /\ Bit(Half(k, g), i) = Bit(k, i + 1)
    BY HalfByte
  <2>5. Bit(Xor[Half(l, h)][Half(k, g)], i) = (Bit(Half(l, h), i) + Bit(Half(k, g), i)) % 2
    BY <1>2, <2>1, XorBits
  <2> QED
    BY <2>2, <2>3, <2>4, <2>5
<1>5. Bit(Half(Xor[l][k], Xor[h][g]), 7) = Bit(Xor[Half(l, h)][Half(k, g)], 7)
  <2>1. Bit(Half(Xor[l][k], Xor[h][g]), 7) = Bit(Xor[h][g], 0)
    BY <1>1, HalfByte
  <2>2. Bit(Xor[h][g], 0) = (Bit(h, 0) + Bit(g, 0)) % 2
    BY XorBits
  <2>3. Bit(Half(l, h), 7) = Bit(h, 0) /\ Bit(Half(k, g), 7) = Bit(g, 0)
    BY HalfByte
  <2>4. Bit(Xor[Half(l, h)][Half(k, g)], 7) = (Bit(Half(l, h), 7) + Bit(Half(k, g), 7)) % 2
    BY <1>2, XorBits
  <2> QED
    BY <2>1, <2>2, <2>3, <2>4
<1>6. \A i \in 0..7 : i \in 0..6 \/ i = 7
  OBVIOUS
<1> QED
  BY <1>2, <1>3, <1>4, <1>5, <1>6, SameBits

\* Half a checksum has half its upper byte, and half its lower byte with the bit
\* that leaves the upper one.
LEMMA HalfBytes ==
  ASSUME NEW x \in Sum16
  PROVE  /\ x \div 2 \in Sum16
         /\ (x \div 2) \div 256 = Half(x \div 256, 0)
         /\ (x \div 2) % 256 = Half(x % 256, x \div 256)
<1> DEFINE h == x \div 256
           l == x % 256
<1>1. h \in Byte /\ l \in Byte /\ x = 256 * h + l
  BY Bytes16
<1> HIDE DEF h, l
<1>2. h \in 0..255 /\ l \in 0..255
  BY <1>1 DEF Byte
<1>3. x \div 2 = 256 * (h \div 2) + ((l \div 2) + 128 * (h % 2))
  BY <1>1, <1>2, SMT
<1>4. h \div 2 \in Byte /\ (l \div 2) + 128 * (h % 2) \in Byte
  BY <1>2, SMT DEF Byte
<1>5. (h \div 2) + 128 * (0 % 2) = h \div 2
  BY <1>2, SMT
<1>6. x \div 2 \in Sum16 /\ (x \div 2) \div 256 = h \div 2
      /\ (x \div 2) % 256 = (l \div 2) + 128 * (h % 2)
  BY <1>3, <1>4, Word16
<1> QED
  BY <1>5, <1>6 DEF Half, h, l

\* The shift of the checksum goes along with exclusive or.
LEMMA Half16Xor ==
  ASSUME NEW x \in Sum16, NEW y \in Sum16
  PROVE  Xor16(x, y) \div 2 = Xor16(x \div 2, y \div 2)
<1> DEFINE z == Xor16(x, y)
<1>1. z \in Sum16 /\ z \div 256 = Xor[x \div 256][y \div 256] /\ z % 256 = Xor[x % 256][y % 256]
  BY Xor16Bytes
<1>2. x \div 256 \in Byte /\ x % 256 \in Byte /\ y \div 256 \in Byte /\ y % 256 \in Byte
  BY Bytes16
<1>3. 0 \in Byte /\ Xor[0][0] = 0
  <2>1. 0 \in Byte
    BY DEF Byte
  <2> QED
    BY <2>1, XorLaws
<1> HIDE DEF z
<1>4. (z \div 2) \div 256 = Xor[(x \div 2) \div 256][(y \div 2) \div 256]
  <2>1. (z \div 2) \div 256 = Half(Xor[x \div 256][y \div 256], Xor[0][0])
    BY <1>1, <1>3, HalfBytes
  <2>2. Half(Xor[x \div 256][y \div 256], Xor[0][0])
          = Xor[Half(x \div 256, 0)][Half(y \div 256, 0)]
    BY <1>2, <1>3, HalfXor
  <2>3. Half(x \div 256, 0) = (x \div 2) \div 256 /\ Half(y \div 256, 0) = (y \div 2) \div 256
    BY HalfBytes
  <2> QED
    BY <2>1, <2>2, <2>3
<1>5. (z \div 2) % 256 = Xor[(x \div 2) % 256][(y \div 2) % 256]
  <2>1. (z \div 2) % 256 = Half(Xor[x % 256][y % 256], Xor[x \div 256][y \div 256])
    BY <1>1, HalfBytes
  <2>2. Half(Xor[x % 256][y % 256], Xor[x \div 256][y \div 256])
          = Xor[Half(x % 256, x \div 256)][Half(y % 256, y \div 256)]
    BY <1>2, HalfXor
  <2>3. /\ Half(x % 256, x \div 256) = (x \div 2) % 256
        /\ Half(y % 256, y \div 256) = (y \div 2) % 256
    BY HalfBytes
  <2> QED
    BY <2>1, <2>2, <2>3
<1>6. z \div 2 \in Sum16 /\ x \div 2 \in Sum16 /\ y \div 2 \in Sum16
  BY <1>1, HalfBytes
<1>7. z \div 2 = 256 * ((z \div 2) \div 256) + ((z \div 2) % 256)
  BY <1>6, Bytes16
<1> QED
  BY <1>4, <1>5, <1>7 DEF z, Xor16

\* Induction.  A set of numbers that is not empty has a least one, ...
LEMMA LeastNumber ==
  ASSUME NEW T \in SUBSET Nat, T # {}
  PROVE  \E x \in T : \A y \in T : x <= y
<1>1. PICK x \in T : \A y \in T : ~(<< y, x >> \in OpToRel(<, Nat))
  BY NatLessThanWellFounded, WFMin
<1>2. ASSUME NEW y \in T PROVE x <= y
  <2>1. << y, x >> \in Nat \X Nat
    OBVIOUS
  <2>2. ~(y < x)
    BY <1>1, <2>1 DEF OpToRel
  <2>3. x \in Nat /\ y \in Nat
    OBVIOUS
  <2> QED
    BY <2>2, <2>3
<1> QED
  BY <1>2

\* ... so that one with 0 and with the successors of its elements has them all.  The
\* set takes the place of the formula the library's theorems are instantiated with.
LEMMA NumbersFromZero ==
  ASSUME NEW P, 0 \in P, \A n \in Nat : n \in P => n + 1 \in P
  PROVE  \A n \in Nat : n \in P
<1> DEFINE T == {n \in Nat : n \notin P}
<1> SUFFICES ASSUME T # {} PROVE FALSE
  OBVIOUS
<1>1. PICK x \in T : \A y \in T : x <= y
  BY LeastNumber
<1>2. x \in Nat /\ x # 0 /\ x - 1 \in Nat /\ x - 1 \notin T
  BY <1>1
<1>3. (x - 1) + 1 \in P
  BY <1>2
<1> QED
  BY <1>1, <1>2, <1>3

-----------------------------------------------------------------------------
\* k is the recursive function over 0..n that begins with a and has F[i] make its
\* value for i of the one before.
Solves(k, n, V, a, F) ==
  k \in [0..n -> V] /\ k[0] = a /\ \A i \in 1..n : k[i] = F[i][k[i - 1]]

\* It exists: functions that solve the equation up to m exist for every m, one
\* extending the other.
LEMMA Recursion ==
  ASSUME NEW n \in Nat, NEW V, NEW a \in V, NEW F \in [1..n -> [V -> V]]
  PROVE  \E k : Solves(k, n, V, a, F)
<1> DEFINE Upto == {m \in Nat : m <= n => \E k : Solves(k, m, V, a, F)}
<1>1. 0 \in Upto
  <2> DEFINE k == [m \in 0..0 |-> a]
  <2>1. Solves(k, 0, V, a, F)
    BY DEF Solves
  <2> QED
    BY <2>1
<1>2. ASSUME NEW m \in Nat, m \in Upto PROVE m + 1 \in Upto
  <2> SUFFICES ASSUME m + 1 <= n PROVE \E k : Solves(k, m + 1, V, a, F)
    OBVIOUS
  <2>1. PICK k : Solves(k, m, V, a, F)
    BY <1>2
  <2> DEFINE g == [i \in 0..(m + 1) |-> IF i = m + 1 THEN F[m + 1][k[m]] ELSE k[i]]
  <2>2. k \in [0..m -> V] /\ k[0] = a /\ \A i \in 1..m : k[i] = F[i][k[i - 1]]
    BY <2>1 DEF Solves
  <2>3. F[m + 1][k[m]] \in V
    <3>1. k[m] \in V /\ m + 1 \in 1..n
      BY <2>2
    <3> QED
      BY <3>1
  <2>4. g \in [0..(m + 1) -> V] /\ g[m + 1] = F[m + 1][k[m]]
    BY <2>2, <2>3
  <2>5. \A i \in 0..m : g[i] = k[i]
    OBVIOUS
  <2> HIDE DEF g
  <2>6. ASSUME NEW i \in 1..(m + 1) PROVE g[i] = F[i][g[i - 1]]
    <3>1. i - 1 \in 0..m /\ g[i - 1] = k[i - 1]
      BY <2>5
    <3>2. CASE i = m + 1
      BY <2>4, <3>1, <3>2
    <3>3. CASE i # m + 1
      <4>1. i \in 1..m /\ i \in 0..m
        BY <3>3
      <4> QED
        BY <2>2, <2>5, <3>1, <4>1
    <3> QED
      BY <3>2, <3>3
  <2>7. 0 \in 0..m
    OBVIOUS
  <2>8. Solves(g, m + 1, V, a, F)
    BY <2>2, <2>4, <2>5, <2>6, <2>7 DEF Solves
  <2> QED
    BY <2>8
<1> HIDE DEF Upto
<1>3. n \in Upto
  BY <1>1, <1>2, NumbersFromZero
<1> QED
  BY <1>3 DEF Upto

\* A function with that equation has its values in V.
LEMMA RecursionType ==
  ASSUME NEW n \in Nat, NEW V, NEW a \in V, NEW F \in [1..n -> [V -> V]],
         NEW K, K = [i \in 0..n |-> K[i]], K[0] = a,
         \A i \in 1..n : K[i - 1] \in V => K[i] = F[i][K[i - 1]]
  PROVE  Solves(K, n, V, a, F)
<1> DEFINE P == {i \in Nat : i <= n => K[i] \in V}
<1>1. 0 \in P
  OBVIOUS
<1>2. ASSUME NEW i \in Nat, i \in P PROVE i + 1 \in P
  <2> SUFFICES ASSUME i + 1 <= n PROVE K[i + 1] \in V
    OBVIOUS
  <2>1. i + 1 \in 1..n /\ (i + 1) - 1 = i /\ K[i] \in V
    BY <1>2
  <2>2. K[i + 1] = F[i + 1][K[i]]
    BY <2>1
  <2> QED
    BY <2>1, <2>2
<1> HIDE DEF P
<1>3. \A i \in Nat : i \in P
  BY <1>1, <1>2, NumbersFromZero
<1>4. \A i \in 0..n : K[i] \in V
  BY <1>3 DEF P
<1>5. \A i \in 1..n : i - 1 \in 0..n
  OBVIOUS
<1> QED
  BY <1>4, <1>5 DEF Solves

\* One of the eight shifts of a checksum, with the bit b of the byte.
Shift(w, b) == IF w % 2 # b THEN Xor16(w \div 2, 40961) ELSE w \div 2

\* It is a checksum again.
LEMMA ShiftType ==
  ASSUME NEW w \in Sum16, NEW b
  PROVE  Shift(w, b) \in Sum16
<1>1. 40961 \in Sum16
  BY SMT DEF Sum16
<1>2. w \div 2 \in Sum16
  BY HalfBytes
<1>3. Xor16(w \div 2, 40961) \in Sum16
  BY <1>1, <1>2, Xor16Bytes
<1> QED
  BY <1>2, <1>3 DEF Shift

\* The bit shifted out goes along with exclusive or, ...
LEMMA LowBit ==
  ASSUME NEW x \in Sum16, NEW y \in Sum16
  PROVE  x % 2 \in 0..1 /\ y % 2 \in 0..1 /\ Xor16(x, y) % 2 = ((x % 2) + (y % 2)) % 2
<1>1. ASSUME NEW w \in Sum16 PROVE w % 2 = Bit(w % 256, 0) /\ w % 2 \in 0..1
  <2>1. w % 2 = (w % 256) % 2 /\ w % 2 \in 0..1
    BY SMT DEF Sum16
  <2>2. (w % 256) \div 2^0 = w % 256
    BY Powers, SMT DEF Sum16
  <2> QED
    BY <2>1, <2>2 DEF Bit
<1>2. Xor16(x, y) \in Sum16 /\ Xor16(x, y) % 256 = Xor[x % 256][y % 256]
  BY Xor16Bytes
<1>3. x % 256 \in Byte /\ y % 256 \in Byte
  BY Bytes16
<1>4. Bit(Xor[x % 256][y % 256], 0) = (Bit(x % 256, 0) + Bit(y % 256, 0)) % 2
  BY <1>3, XorBits
<1> QED
  BY <1>1, <1>2, <1>4

\* ... and so does the shift.
LEMMA ShiftXor ==
  ASSUME NEW x \in Sum16, NEW y \in Sum16, NEW a \in 0..1, NEW b \in 0..1
  PROVE  Shift(Xor16(x, y), (a + b) % 2) = Xor16(Shift(x, a), Shift(y, b))
<1> DEFINE p == 40961
           u == x \div 2
           v == y \div 2
<1>1. p \in Sum16 /\ 0 \in Sum16
  BY SMT DEF Sum16
<1>2. u \in Sum16 /\ v \in Sum16 /\ Xor16(u, v) \in Sum16
  BY HalfBytes, Xor16Bytes
<1>3. Xor16(x, y) \div 2 = Xor16(u, v)
  BY Half16Xor
<1>4. /\ Shift(x, a) = IF x % 2 # a THEN Xor16(u, p) ELSE u
      /\ Shift(y, b) = IF y % 2 # b THEN Xor16(v, p) ELSE v
      /\ Shift(Xor16(x, y), (a + b) % 2)
           = IF ((x % 2) + (y % 2)) % 2 # (a + b) % 2 THEN Xor16(Xor16(u, v), p)
             ELSE Xor16(u, v)
  BY <1>3, LowBit DEF Shift
<1>5. x % 2 \in 0..1 /\ y % 2 \in 0..1
  BY LowBit
<1> HIDE DEF p, u, v
<1>6. CASE x % 2 # a /\ y % 2 # b
  <2>1. ((x % 2) + (y % 2)) % 2 = (a + b) % 2
    BY <1>5, <1>6
  <2>2. Xor16(Xor16(u, p), Xor16(v, p)) = Xor16(Xor16(u, v), Xor16(p, p))
    BY <1>1, <1>2, Xor16Swap
  <2>3. Xor16(p, p) = 0 /\ Xor16(Xor16(u, v), 0) = Xor16(u, v)
    BY <1>1, <1>2, Xor16Laws
  <2> QED
    BY <1>4, <1>6, <2>1, <2>2, <2>3
<1>7. CASE x % 2 # a /\ y % 2 = b
  <2>1. ((x % 2) + (y % 2)) % 2 # (a + b) % 2
    <3>1. (x % 2) + (y % 2) \in 0..2 /\ a + b \in 0..2 /\ x % 2 = 1 - a
      BY <1>5, <1>7
    <3> QED
      BY <1>5, <1>7, <3>1
  <2>2. Xor16(Xor16(u, p), Xor16(v, 0)) = Xor16(Xor16(u, v), Xor16(p, 0))
    BY <1>1, <1>2, Xor16Swap
  <2>3. Xor16(p, 0) = p /\ Xor16(v, 0) = v
    BY <1>1, <1>2, Xor16Laws
  <2> QED
    BY <1>4, <1>7, <2>1, <2>2, <2>3
<1>8. CASE x % 2 = a /\ y % 2 # b
  <2>1. ((x % 2) + (y % 2)) % 2 # (a + b) % 2
    BY <1>5, <1>8
  <2>2. Xor16(Xor16(u, 0), Xor16(v, p)) = Xor16(Xor16(u, v), Xor16(0, p))
    BY <1>1, <1>2, Xor16Swap
  <2>3. Xor16(0, p) = Xor16(p, 0) /\ Xor16(p, 0) = p /\ Xor16(u, 0) = u
    BY <1>1, <1>2, Xor16Laws
  <2> QED
    BY <1>4, <1>8, <2>1, <2>2, <2>3
<1>9. CASE x % 2 = a /\ y % 2 = b
  BY <1>4, <1>9
<1> QED
  BY <1>6, <1>7, <1>8, <1>9

\* An entry of the table is the result of eight shifts, one per bit of the byte.
LEMMA TableDef ==
  ASSUME NEW c \in Byte
  PROVE  \E k \in [0..8 -> Sum16] :
           /\ k[0] = 0 /\ crc_tab16[c] = k[8]
           /\ \A j \in 1..8 : k[j] = Shift(k[j - 1], Bit(c, j - 1))
<1> DEFINE F == [j \in 1..8 |-> [w \in Sum16 |-> Shift(w, Bit(c, j - 1))]]
           Body(k, j) == IF j = 0 THEN 0
                         ELSE LET last == k[j - 1]
                              IN  IF last % 2 # Bit(c, j - 1) THEN Xor16(last \div 2, 40961)
                                  ELSE last \div 2
           K == CHOOSE k : k = [j \in 0..8 |-> Body(k, j)]
<1>1. crc_tab16[c] = K[8]
  BY DEF crc_tab16
<1>2. F \in [1..8 -> [Sum16 -> Sum16]]
  BY ShiftType
<1>3. 0 \in Sum16 /\ 8 \in Nat
  BY SMT DEF Sum16
<1>4. ASSUME NEW f, NEW j \in 1..8, f[j - 1] \in Sum16 PROVE Body(f, j) = F[j][f[j - 1]]
  BY <1>4 DEF Shift
<1>5. \A f : Body(f, 0) = 0
  OBVIOUS
<1> HIDE DEF F, Body
<1>6. PICK k : Solves(k, 8, Sum16, 0, F)
  BY <1>2, <1>3, Recursion
<1>7. \A j \in 0..8 : k[j] = Body(k, j)
  <2> SUFFICES ASSUME NEW j \in 0..8, j # 0 PROVE k[j] = Body(k, j)
    BY <1>5, <1>6 DEF Solves
  <2>1. j \in 1..8 /\ k[j - 1] \in Sum16
    BY <1>6 DEF Solves
  <2> QED
    BY <1>4, <1>6, <2>1 DEF Solves
<1>8. k = [j \in 0..8 |-> Body(k, j)]
  BY <1>6, <1>7 DEF Solves
<1>9. K = [j \in 0..8 |-> Body(K, j)]
  BY <1>8
<1> HIDE DEF K
<1>10. K[0] = 0 /\ K = [j \in 0..8 |-> K[j]]
  BY <1>5, <1>9
<1>11. \A j \in 1..8 : K[j - 1] \in Sum16 => K[j] = F[j][K[j - 1]]
  BY <1>4, <1>9
<1>12. Solves(K, 8, Sum16, 0, F)
  BY <1>2, <1>3, <1>10, <1>11, RecursionType
<1>13. \A j \in 1..8 : K[j - 1] \in Sum16
  BY <1>12 DEF Solves
<1>14. \A j \in 1..8 : K[j] = Shift(K[j - 1], Bit(c, j - 1))
  BY <1>12, <1>13 DEF Solves, F
<1> QED
  BY <1>1, <1>12, <1>14 DEF Solves

\* The entry of an exclusive or is that of the entries, by induction on the shifts.
LEMMA TableXor ==
  ASSUME NEW c \in Byte, NEW d \in Byte
  PROVE  /\ crc_tab16[c] \in Sum16
         /\ crc_tab16[Xor[c][d]] = Xor16(crc_tab16[c], crc_tab16[d])
<1>1. PICK k \in [0..8 -> Sum16] : k[0] = 0 /\ crc_tab16[c] = k[8]
                                   /\ \A j \in 1..8 : k[j] = Shift(k[j - 1], Bit(c, j - 1))
  BY TableDef
<1>2. PICK g \in [0..8 -> Sum16] : g[0] = 0 /\ crc_tab16[d] = g[8]
                                   /\ \A j \in 1..8 : g[j] = Shift(g[j - 1], Bit(d, j - 1))
  BY TableDef
<1>3. Xor[c][d] \in Byte
  BY XorLaws
<1>4. PICK h \in [0..8 -> Sum16] :
        h[0] = 0 /\ crc_tab16[Xor[c][d]] = h[8]
        /\ \A j \in 1..8 : h[j] = Shift(h[j - 1], Bit(Xor[c][d], j - 1))
  BY <1>3, TableDef
<1> DEFINE P == {j \in Nat : j <= 8 => h[j] = Xor16(k[j], g[j])}
<1>5. 0 \in P
  <2>1. 0 \in Sum16
    BY ZeroSum
  <2> QED
    BY <1>1, <1>2, <1>4, <2>1, Xor16Laws
<1>6. ASSUME NEW j \in Nat, j \in P PROVE j + 1 \in P
  <2> SUFFICES ASSUME j + 1 <= 8 PROVE h[j + 1] = Xor16(k[j + 1], g[j + 1])
    OBVIOUS
  <2>1. j \in 0..7 /\ j \in 0..8 /\ j + 1 \in 1..8 /\ (j + 1) - 1 = j /\ h[j] = Xor16(k[j], g[j])
    BY <1>6
  <2>2. /\ k[j + 1] = Shift(k[j], Bit(c, j)) /\ g[j + 1] = Shift(g[j], Bit(d, j))
        /\ h[j + 1] = Shift(h[j], Bit(Xor[c][d], j))
    BY <1>1, <1>2, <1>4, <2>1
  <2>3. k[j] \in Sum16 /\ g[j] \in Sum16
    BY <2>1
  <2>4. /\ Bit(c, j) \in 0..1 /\ Bit(d, j) \in 0..1
        /\ Bit(Xor[c][d], j) = (Bit(c, j) + Bit(d, j)) % 2
    BY <2>1, ByteOfBits, XorBits
  <2> QED
    BY <2>1, <2>2, <2>3, <2>4, ShiftXor
<1> HIDE DEF P
<1>7. 8 \in Nat /\ 8 \in P
  BY <1>5, <1>6, NumbersFromZero
<1>8. h[8] = Xor16(k[8], g[8])
  BY <1>7 DEF P
<1>9. k[8] \in Sum16
  OBVIOUS
<1> QED
  BY <1>1, <1>2, <1>4, <1>8, <1>9

\* The checksum w, one byte later.
Crc(w, b) == Xor16(w \div 256, crc_tab16[Xor[w % 256][b]])

\* It is a checksum again.
LEMMA CrcType ==
  ASSUME NEW w \in Sum16, NEW b \in Byte
  PROVE  Crc(w, b) \in Sum16
<1>1. w \div 256 \in Sum16
  BY SMT DEF Sum16
<1>2. Xor[w % 256][b] \in Byte
  BY Bytes16, XorLaws
<1>3. crc_tab16[Xor[w % 256][b]] \in Sum16
  BY <1>2, TableXor
<1> QED
  BY <1>1, <1>3, Xor16Bytes DEF Crc

\* A byte more goes along with exclusive or.
LEMMA CrcStepXor ==
  ASSUME NEW x \in Sum16, NEW y \in Sum16, NEW b \in Byte, NEW c \in Byte
  PROVE  Crc(Xor16(x, y), Xor[b][c]) = Xor16(Crc(x, b), Crc(y, c))
<1> DEFINE t(z) == crc_tab16[z]
           u == Xor[x % 256][b]
           v == Xor[y % 256][c]
<1>1. x % 256 \in Byte /\ y % 256 \in Byte /\ x \div 256 \in Byte /\ y \div 256 \in Byte
  BY Bytes16
<1>2. u \in Byte /\ v \in Byte
  BY <1>1, XorLaws
<1>3. Xor16(x, y) % 256 = Xor[x % 256][y % 256]
  BY Xor16Bytes
<1>4. Xor[Xor[x % 256][y % 256]][Xor[b][c]] = Xor[u][v]
  BY <1>1, XorSwap
<1>5. t(Xor[u][v]) = Xor16(t(u), t(v)) /\ t(u) \in Sum16 /\ t(v) \in Sum16
  BY <1>2, TableXor
<1>6. Xor16(x, y) \div 256 = Xor16(x \div 256, y \div 256)
  <2>1. Xor16(x, y) \div 256 = Xor[x \div 256][y \div 256]
    BY Xor16Bytes
  <2>2. ASSUME NEW z \in Byte PROVE z \div 256 = 0 /\ z % 256 = z
    BY SMT DEF Byte
  <2>3. Xor16(x \div 256, y \div 256) = 256 * Xor[0][0] + Xor[x \div 256][y \div 256]
    BY <1>1, <2>2 DEF Xor16
  <2>4. Xor[0][0] = 0 /\ Xor[x \div 256][y \div 256] \in Byte
    <3>1. 0 \in Byte
      BY DEF Byte
    <3> QED
      BY <1>1, <3>1, XorLaws
  <2>5. 256 * 0 + Xor[x \div 256][y \div 256] = Xor[x \div 256][y \div 256]
    BY <2>4, SMT DEF Byte
  <2> QED
    BY <2>1, <2>3, <2>4, <2>5
<1>7. x \div 256 \in Sum16 /\ y \div 256 \in Sum16
  BY ZeroSum
<1> HIDE DEF t, u, v
<1>8. Xor16(Xor16(x \div 256, y \div 256), Xor16(t(u), t(v)))
        = Xor16(Xor16(x \div 256, t(u)), Xor16(y \div 256, t(v)))
  BY <1>5, <1>7, Xor16Swap
<1>9. Crc(Xor16(x, y), Xor[b][c]) = Xor16(Xor16(x \div 256, y \div 256), t(Xor[u][v]))
  BY <1>3, <1>4, <1>6 DEF Crc, t
<1>10. Crc(x, b) = Xor16(x \div 256, t(u)) /\ Crc(y, c) = Xor16(y \div 256, t(v))
  BY DEF Crc, t, u, v
<1> QED
  BY <1>5, <1>8, <1>9, <1>10

\* k holds the checksums of the first 0, 1, ... n bytes.
Sums(k, n, bytes) ==
  k \in [0..n -> Sum16] /\ k[0] = 0 /\ \A a \in 1..n : k[a] = Crc(k[a - 1], bytes[a - 1])

\* crc_16 is the last of these sums.
LEMMA CrcDef ==
  ASSUME NEW n \in Nat, NEW bytes, \A i \in 0..(n - 1) : bytes[i] \in Byte
  PROVE  \E k : Sums(k, n, bytes) /\ crc_16(bytes, n) = k[n]
<1> DEFINE F == [a \in 1..n |-> [w \in Sum16 |-> Crc(w, bytes[a - 1])]]
           Body(k, a) == IF a = 0 THEN 0
                         ELSE LET last == k[a - 1]
                              IN  Xor16(last \div 256, crc_tab16[Xor[last % 256][bytes[a - 1]]])
           K == CHOOSE k : k = [a \in 0..n |-> Body(k, a)]
<1>1. crc_16(bytes, n) = K[n]
  BY DEF crc_16
<1>2. F \in [1..n -> [Sum16 -> Sum16]]
  <2>1. \A a \in 1..n : bytes[a - 1] \in Byte
    <3>1. \A a \in 1..n : a - 1 \in 0..(n - 1)
      OBVIOUS
    <3> QED
      BY <3>1
  <2> QED
    BY <2>1, CrcType
<1>3. 0 \in Sum16
  BY ZeroSum
<1>4. ASSUME NEW f, NEW a \in 1..n, f[a - 1] \in Sum16 PROVE Body(f, a) = F[a][f[a - 1]]
  BY <1>4 DEF Crc
<1>5. \A f : Body(f, 0) = 0
  OBVIOUS
<1> HIDE DEF F, Body
<1>6. PICK k : Solves(k, n, Sum16, 0, F)
  BY <1>2, <1>3, Recursion
<1>7. \A a \in 0..n : k[a] = Body(k, a)
  <2> SUFFICES ASSUME NEW a \in 0..n, a # 0 PROVE k[a] = Body(k, a)
    BY <1>5, <1>6 DEF Solves
  <2>1. a \in 1..n /\ k[a - 1] \in Sum16
    BY <1>6 DEF Solves
  <2> QED
    BY <1>4, <1>6, <2>1 DEF Solves
<1>8. k = [a \in 0..n |-> Body(k, a)]
  BY <1>6, <1>7 DEF Solves
<1>9. K = [a \in 0..n |-> Body(K, a)]
  BY <1>8
<1> HIDE DEF K
<1>10. K[0] = 0 /\ K = [a \in 0..n |-> K[a]]
  BY <1>5, <1>9
<1>11. \A a \in 1..n : K[a - 1] \in Sum16 => K[a] = F[a][K[a - 1]]
  BY <1>4, <1>9
<1>12. Solves(K, n, Sum16, 0, F)
  BY <1>2, <1>3, <1>10, <1>11, RecursionType
<1>13. \A a \in 1..n : K[a - 1] \in Sum16
  BY <1>12 DEF Solves
<1>14. \A a \in 1..n : K[a] = Crc(K[a - 1], bytes[a - 1])
  BY <1>12, <1>13 DEF Solves, F
<1> QED
  BY <1>1, <1>12, <1>14 DEF Solves, Sums

\* The checksum of what errors make of some bytes is that of the bytes with that
\* of the errors added, whatever the bytes are.
THEOREM ChecksumOfErrors ==
  ASSUME NEW n \in Nat, NEW bytes, NEW e, NEW word,
         \A i \in 0..(n - 1) : bytes[i] \in Byte /\ e[i] \in Byte /\ word[i] = Xor[bytes[i]][e[i]]
  PROVE  /\ crc_16(bytes, n) \in Sum16 /\ crc_16(e, n) \in Sum16
         /\ crc_16(word, n) = Xor16(crc_16(bytes, n), crc_16(e, n))
<1>1. \A i \in 0..(n - 1) : bytes[i] \in Byte
  OBVIOUS
<1>2. \A i \in 0..(n - 1) : e[i] \in Byte
  OBVIOUS
<1>3. \A i \in 0..(n - 1) : word[i] \in Byte
  BY XorLaws
<1>4. PICK k : Sums(k, n, bytes) /\ crc_16(bytes, n) = k[n]
  BY <1>1, CrcDef
<1>5. PICK g : Sums(g, n, e) /\ crc_16(e, n) = g[n]
  BY <1>2, CrcDef
<1>6. PICK h : Sums(h, n, word) /\ crc_16(word, n) = h[n]
  BY <1>3, CrcDef
<1> DEFINE P == {a \in Nat : a <= n => h[a] = Xor16(k[a], g[a])}
<1>7. 0 \in P
  <2>1. 0 \in Sum16
    BY ZeroSum
  <2> QED
    BY <1>4, <1>5, <1>6, <2>1, Xor16Laws DEF Sums
<1>8. ASSUME NEW a \in Nat, a \in P PROVE a + 1 \in P
  <2> SUFFICES ASSUME a + 1 <= n PROVE h[a + 1] = Xor16(k[a + 1], g[a + 1])
    OBVIOUS
  <2>1. a \in 0..n /\ a \in 0..(n - 1) /\ a + 1 \in 1..n /\ (a + 1) - 1 = a
        /\ h[a] = Xor16(k[a], g[a])
    BY <1>8
  <2>2. /\ k[a + 1] = Crc(k[a], bytes[a]) /\ g[a + 1] = Crc(g[a], e[a])
        /\ h[a + 1] = Crc(h[a], word[a])
    BY <1>4, <1>5, <1>6, <2>1 DEF Sums
  <2>3. k[a] \in Sum16 /\ g[a] \in Sum16
    BY <1>4, <1>5, <2>1 DEF Sums
  <2>4. bytes[a] \in Byte /\ e[a] \in Byte /\ word[a] = Xor[bytes[a]][e[a]]
    BY <2>1
  <2> QED
    BY <2>1, <2>2, <2>3, <2>4, CrcStepXor
<1> HIDE DEF P
<1>9. n \in P
  BY <1>7, <1>8, NumbersFromZero
<1>10. h[n] = Xor16(k[n], g[n])
  BY <1>9 DEF P
<1>11. n \in 0..n
  OBVIOUS
<1> QED
  BY <1>4, <1>5, <1>6, <1>10, <1>11 DEF Sums

\* Of a packet whose checksum is right, and the errors of its way: the word heard
\* passes the check of its handler if and only if the errors by themselves do.
THEOREM VerdictOfErrors ==
  ASSUME NEW kind \in Kinds, NEW bytes, NEW e, NEW word, CrcRight(kind, bytes),
         \A i \in 0..(CrcPlace(kind) + 1) :
           bytes[i] \in Byte /\ e[i] \in Byte /\ word[i] = Xor[bytes[i]][e[i]]
  PROVE  CrcRight(kind, word) <=> CrcRight(kind, e)
<1> DEFINE n == CrcPlace(kind)
           Stored(b) == 256 * b[n + 1] + b[n]
<1>1. n \in Nat
  BY NparAssumption DEF CrcPlace, Parity, SizeOf, Coded, Kinds
<1> HIDE DEF n
<1>2. \A i \in 0..(n + 1) : bytes[i] \in Byte /\ e[i] \in Byte /\ word[i] = Xor[bytes[i]][e[i]]
  BY DEF n
<1>3. n \in 0..(n + 1) /\ n + 1 \in 0..(n + 1) /\ \A i \in 0..(n - 1) : i \in 0..(n + 1)
  BY <1>1
<1>4. /\ crc_16(bytes, n) \in Sum16 /\ crc_16(e, n) \in Sum16
      /\ crc_16(word, n) = Xor16(crc_16(bytes, n), crc_16(e, n))
  <2>1. \A i \in 0..(n - 1) : bytes[i] \in Byte /\ e[i] \in Byte /\ word[i] = Xor[bytes[i]][e[i]]
    BY <1>2, <1>3
  <2> QED
    BY <1>1, <2>1, ChecksumOfErrors
<1>5. /\ bytes[n] \in Byte /\ bytes[n + 1] \in Byte /\ e[n] \in Byte /\ e[n + 1] \in Byte
      /\ word[n] = Xor[bytes[n]][e[n]] /\ word[n + 1] = Xor[bytes[n + 1]][e[n + 1]]
  BY <1>2, <1>3
<1>6. /\ Stored(bytes) \in Sum16 /\ Stored(e) \in Sum16
      /\ Stored(bytes) \div 256 = bytes[n + 1] /\ Stored(bytes) % 256 = bytes[n]
      /\ Stored(e) \div 256 = e[n + 1] /\ Stored(e) % 256 = e[n]
  BY <1>5, Word16
<1>7. Stored(word) = Xor16(Stored(bytes), Stored(e))
  BY <1>5, <1>6 DEF Xor16
<1>8. ASSUME NEW b, b[n] \in Byte, b[n + 1] \in Byte
      PROVE  CrcRight(kind, b) <=> crc_16(b, n) = Stored(b)
  <2>1. ASSUME NEW l \in Byte, NEW h \in Byte PROVE l + 256 * h = 256 * h + l
    BY SMT DEF Byte
  <2>2. b[n] + 256 * b[n + 1] = 256 * b[n + 1] + b[n]
    BY <1>8, <2>1
  <2> QED
    BY <2>2 DEF CrcRight, n
<1>9. word[n] \in Byte /\ word[n + 1] \in Byte
  BY <1>5, XorLaws
<1> DEFINE s == Stored(bytes)
           t == Stored(e)
           c == crc_16(e, n)
<1>10. s \in Sum16 /\ t \in Sum16 /\ c \in Sum16
  BY <1>4, <1>6
<1>11. crc_16(bytes, n) = s
  BY <1>5, <1>8
<1>12. CrcRight(kind, word) <=> Xor16(s, c) = Xor16(s, t)
  BY <1>4, <1>7, <1>8, <1>9, <1>11
<1>13. CrcRight(kind, e) <=> c = t
  BY <1>5, <1>8
<1> HIDE DEF s, t, c, Stored
<1>14. ASSUME NEW x \in Sum16 PROVE Xor16(Xor16(s, x), Xor16(s, 0)) = x
  <2>1. 0 \in Sum16
    BY ZeroSum
  <2>2. Xor16(Xor16(s, x), Xor16(s, 0)) = Xor16(Xor16(s, s), Xor16(x, 0))
    BY <1>10, <2>1, Xor16Swap
  <2>3. Xor16(s, s) = 0 /\ Xor16(x, 0) = x /\ Xor16(0, x) = Xor16(x, 0)
    BY <1>10, <2>1, Xor16Laws
  <2> QED
    BY <2>2, <2>3
<1>15. Xor16(s, c) = Xor16(s, t) <=> c = t
  BY <1>10, <1>14
<1> QED
  BY <1>12, <1>13, <1>15

-----------------------------------------------------------------------------
\* Doubling in the field goes along with exclusive or: the shift does, and the
\* reduction depends on the highest bit.
Shl(y) == (2 * y) % 256

\* Its bits are those of y, moved up, the highest being lost.
LEMMA ShlBits ==
  ASSUME NEW y \in Byte
  PROVE  /\ Shl(y) \in Byte /\ Bit(Shl(y), 0) = 0
         /\ \A i \in 1..7 : Bit(Shl(y), i) = Bit(y, i - 1)
         /\ Bit(y, 7) = (IF y < 128 THEN 0 ELSE 1)
         /\ y < 128 => Shl(y) = 2 * y
<1>1. y = Bit(y, 0) + 2 * Bit(y, 1) + 4 * Bit(y, 2) + 8 * Bit(y, 3) + 16 * Bit(y, 4)
                + 32 * Bit(y, 5) + 64 * Bit(y, 6) + 128 * Bit(y, 7)
  BY ByteOfBits
<1>2. /\ Bit(y, 0) \in 0..1 /\ Bit(y, 1) \in 0..1 /\ Bit(y, 2) \in 0..1 /\ Bit(y, 3) \in 0..1
      /\ Bit(y, 4) \in 0..1 /\ Bit(y, 5) \in 0..1 /\ Bit(y, 6) \in 0..1 /\ Bit(y, 7) \in 0..1
  BY ByteOfBits
<1>3. Shl(y) = 0 + 2 * Bit(y, 0) + 4 * Bit(y, 1) + 8 * Bit(y, 2) + 16 * Bit(y, 3)
                 + 32 * Bit(y, 4) + 64 * Bit(y, 5) + 128 * Bit(y, 6)
  BY <1>1, <1>2, SMT DEF Shl
<1>4. 0 \in 0..1
  OBVIOUS
<1>5. /\ Shl(y) \in Byte
      /\ Bit(Shl(y), 0) = 0 /\ Bit(Shl(y), 1) = Bit(y, 0) /\ Bit(Shl(y), 2) = Bit(y, 1)
      /\ Bit(Shl(y), 3) = Bit(y, 2) /\ Bit(Shl(y), 4) = Bit(y, 3) /\ Bit(Shl(y), 5) = Bit(y, 4)
      /\ Bit(Shl(y), 6) = Bit(y, 5) /\ Bit(Shl(y), 7) = Bit(y, 6)
  BY <1>2, <1>3, <1>4, BitsOfSum
<1>6. ASSUME NEW i \in 1..7 PROVE Bit(Shl(y), i) = Bit(y, i - 1)
  <2>1. \/ (i = 1 /\ i - 1 = 0) \/ (i = 2 /\ i - 1 = 1) \/ (i = 3 /\ i - 1 = 2)
        \/ (i = 4 /\ i - 1 = 3) \/ (i = 5 /\ i - 1 = 4) \/ (i = 6 /\ i - 1 = 5)
        \/ (i = 7 /\ i - 1 = 6)
    OBVIOUS
  <2> QED
    BY <1>5, <2>1
<1>7. Bit(y, 7) = (IF y < 128 THEN 0 ELSE 1)
  BY <1>1, <1>2, SMT
<1>8. y < 128 => Shl(y) = 2 * y
  BY SMT DEF Shl, Byte
<1> QED
  BY <1>5, <1>6, <1>7, <1>8

\* The shift goes along with exclusive or.
LEMMA ShlXor ==
  ASSUME NEW x \in Byte, NEW y \in Byte
  PROVE  Shl(Xor[x][y]) = Xor[Shl(x)][Shl(y)]
<1>1. Xor[x][y] \in Byte /\ Shl(x) \in Byte /\ Shl(y) \in Byte
  BY XorLaws, ShlBits
<1>2. Shl(Xor[x][y]) \in Byte /\ Xor[Shl(x)][Shl(y)] \in Byte
  BY <1>1, XorLaws, ShlBits
<1>3. Bit(Shl(Xor[x][y]), 0) = Bit(Xor[Shl(x)][Shl(y)], 0)
  <2>1. Bit(Shl(x), 0) = 0 /\ Bit(Shl(y), 0) = 0 /\ Bit(Shl(Xor[x][y]), 0) = 0
    BY <1>1, ShlBits
  <2>2. Bit(Xor[Shl(x)][Shl(y)], 0) = (0 + 0) % 2
    BY <1>1, <2>1, XorBits
  <2> QED
    BY <2>1, <2>2
<1>4. ASSUME NEW i \in 1..7 PROVE Bit(Shl(Xor[x][y]), i) = Bit(Xor[Shl(x)][Shl(y)], i)
  <2>1. i \in 0..7 /\ i - 1 \in 0..7
    OBVIOUS
  <2>2. /\ Bit(Shl(Xor[x][y]), i) = Bit(Xor[x][y], i - 1)
        /\ Bit(Shl(x), i) = Bit(x, i - 1) /\ Bit(Shl(y), i) = Bit(y, i - 1)
    BY <1>1, ShlBits
  <2>3. Bit(Xor[x][y], i - 1) = (Bit(x, i - 1) + Bit(y, i - 1)) % 2
    BY <2>1, XorBits
  <2>4. Bit(Xor[Shl(x)][Shl(y)], i) = (Bit(Shl(x), i) + Bit(Shl(y), i)) % 2
    BY <1>1, <2>1, XorBits
  <2> QED
    BY <2>2, <2>3, <2>4
<1>5. \A i \in 0..7 : i = 0 \/ i \in 1..7
  OBVIOUS
<1> QED
  BY <1>2, <1>3, <1>4, <1>5, SameBits

\* So does doubling: the reduction is added for the highest bit of either operand.
LEMMA DoubleXor ==
  ASSUME NEW x \in Byte, NEW y \in Byte
  PROVE  Double[x] \in Byte /\ Double[Xor[x][y]] = Xor[Double[x]][Double[y]]
<1>1. 0 \in Byte /\ 29 \in Byte
  BY DEF Byte
<1> DEFINE r(z) == IF Bit(z, 7) = 0 THEN 0 ELSE 29
<1>2. ASSUME NEW z \in Byte PROVE Double[z] = Xor[Shl(z)][r(z)] /\ r(z) \in Byte
  <2>1. Double[z] = IF z < 128 THEN 2 * z ELSE Xor[Shl(z)][29]
    BY DEF Double, Shl
  <2>2. Bit(z, 7) = (IF z < 128 THEN 0 ELSE 1) /\ (z < 128 => Shl(z) = 2 * z) /\ Shl(z) \in Byte
    BY ShlBits
  <2>3. CASE z < 128
    BY <1>1, <2>1, <2>2, <2>3, XorLaws
  <2>4. CASE ~(z < 128)
    BY <1>1, <2>1, <2>2, <2>4
  <2> QED
    BY <2>3, <2>4
<1>3. r(Xor[x][y]) = Xor[r(x)][r(y)]
  <2>1. Bit(Xor[x][y], 7) = (Bit(x, 7) + Bit(y, 7)) % 2
    BY XorBits
  <2>2. Bit(x, 7) \in {0, 1} /\ Bit(y, 7) \in {0, 1}
    BY ShlBits
  <2>3. Xor[0][0] = 0 /\ Xor[29][29] = 0 /\ Xor[29][0] = 29 /\ Xor[0][29] = Xor[29][0]
    BY <1>1, XorLaws
  <2>4. CASE Bit(x, 7) = 0 /\ Bit(y, 7) = 0
    BY <2>1, <2>3, <2>4
  <2>5. CASE Bit(x, 7) = 0 /\ Bit(y, 7) = 1
    BY <2>1, <2>3, <2>5
  <2>6. CASE Bit(x, 7) = 1 /\ Bit(y, 7) = 0
    BY <2>1, <2>3, <2>6
  <2>7. CASE Bit(x, 7) = 1 /\ Bit(y, 7) = 1
    BY <2>1, <2>3, <2>7
  <2> QED
    BY <2>2, <2>4, <2>5, <2>6, <2>7
<1> HIDE DEF r
<1>4. Shl(x) \in Byte /\ Shl(y) \in Byte /\ Xor[x][y] \in Byte
  BY ShlBits, XorLaws
<1>5. Double[Xor[x][y]] = Xor[Xor[Shl(x)][Shl(y)]][Xor[r(x)][r(y)]]
  BY <1>2, <1>3, <1>4, ShlXor
<1>6. Double[x] = Xor[Shl(x)][r(x)] /\ Double[y] = Xor[Shl(y)][r(y)] /\ r(x) \in Byte /\ r(y) \in Byte
  BY <1>2
<1>7. Xor[Xor[Shl(x)][Shl(y)]][Xor[r(x)][r(y)]] = Xor[Xor[Shl(x)][r(x)]][Xor[Shl(y)][r(y)]]
  BY <1>4, <1>6, XorSwap
<1>8. Double[x] \in Byte
  BY <1>4, <1>6, XorLaws
<1> QED
  BY <1>5, <1>6, <1>7, <1>8

\* Zero is a byte.
LEMMA ZeroByte == 0 \in Byte
BY DEF Byte

\* Doubling leads to a byte.
LEMMA DoubleType == \A x \in Byte : Double[x] \in Byte
BY DoubleXor

\* s holds y doubled 0, 1, ... n times.
Shifts(s, n, y) == s \in [0..n -> Byte] /\ s[0] = y /\ \A i \in 1..n : s[i] = Double[s[i - 1]]

ShiftsOf(n, y) ==
  LET shifted[i \in 0..n] == IF i = 0 THEN y ELSE Double[shifted[i - 1]] IN shifted

\* The recursive function is of bytes and solves its equation.
LEMMA ShiftsDef ==
  ASSUME NEW n \in Nat, NEW y \in Byte
  PROVE  Shifts(ShiftsOf(n, y), n, y)
<1> DEFINE F == [i \in 1..n |-> [v \in Byte |-> Double[v]]]
           Body(k, i) == IF i = 0 THEN y ELSE Double[k[i - 1]]
           s == CHOOSE k : k = [i \in 0..n |-> Body(k, i)]
<1>1. F \in [1..n -> [Byte -> Byte]]
  BY DoubleType
<1>2. ASSUME NEW f, NEW i \in 1..n, f[i - 1] \in Byte PROVE Body(f, i) = F[i][f[i - 1]]
  BY <1>2
<1>3. \A f : Body(f, 0) = y
  OBVIOUS
<1>4. ShiftsOf(n, y) = s
  BY DEF ShiftsOf
<1> HIDE DEF F, Body
<1>5. PICK k : Solves(k, n, Byte, y, F)
  BY <1>1, Recursion
<1>6. \A i \in 0..n : k[i] = Body(k, i)
  <2> SUFFICES ASSUME NEW i \in 0..n, i # 0 PROVE k[i] = Body(k, i)
    BY <1>3, <1>5 DEF Solves
  <2>1. i \in 1..n /\ k[i - 1] \in Byte
    BY <1>5 DEF Solves
  <2> QED
    BY <1>2, <1>5, <2>1 DEF Solves
<1>7. k = [i \in 0..n |-> Body(k, i)]
  BY <1>5, <1>6 DEF Solves
<1>8. s = [i \in 0..n |-> Body(s, i)]
  BY <1>7
<1> HIDE DEF s
<1>9. s[0] = y /\ s = [i \in 0..n |-> s[i]]
  BY <1>3, <1>8
<1>10. \A i \in 1..n : s[i - 1] \in Byte => s[i] = F[i][s[i - 1]]
  BY <1>2, <1>8
<1>11. Solves(s, n, Byte, y, F)
  BY <1>1, <1>9, <1>10, RecursionType
<1>12. \A i \in 1..n : s[i - 1] \in Byte
  BY <1>11 DEF Solves
<1> QED
  BY <1>4, <1>11, <1>12 DEF Solves, Shifts, F

\* The shifts of an exclusive or are those of its operands, by induction.
LEMMA ShiftsXor ==
  ASSUME NEW x \in Byte, NEW y \in Byte, NEW s, Shifts(s, 7, x), NEW t, Shifts(t, 7, y),
         NEW u, Shifts(u, 7, Xor[x][y])
  PROVE  \A i \in 0..7 : u[i] = Xor[s[i]][t[i]]
<1> DEFINE P == {i \in Nat : i <= 7 => u[i] = Xor[s[i]][t[i]]}
<1>1. 0 \in P
  BY DEF Shifts
<1>2. ASSUME NEW i \in Nat, i \in P PROVE i + 1 \in P
  <2> SUFFICES ASSUME i + 1 <= 7 PROVE u[i + 1] = Xor[s[i + 1]][t[i + 1]]
    OBVIOUS
  <2>1. i \in 0..7 /\ i + 1 \in 1..7 /\ (i + 1) - 1 = i /\ u[i] = Xor[s[i]][t[i]]
    BY <1>2
  <2>2. s[i] \in Byte /\ t[i] \in Byte
    BY <2>1 DEF Shifts
  <2>3. s[i + 1] = Double[s[i]] /\ t[i + 1] = Double[t[i]] /\ u[i + 1] = Double[u[i]]
    BY <2>1 DEF Shifts
  <2> QED
    BY <2>1, <2>2, <2>3, DoubleXor
<1> HIDE DEF P
<1>3. \A i \in Nat : i \in P
  BY <1>1, <1>2, NumbersFromZero
<1> QED
  BY <1>3 DEF P

\* p holds the sums of the first shifts, of those for which x has a bit.
Sum8(p, x, s) ==
  /\ p \in [0..8 -> Byte] /\ p[0] = 0
  /\ \A i \in 1..8 : p[i] = IF Bit(x, i - 1) = 1 THEN Xor[p[i - 1]][s[i - 1]] ELSE p[i - 1]

SumOf8(x, s) ==
  LET prod[i \in 0..8] ==
        IF i = 0 THEN 0
        ELSE IF Bit(x, i - 1) = 1 THEN Xor[prod[i - 1]][s[i - 1]] ELSE prod[i - 1]
  IN  prod

\* The recursive function is of bytes and solves its equation.
LEMMA Sum8Def ==
  ASSUME NEW x, NEW s \in [0..7 -> Byte]
  PROVE  Sum8(SumOf8(x, s), x, s)
<1> DEFINE F == [i \in 1..8 |-> [v \in Byte |-> IF Bit(x, i - 1) = 1 THEN Xor[v][s[i - 1]] ELSE v]]
           Body(k, i) == IF i = 0 THEN 0
                         ELSE IF Bit(x, i - 1) = 1 THEN Xor[k[i - 1]][s[i - 1]] ELSE k[i - 1]
           p == CHOOSE k : k = [i \in 0..8 |-> Body(k, i)]
<1>1. F \in [1..8 -> [Byte -> Byte]]
  <2>1. \A i \in 1..8 : s[i - 1] \in Byte
    <3>1. \A i \in 1..8 : i - 1 \in 0..7
      OBVIOUS
    <3> QED
      BY <3>1
  <2>2. \A i \in 1..8 : \A v \in Byte : Xor[v][s[i - 1]] \in Byte
    BY <2>1, XorLaws
  <2> QED
    BY <2>2
<1>2. ASSUME NEW f, NEW i \in 1..8, f[i - 1] \in Byte PROVE Body(f, i) = F[i][f[i - 1]]
  BY <1>2
<1>3. \A f : Body(f, 0) = 0
  OBVIOUS
<1>4. SumOf8(x, s) = p
  BY DEF SumOf8
<1>5. 8 \in Nat
  OBVIOUS
<1> HIDE DEF F, Body
<1>6. PICK k : Solves(k, 8, Byte, 0, F)
  BY <1>1, <1>5, ZeroByte, Recursion
<1>7. \A i \in 0..8 : k[i] = Body(k, i)
  <2> SUFFICES ASSUME NEW i \in 0..8, i # 0 PROVE k[i] = Body(k, i)
    BY <1>3, <1>6 DEF Solves
  <2>1. i \in 1..8 /\ k[i - 1] \in Byte
    BY <1>6 DEF Solves
  <2> QED
    BY <1>2, <1>6, <2>1 DEF Solves
<1>8. k = [i \in 0..8 |-> Body(k, i)]
  BY <1>6, <1>7 DEF Solves
<1>9. p = [i \in 0..8 |-> Body(p, i)]
  BY <1>8
<1> HIDE DEF p
<1>10. p[0] = 0 /\ p = [i \in 0..8 |-> p[i]]
  BY <1>3, <1>9
<1>11. \A i \in 1..8 : p[i - 1] \in Byte => p[i] = F[i][p[i - 1]]
  BY <1>2, <1>9
<1>12. Solves(p, 8, Byte, 0, F)
  BY <1>1, <1>5, <1>10, <1>11, ZeroByte, RecursionType
<1>13. \A i \in 1..8 : p[i - 1] \in Byte
  BY <1>12 DEF Solves
<1> QED
  BY <1>4, <1>12, <1>13 DEF Solves, Sum8, F

\* A product is the sum of shifts.
LEMMA ProductDef ==
  ASSUME NEW x \in Byte, NEW y \in Byte
  PROVE  /\ gmult[x][y] = SumOf8(x, ShiftsOf(7, y))[8]
         /\ Sum8(SumOf8(x, ShiftsOf(7, y)), x, ShiftsOf(7, y))
<1>1. gmult[x][y] = SumOf8(x, ShiftsOf(7, y))[8]
  BY DEF gmult, SumOf8, ShiftsOf
<1>2. ShiftsOf(7, y) \in [0..7 -> Byte]
  <2>1. 7 \in Nat
    OBVIOUS
  <2> QED
    BY <2>1, ShiftsDef DEF Shifts
<1> QED
  BY <1>1, <1>2, Sum8Def

\* Multiplication by x goes along with exclusive or.
LEMMA ProductXor ==
  ASSUME NEW x \in Byte, NEW y \in Byte, NEW z \in Byte
  PROVE  /\ gmult[x][y] \in Byte
         /\ gmult[x][Xor[y][z]] = Xor[gmult[x][y]][gmult[x][z]]
<1> DEFINE s == ShiftsOf(7, y)
           t == ShiftsOf(7, z)
           u == ShiftsOf(7, Xor[y][z])
           p == SumOf8(x, s)
           q == SumOf8(x, t)
           r == SumOf8(x, u)
<1>1. Xor[y][z] \in Byte
  BY XorLaws
<1>2. Shifts(s, 7, y) /\ Shifts(t, 7, z) /\ Shifts(u, 7, Xor[y][z])
  <2>1. 7 \in Nat
    OBVIOUS
  <2> QED
    BY <1>1, <2>1, ShiftsDef
<1>3. Sum8(p, x, s) /\ gmult[x][y] = p[8]
  BY ProductDef
<1>4. Sum8(q, x, t) /\ gmult[x][z] = q[8]
  BY ProductDef
<1>5. Sum8(r, x, u) /\ gmult[x][Xor[y][z]] = r[8]
  BY <1>1, ProductDef
<1> HIDE DEF s, t, u, p, q, r
<1>6. \A i \in 0..7 : u[i] = Xor[s[i]][t[i]] /\ s[i] \in Byte /\ t[i] \in Byte
  <2>1. \A i \in 0..7 : u[i] = Xor[s[i]][t[i]]
    BY <1>2, ShiftsXor
  <2> QED
    BY <1>2, <2>1 DEF Shifts
<1> DEFINE P == {i \in Nat : i <= 8 => r[i] = Xor[p[i]][q[i]]}
<1>7. 0 \in P
  <2>1. r[0] = 0 /\ p[0] = 0 /\ q[0] = 0 /\ Xor[0][0] = 0
    BY <1>3, <1>4, <1>5, ZeroByte, XorLaws DEF Sum8
  <2> QED
    BY <2>1
<1>8. ASSUME NEW i \in Nat, i \in P PROVE i + 1 \in P
  <2> SUFFICES ASSUME i + 1 <= 8 PROVE r[i + 1] = Xor[p[i + 1]][q[i + 1]]
    OBVIOUS
  <2>1. i \in 0..7 /\ i \in 0..8 /\ i + 1 \in 1..8 /\ (i + 1) - 1 = i
        /\ r[i] = Xor[p[i]][q[i]]
    BY <1>8
  <2>2. p[i] \in Byte /\ q[i] \in Byte
    BY <1>3, <1>4, <2>1 DEF Sum8
  <2>3. /\ p[i + 1] = IF Bit(x, i) = 1 THEN Xor[p[i]][s[i]] ELSE p[i]
        /\ q[i + 1] = IF Bit(x, i) = 1 THEN Xor[q[i]][t[i]] ELSE q[i]
        /\ r[i + 1] = IF Bit(x, i) = 1 THEN Xor[r[i]][u[i]] ELSE r[i]
    BY <1>3, <1>4, <1>5, <2>1 DEF Sum8
  <2>4. u[i] = Xor[s[i]][t[i]] /\ s[i] \in Byte /\ t[i] \in Byte
    BY <1>6, <2>1
  <2>5. Xor[Xor[p[i]][q[i]]][Xor[s[i]][t[i]]] = Xor[Xor[p[i]][s[i]]][Xor[q[i]][t[i]]]
    <3> DEFINE a == p[i]
               b == q[i]
               c == s[i]
               d == t[i]
    <3>1. a \in Byte /\ b \in Byte /\ c \in Byte /\ d \in Byte
      BY <2>2, <2>4
    <3> HIDE DEF a, b, c, d
    <3>2. Xor[Xor[a][b]][Xor[c][d]] = Xor[Xor[a][c]][Xor[b][d]]
      BY <3>1, XorSwap
    <3> QED
      BY <3>2 DEF a, b, c, d
  <2> QED
    BY <2>1, <2>3, <2>4, <2>5
<1> HIDE DEF P
<1>9. 8 \in Nat /\ 8 \in P
  BY <1>7, <1>8, NumbersFromZero
<1>10. r[8] = Xor[p[8]][q[8]]
  BY <1>9 DEF P
<1>11. p[8] \in Byte
  BY <1>3 DEF Sum8
<1> QED
  BY <1>3, <1>4, <1>5, <1>10, <1>11

\* The powers are bytes.
LEMMA PowerType == \A z \in 0..254 : gexp[z] \in Byte
<1>1. 1 \in Byte /\ 254 \in Nat
  BY DEF Byte
<1>2. Shifts(ShiftsOf(254, 1), 254, 1)
  BY <1>1, ShiftsDef
<1>3. \A z \in 0..254 : gexp[z] = ShiftsOf(254, 1)[z]
  BY DEF gexp, ShiftsOf
<1> QED
  BY <1>2, <1>3 DEF Shifts

\* v holds the values of the first 0, 1, ... n bytes as polynomials at a.
Horner(v, n, data, a) ==
  v \in [0..n -> Byte] /\ v[0] = 0 /\ \A i \in 1..n : v[i] = Xor[data[i - 1]][gmult[a][v[i - 1]]]

HornerOf(n, data, a) ==
  LET sum[i \in 0..n] == IF i = 0 THEN 0 ELSE Xor[data[i - 1]][gmult[a][sum[i - 1]]] IN sum

\* The recursive function is of bytes and solves its equation.
LEMMA HornerDef ==
  ASSUME NEW n \in Nat, NEW data, \A i \in 0..(n - 1) : data[i] \in Byte, NEW a \in Byte
  PROVE  Horner(HornerOf(n, data, a), n, data, a)
<1> DEFINE F == [i \in 1..n |-> [v \in Byte |-> Xor[data[i - 1]][gmult[a][v]]]]
           Body(k, i) == IF i = 0 THEN 0 ELSE Xor[data[i - 1]][gmult[a][k[i - 1]]]
           K == CHOOSE k : k = [i \in 0..n |-> Body(k, i)]
<1>1. HornerOf(n, data, a) = K
  BY DEF HornerOf
<1>2. F \in [1..n -> [Byte -> Byte]]
  <2>1. \A i \in 1..n : data[i - 1] \in Byte
    <3>1. \A i \in 1..n : i - 1 \in 0..(n - 1)
      OBVIOUS
    <3> QED
      BY <3>1
  <2>2. \A v \in Byte : gmult[a][v] \in Byte
    BY ProductXor
  <2>3. \A i \in 1..n : \A v \in Byte : Xor[data[i - 1]][gmult[a][v]] \in Byte
    BY <2>1, <2>2, XorLaws
  <2> QED
    BY <2>3
<1>3. ASSUME NEW f, NEW i \in 1..n, f[i - 1] \in Byte PROVE Body(f, i) = F[i][f[i - 1]]
  BY <1>3
<1>4. \A f : Body(f, 0) = 0
  OBVIOUS
<1> HIDE DEF F, Body
<1>5. PICK k : Solves(k, n, Byte, 0, F)
  BY <1>2, ZeroByte, Recursion
<1>6. \A i \in 0..n : k[i] = Body(k, i)
  <2> SUFFICES ASSUME NEW i \in 0..n, i # 0 PROVE k[i] = Body(k, i)
    BY <1>4, <1>5 DEF Solves
  <2>1. i \in 1..n /\ k[i - 1] \in Byte
    BY <1>5 DEF Solves
  <2> QED
    BY <1>3, <1>5, <2>1 DEF Solves
<1>7. k = [i \in 0..n |-> Body(k, i)]
  BY <1>5, <1>6 DEF Solves
<1>8. K = [i \in 0..n |-> Body(K, i)]
  BY <1>7
<1> HIDE DEF K
<1>9. K[0] = 0 /\ K = [i \in 0..n |-> K[i]]
  BY <1>4, <1>8
<1>10. \A i \in 1..n : K[i - 1] \in Byte => K[i] = F[i][K[i - 1]]
  BY <1>3, <1>8
<1>11. Solves(K, n, Byte, 0, F)
  BY <1>2, <1>9, <1>10, ZeroByte, RecursionType
<1>12. \A i \in 1..n : K[i - 1] \in Byte
  BY <1>11 DEF Solves
<1> QED
  BY <1>1, <1>11, <1>12 DEF Solves, Horner, F

\* The value of an exclusive or is that of the values, by induction on the bytes.
LEMMA HornerXor ==
  ASSUME NEW n \in Nat, NEW a \in Byte, NEW bytes, NEW e, NEW word,
         \A i \in 0..(n - 1) : bytes[i] \in Byte /\ e[i] \in Byte /\ word[i] = Xor[bytes[i]][e[i]]
  PROVE  /\ HornerOf(n, bytes, a)[n] \in Byte /\ HornerOf(n, e, a)[n] \in Byte
         /\ HornerOf(n, word, a)[n] = Xor[HornerOf(n, bytes, a)[n]][HornerOf(n, e, a)[n]]
<1>0. ASSUME NEW i \in 0..(n - 1) PROVE word[i] \in Byte
  <2>1. bytes[i] \in Byte /\ e[i] \in Byte /\ word[i] = Xor[bytes[i]][e[i]]
    OBVIOUS
  <2> QED
    BY <2>1, XorLaws, Zenon
<1> DEFINE k == HornerOf(n, bytes, a)
           g == HornerOf(n, e, a)
           h == HornerOf(n, word, a)
<1>1. Horner(k, n, bytes, a) /\ Horner(g, n, e, a)
  BY HornerDef
<1>2. Horner(h, n, word, a)
  BY <1>0, HornerDef
<1> HIDE DEF k, g, h
<1> DEFINE P == {i \in Nat : i <= n => h[i] = Xor[k[i]][g[i]]}
<1>3. 0 \in P
  <2>1. h[0] = 0 /\ k[0] = 0 /\ g[0] = 0 /\ Xor[0][0] = 0
    BY <1>1, <1>2, ZeroByte, XorLaws DEF Horner
  <2> QED
    BY <2>1
<1>4. ASSUME NEW i \in Nat, i \in P PROVE i + 1 \in P
  <2> SUFFICES ASSUME i + 1 <= n PROVE h[i + 1] = Xor[k[i + 1]][g[i + 1]]
    OBVIOUS
  <2> DEFINE x == gmult[a][k[i]]
             y == gmult[a][g[i]]
             b == bytes[i]
             c == e[i]
  <2>1. i \in 0..n /\ i \in 0..(n - 1) /\ i + 1 \in 1..n /\ (i + 1) - 1 = i
        /\ h[i] = Xor[k[i]][g[i]]
    BY <1>4
  <2>2. k[i] \in Byte /\ g[i] \in Byte
    BY <1>1, <2>1 DEF Horner
  <2>3. /\ k[i + 1] = Xor[b][x] /\ g[i + 1] = Xor[c][y]
        /\ h[i + 1] = Xor[word[i]][gmult[a][h[i]]]
    BY <1>1, <1>2, <2>1 DEF Horner
  <2>4. b \in Byte /\ c \in Byte /\ word[i] = Xor[b][c]
    BY <2>1
  <2>5. gmult[a][h[i]] = Xor[x][y] /\ x \in Byte /\ y \in Byte
    BY <2>1, <2>2, ProductXor
  <2> HIDE DEF x, y, b, c
  <2>6. Xor[Xor[b][c]][Xor[x][y]] = Xor[Xor[b][x]][Xor[c][y]]
    BY <2>4, <2>5, XorSwap
  <2> QED
    BY <2>3, <2>4, <2>5, <2>6
<1> HIDE DEF P
<1>5. n \in P
  BY <1>3, <1>4, NumbersFromZero
<1>6. h[n] = Xor[k[n]][g[n]]
  BY <1>5 DEF P
<1>7. n \in 0..n
  OBVIOUS
<1>8. k[n] \in Byte /\ g[n] \in Byte
  BY <1>1, <1>7 DEF Horner
<1> QED
  BY <1>6, <1>8 DEF k, g, h

\* The syndromes are such values, at the powers.
LEMMA SyndromesDef ==
  ASSUME NEW n, NEW d
  PROVE  synBytes(d, n)
           = [j \in Degrees |-> IF j >= NPAR THEN 0 ELSE HornerOf(n, d, gexp[j + 1])[n]]
BY DEF synBytes, HornerOf

\* The syndromes of what errors make of a word are its own with those of the
\* errors added.  A word of at most 255 bytes has fewer than 255 bytes of parity.
THEOREM SyndromesOfErrors ==
  ASSUME NPAR < 255, NEW n \in Nat, NEW bytes, NEW e, NEW word,
         \A i \in 0..(n - 1) : bytes[i] \in Byte /\ e[i] \in Byte /\ word[i] = Xor[bytes[i]][e[i]]
  PROVE  \A j \in Degrees :
           /\ synBytes(bytes, n)[j] \in Byte /\ synBytes(e, n)[j] \in Byte
           /\ synBytes(word, n)[j] = Xor[synBytes(bytes, n)[j]][synBytes(e, n)[j]]
<1> SUFFICES ASSUME NEW j \in Degrees
             PROVE  /\ synBytes(bytes, n)[j] \in Byte /\ synBytes(e, n)[j] \in Byte
                    /\ synBytes(word, n)[j] = Xor[synBytes(bytes, n)[j]][synBytes(e, n)[j]]
  OBVIOUS
<1>1. \A d : synBytes(d, n)[j] = IF j >= NPAR THEN 0 ELSE HornerOf(n, d, gexp[j + 1])[n]
  BY SyndromesDef
<1>2. CASE j >= NPAR
  BY <1>1, <1>2, ZeroByte, XorLaws
<1>3. CASE ~(j >= NPAR)
  <2>1. j + 1 \in 0..254
    BY <1>3, NparAssumption DEF Degrees, MAXDEG
  <2>2. gexp[j + 1] \in Byte
    BY <2>1, PowerType
  <2> QED
    <3> DEFINE a == gexp[j + 1]
               x == HornerOf(n, bytes, a)[n]
               y == HornerOf(n, e, a)[n]
    <3>1. x \in Byte /\ y \in Byte /\ HornerOf(n, word, a)[n] = Xor[x][y]
      BY <2>2, HornerXor
    <3>2. synBytes(bytes, n)[j] = x /\ synBytes(e, n)[j] = y
          /\ synBytes(word, n)[j] = HornerOf(n, word, a)[n]
      BY <1>1, <1>3
    <3> HIDE DEF a, x, y
    <3> QED
      BY <3>1, <3>2
<1> QED
  BY <1>2, <1>3

\* What the decoder works from, whichever packet was sent: the syndromes of a word
\* are those of the errors it came with, and it is taken for undamaged if and only
\* if the errors by themselves are.
THEOREM DecoderSeesErrors ==
  ASSUME NPAR < 255, NEW n \in Nat, NEW bytes, NEW e, NEW word,
         ~check_syndrome(synBytes(bytes, n)),
         \A i \in 0..(n - 1) : bytes[i] \in Byte /\ e[i] \in Byte /\ word[i] = Xor[bytes[i]][e[i]]
  PROVE  synBytes(word, n) = synBytes(e, n)
<1>1. ASSUME NEW j \in Degrees PROVE synBytes(word, n)[j] = synBytes(e, n)[j]
  <2>1. synBytes(bytes, n)[j] = 0
    BY DEF check_syndrome
  <2>2. /\ synBytes(e, n)[j] \in Byte
        /\ synBytes(word, n)[j] = Xor[synBytes(bytes, n)[j]][synBytes(e, n)[j]]
    BY SyndromesOfErrors
  <2> QED
    BY <2>1, <2>2, ZeroByte, XorLaws
<1>2. /\ synBytes(word, n) = [j \in Degrees |-> synBytes(word, n)[j]]
      /\ synBytes(e, n) = [j \in Degrees |-> synBytes(e, n)[j]]
  BY SyndromesDef
<1> QED
  BY <1>1, <1>2

-----------------------------------------------------------------------------
(***************************************************************************)
(* GF(256) is a field.                                                     *)
(***************************************************************************)
\* Sum and product of bytes.
x \oplus y == Xor[x][y]

x \otimes y == gmult[x][y]

\* Sums: bytes are a group in which every element is its own inverse.
LEMMA Add ==
  /\ \A x, y \in Byte : x \oplus y \in Byte /\ x \oplus y = y \oplus x
  /\ \A x, y, z \in Byte : (x \oplus y) \oplus z = x \oplus (y \oplus z)
  /\ \A x \in Byte : x \oplus 0 = x /\ 0 \oplus x = x /\ x \oplus x = 0
  /\ \A x, y \in Byte : x \oplus (x \oplus y) = y /\ (x \oplus y = 0 => x = y)
<1>1. /\ \A x, y \in Byte : x \oplus y \in Byte /\ x \oplus y = y \oplus x
      /\ \A x, y, z \in Byte : (x \oplus y) \oplus z = x \oplus (y \oplus z)
      /\ \A x \in Byte : x \oplus 0 = x /\ x \oplus x = 0
  BY XorLaws DEF \oplus
<1>2. \A x \in Byte : 0 \oplus x = x
  BY <1>1, ZeroByte
<1>3. ASSUME NEW x \in Byte, NEW y \in Byte
      PROVE  x \oplus (x \oplus y) = y /\ (x \oplus y = 0 => x = y)
  <2>1. x \oplus (x \oplus y) = (x \oplus x) \oplus y
    BY <1>1
  <2>2. x \oplus (x \oplus y) = y
    BY <1>1, <1>2, <2>1
  <2>3. x \oplus y = 0 => x = y
    BY <1>1, <2>2
  <2> QED
    BY <2>2, <2>3
<1> QED
  BY <1>1, <1>2, <1>3

\* Two in the middle of four change places.
LEMMA AddSwap ==
  ASSUME NEW a \in Byte, NEW b \in Byte, NEW c \in Byte, NEW d \in Byte
  PROVE  (a \oplus b) \oplus (c \oplus d) = (a \oplus c) \oplus (b \oplus d)
BY XorSwap DEF \oplus

\* The values of the bits.
Weight(i) ==
  CASE i = 0 -> 1 [] i = 1 -> 2 [] i = 2 -> 4 [] i = 3 -> 8
    [] i = 4 -> 16 [] i = 5 -> 32 [] i = 6 -> 64 [] i = 7 -> 128

\* They are the powers of two.
LEMMA WeightValues ==
  /\ Weight(0) = 1 /\ Weight(1) = 2 /\ Weight(2) = 4 /\ Weight(3) = 8
  /\ Weight(4) = 16 /\ Weight(5) = 32 /\ Weight(6) = 64 /\ Weight(7) = 128
BY DEF Weight

\* Their only bits.
LEMMA BitOfWeight ==
  \A i, j \in 0..7 : Weight(i) \in Byte /\ Bit(Weight(i), j) = IF j = i THEN 1 ELSE 0
<1>1. /\ 1 = 1 + 2*0 + 4*0 + 8*0 + 16*0 + 32*0 + 64*0 + 128*0
      /\ 2 = 0 + 2*1 + 4*0 + 8*0 + 16*0 + 32*0 + 64*0 + 128*0
      /\ 4 = 0 + 2*0 + 4*1 + 8*0 + 16*0 + 32*0 + 64*0 + 128*0
      /\ 8 = 0 + 2*0 + 4*0 + 8*1 + 16*0 + 32*0 + 64*0 + 128*0
      /\ 16 = 0 + 2*0 + 4*0 + 8*0 + 16*1 + 32*0 + 64*0 + 128*0
      /\ 32 = 0 + 2*0 + 4*0 + 8*0 + 16*0 + 32*1 + 64*0 + 128*0
      /\ 64 = 0 + 2*0 + 4*0 + 8*0 + 16*0 + 32*0 + 64*1 + 128*0
      /\ 128 = 0 + 2*0 + 4*0 + 8*0 + 16*0 + 32*0 + 64*0 + 128*1
      /\ 0 \in 0..1 /\ 1 \in 0..1
  OBVIOUS
<1> DEFINE Only(x, i) ==
      /\ x \in Byte
      /\ Bit(x, 0) = (IF 0 = i THEN 1 ELSE 0) /\ Bit(x, 1) = (IF 1 = i THEN 1 ELSE 0)
      /\ Bit(x, 2) = (IF 2 = i THEN 1 ELSE 0) /\ Bit(x, 3) = (IF 3 = i THEN 1 ELSE 0)
      /\ Bit(x, 4) = (IF 4 = i THEN 1 ELSE 0) /\ Bit(x, 5) = (IF 5 = i THEN 1 ELSE 0)
      /\ Bit(x, 6) = (IF 6 = i THEN 1 ELSE 0) /\ Bit(x, 7) = (IF 7 = i THEN 1 ELSE 0)
<1>2. Only(1, 0)
  BY <1>1, BitsOfSum
<1>3. Only(2, 1)
  BY <1>1, BitsOfSum
<1>4. Only(4, 2)
  BY <1>1, BitsOfSum
<1>5. Only(8, 3)
  BY <1>1, BitsOfSum
<1>6. Only(16, 4)
  BY <1>1, BitsOfSum
<1>7. Only(32, 5)
  BY <1>1, BitsOfSum
<1>8. Only(64, 6)
  BY <1>1, BitsOfSum
<1>9. Only(128, 7)
  BY <1>1, BitsOfSum
<1>10. \A x, i : Only(x, i) => \A j \in 0..7 : x \in Byte /\ Bit(x, j) = IF j = i THEN 1 ELSE 0
  <2>1. \A j \in 0..7 : j \in {0, 1, 2, 3, 4, 5, 6, 7}
    OBVIOUS
  <2> QED
    BY <2>1
<1> HIDE DEF Only
<1>11. \A i \in 0..7 : Only(Weight(i), i)
  <2>1. ASSUME NEW i \in 0..7 PROVE Only(Weight(i), i)
    <3>1. i \in {0, 1, 2, 3, 4, 5, 6, 7}
      OBVIOUS
    <3> QED
      BY <1>2, <1>3, <1>4, <1>5, <1>6, <1>7, <1>8, <1>9, <3>1, WeightValues
  <2> QED
    BY <2>1
<1> QED
  BY <1>10, <1>11

\* Doubling leads from one to the next.
LEMMA DoubleWeight == \A i \in 0..6 : Double[Weight(i)] = Weight(i + 1)
<1>1. \A i \in 0..6 : \/ i = 0 /\ i + 1 = 1
                      \/ i = 1 /\ i + 1 = 2
                      \/ i = 2 /\ i + 1 = 3
                      \/ i = 3 /\ i + 1 = 4
                      \/ i = 4 /\ i + 1 = 5
                      \/ i = 5 /\ i + 1 = 6
                      \/ i = 6 /\ i + 1 = 7
  OBVIOUS
<1>2. \A y \in Byte : y < 128 => Double[y] = 2 * y
  BY DEF Double
<1>3. \A y \in {1, 2, 4, 8, 16, 32, 64} : y \in Byte /\ y < 128
  BY DEF Byte
<1>4. /\ Double[1] = 2 /\ Double[2] = 4 /\ Double[4] = 8 /\ Double[8] = 16
      /\ Double[16] = 32 /\ Double[32] = 64 /\ Double[64] = 128
  BY <1>2, <1>3
<1> QED
  BY <1>1, <1>4, WeightValues

\* A byte is its product with one.
LEMMA TimesOne == \A y \in Byte : y \otimes 1 = y
<1> SUFFICES ASSUME NEW y \in Byte PROVE gmult[y][1] = y
  BY DEF \otimes
<1> DEFINE s == ShiftsOf(7, 1)
           p == SumOf8(y, s)
<1>1. 1 \in Byte /\ 7 \in Nat /\ 8 \in Nat
  BY DEF Byte
<1>2. Shifts(s, 7, 1) /\ Sum8(p, y, s) /\ gmult[y][1] = p[8]
  BY <1>1, ShiftsDef, ProductDef
<1> HIDE DEF s, p
<1>3. \A i \in 0..7 : s[i] = Weight(i)
  <2> DEFINE P == {i \in Nat : i <= 7 => s[i] = Weight(i)}
  <2>1. 0 \in P
    BY <1>2, WeightValues DEF Shifts
  <2>2. ASSUME NEW i \in Nat, i \in P PROVE i + 1 \in P
    <3> SUFFICES ASSUME i + 1 <= 7 PROVE s[i + 1] = Weight(i + 1)
      OBVIOUS
    <3>1. i \in 0..6 /\ i + 1 \in 1..7 /\ (i + 1) - 1 = i /\ s[i] = Weight(i)
      BY <2>2
    <3>2. s[i + 1] = Double[s[i]]
      BY <1>2, <3>1 DEF Shifts
    <3> QED
      BY <3>1, <3>2, DoubleWeight
  <2> HIDE DEF P
  <2>3. \A i \in Nat : i \in P
    BY <2>1, <2>2, NumbersFromZero
  <2> QED
    BY <2>3 DEF P
<1> DEFINE P == {i \in Nat : i <= 8 => \A j \in 0..7 : Bit(p[i], j) = IF j < i THEN Bit(y, j) ELSE 0}
<1>4. 0 \in P
  <2>1. p[0] = 0 /\ \A j \in 0..7 : Bit(0, j) = 0
    <3>1. \A j \in 0..7 : Bit(Xor[0][0], j) = (Bit(0, j) + Bit(0, j)) % 2 /\ Bit(0, j) \in 0..1
      BY ZeroByte, XorBits, ByteOfBits
    <3>2. Xor[0][0] = 0
      BY ZeroByte, XorLaws
    <3> QED
      BY <1>2, <3>1, <3>2 DEF Sum8
  <2> QED
    BY <2>1
<1>5. ASSUME NEW i \in Nat, i \in P PROVE i + 1 \in P
  <2> SUFFICES ASSUME i + 1 <= 8, NEW j \in 0..7
               PROVE  Bit(p[i + 1], j) = IF j < i + 1 THEN Bit(y, j) ELSE 0
    OBVIOUS
  <2>1. i \in 0..7 /\ i \in 0..8 /\ i + 1 \in 1..8 /\ (i + 1) - 1 = i
        /\ Bit(p[i], j) = IF j < i THEN Bit(y, j) ELSE 0
    BY <1>5
  <2>2. p[i] \in Byte /\ p[i + 1] = IF Bit(y, i) = 1 THEN Xor[p[i]][s[i]] ELSE p[i]
    BY <1>2, <2>1 DEF Sum8
  <2>3. s[i] = Weight(i) /\ s[i] \in Byte /\ Bit(s[i], j) = IF j = i THEN 1 ELSE 0
    BY <1>3, <2>1, BitOfWeight
  <2>4. Bit(Xor[p[i]][s[i]], j) = (Bit(p[i], j) + Bit(s[i], j)) % 2
    BY <2>2, <2>3, XorBits
  <2>5. Bit(y, i) \in 0..1 /\ Bit(y, j) \in 0..1
    BY <2>1, ByteOfBits
  <2>6. CASE Bit(y, i) = 1
    <3>1. CASE j = i
      BY <2>1, <2>2, <2>3, <2>4, <2>6, <3>1
    <3>2. CASE j # i
      <4>1. Bit(p[i + 1], j) = Bit(p[i], j)
        BY <2>1, <2>2, <2>3, <2>4, <2>5, <2>6, <3>2
      <4> QED
        BY <2>1, <3>2, <4>1
    <3> QED
      BY <3>1, <3>2
  <2>7. CASE Bit(y, i) # 1
    BY <2>1, <2>2, <2>5, <2>7
  <2> QED
    BY <2>6, <2>7
<1> HIDE DEF P
<1>6. 8 \in P
  BY <1>1, <1>4, <1>5, NumbersFromZero
<1>7. p[8] \in Byte /\ \A j \in 0..7 : Bit(p[8], j) = Bit(y, j)
  BY <1>2, <1>6 DEF P, Sum8
<1> QED
  BY <1>2, <1>7, SameBits

\* One and two are bytes.
LEMMA OneByte == 1 \in Byte /\ 2 \in Byte
BY DEF Byte

\* The product takes sums apart, and is a byte.
LEMMA TimesAdd ==
  /\ \A x, y \in Byte : x \otimes y \in Byte
  /\ \A x, y, z \in Byte : x \otimes (y \oplus z) = (x \otimes y) \oplus (x \otimes z)
BY ProductXor DEF \oplus, \otimes

\* A doubled factor doubles the product.
LEMMA TimesDouble ==
  ASSUME NEW x \in Byte, NEW y \in Byte
  PROVE  x \otimes Double[y] = Double[x \otimes y]
<1> SUFFICES gmult[x][Double[y]] = Double[gmult[x][y]]
  BY DEF \otimes
<1> DEFINE s == ShiftsOf(7, y)
           t == ShiftsOf(7, Double[y])
           p == SumOf8(x, s)
           q == SumOf8(x, t)
<1>1. Double[y] \in Byte /\ 7 \in Nat /\ 8 \in Nat
  BY DoubleType
<1>2. Shifts(s, 7, y) /\ Shifts(t, 7, Double[y])
  BY <1>1, ShiftsDef
<1>3. Sum8(p, x, s) /\ gmult[x][y] = p[8] /\ Sum8(q, x, t) /\ gmult[x][Double[y]] = q[8]
  BY <1>1, ProductDef
<1> HIDE DEF s, t, p, q
<1>4. \A i \in 0..7 : t[i] = Double[s[i]]
  <2> DEFINE P == {i \in Nat : i <= 7 => t[i] = Double[s[i]]}
  <2>1. 0 \in P
    BY <1>2 DEF Shifts
  <2>2. ASSUME NEW i \in Nat, i \in P PROVE i + 1 \in P
    <3> SUFFICES ASSUME i + 1 <= 7 PROVE t[i + 1] = Double[s[i + 1]]
      OBVIOUS
    <3>1. i + 1 \in 1..7 /\ (i + 1) - 1 = i /\ t[i] = Double[s[i]]
      BY <2>2
    <3> QED
      BY <1>2, <3>1 DEF Shifts
  <2> HIDE DEF P
  <2>3. \A i \in Nat : i \in P
    BY <2>1, <2>2, NumbersFromZero
  <2> QED
    BY <2>3 DEF P
<1> DEFINE P == {i \in Nat : i <= 8 => q[i] = Double[p[i]]}
<1>5. 0 \in P
  <2>1. Double[0] = 0
    BY ZeroByte DEF Double
  <2> QED
    BY <1>3, <2>1 DEF Sum8
<1>6. ASSUME NEW i \in Nat, i \in P PROVE i + 1 \in P
  <2> SUFFICES ASSUME i + 1 <= 8 PROVE q[i + 1] = Double[p[i + 1]]
    OBVIOUS
  <2>1. i \in 0..7 /\ i \in 0..8 /\ i + 1 \in 1..8 /\ (i + 1) - 1 = i /\ q[i] = Double[p[i]]
    BY <1>6
  <2>2. /\ p[i + 1] = IF Bit(x, i) = 1 THEN Xor[p[i]][s[i]] ELSE p[i]
        /\ q[i + 1] = IF Bit(x, i) = 1 THEN Xor[q[i]][t[i]] ELSE q[i]
    BY <1>3, <2>1 DEF Sum8
  <2>3. p[i] \in Byte /\ s[i] \in Byte /\ t[i] = Double[s[i]]
    BY <1>2, <1>3, <1>4, <2>1 DEF Sum8, Shifts
  <2>4. Double[Xor[p[i]][s[i]]] = Xor[Double[p[i]]][Double[s[i]]]
    BY <2>3, DoubleXor
  <2> QED
    BY <2>1, <2>2, <2>3, <2>4
<1> HIDE DEF P
<1>7. 8 \in P
  BY <1>1, <1>5, <1>6, NumbersFromZero
<1> QED
  BY <1>3, <1>7 DEF P

\* What goes along with sums and with doubling is multiplication by its value for one.
LEMMA Linear ==
  ASSUME NEW A \in [Byte -> Byte],
         \A x, y \in Byte : A[x \oplus y] = A[x] \oplus A[y],
         \A x \in Byte : A[Double[x]] = Double[A[x]],
         NEW y \in Byte
  PROVE  A[y] = y \otimes A[1]
<1> DEFINE s == ShiftsOf(7, 1)
           t == ShiftsOf(7, A[1])
           p == SumOf8(y, s)
           q == SumOf8(y, t)
<1>0. 1 \in Byte
  BY OneByte
<1>1. A[1] \in Byte /\ 7 \in Nat /\ 8 \in Nat
  BY <1>0
<1>2. Shifts(s, 7, 1) /\ Shifts(t, 7, A[1])
  BY <1>0, <1>1, ShiftsDef
<1>3. Sum8(p, y, s) /\ gmult[y][1] = p[8] /\ Sum8(q, y, t) /\ gmult[y][A[1]] = q[8]
  BY <1>0, <1>1, ProductDef
<1> HIDE DEF s, t, p, q
<1>4. \A i \in 0..7 : t[i] = A[s[i]]
  <2> DEFINE P == {i \in Nat : i <= 7 => t[i] = A[s[i]]}
  <2>1. 0 \in P
    BY <1>2 DEF Shifts
  <2>2. ASSUME NEW i \in Nat, i \in P PROVE i + 1 \in P
    <3> SUFFICES ASSUME i + 1 <= 7 PROVE t[i + 1] = A[s[i + 1]]
      OBVIOUS
    <3>1. i \in 0..7 /\ i + 1 \in 1..7 /\ (i + 1) - 1 = i /\ t[i] = A[s[i]]
      BY <2>2
    <3>2. s[i] \in Byte /\ s[i + 1] = Double[s[i]] /\ t[i + 1] = Double[t[i]]
      BY <1>2, <3>1 DEF Shifts
    <3> QED
      BY <3>1, <3>2
  <2> HIDE DEF P
  <2>3. \A i \in Nat : i \in P
    BY <2>1, <2>2, NumbersFromZero
  <2> QED
    BY <2>3 DEF P
<1> DEFINE P == {i \in Nat : i <= 8 => q[i] = A[p[i]]}
<1>5. 0 \in P
  <2>1. A[0] = 0
    <3>1. A[0 \oplus 0] = A[0] \oplus A[0] /\ A[0] \in Byte
      BY ZeroByte
    <3> QED
      BY <3>1, ZeroByte, Add
  <2> QED
    BY <1>3, <2>1 DEF Sum8
<1>6. ASSUME NEW i \in Nat, i \in P PROVE i + 1 \in P
  <2> SUFFICES ASSUME i + 1 <= 8 PROVE q[i + 1] = A[p[i + 1]]
    OBVIOUS
  <2>1. i \in 0..7 /\ i \in 0..8 /\ i + 1 \in 1..8 /\ (i + 1) - 1 = i /\ q[i] = A[p[i]]
    BY <1>6
  <2>2. /\ p[i + 1] = IF Bit(y, i) = 1 THEN p[i] \oplus s[i] ELSE p[i]
        /\ q[i + 1] = IF Bit(y, i) = 1 THEN q[i] \oplus t[i] ELSE q[i]
    BY <1>3, <2>1 DEF Sum8, \oplus
  <2>3. p[i] \in Byte /\ s[i] \in Byte /\ t[i] = A[s[i]]
    BY <1>2, <1>3, <1>4, <2>1 DEF Sum8, Shifts
  <2>4. A[p[i] \oplus s[i]] = A[p[i]] \oplus A[s[i]]
    BY <2>3
  <2> QED
    BY <2>1, <2>2, <2>3, <2>4
<1> HIDE DEF P
<1>7. 8 \in P
  BY <1>1, <1>5, <1>6, NumbersFromZero
<1>8. q[8] = A[p[8]] /\ p[8] = y \otimes 1 /\ q[8] = y \otimes A[1]
  BY <1>3, <1>7 DEF P, \otimes
<1> QED
  BY <1>8, TimesOne

\* The field, but for inverses: products commute and associate, one and zero are
\* neutral and absorbing, and doubling is multiplication by two.
LEMMA Times ==
  /\ \A x, y \in Byte : x \otimes y \in Byte /\ x \otimes y = y \otimes x
  /\ \A x, y, z \in Byte : (x \otimes y) \otimes z = x \otimes (y \otimes z)
  /\ \A x, y, z \in Byte : x \otimes (y \oplus z) = (x \otimes y) \oplus (x \otimes z)
  /\ \A x, y, z \in Byte : (y \oplus z) \otimes x = (y \otimes x) \oplus (z \otimes x)
  /\ \A x \in Byte : x \otimes 1 = x /\ 1 \otimes x = x /\ x \otimes 0 = 0 /\ 0 \otimes x = 0
  /\ \A x \in Byte : Double[x] = 2 \otimes x
<1>0. 1 \in Byte /\ 2 \in Byte
  BY OneByte
<1>1. ASSUME NEW x \in Byte, NEW y \in Byte PROVE x \otimes y = y \otimes x
  <2> DEFINE A == [u \in Byte |-> x \otimes u]
  <2>1. A \in [Byte -> Byte]
    BY TimesAdd
  <2>2. \A u, v \in Byte : A[u \oplus v] = A[u] \oplus A[v]
    BY TimesAdd, Add
  <2>3. \A u \in Byte : A[Double[u]] = Double[A[u]]
    BY TimesDouble, DoubleType
  <2>4. A[1] = x /\ A[y] = x \otimes y
    BY <1>0, TimesOne
  <2> HIDE DEF A
  <2> QED
    BY <2>1, <2>2, <2>3, <2>4, Linear
<1>2. ASSUME NEW x \in Byte, NEW y \in Byte, NEW z \in Byte
      PROVE  x \otimes (y \otimes z) = y \otimes (x \otimes z)
  <2> DEFINE A == [u \in Byte |-> x \otimes (z \otimes u)]
  <2>1. A \in [Byte -> Byte]
    BY TimesAdd
  <2>2. ASSUME NEW u \in Byte, NEW v \in Byte PROVE A[u \oplus v] = A[u] \oplus A[v]
    <3>1. z \otimes u \in Byte /\ z \otimes v \in Byte /\ u \oplus v \in Byte
          /\ z \otimes (u \oplus v) = (z \otimes u) \oplus (z \otimes v)
      BY TimesAdd, Add
    <3>2. x \otimes ((z \otimes u) \oplus (z \otimes v))
             = (x \otimes (z \otimes u)) \oplus (x \otimes (z \otimes v))
      BY <3>1, TimesAdd
    <3> QED
      BY <3>1, <3>2
  <2>3. ASSUME NEW u \in Byte PROVE A[Double[u]] = Double[A[u]]
    <3>1. z \otimes u \in Byte /\ z \otimes Double[u] = Double[z \otimes u] /\ Double[u] \in Byte
      BY TimesAdd, TimesDouble, DoubleType
    <3> QED
      BY <3>1, TimesDouble
  <2>4. A[1] = x \otimes z /\ A[y] = x \otimes (z \otimes y)
    BY <1>0, TimesOne
  <2> HIDE DEF A
  <2>5. x \otimes (z \otimes y) = y \otimes (x \otimes z)
    BY <2>1, <2>2, <2>3, <2>4, Linear
  <2> QED
    BY <1>1, <2>5
<1>3. ASSUME NEW x \in Byte PROVE x \otimes 0 = 0
  <2>1. x \otimes (0 \oplus 0) = (x \otimes 0) \oplus (x \otimes 0) /\ x \otimes 0 \in Byte
    BY ZeroByte, TimesAdd
  <2> QED
    BY <2>1, ZeroByte, Add
<1>4. ASSUME NEW x \in Byte PROVE Double[x] = 2 \otimes x
  <2>1. Double[x] = Double[x \otimes 1] /\ Double[1] = 2
    BY <1>0, TimesOne DEF Double
  <2> QED
    BY <1>0, <1>1, <2>1, TimesDouble
<1>5. ASSUME NEW x \in Byte, NEW y \in Byte, NEW z \in Byte
      PROVE  (x \otimes y) \otimes z = x \otimes (y \otimes z)
  <2>1. x \otimes y \in Byte /\ y \otimes z \in Byte
    BY TimesAdd
  <2>2. (x \otimes y) \otimes z = z \otimes (x \otimes y)
    BY <1>1, <2>1
  <2>3. z \otimes (x \otimes y) = x \otimes (z \otimes y)
    BY <1>2
  <2>4. z \otimes y = y \otimes z
    BY <1>1
  <2> QED
    BY <2>2, <2>3, <2>4
<1>6. ASSUME NEW x \in Byte, NEW y \in Byte, NEW z \in Byte
      PROVE  /\ x \otimes (y \oplus z) = (x \otimes y) \oplus (x \otimes z)
             /\ (y \oplus z) \otimes x = (y \otimes x) \oplus (z \otimes x)
  <2>1. x \otimes (y \oplus z) = (x \otimes y) \oplus (x \otimes z) /\ y \oplus z \in Byte
    BY TimesAdd, Add
  <2> QED
    BY <1>1, <2>1
<1>7. ASSUME NEW x \in Byte
      PROVE  x \otimes 1 = x /\ 1 \otimes x = x /\ x \otimes 0 = 0 /\ 0 \otimes x = 0
  BY <1>0, <1>1, <1>3, TimesOne, ZeroByte
<1> QED
  BY <1>1, <1>4, <1>5, <1>6, <1>7, TimesAdd

\* The laws one by one: regrouping products, ...
LEMMA Regroup ==
  ASSUME NEW x \in Byte, NEW y \in Byte, NEW z \in Byte
  PROVE  /\ (x \otimes y) \otimes z = x \otimes (y \otimes z)
         /\ x \otimes (y \otimes z) = y \otimes (x \otimes z)
<1>1. /\ (x \otimes y) \otimes z = x \otimes (y \otimes z)
      /\ (y \otimes x) \otimes z = y \otimes (x \otimes z)
      /\ x \otimes y = y \otimes x
  BY Times
<1> QED
  BY <1>1

\* ... and products of sums.
LEMMA Distribute ==
  ASSUME NEW x \in Byte, NEW y \in Byte, NEW z \in Byte
  PROVE  /\ x \otimes (y \oplus z) = (x \otimes y) \oplus (x \otimes z)
         /\ (y \oplus z) \otimes x = (y \otimes x) \oplus (z \otimes x)
BY Times

\* What is neutral, what is not.
LEMMA Units ==
  ASSUME NEW x \in Byte
  PROVE  /\ x \otimes 1 = x /\ 1 \otimes x = x /\ x \otimes 0 = 0 /\ 0 \otimes x = 0
         /\ x \oplus 0 = x /\ 0 \oplus x = x /\ x \oplus x = 0
BY Times, Add

\* Sums and products are bytes, and commute.
LEMMA Closed ==
  ASSUME NEW x \in Byte, NEW y \in Byte
  PROVE  /\ x \oplus y \in Byte /\ x \otimes y \in Byte
         /\ x \oplus y = y \oplus x /\ x \otimes y = y \otimes x
BY Times, Add

\* Every power is the one before doubled.
LEMMA PowerStep ==
  /\ gexp[0] = 1
  /\ \A i \in 0..253 : gexp[i + 1] = 2 \otimes gexp[i]
<1>1. 254 \in Nat /\ 0 \in 0..254
  OBVIOUS
<1>2. Shifts(ShiftsOf(254, 1), 254, 1)
  BY <1>1, OneByte, ShiftsDef
<1>3. \A z \in 0..254 : gexp[z] = ShiftsOf(254, 1)[z]
  BY DEF gexp, ShiftsOf
<1>4. ASSUME NEW i \in 0..253 PROVE gexp[i + 1] = 2 \otimes gexp[i]
  <2>1. i + 1 \in 1..254 /\ i \in 0..254 /\ i + 1 \in 0..254 /\ (i + 1) - 1 = i
    OBVIOUS
  <2>2. gexp[i + 1] = Double[gexp[i]]
    BY <1>2, <1>3, <2>1 DEF Shifts
  <2> QED
    BY <2>1, <2>2, PowerType, Times
<1> QED
  BY <1>1, <1>2, <1>3, <1>4 DEF Shifts

\* Exponents add up in products.
LEMMA PowerSum ==
  ASSUME NEW i \in Nat, NEW j \in Nat, i + j <= 254
  PROVE  gexp[i + j] = gexp[i] \otimes gexp[j]
<1> DEFINE P == {k \in Nat : k + j <= 254 => gexp[k + j] = gexp[k] \otimes gexp[j]}
<1>1. 0 \in P
  <2> SUFFICES ASSUME j <= 254 PROVE gexp[0 + j] = gexp[0] \otimes gexp[j]
    OBVIOUS
  <2>1. 0 + j = j /\ j \in 0..254
    OBVIOUS
  <2>2. gexp[j] \in Byte /\ gexp[0] = 1
    BY <2>1, PowerType, PowerStep
  <2> QED
    BY <2>1, <2>2, Times
<1>2. ASSUME NEW k \in Nat, k \in P PROVE k + 1 \in P
  <2> SUFFICES ASSUME (k + 1) + j <= 254
               PROVE  gexp[(k + 1) + j] = gexp[k + 1] \otimes gexp[j]
    OBVIOUS
  <2>1. /\ (k + 1) + j = (k + j) + 1 /\ k + j \in 0..253 /\ k \in 0..253 /\ k \in 0..254
        /\ j \in 0..254 /\ gexp[k + j] = gexp[k] \otimes gexp[j]
    BY <1>2
  <2>2. gexp[(k + 1) + j] = 2 \otimes (gexp[k] \otimes gexp[j]) /\ gexp[k + 1] = 2 \otimes gexp[k]
    BY <2>1, PowerStep
  <2>3. gexp[k] \in Byte /\ gexp[j] \in Byte
    BY <2>1, PowerType
  <2> QED
    BY <2>2, <2>3, OneByte, Regroup
<1> HIDE DEF P
<1>3. i \in P
  BY <1>1, <1>2, NumbersFromZero
<1> QED
  BY <1>3 DEF P

\* Some sums.
LEMMA SomeSums ==
  /\ Xor[0][29] = 29 /\ Xor[208][29] = 205 /\ Xor[154][29] = 135 /\ Xor[14][29] = 19
  /\ 128 \oplus 16 = 144 /\ 144 \oplus 8 = 152
  /\ 19 \oplus 29 = 14 /\ 14 \oplus 64 = 78
  /\ 64 \oplus 8 = 72 /\ 72 \oplus 4 = 76 /\ 76 \oplus 2 = 78
  /\ 205 \oplus 64 = 141 /\ 141 \oplus 16 = 157 /\ 157 \oplus 4 = 153
  /\ 152 \oplus 1 = 153 /\ 78 \oplus 152 = 214
BY Powers DEF \oplus, Xor, Bit, Byte

\* The first powers.
LEMMA FirstPowers ==
  /\ gexp[0] = 1 /\ gexp[1] = 2 /\ gexp[2] = 4 /\ gexp[3] = 8 /\ gexp[4] = 16 /\ gexp[5] = 32
  /\ gexp[6] = 64 /\ gexp[7] = 128 /\ gexp[8] = 29 /\ gexp[12] = 205 /\ gexp[14] = 19
  /\ gexp[15] = 38 /\ gexp[17] = 152
<1>1. ASSUME NEW i \in 0..253 PROVE gexp[i + 1] = Double[gexp[i]]
  <2>1. i \in 0..254
    OBVIOUS
  <2> QED
    BY <2>1, PowerStep, PowerType, Times
<1>2. /\ \A y \in 0..127 : Double[y] = 2 * y
      /\ Double[128] = Xor[0][29] /\ Double[232] = Xor[208][29]
      /\ Double[205] = Xor[154][29] /\ Double[135] = Xor[14][29]
  BY DEF Double, Byte
<1>3. /\ gexp[0 + 1] = Double[gexp[0]] /\ gexp[1 + 1] = Double[gexp[1]]
      /\ gexp[2 + 1] = Double[gexp[2]] /\ gexp[3 + 1] = Double[gexp[3]]
      /\ gexp[4 + 1] = Double[gexp[4]] /\ gexp[5 + 1] = Double[gexp[5]]
      /\ gexp[6 + 1] = Double[gexp[6]] /\ gexp[7 + 1] = Double[gexp[7]]
      /\ gexp[8 + 1] = Double[gexp[8]] /\ gexp[9 + 1] = Double[gexp[9]]
      /\ gexp[10 + 1] = Double[gexp[10]] /\ gexp[11 + 1] = Double[gexp[11]]
      /\ gexp[12 + 1] = Double[gexp[12]] /\ gexp[13 + 1] = Double[gexp[13]]
      /\ gexp[14 + 1] = Double[gexp[14]] /\ gexp[15 + 1] = Double[gexp[15]]
      /\ gexp[16 + 1] = Double[gexp[16]]
  BY <1>1
<1>4. /\ Double[1] = 2 /\ Double[2] = 4 /\ Double[4] = 8 /\ Double[8] = 16 /\ Double[16] = 32
      /\ Double[32] = 64 /\ Double[64] = 128 /\ Double[128] = 29 /\ Double[29] = 58
      /\ Double[58] = 116 /\ Double[116] = 232 /\ Double[232] = 205 /\ Double[205] = 135
      /\ Double[135] = 19 /\ Double[19] = 38 /\ Double[38] = 76 /\ Double[76] = 152
  BY <1>2, SomeSums
<1> QED
  BY <1>3, <1>4, PowerStep

\* Squares go along with sums.
LEMMA SquareSum ==
  ASSUME NEW x \in Byte, NEW y \in Byte
  PROVE  (x \oplus y) \otimes (x \oplus y) = (x \otimes x) \oplus (y \otimes y)
<1> DEFINE p == x \otimes x
           q == x \otimes y
           r == y \otimes y
<1>1. p \in Byte /\ q \in Byte /\ r \in Byte /\ y \otimes x = q /\ x \oplus y \in Byte
  BY Times, Add
<1>2. /\ (x \oplus y) \otimes (x \oplus y) = ((x \oplus y) \otimes x) \oplus ((x \oplus y) \otimes y)
      /\ (x \oplus y) \otimes x = p \oplus (y \otimes x) /\ (x \oplus y) \otimes y = q \oplus r
  BY <1>1, Times
<1> HIDE DEF p, q, r
<1>3. (p \oplus q) \oplus (q \oplus r) = p \oplus (q \oplus (q \oplus r))
  BY <1>1, Add
<1>4. q \oplus (q \oplus r) = r
  BY <1>1, Add
<1> QED
  BY <1>1, <1>2, <1>3, <1>4 DEF p, r

\* After 255 factors the powers are back at one.  With y = a^17 the fourth power of y
\* is y + 1; then w = y^5 = a^85 has the square w + 1 and the third power one.
LEMMA LastPower ==
  /\ 2 \otimes gexp[254] = 1
  /\ gexp[34] = 78 /\ gexp[68] = gexp[17] \oplus 1 /\ gexp[85] = 214
<1>1. \A i \in {0, 1, 2, 3, 4, 6, 7, 8, 12, 14, 17, 34, 51, 68, 84, 85, 170, 254} : gexp[i] \in Byte
  BY PowerType
<1>2. /\ gexp[7 + 7] = gexp[7] \otimes gexp[7] /\ gexp[4 + 4] = gexp[4] \otimes gexp[4]
      /\ gexp[3 + 3] = gexp[3] \otimes gexp[3] /\ gexp[17 + 17] = gexp[17] \otimes gexp[17]
      /\ gexp[6 + 6] = gexp[6] \otimes gexp[6] /\ gexp[2 + 2] = gexp[2] \otimes gexp[2]
      /\ gexp[1 + 1] = gexp[1] \otimes gexp[1] /\ gexp[34 + 34] = gexp[34] \otimes gexp[34]
      /\ gexp[68 + 17] = gexp[68] \otimes gexp[17] /\ gexp[85 + 85] = gexp[85] \otimes gexp[85]
      /\ gexp[170 + 84] = gexp[170] \otimes gexp[84]
  BY PowerSum
<1>3. \A x \in {2, 4, 8, 14, 16, 19, 29, 38, 64, 72, 76, 78, 128, 144, 152, 205} : x \in Byte
  BY DEF Byte
<1>4. gexp[34] = 78
  <2>1. 152 \otimes 152 = (144 \otimes 144) \oplus (8 \otimes 8)
    BY <1>3, SomeSums, SquareSum
  <2>2. 144 \otimes 144 = (128 \otimes 128) \oplus (16 \otimes 16)
    BY <1>3, SomeSums, SquareSum
  <2>3. 128 \otimes 128 = 19 /\ 16 \otimes 16 = 29 /\ 8 \otimes 8 = 64
    BY <1>2, FirstPowers
  <2> QED
    BY <1>2, <2>1, <2>2, <2>3, FirstPowers, SomeSums
<1>5. gexp[68] = gexp[17] \oplus 1
  <2>1. 78 \otimes 78 = (76 \otimes 76) \oplus (2 \otimes 2)
    BY <1>3, SomeSums, SquareSum
  <2>2. 76 \otimes 76 = (72 \otimes 72) \oplus (4 \otimes 4)
    BY <1>3, SomeSums, SquareSum
  <2>3. 72 \otimes 72 = (64 \otimes 64) \oplus (8 \otimes 8)
    BY <1>3, SomeSums, SquareSum
  <2>4. 64 \otimes 64 = 205 /\ 8 \otimes 8 = 64 /\ 4 \otimes 4 = 16 /\ 2 \otimes 2 = 4
    BY <1>2, FirstPowers
  <2> QED
    BY <1>2, <1>4, <2>1, <2>2, <2>3, <2>4, FirstPowers, SomeSums
<1> DEFINE y == gexp[17]
           w == gexp[85]
<1>6. y \in Byte /\ w \in Byte /\ gexp[34] = y \otimes y /\ gexp[34] \in Byte
  BY <1>1, <1>2
<1>7. w = gexp[34] \oplus y
  <2>1. w = (y \oplus 1) \otimes y
    BY <1>2, <1>5
  <2>2. (y \oplus 1) \otimes y = (y \otimes y) \oplus (1 \otimes y)
    BY <1>6, OneByte, Distribute
  <2> QED
    BY <1>6, <2>1, <2>2, Times
<1>8. w = 214
  BY <1>4, <1>7, FirstPowers, SomeSums
<1>9. w \otimes w = w \oplus 1
  <2>1. w \otimes w = (gexp[34] \otimes gexp[34]) \oplus (y \otimes y)
    BY <1>6, <1>7, SquareSum
  <2>2. w \otimes w = (y \oplus 1) \oplus gexp[34]
    BY <1>2, <1>5, <1>6, <2>1
  <2> QED
    BY <1>6, <1>7, <2>2, OneByte, Add
<1>10. (w \otimes w) \otimes w = 1
  <2>1. (w \oplus 1) \otimes w = (w \otimes w) \oplus (1 \otimes w)
    BY <1>6, OneByte, Distribute
  <2>2. (w \oplus 1) \oplus w = 1
    BY <1>6, OneByte, Add
  <2> QED
    BY <1>6, <1>9, <2>1, <2>2, Times
<1>11. 2 \otimes gexp[254] = 1
  <2>1. gexp[84 + 1] = 2 \otimes gexp[84]
    BY PowerStep
  <2>2. 2 \otimes (gexp[170] \otimes gexp[84]) = gexp[170] \otimes (2 \otimes gexp[84])
    BY <1>1, OneByte, Regroup
  <2> QED
    BY <1>2, <1>10, <2>1, <2>2
<1> QED
  BY <1>4, <1>5, <1>8, <1>11

\* Powers with any exponent, as the decoder takes them.
Pow(i) == gexp[i % 255]

\* They are bytes, and each is twice the one before.
LEMMA PowStep ==
  /\ Pow(0) = 1
  /\ \A i \in Nat : Pow(i) \in Byte /\ Pow(i + 1) = 2 \otimes Pow(i)
<1>1. \A i \in Nat : Pow(i) \in Byte
  <2>1. \A i \in Nat : i % 255 \in 0..254
    OBVIOUS
  <2> QED
    BY <2>1, PowerType DEF Pow
<1>2. ASSUME NEW i \in Nat PROVE Pow(i + 1) = 2 \otimes Pow(i)
  <2>1. CASE i % 255 = 254
    <3>1. (i + 1) % 255 = 0
      BY <2>1
    <3> QED
      BY <2>1, <3>1, PowerStep, LastPower DEF Pow
  <2>2. CASE i % 255 # 254
    <3>1. (i + 1) % 255 = (i % 255) + 1 /\ i % 255 \in 0..253
      BY <2>2
    <3> QED
      BY <3>1, PowerStep DEF Pow
  <2> QED
    BY <2>1, <2>2
<1>3. Pow(0) = 1
  BY PowerStep DEF Pow
<1> QED
  BY <1>1, <1>2, <1>3

\* Exponents add up in products, whatever their size.
LEMMA PowSum ==
  ASSUME NEW i \in Nat, NEW j \in Nat
  PROVE  Pow(i) \in Byte /\ Pow(i + j) = Pow(i) \otimes Pow(j)
<1> DEFINE P == {k \in Nat : Pow(k + j) = Pow(k) \otimes Pow(j)}
<1>1. 0 \in P
  <2>1. 0 + j = j /\ Pow(j) \in Byte /\ Pow(0) = 1
    BY PowStep
  <2> QED
    BY <2>1, Units
<1>2. ASSUME NEW k \in Nat, k \in P PROVE k + 1 \in P
  <2>1. (k + 1) + j = (k + j) + 1 /\ k + j \in Nat /\ Pow(k + j) = Pow(k) \otimes Pow(j)
    BY <1>2
  <2>2. Pow((k + 1) + j) = 2 \otimes (Pow(k) \otimes Pow(j)) /\ Pow(k + 1) = 2 \otimes Pow(k)
    BY <2>1, PowStep
  <2>3. Pow(k) \in Byte /\ Pow(j) \in Byte
    BY PowStep
  <2>4. Pow((k + 1) + j) = Pow(k + 1) \otimes Pow(j)
    BY <2>2, <2>3, OneByte, Regroup
  <2> QED
    BY <2>4
<1> HIDE DEF P
<1>3. i \in P
  BY <1>1, <1>2, NumbersFromZero
<1> QED
  BY <1>3, PowStep DEF P

\* Whole turns do not count.
LEMMA PowTurn ==
  ASSUME NEW i \in Nat, NEW k \in Nat
  PROVE  Pow(i + 255 * k) = Pow(i) /\ Pow(255 * k) = 1
<1>1. (i + 255 * k) % 255 = i % 255 /\ (255 * k) % 255 = 0
  OBVIOUS
<1> QED
  BY <1>1, PowerStep DEF Pow

\* If a power is one, so are its powers.
LEMMA PowOfOne ==
  ASSUME NEW m \in Nat, Pow(m) = 1, NEW k \in Nat
  PROVE  Pow(m * k) = 1
<1> DEFINE P == {i \in Nat : Pow(m * i) = 1}
<1>1. 0 \in P
  BY PowStep
<1>2. ASSUME NEW i \in Nat, i \in P PROVE i + 1 \in P
  <2>1. m * (i + 1) = m * i + m /\ m * i \in Nat /\ Pow(m * i) = 1
    BY <1>2
  <2>2. Pow(m * (i + 1)) = Pow(m * i) \otimes Pow(m)
    BY <2>1, PowSum
  <2>3. Pow(m * (i + 1)) = 1
    BY <2>1, <2>2, OneByte, Units
  <2> QED
    BY <2>3
<1> HIDE DEF P
<1>3. k \in P
  BY <1>1, <1>2, NumbersFromZero
<1> QED
  BY <1>3 DEF P

\* The powers in between: with 15, 51 or 85 factors, to which every divisor of 255
\* leads, they are not one.
LEMMA PowNotOne == \A d \in 1..254 : Pow(d) # 1
<1> SUFFICES ASSUME NEW d \in 1..254, Pow(d) = 1 PROVE FALSE
  OBVIOUS
<1> DEFINE T == {m \in Nat : m > 0 /\ Pow(m) = 1}
<1>1. d \in T
  OBVIOUS
<1>2. PICK m \in T : \A n \in T : m <= n
  BY <1>1, LeastNumber
<1>3. m \in 1..254 /\ Pow(m) = 1
  BY <1>1, <1>2
<1>4. PICK q \in Nat, r \in Nat : 255 = m * q + r /\ r < m
  <2>1. 255 \div m \in Nat /\ 255 % m \in Nat /\ 255 = m * (255 \div m) + (255 % m) /\ 255 % m < m
    BY <1>3
  <2> QED
    BY <2>1
<1>5. r = 0
  <2>1. Pow(255 * 1) = 1
    BY PowTurn
  <2>2. Pow(m * q) = 1
    BY <1>3, PowOfOne
  <2>3. m * q \in Nat
    BY <1>3
  <2>4. Pow(m * q + r) = Pow(m * q) \otimes Pow(r) /\ Pow(r) \in Byte
    BY <2>3, PowSum
  <2>5. Pow(r) = 1
    BY <1>4, <2>1, <2>2, <2>4, Units
  <2>6. ~(r \in T)
    BY <1>2, <1>3, <1>4
  <2> QED
    BY <2>5, <2>6
<1>6. m * q = 255
  BY <1>3, <1>4, <1>5
<1>7. m \in {1, 3, 5, 15, 17, 51, 85}
  <2>1. CASE m <= 15
    <3>1. m \in {1, 2, 3, 4, 5, 6, 7, 8, 9, 10, 11, 12, 13, 14, 15}
      BY <1>3, <2>1
    <3>2. /\ 255 # 2 * q /\ 255 # 4 * q /\ 255 # 6 * q /\ 255 # 7 * q /\ 255 # 8 * q /\ 255 # 9 * q
          /\ 255 # 10 * q /\ 255 # 11 * q /\ 255 # 12 * q /\ 255 # 13 * q /\ 255 # 14 * q
      OBVIOUS
    <3> QED
      BY <1>6, <3>1, <3>2
  <2>2. CASE m >= 16
    <3>1. q \in 2..15
      <4>1. m * q >= 16 * q
        BY <1>3, <2>2
      <4>2. q # 0 /\ q # 1
        BY <1>3, <1>6
      <4> QED
        BY <1>6, <4>1, <4>2
    <3>2. q \in {2, 3, 4, 5, 6, 7, 8, 9, 10, 11, 12, 13, 14, 15}
      BY <3>1
    <3>3. /\ 255 # m * 2 /\ 255 # m * 4 /\ 255 # m * 6 /\ 255 # m * 7 /\ 255 # m * 8 /\ 255 # m * 9
          /\ 255 # m * 10 /\ 255 # m * 11 /\ 255 # m * 12 /\ 255 # m * 13 /\ 255 # m * 14
      BY <1>3
    <3>4. q = 3 \/ q = 5 \/ q = 15
      BY <1>6, <3>2, <3>3
    <3> QED
      BY <1>3, <1>6, <3>4
  <2> QED
    BY <1>3, <2>1, <2>2
<1>8. Pow(15) = 1 \/ Pow(51) = 1 \/ Pow(85) = 1
  <2>1. /\ Pow(m * 1) = 1 /\ Pow(m * 3) = 1 /\ Pow(m * 5) = 1 /\ Pow(m * 15) = 1
    BY <1>3, PowOfOne
  <2> QED
    BY <1>7, <2>1
<1>9. Pow(15) = 38 /\ Pow(51) = gexp[51] /\ Pow(85) = 214
  BY FirstPowers, LastPower DEF Pow
<1>10. gexp[51] # 1
  <2>1. /\ gexp[17 + 51] = gexp[17] \otimes gexp[51]
        /\ gexp[17] = 152 /\ gexp[68] = 153
    BY PowerSum, FirstPowers, LastPower, SomeSums
  <2>2. 152 \in Byte
    BY DEF Byte
  <2> QED
    BY <2>1, <2>2, Units
<1> QED
  BY <1>8, <1>9, <1>10

\* What is left to a whole turn makes one of a power, so none is zero, ...
LEMMA PowInverse ==
  ASSUME NEW i \in 0..255
  PROVE  Pow(i) \otimes Pow(255 - i) = 1 /\ Pow(i) # 0
<1>1. i \in Nat /\ 255 - i \in Nat /\ i + (255 - i) = 255 * 1
  OBVIOUS
<1>2. Pow(i) \otimes Pow(255 - i) = 1
  <2>1. Pow(i + (255 - i)) = Pow(i) \otimes Pow(255 - i)
    BY <1>1, PowSum
  <2>2. Pow(255 * 1) = 1
    BY PowTurn
  <2> QED
    BY <1>1, <2>1, <2>2
<1>3. Pow(255 - i) \in Byte
  BY <1>1, PowStep
<1> QED
  BY <1>2, <1>3, Units

\* No power is zero, ...
LEMMA PowNotZero == \A i \in Nat : Pow(i) \in Byte \ {0}
<1> SUFFICES ASSUME NEW i \in Nat PROVE Pow(i) # 0
  BY PowStep
<1>1. i % 255 \in 0..255 /\ (i % 255) % 255 = i % 255
  OBVIOUS
<1> QED
  BY <1>1, PowInverse DEF Pow

\* ... no two of one turn are the same, ...
LEMMA PowInjective ==
  ASSUME NEW i \in 0..254, NEW j \in 0..254, Pow(i) = Pow(j)
  PROVE  i = j
<1>1. ASSUME NEW k \in 0..254, NEW l \in 0..254, k < l, Pow(k) = Pow(l) PROVE FALSE
  <2>1. k \in Nat /\ l - k \in 1..254 /\ l - k \in Nat /\ k + (l - k) = l /\ 255 - k \in Nat /\ k \in 0..255
    BY <1>1
  <2>2. Pow(l) = Pow(k) \otimes Pow(l - k)
    BY <2>1, PowSum
  <2>3. Pow(k) \otimes Pow(255 - k) = 1
    BY <2>1, PowInverse
  <2>4. Pow(k) \in Byte /\ Pow(l - k) \in Byte /\ Pow(255 - k) \in Byte
    BY <2>1, PowStep
  <2>5. Pow(255 - k) \otimes (Pow(k) \otimes Pow(l - k)) = (Pow(k) \otimes Pow(255 - k)) \otimes Pow(l - k)
    BY <2>4, Regroup, Closed
  <2>6. Pow(255 - k) \otimes Pow(k) = Pow(k) \otimes Pow(255 - k)
    BY <2>4, Closed
  <2>7. Pow(l - k) = 1
    BY <1>1, <2>2, <2>3, <2>4, <2>5, <2>6, Units
  <2> QED
    BY <2>1, <2>7, PowNotOne
<1>2. i < j \/ j < i \/ i = j
  OBVIOUS
<1> QED
  BY <1>1, <1>2

\* ... and they are all the bytes but zero.
LEMMA Logarithm == \A x \in Byte \ {0} : \E i \in 0..254 : x = Pow(i)
<1> DEFINE S == 0..254
           T == 1..255
           f == [i \in S |-> Pow(i)]
<1>1. f \in Injection(S, T)
  <2>1. \A i \in S : Pow(i) \in T
    BY PowNotZero DEF Byte
  <2>2. f \in [S -> T]
    BY <2>1
  <2>3. \A i, j \in S : f[i] = f[j] => i = j
    BY PowInjective
  <2> QED
    BY <2>2, <2>3 DEF Injection, IsInjective
<1>2. IsFiniteSet(S) /\ IsFiniteSet(T) /\ Cardinality(S) = 255 /\ Cardinality(T) = 255
  <2>1. 0 \in Int /\ 254 \in Int /\ 1 \in Int /\ 255 \in Int
    OBVIOUS
  <2>2. IsFiniteSet(S) /\ Cardinality(S) = IF 0 > 254 THEN 0 ELSE 254 - 0 + 1
    BY <2>1, FS_Interval
  <2>3. IsFiniteSet(T) /\ Cardinality(T) = IF 1 > 255 THEN 0 ELSE 255 - 1 + 1
    BY <2>1, FS_Interval
  <2> QED
    BY <2>2, <2>3
<1>3. Range(f) = T
  <2>1. f \in Surjection(S, T)
    BY <1>1, <1>2, FS_Injection
  <2> HIDE DEF f, S, T
  <2> QED
    BY <2>1 DEF Surjection, Range
<1>4. \A x \in Byte \ {0} : x \in T
  BY DEF Byte
<1> QED
  BY <1>3, <1>4 DEF Range

\* So every byte but zero has an inverse, which is what the code's matrix finds, ...
LEMMA Inverses == \A x \in Byte \ {0} : ginv[x] \in Byte /\ x \otimes ginv[x] = 1
<1> SUFFICES ASSUME NEW x \in Byte \ {0} PROVE ginv[x] \in Byte /\ gmult[x][ginv[x]] = 1
  BY DEF \otimes
<1>1. PICK i \in 0..254 : x = Pow(i)
  BY Logarithm
<1>2. i \in 0..255 /\ 255 - i \in Nat
  OBVIOUS
<1>3. Pow(255 - i) \in Byte /\ gmult[x][Pow(255 - i)] = 1
  BY <1>1, <1>2, PowInverse, PowStep DEF \otimes
<1>4. ginv[x] = CHOOSE y \in Byte : gmult[x][y] = 1
  BY DEF ginv
<1> QED
  BY <1>3, <1>4

\* ... and a product is only zero with a factor.
LEMMA NoDivisors ==
  ASSUME NEW x \in Byte, NEW y \in Byte, x \otimes y = 0
  PROVE  x = 0 \/ y = 0
<1> SUFFICES ASSUME x # 0 PROVE y = 0
  OBVIOUS
<1>1. ginv[x] \in Byte /\ x \otimes ginv[x] = 1
  BY Inverses
<1>2. (ginv[x] \otimes x) \otimes y = ginv[x] \otimes (x \otimes y)
  BY <1>1, Regroup
<1>3. ginv[x] \otimes x = x \otimes ginv[x]
  BY <1>1, Closed
<1> QED
  BY <1>1, <1>2, <1>3, Units

-----------------------------------------------------------------------------
(***************************************************************************)
(* Sums of bytes, XorSum(f, n) = f[0] + ... + f[n - 1].                    *)
(***************************************************************************)

\* k holds the sums of the first 0, 1, ... n values of f.
Adds(k, n, f) == k \in [0..n -> Byte] /\ k[0] = 0 /\ \A i \in 1..n : k[i] = k[i - 1] \oplus f[i - 1]

\* The recursive function is of bytes and solves its equation.
LEMMA XorSumDef ==
  ASSUME NEW n \in Nat, NEW f, \A i \in 0..(n - 1) : f[i] \in Byte
  PROVE  \E k : Adds(k, n, f) /\ XorSum(f, n) = k[n]
<1> DEFINE F == [i \in 1..n |-> [v \in Byte |-> v \oplus f[i - 1]]]
           Body(k, i) == IF i = 0 THEN 0 ELSE Xor[k[i - 1]][f[i - 1]]
           K == CHOOSE k : k = [i \in 0..n |-> Body(k, i)]
<1>1. XorSum(f, n) = K[n]
  BY DEF XorSum
<1>2. F \in [1..n -> [Byte -> Byte]]
  <2>1. \A i \in 1..n : f[i - 1] \in Byte
    <3>1. \A i \in 1..n : i - 1 \in 0..(n - 1)
      OBVIOUS
    <3> QED
      BY <3>1
  <2>2. \A i \in 1..n : \A v \in Byte : v \oplus f[i - 1] \in Byte
    BY <2>1, Closed
  <2> QED
    BY <2>2
<1>3. ASSUME NEW g, NEW i \in 1..n, g[i - 1] \in Byte PROVE Body(g, i) = F[i][g[i - 1]]
  BY <1>3 DEF \oplus
<1>4. \A g : Body(g, 0) = 0
  OBVIOUS
<1> HIDE DEF F, Body
<1>5. PICK k : Solves(k, n, Byte, 0, F)
  BY <1>2, ZeroByte, Recursion
<1>6. \A i \in 0..n : k[i] = Body(k, i)
  <2> SUFFICES ASSUME NEW i \in 0..n, i # 0 PROVE k[i] = Body(k, i)
    BY <1>4, <1>5 DEF Solves
  <2>1. i \in 1..n /\ k[i - 1] \in Byte
    BY <1>5 DEF Solves
  <2> QED
    BY <1>3, <1>5, <2>1 DEF Solves
<1>7. k = [i \in 0..n |-> Body(k, i)]
  BY <1>5, <1>6 DEF Solves
<1>8. K = [i \in 0..n |-> Body(K, i)]
  BY <1>7
<1> HIDE DEF K
<1>9. K[0] = 0 /\ K = [i \in 0..n |-> K[i]]
  BY <1>4, <1>8
<1>10. \A i \in 1..n : K[i - 1] \in Byte => K[i] = F[i][K[i - 1]]
  BY <1>3, <1>8
<1>11. Solves(K, n, Byte, 0, F)
  BY <1>2, <1>9, <1>10, ZeroByte, RecursionType
<1>12. \A i \in 1..n : K[i - 1] \in Byte
  BY <1>11 DEF Solves
<1>13. Adds(K, n, f)
  BY <1>11, <1>12 DEF Solves, Adds, F
<1> QED
  BY <1>1, <1>13

\* An empty sum is zero, and one with one more value that value more.
LEMMA SumNext ==
  ASSUME NEW f
  PROVE  /\ XorSum(f, 0) = 0
         /\ \A n \in Nat : (\A i \in 0..n : f[i] \in Byte) =>
              /\ XorSum(f, n) \in Byte
              /\ XorSum(f, n + 1) = XorSum(f, n) \oplus f[n]
<1>1. XorSum(f, 0) = 0
  <2>1. 0 \in Nat /\ \A i \in 0..(0 - 1) : f[i] \in Byte
    OBVIOUS
  <2>2. PICK k : Adds(k, 0, f) /\ XorSum(f, 0) = k[0]
    BY <2>1, XorSumDef
  <2> QED
    BY <2>2 DEF Adds
<1>2. ASSUME NEW n \in Nat, \A i \in 0..n : f[i] \in Byte
      PROVE  XorSum(f, n) \in Byte /\ XorSum(f, n + 1) = XorSum(f, n) \oplus f[n]
  <2>1. n + 1 \in Nat /\ (\A i \in 0..((n + 1) - 1) : f[i] \in Byte)
        /\ \A i \in 0..(n - 1) : f[i] \in Byte
    BY <1>2
  <2>2. PICK k : Adds(k, n, f) /\ XorSum(f, n) = k[n]
    BY <2>1, XorSumDef
  <2>3. PICK g : Adds(g, n + 1, f) /\ XorSum(f, n + 1) = g[n + 1]
    BY <2>1, XorSumDef
  <2> DEFINE P == {i \in Nat : i <= n => k[i] = g[i]}
  <2>4. 0 \in P
    BY <2>2, <2>3 DEF Adds
  <2>5. ASSUME NEW i \in Nat, i \in P PROVE i + 1 \in P
    <3> SUFFICES ASSUME i + 1 <= n PROVE k[i + 1] = g[i + 1]
      OBVIOUS
    <3>1. i + 1 \in 1..n /\ i + 1 \in 1..(n + 1) /\ (i + 1) - 1 = i /\ k[i] = g[i]
      BY <2>5
    <3> QED
      BY <2>2, <2>3, <3>1 DEF Adds
  <2> HIDE DEF P
  <2>6. n \in P
    BY <2>4, <2>5, NumbersFromZero
  <2>7. k[n] = g[n]
    BY <2>6 DEF P
  <2>8. n + 1 \in 1..(n + 1) /\ (n + 1) - 1 = n /\ n \in 0..n
    OBVIOUS
  <2>9. g[n + 1] = g[n] \oplus f[n] /\ k[n] \in Byte
    BY <2>2, <2>3, <2>8 DEF Adds
  <2> QED
    BY <2>2, <2>3, <2>7, <2>9
<1> QED
  BY <1>1, <1>2

\* A sum is a byte.
LEMMA SumType ==
  ASSUME NEW n \in Nat, NEW f, \A i \in 0..(n - 1) : f[i] \in Byte
  PROVE  XorSum(f, n) \in Byte
<1>1. PICK k : Adds(k, n, f) /\ XorSum(f, n) = k[n]
  BY XorSumDef
<1>2. n \in 0..n
  OBVIOUS
<1> QED
  BY <1>1, <1>2 DEF Adds

\* Sums of the same values are the same, ...
LEMMA SumEqual ==
  ASSUME NEW n \in Nat, NEW f, NEW g, \A i \in 0..(n - 1) : f[i] \in Byte /\ g[i] = f[i]
  PROVE  XorSum(g, n) = XorSum(f, n)
<1> DEFINE P == {m \in Nat : m <= n => XorSum(g, m) = XorSum(f, m)}
<1>1. 0 \in P
  BY SumNext
<1>2. ASSUME NEW m \in Nat, m \in P PROVE m + 1 \in P
  <2> SUFFICES ASSUME m + 1 <= n PROVE XorSum(g, m + 1) = XorSum(f, m + 1)
    OBVIOUS
  <2>1. m \in 0..(n - 1) /\ XorSum(g, m) = XorSum(f, m) /\ \A i \in 0..m : i \in 0..(n - 1)
    BY <1>2
  <2>2. \A i \in 0..m : f[i] \in Byte /\ g[i] \in Byte
    BY <2>1
  <2>3. /\ XorSum(g, m + 1) = XorSum(g, m) \oplus g[m]
        /\ XorSum(f, m + 1) = XorSum(f, m) \oplus f[m]
    BY <2>2, SumNext
  <2> QED
    BY <2>1, <2>3
<1> HIDE DEF P
<1>3. n \in P
  BY <1>1, <1>2, NumbersFromZero
<1> QED
  BY <1>3 DEF P

\* ... the sum of sums is the sum of both, ...
LEMMA SumAdd ==
  ASSUME NEW n \in Nat, NEW f, NEW g, NEW h,
         \A i \in 0..(n - 1) : f[i] \in Byte /\ g[i] \in Byte /\ h[i] = f[i] \oplus g[i]
  PROVE  XorSum(h, n) = XorSum(f, n) \oplus XorSum(g, n)
<1> DEFINE P == {m \in Nat : m <= n => XorSum(h, m) = XorSum(f, m) \oplus XorSum(g, m)}
<1>1. 0 \in P
  BY SumNext, ZeroByte, Units
<1>2. ASSUME NEW m \in Nat, m \in P PROVE m + 1 \in P
  <2> SUFFICES ASSUME m + 1 <= n PROVE XorSum(h, m + 1) = XorSum(f, m + 1) \oplus XorSum(g, m + 1)
    OBVIOUS
  <2>1. /\ m \in 0..(n - 1) /\ m \in 0..m /\ XorSum(h, m) = XorSum(f, m) \oplus XorSum(g, m)
        /\ \A i \in 0..m : i \in 0..(n - 1)
    BY <1>2
  <2>2. \A i \in 0..m : f[i] \in Byte /\ g[i] \in Byte /\ h[i] \in Byte
    BY <2>1, Closed
  <2>3. /\ XorSum(h, m + 1) = XorSum(h, m) \oplus h[m]
        /\ XorSum(f, m + 1) = XorSum(f, m) \oplus f[m]
        /\ XorSum(g, m + 1) = XorSum(g, m) \oplus g[m]
        /\ XorSum(f, m) \in Byte /\ XorSum(g, m) \in Byte
    BY <2>2, SumNext
  <2>4. f[m] \in Byte /\ g[m] \in Byte /\ h[m] = f[m] \oplus g[m]
    BY <2>1
  <2> QED
    BY <2>1, <2>3, <2>4, AddSwap
<1> HIDE DEF P
<1>3. n \in P
  BY <1>1, <1>2, NumbersFromZero
<1> QED
  BY <1>3 DEF P

\* ... and a factor of all values one of the sum.
LEMMA SumScale ==
  ASSUME NEW n \in Nat, NEW f, NEW h, NEW a \in Byte,
         \A i \in 0..(n - 1) : f[i] \in Byte /\ h[i] = a \otimes f[i]
  PROVE  XorSum(h, n) = a \otimes XorSum(f, n)
<1> DEFINE P == {m \in Nat : m <= n => XorSum(h, m) = a \otimes XorSum(f, m)}
<1>1. 0 \in P
  BY SumNext, Units
<1>2. ASSUME NEW m \in Nat, m \in P PROVE m + 1 \in P
  <2> SUFFICES ASSUME m + 1 <= n PROVE XorSum(h, m + 1) = a \otimes XorSum(f, m + 1)
    OBVIOUS
  <2>1. /\ m \in 0..(n - 1) /\ m \in 0..m /\ XorSum(h, m) = a \otimes XorSum(f, m)
        /\ \A i \in 0..m : i \in 0..(n - 1)
    BY <1>2
  <2>2. \A i \in 0..m : f[i] \in Byte /\ h[i] \in Byte
    BY <2>1, Closed
  <2>3. /\ XorSum(h, m + 1) = XorSum(h, m) \oplus h[m]
        /\ XorSum(f, m + 1) = XorSum(f, m) \oplus f[m]
        /\ XorSum(f, m) \in Byte
    BY <2>2, SumNext
  <2>4. f[m] \in Byte /\ h[m] = a \otimes f[m]
    BY <2>1
  <2> QED
    BY <2>1, <2>3, <2>4, Distribute
<1> HIDE DEF P
<1>3. n \in P
  BY <1>1, <1>2, NumbersFromZero
<1> QED
  BY <1>3 DEF P

\* Zeros at the end add nothing, ...
LEMMA SumLonger ==
  ASSUME NEW n \in Nat, NEW m \in Nat, n <= m, NEW f,
         \A i \in 0..(m - 1) : f[i] \in Byte, \A i \in n..(m - 1) : f[i] = 0
  PROVE  XorSum(f, m) = XorSum(f, n)
<1> DEFINE P == {k \in Nat : n + k <= m => XorSum(f, n + k) = XorSum(f, n)}
<1>1. 0 \in P
  OBVIOUS
<1>2. ASSUME NEW k \in Nat, k \in P PROVE k + 1 \in P
  <2> SUFFICES ASSUME n + (k + 1) <= m PROVE XorSum(f, n + (k + 1)) = XorSum(f, n)
    OBVIOUS
  <2>1. /\ n + k \in Nat /\ n + k \in n..(m - 1) /\ n + (k + 1) = (n + k) + 1
        /\ XorSum(f, n + k) = XorSum(f, n) /\ \A i \in 0..(n + k) : i \in 0..(m - 1)
    BY <1>2
  <2>2. /\ XorSum(f, (n + k) + 1) = XorSum(f, n + k) \oplus f[n + k]
        /\ XorSum(f, n + k) \in Byte
    BY <2>1, SumNext
  <2>3. f[n + k] = 0
    BY <2>1
  <2> QED
    BY <2>1, <2>2, <2>3, Units
<1> HIDE DEF P
<1>3. m - n \in Nat /\ n + (m - n) = m
  OBVIOUS
<1>4. m - n \in P
  BY <1>1, <1>2, <1>3, NumbersFromZero
<1> QED
  BY <1>3, <1>4 DEF P

\* ... so that a sum of zeros is zero, ...
LEMMA SumOfZeros ==
  ASSUME NEW n \in Nat, NEW f, \A i \in 0..(n - 1) : f[i] = 0
  PROVE  XorSum(f, n) = 0
<1>1. 0 \in Nat /\ 0 <= n
  OBVIOUS
<1>2. \A i \in 0..(n - 1) : f[i] \in Byte
  BY ZeroByte
<1>3. XorSum(f, n) = XorSum(f, 0)
  BY <1>1, <1>2, SumLonger
<1> QED
  BY <1>3, SumNext

\* ... and the sum of a single value among zeros that value.
LEMMA SumSingle ==
  ASSUME NEW n \in Nat, NEW j \in 0..(n - 1), NEW f, f[j] \in Byte,
         \A i \in 0..(n - 1) : i # j => f[i] = 0
  PROVE  XorSum(f, n) = f[j]
<1>1. j \in Nat /\ j + 1 \in Nat /\ j + 1 <= n
  OBVIOUS
<1>2. \A i \in 0..(n - 1) : f[i] \in Byte
  BY ZeroByte
<1>3. \A i \in (j + 1)..(n - 1) : f[i] = 0
  OBVIOUS
<1>4. XorSum(f, n) = XorSum(f, j + 1)
  BY <1>1, <1>2, <1>3, SumLonger
<1>5. XorSum(f, j + 1) = XorSum(f, j) \oplus f[j]
  <2>1. \A i \in 0..j : f[i] \in Byte
    BY <1>2
  <2> QED
    BY <1>1, <2>1, SumNext
<1>6. XorSum(f, j) = 0
  <2>1. \A i \in 0..(j - 1) : f[i] = 0
    OBVIOUS
  <2> QED
    BY <1>1, <2>1, SumOfZeros
<1> QED
  BY <1>4, <1>5, <1>6, Units

\* A sum splits anywhere.
LEMMA SumSplit ==
  ASSUME NEW n \in Nat, NEW m \in Nat, NEW f, NEW g, \A i \in 0..(n + m - 1) : f[i] \in Byte,
         \A i \in 0..(m - 1) : g[i] = f[n + i]
  PROVE  XorSum(f, n + m) = XorSum(f, n) \oplus XorSum(g, m)
<1> DEFINE P == {k \in Nat : k <= m => XorSum(f, n + k) = XorSum(f, n) \oplus XorSum(g, k)}
<1>0. XorSum(f, n) \in Byte
  <2>1. \A i \in 0..(n - 1) : f[i] \in Byte
    OBVIOUS
  <2> QED
    BY <2>1, SumType
<1>1. 0 \in P
  <2>1. n + 0 = n
    OBVIOUS
  <2> QED
    BY <1>0, <2>1, SumNext, Units
<1>2. ASSUME NEW k \in Nat, k \in P PROVE k + 1 \in P
  <2> SUFFICES ASSUME k + 1 <= m PROVE XorSum(f, n + (k + 1)) = XorSum(f, n) \oplus XorSum(g, k + 1)
    OBVIOUS
  <2>1. /\ n + k \in Nat /\ n + (k + 1) = (n + k) + 1 /\ k \in 0..(m - 1)
        /\ n + k \in 0..(n + m - 1)
        /\ XorSum(f, n + k) = XorSum(f, n) \oplus XorSum(g, k)
    BY <1>2
  <2>2. \A i \in 0..(n + k) : f[i] \in Byte
    <3>1. \A i \in 0..(n + k) : i \in 0..(n + m - 1)
      BY <2>1
    <3> QED
      BY <3>1
  <2>3. \A i \in 0..k : g[i] \in Byte
    <3>1. \A i \in 0..k : i \in 0..(m - 1) /\ n + i \in 0..(n + m - 1)
      BY <2>1
    <3> QED
      BY <3>1
  <2>4. /\ XorSum(f, (n + k) + 1) = XorSum(f, n + k) \oplus f[n + k]
        /\ XorSum(g, k + 1) = XorSum(g, k) \oplus g[k] /\ XorSum(g, k) \in Byte
    BY <2>1, <2>2, <2>3, SumNext
  <2>5. g[k] = f[n + k] /\ f[n + k] \in Byte
    BY <2>1
  <2>6. (XorSum(f, n) \oplus XorSum(g, k)) \oplus f[n + k]
          = XorSum(f, n) \oplus (XorSum(g, k) \oplus f[n + k])
    BY <1>0, <2>4, <2>5, Add
  <2> QED
    BY <2>1, <2>4, <2>5, <2>6
<1> HIDE DEF P
<1>3. m \in P
  BY <1>1, <1>2, NumbersFromZero
<1> QED
  BY <1>3 DEF P

\* A table of n rows and m columns, with their sums.
Table(T, n, m, rows, cols) ==
  /\ \A i \in 0..(n - 1), j \in 0..(m - 1) : T[i][j] \in Byte
  /\ \A i \in 0..(n - 1) : rows[i] = XorSum([j \in 0..(m - 1) |-> T[i][j]], m)
  /\ \A j \in 0..(m - 1) : cols[j] = XorSum([i \in 0..(n - 1) |-> T[i][j]], n)

\* The sums of the rows of a table add up to what those of the columns do.
LEMMA SumSwap ==
  ASSUME NEW n \in Nat, NEW m \in Nat, NEW T, NEW rows, NEW cols, Table(T, n, m, rows, cols)
  PROVE  XorSum(rows, n) = XorSum(cols, m)
<1> SUFFICES ASSUME \A i \in 0..(n - 1), j \in 0..(m - 1) : T[i][j] \in Byte,
                    \A i \in 0..(n - 1) : rows[i] = XorSum([j \in 0..(m - 1) |-> T[i][j]], m),
                    \A j \in 0..(m - 1) : cols[j] = XorSum([i \in 0..(n - 1) |-> T[i][j]], n)
             PROVE  XorSum(rows, n) = XorSum(cols, m)
  BY DEF Table
<1> DEFINE Row(i) == [j \in 0..(m - 1) |-> T[i][j]]
           Col(j) == [i \in 0..(n - 1) |-> T[i][j]]
           Upper(k) == [j \in 0..(m - 1) |-> XorSum(Col(j), k)]
           P == {k \in Nat : k <= n => XorSum(rows, k) = XorSum(Upper(k), m)}
<1>1. /\ \A i \in 0..(n - 1) : \A j \in 0..(m - 1) : Row(i)[j] = T[i][j]
      /\ \A j \in 0..(m - 1) : \A i \in 0..(n - 1) : Col(j)[i] = T[i][j]
  OBVIOUS
<1>2. \A k : \A j \in 0..(m - 1) : Upper(k)[j] = XorSum(Col(j), k)
  OBVIOUS
<1>3. (\A i \in 0..(n - 1) : rows[i] = XorSum(Row(i), m)) /\ \A j \in 0..(m - 1) : cols[j] = XorSum(Col(j), n)
  OBVIOUS
<1> HIDE DEF Row, Col, Upper
<1>4. \A i \in 0..(n - 1) : rows[i] \in Byte
  <2> SUFFICES ASSUME NEW i \in 0..(n - 1) PROVE XorSum(Row(i), m) \in Byte
    BY <1>3
  <2>1. \A j \in 0..(m - 1) : Row(i)[j] \in Byte
    BY <1>1
  <2> QED
    BY <2>1, SumType
<1>5. ASSUME NEW k \in Nat, k < n, NEW j \in 0..(m - 1)
      PROVE  XorSum(Col(j), k) \in Byte /\ XorSum(Col(j), k + 1) = XorSum(Col(j), k) \oplus T[k][j]
  <2>1. \A i \in 0..k : i \in 0..(n - 1)
    BY <1>5
  <2>2. \A i \in 0..k : Col(j)[i] \in Byte
    BY <1>1, <2>1
  <2>3. k \in 0..(n - 1)
    BY <1>5
  <2> QED
    BY <1>1, <2>2, <2>3, SumNext
<1>6. 0 \in P
  <2>1. \A j \in 0..(m - 1) : Upper(0)[j] = 0
    BY <1>2, SumNext
  <2>2. XorSum(Upper(0), m) = 0
    BY <2>1, SumOfZeros
  <2> QED
    BY <2>2, SumNext
<1>7. ASSUME NEW k \in Nat, k \in P PROVE k + 1 \in P
  <2> SUFFICES ASSUME k + 1 <= n PROVE XorSum(rows, k + 1) = XorSum(Upper(k + 1), m)
    OBVIOUS
  <2>1. k < n /\ k \in 0..(n - 1) /\ XorSum(rows, k) = XorSum(Upper(k), m) /\ \A i \in 0..k : i \in 0..(n - 1)
    BY <1>7
  <2>2. XorSum(rows, k + 1) = XorSum(rows, k) \oplus rows[k]
    <3>1. \A i \in 0..k : rows[i] \in Byte
      BY <1>4, <2>1
    <3> QED
      BY <3>1, SumNext
  <2>3. \A j \in 0..(m - 1) : /\ Upper(k)[j] \in Byte /\ Row(k)[j] \in Byte
                            /\ Upper(k + 1)[j] = Upper(k)[j] \oplus Row(k)[j]
    BY <1>1, <1>2, <1>5, <2>1
  <2>4. XorSum(Upper(k + 1), m) = XorSum(Upper(k), m) \oplus XorSum(Row(k), m)
    BY <2>3, SumAdd
  <2> QED
    BY <1>3, <2>1, <2>2, <2>4
<1> HIDE DEF P
<1>8. n \in P
  BY <1>6, <1>7, NumbersFromZero
<1>9. XorSum(rows, n) = XorSum(Upper(n), m)
  BY <1>8 DEF P
<1>10. ASSUME NEW j \in 0..(m - 1) PROVE cols[j] \in Byte /\ Upper(n)[j] = cols[j]
  <2>1. \A i \in 0..(n - 1) : Col(j)[i] \in Byte
    BY <1>1
  <2>2. XorSum(Col(j), n) \in Byte
    BY <2>1, SumType
  <2> QED
    BY <1>2, <1>3, <2>2
<1>11. XorSum(Upper(n), m) = XorSum(cols, m)
  BY <1>10, SumEqual
<1> QED
  BY <1>9, <1>11

\* A sum in pairs.
LEMMA SumPairs ==
  ASSUME NEW m \in Nat, NEW f, NEW g, \A i \in 0..(2 * m - 1) : f[i] \in Byte,
         \A i \in 0..(m - 1) : g[i] = f[2 * i] \oplus f[2 * i + 1]
  PROVE  XorSum(f, 2 * m) = XorSum(g, m)
<1> DEFINE P == {k \in Nat : k <= m => XorSum(f, 2 * k) = XorSum(g, k)}
<1>1. 0 \in P
  BY SumNext
<1>2. ASSUME NEW k \in Nat, k \in P PROVE k + 1 \in P
  <2> SUFFICES ASSUME k + 1 <= m PROVE XorSum(f, 2 * (k + 1)) = XorSum(g, k + 1)
    OBVIOUS
  <2>1. /\ k \in 0..(m - 1) /\ 2 * k \in Nat /\ 2 * k + 1 \in Nat
        /\ 2 * (k + 1) = (2 * k + 1) + 1 /\ XorSum(f, 2 * k) = XorSum(g, k)
    BY <1>2
  <2>2. \A i \in 0..k : i \in 0..(m - 1) /\ 2 * i \in 0..(2 * m - 1) /\ 2 * i + 1 \in 0..(2 * m - 1)
    BY <2>1
  <2>3. \A i \in 0..(2 * k + 1) : f[i] \in Byte
    BY <2>1
  <2>4. \A i \in 0..k : g[i] \in Byte
    BY <2>2, Closed
  <2>5. XorSum(g, k + 1) = XorSum(g, k) \oplus g[k] /\ k \in 0..k
    BY <2>1, <2>4, SumNext
  <2>6. XorSum(f, (2 * k + 1) + 1) = XorSum(f, 2 * k + 1) \oplus f[2 * k + 1]
    BY <2>1, <2>3, SumNext
  <2>7. XorSum(f, 2 * k + 1) = XorSum(f, 2 * k) \oplus f[2 * k] /\ XorSum(f, 2 * k) \in Byte
    <3>1. \A i \in 0..(2 * k) : f[i] \in Byte
      BY <2>3
    <3> QED
      BY <2>1, <3>1, SumNext
  <2>8. g[k] = f[2 * k] \oplus f[2 * k + 1] /\ f[2 * k] \in Byte /\ f[2 * k + 1] \in Byte
    BY <2>1, <2>2
  <2>9. (XorSum(f, 2 * k) \oplus f[2 * k]) \oplus f[2 * k + 1]
          = XorSum(f, 2 * k) \oplus (f[2 * k] \oplus f[2 * k + 1])
    BY <2>7, <2>8, Add
  <2> QED
    BY <2>1, <2>5, <2>6, <2>7, <2>8, <2>9
<1> HIDE DEF P
<1>3. m \in P
  BY <1>1, <1>2, NumbersFromZero
<1> QED
  BY <1>3 DEF P

-----------------------------------------------------------------------------
(***************************************************************************)
(* A word is known from few of its moments: if no more than v of its bytes *)
(* are not zero, v moments in a row which all vanish make it zero.         *)
(***************************************************************************)

\* The word c of n bytes as a polynomial, at the power j.
Moment(c, n, j) == XorSum([q \in 0..(n - 1) |-> c[q] \otimes Pow(q * j)], n)

Wrong(c, n) == {q \in 0..(n - 1) : c[q] # 0}

\* Moments are bytes.
LEMMA TermType ==
  ASSUME NEW x \in Byte, NEW i \in Nat, NEW j \in Nat
  PROVE  x \otimes Pow(i * j) \in Byte
<1>1. i * j \in Nat
  OBVIOUS
<1>2. Pow(i * j) \in Byte
  BY <1>1, PowStep
<1> QED
  BY <1>2, Closed

\* ... and so are moments.
LEMMA MomentType ==
  ASSUME NEW n \in Nat, NEW c, \A q \in 0..(n - 1) : c[q] \in Byte, NEW j \in Nat
  PROVE  /\ Moment(c, n, j) \in Byte
         /\ \A q \in 0..(n - 1) : c[q] \otimes Pow(q * j) \in Byte
<1>1. ASSUME NEW q \in 0..(n - 1) PROVE c[q] \otimes Pow(q * j) \in Byte
  <2>1. q * j \in Nat
    OBVIOUS
  <2>2. Pow(q * j) \in Byte /\ c[q] \in Byte
    BY <2>1, PowStep
  <2> QED
    BY <2>2, Closed
<1> QED
  BY <1>1, SumType DEF Moment

\* Every byte multiplied by the difference between its power and x.
Twist(c, n, x) == [q \in 0..(n - 1) |-> c[q] \otimes (Pow(q) \oplus x)]

\* That makes of its moments the differences of two that follow each other.
LEMMA MomentTwist ==
  ASSUME NEW n \in Nat, NEW c, \A q \in 0..(n - 1) : c[q] \in Byte, NEW x \in Byte, NEW j \in Nat
  PROVE  Moment(Twist(c, n, x), n, j) = Moment(c, n, j + 1) \oplus (x \otimes Moment(c, n, j))
<1> DEFINE b == Twist(c, n, x)
           f == [q \in 0..(n - 1) |-> c[q] \otimes Pow(q * j)]
           g == [q \in 0..(n - 1) |-> c[q] \otimes Pow(q * (j + 1))]
           h == [q \in 0..(n - 1) |-> x \otimes f[q]]
           s == [q \in 0..(n - 1) |-> b[q] \otimes Pow(q * j)]
<1>0. \A q \in 0..(n - 1) : b[q] = c[q] \otimes (Pow(q) \oplus x)
  BY DEF Twist
<1> HIDE DEF b
<1>1. ASSUME NEW q \in 0..(n - 1)
      PROVE  f[q] \in Byte /\ g[q] \in Byte /\ h[q] \in Byte /\ s[q] = g[q] \oplus h[q]
  <2> DEFINE y == Pow(q)
             z == Pow(q * j)
             w == c[q]
  <2>1. q \in Nat /\ q * j \in Nat /\ q * (j + 1) = q + q * j
    OBVIOUS
  <2>2. y \in Byte /\ z \in Byte /\ w \in Byte /\ Pow(q * (j + 1)) = y \otimes z
    BY <2>1, PowSum, PowStep
  <2>3. f[q] = w \otimes z /\ g[q] = w \otimes (y \otimes z) /\ h[q] = x \otimes (w \otimes z)
        /\ s[q] = (w \otimes (y \oplus x)) \otimes z
    BY <1>0, <2>2
  <2> HIDE DEF y, z, w, f, g, h, s
  <2>4. w \otimes z \in Byte /\ y \otimes z \in Byte /\ x \otimes z \in Byte /\ y \oplus x \in Byte
    BY <2>2, Closed
  <2>5. (w \otimes (y \oplus x)) \otimes z = w \otimes ((y \oplus x) \otimes z)
    BY <2>2, <2>4, Regroup
  <2>6. (y \oplus x) \otimes z = (y \otimes z) \oplus (x \otimes z)
    BY <2>2, Distribute
  <2>7. w \otimes ((y \otimes z) \oplus (x \otimes z))
          = (w \otimes (y \otimes z)) \oplus (w \otimes (x \otimes z))
    BY <2>2, <2>4, Distribute
  <2>8. w \otimes (x \otimes z) = x \otimes (w \otimes z)
    BY <2>2, Regroup
  <2>9. f[q] \in Byte /\ g[q] \in Byte /\ h[q] \in Byte
    BY <2>2, <2>3, <2>4, Closed
  <2> QED
    BY <2>3, <2>5, <2>6, <2>7, <2>8, <2>9
<1>2. \A q \in 0..(n - 1) : h[q] = x \otimes f[q]
  OBVIOUS
<1> HIDE DEF f, g, h, s
<1>3. XorSum(s, n) = XorSum(g, n) \oplus XorSum(h, n)
  BY <1>1, SumAdd
<1>4. XorSum(h, n) = x \otimes XorSum(f, n)
  BY <1>1, <1>2, SumScale
<1> QED
  BY <1>3, <1>4 DEF Moment, b, f, g, s

\* The claim, by induction on the number of bytes that are not zero.
LEMMA FewMoments ==
  ASSUME NEW n \in 0..255, NEW v \in Nat, NEW m \in Nat, NEW c \in [0..(n - 1) -> Byte],
         Cardinality(Wrong(c, n)) <= v,
         \A j \in 0..(v - 1) : Moment(c, n, m + j) = 0
  PROVE  \A q \in 0..(n - 1) : c[q] = 0
<1>0. IsFiniteSet(0..(n - 1)) /\ n \in Nat
  BY FS_Interval
<1>1. ASSUME NEW d
      PROVE  /\ IsFiniteSet(Wrong(d, n)) /\ Cardinality(Wrong(d, n)) \in Nat
             /\ Cardinality(Wrong(d, n)) = 0 => \A q \in 0..(n - 1) : d[q] = 0
  <2>1. Wrong(d, n) \in SUBSET (0..(n - 1))
    BY DEF Wrong
  <2>2. IsFiniteSet(Wrong(d, n))
    BY <1>0, <2>1, FS_Subset
  <2>3. Cardinality(Wrong(d, n)) \in Nat
    BY <2>2, FS_CardinalityType
  <2>4. Cardinality(Wrong(d, n)) = 0 => Wrong(d, n) = {}
    BY <2>2, FS_EmptySet
  <2>5. Wrong(d, n) = {} => \A q \in 0..(n - 1) : d[q] = 0
    BY DEF Wrong
  <2> QED
    BY <2>2, <2>3, <2>4, <2>5
<1> DEFINE Words == [0..(n - 1) -> Byte]
           Claim(k) == \A d \in Words :
                         /\ Cardinality(Wrong(d, n)) <= k
                         /\ \A j \in 0..(k - 1) : Moment(d, n, m + j) = 0
                         => \A q \in 0..(n - 1) : d[q] = 0
           P == {k \in Nat : Claim(k)}
<1>2. Claim(0)
  <2> SUFFICES ASSUME NEW d \in Words, Cardinality(Wrong(d, n)) <= 0
               PROVE  \A q \in 0..(n - 1) : d[q] = 0
    OBVIOUS
  <2>1. Cardinality(Wrong(d, n)) = 0
    BY <1>1
  <2> QED
    BY <1>1, <2>1
<1>3. ASSUME NEW k \in Nat, Claim(k) PROVE Claim(k + 1)
  <2> SUFFICES ASSUME NEW d \in Words, Cardinality(Wrong(d, n)) <= k + 1,
                      \A j \in 0..((k + 1) - 1) : Moment(d, n, m + j) = 0
               PROVE  \A q \in 0..(n - 1) : d[q] = 0
    OBVIOUS
  <2> SUFFICES ASSUME NEW i \in 0..(n - 1), d[i] # 0 PROVE FALSE
    OBVIOUS
  <2>0. \A j \in 0..k : Moment(d, n, m + j) = 0
    <3>1. (k + 1) - 1 = k
      OBVIOUS
    <3> QED
      BY <3>1
  <2> DEFINE b == Twist(d, n, Pow(i))
  <2>1. \A q \in 0..(n - 1) : q \in Nat /\ q \in 0..254
    OBVIOUS
  <2>2. \A q \in 0..(n - 1) : d[q] \in Byte /\ Pow(q) \in Byte /\ Pow(q) \oplus Pow(i) \in Byte
    BY <2>1, PowStep, Closed
  <2>3. b \in Words
    BY <2>2, Closed DEF Twist
  <2>4. \A q \in 0..(n - 1) : b[q] = d[q] \otimes (Pow(q) \oplus Pow(i))
    BY DEF Twist
  <2> HIDE DEF b
  <2>5. Cardinality(Wrong(b, n)) <= k
    <3>1. Wrong(b, n) \in SUBSET (Wrong(d, n) \ {i})
      <4> SUFFICES ASSUME NEW q \in 0..(n - 1), b[q] # 0 PROVE d[q] # 0 /\ q # i
        BY DEF Wrong
      <4> QED
        BY <2>2, <2>4, Units
    <3>2. i \in Wrong(d, n)
      BY DEF Wrong
    <3>3. IsFiniteSet(Wrong(d, n) \ {i}) /\ Cardinality(Wrong(d, n) \ {i}) = Cardinality(Wrong(d, n)) - 1
      BY <1>1, <3>2, FS_RemoveElement
    <3>4. Cardinality(Wrong(b, n)) <= Cardinality(Wrong(d, n) \ {i})
      BY <3>1, <3>3, FS_Subset
    <3> QED
      BY <1>1, <3>3, <3>4
  <2>6. ASSUME NEW j \in 0..(k - 1) PROVE Moment(b, n, m + j) = 0
    <3>1. j \in 0..k /\ j + 1 \in 0..k /\ m + j \in Nat /\ (m + j) + 1 = m + (j + 1)
      OBVIOUS
    <3>2. Pow(i) \in Byte
      BY <2>2
    <3>3. Moment(b, n, m + j) = Moment(d, n, (m + j) + 1) \oplus (Pow(i) \otimes Moment(d, n, m + j))
      <4> DEFINE x == Pow(i)
                 l == m + j
      <4>1. x \in Byte /\ l \in Nat /\ n \in Nat /\ \A q \in 0..(n - 1) : d[q] \in Byte
        BY <1>0, <3>1, <3>2
      <4> HIDE DEF x, l, Claim
      <4>2. Moment(Twist(d, n, x), n, l) = Moment(d, n, l + 1) \oplus (x \otimes Moment(d, n, l))
        BY <4>1, MomentTwist
      <4> QED
        BY <4>2 DEF b, x, l
    <3>4. Moment(d, n, m + j) = 0 /\ Moment(d, n, (m + j) + 1) = 0
      BY <2>0, <3>1
    <3> QED
      BY <3>2, <3>3, <3>4, ZeroByte, Units
  <2>7. \A q \in 0..(n - 1) : b[q] = 0
    BY <1>3, <2>3, <2>5, <2>6
  <2>8. ASSUME NEW q \in 0..(n - 1), q # i PROVE d[q] = 0
    <3>1. Pow(q) \oplus Pow(i) # 0
      <4>1. Pow(q) # Pow(i)
        BY <2>1, <2>8, PowInjective
      <4> QED
        BY <2>2, <4>1, Add
    <3> QED
      BY <2>2, <2>4, <2>7, <3>1, NoDivisors
  <2>9. Moment(d, n, m) = d[i] \otimes Pow(i * m)
    <3> DEFINE f == [q \in 0..(n - 1) |-> d[q] \otimes Pow(q * m)]
    <3>1. \A q \in 0..(n - 1) : f[q] \in Byte /\ f[q] = d[q] \otimes Pow(q * m) /\ Pow(q * m) \in Byte
      <4>1. \A q \in 0..(n - 1) : q * m \in Nat
        BY <1>0
      <4> QED
        BY <1>0, <4>1, MomentType, PowStep
    <3> HIDE DEF f
    <3>2. \A q \in 0..(n - 1) : q # i => f[q] = 0
      BY <2>8, <3>1, Units
    <3>3. XorSum(f, n) = f[i]
      BY <1>0, <3>1, <3>2, SumSingle
    <3> QED
      BY <3>1, <3>3 DEF Moment, f
  <2>10. Moment(d, n, m) = 0
    <3>1. 0 \in 0..k /\ m + 0 = m
      OBVIOUS
    <3> QED
      BY <2>0, <3>1
  <2>11. i * m \in Nat
    BY <1>0
  <2>12. Pow(i * m) \in Byte \ {0}
    BY <2>11, PowNotZero
  <2> QED
    BY <2>2, <2>9, <2>10, <2>12, NoDivisors
<1> HIDE DEF Claim
<1>4. 0 \in P /\ \A k \in Nat : k \in P => k + 1 \in P
  BY <1>2, <1>3
<1> HIDE DEF P
<1>5. v \in P
  BY <1>4, NumbersFromZero
<1> QED
  BY <1>5 DEF P, Claim

-----------------------------------------------------------------------------
(***************************************************************************)
(* A polynomial of degree n has at most n roots: dividing by one leaves a  *)
(* polynomial of degree n - 1 with the others.  Moment(p, n + 1, t) is the *)
(* value of p[0] + ... + p[n] z^n at the power t.                          *)
(***************************************************************************)

\* p divided by 1 + Pow(s) z.
Quotient(p, n, s) == [j \in 0..n |-> XorSum([i \in 0..j |-> p[i] \otimes Pow((j - i) * s)], j + 1)]

\* The division step by step.
LEMMA QuotientStep ==
  ASSUME NEW n \in Nat, NEW p, \A i \in 0..n : p[i] \in Byte, NEW s \in Nat
  PROVE  /\ \A j \in 0..n : Quotient(p, n, s)[j] \in Byte
         /\ Quotient(p, n, s)[0] = p[0]
         /\ \A j \in 1..n : Quotient(p, n, s)[j] = p[j] \oplus (Pow(s) \otimes Quotient(p, n, s)[j - 1])
<1> DEFINE F(j) == [i \in 0..j |-> p[i] \otimes Pow((j - i) * s)]
           q == Quotient(p, n, s)
<1>1. ASSUME NEW j \in 0..n, NEW i \in 0..j
      PROVE  p[i] \in Byte /\ Pow((j - i) * s) \in Byte /\ F(j)[i] = p[i] \otimes Pow((j - i) * s)
             /\ F(j)[i] \in Byte
  <2>1. j - i \in Nat /\ i \in 0..n
    OBVIOUS
  <2>2. (j - i) * s \in Nat
    BY <2>1
  <2>3. Pow((j - i) * s) \in Byte /\ p[i] \in Byte
    BY <2>1, <2>2, PowStep
  <2> QED
    BY <2>3, Closed
<1>2. \A j \in 0..n : q[j] = XorSum(F(j), j + 1)
  BY DEF Quotient
<1> HIDE DEF F, q
<1>3. ASSUME NEW j \in 0..n PROVE q[j] \in Byte
  <2>1. j + 1 \in Nat /\ (j + 1) - 1 = j
    OBVIOUS
  <2>2. \A i \in 0..((j + 1) - 1) : F(j)[i] \in Byte
    BY <1>1, <2>1
  <2> QED
    BY <1>2, <2>1, <2>2, SumType
<1>4. ASSUME NEW j \in 0..n
      PROVE  q[j] = XorSum(F(j), j) \oplus p[j] /\ XorSum(F(j), j) \in Byte
  <2>1. j \in Nat /\ j \in 0..j /\ j - j = 0 /\ 0 * s = 0
    OBVIOUS
  <2>2. q[j] = XorSum(F(j), j) \oplus F(j)[j] /\ XorSum(F(j), j) \in Byte
    BY <1>1, <1>2, <2>1, SumNext
  <2>3. F(j)[j] = p[j]
    BY <1>1, <2>1, PowStep, Units
  <2> QED
    BY <2>2, <2>3
<1>5. q[0] = p[0]
  <2>1. 0 \in 0..n
    OBVIOUS
  <2> QED
    BY <1>4, <2>1, SumNext, Units
<1>6. ASSUME NEW j \in 1..n PROVE q[j] = p[j] \oplus (Pow(s) \otimes q[j - 1])
  <2>1. j - 1 \in 0..n /\ j \in 0..n /\ j \in Nat /\ (j - 1) + 1 = j
    OBVIOUS
  <2>2. ASSUME NEW i \in 0..(j - 1)
        PROVE  F(j - 1)[i] \in Byte /\ F(j)[i] = Pow(s) \otimes F(j - 1)[i]
    <3>1. i \in 0..j /\ (j - 1) - i \in Nat /\ ((j - 1) - i) * s \in Nat
          /\ (j - i) * s = s + ((j - 1) - i) * s
      OBVIOUS
    <3>2. Pow((j - i) * s) = Pow(s) \otimes Pow(((j - 1) - i) * s)
      BY <3>1, PowSum
    <3>3. /\ p[i] \in Byte /\ Pow(((j - 1) - i) * s) \in Byte /\ Pow(s) \in Byte
          /\ F(j)[i] = p[i] \otimes Pow((j - i) * s)
          /\ F(j - 1)[i] = p[i] \otimes Pow(((j - 1) - i) * s) /\ F(j - 1)[i] \in Byte
      BY <1>1, <2>1, <3>1, PowStep
    <3> QED
      BY <3>2, <3>3, Regroup
  <2>3. Pow(s) \in Byte
    BY PowStep
  <2>4. XorSum(F(j), j) = Pow(s) \otimes XorSum(F(j - 1), j)
    <3> DEFINE a == Pow(s)
               f == F(j - 1)
               h == F(j)
    <3>1. a \in Byte /\ \A i \in 0..(j - 1) : f[i] \in Byte /\ h[i] = a \otimes f[i]
      BY <2>2, <2>3
    <3> HIDE DEF a, f, h
    <3>2. XorSum(h, j) = a \otimes XorSum(f, j)
      BY <2>1, <3>1, SumScale
    <3> QED
      BY <3>2 DEF a, f, h
  <2>5. XorSum(F(j - 1), j) = q[j - 1]
    BY <1>2, <2>1
  <2> QED
    BY <1>3, <1>4, <2>1, <2>3, <2>4, <2>5, Closed
<1> QED
  BY <1>3, <1>5, <1>6 DEF q

\* p is its quotient times 1 + Pow(s) z, with a remainder unless the last
\* coefficient of the quotient is zero.
Divided(p, n, s, t) ==
  Moment(p, n + 1, t) = Moment(Quotient(p, n, s), n + 1, t)
                          \oplus (Pow(s + t) \otimes Moment(Quotient(p, n, s), n, t))

\* So it is at every power t.
LEMMA Division ==
  ASSUME NEW n \in Nat, NEW p, \A i \in 0..n : p[i] \in Byte, NEW s \in Nat, NEW t \in Nat
  PROVE  Divided(p, n, s, t)
<1> DEFINE q == Quotient(p, n, s)
           f == [i \in 0..n |-> p[i] \otimes Pow(i * t)]
           g == [i \in 0..n |-> q[i] \otimes Pow(i * t)]
           h == [i \in 0..n |-> IF i = 0 THEN 0 ELSE (Pow(s) \otimes q[i - 1]) \otimes Pow(i * t)]
           k == [i \in 0..(n - 1) |-> q[i] \otimes Pow(i * t)]
           l == [i \in 0..(n - 1) |-> h[1 + i]]
<1>1. /\ \A j \in 0..n : q[j] \in Byte
      /\ q[0] = p[0]
      /\ \A j \in 1..n : q[j] = p[j] \oplus (Pow(s) \otimes q[j - 1])
  BY QuotientStep
<1>2. /\ Moment(p, n + 1, t) = XorSum(f, n + 1) /\ Moment(q, n + 1, t) = XorSum(g, n + 1)
      /\ Moment(q, n, t) = XorSum(k, n)
  <2>1. (n + 1) - 1 = n
    OBVIOUS
  <2> QED
    BY <2>1 DEF Moment
<1> HIDE DEF q
<1>3. ASSUME NEW i \in 0..n
      PROVE  f[i] \in Byte /\ g[i] \in Byte /\ h[i] \in Byte /\ f[i] = g[i] \oplus h[i]
  <2>1. i * t \in Nat
    OBVIOUS
  <2>2. Pow(i * t) \in Byte /\ Pow(s) \in Byte /\ p[i] \in Byte /\ q[i] \in Byte
    BY <1>1, <2>1, PowStep
  <2>3. f[i] \in Byte /\ g[i] \in Byte
    BY <2>2, Closed
  <2>4. CASE i = 0
    <3>1. f[i] = g[i] /\ h[i] = 0
      BY <1>1, <2>4
    <3> QED
      BY <2>3, <3>1, ZeroByte, Units
  <2>5. CASE i # 0
    <3> DEFINE a == p[i]
               b == Pow(s) \otimes q[i - 1]
               z == Pow(i * t)
    <3>1. i \in 1..n /\ i - 1 \in 0..n
      BY <2>5
    <3>2. q[i - 1] \in Byte /\ q[i] = a \oplus b
      BY <1>1, <3>1
    <3>3. b \in Byte /\ a \in Byte /\ z \in Byte
      BY <2>2, <3>2, Closed
    <3>4. f[i] = a \otimes z /\ g[i] = q[i] \otimes z /\ h[i] = b \otimes z
      BY <2>5
    <3> HIDE DEF a, b, z, f, g, h
    <3>5. g[i] = (a \otimes z) \oplus (b \otimes z)
      BY <3>2, <3>3, <3>4, Distribute
    <3>6. a \otimes z \in Byte /\ b \otimes z \in Byte
      BY <3>3, Closed
    <3>7. ((a \otimes z) \oplus (b \otimes z)) \oplus (b \otimes z)
            = (a \otimes z) \oplus ((b \otimes z) \oplus (b \otimes z))
      BY <3>6, Add
    <3> QED
      BY <2>3, <3>4, <3>5, <3>6, <3>7, Units
  <2> QED
    BY <2>4, <2>5
<1>4. ASSUME NEW i \in 0..(n - 1) PROVE k[i] \in Byte /\ l[i] = Pow(s + t) \otimes k[i] /\ l[i] = h[1 + i]
  <2>1. i \in 0..n /\ 1 + i \in 0..n /\ (1 + i) - 1 = i /\ 1 + i # 0 /\ i * t \in Nat
        /\ (1 + i) * t = t + i * t
    OBVIOUS
  <2>2. Pow((1 + i) * t) = Pow(t) \otimes Pow(i * t) /\ Pow(s + t) = Pow(s) \otimes Pow(t)
    BY <2>1, PowSum
  <2>3. Pow(s) \in Byte /\ Pow(t) \in Byte /\ Pow(i * t) \in Byte /\ q[i] \in Byte
    BY <1>1, <2>1, PowStep
  <2>4. k[i] = q[i] \otimes Pow(i * t) /\ l[i] = (Pow(s) \otimes q[i]) \otimes Pow((1 + i) * t)
        /\ l[i] = h[1 + i]
    BY <2>1
  <2> HIDE DEF k, l, h
  <2> DEFINE a == Pow(s)
             b == q[i]
             c == Pow(t)
             d == Pow(i * t)
  <2>5. a \in Byte /\ b \in Byte /\ c \in Byte /\ d \in Byte
    BY <2>3
  <2>6. (a \otimes b) \otimes (c \otimes d) = (a \otimes c) \otimes (b \otimes d) /\ b \otimes d \in Byte
    <3> HIDE DEF a, b, c, d
    <3>1. c \otimes d \in Byte /\ b \otimes d \in Byte
      BY <2>5, Closed
    <3>2. (a \otimes b) \otimes (c \otimes d) = a \otimes (b \otimes (c \otimes d))
      BY <2>5, <3>1, Regroup
    <3>3. b \otimes (c \otimes d) = c \otimes (b \otimes d)
      BY <2>5, Regroup
    <3>4. a \otimes (c \otimes (b \otimes d)) = (a \otimes c) \otimes (b \otimes d)
      BY <2>5, <3>1, Regroup
    <3> QED
      BY <3>1, <3>2, <3>3, <3>4
  <2> QED
    BY <2>2, <2>4, <2>6
<1> HIDE DEF f, g, k, l
<1>5. XorSum(f, n + 1) = XorSum(g, n + 1) \oplus XorSum(h, n + 1)
  <2>1. (n + 1) - 1 = n /\ n + 1 \in Nat
    OBVIOUS
  <2> HIDE DEF h
  <2> QED
    BY <1>3, <2>1, SumAdd
<1>6. XorSum(h, n + 1) = XorSum(l, n)
  <2>0. h[0] = 0
    OBVIOUS
  <2> HIDE DEF h
  <2>1. 1 + n = n + 1 /\ 1 + n - 1 = n /\ 1 \in Nat
    OBVIOUS
  <2>2. XorSum(h, 1 + n) = XorSum(h, 1) \oplus XorSum(l, n)
    BY <1>3, <1>4, <2>1, SumSplit
  <2>3. XorSum(h, 1) = 0
    <3>1. \A i \in 0..(1 - 1) : h[i] = 0
      BY <2>0
    <3> QED
      BY <3>1, <2>1, SumOfZeros
  <2>4. XorSum(l, n) \in Byte
    <3>1. \A i \in 0..(n - 1) : 1 + i \in 0..n
      OBVIOUS
    <3>2. \A i \in 0..(n - 1) : l[i] \in Byte
      BY <1>3, <1>4, <3>1
    <3> QED
      BY <3>2, SumType
  <2> QED
    BY <2>1, <2>2, <2>3, <2>4, Units
<1>7. XorSum(l, n) = Pow(s + t) \otimes XorSum(k, n)
  <2>1. s + t \in Nat
    OBVIOUS
  <2>2. Pow(s + t) \in Byte
    BY <2>1, PowStep
  <2> QED
    BY <1>4, <2>2, SumScale
<1> QED
  BY <1>2, <1>5, <1>6, <1>7 DEF q, Divided

\* A power is only one after whole turns.
LEMMA PowIsOne == \A i \in Nat : Pow(i) = 1 => i % 255 = 0
<1> SUFFICES ASSUME NEW i \in Nat, Pow(i) = 1, i % 255 # 0 PROVE FALSE
  OBVIOUS
<1>1. i % 255 \in 1..254 /\ (i % 255) % 255 = i % 255
  OBVIOUS
<1> QED
  BY <1>1, PowNotOne DEF Pow

\* Pow(t) is a root of the polynomial p of degree n.
Root(p, n, t) == Moment(p, n + 1, t) = 0

\* The quotient of the polynomial p by 1 + Pow(s) * z is exact.
Exact(p, n, s) ==
  /\ Quotient(p, n, s)[n] = 0
  /\ \A t \in Nat :
       Moment(p, n + 1, t) = (1 \oplus Pow(s + t)) \otimes Moment(Quotient(p, n, s), n, t)

\* Dividing by a root leaves no remainder, ...
LEMMA RootDivision ==
  ASSUME NEW n \in Nat, NEW p, \A i \in 0..n : p[i] \in Byte, NEW s \in 0..254,
         Root(p, n, 255 - s)
  PROVE  Exact(p, n, s)
<1> DEFINE q == Quotient(p, n, s)
           r == 255 - s
           f == [i \in 0..n |-> p[i] \otimes Pow((n - i) * s)]
           g == [i \in 0..n |-> p[i] \otimes Pow(i * r)]
<1>0. r \in Nat /\ s \in Nat /\ n + 1 \in Nat /\ (n + 1) - 1 = n /\ n * s \in Nat /\ s + r = 255
  OBVIOUS
<1>1. q[n] = XorSum(f, n + 1) /\ Moment(p, n + 1, r) = XorSum(g, n + 1)
  BY <1>0 DEF Quotient, Moment
<1>2. ASSUME NEW i \in 0..n PROVE g[i] \in Byte /\ f[i] = Pow(n * s) \otimes g[i]
  <2> DEFINE k == (n - i) * s
  <2>1. k \in Nat /\ i * r \in Nat
    BY <1>0
  <2>2. n * s + i * r = k + 255 * i
    BY <1>0
  <2>3. Pow(n * s + i * r) = Pow(n * s) \otimes Pow(i * r)
    BY <1>0, <2>1, PowSum
  <2>4. Pow(k + 255 * i) = Pow(k)
    <3>1. i \in Nat
      OBVIOUS
    <3> HIDE DEF k
    <3> QED
      BY <2>1, <3>1, PowTurn
  <2> DEFINE a == Pow(n * s)
             b == Pow(i * r)
             c == p[i]
  <2>5. a \in Byte /\ b \in Byte /\ c \in Byte
    BY <1>0, <2>1, PowStep
  <2>6. f[i] = c \otimes (a \otimes b) /\ g[i] = c \otimes b
    BY <2>2, <2>3, <2>4
  <2> HIDE DEF f, g, a, b, c
  <2>7. g[i] \in Byte /\ f[i] = a \otimes g[i]
    BY <2>5, <2>6, Regroup, Closed
  <2> QED
    BY <2>7 DEF a
<1> HIDE DEF f, g, q, r
<1>3. q[n] = 0
  <2>1. Pow(n * s) \in Byte
    BY <1>0, PowStep
  <2> DEFINE a == Pow(n * s)
             l == n + 1
  <2>2. XorSum(f, l) = a \otimes XorSum(g, l)
    <3>1. l \in Nat /\ a \in Byte /\ \A i \in 0..(l - 1) : i \in 0..n
      BY <1>0, <2>1
    <3>2. \A i \in 0..(l - 1) : g[i] \in Byte /\ f[i] = a \otimes g[i]
      BY <1>2, <3>1
    <3> HIDE DEF a, l
    <3> QED
      BY <3>1, <3>2, SumScale
  <2>3. XorSum(g, n + 1) = 0
    BY <1>1 DEF r, Root
  <2> QED
    BY <1>1, <2>1, <2>2, <2>3, Units
<1>4. ASSUME NEW t \in Nat
      PROVE  Moment(p, n + 1, t) = (1 \oplus Pow(s + t)) \otimes Moment(q, n, t)
  <2>1. Moment(p, n + 1, t) = Moment(q, n + 1, t) \oplus (Pow(s + t) \otimes Moment(q, n, t))
    <3>1. s \in Nat
      BY <1>0
    <3> HIDE DEF q
    <3>2. Divided(p, n, s, t)
      BY <3>1, Division
    <3> QED
      BY <3>2 DEF q, Divided
  <2>2. \A j \in 0..n : q[j] \in Byte
    BY <1>0, QuotientStep DEF q
  <2> DEFINE k == [i \in 0..n |-> q[i] \otimes Pow(i * t)]
             l == [i \in 0..(n - 1) |-> q[i] \otimes Pow(i * t)]
  <2>3. Moment(q, n + 1, t) = XorSum(k, n + 1) /\ Moment(q, n, t) = XorSum(l, n)
    BY <1>0 DEF Moment
  <2>4. \A i \in 0..n : k[i] \in Byte
    <3>1. \A i \in 0..n : i \in Nat
      OBVIOUS
    <3> QED
      BY <2>2, <3>1, TermType
  <2>5. k[n] = 0
    <3>1. n * t \in Nat /\ n \in 0..n
      OBVIOUS
    <3> QED
      BY <1>3, <3>1, PowStep, Units
  <2>6. \A i \in 0..(n - 1) : k[i] = l[i] /\ i \in 0..n
    OBVIOUS
  <2> HIDE DEF k, l
  <2>7. XorSum(k, n + 1) = XorSum(k, n) \oplus k[n] /\ XorSum(k, n) \in Byte
    BY <2>4, SumNext
  <2>8. XorSum(l, n) = XorSum(k, n)
    BY <2>4, <2>6, SumEqual
  <2>9. Moment(q, n + 1, t) = Moment(q, n, t) /\ Moment(q, n, t) \in Byte
    BY <2>3, <2>5, <2>7, <2>8, Units
  <2>10. s + t \in Nat
    BY <1>0
  <2>11. Pow(s + t) \in Byte
    BY <2>10, PowStep
  <2> QED
    BY <2>1, <2>9, <2>11, OneByte, Distribute, Units
<1> QED
  BY <1>3, <1>4 DEF q, Exact

\* ... and keeps the others.
LEMMA OtherRoot ==
  ASSUME NEW n \in Nat \ {0}, NEW p, \A i \in 0..n : p[i] \in Byte, NEW s \in 0..254,
         Root(p, n, 255 - s), NEW t \in 1..255, t # 255 - s, Root(p, n, t)
  PROVE  Root(Quotient(p, n, s), n - 1, t)
<1> DEFINE m == Moment(Quotient(p, n, s), n, t)
<1>1. s \in Nat /\ t \in Nat /\ s + t \in Nat /\ \A i \in 0..(n - 1) : i \in 0..n
  OBVIOUS
<1>2. (1 \oplus Pow(s + t)) \otimes m = 0
  <2>1. Exact(p, n, s)
    BY RootDivision
  <2>2. Moment(p, n + 1, t) = (1 \oplus Pow(s + t)) \otimes m
    BY <1>1, <2>1 DEF Exact
  <2> QED
    BY <2>2 DEF Root
<1>3. Pow(s + t) # 1
  <2>1. (s + t) % 255 # 0
    OBVIOUS
  <2> QED
    BY <1>1, <2>1, PowIsOne
<1>4. Pow(s + t) \in Byte
  BY <1>1, PowStep
<1>5. 1 \oplus Pow(s + t) \in Byte /\ 1 \oplus Pow(s + t) # 0
  BY <1>3, <1>4, OneByte, Add
<1>6. m \in Byte
  <2>1. \A i \in 0..n : Quotient(p, n, s)[i] \in Byte
    BY <1>1, QuotientStep
  <2>2. \A i \in 0..(n - 1) : Quotient(p, n, s)[i] \in Byte
    BY <1>1, <2>1
  <2> QED
    BY <1>1, <2>2, MomentType
<1> HIDE DEF m
<1>7. m = 0
  BY <1>2, <1>5, <1>6, NoDivisors
<1>8. (n - 1) + 1 = n
  OBVIOUS
<1> QED
  BY <1>7, <1>8 DEF m, Root

\* So there are no more roots than the degree.
LEMMA FewRoots ==
  ASSUME NEW n \in Nat, NEW p \in [0..n -> Byte], p[0] # 0, NEW R \in SUBSET (1..255),
         \A r \in R : Root(p, n, r)
  PROVE  IsFiniteSet(R) /\ Cardinality(R) <= n
<1>0. \A T \in SUBSET (1..255) : IsFiniteSet(T) /\ Cardinality(T) \in Nat
  <2>1. IsFiniteSet(1..255)
    <3>1. 1 \in Int /\ 255 \in Int
      OBVIOUS
    <3> QED
      BY <3>1, FS_Interval
  <2> QED
    BY <2>1, FS_Subset, FS_CardinalityType
<1> DEFINE Claim(k) == \A f \in [0..k -> Byte] : \A T \in SUBSET (1..255) :
                         f[0] # 0 /\ (\A r \in T : Root(f, k, r)) => Cardinality(T) <= k
           P == {k \in Nat : Claim(k)}
<1>1. Claim(0)
  <2> SUFFICES ASSUME NEW f \in [0..0 -> Byte], NEW T \in SUBSET (1..255),
                      f[0] # 0, \A r \in T : Root(f, 0, r)
               PROVE  Cardinality(T) <= 0
    OBVIOUS
  <2>1. ASSUME NEW r \in T PROVE FALSE
    <3>1. Moment(f, 1, r) = 0
      <4>1. 0 + 1 = 1 /\ Root(f, 0, r)
        OBVIOUS
      <4> QED
        BY <4>1 DEF Root
    <3> DEFINE g == [i \in 0..(1 - 1) |-> f[i] \otimes Pow(i * r)]
    <3>2. 0 \in 0..(1 - 1) /\ 0 * r = 0 /\ 1 \in Nat /\ f[0] \in Byte
          /\ \A q \in 0..(1 - 1) : q = 0
      OBVIOUS
    <3>3. g[0] = f[0] \otimes 1
      BY <3>2, PowStep
    <3>4. g[0] = f[0]
      BY <3>2, <3>3, Units
    <3>5. Moment(f, 1, r) = XorSum(g, 1)
      BY DEF Moment
    <3> HIDE DEF g
    <3>6. XorSum(g, 1) = g[0]
      BY <3>2, <3>4, SumSingle
    <3> QED
      BY <3>1, <3>4, <3>5, <3>6
  <2>2. T = {}
    BY <2>1
  <2>3. Cardinality(T) = 0
    BY <2>2, FS_EmptySet
  <2> QED
    BY <2>3
<1>2. ASSUME NEW k \in Nat, Claim(k) PROVE Claim(k + 1)
  <2> SUFFICES ASSUME NEW f \in [0..(k + 1) -> Byte], NEW T \in SUBSET (1..255),
                      f[0] # 0, \A r \in T : Root(f, k + 1, r)
               PROVE  Cardinality(T) <= k + 1
    OBVIOUS
  <2>1. CASE T = {}
    <3>1. Cardinality(T) = 0
      BY <2>1, FS_EmptySet
    <3> QED
      BY <3>1
  <2>2. ASSUME NEW r \in T PROVE Cardinality(T) <= k + 1
    <3> DEFINE s == 255 - r
               m == k + 1
               q == Quotient(f, m, s)
               g == [i \in 0..k |-> q[i]]
    <3>1. s \in 0..254 /\ 255 - s = r /\ m \in Nat /\ s \in Nat /\ r \in 1..255
      OBVIOUS
    <3>2. Root(f, m, 255 - s) /\ \A i \in 0..m : f[i] \in Byte
      BY <3>1
    <3>3. (\A i \in 0..m : q[i] \in Byte) /\ q[0] = f[0]
      BY <3>1, <3>2, QuotientStep
    <3>4. g \in [0..k -> Byte] /\ g[0] # 0
      <4>1. \A i \in 0..k : i \in 0..m
        OBVIOUS
      <4> QED
        BY <3>3, <4>1
    <3>5. ASSUME NEW t \in T \ {r} PROVE Root(g, k, t)
      <4>1. t \in 1..255 /\ t # 255 - s /\ Root(f, m, t) /\ m \in Nat \ {0} /\ m - 1 = k
        BY <3>1
      <4>2. Root(q, k, t)
        <5> HIDE DEF m, s, Claim
        <5>1. Root(Quotient(f, m, s), m - 1, t)
          BY <3>1, <3>2, <4>1, OtherRoot
        <5> QED
          BY <4>1, <5>1
      <4>3. Moment(q, k + 1, t) = Moment(g, k + 1, t)
        <5>1. (k + 1) - 1 = k
          OBVIOUS
        <5> DEFINE u == [i \in 0..k |-> q[i] \otimes Pow(i * t)]
                   v == [i \in 0..k |-> g[i] \otimes Pow(i * t)]
        <5>2. Moment(q, k + 1, t) = XorSum(u, k + 1) /\ Moment(g, k + 1, t) = XorSum(v, k + 1)
          BY <5>1 DEF Moment
        <5>3. \A i \in 0..k : g[i] = q[i]
          OBVIOUS
        <5> HIDE DEF g
        <5>4. u = v
          BY <5>3
        <5> QED
          BY <5>2, <5>4
      <4> QED
        BY <4>2, <4>3 DEF Root
    <3> HIDE DEF g
    <3>6. Cardinality(T \ {r}) <= k
      BY <1>2, <3>4, <3>5
    <3>7. Cardinality(T \ {r}) = Cardinality(T) - 1
      BY <1>0, FS_RemoveElement
    <3> QED
      BY <1>0, <3>6, <3>7
  <2> QED
    BY <2>1, <2>2
<1> HIDE DEF Claim
<1>3. 0 \in P /\ \A k \in Nat : k \in P => k + 1 \in P
  BY <1>1, <1>2
<1> HIDE DEF P
<1>4. n \in P
  BY <1>3, NumbersFromZero
<1> QED
  BY <1>0, <1>4 DEF P, Claim

-----------------------------------------------------------------------------
(***************************************************************************)
(* The encoder: its generator vanishes at the powers 1 to NPAR, and so     *)
(* does every word it completes.                                           *)
(***************************************************************************)

\* h holds the values of p, one place further.
Shifted(h, p, n) == h[0] = 0 /\ \A k \in 1..(n - 1) : h[k] = p[k - 1]

\* A shifted word has its moments times the power, but for what falls out.
LEMMA ShiftMoment ==
  ASSUME NEW n \in Nat \ {0}, NEW p, \A k \in 0..(n - 1) : p[k] \in Byte, NEW h, Shifted(h, p, n),
         NEW r \in Nat
  PROVE  Pow(r) \otimes Moment(p, n, r) = Moment(h, n, r) \oplus (p[n - 1] \otimes Pow(n * r))
<1> DEFINE f == [k \in 0..(n - 1) |-> p[k] \otimes Pow(k * r)]
           g == [k \in 0..(n - 1) |-> h[k] \otimes Pow(k * r)]
           l == [k \in 0..(n - 1) |-> Pow(r) \otimes f[k]]
           m == n - 1
           a == Pow(r)
<1>0. m \in Nat /\ n = m + 1 /\ n = 1 + m /\ a \in Byte /\ m \in 0..(n - 1)
  BY PowStep
<1>1. ASSUME NEW k \in 0..(n - 1)
      PROVE  f[k] \in Byte /\ l[k] = a \otimes f[k] /\ l[k] = p[k] \otimes Pow((k + 1) * r)
  <2>1. k \in Nat /\ k * r \in Nat /\ (k + 1) * r = r + k * r
    OBVIOUS
  <2> DEFINE b == p[k]
             c == Pow(k * r)
  <2>2. b \in Byte /\ c \in Byte /\ Pow((k + 1) * r) = a \otimes c
    BY <2>1, PowSum
  <2>3. f[k] = b \otimes c /\ l[k] = a \otimes f[k]
    OBVIOUS
  <2> HIDE DEF f, l, a, b, c
  <2>4. f[k] \in Byte /\ l[k] = b \otimes (a \otimes c)
    BY <1>0, <2>2, <2>3, Regroup, Closed
  <2> QED
    BY <2>2, <2>3, <2>4 DEF b
<1>2. ASSUME NEW k \in 0..(m - 1) PROVE g[1 + k] = l[k]
  <2>1. 1 + k \in 1..(n - 1) /\ 1 + k \in 0..(n - 1) /\ (1 + k) - 1 = k /\ k \in 0..(n - 1) /\ 1 + k = k + 1
    BY <1>0
  <2>2. h[1 + k] = p[k]
    BY <2>1 DEF Shifted
  <2>3. g[1 + k] = h[1 + k] \otimes Pow((1 + k) * r)
    BY <2>1
  <2> HIDE DEF g, l, f
  <2> QED
    BY <1>1, <2>1, <2>2, <2>3
<1>3. g[0] = 0
  <2>1. 0 \in 0..(n - 1) /\ 0 * r = 0
    OBVIOUS
  <2>2. g[0] = h[0] \otimes Pow(0 * r)
    BY <2>1
  <2>3. h[0] = 0 /\ Pow(0) \in Byte
    BY PowStep DEF Shifted
  <2> QED
    BY <2>1, <2>2, <2>3, Units
<1>4. Moment(p, n, r) = XorSum(f, n) /\ Moment(h, n, r) = XorSum(g, n)
  BY DEF Moment
<1>5. l[m] = p[n - 1] \otimes Pow(n * r)
  <2> HIDE DEF l, f
  <2> QED
    BY <1>0, <1>1
<1> HIDE DEF f, g, l, a
<1>6. \A k \in 0..(n - 1) : l[k] \in Byte
  BY <1>0, <1>1, Closed
<1>7. a \otimes XorSum(f, n) = XorSum(l, n)
  BY <1>0, <1>1, SumScale
<1>8. XorSum(l, n) = XorSum(l, m) \oplus l[m] /\ XorSum(l, m) \in Byte /\ l[m] \in Byte
  <2>1. \A k \in 0..m : l[k] \in Byte
    BY <1>0, <1>6
  <2> HIDE DEF m
  <2> QED
    BY <1>0, <2>1, SumNext
<1>9. XorSum(g, n) = XorSum(l, m)
  <2>1. \A k \in 0..(n - 1) : g[k] \in Byte
    <3> SUFFICES ASSUME NEW k \in 0..(n - 1) PROVE g[k] \in Byte
      OBVIOUS
    <3>1. CASE k = 0
      BY <1>3, <3>1, ZeroByte
    <3>2. CASE k # 0
      <4>1. k - 1 \in 0..(m - 1) /\ 1 + (k - 1) = k /\ k - 1 \in 0..(n - 1)
        BY <1>0, <3>2
      <4> HIDE DEF m
      <4>2. g[1 + (k - 1)] = l[k - 1]
        BY <1>2, <4>1
      <4> QED
        BY <1>6, <4>1, <4>2
    <3> QED
      BY <3>1, <3>2
  <2> HIDE DEF m
  <2>2. XorSum(g, 1 + m) = XorSum(g, 1) \oplus XorSum(l, m)
    <3>1. 1 \in Nat /\ 1 + m - 1 = n - 1
      BY <1>0
    <3> QED
      BY <1>0, <1>2, <2>1, <3>1, SumSplit
  <2>3. XorSum(g, 1) = 0
    <3>1. 1 \in Nat /\ \A i \in 0..(1 - 1) : g[i] = 0
      BY <1>3
    <3> QED
      BY <3>1, SumOfZeros
  <2> QED
    BY <1>0, <1>8, <2>2, <2>3, Units
<1> QED
  BY <1>4, <1>5, <1>7, <1>8, <1>9 DEF a

\* The factor x + a^i.
RootPoly(i) == [k \in Degrees |-> IF k = 0 THEN gexp[i] ELSE One[k - 1]]

\* p has MAXDEG coefficients at least.
Coefficients(p) == \A k \in Degrees : p[k] \in Byte

\* Multiplying by it scales and shifts.
LEMMA TimesRoot ==
  ASSUME NEW i \in 0..254, NEW p, Coefficients(p)
  PROVE  /\ mult_polys(RootPoly(i), p) \in [0 .. 2 * MAXDEG - 1 -> Byte]
         /\ mult_polys(RootPoly(i), p)[0] = gexp[i] \otimes p[0]
         /\ \A k \in Degrees \ {0} :
              mult_polys(RootPoly(i), p)[k] = (gexp[i] \otimes p[k]) \oplus p[k - 1]
<1> DEFINE d == RootPoly(i)
           a == gexp[i]
           f(k) == [j \in Degrees |-> IF k - j \in Degrees THEN gmult[p[k - j]][d[j]] ELSE 0]
<1>0. NPAR \in Nat \ {0} /\ MAXDEG \in Nat /\ 2 <= MAXDEG
  BY NparAssumption DEF MAXDEG
<1>1. a \in Byte
  BY PowerType
<1>2. 0 \in Degrees /\ 1 \in Degrees /\ Degrees = 0..(MAXDEG - 1)
  BY <1>0 DEF Degrees
<1>3. d[0] = a /\ d[1] = 1 /\ \A j \in Degrees : j # 0 /\ j # 1 => d[j] = 0
  <2>1. \A j \in Degrees : One[j] = IF j = 0 THEN 1 ELSE 0
    BY DEF One
  <2>2. \A j \in Degrees : j # 0 => j - 1 \in Degrees
    BY <1>0 DEF Degrees
  <2>3. \A j \in Degrees : d[j] = IF j = 0 THEN a ELSE One[j - 1]
    BY DEF RootPoly
  <2> HIDE DEF d, a
  <2>4. ASSUME NEW j \in Degrees, j # 0, j # 1 PROVE d[j] = 0
    <3>1. j - 1 \in Degrees /\ j - 1 # 0
      BY <2>2, <2>4 DEF Degrees
    <3> QED
      BY <2>1, <2>3, <2>4, <3>1
  <2>5. d[1] = 1
    <3>1. 1 - 1 = 0
      OBVIOUS
    <3> QED
      BY <1>2, <2>1, <2>3, <3>1
  <2> QED
    BY <1>2, <2>3, <2>4, <2>5
<1>4. \A j \in Degrees : d[j] \in Byte
  BY <1>1, <1>3, OneByte, ZeroByte
<1> HIDE DEF d, a
<1>5. mult_polys(d, p) = [k \in 0 .. 2 * MAXDEG - 1 |-> XorSum(f(k), MAXDEG)]
  BY DEF mult_polys
<1>6. ASSUME NEW k \in 0 .. 2 * MAXDEG - 1, NEW j \in Degrees PROVE f(k)[j] \in Byte
  <2>1. CASE k - j \in Degrees
    <3>1. p[k - j] \in Byte /\ d[j] \in Byte
      BY <1>4, <2>1 DEF Coefficients
    <3>2. f(k)[j] = p[k - j] \otimes d[j]
      BY <2>1 DEF \otimes
    <3> QED
      BY <3>1, <3>2, Closed
  <2>2. CASE k - j \notin Degrees
    BY <2>2, ZeroByte
  <2> QED
    BY <2>1, <2>2
<1>7. ASSUME NEW k \in 0 .. 2 * MAXDEG - 1 PROVE XorSum(f(k), MAXDEG) \in Byte
  <2> DEFINE g == f(k)
  <2>1. \A j \in 0..(MAXDEG - 1) : g[j] \in Byte
    BY <1>2, <1>6
  <2> HIDE DEF g
  <2>2. XorSum(g, MAXDEG) \in Byte
    BY <1>0, <2>1, SumType
  <2> QED
    BY <2>2 DEF g
<1>8. ASSUME NEW k \in Degrees
      PROVE  XorSum(f(k), MAXDEG) = (a \otimes p[k]) \oplus (IF k = 0 THEN 0 ELSE p[k - 1])
  <2> DEFINE g == f(k)
  <2>0. k \in 0 .. 2 * MAXDEG - 1 /\ p[k] \in Byte
    BY <1>0, <1>2 DEF Coefficients
  <2>1. \A j \in 0..(MAXDEG - 1) : g[j] \in Byte
    BY <1>2, <1>6, <2>0
  <2>2. ASSUME NEW j \in 2..(MAXDEG - 1) PROVE g[j] = 0
    <3>1. j \in Degrees /\ d[j] = 0
      BY <1>0, <1>2, <1>3
    <3>2. CASE k - j \in Degrees
      <4>1. p[k - j] \in Byte
        BY <3>2 DEF Coefficients
      <4>2. g[j] = p[k - j] \otimes 0
        BY <3>1, <3>2 DEF \otimes
      <4> QED
        BY <4>1, <4>2, Units
    <3>3. CASE k - j \notin Degrees
      BY <3>1, <3>3
    <3> QED
      BY <3>2, <3>3
  <2>3. g[0] = a \otimes p[k]
    <3>1. k - 0 = k
      BY <1>2
    <3>2. g[0] = p[k] \otimes a
      BY <1>2, <1>3, <3>1 DEF \otimes
    <3> HIDE DEF g
    <3> QED
      BY <1>1, <2>0, <3>2, Closed
  <2>4. g[1] = IF k = 0 THEN 0 ELSE p[k - 1]
    <3>1. CASE k = 0
      <4>1. k - 1 \notin Degrees
        BY <1>0, <1>2, <3>1
      <4> QED
        BY <1>2, <3>1, <4>1
    <3>2. CASE k # 0
      <4>1. k - 1 \in Degrees
        BY <1>0, <1>2, <3>2
      <4>2. p[k - 1] \in Byte /\ g[1] = p[k - 1] \otimes 1
        BY <1>2, <1>3, <4>1 DEF Coefficients, \otimes
      <4> QED
        BY <3>2, <4>2, Units
    <3> QED
      BY <3>1, <3>2
  <2> HIDE DEF g
  <2>5. XorSum(g, MAXDEG) = XorSum(g, 2)
    <3>1. 2 \in Nat
      OBVIOUS
    <3> QED
      BY <1>0, <2>1, <2>2, <3>1, SumLonger
  <2>6. XorSum(g, 2) = g[0] \oplus g[1]
    <3>1. g[0] \in Byte /\ g[1] \in Byte /\ XorSum(g, 0) = 0
      BY <1>0, <2>1, SumNext
    <3>2. XorSum(g, 1) = g[0]
      <4>1. 1 \in Nat /\ 0 \in 0..(1 - 1) /\ \A q \in 0..(1 - 1) : q = 0
        OBVIOUS
      <4> QED
        BY <3>1, <4>1, SumSingle
    <3>3. 1 \in Nat /\ 1 + 1 = 2 /\ \A q \in 0..1 : g[q] \in Byte
      BY <1>0, <2>1
    <3>4. XorSum(g, 1 + 1) = XorSum(g, 1) \oplus g[1]
      BY <3>3, SumNext
    <3> QED
      BY <3>2, <3>3, <3>4
  <2> QED
    BY <2>3, <2>4, <2>5, <2>6 DEF g
<1>9. \A k \in Degrees : k \in 0 .. 2 * MAXDEG - 1
  BY <1>0, <1>2
<1>10. mult_polys(d, p) \in [0 .. 2 * MAXDEG - 1 -> Byte]
  BY <1>5, <1>7
<1>11. \A k \in Degrees : mult_polys(d, p)[k] = XorSum(f(k), MAXDEG)
  BY <1>5, <1>9
<1>12. mult_polys(d, p)[0] = a \otimes p[0]
  <2>1. p[0] \in Byte
    BY <1>2 DEF Coefficients
  <2>2. a \otimes p[0] \in Byte
    BY <1>1, <2>1, Closed
  <2>3. XorSum(f(0), MAXDEG) = (a \otimes p[0]) \oplus (IF 0 = 0 THEN 0 ELSE p[0 - 1])
    BY <1>2, <1>8
  <2> HIDE DEF f
  <2>4. XorSum(f(0), MAXDEG) = (a \otimes p[0]) \oplus 0
    BY <2>3
  <2> QED
    BY <1>2, <1>11, <2>2, <2>4, Units
<1> QED
  BY <1>8, <1>10, <1>11, <1>12 DEF d, a

\* The product of the first i factors, of i degrees, vanishes at their powers.
Vanishing(p, i) ==
  /\ Coefficients(p)
  /\ p[i] = 1 /\ \A k \in Degrees : k > i => p[k] = 0
  /\ \A r \in 1..i : Moment(p, MAXDEG, r) = 0

\* One more factor.
LEMMA NextFactor ==
  ASSUME NEW i \in 0..(NPAR - 1), NPAR < 255, NEW p, Vanishing(p, i)
  PROVE  Vanishing(mult_polys(RootPoly(i + 1), p), i + 1)
<1> DEFINE q == mult_polys(RootPoly(i + 1), p)
           h == [k \in 0..(MAXDEG - 1) |-> IF k = 0 THEN 0 ELSE p[k - 1]]
           a == gexp[i + 1]
           m == MAXDEG
           j == i + 1
<1>0. NPAR \in Nat \ {0} /\ m \in Nat \ {0} /\ j \in 0..254 /\ j \in Nat /\ j # 0
      /\ i + 1 < m /\ Degrees = 0..(m - 1)
  BY NparAssumption DEF MAXDEG, Degrees
<1>1. a \in Byte /\ a = Pow(j)
  <2>1. j % 255 = j
    BY <1>0
  <2> QED
    BY <1>0, <2>1, PowerType DEF Pow
<1>2. q \in [0 .. 2 * MAXDEG - 1 -> Byte] /\ q[0] = a \otimes p[0]
      /\ \A k \in Degrees \ {0} : q[k] = (a \otimes p[k]) \oplus p[k - 1]
  BY <1>0, TimesRoot DEF Vanishing
<1>3. Coefficients(q)
  <2>1. \A k \in Degrees : k \in 0 .. 2 * MAXDEG - 1
    BY <1>0
  <2> QED
    BY <1>2, <2>1 DEF Coefficients
<1> HIDE DEF q
<1>4. \A k \in 0..(m - 1) : p[k] \in Byte
  BY <1>0 DEF Vanishing, Coefficients
<1>5. Shifted(h, p, m) /\ \A k \in 0..(m - 1) : h[k] \in Byte
  <2>1. \A k \in 1..(m - 1) : k \in 0..(m - 1) /\ k # 0 /\ k - 1 \in 0..(m - 1)
    BY <1>0
  <2>2. 0 \in 0..(m - 1)
    BY <1>0
  <2>3. \A k \in 0..(m - 1) : k # 0 => k \in 1..(m - 1)
    BY <1>0
  <2> HIDE DEF m
  <2>4. \A k \in 1..(m - 1) : h[k] = p[k - 1]
    BY <2>1 DEF m
  <2>5. h[0] = 0
    BY <2>2 DEF m
  <2> HIDE DEF h
  <2> QED
    BY <1>4, <2>1, <2>3, <2>4, <2>5, ZeroByte DEF Shifted
<1>6. ASSUME NEW k \in 0..(m - 1) PROVE q[k] = (a \otimes p[k]) \oplus h[k]
  <2>1. CASE k = 0
    <3>1. p[0] \in Byte /\ h[0] = 0
      BY <1>4, <1>5, <2>1 DEF Shifted
    <3>2. a \otimes p[0] \in Byte
      BY <1>1, <3>1, Closed
    <3> HIDE DEF a, h
    <3> QED
      BY <1>2, <2>1, <3>1, <3>2, Units
  <2>2. CASE k # 0
    <3>1. k \in Degrees \ {0} /\ k \in 1..(m - 1)
      BY <1>0, <2>2
    <3> HIDE DEF a, h
    <3> QED
      BY <1>2, <1>5, <3>1 DEF Shifted
  <2> QED
    BY <2>1, <2>2
<1>7. q[i + 1] = 1
  <2>1. i + 1 \in Degrees \ {0} /\ (i + 1) - 1 = i /\ i + 1 > i
    BY <1>0
  <2>2. q[i + 1] = (a \otimes p[i + 1]) \oplus p[i]
    BY <1>2, <2>1
  <2>3. p[i + 1] = 0 /\ p[i] = 1
    BY <2>1 DEF Vanishing
  <2> HIDE DEF a
  <2> QED
    BY <1>1, <2>2, <2>3, Units, OneByte
<1>8. ASSUME NEW k \in Degrees, k > i + 1 PROVE q[k] = 0
  <2>1. k \in Degrees \ {0} /\ k - 1 \in Degrees /\ k > i /\ k - 1 > i
    BY <1>0, <1>8
  <2>2. p[k] = 0 /\ p[k - 1] = 0
    BY <2>1 DEF Vanishing
  <2>3. q[k] = (a \otimes p[k]) \oplus p[k - 1]
    BY <1>2, <2>1
  <2> HIDE DEF a
  <2> QED
    BY <1>1, <2>2, <2>3, Units, ZeroByte
<1>9. ASSUME NEW r \in 1..(i + 1) PROVE Moment(q, m, r) = 0
  <2> DEFINE b == Pow(r)
             x == Moment(p, m, r)
  <2>1. r \in Nat /\ b \in Byte /\ x \in Byte
    <3>1. r \in Nat
      BY <1>0
    <3>2. m \in Nat
      BY <1>0
    <3> HIDE DEF m, h
    <3> QED
      BY <1>4, <3>1, <3>2, PowStep, MomentType
  <2>2. b \otimes x = Moment(h, m, r)
    <3>1. b \otimes x = Moment(h, m, r) \oplus (p[m - 1] \otimes Pow(m * r))
      <4>1. r \in Nat
        BY <2>1
      <4> HIDE DEF m, h
      <4> QED
        BY <1>0, <1>4, <1>5, <4>1, ShiftMoment
    <3>2. p[m - 1] = 0
      <4>1. m - 1 \in Degrees /\ m - 1 > i
        BY <1>0
      <4> QED
        BY <4>1 DEF Vanishing
    <3>3. m * r \in Nat
      BY <1>0
    <3>4. Pow(m * r) \in Byte /\ Moment(h, m, r) \in Byte
      BY <1>0, <1>5, <2>1, <3>3, PowStep, MomentType
    <3> HIDE DEF m, h, b, x
    <3> QED
      BY <3>1, <3>2, <3>4, Units
  <2>3. Moment(q, m, r) = (a \otimes x) \oplus Moment(h, m, r)
    <3> DEFINE f == [k \in 0..(m - 1) |-> p[k] \otimes Pow(k * r)]
               g == [k \in 0..(m - 1) |-> h[k] \otimes Pow(k * r)]
               s == [k \in 0..(m - 1) |-> q[k] \otimes Pow(k * r)]
               t == [k \in 0..(m - 1) |-> a \otimes f[k]]
    <3>1. ASSUME NEW k \in 0..(m - 1)
          PROVE  f[k] \in Byte /\ g[k] \in Byte /\ t[k] \in Byte /\ t[k] = a \otimes f[k]
                 /\ s[k] = t[k] \oplus g[k]
      <4>1. k * r \in Nat
        BY <1>0
      <4> DEFINE c == Pow(k * r)
                 d == p[k]
                 e == h[k]
      <4>2. c \in Byte /\ d \in Byte /\ e \in Byte /\ q[k] = (a \otimes d) \oplus e
        BY <1>4, <1>5, <1>6, <4>1, PowStep
      <4>3. f[k] = d \otimes c /\ g[k] = e \otimes c /\ s[k] = q[k] \otimes c /\ t[k] = a \otimes f[k]
        OBVIOUS
      <4> HIDE DEF a, c, d, e, f, g, s, t
      <4>4. f[k] \in Byte /\ g[k] \in Byte /\ t[k] \in Byte /\ a \otimes d \in Byte
        BY <1>1, <4>2, <4>3, Closed
      <4>5. s[k] = ((a \otimes d) \otimes c) \oplus (e \otimes c)
        BY <4>2, <4>3, <4>4, Distribute
      <4> QED
        BY <1>1, <4>2, <4>3, <4>4, <4>5, Regroup
    <3>2. Moment(q, m, r) = XorSum(s, m) /\ x = XorSum(f, m) /\ Moment(h, m, r) = XorSum(g, m)
      BY DEF Moment
    <3> HIDE DEF a, h, m, f, g, s, t, x
    <3>3. XorSum(s, m) = XorSum(t, m) \oplus XorSum(g, m)
      BY <1>0, <3>1, SumAdd
    <3>4. XorSum(t, m) = a \otimes XorSum(f, m)
      BY <1>0, <1>1, <3>1, SumScale
    <3> QED
      BY <3>2, <3>3, <3>4
  <2>4. Moment(q, m, r) = (a \oplus b) \otimes x
    <3> HIDE DEF a, b, x, m, h
    <3> QED
      BY <1>1, <2>1, <2>2, <2>3, Distribute
  <2>5. CASE r = i + 1
    <3>1. a = b
      BY <1>1, <2>5
    <3> HIDE DEF a, b, x, m, h
    <3> QED
      BY <1>1, <2>1, <2>4, <3>1, Units
  <2>6. CASE r # i + 1
    <3>1. r \in 1..i
      BY <2>6
    <3>2. x = 0
      BY <3>1 DEF Vanishing
    <3>3. a \oplus b \in Byte
      BY <1>1, <2>1, Closed
    <3> HIDE DEF a, b, x, m, h
    <3> QED
      BY <2>4, <3>2, <3>3, Units
  <2> QED
    BY <2>5, <2>6
<1> QED
  BY <1>3, <1>7, <1>8, <1>9 DEF Vanishing, q

\* The generator has NPAR degrees, vanishes at the powers 1 to NPAR, and its
\* other coefficients therefore have the value of its highest power.
LEMMA Generator ==
  ASSUME NPAR < 255
  PROVE  /\ \A j \in 0..(NPAR - 1) : genPoly[j] \in Byte
         /\ \A r \in 1..NPAR : Moment(genPoly, NPAR, r) = Pow(NPAR * r)
<1> DEFINE n == NPAR
           V == {p \in [Degrees -> Byte] \cup [0 .. 2 * MAXDEG - 1 -> Byte] : Coefficients(p)}
           F == [i \in 1..n |-> [p \in V |-> mult_polys(RootPoly(i), p)]]
           Body(k, i) == IF i = 0 THEN One ELSE mult_polys(RootPoly(i), k[i - 1])
           K == CHOOSE k : k = [i \in 0..n |-> Body(k, i)]
<1>0. n \in Nat \ {0} /\ MAXDEG \in Nat /\ n + 1 < MAXDEG + 1 /\ Degrees = 0..(MAXDEG - 1)
  BY NparAssumption DEF MAXDEG, Degrees
<1>1. genPoly = [k \in Degrees |-> K[NPAR][k]]
  BY DEF genPoly, RootPoly
<1>2. F \in [1..n -> [V -> V]]
  <2>1. ASSUME NEW i \in 1..n, NEW p \in V PROVE mult_polys(RootPoly(i), p) \in V
    <3> DEFINE q == mult_polys(RootPoly(i), p)
    <3>1. i \in 0..254 /\ Coefficients(p)
      BY <1>0
    <3>2. q \in [0 .. 2 * MAXDEG - 1 -> Byte]
      BY <3>1, TimesRoot
    <3>3. \A k \in Degrees : k \in 0 .. 2 * MAXDEG - 1
      BY <1>0
    <3> HIDE DEF q
    <3>4. Coefficients(q)
      BY <3>2, <3>3 DEF Coefficients
    <3> QED
      BY <3>2, <3>4 DEF q
  <2> HIDE DEF V
  <2> QED
    BY <2>1
<1>3. One \in V
  BY OneByte, ZeroByte DEF One, Coefficients
<1>4. ASSUME NEW g, NEW i \in 1..n, g[i - 1] \in V PROVE Body(g, i) = F[i][g[i - 1]]
  <2> HIDE DEF V
  <2> QED
    BY <1>4
<1>5. \A g : Body(g, 0) = One
  OBVIOUS
<1> HIDE DEF F, Body, V
<1>6. PICK k : Solves(k, n, V, One, F)
  BY <1>0, <1>2, <1>3, Recursion
<1>7. \A i \in 0..n : k[i] = Body(k, i)
  <2> SUFFICES ASSUME NEW i \in 0..n, i # 0 PROVE k[i] = Body(k, i)
    BY <1>5, <1>6 DEF Solves
  <2>1. i \in 1..n /\ k[i - 1] \in V
    BY <1>0, <1>6 DEF Solves
  <2> QED
    BY <1>4, <1>6, <2>1 DEF Solves
<1>8. k = [i \in 0..n |-> Body(k, i)]
  BY <1>6, <1>7 DEF Solves
<1>9. K = [i \in 0..n |-> Body(K, i)]
  BY <1>8
<1> HIDE DEF K
<1>10. K[0] = One /\ K = [i \in 0..n |-> K[i]]
  BY <1>0, <1>5, <1>9
<1>11. \A i \in 1..n : K[i - 1] \in V => K[i] = F[i][K[i - 1]]
  BY <1>0, <1>4, <1>9
<1>12. Solves(K, n, V, One, F)
  BY <1>0, <1>2, <1>3, <1>10, <1>11, RecursionType
<1>13. ASSUME NEW i \in 1..n PROVE K[i] = mult_polys(RootPoly(i), K[i - 1])
  <2>1. K[i - 1] \in V /\ K[i] = F[i][K[i - 1]]
    BY <1>0, <1>12 DEF Solves
  <2> QED
    BY <2>1 DEF F
<1> DEFINE P == {i \in Nat : i <= n => Vanishing(K[i], i)}
<1>14. 0 \in P
  <2>1. Coefficients(One) /\ One[0] = 1 /\ \A j \in Degrees : j > 0 => One[j] = 0
    BY <1>0, OneByte, ZeroByte DEF One, Coefficients
  <2>2. Vanishing(One, 0)
    BY <2>1 DEF Vanishing
  <2> QED
    BY <1>10, <2>2
<1>15. ASSUME NEW i \in Nat, i \in P PROVE i + 1 \in P
  <2> SUFFICES ASSUME i + 1 <= n PROVE Vanishing(K[i + 1], i + 1)
    OBVIOUS
  <2>1. i \in 0..(NPAR - 1) /\ i + 1 \in 1..n /\ (i + 1) - 1 = i /\ Vanishing(K[i], i)
    BY <1>0, <1>15
  <2>2. Vanishing(mult_polys(RootPoly(i + 1), K[i]), i + 1)
    BY <2>1, NextFactor
  <2> QED
    BY <1>13, <2>1, <2>2
<1> HIDE DEF P
<1>16. n \in P
  BY <1>0, <1>14, <1>15, NumbersFromZero
<1> DEFINE g == K[n]
<1>17. Vanishing(g, n)
  BY <1>0, <1>16 DEF P
<1> HIDE DEF g
<1>18. \A j \in Degrees : genPoly[j] = g[j]
  BY <1>1 DEF g
<1>19. \A j \in Degrees : genPoly[j] \in Byte
  BY <1>17, <1>18 DEF Vanishing, Coefficients
<1>20. \A j \in 0..n : j \in Degrees
  BY <1>0
<1>21. ASSUME NEW r \in 1..n PROVE Moment(genPoly, n, r) = Pow(n * r)
  <2> DEFINE f == [j \in 0..(MAXDEG - 1) |-> g[j] \otimes Pow(j * r)]
             s == [j \in 0..(n - 1) |-> genPoly[j] \otimes Pow(j * r)]
  <2>1. Moment(g, MAXDEG, r) = XorSum(f, MAXDEG) /\ Moment(genPoly, n, r) = XorSum(s, n)
    BY DEF Moment
  <2>2. Moment(g, MAXDEG, r) = 0
    BY <1>17 DEF Vanishing
  <2>3. ASSUME NEW j \in Degrees PROVE f[j] = g[j] \otimes Pow(j * r) /\ f[j] \in Byte
    <3>1. g[j] \in Byte /\ j \in Nat /\ r \in Nat
      BY <1>0, <1>17 DEF Vanishing, Coefficients
    <3>2. f[j] = g[j] \otimes Pow(j * r)
      BY <1>0
    <3> QED
      BY <3>1, <3>2, TermType
  <2>4. \A j \in 0..(n - 1) : s[j] = f[j]
    <3> SUFFICES ASSUME NEW j \in 0..(n - 1) PROVE s[j] = f[j]
      OBVIOUS
    <3>1. s[j] = genPoly[j] \otimes Pow(j * r) /\ j \in Degrees
      BY <1>0
    <3> HIDE DEF s, f
    <3> QED
      BY <1>18, <2>3, <3>1
  <2>5. n * r \in Nat
    BY <1>0
  <2>6. Pow(n * r) \in Byte
    BY <2>5, PowStep
  <2>7. f[n] = Pow(n * r)
    <3>1. n \in Degrees /\ g[n] = 1
      BY <1>0, <1>17 DEF Vanishing
    <3> HIDE DEF f
    <3> QED
      BY <2>3, <2>6, <3>1, Units
  <2>8. ASSUME NEW j \in (n + 1)..(MAXDEG - 1) PROVE f[j] = 0
    <3>1. j \in Degrees /\ j > n /\ j * r \in Nat
      BY <1>0
    <3>2. g[j] = 0 /\ Pow(j * r) \in Byte
      BY <1>17, <3>1, PowStep DEF Vanishing
    <3> HIDE DEF f
    <3> QED
      BY <2>3, <3>1, <3>2, Units
  <2> HIDE DEF f, s
  <2> DEFINE l == n + 1
             m == MAXDEG
  <2>9. XorSum(f, m) = XorSum(f, l)
    <3>1. l \in Nat /\ m \in Nat /\ l <= m /\ \A j \in 0..(m - 1) : j \in Degrees
      BY <1>0
    <3>2. \A j \in 0..(m - 1) : f[j] \in Byte
      BY <2>3, <3>1
    <3>3. \A j \in l..(m - 1) : f[j] = 0
      BY <2>8
    <3> HIDE DEF l, m
    <3> QED
      BY <3>1, <3>2, <3>3, SumLonger
  <2>10. XorSum(f, l) = XorSum(f, n) \oplus f[n] /\ XorSum(f, n) \in Byte
    <3>1. \A j \in 0..n : f[j] \in Byte
      BY <1>20, <2>3
    <3> HIDE DEF n
    <3> QED
      BY <1>0, <3>1, SumNext
  <2>11. XorSum(s, n) = XorSum(f, n)
    <3>1. \A j \in 0..(n - 1) : j \in 0..n
      BY <1>0
    <3>2. \A j \in 0..(n - 1) : f[j] \in Byte
      BY <1>20, <2>3, <3>1
    <3> HIDE DEF n
    <3> QED
      BY <1>0, <2>4, <3>2, SumEqual
  <2> DEFINE x == XorSum(f, n)
             y == Pow(n * r)
  <2>12. x \oplus y = 0
    <3> HIDE DEF l, n
    <3> QED
      BY <2>1, <2>2, <2>7, <2>9, <2>10
  <2>13. Moment(genPoly, n, r) = x /\ x \in Byte /\ y \in Byte
    BY <2>1, <2>6, <2>10, <2>11
  <2> HIDE DEF x, y, l, n
  <2>14. x = y
    BY <2>12, <2>13, Add
  <2> QED
    BY <2>13, <2>14 DEF y
<1>22. \A j \in 0..(n - 1) : j \in Degrees
  BY <1>0
<1> QED
  BY <1>19, <1>21, <1>22

\* The first n bytes of data from the last to the first.
Reverse(data, n) == [q \in 0..(n - 1) |-> data[n - 1 - q]]

\* One more byte before the others adds itself and moves them up by a power.
LEMMA MomentNext ==
  ASSUME NEW n \in Nat, NEW c, NEW d, \A q \in 0..n : d[q] \in Byte,
         \A q \in 0..(n - 1) : c[q] = d[1 + q], NEW r \in Nat
  PROVE  Moment(d, n + 1, r) = d[0] \oplus (Pow(r) \otimes Moment(c, n, r))
<1> DEFINE f == [q \in 0..n |-> d[q] \otimes Pow(q * r)]
           g == [q \in 0..(n - 1) |-> c[q] \otimes Pow(q * r)]
           h == [q \in 0..(n - 1) |-> Pow(r) \otimes g[q]]
           a == Pow(r)
           l == n + 1
<1>0. l = 1 + n /\ l - 1 = n /\ a \in Byte /\ l \in Nat
  BY PowStep
<1>1. Moment(d, l, r) = XorSum(f, l) /\ Moment(c, n, r) = XorSum(g, n)
  BY <1>0 DEF Moment
<1>2. ASSUME NEW q \in 0..n PROVE f[q] \in Byte /\ f[q] = d[q] \otimes Pow(q * r)
  BY TermType
<1>3. ASSUME NEW q \in 0..(n - 1) PROVE g[q] \in Byte /\ h[q] = a \otimes g[q] /\ h[q] = f[1 + q]
  <2>1. q * r \in Nat /\ (1 + q) * r = r + q * r /\ 1 + q \in 0..n
    OBVIOUS
  <2> DEFINE b == d[1 + q]
             e == Pow(q * r)
  <2>2. b \in Byte /\ e \in Byte /\ Pow((1 + q) * r) = a \otimes e
    BY <2>1, PowSum
  <2>3. g[q] = b \otimes e /\ h[q] = a \otimes g[q] /\ f[1 + q] = b \otimes (a \otimes e)
    BY <2>1, <2>2
  <2> HIDE DEF a, b, e, f, g, h, l
  <2> QED
    BY <1>0, <2>2, <2>3, Closed, Regroup
<1>4. f[0] = d[0] /\ d[0] \in Byte
  <2>1. 0 \in 0..n /\ 0 * r = 0
    OBVIOUS
  <2>2. f[0] = d[0] \otimes 1 /\ d[0] \in Byte
    BY <1>2, <2>1, PowStep
  <2> HIDE DEF f
  <2> QED
    BY <2>2, Units
<1> HIDE DEF f, g, h, a, l
<1>5. XorSum(f, 1 + n) = XorSum(f, 1) \oplus XorSum(h, n)
  <2>1. 1 + n - 1 = n /\ 1 \in Nat
    OBVIOUS
  <2>2. \A q \in 0..(1 + n - 1) : f[q] \in Byte
    BY <1>2, <2>1
  <2> QED
    BY <1>3, <2>1, <2>2, SumSplit
<1>6. XorSum(f, 1) = f[0]
  <2>1. 1 \in Nat /\ 0 \in 0..(1 - 1) /\ \A q \in 0..(1 - 1) : q = 0
    OBVIOUS
  <2> QED
    BY <1>4, <2>1, SumSingle
<1>7. XorSum(h, n) = a \otimes XorSum(g, n)
  BY <1>0, <1>3, SumScale
<1> QED
  BY <1>0, <1>1, <1>4, <1>5, <1>6, <1>7 DEF l, a

\* The value Horner's rule comes to is that of the polynomial.
LEMMA HornerMoment ==
  ASSUME NEW n \in Nat, NEW data, \A i \in 0..(n - 1) : data[i] \in Byte, NEW r \in Nat
  PROVE  /\ HornerOf(n, data, Pow(r))[n] = Moment(Reverse(data, n), n, r)
         /\ HornerOf(n, data, Pow(r))[n] \in Byte
<1> DEFINE a == Pow(r)
           v == HornerOf(n, data, a)
<1>1. a \in Byte
  BY PowStep
<1>2. Horner(v, n, data, a)
  BY <1>1, HornerDef
<1> HIDE DEF v
<1> DEFINE P == {i \in Nat : i <= n => v[i] = Moment(Reverse(data, i), i, r)}
<1>3. 0 \in P
  <2>1. Moment(Reverse(data, 0), 0, r) = 0
    BY SumNext DEF Moment
  <2> QED
    BY <1>2, <2>1 DEF Horner
<1>4. ASSUME NEW i \in Nat, i \in P PROVE i + 1 \in P
  <2> SUFFICES ASSUME i + 1 <= n PROVE v[i + 1] = Moment(Reverse(data, i + 1), i + 1, r)
    OBVIOUS
  <2> DEFINE c == Reverse(data, i)
             d == Reverse(data, i + 1)
  <2>1. v[i] = Moment(c, i, r) /\ i + 1 \in 1..n /\ (i + 1) - 1 = i
    BY <1>4
  <2>2. \A q \in 0..i : d[q] = data[i - q] /\ i - q \in 0..(n - 1)
    BY DEF Reverse
  <2>3. \A q \in 0..i : d[q] \in Byte
    BY <2>2
  <2>4. \A q \in 0..(i - 1) : c[q] = data[i - 1 - q]
    BY DEF Reverse
  <2>5. ASSUME NEW q \in 0..(i - 1) PROVE c[q] = d[1 + q]
    <3>1. 1 + q \in 0..i /\ i - (1 + q) = i - 1 - q
      OBVIOUS
    <3> HIDE DEF c, d
    <3> QED
      BY <2>2, <2>4, <3>1
  <2>6. d[0] = data[i]
    BY <2>2
  <2> HIDE DEF c, d
  <2>7. Moment(d, i + 1, r) = d[0] \oplus (a \otimes Moment(c, i, r))
    BY <2>3, <2>5, MomentNext
  <2>8. v[i + 1] = data[i] \oplus (a \otimes v[i])
    BY <1>2, <2>1 DEF Horner, \oplus, \otimes
  <2> QED
    BY <2>1, <2>6, <2>7, <2>8 DEF d
<1> HIDE DEF P
<1>5. n \in P
  BY <1>3, <1>4, NumbersFromZero
<1>6. v[n] \in Byte
  <2>1. n \in 0..n
    OBVIOUS
  <2> QED
    BY <1>2, <2>1 DEF Horner
<1> QED
  BY <1>5, <1>6 DEF P, v

\* So the syndromes of a word are its moments, from the first on.
LEMMA SyndromeMoment ==
  ASSUME NPAR < 255, NEW n \in Nat, NEW data, \A i \in 0..(n - 1) : data[i] \in Byte,
         NEW j \in 0..(NPAR - 1)
  PROVE  /\ j \in Degrees
         /\ synBytes(data, n)[j] = Moment(Reverse(data, n), n, j + 1)
         /\ synBytes(data, n)[j] \in Byte
<1>1. j \in Degrees /\ ~(j >= NPAR) /\ j + 1 \in Nat /\ (j + 1) % 255 = j + 1
  BY NparAssumption DEF Degrees, MAXDEG
<1>2. gexp[j + 1] = Pow(j + 1)
  BY <1>1 DEF Pow
<1>3. synBytes(data, n)[j] = HornerOf(n, data, Pow(j + 1))[n]
  BY <1>1, <1>2, SyndromesDef
<1> QED
  BY <1>1, <1>3, HornerMoment

\* The register after the byte m of the message has been shifted into w.
RegisterStep(m, w) ==
  [j \in 0..(NPAR - 1) |->
     Xor[IF j = 0 THEN 0 ELSE w[j - 1]][gmult[genPoly[j]][Xor[m][w[NPAR - 1]]]]]

\* k holds the register before the first byte of the message and after every one.
Registers(k, n, msg) ==
  /\ k \in [0..n -> [0..(NPAR - 1) -> Byte]]
  /\ k[0] = [j \in 0..(NPAR - 1) |-> 0]
  /\ \A i \in 1..n : k[i] = RegisterStep(msg[i - 1], k[i - 1])

\* One byte more.
LEMMA RegisterNext ==
  ASSUME NPAR < 255, NEW m \in Byte, NEW w \in [0..(NPAR - 1) -> Byte]
  PROVE  /\ RegisterStep(m, w) \in [0..(NPAR - 1) -> Byte]
         /\ \A r \in 1..NPAR :
              Moment(RegisterStep(m, w), NPAR, r)
                = (Pow(r) \otimes Moment(w, NPAR, r)) \oplus (m \otimes Pow(NPAR * r))
<1> DEFINE n == NPAR
           v == RegisterStep(m, w)
           b == m \oplus w[n - 1]
           h == [j \in 0..(n - 1) |-> IF j = 0 THEN 0 ELSE w[j - 1]]
<1>0. n \in Nat \ {0} /\ n - 1 \in 0..(n - 1)
  BY NparAssumption
<1>1. b \in Byte /\ w[n - 1] \in Byte
  <2>1. w[n - 1] \in Byte
    BY <1>0
  <2> QED
    BY <2>1, Closed
<1>2. Shifted(h, w, n) /\ \A j \in 0..(n - 1) : h[j] \in Byte
  <2>1. \A j \in 1..(n - 1) : j \in 0..(n - 1) /\ j # 0 /\ j - 1 \in 0..(n - 1)
    BY <1>0
  <2>2. 0 \in 0..(n - 1)
    BY <1>0
  <2>3. \A j \in 0..(n - 1) : j # 0 => j \in 1..(n - 1)
    BY <1>0
  <2>4. \A j \in 1..(n - 1) : h[j] = w[j - 1]
    BY <2>1
  <2>5. h[0] = 0
    BY <2>2
  <2>6. \A j \in 1..(n - 1) : w[j - 1] \in Byte
    BY <2>1
  <2> HIDE DEF h, n
  <2> QED
    BY <2>3, <2>4, <2>5, <2>6, ZeroByte DEF Shifted
<1>3. ASSUME NEW j \in 0..(n - 1) PROVE v[j] = h[j] \oplus (genPoly[j] \otimes b)
  BY DEF RegisterStep, \oplus, \otimes
<1>4. \A j \in 0..(n - 1) : genPoly[j] \in Byte
  BY Generator
<1>5. \A j \in 0..(n - 1) : v[j] \in Byte
  <2> HIDE DEF v, h, b, n
  <2>1. \A j \in 0..(n - 1) : genPoly[j] \otimes b \in Byte
    BY <1>1, <1>4, Closed
  <2> QED
    BY <1>2, <1>3, <2>1, Closed
<1>6. v \in [0..(n - 1) -> Byte]
  <2>1. v = [j \in 0..(n - 1) |-> v[j]]
    BY DEF RegisterStep
  <2> HIDE DEF v
  <2> QED
    BY <1>5, <2>1
<1> HIDE DEF v, h, b
<1>7. ASSUME NEW r \in 1..n
      PROVE  Moment(v, n, r) = (Pow(r) \otimes Moment(w, n, r)) \oplus (m \otimes Pow(n * r))
  <2> DEFINE f == [j \in 0..(n - 1) |-> h[j] \otimes Pow(j * r)]
             g == [j \in 0..(n - 1) |-> genPoly[j] \otimes Pow(j * r)]
             s == [j \in 0..(n - 1) |-> v[j] \otimes Pow(j * r)]
             t == [j \in 0..(n - 1) |-> b \otimes g[j]]
             x == Pow(r) \otimes Moment(w, n, r)
             y == Moment(h, n, r)
             z == Pow(n * r)
             u == w[n - 1]
  <2>0. r \in Nat /\ n * r \in Nat
    BY <1>0
  <2>1. ASSUME NEW j \in 0..(n - 1)
        PROVE  f[j] \in Byte /\ g[j] \in Byte /\ t[j] \in Byte /\ t[j] = b \otimes g[j]
               /\ s[j] = f[j] \oplus t[j]
    <3>1. j * r \in Nat
      BY <1>0
    <3> DEFINE c == Pow(j * r)
               d == genPoly[j]
               e == h[j]
    <3>2. c \in Byte /\ d \in Byte /\ e \in Byte /\ v[j] = e \oplus (d \otimes b)
      BY <1>2, <1>3, <1>4, <3>1, PowStep
    <3>3. f[j] = e \otimes c /\ g[j] = d \otimes c /\ s[j] = v[j] \otimes c /\ t[j] = b \otimes g[j]
      OBVIOUS
    <3> HIDE DEF c, d, e, f, g, s, t, x, y, z, u
    <3>4. f[j] \in Byte /\ g[j] \in Byte /\ t[j] \in Byte /\ d \otimes b \in Byte
          /\ d \otimes b = b \otimes d
      BY <1>1, <3>2, <3>3, Closed
    <3>5. s[j] = (e \otimes c) \oplus ((b \otimes d) \otimes c)
      BY <3>2, <3>3, <3>4, Distribute
    <3> QED
      BY <1>1, <3>2, <3>3, <3>4, <3>5, Regroup
  <2>2. Moment(v, n, r) = XorSum(s, n) /\ y = XorSum(f, n) /\ Moment(genPoly, n, r) = XorSum(g, n)
    BY DEF Moment
  <2>3. x = y \oplus (u \otimes z)
    <3>1. \A j \in 0..(n - 1) : w[j] \in Byte
      OBVIOUS
    <3> HIDE DEF n
    <3> QED
      BY <1>0, <1>2, <2>0, <3>1, ShiftMoment
  <2>4. Moment(genPoly, n, r) = z
    BY Generator
  <2>5. x \in Byte /\ y \in Byte /\ z \in Byte /\ u \in Byte
    <3>1. Moment(w, n, r) \in Byte /\ y \in Byte
      <4>1. \A j \in 0..(n - 1) : w[j] \in Byte
        OBVIOUS
      <4> HIDE DEF n
      <4> QED
        BY <1>0, <1>2, <2>0, <4>1, MomentType
    <3>2. Pow(r) \in Byte /\ z \in Byte
      BY <2>0, PowStep
    <3> QED
      BY <1>1, <3>1, <3>2, Closed
  <2> HIDE DEF f, g, s, t, x, y, z, u, n
  <2>6. XorSum(s, n) = XorSum(f, n) \oplus XorSum(t, n)
    BY <1>0, <2>1, SumAdd
  <2>7. XorSum(t, n) = b \otimes XorSum(g, n)
    BY <1>0, <1>1, <2>1, SumScale
  <2>8. Moment(v, n, r) = y \oplus (b \otimes z)
    BY <2>2, <2>4, <2>6, <2>7
  <2>9. b = m \oplus u
    BY DEF b, u
  <2>10. b \otimes z = (m \otimes z) \oplus (u \otimes z) /\ m \otimes z \in Byte /\ u \otimes z \in Byte
    BY <2>5, <2>9, Distribute, Closed
  <2> DEFINE p == m \otimes z
             q == u \otimes z
  <2>11. p \in Byte /\ q \in Byte /\ Moment(v, n, r) = y \oplus (p \oplus q) /\ x = y \oplus q
    BY <2>3, <2>8, <2>10
  <2> HIDE DEF p, q
  <2>12. y \oplus (p \oplus q) = (y \oplus q) \oplus p
    BY <2>5, <2>11, Add
  <2> QED
    BY <2>11, <2>12 DEF x, p, z
<1> QED
  BY <1>6, <1>7 DEF v

\* What encode_data leaves in the register.
LEMMA EncodeDef ==
  ASSUME NPAR < 255, NEW n \in Nat, NEW msg, \A i \in 0..(n - 1) : msg[i] \in Byte
  PROVE  \E k : Registers(k, n, msg) /\ encode_data(msg, n) = build_codeword(msg, n, k[n])
<1> DEFINE V == [0..(NPAR - 1) -> Byte]
           a == [j \in 0..(NPAR - 1) |-> 0]
           F == [i \in 1..n |-> [w \in V |-> RegisterStep(msg[i - 1], w)]]
           Body(k, i) ==
             IF i = 0 THEN [j \in 0 .. NPAR - 1 |-> 0]
             ELSE LET last  == k[i - 1]
                      dbyte == Xor[msg[i - 1]][last[NPAR - 1]]
                  IN  [j \in 0 .. NPAR - 1 |->
                         Xor[IF j = 0 THEN 0 ELSE last[j - 1]][gmult[genPoly[j]][dbyte]]]
           K == CHOOSE k : k = [i \in 0..n |-> Body(k, i)]
<1>1. encode_data(msg, n) = build_codeword(msg, n, K[n])
  BY DEF encode_data
<1>2. F \in [1..n -> [V -> V]]
  <2>1. \A i \in 1..n : msg[i - 1] \in Byte
    <3>1. \A i \in 1..n : i - 1 \in 0..(n - 1)
      OBVIOUS
    <3> QED
      BY <3>1
  <2>2. \A i \in 1..n : \A w \in V : RegisterStep(msg[i - 1], w) \in V
    BY <2>1, RegisterNext
  <2> HIDE DEF V
  <2> QED
    BY <2>2
<1>3. a \in V
  BY ZeroByte
<1>4. ASSUME NEW g, NEW i \in 1..n, g[i - 1] \in V PROVE Body(g, i) = F[i][g[i - 1]]
  <2>0. i # 0
    OBVIOUS
  <2>1. Body(g, i) = RegisterStep(msg[i - 1], g[i - 1])
    BY <2>0, Zenon DEF RegisterStep
  <2> HIDE DEF V, Body
  <2> QED
    BY <1>4, <2>1
<1>5. \A g : Body(g, 0) = a
  OBVIOUS
<1> HIDE DEF F, Body, V, a
<1>6. PICK k : Solves(k, n, V, a, F)
  BY <1>2, <1>3, Recursion
<1>7. \A i \in 0..n : k[i] = Body(k, i)
  <2> SUFFICES ASSUME NEW i \in 0..n, i # 0 PROVE k[i] = Body(k, i)
    BY <1>5, <1>6 DEF Solves
  <2>1. i \in 1..n /\ k[i - 1] \in V
    BY <1>6 DEF Solves
  <2> QED
    BY <1>4, <1>6, <2>1 DEF Solves
<1>8. k = [i \in 0..n |-> Body(k, i)]
  BY <1>6, <1>7 DEF Solves
<1>9. K = [i \in 0..n |-> Body(K, i)]
  BY <1>8
<1> HIDE DEF K
<1>10. K[0] = a /\ K = [i \in 0..n |-> K[i]]
  BY <1>5, <1>9
<1>11. \A i \in 1..n : K[i - 1] \in V => K[i] = F[i][K[i - 1]]
  BY <1>4, <1>9
<1>12. Solves(K, n, V, a, F)
  BY <1>2, <1>3, <1>10, <1>11, RecursionType
<1>13. ASSUME NEW i \in 1..n PROVE K[i] = RegisterStep(msg[i - 1], K[i - 1])
  <2>1. K[i - 1] \in V /\ K[i] = F[i][K[i - 1]]
    BY <1>12 DEF Solves
  <2> QED
    BY <2>1 DEF F
<1>14. Registers(K, n, msg)
  BY <1>12, <1>13 DEF Solves, Registers, V, a
<1> QED
  BY <1>1, <1>14

\* The moments of the register are those of the message, moved up by the parity.
LEMMA RegisterMoment ==
  ASSUME NPAR < 255, NEW n \in Nat, NEW msg, \A i \in 0..(n - 1) : msg[i] \in Byte,
         NEW k, Registers(k, n, msg), NEW r \in 1..NPAR
  PROVE  Moment(k[n], NPAR, r) = Pow(NPAR * r) \otimes Moment(Reverse(msg, n), n, r)
<1> DEFINE a == Pow(r)
           z == Pow(NPAR * r)
           v == HornerOf(n, msg, a)
           P == {i \in Nat : i <= n => Moment(k[i], NPAR, r) = z \otimes v[i]}
<1>0. NPAR \in Nat \ {0} /\ r \in Nat /\ NPAR * r \in Nat
  BY NparAssumption
<1>1. a \in Byte /\ z \in Byte
  BY <1>0, PowStep
<1>2. Horner(v, n, msg, a)
  BY <1>1, HornerDef
<1> HIDE DEF v, z
<1>3. 0 \in P
  <2> DEFINE f == [q \in 0..(NPAR - 1) |-> k[0][q] \otimes Pow(q * r)]
  <2>1. v[0] = 0
    BY <1>2 DEF Horner
  <2>2. ASSUME NEW q \in 0..(NPAR - 1) PROVE f[q] = 0
    <3>1. k[0][q] = 0 /\ q * r \in Nat
      BY <1>0 DEF Registers
    <3>2. Pow(q * r) \in Byte
      BY <3>1, PowStep
    <3> QED
      BY <3>1, <3>2, Units
  <2>3. Moment(k[0], NPAR, r) = XorSum(f, NPAR)
    BY DEF Moment
  <2> HIDE DEF f
  <2>4. XorSum(f, NPAR) = 0
    BY <1>0, <2>2, SumOfZeros
  <2> QED
    BY <1>1, <2>1, <2>3, <2>4, Units
<1>4. ASSUME NEW i \in Nat, i \in P PROVE i + 1 \in P
  <2> SUFFICES ASSUME i + 1 <= n PROVE Moment(k[i + 1], NPAR, r) = z \otimes v[i + 1]
    OBVIOUS
  <2> DEFINE m == msg[i]
             w == k[i]
             y == v[i]
  <2>1. Moment(w, NPAR, r) = z \otimes y /\ i + 1 \in 1..n /\ (i + 1) - 1 = i /\ i \in 0..n
        /\ i \in 0..(n - 1)
    BY <1>4
  <2>2. m \in Byte /\ w \in [0..(NPAR - 1) -> Byte] /\ k[i + 1] = RegisterStep(m, w)
    BY <2>1 DEF Registers
  <2>3. y \in Byte /\ v[i + 1] = m \oplus (a \otimes y)
    BY <1>2, <2>1 DEF Horner, \oplus, \otimes
  <2> HIDE DEF m, w, y, a
  <2>4. Moment(k[i + 1], NPAR, r) = (a \otimes Moment(w, NPAR, r)) \oplus (m \otimes z)
    BY <2>2, RegisterNext DEF a, z
  <2>5. a \otimes (z \otimes y) = z \otimes (a \otimes y) /\ m \otimes z = z \otimes m /\ a \otimes y \in Byte
        /\ m \otimes z \in Byte /\ z \otimes (a \otimes y) \in Byte
    <3>1. a \otimes y \in Byte /\ m \otimes z = z \otimes m /\ m \otimes z \in Byte
      BY <1>1, <2>2, <2>3, Closed
    <3> QED
      BY <1>1, <2>3, <3>1, Regroup, Closed
  <2>6. z \otimes (m \oplus (a \otimes y)) = (z \otimes m) \oplus (z \otimes (a \otimes y))
    BY <1>1, <2>2, <2>5, Distribute
  <2>7. (z \otimes (a \otimes y)) \oplus (m \otimes z) = (m \otimes z) \oplus (z \otimes (a \otimes y))
    BY <2>5, Closed
  <2> QED
    BY <2>1, <2>3, <2>4, <2>5, <2>6, <2>7
<1> HIDE DEF P
<1>5. n \in P
  BY <1>3, <1>4, NumbersFromZero
<1>6. v[n] = Moment(Reverse(msg, n), n, r)
  BY <1>0, HornerMoment DEF v
<1> QED
  BY <1>5, <1>6 DEF P, z

\* The message with its parity has no syndromes: what was encoded is taken for
\* undamaged.
THEOREM CodewordsPass ==
  ASSUME NPAR < 255, NEW n \in Nat, NEW msg, \A i \in 0..(n - 1) : msg[i] \in Byte
  PROVE  /\ \A i \in 0..(n + NPAR - 1) : encode_data(msg, n)[i] \in Byte
         /\ \A i \in 0..(n - 1) : encode_data(msg, n)[i] = msg[i]
         /\ ~check_syndrome(synBytes(encode_data(msg, n), n + NPAR))
<1> DEFINE l == n + NPAR
<1>0. NPAR \in Nat \ {0} /\ l \in Nat /\ l = NPAR + n /\ n + NPAR - 1 = l - 1
  BY NparAssumption
<1>1. PICK k : Registers(k, n, msg) /\ encode_data(msg, n) = build_codeword(msg, n, k[n])
  BY EncodeDef
<1> DEFINE p == k[n]
           w == encode_data(msg, n)
<1>2. p \in [0..(NPAR - 1) -> Byte]
  <2>1. n \in 0..n
    OBVIOUS
  <2> QED
    BY <1>1, <2>1 DEF Registers
<1>3. w = [i \in 0..(l - 1) |-> IF i < n THEN msg[i] ELSE p[NPAR - 1 - (i - n)]]
  <2>1. w = build_codeword(msg, n, p)
    BY <1>1
  <2> HIDE DEF w, p
  <2>2. build_codeword(msg, n, p)
          = [i \in 0..(n + NPAR - 1) |-> IF i < n THEN msg[i] ELSE p[NPAR - 1 - (i - n)]]
    BY Zenon DEF build_codeword
  <2> HIDE DEF l
  <2> QED
    BY <1>0, <2>1, <2>2
<1> HIDE DEF w, p
<1>4. \A i \in 0..(n - 1) : w[i] = msg[i] /\ i \in 0..(l - 1)
  <2>1. \A i \in 0..(n - 1) : i \in 0..(l - 1) /\ i < n
    BY <1>0
  <2> QED
    BY <1>3, <2>1
<1>5. ASSUME NEW q \in 0..(NPAR - 1) PROVE w[l - 1 - q] = p[q] /\ l - 1 - q \in 0..(l - 1)
  <2>1. l - 1 - q \in 0..(l - 1) /\ ~(l - 1 - q < n) /\ NPAR - 1 - ((l - 1 - q) - n) = q
    BY <1>0
  <2> HIDE DEF l
  <2> QED
    BY <1>3, <2>1
<1>6. ASSUME NEW i \in 0..(l - 1) PROVE w[i] \in Byte
  <2>1. CASE i < n
    <3>1. i \in 0..(n - 1)
      BY <1>0, <2>1
    <3> QED
      BY <1>4, <3>1
  <2>2. CASE ~(i < n)
    <3>1. l - 1 - i \in 0..(NPAR - 1) /\ l - 1 - (l - 1 - i) = i
      BY <1>0, <2>2
    <3> HIDE DEF l
    <3>2. w[l - 1 - (l - 1 - i)] = p[l - 1 - i]
      BY <1>5, <3>1
    <3> QED
      BY <1>2, <3>1, <3>2
  <2> QED
    BY <2>1, <2>2
<1>7. ASSUME NEW r \in 1..NPAR PROVE Moment(Reverse(w, l), l, r) = 0
  <2> DEFINE c == Reverse(w, l)
             b == Reverse(msg, n)
             z == Pow(NPAR * r)
             f == [q \in 0..(l - 1) |-> c[q] \otimes Pow(q * r)]
             g == [q \in 0..(n - 1) |-> f[NPAR + q]]
             h == [q \in 0..(n - 1) |-> b[q] \otimes Pow(q * r)]
             s == [q \in 0..(NPAR - 1) |-> p[q] \otimes Pow(q * r)]
  <2>0. r \in Nat /\ NPAR * r \in Nat
    BY <1>0
  <2>1. z \in Byte
    BY <2>0, PowStep
  <2>2. \A q \in 0..(l - 1) : c[q] = w[l - 1 - q]
    BY DEF Reverse
  <2>3. ASSUME NEW q \in 0..(l - 1) PROVE c[q] \in Byte
    <3>1. l - 1 - q \in 0..(l - 1)
      BY <1>0
    <3> HIDE DEF l, c
    <3> QED
      BY <1>6, <2>2, <3>1
  <2>4. \A q \in 0..(n - 1) : b[q] = msg[n - 1 - q] /\ n - 1 - q \in 0..(n - 1)
    BY DEF Reverse
  <2>5. ASSUME NEW q \in 0..(n - 1) PROVE c[NPAR + q] = b[q] /\ b[q] \in Byte /\ NPAR + q \in 0..(l - 1)
    <3>1. NPAR + q \in 0..(l - 1) /\ l - 1 - (NPAR + q) = n - 1 - q
      BY <1>0
    <3> HIDE DEF l, b, c
    <3>2. c[NPAR + q] = w[n - 1 - q]
      BY <2>2, <3>1
    <3>3. b[q] = msg[n - 1 - q] /\ n - 1 - q \in 0..(n - 1)
      BY <2>4
    <3>4. w[n - 1 - q] = msg[n - 1 - q] /\ w[n - 1 - q] \in Byte
      BY <1>4, <3>3
    <3> QED
      BY <3>1, <3>2, <3>3, <3>4
  <2>6. ASSUME NEW q \in 0..(NPAR - 1) PROVE c[q] = p[q] /\ q \in 0..(l - 1) /\ q \in Nat
    <3>1. q \in 0..(l - 1)
      BY <1>0
    <3> HIDE DEF l, c
    <3> QED
      BY <1>5, <2>2, <3>1
  <2> HIDE DEF b, c
  <2>7. \A q \in 0..(l - 1) : f[q] = c[q] \otimes Pow(q * r) /\ f[q] \in Byte
    <3> SUFFICES ASSUME NEW q \in 0..(l - 1) PROVE f[q] = c[q] \otimes Pow(q * r) /\ f[q] \in Byte
      OBVIOUS
    <3>1. q \in Nat /\ c[q] \in Byte
      BY <1>0, <2>3
    <3> QED
      BY <2>0, <3>1, TermType
  <2>8. Moment(c, l, r) = XorSum(f, l) /\ Moment(p, NPAR, r) = XorSum(s, NPAR)
        /\ Moment(b, n, r) = XorSum(h, n)
    BY DEF Moment
  <2>9. ASSUME NEW q \in 0..(n - 1) PROVE h[q] \in Byte /\ g[q] = z \otimes h[q]
    <3>1. q \in Nat /\ q * r \in Nat /\ (NPAR + q) * r = NPAR * r + q * r
      BY <1>0
    <3> DEFINE x == Pow(q * r)
               y == b[q]
    <3>2. x \in Byte /\ Pow((NPAR + q) * r) = z \otimes x /\ y \in Byte
      BY <2>0, <2>5, <3>1, PowSum
    <3>3. h[q] = y \otimes x /\ g[q] = y \otimes (z \otimes x)
      <4>1. g[q] = f[NPAR + q] /\ h[q] = y \otimes x
        OBVIOUS
      <4>2. f[NPAR + q] = c[NPAR + q] \otimes Pow((NPAR + q) * r)
        BY <2>5, <2>7
      <4> HIDE DEF f, g, h, x, z
      <4> QED
        BY <2>5, <3>2, <4>1, <4>2
    <3> HIDE DEF f, g, h, x, y, z
    <3> QED
      BY <2>1, <3>2, <3>3, Regroup, Closed
  <2>10. ASSUME NEW q \in 0..(NPAR - 1) PROVE s[q] = f[q] /\ f[q] \in Byte
    <3>1. s[q] = p[q] \otimes Pow(q * r) /\ c[q] = p[q] /\ f[q] = c[q] \otimes Pow(q * r) /\ f[q] \in Byte
      BY <2>6, <2>7
    <3> HIDE DEF s, f
    <3> QED
      BY <3>1
  <2>11. \A q \in 0..(n - 1) : g[q] = f[NPAR + q]
    OBVIOUS
  <2> HIDE DEF f, g, h, s
  <2>12. XorSum(f, NPAR + n) = XorSum(f, NPAR) \oplus XorSum(g, n)
    <3>1. \A q \in 0..(NPAR + n - 1) : f[q] \in Byte
      BY <1>0, <2>7
    <3>2. NPAR \in Nat
      BY <1>0
    <3> HIDE DEF l
    <3> QED
      BY <2>11, <3>1, <3>2, SumSplit
  <2>13. XorSum(s, NPAR) = XorSum(f, NPAR)
    BY <1>0, <2>10, SumEqual
  <2>14. XorSum(g, n) = z \otimes XorSum(h, n)
    BY <2>1, <2>9, SumScale
  <2>15. Moment(p, NPAR, r) = z \otimes Moment(b, n, r)
    BY <1>1, RegisterMoment DEF p, b
  <2>16. XorSum(f, NPAR) \in Byte
    BY <1>0, <2>10, SumType
  <2> QED
    BY <1>0, <2>8, <2>12, <2>13, <2>14, <2>15, <2>16, Units DEF c
<1>8. ASSUME NEW j \in Degrees PROVE synBytes(w, l)[j] = 0
  <2>1. CASE j >= NPAR
    BY <2>1, SyndromesDef
  <2>2. CASE ~(j >= NPAR)
    <3>1. j \in 0..(NPAR - 1) /\ j + 1 \in 1..NPAR
      BY <1>0, <2>2 DEF Degrees, MAXDEG
    <3>2. synBytes(w, l)[j] = Moment(Reverse(w, l), l, j + 1)
      <4> HIDE DEF l
      <4> QED
        BY <1>0, <1>6, <3>1, SyndromeMoment
    <3> QED
      BY <1>7, <3>1, <3>2
  <2> QED
    BY <2>1, <2>2
<1>9. ~check_syndrome(synBytes(w, l))
  <2> HIDE DEF l
  <2> QED
    BY <1>8 DEF check_syndrome
<1>10. (\A i \in 0..(l - 1) : w[i] \in Byte) /\ \A i \in 0..(n - 1) : w[i] = msg[i]
  BY <1>4, <1>6
<1>11. l = n + NPAR
  OBVIOUS
<1> HIDE DEF l
<1> QED
  BY <1>0, <1>9, <1>10, <1>11 DEF w

-----------------------------------------------------------------------------
(***************************************************************************)
(* The decoder.  Let c be the wrong bytes of a word, the last first, and S *)
(* its syndromes, which are the moments of c.                              *)
(***************************************************************************)

\* The errors a polynomial p of degree d leaves: each times its value at the
\* inverse of the error's place.
Rest(c, n, p, d) ==
  [q \in 0..(n - 1) |-> c[q] \otimes (Pow(q) \otimes Moment(p, d + 1, 255 - q))]

\* The coefficient m of the product of p with the syndromes is a moment of the rest.
Transfers(c, n, p, d, S, m) ==
  XorSum([i \in 0..d |-> p[i] \otimes S[m - i]], d + 1) = Moment(Rest(c, n, p, d), n, m)

\* It is so where the syndromes are moments of c.
LEMMA Transfer ==
  ASSUME NEW n \in 0..255, NEW c, \A q \in 0..(n - 1) : c[q] \in Byte,
         NEW d \in Nat, NEW p, \A i \in 0..d : p[i] \in Byte,
         NEW m \in Nat, d <= m, NEW S,
         \A j \in 0..m : S[j] = Moment(c, n, j + 1)
  PROVE  Transfers(c, n, p, d, S, m)
<1> DEFINE l == d + 1
           rows == [i \in 0..d |-> p[i] \otimes S[m - i]]
           g == Rest(c, n, p, d)
           cols == [q \in 0..(n - 1) |-> g[q] \otimes Pow(q * m)]
           U(i) == [q \in 0..(n - 1) |-> c[q] \otimes Pow(q * ((m - i) + 1))]
           T == [i \in 0..(l - 1) |-> [q \in 0..(n - 1) |-> p[i] \otimes U(i)[q]]]
           W(q) == [i \in 0..d |-> p[i] \otimes Pow(i * (255 - q))]
           b(q) == c[q] \otimes (Pow(q) \otimes Pow(q * m))
<1>0. l \in Nat /\ l - 1 = d /\ n \in Nat /\ \A q \in 0..(n - 1) : q \in Nat /\ 255 - q \in Nat
  OBVIOUS
<1>1. ASSUME NEW i \in 0..d, NEW q \in 0..(n - 1)
      PROVE  /\ U(i)[q] \in Byte /\ T[i][q] \in Byte /\ T[i][q] = p[i] \otimes U(i)[q]
             /\ b(q) \in Byte /\ W(q)[i] \in Byte /\ T[i][q] = b(q) \otimes W(q)[i]
  <2>1. i \in Nat /\ m - i \in Nat /\ (m - i) + 1 \in Nat /\ q \in Nat /\ 255 - q \in Nat
        /\ i \in 0..(l - 1)
    BY <1>0
  <2>2. q * ((m - i) + 1) \in Nat /\ i * (255 - q) \in Nat /\ q * m \in Nat /\ q + q * m \in Nat
    BY <2>1
  <2>3. (q + q * m) + i * (255 - q) = q * ((m - i) + 1) + 255 * i
    BY <2>1
  <2> DEFINE e == c[q]
             x == Pow(q * ((m - i) + 1))
             y == Pow(q)
             z == Pow(q * m)
             w == Pow(i * (255 - q))
             h == p[i]
  <2>4. Pow(q + q * m) = y \otimes z
    BY <2>1, <2>2, PowSum
  <2>5. Pow((q + q * m) + i * (255 - q)) = Pow(q + q * m) \otimes w
    <3> DEFINE u == q + q * m
               t == i * (255 - q)
    <3>1. u \in Nat /\ t \in Nat
      BY <2>2
    <3> HIDE DEF u, t
    <3>2. Pow(u + t) = Pow(u) \otimes Pow(t)
      BY <3>1, PowSum
    <3> QED
      BY <3>2 DEF u, t
  <2>6. Pow(q * ((m - i) + 1) + 255 * i) = x
    <3> DEFINE u == q * ((m - i) + 1)
    <3>1. u \in Nat /\ i \in Nat
      BY <2>1, <2>2
    <3> HIDE DEF u
    <3>2. Pow(u + 255 * i) = Pow(u)
      BY <3>1, PowTurn
    <3> QED
      BY <3>2 DEF u
  <2>7. x = (y \otimes z) \otimes w
    BY <2>3, <2>4, <2>5, <2>6
  <2>8. e \in Byte /\ x \in Byte /\ y \in Byte /\ z \in Byte /\ w \in Byte /\ h \in Byte
    BY <2>1, <2>2, PowStep
  <2>9. U(i)[q] = e \otimes x /\ T[i][q] = h \otimes U(i)[q] /\ b(q) = e \otimes (y \otimes z)
        /\ W(q)[i] = h \otimes w
    BY <2>1
  <2> HIDE DEF e, x, y, z, w, h, U, T, b, W, l
  <2>10. y \otimes z \in Byte
    BY <2>8, Closed
  <2> DEFINE t == y \otimes z
  <2>11. t \in Byte /\ x = t \otimes w /\ b(q) = e \otimes t
    BY <2>7, <2>9, <2>10
  <2> HIDE DEF t
  <2>12. /\ e \otimes x \in Byte /\ e \otimes t \in Byte
         /\ h \otimes w \in Byte /\ h \otimes (e \otimes x) \in Byte
    <3>1. e \otimes x \in Byte /\ e \otimes t \in Byte /\ h \otimes w \in Byte
      BY <2>8, <2>11, Closed
    <3> QED
      BY <2>8, <3>1, Closed
  <2>13. h \otimes (e \otimes x) = (e \otimes t) \otimes (h \otimes w)
    <3>1. e \otimes (t \otimes w) = (e \otimes t) \otimes w
      BY <2>8, <2>11, Regroup
    <3>2. h \otimes ((e \otimes t) \otimes w) = (e \otimes t) \otimes (h \otimes w)
      BY <2>8, <2>12, Regroup
    <3> QED
      BY <2>11, <3>1, <3>2
  <2> QED
    BY <2>8, <2>9, <2>11, <2>12, <2>13 DEF h
<1>2. ASSUME NEW i \in 0..d PROVE rows[i] = XorSum(T[i], n)
  <2> DEFINE f == U(i)
             h == T[i]
             a == p[i]
  <2>1. m - i \in 0..m
    OBVIOUS
  <2>2. S[m - i] = XorSum(f, n)
    BY <2>1 DEF Moment
  <2>3. \A q \in 0..(n - 1) : f[q] \in Byte /\ h[q] = a \otimes f[q]
    BY <1>1
  <2>4. rows[i] = a \otimes S[m - i] /\ a \in Byte
    OBVIOUS
  <2> HIDE DEF f, h, a, rows, T
  <2>5. XorSum(h, n) = a \otimes XorSum(f, n)
    BY <1>0, <2>3, <2>4, SumScale
  <2> QED
    BY <2>2, <2>4, <2>5 DEF h
<1>3. ASSUME NEW q \in 0..(n - 1) PROVE cols[q] = XorSum([i \in 0..(l - 1) |-> T[i][q]], l)
  <2> DEFINE h == [i \in 0..(l - 1) |-> T[i][q]]
             f == W(q)
             a == b(q)
             e == c[q]
             y == Pow(q)
             z == Pow(q * m)
             s == XorSum(f, l)
  <2>1. q * m \in Nat /\ q \in Nat
    BY <1>0
  <2>2. e \in Byte /\ y \in Byte /\ z \in Byte
    BY <2>1, PowStep
  <2>3. Moment(p, l, 255 - q) = s
    BY <1>0 DEF Moment
  <2>4. cols[q] = (e \otimes (y \otimes s)) \otimes z /\ a = e \otimes (y \otimes z)
    BY <2>3 DEF Rest
  <2>5. \A i \in 0..(l - 1) : f[i] \in Byte /\ h[i] = a \otimes f[i] /\ a \in Byte
    <3> SUFFICES ASSUME NEW i \in 0..(l - 1)
                 PROVE  f[i] \in Byte /\ h[i] = a \otimes f[i] /\ a \in Byte
      OBVIOUS
    <3>1. i \in 0..d /\ h[i] = T[i][q]
      BY <1>0
    <3> HIDE DEF h, T, f, a, W, b
    <3> QED
      BY <1>1, <3>1 DEF f, a
  <2>6. a \in Byte
    <3>1. 0 \in 0..(l - 1)
      BY <1>0
    <3> HIDE DEF h, T, f, a, W, b
    <3> QED
      BY <2>5, <3>1
  <2> HIDE DEF h, f, a, e, y, z, T, W, b, cols, l
  <2>7. XorSum(h, l) = a \otimes s /\ s \in Byte
    BY <1>0, <2>5, <2>6, SumScale, SumType
  <2> HIDE DEF s
  <2>8. (e \otimes (y \otimes s)) \otimes z = (e \otimes (y \otimes z)) \otimes s
    <3>1. y \otimes s \in Byte /\ y \otimes z \in Byte /\ s \otimes z = z \otimes s
      BY <2>2, <2>7, Closed
    <3>2. (e \otimes (y \otimes s)) \otimes z = e \otimes ((y \otimes s) \otimes z)
      BY <2>2, <3>1, Regroup
    <3>3. (y \otimes s) \otimes z = y \otimes (s \otimes z)
      BY <2>2, <2>7, Regroup
    <3>4. y \otimes (z \otimes s) = (y \otimes z) \otimes s
      BY <2>2, <2>7, Regroup
    <3>5. e \otimes ((y \otimes z) \otimes s) = (e \otimes (y \otimes z)) \otimes s
      BY <2>2, <2>7, <3>1, Regroup
    <3> QED
      BY <3>1, <3>2, <3>3, <3>4, <3>5
  <2> QED
    BY <2>4, <2>7, <2>8 DEF h
<1>4. Moment(g, n, m) = XorSum(cols, n)
  BY DEF Moment
<1>5. \A i \in 0..(l - 1), q \in 0..(n - 1) : T[i][q] \in Byte
  BY <1>0, <1>1
<1>6. \A i \in 0..(l - 1) : rows[i] = XorSum([q \in 0..(n - 1) |-> T[i][q]], n)
  <2> SUFFICES ASSUME NEW i \in 0..(l - 1)
               PROVE  rows[i] = XorSum([q \in 0..(n - 1) |-> T[i][q]], n)
    OBVIOUS
  <2>1. T[i] = [q \in 0..(n - 1) |-> T[i][q]] /\ i \in 0..d
    BY <1>0
  <2> HIDE DEF T, rows, U
  <2> QED
    BY <1>2, <2>1
<1> HIDE DEF T, rows, cols, U, W, b, l, g
<1>7. XorSum(rows, l) = XorSum(cols, n)
  <2>1. l \in Nat /\ n \in Nat
    BY <1>0
  <2>2. \A q \in 0..(n - 1) : cols[q] = XorSum([i \in 0..(l - 1) |-> T[i][q]], l)
    BY <1>3
  <2>3. Table(T, l, n, rows, cols)
    BY <1>5, <1>6, <2>2 DEF Table
  <2> QED
    BY <2>1, <2>3, SumSwap
<1> QED
  BY <1>4, <1>7 DEF rows, l, g, Transfers

\* The coefficient m of the product of p and S.
Conv(p, S, m) == XorSum([i \in 0..m |-> p[i] \otimes S[m - i]], m + 1)

\* Sums, multiples and shifts of polynomials are polynomials, ...
LEMMA PolyTypes ==
  ASSUME NEW p \in Poly, NEW q \in Poly, NEW d \in Byte
  PROVE  /\ add_polys(p, q) \in Poly /\ \A i \in Degrees : add_polys(p, q)[i] = p[i] \oplus q[i]
         /\ scale_poly(d, p) \in Poly /\ \A i \in Degrees : scale_poly(d, p)[i] = d \otimes p[i]
         /\ mul_z_poly(p) \in Poly /\ mul_z_poly(p)[0] = 0
         /\ \A i \in Degrees \ {0} : mul_z_poly(p)[i] = p[i - 1] /\ i - 1 \in Degrees
<1>0. MAXDEG \in Nat \ {0} /\ Degrees = 0..(MAXDEG - 1)
  BY NparAssumption DEF MAXDEG, Degrees
<1>1. (\A i \in Degrees \ {0} : i - 1 \in Degrees) /\ 0 \in Degrees
  BY <1>0
<1>2. \A i \in Degrees : p[i] \in Byte /\ q[i] \in Byte
  BY DEF Poly
<1>3. \A i \in Degrees : p[i] \oplus q[i] \in Byte /\ d \otimes p[i] \in Byte
  BY <1>2, Closed
<1>4. add_polys(p, q) = [i \in Degrees |-> p[i] \oplus q[i]]
  BY DEF add_polys, \oplus
<1>5. scale_poly(d, p) = [i \in Degrees |-> d \otimes p[i]]
  BY DEF scale_poly, \otimes
<1>6. mul_z_poly(p) = [i \in Degrees |-> IF i = 0 THEN 0 ELSE p[i - 1]]
  BY DEF mul_z_poly
<1>7. \A i \in Degrees : (IF i = 0 THEN 0 ELSE p[i - 1]) \in Byte
  BY <1>1, <1>2, ZeroByte
<1>8. add_polys(p, q) \in Poly /\ \A i \in Degrees : add_polys(p, q)[i] = p[i] \oplus q[i]
  BY <1>3, <1>4 DEF Poly
<1>9. scale_poly(d, p) \in Poly /\ \A i \in Degrees : scale_poly(d, p)[i] = d \otimes p[i]
  BY <1>3, <1>5 DEF Poly
<1>10. mul_z_poly(p) \in Poly
  BY <1>6, <1>7 DEF Poly
<1>11. mul_z_poly(p)[0] = 0 /\ \A i \in Degrees \ {0} : mul_z_poly(p)[i] = p[i - 1] /\ i - 1 \in Degrees
  BY <1>1, <1>6
<1> QED
  BY <1>8, <1>9, <1>10, <1>11

\* ... and the coefficients of products with them are ...
LEMMA ConvType ==
  ASSUME NEW p \in Poly, NEW S \in Poly, NEW m \in Degrees
  PROVE  /\ m \in Nat
         /\ \A i \in 0..m : i \in Degrees /\ m - i \in Degrees /\ p[i] \in Byte /\ S[m - i] \in Byte
                            /\ p[i] \otimes S[m - i] \in Byte
         /\ Conv(p, S, m) \in Byte
<1>0. m \in Nat /\ m + 1 \in Nat /\ (m + 1) - 1 = m /\ \A i \in 0..m : i \in Degrees /\ m - i \in Degrees
  BY NparAssumption DEF Degrees, MAXDEG
<1>1. \A i \in 0..m : p[i] \in Byte /\ S[m - i] \in Byte
  BY <1>0 DEF Poly
<1>2. \A i \in 0..m : p[i] \otimes S[m - i] \in Byte
  BY <1>1, Closed
<1> DEFINE f == [i \in 0..m |-> p[i] \otimes S[m - i]]
           l == m + 1
<1>3. \A i \in 0..(l - 1) : f[i] \in Byte
  BY <1>0, <1>2
<1>4. l \in Nat /\ Conv(p, S, m) = XorSum(f, l)
  BY <1>0 DEF Conv
<1> HIDE DEF f, l
<1>5. XorSum(f, l) \in Byte
  BY <1>3, <1>4, SumType
<1> QED
  BY <1>0, <1>1, <1>2, <1>4, <1>5

\* ... multiples, ...
LEMMA ConvScale ==
  ASSUME NEW q \in Poly, NEW S \in Poly, NEW m \in Degrees, NEW d \in Byte
  PROVE  Conv(scale_poly(d, q), S, m) = d \otimes Conv(q, S, m)
<1> DEFINE p == scale_poly(d, q)
           f == [i \in 0..m |-> q[i] \otimes S[m - i]]
           g == [i \in 0..m |-> p[i] \otimes S[m - i]]
           l == m + 1
<1>0. l \in Nat /\ l - 1 = m
  BY ConvType
<1>1. ASSUME NEW i \in 0..m PROVE f[i] \in Byte /\ g[i] = d \otimes f[i]
  <2>1. i \in Degrees /\ q[i] \in Byte /\ S[m - i] \in Byte /\ q[i] \otimes S[m - i] \in Byte
    BY ConvType
  <2>2. p[i] = d \otimes q[i]
    BY <2>1, PolyTypes
  <2> DEFINE x == q[i]
             y == S[m - i]
  <2>3. f[i] = x \otimes y /\ g[i] = (d \otimes x) \otimes y /\ x \in Byte /\ y \in Byte
    BY <2>1, <2>2
  <2> HIDE DEF x, y, f, g, p
  <2> QED
    BY <2>3, Regroup, Closed
<1>2. Conv(p, S, m) = XorSum(g, l) /\ Conv(q, S, m) = XorSum(f, l)
  BY DEF Conv
<1>3. \A i \in 0..(l - 1) : f[i] \in Byte /\ g[i] = d \otimes f[i]
  BY <1>0, <1>1
<1> HIDE DEF f, g, l, p
<1>4. XorSum(g, l) = d \otimes XorSum(f, l)
  BY <1>0, <1>3, SumScale
<1> QED
  BY <1>2, <1>4 DEF p

\* ... sums, ...
LEMMA ConvAdd ==
  ASSUME NEW p \in Poly, NEW q \in Poly, NEW S \in Poly, NEW m \in Degrees
  PROVE  Conv(add_polys(p, q), S, m) = Conv(p, S, m) \oplus Conv(q, S, m)
<1> DEFINE u == add_polys(p, q)
           f == [i \in 0..m |-> p[i] \otimes S[m - i]]
           g == [i \in 0..m |-> q[i] \otimes S[m - i]]
           h == [i \in 0..m |-> u[i] \otimes S[m - i]]
           l == m + 1
<1>0. l \in Nat /\ l - 1 = m
  BY ConvType
<1>1. ASSUME NEW i \in 0..m PROVE f[i] \in Byte /\ g[i] \in Byte /\ h[i] = f[i] \oplus g[i]
  <2>1. i \in Degrees /\ q[i] \in Byte /\ p[i] \in Byte /\ S[m - i] \in Byte
    BY ConvType
  <2>2. u[i] = p[i] \oplus q[i]
    BY <2>1, PolyTypes, ZeroByte
  <2> DEFINE x == p[i]
             y == q[i]
             z == S[m - i]
  <2>3. f[i] = x \otimes z /\ g[i] = y \otimes z /\ h[i] = (x \oplus y) \otimes z
        /\ x \in Byte /\ y \in Byte /\ z \in Byte
    BY <2>1, <2>2
  <2> HIDE DEF x, y, z, f, g, h, u
  <2> QED
    BY <2>3, Distribute, Closed
<1>2. Conv(p, S, m) = XorSum(f, l) /\ Conv(q, S, m) = XorSum(g, l) /\ Conv(u, S, m) = XorSum(h, l)
  BY DEF Conv
<1>3. \A i \in 0..(l - 1) : f[i] \in Byte /\ g[i] \in Byte /\ h[i] = f[i] \oplus g[i]
  BY <1>0, <1>1
<1> HIDE DEF f, g, h, l, u
<1>4. XorSum(h, l) = XorSum(f, l) \oplus XorSum(g, l)
  BY <1>0, <1>3, SumAdd
<1> QED
  BY <1>2, <1>4 DEF u

\* ... or move up by one.
LEMMA ConvShift ==
  ASSUME NEW p \in Poly, NEW S \in Poly, NEW m \in Nat, m + 1 \in Degrees
  PROVE  Conv(mul_z_poly(p), S, m + 1) = Conv(p, S, m)
<1> DEFINE u == mul_z_poly(p)
           k == m + 1
           f == [i \in 0..k |-> u[i] \otimes S[k - i]]
           g == [i \in 0..m |-> p[i] \otimes S[m - i]]
<1>0. k \in Nat /\ k - 1 = m /\ k + 1 = 1 + k /\ m \in Degrees /\ k \in Degrees
  BY NparAssumption DEF Degrees, MAXDEG
<1>1. u \in Poly /\ u[0] = 0 /\ \A i \in Degrees \ {0} : u[i] = p[i - 1]
  BY PolyTypes, ZeroByte
<1> HIDE DEF u
<1>2. Conv(u, S, k) = XorSum(f, k + 1) /\ Conv(p, S, m) = XorSum(g, k)
  BY DEF Conv
<1>3. \A i \in 0..k : i \in Degrees /\ S[k - i] \in Byte /\ f[i] = u[i] \otimes S[k - i]
      /\ f[i] \in Byte
  <2> HIDE DEF k
  <2> QED
    BY <1>0, <1>1, ConvType
<1>4. f[0] = 0
  <2>1. 0 \in 0..k
    BY <1>0
  <2> HIDE DEF f, k
  <2>2. f[0] = 0 \otimes S[k - 0] /\ S[k - 0] \in Byte
    BY <1>1, <1>3, <2>1
  <2> QED
    BY <2>2, Units
<1>5. ASSUME NEW i \in 0..(k - 1) PROVE g[i] = f[1 + i]
  <2>1. 1 + i \in 0..k /\ (1 + i) - 1 = i /\ k - (1 + i) = m - i /\ 1 + i # 0 /\ i \in 0..m
    BY <1>0
  <2>2. g[i] = p[i] \otimes S[m - i]
    BY <2>1
  <2> HIDE DEF f, g, k
  <2>3. 1 + i \in Degrees /\ f[1 + i] = u[1 + i] \otimes S[k - (1 + i)]
    BY <1>3, <2>1
  <2>4. u[1 + i] = p[i]
    BY <1>1, <2>1, <2>3
  <2> QED
    BY <2>1, <2>2, <2>3, <2>4
<1> HIDE DEF f, g, k
<1>6. XorSum(f, 1 + k) = XorSum(f, 1) \oplus XorSum(g, k)
  <2>1. 1 \in Nat /\ 1 + k - 1 = k
    BY <1>0
  <2>2. \A i \in 0..(1 + k - 1) : f[i] \in Byte
    BY <1>3, <2>1
  <2> QED
    BY <1>0, <1>5, <2>1, <2>2, SumSplit
<1>7. XorSum(f, 1) = 0
  <2>1. 1 \in Nat /\ \A i \in 0..(1 - 1) : f[i] = 0
    BY <1>4
  <2> QED
    BY <2>1, SumOfZeros
<1>8. XorSum(g, k) \in Byte
  BY <1>0, <1>2, ConvType
<1> QED
  BY <1>0, <1>2, <1>6, <1>7, <1>8, Units DEF u, k

\* The discrepancy is such a coefficient: the locator has no more than L degrees.
LEMMA Discrepancy ==
  ASSUME NEW p \in Poly, NEW S \in Poly, NEW n \in Degrees, NEW L \in 0..n,
         \A i \in Degrees : i > L => p[i] = 0
  PROVE  compute_discrepancy(p, S, L, n) = Conv(p, S, n)
<1> DEFINE f == [i \in 0..n |-> p[i] \otimes S[n - i]]
           g == [i \in 0..L |-> p[i] \otimes S[n - i]]
           l == L + 1
           m == n + 1
<1>0. n \in Nat /\ l \in Nat /\ m \in Nat /\ l <= m /\ l - 1 = L /\ m - 1 = n
      /\ \A i \in 0..L : i \in 0..n
  BY ConvType
<1>1. compute_discrepancy(p, S, L, n) = XorSum(g, l) /\ Conv(p, S, n) = XorSum(f, m)
  BY DEF compute_discrepancy, Conv, \otimes
<1>2. \A i \in 0..(m - 1) : f[i] \in Byte
  <2>1. \A i \in 0..n : p[i] \otimes S[n - i] \in Byte
    BY ConvType
  <2> QED
    BY <1>0, <2>1
<1>3. ASSUME NEW i \in l..(m - 1) PROVE f[i] = 0
  <2>1. i \in 0..n /\ i > L
    BY <1>0
  <2>2. i \in Degrees /\ S[n - i] \in Byte
    BY <2>1, ConvType
  <2>3. f[i] = 0 \otimes S[n - i]
    BY <2>1, <2>2
  <2> QED
    BY <2>2, <2>3, Units
<1>4. ASSUME NEW i \in 0..(l - 1) PROVE f[i] \in Byte /\ g[i] = f[i]
  <2>1. i \in 0..L /\ i \in 0..n /\ i \in 0..(m - 1)
    BY <1>0
  <2>2. g[i] = f[i]
    BY <2>1
  <2> HIDE DEF f, g
  <2> QED
    BY <1>2, <2>1, <2>2
<1> HIDE DEF f, g, l, m
<1>5. XorSum(f, m) = XorSum(f, l)
  BY <1>0, <1>2, <1>3, SumLonger
<1>6. XorSum(g, l) = XorSum(f, l)
  BY <1>0, <1>4, SumEqual
<1> QED
  BY <1>1, <1>5, <1>6

\* What holds before turn n: psi is a locator of L degrees for the first n
\* syndromes, and D what to add to it to change the next coefficient only.
Locates(psi, D, L, S, n) ==
  /\ psi \in Poly /\ D \in Poly /\ L \in 0..n
  /\ psi[0] = 1 /\ \A i \in Degrees : i > L => psi[i] = 0
  /\ D[0] = 0 /\ \A i \in Degrees : i > n - L + 1 => D[i] = 0
  /\ \A m \in L..(n - 1) : Conv(psi, S, m) = 0
  /\ \A m \in Nat : n - L + 1 <= m /\ m <= n => Conv(D, S, m) = IF m = n THEN 1 ELSE 0

\* The first locator is 1.
LEMMA FirstTurn ==
  ASSUME NEW S \in Poly
  PROVE  Locates(One, mul_z_poly(One), 0, S, 0)
<1>0. MAXDEG \in Nat \ {0} /\ Degrees = 0..(MAXDEG - 1)
  BY NparAssumption DEF MAXDEG, Degrees
<1>1. One \in Poly /\ One[0] = 1 /\ \A i \in Degrees : i > 0 => One[i] = 0
  BY <1>0, OneByte, ZeroByte DEF One, Poly
<1> DEFINE z == mul_z_poly(One)
<1>2. z \in Poly /\ z[0] = 0 /\ \A i \in Degrees \ {0} : z[i] = One[i - 1] /\ i - 1 \in Degrees
  BY <1>1, ZeroByte, PolyTypes
<1> HIDE DEF z
<1>3. \A i \in Degrees : i > 0 - 0 + 1 => z[i] = 0
  <2> SUFFICES ASSUME NEW i \in Degrees, i > 1 PROVE z[i] = 0
    OBVIOUS
  <2>1. i \in Degrees \ {0} /\ i - 1 > 0
    BY <1>0
  <2>2. i - 1 \in Degrees /\ z[i] = One[i - 1]
    BY <1>2, <2>1
  <2> QED
    BY <1>1, <2>1, <2>2
<1>4. 0 \in 0..0 /\ \A m \in Nat : ~(0 - 0 + 1 <= m /\ m <= 0)
  OBVIOUS
<1>5. \A m \in 0..(0 - 1) : Conv(One, S, m) = 0
  OBVIOUS
<1> QED
  BY <1>1, <1>2, <1>3, <1>4, <1>5 DEF Locates, z

\* The other polynomial moves up by one where the length stays, ...
Moves(D, E, L, S, n) ==
  /\ E \in Poly /\ E[0] = 0 /\ \A i \in Degrees : i > (n + 1) - L + 1 => E[i] = 0
  /\ \A m \in Nat : (n + 1) - L + 1 <= m /\ m <= n + 1 => Conv(E, S, m) = IF m = n + 1 THEN 1 ELSE 0

\* What it is for moves with it: the next coefficient.
LEMMA OtherMoves ==
  ASSUME NEW S \in Poly, NEW n \in 0..(NPAR - 1), NEW psi, NEW D, NEW L, Locates(psi, D, L, S, n)
  PROVE  Moves(D, mul_z_poly(D), L, S, n)
<1> DEFINE E == mul_z_poly(D)
<1>0. NPAR \in Nat \ {0} /\ MAXDEG \in Nat \ {0} /\ Degrees = 0..(MAXDEG - 1) /\ n + 1 \in Degrees
  BY NparAssumption DEF MAXDEG, Degrees
<1>1. D \in Poly /\ L \in 0..n
  BY DEF Locates
<1>2. E \in Poly /\ E[0] = 0 /\ \A i \in Degrees \ {0} : E[i] = D[i - 1] /\ i - 1 \in Degrees
  BY <1>1, ZeroByte, PolyTypes
<1>3. ASSUME NEW i \in Degrees, i > (n + 1) - L + 1 PROVE E[i] = 0
  <2>1. i \in Degrees \ {0} /\ i - 1 > n - L + 1
    BY <1>0, <1>1, <1>3
  <2>2. i - 1 \in Degrees /\ E[i] = D[i - 1]
    BY <1>2, <2>1
  <2> QED
    BY <2>1, <2>2 DEF Locates
<1>4. ASSUME NEW m \in Nat, (n + 1) - L + 1 <= m, m <= n + 1
      PROVE  Conv(E, S, m) = IF m = n + 1 THEN 1 ELSE 0
  <2> DEFINE j == m - 1
  <2>1. j \in Nat /\ n - L + 1 <= j /\ j <= n /\ (m = n + 1 <=> j = n) /\ m = j + 1 /\ j + 1 \in Degrees
    BY <1>0, <1>1, <1>4
  <2> HIDE DEF j, E
  <2>2. Conv(D, S, j) = IF j = n THEN 1 ELSE 0
    BY <2>1 DEF Locates
  <2>3. Conv(E, S, j + 1) = Conv(D, S, j)
    BY <1>1, <2>1, ConvShift DEF E
  <2> QED
    BY <2>1, <2>2, <2>3
<1> HIDE DEF E
<1>5. Moves(D, E, L, S, n)
  BY <1>2, <1>3, <1>4 DEF Moves
<1> QED
  BY <1>5 DEF E

\* ... and is all that changes without a discrepancy.
LEMMA TurnWithout ==
  ASSUME NEW S \in Poly, NEW n \in 0..(NPAR - 1), NEW psi, NEW D, NEW L, Locates(psi, D, L, S, n),
         Conv(psi, S, n) = 0
  PROVE  Locates(psi, mul_z_poly(D), L, S, n + 1)
<1>1. Moves(D, mul_z_poly(D), L, S, n)
  BY OtherMoves
<1>2. psi \in Poly /\ L \in 0..(n + 1) /\ L \in 0..n /\ psi[0] = 1 /\ \A i \in Degrees : i > L => psi[i] = 0
  BY NparAssumption DEF Locates
<1>3. ASSUME NEW m \in L..((n + 1) - 1) PROVE Conv(psi, S, m) = 0
  <2>1. m = n \/ m \in L..(n - 1)
    BY <1>2, NparAssumption
  <2> QED
    BY <2>1 DEF Locates
<1> QED
  BY <1>1, <1>2, <1>3 DEF Locates, Moves

\* A multiple of the other removes the discrepancy.
Removed(psi, q, L, S, n) ==
  /\ q \in Poly /\ q[0] = 1
  /\ \A i \in Degrees : i > L /\ i > n - L + 1 => q[i] = 0
  /\ \A m \in Nat : L <= m /\ n - L + 1 <= m /\ m <= n => Conv(q, S, m) = 0

\* So it does where d is the discrepancy, computed as in compute_discrepancy.
LEMMA Removes ==
  ASSUME NEW S \in Poly, NEW n \in 0..(NPAR - 1), NEW psi, NEW D, NEW L, Locates(psi, D, L, S, n),
         NEW d, d = Conv(psi, S, n)
  PROVE  /\ d \in Byte
         /\ Removed(psi, add_polys(psi, scale_poly(d, D)), L, S, n)
<1> DEFINE E == scale_poly(d, D)
           q == add_polys(psi, E)
<1>0. n \in Degrees /\ 0 \in Degrees /\ n \in Nat
      /\ \A m \in Nat : m <= n => m \in Degrees
  BY NparAssumption DEF MAXDEG, Degrees
<1>1. psi \in Poly /\ D \in Poly /\ L \in 0..n
  BY DEF Locates
<1>2. d \in Byte
  BY <1>0, <1>1, ConvType
<1>3. E \in Poly /\ \A i \in Degrees : E[i] = d \otimes D[i]
  BY <1>1, <1>2, PolyTypes
<1> HIDE DEF E
<1>4. q \in Poly /\ \A i \in Degrees : q[i] = psi[i] \oplus E[i]
  BY <1>1, <1>2, <1>3, PolyTypes
<1> HIDE DEF q
<1>5. q[0] = 1
  <2>1. psi[0] = 1 /\ D[0] = 0
    BY DEF Locates
  <2> QED
    BY <1>0, <1>2, <1>3, <1>4, <2>1, Units, OneByte
<1>6. ASSUME NEW i \in Degrees, i > L, i > n - L + 1 PROVE q[i] = 0
  <2>1. psi[i] = 0 /\ D[i] = 0
    BY <1>6 DEF Locates
  <2> QED
    BY <1>2, <1>3, <1>4, <2>1, Units, ZeroByte
<1>7. ASSUME NEW m \in Nat, L <= m, n - L + 1 <= m, m <= n PROVE Conv(q, S, m) = 0
  <2>1. m \in Degrees
    BY <1>0, <1>7
  <2>2. Conv(q, S, m) = Conv(psi, S, m) \oplus (d \otimes Conv(D, S, m))
    <3>1. Conv(q, S, m) = Conv(psi, S, m) \oplus Conv(E, S, m)
      BY <1>1, <1>3, <2>1, ConvAdd DEF q
    <3>2. Conv(E, S, m) = d \otimes Conv(D, S, m)
      BY <1>1, <1>2, <2>1, ConvScale DEF E
    <3> QED
      BY <3>1, <3>2
  <2>3. Conv(D, S, m) = IF m = n THEN 1 ELSE 0
    BY <1>7 DEF Locates
  <2>4. CASE m = n
    <3>1. Conv(q, S, m) = d \oplus (d \otimes 1)
      BY <2>2, <2>3, <2>4
    <3> QED
      BY <1>2, <3>1, Units
  <2>5. CASE m # n
    <3>1. m \in L..(n - 1)
      BY <1>0, <1>1, <1>7, <2>5
    <3>2. Conv(psi, S, m) = 0
      BY <3>1 DEF Locates
    <3>3. Conv(q, S, m) = 0 \oplus (d \otimes 0)
      BY <2>2, <2>3, <2>5, <3>2
    <3> QED
      BY <1>2, <3>3, Units, ZeroByte
  <2> QED
    BY <2>4, <2>5
<1>8. Removed(psi, q, L, S, n)
  BY <1>4, <1>5, <1>6, <1>7 DEF Removed
<1> QED
  BY <1>2, <1>8 DEF q, E

\* Where the locator is long enough, its length stays.
LEMMA TurnSameLength ==
  ASSUME NEW S \in Poly, NEW n \in 0..(NPAR - 1), NEW psi, NEW D, NEW L, Locates(psi, D, L, S, n),
         n - L + 1 <= L, NEW d, d = Conv(psi, S, n)
  PROVE  Locates(add_polys(psi, scale_poly(d, D)), mul_z_poly(D), L, S, n + 1)
<1> DEFINE q == add_polys(psi, scale_poly(d, D))
<1>1. Moves(D, mul_z_poly(D), L, S, n)
  BY OtherMoves
<1>2. Removed(psi, q, L, S, n)
  BY Removes
<1> HIDE DEF q
<1>3. L \in 0..(n + 1) /\ L \in 0..n /\ n \in Nat
  BY NparAssumption DEF Locates
<1>4. ASSUME NEW i \in Degrees, i > L PROVE q[i] = 0
  <2>1. i > n - L + 1
    BY <1>3, <1>4, NparAssumption DEF Degrees, MAXDEG
  <2> QED
    BY <1>2, <1>4, <2>1 DEF Removed
<1>5. ASSUME NEW m \in L..((n + 1) - 1) PROVE Conv(q, S, m) = 0
  <2>1. m \in Nat /\ L <= m /\ n - L + 1 <= m /\ m <= n
    BY <1>3
  <2> QED
    BY <1>2, <2>1 DEF Removed
<1>6. Locates(q, mul_z_poly(D), L, S, n + 1)
  BY <1>1, <1>2, <1>3, <1>4, <1>5 DEF Locates, Moves, Removed
<1> QED
  BY <1>6 DEF q

\* Where it is too short, it becomes as long as the other, which it is itself from
\* then on.
LEMMA TurnLonger ==
  ASSUME NEW S \in Poly, NEW n \in 0..(NPAR - 1), NEW psi, NEW D, NEW L, Locates(psi, D, L, S, n),
         L < n - L + 1, NEW d, d = Conv(psi, S, n), d # 0
  PROVE  Locates(add_polys(psi, scale_poly(d, D)), mul_z_poly(scale_poly(ginv[d], psi)),
                 n - L + 1, S, n + 1)
<1> DEFINE q == add_polys(psi, scale_poly(d, D))
           e == ginv[d]
           p == scale_poly(e, psi)
           E == mul_z_poly(p)
           K == n - L + 1
<1>1. d \in Byte /\ Removed(psi, q, L, S, n)
  BY Removes
<1> HIDE DEF q
<1>2. e \in Byte /\ d \otimes e = 1 /\ e \otimes d = 1
  <2>1. d \in Byte \ {0}
    BY <1>1
  <2>2. e \in Byte /\ d \otimes e = 1
    BY <2>1, Inverses
  <2> QED
    BY <1>1, <2>2, Closed
<1> HIDE DEF e
<1>3. psi \in Poly /\ L \in 0..n /\ n \in Nat
  BY NparAssumption DEF Locates
<1>4. p \in Poly /\ \A i \in Degrees : p[i] = e \otimes psi[i]
  BY <1>2, <1>3, PolyTypes
<1> HIDE DEF p
<1>5. E \in Poly /\ E[0] = 0 /\ \A i \in Degrees \ {0} : E[i] = p[i - 1] /\ i - 1 \in Degrees
  BY <1>4, ZeroByte, PolyTypes
<1> HIDE DEF E
<1>6. K \in 0..(n + 1) /\ (n + 1) - K + 1 = L + 1 /\ K > L
  BY <1>3
<1>7. ASSUME NEW i \in Degrees, i > K PROVE q[i] = 0
  <2>1. i > L /\ i > n - L + 1
    BY <1>3, <1>6, <1>7, NparAssumption DEF Degrees, MAXDEG
  <2> QED
    BY <1>1, <2>1 DEF Removed
<1>8. ASSUME NEW m \in K..((n + 1) - 1) PROVE Conv(q, S, m) = 0
  <2>1. m \in Nat /\ L <= m /\ n - L + 1 <= m /\ m <= n
    BY <1>3, <1>6
  <2> QED
    BY <1>1, <2>1 DEF Removed
<1>9. ASSUME NEW i \in Degrees, i > (n + 1) - K + 1 PROVE E[i] = 0
  <2>1. i > L + 1 /\ i \in Degrees \ {0} /\ i - 1 > L
    BY <1>3, <1>6, <1>9, NparAssumption DEF Degrees, MAXDEG
  <2>2. E[i] = p[i - 1] /\ i - 1 \in Degrees
    BY <1>5, <2>1
  <2>3. psi[i - 1] = 0
    BY <2>1, <2>2 DEF Locates
  <2> QED
    BY <1>2, <1>4, <2>2, <2>3, Units
<1>10. ASSUME NEW m \in Nat, (n + 1) - K + 1 <= m, m <= n + 1
       PROVE  Conv(E, S, m) = IF m = n + 1 THEN 1 ELSE 0
  <2> DEFINE j == m - 1
  <2>1. j \in Nat /\ L <= j /\ j <= n /\ (m = n + 1 <=> j = n) /\ m = j + 1
    BY <1>3, <1>6, <1>10
  <2>2. j \in Degrees /\ j + 1 \in Degrees
    BY <2>1, NparAssumption DEF MAXDEG, Degrees
  <2> HIDE DEF j
  <2>3. Conv(E, S, j + 1) = e \otimes Conv(psi, S, j)
    <3>1. Conv(E, S, j + 1) = Conv(p, S, j)
      BY <1>4, <2>1, <2>2, ConvShift DEF E
    <3>2. Conv(p, S, j) = e \otimes Conv(psi, S, j)
      BY <1>2, <1>3, <2>2, ConvScale DEF p
    <3> QED
      BY <3>1, <3>2
  <2>4. CASE j = n
    BY <1>2, <2>1, <2>3, <2>4
  <2>5. CASE j # n
    <3>1. j \in L..(n - 1)
      BY <1>3, <2>1, <2>5
    <3>2. Conv(psi, S, j) = 0
      BY <3>1 DEF Locates
    <3>3. Conv(E, S, m) = 0
      BY <1>2, <2>1, <2>3, <3>2, Units
    <3> QED
      BY <2>1, <2>5, <3>3
  <2> QED
    BY <2>4, <2>5
<1> HIDE DEF K
<1>11. Locates(q, E, K, S, n + 1)
  BY <1>1, <1>5, <1>6, <1>7, <1>8, <1>9, <1>10 DEF Locates, Removed
<1> QED
  BY <1>11 DEF q, E, p, e, K

\* S are the syndromes of the errors c.
Syndromes(S, c, n) ==
  /\ c \in [0..(n - 1) -> Byte] /\ S \in Poly
  /\ \A j \in 0..(NPAR - 1) : S[j] = Moment(c, n, j + 1)

\* The places of errors are finitely many, and so are any of them.
LEMMA FinitelyWrong ==
  ASSUME NEW n \in Nat, NEW c
  PROVE  /\ IsFiniteSet(Wrong(c, n)) /\ Cardinality(Wrong(c, n)) \in Nat
         /\ \A T \in SUBSET Wrong(c, n) : IsFiniteSet(T) /\ Cardinality(T) <= Cardinality(Wrong(c, n))
<1>1. IsFiniteSet(0..(n - 1))
  <2>1. 0 \in Int /\ n - 1 \in Int
    OBVIOUS
  <2> QED
    BY <2>1, FS_Interval
<1>2. Wrong(c, n) \subseteq 0..(n - 1)
  BY DEF Wrong
<1>3. IsFiniteSet(Wrong(c, n))
  BY <1>1, <1>2, FS_Subset
<1> QED
  BY <1>3, FS_Subset, FS_CardinalityType

\* A rest is of bytes, and wrong where there are errors only.
Remains(c, n, p, d) ==
  /\ Rest(c, n, p, d) \in [0..(n - 1) -> Byte]
  /\ \A q \in 0..(n - 1) :
       /\ 255 - q \in 1..255 /\ Pow(q) \in Byte /\ Moment(p, d + 1, 255 - q) \in Byte
       /\ Rest(c, n, p, d)[q] = c[q] \otimes (Pow(q) \otimes Moment(p, d + 1, 255 - q))
       /\ (c[q] = 0 => Rest(c, n, p, d)[q] = 0)

\* It is so for every polynomial of d degrees.
LEMMA RestType ==
  ASSUME NEW n \in 0..255, NEW c \in [0..(n - 1) -> Byte], NEW d \in Nat, NEW p,
         \A i \in 0..d : p[i] \in Byte
  PROVE  Remains(c, n, p, d)
<1> DEFINE g == Rest(c, n, p, d)
           l == d + 1
<1>0. l \in Nat /\ l - 1 = d
  OBVIOUS
<1>1. ASSUME NEW q \in 0..(n - 1)
      PROVE  /\ 255 - q \in 1..255 /\ Pow(q) \in Byte /\ Moment(p, d + 1, 255 - q) \in Byte
             /\ g[q] = c[q] \otimes (Pow(q) \otimes Moment(p, d + 1, 255 - q))
             /\ g[q] \in Byte
             /\ (c[q] = 0 => g[q] = 0)
  <2>1. 255 - q \in 1..255 /\ q \in Nat /\ 255 - q \in Nat
    OBVIOUS
  <2> DEFINE x == Moment(p, l, 255 - q)
             y == Pow(q)
             e == c[q]
  <2>2. x \in Byte
    <3>1. \A i \in 0..(l - 1) : p[i] \in Byte
      BY <1>0
    <3> HIDE DEF l
    <3> QED
      BY <1>0, <2>1, <3>1, MomentType
  <2>3. y \in Byte /\ e \in Byte
    BY <2>1, PowStep
  <2>4. g[q] = e \otimes (y \otimes x)
    BY DEF Rest
  <2> HIDE DEF x, y, e, g
  <2>5. y \otimes x \in Byte /\ e \otimes (y \otimes x) \in Byte
    <3>1. y \otimes x \in Byte
      BY <2>2, <2>3, Closed
    <3> QED
      BY <2>3, <3>1, Closed
  <2>6. e = 0 => g[q] = 0
    BY <2>4, <2>5, Units
  <2> QED
    BY <2>1, <2>2, <2>3, <2>4, <2>5, <2>6 DEF x, y, e
<1>2. g = [q \in 0..(n - 1) |-> g[q]]
  BY DEF Rest
<1> HIDE DEF g
<1>3. g \in [0..(n - 1) -> Byte]
  BY <1>1, <1>2
<1> QED
  BY <1>1, <1>3 DEF g, Remains

\* From the degree of p on, the coefficients of its product with S are the moments
\* of the rest.
LEMMA ConvRest ==
  ASSUME NEW n \in 0..255, NEW c, NEW S, Syndromes(S, c, n), NEW p \in Poly,
         NEW L \in Nat, \A i \in Degrees : i > L => p[i] = 0,
         NEW m \in L..(NPAR - 1)
  PROVE  Conv(p, S, m) = Moment(Rest(c, n, p, L), n, m)
<1>0. m \in Degrees /\ m \in Nat /\ L \in 0..m /\ L <= m
      /\ (\A i \in 0..L : i \in Degrees) /\ \A j \in 0..m : j \in 0..(NPAR - 1)
  BY NparAssumption DEF Degrees, MAXDEG
<1>1. S \in Poly /\ \A q \in 0..(n - 1) : c[q] \in Byte
  BY DEF Syndromes
<1>2. \A j \in 0..m : S[j] = Moment(c, n, j + 1)
  BY <1>0 DEF Syndromes
<1>3. \A i \in 0..L : p[i] \in Byte
  BY <1>0 DEF Poly
<1>4. compute_discrepancy(p, S, L, m) = Conv(p, S, m)
  BY <1>0, <1>1, Discrepancy
<1>5. compute_discrepancy(p, S, L, m) = XorSum([i \in 0..L |-> p[i] \otimes S[m - i]], L + 1)
  BY DEF compute_discrepancy, \otimes
<1>6. XorSum([i \in 0..L |-> p[i] \otimes S[m - i]], L + 1) = Moment(Rest(c, n, p, L), n, m)
  <2>1. Transfers(c, n, p, L, S, m)
    BY <1>0, <1>1, <1>2, <1>3, Transfer
  <2> QED
    BY <2>1 DEF Transfers
<1> QED
  BY <1>4, <1>5, <1>6

\* If as many of them vanish in a row as there are errors, there is no rest.
LEMMA NoRest ==
  ASSUME NEW n \in 0..255, NEW c, NEW S, Syndromes(S, c, n), NEW p \in Poly,
         NEW L \in Nat, \A i \in Degrees : i > L => p[i] = 0,
         NEW t \in 0..NPAR, L + Cardinality(Wrong(c, n)) <= t,
         \A m \in L..(t - 1) : Conv(p, S, m) = 0
  PROVE  \A q \in 0..(n - 1) : Rest(c, n, p, L)[q] = 0
<1> DEFINE g == Rest(c, n, p, L)
           v == Cardinality(Wrong(c, n))
<1>0. n \in Nat
  OBVIOUS
<1>1. v \in Nat
  BY <1>0, FinitelyWrong
<1> DEFINE m == t - v
<1>2. m \in Nat /\ L <= m /\ m + v = t /\ t <= NPAR
  BY <1>1, NparAssumption
<1>3. \A i \in 0..L : p[i] \in Byte
  <2>1. \A i \in 0..L : i \in Degrees
    BY <1>1, NparAssumption DEF Degrees, MAXDEG
  <2> QED
    BY <2>1 DEF Poly
<1>4. c \in [0..(n - 1) -> Byte]
  BY DEF Syndromes
<1>5. g \in [0..(n - 1) -> Byte] /\ \A q \in 0..(n - 1) : c[q] = 0 => g[q] = 0
  <2>1. Remains(c, n, p, L)
    BY <1>3, <1>4, RestType
  <2> QED
    BY <2>1 DEF Remains
<1>6. Cardinality(Wrong(g, n)) <= v
  <2>1. Wrong(g, n) \in SUBSET Wrong(c, n)
    BY <1>5 DEF Wrong
  <2> QED
    BY <1>0, <2>1, FinitelyWrong
<1> HIDE DEF v, m
<1>7. ASSUME NEW j \in 0..(v - 1) PROVE Moment(g, n, m + j) = 0
  <2>1. m + j \in L..(t - 1) /\ m + j \in L..(NPAR - 1)
    BY <1>1, <1>2, NparAssumption
  <2> DEFINE k == m + j
  <2>2. k \in L..(t - 1) /\ k \in L..(NPAR - 1)
    BY <2>1
  <2> HIDE DEF k
  <2>3. Conv(p, S, k) = Moment(g, n, k)
    BY <2>2, ConvRest
  <2> QED
    BY <2>2, <2>3 DEF k
<1> HIDE DEF g
<1>8. \A q \in 0..(n - 1) : g[q] = 0
  BY <1>1, <1>2, <1>5, <1>6, <1>7, FewMoments
<1> QED
  BY <1>8 DEF g

\* Without one, all of them vanish, so a locator is never lengthened to more degrees
\* than there are errors.
LEMMA LengthBound ==
  ASSUME NEW n \in 0..255, NEW c, NEW S, Syndromes(S, c, n), NEW t \in 0..(NPAR - 1),
         NEW psi, NEW D, NEW L, Locates(psi, D, L, S, t), Conv(psi, S, t) # 0
  PROVE  t - L + 1 <= Cardinality(Wrong(c, n))
<1> DEFINE g == Rest(c, n, psi, L)
           v == Cardinality(Wrong(c, n))
<1>0. n \in Nat
  OBVIOUS
<1>1. v \in Nat
  BY <1>0, FinitelyWrong
<1>2. psi \in Poly /\ L \in Nat /\ L <= t /\ (\A i \in Degrees : i > L => psi[i] = 0)
      /\ \A m \in L..(t - 1) : Conv(psi, S, m) = 0
  BY DEF Locates
<1>3. t \in 0..NPAR /\ t \in Nat /\ t \in L..(NPAR - 1)
  BY <1>2, NparAssumption
<1> HIDE DEF v
<1> SUFFICES ASSUME L + v <= t PROVE FALSE
  BY <1>1, <1>2, <1>3 DEF v
<1>4. \A q \in 0..(n - 1) : g[q] = 0
  BY <1>2, <1>3, NoRest DEF v
<1>5. Conv(psi, S, t) = Moment(g, n, t)
  BY <1>2, <1>3, ConvRest
<1> HIDE DEF g
<1>6. Moment(g, n, t) = 0
  <2> DEFINE f == [q \in 0..(n - 1) |-> g[q] \otimes Pow(q * t)]
  <2>1. ASSUME NEW q \in 0..(n - 1) PROVE f[q] = 0
    <3>1. q * t \in Nat
      BY <1>3
    <3>2. Pow(q * t) \in Byte
      BY <3>1, PowStep
    <3> QED
      BY <1>4, <3>2, Units
  <2>2. Moment(g, n, t) = XorSum(f, n)
    BY DEF Moment
  <2> HIDE DEF f
  <2> QED
    BY <1>0, <2>1, <2>2, SumOfZeros
<1> QED
  BY <1>5, <1>6

\* The states of the loop, and those it comes to before turn t with v errors.
LoopState == [psi : Poly, D : Poly, k : -1 .. NPAR, L : 0 .. NPAR + 1]

Turned(s, S, t, v) ==
  /\ s \in LoopState /\ s.k = s.L - 1 /\ s.L <= v
  /\ Locates(s.psi, s.D, s.L, S, t)

\* The next turn.
LEMMA NextTurn ==
  ASSUME NEW n \in 0..255, NEW c, NEW S, Syndromes(S, c, n), NEW t \in 0..(NPAR - 1),
         NEW v, v = Cardinality(Wrong(c, n)), v <= NPAR, NEW s, Turned(s, S, t, v)
  PROVE  Turned(BerlekampStep(s, S, t), S, t + 1, v)
<1> DEFINE psi == s.psi
           D == s.D
           L == s.L
           k == s.k
           d == compute_discrepancy(psi, S, L, t)
           psi2 == add_polys(psi, scale_poly(d, D))
           u == BerlekampStep(s, S, t)
<1>0. n \in Nat
  OBVIOUS
<1>1. v \in Nat
  BY <1>0, FinitelyWrong
<1>2. /\ s \in LoopState /\ k = L - 1 /\ L <= v /\ Locates(psi, D, L, S, t) /\ S \in Poly
      /\ s = [psi |-> psi, D |-> D, k |-> k, L |-> L]
  BY DEF Turned, Syndromes, LoopState
<1>3. /\ psi \in Poly /\ D \in Poly /\ L \in 0..t /\ t \in Degrees /\ t \in Nat /\ L \in Nat
      /\ \A i \in Degrees : i > L => psi[i] = 0
  BY <1>2, NparAssumption DEF Locates, Degrees, MAXDEG
<1>4. u = Adapt(s, t, d, psi2)
  BY DEF BerlekampStep
<1>5. d = Conv(psi, S, t)
  BY <1>2, <1>3, Discrepancy
<1> HIDE DEF psi, D, L, k, u, d, psi2
<1>6. d \in Byte /\ Removed(psi, psi2, L, S, t)
  BY <1>2, <1>5, Removes DEF psi2
<1>7. psi2 \in Poly
  BY <1>6 DEF Removed
<1>8. mul_z_poly(D) \in Poly
  BY <1>3, ZeroByte, PolyTypes
<1>9. ASSUME d = 0 PROVE Turned(u, S, t + 1, v)
  <2>1. u = [psi |-> psi, D |-> mul_z_poly(D), k |-> k, L |-> L]
    BY <1>2, <1>4, <1>9 DEF Adapt, D
  <2>2. Locates(psi, mul_z_poly(D), L, S, t + 1)
    BY <1>2, <1>5, <1>9, TurnWithout
  <2>3. u \in LoopState
    BY <1>1, <1>2, <1>3, <1>8, <2>1, NparAssumption DEF LoopState
  <2> QED
    BY <1>2, <2>1, <2>2, <2>3 DEF Turned
<1>10. ASSUME d # 0, ~(L < t - k) PROVE Turned(u, S, t + 1, v)
  <2>1. u = [psi |-> psi2, D |-> mul_z_poly(D), k |-> k, L |-> L]
    BY <1>2, <1>4, <1>10 DEF Adapt, D, L, k
  <2>2. t - L + 1 <= L
    BY <1>2, <1>3, <1>10
  <2>3. Locates(psi2, mul_z_poly(D), L, S, t + 1)
    BY <1>2, <1>5, <2>2, TurnSameLength DEF psi2
  <2>4. u \in LoopState
    BY <1>1, <1>2, <1>3, <1>7, <1>8, <2>1, NparAssumption DEF LoopState
  <2> QED
    BY <1>2, <2>1, <2>3, <2>4 DEF Turned
<1>11. ASSUME d # 0, L < t - k PROVE Turned(u, S, t + 1, v)
  <2> DEFINE E == mul_z_poly(scale_poly(ginv[d], psi))
             K == t - L + 1
  <2>1. u = [psi |-> psi2, D |-> E, k |-> t - L, L |-> t - k]
    BY <1>4, <1>11 DEF Adapt, L, k, psi
  <2>2. L < K /\ t - k = K /\ t - L = K - 1
    BY <1>2, <1>3, <1>11
  <2>3. Locates(psi2, E, K, S, t + 1)
    BY <1>2, <1>5, <1>11, <2>2, TurnLonger DEF psi2
  <2>4. K <= v
    <3>1. Conv(psi, S, t) # 0
      BY <1>5, <1>11
    <3> QED
      BY <1>2, <3>1, LengthBound
  <2>5. E \in Poly
    BY <2>3 DEF Locates
  <2> HIDE DEF E
  <2>6. u = [psi |-> psi2, D |-> E, k |-> K - 1, L |-> K] /\ K \in Nat
    BY <1>3, <2>1, <2>2
  <2> HIDE DEF K
  <2>7. u \in LoopState
    BY <1>1, <1>7, <2>4, <2>5, <2>6, NparAssumption DEF LoopState
  <2> QED
    BY <2>3, <2>4, <2>6, <2>7 DEF Turned
<1> QED
  BY <1>9, <1>10, <1>11 DEF u

\* The errors can be located by psi, which has v degrees at most.
Locator(psi, c, n, S, L) ==
  /\ psi \in Poly /\ psi[0] = 1 /\ L \in Nat /\ L <= Cardinality(Wrong(c, n))
  /\ \A i \in Degrees : i > L => psi[i] = 0
  /\ \A m \in L..(NPAR - 1) : Conv(psi, S, m) = 0

\* After all turns there is such a locator.
LEMMA AllTurns ==
  ASSUME NEW n \in 0..255, NEW c, NEW S, Syndromes(S, c, n), Cardinality(Wrong(c, n)) <= NPAR
  PROVE  \E L : Locator(Lambda(S), c, n, S, L)
<1> DEFINE N == NPAR
           v == Cardinality(Wrong(c, n))
           a == [psi |-> One, D |-> mul_z_poly(One), k |-> -1, L |-> 0]
           V == LoopState
           turn == [t \in 0..(N - 1) |-> [s \in V |-> BerlekampStep(s, S, t)]]
           F == [i \in 1..N |->
                   [s \in V |-> IF Turned(s, S, i - 1, v) THEN BerlekampStep(s, S, i - 1) ELSE a]]
           Body(k, i) == IF i = 0 THEN a ELSE turn[i - 1][k[i - 1]]
           K == CHOOSE k : k = [i \in 0..N |-> Body(k, i)]
<1>1. Lambda(S) = K[N].psi
  BY DEF Lambda, LoopState
<1>0. N \in Nat \ {0} /\ v \in Nat
  <2>1. n \in Nat
    OBVIOUS
  <2> QED
    BY <2>1, FinitelyWrong, NparAssumption
<1>2. Turned(a, S, 0, v) /\ a \in V
  <2>1. S \in Poly
    BY DEF Syndromes
  <2>2. Locates(One, mul_z_poly(One), 0, S, 0)
    BY <2>1, FirstTurn
  <2>3. One \in Poly /\ mul_z_poly(One) \in Poly
    BY <2>2 DEF Locates
  <2>4. a \in V
    BY <1>0, <2>3 DEF LoopState
  <2> QED
    BY <1>0, <2>2, <2>4 DEF Turned
<1>3. ASSUME NEW i \in 1..N, NEW s, Turned(s, S, i - 1, v)
      PROVE  Turned(BerlekampStep(s, S, i - 1), S, i, v) /\ s \in V
  <2>1. i - 1 \in 0..(NPAR - 1) /\ (i - 1) + 1 = i
    BY <1>0
  <2> DEFINE t == i - 1
  <2>2. t \in 0..(NPAR - 1) /\ t + 1 = i
    BY <2>1
  <2> HIDE DEF t
  <2>3. Turned(BerlekampStep(s, S, t), S, t + 1, v)
    BY <1>3, <2>2, NextTurn DEF t
  <2> QED
    BY <1>3, <2>2, <2>3 DEF Turned, t
<1>4. \A i, s : Turned(s, S, i, v) => s \in V
  BY DEF Turned
<1>5. F \in [1..N -> [V -> V]]
  <2>1. ASSUME NEW i \in 1..N, NEW s \in V
        PROVE  (IF Turned(s, S, i - 1, v) THEN BerlekampStep(s, S, i - 1) ELSE a) \in V
    <3>1. CASE Turned(s, S, i - 1, v)
      <4>1. Turned(BerlekampStep(s, S, i - 1), S, i, v)
        BY <1>3, <3>1
      <4> QED
        BY <1>4, <3>1, <4>1
    <3>2. CASE ~Turned(s, S, i - 1, v)
      BY <1>2, <3>2
    <3> QED
      BY <3>1, <3>2
  <2> HIDE DEF V, a
  <2> QED
    BY <2>1
<1> HIDE DEF V, a
<1>6. ASSUME NEW g, NEW i \in 1..N, Turned(g[i - 1], S, i - 1, v)
      PROVE  /\ Body(g, i) = BerlekampStep(g[i - 1], S, i - 1)
             /\ F[i][g[i - 1]] = BerlekampStep(g[i - 1], S, i - 1)
             /\ Turned(BerlekampStep(g[i - 1], S, i - 1), S, i, v)
  <2>1. i # 0 /\ i - 1 \in 0..(N - 1)
    BY <1>0
  <2>2. g[i - 1] \in V
    BY <1>4, <1>6
  <2> DEFINE s == g[i - 1]
             t == i - 1
  <2>3. turn[t][s] = BerlekampStep(s, S, t)
    BY <2>1, <2>2
  <2>4. Body(g, i) = turn[t][s]
    BY <2>1
  <2>5. F[i][s] = BerlekampStep(s, S, t)
    BY <1>6, <2>2
  <2>6. Turned(BerlekampStep(s, S, t), S, i, v)
    BY <1>3, <1>6
  <2> HIDE DEF Body, F, turn
  <2> QED
    BY <2>3, <2>4, <2>5, <2>6
<1>7. \A g : Body(g, 0) = a
  OBVIOUS
<1> HIDE DEF F, Body, turn
<1> DEFINE Good(g) == \A i \in 0..N : Turned(g[i], S, i, v)
<1>8. ASSUME NEW g, g[0] = a,
             \A i \in 1..N : Turned(g[i - 1], S, i - 1, v) => g[i] = BerlekampStep(g[i - 1], S, i - 1)
      PROVE  Good(g)
  <2> DEFINE P == {i \in Nat : i <= N => Turned(g[i], S, i, v)}
  <2>1. 0 \in P
    BY <1>2, <1>8
  <2>2. ASSUME NEW i \in Nat, i \in P PROVE i + 1 \in P
    <3> SUFFICES ASSUME i + 1 <= N PROVE Turned(g[i + 1], S, i + 1, v)
      OBVIOUS
    <3>1. i + 1 \in 1..N /\ (i + 1) - 1 = i /\ Turned(g[i], S, i, v)
      BY <1>0, <2>2
    <3> DEFINE j == i + 1
    <3>2. j \in 1..N /\ j - 1 = i
      BY <3>1
    <3> HIDE DEF j, P
    <3>3. g[j] = BerlekampStep(g[j - 1], S, j - 1)
      BY <1>8, <3>1, <3>2
    <3>4. Turned(BerlekampStep(g[j - 1], S, j - 1), S, j, v)
      BY <1>3, <3>1, <3>2
    <3> QED
      BY <3>3, <3>4 DEF j
  <2> HIDE DEF P
  <2>3. \A i \in Nat : i \in P
    BY <2>1, <2>2, NumbersFromZero
  <2> QED
    BY <1>0, <2>3 DEF P
<1>9. PICK k : Solves(k, N, V, a, F)
  BY <1>0, <1>2, <1>5, Recursion
<1>10. Good(k)
  <2>1. k[0] = a /\ \A i \in 1..N : k[i] = F[i][k[i - 1]]
    BY <1>9 DEF Solves
  <2>2. \A i \in 1..N : Turned(k[i - 1], S, i - 1, v) => k[i] = BerlekampStep(k[i - 1], S, i - 1)
    BY <1>6, <2>1
  <2> HIDE DEF Good
  <2> QED
    BY <1>8, <2>1, <2>2
<1>11. ASSUME NEW i \in 0..N PROVE k[i] = Body(k, i)
  <2>1. CASE i = 0
    BY <1>7, <1>9, <2>1 DEF Solves
  <2>2. CASE i # 0
    <3>1. i \in 1..N /\ i - 1 \in 0..N
      BY <1>0, <2>2
    <3>2. Turned(k[i - 1], S, i - 1, v) /\ k[i] = F[i][k[i - 1]]
      BY <1>9, <1>10, <3>1 DEF Solves
    <3> QED
      BY <1>6, <3>1, <3>2
  <2> QED
    BY <2>1, <2>2
<1>12. k = [i \in 0..N |-> Body(k, i)]
  BY <1>9, <1>11 DEF Solves
<1>13. K = [i \in 0..N |-> Body(K, i)]
  BY <1>12
<1> HIDE DEF K
<1>14. Good(K)
  <2>0. 0 \in 0..N /\ \A i \in 1..N : i \in 0..N
    BY <1>0
  <2>1. K[0] = a /\ \A i \in 1..N : K[i] = Body(K, i)
    BY <1>7, <1>13, <2>0, Zenon
  <2>2. \A i \in 1..N : Turned(K[i - 1], S, i - 1, v) => K[i] = BerlekampStep(K[i - 1], S, i - 1)
    BY <1>6, <2>1
  <2> HIDE DEF Good
  <2> QED
    BY <1>8, <2>1, <2>2
<1>15. Turned(K[N], S, N, v)
  BY <1>0, <1>14
<1> DEFINE s == K[N]
<1>16. Locates(s.psi, s.D, s.L, S, N) /\ s.L <= v
  BY <1>15 DEF Turned
<1> HIDE DEF s
<1>17. Locator(s.psi, c, n, S, s.L)
  BY <1>0, <1>16 DEF Locates, Locator
<1> QED
  BY <1>1, <1>17 DEF s

\* A moment depends on the bytes alone, and zeros at the end add nothing to it.
LEMMA MomentLonger ==
  ASSUME NEW n \in Nat, NEW m \in Nat, n <= m, NEW c, NEW d, \A q \in 0..(m - 1) : c[q] \in Byte,
         \A q \in n..(m - 1) : c[q] = 0, \A q \in 0..(n - 1) : d[q] = c[q], NEW r \in Nat
  PROVE  Moment(d, n, r) = Moment(c, m, r)
<1> DEFINE f == [q \in 0..(m - 1) |-> c[q] \otimes Pow(q * r)]
           g == [q \in 0..(n - 1) |-> d[q] \otimes Pow(q * r)]
<1>1. Moment(c, m, r) = XorSum(f, m) /\ Moment(d, n, r) = XorSum(g, n)
  BY DEF Moment
<1>2. ASSUME NEW q \in 0..(m - 1)
      PROVE  f[q] \in Byte /\ f[q] = c[q] \otimes Pow(q * r) /\ Pow(q * r) \in Byte
  <2>1. q \in Nat /\ q * r \in Nat /\ c[q] \in Byte
    OBVIOUS
  <2> QED
    BY <2>1, TermType, PowStep
<1>3. ASSUME NEW q \in n..(m - 1) PROVE f[q] = 0
  <2>1. q \in 0..(m - 1)
    OBVIOUS
  <2> HIDE DEF f
  <2> QED
    BY <1>2, <2>1, Units
<1>4. ASSUME NEW q \in 0..(n - 1) PROVE f[q] \in Byte /\ g[q] = f[q]
  <2>1. q \in 0..(m - 1) /\ g[q] = d[q] \otimes Pow(q * r)
    OBVIOUS
  <2> HIDE DEF f, g
  <2> QED
    BY <1>2, <2>1
<1> HIDE DEF f, g
<1>5. \A q \in 0..(m - 1) : f[q] \in Byte
  BY <1>2
<1>6. XorSum(f, m) = XorSum(f, n)
  BY <1>3, <1>5, SumLonger
<1>7. XorSum(g, n) = XorSum(f, n)
  BY <1>4, SumEqual
<1> QED
  BY <1>1, <1>6, <1>7

\* Find_Roots looks for roots of a polynomial of L degrees.
LEMMA FindRoots ==
  ASSUME NEW p \in Poly, NEW L \in 0..NPAR, \A i \in Degrees : i > L => p[i] = 0
  PROVE  ErrorLocs(p) = {255 - r : r \in {x \in 1..255 : Root(p, L, x)}}
<1> DEFINE N == NPAR + 1
           value(r) == XorSum([k \in 0..NPAR |-> gmult[gexp[(k * r) % 255]][p[k]]], N)
<1>0. N \in Nat /\ L + 1 \in Nat /\ L + 1 <= N /\ N - 1 = NPAR
      /\ (\A k \in 0..(N - 1) : k \in Degrees /\ k \in Nat)
      /\ \A k \in (L + 1)..(N - 1) : k \in Degrees /\ k > L
  BY NparAssumption DEF Degrees, MAXDEG
<1>1. ASSUME NEW r \in 1..255 PROVE value(r) = Moment(p, L + 1, r)
  <2> DEFINE f == [k \in 0..NPAR |-> gmult[gexp[(k * r) % 255]][p[k]]]
             g == [k \in 0..(N - 1) |-> p[k] \otimes Pow(k * r)]
             l == L + 1
  <2>1. ASSUME NEW k \in 0..(N - 1) PROVE g[k] \in Byte /\ f[k] = g[k]
    <3>1. p[k] \in Byte /\ k * r \in Nat /\ k \in 0..NPAR
      BY <1>0 DEF Poly
    <3>2. Pow(k * r) \in Byte
      BY <3>1, PowStep
    <3>3. f[k] = Pow(k * r) \otimes p[k] /\ g[k] = p[k] \otimes Pow(k * r)
      BY <3>1 DEF Pow, \otimes
    <3> HIDE DEF f, g
    <3> QED
      BY <3>1, <3>2, <3>3, Closed
  <2>2. value(r) = XorSum(f, N) /\ Moment(p, N, r) = XorSum(g, N)
    BY DEF Moment
  <2> HIDE DEF f, g, N, value
  <2>3. XorSum(f, N) = XorSum(g, N)
    BY <1>0, <2>1, SumEqual
  <2>4. Moment(p, l, r) = Moment(p, N, r)
    <3>1. l \in Nat /\ l <= N /\ r \in Nat
      BY <1>0
    <3>2. \A k \in 0..(N - 1) : p[k] \in Byte
      BY <1>0 DEF Poly
    <3>3. \A k \in l..(N - 1) : p[k] = 0
      BY <1>0
    <3> HIDE DEF l
    <3> QED
      BY <1>0, <3>1, <3>2, <3>3, MomentLonger
  <2> QED
    BY <2>2, <2>3, <2>4
<1>2. ErrorLocs(p) = {255 - r : r \in {x \in 1..255 : value(x) = 0}}
  BY DEF ErrorLocs
<1> HIDE DEF value
<1>3. {x \in 1..255 : value(x) = 0} = {x \in 1..255 : Root(p, L, x)}
  BY <1>1 DEF Root
<1> QED
  BY <1>2, <1>3

\* Up to NPAR / 2 errors are located where they are, and the locator has as many
\* degrees as there are errors.
Located(c, n, p, L) ==
  /\ L = Cardinality(Wrong(c, n))
  /\ \A q \in Wrong(c, n) : Root(p, L, 255 - q)
  /\ ErrorLocs(p) = Wrong(c, n)

\* That is what a locator does: with twice as many syndromes as errors, its rest is
\* nothing, so it vanishes at every error, and a shorter one could not.
LEMMA LocatorLocates ==
  ASSUME NEW n \in 0..255, NEW c, NEW S, Syndromes(S, c, n), 2 * Cardinality(Wrong(c, n)) <= NPAR,
         NEW p, NEW L, Locator(p, c, n, S, L)
  PROVE  Located(c, n, p, L)
<1> DEFINE v == Cardinality(Wrong(c, n))
           R == {x \in 1..255 : Root(p, L, x)}
           W == Wrong(c, n)
           f == [q \in W |-> 255 - q]
           g == Rest(c, n, p, L)
<1>0. n \in Nat
  OBVIOUS
<1>1. v \in Nat
  BY <1>0, FinitelyWrong
<1>2. p \in Poly /\ p[0] = 1 /\ L \in Nat /\ L <= v /\ (\A i \in Degrees : i > L => p[i] = 0)
      /\ \A m \in L..(NPAR - 1) : Conv(p, S, m) = 0
  BY DEF Locator
<1>3. L \in 0..NPAR /\ NPAR \in 0..NPAR /\ L + v <= NPAR /\ (\A i \in 0..L : i \in Degrees)
  BY <1>1, <1>2, NparAssumption DEF Degrees, MAXDEG
<1>4. \A i \in 0..L : p[i] \in Byte
  BY <1>2, <1>3 DEF Poly
<1>5. c \in [0..(n - 1) -> Byte]
  BY DEF Syndromes
<1>6. Remains(c, n, p, L)
  BY <1>2, <1>4, <1>5, RestType
<1>7. \A q \in 0..(n - 1) : g[q] = 0
  <2> DEFINE t == NPAR
  <2>1. t \in 0..NPAR /\ L + v <= t /\ \A m \in L..(t - 1) : Conv(p, S, m) = 0
    BY <1>2, <1>3
  <2> HIDE DEF t, g, R, W, f
  <2>2. \A q \in 0..(n - 1) : Rest(c, n, p, L)[q] = 0
    <3>1. p \in Poly /\ L \in Nat /\ \A i \in Degrees : i > L => p[i] = 0
      BY <1>2
    <3> QED
      BY <2>1, <3>1, NoRest
  <2> QED
    BY <2>2 DEF g
<1> HIDE DEF g
<1>8. ASSUME NEW q \in W PROVE Root(p, L, 255 - q) /\ 255 - q \in 1..255
  <2>1. q \in 0..(n - 1) /\ c[q] # 0 /\ q \in 0..254 /\ q \in Nat
    BY DEF Wrong
  <2> DEFINE x == Moment(p, L + 1, 255 - q)
             y == Pow(q)
  <2>2. x \in Byte /\ y \in Byte /\ g[q] = c[q] \otimes (y \otimes x) /\ 255 - q \in 1..255
    BY <1>6, <2>1 DEF Remains, g
  <2>3. y # 0
    BY <2>1, PowNotZero
  <2> HIDE DEF x, y
  <2>4. c[q] \in Byte /\ y \otimes x \in Byte
    BY <1>5, <2>1, <2>2, Closed
  <2>5. y \otimes x = 0
    BY <1>7, <2>1, <2>2, <2>4, NoDivisors
  <2>6. x = 0
    BY <2>2, <2>3, <2>5, NoDivisors
  <2> QED
    BY <2>2, <2>6 DEF x, Root
<1>9. IsFiniteSet(R) /\ Cardinality(R) <= L
  <2> DEFINE h == [i \in 0..L |-> p[i]]
  <2>1. h \in [0..L -> Byte] /\ h[0] # 0 /\ \A i \in 0..L : h[i] = p[i]
    BY <1>2, <1>3, <1>4
  <2> HIDE DEF h
  <2>2. ASSUME NEW r \in R PROVE Root(h, L, r)
    <3> DEFINE l == L + 1
    <3>1. l \in Nat /\ l <= l /\ l - 1 = L /\ r \in Nat /\ \A q \in l..(l - 1) : p[q] = 0
      BY <1>2
    <3>2. (\A q \in 0..(l - 1) : p[q] \in Byte) /\ \A q \in 0..(l - 1) : h[q] = p[q]
      BY <1>4, <2>1, <3>1
    <3>3. Root(p, L, r)
      OBVIOUS
    <3> HIDE DEF l, R
    <3>4. Moment(h, l, r) = Moment(p, l, r)
      BY <3>1, <3>2, MomentLonger
    <3> QED
      BY <3>3, <3>4 DEF Root, l
  <2>3. R \in SUBSET (1..255)
    OBVIOUS
  <2> HIDE DEF R
  <2> QED
    BY <1>2, <2>1, <2>2, <2>3, FewRoots
<1>10. \A q \in W : q \in 0..254
  BY DEF Wrong
<1>11. f \in Injection(W, R)
  <2>1. \A q \in W : 255 - q \in R
    BY <1>8
  <2>2. f \in [W -> R]
    BY <2>1
  <2>3. \A a, b \in W : f[a] = f[b] => a = b
    BY <1>10
  <2>4. DOMAIN f = W
    OBVIOUS
  <2> HIDE DEF f, R, W
  <2> QED
    BY <2>2, <2>3, <2>4 DEF Injection, IsInjective
<1> HIDE DEF R
<1>12. v <= Cardinality(R) /\ (v = Cardinality(R) <=> f \in Surjection(W, R))
  <2> HIDE DEF f
  <2> QED
    BY <1>9, <1>11, FS_Injection
<1>13. Cardinality(R) \in Nat
  BY <1>9, FS_CardinalityType
<1>14. L = v /\ f \in Surjection(W, R)
  <2> HIDE DEF v, f
  <2> QED
    BY <1>1, <1>2, <1>9, <1>12, <1>13
<1>15. \A r \in R : \E q \in W : r = 255 - q
  BY <1>14 DEF Surjection
<1>16. ErrorLocs(p) = {255 - r : r \in R}
  BY <1>2, <1>3, FindRoots DEF R
<1>17. {255 - r : r \in R} = W
  <2>1. ASSUME NEW r \in R PROVE 255 - r \in W
    <3>1. PICK q \in W : r = 255 - q
      BY <1>15
    <3>2. 255 - r = q
      BY <1>10, <3>1
    <3> QED
      BY <3>2
  <2>2. ASSUME NEW q \in W PROVE \E r \in R : q = 255 - r
    <3>1. 255 - q \in R
      BY <1>8 DEF R
    <3>2. 255 - (255 - q) = q
      BY <1>10
    <3> QED
      BY <3>1, <3>2
  <2> HIDE DEF W
  <2> QED
    BY <2>1, <2>2
<1> QED
  BY <1>8, <1>14, <1>16, <1>17 DEF Located

-----------------------------------------------------------------------------
(***************************************************************************)
(* The values of the errors.  Each is the quotient of the evaluator and    *)
(* the derivative of the locator at its place (Forney's formula): with w   *)
(* the place and Q the locator without its factor for w, the derivative    *)
(* there is Pow(w) times the value of Q, and the evaluator that times the  *)
(* error.                                                                  *)
(***************************************************************************)

\* A coefficient of the product of two polynomials.
LEMMA ProductConv ==
  ASSUME NEW p \in Poly, NEW S \in Poly, NEW k \in Degrees
  PROVE  mult_polys(p, S)[k] = Conv(p, S, k)
<1> DEFINE f == [i \in Degrees |-> IF k - i \in Degrees THEN gmult[S[k - i]][p[i]] ELSE 0]
           g == [i \in 0..k |-> p[i] \otimes S[k - i]]
           l == k + 1
<1>0. /\ MAXDEG \in Nat /\ k \in Nat /\ l \in Nat /\ l <= MAXDEG /\ Degrees = 0..(MAXDEG - 1) /\ l - 1 = k
      /\ k \in 0 .. 2 * MAXDEG - 1
      /\ \A i \in 0..k : i \in Degrees /\ k - i \in Degrees
      /\ \A i \in l..(MAXDEG - 1) : i \in Degrees /\ k - i \notin Degrees
  BY NparAssumption DEF Degrees, MAXDEG
<1>1. mult_polys(p, S)[k] = XorSum(f, MAXDEG) /\ Conv(p, S, k) = XorSum(g, l)
  BY <1>0 DEF mult_polys, Conv
<1>2. ASSUME NEW i \in 0..k PROVE g[i] \in Byte /\ f[i] = g[i]
  <2>1. p[i] \in Byte /\ S[k - i] \in Byte
    BY <1>0 DEF Poly
  <2>2. g[i] = p[i] \otimes S[k - i] /\ f[i] = S[k - i] \otimes p[i]
    BY <1>0 DEF \otimes
  <2> HIDE DEF f, g
  <2> QED
    BY <2>1, <2>2, Closed
<1>3. ASSUME NEW i \in l..(MAXDEG - 1) PROVE f[i] = 0
  BY <1>0
<1>4. ASSUME NEW i \in 0..(MAXDEG - 1) PROVE f[i] \in Byte
  <2>1. i \in 0..k \/ i \in l..(MAXDEG - 1)
    BY <1>0
  <2> HIDE DEF f, g, l
  <2> QED
    BY <1>2, <1>3, <2>1, ZeroByte
<1>5. \A i \in 0..(l - 1) : g[i] \in Byte /\ f[i] = g[i]
  BY <1>0, <1>2
<1> HIDE DEF f, g, l
<1>6. XorSum(f, MAXDEG) = XorSum(f, l)
  BY <1>0, <1>3, <1>4, SumLonger
<1>7. XorSum(f, l) = XorSum(g, l)
  BY <1>0, <1>5, SumEqual
<1> QED
  BY <1>1, <1>6, <1>7

\* What the evaluator consists of: the quotients of the locator, one for every error.
Evaluates(c, n, p, d, S, j) ==
  Conv(p, S, j) = XorSum([q \in 0..(n - 1) |-> c[q] \otimes (Pow(q) \otimes Quotient(p, d, q)[j])], n)

\* Up to the degree of the locator that is what the product with the syndromes is.
LEMMA Evaluator ==
  ASSUME NEW n \in 0..255, NEW c, NEW S, Syndromes(S, c, n), NEW p \in Poly,
         NEW d \in 0..NPAR, NEW j \in 0..(d - 1)
  PROVE  Evaluates(c, n, p, d, S, j)
<1> DEFINE l == j + 1
           rows == [i \in 0..j |-> p[i] \otimes S[j - i]]
           cols == [q \in 0..(n - 1) |-> c[q] \otimes (Pow(q) \otimes Quotient(p, d, q)[j])]
           U(i) == [q \in 0..(n - 1) |-> c[q] \otimes Pow(q * ((j - i) + 1))]
           T == [i \in 0..(l - 1) |-> [q \in 0..(n - 1) |-> p[i] \otimes U(i)[q]]]
           W(q) == [i \in 0..j |-> p[i] \otimes Pow((j - i) * q)]
           b(q) == c[q] \otimes Pow(q)
<1>0. /\ l \in Nat /\ l - 1 = j /\ n \in Nat /\ \A q \in 0..(n - 1) : q \in Nat
      /\ j \in Nat /\ j \in 0..d /\ \A i \in 0..j : i \in Degrees /\ j - i \in 0..(NPAR - 1)
  BY NparAssumption DEF Degrees, MAXDEG
<1>a. (\A i \in 0..j : p[i] \in Byte) /\ \A q \in 0..(n - 1) : c[q] \in Byte
  BY <1>0 DEF Poly, Syndromes
<1>1. ASSUME NEW i \in 0..j, NEW q \in 0..(n - 1)
      PROVE  /\ U(i)[q] \in Byte /\ T[i][q] \in Byte /\ T[i][q] = p[i] \otimes U(i)[q]
             /\ b(q) \in Byte /\ W(q)[i] \in Byte /\ T[i][q] = b(q) \otimes W(q)[i]
  <2>1. j - i \in Nat /\ (j - i) + 1 \in Nat /\ q \in Nat /\ i \in 0..(l - 1)
    BY <1>0
  <2>2. q * ((j - i) + 1) \in Nat /\ (j - i) * q \in Nat
    BY <2>1
  <2>3. q * ((j - i) + 1) = q + (j - i) * q
    BY <2>1
  <2> DEFINE e == c[q]
             x == Pow(q * ((j - i) + 1))
             y == Pow(q)
             w == Pow((j - i) * q)
             h == p[i]
  <2>4. x = y \otimes w
    <3> DEFINE t == (j - i) * q
    <3>1. t \in Nat
      BY <2>2
    <3> HIDE DEF t
    <3>2. Pow(q + t) = Pow(q) \otimes Pow(t)
      BY <2>1, <3>1, PowSum
    <3> QED
      BY <2>3, <3>2 DEF t
  <2>5. e \in Byte /\ x \in Byte /\ y \in Byte /\ w \in Byte /\ h \in Byte
    BY <1>a, <2>1, <2>2, PowStep
  <2>6. U(i)[q] = e \otimes x /\ T[i][q] = h \otimes U(i)[q] /\ b(q) = e \otimes y
        /\ W(q)[i] = h \otimes w
    BY <2>1
  <2> HIDE DEF e, x, y, w, h, U, T, b, W, l
  <2>7. /\ e \otimes x \in Byte /\ e \otimes y \in Byte
        /\ h \otimes w \in Byte /\ h \otimes (e \otimes x) \in Byte
    <3>1. e \otimes x \in Byte /\ e \otimes y \in Byte /\ h \otimes w \in Byte
      BY <2>5, Closed
    <3> QED
      BY <2>5, <3>1, Closed
  <2>8. h \otimes (e \otimes x) = (e \otimes y) \otimes (h \otimes w)
    <3>1. e \otimes (y \otimes w) = (e \otimes y) \otimes w
      BY <2>5, Regroup
    <3>2. h \otimes ((e \otimes y) \otimes w) = (e \otimes y) \otimes (h \otimes w)
      BY <2>5, <2>7, Regroup
    <3> QED
      BY <2>4, <3>1, <3>2
  <2> QED
    BY <2>5, <2>6, <2>7, <2>8 DEF h
<1>2. ASSUME NEW i \in 0..j PROVE rows[i] = XorSum(T[i], n)
  <2> DEFINE f == U(i)
             h == T[i]
             a == p[i]
  <2>1. j - i \in 0..(NPAR - 1)
    BY <1>0
  <2>2. S[j - i] = XorSum(f, n)
    BY <2>1 DEF Moment, Syndromes
  <2>3. \A q \in 0..(n - 1) : f[q] \in Byte /\ h[q] = a \otimes f[q]
    BY <1>1
  <2>4. rows[i] = a \otimes S[j - i] /\ a \in Byte
    BY <1>a
  <2> HIDE DEF f, h, a, rows, T
  <2>5. XorSum(h, n) = a \otimes XorSum(f, n)
    BY <1>0, <2>3, <2>4, SumScale
  <2> QED
    BY <2>2, <2>4, <2>5 DEF h
<1>3. ASSUME NEW q \in 0..(n - 1) PROVE cols[q] = XorSum([i \in 0..(l - 1) |-> T[i][q]], l)
  <2> DEFINE h == [i \in 0..(l - 1) |-> T[i][q]]
             f == W(q)
             a == b(q)
             e == c[q]
             y == Pow(q)
             s == XorSum(f, l)
  <2>1. e \in Byte /\ y \in Byte
    BY <1>0, <1>a, PowStep
  <2>2. Quotient(p, d, q)[j] = s
    BY <1>0 DEF Quotient
  <2>3. cols[q] = e \otimes (y \otimes s) /\ a = e \otimes y
    BY <2>2
  <2>4. \A i \in 0..(l - 1) : f[i] \in Byte /\ h[i] = a \otimes f[i] /\ a \in Byte
    <3> SUFFICES ASSUME NEW i \in 0..(l - 1)
                 PROVE  f[i] \in Byte /\ h[i] = a \otimes f[i] /\ a \in Byte
      OBVIOUS
    <3>1. i \in 0..j /\ h[i] = T[i][q]
      BY <1>0
    <3> HIDE DEF h, T, f, a, W, b
    <3> QED
      BY <1>1, <3>1 DEF f, a
  <2> HIDE DEF h, f, a, e, y, T, W, b, cols, l
  <2>5. a \in Byte
    BY <2>1, <2>3, Closed
  <2>6. XorSum(h, l) = a \otimes s /\ s \in Byte
    BY <1>0, <2>4, <2>5, SumScale, SumType
  <2> HIDE DEF s
  <2>7. e \otimes (y \otimes s) = (e \otimes y) \otimes s
    BY <2>1, <2>6, Regroup
  <2> QED
    BY <2>3, <2>6, <2>7 DEF h
<1>4. \A i \in 0..(l - 1), q \in 0..(n - 1) : T[i][q] \in Byte
  BY <1>0, <1>1
<1>5. \A i \in 0..(l - 1) : rows[i] = XorSum([q \in 0..(n - 1) |-> T[i][q]], n)
  <2> SUFFICES ASSUME NEW i \in 0..(l - 1)
               PROVE  rows[i] = XorSum([q \in 0..(n - 1) |-> T[i][q]], n)
    OBVIOUS
  <2>1. T[i] = [q \in 0..(n - 1) |-> T[i][q]] /\ i \in 0..j
    BY <1>0
  <2> HIDE DEF T, rows, U
  <2> QED
    BY <1>2, <2>1
<1>6. Conv(p, S, j) = XorSum(rows, l)
  BY DEF Conv
<1> HIDE DEF T, rows, U, W, b, l
<1>7. XorSum(rows, l) = XorSum(cols, n)
  <2>1. \A q \in 0..(n - 1) : cols[q] = XorSum([i \in 0..(l - 1) |-> T[i][q]], l)
    BY <1>3
  <2> HIDE DEF cols
  <2>2. Table(T, l, n, rows, cols)
    BY <1>4, <1>5, <2>1 DEF Table
  <2> QED
    BY <1>0, <2>2, SumSwap
<1> QED
  BY <1>6, <1>7 DEF Evaluates

\* p has L degrees and vanishes at the places of the L errors c.
Places(c, n, p, L) ==
  /\ c \in [0..(n - 1) -> Byte]
  /\ p \in Poly /\ p[0] = 1 /\ L \in 0..NPAR /\ \A i \in Degrees : i > L => p[i] = 0
  /\ L = Cardinality(Wrong(c, n)) /\ \A q \in Wrong(c, n) : Root(p, L, 255 - q)

\* Its quotient Q by the factor of the place w vanishes at the others only.
Separates(Q, c, n, p, L, w) ==
  /\ L \in Nat \ {0} /\ w \in 0..254 /\ w \in 0..(n - 1)
  /\ (\A j \in 0..L : Q[j] \in Byte) /\ Q[0] = 1 /\ Q[L] = 0
  /\ \A j \in 1..L : p[j] = Q[j] \oplus (Pow(w) \otimes Q[j - 1])
  /\ \A q \in Wrong(c, n) \ {w} : Moment(Q, L, 255 - q) = 0
  /\ Moment(Q, L, 255 - w) \in Byte \ {0}

\* It has as many roots as it can have, so no other.
LEMMA PlaceQuotient ==
  ASSUME NEW n \in 0..255, NEW c, NEW p, NEW L, Places(c, n, p, L), NEW w \in Wrong(c, n)
  PROVE  Separates(Quotient(p, L, w), c, n, p, L, w)
<1> DEFINE W == Wrong(c, n)
           Q == Quotient(p, L, w)
<1>0. n \in Nat
  OBVIOUS
<1>1. \A q \in W : q \in 0..254 /\ 255 - q \in 1..255 /\ q \in Nat /\ q \in 0..(n - 1)
  BY DEF Wrong
<1>2. IsFiniteSet(W) /\ L = Cardinality(W)
  BY <1>0, FinitelyWrong DEF Places
<1>3. L \in Nat \ {0}
  <2>1. W # {}
    OBVIOUS
  <2>2. L # 0
    BY <1>2, <2>1, FS_EmptySet
  <2> QED
    BY <2>2, NparAssumption DEF Places
<1>4. (\A i \in 0..L : i \in Degrees) /\ L \in Degrees
  BY NparAssumption DEF Degrees, MAXDEG, Places
<1>5. \A i \in 0..L : p[i] \in Byte
  BY <1>4 DEF Poly, Places
<1>6. p[0] = 1 /\ \A q \in W : Root(p, L, 255 - q)
  BY DEF Places
<1> HIDE DEF W
<1>7. /\ \A j \in 0..L : Q[j] \in Byte
      /\ Q[0] = p[0]
      /\ \A j \in 1..L : Q[j] = p[j] \oplus (Pow(w) \otimes Q[j - 1])
  <2>1. w \in Nat /\ L \in Nat
    BY <1>1, <1>3 DEF W
  <2> QED
    BY <1>5, <2>1, QuotientStep
<1>8. Q[L] = 0
  <2>1. w \in 0..254 /\ Root(p, L, 255 - w) /\ L \in Nat
    BY <1>1, <1>3, <1>6 DEF W
  <2>2. Exact(p, L, w)
    BY <1>5, <2>1, RootDivision
  <2> QED
    BY <2>2 DEF Exact
<1>9. ASSUME NEW q \in W, q # w PROVE Root(Q, L - 1, 255 - q)
  <2> DEFINE t == 255 - q
  <2>1. w \in 0..254 /\ Root(p, L, 255 - w) /\ t \in 1..255 /\ t # 255 - w /\ Root(p, L, t)
    BY <1>1, <1>6, <1>9 DEF W
  <2> HIDE DEF t
  <2>2. Root(Q, L - 1, t)
    BY <1>3, <1>5, <2>1, OtherRoot
  <2> QED
    BY <2>2 DEF t
<1> HIDE DEF Q
<1>10. ASSUME NEW j \in 1..L PROVE p[j] = Q[j] \oplus (Pow(w) \otimes Q[j - 1])
  <2>1. j \in 0..L /\ j - 1 \in 0..L /\ w \in Nat
    BY <1>1, <1>3 DEF W
  <2> DEFINE x == p[j]
             y == Pow(w) \otimes Q[j - 1]
  <2>2. x \in Byte /\ y \in Byte /\ Q[j] = x \oplus y
    <3>1. Pow(w) \in Byte /\ Q[j - 1] \in Byte
      BY <1>7, <2>1, PowStep
    <3> QED
      BY <1>5, <1>7, <2>1, <3>1, Closed
  <2> HIDE DEF x, y
  <2>3. x = Q[j] \oplus y
    <3>1. (x \oplus y) \oplus y = x \oplus (y \oplus y)
      BY <2>2, Add
    <3> QED
      BY <2>2, <3>1, Units
  <2> QED
    BY <2>3 DEF x, y
<1>11. (L - 1) + 1 = L
  BY <1>3
<1>12. ASSUME NEW q \in W \ {w} PROVE Moment(Q, L, 255 - q) = 0
  <2>1. Root(Q, L - 1, 255 - q)
    BY <1>9
  <2> QED
    BY <1>11, <2>1 DEF Root
<1> DEFINE x == Moment(Q, L, 255 - w)
<1>13. x \in Byte
  <2>1. 255 - w \in Nat /\ L \in Nat /\ \A j \in 0..(L - 1) : j \in 0..L
    BY <1>1, <1>3 DEF W
  <2>2. \A j \in 0..(L - 1) : Q[j] \in Byte
    BY <1>7, <2>1
  <2> QED
    BY <2>1, <2>2, MomentType
<1>14. x # 0
  <2> SUFFICES ASSUME x = 0 PROVE FALSE
    OBVIOUS
  <2> DEFINE R == {255 - q : q \in W}
             h == [j \in 0..(L - 1) |-> Q[j]]
             f == [q \in W |-> 255 - q]
             m == L - 1
  <2>1. m \in Nat /\ h \in [0..m -> Byte] /\ h[0] # 0 /\ \A j \in 0..m : h[j] = Q[j] /\ Q[j] \in Byte
    <3>1. m \in Nat /\ \A j \in 0..m : j \in 0..L
      BY <1>3
    <3>2. \A j \in 0..m : Q[j] \in Byte
      BY <1>7, <3>1
    <3>3. h[0] = Q[0]
      BY <3>1
    <3> QED
      BY <1>6, <1>7, <3>1, <3>2, <3>3
  <2> HIDE DEF h
  <2>2. ASSUME NEW q \in W PROVE Root(h, m, 255 - q)
    <3> DEFINE t == 255 - q
    <3>1. Moment(Q, L, t) = 0
      <4>1. CASE q = w
        BY <4>1
      <4>2. CASE q # w
        BY <1>12, <4>2
      <4> QED
        BY <4>1, <4>2
    <3>2. t \in Nat /\ m + 1 = L /\ L \in Nat /\ L <= L /\ L - 1 = m /\ \A j \in L..(L - 1) : Q[j] = 0
      BY <1>1, <1>3
    <3> HIDE DEF t, m
    <3>3. Moment(h, L, t) = Moment(Q, L, t)
      BY <2>1, <3>2, MomentLonger
    <3> QED
      BY <3>1, <3>2, <3>3 DEF Root, t
  <2>3. R \in SUBSET (1..255) /\ \A r \in R : Root(h, m, r)
    BY <1>1, <2>2
  <2>4. f \in Injection(W, R)
    <3>1. f \in [W -> R] /\ (\A a, b \in W : f[a] = f[b] => a = b) /\ DOMAIN f = W
      BY <1>1
    <3> HIDE DEF f, R
    <3> QED
      BY <3>1 DEF Injection, IsInjective
  <2> HIDE DEF R, f, m
  <2>5. IsFiniteSet(R) /\ Cardinality(R) <= m
    BY <2>1, <2>3, FewRoots
  <2>6. Cardinality(W) <= Cardinality(R)
    BY <2>4, <2>5, FS_Injection
  <2>7. Cardinality(R) \in Nat
    BY <2>5, FS_CardinalityType
  <2> QED
    BY <1>2, <1>3, <2>5, <2>6, <2>7 DEF m
<1> HIDE DEF x
<1>15. w \in 0..254 /\ w \in 0..(n - 1)
  BY <1>1 DEF W
<1>16. Separates(Q, c, n, p, L, w)
  BY <1>3, <1>6, <1>7, <1>8, <1>10, <1>12, <1>13, <1>14, <1>15 DEF Separates, W, x
<1> QED
  BY <1>16 DEF Q

\* Two coefficients of a quotient, and the one of the locator over them.
LEMMA PairTerm ==
  ASSUME NEW a \in Byte, NEW b \in Byte, NEW x \in Byte, NEW y \in Byte, NEW z \in Byte,
         x \otimes z = 1
  PROVE  (b \oplus (x \otimes a)) \otimes y = x \otimes ((a \otimes y) \oplus (b \otimes (y \otimes z)))
<1> DEFINE s == a \otimes y
           t == y \otimes z
           u == b \otimes t
           v == x \otimes a
<1>1. s \in Byte /\ t \in Byte /\ u \in Byte /\ v \in Byte
  <2>1. s \in Byte /\ t \in Byte /\ v \in Byte
    BY Closed
  <2> QED
    BY <2>1, Closed
<1>2. v \otimes y = x \otimes s
  BY Regroup
<1>3. x \otimes t = y
  <2>1. x \otimes (y \otimes z) = y \otimes (x \otimes z)
    BY Regroup
  <2> QED
    BY <2>1, Units
<1>4. x \otimes u = b \otimes (x \otimes t)
  <2> HIDE DEF t
  <2> QED
    BY <1>1, Regroup
<1>5. x \otimes (s \oplus u) = (x \otimes s) \oplus (x \otimes u)
  <2> HIDE DEF s, u
  <2> QED
    BY <1>1, Distribute
<1>6. (b \oplus v) \otimes y = (b \otimes y) \oplus (v \otimes y)
  <2> HIDE DEF v
  <2> QED
    BY <1>1, Distribute
<1>7. b \otimes y \in Byte /\ x \otimes s \in Byte
  <2> HIDE DEF s
  <2> QED
    BY <1>1, Closed
<1>8. (b \otimes y) \oplus (x \otimes s) = (x \otimes s) \oplus (b \otimes y)
  <2> HIDE DEF s
  <2> QED
    BY <1>7, Closed
<1> HIDE DEF s, t, u, v
<1> QED
  BY <1>2, <1>3, <1>4, <1>5, <1>6, <1>8 DEF s, t, u, v

\* The derivative of the locator at the place of an error: all other factors there.
LEMMA DenominatorValue ==
  ASSUME NEW n \in 0..255, NEW c, NEW p, NEW L, Places(c, n, p, L), NEW w, NEW Q,
         Separates(Q, c, n, p, L, w)
  PROVE  Denominator(p, w) = Pow(w) \otimes Moment(Q, L, 255 - w)
<1> DEFINE r == 255 - w
           e == [i \in Degrees |-> IF i < L THEN Q[i] ELSE 0]
           f == [i \in 0..(MAXDEG - 1) |-> e[i] \otimes Pow(i * r)]
           g == [j \in 0..(NPAR - 1) |-> f[2 * j] \oplus f[2 * j + 1]]
           h == [j \in 0..(NPAR - 1) |-> gmult[p[2 * j + 1]][gexp[((255 - w) * (2 * j)) % 255]]]
           x == Pow(w)
           z == Pow(r)
<1>1. /\ NPAR \in Nat /\ MAXDEG = 2 * NPAR /\ MAXDEG \in Nat /\ Degrees = 0..(MAXDEG - 1)
      /\ L \in Nat /\ L <= MAXDEG /\ w \in 0..254 /\ r \in 1..255 /\ r \in Nat /\ w \in Nat
      /\ L <= NPAR /\ L # 0
  BY NparAssumption DEF Degrees, MAXDEG, Places, Separates
<1>2. x \in Byte /\ z \in Byte /\ x \otimes z = 1
  <2>1. w \in 0..255
    BY <1>1
  <2> QED
    BY <1>1, <2>1, PowInverse, PowStep
<1>3. /\ \A i \in 0..L : Q[i] \in Byte
      /\ Q[L] = 0 /\ \A j \in 1..L : p[j] = Q[j] \oplus (x \otimes Q[j - 1])
  BY DEF Separates
<1>4. (\A i \in Degrees : p[i] \in Byte) /\ \A i \in Degrees : i > L => p[i] = 0
  BY DEF Places, Poly
<1>5. \A i \in Degrees : e[i] \in Byte /\ (i < L => e[i] = Q[i]) /\ (i >= L => e[i] = 0)
  BY <1>1, <1>3, ZeroByte
<1>6. \A i \in Degrees : f[i] = e[i] \otimes Pow(i * r) /\ f[i] \in Byte
  <2> SUFFICES ASSUME NEW i \in Degrees PROVE f[i] = e[i] \otimes Pow(i * r) /\ f[i] \in Byte
    OBVIOUS
  <2>1. i \in Nat /\ e[i] \in Byte /\ f[i] = e[i] \otimes Pow(i * r)
    BY <1>1, <1>5
  <2> HIDE DEF r, e, f
  <2> QED
    BY <1>1, <2>1, TermType
<1>7. Denominator(p, w) = XorSum(h, NPAR)
  BY DEF Denominator
<1>8. Moment(e, MAXDEG, r) = XorSum(f, MAXDEG)
  BY DEF Moment
<1>9. Moment(Q, L, r) = Moment(e, MAXDEG, r)
  <2>1. \A q \in 0..(MAXDEG - 1) : e[q] \in Byte
    BY <1>1, <1>5
  <2>2. \A q \in L..(MAXDEG - 1) : e[q] = 0
    BY <1>1, <1>5
  <2>3. \A q \in 0..(L - 1) : Q[q] = e[q]
    BY <1>1, <1>5
  <2> HIDE DEF e, r
  <2> QED
    BY <1>1, <2>1, <2>2, <2>3, MomentLonger
<1>10. ASSUME NEW j \in 0..(NPAR - 1)
       PROVE  /\ g[j] \in Byte /\ h[j] = x \otimes g[j]
              /\ g[j] = f[2 * j] \oplus f[2 * j + 1]
  <2> DEFINE k == 2 * j
             m == k + 1
             a == e[k]
             b == e[m]
             y == Pow(k * r)
  <2>1. k \in Degrees /\ m \in Degrees /\ k \in Nat /\ m \in Nat /\ m \in 1..MAXDEG /\ m - 1 = k
    BY <1>1
  <2>2. a \in Byte /\ b \in Byte
    BY <1>5, <2>1
  <2>3. k * r \in Nat /\ m * r = k * r + r /\ (255 - w) * (2 * j) = k * r
    BY <1>1, <2>1
  <2>4. y \in Byte /\ Pow(m * r) = y \otimes z
    <3> DEFINE s == k * r
    <3>1. s \in Nat
      BY <2>3
    <3> HIDE DEF s, r
    <3>2. Pow(s) \in Byte /\ Pow(s + r) = Pow(s) \otimes Pow(r)
      BY <1>1, <3>1, PowSum
    <3> QED
      BY <2>3, <3>2 DEF s
  <2>5. g[j] = f[k] \oplus f[m] /\ f[k] = a \otimes y /\ f[m] = b \otimes (y \otimes z)
        /\ f[k] \in Byte /\ f[m] \in Byte
    <3>1. g[j] = f[k] \oplus f[m]
      OBVIOUS
    <3>2. f[k] = a \otimes y /\ f[k] \in Byte
      BY <1>6, <2>1
    <3>3. f[m] = b \otimes Pow(m * r) /\ f[m] \in Byte
      BY <1>6, <2>1
    <3> HIDE DEF f, g, y, z, r, e, k, m
    <3> QED
      BY <2>4, <3>1, <3>2, <3>3
  <2>6. h[j] = p[m] \otimes y
    <3>1. h[j] = gmult[p[m]][gexp[((255 - w) * (2 * j)) % 255]]
      OBVIOUS
    <3>2. h[j] = gmult[p[m]][gexp[(k * r) % 255]]
      BY <2>3, <3>1
    <3> HIDE DEF h, k, r, m
    <3> QED
      BY <3>2 DEF \otimes, Pow
  <2>7. p[m] = b \oplus (x \otimes a)
    <3>1. CASE m < L
      <4>1. m \in 1..L /\ k < L
        BY <1>1, <2>1, <3>1
      <4>2. p[m] = Q[m] \oplus (x \otimes Q[k])
        BY <1>3, <2>1, <4>1
      <4>3. b = Q[m] /\ a = Q[k]
        BY <1>5, <2>1, <3>1, <4>1
      <4> QED
        BY <4>2, <4>3
    <3>2. CASE m = L
      <4>1. m \in 1..L /\ k < L /\ m >= L
        BY <1>1, <2>1, <3>2
      <4>2. p[m] = Q[m] \oplus (x \otimes Q[k]) /\ Q[m] = 0
        BY <1>3, <2>1, <3>2, <4>1
      <4>3. b = 0 /\ a = Q[k]
        BY <1>5, <2>1, <4>1
      <4> QED
        BY <4>2, <4>3
    <3>3. CASE m > L
      <4>1. k >= L /\ m >= L
        BY <1>1, <2>1, <3>3
      <4>2. b = 0 /\ a = 0 /\ p[m] = 0
        BY <1>4, <1>5, <2>1, <3>3, <4>1
      <4> HIDE DEF x
      <4> QED
        BY <1>2, <4>2, Units, ZeroByte
    <3> QED
      BY <1>1, <2>1, <3>1, <3>2, <3>3
  <2> HIDE DEF k, m, a, b, y, x, z, f, g, h, e, r
  <2>8. g[j] \in Byte
    BY <2>5, Closed
  <2>9. (b \oplus (x \otimes a)) \otimes y = x \otimes ((a \otimes y) \oplus (b \otimes (y \otimes z)))
    BY <1>2, <2>2, <2>4, PairTerm
  <2>10. h[j] = x \otimes g[j]
    BY <2>5, <2>6, <2>7, <2>9
  <2> QED
    BY <2>5, <2>8, <2>10 DEF k, m
<1>11. \A i \in 0..(2 * NPAR - 1) : f[i] \in Byte
  BY <1>1, <1>6
<1> HIDE DEF f, g, h, e, x, r
<1>12. XorSum(f, 2 * NPAR) = XorSum(g, NPAR)
  BY <1>1, <1>10, <1>11, SumPairs
<1>13. XorSum(h, NPAR) = x \otimes XorSum(g, NPAR)
  BY <1>1, <1>2, <1>10, SumScale
<1> QED
  BY <1>1, <1>7, <1>8, <1>9, <1>12, <1>13 DEF x, r

\* The error evaluator has fewer degrees than there are errors.
LEMMA OmegaValue ==
  ASSUME NEW n \in 0..255, NEW c, NEW S, Syndromes(S, c, n), NEW p, NEW L, Locator(p, c, n, S, L)
  PROVE  /\ Omega(p, S) \in Poly
         /\ \A j \in Degrees : j < NPAR => Omega(p, S)[j] = Conv(p, S, j)
         /\ \A j \in Degrees : j >= L => Omega(p, S)[j] = 0
<1> DEFINE o == Omega(p, S)
<1>1. p \in Poly /\ S \in Poly /\ L \in Nat /\ \A m \in L..(NPAR - 1) : Conv(p, S, m) = 0
  BY DEF Locator, Syndromes
<1>2. Degrees = 0..(MAXDEG - 1) /\ MAXDEG \in Nat /\ NPAR \in Nat
  BY NparAssumption DEF Degrees, MAXDEG
<1>3. o = [i \in Degrees |-> IF i < NPAR THEN mult_polys(p, S)[i] ELSE 0]
  BY DEF Omega
<1> HIDE DEF o
<1>4. ASSUME NEW j \in Degrees PROVE o[j] = IF j < NPAR THEN Conv(p, S, j) ELSE 0
  <2>1. mult_polys(p, S)[j] = Conv(p, S, j)
    BY <1>1, ProductConv
  <2> QED
    BY <1>3, <2>1
<1>5. ASSUME NEW j \in Degrees PROVE Conv(p, S, j) \in Byte
  BY <1>1, ConvType
<1>6. \A j \in Degrees : o[j] \in Byte
  BY <1>4, <1>5, ZeroByte
<1>7. o \in Poly
  BY <1>3, <1>6 DEF Poly
<1>8. \A j \in Degrees : j >= L => o[j] = 0
  <2> SUFFICES ASSUME NEW j \in Degrees, j >= L PROVE o[j] = 0
    OBVIOUS
  <2>1. j < NPAR => j \in L..(NPAR - 1)
    BY <1>1, <1>2
  <2> QED
    BY <1>1, <1>4, <2>1
<1>9. \A j \in Degrees : j < NPAR => o[j] = Conv(p, S, j)
  BY <1>4
<1> QED
  BY <1>2, <1>7, <1>8, <1>9 DEF o

\* The evaluator at the place of an error: what the derivative comes to, times the error.
LEMMA NumeratorValue ==
  ASSUME NEW n \in 0..255, NEW c, NEW S, Syndromes(S, c, n), NEW p, NEW L, Locator(p, c, n, S, L),
         Places(c, n, p, L), NEW w \in Wrong(c, n)
  PROVE  Numerator(Omega(p, S), w)
           = c[w] \otimes (Pow(w) \otimes Moment(Quotient(p, L, w), L, 255 - w))
<1> DEFINE r == 255 - w
           o == Omega(p, S)
           Q(q) == Quotient(p, L, q)
           f == [j \in Degrees |-> gmult[o[j]][gexp[((255 - w) * j) % 255]]]
           g == [j \in 0..(MAXDEG - 1) |-> o[j] \otimes Pow(j * r)]
           rows == [j \in 0..(L - 1) |-> o[j] \otimes Pow(j * r)]
           term(q, j) == c[q] \otimes (Pow(q) \otimes Q(q)[j])
           T == [j \in 0..(L - 1) |-> [q \in 0..(n - 1) |-> Pow(j * r) \otimes term(q, j)]]
           cols == [q \in 0..(n - 1) |-> (c[q] \otimes Pow(q)) \otimes Moment(Q(q), L, r)]
<1>1. /\ n \in Nat /\ NPAR \in Nat /\ MAXDEG \in Nat /\ Degrees = 0..(MAXDEG - 1)
      /\ L \in Nat /\ L <= MAXDEG /\ L <= NPAR /\ w \in 0..254 /\ w \in 0..(n - 1) /\ r \in Nat
      /\ (\A j \in 0..(L - 1) : j \in Nat /\ j \in Degrees /\ j < NPAR /\ j \in 0..L)
      /\ (\A q \in 0..(n - 1) : q \in Nat)
  <2>1. L \in 0..NPAR /\ w \in 0..(n - 1)
    BY DEF Places, Wrong
  <2> HIDE DEF f, g, rows, cols, T, o
  <2>2. /\ n \in Nat /\ NPAR \in Nat /\ MAXDEG \in Nat /\ Degrees = 0..(MAXDEG - 1)
        /\ L \in Nat /\ L <= MAXDEG /\ L <= NPAR /\ w \in 0..254 /\ r \in Nat
    BY <2>1, NparAssumption DEF Degrees, MAXDEG
  <2>3. \A j \in 0..(L - 1) : j \in Nat /\ j \in Degrees /\ j < NPAR /\ j \in 0..L
    BY <2>2
  <2>4. \A q \in 0..(n - 1) : q \in Nat
    BY <2>2
  <2> QED
    BY <2>1, <2>2, <2>3, <2>4
<1>2. /\ o \in Poly /\ (\A j \in Degrees : o[j] \in Byte)
      /\ (\A j \in Degrees : j < NPAR => o[j] = Conv(p, S, j))
      /\ (\A j \in Degrees : j >= L => o[j] = 0)
  <2>1. /\ o \in Poly
        /\ (\A j \in Degrees : j < NPAR => o[j] = Conv(p, S, j))
        /\ (\A j \in Degrees : j >= L => o[j] = 0)
    BY OmegaValue
  <2> QED
    BY <2>1 DEF Poly
<1>3. /\ c \in [0..(n - 1) -> Byte] /\ (\A q \in 0..(n - 1) : c[q] \in Byte)
      /\ p \in Poly /\ \A i \in 0..L : p[i] \in Byte
  BY <1>1, NparAssumption DEF Places, Poly, Degrees, MAXDEG
<1>4. ASSUME NEW q \in 0..(n - 1), NEW j \in 0..(L - 1) PROVE Q(q)[j] \in Byte
  BY <1>1, <1>3, QuotientStep
<1>5. Numerator(o, w) = Moment(o, L, r)
  <2>1. Numerator(o, w) = XorSum(f, MAXDEG)
    BY DEF Numerator
  <2>2. Moment(o, MAXDEG, r) = XorSum(g, MAXDEG)
    BY DEF Moment
  <2>3. \A j \in 0..(MAXDEG - 1) : g[j] \in Byte /\ f[j] = g[j]
    <3> SUFFICES ASSUME NEW j \in 0..(MAXDEG - 1) PROVE g[j] \in Byte /\ f[j] = g[j]
      OBVIOUS
    <3>1. j \in Degrees /\ j \in Nat /\ o[j] \in Byte
      BY <1>1, <1>2
    <3>2. (255 - w) * j = j * r
      BY <1>1, <3>1
    <3>3. f[j] = gmult[o[j]][gexp[((255 - w) * j) % 255]] /\ g[j] = o[j] \otimes Pow(j * r)
      BY <3>1
    <3>4. f[j] = gmult[o[j]][gexp[(j * r) % 255]]
      BY <3>2, <3>3
    <3> HIDE DEF f, g, r, o
    <3> QED
      BY <1>1, <3>1, <3>3, <3>4, TermType DEF \otimes, Pow
  <2> HIDE DEF f, g
  <2>4. XorSum(f, MAXDEG) = XorSum(g, MAXDEG)
    BY <1>1, <2>3, SumEqual
  <2>5. Moment(o, L, r) = Moment(o, MAXDEG, r)
    <3>1. (\A q \in 0..(MAXDEG - 1) : o[q] \in Byte) /\ \A q \in L..(MAXDEG - 1) : o[q] = 0
      BY <1>1, <1>2
    <3> HIDE DEF o, r
    <3> QED
      BY <1>1, <3>1, MomentLonger
  <2> QED
    BY <2>1, <2>2, <2>4, <2>5
<1>6. ASSUME NEW j \in 0..(L - 1), NEW q \in 0..(n - 1)
      PROVE  /\ Pow(j * r) \in Byte /\ term(q, j) \in Byte /\ T[j][q] \in Byte
             /\ T[j][q] = Pow(j * r) \otimes term(q, j)
             /\ T[j][q] = (c[q] \otimes Pow(q)) \otimes (Q(q)[j] \otimes Pow(j * r))
             /\ Q(q)[j] \otimes Pow(j * r) \in Byte /\ c[q] \otimes Pow(q) \in Byte
  <2> DEFINE a == c[q]
             x == Pow(q)
             y == Q(q)[j]
             z == Pow(j * r)
  <2>1. j * r \in Nat
    BY <1>1
  <2>2. a \in Byte /\ x \in Byte /\ y \in Byte /\ z \in Byte
    BY <1>1, <1>3, <1>4, <2>1, PowStep
  <2>3. T[j][q] = z \otimes (a \otimes (x \otimes y)) /\ term(q, j) = a \otimes (x \otimes y)
    OBVIOUS
  <2> HIDE DEF a, x, y, z, T, term, Q
  <2>4. x \otimes y \in Byte /\ a \otimes x \in Byte /\ y \otimes z \in Byte
    BY <2>2, Closed
  <2>5. a \otimes (x \otimes y) \in Byte
    BY <2>2, <2>4, Closed
  <2>6. z \otimes (a \otimes (x \otimes y)) \in Byte
    BY <2>2, <2>5, Closed
  <2>7. a \otimes (x \otimes y) = (a \otimes x) \otimes y
    BY <2>2, Regroup
  <2>8. z \otimes ((a \otimes x) \otimes y) = (a \otimes x) \otimes (z \otimes y)
    BY <2>2, <2>4, Regroup
  <2>9. z \otimes y = y \otimes z
    BY <2>2, Closed
  <2> QED
    BY <2>2, <2>3, <2>4, <2>5, <2>6, <2>7, <2>8, <2>9 DEF a, x, y, z
<1>7. ASSUME NEW j \in 0..(L - 1) PROVE rows[j] = XorSum([q \in 0..(n - 1) |-> T[j][q]], n)
  <2> DEFINE h == [q \in 0..(n - 1) |-> T[j][q]]
             t == [q \in 0..(n - 1) |-> term(q, j)]
             z == Pow(j * r)
  <2>1. Conv(p, S, j) = XorSum(t, n)
    <3>1. L \in 0..NPAR
      BY <1>1
    <3>2. Evaluates(c, n, p, L, S, j)
      BY <1>3, <3>1, Evaluator
    <3> QED
      BY <3>2 DEF Evaluates
  <2>2. o[j] = XorSum(t, n)
    BY <1>1, <1>2, <2>1
  <2>3. rows[j] = o[j] \otimes z
    OBVIOUS
  <2>4. \A q \in 0..(n - 1) : t[q] \in Byte /\ h[q] = z \otimes t[q]
    <3> SUFFICES ASSUME NEW q \in 0..(n - 1) PROVE t[q] \in Byte /\ h[q] = z \otimes t[q]
      OBVIOUS
    <3>1. t[q] = term(q, j) /\ h[q] = T[j][q]
      OBVIOUS
    <3> HIDE DEF t, h, T, term
    <3> QED
      BY <1>6, <3>1
  <2>5. z \in Byte
    <3>1. j * r \in Nat
      BY <1>1
    <3> QED
      BY <3>1, PowStep
  <2> HIDE DEF h, t, z, o, rows
  <2>6. XorSum(h, n) = z \otimes XorSum(t, n) /\ XorSum(t, n) \in Byte
    BY <1>1, <2>4, <2>5, SumScale, SumType
  <2> DEFINE s == XorSum(t, n)
  <2> HIDE DEF s
  <2>7. s \otimes z = z \otimes s
    <3>1. s \in Byte
      BY <2>6 DEF s
    <3> QED
      BY <2>5, <3>1, Closed
  <2> QED
    BY <2>2, <2>3, <2>6, <2>7 DEF h, s
<1>8. ASSUME NEW q \in 0..(n - 1)
      PROVE  /\ cols[q] = XorSum([j \in 0..(L - 1) |-> T[j][q]], L)
             /\ Moment(Q(q), L, r) \in Byte
  <2> DEFINE h == [j \in 0..(L - 1) |-> T[j][q]]
             t == [j \in 0..(L - 1) |-> Q(q)[j] \otimes Pow(j * r)]
             a == c[q] \otimes Pow(q)
  <2>1. Moment(Q(q), L, r) = XorSum(t, L)
    BY DEF Moment
  <2>2. cols[q] = a \otimes Moment(Q(q), L, r)
    OBVIOUS
  <2>3. a \in Byte
    <3>1. c[q] \in Byte /\ Pow(q) \in Byte
      BY <1>1, <1>3, PowStep
    <3> QED
      BY <3>1, Closed
  <2>4. \A j \in 0..(L - 1) : t[j] \in Byte /\ h[j] = a \otimes t[j]
    <3> SUFFICES ASSUME NEW j \in 0..(L - 1) PROVE t[j] \in Byte /\ h[j] = a \otimes t[j]
      OBVIOUS
    <3>1. t[j] = Q(q)[j] \otimes Pow(j * r) /\ h[j] = T[j][q]
      OBVIOUS
    <3> HIDE DEF t, h, T, Q
    <3> QED
      BY <1>6, <3>1
  <2>5. Moment(Q(q), L, r) \in Byte
    <3>1. \A j \in 0..(L - 1) : Q(q)[j] \in Byte
      BY <1>4
    <3> HIDE DEF Q, r
    <3> QED
      BY <1>1, <3>1, MomentType
  <2> HIDE DEF h, t, a, cols, Q
  <2>6. XorSum(h, L) = a \otimes XorSum(t, L)
    BY <1>1, <2>3, <2>4, SumScale
  <2> QED
    BY <2>1, <2>2, <2>5, <2>6 DEF h
<1>9. XorSum(rows, L) = XorSum(cols, n)
  <2>1. \A j \in 0..(L - 1), q \in 0..(n - 1) : T[j][q] \in Byte
    BY <1>6
  <2>2. \A j \in 0..(L - 1) : rows[j] = XorSum([q \in 0..(n - 1) |-> T[j][q]], n)
    BY <1>7
  <2>3. \A q \in 0..(n - 1) : cols[q] = XorSum([j \in 0..(L - 1) |-> T[j][q]], L)
    BY <1>8
  <2> HIDE DEF T, rows, cols
  <2>4. Table(T, L, n, rows, cols)
    BY <2>1, <2>2, <2>3 DEF Table
  <2> QED
    BY <1>1, <2>4, SumSwap
<1>10. Moment(o, L, r) = XorSum(rows, L)
  BY DEF Moment
<1>11. ASSUME NEW q \in 0..(n - 1), q # w PROVE cols[q] = 0
  <2> DEFINE a == c[q]
             x == Pow(q)
             y == Moment(Q(q), L, r)
  <2>1. a \in Byte /\ x \in Byte /\ y \in Byte
    BY <1>1, <1>3, <1>8, PowStep
  <2>2. cols[q] = (a \otimes x) \otimes y
    OBVIOUS
  <2>3. a = 0 \/ y = 0
    <3>1. CASE c[q] = 0
      BY <3>1
    <3>2. CASE c[q] # 0
      <4>1. q \in Wrong(c, n) /\ w \in Wrong(c, n) \ {q}
        BY <1>11, <3>2 DEF Wrong
      <4>2. Separates(Quotient(p, L, q), c, n, p, L, q)
        BY <4>1, PlaceQuotient
      <4>3. Moment(Quotient(p, L, q), L, 255 - w) = 0
        BY <4>1, <4>2 DEF Separates
      <4> QED
        BY <4>3
    <3> QED
      BY <3>1, <3>2
  <2> HIDE DEF a, x, y, cols
  <2>4. a \otimes x \in Byte
    BY <2>1, Closed
  <2>5. a = 0 => a \otimes x = 0
    BY <2>1, Units
  <2> QED
    BY <2>1, <2>2, <2>3, <2>4, <2>5, Units, ZeroByte
<1> DEFINE m == Moment(Q(w), L, r)
<1>12. cols[w] = (c[w] \otimes Pow(w)) \otimes m /\ m \in Byte /\ c[w] \in Byte /\ Pow(w) \in Byte
  BY <1>1, <1>3, <1>8, PowStep
<1> HIDE DEF m, cols, rows, o
<1>13. /\ c[w] \otimes Pow(w) \in Byte
       /\ (c[w] \otimes Pow(w)) \otimes m = c[w] \otimes (Pow(w) \otimes m)
  <2> DEFINE a == c[w]
             x == Pow(w)
  <2>1. a \in Byte /\ x \in Byte /\ m \in Byte
    BY <1>12
  <2> HIDE DEF a, x
  <2>2. a \otimes x \in Byte
    BY <2>1, Closed
  <2>3. (a \otimes x) \otimes m = a \otimes (x \otimes m)
    BY <2>1, Regroup
  <2> QED
    BY <2>2, <2>3 DEF a, x
<1>14. cols[w] \in Byte
  BY <1>12, <1>13, Closed
<1>15. XorSum(cols, n) = cols[w]
  BY <1>1, <1>11, <1>14, SumSingle
<1> QED
  BY <1>5, <1>9, <1>10, <1>12, <1>13, <1>15 DEF m, o

-----------------------------------------------------------------------------
(***************************************************************************)
(* The decoder as a whole: what it makes of a word of a code, with errors. *)
(***************************************************************************)

\* The decoder corrects what does not pass.
LEMMA DecodeDef ==
  ASSUME NEW data, NEW n, synBytes(data, n) \in Poly
  PROVE  rscode_decode(data, n)
           = IF check_syndrome(synBytes(data, n)) THEN correct_errors_erasures(data, n, synBytes(data, n))
             ELSE [word |-> data, defined |-> TRUE]
<1> DEFINE s == synBytes(data, n)
<1>1. rscode_decode(data, n)
        = [S \in Poly |-> IF check_syndrome(S) THEN correct_errors_erasures(data, n, S)
                          ELSE [word |-> data, defined |-> TRUE]][s]
  BY DEF rscode_decode
<1> HIDE DEF s
<1> QED
  BY <1>1 DEF s

\* What the correction makes of a word once errors are located.
CorrectedWord(data, n, p, o) ==
  [i \in DOMAIN data |->
     IF n - 1 - i \in ErrorLocs(p)
     THEN Xor[data[i]][gmult[Numerator(o, n - 1 - i)][ginv[Denominator(p, n - 1 - i)]]]
     ELSE data[i]]

\* That is the correction, unless it gives up or would divide by zero.
LEMMA CorrectDef ==
  ASSUME NEW data, NEW n, NEW S, Lambda(S) \in Poly, Omega(Lambda(S), S) \in Poly,
         ErrorLocs(Lambda(S)) \in SUBSET (0..254), ErrorLocs(Lambda(S)) # {},
         ~(Cardinality(ErrorLocs(Lambda(S))) > NPAR),
         \A w \in ErrorLocs(Lambda(S)) : ~(w >= n) /\ Denominator(Lambda(S), w) # 0
  PROVE  correct_errors_erasures(data, n, S)
           = [word |-> CorrectedWord(data, n, Lambda(S), Omega(Lambda(S), S)), defined |-> TRUE]
<1> DEFINE c(l, o, x) ==
             IF x = {} \/ Cardinality(x) > NPAR \/ \E i \in x : i >= n
             THEN [word |-> data, defined |-> TRUE]
             ELSE IF \E i \in x : Denominator(l, i) = 0
             THEN [word |-> data, defined |-> FALSE]
             ELSE [word |-> [i \in DOMAIN data |->
                               IF n - 1 - i \in x
                               THEN Xor[data[i]][gmult[Numerator(o, n - 1 - i)]
                                                      [ginv[Denominator(l, n - 1 - i)]]]
                               ELSE data[i]],
                   defined |-> TRUE]
<1>1. correct_errors_erasures(data, n, S)
        = [lambda \in Poly |->
             [l \in Poly |-> [omega \in Poly |-> [locs \in SUBSET (0 .. 254) |-> c(l, omega, locs)]]]
               [lambda][Omega(lambda, S)][ErrorLocs(lambda)]][Lambda(S)]
  BY DEF correct_errors_erasures
<1> DEFINE p == Lambda(S)
           o == Omega(p, S)
           W == ErrorLocs(p)
<1>2. p \in Poly /\ o \in Poly /\ W \in SUBSET (0..254)
  OBVIOUS
<1>3. c(p, o, W) = [word |-> CorrectedWord(data, n, p, o), defined |-> TRUE]
  BY DEF CorrectedWord
<1> HIDE DEF c
<1>4. correct_errors_erasures(data, n, S)
        = [l \in Poly |-> [omega \in Poly |-> [locs \in SUBSET (0 .. 254) |-> c(l, omega, locs)]]][p][o][W]
  BY <1>1, <1>2
<1> HIDE DEF p, o, W
<1>5. correct_errors_erasures(data, n, S) = c(p, o, W)
  BY <1>2, <1>4
<1> QED
  BY <1>3, <1>5 DEF p, o, W

\* The division at the place of an error is defined, and comes to the error.
LEMMA ErrorValue ==
  ASSUME NEW n \in 0..255, NEW c, NEW S, Syndromes(S, c, n), NEW p, NEW L, Locator(p, c, n, S, L),
         Places(c, n, p, L), NEW w \in Wrong(c, n)
  PROVE  /\ Denominator(p, w) # 0
         /\ gmult[Numerator(Omega(p, S), w)][ginv[Denominator(p, w)]] = c[w]
<1> DEFINE Q == Quotient(p, L, w)
           x == Pow(w)
           y == Moment(Q, L, 255 - w)
           d == Denominator(p, w)
           m == Numerator(Omega(p, S), w)
           e == c[w]
<1>1. Separates(Q, c, n, p, L, w)
  BY PlaceQuotient
<1>2. d = x \otimes y
  BY <1>1, DenominatorValue
<1>3. m = e \otimes (x \otimes y)
  BY NumeratorValue
<1>4. x \in Byte \ {0} /\ y \in Byte \ {0} /\ e \in Byte
  <2>1. w \in 0..254 /\ w \in 0..(n - 1) /\ w \in Nat
    BY <1>1 DEF Separates
  <2>2. e \in Byte
    BY <2>1 DEF Places
  <2>3. y \in Byte \ {0}
    BY <1>1 DEF Separates
  <2> QED
    BY <2>1, <2>2, <2>3, PowNotZero
<1> HIDE DEF Q, x, y, d, m, e
<1>5. d \in Byte /\ d # 0
  BY <1>2, <1>4, Closed, NoDivisors
<1>6. ginv[d] \in Byte /\ d \otimes ginv[d] = 1
  BY <1>5, Inverses
<1>7. m \otimes ginv[d] = e
  <2> DEFINE g == ginv[d]
  <2> HIDE DEF g
  <2>1. m = e \otimes d
    BY <1>2, <1>3
  <2>2. (e \otimes d) \otimes g = e \otimes (d \otimes g)
    BY <1>4, <1>5, <1>6, Regroup DEF g
  <2>3. (e \otimes d) \otimes g = e
    BY <1>4, <1>6, <2>2, Units DEF g
  <2> QED
    BY <2>1, <2>3 DEF g
<1> QED
  BY <1>5, <1>7 DEF d, m, e, \otimes

\* The word fixed is the word data without the errors c.
Without(fixed, data, c, n) ==
  /\ fixed.defined = TRUE
  /\ \A i \in DOMAIN data :
       fixed.word[i] = IF n - 1 - i \in Wrong(c, n) THEN data[i] \oplus c[n - 1 - i] ELSE data[i]

\* Up to NPAR / 2 errors are taken away.
LEMMA Corrects ==
  ASSUME NEW n \in 0..255, NEW c, NEW S, Syndromes(S, c, n),
         2 * Cardinality(Wrong(c, n)) <= NPAR, Wrong(c, n) # {}, NEW data
  PROVE  Without(correct_errors_erasures(data, n, S), data, c, n)
<1> DEFINE p == Lambda(S)
           W == Wrong(c, n)
           o == Omega(p, S)
           v == Cardinality(W)
<1>1. v \in Nat /\ NPAR \in Nat /\ n \in Nat /\ v <= NPAR /\ ~(v > NPAR)
  <2>1. n \in Nat
    OBVIOUS
  <2>2. v \in Nat
    BY <2>1, FinitelyWrong
  <2>3. NPAR \in Nat
    BY NparAssumption
  <2> HIDE DEF W, v
  <2>4. 2 * v <= NPAR
    BY DEF W, v
  <2> QED
    BY <2>1, <2>2, <2>3, <2>4
<1>2. PICK L : Locator(p, c, n, S, L)
  BY <1>1, AllTurns
<1>3. Located(c, n, p, L)
  BY <1>2, LocatorLocates
<1>4. Places(c, n, p, L)
  <2>1. /\ p \in Poly /\ p[0] = 1 /\ L \in Nat /\ L <= v /\ \A i \in Degrees : i > L => p[i] = 0
    BY <1>2 DEF Locator
  <2>2. L \in 0..NPAR
    BY <1>1, <2>1
  <2> QED
    BY <1>3, <2>1, <2>2 DEF Places, Located, Syndromes
<1>5. o \in Poly /\ p \in Poly
  BY <1>2, OmegaValue DEF Locator
<1>6. ErrorLocs(p) = W
  BY <1>3 DEF Located
<1>7. \A w \in W : w \in 0..(n - 1) /\ w \in 0..254 /\ ~(w >= n)
  BY DEF Wrong
<1>8. \A w \in W : Denominator(p, w) # 0 /\ gmult[Numerator(o, w)][ginv[Denominator(p, w)]] = c[w]
  BY <1>2, <1>4, ErrorValue
<1>9. correct_errors_erasures(data, n, S) = [word |-> CorrectedWord(data, n, p, o), defined |-> TRUE]
  <2>1. W \in SUBSET (0..254) /\ W # {}
    BY <1>7
  <2> HIDE DEF W, v, o, p
  <2>2. Lambda(S) \in Poly /\ Omega(Lambda(S), S) \in Poly
    BY <1>5 DEF o, p
  <2>3. /\ ErrorLocs(Lambda(S)) \in SUBSET (0..254) /\ ErrorLocs(Lambda(S)) # {}
        /\ ~(Cardinality(ErrorLocs(Lambda(S))) > NPAR)
    BY <1>1, <1>6, <2>1 DEF p, v
  <2>4. \A w \in ErrorLocs(Lambda(S)) : ~(w >= n) /\ Denominator(Lambda(S), w) # 0
    BY <1>6, <1>7, <1>8 DEF p
  <2> QED
    BY <2>2, <2>3, <2>4, CorrectDef DEF o, p
<1>10. ASSUME NEW i \in DOMAIN data
       PROVE  CorrectedWord(data, n, p, o)[i]
                = IF n - 1 - i \in W THEN data[i] \oplus c[n - 1 - i] ELSE data[i]
  <2> HIDE DEF W, o, p
  <2>1. CorrectedWord(data, n, p, o)[i]
          = IF n - 1 - i \in W
            THEN Xor[data[i]][gmult[Numerator(o, n - 1 - i)][ginv[Denominator(p, n - 1 - i)]]]
            ELSE data[i]
    BY <1>6 DEF CorrectedWord
  <2> QED
    BY <1>8, <2>1 DEF \oplus
<1> HIDE DEF p, o
<1> QED
  BY <1>9, <1>10 DEF Without

\* As many bytes are wrong from either end.
LEMMA ReverseWrong ==
  ASSUME NEW n \in Nat, NEW e
  PROVE  /\ Cardinality(Wrong(Reverse(e, n), n)) = Cardinality(Wrong(e, n))
         /\ \A i \in 0..(n - 1) : Reverse(e, n)[n - 1 - i] = e[i] /\ n - 1 - i \in 0..(n - 1)
         /\ \A i \in 0..(n - 1) : n - 1 - i \in Wrong(Reverse(e, n), n) <=> e[i] # 0
<1> DEFINE c == Reverse(e, n)
           V == Wrong(e, n)
           W == Wrong(c, n)
           f == [i \in V |-> n - 1 - i]
<1>1. \A i \in 0..(n - 1) : n - 1 - i \in 0..(n - 1) /\ n - 1 - (n - 1 - i) = i /\ c[i] = e[n - 1 - i]
  BY DEF Reverse
<1> HIDE DEF c
<1>2. \A i \in 0..(n - 1) : c[n - 1 - i] = e[i]
  BY <1>1
<1>3. \A i \in 0..(n - 1) : n - 1 - i \in W <=> e[i] # 0
  BY <1>1, <1>2 DEF Wrong
<1>4. f \in Bijection(V, W)
  <2>1. \A i \in V : i \in 0..(n - 1) /\ e[i] # 0
    BY DEF Wrong
  <2>2. \A i \in V : f[i] = n - 1 - i /\ f[i] \in W
    BY <1>3, <2>1
  <2>3. f \in [V -> W] /\ DOMAIN f = V
    BY <2>2
  <2>4. \A a, b \in V : f[a] = f[b] => a = b
    BY <1>1, <2>1, <2>2
  <2>5. ASSUME NEW q \in W PROVE \E i \in V : f[i] = q
    <3>1. q \in 0..(n - 1) /\ c[q] # 0
      BY DEF Wrong
    <3>2. n - 1 - q \in 0..(n - 1) /\ e[n - 1 - q] # 0 /\ n - 1 - (n - 1 - q) = q
      BY <1>1, <3>1
    <3>3. n - 1 - q \in V
      BY <3>2 DEF Wrong
    <3> QED
      BY <2>2, <3>2, <3>3
  <2> HIDE DEF f, V, W
  <2> QED
    BY <2>3, <2>4, <2>5 DEF Bijection, Injection, Surjection, IsInjective
<1>5. Cardinality(W) = Cardinality(V)
  <2>1. IsFiniteSet(V)
    BY FinitelyWrong
  <2> HIDE DEF V, W, f
  <2>2. ExistsBijection(V, W)
    BY <1>4 DEF ExistsBijection
  <2> QED
    BY <2>1, <2>2, FS_Bijection
<1> QED
  BY <1>1, <1>2, <1>3, <1>5 DEF c

\* What the decoder works from.
LEMMA SyndromesOf ==
  ASSUME NPAR < 255, NEW n \in Nat, NEW e, \A i \in 0..(n - 1) : e[i] \in Byte
  PROVE  Syndromes(synBytes(e, n), Reverse(e, n), n)
<1>1. Reverse(e, n) \in [0..(n - 1) -> Byte]
  <2>1. \A q \in 0..(n - 1) : n - 1 - q \in 0..(n - 1)
    OBVIOUS
  <2> QED
    BY <2>1 DEF Reverse
<1>2. \A j \in 0..(NPAR - 1) : j \in Degrees /\ synBytes(e, n)[j] = Moment(Reverse(e, n), n, j + 1)
                               /\ synBytes(e, n)[j] \in Byte
  BY SyndromeMoment
<1>3. /\ synBytes(e, n) = [j \in Degrees |-> synBytes(e, n)[j]]
      /\ \A j \in Degrees : j >= NPAR => synBytes(e, n)[j] = 0
  BY SyndromesDef
<1>4. \A j \in Degrees : synBytes(e, n)[j] \in Byte
  <2>1. \A j \in Degrees : j \in 0..(NPAR - 1) \/ j >= NPAR
    BY NparAssumption DEF Degrees, MAXDEG
  <2> QED
    BY <1>2, <1>3, <2>1, ZeroByte
<1>5. synBytes(e, n) \in Poly
  BY <1>3, <1>4 DEF Poly
<1> QED
  BY <1>1, <1>2, <1>5 DEF Syndromes

\* Errors e that the decoder does not notice, though they are no more than NPAR.
Silent(e, n) ==
  /\ \A i \in 0..(n - 1) : e[i] \in Byte
  /\ Cardinality(Wrong(e, n)) <= NPAR /\ ~check_syndrome(synBytes(e, n))

\* There are none.
LEMMA SilentErrors ==
  ASSUME NPAR < 255, NEW n \in 0..255, NEW e, Silent(e, n)
  PROVE  Wrong(e, n) = {}
<1> DEFINE c == Reverse(e, n)
           S == synBytes(e, n)
<1>1. n \in Nat /\ NPAR \in Nat
  BY NparAssumption
<1>2. Syndromes(S, c, n)
  BY <1>1, SyndromesOf DEF Silent
<1>3. \A j \in 0..(NPAR - 1) : Moment(c, n, 1 + j) = 0
  <2>1. \A j \in 0..(NPAR - 1) : j \in Degrees /\ 1 + j = j + 1
    BY NparAssumption DEF Degrees, MAXDEG
  <2>2. \A j \in 0..(NPAR - 1) : S[j] = Moment(c, n, j + 1)
    BY <1>2 DEF Syndromes
  <2> QED
    BY <2>1, <2>2 DEF check_syndrome, Silent
<1>4. Cardinality(Wrong(c, n)) <= NPAR
  BY <1>1, ReverseWrong DEF Silent
<1>5. c \in [0..(n - 1) -> Byte]
  BY <1>2 DEF Syndromes
<1> HIDE DEF c, S
<1>6. \A q \in 0..(n - 1) : c[q] = 0
  <2>1. 1 \in Nat
    OBVIOUS
  <2> QED
    BY <1>1, <1>3, <1>4, <1>5, <2>1, FewMoments
<1>7. \A i \in 0..(n - 1) : c[n - 1 - i] = e[i] /\ n - 1 - i \in 0..(n - 1)
  BY <1>1, ReverseWrong DEF c
<1> QED
  BY <1>6, <1>7 DEF Wrong

\* The word is a codeword of n bytes with the errors e added.
Damaged(word, bytes, e, n) ==
  /\ ~check_syndrome(synBytes(bytes, n)) /\ 0..(n - 1) \subseteq DOMAIN word
  /\ \A i \in 0..(n - 1) : bytes[i] \in Byte /\ e[i] \in Byte /\ word[i] = Xor[bytes[i]][e[i]]

\* A correction comes to these bytes.
Recovers(fixed, bytes, n) == fixed.defined = TRUE /\ \A i \in 0..(n - 1) : fixed.word[i] = bytes[i]

\* Any 1 to NPAR wrong bytes of a codeword, wherever they are, are noticed: no
\* other codeword is that near.
THEOREM DetectsErrors ==
  ASSUME NPAR < 255, NEW n \in 0..255, NEW bytes, NEW e, NEW word,
         Damaged(word, bytes, e, n), Cardinality(Wrong(e, n)) \in 1..NPAR
  PROVE  check_syndrome(synBytes(word, n))
<1>1. n \in Nat
  OBVIOUS
<1>2. synBytes(word, n) = synBytes(e, n)
  BY <1>1, DecoderSeesErrors DEF Damaged
<1>3. SUFFICES ASSUME ~check_syndrome(synBytes(e, n)) PROVE FALSE
  BY <1>2
<1>4. Cardinality(Wrong(e, n)) <= NPAR
  BY NparAssumption
<1>5. Silent(e, n)
  BY <1>3, <1>4 DEF Silent, Damaged
<1>6. Wrong(e, n) = {}
  BY <1>5, SilentErrors
<1>7. Cardinality({}) = 0
  BY FS_EmptySet
<1> QED
  BY <1>6, <1>7

\* Up to NPAR / 2 wrong bytes of a codeword, wherever they are, are corrected, every
\* division of the decoder being defined.
THEOREM DecoderRestores ==
  ASSUME NPAR < 255, NEW n \in 0..255, NEW bytes, NEW e, NEW word,
         Damaged(word, bytes, e, n), 2 * Cardinality(Wrong(e, n)) <= NPAR
  PROVE  Recovers(rscode_decode(word, n), bytes, n)
<1> DEFINE c == Reverse(e, n)
           S == synBytes(word, n)
           v == Cardinality(Wrong(e, n))
<1>1. n \in Nat /\ NPAR \in Nat
  BY NparAssumption
<1>2. S = synBytes(e, n)
  BY <1>1, DecoderSeesErrors DEF Damaged
<1>3. Syndromes(S, c, n)
  BY <1>1, <1>2, SyndromesOf DEF Damaged
<1>4. /\ Cardinality(Wrong(c, n)) = v
      /\ \A i \in 0..(n - 1) : c[n - 1 - i] = e[i] /\ (n - 1 - i \in Wrong(c, n) <=> e[i] # 0)
  BY <1>1, ReverseWrong
<1>5. rscode_decode(word, n)
        = IF check_syndrome(S) THEN correct_errors_erasures(word, n, S)
          ELSE [word |-> word, defined |-> TRUE]
  BY <1>3, DecodeDef DEF Syndromes
<1>6. v \in Nat /\ v <= NPAR
  <2>1. v \in Nat
    BY <1>1, FinitelyWrong
  <2>2. 2 * v <= NPAR
    OBVIOUS
  <2> HIDE DEF v
  <2> QED
    BY <1>1, <2>1, <2>2
<1>7. \A i \in 0..(n - 1) : word[i] = bytes[i] \oplus e[i] /\ bytes[i] \in Byte /\ e[i] \in Byte
  BY DEF \oplus, Damaged
<1> HIDE DEF S, c, v
<1>8. CASE check_syndrome(S)
  <2> DEFINE fixed == correct_errors_erasures(word, n, S)
  <2>1. Wrong(c, n) # {}
    <3> SUFFICES ASSUME Wrong(c, n) = {} PROVE FALSE
      OBVIOUS
    <3>1. \A q \in 0..(n - 1) : c[q] = 0
      BY DEF Wrong
    <3>2. \A j \in 0..(NPAR - 1) : S[j] = 0
      <4> SUFFICES ASSUME NEW j \in 0..(NPAR - 1) PROVE S[j] = 0
        OBVIOUS
      <4> DEFINE f == [q \in 0..(n - 1) |-> c[q] \otimes Pow(q * (j + 1))]
      <4>1. S[j] = XorSum(f, n)
        BY <1>3 DEF Syndromes, Moment
      <4>2. \A q \in 0..(n - 1) : f[q] = 0
        <5> SUFFICES ASSUME NEW q \in 0..(n - 1) PROVE f[q] = 0
          OBVIOUS
        <5>1. q * (j + 1) \in Nat /\ f[q] = c[q] \otimes Pow(q * (j + 1)) /\ c[q] = 0
          BY <1>1, <3>1
        <5> HIDE DEF f
        <5>2. Pow(q * (j + 1)) \in Byte
          BY <5>1, PowStep
        <5> QED
          BY <5>1, <5>2, Units
      <4> HIDE DEF f
      <4> QED
        BY <1>1, <4>1, <4>2, SumOfZeros
    <3>3. \A j \in Degrees : S[j] = 0
      <4>1. \A j \in Degrees : j \in 0..(NPAR - 1) \/ j >= NPAR
        BY NparAssumption DEF Degrees, MAXDEG
      <4>2. \A j \in Degrees : j >= NPAR => S[j] = 0
        BY SyndromesDef DEF S
      <4> QED
        BY <3>2, <4>1, <4>2
    <3> QED
      BY <1>8, <3>3 DEF check_syndrome
  <2>2. Without(fixed, word, c, n)
    <3>1. 2 * Cardinality(Wrong(c, n)) <= NPAR
      BY <1>4 DEF v
    <3> QED
      BY <1>3, <2>1, <3>1, Corrects
  <2>3. rscode_decode(word, n) = fixed
    BY <1>5, <1>8
  <2> HIDE DEF fixed
  <2>4. ASSUME NEW i \in 0..(n - 1) PROVE fixed.word[i] = bytes[i]
    <3> DEFINE x == bytes[i]
               y == e[i]
    <3>1. x \in Byte /\ y \in Byte /\ word[i] = x \oplus y /\ i \in DOMAIN word
      BY <1>7 DEF Damaged
    <3>2. fixed.word[i] = IF y # 0 THEN (x \oplus y) \oplus y ELSE x \oplus y
      BY <1>4, <2>2, <3>1 DEF Without
    <3> HIDE DEF x, y
    <3>3. (x \oplus y) \oplus y = x \oplus (y \oplus y)
      BY <3>1, Add
    <3>4. (x \oplus y) \oplus y = x /\ (y = 0 => x \oplus y = x)
      BY <3>1, <3>3, Units
    <3> QED
      BY <3>2, <3>4 DEF x
  <2> QED
    BY <2>2, <2>3, <2>4 DEF Without, Recovers
<1>9. CASE ~check_syndrome(S)
  <2>1. \A i \in 0..(n - 1) : e[i] = 0
    <3>1. Cardinality(Wrong(e, n)) <= NPAR
      BY <1>6 DEF v
    <3>2. ~check_syndrome(synBytes(e, n))
      BY <1>2, <1>9
    <3>3. \A i \in 0..(n - 1) : e[i] \in Byte
      BY <1>7
    <3>4. Silent(e, n)
      BY <3>1, <3>2, <3>3 DEF Silent
    <3>5. Wrong(e, n) = {}
      BY <3>4, SilentErrors
    <3> QED
      BY <3>5 DEF Wrong
  <2>2. rscode_decode(word, n) = [word |-> word, defined |-> TRUE]
    BY <1>5, <1>9
  <2>3. \A i \in 0..(n - 1) : word[i] = bytes[i]
    BY <1>7, <2>1, Units
  <2> QED
    BY <2>2, <2>3 DEF Recovers
<1> QED
  BY <1>8, <1>9

-----------------------------------------------------------------------------
(***************************************************************************)
(* From bytes to frames: every packet with its errors is a frame, so that  *)
(* PacketCheck implements Telemetry and has its properties.                *)
(***************************************************************************)

\* A type byte stands for one kind.
LEMMA TypeBytes ==
  /\ \A kind \in Kinds : TypeByte[kind] \in Byte
  /\ \A k, l \in Kinds : TypeByte[k] = TypeByte[l] => k = l
<1>1. \A kind \in Kinds :
        TypeByte[kind] =
          CASE kind = "START_IMAGE" -> 255 [] kind = "IMAGE_DATA" -> 238 [] kind = "END_IMAGE" -> 221
            [] kind = "GPS_GGA" -> 193 [] kind = "GPS_GGA_1" -> 194 [] kind = "GPS_GGA_2" -> 195
            [] kind = "GPS_RMC" -> 177 [] kind = "GPS_RMC_1" -> 178 [] kind = "GPS_RMC_2" -> 179
            [] kind = "INT_TEMP" -> 170 [] kind = "EXT_TEMP" -> 153 [] kind = "BATT_INFO" -> 136
            [] kind = "PRESS_INFO" -> 119 [] kind = "HUM_INFO" -> 102 [] kind = "INFO_DATA" -> 85
            [] kind = "CW_ID" -> 68
  BY DEF TypeByte
<1>2. ASSUME NEW k \in Kinds, NEW l \in Kinds, TypeByte[k] = TypeByte[l] PROVE k = l
  BY <1>1, <1>2 DEF Kinds, Gps
<1>3. ASSUME NEW kind \in Kinds PROVE TypeByte[kind] \in Byte
  BY <1>1 DEF Kinds, Gps, Byte
<1> QED
  BY <1>2, <1>3

\* The checksum is never at the beginning.
LEMMA CrcPlacePositive ==
  \A kind \in Kinds : CrcPlace(kind) \in Nat \ {0} /\ CrcPlace(kind) + 2 <= SizeOf(kind)
BY NparAssumption DEF CrcPlace, Parity, SizeOf, Coded, Kinds, Gps

\* Checksum and parity leave the type at the beginning of the packet.
LEMMA PacketType ==
  ASSUME NEW kind \in Kinds
  PROVE  Packet[kind][0] = TypeByte[kind]
<1> DEFINE content == [i \in 0 .. MTU_SIZE - 1 |->
                         IF i = 0 THEN TypeByte[kind] ELSE (7 * i * (i - 1)) % 256]
           crc     == crc_16(content, CrcPlace(kind))
           checked == [i \in 0 .. MTU_SIZE - 1 |->
                         IF i = CrcPlace(kind) THEN crc % 256
                         ELSE IF i = CrcPlace(kind) + 1 THEN crc \div 256 ELSE content[i]]
           coded   == encode_data(checked, CrcPlace(kind) + 2)
<1>1. 0 \in 0 .. MTU_SIZE - 1
  BY DEF MTU_SIZE
<1>2. content[0] = TypeByte[kind]
  BY <1>1
<1>3. Packet[kind] = [i \in 0 .. MTU_SIZE - 1 |->
                        IF kind \in Gps THEN content[i]
                        ELSE IF ~Coded(kind) THEN checked[i]
                        ELSE IF i < SizeOf(kind) THEN coded[i] ELSE 0]
  BY DEF Packet
<1> HIDE DEF content, crc
<1>4. checked[0] = TypeByte[kind]
  BY <1>1, <1>2, CrcPlacePositive
<1> HIDE DEF checked
<1>5. coded[0] = checked[0]
  <2> DEFINE n == CrcPlace(kind) + 2
  <2>1. n \in Nat /\ 0 < n /\ 0 \in 0 .. n + NPAR - 1
    BY CrcPlacePositive, NparAssumption
  <2> HIDE DEF n
  <2>2. \A p : build_codeword(checked, n, p)[0] = checked[0]
    BY <2>1 DEF build_codeword
  <2>3. encode_data(checked, n)[0] = checked[0]
    BY <2>2 DEF encode_data
  <2> QED
    BY <2>3 DEF n
<1> HIDE DEF coded
<1>6. SizeOf(kind) > 0
  BY NparAssumption DEF SizeOf
<1> QED
  BY <1>1, <1>2, <1>3, <1>4, <1>5, <1>6

\* A packet without damage is heard as what was sent.
LEMMA PacketFrame ==
  ASSUME NEW sent \in Kinds, NEW e
  PROVE  [sent |-> sent, heard |-> Heard(Word(sent, e)[0]), damage |-> DamageOf(sent, e)] \in Frame
<1> DEFINE byte == Word(sent, e)[0]
<1>1. Heard(byte) \in Kinds \cup {"unknown"}
  BY DEF Heard
<1>2. DamageOf(sent, e) \in Damage
  BY DEF DamageOf, Damage
<1>3. ASSUME DamageOf(sent, e) = "no" PROVE Heard(byte) = sent
  <2>1. 0 \in 0 .. SizeOf(sent) - 1 /\ ~(0 >= CrcPlace(sent) + 2)
    <3>1. CrcPlace(sent) \in Nat \ {0} /\ CrcPlace(sent) + 2 <= SizeOf(sent)
      BY CrcPlacePositive
    <3>2. SizeOf(sent) \in Nat
      BY NparAssumption DEF SizeOf
    <3> QED
      BY <3>1, <3>2
  <2>2. e[0] = 0
    BY <1>3, <2>1 DEF DamageOf
  <2>3. byte = Xor[TypeByte[sent]][0]
    <3>1. 0 \in 0 .. MTU_SIZE - 1
      BY DEF MTU_SIZE
    <3> QED
      BY <2>2, <3>1, PacketType DEF Word
  <2>4. byte = TypeByte[sent]
    BY <2>3, TypeBytes, XorLaws
  <2> HIDE DEF byte
  <2> QED
    BY <2>4, TypeBytes DEF Heard
<1> HIDE DEF byte
<1> QED
  BY <1>1, <1>2, <1>3 DEF Frame, byte

\* The bytes implement the frames, whatever errors there are: all that is shown
\* of Telemetry holds of what its properties are checked on.
THEOREM PacketsAreFrames == PacketSpec => Spec
<1>1. PacketInit => Init
  BY PacketFrame DEF PacketInit, Init
<1>2. [PacketNext]_<<vars, error>> => [Next]_vars
  BY DEF PacketNext
<1> QED
  BY <1>1, <1>2, PTL DEF PacketSpec, Spec

\* So an undamaged packet is taken for what it is, ...
THEOREM PacketIntactHandled == PacketSpec => []IntactIsHandled
BY PacketsAreFrames, IntactHandled, PTL

\* ... one is only taken for another kind as its frame would be, ...
THEOREM PacketTakenAsSent == PacketSpec => []HandledAsSent
BY PacketsAreFrames, TakenAsSent, PTL

\* ... and what is reported of it, a GPS sentence included, is of a type that the
\* web client writes.
THEOREM PacketReportsReach == PacketSpec => []ReportsReachServer
BY PacketsAreFrames, ReportsReach, PTL

-----------------------------------------------------------------------------
(***************************************************************************)
(* The check of the handlers, for all errors: what is not damaged passes.  *)
(* That what is damaged does not cannot be proved, for it is only nearly   *)
(* always so: a checksum of 16 bits is right by chance once in 65536.      *)
(***************************************************************************)

\* The checksum depends on the bytes it is said to cover.
LEMMA SameChecksum ==
  ASSUME NEW n \in Nat, NEW b, NEW c, \A i \in 0..(n - 1) : b[i] \in Byte /\ c[i] = b[i]
  PROVE  crc_16(c, n) = crc_16(b, n)
<1> DEFINE z == [i \in 0..(n - 1) |-> 0]
<1>1. ASSUME NEW i \in 0..(n - 1)
      PROVE  b[i] \in Byte /\ z[i] \in Byte /\ b[i] = Xor[b[i]][z[i]] /\ c[i] = Xor[b[i]][z[i]]
  <2>1. z[i] = 0 /\ b[i] \in Byte /\ c[i] = b[i]
    OBVIOUS
  <2> QED
    BY <2>1, ZeroByte, XorLaws, Zenon
<1> HIDE DEF z
<1>2. crc_16(b, n) = Xor16(crc_16(b, n), crc_16(z, n))
  BY <1>1, ChecksumOfErrors
<1>3. crc_16(c, n) = Xor16(crc_16(b, n), crc_16(z, n))
  BY <1>1, ChecksumOfErrors
<1> QED
  BY <1>2, <1>3

\* A packet is sent with its checksum in its place.
LEMMA PacketChecksum ==
  ASSUME 37 + NPAR <= MTU_SIZE, NEW kind \in Kinds \ Gps
  PROVE  /\ \A i \in 0 .. CrcPlace(kind) + 1 : Packet[kind][i] \in Byte
         /\ CrcRight(kind, Packet[kind])
<1> DEFINE n == CrcPlace(kind)
           content == [i \in 0 .. MTU_SIZE - 1 |->
                         IF i = 0 THEN TypeByte[kind] ELSE (7 * i * (i - 1)) % 256]
           crc     == crc_16(content, n)
           checked == [i \in 0 .. MTU_SIZE - 1 |->
                         IF i = n THEN crc % 256
                         ELSE IF i = n + 1 THEN crc \div 256 ELSE content[i]]
           coded   == encode_data(checked, n + 2)
<1>1. n \in Nat \ {0} /\ n + 2 <= SizeOf(kind) /\ SizeOf(kind) <= MTU_SIZE
  BY CrcPlacePositive, NparAssumption DEF SizeOf, MTU_SIZE
<1>2. SizeOf(kind) \in Nat /\ MTU_SIZE \in Nat
  BY NparAssumption DEF SizeOf, MTU_SIZE
<1>3. Packet[kind] = [i \in 0 .. MTU_SIZE - 1 |->
                        IF kind \in Gps THEN content[i]
                        ELSE IF ~Coded(kind) THEN checked[i]
                        ELSE IF i < SizeOf(kind) THEN coded[i] ELSE 0]
  BY DEF Packet
<1>4. \A i \in 0 .. MTU_SIZE - 1 : content[i] \in Byte
  <2>1. ASSUME NEW x \in Int PROVE x % 256 \in Byte
    BY SMT DEF Byte
  <2>2. \A i \in Int : 7 * i * (i - 1) \in Int
    OBVIOUS
  <2>3. \A i \in 0 .. MTU_SIZE - 1 : i \in Int
    BY <1>2
  <2> QED
    BY <2>1, <2>2, <2>3, TypeBytes
<1> HIDE DEF n, content
<1>5. \A i \in 0 .. n - 1 : i \in 0 .. MTU_SIZE - 1 /\ content[i] \in Byte
  BY <1>1, <1>2, <1>4
<1>6. crc \in Sum16
  <2>1. \A i \in 0 .. n - 1 : content[i] \in Byte
    BY <1>5
  <2>2. \E k : Sums(k, n, content) /\ crc_16(content, n) = k[n]
    BY <1>1, <2>1, CrcDef
  <2> QED
    BY <1>1, <2>2 DEF Sums
<1> HIDE DEF crc
<1>7. crc % 256 \in Byte /\ crc \div 256 \in Byte /\ crc = 256 * (crc \div 256) + (crc % 256)
  BY <1>6, Bytes16
<1>8. /\ \A i \in 0 .. n - 1 : checked[i] = content[i]
      /\ checked[n] = crc % 256 /\ checked[n + 1] = crc \div 256
  <2>1. n \in 0 .. MTU_SIZE - 1 /\ n + 1 \in 0 .. MTU_SIZE - 1 /\ n # n + 1
    BY <1>1, <1>2
  <2>2. \A i \in 0 .. n - 1 : i # n /\ i # n + 1
    BY <1>1
  <2> QED
    BY <1>5, <2>1, <2>2
<1> HIDE DEF checked
<1>9. \A i \in 0 .. n + 1 : coded[i] = checked[i]
  <2> DEFINE m == n + 2
  <2>1. m \in Nat /\ \A i \in 0 .. n + 1 : i < m /\ i \in 0 .. m + NPAR - 1
    BY <1>1, NparAssumption
  <2> HIDE DEF m
  <2>2. \A p : \A i \in 0 .. n + 1 : build_codeword(checked, m, p)[i] = checked[i]
    BY <2>1 DEF build_codeword
  <2>3. \A i \in 0 .. n + 1 : encode_data(checked, m)[i] = checked[i]
    BY <2>2 DEF encode_data
  <2> QED
    BY <2>3 DEF m
<1> HIDE DEF coded
<1>10. \A i \in 0 .. n + 1 : Packet[kind][i] = checked[i]
  <2>1. \A i \in 0 .. n + 1 : i \in 0 .. MTU_SIZE - 1 /\ i < SizeOf(kind)
    BY <1>1, <1>2
  <2> QED
    BY <1>3, <1>9, <2>1
<1>11. \A i \in 0 .. n + 1 : checked[i] \in Byte
  <2>1. \A i \in 0 .. n + 1 : i \in 0 .. n - 1 \/ i = n \/ i = n + 1
    BY <1>1
  <2> QED
    BY <1>5, <1>7, <1>8, <2>1
<1>12. n \in 0 .. n + 1 /\ n + 1 \in 0 .. n + 1 /\ \A i \in 0 .. n - 1 : i \in 0 .. n + 1
  BY <1>1
<1>13. crc_16(Packet[kind], n) = crc
  <2>1. \A i \in 0 .. n - 1 : content[i] \in Byte /\ Packet[kind][i] = content[i]
    BY <1>5, <1>8, <1>10, <1>12
  <2>2. n \in Nat
    BY <1>1
  <2> HIDE DEF n
  <2> QED
    BY <2>1, <2>2, SameChecksum DEF crc
<1>14. Packet[kind][n] = crc % 256 /\ Packet[kind][n + 1] = crc \div 256
  BY <1>8, <1>10, <1>12
<1>15. crc = (crc % 256) + 256 * (crc \div 256)
  <2>1. ASSUME NEW l \in Byte, NEW h \in Byte PROVE l + 256 * h = 256 * h + l
    BY SMT DEF Byte
  <2> QED
    BY <1>7, <2>1
<1>16. CrcRight(kind, Packet[kind])
  BY <1>13, <1>14, <1>15 DEF CrcRight, n
<1> QED
  BY <1>10, <1>11, <1>16 DEF n

\* Wrong bytes in the parity alone do not keep a packet from being taken: it passes
\* the first check of its handler, the lengths of all packets being such that the
\* longest, the info text, fits into a frame.
THEOREM UndamagedPasses ==
  ASSUME 37 + NPAR <= MTU_SIZE, NEW kind \in Kinds \ Gps, NEW e,
         DamageOf(kind, e) = "no"
  PROVE  CrcRight(kind, Word(kind, e))
<1> DEFINE n == CrcPlace(kind)
           z == [i \in 0 .. MTU_SIZE - 1 |-> 0]
<1>1. n \in Nat \ {0} /\ n + 2 <= SizeOf(kind) /\ SizeOf(kind) <= MTU_SIZE
      /\ SizeOf(kind) \in Nat /\ MTU_SIZE \in Nat
  BY CrcPlacePositive, NparAssumption DEF SizeOf, MTU_SIZE
<1> HIDE DEF n
<1>2. \A i \in 0 .. n + 1 : i \in 0 .. SizeOf(kind) - 1 /\ i \in 0 .. MTU_SIZE - 1 /\ ~(i >= n + 2)
  BY <1>1
<1>3. \A i \in 0 .. n + 1 : e[i] = 0
  BY <1>2 DEF DamageOf, n
<1>4. \A i \in 0 .. n + 1 : Packet[kind][i] \in Byte
  BY PacketChecksum DEF n
<1>5. ASSUME NEW i \in 0 .. n + 1 PROVE Word(kind, e)[i] = Packet[kind][i]
  <2>1. Word(kind, e)[i] = Xor[Packet[kind][i]][0]
    BY <1>2, <1>3 DEF Word
  <2> QED
    BY <1>4, <2>1, XorLaws
<1>6. n \in 0 .. n + 1 /\ n + 1 \in 0 .. n + 1 /\ \A i \in 0 .. n - 1 : i \in 0 .. n + 1
  BY <1>1
<1>7. crc_16(Word(kind, e), n) = crc_16(Packet[kind], n)
  <2>1. \A i \in 0 .. n - 1 : Packet[kind][i] \in Byte /\ Word(kind, e)[i] = Packet[kind][i]
    BY <1>4, <1>5, <1>6
  <2>2. n \in Nat
    BY <1>1
  <2> QED
    BY <2>1, <2>2, SameChecksum
<1>8. Word(kind, e)[n] = Packet[kind][n] /\ Word(kind, e)[n + 1] = Packet[kind][n + 1]
  BY <1>5, <1>6
<1>9. CrcRight(kind, Packet[kind])
  BY PacketChecksum
<1> QED
  BY <1>7, <1>8, <1>9 DEF CrcRight, n

-----------------------------------------------------------------------------
(***************************************************************************)
(* Packets as the handlers check them: what of the way a frame goes rests  *)
(* on the code that corrects it.                                           *)
(***************************************************************************)

\* A packet with a code is sent as a codeword.
THEOREM PacketsAreCodewords ==
  ASSUME 37 + NPAR <= MTU_SIZE, NEW kind \in Kinds, Coded(kind)
  PROVE  /\ \A i \in 0 .. SizeOf(kind) - 1 : Packet[kind][i] \in Byte
         /\ ~check_syndrome(synBytes(Packet[kind], SizeOf(kind)))
<1> DEFINE n == CrcPlace(kind)
           l == SizeOf(kind)
           m == n + 2
           content == [i \in 0 .. MTU_SIZE - 1 |->
                         IF i = 0 THEN TypeByte[kind] ELSE (7 * i * (i - 1)) % 256]
           crc     == crc_16(content, n)
           checked == [i \in 0 .. MTU_SIZE - 1 |->
                         IF i = n THEN crc % 256
                         ELSE IF i = n + 1 THEN crc \div 256 ELSE content[i]]
           coded   == encode_data(checked, m)
           z       == [i \in 0 .. l - 1 |-> 0]
<1>1. /\ n \in Nat \ {0} /\ l \in Nat /\ l <= MTU_SIZE /\ MTU_SIZE \in Nat /\ m \in Nat /\ NPAR \in Nat
      /\ l = m + NPAR /\ m + NPAR - 1 = l - 1 /\ NPAR < 255
  <2>1. n \in Nat \ {0} /\ n = l - 2 - NPAR /\ NPAR \in Nat
    BY CrcPlacePositive, NparAssumption DEF CrcPlace, Parity
  <2>2. l \in Nat /\ l <= MTU_SIZE /\ MTU_SIZE \in Nat /\ NPAR < 255
    <3>1. MTU_SIZE = 64
      BY DEF MTU_SIZE
    <3>2. l \in Nat /\ (l <= 37 + NPAR \/ l = 64)
      BY NparAssumption DEF SizeOf
    <3> QED
      BY <3>1, <3>2, NparAssumption
  <2> HIDE DEF n, l
  <2> QED
    BY <2>1, <2>2
<1>2. kind \in Kinds \ Gps
  BY DEF Coded
<1>3. \A i \in 0 .. l - 1 : Packet[kind][i] = coded[i]
  <2>1. \A i \in 0 .. l - 1 : i \in 0 .. MTU_SIZE - 1 /\ i < SizeOf(kind)
    BY <1>1
  <2>2. Packet[kind] = [i \in 0 .. MTU_SIZE - 1 |->
                          IF kind \in Gps THEN content[i]
                          ELSE IF ~Coded(kind) THEN checked[i]
                          ELSE IF i < SizeOf(kind) THEN coded[i] ELSE 0]
    BY DEF Packet
  <2> HIDE DEF coded, content, checked, l
  <2> QED
    BY <1>2, <2>1, <2>2
<1> HIDE DEF n, l, content, crc
<1>4. \A i \in 0 .. m - 1 : coded[i] = checked[i]
  <2>1. \A i \in 0 .. m - 1 : i < m /\ i \in 0 .. m + NPAR - 1
    BY <1>1
  <2> HIDE DEF m, checked
  <2>2. \A p : \A i \in 0 .. m - 1 : build_codeword(checked, m, p)[i] = checked[i]
    BY <2>1 DEF build_codeword
  <2> QED
    BY <2>2 DEF encode_data
<1> HIDE DEF checked
<1>5. \A i \in 0 .. m - 1 : checked[i] \in Byte
  <2>1. \A i \in 0 .. n + 1 : Packet[kind][i] \in Byte
    BY <1>2, PacketChecksum DEF n
  <2>2. \A i \in 0 .. m - 1 : i \in 0 .. n + 1 /\ i \in 0 .. l - 1
    BY <1>1
  <2> HIDE DEF m, coded
  <2> QED
    BY <1>3, <1>4, <2>1, <2>2
<1> HIDE DEF m
<1>6. /\ \A i \in 0 .. l - 1 : coded[i] \in Byte
      /\ ~check_syndrome(synBytes(coded, l))
  BY <1>1, <1>5, CodewordsPass DEF coded
<1> HIDE DEF coded
<1>7. \A i \in 0 .. l - 1 : /\ coded[i] \in Byte /\ z[i] \in Byte
                            /\ Packet[kind][i] = Xor[coded[i]][z[i]] /\ coded[i] = Xor[coded[i]][z[i]]
  <2> SUFFICES ASSUME NEW i \in 0 .. l - 1
               PROVE  /\ coded[i] \in Byte /\ z[i] \in Byte
                      /\ Packet[kind][i] = Xor[coded[i]][z[i]] /\ coded[i] = Xor[coded[i]][z[i]]
    OBVIOUS
  <2>1. z[i] = 0 /\ coded[i] \in Byte /\ Packet[kind][i] = coded[i]
    BY <1>3, <1>6
  <2> QED
    BY <2>1, ZeroByte, XorLaws, Zenon
<1> HIDE DEF z
<1>8. synBytes(Packet[kind], l) = synBytes(z, l)
  BY <1>1, <1>6, <1>7, DecoderSeesErrors
<1>9. synBytes(coded, l) = synBytes(z, l)
  BY <1>1, <1>6, <1>7, DecoderSeesErrors
<1> QED
  BY <1>3, <1>6, <1>8, <1>9 DEF l

\* What the handlers' correction makes of a packet with few errors, heard as a kind
\* of its length: the packet.
LEMMA FewCorrected ==
  ASSUME 37 + NPAR <= MTU_SIZE, NEW sent \in Kinds, NEW kind \in Kinds, NEW e \in Errors,
         Coded(sent), Coded(kind), SizeOf(sent) = SizeOf(kind),
         kind = Heard(Word(sent, e)[0]), 2 * Cardinality(Wrong(e, SizeOf(kind))) <= NPAR
  PROVE  Recovers(Corrected[sent][e], Packet[sent], SizeOf(kind))
<1> DEFINE n == SizeOf(kind)
           bytes == Packet[sent]
           word == Word(sent, e)
<1>1. /\ n \in 0..255 /\ n <= MTU_SIZE /\ MTU_SIZE \in Nat /\ NPAR < 255
      /\ \A i \in 0..(n - 1) : i \in 0 .. MTU_SIZE - 1
  <2>1. MTU_SIZE = 64
    BY DEF MTU_SIZE
  <2>2. n \in Nat /\ (n <= 37 + NPAR \/ n = 64)
    BY NparAssumption DEF SizeOf
  <2> HIDE DEF n
  <2> QED
    BY <2>1, <2>2, NparAssumption
<1>2. Corrected[sent][e] = rscode_decode(word, n)
  <2>1. Corrected[sent][e]
          = IF Heard(word[0]) \in Kinds /\ Coded(Heard(word[0]))
            THEN rscode_decode(word, SizeOf(Heard(word[0])))
            ELSE [word |-> word, defined |-> TRUE]
    BY DEF Corrected
  <2> QED
    BY <2>1
<1>3. (\A i \in 0..(n - 1) : bytes[i] \in Byte) /\ ~check_syndrome(synBytes(bytes, n))
  BY PacketsAreCodewords
<1>4. \A i \in 0..(n - 1) : e[i] \in Byte
  <2>1. e \in [0 .. MTU_SIZE - 1 -> Byte]
    BY ErrorsAssumption
  <2> HIDE DEF n
  <2> QED
    BY <1>1, <2>1
<1>5. DOMAIN word = 0 .. MTU_SIZE - 1 /\ \A i \in 0 .. MTU_SIZE - 1 : word[i] = Xor[bytes[i]][e[i]]
  BY DEF Word
<1> HIDE DEF n, bytes, word
<1>6. Damaged(word, bytes, e, n)
  BY <1>1, <1>3, <1>4, <1>5 DEF Damaged
<1>7. 2 * Cardinality(Wrong(e, n)) <= NPAR
  BY DEF n
<1>8. Recovers(rscode_decode(word, n), bytes, n)
  BY <1>1, <1>6, <1>7, DecoderRestores
<1> QED
  BY <1>2, <1>8 DEF n, bytes

\* The frame of a packet is what its errors make of it, and so are both as long as
\* it is under way.
PacketInv ==
  /\ Inv /\ error \in Errors
  /\ frame.heard = Heard(Word(frame.sent, error)[0])
  /\ frame.damage = DamageOf(frame.sent, error)

\* It holds always.
LEMMA PacketInvariant == PacketSpec => []PacketInv
<1>1. PacketInit => PacketInv
  <2> SUFFICES ASSUME PacketInit PROVE PacketInv
    OBVIOUS
  <2>1. Inv
    BY PacketFrame, InitInv DEF PacketInit, Init
  <2>2. PICK sent \in Kinds, e \in Errors :
          /\ error = e
          /\ frame = [sent |-> sent, heard |-> Heard(Word(sent, e)[0]), damage |-> DamageOf(sent, e)]
    BY DEF PacketInit
  <2> QED
    BY <2>1, <2>2 DEF PacketInv
<1>2. PacketInv /\ [PacketNext]_<<vars, error>> => PacketInv'
  <2> SUFFICES ASSUME PacketInv, [PacketNext]_<<vars, error>> PROVE PacketInv'
    OBVIOUS
  <2>1. [Next]_vars /\ error' = error
    BY DEF PacketNext
  <2>2. Inv'
    BY <2>1, StepInv DEF PacketInv
  <2>3. frame' = frame
    BY <2>1 DEF Next, QueueFrame, ReportRssi, Ping, Dispatch, WriteReports, vars
  <2>4. (error \in Errors)'
    BY <2>1 DEF PacketInv
  <2>5. (frame.heard = Heard(Word(frame.sent, error)[0]))'
    BY <2>1, <2>3 DEF PacketInv
  <2>6. (frame.damage = DamageOf(frame.sent, error))'
    BY <2>1, <2>3 DEF PacketInv
  <2> QED
    BY <2>2, <2>4, <2>5, <2>6 DEF PacketInv
<1> QED
  BY <1>1, <1>2, PTL DEF PacketSpec

\* A queued packet is of a length that its handler's kind has.
LEMMA QueuedPacket ==
  ASSUME PacketInv, stage = "queued"
  PROVE  /\ frame.sent \in Kinds /\ frame.heard \in Kinds /\ error \in Errors
         /\ size = SizeOf(frame.heard)
BY DEF PacketInv, Inv, Frame, RxSize

\* Up to NPAR / 2 wrong bytes anywhere in a packet that is heard as a kind of its
\* length, in its type byte, its content, its checksum or its parity, are corrected by
\* rscode_decode as sensor.c and the other handlers call it, with no division by zero;
\* for every set of errors and number of parity bytes that lets the info text fit
\* into a frame.
THEOREM PacketCorrectionRestores ==
  ASSUME 37 + NPAR <= MTU_SIZE
  PROVE  PacketSpec => []CorrectionRestores
<1>1. PacketInv => CorrectionRestores
  <2> SUFFICES ASSUME PacketInv, stage = "queued", Coded(frame.heard), Coded(frame.sent),
                      SizeOf(frame.sent) = size,
                      2 * Cardinality({i \in 0 .. size - 1 : error[i] # 0}) <= NPAR
               PROVE  Restores(Packet[frame.sent], Corrected[frame.sent][error])
    BY DEF CorrectionRestores
  <2>1. /\ frame.sent \in Kinds /\ frame.heard \in Kinds /\ error \in Errors
        /\ size = SizeOf(frame.heard)
    BY QueuedPacket
  <2>2. frame.heard = Heard(Word(frame.sent, error)[0])
    BY DEF PacketInv
  <2>3. 2 * Cardinality(Wrong(error, SizeOf(frame.heard))) <= NPAR
    BY <2>1 DEF Wrong
  <2>4. Recovers(Corrected[frame.sent][error], Packet[frame.sent], SizeOf(frame.heard))
    BY <2>1, <2>2, <2>3, FewCorrected
  <2> QED
    BY <2>1, <2>4 DEF Recovers, Restores
<1> QED
  BY <1>1, PacketInvariant, PTL

\* What Telemetry calls valid passes its handler's check: with wrong bytes in the
\* parity only, at once; with few wrong bytes, when they are corrected.  So nothing is
\* lost that the code could save.
THEOREM PacketValidPasses ==
  ASSUME 37 + NPAR <= MTU_SIZE
  PROVE  PacketSpec => []ValidPasses
<1>1. PacketInv => ValidPasses
  <2> DEFINE sent == frame.sent
             kind == frame.heard
             word == Word(sent, error)
             fixed == Corrected[sent][error]
  <2> SUFFICES ASSUME PacketInv, Checking, IsValid(kind) PROVE Passes(kind, word, fixed)
    BY DEF ValidPasses
  <2>1. sent \in Kinds /\ kind \in Kinds \ Gps /\ error \in Errors /\ size = SizeOf(kind)
    BY QueuedPacket DEF Checking
  <2>2. kind = Heard(word[0]) /\ frame.damage = DamageOf(sent, error)
    BY DEF PacketInv
  <2>3. CASE frame.damage = "no"
    <3>1. kind = sent
      BY <2>3 DEF PacketInv, Inv, Frame
    <3>2. CrcRight(kind, word)
      BY <2>1, <2>2, <2>3, <3>1, UndamagedPasses
    <3> QED
      BY <3>2 DEF Passes, Accepts
  <2>4. CASE frame.damage # "no"
    <3>1. frame.damage = "few" /\ Coded(kind) /\ Coded(sent) /\ SizeOf(sent) = SizeOf(kind)
      BY <2>4 DEF IsValid
    <3> DEFINE n == CrcPlace(kind)
               l == SizeOf(kind)
    <3>2. 2 * Cardinality(Wrong(error, l)) <= NPAR
      <4>1. DamageOf(sent, error) = "few"
        BY <2>2, <3>1
      <4>2. 2 * Cardinality({i \in 0 .. SizeOf(sent) - 1 : error[i] # 0}) <= NPAR
        BY <4>1 DEF DamageOf
      <4> QED
        BY <3>1, <4>2 DEF Wrong
    <3>3. Recovers(fixed, Packet[sent], l)
      BY <2>1, <2>2, <3>1, <3>2, FewCorrected
    <3>4. n = CrcPlace(sent) /\ n \in Nat /\ n + 2 <= l /\ l \in Nat
      BY <2>1, <3>1, CrcPlacePositive, NparAssumption DEF CrcPlace, Parity, SizeOf
    <3>5. sent \in Kinds \ Gps
      BY <2>1, <3>1 DEF Coded
    <3>6. CrcRight(sent, Packet[sent]) /\ \A i \in 0 .. n + 1 : Packet[sent][i] \in Byte
      BY <3>4, <3>5, PacketChecksum
    <3> HIDE DEF n, l, fixed, word, kind, sent
    <3>7. \A i \in 0 .. n + 1 : fixed.word[i] = Packet[sent][i]
      BY <3>3, <3>4 DEF Recovers
    <3>8. n \in 0 .. n + 1 /\ n + 1 \in 0 .. n + 1 /\ \A i \in 0 .. n - 1 : i \in 0 .. n + 1
      BY <3>4
    <3>9. crc_16(fixed.word, n) = crc_16(Packet[sent], n)
      BY <3>4, <3>6, <3>7, <3>8, SameChecksum
    <3>10. CrcRight(kind, fixed.word)
      BY <3>4, <3>6, <3>7, <3>8, <3>9 DEF CrcRight, n
    <3> QED
      BY <3>1, <3>3, <3>10 DEF Passes, Accepts, Recovers
  <2> QED
    BY <2>3, <2>4
<1> QED
  BY <1>1, PacketInvariant, PTL
=============================================================================
