----------------------------- MODULE Telemetry -----------------------------
(***************************************************************************)
(* The way of one frame through the program: the interrupt handler takes   *)
(* its length from its type (modem.c), the receive thread picks a handler  *)
(* by the same byte (rxThread.c), the handler checks length and CRC,       *)
(* corrects, and reports to the log and the server (sensor.c, batt.c,      *)
(* callSign.c, habInfo.c), and the web client writes reports of the types  *)
(* it knows (webClientThread.c).  Each of these has a table of its own.    *)
(*                                                                         *)
(* The type byte is used before it is checked, so a damaged frame can be   *)
(* taken for another kind; after a correction nobody looks at it again.    *)
(* Assembly of sentences and of pictures is in GpsSentence and ImageFile.  *)
(***************************************************************************)
EXTENDS Ecc

Gps   == {"GPS_GGA", "GPS_GGA_1", "GPS_GGA_2", "GPS_RMC", "GPS_RMC_1", "GPS_RMC_2"}
Kinds == Gps \cup {"START_IMAGE", "IMAGE_DATA", "END_IMAGE", "INT_TEMP", "EXT_TEMP",
                   "BATT_INFO", "PRESS_INFO", "HUM_INFO", "INFO_DATA", "CW_ID"}

VARIABLES frame,     \* the frame: its kind, the type byte heard, its damage
          stage,     \* how far it has come
          size,      \* rxThreadData.size
          handled,   \* the kind its handler took it for, or "none"
          reports,   \* the reports made for it, as their label and type
          written    \* the labels of those written to the server

vars == <<frame, stage, size, handled, reports, written>>

\* "no" byte the checksum covers is wrong (the parity may be); the wrong bytes
\* are as "few" as the code can correct, or "many" more.  IMAGE_DATA and GPS
\* frames carry no code.
Damage == {"no", "few", "many"}

Frame == {f \in [sent : Kinds, heard : Kinds \cup {"unknown"}, damage : Damage] :
            f.damage = "no" => f.heard = f.sent}

Init ==
  /\ frame \in Frame /\ stage = "heard"
  /\ size = 0 /\ handled = "none" /\ reports = {} /\ written = {}

-----------------------------------------------------------------------------
\* packetDefs.h: the size of the structure of each kind.
SizeOf(kind) ==
  CASE kind = "START_IMAGE" -> 9 + NPAR
    [] kind \in {"END_IMAGE", "INT_TEMP"} -> 5 + NPAR
    [] kind \in {"EXT_TEMP", "BATT_INFO", "PRESS_INFO", "HUM_INFO"} -> 8 + NPAR
    [] kind = "INFO_DATA" -> 37 + NPAR
    [] kind = "CW_ID" -> 17 + NPAR
    [] OTHER -> 64

(* The operators named Slip... are plausible mistakes in the definition that *)
(* follows them, against which the properties below are measured.            *)

\* Slip: the call sign has the size of the info text.
SlipRxSize(kind) == SizeOf(IF kind = "CW_ID" THEN "INFO_DATA" ELSE kind)

\* The interrupt handler's table.
RxSize(kind) == SizeOf(kind)

\* rxDoneISRf drops a frame of unknown type, and one it hears too weakly.
QueueFrame ==
  /\ stage = "heard"
  /\ \/ /\ frame.heard \in Kinds
        /\ size' = RxSize(frame.heard)
        /\ stage' = "queued"
     \/ size' = size /\ stage' = "done"
  /\ UNCHANGED <<frame, handled, reports, written>>

Report(label, type) == reports' = reports \cup {[label |-> label, type |-> type]}

\* Every so many frames the signal strength is reported first.
ReportRssi ==
  /\ stage = "queued" /\ reports = {}
  /\ Report("RSSI_INFO", "RSSI_INFO")
  /\ UNCHANGED <<frame, stage, size, handled, written>>

\* The status thread sends its ping.
Ping ==
  /\ stage = "queued" /\ reports = {}
  /\ Report("PING", "PING")
  /\ UNCHANGED <<frame, stage, size, handled, written>>

-----------------------------------------------------------------------------
Coded(kind) == kind \notin Gps \cup {"IMAGE_DATA"}

\* Slip: a packet is taken after a correction without another look at its CRC.
SlipIsValid(kind) ==
  /\ size = SizeOf(kind)
  /\ frame.damage = "no" \/ (Coded(kind) /\ Coded(frame.sent))

\* Length, then CRC, then correction and CRC again.  A correction restores the
\* packet as it was sent, which has its CRC where the handler looks for it
\* only if both kinds have the same length.
IsValid(kind) ==
  /\ size = SizeOf(kind)
  /\ \/ frame.damage = "no"
     \/ /\ frame.damage = "few" /\ Coded(kind) /\ Coded(frame.sent)
        /\ SizeOf(frame.sent) = SizeOf(kind)

\* A packet that passes is handled, and reported if it is telemetry.
Handle(kind) == IsValid(kind) /\ handled' = kind
Refuse(kind) == ~IsValid(kind) /\ UNCHANGED <<handled, reports>>

\* The sensors' handlers report with the type byte that was heard, the others
\* with the type in the packet, after its correction.
ProcessSensor(kind) ==
  /\ kind \in {"INT_TEMP", "EXT_TEMP", "PRESS_INFO", "HUM_INFO"}
  /\ Refuse(kind) \/ (Handle(kind) /\ Report(kind, kind))

ProcessBattInfo(kind) ==
  /\ kind = "BATT_INFO"
  /\ Refuse(kind) \/ (Handle(kind) /\ Report(kind, frame.sent))

ProcessCallSign(kind) ==
  /\ kind = "CW_ID"
  /\ Refuse(kind) \/ (Handle(kind) /\ Report(kind, frame.sent))

ProcessInfo(kind) ==
  /\ kind = "INFO_DATA"
  /\ Refuse(kind) \/ (Handle(kind) /\ Report(kind, frame.sent))

\* Packets of pictures go to the files.
ProcessImageFile(kind) ==
  /\ kind \in {"START_IMAGE", "IMAGE_DATA", "END_IMAGE"}
  /\ Refuse(kind) \/ (Handle(kind) /\ UNCHANGED reports)

\* Frames of sentences have no CRC; a sentence that came whole, or with its
\* second half, is reported with the type heard if its text has the right
\* checksum.
ProcessGPS(kind) ==
  /\ kind \in Gps /\ handled' = kind
  /\ \/ UNCHANGED reports
     \/ kind \notin {"GPS_GGA_1", "GPS_RMC_1"} /\ Report(kind, kind)

\* rxThreadDispatchPacket.
Dispatch ==
  /\ stage = "queued"
  /\ LET kind == frame.heard
     IN  \/ ProcessSensor(kind) \/ ProcessBattInfo(kind) \/ ProcessCallSign(kind)
         \/ ProcessInfo(kind) \/ ProcessImageFile(kind) \/ ProcessGPS(kind)
  /\ stage' = "web"
  /\ UNCHANGED <<frame, size, written>>

\* Slip: the sentences in two halves were forgotten for one of the kinds.
SlipWrites(type) ==
  type \in {"GPS_GGA", "GPS_RMC", "GPS_GGA_2", "INT_TEMP", "PRESS_INFO", "HUM_INFO",
            "EXT_TEMP", "CW_ID", "BATT_INFO", "RSSI_INFO", "PING"}

\* The web client's switch.
Writes(type) ==
  type \in {"GPS_GGA", "GPS_RMC", "GPS_GGA_2", "GPS_RMC_2", "INT_TEMP", "PRESS_INFO",
            "HUM_INFO", "EXT_TEMP", "CW_ID", "BATT_INFO", "RSSI_INFO", "PING"}

WriteReports ==
  /\ stage = "web"
  /\ written' = {r.label : r \in {x \in reports : Writes(x.type)}}
  /\ stage' = "done"
  /\ UNCHANGED <<frame, size, handled, reports>>

Next == QueueFrame \/ ReportRssi \/ Ping \/ Dispatch \/ WriteReports

Spec == Init /\ [][Next]_vars

-----------------------------------------------------------------------------
\* The four tables agree: an undamaged frame that is queued is always taken
\* for what it is, with the length its handler expects.
IntactIsHandled ==
  stage \in {"web", "done"} /\ frame.damage = "no" /\ size # 0 => handled = frame.sent

\* Whatever type byte is heard, a frame is only taken for another kind when it
\* could be corrected and both kinds have the same length (sensor readings, or
\* a temperature and the end of a picture); one beyond correction is taken for
\* none, except by processGPSPacket, which has its own checksum.
HandledAsSent ==
  handled \notin Gps \cup {"none"} =>
    /\ frame.damage # "many"
    /\ handled # frame.sent => frame.damage = "few" /\ SizeOf(handled) = SizeOf(frame.sent)

\* Of all that is reported to log and server, whoever reports it, telemetry, GPS
\* sentences, signal strength or pings, the web client writes what it dequeues,
\* except the sonde's info text, whose type it does not know; a type changed by
\* a damaged frame or its correction makes no difference.  (Whether the queue
\* takes the report and the connection stands is the matter of WebClient.)
ReportsReachServer ==
  stage = "done" => \A r \in reports : r.label \in written <=> r.label # "INFO_DATA"
=============================================================================
