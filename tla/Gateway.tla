------------------------------ MODULE Gateway ------------------------------
(***************************************************************************)
(* The receive thread of rxThread.c at work between its interrupt thread   *)
(* and the logger of logger.c, which also takes the pings that the timer   *)
(* makes the status thread send.                                           *)
(*                                                                         *)
(* A frame of telemetry becomes an entry of the log.  The END of a picture *)
(* may run ftp-upload in the receive thread, which dispatches nothing      *)
(* until the command ends, if it ever does.  Other frames leave no trace   *)
(* here.                                                                   *)
(***************************************************************************)
EXTENDS RxThread, Logger

CONSTANTS Reported,      \* the frames whose handlers report them
          Ends,          \* the frames that can start an upload
          RSSI_INFO,     \* the line about a signal strength
          PING           \* the line about a ping

ASSUME KindsAssumption ==
  Reported \subseteq Frame /\ Ends \subseteq Frame /\ Reported \cap Ends = {}

\* Neither of the other two lines is a frame's; they need not be told apart.
ASSUME EntryAssumption ==
  Entry = Reported \cup {RSSI_INFO, PING} /\ Reported \cap {RSSI_INFO, PING} = {}

VARIABLE uploading       \* the receive thread is in system("ftp-upload ...")

gatewayVars == <<vars, uploading, logVars>>

GatewayInit == Init /\ LogInit /\ uploading = FALSE

-----------------------------------------------------------------------------
(* The receive thread.                                                      *)

ReportSignal ==
  /\ ReportRssi /\ Send(RSSI_INFO)
  /\ UNCHANGED uploading

ReportTelemetry ==
  /\ frame \in Reported
  /\ DispatchFrame /\ Send(frame)
  /\ UNCHANGED uploading

\* Also an END that is damaged, or of a picture without a sequence file.
DispatchQuietly ==
  /\ frame \notin Reported /\ ~uploading
  /\ DispatchFrame
  /\ UNCHANGED <<uploading, logVars>>

StartUpload ==
  /\ worker = "dispatch" /\ frame \in Ends /\ ~uploading
  /\ uploading' = TRUE
  /\ UNCHANGED <<vars, logVars>>

\* Slip: an upload is tried again until it succeeds.
SlipFinishUpload ==
  /\ uploading /\ uploading' = FALSE
  /\ DispatchFrame \/ UNCHANGED vars
  /\ UNCHANGED logVars

\* ftp-upload ended; its result is only printed.
FinishUpload ==
  /\ uploading /\ uploading' = FALSE
  /\ DispatchFrame
  /\ UNCHANGED logVars

ReceiveStep ==
  \/ ReportSignal \/ ReportTelemetry \/ DispatchQuietly \/ StartUpload
  \/ /\ Wait \/ CheckSize \/ DequeueFrame \/ CopyFrame
     /\ UNCHANGED <<uploading, logVars>>

-----------------------------------------------------------------------------
\* The timer's tic makes the status thread send a ping.
Ping == Send(PING) /\ UNCHANGED <<vars, uploading>>

LogStep == LoggerStep /\ UNCHANGED <<vars, uploading>>

GatewayNext ==
  \/ ReceiveStep \/ FinishUpload \/ Ping \/ LogStep
  \/ LoggerSpuriousWakeup /\ UNCHANGED <<vars, uploading>>
  \/ /\ SpuriousWakeup \/ EnqueueFrame \/ Signal \/ \E f \in Frame : Receive(f)
     /\ UNCHANGED <<uploading, logVars>>

\* Every thread runs when it can, and the timer goes on.  Frames and spurious
\* wakeups need not come, and an upload need not end.
GatewayFairness ==
  /\ WF_gatewayVars(ReceiveStep)
  /\ WF_gatewayVars((EnqueueFrame \/ Signal) /\ UNCHANGED <<uploading, logVars>>)
  /\ WF_gatewayVars(Ping) /\ WF_gatewayVars(LogStep)

GatewaySpec == GatewayInit /\ [][GatewayNext]_gatewayVars /\ GatewayFairness

-----------------------------------------------------------------------------
\* Both queues and threads are what the code can make them; an upload runs
\* only inside the dispatch of an END.
GatewayTypeOK ==
  /\ TypeOK /\ LogTypeOK
  /\ uploading \in BOOLEAN
  /\ uploading => worker = "dispatch" /\ frame \in Ends

\* Kept(s)[n]: the telemetry among the first n elements of s.
Kept(s) ==
  LET kept[n \in 0..Len(s)] ==
        IF n = 0 THEN << >>
        ELSE IF s[n] \in Reported THEN Append(kept[n - 1], s[n]) ELSE kept[n - 1]
  IN  kept

TelemetryOf(s) == Kept(s)[Len(s)]

\* The telemetry on its way from the radio to the log.
OnItsWay == TelemetryOf(LogPending \o Pending)

WayToLog == INSTANCE LossyDelivery
  WITH Item <- Reported, Bound <- Capacity + LogCapacity + 2, NoItem <- NoEntry,
       pending <- OnItsWay, last <- IF handled \in Reported THEN handled ELSE NoEntry

\* Telemetry is logged in the order in which it was received, each frame once
\* and as it came: a full log queue loses an entry but moves none, whatever
\* pings and signal strengths are logged in between and however long uploads
\* stop the receive thread.
LogFollowsRadio == WayToLog!LossySpec

\* Everything accepted for the log is written, although the logger loses
\* wakeups and an upload may hang for ever: the pings go on, and even one that
\* is refused wakes the logger.
LogGoesOn == LogPrompt

\* As long as frames keep arriving and uploads end, every accepted frame is
\* dispatched, the ones that waited for an upload included.
ReceivesBetweenUploads ==
  []<>(isr = "signal") /\ []<>~uploading => Handover!Prompt
=============================================================================
