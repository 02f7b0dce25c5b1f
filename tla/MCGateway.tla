----------------------------- MODULE MCGateway -----------------------------
(* Two frames of telemetry and the END of a picture; a frame queue of one   *)
(* and a log queue of two, both of which fill up; three buffers are a full  *)
(* queue and one in each thread's hands.  The lines of the other senders    *)
(* are all one: the properties do not tell them apart.                      *)
EXTENDS Gateway

CONSTANTS b1, b2, b3, t1, t2, end, other

MCBuf      == {b1, b2, b3}
MCFrame    == {t1, t2, end}
MCReported == {t1, t2}
MCEnds     == {end}
MCEntry    == {t1, t2, other}

\* The buffers the threads' local variables name before their first use do
\* not matter.
MCInit == GatewayInit /\ isrBuf = b1 /\ workerBuf = b1

\* Of the free addresses a fixed one is handed out (in MCRxThread it is any).
MCNext ==
  /\ GatewayNext
  /\ isr = "idle" /\ isr' = "enqueue" => isrBuf' = CHOOSE b \in Buf : heap[b] = Free

MCSpec == MCInit /\ [][MCNext]_gatewayVars /\ GatewayFairness
=============================================================================
