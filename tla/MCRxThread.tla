----------------------------- MODULE MCRxThread -----------------------------
(* A capacity of two, reached and passed (rxQueueSize is 100); four buffers *)
(* are a full queue and one in each thread's hands, as many as can be in    *)
(* use.  An RSSI report is made every second packet (15 in the code).       *)
EXTENDS RxThread

CONSTANTS b1, b2, b3, b4, f1, f2

MCBuf   == {b1, b2, b3, b4}
MCFrame == {f1, f2}

\* The buffers the threads' local variables name before their first use do
\* not matter.
MCInit == Init /\ isrBuf = b1 /\ workerBuf = b1

MCSpec == MCInit /\ [][Next]_vars /\ Fairness
=============================================================================
