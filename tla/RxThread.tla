------------------------------ MODULE RxThread ------------------------------
(***************************************************************************)
(* rxThread.c: the radio's interrupt thread hands each received frame, in  *)
(* a buffer of its own, to the receive thread through a bounded queue.     *)
(*                                                                         *)
(* The receive thread sleeps on a condition variable without testing a     *)
(* predicate, and the interrupt thread signals it without holding the      *)
(* mutex the sleeper waits with.  A signal sent while the thread is awake  *)
(* is therefore lost, even if the thread has just seen the queue empty.    *)
(* Enqueue and Dequeue run under rxQmut and are one step each; the test of *)
(* rxQ->size is made without it.  The queue exists (see module Startup).   *)
(***************************************************************************)
EXTENDS Naturals, Sequences

CONSTANTS Buf,         \* addresses calloc can return for a frame's buffer
          Frame,       \* contents of a buffer: packet and signal strength
          Free,        \* content of a buffer that is not allocated
          Capacity,    \* rxQueueSize
          RssiPeriod   \* an RSSI report is made every so many packets

ASSUME FreeAssumption     == Free \notin Frame
ASSUME CapacityAssumption == Capacity \in Nat
ASSUME PeriodAssumption   == RssiPeriod \in Nat \ {0}

VARIABLES rxQ,         \* the queued buffers, front first
          heap,        \* the content of each buffer
          isr,         \* where the interrupt thread is in rxQueuePacket
          isrBuf,      \* rxQData.buf
          worker,      \* where the receive thread is in rxThreadFunc
          workerBuf,   \* rxThreadQData.buf
          frame,       \* rxThreadData, the receive thread's copy
          rssiTic,     \* modulo RssiPeriod
          dispatched   \* history: the frame dispatched last

isrVars    == <<isr, isrBuf>>
workerVars == <<worker, workerBuf, frame, rssiTic, dispatched>>
vars       == <<rxQ, heap, isrVars, workerVars>>

HeldByWorker == worker \in {"copy", "rssi", "dispatch"}

Init ==
  /\ rxQ = << >> /\ heap = [b \in Buf |-> Free]
  /\ isr = "idle" /\ isrBuf \in Buf
  /\ worker = "lock" /\ workerBuf \in Buf /\ frame = Free
  /\ rssiTic = 0 /\ dispatched = Free

-----------------------------------------------------------------------------
(* The operators named Slip... are plausible mistakes in the definition that *)
(* follows them, against which the properties below are measured.            *)

(* The interrupt thread: rxQueuePacket.                                     *)

\* The frame is copied into a new buffer.
Receive(f) ==
  /\ isr = "idle"
  /\ \E b \in Buf :
       /\ heap[b] = Free
       /\ heap' = [heap EXCEPT ![b] = f]
       /\ isrBuf' = b
  /\ isr' = "enqueue"
  /\ UNCHANGED <<rxQ, workerVars>>

\* Slip: the capacity is not tested.
SlipEnqueueFrame ==
  /\ isr = "enqueue"
  /\ rxQ' = Append(rxQ, isrBuf)
  /\ isr' = "signal"
  /\ UNCHANGED <<heap, isrBuf, workerVars>>

\* A full queue refuses the buffer, and nobody frees it: no pointer to it
\* remains.  Its address is lost in the code; here it stands from then on for
\* one of the fresh addresses, so that Buf need not grow with the refusals.
EnqueueFrame ==
  /\ isr = "enqueue"
  /\ \/ /\ Len(rxQ) < Capacity
        /\ rxQ' = Append(rxQ, isrBuf)
        /\ heap' = heap
     \/ /\ Len(rxQ) = Capacity
        /\ rxQ' = rxQ
        /\ heap' = [heap EXCEPT ![isrBuf] = Free]
  /\ isr' = "signal"
  /\ UNCHANGED <<isrBuf, workerVars>>

\* Slip: the thread is only signalled when the queue was empty before.
SlipSignal ==
  /\ isr = "signal"
  /\ worker' = IF worker = "waiting" /\ Len(rxQ) = 1 THEN "check" ELSE worker
  /\ isr' = "idle"
  /\ UNCHANGED <<rxQ, heap, isrBuf, workerBuf, frame, rssiTic, dispatched>>

\* pthread_cond_signal, whether or not the frame was accepted.
Signal ==
  /\ isr = "signal"
  /\ worker' = IF worker = "waiting" THEN "check" ELSE worker
  /\ isr' = "idle"
  /\ UNCHANGED <<rxQ, heap, isrBuf, workerBuf, frame, rssiTic, dispatched>>

-----------------------------------------------------------------------------
(* The receive thread: rxThreadFunc.                                        *)

\* It begins to wait whatever the queue holds.
Wait ==
  /\ worker = "lock"
  /\ worker' = "waiting"
  /\ UNCHANGED <<rxQ, heap, isrVars, workerBuf, frame, rssiTic, dispatched>>

\* pthread_cond_wait may return without a signal.
SpuriousWakeup ==
  /\ worker = "waiting"
  /\ worker' = "check"
  /\ UNCHANGED <<rxQ, heap, isrVars, workerBuf, frame, rssiTic, dispatched>>

CheckSize ==
  /\ worker = "check"
  /\ worker' = IF rxQ # << >> THEN "dequeue" ELSE "lock"
  /\ UNCHANGED <<rxQ, heap, isrVars, workerBuf, frame, rssiTic, dispatched>>

\* Slip: the newest element is taken.
SlipDequeueFrame ==
  /\ worker = "dequeue"
  /\ IF rxQ = << >>
     THEN worker' = "check" /\ UNCHANGED <<rxQ, workerBuf>>
     ELSE /\ workerBuf' = rxQ[Len(rxQ)]
          /\ rxQ' = SubSeq(rxQ, 1, Len(rxQ) - 1)
          /\ worker' = "copy"
  /\ UNCHANGED <<heap, isrVars, frame, rssiTic, dispatched>>

DequeueFrame ==
  /\ worker = "dequeue"
  /\ IF rxQ = << >>
     THEN worker' = "check" /\ UNCHANGED <<rxQ, workerBuf>>
     ELSE /\ workerBuf' = Head(rxQ)
          /\ rxQ' = Tail(rxQ)
          /\ worker' = "copy"
  /\ UNCHANGED <<heap, isrVars, frame, rssiTic, dispatched>>

\* Slip: the interrupt thread's pointer is used instead of the own one.
SlipCopyFrame ==
  /\ worker = "copy"
  /\ frame' = heap[isrBuf]
  /\ rssiTic' = (rssiTic + 1) % RssiPeriod
  /\ worker' = IF rssiTic' = 0 THEN "rssi" ELSE "dispatch"
  /\ UNCHANGED <<rxQ, heap, isrVars, workerBuf, dispatched>>

CopyFrame ==
  /\ worker = "copy"
  /\ frame' = heap[workerBuf]
  /\ rssiTic' = (rssiTic + 1) % RssiPeriod
  /\ worker' = IF rssiTic' = 0 THEN "rssi" ELSE "dispatch"
  /\ UNCHANGED <<rxQ, heap, isrVars, workerBuf, dispatched>>

\* processRSSI reports the signal strength of the frame to logger and web.
ReportRssi ==
  /\ worker = "rssi"
  /\ worker' = "dispatch"
  /\ UNCHANGED <<rxQ, heap, isrVars, workerBuf, frame, rssiTic, dispatched>>

\* Slip: the buffer is not freed (as after a handler's error).
SlipDispatchFrame ==
  /\ worker = "dispatch"
  /\ dispatched' = frame
  /\ worker' = "check"
  /\ UNCHANGED <<rxQ, heap, isrVars, workerBuf, frame, rssiTic>>

\* rxThreadDispatchPacket, then free, whatever the handler returned.
DispatchFrame ==
  /\ worker = "dispatch"
  /\ dispatched' = frame
  /\ heap' = [heap EXCEPT ![workerBuf] = Free]
  /\ worker' = "check"
  /\ UNCHANGED <<rxQ, isrVars, workerBuf, frame, rssiTic>>

WorkerStep ==
  Wait \/ CheckSize \/ DequeueFrame \/ CopyFrame \/ ReportRssi \/ DispatchFrame

Next ==
  \/ \E f \in Frame : Receive(f)
  \/ EnqueueFrame \/ Signal
  \/ SpuriousWakeup \/ WorkerStep

\* Both threads run when they can; frames and spurious wakeups need not come.
Fairness == WF_vars(WorkerStep) /\ WF_vars(EnqueueFrame \/ Signal)

Spec == Init /\ [][Next]_vars /\ Fairness

-----------------------------------------------------------------------------
\* The program counters and the queue are what the code can make them; in
\* particular the queue never grows past its capacity.
TypeOK ==
  /\ rxQ \in Seq(Buf) /\ Len(rxQ) <= Capacity
  /\ heap \in [Buf -> Frame \cup {Free}]
  /\ isr \in {"idle", "enqueue", "signal"} /\ isrBuf \in Buf
  /\ worker \in {"lock", "waiting", "check", "dequeue", "copy", "rssi", "dispatch"}
  /\ workerBuf \in Buf
  /\ frame \in Frame \cup {Free} /\ dispatched \in Frame \cup {Free}
  /\ rssiTic \in 0..(RssiPeriod - 1)

Queued == {rxQ[i] : i \in 1..Len(rxQ)}
InHand == IF HeldByWorker THEN {workerBuf} ELSE {}
Coming == IF isr = "enqueue" THEN {isrBuf} ELSE {}

\* Every buffer in use has exactly one owner: the interrupt thread, one place
\* in the queue, or the receive thread.  So none is freed or handed out again
\* while it is queued or read, none is freed twice, and none is lost after it
\* was accepted.
BuffersOwned ==
  /\ {b \in Buf : heap[b] # Free} = Queued \cup InHand \cup Coming
  /\ \A i, j \in 1..Len(rxQ) : rxQ[i] = rxQ[j] => i = j
  /\ Queued \cap (InHand \cup Coming) = {} /\ InHand \cap Coming = {}

-----------------------------------------------------------------------------
\* The accepted frames that are not yet dispatched, as the receive thread
\* will read them: the one it holds, then the queued ones.
FrameInHand ==
  CASE worker = "copy"                 -> << heap[workerBuf] >>
    [] worker \in {"rssi", "dispatch"} -> << frame >>
    [] OTHER                           -> << >>

QueuedFrames == [i \in 1..Len(rxQ) |-> heap[rxQ[i]]]

Pending == FrameInHand \o QueuedFrames

Handover == INSTANCE Delivery
  WITH Item <- Frame, Bound <- Capacity + 1, NoItem <- Free,
       pending <- Pending, last <- dispatched

\* Accepted frames are dispatched once each, in order and with the content
\* they had when they were received, whatever the interleaving of the two
\* threads and however addresses are reused.
ImplementsDelivery == Handover!Spec

\* The unguarded wait loses wakeups, so an accepted frame may stay queued
\* while the receive thread sleeps; but as long as frames keep arriving every
\* accepted one is dispatched.
PromptWhileReceiving == []<>(isr = "signal") => Handover!Prompt
=============================================================================
