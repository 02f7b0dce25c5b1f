--------------------------- MODULE GatewayProofs ---------------------------
(***************************************************************************)
(* The receive thread and the logger keep their promises, each alone and   *)
(* both together, for every size of both queues, every set of buffers and  *)
(* every set of frames and entries.                                        *)
(***************************************************************************)
EXTENDS Gateway, SequenceTheorems, WellFoundedInduction, TLAPS

(***************************************************************************)
(* The receive thread: the hand-over of frames, for every capacity of the  *)
(* queue, every set of buffers and every set of frames.                    *)
(***************************************************************************)

IInv == TypeOK /\ BuffersOwned

LEMMA InitInv == Init => IInv
BY CapacityAssumption, PeriodAssumption
   DEF Init, IInv, TypeOK, BuffersOwned, Queued, InHand, Coming, HeldByWorker

\* Steps that leave the queue, the buffers and their owners alone.
LEMMA QuietInv ==
  ASSUME IInv, TypeOK', UNCHANGED <<rxQ, heap>>,
         InHand' = InHand, Coming' = Coming
  PROVE  IInv'
BY DEF IInv, BuffersOwned, Queued

LEMMA ReceiveInv ==
  ASSUME IInv, NEW f \in Frame, Receive(f)
  PROVE  IInv'
<1> USE FreeAssumption
<1>1. PICK b \in Buf : heap[b] = Free /\ heap' = [heap EXCEPT ![b] = f] /\ isrBuf' = b
  BY DEF Receive
<1>2. /\ isr = "idle" /\ isr' = "enqueue"
      /\ rxQ' = rxQ /\ UNCHANGED workerVars
  BY DEF Receive
<1>3. TypeOK'
  BY <1>1, <1>2 DEF IInv, TypeOK, workerVars
<1>4. Coming = {} /\ Coming' = {b} /\ InHand' = InHand /\ Queued' = Queued
  BY <1>1, <1>2 DEF Coming, InHand, HeldByWorker, Queued, workerVars
<1>5. {x \in Buf : heap'[x] # Free} = {x \in Buf : heap[x] # Free} \cup {b}
  BY <1>1 DEF IInv, TypeOK
<1>6. b \notin Queued \cup InHand \cup Coming
  BY <1>1 DEF IInv, BuffersOwned
<1> QED
  BY <1>2, <1>3, <1>4, <1>5, <1>6 DEF IInv, BuffersOwned

LEMMA EnqueueInv ==
  ASSUME IInv, EnqueueFrame
  PROVE  IInv'
<1> USE CapacityAssumption
<1>1. /\ isr = "enqueue" /\ isr' = "signal" /\ isrBuf \in Buf
      /\ UNCHANGED <<isrBuf, workerVars>>
  BY DEF EnqueueFrame, IInv, TypeOK
<1>2. /\ Coming = {isrBuf} /\ Coming' = {} /\ InHand' = InHand
      /\ isrBuf \notin Queued /\ isrBuf \notin InHand
  BY <1>1 DEF Coming, InHand, HeldByWorker, workerVars, IInv, BuffersOwned
<1>3. rxQ \in Seq(Buf) /\ Len(rxQ) \in Nat
  BY DEF IInv, TypeOK
<1>4. CASE Len(rxQ) < Capacity /\ rxQ' = Append(rxQ, isrBuf) /\ heap' = heap
  <2>1. /\ rxQ' \in Seq(Buf) /\ Len(rxQ') = Len(rxQ) + 1 /\ rxQ'[Len(rxQ) + 1] = isrBuf
        /\ \A i \in 1..Len(rxQ) : rxQ'[i] = rxQ[i]
    BY <1>1, <1>3, <1>4, AppendProperties
  <2>2. TypeOK'
    BY <1>1, <1>3, <1>4, <2>1 DEF IInv, TypeOK, workerVars
  <2>3. Queued' = Queued \cup {isrBuf}
    BY <1>3, <2>1 DEF Queued
  <2>4. ASSUME NEW i \in 1..Len(rxQ'), NEW j \in 1..Len(rxQ'), rxQ'[i] = rxQ'[j]
        PROVE  i = j
    <3>1. \A k \in 1..Len(rxQ) : rxQ[k] # isrBuf
      BY <1>2 DEF Queued
    <3> QED
      BY <3>1, <2>1, <2>4, <1>3 DEF IInv, BuffersOwned
  <2> QED
    BY <1>2, <1>4, <2>2, <2>3, <2>4 DEF IInv, BuffersOwned
<1>5. CASE rxQ' = rxQ /\ heap' = [heap EXCEPT ![isrBuf] = Free]
  <2>1. TypeOK'
    BY <1>1, <1>5 DEF IInv, TypeOK, workerVars
  <2>2. Queued' = Queued
    BY <1>5 DEF Queued
  <2>3. {x \in Buf : heap'[x] # Free} = {x \in Buf : heap[x] # Free} \ {isrBuf}
    BY <1>1, <1>5 DEF IInv, TypeOK
  <2> QED
    BY <1>2, <1>5, <2>1, <2>2, <2>3 DEF IInv, BuffersOwned
<1> QED
  BY <1>4, <1>5 DEF EnqueueFrame

LEMMA DequeueInv ==
  ASSUME IInv, DequeueFrame
  PROVE  IInv'
<1>1. CASE rxQ = << >>
  BY <1>1, QuietInv
     DEF DequeueFrame, IInv, TypeOK, InHand, Coming, HeldByWorker, isrVars
<1>2. CASE rxQ # << >>
  <2>1. /\ worker = "dequeue" /\ worker' = "copy" /\ workerBuf' = Head(rxQ)
        /\ rxQ' = Tail(rxQ) /\ UNCHANGED <<heap, isrVars, frame, rssiTic, dispatched>>
        /\ rxQ \in Seq(Buf) /\ Len(rxQ) \in Nat \ {0} /\ Len(rxQ) <= Capacity
    BY <1>2, EmptySeq DEF DequeueFrame, IInv, TypeOK
  <2>2. /\ Head(rxQ) \in Buf /\ Head(rxQ) = rxQ[1]
        /\ rxQ' \in Seq(Buf) /\ Len(rxQ') = Len(rxQ) - 1
        /\ \A i \in 1..Len(rxQ') : rxQ'[i] = rxQ[i + 1]
    BY <1>2, <2>1, HeadTailProperties
  <2>3. TypeOK'
    BY <2>1, <2>2, CapacityAssumption DEF IInv, TypeOK, isrVars
  <2>4. InHand = {} /\ InHand' = {Head(rxQ)} /\ Coming' = Coming
    BY <2>1 DEF InHand, HeldByWorker, Coming, isrVars
  <2>5. \A i, j \in 1..Len(rxQ) : rxQ[i] = rxQ[j] => i = j
    BY DEF IInv, BuffersOwned
  <2>6. Queued = Queued' \cup {Head(rxQ)}
    <3>1. \A i \in 2..Len(rxQ) : i - 1 \in 1..Len(rxQ') /\ rxQ[i] = rxQ'[i - 1]
      BY <2>1, <2>2
    <3>2. \A i \in 1..Len(rxQ') : i + 1 \in 1..Len(rxQ) /\ rxQ'[i] = rxQ[i + 1]
      BY <2>1, <2>2
    <3>3. \A i \in 1..Len(rxQ) : i = 1 \/ i \in 2..Len(rxQ)
      BY <2>1
    <3>4. 1 \in 1..Len(rxQ)
      BY <2>1
    <3>5. Queued \subseteq Queued' \cup {Head(rxQ)}
      BY <3>1, <3>3, <2>2 DEF Queued
    <3>6. Queued' \cup {Head(rxQ)} \subseteq Queued
      BY <3>2, <3>4, <2>2 DEF Queued
    <3> QED
      BY <3>5, <3>6
  <2>7. Head(rxQ) \notin Queued'
    BY <2>1, <2>2, <2>5 DEF Queued
  <2>8. \A i, j \in 1..Len(rxQ') : rxQ'[i] = rxQ'[j] => i = j
    BY <2>1, <2>2, <2>5
  <2> QED
    BY <2>1, <2>3, <2>4, <2>6, <2>7, <2>8 DEF IInv, BuffersOwned
<1> QED
  BY <1>1, <1>2

LEMMA DispatchInv ==
  ASSUME IInv, DispatchFrame
  PROVE  IInv'
<1>1. /\ worker = "dispatch" /\ worker' = "check" /\ dispatched' = frame
      /\ heap' = [heap EXCEPT ![workerBuf] = Free] /\ workerBuf \in Buf
      /\ UNCHANGED <<rxQ, isrVars, workerBuf, frame, rssiTic>>
  BY DEF DispatchFrame, IInv, TypeOK
<1>2. TypeOK'
  BY <1>1 DEF IInv, TypeOK, isrVars
<1>3. InHand = {workerBuf} /\ InHand' = {} /\ Coming' = Coming /\ Queued' = Queued
  BY <1>1 DEF InHand, HeldByWorker, Coming, Queued, isrVars
<1>4. {x \in Buf : heap'[x] # Free} = {x \in Buf : heap[x] # Free} \ {workerBuf}
  BY <1>1 DEF IInv, TypeOK
<1> QED
  BY <1>1, <1>2, <1>3, <1>4 DEF IInv, BuffersOwned

LEMMA StepInv == IInv /\ [Next]_vars => IInv'
<1> SUFFICES ASSUME IInv, [Next]_vars
             PROVE  IInv'
  OBVIOUS
<1> USE DEF InHand, Coming, HeldByWorker
<1>1. CASE Signal
  BY <1>1, QuietInv DEF Signal, IInv, TypeOK
<1>2. CASE Wait \/ SpuriousWakeup \/ CheckSize \/ ReportRssi
  BY <1>2, QuietInv
     DEF Wait, SpuriousWakeup, CheckSize, ReportRssi, IInv, TypeOK, isrVars
<1>3. CASE CopyFrame
  <2>1. rssiTic' \in 0..(RssiPeriod - 1)
    BY <1>3, PeriodAssumption DEF CopyFrame, IInv, TypeOK
  <2> QED
    BY <1>3, <2>1, QuietInv DEF CopyFrame, IInv, TypeOK, isrVars
<1>4. CASE UNCHANGED vars
  BY <1>4, QuietInv DEF vars, isrVars, workerVars, IInv, TypeOK
<1> QED
  BY <1>1, <1>2, <1>3, <1>4, ReceiveInv, EnqueueInv, DequeueInv, DispatchInv
     DEF Next, WorkerStep

\* In every interleaving of the two threads each buffer has one owner.
THEOREM OwnershipSafe == Spec => [](TypeOK /\ BuffersOwned)
BY InitInv, StepInv, PTL DEF Spec, IInv

-----------------------------------------------------------------------------
(* The receive thread implements Delivery.  RInv adds to the invariant that  *)
(* the copy it works on is a frame, not the content of a freed buffer.       *)

RInv == IInv /\ (worker \in {"rssi", "dispatch"} => frame \in Frame)

LEMMA StepRInv == RInv /\ [Next]_vars => RInv'
<1> SUFFICES ASSUME RInv, [Next]_vars
             PROVE  RInv'
  OBVIOUS
<1>1. IInv /\ IInv'
  BY StepInv DEF RInv
<1>2. CASE CopyFrame
  <2>1. heap[workerBuf] # Free /\ workerBuf \in Buf
    BY <1>1, <1>2 DEF CopyFrame, IInv, TypeOK, BuffersOwned, InHand, HeldByWorker
  <2> QED
    BY <1>1, <1>2, <2>1 DEF CopyFrame, RInv, IInv, TypeOK
<1>3. CASE Wait \/ SpuriousWakeup \/ CheckSize \/ ReportRssi \/ DequeueFrame \/ DispatchFrame
  BY <1>1, <1>3
     DEF RInv, Wait, SpuriousWakeup, CheckSize, ReportRssi, DequeueFrame, DispatchFrame
<1>4. CASE Signal \/ EnqueueFrame \/ (\E f \in Frame : Receive(f)) \/ UNCHANGED vars
  BY <1>1, <1>4 DEF RInv, Signal, EnqueueFrame, Receive, vars, workerVars
<1> QED
  BY <1>2, <1>3, <1>4 DEF Next, WorkerStep

\* The frames in the buffers of a sequence, of this state or of the next.
LEMMA FramesOf ==
  ASSUME NEW q \in Seq(Buf), NEW h,
         \A i \in 1..Len(q) : h[q[i]] \in Frame
  PROVE  LET frames == [i \in 1..Len(q) |-> h[q[i]]]
         IN  /\ frames \in Seq(Frame)
             /\ Len(frames) = Len(q)
             /\ \A i \in 1..Len(q) : frames[i] = h[q[i]]
<1> DEFINE frames == [i \in 1..Len(q) |-> h[q[i]]]
<1>1. Len(q) \in Nat /\ frames \in [1..Len(q) -> Frame]
  OBVIOUS
<1>2. frames \in Seq(Frame)
  BY <1>1, SeqDef
<1>3. DOMAIN frames = 1..Len(q)
  OBVIOUS
<1>4. Len(frames) = Len(q)
  BY <1>1, <1>2, <1>3, LenProperties
<1> QED
  BY <1>2, <1>4

LEMMA QueuedFramesType ==
  ASSUME IInv
  PROVE  /\ QueuedFrames \in Seq(Frame)
         /\ Len(QueuedFrames) = Len(rxQ)
         /\ \A i \in 1..Len(rxQ) : QueuedFrames[i] = heap[rxQ[i]]
<1>1. ASSUME NEW i \in 1..Len(rxQ)
      PROVE  heap[rxQ[i]] \in Frame
  <2>1. rxQ[i] \in Queued /\ rxQ[i] \in Buf
    BY DEF Queued, IInv, TypeOK
  <2>2. heap[rxQ[i]] # Free
    BY <2>1 DEF IInv, BuffersOwned
  <2> QED
    BY <2>1, <2>2 DEF IInv, TypeOK
<1>2. rxQ \in Seq(Buf)
  BY DEF IInv, TypeOK
<1> QED
  BY <1>1, <1>2, FramesOf DEF QueuedFrames

\* The three facts about sequences the steps of the refinement rest on.
LEMMA ConcatAppend ==
  ASSUME NEW S, NEW s \in Seq(S), NEW t \in Seq(S), NEW x \in S
  PROVE  s \o Append(t, x) = Append(s \o t, x)
<1>1. /\ Append(t, x) \in Seq(S) /\ Len(Append(t, x)) = Len(t) + 1
      /\ Append(t, x)[Len(t) + 1] = x
      /\ \A i \in 1..Len(t) : Append(t, x)[i] = t[i]
  BY AppendProperties
<1>2. /\ s \o t \in Seq(S) /\ Len(s \o t) = Len(s) + Len(t)
      /\ \A i \in 1..(Len(s) + Len(t)) :
           (s \o t)[i] = IF i <= Len(s) THEN s[i] ELSE t[i - Len(s)]
  BY ConcatProperties
<1>3. /\ s \o Append(t, x) \in Seq(S) /\ Len(s \o Append(t, x)) = Len(s) + Len(t) + 1
      /\ \A i \in 1..(Len(s) + Len(t) + 1) :
           (s \o Append(t, x))[i] = IF i <= Len(s) THEN s[i] ELSE Append(t, x)[i - Len(s)]
  BY <1>1, ConcatProperties
<1>4. /\ Append(s \o t, x) \in Seq(S) /\ Len(Append(s \o t, x)) = Len(s) + Len(t) + 1
      /\ Append(s \o t, x)[Len(s) + Len(t) + 1] = x
      /\ \A i \in 1..(Len(s) + Len(t)) : Append(s \o t, x)[i] = (s \o t)[i]
  BY <1>2, AppendProperties
<1>5. Len(s) \in Nat /\ Len(t) \in Nat
  OBVIOUS
<1>6. ASSUME NEW i \in 1..(Len(s) + Len(t) + 1)
      PROVE  (s \o Append(t, x))[i] = Append(s \o t, x)[i]
  BY <1>1, <1>2, <1>3, <1>4, <1>5
<1> QED
  BY <1>3, <1>4, <1>5, <1>6, SeqEqual

LEMMA HeadInFront ==
  ASSUME NEW S, NEW s \in Seq(S), NEW x \in S
  PROVE  /\ << x >> \o s # << >>
         /\ Head(<< x >> \o s) = x
         /\ Tail(<< x >> \o s) = s
<1> DEFINE c == << x >> \o s
<1>1. << x >> \in Seq(S) /\ Len(<< x >>) = 1 /\ << x >>[1] = x /\ Len(s) \in Nat
  OBVIOUS
<1>2. /\ c \in Seq(S) /\ Len(c) = 1 + Len(s)
      /\ \A i \in 1..(1 + Len(s)) : c[i] = IF i <= 1 THEN << x >>[i] ELSE s[i - 1]
  BY <1>1, ConcatProperties
<1>3. c # << >> /\ c[1] = x
  BY <1>1, <1>2, EmptySeq
<1>4. /\ Tail(c) \in Seq(S) /\ Len(Tail(c)) = Len(s)
      /\ \A i \in 1..Len(s) : Tail(c)[i] = c[i + 1]
  BY <1>1, <1>2, <1>3, HeadTailProperties
<1>5. \A i \in 1..Len(s) : Tail(c)[i] = s[i]
  BY <1>1, <1>2, <1>4
<1>6. Tail(c) = s
  BY <1>4, <1>5, SeqEqual
<1> QED
  BY <1>2, <1>3, <1>6

-----------------------------------------------------------------------------
LEMMA HandType ==
  ASSUME RInv
  PROVE  FrameInHand \in Seq(Frame) /\ Len(FrameInHand) <= 1
<1>1. CASE worker = "copy"
  <2>1. heap[workerBuf] # Free /\ workerBuf \in Buf
    BY <1>1 DEF RInv, IInv, TypeOK, BuffersOwned, InHand, HeldByWorker
  <2>2. heap[workerBuf] \in Frame
    BY <2>1 DEF RInv, IInv, TypeOK
  <2>3. FrameInHand = << heap[workerBuf] >>
    BY <1>1 DEF FrameInHand
  <2> QED
    BY <2>2, <2>3
<1>2. CASE worker \in {"rssi", "dispatch"}
  <2>1. FrameInHand = << frame >> /\ frame \in Frame
    BY <1>2 DEF FrameInHand, RInv
  <2> QED
    BY <2>1
<1>3. CASE worker \notin {"copy", "rssi", "dispatch"}
  <2>1. FrameInHand = << >>
    BY <1>3 DEF FrameInHand
  <2> QED
    BY <2>1
<1> QED
  BY <1>1, <1>2, <1>3

\* Receive writes a buffer that is neither queued nor in hand, and a refused
\* frame's buffer is neither: what is pending does not change.
LEMMA OtherBufferWritten ==
  ASSUME IInv, NEW b \in Buf, NEW v, b \notin Queued, b \notin InHand,
         heap' = [heap EXCEPT ![b] = v], rxQ' = rxQ, UNCHANGED workerVars
  PROVE  Pending' = Pending
<1>1. QueuedFrames' = QueuedFrames
  <2>1. ASSUME NEW i \in 1..Len(rxQ)
        PROVE  heap'[rxQ[i]] = heap[rxQ[i]]
    BY DEF Queued, IInv, TypeOK
  <2> QED
    BY <2>1 DEF QueuedFrames
<1>2. FrameInHand' = FrameInHand
  BY DEF FrameInHand, InHand, HeldByWorker, workerVars, IInv, TypeOK
<1> QED
  BY <1>1, <1>2 DEF Pending

LEMMA EnqueueMaps ==
  ASSUME RInv, RInv', EnqueueFrame
  PROVE  \/ \E x \in Frame : Handover!Accept(x)
         \/ Pending' = Pending /\ dispatched' = dispatched
<1> USE CapacityAssumption
<1>1. /\ isr = "enqueue" /\ isrBuf \in Buf /\ UNCHANGED workerVars
      /\ rxQ \in Seq(Buf) /\ Len(rxQ) \in Nat
  BY DEF EnqueueFrame, RInv, IInv, TypeOK
<1>2. isrBuf \notin Queued /\ isrBuf \notin InHand /\ heap[isrBuf] \in Frame
  BY <1>1 DEF Coming, RInv, IInv, TypeOK, BuffersOwned
<1>3. CASE Len(rxQ) < Capacity /\ rxQ' = Append(rxQ, isrBuf) /\ heap' = heap
  <2>1. /\ rxQ' \in Seq(Buf) /\ Len(rxQ') = Len(rxQ) + 1 /\ rxQ'[Len(rxQ) + 1] = isrBuf
        /\ \A i \in 1..Len(rxQ) : rxQ'[i] = rxQ[i]
    BY <1>1, <1>3, AppendProperties
  <2>2. /\ QueuedFrames \in Seq(Frame) /\ Len(QueuedFrames) = Len(rxQ)
        /\ \A i \in 1..Len(rxQ) : QueuedFrames[i] = heap[rxQ[i]]
    BY QueuedFramesType DEF RInv
  <2>3. \A i \in 1..Len(rxQ') : heap'[rxQ'[i]] \in Frame
    <3>1. ASSUME NEW i \in 1..Len(rxQ)
          PROVE  heap[rxQ[i]] \in Frame
      BY <2>2, ElementOfSeq
    <3> QED
      BY <1>1, <1>2, <1>3, <2>1, <3>1
  <2>4. /\ QueuedFrames' \in Seq(Frame) /\ Len(QueuedFrames') = Len(rxQ')
        /\ \A i \in 1..Len(rxQ') : QueuedFrames'[i] = heap'[rxQ'[i]]
    BY <2>1, <2>3, FramesOf DEF QueuedFrames
  <2>5. QueuedFrames' = Append(QueuedFrames, heap[isrBuf])
    BY <1>1, <1>2, <1>3, <2>1, <2>2, <2>4, AppendProperties, SeqEqual
  <2>6. FrameInHand' = FrameInHand
    BY <1>1, <1>3 DEF FrameInHand, workerVars
  <2>7. FrameInHand \in Seq(Frame) /\ Len(FrameInHand) <= 1
    BY HandType
  <2>8. Pending' = Append(Pending, heap[isrBuf])
    BY <1>2, <2>2, <2>5, <2>6, <2>7, ConcatAppend DEF Pending
  <2>9. Len(Pending) < Capacity + 1
    <3>1. Len(Pending) = Len(FrameInHand) + Len(QueuedFrames)
      BY <2>2, <2>7, ConcatProperties DEF Pending
    <3> QED
      BY <3>1, <1>1, <1>3, <2>2, <2>7
  <2>10. dispatched' = dispatched
    BY <1>1 DEF workerVars
  <2> QED
    BY <1>2, <2>8, <2>9, <2>10 DEF Handover!Accept
<1>4. CASE rxQ' = rxQ /\ heap' = [heap EXCEPT ![isrBuf] = Free]
  BY <1>1, <1>2, <1>4, OtherBufferWritten DEF RInv, workerVars
<1> QED
  BY <1>3, <1>4 DEF EnqueueFrame

LEMMA DequeueMaps ==
  ASSUME RInv, RInv', DequeueFrame
  PROVE  Pending' = Pending
<1>1. CASE rxQ = << >>
  BY <1>1 DEF DequeueFrame, Pending, FrameInHand, QueuedFrames
<1>2. CASE rxQ # << >>
  <2>1. /\ worker = "dequeue" /\ worker' = "copy" /\ workerBuf' = Head(rxQ)
        /\ rxQ' = Tail(rxQ) /\ heap' = heap
        /\ rxQ \in Seq(Buf) /\ Len(rxQ) \in Nat \ {0}
    BY <1>2, EmptySeq DEF DequeueFrame, RInv, IInv, TypeOK
  <2>2. /\ Head(rxQ) = rxQ[1] /\ rxQ' \in Seq(Buf) /\ Len(rxQ') = Len(rxQ) - 1
        /\ \A i \in 1..Len(rxQ') : rxQ'[i] = rxQ[i + 1]
    BY <1>2, <2>1, HeadTailProperties
  <2>3. /\ QueuedFrames \in Seq(Frame) /\ Len(QueuedFrames) = Len(rxQ)
        /\ \A i \in 1..Len(rxQ) : QueuedFrames[i] = heap[rxQ[i]]
    BY QueuedFramesType DEF RInv
  <2>4. \A i \in 1..Len(rxQ) : heap[rxQ[i]] \in Frame
    BY <2>3, ElementOfSeq
  <2>5. \A i \in 1..Len(rxQ') : heap'[rxQ'[i]] \in Frame
    BY <2>1, <2>2, <2>4
  <2>6. /\ QueuedFrames' \in Seq(Frame) /\ Len(QueuedFrames') = Len(rxQ')
        /\ \A i \in 1..Len(rxQ') : QueuedFrames'[i] = heap'[rxQ'[i]]
    BY <2>2, <2>5, FramesOf DEF QueuedFrames
  <2>7. FrameInHand = << >> /\ FrameInHand' = << heap[rxQ[1]] >>
    BY <2>1, <2>2 DEF FrameInHand
  <2>8. << heap[rxQ[1]] >> \in Seq(Frame) /\ Len(<< heap[rxQ[1]] >>) = 1
    BY <2>1, <2>4
  <2>9. Pending = QueuedFrames
    BY <2>3, <2>7, ConcatEmptySeq DEF Pending
  <2> DEFINE h == << heap[rxQ[1]] >>
  <2>10. /\ Pending' = h \o QueuedFrames'
         /\ Pending' \in Seq(Frame) /\ Len(Pending') = Len(h) + Len(QueuedFrames')
         /\ \A i \in 1..(Len(h) + Len(QueuedFrames')) :
              Pending'[i] = IF i <= Len(h) THEN h[i] ELSE QueuedFrames'[i - Len(h)]
    <3>1. Pending' = h \o QueuedFrames'
      BY <2>7 DEF Pending
    <3> QED
      BY <3>1, <2>6, <2>8, ConcatProperties
  <2>11. Len(h) + Len(QueuedFrames') = Len(rxQ) /\ h[1] = heap[rxQ[1]]
    BY <2>1, <2>2, <2>6, <2>8
  <2>12. ASSUME NEW i \in 1..Len(rxQ)
         PROVE  Pending'[i] = QueuedFrames[i]
    <3>1. CASE i = 1
      BY <3>1, <2>3, <2>8, <2>10, <2>11
    <3>2. CASE i # 1
      <4>1. i - 1 \in 1..Len(rxQ') /\ rxQ'[i - 1] = rxQ[i]
        BY <3>2, <2>1, <2>2
      <4>2. Pending'[i] = QueuedFrames'[i - 1]
        BY <3>2, <2>8, <2>10, <2>11
      <4> QED
        BY <4>1, <4>2, <2>1, <2>3, <2>6
    <3> QED
      BY <3>1, <3>2
  <2> QED
    BY <2>3, <2>9, <2>10, <2>11, <2>12, SeqEqual
<1> QED
  BY <1>1, <1>2

LEMMA DispatchMaps ==
  ASSUME RInv, RInv', DispatchFrame
  PROVE  Handover!Handle
<1>1. /\ worker = "dispatch" /\ worker' = "check" /\ dispatched' = frame
      /\ heap' = [heap EXCEPT ![workerBuf] = Free] /\ rxQ' = rxQ
      /\ frame \in Frame /\ workerBuf \in Buf
  BY DEF DispatchFrame, RInv, IInv, TypeOK
<1>2. FrameInHand = << frame >> /\ FrameInHand' = << >>
  BY <1>1 DEF FrameInHand
<1>3. QueuedFrames' = QueuedFrames
  <2>1. ASSUME NEW i \in 1..Len(rxQ)
        PROVE  heap'[rxQ[i]] = heap[rxQ[i]]
    <3>1. rxQ[i] \in Queued /\ rxQ[i] \in Buf
      BY DEF Queued, RInv, IInv, TypeOK
    <3>2. rxQ[i] # workerBuf
      BY <1>1, <3>1 DEF RInv, IInv, BuffersOwned, InHand, HeldByWorker
    <3> QED
      BY <1>1, <3>1, <3>2 DEF RInv, IInv, TypeOK
  <2> QED
    BY <1>1, <2>1 DEF QueuedFrames
<1>4. QueuedFrames \in Seq(Frame)
  BY QueuedFramesType DEF RInv
<1>5. /\ Pending # << >> /\ Head(Pending) = frame /\ Tail(Pending) = QueuedFrames
  BY <1>1, <1>2, <1>4, HeadInFront DEF Pending
<1>6. Pending' = QueuedFrames
  BY <1>2, <1>3, <1>4, ConcatEmptySeq DEF Pending
<1> QED
  BY <1>1, <1>5, <1>6 DEF Handover!Handle

LEMMA InitMaps == Init => Handover!Init
<1> SUFFICES ASSUME Init
             PROVE  Pending = << >> /\ dispatched = Free
  BY DEF Handover!Init
<1>1. FrameInHand = << >> /\ QueuedFrames = << >>
  BY DEF Init, FrameInHand, QueuedFrames
<1> QED
  BY <1>1 DEF Init, Pending

\* Only the enqueueing and the dispatch of a frame change what is pending.
LEMMA OthersMoveNone ==
  ASSUME RInv, RInv',
         \/ \E f \in Frame : Receive(f)
         \/ Signal \/ Wait \/ SpuriousWakeup \/ CheckSize \/ ReportRssi \/ CopyFrame \/ DequeueFrame
  PROVE  Pending' = Pending /\ dispatched' = dispatched
<1>1. ASSUME NEW f \in Frame, Receive(f)
      PROVE  Pending' = Pending /\ dispatched' = dispatched
  <2>1. PICK b \in Buf : heap[b] = Free /\ heap' = [heap EXCEPT ![b] = f]
    BY <1>1 DEF Receive
  <2>2. b \notin Queued /\ b \notin InHand
    BY <2>1 DEF RInv, IInv, BuffersOwned
  <2>3. rxQ' = rxQ /\ UNCHANGED workerVars
    BY <1>1 DEF Receive
  <2> QED
    BY <2>1, <2>2, <2>3, OtherBufferWritten DEF RInv, workerVars
<1>2. CASE Signal \/ Wait \/ SpuriousWakeup \/ CheckSize \/ ReportRssi
  BY <1>2 DEF Signal, Wait, SpuriousWakeup, CheckSize, ReportRssi,
              Pending, FrameInHand, QueuedFrames
<1>3. CASE CopyFrame
  BY <1>3 DEF CopyFrame, Pending, FrameInHand, QueuedFrames
<1>4. CASE DequeueFrame
  BY <1>4, DequeueMaps DEF DequeueFrame
<1> QED
  BY <1>1, <1>2, <1>3, <1>4

LEMMA StepMaps ==
  ASSUME RInv, RInv', [Next]_vars
  PROVE  [Handover!Next]_<<Pending, dispatched>>
<1>1. CASE UNCHANGED vars
  BY <1>1 DEF vars, workerVars, Pending, FrameInHand, QueuedFrames
<1> QED
  BY <1>1, OthersMoveNone, EnqueueMaps, DispatchMaps
     DEF Next, WorkerStep, Handover!Next, Handover!vars

\* Every step of the two threads accepts a frame, dispatches the oldest one
\* accepted, or changes neither.
THEOREM DeliveryRefinement == Spec => ImplementsDelivery
<1>1. Init => RInv
  BY InitInv DEF RInv, Init
<1> QED
  BY <1>1, InitMaps, StepMaps, StepRInv, PTL
     DEF Spec, ImplementsDelivery, Handover!Spec, Handover!vars

\* In every interleaving the queue stays within its capacity and both threads
\* hold addresses and frames.
THEOREM TypeCorrect == Spec => []TypeOK
BY OwnershipSafe, PTL

-----------------------------------------------------------------------------
(***************************************************************************)
(* The logger: the hand-over of entries, for every capacity of its queue   *)
(* and every set of entries.                                               *)
(***************************************************************************)

LEMMA LogInitType == LogInit => LogTypeOK
BY LogCapacityAssumption DEF LogInit, LogTypeOK

LEMMA SendType ==
  ASSUME LogTypeOK, NEW e \in Entry, Send(e)
  PROVE  LogTypeOK'
<1> USE LogCapacityAssumption
<1>1. /\ logger' \in {"lock", "waiting", "check", "dequeue", "write"}
      /\ logger' = "write" => logger = "write"
      /\ UNCHANGED <<loggerData, handled>>
  BY DEF Send, Wake, LogTypeOK
<1>2. loggerQ \in Seq(Entry) /\ Len(loggerQ) \in Nat
  BY DEF LogTypeOK
<1>3. CASE Len(loggerQ) < LogCapacity /\ loggerQ' = Append(loggerQ, e)
  BY <1>1, <1>2, <1>3, AppendProperties DEF LogTypeOK
<1>4. CASE UNCHANGED loggerQ
  BY <1>1, <1>4 DEF LogTypeOK
<1> QED
  BY <1>3, <1>4 DEF Send

LEMMA DequeueType ==
  ASSUME LogTypeOK, DequeueEntry
  PROVE  LogTypeOK'
<1> USE LogCapacityAssumption
<1>1. CASE loggerQ = << >>
  BY <1>1 DEF DequeueEntry, LogTypeOK
<1>2. CASE loggerQ # << >>
  <2>1. /\ loggerQ \in Seq(Entry) /\ Len(loggerQ) \in Nat
        /\ Head(loggerQ) \in Entry /\ Tail(loggerQ) \in Seq(Entry)
        /\ Len(Tail(loggerQ)) = Len(loggerQ) - 1
    BY <1>2, HeadTailProperties DEF LogTypeOK
  <2>2. /\ loggerData' = Head(loggerQ) /\ loggerQ' = Tail(loggerQ)
        /\ logger' = "write" /\ handled' = handled
    BY <1>2 DEF DequeueEntry
  <2> QED
    BY <2>1, <2>2, NoEntryAssumption DEF LogTypeOK
<1> QED
  BY <1>1, <1>2

LEMMA LogStepType == LogTypeOK /\ [LogNext]_logVars => LogTypeOK'
<1> SUFFICES ASSUME LogTypeOK, [LogNext]_logVars
             PROVE  LogTypeOK'
  OBVIOUS
<1>1. CASE LoggerWait \/ LoggerSpuriousWakeup \/ LoggerCheckSize
  BY <1>1 DEF LoggerWait, LoggerSpuriousWakeup, LoggerCheckSize, LogTypeOK
<1>2. CASE WriteEntry
  BY <1>2 DEF WriteEntry, LogTypeOK
<1>3. CASE UNCHANGED logVars
  BY <1>3 DEF logVars, LogTypeOK
<1> QED
  BY <1>1, <1>2, <1>3, SendType, DequeueType DEF LogNext, LoggerStep

\* No sequence of calls and wakeups overfills the queue, or makes the logger
\* write anything but an entry it was sent.
THEOREM LogTypeCorrect == LogSpec => []LogTypeOK
BY LogInitType, LogStepType, PTL DEF LogSpec

-----------------------------------------------------------------------------
\* A queue behind the entry in hand: its head, its tail and what an entry
\* more makes of it.
LEMMA EntryInHand ==
  ASSUME NEW x \in Entry, NEW q \in Seq(Entry)
  PROVE  /\ << x >> \o q # << >> /\ Head(<< x >> \o q) = x /\ Tail(<< x >> \o q) = q
         /\ Len(<< x >> \o q) = Len(q) + 1
         /\ \A e \in Entry : << x >> \o Append(q, e) = Append(<< x >> \o q, e)
OBVIOUS

LEMMA HeadThenTail ==
  ASSUME NEW q \in Seq(Entry), q # << >>
  PROVE  << Head(q) >> \o Tail(q) = q
OBVIOUS

LEMMA SendMaps ==
  ASSUME LogTypeOK, NEW e \in Entry, Send(e)
  PROVE  LogHandover!Accept(e) \/ UNCHANGED <<LogPending, handled>>
<1>1. /\ logger' = "write" <=> logger = "write"
      /\ UNCHANGED <<loggerData, handled>>
      /\ loggerQ \in Seq(Entry) /\ Len(loggerQ) \in Nat
      /\ logger = "write" => loggerData \in Entry
  BY DEF Send, Wake, LogTypeOK
<1>2. CASE Len(loggerQ) < LogCapacity /\ loggerQ' = Append(loggerQ, e)
  <2>1. LogPending' = Append(LogPending, e) /\ Len(LogPending) < LogCapacity + 1
    BY <1>1, <1>2, EntryInHand, LogCapacityAssumption DEF LogPending
  <2> QED
    BY <1>1, <2>1 DEF LogHandover!Accept
<1>3. CASE UNCHANGED loggerQ
  BY <1>1, <1>3 DEF LogPending
<1> QED
  BY <1>2, <1>3 DEF Send

LEMMA DequeueMovesNone ==
  ASSUME LogTypeOK, DequeueEntry
  PROVE  UNCHANGED <<LogPending, handled>>
<1>1. CASE loggerQ = << >>
  BY <1>1 DEF DequeueEntry, LogPending
<1>2. CASE loggerQ # << >>
  <2>1. << Head(loggerQ) >> \o Tail(loggerQ) = loggerQ
    BY <1>2, HeadThenTail DEF LogTypeOK
  <2> QED
    BY <1>2, <2>1 DEF DequeueEntry, LogPending
<1> QED
  BY <1>1, <1>2

LEMMA WriteMaps ==
  ASSUME LogTypeOK, WriteEntry
  PROVE  LogHandover!Handle
<1>1. /\ logger = "write" /\ logger' = "check" /\ handled' = loggerData
      /\ loggerQ' = loggerQ /\ loggerData \in Entry /\ loggerQ \in Seq(Entry)
  BY DEF WriteEntry, LogTypeOK
<1>2. LogPending = << loggerData >> \o loggerQ /\ LogPending' = loggerQ
  BY <1>1 DEF LogPending
<1> QED
  BY <1>1, <1>2, EntryInHand DEF LogHandover!Handle

LEMMA LogInitMaps == LogInit => LogHandover!Init
BY DEF LogInit, LogPending, LogHandover!Init

LEMMA LogStepMaps ==
  ASSUME LogTypeOK, [LogNext]_logVars
  PROVE  [LogHandover!Next]_<<LogPending, handled>>
<1>1. CASE LoggerWait \/ LoggerSpuriousWakeup \/ LoggerCheckSize
  BY <1>1 DEF LoggerWait, LoggerSpuriousWakeup, LoggerCheckSize, LogPending
<1>2. CASE UNCHANGED logVars
  BY <1>2 DEF logVars, LogPending
<1> QED
  BY <1>1, <1>2, SendMaps, DequeueMovesNone, WriteMaps
     DEF LogNext, LoggerStep, LogHandover!Next

\* Entries sent to the logger are handled once each, in the order in which
\* they were accepted, whoever sends them and whenever it wakes.
THEOREM LogDeliveryRefinement == LogSpec => LogDelivery
BY LogInitMaps, LogStepMaps, LogTypeCorrect, PTL
   DEF LogSpec, LogDelivery, LogHandover!Spec, LogHandover!vars
-----------------------------------------------------------------------------
(***************************************************************************)
(* Receive thread and logger together.                                     *)
(***************************************************************************)

\* A step of the gateway is a step of each component, or leaves it alone.
LEMMA StepOfBoth ==
  ASSUME GatewayTypeOK, [GatewayNext]_gatewayVars
  PROVE  [Next]_vars /\ [LogNext]_logVars
<1> USE EntryAssumption
<1>1. CASE ReportSignal
  BY <1>1 DEF ReportSignal, Next, WorkerStep, LogNext
<1>2. CASE ReportTelemetry
  BY <1>2 DEF ReportTelemetry, Next, WorkerStep, LogNext
<1>3. CASE DispatchQuietly \/ FinishUpload
  BY <1>3 DEF DispatchQuietly, FinishUpload, Next, WorkerStep
<1>4. CASE StartUpload
  BY <1>4 DEF StartUpload
<1>5. CASE (Wait \/ CheckSize \/ DequeueFrame \/ CopyFrame) /\ UNCHANGED <<uploading, logVars>>
  BY <1>5 DEF Next, WorkerStep
<1>6. CASE Ping
  BY <1>6 DEF Ping, LogNext
<1>7. CASE LogStep
  BY <1>7 DEF LogStep, LogNext
<1>8. CASE LoggerSpuriousWakeup /\ UNCHANGED <<vars, uploading>>
  BY <1>8 DEF LogNext
<1>9. CASE /\ SpuriousWakeup \/ EnqueueFrame \/ Signal \/ \E f \in Frame : Receive(f)
           /\ UNCHANGED <<uploading, logVars>>
  BY <1>9 DEF Next
<1>10. CASE UNCHANGED gatewayVars
  BY <1>10 DEF gatewayVars
<1> QED
  BY <1>1, <1>2, <1>3, <1>4, <1>5, <1>6, <1>7, <1>8, <1>9, <1>10
     DEF GatewayNext, ReceiveStep

GInv == RInv /\ GatewayTypeOK

LEMMA GInitInv == GatewayInit => GInv
BY InitInv, LogInitType DEF GatewayInit, GInv, RInv, IInv, GatewayTypeOK, Init

\* While an upload runs the receive thread stays where it is.
LEMMA UploadStays ==
  ASSUME GInv, [GatewayNext]_gatewayVars, uploading'
  PROVE  worker' = "dispatch" /\ frame' \in Ends
<1>1. CASE uploading
  <2>1. worker = "dispatch" /\ frame \in Ends /\ frame \notin Reported
    BY <1>1, KindsAssumption DEF GInv, GatewayTypeOK
  <2>2. CASE ReceiveStep
    BY <1>1, <2>1, <2>2
       DEF ReceiveStep, ReportSignal, ReportRssi, ReportTelemetry, DispatchQuietly,
           StartUpload, Wait, CheckSize, DequeueFrame, CopyFrame
  <2>3. CASE SpuriousWakeup \/ EnqueueFrame \/ Signal \/ \E f \in Frame : Receive(f)
    BY <2>1, <2>3 DEF SpuriousWakeup, EnqueueFrame, Signal, Receive, workerVars
  <2>4. CASE UNCHANGED vars
    BY <2>1, <2>4 DEF vars, workerVars
  <2>5. ~FinishUpload
    BY DEF FinishUpload
  <2> QED
    BY <2>2, <2>3, <2>4, <2>5 DEF GatewayNext, Ping, LogStep, gatewayVars
<1>2. CASE ~uploading
  <2>1. StartUpload
    BY <1>2 DEF GatewayNext, ReceiveStep, ReportSignal, ReportTelemetry, DispatchQuietly,
                FinishUpload, Ping, LogStep, gatewayVars
  <2> QED
    BY <2>1 DEF StartUpload, vars, workerVars
<1> QED
  BY <1>1, <1>2 DEF GInv, GatewayTypeOK

LEMMA GStepInv == GInv /\ [GatewayNext]_gatewayVars => GInv'
<1> SUFFICES ASSUME GInv, [GatewayNext]_gatewayVars
             PROVE  GInv'
  OBVIOUS
<1>1. [Next]_vars /\ [LogNext]_logVars
  BY StepOfBoth DEF GInv
<1>2. RInv' /\ TypeOK'
  BY <1>1, StepRInv DEF GInv, RInv, IInv
<1>3. LogTypeOK'
  BY <1>1, LogStepType DEF GInv, GatewayTypeOK
<1>4. uploading' \in BOOLEAN
  BY DEF GInv, GatewayTypeOK, GatewayNext, ReceiveStep, ReportSignal, ReportTelemetry,
         DispatchQuietly, StartUpload, FinishUpload, Ping, LogStep, gatewayVars
<1> QED
  BY <1>2, <1>3, <1>4, UploadStays DEF GInv, GatewayTypeOK

\* Whatever pings, reports and uploads come between, neither queue is ever
\* overfilled, an upload keeps the frame it is for, and each frame's buffer
\* has one owner.
THEOREM GatewaySafe == GatewaySpec => [](GatewayTypeOK /\ BuffersOwned)
<1>1. GInv => GatewayTypeOK /\ BuffersOwned
  BY DEF GInv, RInv, IInv
<1> QED
  BY <1>1, GInitInv, GStepInv, PTL DEF GatewaySpec

\* Composed, both hand-overs stay what they are alone: frames are dispatched
\* and log entries handled once each, in order and unchanged.
THEOREM BothDeliver == GatewaySpec => ImplementsDelivery /\ LogDelivery
<1>1. GatewayInit => Handover!Init /\ LogHandover!Init
  BY InitMaps, LogInitMaps DEF GatewayInit
<1>2. ASSUME GInv, GInv', [GatewayNext]_gatewayVars
      PROVE  /\ [Handover!Next]_<<Pending, dispatched>>
             /\ [LogHandover!Next]_<<LogPending, handled>>
  BY <1>2, StepOfBoth, StepMaps, LogStepMaps DEF GInv, GatewayTypeOK
<1> QED
  BY <1>1, <1>2, GInitInv, GStepInv, PTL
     DEF GatewaySpec, ImplementsDelivery, LogDelivery, Handover!Spec, Handover!vars,
         LogHandover!Spec, LogHandover!vars

-----------------------------------------------------------------------------
(***************************************************************************)
(* From the radio to the log: what the two queues in a row promise.  The   *)
(* telemetry on its way is a recursive function of both queues, so that    *)
(* what a step does to it is first proved by induction.                    *)
(***************************************************************************)

\* A set of numbers that is not empty has a least one, and a set that holds 0
\* and with each number the next holds all of them: induction, for the
\* recursive function below.
LEMMA LeastNumber ==
  ASSUME NEW T \in SUBSET Nat, T # {}
  PROVE  \E x \in T : \A y \in T : x <= y
<1>1. PICK x \in T : \A y \in T : ~(<< y, x >> \in OpToRel(<, Nat))
  BY NatLessThanWellFounded, WFMin
<1>2. ASSUME NEW y \in T PROVE x <= y
  <2>1. << y, x >> \in Nat \X Nat
    OBVIOUS
  <2>2. ~(y < x)
    BY <1>1, <2>1 DEF OpToRel
  <2>3. x \in Nat /\ y \in Nat
    OBVIOUS
  <2> QED
    BY <2>2, <2>3
<1> QED
  BY <1>2

LEMMA NumbersFromZero ==
  ASSUME NEW P, 0 \in P, \A n \in Nat : n \in P => n + 1 \in P
  PROVE  \A n \in Nat : n \in P
<1> DEFINE T == {n \in Nat : n \notin P}
<1> SUFFICES ASSUME T # {} PROVE FALSE
  OBVIOUS
<1>1. PICK x \in T : \A y \in T : x <= y
  BY LeastNumber
<1>2. x \in Nat /\ x # 0 /\ x - 1 \in Nat /\ x - 1 \notin T
  BY <1>1
<1>3. (x - 1) + 1 \in P
  BY <1>2
<1> QED
  BY <1>1, <1>2, <1>3

\* The equation of the recursive function: functions that satisfy it up to n
\* exist for every n, one extending the other.
LEMMA KeptDef ==
  ASSUME NEW S, NEW s \in Seq(S)
  PROVE  /\ Kept(s)[0] = << >>
         /\ \A n \in 1..Len(s) :
              Kept(s)[n] = IF s[n] \in Reported THEN Append(Kept(s)[n - 1], s[n])
                                                ELSE Kept(s)[n - 1]
<1> DEFINE Body(k, n) == IF n = 0 THEN << >>
                         ELSE IF s[n] \in Reported THEN Append(k[n - 1], s[n]) ELSE k[n - 1]
           Upto == {n \in Nat : \E k : k = [m \in 0..n |-> Body(k, m)]}
<1>1. 0 \in Upto
  <2> DEFINE k == [m \in 0..0 |-> << >>]
  <2>1. \A m \in 0..0 : Body(k, m) = << >>
    OBVIOUS
  <2>2. k = [m \in 0..0 |-> Body(k, m)]
    BY <2>1
  <2> QED
    BY <2>2
<1>2. ASSUME NEW n \in Nat, n \in Upto PROVE n + 1 \in Upto
  <2>1. PICK k : k = [m \in 0..n |-> Body(k, m)]
    BY <1>2
  <2> DEFINE g == [m \in 0..(n + 1) |-> IF m = n + 1 THEN Body(k, n + 1) ELSE k[m]]
  <2>2. \A m \in 0..n : g[m] = k[m] /\ k[m] = Body(k, m)
    <3>1. \A m \in 0..n : k[m] = Body(k, m)
      <4> HIDE DEF Body
      <4> QED
        BY <2>1
    <3>2. \A m \in 0..n : m \in 0..(n + 1) /\ m # n + 1
      OBVIOUS
    <3>3. \A m \in 0..n : g[m] = k[m]
      <4> HIDE DEF Body
      <4> QED
        BY <3>2
    <3> QED
      BY <3>1, <3>3
  <2>3. ASSUME NEW m \in 0..(n + 1) PROVE g[m] = Body(g, m)
    <3>1. CASE m = 0
      <4>1. 0 \in 0..n
        OBVIOUS
      <4> QED
        BY <2>2, <3>1, <4>1
    <3>2. CASE m # 0
      <4>1. m - 1 \in 0..n /\ g[m - 1] = k[m - 1]
        BY <2>2, <3>2
      <4>2. Body(g, m) = Body(k, m)
        BY <4>1
      <4>3. CASE m = n + 1
        BY <4>2, <4>3
      <4>4. CASE m \in 0..n
        BY <2>2, <4>2, <4>4
      <4> QED
        BY <4>3, <4>4
    <3> QED
      BY <3>1, <3>2
  <2>4. g = [m \in 0..(n + 1) |-> g[m]]
    OBVIOUS
  <2> HIDE DEF g
  <2>5. g = [m \in 0..(n + 1) |-> Body(g, m)]
    BY <2>3, <2>4
  <2> QED
    BY <2>5
<1>3. Len(s) \in Upto
  <2> HIDE DEF Upto
  <2> QED
    BY <1>1, <1>2, NumbersFromZero
<1>4. \E k : k = [m \in 0..Len(s) |-> Body(k, m)]
  BY <1>3
<1>5. Kept(s) = [m \in 0..Len(s) |-> Body(Kept(s), m)]
  BY <1>4 DEF Kept
<1>6. Len(s) \in Nat
  OBVIOUS
<1>7. \A m \in 0..Len(s) : Kept(s)[m] = Body(Kept(s), m)
  BY <1>5
<1> QED
  BY <1>6, <1>7

LEMMA KeptType ==
  ASSUME NEW S, NEW s \in Seq(S)
  PROVE  \A n \in 0..Len(s) : Kept(s)[n] \in Seq(Reported) /\ Len(Kept(s)[n]) <= n
<1> DEFINE P == {n \in Nat : n <= Len(s) =>
                   Kept(s)[n] \in Seq(Reported) /\ Len(Kept(s)[n]) <= n}
<1>1. 0 \in P
  <2>1. Kept(s)[0] = << >>
    BY KeptDef
  <2>2. << >> \in Seq(Reported) /\ Len(<< >>) = 0
    OBVIOUS
  <2>3. Kept(s)[0] \in Seq(Reported) /\ Len(Kept(s)[0]) <= 0
    BY <2>1, <2>2
  <2> QED
    BY <2>3
<1>2. ASSUME NEW n \in Nat, n \in P PROVE n + 1 \in P
  <2> SUFFICES ASSUME n + 1 <= Len(s)
               PROVE  Kept(s)[n + 1] \in Seq(Reported) /\ Len(Kept(s)[n + 1]) <= n + 1
    OBVIOUS
  <2>1. Len(s) \in Nat /\ n + 1 \in 1..Len(s) /\ (n + 1) - 1 = n
    OBVIOUS
  <2>2. Kept(s)[n + 1] = IF s[n + 1] \in Reported THEN Append(Kept(s)[n], s[n + 1]) ELSE Kept(s)[n]
    BY <2>1, KeptDef
  <2>3. Kept(s)[n] \in Seq(Reported) /\ Len(Kept(s)[n]) <= n /\ Len(Kept(s)[n]) \in Nat
    BY <1>2, <2>1
  <2>4. CASE s[n + 1] \in Reported
    BY <2>2, <2>3, <2>4, AppendProperties
  <2>5. CASE s[n + 1] \notin Reported
    BY <2>2, <2>3, <2>5
  <2> QED
    BY <2>4, <2>5
<1>3. \A n \in Nat : n \in P
  <2> HIDE DEF P
  <2> QED
    BY <1>1, <1>2, NumbersFromZero
<1> QED
  BY <1>3

\* Sequences that begin alike are filtered alike.
LEMMA KeptPrefix ==
  ASSUME NEW S, NEW s \in Seq(S), NEW t \in Seq(S), NEW m \in Nat,
         m <= Len(s), m <= Len(t), \A i \in 1..m : s[i] = t[i]
  PROVE  Kept(s)[m] = Kept(t)[m]
<1> DEFINE P == {n \in Nat : n <= m => Kept(s)[n] = Kept(t)[n]}
<1>1. 0 \in P
  BY KeptDef
<1>2. ASSUME NEW n \in Nat, n \in P PROVE n + 1 \in P
  <2> SUFFICES ASSUME n + 1 <= m PROVE Kept(s)[n + 1] = Kept(t)[n + 1]
    OBVIOUS
  <2>1. /\ n + 1 \in 1..Len(s) /\ n + 1 \in 1..Len(t) /\ (n + 1) - 1 = n
        /\ s[n + 1] = t[n + 1] /\ Kept(s)[n] = Kept(t)[n]
    BY <1>2
  <2>2. Kept(s)[n + 1] = IF s[n + 1] \in Reported THEN Append(Kept(s)[n], s[n + 1]) ELSE Kept(s)[n]
    BY <2>1, KeptDef
  <2>3. Kept(t)[n + 1] = IF t[n + 1] \in Reported THEN Append(Kept(t)[n], t[n + 1]) ELSE Kept(t)[n]
    BY <2>1, KeptDef
  <2> QED
    BY <2>1, <2>2, <2>3
<1>3. \A n \in Nat : n \in P
  <2> HIDE DEF P
  <2> QED
    BY <1>1, <1>2, NumbersFromZero
<1> QED
  BY <1>3

\* Filtering distributes over concatenation.
LEMMA TelemetryConcat ==
  ASSUME NEW S, NEW s \in Seq(S), NEW t \in Seq(S)
  PROVE  /\ TelemetryOf(s) \in Seq(Reported) /\ Len(TelemetryOf(s)) <= Len(s)
         /\ TelemetryOf(s \o t) = TelemetryOf(s) \o TelemetryOf(t)
<1> DEFINE st == s \o t
           P  == {n \in Nat : n <= Len(t) => Kept(st)[Len(s) + n] = TelemetryOf(s) \o Kept(t)[n]}
<1>1. /\ Len(s) \in Nat /\ Len(t) \in Nat
      /\ st \in Seq(S) /\ Len(st) = Len(s) + Len(t)
      /\ \A i \in 1..(Len(s) + Len(t)) : st[i] = IF i <= Len(s) THEN s[i] ELSE t[i - Len(s)]
  BY ConcatProperties
<1>2. TelemetryOf(s) \in Seq(Reported) /\ Len(TelemetryOf(s)) <= Len(s)
  <2>1. Len(s) \in 0..Len(s)
    BY <1>1
  <2>2. Kept(s)[Len(s)] \in Seq(Reported) /\ Len(Kept(s)[Len(s)]) <= Len(s)
    BY <2>1, KeptType
  <2> QED
    BY <2>2 DEF TelemetryOf
<1> HIDE DEF st
<1>3. 0 \in P
  <2>1. Kept(st)[Len(s)] = Kept(s)[Len(s)]
    <3>1. Len(s) <= Len(st) /\ \A i \in 1..Len(s) : st[i] = s[i]
      BY <1>1
    <3> QED
      BY <1>1, <3>1, KeptPrefix
  <2>2. Kept(t)[0] = << >>
    BY KeptDef
  <2>3. TelemetryOf(s) \o << >> = TelemetryOf(s)
    BY <1>2, ConcatEmptySeq
  <2>4. Kept(st)[Len(s)] = TelemetryOf(s) \o Kept(t)[0] /\ Len(s) + 0 = Len(s)
    BY <1>1, <2>1, <2>2, <2>3 DEF TelemetryOf
  <2> QED
    BY <2>4
<1>4. ASSUME NEW n \in Nat, n \in P PROVE n + 1 \in P
  <2> SUFFICES ASSUME n + 1 <= Len(t)
               PROVE  Kept(st)[Len(s) + (n + 1)] = TelemetryOf(s) \o Kept(t)[n + 1]
    OBVIOUS
  <2> DEFINE l == Len(s) + (n + 1)
  <2>1. /\ l \in 1..Len(st) /\ l - 1 = Len(s) + n /\ st[l] = t[n + 1]
        /\ n + 1 \in 1..Len(t) /\ (n + 1) - 1 = n
    BY <1>1
  <2> HIDE DEF l
  <2>2. Kept(st)[l - 1] = TelemetryOf(s) \o Kept(t)[n]
    BY <1>1, <1>4, <2>1
  <2>3. Kept(st)[l] = IF st[l] \in Reported THEN Append(Kept(st)[l - 1], st[l]) ELSE Kept(st)[l - 1]
    BY <1>1, <2>1, KeptDef
  <2>4. Kept(t)[n + 1] = IF t[n + 1] \in Reported THEN Append(Kept(t)[n], t[n + 1]) ELSE Kept(t)[n]
    BY <2>1, KeptDef
  <2>5. Kept(t)[n] \in Seq(Reported)
    <3>1. n \in 0..Len(t)
      BY <1>1
    <3> HIDE DEF P
    <3> QED
      BY <3>1, KeptType
  <2>6. \A x \in Reported :
          TelemetryOf(s) \o Append(Kept(t)[n], x) = Append(TelemetryOf(s) \o Kept(t)[n], x)
    BY <1>2, <2>5, ConcatAppend
  <2>7. Kept(st)[l] = TelemetryOf(s) \o Kept(t)[n + 1]
    BY <2>1, <2>2, <2>3, <2>4, <2>6
  <2> QED
    BY <2>7 DEF l
<1>5. \A n \in Nat : n \in P
  <2> HIDE DEF P
  <2> QED
    BY <1>3, <1>4, NumbersFromZero
<1>6. Kept(st)[Len(s) + Len(t)] = TelemetryOf(s) \o Kept(t)[Len(t)]
  BY <1>1, <1>5
<1> QED
  BY <1>1, <1>2, <1>6 DEF TelemetryOf, st

LEMMA TelemetryOne ==
  ASSUME NEW x
  PROVE  TelemetryOf(<< x >>) = IF x \in Reported THEN << x >> ELSE << >>
<1>1. /\ << x >> \in Seq({x}) /\ Len(<< x >>) = 1 /\ << x >>[1] = x
      /\ 1 \in 1..1 /\ 1 - 1 = 0
  OBVIOUS
<1>2. Kept(<< x >>)[0] = << >>
  BY <1>1, KeptDef
<1>3. Kept(<< x >>)[1] = IF x \in Reported THEN Append(Kept(<< x >>)[0], x) ELSE Kept(<< x >>)[0]
  BY <1>1, KeptDef
<1>4. Append(<< >>, x) = << x >>
  OBVIOUS
<1> QED
  BY <1>1, <1>2, <1>3, <1>4 DEF TelemetryOf
-----------------------------------------------------------------------------
Line == Entry \cup Frame

LEMMA SeqOfLine == ASSUME NEW s, s \in Seq(Entry) \/ s \in Seq(Frame) PROVE s \in Seq(Line)
<1>1. ASSUME NEW S, S \subseteq Line, s \in Seq(S) PROVE s \in Seq(Line)
  BY <1>1
<1> QED
  BY <1>1 DEF Line

\* What both queues hold, in front and behind.
LEMMA WayType ==
  ASSUME GInv
  PROVE  /\ LogPending \in Seq(Line) /\ Len(LogPending) <= LogCapacity + 1
         /\ Pending \in Seq(Line)
<1>1. LogPending \in Seq(Entry) /\ Len(LogPending) <= LogCapacity + 1
  <2>1. /\ loggerQ \in Seq(Entry) /\ Len(loggerQ) \in Nat /\ Len(loggerQ) <= LogCapacity
        /\ LogCapacity \in Nat /\ (logger = "write" => loggerData \in Entry)
    BY LogCapacityAssumption DEF GInv, GatewayTypeOK, LogTypeOK
  <2>2. CASE logger = "write"
    <3>1. << loggerData >> \in Seq(Entry) /\ Len(<< loggerData >>) = 1
      BY <2>1, <2>2
    <3>2. /\ << loggerData >> \o loggerQ \in Seq(Entry)
          /\ Len(<< loggerData >> \o loggerQ) = 1 + Len(loggerQ)
      BY <2>1, <3>1, ConcatProperties
    <3> QED
      BY <2>1, <2>2, <3>2 DEF LogPending
  <2>3. CASE logger # "write"
    BY <2>1, <2>3 DEF LogPending
  <2> QED
    BY <2>2, <2>3
<1>2. Pending \in Seq(Frame)
  BY HandType, QueuedFramesType, ConcatProperties DEF GInv, RInv, Pending
<1> QED
  BY <1>1, <1>2, SeqOfLine

\* The telemetry on its way is that in the log queue, then that in the frame
\* queue.
LEMMA WayInTwo ==
  ASSUME NEW s \in Seq(Line), NEW t \in Seq(Line)
  PROVE  /\ TelemetryOf(s \o t) = TelemetryOf(s) \o TelemetryOf(t)
         /\ TelemetryOf(s) \in Seq(Reported) /\ Len(TelemetryOf(s)) <= Len(s)
         /\ TelemetryOf(t) \in Seq(Reported) /\ Len(TelemetryOf(t)) <= Len(t)
BY TelemetryConcat

\* An element more at the rear.
LEMMA TelemetryAppend ==
  ASSUME NEW s \in Seq(Line), NEW x \in Line
  PROVE  TelemetryOf(Append(s, x)) =
           IF x \in Reported THEN Append(TelemetryOf(s), x) ELSE TelemetryOf(s)
<1>1. << x >> \in Seq(Line) /\ Append(s, x) = s \o << x >>
  OBVIOUS
<1>2. TelemetryOf(s) \in Seq(Reported)
  BY WayInTwo
<1>3. TelemetryOf(Append(s, x)) = TelemetryOf(s) \o TelemetryOf(<< x >>)
  BY <1>1, WayInTwo
<1>4. CASE x \in Reported
  <2>1. TelemetryOf(s) \o << x >> = Append(TelemetryOf(s), x)
    BY <1>2, <1>4
  <2> QED
    BY <1>3, <1>4, <2>1, TelemetryOne
<1>5. CASE x \notin Reported
  <2>1. TelemetryOf(s) \o << >> = TelemetryOf(s)
    BY <1>2, ConcatEmptySeq
  <2> QED
    BY <1>3, <1>5, <2>1, TelemetryOne
<1> QED
  BY <1>4, <1>5

\* An element less at the front.
LEMMA TelemetryTail ==
  ASSUME NEW s \in Seq(Line), s # << >>
  PROVE  /\ Head(s) \in Line /\ Tail(s) \in Seq(Line)
         /\ TelemetryOf(s) = IF Head(s) \in Reported THEN << Head(s) >> \o TelemetryOf(Tail(s))
                                                     ELSE TelemetryOf(Tail(s))
<1>1. Head(s) \in Line /\ Tail(s) \in Seq(Line) /\ << Head(s) >> \in Seq(Line)
      /\ s = << Head(s) >> \o Tail(s)
  OBVIOUS
<1>2. TelemetryOf(s) = TelemetryOf(<< Head(s) >>) \o TelemetryOf(Tail(s))
      /\ TelemetryOf(Tail(s)) \in Seq(Reported)
  BY <1>1, WayInTwo
<1>3. << >> \o TelemetryOf(Tail(s)) = TelemetryOf(Tail(s))
  BY <1>2, ConcatEmptySeq
<1> QED
  BY <1>1, <1>2, <1>3, TelemetryOne

\* An element less in the middle, as LossyDelivery puts it.
LEMMA MiddleDropped ==
  ASSUME NEW S, NEW s \in Seq(S), NEW t \in Seq(S), NEW x \in S
  PROVE  LET u == s \o (<< x >> \o t)
         IN  /\ Len(u) = Len(s) + 1 + Len(t)
             /\ s \o t = [j \in 1..(Len(u) - 1) |-> IF j < Len(s) + 1 THEN u[j] ELSE u[j + 1]]
<1> DEFINE v == << x >> \o t
           u == s \o v
           l == Len(s) + Len(t)
<1>1. /\ << x >> \in Seq(S) /\ Len(<< x >>) = 1 /\ Len(s) \in Nat /\ Len(t) \in Nat
  OBVIOUS
<1>2. /\ v \in Seq(S) /\ Len(v) = 1 + Len(t)
      /\ \A i \in 1..(1 + Len(t)) : v[i] = IF i <= 1 THEN << x >>[i] ELSE t[i - 1]
  BY <1>1, ConcatProperties
<1> HIDE DEF v
<1>3. /\ u \in Seq(S) /\ Len(u) = Len(s) + Len(v)
      /\ \A i \in 1..(Len(s) + Len(v)) : u[i] = IF i <= Len(s) THEN s[i] ELSE v[i - Len(s)]
  BY <1>2, ConcatProperties
<1>4. /\ s \o t \in Seq(S) /\ Len(s \o t) = l
      /\ \A i \in 1..l : (s \o t)[i] = IF i <= Len(s) THEN s[i] ELSE t[i - Len(s)]
  BY ConcatProperties
<1> HIDE DEF u
<1>5. Len(u) - 1 = l /\ Len(u) = Len(s) + 1 + Len(t)
  BY <1>1, <1>2, <1>3
<1>6. ASSUME NEW j \in 1..l
      PROVE  (s \o t)[j] = IF j < Len(s) + 1 THEN u[j] ELSE u[j + 1]
  <2>1. CASE j <= Len(s)
    BY <1>1, <1>2, <1>3, <1>4, <2>1
  <2>2. CASE ~(j <= Len(s))
    <3>1. j + 1 \in 1..(Len(s) + Len(v)) /\ (j + 1) - Len(s) \in 1..(1 + Len(t))
          /\ ~((j + 1) - Len(s) <= 1) /\ ((j + 1) - Len(s)) - 1 = j - Len(s)
      BY <1>1, <1>2, <2>2
    <3>2. u[j + 1] = v[(j + 1) - Len(s)]
      BY <1>1, <1>3, <2>2, <3>1
    <3>3. v[(j + 1) - Len(s)] = t[j - Len(s)]
      BY <1>2, <3>1
    <3> QED
      BY <1>1, <1>4, <2>2, <3>2, <3>3
  <2> QED
    BY <2>1, <2>2
<1>7. s \o t = [j \in 1..l |-> (s \o t)[j]]
  <2>1. s \o t \in [1..l -> S]
    BY <1>4, LenProperties
  <2> QED
    BY <2>1
<1>8. s \o t = [j \in 1..l |-> IF j < Len(s) + 1 THEN u[j] ELSE u[j + 1]]
  BY <1>6, <1>7
<1> QED
  BY <1>5, <1>8 DEF u, v

\* A frame that is accepted joins the telemetry at its rear, if it is any.
LEMMA AcceptWay ==
  ASSUME GInv, NEW x \in Frame, Handover!Accept(x), LogPending' = LogPending, handled' = handled
  PROVE  WayToLog!LossyNext \/ UNCHANGED <<OnItsWay, handled>>
<1>1. /\ LogPending \in Seq(Line) /\ Len(LogPending) <= LogCapacity + 1
      /\ Pending \in Seq(Line) /\ x \in Line
      /\ Len(Pending) < Capacity + 1 /\ Pending' = Append(Pending, x)
  BY WayType DEF Line, Handover!Accept
<1>2. /\ TelemetryOf(LogPending) \in Seq(Reported) /\ TelemetryOf(Pending) \in Seq(Reported)
      /\ Len(TelemetryOf(LogPending)) <= LogCapacity + 1 /\ Len(TelemetryOf(Pending)) < Capacity + 1
      /\ OnItsWay = TelemetryOf(LogPending) \o TelemetryOf(Pending)
  BY <1>1, WayInTwo, CapacityAssumption, LogCapacityAssumption DEF OnItsWay
<1>3. Append(Pending, x) \in Seq(Line)
  BY <1>1
<1>4. OnItsWay' = TelemetryOf(LogPending) \o TelemetryOf(Append(Pending, x))
  BY <1>1, <1>3, WayInTwo DEF OnItsWay
<1>5. CASE x \in Reported
  <2>1. OnItsWay' = Append(OnItsWay, x)
    <3>1. TelemetryOf(Append(Pending, x)) = Append(TelemetryOf(Pending), x)
      BY <1>1, <1>5, TelemetryAppend
    <3>2. TelemetryOf(LogPending) \o Append(TelemetryOf(Pending), x) =
            Append(TelemetryOf(LogPending) \o TelemetryOf(Pending), x)
      BY <1>2, <1>5, ConcatAppend
    <3> QED
      BY <1>2, <1>4, <3>1, <3>2
  <2>2. Len(OnItsWay) < Capacity + LogCapacity + 2
    <3>1. Len(OnItsWay) = Len(TelemetryOf(LogPending)) + Len(TelemetryOf(Pending))
      BY <1>2, ConcatProperties
    <3> QED
      BY <1>2, <3>1, CapacityAssumption, LogCapacityAssumption
  <2> QED
    BY <1>5, <2>1, <2>2 DEF WayToLog!LossyNext, WayToLog!Next, WayToLog!Accept
<1>6. CASE x \notin Reported
  BY <1>1, <1>2, <1>4, <1>6, TelemetryAppend
<1> QED
  BY <1>5, <1>6

\* A line that is not telemetry does not show.
LEMMA OtherLine ==
  ASSUME GInv, NEW e \in {RSSI_INFO, PING}, Send(e), Pending' = Pending
  PROVE  UNCHANGED <<OnItsWay, handled>>
<1>1. /\ LogPending \in Seq(Line) /\ Pending \in Seq(Line)
      /\ e \in Entry /\ e \in Line /\ e \notin Reported
  BY WayType, EntryAssumption DEF Line
<1>2. handled' = handled
  BY DEF Send
<1>3. LogPending' = Append(LogPending, e) \/ LogPending' = LogPending
  BY <1>1, SendMaps DEF LogHandover!Accept, GInv, GatewayTypeOK
<1>4. CASE LogPending' = Append(LogPending, e)
  <2>1. Append(LogPending, e) \in Seq(Line)
    BY <1>1
  <2>2. TelemetryOf(Append(LogPending, e)) = TelemetryOf(LogPending)
    BY <1>1, TelemetryAppend
  <2> QED
    BY <1>1, <1>2, <1>4, <2>1, <2>2, WayInTwo DEF OnItsWay
<1>5. CASE LogPending' = LogPending
  BY <1>2, <1>5 DEF OnItsWay
<1> QED
  BY <1>3, <1>4, <1>5

\* A frame that no handler reports leaves the way unseen.
LEMMA QuietWay ==
  ASSUME GInv, GInv', DispatchFrame, frame \notin Reported, LogPending' = LogPending
  PROVE  OnItsWay' = OnItsWay
<1>1. Pending # << >> /\ Head(Pending) = frame /\ Pending' = Tail(Pending)
  BY DispatchMaps DEF GInv, Handover!Handle, DispatchFrame
<1>2. LogPending \in Seq(Line) /\ Pending \in Seq(Line)
  BY WayType
<1>3. TelemetryOf(Pending) = TelemetryOf(Tail(Pending)) /\ Tail(Pending) \in Seq(Line)
  BY <1>1, <1>2, TelemetryTail
<1>4. /\ TelemetryOf(LogPending \o Pending) = TelemetryOf(LogPending) \o TelemetryOf(Pending)
      /\ TelemetryOf(LogPending \o Tail(Pending)) = TelemetryOf(LogPending) \o TelemetryOf(Tail(Pending))
  BY <1>2, <1>3, WayInTwo
<1>5. OnItsWay' = TelemetryOf(LogPending \o Tail(Pending))
  BY <1>1 DEF OnItsWay
<1> QED
  BY <1>3, <1>4, <1>5 DEF OnItsWay

\* A frame that is reported moves from the one queue to the other, which does
\* not show, or is refused there and drops out of the middle.
LEMMA ReportWay ==
  ASSUME GInv, GInv', DispatchFrame, frame \in Reported, Send(frame)
  PROVE  WayToLog!LossyNext \/ UNCHANGED <<OnItsWay, handled>>
<1> DEFINE front == TelemetryOf(LogPending)
           back  == TelemetryOf(Tail(Pending))
<1>1. Pending # << >> /\ Head(Pending) = frame /\ Pending' = Tail(Pending)
  BY DispatchMaps DEF GInv, Handover!Handle, DispatchFrame
<1>2. /\ LogPending \in Seq(Line) /\ Pending \in Seq(Line)
      /\ frame \in Entry /\ frame \in Line
  BY WayType, EntryAssumption DEF Line
<1>3. handled' = handled
  BY DEF Send
<1>4. /\ TelemetryOf(Pending) = << frame >> \o back
      /\ Tail(Pending) \in Seq(Line)
  BY <1>1, <1>2, TelemetryTail
<1>5. /\ front \in Seq(Reported) /\ back \in Seq(Reported)
      /\ OnItsWay = front \o (<< frame >> \o back)
  BY <1>2, <1>4, WayInTwo DEF OnItsWay
<1>6. LogPending' = Append(LogPending, frame) \/ LogPending' = LogPending
  BY <1>2, SendMaps DEF LogHandover!Accept, GInv, GatewayTypeOK
<1>7. CASE LogPending' = Append(LogPending, frame)
  <2>1. Append(LogPending, frame) \in Seq(Line)
    BY <1>2
  <2>2. TelemetryOf(Append(LogPending, frame)) = Append(front, frame)
    BY <1>2, TelemetryAppend
  <2>3. OnItsWay' = Append(front, frame) \o back
    BY <1>1, <1>4, <1>7, <2>1, <2>2, WayInTwo DEF OnItsWay
  <2>4. Append(front, frame) \o back = front \o (<< frame >> \o back)
    BY <1>5
  <2> QED
    BY <1>3, <1>5, <2>3, <2>4
<1>8. CASE LogPending' = LogPending
  <2>1. OnItsWay' = front \o back
    BY <1>1, <1>2, <1>4, <1>8, WayInTwo DEF OnItsWay
  <2> DEFINE i == Len(front) + 1
  <2>2. /\ Len(OnItsWay) = Len(front) + 1 + Len(back) /\ i \in 1..Len(OnItsWay)
        /\ OnItsWay' = [j \in 1..(Len(OnItsWay) - 1) |->
                          IF j < i THEN OnItsWay[j] ELSE OnItsWay[j + 1]]
    BY <1>5, <2>1, MiddleDropped
  <2> QED
    BY <1>3, <2>2 DEF WayToLog!LossyNext, WayToLog!Drop
<1> QED
  BY <1>6, <1>7, <1>8

\* The line that is written leaves at the front, whatever it is.
LEMMA WriteWay ==
  ASSUME GInv, WriteEntry, Pending' = Pending
  PROVE  [WayToLog!LossyNext]_<<OnItsWay, IF handled \in Reported THEN handled ELSE NoEntry>>
<1>1. /\ LogPending # << >> /\ LogPending' = Tail(LogPending) /\ handled' = Head(LogPending)
  BY WriteMaps DEF LogHandover!Handle, GInv, GatewayTypeOK
<1>2. LogPending \in Seq(Line) /\ Pending \in Seq(Line)
  BY WayType
<1> DEFINE rest == TelemetryOf(Tail(LogPending)) \o TelemetryOf(Pending)
<1>3. /\ Tail(LogPending) \in Seq(Line)
      /\ TelemetryOf(Tail(LogPending)) \in Seq(Reported) /\ TelemetryOf(Pending) \in Seq(Reported)
      /\ OnItsWay = TelemetryOf(LogPending) \o TelemetryOf(Pending)
      /\ OnItsWay' = rest
  BY <1>1, <1>2, TelemetryTail, WayInTwo DEF OnItsWay
<1>4. CASE handled' \in Reported
  <2>1. TelemetryOf(LogPending) = << handled' >> \o TelemetryOf(Tail(LogPending))
    BY <1>1, <1>2, <1>4, TelemetryTail
  <2>2. OnItsWay = << handled' >> \o rest /\ rest \in Seq(Reported)
    BY <1>3, <1>4, <2>1
  <2>3. OnItsWay # << >> /\ Head(OnItsWay) = handled' /\ Tail(OnItsWay) = rest
    BY <1>4, <2>2, HeadInFront
  <2> QED
    BY <1>3, <1>4, <2>3 DEF WayToLog!LossyNext, WayToLog!Next, WayToLog!Handle
<1>5. CASE handled' \notin Reported
  <2>1. OnItsWay' = OnItsWay
    BY <1>1, <1>2, <1>3, <1>5, TelemetryTail
  <2> QED
    BY <1>5, <2>1 DEF WayToLog!LossyNext, WayToLog!HandleOther
<1> QED
  BY <1>4, <1>5

LEMMA WayInit == GatewayInit => WayToLog!Init
<1> SUFFICES ASSUME GatewayInit
             PROVE  OnItsWay = << >> /\ handled \notin Reported
  BY DEF WayToLog!Init
<1>1. LogPending = << >> /\ Pending = << >> /\ handled = NoEntry
  BY InitMaps DEF GatewayInit, LogInit, LogPending, Handover!Init
<1>2. << >> \in Seq(Line) /\ << >> \o << >> = << >> /\ Len(<< >>) = 0
  OBVIOUS
<1>3. TelemetryOf(<< >>) = << >>
  BY <1>2, KeptDef DEF TelemetryOf
<1> QED
  BY <1>1, <1>2, <1>3, NoEntryAssumption, EntryAssumption DEF OnItsWay

\* Every step of the gateway is one on the way from the radio to the log.
LEMMA WayStep ==
  ASSUME GInv, GInv', [GatewayNext]_gatewayVars
  PROVE  [WayToLog!LossyNext]_<<OnItsWay, IF handled \in Reported THEN handled ELSE NoEntry>>
<1> DEFINE Goal == [WayToLog!LossyNext]_<<OnItsWay, IF handled \in Reported THEN handled ELSE NoEntry>>
<1>1. WayToLog!LossyNext \/ UNCHANGED <<OnItsWay, handled>> => Goal
  OBVIOUS
<1>2. UNCHANGED <<LogPending, Pending, handled>> => UNCHANGED <<OnItsWay, handled>>
  BY DEF OnItsWay
<1>3. UNCHANGED logVars => UNCHANGED <<LogPending, handled>>
  BY DEF logVars, LogPending
<1>4. UNCHANGED vars => Pending' = Pending
  BY DEF vars, workerVars, Pending, FrameInHand, QueuedFrames
<1> HIDE DEF Goal
<1>5. CASE ReportSignal
  <2>1. Send(RSSI_INFO) /\ ReportRssi
    BY <1>5 DEF ReportSignal
  <2>2. Pending' = Pending
    BY <2>1 DEF ReportRssi, Pending, FrameInHand, QueuedFrames
  <2> QED
    BY <1>1, <2>1, <2>2, OtherLine
<1>6. CASE ReportTelemetry
  BY <1>1, <1>6, ReportWay DEF ReportTelemetry
<1>7. CASE DispatchQuietly \/ FinishUpload
  <2>1. DispatchFrame /\ frame \notin Reported /\ UNCHANGED logVars
    BY <1>7, KindsAssumption DEF DispatchQuietly, FinishUpload, GInv, GatewayTypeOK
  <2> QED
    BY <1>1, <1>3, <2>1, QuietWay
<1>8. CASE StartUpload
  BY <1>1, <1>2, <1>3, <1>4, <1>8 DEF StartUpload
<1>9. CASE /\ UNCHANGED logVars
            /\ \/ Wait \/ CheckSize \/ DequeueFrame \/ CopyFrame
               \/ SpuriousWakeup \/ EnqueueFrame \/ Signal \/ \E f \in Frame : Receive(f)
  <2>1. (\E x \in Frame : Handover!Accept(x)) \/ Pending' = Pending
    BY <1>9, EnqueueMaps, OthersMoveNone DEF GInv
  <2>2. CASE \E x \in Frame : Handover!Accept(x)
    BY <1>1, <1>3, <1>9, <2>2, AcceptWay
  <2>3. CASE Pending' = Pending
    BY <1>1, <1>2, <1>3, <1>9, <2>3
  <2> QED
    BY <2>1, <2>2, <2>3
<1>10. CASE Ping
  BY <1>1, <1>4, <1>10, OtherLine DEF Ping
<1>11. CASE LogStep
  <2>1. CASE WriteEntry
    BY <1>4, <1>11, <2>1, WriteWay DEF LogStep, Goal
  <2>2. CASE LoggerWait \/ LoggerCheckSize \/ DequeueEntry
    <3>1. UNCHANGED <<LogPending, handled>>
      BY <2>2, DequeueMovesNone DEF LoggerWait, LoggerCheckSize, LogPending, GInv, GatewayTypeOK
    <3> QED
      BY <1>1, <1>2, <1>4, <1>11, <3>1 DEF LogStep
  <2> QED
    BY <1>11, <2>1, <2>2 DEF LogStep, LoggerStep
<1>12. CASE LoggerSpuriousWakeup /\ UNCHANGED <<vars, uploading>>
  <2>1. UNCHANGED <<LogPending, handled>>
    BY <1>12 DEF LoggerSpuriousWakeup, LogPending
  <2> QED
    BY <1>1, <1>2, <1>4, <1>12, <2>1
<1>13. CASE UNCHANGED gatewayVars
  BY <1>1, <1>2, <1>3, <1>4, <1>13 DEF gatewayVars
<1> QED
  BY <1>5, <1>6, <1>7, <1>8, <1>9, <1>10, <1>11, <1>12, <1>13 DEF GatewayNext, ReceiveStep, Goal

\* For every size of both queues, and whatever pings, signal strengths and
\* uploads come between: telemetry is logged in the order in which it was
\* received, each frame at most once and as it came.
THEOREM LogFollows == GatewaySpec => LogFollowsRadio
BY WayInit, WayStep, GInitInv, GStepInv, PTL
   DEF GatewaySpec, LogFollowsRadio, WayToLog!LossySpec, WayToLog!vars
=============================================================================
