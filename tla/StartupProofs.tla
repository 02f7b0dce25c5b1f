--------------------------- MODULE StartupProofs ---------------------------
(***************************************************************************)
(* What can be relied on while the program comes up, whichever of its      *)
(* threads are created, and in whatever order they and main run.           *)
(***************************************************************************)
EXTENDS Startup, TLAPS

\* main is in the loop of a start function only for a thread it has created.
LoopOfThread == spinning => Program[at] \in Threads /\ thread[Program[at]] # "none"

\* A thread sets its flag after it has made its queue, and only a thread that
\* was created makes one: who finds the flag set finds the queue.
QueueBeforeFlag ==
  /\ \A t \in HasQueue : thread[t] = "active" => t \in queue
  /\ \A t \in queue : thread[t] # "none"

IInv == TypeOK /\ LoopOfThread /\ QueueBeforeFlag /\ OnlyEarlyFrameKills


LEMMA InitInv == Init => IInv
<1> SUFFICES ASSUME Init PROVE IInv
  OBVIOUS
<1>1. /\ at = 1 /\ spinning = FALSE /\ queue = {} /\ armed = {} /\ null = {}
      /\ thread \in [Threads -> {"none", "created", "active"}]
      /\ \A t \in HasQueue : thread[t] = "none"
  BY DEF Init, Threads, HasQueue
<1>2. at \in 1..Running /\ at # Running
  BY <1>1 DEF Running
<1>3. TypeOK
  BY <1>1, <1>2, Zenon DEF TypeOK
<1> QED
  BY <1>1, <1>3 DEF IInv, LoopOfThread, QueueBeforeFlag, OnlyEarlyFrameKills, Alive

\* Sending leaves the process alive: the queue is looked at before it is used.
LEMMA SendKeepsAlive ==
  ASSUME NEW t, Send(t), Alive
  PROVE  UNCHANGED null
BY DEF Send, Use, Alive

\* While the process goes on nobody has used a missing queue.
LEMMA AliveIsSafe == Alive' => OnlyEarlyFrameKills'
BY DEF OnlyEarlyFrameKills

\* A call of main that is not the start of a thread does not begin in a loop.
LEMMA OtherCall ==
  ASSUME IInv, NEW call \in {"modem", "timers", "version"}, Program[at] = call
  PROVE  ~spinning
BY DEF IInv, LoopOfThread, Threads

LEMMA MainInv ==
  ASSUME IInv, Alive, MainStep
  PROVE  IInv'
<1> USE DEF IInv
<1>1. /\ at \in 1..Running /\ at < Running /\ Running = 8 /\ at + 1 \in 1..Running
      /\ queue' = queue /\ null' = null
  BY SendKeepsAlive DEF MainStep, CreateThread, PassLoop, SetUp, LogVersion, TypeOK, Running
<1>a. OnlyEarlyFrameKills'
  BY <1>1, AliveIsSafe DEF Alive
<1>2. ASSUME NEW t \in Threads, CreateThread(t) PROVE IInv'
  <2>1. Program[at] = t /\ ~spinning /\ UNCHANGED <<queue, armed, null>>
    BY <1>2 DEF CreateThread
  <2>2. CASE thread' = [thread EXCEPT ![t] = "created"] /\ spinning' = TRUE /\ at' = at
    <3>1. /\ thread' \in [Threads -> {"none", "created", "active"}]
          /\ thread'[t] = "created"
          /\ \A u \in Threads : u # t => thread'[u] = thread[u]
      BY <2>2 DEF TypeOK
    <3>2. TypeOK'
      BY <1>1, <2>1, <2>2, <3>1 DEF TypeOK
    <3>3. LoopOfThread'
      BY <2>1, <2>2, <3>1 DEF LoopOfThread
    <3>4. QueueBeforeFlag'
      BY <2>1, <3>1 DEF QueueBeforeFlag, TypeOK, HasQueue, Threads
    <3> QED
      BY <1>a, <3>2, <3>3, <3>4
  <2>3. CASE at' = at + 1 /\ UNCHANGED <<thread, spinning>>
    BY <1>1, <1>a, <2>1, <2>3 DEF TypeOK, LoopOfThread, QueueBeforeFlag
  <2> QED
    BY <1>2, <2>2, <2>3 DEF CreateThread
<1>3. ASSUME NEW t \in Threads, PassLoop(t) PROVE IInv'
  BY <1>1, <1>a, <1>3 DEF PassLoop, TypeOK, LoopOfThread, QueueBeforeFlag
<1>4. ASSUME NEW device \in {"modem", "timers"}, SetUp(device) PROVE IInv'
  <2>1. /\ ~spinning /\ spinning' = spinning /\ at' = at + 1
        /\ UNCHANGED <<thread, queue, null>> /\ armed' \subseteq {"modem", "timers"}
    BY <1>4, OtherCall DEF SetUp, TypeOK
  <2> QED
    BY <1>1, <1>a, <2>1 DEF TypeOK, LoopOfThread, QueueBeforeFlag
<1>5. CASE LogVersion
  <2>1. /\ ~spinning /\ at' = at + 1 /\ UNCHANGED <<spinning, thread, queue, armed, null>>
    BY <1>1, <1>5, OtherCall DEF LogVersion
  <2> QED
    BY <1>1, <1>a, <2>1 DEF TypeOK, LoopOfThread, QueueBeforeFlag
<1> QED
  BY <1>2, <1>3, <1>4, <1>5 DEF MainStep

LEMMA ThreadInv ==
  ASSUME IInv, Alive, NEW t \in Threads, ThreadStep(t)
  PROVE  IInv'
<1> USE DEF IInv
<1>a. OnlyEarlyFrameKills'
  BY AliveIsSafe DEF ThreadStep, CreateQueue, Activate, Alive
<1>1. CASE CreateQueue(t)
  <2>1. /\ t \in HasQueue /\ thread[t] = "created" /\ queue' = queue \cup {t}
        /\ UNCHANGED <<at, spinning, thread, armed, null>>
    BY <1>1 DEF CreateQueue
  <2> QED
    BY <1>a, <2>1 DEF TypeOK, LoopOfThread, QueueBeforeFlag
<1>2. CASE Activate(t)
  <2>1. /\ thread[t] = "created" /\ (t \in HasQueue => t \in queue)
        /\ UNCHANGED <<at, spinning, queue, armed, null>>
    BY <1>2 DEF Activate
  <2>2. /\ thread' \in [Threads -> {"none", "created", "active"}]
        /\ thread'[t] = "active"
        /\ \A u \in Threads : u # t => thread'[u] = thread[u]
    BY <1>2 DEF Activate, TypeOK
  <2>3. TypeOK'
    BY <2>1, <2>2 DEF TypeOK
  <2>4. LoopOfThread'
    BY <2>1, <2>2 DEF LoopOfThread
  <2>5. QueueBeforeFlag'
    BY <2>1, <2>2 DEF QueueBeforeFlag, TypeOK, HasQueue, Threads
  <2> QED
    BY <1>a, <2>3, <2>4, <2>5
<1> QED
  BY <1>1, <1>2 DEF ThreadStep

LEMMA StepInv == IInv /\ [Next]_vars => IInv'
<1> SUFFICES ASSUME IInv, [Next]_vars PROVE IInv'
  OBVIOUS
<1>1. CASE Alive /\ Interrupt
  <2>1. /\ "modem" \in armed /\ null' = {"rx"} \ queue
        /\ UNCHANGED <<at, spinning, thread, queue, armed>>
    BY <1>1 DEF Interrupt, Use, Alive
  <2>2. thread["rx"] = "active" => "rx" \in queue
    BY DEF IInv, QueueBeforeFlag, HasQueue
  <2> QED
    BY <2>1, <2>2 DEF IInv, TypeOK, LoopOfThread, QueueBeforeFlag, OnlyEarlyFrameKills, Alive, HasQueue
<1>2. CASE UNCHANGED vars \/ (Alive /\ (Ping \/ Decode))
  <2>1. UNCHANGED <<at, spinning, thread, queue, armed, null>>
    BY <1>2, SendKeepsAlive DEF Ping, Decode, vars
  <2>2. TypeOK' /\ LoopOfThread'
    BY <2>1, Zenon DEF IInv, TypeOK, LoopOfThread
  <2> QED
    BY <2>1, <2>2 DEF IInv, QueueBeforeFlag, OnlyEarlyFrameKills, Alive
<1>3. ASSUME Alive, MainStep PROVE IInv'
  BY <1>3, MainInv
<1>4. ASSUME Alive, NEW t \in Threads, ThreadStep(t) PROVE IInv'
  BY <1>4, ThreadInv
<1> QED
  BY <1>1, <1>2, <1>3, <1>4 DEF Next

LEMMA AlwaysIInv == Spec => []IInv
BY InitInv, StepInv, PTL DEF Spec

-----------------------------------------------------------------------------
\* main only ever takes its calls in their order and has left the loops when
\* it has reached its end, whichever threads are created.
THEOREM TypeCorrect == Spec => []TypeOK
<1>1. IInv => TypeOK
  BY DEF IInv
<1> QED
  BY <1>1, AlwaysIInv, PTL

\* Of all that uses the three queues while the program comes up, only the
\* interrupt can meet one that does not exist, and only as long as the receive
\* thread has not set its flag: the threads make their queues before they set
\* their flags, and the senders test the pointer.
THEOREM OnlyEarlyFrames == Spec => []OnlyEarlyFrameKills
<1>1. IInv => OnlyEarlyFrameKills
  BY DEF IInv
<1> QED
  BY <1>1, AlwaysIInv, PTL

\* A worker that has set its flag has its queue, and nothing but a created
\* thread has one: no worker waits on a queue it did not make.
THEOREM WorkersHaveQueues == Spec => []QueueBeforeFlag
<1>1. IInv => QueueBeforeFlag
  BY DEF IInv
<1> QED
  BY <1>1, AlwaysIInv, PTL
=============================================================================
