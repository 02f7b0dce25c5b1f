------------------------------ MODULE Startup ------------------------------
(***************************************************************************)
(* How the program comes up: main (SondeGround.c) starts the four worker   *)
(* threads and sets up radio and timer, one after the other, while the     *)
(* threads already started run and send each other messages.               *)
(*                                                                         *)
(* Each start function ends in "while(active != 0) {}", the opposite of a  *)
(* wait for the thread: main passes it if it reads the flag before the     *)
(* thread sets it, and never leaves it otherwise.  The flag is neither     *)
(* atomic nor volatile, and nobody resets it, so that whether the compiler *)
(* rereads it makes no difference.                                         *)
(*                                                                         *)
(* main tests results with "!result": a 0 is reported, the -1 of a thread  *)
(* that was not created is not, and neither stops it.                      *)
(***************************************************************************)
EXTENDS Naturals

CONSTANT MayFail     \* whether creating a thread, or the modem's setup, can fail

ASSUME MayFailAssumption == MayFail \in BOOLEAN

Threads == {"logger", "rx", "status", "web"}
HasQueue == {"logger", "rx", "web"}

\* The calls of main, in their order.
Program == << "logger", "rx", "modem", "status", "timers", "version", "web" >>
Running == 8

VARIABLES at,        \* index in Program of the call main is in
          spinning,  \* whether main has created that call's thread
          thread,    \* how far each thread is
          queue,     \* the threads whose queue exists
          armed,     \* which of the interrupt and the timer are set up
          null       \* the queues that were used while they did not exist
vars == <<at, spinning, thread, queue, armed, null>>

Init ==
  /\ at = 1 /\ spinning = FALSE
  /\ thread = [t \in Threads |-> "none"]
  /\ queue = {} /\ armed = {} /\ null = {}

\* An access through the pointer of a queue that does not exist ends the
\* process.
Alive == null = {}
Use(t) == null' = null \cup ({t} \ queue)

(* The operators named Slip... are plausible mistakes in the definition that *)
(* follows them, against which the properties below are measured.            *)

-----------------------------------------------------------------------------
\* pthread_create in start...Thread; if it fails the function returns at once.
CreateThread(t) ==
  /\ at < Running /\ Program[at] = t /\ ~spinning
  /\ \/ /\ thread' = [thread EXCEPT ![t] = "created"]
        /\ spinning' = TRUE /\ at' = at
     \/ /\ MayFail
        /\ at' = at + 1
        /\ UNCHANGED <<thread, spinning>>
  /\ UNCHANGED <<queue, armed, null>>

\* Slip: what is known of the created thread is kept for the next call.
SlipPassLoop(t) ==
  /\ at < Running /\ Program[at] = t /\ spinning
  /\ thread[t] # "active"
  /\ at' = at + 1
  /\ UNCHANGED <<spinning, thread, queue, armed, null>>

\* The loop lets main go on only while the thread has not set its flag.
PassLoop(t) ==
  /\ at < Running /\ Program[at] = t /\ spinning
  /\ thread[t] # "active"
  /\ at' = at + 1 /\ spinning' = FALSE
  /\ UNCHANGED <<thread, queue, armed, null>>

\* Slip: the setup waits for the receive thread, which may not exist.
SlipSetUp(device) ==
  /\ at < Running /\ Program[at] = device /\ device \in {"modem", "timers"}
  /\ thread["rx"] = "active"
  /\ armed' \in {armed \cup {device}} \cup (IF MayFail /\ device = "modem" THEN {armed} ELSE {})
  /\ at' = at + 1
  /\ UNCHANGED <<spinning, thread, queue, null>>

\* modemSetup registers the interrupt unless a step before that fails.
SetUp(device) ==
  /\ at < Running /\ Program[at] = device /\ device \in {"modem", "timers"}
  /\ armed' \in {armed \cup {device}} \cup (IF MayFail /\ device = "modem" THEN {armed} ELSE {})
  /\ at' = at + 1
  /\ UNCHANGED <<spinning, thread, queue, null>>

-----------------------------------------------------------------------------
\* Slip: the test of the queue's pointer is missing.
SlipSend(t) == Use(t)

\* loggerThreadSend and sendToGatewayServer look at the queue's pointer first
\* and do nothing when there is no queue.
Send(t) ==
  \/ t \in queue /\ Use(t)
  \/ t \notin queue /\ UNCHANGED null

LogVersion ==
  /\ at < Running /\ Program[at] = "version"
  /\ Send("logger")
  /\ at' = at + 1
  /\ UNCHANGED <<spinning, thread, queue, armed>>

\* A thread makes its queue and then sets its flag.
CreateQueue(t) ==
  /\ t \in HasQueue /\ thread[t] = "created" /\ t \notin queue
  /\ queue' = queue \cup {t}
  /\ UNCHANGED <<at, spinning, thread, armed, null>>

\* Slip: the flag is set first thing in the thread, before its queue is made.
SlipActivate(t) ==
  /\ thread[t] = "created"
  /\ thread' = [thread EXCEPT ![t] = "active"]
  /\ UNCHANGED <<at, spinning, queue, armed, null>>

Activate(t) ==
  /\ thread[t] = "created" /\ (t \in HasQueue => t \in queue)
  /\ thread' = [thread EXCEPT ![t] = "active"]
  /\ UNCHANGED <<at, spinning, queue, armed, null>>

\* The timer wakes the status thread, which sends a ping to logger and web.
Ping ==
  /\ "timers" \in armed /\ thread["status"] = "active"
  /\ Send("logger") \/ Send("web")
  /\ UNCHANGED <<at, spinning, thread, queue, armed>>

\* A frame: rxQueuePacket does not test the queue's pointer, as the senders
\* do, before the interrupt thread enqueues.
Interrupt ==
  /\ "modem" \in armed
  /\ Use("rx")
  /\ UNCHANGED <<at, spinning, thread, queue, armed>>

\* The receive thread passes what it decodes to logger and web.
Decode ==
  /\ "modem" \in armed /\ thread["rx"] = "active"
  /\ Send("logger") \/ Send("web")
  /\ UNCHANGED <<at, spinning, thread, queue, armed>>

MainStep ==
  \/ \E t \in Threads : CreateThread(t) \/ PassLoop(t)
  \/ \E device \in {"modem", "timers"} : SetUp(device)
  \/ LogVersion

ThreadStep(t) == CreateQueue(t) \/ Activate(t)

Next ==
  /\ Alive
  /\ \/ MainStep \/ Ping \/ Interrupt \/ Decode
     \/ \E t \in Threads : ThreadStep(t)

\* The scheduler runs main and every thread that was created.
Fairness == WF_vars(Alive /\ MainStep) /\ \A t \in Threads : WF_vars(Alive /\ ThreadStep(t))

Spec == Init /\ [][Next]_vars /\ Fairness

-----------------------------------------------------------------------------
\* Every variable holds a value of its kind, and main has left the loops when
\* it has reached its end.
TypeOK ==
  /\ at \in 1..Running /\ spinning \in BOOLEAN
  /\ at = Running => ~spinning
  /\ thread \in [Threads -> {"none", "created", "active"}]
  /\ queue \subseteq HasQueue /\ armed \subseteq {"modem", "timers"}
  /\ null \subseteq HasQueue

\* The start can end the process in one way only: a frame comes after the
\* interrupt was set up and before the receive thread, late or never created,
\* has set its flag.  Once that flag is set no frame does it, and no message
\* of status, receive or main thread to a logger or web client that is late
\* or missing ever does.
OnlyEarlyFrameKills ==
  ~Alive => null = {"rx"} /\ "modem" \in armed /\ thread["rx"] # "active"

\* Wherever main stops for good it stands in the loop of a thread that is up:
\* that race of the start functions is all that keeps it from its end, and
\* once past the loops no failure does.
StopsOnlyInLoop ==
  <>[](\/ at = Running \/ ~Alive
       \/ spinning /\ thread[Program[at]] = "active")

\* "To enable the ground station gateway to startup at boot": the program
\* comes up, with every thread started, when nothing fails.
ComesUp == <>(at = Running \/ ~Alive)
=============================================================================
