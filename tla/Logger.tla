------------------------------- MODULE Logger -------------------------------
(***************************************************************************)
(* logger.c: any thread hands an entry to the logger thread, which appends *)
(* it to the log file.                                                     *)
(*                                                                         *)
(* As in module RxThread the logger sleeps on a condition variable without *)
(* testing a predicate, and its mutex is not the queue's.  A sender        *)
(* enqueues and signals under the queue's mutex; neither the wait nor the  *)
(* look at loggerQ->size takes that, and an order in which one of them     *)
(* comes between the two has the effect of one before or after both: a     *)
(* call of loggerThreadSend is one step.  The queue exists (see Startup).  *)
(***************************************************************************)
EXTENDS Naturals, Sequences

CONSTANTS Entry,         \* the lines that can be logged
          NoEntry,       \* no line
          LogCapacity    \* loggerQueueSize

ASSUME NoEntryAssumption     == NoEntry \notin Entry
ASSUME LogCapacityAssumption == LogCapacity \in Nat

VARIABLES loggerQ,      \* the queued entries, oldest first
          logger,       \* where the logger thread is in loggerThreadFunc
          loggerData,   \* the entry it took last
          handled       \* history: the entry it was done with last

logVars == <<loggerQ, logger, loggerData, handled>>

LogInit ==
  /\ loggerQ = << >> /\ logger = "lock"
  /\ loggerData = NoEntry /\ handled = NoEntry

(* The operators named Slip... are plausible mistakes in the definition that *)
(* follows them, against which the properties below are measured.            *)

-----------------------------------------------------------------------------
Wake == IF logger = "waiting" THEN "check" ELSE logger

\* Slip: the logger is only signalled about an accepted entry.
SlipSend(e) ==
  /\ \/ Len(loggerQ) < LogCapacity /\ loggerQ' = Append(loggerQ, e) /\ logger' = Wake
     \/ Len(loggerQ) = LogCapacity /\ UNCHANGED <<loggerQ, logger>>
  /\ UNCHANGED <<loggerData, handled>>

\* loggerThreadSend: a full queue refuses the entry, whose buffer nobody
\* frees; the logger is signalled all the same.
Send(e) ==
  /\ \/ Len(loggerQ) < LogCapacity /\ loggerQ' = Append(loggerQ, e)
     \/ Len(loggerQ) = LogCapacity /\ UNCHANGED loggerQ
  /\ logger' = Wake
  /\ UNCHANGED <<loggerData, handled>>

-----------------------------------------------------------------------------
(* The logger thread: loggerThreadFunc.                                     *)

\* It begins to wait whatever the queue holds.
LoggerWait ==
  /\ logger = "lock" /\ logger' = "waiting"
  /\ UNCHANGED <<loggerQ, loggerData, handled>>

\* pthread_cond_wait may return without a signal.
LoggerSpuriousWakeup ==
  /\ logger = "waiting" /\ logger' = "check"
  /\ UNCHANGED <<loggerQ, loggerData, handled>>

LoggerCheckSize ==
  /\ logger = "check"
  /\ logger' = IF loggerQ # << >> THEN "dequeue" ELSE "lock"
  /\ UNCHANGED <<loggerQ, loggerData, handled>>

\* Slip: the entry that was queued last is taken first.
SlipDequeueEntry ==
  /\ logger = "dequeue"
  /\ IF loggerQ = << >>
     THEN logger' = "check" /\ UNCHANGED <<loggerQ, loggerData>>
     ELSE /\ loggerData' = loggerQ[Len(loggerQ)]
          /\ loggerQ' = SubSeq(loggerQ, 1, Len(loggerQ) - 1)
          /\ logger' = "write"
  /\ UNCHANGED handled

DequeueEntry ==
  /\ logger = "dequeue"
  /\ IF loggerQ = << >>
     THEN logger' = "check" /\ UNCHANGED <<loggerQ, loggerData>>
     ELSE /\ loggerData' = Head(loggerQ) /\ loggerQ' = Tail(loggerQ)
          /\ logger' = "write"
  /\ UNCHANGED handled

\* The file is opened for each entry; if that fails the entry is dropped.  In
\* both cases its buffer is freed and the next entry taken.
WriteEntry ==
  /\ logger = "write"
  /\ handled' = loggerData
  /\ logger' = "check"
  /\ UNCHANGED <<loggerQ, loggerData>>

LoggerStep == LoggerWait \/ LoggerCheckSize \/ DequeueEntry \/ WriteEntry

LogNext == LoggerStep \/ LoggerSpuriousWakeup \/ \E e \in Entry : Send(e)

LogSpec == LogInit /\ [][LogNext]_logVars

-----------------------------------------------------------------------------
\* The queue never grows past its capacity and holds entries only.
LogTypeOK ==
  /\ loggerQ \in Seq(Entry) /\ Len(loggerQ) <= LogCapacity
  /\ logger \in {"lock", "waiting", "check", "dequeue", "write"}
  /\ loggerData \in Entry \cup {NoEntry} /\ handled \in Entry \cup {NoEntry}
  /\ logger = "write" => loggerData # NoEntry

LogPending == IF logger = "write" THEN << loggerData >> \o loggerQ ELSE loggerQ

LogHandover == INSTANCE Delivery
  WITH Item <- Entry, Bound <- LogCapacity + 1, NoItem <- NoEntry,
       pending <- LogPending, last <- handled

\* Accepted entries leave the queue once each, in order and unchanged, also
\* when the log file cannot be opened for some of them.
LogDelivery == LogHandover!Spec

\* Every accepted entry is written, or tried to be, although wakeups are lost.
LogPrompt == LogHandover!Prompt
=============================================================================
