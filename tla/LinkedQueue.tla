---------------------------- MODULE LinkedQueue ----------------------------
(***************************************************************************)
(* queue.c: a bounded queue as a doubly linked list.  Elements are taken  *)
(* at the front; an element's prev points towards the rear.               *)
(*                                                                        *)
(* One action is one whole call: every caller holds the queue's mutex.    *)
(* Addresses are reused: calloc returns any address that is not           *)
(* allocated, and free leaves the bytes of an element as they are, so a   *)
(* stale pointer would read a plausible element.  calloc does not fail.   *)
(***************************************************************************)
EXTENDS Naturals, Sequences

CONSTANTS Addr,       \* addresses calloc can return for an element
          Data,       \* values of QelementData (a buffer and its length)
          NULL,       \* the null pointer
          Capacity    \* the argument of createQueue

ASSUME NullAssumption     == NULL \notin Addr
ASSUME CapacityAssumption == Capacity \in Nat

VARIABLES front, rear, size,   \* the fields of Queue
          node,                \* the memory at each address
          live,                \* the allocated addresses
          result,              \* the last call and what it returned
          chain                \* history: addresses in the order enqueued

vars == <<front, rear, size, node, live, result, chain>>

Pointer == Addr \cup {NULL}
Element == [data : Data, prev : Pointer, next : Pointer]

Call(op, elem, status) == [op |-> op, elem |-> elem, status |-> status]

\* createQueue: memory holds whatever it held before.
Init ==
  /\ front = NULL /\ rear = NULL /\ size = 0
  /\ node \in [Addr -> Element]
  /\ live = {} /\ chain = << >>
  /\ result = Call("create", << >>, 1)

-----------------------------------------------------------------------------
(* The operators named Slip... are plausible mistakes in the definition that *)
(* follows them, against which the properties below are measured.            *)

\* Slip: an only element's prev is left alone.
SlipLinkBehindRear(a, d) ==
  LET written == [node EXCEPT ![a] = [data |-> d, prev |-> NULL, next |-> rear]]
  IN  IF rear = front THEN written ELSE [written EXCEPT ![rear].prev = a]

\* The memory after Enqueue has written the new element at address a and
\* linked it behind the present rear.
LinkBehindRear(a, d) ==
  LET written == [node EXCEPT ![a] = [data |-> d, prev |-> NULL, next |-> rear]]
  IN  IF rear = front
      THEN IF front = NULL
           THEN written
           ELSE [written EXCEPT ![front].prev = a, ![front].next = NULL]
      ELSE [written EXCEPT ![rear].prev = a]

\* The effect of an Enqueue to which calloc returned a.
AppendElement(a, d) ==
  /\ a \notin live
  /\ node' = LinkBehindRear(a, d)
  /\ front' = IF front = NULL /\ rear = front THEN a ELSE front
  /\ rear' = a
  /\ size' = size + 1
  /\ live' = live \cup {a}
  /\ chain' = Append(chain, a)
  /\ result' = Call("put", << d >>, 1)

\* Slip: the capacity is not tested.
SlipEnqueueAt(a, d) == AppendElement(a, d)

EnqueueAt(a, d) == size # Capacity /\ AppendElement(a, d)

\* Slip: a refusal is reported as success.
SlipEnqueueFull(d) ==
  /\ size = Capacity
  /\ result' = Call("put", << d >>, 1)
  /\ UNCHANGED <<front, rear, size, node, live, chain>>

EnqueueFull(d) ==
  /\ size = Capacity
  /\ result' = Call("put", << d >>, 0)
  /\ UNCHANGED <<front, rear, size, node, live, chain>>

Enqueue(d) == EnqueueFull(d) \/ \E a \in Addr : EnqueueAt(a, d)

\* Dequeue of the only element, and of the front one of several.
DequeueLast ==
  /\ size # 0 /\ front = rear
  /\ front' = NULL /\ rear' = NULL
  /\ node' = node

DequeueFront ==
  /\ size # 0 /\ front # rear
  /\ front' = node[front].prev
  /\ node' = [node EXCEPT ![node[front].prev].next = NULL]
  /\ rear' = rear

\* Slip: the element is not freed.
SlipDequeueElement ==
  /\ DequeueLast \/ DequeueFront
  /\ size' = size - 1
  /\ chain' = Tail(chain)
  /\ result' = Call("get", << node[front].data >>, 1)
  /\ live' = live

DequeueElement ==
  /\ DequeueLast \/ DequeueFront
  /\ size' = size - 1
  /\ live' = live \ {front}
  /\ chain' = Tail(chain)
  /\ result' = Call("get", << node[front].data >>, 1)

DequeueEmpty ==
  /\ size = 0
  /\ result' = Call("get", << >>, 0)
  /\ UNCHANGED <<front, rear, size, node, live, chain>>

Dequeue == DequeueEmpty \/ DequeueElement

Next == Dequeue \/ \E d \in Data : Enqueue(d)

Spec == Init /\ [][Next]_vars

-----------------------------------------------------------------------------
\* Every field holds a value of its C type and size never passes capacity.
TypeOK ==
  /\ front \in Pointer /\ rear \in Pointer
  /\ size \in 0..Capacity
  /\ node \in [Addr -> Element]
  /\ live \subseteq Addr
  /\ chain \in Seq(Addr)
  /\ result \in [op : {"create", "put", "get"},
                 elem : {<< >>} \cup {<<d>> : d \in Data}, status : {0, 1}]

\* front and rear are the ends of the chain, and the prev and next pointers
\* of its elements lead from one to the following in both directions: no
\* sequence of calls, through one element and back to none, breaks the list.
ListShape ==
  /\ size = Len(chain)
  /\ (chain = << >>) => front = NULL /\ rear = NULL
  /\ (chain # << >>) => front = chain[1] /\ rear = chain[Len(chain)]
  /\ \A i \in 1..Len(chain) :
       /\ node[chain[i]].prev = IF i = Len(chain) THEN NULL ELSE chain[i + 1]
       /\ node[chain[i]].next = IF i = 1 THEN NULL ELSE chain[i - 1]

\* The allocated elements are exactly the queued ones, each queued once: no
\* element is freed while it is linked, and none is unlinked and not freed.
ElementsOwned ==
  /\ live = {chain[i] : i \in 1..Len(chain)}
  /\ \A i, j \in 1..Len(chain) : chain[i] = chain[j] => i = j

-----------------------------------------------------------------------------
Contents == [i \in 1..Len(chain) |-> node[chain[i]].data]

Fifo == INSTANCE BoundedFifo WITH Item <- Data, items <- Contents

\* The list behaves as the bounded FIFO queue of the abstract specification,
\* in its contents, their order and what every call returns.
ImplementsFifo == Fifo!Spec
=============================================================================
