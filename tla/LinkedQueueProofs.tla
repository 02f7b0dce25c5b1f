------------------------- MODULE LinkedQueueProofs -------------------------
(***************************************************************************)
(* The linked list of queue.c implements the bounded FIFO queue, for every *)
(* capacity, every set of addresses and every set of data.                 *)
(***************************************************************************)
EXTENDS LinkedQueue, SequenceTheorems, TLAPS

\* The inductive invariant: the three invariants of LinkedQueue need one
\* another (the pointers of an element are only preserved because no address
\* occurs twice in the chain, and that because the chain is what is live).
IInv == TypeOK /\ ListShape /\ ElementsOwned

\* The data along a sequence of addresses, of this state or of the next.
LEMMA ContentsType ==
  ASSUME NEW c \in Seq(Addr), NEW m \in [Addr -> Element]
  PROVE  LET contents == [i \in 1..Len(c) |-> m[c[i]].data]
         IN  /\ contents \in Seq(Data)
             /\ Len(contents) = Len(c)
             /\ \A i \in 1..Len(c) : contents[i] = m[c[i]].data
<1> DEFINE contents == [i \in 1..Len(c) |-> m[c[i]].data]
<1>1. Len(c) \in Nat /\ \A i \in 1..Len(c) : c[i] \in Addr
  OBVIOUS
<1>2. \A i \in 1..Len(c) : m[c[i]].data \in Data
  BY <1>1 DEF Element
<1>3. contents \in [1..Len(c) -> Data]
  BY <1>2
<1>4. contents \in Seq(Data)
  BY <1>1, <1>3, SeqDef
<1>5. DOMAIN contents = 1..Len(c)
  OBVIOUS
<1>6. Len(contents) = Len(c)
  BY <1>1, <1>4, <1>5, LenProperties
<1> QED
  BY <1>4, <1>6

LEMMA InitInv == Init => IInv
BY CapacityAssumption
   DEF Init, IInv, TypeOK, ListShape, ElementsOwned, Pointer, Element, Call

\* A successful Enqueue appends an element that occurs nowhere in the chain;
\* of the other elements it only touches the prev of the last and, when that
\* is also the first, a next that is NULL already.
LEMMA EnqueueStep ==
  ASSUME IInv, NEW a \in Addr, NEW d \in Data, EnqueueAt(a, d)
  PROVE  /\ IInv'
         /\ Contents' = Append(Contents, d)
         /\ Len(Contents) < Capacity
<1> DEFINE n == Len(chain)
<1> USE NullAssumption, CapacityAssumption
<1>1. /\ chain \in Seq(Addr) /\ n \in Nat /\ n = size /\ n < Capacity
      /\ \A i \in 1..n : chain[i] \in Addr /\ chain[i] # a
  BY DEF IInv, TypeOK, ListShape, ElementsOwned, EnqueueAt, AppendElement
<1>2. /\ chain' \in Seq(Addr) /\ Len(chain') = n + 1 /\ chain'[n + 1] = a
      /\ \A i \in 1..n : chain'[i] = chain[i]
  BY <1>1, AppendProperties DEF EnqueueAt, AppendElement
<1>3. /\ (n = 0) => front = NULL /\ rear = NULL
      /\ (n # 0) => front = chain[1] /\ rear = chain[n]
  BY <1>1, EmptySeq DEF IInv, ListShape
<1>4. (n > 1) => front # rear
  BY <1>1, <1>3 DEF IInv, ElementsOwned
<1>5. /\ node \in [Addr -> Element]
      /\ \A i \in 1..n :
           /\ node[chain[i]].prev = IF i = n THEN NULL ELSE chain[i + 1]
           /\ node[chain[i]].next = IF i = 1 THEN NULL ELSE chain[i - 1]
  BY DEF IInv, TypeOK, ListShape
<1>6. /\ node' \in [Addr -> Element]
      /\ node'[a] = [data |-> d, prev |-> NULL, next |-> rear]
      /\ \A i \in 1..n :
           /\ node'[chain[i]].data = node[chain[i]].data
           /\ node'[chain[i]].next = node[chain[i]].next
           /\ node'[chain[i]].prev = IF i = n THEN a ELSE node[chain[i]].prev
  <2>1. rear \in Pointer /\ (n # 0 => rear \in Addr /\ rear # a)
    BY <1>1, <1>3 DEF Pointer
  <2>2. \A i \in 1..n : (chain[i] = rear) <=> (i = n)
    BY <1>1, <1>3 DEF IInv, ElementsOwned
  <2>3. CASE n = 0
    BY <2>3, <2>1, <1>3, <1>5 DEF EnqueueAt, AppendElement, LinkBehindRear, Element, Pointer
  <2>4. CASE n = 1
    <3>1. front = rear /\ rear = chain[1] /\ rear # NULL /\ node[rear].next = NULL
      BY <2>4, <1>1, <1>3, <1>5
    <3>2. node' = [[node EXCEPT ![a] = [data |-> d, prev |-> NULL, next |-> rear]]
                     EXCEPT ![rear].prev = a, ![rear].next = NULL]
      BY <3>1 DEF EnqueueAt, AppendElement, LinkBehindRear
    <3> QED
      BY <2>4, <2>1, <3>1, <3>2, <1>5 DEF Element, Pointer
  <2>5. CASE n > 1
    <3>1. node' = [[node EXCEPT ![a] = [data |-> d, prev |-> NULL, next |-> rear]]
                     EXCEPT ![rear].prev = a]
      BY <2>5, <1>4 DEF EnqueueAt, AppendElement, LinkBehindRear
    <3>2. /\ rear \in Addr /\ rear # a
          /\ node' \in [Addr -> Element]
          /\ node'[a] = [data |-> d, prev |-> NULL, next |-> rear]
          /\ node'[rear] = [node[rear] EXCEPT !.prev = a]
          /\ \A x \in Addr \ {a, rear} : node'[x] = node[x]
      <4>1. rear \in Addr /\ rear # a /\ a \in Pointer
        BY <2>5, <2>1 DEF Pointer
      <4>2. PICK w \in [Addr -> Element] :
              /\ w = [node EXCEPT ![a] = [data |-> d, prev |-> NULL, next |-> rear]]
              /\ node' = [w EXCEPT ![rear].prev = a]
        BY <3>1, <1>5, <2>1 DEF Element, Pointer
      <4>3. w[rear] = node[rear] /\ w[rear] \in Element
        BY <4>1, <4>2, <1>5
      <4>4. [w[rear] EXCEPT !.prev = a] \in Element
        BY <4>1, <4>3 DEF Element
      <4> QED
        BY <4>1, <4>2, <4>3, <4>4, <1>5
    <3>3. node[rear] \in Element
      BY <3>2, <1>5
    <3>4. ASSUME NEW i \in 1..n
          PROVE  /\ node'[chain[i]].data = node[chain[i]].data
                 /\ node'[chain[i]].next = node[chain[i]].next
                 /\ node'[chain[i]].prev = IF i = n THEN a ELSE node[chain[i]].prev
      <4>1. CASE i = n
        BY <4>1, <3>2, <3>3, <2>2 DEF Element
      <4>2. CASE i # n
        BY <4>2, <3>2, <2>2, <1>1
      <4> QED
        BY <4>1, <4>2
    <3> QED
      BY <3>2, <3>4
  <2> QED
    BY <1>1, <2>3, <2>4, <2>5
<1>7. TypeOK'
  <2>1. front' \in Pointer /\ rear' \in Pointer /\ live' \subseteq Addr
    BY DEF IInv, TypeOK, EnqueueAt, AppendElement, Pointer
  <2>2. size' \in 0..Capacity
    BY <1>1 DEF EnqueueAt, AppendElement
  <2>3. result' \in [op : {"create", "put", "get"},
                     elem : {<< >>} \cup {<<x>> : x \in Data}, status : {0, 1}]
    BY DEF EnqueueAt, AppendElement, Call
  <2> QED
    BY <1>2, <1>6, <2>1, <2>2, <2>3 DEF TypeOK
<1>8. ListShape'
  <2>1. size' = Len(chain') /\ chain' # << >>
    BY <1>1, <1>2, EmptySeq DEF EnqueueAt, AppendElement
  <2>2. front' = chain'[1] /\ rear' = chain'[Len(chain')]
    BY <1>1, <1>2, <1>3 DEF EnqueueAt, AppendElement
  <2>3. ASSUME NEW i \in 1..(n + 1)
        PROVE  /\ node'[chain'[i]].prev = IF i = n + 1 THEN NULL ELSE chain'[i + 1]
               /\ node'[chain'[i]].next = IF i = 1 THEN NULL ELSE chain'[i - 1]
    <3>1. CASE i = n + 1
      BY <3>1, <1>1, <1>2, <1>3, <1>6
    <3>2. CASE i \in 1..n
      BY <3>2, <1>1, <1>2, <1>5, <1>6
    <3> QED
      BY <3>1, <3>2, <1>1
  <2> QED
    BY <1>2, <2>1, <2>2, <2>3 DEF ListShape
<1>9. ElementsOwned'
  <2>1. live' = {chain'[i] : i \in 1..(n + 1)}
    BY <1>1, <1>2 DEF IInv, ElementsOwned, EnqueueAt, AppendElement
  <2>2. ASSUME NEW i \in 1..(n + 1), NEW j \in 1..(n + 1), chain'[i] = chain'[j]
        PROVE  i = j
    BY <2>2, <1>1, <1>2 DEF IInv, ElementsOwned
  <2> QED
    BY <1>2, <2>1, <2>2 DEF ElementsOwned
<1>10. Contents' = Append(Contents, d)
  <2>1. /\ Contents \in Seq(Data) /\ Len(Contents) = n
        /\ \A i \in 1..n : Contents[i] = node[chain[i]].data
    BY <1>1, <1>5, ContentsType DEF Contents
  <2>2. /\ Contents' \in Seq(Data) /\ Len(Contents') = n + 1
        /\ \A i \in 1..(n + 1) : Contents'[i] = node'[chain'[i]].data
    BY <1>2, <1>6, ContentsType DEF Contents
  <2> QED
    BY <1>1, <1>2, <1>6, <2>1, <2>2, AppendProperties, SeqEqual
<1>11. Len(Contents) < Capacity
  BY <1>1, <1>5, ContentsType DEF Contents
<1> QED
  BY <1>7, <1>8, <1>9, <1>10, <1>11 DEF IInv

\* A successful Dequeue removes the first element of the chain; of the others
\* it only clears the next pointer of the new first one.
LEMMA DequeueStep ==
  ASSUME IInv, DequeueElement
  PROVE  /\ IInv'
         /\ Contents # << >>
         /\ Contents' = Tail(Contents)
         /\ node[front].data = Head(Contents)
<1> DEFINE n == Len(chain)
<1> USE NullAssumption, CapacityAssumption
<1>1. /\ chain \in Seq(Addr) /\ n \in Nat \ {0} /\ n = size /\ n <= Capacity
      /\ \A i \in 1..n : chain[i] \in Addr
      /\ chain # << >>
  BY EmptySeq DEF IInv, TypeOK, ListShape, DequeueElement, DequeueLast, DequeueFront
<1>2. /\ chain' \in Seq(Addr) /\ Len(chain') = n - 1
      /\ \A i \in 1..(n - 1) : chain'[i] = chain[i + 1]
  BY <1>1, HeadTailProperties DEF DequeueElement
<1>3. front = chain[1] /\ rear = chain[n] /\ front \in Addr
  BY <1>1 DEF IInv, ListShape
<1>4. \A i, j \in 1..n : chain[i] = chain[j] => i = j
  BY DEF IInv, ElementsOwned
<1>5. /\ node \in [Addr -> Element]
      /\ \A i \in 1..n :
           /\ node[chain[i]].prev = IF i = n THEN NULL ELSE chain[i + 1]
           /\ node[chain[i]].next = IF i = 1 THEN NULL ELSE chain[i - 1]
  BY DEF IInv, TypeOK, ListShape
<1>6. /\ node' \in [Addr -> Element]
      /\ \A i \in 2..n :
           /\ node'[chain[i]].data = node[chain[i]].data
           /\ node'[chain[i]].prev = node[chain[i]].prev
           /\ node'[chain[i]].next = IF i = 2 THEN NULL ELSE node[chain[i]].next
      /\ (n = 1) => front' = NULL /\ rear' = NULL
      /\ (n # 1) => front' = chain[2] /\ rear' = chain[n]
  <2>1. CASE n = 1
    <3>1. front = rear
      BY <2>1, <1>3
    <3> QED
      BY <2>1, <3>1, <1>5 DEF DequeueElement, DequeueLast, DequeueFront
  <2>2. CASE n # 1
    <3>1. front # rear /\ node[front].prev = chain[2] /\ chain[2] \in Addr
      BY <2>2, <1>1, <1>3, <1>4, <1>5
    <3>2. /\ front' = chain[2] /\ rear' = rear
          /\ node' = [node EXCEPT ![chain[2]].next = NULL]
      BY <3>1 DEF DequeueElement, DequeueLast, DequeueFront
    <3>3. node[chain[2]] \in Element
      BY <3>1, <1>5
    <3>4. [node[chain[2]] EXCEPT !.next = NULL] \in Element
      BY <3>3 DEF Element, Pointer
    <3>5. /\ node' \in [Addr -> Element]
          /\ node'[chain[2]] = [node[chain[2]] EXCEPT !.next = NULL]
          /\ \A x \in Addr \ {chain[2]} : node'[x] = node[x]
      BY <3>1, <3>2, <3>4, <1>5
    <3>6. ASSUME NEW i \in 2..n
          PROVE  /\ node'[chain[i]].data = node[chain[i]].data
                 /\ node'[chain[i]].prev = node[chain[i]].prev
                 /\ node'[chain[i]].next = IF i = 2 THEN NULL ELSE node[chain[i]].next
      <4>1. CASE i = 2
        BY <4>1, <3>3, <3>5 DEF Element
      <4>2. CASE i # 2
        <5>1. chain[i] \in Addr \ {chain[2]}
          BY <4>2, <1>1, <1>4, <2>2
        <5> QED
          BY <5>1, <4>2, <3>5
      <4> QED
        BY <4>1, <4>2
    <3> QED
      BY <2>2, <3>2, <3>5, <3>6, <1>3
  <2> QED
    BY <2>1, <2>2
<1>7. TypeOK'
  <2>1. front' \in Pointer /\ rear' \in Pointer /\ live' \subseteq Addr
    BY <1>1, <1>6 DEF IInv, TypeOK, DequeueElement, Pointer
  <2>2. size' \in 0..Capacity
    BY <1>1 DEF DequeueElement
  <2>3. result' \in [op : {"create", "put", "get"},
                     elem : {<< >>} \cup {<<x>> : x \in Data}, status : {0, 1}]
    BY <1>3, <1>5 DEF DequeueElement, Call, Element
  <2> QED
    BY <1>2, <1>6, <2>1, <2>2, <2>3 DEF TypeOK
<1>8. ListShape'
  <2>1. size' = Len(chain') /\ (chain' = << >> <=> n = 1)
    BY <1>1, <1>2, EmptySeq DEF DequeueElement
  <2>2. n # 1 => front' = chain'[1] /\ rear' = chain'[Len(chain')]
    BY <1>1, <1>2, <1>6
  <2>3. ASSUME NEW i \in 1..(n - 1)
        PROVE  /\ node'[chain'[i]].prev = IF i = n - 1 THEN NULL ELSE chain'[i + 1]
               /\ node'[chain'[i]].next = IF i = 1 THEN NULL ELSE chain'[i - 1]
    <3>1. i + 1 \in 2..n /\ chain'[i] = chain[i + 1]
      BY <1>1, <1>2
    <3>2. node'[chain'[i]].prev = node[chain[i + 1]].prev
      BY <3>1, <1>6
    <3>3. node'[chain'[i]].next = IF i = 1 THEN NULL ELSE node[chain[i + 1]].next
      BY <3>1, <1>6
    <3> QED
      BY <3>1, <3>2, <3>3, <1>1, <1>2, <1>5
  <2> QED
    BY <1>2, <1>6, <2>1, <2>2, <2>3 DEF ListShape
<1>9. ElementsOwned'
  <2>1. live' = {chain'[i] : i \in 1..(n - 1)}
    <3>1. live = {chain[i] : i \in 1..n} /\ live' = live \ {chain[1]}
      BY <1>3 DEF IInv, ElementsOwned, DequeueElement
    <3>2. live' = {chain[i] : i \in 2..n}
      BY <3>1, <1>1, <1>4
    <3>3. \A i \in 2..n : i - 1 \in 1..(n - 1) /\ chain[i] = chain'[i - 1]
      BY <1>1, <1>2
    <3>4. \A i \in 1..(n - 1) : i + 1 \in 2..n /\ chain'[i] = chain[i + 1]
      BY <1>1, <1>2
    <3>5. live' \subseteq {chain'[i] : i \in 1..(n - 1)}
      BY <3>2, <3>3
    <3>6. {chain'[i] : i \in 1..(n - 1)} \subseteq live'
      BY <3>2, <3>4
    <3> QED
      BY <3>5, <3>6
  <2>2. ASSUME NEW i \in 1..(n - 1), NEW j \in 1..(n - 1), chain'[i] = chain'[j]
        PROVE  i = j
    BY <2>2, <1>1, <1>2, <1>4
  <2> QED
    BY <1>2, <2>1, <2>2 DEF ElementsOwned
<1>10. /\ Contents \in Seq(Data) /\ Len(Contents) = n
       /\ \A i \in 1..n : Contents[i] = node[chain[i]].data
  BY <1>1, <1>5, ContentsType DEF Contents
<1>11. /\ Contents' \in Seq(Data) /\ Len(Contents') = n - 1
       /\ \A i \in 1..(n - 1) : Contents'[i] = node'[chain'[i]].data
  BY <1>2, <1>6, ContentsType DEF Contents
<1>12. Contents # << >> /\ Head(Contents) = node[front].data
  BY <1>1, <1>3, <1>10, EmptySeq
<1>13. Contents' = Tail(Contents)
  <2>1. /\ Tail(Contents) \in Seq(Data) /\ Len(Tail(Contents)) = n - 1
        /\ \A i \in 1..(n - 1) : Tail(Contents)[i] = Contents[i + 1]
    BY <1>10, <1>12, HeadTailProperties
  <2>2. ASSUME NEW i \in 1..(n - 1)
        PROVE  Contents'[i] = Tail(Contents)[i]
    <3>1. i + 1 \in 2..n /\ chain'[i] = chain[i + 1]
      BY <1>1, <1>2
    <3> QED
      BY <3>1, <2>1, <1>1, <1>6, <1>10, <1>11
  <2> QED
    BY <2>1, <2>2, <1>11, SeqEqual
<1> QED
  BY <1>7, <1>8, <1>9, <1>12, <1>13 DEF IInv

-----------------------------------------------------------------------------
\* A refused Enqueue and a Dequeue of an empty queue change the result only.
LEMMA RefusedStep ==
  ASSUME IInv, (\E d \in Data : EnqueueFull(d)) \/ DequeueEmpty
  PROVE  IInv' /\ Contents' = Contents
<1>1. UNCHANGED <<front, rear, size, node, live, chain>>
  BY DEF EnqueueFull, DequeueEmpty
<1>2. result' \in [op : {"create", "put", "get"},
                   elem : {<< >>} \cup {<<x>> : x \in Data}, status : {0, 1}]
  BY DEF EnqueueFull, DequeueEmpty, Call
<1>3. TypeOK'
  BY <1>1, <1>2 DEF IInv, TypeOK
<1>4. ListShape' /\ ElementsOwned'
  BY <1>1 DEF IInv, ListShape, ElementsOwned
<1> QED
  BY <1>1, <1>3, <1>4 DEF IInv, Contents

LEMMA StepInv == IInv /\ [Next]_vars => IInv'
<1> SUFFICES ASSUME IInv, [Next]_vars
             PROVE  IInv'
  OBVIOUS
<1>1. ASSUME NEW d \in Data, Enqueue(d)
      PROVE  IInv'
  BY <1>1, EnqueueStep, RefusedStep DEF Enqueue
<1>2. CASE Dequeue
  BY <1>2, DequeueStep, RefusedStep DEF Dequeue
<1>3. CASE UNCHANGED vars
  BY <1>3 DEF vars, IInv, TypeOK, ListShape, ElementsOwned
<1> QED
  BY <1>1, <1>2, <1>3 DEF Next

\* At every moment of every run the list of queue.c is well formed and the
\* allocated elements are the queued ones.
THEOREM ListInvariant == Spec => [](TypeOK /\ ListShape /\ ElementsOwned)
<1>1. IInv => TypeOK /\ ListShape /\ ElementsOwned
  BY DEF IInv
<1> QED
  BY <1>1, InitInv, StepInv, PTL DEF Spec

\* Every call of Enqueue and Dequeue does what the abstract queue does, in
\* its contents and in what it returns.
THEOREM Refinement == Spec => ImplementsFifo
<1>1. Init => Fifo!Init
  <2>1. Init => Contents = << >>
    BY DEF Init, Contents
  <2> QED
    BY <2>1 DEF Init, Fifo!Init, Call, Fifo!Call
<1>2. IInv /\ [Next]_vars => [Fifo!Next]_<<Contents, result>>
  <2> SUFFICES ASSUME IInv, [Next]_vars
               PROVE  [Fifo!Next]_<<Contents, result>>
    OBVIOUS
  <2>1. /\ Len(Contents) = size
        /\ (Contents = << >>) <=> (size = 0)
    <3>1. Contents \in Seq(Data) /\ Len(Contents) = Len(chain)
      BY ContentsType DEF IInv, TypeOK, Contents
    <3> QED
      BY <3>1, EmptySeq DEF IInv, ListShape
  <2>2. ASSUME NEW d \in Data, NEW a \in Addr, EnqueueAt(a, d)
        PROVE  Fifo!Put(d)
    <3>1. result' = Call("put", << d >>, 1)
      BY <2>2 DEF EnqueueAt, AppendElement
    <3> QED
      BY <2>2, <3>1, EnqueueStep DEF Fifo!Put, Fifo!Call, Call
  <2>3. ASSUME NEW d \in Data, EnqueueFull(d)
        PROVE  Fifo!Put(d)
    <3>1. Len(Contents) = Capacity
      BY <2>1, <2>3 DEF EnqueueFull
    <3>2. result' = Call("put", << d >>, 0)
      BY <2>3 DEF EnqueueFull
    <3> QED
      BY <2>3, <3>1, <3>2, RefusedStep DEF Fifo!Put, Fifo!Call, Call
  <2>4. CASE DequeueElement
    <3>1. result' = Call("get", << node[front].data >>, 1)
      BY <2>4 DEF DequeueElement
    <3> QED
      BY <2>4, <3>1, DequeueStep DEF Fifo!Next, Fifo!Get, Fifo!Call, Call
  <2>5. CASE DequeueEmpty
    <3>1. Contents = << >> /\ result' = Call("get", << >>, 0)
      BY <2>1, <2>5 DEF DequeueEmpty
    <3> QED
      BY <2>5, <3>1, RefusedStep DEF Fifo!Next, Fifo!Get, Fifo!Call, Call
  <2>6. CASE UNCHANGED vars
    BY <2>6 DEF vars, Contents
  <2> QED
    BY <2>2, <2>3, <2>4, <2>5, <2>6 DEF Next, Enqueue, Dequeue, Fifo!Next
<1> QED
  BY <1>1, <1>2, InitInv, StepInv, PTL DEF Spec, ImplementsFifo, Fifo!Spec

\* Every call takes and gives values of their kind, and the size it keeps is
\* never above the capacity.
THEOREM TypeCorrect == Spec => []TypeOK
BY ListInvariant, PTL

\* The elements on the heap are exactly those in the list: none is lost, and
\* none is in the list after it was freed.
THEOREM NothingLeaks == Spec => []ElementsOwned
BY ListInvariant, PTL
=============================================================================
