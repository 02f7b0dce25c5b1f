---------------------------- MODULE BoundedFifo ----------------------------
(***************************************************************************)
(* What queue.h promises its three users (the receive, logger and web     *)
(* client threads): a queue of at most Capacity elements, taken in the    *)
(* order in which they were put.  A put on a full queue and a get on an   *)
(* empty one return 0 and change nothing.                                 *)
(***************************************************************************)
EXTENDS Naturals, Sequences

CONSTANTS Item,       \* the elements that can be queued
          Capacity    \* Queue.capacity

VARIABLES items,      \* the queued elements, front first
          result      \* the last call and what it returned

\* A call: its operation, the element put or got (none when a get finds the
\* queue empty) and the status it returns.
Call(op, elem, status) == [op |-> op, elem |-> elem, status |-> status]

Init ==
  /\ items = << >>
  /\ result = Call("create", << >>, 1)

Put(x) ==
  \/ /\ Len(items) < Capacity
     /\ items' = Append(items, x)
     /\ result' = Call("put", << x >>, 1)
  \/ /\ Len(items) = Capacity
     /\ items' = items
     /\ result' = Call("put", << x >>, 0)

Get ==
  \/ /\ items # << >>
     /\ items' = Tail(items)
     /\ result' = Call("get", << Head(items) >>, 1)
  \/ /\ items = << >>
     /\ items' = items
     /\ result' = Call("get", << >>, 0)

Next == Get \/ \E x \in Item : Put(x)

Spec == Init /\ [][Next]_<<items, result>>
=============================================================================
