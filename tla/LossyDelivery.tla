--------------------------- MODULE LossyDelivery ---------------------------
(***************************************************************************)
(* What several queues in a row promise: an item that was accepted may be  *)
(* refused further on, but what is handled at the end is handled once, in  *)
(* the order of acceptance.                                                *)
(***************************************************************************)
EXTENDS Delivery

Drop(i) ==
  /\ pending' = [j \in 1..(Len(pending) - 1) |-> IF j < i THEN pending[j] ELSE pending[j + 1]]
  /\ last' = last

\* Something else was handled, which is not followed.
HandleOther == last' = NoItem /\ pending' = pending

LossyNext ==
  \/ Next
  \/ HandleOther
  \/ \E i \in 1..Len(pending) : Drop(i)

LossySpec == Init /\ [][LossyNext]_vars
=============================================================================
