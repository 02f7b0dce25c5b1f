------------------------------ MODULE Delivery ------------------------------
(***************************************************************************)
(* What a thread that drains a queue promises to those who fill it: what   *)
(* was accepted is handled once, in the order of acceptance, and (Prompt)  *)
(* nothing accepted waits for ever.                                        *)
(***************************************************************************)
EXTENDS Naturals, Sequences

CONSTANTS Item,     \* what is handed over
          Bound,    \* how many items can be accepted and not yet handled
          NoItem    \* value of last before the first item is handled

VARIABLES pending,  \* accepted and not yet handled, oldest first
          last      \* the item handled last

vars == <<pending, last>>

Init == pending = << >> /\ last = NoItem

Accept(x) ==
  /\ Len(pending) < Bound
  /\ pending' = Append(pending, x)
  /\ last' = last

Handle ==
  /\ pending # << >>
  /\ pending' = Tail(pending)
  /\ last' = Head(pending)

Next == Handle \/ \E x \in Item : Accept(x)

Spec == Init /\ [][Next]_vars

Prompt == WF_vars(Handle)
=============================================================================
