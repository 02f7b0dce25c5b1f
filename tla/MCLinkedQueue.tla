--------------------------- MODULE MCLinkedQueue ---------------------------
(* Three of the list's sizes matter to the code: empty, one element (front *)
(* and rear equal) and more.  A capacity of three has two sizes of the     *)
(* last kind; four addresses leave a choice at each calloc.                *)
EXTENDS LinkedQueue

CONSTANTS a1, a2, a3, a4, d1, d2

MCAddr == {a1, a2, a3, a4}
MCData == {d1, d2}

\* All memory starts zeroed but for its data: TLC would otherwise begin
\* from every content of every address.
MCInit == Init /\ node = [a \in Addr |-> [data |-> d1, prev |-> NULL, next |-> NULL]]

MCSpec == MCInit /\ [][Next]_vars
=============================================================================
