------------------------------- MODULE Galois -------------------------------
(***************************************************************************)
(* The field GF(256) of galois.c, its operations as functions.             *)
(***************************************************************************)
EXTENDS Naturals

Byte == 0 .. 255

Bit(x, i) == (x \div 2^i) % 2

\* C's ^ on bytes.
Xor == [x \in Byte |-> [y \in Byte |->
          LET b(i) == 2^i * ((Bit(x, i) + Bit(y, i)) % 2)
          IN  b(0) + b(1) + b(2) + b(3) + b(4) + b(5) + b(6) + b(7)]]

\* One more factor of the primitive element: a shift, reduced by
\* x^8 + x^4 + x^3 + x^2 + 1 (0435).
Double == [y \in Byte |-> IF y < 128 THEN 2 * y ELSE Xor[(2 * y) % 256][29]]

\* Powers of the primitive element, by as many shifts.
gexp == [z \in 0 .. 254 |->
           LET power[i \in 0 .. 254] == IF i = 0 THEN 1 ELSE Double[power[i - 1]]
           IN  power[z]]

\* Shift and add: y shifted by i places for every bit i of x.
gmult == [x \in Byte |-> [y \in Byte |->
            LET shifted[i \in 0 .. 7] == IF i = 0 THEN y ELSE Double[shifted[i - 1]]
                prod[i \in 0 .. 8] ==
                  IF i = 0 THEN 0
                  ELSE IF Bit(x, i - 1) = 1 THEN Xor[prod[i - 1]][shifted[i - 1]]
                       ELSE prod[i - 1]
            IN  prod[8]]]

\* The inverse, which the code finds by inverting the matrix of multiplication
\* by elt.  The matrix of 0 has no inverse: looking for a row to swap, the code
\* leaves its arrays.
ginv == [elt \in Byte \ {0} |-> CHOOSE x \in Byte : gmult[elt][x] = 1]
=============================================================================
