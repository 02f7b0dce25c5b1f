---------------------------- MODULE MCTelemetry ----------------------------
(* Every kind of frame with bursts of errors around the code's limit at      *)
(* every place, with a few errors spread wide, and with the type byte of     *)
(* every other kind: alone, and of one of the same length with as many more  *)
(* errors as can be corrected, or one too many.                              *)
EXTENDS PacketCheck

None == [i \in 0 .. MTU_SIZE - 1 |-> 0]

Burst(from, length, step) ==
  [i \in 0 .. MTU_SIZE - 1 |->
     IF i \in {from + step * k : k \in 0 .. length - 1} THEN 1 + ((37 * i + 11 * length) % 255)
     ELSE 0]

Pairs == {p \in Kinds \X Kinds : p[1] # p[2]}

MistakenType(pairs, length) ==
  {[Burst(3, length, 2) EXCEPT ![0] = Xor[TypeByte[p[1]]][TypeByte[p[2]]]] : p \in pairs}

\* Five errors at which the decoder divides by zero in a packet of 16 bytes.
Unlucky ==
  [None EXCEPT ![5] = 156, ![7] = 194, ![11] = 159, ![12] = 76, ![15] = 44]

MCErrors ==
  {None, Unlucky}
    \cup {Burst(from, length, 1) : from \in 0 .. 44, length \in {1, 4, 5, 8}}
    \cup {Burst(from, length, 3) : from \in {0, 1, 2, 5}, length \in 2 .. 6}
    \cup MistakenType(Pairs, 0)
    \cup UNION {MistakenType({p \in Pairs : SizeOf(p[1]) = SizeOf(p[2])}, n) : n \in {3, 4}}
=============================================================================
