-------------------------------- MODULE Ecc --------------------------------
(***************************************************************************)
(* The parameter of the Reed-Solomon code (ecc.h), which the lengths of    *)
(* the packets share.                                                      *)
(***************************************************************************)
EXTENDS Naturals

CONSTANT NPAR     \* parity bytes of a packet

ASSUME NparAssumption == NPAR \in Nat \ {0}
=============================================================================
