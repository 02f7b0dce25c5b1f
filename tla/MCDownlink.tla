----------------------------- MODULE MCDownlink -----------------------------
(* Two pictures of three chunks: a chunk can be lost between two others,    *)
(* repeated or late, a packet can belong to the picture started last or to  *)
(* the other, and the second picture finds the first ended or not.  From    *)
(* one sonde a file has room for every chunk and a repetition; streams for  *)
(* two pictures suffice, one of which may be lost.                          *)
EXTENDS Downlink, TLC

CONSTANTS s1, s2, s3, s4

MCId     == 1..2
MCSeqnum == 0..2
MCStream == {s1, s2, s3, s4}

Symmetry == Permutations(MCStream)
=============================================================================
