---------------------------- MODULE MCImageFile ----------------------------
(* Any packets in any order, for two pictures of three chunks with streams  *)
(* for both (module MCDownlink checks the invariants of ImageFile).         *)
EXTENDS ImageFile

CONSTANTS p1, p2, s1, s2, s3, s4

MCId     == {p1, p2}
MCSeqnum == 0..2
MCStream == {s1, s2, s3, s4}
=============================================================================
