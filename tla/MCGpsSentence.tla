--------------------------- MODULE MCGpsSentence ---------------------------
(* Five sentences, GGA and RMC in turn: a half of the first can be left     *)
(* while the second is completed and the third comes in part.               *)
EXTENDS GpsSentence
=============================================================================
