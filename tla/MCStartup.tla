----------------------------- MODULE MCStartup -----------------------------
(* The whole of the start; the module has no other size than MayFail.       *)
EXTENDS Startup
=============================================================================
