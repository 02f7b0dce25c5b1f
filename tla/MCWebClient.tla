---------------------------- MODULE MCWebClient ----------------------------
(* A queue of two (10 in the code), filled and overflowing, with a message   *)
(* that is written and one that is not.                                     *)
EXTENDS WebClient

CONSTANTS ping, info

MCMsg   == {ping}
MCOther == {info}
=============================================================================
