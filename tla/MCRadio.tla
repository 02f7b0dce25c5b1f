------------------------------ MODULE MCRadio ------------------------------
(* One radio, transfers failing at any time.  The ini file may ask for no    *)
(* rate, one too high, the ends of the range, that of habGWconfig.ini and    *)
(* one whose sixteenths round up to a whole; for its frequency, one between  *)
(* two steps of the chip and two floats, and one at the chip's lower end,    *)
(* where the floats are closer.                                              *)
EXTENDS Radio

MCRates == {0, 1200, 9600, 9601, 300000, 300001}
MCFreqs == {137000005, 434500000, 434500049}
=============================================================================
