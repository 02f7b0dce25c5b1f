------------------------------- MODULE Tuning -------------------------------
(***************************************************************************)
(* What SX1278FSK.c writes to the registers of the chip for a bit rate, a  *)
(* bandwidth and a frequency, and what it reads back from them.  The chip  *)
(* divides its clock of 32 MHz; the code calculates in floating point,     *)
(* whose rounding is modelled where it shows: a frequency is passed on as  *)
(* a float, of 24 bits.                                                    *)
(***************************************************************************)
EXTENDS Integers

SX127X_CRYSTAL_FREQ == 32000000

Ceiling(a, b) == (a + b - 1) \div b

RateAllowed(bps) == bps >= 1200 /\ bps <= 300000

\* Slip: only the low byte of the divisor is written.
SlipBitrate(bps) ==
  LET bitRate == SX127X_CRYSTAL_FREQ \div bps
      frac    == (32 * SX127X_CRYSTAL_FREQ + bps) \div (2 * bps) - 16 * bitRate
  IN  16 * (bitRate % 256) + (frac % 16)

\* setBitrate: the divisor and, rounded, its sixteenths, in three registers
\* that are one number here.  If the sixteenths round up to a whole one the mask
\* makes 0 of them, and nobody adds one to the divisor.
Bitrate(bps) ==
  LET bitRate == SX127X_CRYSTAL_FREQ \div bps
      frac    == (32 * SX127X_CRYSTAL_FREQ + bps) \div (2 * bps) - 16 * bitRate
  IN  16 * bitRate + (frac % 16)

\* getBitrate
BitrateOf(reg) == (16 * SX127X_CRYSTAL_FREQ) \div reg

\* setRxBandwidth and setAFCBandwidth: the clock is halved until the rest is at
\* most 31, for which there are the mantissas 16, 20 and 24.
Clock == SX127X_CRYSTAL_FREQ \div 8

Fits(bw, k) == Clock <= 31 * bw * 2^k

Halvings(bw) == CHOOSE k \in 0 .. 8 : Fits(bw, k) /\ \A j \in 0 .. (k - 1) : ~Fits(bw, j)

Bandwidth(bw) ==
  LET rest(n) == Clock < n * bw * 2^Halvings(bw)
      mant    == IF rest(17) THEN 0 ELSE IF rest(21) THEN 1 ELSE 2
  IN  Halvings(bw) + 1 + 8 * mant

\* getRxBandwidth and getAFCBandwidth
BandwidthOf(reg) ==
  SX127X_CRYSTAL_FREQ \div ((16 + 4 * (reg \div 8)) * 2^((reg % 8) + 2))

\* The distance of the floats around a frequency below 2^29 Hz: they have 24
\* significant bits.
Spacing(freq) ==
  CHOOSE s \in {1, 2, 4, 8, 16, 32} : freq < 16777216 * s /\ (s > 1 => freq >= 8388608 * s)

\* A frequency as a float: the nearest one, of two equally near the even one.
Float(freq) ==
  LET s    == Spacing(freq)
      n    == freq \div s
      rest == freq % s
      up   == 2 * rest > s \/ (2 * rest = s /\ n % 2 = 1)
  IN  s * (IF up THEN n + 1 ELSE n)

\* setFrequency: in steps of 32 MHz / 2^19, which is 15625 / 256 Hz.
Frequency(freq) ==
  256 * (Float(freq) \div 15625) + Ceiling(256 * (Float(freq) % 15625), 15625)

\* getFrequency
FrequencyOf(reg) == 15625 * (reg \div 256) + (15625 * (reg % 256)) \div 256
=============================================================================
