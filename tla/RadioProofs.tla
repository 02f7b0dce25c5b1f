---------------------------- MODULE RadioProofs ----------------------------
(***************************************************************************)
(* A radio whose transfers work is never deaf and is tuned as asked, for   *)
(* every rate and frequency the ini file may hold.                         *)
(*                                                                         *)
(* Obligations with the clock's 32 MHz in them go to the SMT solver alone: *)
(* Zenon writes a number as that many successors of 0.                     *)
(***************************************************************************)
EXTENDS Radio, TLAPS

-----------------------------------------------------------------------------
(* What the registers are read back as.                                     *)

LEMMA Quotient ==
  ASSUME NEW a \in Nat, NEW b \in Nat, b > 0
  PROVE  /\ a \div b \in Nat /\ a % b \in Nat /\ a % b < b
         /\ a = b * (a \div b) + (a % b)
BY SMT

LEMMA Multiply ==
  ASSUME NEW a \in Nat, NEW b \in Nat, NEW c \in Nat, a <= b
  PROVE  a * c <= b * c /\ c * a <= c * b
BY SMT

\* A sum of 256ths, of which the high byte counts the wholes.
LEMMA HighAndLow ==
  ASSUME NEW q \in Nat, NEW c \in Nat, c <= 256
  PROVE  IF c = 256 THEN (256 * q + c) \div 256 = q + 1 /\ (256 * q + c) % 256 = 0
                    ELSE (256 * q + c) \div 256 = q /\ (256 * q + c) % 256 = c
BY SMT

\* A float is at most half of 32 Hz away from the frequency.
LEMMA FloatNear ==
  ASSUME NEW hz \in Nat, hz < 536870912
  PROVE  Float(hz) \in Nat /\ Float(hz) - hz >= -16 /\ Float(hz) - hz <= 16
<1>1. PICK s \in {1, 2, 4, 8, 16, 32} : s = Spacing(hz)
  <2>1. \E s \in {1, 2, 4, 8, 16, 32} : hz < 16777216 * s /\ (s > 1 => hz >= 8388608 * s)
    BY SMT
  <2> QED
    BY <2>1, SMT DEF Spacing
<1>2. PICK n \in Nat, rest \in Nat :
        n = hz \div s /\ rest = hz % s /\ rest < s /\ hz = s * n + rest
  BY Quotient, SMT
<1>3. Float(hz) = s * (IF 2 * rest > s \/ (2 * rest = s /\ n % 2 = 1) THEN n + 1 ELSE n)
  BY <1>1, <1>2, SMT DEF Float
<1>4. \/ Float(hz) = s * n + s /\ 2 * rest >= s
      \/ Float(hz) = s * n /\ 2 * rest <= s
  BY <1>2, <1>3, SMT
<1> QED
  BY <1>2, <1>4, SMT

LEMMA FrequencyNear ==
  ASSUME NEW hz \in Nat, hz < 536870912
  PROVE  /\ Frequency(hz) \in Nat
         /\ FrequencyOf(Frequency(hz)) - hz \in -16 .. 80
<1>1. PICK f \in Nat : f = Float(hz) /\ f - hz >= -16 /\ f - hz <= 16
  BY FloatNear, SMT
<1>2. PICK q \in Nat, r \in Nat :
        q = f \div 15625 /\ r = f % 15625 /\ r < 15625 /\ f = 15625 * q + r
  BY Quotient, SMT
<1>3. PICK c \in Nat :
        /\ c = Ceiling(256 * r, 15625)
        /\ 15625 * c >= 256 * r /\ 15625 * c < 256 * r + 15625
  <2>1. PICK a \in Nat : a = 256 * r + 15625 - 1
    BY SMT
  <2>2. a \div 15625 \in Nat /\ a >= 15625 * (a \div 15625) /\ a < 15625 * (a \div 15625) + 15625
    BY SMT
  <2> QED
    BY <2>1, <2>2, SMT DEF Ceiling
<1>4. Frequency(hz) = 256 * q + c
  <2>1. Float(hz) \div 15625 = q /\ Float(hz) % 15625 = r
    BY <1>1, <1>2, SMT
  <2> QED
    BY <1>3, <2>1, SMT DEF Frequency
<1>5. /\ FrequencyOf(256 * q + c) \in Int
      /\ FrequencyOf(256 * q + c) - f >= 0
      /\ FrequencyOf(256 * q + c) - f <= 62
  <2>1. c <= 256
    BY <1>2, <1>3, SMT
  <2>2. CASE c = 256
    <3>1. FrequencyOf(256 * q + c) = 15625 * (q + 1)
      BY <2>2, HighAndLow, SMT DEF FrequencyOf
    <3> QED
      BY <1>2, <1>3, <2>2, <3>1, SMT
  <2>3. CASE c # 256
    <3>1. FrequencyOf(256 * q + c) = 15625 * q + ((15625 * c) \div 256)
      BY <2>1, <2>3, HighAndLow, SMT DEF FrequencyOf
    <3>2. PICK p \in Nat : p = 15625 * c
      BY SMT
    <3>3. p \div 256 \in Nat /\ p >= 256 * (p \div 256) /\ p < 256 * (p \div 256) + 256
      BY SMT
    <3> QED
      BY <1>2, <1>3, <3>1, <3>2, <3>3, SMT
  <2> QED
    BY <2>2, <2>3, SMT
<1>6. PICK heard \in Int : heard = FrequencyOf(256 * q + c)
  BY <1>5, SMT
<1> QED
  <2>1. heard - f >= 0 /\ heard - f <= 62
    BY <1>5, <1>6, SMT
  <2>2. heard - hz >= -16 /\ heard - hz <= 80
    BY <1>1, <2>1, SMT
  <2>3. 256 * q + c \in Nat
    BY SMT
  <2>4. FrequencyOf(Frequency(hz)) = heard
    BY <1>4, <1>6, SMT
  <2> QED
    BY <1>4, <2>2, <2>3, <2>4, SMT

\* The clock is halved three times for the bandwidths the program asks for.
LEMMA HalvedThrice ==
  ASSUME NEW bw \in {afcbw, rxbw}
  PROVE  Halvings(bw) = 3
<1>1. ~Fits(bw, 0) /\ ~Fits(bw, 1) /\ ~Fits(bw, 2) /\ Fits(bw, 3)
  <2>1. 2^0 = 1 /\ 2^1 = 2 /\ 2^2 = 4 /\ 2^3 = 8
    BY SMT
  <2> QED
    BY <2>1, SMT DEF Fits, Clock, SX127X_CRYSTAL_FREQ, afcbw, rxbw
<1>2. \A j \in 0 .. (3 - 1) : ~Fits(bw, j)
  BY <1>1, SMT
<1>3. ASSUME NEW k \in 0 .. 8, Fits(bw, k), \A j \in 0 .. (k - 1) : ~Fits(bw, j)
      PROVE  k = 3
  <2>1. k # 0 /\ k # 1 /\ k # 2
    BY <1>1, <1>3, SMT
  <2>2. k > 3 => 3 \in 0 .. (k - 1)
    BY SMT
  <2> QED
    BY <1>1, <1>3, <2>1, <2>2, SMT
<1>4. 3 \in 0 .. 8
  BY SMT
<1> QED
  BY <1>1, <1>2, <1>3, <1>4, SMT DEF Halvings

LEMMA BandwidthNear ==
  /\ Bandwidth(afcbw) \in Nat /\ Near(BandwidthOf(Bandwidth(afcbw)), afcbw, 100)
  /\ Bandwidth(rxbw) \in Nat /\ Near(BandwidthOf(Bandwidth(rxbw)), rxbw, 100)
<1>1. Clock = 4000000
  BY SMT DEF Clock, SX127X_CRYSTAL_FREQ
<1>2. Bandwidth(afcbw) = 4
  <2>1. Halvings(afcbw) = 3
    BY HalvedThrice, SMT
  <2>2. 2^Halvings(afcbw) = 2^3
    BY <2>1, Zenon
  <2>3. 2^Halvings(afcbw) = 8
    BY <2>2, SMT
  <2> QED
    BY <1>1, <2>1, <2>3, SMT DEF Bandwidth, afcbw
<1>3. Bandwidth(rxbw) = 20
  <2>1. Halvings(rxbw) = 3
    BY HalvedThrice, SMT
  <2>2. 2^Halvings(rxbw) = 2^3
    BY <2>1, Zenon
  <2>3. 2^Halvings(rxbw) = 8
    BY <2>2, SMT
  <2> QED
    BY <1>1, <2>1, <2>3, SMT DEF Bandwidth, rxbw
<1>4. BandwidthOf(4) = 31250 /\ BandwidthOf(20) = 20833
  BY SMT DEF BandwidthOf, SX127X_CRYSTAL_FREQ
<1> QED
  BY <1>2, <1>3, <1>4, SMT DEF afcbw, rxbw, Near

\* A bit rate from the divisor of the clock, with its sixteenths rounded, and
\* those masked away when they round up to a whole.
LEMMA BitrateNear ==
  ASSUME NEW rate \in Nat, RateAllowed(rate)
  PROVE  Bitrate(rate) \in Nat /\ Near(BitrateOf(Bitrate(rate)), rate, 100)
<1>1. rate >= 1200 /\ rate <= 300000
  BY SMT DEF RateAllowed
<1>2. PICK q \in Nat, qq \in Nat :
        /\ q = SX127X_CRYSTAL_FREQ \div rate /\ qq = rate * q
        /\ qq <= 32000000 /\ 32000000 < qq + rate
  <2>1. PICK clock \in Nat : clock = SX127X_CRYSTAL_FREQ /\ clock = 32000000
    BY SMT DEF SX127X_CRYSTAL_FREQ
  <2>2. clock \div rate \in Nat /\ clock >= rate * (clock \div rate) /\ clock < rate * (clock \div rate) + rate
    BY <1>1, <2>1, SMT
  <2> QED
    BY <2>1, <2>2, SMT
<1>3. PICK r \in Nat, rr \in Nat :
        /\ r = (32 * SX127X_CRYSTAL_FREQ + rate) \div (2 * rate) /\ rr = rate * r
        /\ 2 * rr <= 1024000000 + rate /\ 1024000000 < 2 * rr + rate
  <2>1. PICK a \in Nat, b \in Nat : /\ a = 32 * SX127X_CRYSTAL_FREQ + rate /\ b = 2 * rate /\ b > 0
                                    /\ a = 1024000000 + rate
    BY <1>1, SMT DEF SX127X_CRYSTAL_FREQ
  <2>2. a \div b \in Nat /\ a >= b * (a \div b) /\ a < b * (a \div b) + b
    BY <2>1, SMT
  <2>3. PICK r \in Nat : r = a \div b /\ a >= b * r /\ a < b * r + b
    BY <2>2, SMT
  <2>4. b * r = 2 * (rate * r)
    BY <2>1, SMT
  <2> QED
    BY <2>1, <2>3, <2>4, SMT
<1>4. r >= 16 * q
  <2>1. r < 16 * q => rate * (r + 1) <= rate * (16 * q)
    BY Multiply, SMT
  <2>2. rate * (r + 1) = rr + rate /\ rate * (16 * q) = 16 * qq
    BY <1>2, <1>3, SMT
  <2> QED
    BY <1>1, <1>2, <1>3, <2>1, <2>2, SMT
<1>5. r <= 16 * q + 16
  <2>1. r > 16 * q + 16 => rate * (16 * q + 17) <= rate * r
    BY Multiply, SMT
  <2>2. rate * (16 * q + 17) = 16 * qq + 17 * rate
    BY <1>2, SMT
  <2> QED
    BY <1>1, <1>2, <1>3, <2>1, <2>2, SMT
<1>6. PICK reg \in Nat, bb \in Nat :
        /\ reg = Bitrate(rate) /\ bb = rate * reg
        /\ 2 * bb >= 1024000000 - 33 * rate /\ 2 * bb <= 1024000000 + rate
  <2>1. Bitrate(rate) = 16 * q + ((r - 16 * q) % 16)
    BY <1>2, <1>3, SMT DEF Bitrate
  <2>2. CASE r = 16 * q + 16
    <3>1. (r - 16 * q) % 16 = 0
      BY <2>2, SMT
    <3>2. Bitrate(rate) = 16 * q /\ rate * (16 * q) = 16 * qq
      BY <1>2, <2>1, <3>1, SMT
    <3>3. rr = 16 * qq + 16 * rate
      BY <1>2, <1>3, <2>2, SMT
    <3> QED
      BY <1>1, <1>3, <3>2, <3>3, SMT
  <2>3. CASE r < 16 * q + 16
    <3>1. (r - 16 * q) % 16 = r - 16 * q
      BY <1>4, <2>3, SMT
    <3>2. Bitrate(rate) = r
      BY <2>1, <3>1, SMT
    <3> QED
      BY <1>1, <1>3, <3>2, SMT
  <2> QED
    BY <1>5, <2>2, <2>3, SMT
<1>7. reg > 0 /\ reg <= 430000
  <2>1. 1200 * reg <= bb
    BY <1>1, <1>6, Multiply, SMT
  <2>2. reg = 0 => bb = 0
    BY <1>6, SMT
  <2> QED
    BY <1>1, <1>6, <2>1, <2>2, SMT
<1>8. PICK x \in Nat, xx \in Nat :
        /\ x = BitrateOf(reg) /\ xx = x * reg
        /\ xx <= 512000000 /\ 512000000 < xx + reg
  <2>1. PICK a \in Nat : a = 16 * SX127X_CRYSTAL_FREQ /\ a = 512000000
    BY SMT DEF SX127X_CRYSTAL_FREQ
  <2>2. a \div reg \in Nat /\ a >= reg * (a \div reg) /\ a < reg * (a \div reg) + reg
    BY <1>7, <2>1, SMT
  <2>3. PICK x \in Nat : x = a \div reg /\ a >= reg * x /\ a < reg * x + reg
    BY <2>2, SMT
  <2> QED
    BY <2>1, <2>3, SMT DEF BitrateOf
<1>9. 100 * x <= 101 * rate
  <2>1. 100 * x > 101 * rate => (101 * rate) * reg <= (100 * x) * reg
    BY Multiply, SMT
  <2>2. (101 * rate) * reg = 101 * bb /\ (100 * x) * reg = 100 * xx
    BY <1>6, <1>8, SMT
  <2> QED
    BY <1>1, <1>6, <1>8, <2>1, <2>2, SMT
<1>10. 99 * rate <= 100 * x
  <2>1. 99 * rate > 100 * x => (100 * x) * reg <= (99 * rate) * reg
    BY Multiply, SMT
  <2>2. (99 * rate) * reg = 99 * bb /\ (100 * x) * reg = 100 * xx
    BY <1>6, <1>8, SMT
  <2> QED
    BY <1>1, <1>6, <1>7, <1>8, <2>1, <2>2, SMT
<1> QED
  BY <1>6, <1>8, <1>9, <1>10, SMT DEF Near

-----------------------------------------------------------------------------
(* The three threads and the chip.                                          *)

\* The steps of modemSetup after the reset of the chip, and those after each
\* of the settings.
AfterFrequency == {"setRxDoneDioISR", "receive"}
AfterRxBandwidth == {"configure", "setFrequency"} \cup AfterFrequency
AfterAFCBandwidth == {"setRxBandwidth"} \cup AfterRxBandwidth
AfterBitrate == {"setAFCBandwidth"} \cup AfterAFCBandwidth
AfterReset == {"setMaxCurrent", "setFSK", "setBitrate"} \cup AfterBitrate

\* Until modemSetup returns, the chip it has reset stays in standby, with an
\* empty FIFO, and neither of the other threads has begun: the handler is
\* registered while nothing can call it.
SetupInv ==
  /\ ~faulty => spi
  /\ registered => open /\ at \in {"receive", "returned"}
  /\ at = "receive" => registered
  /\ at \in AfterReset => mode = "standby" /\ fifo = "empty"
  /\ ~registered \/ at # "returned" => ~edge /\ isr = "idle"
  /\ at # "returned" => status = "wait"

\* Each setting is in its register from its step on; nothing overwrites it.
SettingsInv ==
  ~faulty =>
    /\ registered \/ at \in AfterBitrate =>
         RateAllowed(bps) /\ registers.rate = Bitrate(bps)
    /\ registered \/ at \in AfterAFCBandwidth => registers.afcbw = Bandwidth(afcbw)
    /\ registered \/ at \in AfterRxBandwidth => registers.rxbw = Bandwidth(rxbw)
    /\ registered \/ at \in AfterFrequency => registers.frf = Frequency(freq)

IInv == TypeOK /\ SetupInv /\ SettingsInv /\ NeverDeaf

Registers == [rate : Nat, afcbw : Nat, rxbw : Nat, frf : Nat]

LEMMA WriteOne ==
  ASSUME registers \in Registers, NEW v \in Nat
  PROVE  /\ Write("rate", v) => /\ registers' \in Registers
                                /\ Works => registers'.rate = v
         /\ Write("afcbw", v) => /\ registers' \in Registers /\ registers'.rate = registers.rate
                                 /\ Works => registers'.afcbw = v
         /\ Write("rxbw", v) => /\ registers' \in Registers /\ registers'.rate = registers.rate
                                /\ registers'.afcbw = registers.afcbw
                                /\ Works => registers'.rxbw = v
         /\ Write("frf", v) => /\ registers' \in Registers /\ registers'.rate = registers.rate
                               /\ registers'.afcbw = registers.afcbw
                               /\ registers'.rxbw = registers.rxbw
                               /\ Works => registers'.frf = v
BY DEF Write, Registers

-----------------------------------------------------------------------------
LEMMA ResetType == Reset \in Registers
BY SMT DEF Reset, Registers

LEMMA InitInv == Init => IInv
<1> SUFFICES ASSUME Init PROVE IInv
  OBVIOUS
<1>2. TypeOK
  BY ResetType DEF Init, TypeOK, SetupSteps, Registers
<1>3. SetupInv /\ SettingsInv /\ NeverDeaf
  BY DEF Init, SetupInv, SettingsInv, NeverDeaf, AfterReset, AfterBitrate,
         AfterAFCBandwidth, AfterRxBandwidth, AfterFrequency
<1> QED
  BY <1>2, <1>3 DEF IInv

\* What every step of modemSetup leaves alone.
LEMMA SetupFrame ==
  ASSUME ModemSetup
  PROVE  /\ UNCHANGED <<bps, freq, spi, faulty, edge, isr, activityFlag, status>>
         /\ at # "returned"
BY DEF ModemSetup, linkVars, isrVars, statusVars, GpioInitialise, SpiOpen, SetMaxCurrent,
       SetFSK, SetBitrate, SetAFCBandwidth, SetRxBandwidth, Configure, SetFrequency,
       SetRxDoneDioISR, Receive

LEMMA FrequencyAsked ==
  ASSUME NEW f \in Freqs
  PROVE  Frequency(f) \in Nat /\ FrequencyOf(Frequency(f)) - f \in -16 .. 80
<1>1. f \in Nat /\ f < 536870912
  BY FreqsAssumption, SMT
<1> QED
  BY <1>1, FrequencyNear, SMT

LEMMA ModemSetupInv ==
  ASSUME IInv, ModemSetup
  PROVE  IInv'
<1> USE DEF IInv, TypeOK, GoTo, Return
<1>1. /\ UNCHANGED <<bps, freq, spi, faulty, edge, isr, activityFlag, status>>
      /\ at # "returned" /\ ~edge /\ isr = "idle" /\ status = "wait"
      /\ ~faulty => spi
  BY SetupFrame DEF SetupInv
<1>2. CASE GpioInitialise
  <2>1. TypeOK'
    BY <1>1, <1>2 DEF GpioInitialise, chipVars, SetupSteps
  <2>2. SetupInv'
    BY <1>1, <1>2 DEF GpioInitialise, chipVars, SetupInv, AfterReset, AfterBitrate,
         AfterAFCBandwidth, AfterRxBandwidth, AfterFrequency
  <2>3. SettingsInv' /\ NeverDeaf'
    BY <1>1, <1>2 DEF GpioInitialise, chipVars, SetupInv, SettingsInv, NeverDeaf, AfterBitrate,
         AfterAFCBandwidth, AfterRxBandwidth, AfterFrequency
  <2> QED
    BY <2>1, <2>2, <2>3
<1>3. CASE SpiOpen
  <2>1. TypeOK'
    BY <1>1, <1>3, ResetType DEF SpiOpen, chipVars, SetupSteps, Registers
  <2>2. SetupInv'
    BY <1>1, <1>3 DEF SpiOpen, chipVars, SetupInv, AfterReset, AfterBitrate,
         AfterAFCBandwidth, AfterRxBandwidth, AfterFrequency
  <2>3. SettingsInv' /\ NeverDeaf'
    BY <1>1, <1>3 DEF SpiOpen, chipVars, SetupInv, SettingsInv, NeverDeaf, AfterBitrate,
         AfterAFCBandwidth, AfterRxBandwidth, AfterFrequency
  <2> QED
    BY <2>1, <2>2, <2>3
<1>4. CASE SetMaxCurrent \/ SetFSK
  <2>1. TypeOK'
    BY <1>1, <1>4 DEF SetMaxCurrent, SetFSK, WriteMode, chipVars, SetupSteps
  <2>2. SetupInv'
    BY <1>1, <1>4 DEF SetMaxCurrent, SetFSK, WriteMode, chipVars, SetupInv, AfterReset, AfterBitrate,
         AfterAFCBandwidth, AfterRxBandwidth, AfterFrequency
  <2>3. SettingsInv' /\ NeverDeaf'
    BY <1>1, <1>4 DEF SetMaxCurrent, SetFSK, SetupInv, SettingsInv, NeverDeaf, AfterBitrate,
         AfterAFCBandwidth, AfterRxBandwidth, AfterFrequency
  <2> QED
    BY <2>1, <2>2, <2>3
<1>5. CASE SetBitrate
  <2>1. CASE RateAllowed(bps)
    <3>1. Bitrate(bps) \in Nat
      BY <2>1, BitrateNear, RatesAssumption
    <3>2. /\ registers' \in Registers /\ open /\ open' = open /\ ~registered /\ registered' = registered
          /\ at' = "setAFCBandwidth" /\ result' = result
          /\ Works => registers'.rate = Bitrate(bps)
      BY <1>5, <2>1, <3>1, WriteOne DEF SetBitrate, Registers, SetupInv
    <3>3. mode' = "standby" /\ fifo' = "empty"
      BY <1>5, <2>1 DEF SetBitrate, WriteMode, chipVars, SetupInv, AfterReset
    <3>4. TypeOK'
      BY <1>1, <3>2, <3>3 DEF SetupSteps, Registers
    <3>5. SetupInv'
      BY <1>1, <3>2, <3>3 DEF SetupInv
    <3>6. SettingsInv' /\ NeverDeaf'
      BY <1>1, <2>1, <3>2 DEF SettingsInv, NeverDeaf, Works, AfterAFCBandwidth, AfterRxBandwidth, AfterFrequency
    <3> QED
      BY <3>4, <3>5, <3>6
  <2>2. CASE ~RateAllowed(bps)
    <3>1. /\ at = "setBitrate" /\ at' = "returned" /\ result' = -1
          /\ UNCHANGED <<registers, mode, fifo, open, registered>>
      BY <1>5, <2>2 DEF SetBitrate, chipVars
    <3>2. TypeOK'
      BY <1>1, <3>1 DEF SetupSteps
    <3> QED
      BY <1>1, <3>1, <3>2 DEF SetupInv, SettingsInv, NeverDeaf, AfterReset, AfterBitrate,
         AfterAFCBandwidth, AfterRxBandwidth, AfterFrequency
  <2> QED
    BY <2>1, <2>2
<1>6. CASE SetAFCBandwidth
  <2>1. /\ registers' \in Registers /\ registers'.rate = registers.rate
        /\ Works => registers'.afcbw = Bandwidth(afcbw)
    BY <1>6, WriteOne, BandwidthNear DEF SetAFCBandwidth, Registers
  <2>2. /\ at = "setAFCBandwidth" /\ at' = "setRxBandwidth" /\ result' = result
        /\ open /\ open' = open /\ ~registered /\ registered' = registered /\ mode' = "standby" /\ fifo' = "empty"
    BY <1>6 DEF SetAFCBandwidth, WriteMode, chipVars, SetupInv, AfterReset, AfterBitrate
  <2>3. TypeOK'
    BY <1>1, <2>1, <2>2 DEF SetupSteps, Registers
  <2>4. SetupInv' /\ NeverDeaf'
    BY <1>1, <2>2 DEF SetupInv, NeverDeaf
  <2>5. SettingsInv'
    BY <1>1, <2>1, <2>2 DEF SettingsInv, Works, AfterBitrate, AfterRxBandwidth, AfterFrequency
  <2> QED
    BY <2>3, <2>4, <2>5
<1>7. CASE SetRxBandwidth
  <2>1. /\ registers' \in Registers /\ registers'.rate = registers.rate
        /\ registers'.afcbw = registers.afcbw
        /\ Works => registers'.rxbw = Bandwidth(rxbw)
    BY <1>7, WriteOne, BandwidthNear DEF SetRxBandwidth, Registers
  <2>2. /\ at = "setRxBandwidth" /\ at' = "configure" /\ result' = result
        /\ open /\ open' = open /\ ~registered /\ registered' = registered /\ mode' = "standby" /\ fifo' = "empty"
    BY <1>7 DEF SetRxBandwidth, WriteMode, chipVars, SetupInv, AfterReset, AfterBitrate,
                AfterAFCBandwidth
  <2>3. TypeOK'
    BY <1>1, <2>1, <2>2 DEF SetupSteps, Registers
  <2>4. SetupInv' /\ NeverDeaf'
    BY <1>1, <2>2 DEF SetupInv, NeverDeaf
  <2>5. SettingsInv'
    BY <1>1, <2>1, <2>2 DEF SettingsInv, Works, AfterBitrate, AfterAFCBandwidth, AfterFrequency
  <2> QED
    BY <2>3, <2>4, <2>5
<1>8. CASE Configure
  <2>1. /\ at = "configure" /\ at' = "setFrequency" /\ result' = result /\ registers' = registers
        /\ open /\ open' = open /\ ~registered /\ registered' = registered /\ mode' = "standby" /\ fifo' = "empty"
    BY <1>8 DEF Configure, WriteMode, chipVars, SetupInv, AfterReset, AfterBitrate,
                AfterAFCBandwidth, AfterRxBandwidth
  <2>2. TypeOK'
    BY <1>1, <2>1 DEF SetupSteps
  <2>3. SetupInv' /\ NeverDeaf'
    BY <1>1, <2>1 DEF SetupInv, NeverDeaf
  <2>4. SettingsInv'
    BY <1>1, <2>1 DEF SettingsInv, AfterBitrate, AfterAFCBandwidth, AfterRxBandwidth, AfterFrequency
  <2> QED
    BY <2>2, <2>3, <2>4
<1>9. CASE SetFrequency
  <2>1. /\ registers' \in Registers /\ registers'.rate = registers.rate
        /\ registers'.afcbw = registers.afcbw /\ registers'.rxbw = registers.rxbw
        /\ Works => registers'.frf = Frequency(freq)
    <3>1. Frequency(freq) \in Nat
      BY FrequencyAsked
    <3> QED
      BY <1>9, <3>1, WriteOne DEF SetFrequency, Registers
  <2>2. /\ at = "setFrequency" /\ open /\ open' = open /\ ~registered /\ registered' = registered
        /\ mode' = "standby" /\ fifo' = "empty"
        /\ IF Works THEN at' = "setRxDoneDioISR" /\ result' = result
                    ELSE at' = "returned" /\ result' = 0
    BY <1>9 DEF SetFrequency, ClearIRQFlags, SetupInv, AfterReset, AfterBitrate,
                AfterAFCBandwidth, AfterRxBandwidth
  <2>3. TypeOK'
    BY <1>1, <2>1, <2>2 DEF SetupSteps, Registers
  <2>4. SetupInv' /\ NeverDeaf'
    BY <1>1, <2>2 DEF SetupInv, NeverDeaf
  <2>5. SettingsInv'
    BY <1>1, <2>1, <2>2 DEF SettingsInv, AfterBitrate, AfterAFCBandwidth, AfterRxBandwidth, AfterFrequency
  <2> QED
    BY <2>3, <2>4, <2>5
<1>10. CASE SetRxDoneDioISR
  <2>1. /\ at = "setRxDoneDioISR" /\ at' = "receive" /\ result' = result /\ registers' = registers
        /\ open /\ open' /\ registered' = TRUE /\ mode' = "standby" /\ fifo' = "empty"
    BY <1>10 DEF SetRxDoneDioISR, chipVars, SetupInv, AfterReset, AfterBitrate,
                 AfterAFCBandwidth, AfterRxBandwidth, AfterFrequency
  <2>2. TypeOK'
    BY <1>1, <2>1 DEF SetupSteps
  <2>3. SetupInv' /\ NeverDeaf'
    BY <1>1, <2>1 DEF SetupInv, NeverDeaf
  <2>4. SettingsInv'
    BY <1>1, <2>1 DEF SettingsInv, AfterBitrate, AfterAFCBandwidth, AfterRxBandwidth, AfterFrequency
  <2> QED
    BY <2>2, <2>3, <2>4
<1>11. CASE Receive
  <2>1. /\ at = "receive" /\ at' = "returned" /\ result' = 1 /\ registers' = registers
        /\ open /\ open' /\ registered /\ registered' /\ mode = "standby" /\ fifo' = "empty"
        /\ mode' = IF Works THEN "rx" ELSE "standby"
    BY <1>11 DEF Receive, WriteMode, chipVars, SetupInv, AfterReset, AfterBitrate,
                 AfterAFCBandwidth, AfterRxBandwidth, AfterFrequency
  <2>2. TypeOK'
    BY <1>1, <2>1 DEF SetupSteps
  <2>3. SetupInv' /\ NeverDeaf'
    BY <1>1, <2>1 DEF SetupInv, NeverDeaf, WillBeEmptied, Works, AfterReset, AfterBitrate,
                 AfterAFCBandwidth, AfterRxBandwidth, AfterFrequency
  <2>4. SettingsInv'
    BY <1>1, <2>1 DEF SettingsInv
  <2> QED
    BY <2>2, <2>3, <2>4
<1> QED
  BY <1>2, <1>3, <1>4, <1>5, <1>6, <1>7, <1>8, <1>9, <1>10, <1>11 DEF ModemSetup

-----------------------------------------------------------------------------
\* A handler that is under way has been registered, on a device that was
\* opened, and modemSetup has returned.
LEMMA HandlerInv ==
  ASSUME IInv, RxDoneISR
  PROVE  IInv'
<1> USE DEF IInv
<1>1. /\ UNCHANGED <<setupVars, spi, faulty, status>>
      /\ registered /\ open /\ at = "returned"
  BY DEF RxDoneISR, linkVars, SetupInv, TypeOK, Call, GetRSSI, ReadFirst, ReadOn, QueuePacket, Clear, ReturnToRx
<1>2. TypeOK'
  <2>1. activityFlag' \in BOOLEAN
    BY DEF TypeOK, RxDoneISR, Call, GetRSSI, ReadFirst, ReadOn, QueuePacket, Clear, ReturnToRx
  <2>2. fifo' \in {"empty", "part", "packet"} /\ mode' \in {"standby", "rx"}
    BY DEF TypeOK, RxDoneISR, Call, GetRSSI, ReadFirst, ReadOn, QueuePacket, Clear, ReturnToRx,
           ReadSome, ClearIRQFlags, WriteMode, chipVars
  <2>3. edge' \in BOOLEAN /\ isr' \in {"idle", "getRSSI", "read", "read on", "queue", "clear", "rx"}
    BY DEF TypeOK, RxDoneISR, Call, GetRSSI, ReadFirst, ReadOn, QueuePacket, Clear, ReturnToRx
  <2> QED
    BY <1>1, <2>1, <2>2, <2>3 DEF TypeOK, setupVars
<1>3. SetupInv' /\ SettingsInv'
  BY <1>1 DEF SetupInv, SettingsInv, setupVars, AfterReset, AfterBitrate, AfterAFCBandwidth,
              AfterRxBandwidth, AfterFrequency
<1>4. NeverDeaf'
  <2> SUFFICES ASSUME ~faulty
               PROVE  (mode' = "rx" \/ status' = "rx") /\ WillBeEmptied'
    BY <1>1 DEF NeverDeaf, setupVars
  <2>1. Works /\ (mode = "rx" \/ status = "rx") /\ WillBeEmptied
    BY <1>1 DEF NeverDeaf, SetupInv, Works
  <2>2. CASE Call \/ GetRSSI \/ QueuePacket
    BY <1>1, <2>1, <2>2 DEF Call, GetRSSI, QueuePacket, WillBeEmptied, chipVars
  <2>3. CASE ReadFirst \/ ReadOn
    BY <1>1, <2>1, <2>3 DEF ReadFirst, ReadOn, ReadSome, WillBeEmptied
  <2>4. CASE Clear
    BY <1>1, <2>1, <2>4 DEF Clear, ClearIRQFlags, WillBeEmptied
  <2>5. CASE ReturnToRx
    BY <1>1, <2>1, <2>5 DEF ReturnToRx, WriteMode, WillBeEmptied
  <2> QED
    BY <2>2, <2>3, <2>4, <2>5 DEF RxDoneISR
<1> QED
  BY <1>2, <1>3, <1>4

\* The status thread only touches the chip after modemSetup has returned.
LEMMA StatusInv ==
  ASSUME IInv, StatusThread
  PROVE  IInv'
<1> USE DEF IInv
<1>1. UNCHANGED <<setupVars, spi, faulty, edge, isr>> /\ at = "returned"
  BY DEF StatusThread, linkVars, isrVars, SetupInv, Tic, Test, Standby, BackToRx, Forget
<1>2. TypeOK'
  <2>1. activityFlag' \in BOOLEAN /\ status' \in {"wait", "test", "standby", "rx", "forget"}
    BY DEF TypeOK, StatusThread, Tic, Test, Standby, BackToRx, Forget
  <2>2. fifo' \in {"empty", "part", "packet"} /\ mode' \in {"standby", "rx"}
    BY DEF TypeOK, StatusThread, Tic, Test, Standby, BackToRx, Forget, WriteMode, chipVars
  <2> QED
    BY <1>1, <2>1, <2>2 DEF TypeOK, setupVars
<1>3. SetupInv' /\ SettingsInv'
  BY <1>1 DEF SetupInv, SettingsInv, setupVars, AfterReset, AfterBitrate, AfterAFCBandwidth,
              AfterRxBandwidth, AfterFrequency
<1>4. NeverDeaf'
  <2> SUFFICES ASSUME registered, ~faulty
               PROVE  (mode' = "rx" \/ status' = "rx") /\ WillBeEmptied'
    BY <1>1 DEF NeverDeaf, setupVars
  <2>1. Works /\ (mode = "rx" \/ status = "rx") /\ WillBeEmptied
    BY <1>1 DEF NeverDeaf, SetupInv, Works
  <2>2. CASE Tic \/ Test \/ Forget
    BY <1>1, <2>1, <2>2 DEF Tic, Test, Forget, WillBeEmptied, chipVars
  <2>3. CASE Standby \/ BackToRx
    BY <1>1, <2>1, <2>3 DEF Standby, BackToRx, WriteMode, WillBeEmptied
  <2> QED
    BY <2>2, <2>3 DEF StatusThread
<1> QED
  BY <1>2, <1>3, <1>4

\* A packet is only put into an empty FIFO, and a transfer that fails is
\* remembered.
LEMMA WorldInv ==
  ASSUME IInv, PacketArrives \/ SpiChanges
  PROVE  IInv'
<1> USE DEF IInv
<1>1. CASE PacketArrives
  <2>1. /\ UNCHANGED <<at, result, open, registered, registers, bps, freq, spi, faulty, mode, isr,
                       activityFlag, status>>
        /\ mode = "rx" /\ fifo' = "packet" /\ edge' = (edge \/ registered)
    BY <1>1 DEF PacketArrives, setupVars, linkVars, statusVars
  <2>2. edge' \in BOOLEAN
    BY <2>1 DEF TypeOK
  <2>3. TypeOK'
    BY <2>1, <2>2 DEF TypeOK
  <2>4. SetupInv'
    BY <2>1 DEF SetupInv, AfterReset, AfterBitrate, AfterAFCBandwidth, AfterRxBandwidth, AfterFrequency
  <2>5. SettingsInv'
    BY <2>1 DEF SettingsInv, AfterBitrate, AfterAFCBandwidth, AfterRxBandwidth, AfterFrequency
  <2>6. NeverDeaf'
    BY <2>1 DEF NeverDeaf, WillBeEmptied
  <2> QED
    BY <2>3, <2>4, <2>5, <2>6
<1>2. CASE SpiChanges
  <2>1. /\ UNCHANGED <<at, result, open, registered, registers, bps, freq, mode, fifo, edge, isr,
                       activityFlag, status>>
        /\ spi' = ~spi /\ faulty' = TRUE
    BY <1>2 DEF SpiChanges, setupVars, chipVars, isrVars, statusVars
  <2>2. /\ open' \in BOOLEAN /\ registered' \in BOOLEAN /\ spi' \in BOOLEAN /\ faulty' \in BOOLEAN
        /\ edge' \in BOOLEAN /\ activityFlag' \in BOOLEAN
    BY <2>1, Zenon DEF TypeOK
  <2>3. TypeOK'
    BY <2>1, <2>2 DEF TypeOK
  <2>4. SetupInv'
    BY <2>1 DEF SetupInv, AfterReset, AfterBitrate, AfterAFCBandwidth, AfterRxBandwidth, AfterFrequency
  <2>5. SettingsInv' /\ NeverDeaf'
    BY <2>1 DEF SettingsInv, NeverDeaf
  <2> QED
    BY <2>3, <2>4, <2>5
<1> QED
  BY <1>1, <1>2

LEMMA UnchangedInv ==
  ASSUME IInv, UNCHANGED vars
  PROVE  IInv'
<1> USE DEF IInv
<1>1. UNCHANGED <<at, result, open, registered, registers, bps, freq, spi, faulty, mode, fifo,
                  edge, isr, activityFlag, status>>
  BY DEF vars, setupVars, linkVars, chipVars, isrVars, statusVars
<1>2. TypeOK'
  <2>1. /\ open' \in BOOLEAN /\ registered' \in BOOLEAN /\ spi' \in BOOLEAN /\ faulty' \in BOOLEAN
        /\ edge' \in BOOLEAN /\ activityFlag' \in BOOLEAN
    BY <1>1, Zenon DEF TypeOK
  <2> QED
    BY <1>1, <2>1 DEF TypeOK
<1>3. SetupInv'
  BY <1>1 DEF SetupInv, AfterReset, AfterBitrate, AfterAFCBandwidth, AfterRxBandwidth, AfterFrequency
<1>4. SettingsInv'
  BY <1>1 DEF SettingsInv, AfterBitrate, AfterAFCBandwidth, AfterRxBandwidth, AfterFrequency
<1>5. NeverDeaf'
  BY <1>1 DEF NeverDeaf, WillBeEmptied
<1> QED
  BY <1>2, <1>3, <1>4, <1>5

LEMMA StepInv == IInv /\ [Next]_vars => IInv'
BY ModemSetupInv, HandlerInv, StatusInv, WorldInv, UnchangedInv DEF Next

LEMMA AlwaysIInv == Spec => []IInv
BY InitInv, StepInv, PTL DEF Spec

-----------------------------------------------------------------------------
\* Whatever the ini file asks for and whatever fails, the three threads only
\* ever take the steps the code has, and speak to no device that is not open.
THEOREM TypeCorrect == Spec => []TypeOK
<1>1. IInv => TypeOK
  BY DEF IInv
<1> QED
  BY <1>1, AlwaysIInv, PTL

\* However the resets of the status thread, the handler and the packets are
\* interleaved, a radio whose transfers work ends up neither in standby nor with
\* a FIFO that nobody will empty.
THEOREM HearsOn == Spec => []NeverDeaf
<1>1. IInv => NeverDeaf
  BY DEF IInv
<1> QED
  BY <1>1, AlwaysIInv, PTL

\* For every rate the setup accepts and every frequency below 2^29 Hz (it refuses
\* none; the chip goes up to 525 MHz), rounding in the registers costs at most a
\* hundredth and 80 Hz.  The offset of the ini file is no part of the frequency.
THEOREM Tuned == Spec => []TunedAsAsked
<1>1. IInv => TunedAsAsked
  <2> SUFFICES ASSUME IInv, registered, ~faulty
               PROVE  /\ RateAllowed(bps) /\ Near(BitrateOf(registers.rate), bps, 100)
                      /\ Near(BandwidthOf(registers.afcbw), afcbw, 100)
                      /\ Near(BandwidthOf(registers.rxbw), rxbw, 100)
                      /\ FrequencyOf(registers.frf) - freq \in -16 .. 80
    BY DEF TunedAsAsked
  <2>1. /\ RateAllowed(bps) /\ registers.rate = Bitrate(bps)
        /\ registers.afcbw = Bandwidth(afcbw) /\ registers.rxbw = Bandwidth(rxbw)
        /\ registers.frf = Frequency(freq)
    BY DEF IInv, SettingsInv
  <2>2. bps \in Nat /\ freq \in Freqs
    BY RatesAssumption DEF IInv, TypeOK
  <2> QED
    BY <2>1, <2>2, BitrateNear, BandwidthNear, FrequencyAsked
<1> QED
  BY <1>1, AlwaysIInv, PTL
=============================================================================
