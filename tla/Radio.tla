------------------------------- MODULE Radio -------------------------------
(***************************************************************************)
(* The SX1278 and the three threads that drive it without a lock: main in  *)
(* modemSetup, pigpio's thread in rxDoneISRf, and the status thread, which *)
(* every 10 s takes an inactive radio through standby and back.            *)
(*                                                                         *)
(* The chip is modelled by its mode, its FIFO and the edge of its DIO0     *)
(* line: a received packet raises the line, which stays up until the FIFO  *)
(* is empty; clearing the flags empties the FIFO, and so does entering     *)
(* receive mode from another.  While the FIFO holds anything no packet is  *)
(* received.  SPI transfers may fail for a while: writes are then lost and *)
(* reads return 255, which as a signal strength is too weak.               *)
(***************************************************************************)
EXTENDS Tuning

CONSTANTS Rates,         \* the bit rates the ini file may ask for
          Freqs          \* and the frequencies

\* No rate in the file counts as 0.  No frequency is refused: the assumption is
\* the range of the SX1278, up to 525 MHz, and what fits into the model's numbers.
ASSUME RatesAssumption == Rates \subseteq Nat
ASSUME FreqsAssumption == \A f \in Freqs : f \in Nat /\ f < 536870912

VARIABLES at,            \* the step of modemSetup, or "returned"
          result,        \* what it returned
          open,          \* whether modem.spid is a device
          spi,           \* whether transfers work at present
          faulty,        \* history: whether one ever failed to
          mode,          \* the chip's mode
          registers,     \* its registers of rate, bandwidths and frequency
          bps, freq,     \* what the ini file asks for
          fifo,          \* a packet, a part of one that was read on, or empty
          registered,    \* whether pigpio knows the handler
          edge,          \* whether pigpio has an edge to report
          isr,           \* the interrupt handler's next step
          activityFlag,
          status         \* the status thread's next step

setupVars  == <<at, result, open, registered, registers, bps, freq>>
linkVars   == <<spi, faulty>>
chipVars   == <<mode, fifo>>
isrVars    == <<edge, isr>>
statusVars == <<activityFlag, status>>
vars       == <<setupVars, linkVars, chipVars, isrVars, statusVars>>

\* What the chip sets them to when it is reset.
Reset == [rate |-> 106672, afcbw |-> 11, rxbw |-> 21, frf |-> 7110656]

Init ==
  /\ bps \in Rates /\ freq \in Freqs /\ registers = Reset
  /\ at = "gpioInitialise" /\ result = 0 /\ open = FALSE /\ registered = FALSE
  /\ spi \in BOOLEAN /\ faulty = ~spi
  /\ mode \in {"standby", "rx"} /\ fifo \in {"empty", "part", "packet"}
  /\ edge = FALSE /\ isr = "idle"
  /\ activityFlag = FALSE /\ status = "wait"

Works == open /\ spi

\* writeRegister of REG_OP_MODE.
WriteMode(m) ==
  IF Works
  THEN /\ mode' = m
       /\ fifo' = IF m = "rx" /\ mode # "rx" THEN "empty" ELSE fifo
  ELSE UNCHANGED chipVars

ClearIRQFlags ==
  /\ fifo' = IF Works THEN "empty" ELSE fifo
  /\ mode' = mode

\* writeRegister of a setting, which a failing transfer loses unnoticed.
Write(setting, value) ==
  registers' = IF Works THEN [registers EXCEPT ![setting] = value] ELSE registers

\* modemSetup: the bandwidths of frequency control and receiver.
afcbw == 31300
rxbw  == 20800

(* The operators named Slip... are plausible mistakes in the definition that *)
(* follows them, against which the properties below are measured.            *)

-----------------------------------------------------------------------------
(* modemSetup, called by main.  Its steps report failure in different ways  *)
(* and it passes most of their results on.                                  *)

GoTo(step) == at' = step /\ result' = result
Return(r)  == at' = "returned" /\ result' = r

GpioInitialise ==
  /\ at = "gpioInitialise"
  /\ GoTo("spiOpen") \/ Return(0)
  /\ UNCHANGED <<open, registered, registers, chipVars>>

\* Slip: the descriptor is not tested.
SlipSpiOpen ==
  /\ at = "spiOpen"
  /\ GoTo("setMaxCurrent") /\ open' \in BOOLEAN
  /\ mode' = "standby" /\ fifo' = "empty" /\ registers' = Reset
  /\ UNCHANGED registered

\* The device is opened and the chip reset by its pin.
SpiOpen ==
  /\ at = "spiOpen"
  /\ \/ /\ GoTo("setMaxCurrent") /\ open' = TRUE
        /\ mode' = "standby" /\ fifo' = "empty" /\ registers' = Reset
     \/ Return(-1) /\ UNCHANGED <<open, registers, chipVars>>
  /\ UNCHANGED registered

\* Both read the mode back, and report a mismatch as 0 and as 1.
SetMaxCurrent ==
  /\ at = "setMaxCurrent"
  /\ WriteMode("standby")
  /\ IF Works THEN GoTo("setFSK") ELSE Return(0)
  /\ UNCHANGED <<open, registered, registers>>

SetFSK ==
  /\ at = "setFSK"
  /\ WriteMode("standby")
  /\ IF Works THEN GoTo("setBitrate") ELSE Return(1)
  /\ UNCHANGED <<open, registered, registers>>

\* The ini file may hold no rate, or one out of range.
SetBitrate ==
  /\ at = "setBitrate"
  /\ IF RateAllowed(bps)
     THEN GoTo("setAFCBandwidth") /\ WriteMode("standby") /\ Write("rate", Bitrate(bps))
     ELSE Return(-1) /\ UNCHANGED <<registers, chipVars>>
  /\ UNCHANGED <<open, registered>>

SetAFCBandwidth ==
  /\ at = "setAFCBandwidth"
  /\ WriteMode("standby") /\ Write("afcbw", Bandwidth(afcbw))
  /\ GoTo("setRxBandwidth")
  /\ UNCHANGED <<open, registered>>

SetRxBandwidth ==
  /\ at = "setRxBandwidth"
  /\ WriteMode("standby") /\ Write("rxbw", Bandwidth(rxbw))
  /\ GoTo("configure")
  /\ UNCHANGED <<open, registered>>

\* Sync word, preamble and packet format.
Configure ==
  /\ at = "configure"
  /\ WriteMode("standby")
  /\ GoTo("setFrequency")
  /\ UNCHANGED <<open, registered, registers>>

SetFrequency ==
  /\ at = "setFrequency"
  /\ ClearIRQFlags /\ Write("frf", Frequency(freq))
  /\ IF Works THEN GoTo("setRxDoneDioISR") ELSE Return(0)
  /\ UNCHANGED <<open, registered>>

SetRxDoneDioISR ==
  /\ at = "setRxDoneDioISR"
  /\ registered' = TRUE
  /\ GoTo("receive")
  /\ UNCHANGED <<open, registers, chipVars>>

Receive ==
  /\ at = "receive"
  /\ WriteMode("rx")
  /\ Return(1)
  /\ UNCHANGED <<open, registered, registers>>

ModemSetup ==
  /\ \/ GpioInitialise \/ SpiOpen \/ SetMaxCurrent \/ SetFSK \/ SetBitrate
     \/ SetAFCBandwidth \/ SetRxBandwidth \/ Configure \/ SetFrequency
     \/ SetRxDoneDioISR \/ Receive
  /\ UNCHANGED <<bps, freq, linkVars, isrVars, statusVars>>

-----------------------------------------------------------------------------
(* rxDoneISRf.                                                              *)

Call ==
  /\ edge /\ isr = "idle"
  /\ edge' = FALSE /\ isr' = "getRSSI"
  /\ UNCHANGED <<chipVars, activityFlag>>

\* Slip: a packet too weak is left alone.
SlipGetRSSI ==
  /\ isr = "getRSSI"
  /\ \/ Works /\ isr' = "read"
     \/ isr' = "rx"
  /\ UNCHANGED <<edge, chipVars, activityFlag>>

GetRSSI ==
  /\ isr = "getRSSI"
  /\ \/ Works /\ isr' = "read"
     \/ isr' = "clear"
  /\ UNCHANGED <<edge, chipVars, activityFlag>>

\* Bytes are read, not necessarily of the packet the handler was called for.
ReadSome ==
  fifo' = IF ~Works THEN fifo ELSE IF fifo = "packet" THEN "part" ELSE "empty"

\* The packet is read byte by byte; here in two parts.  A reset in between, or
\* a failing transfer, tears it; its check sums tell the handlers later.
ReadFirst ==
  /\ isr = "read"
  /\ ReadSome
  /\ isr' = "read on"
  /\ UNCHANGED <<edge, mode, activityFlag>>

ReadOn ==
  /\ isr = "read on"
  /\ ReadSome
  /\ isr' = "queue"
  /\ UNCHANGED <<edge, mode, activityFlag>>

\* A packet with a known type, torn or not, counts as activity and is queued.
QueuePacket ==
  /\ isr = "queue"
  /\ activityFlag' \in {TRUE, activityFlag}
  /\ isr' = "clear"
  /\ UNCHANGED <<edge, chipVars>>

Clear ==
  /\ isr = "clear"
  /\ ClearIRQFlags
  /\ isr' = "rx"
  /\ UNCHANGED <<edge, activityFlag>>

ReturnToRx ==
  /\ isr = "rx"
  /\ WriteMode("rx")
  /\ isr' = "idle"
  /\ UNCHANGED <<edge, activityFlag>>

RxDoneISR ==
  /\ \/ Call \/ GetRSSI \/ ReadFirst \/ ReadOn \/ QueuePacket \/ Clear \/ ReturnToRx
  /\ UNCHANGED <<setupVars, linkVars, status>>

-----------------------------------------------------------------------------
(* statusThreadFunc, as far as the radio is concerned.                      *)

\* The timer's signal, or a spurious wakeup; a signal while the thread is not
\* waiting is lost.
Tic ==
  /\ at = "returned" /\ status = "wait"
  /\ status' = "test"
  /\ UNCHANGED <<chipVars, activityFlag>>

Test ==
  /\ status = "test"
  /\ status' = IF activityFlag THEN "forget" ELSE "standby"
  /\ UNCHANGED <<chipVars, activityFlag>>

\* Slip: the radio is only told to receive.
SlipStandby ==
  /\ status = "standby"
  /\ status' = "rx"
  /\ UNCHANGED <<chipVars, activityFlag>>

Standby ==
  /\ status = "standby"
  /\ WriteMode("standby")
  /\ status' = "rx"
  /\ UNCHANGED activityFlag

BackToRx ==
  /\ status = "rx"
  /\ WriteMode("rx")
  /\ status' = "forget"
  /\ UNCHANGED activityFlag

Forget ==
  /\ status = "forget"
  /\ activityFlag' = FALSE
  /\ status' = "wait"
  /\ UNCHANGED chipVars

StatusThread ==
  /\ Tic \/ Test \/ Standby \/ BackToRx \/ Forget
  /\ UNCHANGED <<setupVars, linkVars, isrVars>>

-----------------------------------------------------------------------------
(* The world.                                                               *)

PacketArrives ==
  /\ mode = "rx" /\ fifo = "empty"
  /\ fifo' = "packet"
  /\ edge' = (edge \/ registered)
  /\ UNCHANGED <<setupVars, linkVars, mode, isr, statusVars>>

SpiChanges ==
  /\ spi' = ~spi /\ faulty' = TRUE
  /\ UNCHANGED <<setupVars, chipVars, isrVars, statusVars>>

Next == ModemSetup \/ RxDoneISR \/ StatusThread \/ PacketArrives \/ SpiChanges

\* The threads run, and the timer fires every 10 s.
Fairness == WF_vars(ModemSetup) /\ WF_vars(RxDoneISR) /\ WF_vars(StatusThread)

Spec == Init /\ [][Next]_vars /\ Fairness

-----------------------------------------------------------------------------
SetupSteps == {"gpioInitialise", "spiOpen", "setMaxCurrent", "setFSK", "setBitrate",
               "setAFCBandwidth", "setRxBandwidth", "configure", "setFrequency", "setRxDoneDioISR", "receive", "returned"}

\* Every variable holds a value of its kind, and the chip is only spoken to
\* through an open device.
TypeOK ==
  /\ at \in SetupSteps /\ result \in {-1, 0, 1}
  /\ at \notin {"gpioInitialise", "spiOpen", "returned"} => open
  /\ open \in BOOLEAN /\ registered \in BOOLEAN /\ spi \in BOOLEAN /\ faulty \in BOOLEAN
  /\ mode \in {"standby", "rx"} /\ fifo \in {"empty", "part", "packet"}
  /\ bps \in Rates /\ freq \in Freqs
  /\ registers \in [rate : Nat, afcbw : Nat, rxbw : Nat, frf : Nat]
  /\ edge \in BOOLEAN /\ activityFlag \in BOOLEAN
  /\ isr \in {"idle", "getRSSI", "read", "read on", "queue", "clear", "rx"}
  /\ status \in {"wait", "test", "standby", "rx", "forget"}

\* What is in the FIFO will still be read or cleared by the handler.
WillBeEmptied ==
  fifo = "empty" \/ edge \/ isr \in {"getRSSI", "read", "read on", "queue", "clear"}

\* Once set up, and as long as no transfer fails, the radio is never deaf: not
\* left in standby by the two threads that switch its mode, and not waiting
\* for somebody to empty its FIFO, however weak or ill-timed the packets are.
NeverDeaf ==
  at = "returned" /\ registered /\ ~faulty =>
    /\ mode = "rx" \/ status = "rx"
    /\ WillBeEmptied

\* |a - b| is at most one part in so many of b.
Near(a, b, part) == part * (a - b) <= b /\ part * (b - a) <= b

\* A radio that was set up without a failing transfer, and whatever resets it
\* has been through since, has the rate and the frequency that stand in the ini
\* file as "bps" and "freq" and the bandwidths of modemSetup: rate and bandwidths
\* to a hundredth, although the sixteenths of a rate can be lost in rounding, and
\* the frequency to 80 Hz, a step of the chip and a half of a float's.  The file's
\* "offset" (5000 as shipped) is not part of this claim: modemSetup reads it, and
\* nothing ever applies it.
TunedAsAsked ==
  at = "returned" /\ registered /\ ~faulty =>
    /\ RateAllowed(bps) /\ Near(BitrateOf(registers.rate), bps, 100)
    /\ Near(BandwidthOf(registers.afcbw), afcbw, 100)
    /\ Near(BandwidthOf(registers.rxbw), rxbw, 100)
    /\ FrequencyOf(registers.frf) - freq \in -16 .. 80

Listening == mode = "rx" /\ WillBeEmptied

\* Whatever transfers fail, in the setup or later, the status thread's resets
\* make a radio that has been set up listen again once transfers work.
HearsAgain == <>registered /\ <>[]spi => []<>Listening

\* "Fatal Error could not setup modem": main says so, by testing !result, when
\* modemSetup gave up before the radio could deliver anything.
FailureReported == at = "returned" /\ ~registered => result = 0
=============================================================================
