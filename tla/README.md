# SondeCamGround in TLA+

TLA+ models of the ground station gateway in `src/SondeGround`: a Raspberry Pi
program in C that receives the frames of a camera-carrying radiosonde with an
SX1278 FSK radio, logs them, writes the pictures they carry to files, uploads
those, and forwards the telemetry over a web socket. TLC checks the models on
small instances; TLAPS proves the central properties for every size.

Conventions: an action is named after the function or step it models; variables
have the names of the C variables where there is one. `Slip...` operators are
plausible mistakes, defined before the definition they would replace; no
specification uses them. They are there to show that each property notices a
mistake in the code (`mutants` in `PROJECT.json`). `history` variables are read
by properties only.

## 1. The system

Threads: main; the logger, receive, status and web client threads; the interrupt
thread in which pigpio calls `rxDoneISRf`. A POSIX timer's signal handler runs in
whichever thread takes the signal.

```
 radio --DIO0--> rxDoneISRf --rxQ--> receive thread --loggerQ--> logger thread --> log file
  ^                                  |   |   |
  |                                  |   |   +--webClientQ--> web client --> gateway server
  |                                  |   +--> picture files --> ftp-upload
  +--reset-- status thread <--timer--+        (status thread: pings to loggerQ, webClientQ)
```

| Component (source) | State | Operations | Hard behaviour | Correct when |
|---|---|---|---|---|
| Bounded queue (`queue.c`) | doubly linked list, front, rear, size | `createQueue`, `Enqueue`, `Dequeue` | both ends of one list; empty, single and full cases | it is a FIFO queue; nothing leaks or dangles |
| Receive thread (`rxThread.c`) | `rxQ`, mutexes, condition, `rssiTic` | `rxQueuePacket` (interrupt thread), `rxThreadFunc`, `rxThreadDispatchPacket` | two threads, heap buffers handed over, wait without a predicate, full queue | each buffer has one owner; frames dispatched once, in order, unchanged; none stuck while frames come |
| Picture files (`imageFileManager.c`) | `prevSeq`, 256 + 256 stream pointers, `imageFileID`, files on disk | START, DATA and END of `processImageFilePacket` | lost, damaged and repeated packets; failing `fopen`; blocking upload | no use of a closed stream; files and upload hold what came |
| Program start (`SondeGround.c`, the `start...Thread` functions) | per-thread flags, queues, registered interrupt | `main`, thread creation, first steps of each thread | threads run while main still sets up; failures reported in two conventions | program comes up; at most an early frame meets a missing queue |
| Logger (`logger.c`) | `loggerQ`, log file | `loggerThreadSend`, drain loop | as the receive thread, with three senders | entries written in order |
| Web client (`webClientThread.c`) | `webClientQ`, connection flag, context, socket | `sendToGatewayServer`, connect, callbacks, drain loop | callbacks change what the loop relies on | nothing sent on a dead connection; reconnects |
| Status thread, timer (`statusThread.c`, `timers.c`) | `activityFlag`, condition | 10 s tic: pings, reset of an inactive modem | lost signals; flag without a lock; radio used by two threads | radio is listening again after a reset |
| Radio (`modem.c`, `SX1278FSK.c`) | chip mode, FIFO, flags, `activityFlag` | `modemSetup`, `rxDoneISRf`, reset in `statusThreadFunc` | interrupt thread and status thread drive the chip without a lock | only whole frames are queued |
| GPS sentences (`gps.c`) | two half sentences, last GGA and RMC | `processGPSPacket`, `processNMEAString` | halves lost, damaged, interleaved | only checksummed sentences leave |
| Telemetry packets (`sensor.c`, `habInfo.c`, `callSign.c`, `batt.c`, `rssi.c`) | none | length, CRC and correction, log, web message | damaged packets | only intact data leaves |
| Error correction (RSCODE: `rs.c`, `berlekamp.c`, `galois.c`, `ecc.c`; libcrc: `crc16.c`) | scratch arrays of the driver, CRC table | `rscode_decode`, `crc_16` | errors beyond what the code can correct, in content, parity or type byte | up to `NPAR / 2` wrong bytes are restored; more do not pass |
| Settings (`utils.c`) | globals | getters, setters, path names | `imageFileID` shared with the picture files | - |
| Third-party: iniparser (`iniparser.c`, `dictionary.c`) | - | read once at the start | - | - |

Hazards of the code, each at its line and with the properties that cover it, are
listed in `PROJECT.json` under `hazards`.

## 2. Plan

Modelled, in this order: `LinkedQueue` (everything passes through it), `RxThread`
(the concurrent heart), `ImageFile` and `Downlink` (what the program is for),
`Startup`, `WebClient`, `Telemetry`, `GpsSentence`, `Radio`, `Logger`, `Gateway`
(receive thread, uploads, pings and logger in one specification), the bytes of the
packets with `ReedSolomon` and `Crc16`, and `Tuning`; then the proofs of all of them,
the one of the error-correcting code last. Left:

* The sequence file's end record is written from the last GGA and RMC by the thread,
  and in the call, that handles the END: a composition of `GpsSentence` and
  `ImageFile` would have no interleaving to add to what the two show.

## 3. Modules

| Module | Models | Correspondence |
|---|---|---|
| `BoundedFifo` | abstract: what a bounded queue promises | a sequence, and the last call with its result |
| `LinkedQueue` | `queue.c` | `node[a]` is the `element` at address `a`; `alive` the addresses between `malloc` and `free`; one action per return of `Enqueue` and `Dequeue`. Both run under the queue's mutex, so each is one step |
| `Delivery` | abstract: the hand-over of items between two threads | accepted items leave once, in order |
| `RxThread` | `rxQueuePacket` and `rxThreadFunc` | two program counters, `isr` and `worker`, one value per step between points another thread can see; `heap` maps a buffer to the frame in it. A dispatch is one step |
| `ImageFile` | `processImageFilePacket` | one action per packet type; `Quality` is the outcome of length, CRC and Reed-Solomon checks; a stream is open from `fopen` to `fclose`, whether or not a pointer to it remains |
| `Downlink` | `ImageFile` fed by a sonde | the frames of pictures in order, each lost, damaged or repeated; history variables keep what came |
| `Startup` | `main` and the start of the threads | `at` is the call main is in, `spinning` that it is in the loop that ends a start function |
| `WebClient` | `webClientThread.c` | `thread` is the place in the loop, one value per call of libwebsockets; `link` is what became of the connection behind `web_socket`; the callbacks are actions that can run while the thread is inside `lws_service`; refines `Delivery` |
| `Telemetry` | one frame's way through `modem.c`, `rxThread.c`, the handlers and `webClientThread.c` | one operator per table: lengths by type, switch, checks of each handler, types of the reports, types that are written |
| `GpsSentence` | `processGPSPacket` fed by a sonde | `half` and `last` for each of GGA and RMC; one operator per branch: first half, second half, whole sentence |
| `Radio` | `modemSetup`, `rxDoneISRf`, the reset in `statusThreadFunc`, the chip | `at`, `isr` and `status` are the three threads' places, one step per transfer that matters to another; `registers` what was written of rate, bandwidths and frequency |
| `Logger` | `loggerThreadSend`, `loggerThreadFunc` | `logger` is the place in the loop; any thread can send at any time; refines `Delivery` |
| `LossyDelivery` | abstract: a way on which items can be lost, but never change places | as `Delivery`, any item under way may vanish |
| `Gateway` | `RxThread` and `Logger`, extended | a handler that reports is one step of both; `uploading` that the receive thread is inside `system("ftp-upload ...")`; refines `LossyDelivery` from the radio to the log |
| `Galois`, `ReedSolomon`, `Ecc` | `galois.c`, `rs.c` and `berlekamp.c`, `ecc.h` | one operator per C function, loops as recursive functions, arrays as functions from 0; a polynomial that a later step reads many times is passed as an argument of a function over `Poly` |
| `Crc16` | `crc16.c` | the table and the sum |
| `PacketCheck` | `Telemetry` with the bytes behind its frames | a packet with checksum and parity, and `error`, from `Errors`, what its way added to it; `Corrected` is what the decoder makes of each |
| `Tuning` | `setBitrate`, `setRxBandwidth`, `setFrequency`, ... of `SX1278FSK.c` | what is written to the registers and what the chip, or the getter, takes it for |
| `...Proofs` | - | theorems about the module of that name; `DownlinkProofs` also those about `ImageFile`, `GatewayProofs` about `RxThread` and `Logger`, `RadioProofs` about `Tuning`, `TelemetryProofs` about `PacketCheck`, `Crc16` and `ReedSolomon` |
| `MC...` | - | instances for TLC |

Abstractions. Frames, chunks, addresses and streams are model values. In
`RxThread` the queue is a sequence: that `queue.c` implements one is what
`LinkedQueue` shows. Memory is sequentially consistent. `calloc` and `malloc`
find memory. The buffer of a refused frame is never freed by the code; in
`RxThread` its address stands from then on for a fresh one, so that a small set
of addresses lasts for any number of refusals.

In `WebClient` libwebsockets is modelled as the code uses it: callbacks only run
inside `lws_service`, and `lws_create_context` is taken to succeed. In `Radio` the
chip has a mode, a FIFO that is empty, partly read or full, and the edge on DIO0
that calls the handler; clearing the flags, or entering receive mode from another
mode, empties the FIFO. A step's transfers fail together. Frames torn by two
threads at the FIFO appear as damaged ones in `ImageFile`, `Telemetry` and
`GpsSentence`. In `GpsSentence` characters and lengths are abstracted: the NMEA
checksum is taken to notice text mixed from two sentences or garbled by the link. Of
the lengths it keeps what the code tells apart, and one thing the code does not: a
garbled second half of 22 bytes or more, put at offset 61, runs over buffers of 82
bytes (`gps.c:83-87`). What follows is undefined; the step `Overrun` ends the model, and
its properties claim nothing from there on. In `Telemetry`, whether the text of a GPS
sentence has the right checksum is a free choice. In `ImageFile`, `ftell` and `fwrite`
(`imageFileManager.c:142`) are taken to succeed.
In `PacketCheck` one content stands for all of a kind of packet: checksum and code
are linear and start from zero, so whether a word passes at the length it was sent
with, and what the decoder works from, depends on the errors only (proved:
`VerdictOfErrors`, `DecoderSeesErrors`); what the decoder does with up to `NPAR / 2`
errors is proved without sampling (section 5). Heard as a kind of another length, a word is
summed up elsewhere, and the content decides: one in 65,536 passes by chance, and the
content chosen is none of these. Errors are sampled, not enumerated: a miscorrection
that passes the checksum by chance, again one in 65,536 of the words with more than
`NPAR / 2` errors, exists and is not among them. In `Logger`
a call of `loggerThreadSend` is one step, as the module's head explains, and an entry
is what it reports, not its line of text. In `Tuning` floating point is calculated
in whole numbers; the rounding of a frequency to a `float` is kept, for
frequencies below 2^29 Hz (the chip's end at 525 MHz).
A temperature frame that the correction turns into the end of a picture is a
behaviour of `Telemetry`; the damaged END of `Downlink` does not include it.

## 4. Runs

| Run | Bounds, and why they suffice | Shows |
|---|---|---|
| `queue` | capacity 3, 4 addresses, 2 data: lists of 0, 1, 2 and 3 elements exercise every branch of the pointer code, and the capacity is reached | `ListShape` (links, ends, size), `ElementsOwned` (no leak, no dangling element), `ImplementsFifo` (refines `BoundedFifo`, results included) |
| `rx_thread` | capacity 2, 4 buffers, 2 frames, a report every 2 packets: queue full with a buffer in each thread's hands | `BuffersOwned`, `ImplementsDelivery` (refines `Delivery`), `PromptWhileReceiving` |
| `pictures` | 2 pictures of 3 chunks, 4 streams, 4 chunks a file (`MaxFile`): any frame lost, damaged or repeated, a second picture over an unfinished one, streams exhausted, a chunk lost between two others | `StreamsValid`, `ShippedWhole`, `PictureFollowsSequence`, `PictureIsWhatCame`, `UploadIsWhatCame`, `EarlierPicturesKept` |
| `stream_leak` | 2 pictures, chunk numbers 0..2, 4 streams, 2 chunks a file, any packet in any order | violation of `NoStreamLost`, see below |
| `startup` | the whole start, every step may fail | `OnlyEarlyFrameKills`, `StopsOnlyInLoop` |
| `startup_hang` | the whole start, nothing fails | violation of `ComesUp`, see below |
| `web_client` | capacity 2, one kind of message that is written and one that is not: queue full while the server is away, any number of failures | `SocketLive`, `ImplementsDelivery`, `Reconnects`, `DeliversWhenUp` |
| `telemetry` | every kind of frame, 8 parity bytes as in `ecc.h`, with bursts of 1, 4, 5 and 8 wrong bytes at every place, spread ones of 2 to 6, every type byte made every other's, alone and, where the lengths agree, with 3 or 4 more errors, and an error at which the decoder divides by zero; one frame at a time, as the handlers keep no state | `IntactIsHandled`, `HandledAsSent`, `ReportsReachServer`; `ValidPasses` and `InvalidRefused`: the bytes' checksum and correction come to the verdict that the first three rest on; `CorrectionRestores`: up to 4 wrong bytes anywhere are restored, with no division by zero |
| `gateway` | a frame queue of 1 and a log queue of 2, in which one entry waits behind another; both fill. 3 buffers, 2 frames of telemetry and one END, a signal strength with every packet; the lines of signal strengths and pings are one value; any number of uploads, pings and lost wakeups | `LogFollowsRadio` (refines `LossyDelivery`), `LogGoesOn`, `ReceivesBetweenUploads` |
| `gps` | 5 sentences, GGA and RMC in turn: a half of the first can wait while the second is completed and the third comes in part; damaged lengths as in section 3 | `BothHalvesReported`, `ReportedOnce`, `FreshHalves` |
| `radio` | one chip; the rate of `habGWconfig.ini`, the ends of the range, both sides outside it and one whose sixteenths round up to a whole; a frequency that is a float and two that are not, one of them at the lower end of the chip's range | `NeverDeaf`, `HearsAgain`, `TunedAsAsked` |
| `setup_unreported` | as `radio` | violation of `FailureReported`, see below |

Each run also checks the type invariant of its module where there is one; the one of
`RxThread` is part of `GatewayTypeOK`, which `gateway` checks. `pictures`, `gps`,
`telemetry` and the two start runs do not check deadlock: the sonde sends its last
frame, the frame has come through, and main, or the process, can stop. The bound
`MaxFile` is a guard of `ImageData` (`HasRoom`), and a frame is no longer repeated
once its sentence was reported twice (`Receive` of `GpsSentence`); `Capacity`,
`RssiPeriod`, `Pictures`, `Chunks` and `Sentences` are the code's or the sonde's
own limits.

### What the violations show

* `startup_hang`. Every start function ends in `while(active != 0) {}`, the
  inverse of a wait. If the new thread sets its flag before main first reads it,
  main stays in the loop for good: without the modem, the timer or the web client,
  depending on the thread. `systemd/readme.txt` says the service starts the
  gateway at boot.
* `stream_leak`. Between "File Cleanup Begin" and "File Cleanup End" START resets
  only `prevSeq`, and a little later it overwrites all stream pointers. If the END
  of the previous picture was lost, its two streams stay open, unflushed.
* `setup_unreported`. `SondeGround.c:67-69` prints "Fatal Error could not setup
  modem" when `modemSetup` returns 0. It returns -1 when `spiOpen` fails
  (`modem.c:268`) or the ini file holds no valid bit rate (`modem.c:314`), and 1
  when the chip does not enter FSK mode (`modem.c:307`); the program then goes on
  without a radio, and without a word from main.

### Fairness

`RxThread`: both threads take their next step when they have one (weak fairness of
`WorkerStep` and of `EnqueueFrame \/ Signal`); the scheduler runs runnable
threads. A thread that waits has no step, and nothing makes frames arrive or
spurious wakeups happen. The wait at `rxThread.c:47` has no predicate, so a
signal between the last look at `rxQ->size` and the wait is lost; "every accepted
frame is dispatched" is false for the code, and `PromptWhileReceiving` claims it
for a radio that keeps delivering.

`Startup`: weak fairness for main and for each created thread. `PassLoop` is only
enabled while the flag is unset, so weak fairness does not save main from the
race. A process that died (`Alive`) takes no step.

`WebClient`: weak fairness for the thread, and for the senders because the status
thread sends a ping every 10 s (the timer of `timers.c`). Strong fairness for a
connection attempt that a reachable server accepts, for the callbacks that
establish a connection, allow a message to be written and report a broken
connection: the thread enters `lws_service` again and again, and libwebsockets
does not time out for ever with such an event at hand. Nothing makes the server
reachable; the properties assume it where they need it.

`Gateway`: weak fairness for the receive thread, the interrupt handler under way, the
logger, and the pings, which the timer makes the status thread send every 10 s. The
end of an upload is no fair step: `system()` returns when `ftp-upload` does, which
nothing in the program bounds. `LogGoesOn` holds all the same; `ReceivesBetweenUploads`
assumes that uploads end again and again and that frames keep arriving.

`Radio`: weak fairness for the setup, the handler and the status thread, whose
step includes the timer's tic. Nothing makes packets arrive or transfers work.

The picture files have no liveness property: a call returns when its input is
handled, and no packet needs to come.

## 5. Theorems

All hold for every value of the constants under the assumptions the modules state
(`NullAssumption`, `FreeAssumption`, `CapacityAssumption`, ...), which only say
that null values are no ordinary ones and that capacities are numbers; where a theorem
assumes more, that is said with it.

* `LinkedQueueProofs!ListInvariant`: `Spec => []ListShape` and its companions. The
  list of a C queue is defined by its links; the inductive invariant therefore
  carries the sequence of addresses the links spell, as a history of the calls, and says that
  `prev` and `next` of each element are its neighbours there. Enqueue appends a
  fresh address, Dequeue drops the first, and each branch of the C code is one
  case of the proof.
* `LinkedQueueProofs!Refinement`: `Spec => ImplementsFifo`, from that invariant:
  the data along the list is the abstract queue.
* `LinkedQueueProofs!TypeCorrect` and `NothingLeaks`: from the same invariant, whose
  history of addresses is also the set of what is allocated.
* `GatewayProofs!TypeCorrect` and `OwnershipSafe`, of `RxThread`: `TypeOK /\ BuffersOwned`
  is inductive once it is known what the program counters say about the buffer in hand.
* `GatewayProofs!DeliveryRefinement`: each step of `RxThread` is an accept, a handle or
  a stutter of `Delivery`; `BuffersOwned` is what makes the content of a queued
  buffer unchangeable.
* `GatewayProofs!LogDeliveryRefinement`: the logger alone is a `Delivery`, for every
  capacity and whoever sends.
* `GatewayProofs!GatewaySafe` and `BothDeliver`: a step of the gateway is a step of
  each component or leaves it alone (`StepOfBoth`), so that each keeps, composed, what
  was proved of it by itself; what is new is the state of an upload.
* `GatewayProofs!LogFollows`: the whole way from the radio to the log is a
  `LossyDelivery`. What is under way is the telemetry among the entries for the log,
  followed by that among the frames which wait for the receive thread. An interrupt adds
  one at the end, a report leaves one where it is or, if the log's queue is full, drops
  it from the middle, and the logger takes the oldest. That what is left of a sequence
  without the other senders' entries keeps its order when sequences are joined or lose
  their head is shown by induction on the length. `EntryAssumption` says that a frame's
  report is not taken for one of the other senders', a signal strength or a ping, which
  have types of their own.
* `DownlinkProofs!FilesSafe`, `TypeCorrect` and `UploadsWhole`, of `ImageFile`: `TypeOK`,
  `StreamsValid` and `ShippedWhole` together; the second ties a stream to the picture
  started last, and with the third no chunk can follow an end record.
* `DownlinkProofs!PicturesAsReceived`, `UploadsAsReceived` and `EarlierKept`, for any
  number of pictures and chunks. The invariant relates the files, the streams and
  `prevSeq` to the sonde's place in its sequence and to what came: chunks before it
  only, and those of the picture under way in the file its stream belongs to.
* `DownlinkProofs!PicturesFollow`: the chunks of a picture are those of its sequence
  file in the same order, for any number of either. The invariant (`Following`) keeps a
  strictly increasing map from the records of the one file to those of the other, and
  ties its end to `prevSeq`.
* `WebClientProofs!TypeCorrect`, `SocketsSafe` and `DeliveryRefinement`: what flag, context and
  socket can be at each place of the loop, one case per callback; `Delivery` again
  as the specification of what a queue between threads promises.
* `StartupProofs!TypeCorrect`, `OnlyEarlyFrames` and `WorkersHaveQueues`, whichever calls
  fail: a thread sets its flag after it has made its queue, main is in a loop only for
  a thread it created, and of those who use a queue only the interrupt handler does
  not look first whether it is there. So the one way to a missing queue is a frame
  between the interrupt's setup and the receive thread's flag.
* `RadioProofs!TypeCorrect` and `HearsOn`: the invariant says that until `modemSetup`
  returns the other two threads have not begun and the chip it has reset is in standby
  with an empty FIFO, and which settings are in their registers at each of its steps.
  From then on `NeverDeaf` is inductive: while no transfer fails, a chip in standby has
  the status thread about to set it back, and a FIFO that is not empty the handler.
* `RadioProofs!Tuned`: for every rate and every frequency below 2^29 Hz, not only those
  of the run, what a setup without failures leaves in the registers is within the
  tolerance of what the ini file gives as `bps` and `freq`; its `offset` is apart, see
  section 6. A rate that `setBitrate` does not accept ends the setup; no frequency
  is refused. It rests on bounds of the divisions and roundings of the setters: a
  `float` is at most half its spacing, which is 32 Hz at the most here, from the
  frequency (`FloatNear`).
* `GpsSentenceProofs!TypeCorrect`, `SentencesSafe`, `NoneReportedTwice` and `HalvesFresh`, for every number of
  sentences. The invariant says that a waiting half is never older than the last
  report, that the first half of a sentence under way is there, and that it is gone
  once the sentence was reported: a repeated second half then finds nothing to join.
  All but the first are about behaviours in which no joined sentence has overrun its
  buffers.
* `TelemetryProofs!IntactHandled`, `TakenAsSent` and `ReportsReach`, for every
  number of parity bytes: the invariant says that `size` is that of the type heard,
  that a handler that took a frame found it valid, and which types reports have,
  those of GPS sentences included.
* `TelemetryProofs!PacketsAreFrames`: `PacketCheck` implements `Telemetry`, so that
  these three hold behind the bytes too, whatever errors there are
  (`PacketIntactHandled`, `PacketTakenAsSent`, `PacketReportsReach`).
* `TelemetryProofs!VerdictOfErrors`: exclusive or is a group on bytes and on checksums;
  a shift of the checksum goes along with it, so the table does, so each byte does,
  and so `crc_16` does for any number of bytes. The checksum of a word is then that of
  the packet with that of the errors added.
* `TelemetryProofs!DecoderSeesErrors`: the same for doubling, multiplication and the
  syndromes: those of a word are those of its errors if the word sent has none. It
  assumes fewer than 255 parity bytes, as every word of this code has.
* `TelemetryProofs!CodewordsPass`, `DetectsErrors` and `DecoderRestores`: the
  Reed-Solomon code itself, for every message, every word of up to 255 bytes and any
  errors. What `encode_data` makes of a message has no syndromes; 1 to `NPAR` wrong
  bytes always have some; and `rscode_decode` restores every byte of a word with up to
  `NPAR / 2` wrong ones, no divisor being zero. The steps:
  * The tables of `galois.c` are a field (`Times`, `Inverses`, `NoDivisors`): the product
    is linear in each factor, and the powers of 2 are all 255 bytes but zero
    (`PowInjective`, by `LastPower`: 2 has an inverse, and no power below 255 is 1).
  * `Moment(c, n, j)` is a word as a polynomial, at the power j. `v` moments in a row are
    enough to tell a word with `v` bytes that are not zero from zero (`FewMoments`, by
    induction on the number of these bytes: the word with each byte multiplied by the
    difference of two powers has one less), and a polynomial of degree n has no
    more than n roots (`FewRoots`, by division).
  * Encoder: `compute_genpoly` vanishes at the powers 1 to `NPAR` (`Generator`); the
    register keeps the moments of the message shifted so far (`RegisterMoment`).
  * Syndromes are moments (`SyndromeMoment`), by Horner's rule.
  * Locator: before each turn of `Modified_Berlekamp_Massey`, `Locates` says that `psi`
    makes all coefficients from `L` up to the turn vanish, and that `D`, as long as the
    turn allows, changes nothing but the next. `LengthBound` bounds the length by the
    number of errors: a new length L' = n + 1 - L only arises where the shorter one could
    not have been continued. So the result is a locator with no more degrees
    than there are errors (`AllTurns`), and vanishes at each of them (`NoRest`:
    else what it leaves of the errors would be a word with too few moments);
    `Find_Roots` then finds these places and no others (`LocatorLocates`).
  * Values: the locator without its factor for the place w is `Quotient(p, L, w)`.
    The derivative there is the value of that quotient, which is not zero
    (`DenominatorValue`), the evaluator that value times the error (`NumeratorValue`).
* `TelemetryProofs!PacketCorrectionRestores`, `PacketValidPasses` and what they rest on,
  `PacketsAreCodewords` and `UndamagedPasses`: the same for the packets the handlers
  check. For every set of errors (`ErrorsAssumption`: something is added to each byte of
  a frame), whatever Telemetry calls valid passes checksum and correction, and
  a packet with up to `NPAR / 2` wrong bytes comes back as it was sent. They assume that
  the info text, of 37 bytes without parity, fits into a frame of 64; with the 8 bytes
  of `ecc.h` it does.

Induction over data. The library's rules for it take an operator as a parameter,
which none of the provers can instantiate. `LeastNumber` and `NumbersFromZero`
(`TelemetryProofs`) state it about a set of numbers instead, from the theorem that
`<` on the numbers is well founded; `Recursion` derives from that what a recursive
function is. The telemetry of a queue and all of the arithmetic rest on them.

Model-checked only:

* the liveness properties (`PromptWhileReceiving`, `StopsOnlyInLoop`, `Reconnects`,
  `DeliversWhenUp`, `HearsAgain`, `LogGoesOn`, `ReceivesBetweenUploads`), as the
  provers do not handle fairness with `ENABLED`;
* `InvalidRefused`: it cannot be proved, for that a packet with more errors than the code
  corrects does not pass is only nearly always so, as said in section 3.

## 6. Not modelled

* The registers of sync word, preamble and packet format, which are written with
  constants, and the functions of `SX1278FSK.c` that nobody calls. The entry `offset`
  of the ini file, 5000 as shipped (`habGWconfig.ini:10`), is read into `freqofs`
  (`modem.c:277`) and never applied: `setFrequency` is called with `freq` alone
  (`modem.c:381`), and what would add the offset is commented out (`modem.c:61`, 79),
  although a message there says to adjust the offset in the ini file (`modem.c:70`).
  `TunedAsAsked` speaks of the frequency without it.
* Decoding with known erasures: nobody calls it.
* The ini file parser (`iniparser.c`, `dictionary.c`): third-party, pure string
  handling, called once before any thread runs. `Radio` takes its results from sets.
* The getters and setters of `utils.c`, beyond `imageFileID` and the names of files.
* The texts of the log: an entry is copied without its terminating NUL (`sensor.c:56`)
  and printed with `%s` (`logger.c:84`).
* Exhausted memory, and compiler or processor reordering of unlocked accesses.
* A restart of the gateway: nothing is read back from the files, and the systemd
  unit does not restart the process.
* More than one picture per number: the sonde numbers them modulo 256.
* Wording and layout of log lines and web messages.
