---------------------------- MODULE GpsSentence ----------------------------
(***************************************************************************)
(* gps.c: the sonde's GGA and RMC sentences come whole in one frame or, if *)
(* they are too long for one, as two halves.  processGPSPacket joins the   *)
(* halves, checks the checksum and reports the sentence; what it joined    *)
(* last of each kind goes into the end record of the next picture.         *)
(*                                                                         *)
(* The link loses, repeats and damages frames but keeps their order.  GPS  *)
(* frames have no CRC: a damaged one may hold other characters and be      *)
(* heard as any half or whole of either kind ("garbled"; frames that carry *)
(* something else can be heard like that, too), with a length that a       *)
(* second half can have or with a greater one ("overlong"), or give its    *)
(* length as more than a frame holds ("bad length") or as 0 ("empty").     *)
(* The checksum is taken to notice any mixed or garbled text.              *)
(***************************************************************************)
EXTENDS Naturals

CONSTANT Sentences     \* bound: how many sentences the sonde sends

ASSUME SentencesAssumption == Sentences \in Nat \ {0}

Kind    == {"GGA", "RMC"}
Quality == {"good", "garbled", "overlong", "bad length", "empty"}
Garbled == {"garbled", "overlong"}
NoHalf  == [n |-> 0, text |-> "bad"]
Half    == [n : 0..Sentences, text : {"good", "bad"}]
VARIABLES half,       \* the first half of each kind; NoHalf if its length is 0
          last,       \* lastGGASentence and lastRMCSentence, as two halves
          reported,   \* history: number of the sentence reported last
          overrun,    \* history: a joined sentence was longer than its buffers
          sentence,   \* the sentence being sent
          form,       \* whether it is sent whole or split
          part,       \* which of its frames
          progress,   \* history: what of a split sentence came, undisturbed
          count       \* history: how often the sentence was reported

gpsVars  == <<half, last, reported>>
linkVars == <<sentence, form, part, progress, count>>
vars     == <<gpsVars, linkVars, overrun>>

KindOf(n) == IF n % 2 = 1 THEN "GGA" ELSE "RMC"
NoHalves  == [k \in Kind |-> NoHalf]

Init ==
  /\ half = NoHalves
  /\ last = [k \in Kind |-> <<NoHalf, NoHalf>>]
  /\ reported = 0 /\ overrun = FALSE
  /\ sentence = 1 /\ form \in {"whole", "split"} /\ part = 1
  /\ progress = "nothing" /\ count = 0

(* The operators named Slip... are plausible mistakes in the definition that *)
(* follows them, against which the properties below are measured.            *)

-----------------------------------------------------------------------------
(* processGPSPacket.                                                        *)

NewHalf(n, quality) ==
  IF quality = "empty" THEN NoHalf
  ELSE [n |-> n, text |-> IF quality = "good" THEN "good" ELSE "bad"]

\* validateNMEAChecksum
Valid(a, b) == a.text = "good" /\ b.text = "good" /\ a.n = b.n

\* A sentence is validated and, if it passes, reported; in either case the
\* halves of both kinds are forgotten.
Validate(a, b) ==
  /\ half' = NoHalves
  /\ IF Valid(a, b)
     THEN reported' = b.n /\ count' = count + 1
     ELSE UNCHANGED <<reported, count>>

\* Slip: the halves of the other kind are kept.
SlipSecond(k, h) ==
  /\ half[k] # NoHalf
  /\ last' = [last EXCEPT ![k] = <<half[k], h>>]
  /\ half' = [half EXCEPT ![k] = NoHalf]
  /\ IF Valid(half[k], h)
     THEN reported' = h.n /\ count' = count + 1
     ELSE UNCHANGED <<reported, count>>

\* Slip: no half is forgotten.
SlipJoin(k, h) ==
  /\ half[k] # NoHalf
  /\ last' = [last EXCEPT ![k] = <<half[k], h>>]
  /\ half' = half
  /\ IF Valid(half[k], h)
     THEN reported' = h.n /\ count' = count + 1
     ELSE UNCHANGED <<reported, count>>

\* A second half is joined to the first, and kept as the last sentence before
\* anything is validated; without a first half it is refused.
Second(k, h) ==
  /\ half[k] # NoHalf
  /\ last' = [last EXCEPT ![k] = <<half[k], h>>]
  /\ Validate(half[k], h)

\* The second half is put at offset 61 of 82 bytes, enough for any sentence of
\* the sonde, whatever its length: one of 22 bytes or more runs over their end,
\* and what the program does from then on is undefined.  The model ends here.
Overrun(k) ==
  /\ half[k] # NoHalf
  /\ overrun' = TRUE
  /\ UNCHANGED <<gpsVars, count>>

\* Slip: a half is kept with those of the other kind.
SlipKind(k, h) ==
  /\ half' = [half EXCEPT !["GGA"] = h]
  /\ UNCHANGED <<last, reported, count>>

\* Slip: a first half does not replace one that is there.
SlipFirst(k, h) ==
  /\ half' = IF half[k] = NoHalf THEN [half EXCEPT ![k] = h] ELSE half
  /\ UNCHANGED <<last, reported, count>>

First(k, h) ==
  /\ half' = [half EXCEPT ![k] = h]
  /\ UNCHANGED <<last, reported, count>>

\* A sentence in one frame does not become the last one.
Whole(k, h) ==
  /\ Validate(h, h)
  /\ last' = last

Refuse == UNCHANGED <<gpsVars, count>>

\* A frame of the type that kind and shape make up.
Process(k, shape, h, quality) ==
  \/ shape = "second" /\ quality = "overlong" /\ Overrun(k)
  \/ quality = "bad length" /\ Refuse /\ UNCHANGED overrun
  \/ /\ quality # "bad length"
     /\ \/ shape = "whole"  /\ Whole(k, h)
        \/ shape = "first"  /\ First(k, h)
        \/ shape = "second" /\ quality # "overlong" /\ Second(k, h)
        \/ shape = "second" /\ half[k] = NoHalf /\ Refuse
     /\ UNCHANGED overrun

-----------------------------------------------------------------------------
(* The sonde and the link.                                                  *)

\* The present frame may have come never, once or several times.
NextFrame ==
  /\ IF form = "split" /\ part = 1
     THEN part' = 2 /\ UNCHANGED <<sentence, form, progress, count>>
     ELSE /\ sentence < Sentences
          /\ sentence' = sentence + 1 /\ part' = 1
          /\ form' \in {"whole", "split"}
          /\ progress' = "nothing" /\ count' = 0
  /\ UNCHANGED <<gpsVars, overrun>>

Shape == IF form = "whole" THEN "whole" ELSE IF part = 1 THEN "first" ELSE "second"

\* A frame refused for its length disturbs nothing, a garbled one anything; any
\* other makes or breaks the sentence it is part of.
Came(quality) ==
  IF quality \in Garbled THEN "nothing"
  ELSE IF form = "whole" \/ quality = "bad length" \/ (part = 2 /\ progress # "first") THEN progress
  ELSE IF quality = "empty" THEN "nothing"
  ELSE IF part = 1 THEN "first" ELSE "both"

\* Bound: a sentence sent whole is reported at most twice.
Receive(quality) ==
  /\ count < 2
  /\ \E k \in Kind, shape \in {"whole", "first", "second"} :
        /\ quality \notin Garbled => k = KindOf(sentence) /\ shape = Shape
        /\ Process(k, shape, NewHalf(sentence, quality), quality)
  /\ progress' = Came(quality)
  /\ UNCHANGED <<sentence, form, part>>

Next == ~overrun /\ (NextFrame \/ \E quality \in Quality : Receive(quality))

Spec == Init /\ [][Next]_vars

-----------------------------------------------------------------------------
OfKind(k, h) == h.text = "good" => KindOf(h.n) = k

\* Every variable holds a value of its kind; undamaged halves of GGA sentences
\* are kept apart from those of RMC sentences.
TypeOK ==
  /\ half \in [Kind -> Half] /\ last \in [Kind -> Half \X Half]
  /\ \A k \in Kind : OfKind(k, half[k]) /\ OfKind(k, last[k][1]) /\ OfKind(k, last[k][2])
  /\ reported \in 0..Sentences /\ overrun \in BOOLEAN /\ sentence \in 1..Sentences
  /\ form \in {"whole", "split"} /\ part \in {1, 2}
  /\ progress \in {"nothing", "first", "both"} /\ count \in 0..2

\* A split sentence of which both halves came undamaged, one after the other,
\* is reported and is the last one of its kind, whatever came of the sentences
\* before it and however often its frames are repeated afterwards, as long as
\* no garbled second half was too long for the buffers.
BothHalvesReported ==
  ~overrun /\ progress = "both" =>
    /\ reported = sentence
    /\ \A i \in {1, 2} : last[KindOf(sentence)][i] = [n |-> sentence, text |-> "good"]

\* A split sentence is reported once, though its second half be repeated, as
\* long as no buffer was overrun.
ReportedOnce == ~overrun /\ form = "split" => count <= 1

\* What is kept as a last sentence, even if its checksum fails, was joined from
\* a first half not older than the sentence reported last: a half that waits in
\* vain is not joined to one that comes much later.  Nothing is claimed of the
\* step that overruns a buffer.
FreshHalves ==
  [][~overrun' => \A k \in Kind : last'[k] # last[k] => last'[k][1].n >= reported]_vars
=============================================================================
