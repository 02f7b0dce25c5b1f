------------------------- MODULE GpsSentenceProofs -------------------------
(* The properties of GpsSentence for every number of sentences.             *)
EXTENDS GpsSentence, TLAPS

Sent == [n |-> sentence, text |-> "good"]

\* Halves are not older than the sentence reported last; while a split sentence
\* is under way its first half is there; once it is reported it is not.
IInv ==
  /\ TypeOK
  /\ reported <= sentence
  /\ \A k \in Kind : half[k] # NoHalf => half[k].n \in reported..sentence
  /\ progress = "first" => form = "split" /\ half[KindOf(sentence)] = Sent
  /\ progress = "both" =>
       /\ form = "split" /\ part = 2 /\ half[KindOf(sentence)] = NoHalf
       /\ reported = sentence /\ last[KindOf(sentence)] = <<Sent, Sent>>
  /\ form = "split" =>
       /\ count <= 1
       /\ part = 1 => count = 0
       /\ count = 1 => \A k \in Kind : half[k] # Sent

\* The sonde sends GGA and RMC sentences only.
LEMMA KindOfKind == \A n : KindOf(n) \in Kind
BY DEF KindOf, Kind

\* What a frame of the present sentence leaves as a half.
LEMMA NewHalfFacts ==
  ASSUME sentence \in 1..Sentences, NEW quality \in Quality
  PROVE  /\ NewHalf(sentence, quality) \in Half
         /\ quality = "good" => NewHalf(sentence, quality) = Sent
         /\ NewHalf(sentence, quality).text = "good" => quality = "good"
         /\ NewHalf(sentence, quality) # NoHalf => NewHalf(sentence, quality).n = sentence
         /\ NoHalf \in Half /\ NoHalf.text = "bad" /\ Sent # NoHalf /\ Sent.text = "good"
<1> USE SentencesAssumption
<1>1. NoHalf \in Half /\ NoHalf.text = "bad" /\ Sent \in Half /\ Sent.text = "good" /\ Sent # NoHalf
  BY DEF Half, NoHalf, Sent
<1>2. CASE quality = "empty"
  BY <1>1, <1>2 DEF NewHalf
<1>3. CASE quality = "good"
  <2>1. NewHalf(sentence, quality) = Sent /\ Sent.n = sentence
    BY <1>3 DEF NewHalf, Sent
  <2> QED
    BY <1>1, <1>3, <2>1
<1>4. CASE quality \in Garbled \cup {"bad length"}
  <2>1. NewHalf(sentence, quality) = [n |-> sentence, text |-> "bad"]
    BY <1>4 DEF NewHalf, Garbled
  <2>2. /\ [n |-> sentence, text |-> "bad"] \in Half
        /\ [n |-> sentence, text |-> "bad"].n = sentence
        /\ [n |-> sentence, text |-> "bad"].text = "bad"
    BY DEF Half
  <2> QED
    BY <1>1, <1>4, <2>1, <2>2 DEF Garbled
<1> QED
  BY <1>2, <1>3, <1>4 DEF Quality, Garbled

\* No half is there at the start.
LEMMA InitInv == Init => IInv
<1> SUFFICES ASSUME Init PROVE IInv
  OBVIOUS
<1>1. overrun \in BOOLEAN
  BY DEF Init
<1> QED
  BY <1>1, SentencesAssumption, KindOfKind
     DEF Init, IInv, TypeOK, OfKind, Half, NoHalves, NoHalf, Sent

\* The sonde goes on: nothing of the new sentence has come.
LEMMA NextFrameInv == IInv /\ NextFrame => IInv'
<1> SUFFICES ASSUME IInv, NextFrame PROVE IInv'
  OBVIOUS
<1> USE SentencesAssumption, KindOfKind
<1>1. CASE form = "split" /\ part = 1
  BY <1>1 DEF IInv, TypeOK, NextFrame, gpsVars, OfKind, Sent, Half
<1>2. CASE ~(form = "split" /\ part = 1)
  <2>1. /\ sentence' = sentence + 1 /\ sentence < Sentences /\ progress' = "nothing"
        /\ count' = 0 /\ part' = 1 /\ form' \in {"whole", "split"}
        /\ half' = half /\ last' = last /\ reported' = reported /\ overrun' = overrun
    BY <1>2 DEF NextFrame, gpsVars
  <2>2. TypeOK'
    BY <2>1 DEF IInv, TypeOK, OfKind, Half
  <2> QED
    BY <2>1, <2>2 DEF IInv, TypeOK, Half
<1> QED
  BY <1>1, <1>2

\* After each case of a received frame, the one that overruns the buffers
\* included: of what happens from there on no more is said.
LEMMA ReceiveInv ==
  ASSUME IInv, NEW quality \in Quality, Receive(quality)
  PROVE  IInv'
<1> DEFINE h == NewHalf(sentence, quality)
<1> USE SentencesAssumption, KindOfKind DEF Garbled
<1>1. PICK k \in Kind, shape \in {"whole", "first", "second"} :
        /\ quality \notin Garbled => k = KindOf(sentence) /\ shape = Shape
        /\ Process(k, shape, h, quality)
  BY DEF Receive
<1>2. /\ count < 2 /\ progress' = Came(quality)
      /\ sentence' = sentence /\ form' = form /\ part' = part /\ Sent' = Sent
      /\ overrun' \in BOOLEAN
  BY <1>1 DEF Receive, Sent, Process, Overrun, IInv, TypeOK
<1>3. /\ h \in Half /\ (quality = "good" => h = Sent) /\ (h.text = "good" => quality = "good")
      /\ (h # NoHalf => h.n = sentence)
      /\ NoHalf \in Half /\ NoHalf.text = "bad" /\ Sent # NoHalf /\ Sent.text = "good"
  BY NewHalfFacts DEF IInv, TypeOK
<1>4. OfKind(k, h) /\ OfKind(k, NoHalf)
  BY <1>1, <1>3 DEF OfKind, Sent
<1>5. IInv /\ half \in [Kind -> Half] /\ last \in [Kind -> Half \X Half]
      /\ half[k] \in Half /\ reported \in Nat /\ sentence \in 1..Sentences
      /\ reported <= sentence /\ count \in 0..2
  BY <1>1 DEF IInv, TypeOK, Half
<1>6. progress' \in {"nothing", "first", "both"}
  BY <1>2 DEF Came, IInv, TypeOK
<1>7. CASE Refuse /\ UNCHANGED overrun /\ quality = "bad length"
  <2>1. UNCHANGED vars
    BY <1>2, <1>7 DEF Came, Refuse, gpsVars, linkVars, vars
  <2> QED
    BY <2>1 DEF IInv, TypeOK, OfKind, Half, vars, gpsVars, linkVars, Sent
<1>8. CASE Refuse /\ shape = "second" /\ half[k] = NoHalf
  <2>1. UNCHANGED <<half, last, reported, count>>
    BY <1>8 DEF Refuse, gpsVars
  <2>2. progress' \in {"nothing", progress}
    <3>1. CASE quality \in Garbled
      BY <1>2, <3>1 DEF Came
    <3>2. CASE quality \notin Garbled
      <4>1. k = KindOf(sentence) /\ part = 2
        BY <1>1, <1>8, <3>2 DEF Shape, IInv, TypeOK
      <4>2. progress # "first"
        BY <1>3, <1>8, <4>1 DEF IInv
      <4> QED
        BY <1>2, <3>2, <4>1, <4>2 DEF Came
    <3> QED
      BY <3>1, <3>2
  <2>3. TypeOK'
    BY <1>2, <1>6, <2>1 DEF IInv, TypeOK, OfKind, Half
  <2>4. /\ progress' = "first" => form = "split" /\ half[KindOf(sentence)] = Sent
        /\ progress' = "both" =>
             /\ form = "split" /\ part = 2 /\ half[KindOf(sentence)] = NoHalf
             /\ reported = sentence /\ last[KindOf(sentence)] = <<Sent, Sent>>
    BY <2>2 DEF IInv
  <2>5. /\ \A j \in Kind : half[j] # NoHalf => half[j].n \in reported..sentence
        /\ form = "split" =>
             /\ count <= 1
             /\ part = 1 => count = 0
             /\ count = 1 => \A j \in Kind : half[j] # Sent
    BY DEF IInv
  <2> QED
    BY <1>2, <1>5, <2>1, <2>3, <2>4, <2>5 DEF IInv
<1>9. CASE quality # "bad length" /\ shape = "whole" /\ Whole(k, h)
  <2>1. half' = NoHalves /\ last' = last
    BY <1>9 DEF Whole, Validate
  <2>2. progress' = "nothing"
    BY <1>1, <1>2, <1>9 DEF Came, Shape, IInv, TypeOK
  <2>3. /\ form = "split" => UNCHANGED <<reported, count>>
        /\ UNCHANGED <<reported, count>> \/ (reported' = sentence /\ count' = count + 1)
    <3>1. CASE Valid(h, h)
      <4>1. quality = "good" /\ h = Sent
        BY <1>3, <3>1 DEF Valid
      <4>2. form = "whole"
        BY <1>1, <1>9, <4>1 DEF Shape
      <4>3. reported' = sentence /\ count' = count + 1
        BY <1>9, <3>1, <4>1 DEF Whole, Validate, Sent
      <4> QED
        BY <4>2, <4>3
    <3>2. CASE ~Valid(h, h)
      BY <1>9, <3>2 DEF Whole, Validate
    <3> QED
      BY <3>1, <3>2
  <2>4. reported' \in 0..Sentences /\ reported' <= sentence /\ count' \in 0..2
    BY <1>2, <1>5, <2>3 DEF IInv, TypeOK
  <2>5. TypeOK'
    BY <1>2, <1>3, <1>6, <2>1, <2>4 DEF IInv, TypeOK, OfKind, NoHalves
  <2>6. \A j \in Kind : half'[j] = NoHalf
    BY <2>1 DEF NoHalves
  <2>7. form = "split" => count' <= 1 /\ (part = 1 => count' = 0)
    BY <2>3 DEF IInv
  <2> QED
    BY <1>2, <1>3, <2>2, <2>4, <2>5, <2>6, <2>7 DEF IInv
<1>10. CASE quality # "bad length" /\ shape = "first" /\ First(k, h)
  <2>1. half' = [half EXCEPT ![k] = h] /\ UNCHANGED <<last, reported, count>>
    BY <1>10 DEF First
  <2>2. TypeOK'
    BY <1>2, <1>3, <1>4, <1>5, <1>6, <2>1 DEF IInv, TypeOK, OfKind
  <2>3. \A j \in Kind : half'[j] = IF j = k THEN h ELSE half[j]
    BY <1>5, <2>1
  <2>4. \A j \in Kind : half'[j] # NoHalf => half'[j].n \in reported..sentence
    BY <1>3, <1>5, <2>3 DEF IInv
  <2>5. CASE quality \in Garbled
    <3>1. h # Sent /\ progress' = "nothing"
      BY <1>2, <1>3, <2>5 DEF Came
    <3>2. form = "split" =>
            /\ count <= 1
            /\ part = 1 => count = 0
            /\ count = 1 => \A j \in Kind : half'[j] # Sent
      BY <2>3, <3>1 DEF IInv
    <3> QED
      BY <1>2, <1>5, <2>1, <2>2, <2>4, <3>1, <3>2 DEF IInv
  <2>6. CASE quality \notin Garbled
    <3>1. k = KindOf(sentence) /\ form = "split" /\ part = 1 /\ count = 0
      BY <1>1, <1>10, <2>6 DEF Shape, IInv, TypeOK
    <3>2. quality = "good" \/ quality = "empty"
      BY <1>10, <2>6 DEF Quality
    <3>3. progress # "both"
      BY <3>1 DEF IInv
    <3>4. \/ progress' = "nothing"
          \/ progress' = "first" /\ half'[KindOf(sentence)] = Sent
      <4>1. CASE quality = "good"
        <5>1. progress' = "first"
          BY <1>2, <3>1, <4>1 DEF Came
        <5>2. half'[KindOf(sentence)] = Sent
          BY <1>3, <2>3, <3>1, <4>1
        <5> QED
          BY <5>1, <5>2
      <4>2. CASE quality = "empty"
        BY <1>2, <3>1, <4>2 DEF Came
      <4> QED
        BY <3>2, <4>1, <4>2
    <3> QED
      BY <1>2, <1>5, <2>1, <2>2, <2>4, <3>1, <3>4 DEF IInv
  <2> QED
    BY <2>5, <2>6
<1>11. CASE quality # "bad length" /\ shape = "second" /\ Second(k, h)
  <2>1. /\ half[k] # NoHalf /\ half' = NoHalves
        /\ last' = [last EXCEPT ![k] = <<half[k], h>>]
        /\ IF Valid(half[k], h)
           THEN reported' = h.n /\ count' = count + 1
           ELSE UNCHANGED <<reported, count>>
    BY <1>11 DEF Second, Validate
  <2>2. \A j \in Kind : half'[j] = NoHalf
    BY <2>1 DEF NoHalves
  <2>3. ASSUME Valid(half[k], h)
        PROVE  /\ half[k] = Sent /\ h = Sent /\ reported' = sentence
               /\ form = "split" /\ part = 2 /\ count' = 1
    <3>1. quality = "good" /\ h = Sent
      BY <1>3, <2>3 DEF Valid
    <3>2. half[k].text = "good" /\ half[k].n = sentence
      BY <2>3, <3>1 DEF Valid, Sent
    <3>3. half[k] = Sent
      BY <1>5, <3>2 DEF Half, Sent
    <3>4. form = "split" /\ part = 2
      BY <1>1, <1>11, <3>1 DEF Shape, IInv, TypeOK
    <3>5. count = 0
      BY <1>5, <3>3, <3>4 DEF IInv
    <3>6. reported' = sentence /\ count' = 1
      BY <2>1, <2>3, <3>1, <3>5 DEF Sent
    <3> QED
      BY <3>1, <3>3, <3>4, <3>6
  <2>4. reported' \in 0..Sentences /\ reported' <= sentence /\ count' \in 0..2
    BY <1>5, <2>1, <2>3 DEF IInv, TypeOK
  <2>5. OfKind(k, half[k]) /\ <<half[k], h>> \in Half \X Half
    BY <1>3, <1>5 DEF IInv, TypeOK
  <2>6. last' \in [Kind -> Half \X Half]
    BY <1>5, <2>1, <2>5
  <2>7. \A j \in Kind : OfKind(j, last'[j][1]) /\ OfKind(j, last'[j][2])
    BY <1>4, <1>5, <2>1, <2>5 DEF IInv, TypeOK
  <2>8. half' \in [Kind -> Half] /\ \A j \in Kind : OfKind(j, half'[j])
    BY <1>3, <2>1, <2>2 DEF NoHalves, OfKind
  <2>9. TypeOK'
    BY <1>2, <1>6, <2>4, <2>6, <2>7, <2>8 DEF IInv, TypeOK, OfKind
  <2>10. form = "split" => count' <= 1 /\ (part = 1 => count' = 0)
    BY <2>1, <2>3 DEF IInv
  <2>11. \/ progress' = "nothing"
         \/ /\ progress' = "both" /\ form = "split" /\ part = 2
            /\ reported' = sentence /\ last'[KindOf(sentence)] = <<Sent, Sent>>
    <3>1. CASE quality \in Garbled
      BY <1>2, <3>1 DEF Came
    <3>2. CASE quality \notin Garbled
      <4>1. k = KindOf(sentence) /\ form = "split" /\ part = 2
        BY <1>1, <1>11, <3>2 DEF Shape, IInv, TypeOK
      <4>2. progress # "both"
        BY <2>1, <4>1 DEF IInv
      <4>3. CASE progress = "first" /\ quality = "good"
        <5>1. half[k] = Sent /\ h = Sent
          BY <1>3, <4>1, <4>3 DEF IInv
        <5>2. Valid(half[k], h)
          BY <1>3, <5>1 DEF Valid
        <5>3. last'[k] = <<Sent, Sent>>
          BY <1>5, <2>1, <5>1
        <5>4. progress' = "both"
          BY <1>2, <4>1, <4>3 DEF Came
        <5> QED
          BY <2>3, <4>1, <5>2, <5>3, <5>4
      <4>4. CASE ~(progress = "first" /\ quality = "good")
        <5>1. quality = "good" \/ quality = "empty"
          BY <1>11, <3>2 DEF Quality
        <5>2. progress = "nothing" \/ progress = "first"
          BY <4>2 DEF IInv, TypeOK
        <5>3. progress' = "nothing"
          BY <1>2, <4>1, <4>4, <5>1, <5>2 DEF Came
        <5> QED
          BY <5>3
      <4> QED
        BY <4>3, <4>4
    <3> QED
      BY <3>1, <3>2
  <2> QED
    BY <1>2, <1>3, <2>2, <2>4, <2>9, <2>10, <2>11 DEF IInv
<1>12. CASE quality = "overlong" /\ Overrun(k)
  <2>1. /\ UNCHANGED <<half, last, reported, count>> /\ progress' = "nothing"
    BY <1>2, <1>12 DEF Overrun, Came, gpsVars
  <2>2. TypeOK'
    BY <1>2, <2>1 DEF IInv, TypeOK, OfKind, Half
  <2> QED
    BY <1>2, <1>5, <2>1, <2>2 DEF IInv
<1> QED
  BY <1>1, <1>7, <1>8, <1>9, <1>10, <1>11, <1>12 DEF Process

\* A step that changes nothing.
LEMMA StutterInv == IInv /\ UNCHANGED vars => IInv'
BY DEF IInv, TypeOK, OfKind, Half, Sent, vars, gpsVars, linkVars

\* The invariant the theorems below rest on holds for any link.
THEOREM Invariant == Spec => []IInv
<1>1. IInv /\ [Next]_vars => IInv'
  BY NextFrameInv, ReceiveInv, StutterInv DEF Next
<1> QED
  BY InitInv, <1>1, PTL DEF Spec

\* As long as no second half came that is too long for the buffers, a split
\* sentence whose halves both come in order is reported, and only once
\* (processGPSPacket), whatever is lost, repeated or garbled before or after.
THEOREM SentencesSafe == Spec => [](TypeOK /\ BothHalvesReported /\ ReportedOnce)
<1>1. IInv => TypeOK /\ BothHalvesReported /\ ReportedOnce
  BY KindOfKind DEF IInv, BothHalvesReported, ReportedOnce, Sent
<1> QED
  BY Invariant, <1>1, PTL

\* What becomes a last sentence is joined from a first half that is no older
\* than the sentence reported last, up to a step that overruns the buffers.
THEOREM HalvesFresh == Spec => FreshHalves
<1>1. ASSUME IInv, [Next]_vars
      PROVE  [~overrun' => \A k \in Kind : last'[k] # last[k] => last'[k][1].n >= reported]_vars
  <2>1. CASE UNCHANGED vars
    BY <2>1
  <2>2. CASE NextFrame
    BY <2>2 DEF NextFrame, gpsVars
  <2>3. ASSUME NEW quality \in Quality, Receive(quality), NEW j \in Kind, last'[j] # last[j]
        PROVE  last'[j][1].n >= reported
    <3>1. PICK k \in Kind, shape \in {"whole", "first", "second"} :
            Process(k, shape, NewHalf(sentence, quality), quality)
      BY <2>3 DEF Receive
    <3>2. /\ half[k] # NoHalf
          /\ last' = [last EXCEPT ![k] = <<half[k], NewHalf(sentence, quality)>>]
      BY <2>3, <3>1 DEF Process, Refuse, gpsVars, Whole, First, Second, Overrun
    <3>3. last'[j] = <<half[k], NewHalf(sentence, quality)>>
      BY <1>1, <2>3, <3>2 DEF IInv, TypeOK
    <3> QED
      BY <1>1, <3>2, <3>3 DEF IInv, TypeOK, Half
  <2> QED
    BY <1>1, <2>1, <2>2, <2>3 DEF Next
<1> QED
  BY Invariant, <1>1, PTL DEF Spec, FreshHalves

\* Whatever comes of the frames, the halves kept are halves of sentences sent.
THEOREM TypeCorrect == Spec => []TypeOK
BY SentencesSafe, PTL

\* No sentence is reported twice, whatever frames are repeated, as long as no
\* buffer was overrun.
THEOREM NoneReportedTwice == Spec => []ReportedOnce
BY SentencesSafe, PTL
=============================================================================
