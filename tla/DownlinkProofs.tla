--------------------------- MODULE DownlinkProofs ---------------------------
(***************************************************************************)
(* The picture files are handled safely for every set of pictures, chunk   *)
(* numbers and streams and every order of packets; and what becomes of one *)
(* sonde's pictures, for every number of pictures and chunks and every     *)
(* loss, damage and repetition of frames.                                  *)
(***************************************************************************)
EXTENDS Downlink, FiniteSetTheorems, TLAPS

(* Any packets in any order: module ImageFile.                              *)

\* The three invariants are inductive together: a chunk may only be added to
\* a file without an end record because StreamsValid ties a stream to its
\* picture and ShippedWhole says that a picture with an end record has none.
IInv == TypeOK /\ StreamsValid /\ ShippedWhole

Content == Seq(Seqnum) \cup {NoFile}

LEMMA InitInv == Init => IInv
BY DEF Init, IInv, TypeOK, StreamsValid, ShippedWhole, AllNull, NoContent

LEMMA UnchangedInv == IInv /\ UNCHANGED vars => IInv'
BY DEF vars, files, IInv, TypeOK, StreamsValid, ShippedWhole

LEMMA StartInv ==
  ASSUME IInv, NEW id \in Id, NEW quality \in Quality, Start(id, quality)
  PROVE  IInv'
<1>1. CASE StartBroken
  BY <1>1 DEF StartBroken, files, IInv, TypeOK, StreamsValid, ShippedWhole
<1>2. ASSUME NEW img \in Fopen, NEW sq \in Fopen, img = sq => img = NULL,
             StartPicture(id, img, sq)
      PROVE  IInv'
  <2>1. << >> \in Seq(Seqnum)
    OBVIOUS
  <2>2. /\ img \in Stream \cup {NULL} /\ sq \in Stream \cup {NULL}
        /\ open' \subseteq Stream
        /\ img # NULL => img \in open'
        /\ sq # NULL => sq \in open'
    BY <1>2 DEF IInv, TypeOK, Fopen, StartPicture
  <2>3. /\ fptr' \in [Id -> Stream \cup {NULL}] /\ fptr'[id] = img
        /\ fptrSeq' \in [Id -> Stream \cup {NULL}] /\ fptrSeq'[id] = sq
        /\ \A p \in Id : p # id => fptr'[p] = NULL /\ fptrSeq'[p] = NULL
    BY <1>2, <2>2 DEF StartPicture, AllNull
  <2>4. /\ imageFile' \in [Id -> Content] /\ seqFile' \in [Id -> Content]
        /\ shipped' \in [Id -> Content]
        /\ imageFile'[id] = IF img = NULL THEN NoFile ELSE << >>
        /\ seqFile'[id] = IF sq = NULL THEN NoFile ELSE << >>
        /\ shipped'[id] = NoFile
        /\ \A p \in Id : p # id => seqFile'[p] = seqFile[p] /\ shipped'[p] = shipped[p]
    BY <1>2, <2>1 DEF IInv, TypeOK, StartPicture, Content
  <2>5. /\ prevSeq' = -1 /\ imageFileID' = id
        /\ ended' = ended \ {id} /\ ended' \subseteq Id
    BY <1>2 DEF IInv, TypeOK, StartPicture
  <2>6. TypeOK'
    BY <2>2, <2>3, <2>4, <2>5 DEF TypeOK, Content
  <2>7. StreamsValid'
    BY <1>2, <2>1, <2>2, <2>3, <2>4, <2>5, NoFileAssumption DEF StreamsValid
  <2>8. ShippedWhole'
    BY <2>3, <2>4, <2>5 DEF IInv, ShippedWhole
  <2> QED
    BY <2>6, <2>7, <2>8 DEF IInv
<1> QED
  BY <1>1, <1>2 DEF Start

LEMMA ImageDataInv ==
  ASSUME IInv, NEW id \in Id, NEW n \in Seqnum, NEW quality \in Quality,
         ImageData(id, n, quality)
  PROVE  IInv'
<1>1. CASE fptr[id] # NULL /\ WriteChunk(id, n)
             /\ UNCHANGED <<imageFileID, fptr, fptrSeq, open, ended, shipped>>
  <2>1. imageFile[id] \in Seq(Seqnum) /\ (fptrSeq[id] # NULL => seqFile[id] \in Seq(Seqnum))
    BY <1>1 DEF IInv, TypeOK, StreamsValid
  <2>2. /\ Append(imageFile[id], n) \in Seq(Seqnum)
        /\ fptrSeq[id] # NULL => Append(seqFile[id], n) \in Seq(Seqnum)
    BY <2>1
  <2>3. /\ imageFile' \in [Id -> Content] /\ imageFile'[id] # NoFile
        /\ \A p \in Id : p # id => imageFile'[p] = imageFile[p]
    BY <1>1, <2>1, <2>2, NoFileAssumption DEF IInv, TypeOK, WriteChunk, Content
  <2>4. /\ seqFile' \in [Id -> Content]
        /\ fptrSeq[id] # NULL => seqFile'[id] # NoFile
        /\ \A p \in Id : p # id => seqFile'[p] = seqFile[p]
    BY <1>1, <2>1, <2>2, NoFileAssumption DEF IInv, TypeOK, WriteChunk, Content
  <2>5. id \notin ended
    BY <1>1 DEF IInv, ShippedWhole
  <2>6. TypeOK'
    BY <1>1, <2>3, <2>4 DEF IInv, TypeOK, WriteChunk, Content
  <2>7. StreamsValid'
    BY <1>1, <2>3, <2>4 DEF IInv, StreamsValid
  <2>8. ShippedWhole'
    BY <1>1, <2>4, <2>5 DEF IInv, ShippedWhole
  <2> QED
    BY <2>6, <2>7, <2>8 DEF IInv
<1>2. CASE UNCHANGED vars
  BY <1>2, UnchangedInv
<1> QED
  BY <1>1, <1>2 DEF ImageData

LEMMA EndInv ==
  ASSUME IInv, NEW id \in Id, NEW quality \in Quality, End(id, quality)
  PROVE  IInv'
<1>1. CASE id = imageFileID /\ Finish(id)
             /\ UNCHANGED <<prevSeq, imageFileID, imageFile, seqFile>>
  <2>1. \A p \in Id : p # id => fptr[p] = NULL /\ fptrSeq[p] = NULL
    BY <1>1 DEF IInv, StreamsValid
  <2>2. fptr' = AllNull
    <3>1. fptr[id] = NULL => fptr = AllNull
      BY <2>1 DEF IInv, TypeOK, AllNull
    <3> QED
      BY <1>1, <3>1 DEF Finish
  <2>3. fptrSeq' = AllNull
    <3>1. fptrSeq[id] = NULL => fptrSeq = AllNull
      BY <2>1 DEF IInv, TypeOK, AllNull
    <3> QED
      BY <1>1, <3>1 DEF Finish
  <2>4. fptrSeq[id] # NULL =>
          /\ ended' = ended \cup {id} /\ seqFile[id] # NoFile
          /\ shipped' = [shipped EXCEPT ![id] = seqFile[id]]
    BY <1>1 DEF Finish, IInv, StreamsValid
  <2>5. fptrSeq[id] = NULL => ended' = ended /\ shipped' = shipped
    BY <1>1 DEF Finish
  <2>6. TypeOK'
    BY <1>1, <2>2, <2>3, <2>4, <2>5 DEF IInv, TypeOK, Finish, AllNull
  <2>7. StreamsValid'
    BY <2>2, <2>3 DEF StreamsValid, AllNull
  <2>8. ShippedWhole'
    BY <1>1, <2>2, <2>3, <2>4, <2>5 DEF IInv, TypeOK, ShippedWhole, AllNull
  <2> QED
    BY <2>6, <2>7, <2>8 DEF IInv
<1>2. CASE UNCHANGED vars
  BY <1>2, UnchangedInv
<1> QED
  BY <1>1, <1>2 DEF End

LEMMA StepInv == IInv /\ [Next]_vars => IInv'
BY StartInv, ImageDataInv, EndInv, UnchangedInv DEF Next

\* No packets, in whatever order, make the program write through a stream it
\* has closed, write to a picture other than the one started last, or add to
\* a sequence file that was ended and uploaded.
THEOREM FilesSafe == Spec => [](TypeOK /\ StreamsValid /\ ShippedWhole)
<1>1. IInv => TypeOK /\ StreamsValid /\ ShippedWhole
  BY DEF IInv
<1> QED
  BY <1>1, InitInv, StepInv, PTL DEF Spec

\* After any packets, pointers name streams or nothing and files hold chunks.
THEOREM TypeCorrect == Spec => []TypeOK
BY FilesSafe, PTL

\* After any packets, what was uploaded is what the closed sequence file holds.
THEOREM UploadsWhole == Spec => []ShippedWhole
BY FilesSafe, PTL

-----------------------------------------------------------------------------
\* The picture follows its sequence file.  An image stream is only open without
\* a sequence stream when there is no sequence file, so the two files grow
\* together; and prevSeq, which decides what the picture takes, is either
\* forgotten or a number the sequence file holds.
Following ==
  /\ PictureFollowsSequence
  /\ \A id \in Id : fptr[id] # NULL /\ seqFile[id] # NoFile =>
       fptrSeq[id] # NULL /\ prevSeq \in {-1} \cup Numbers(seqFile[id])

LEMMA AppendNumbers ==
  ASSUME NEW s \in Seq(Seqnum), NEW n \in Seqnum
  PROVE  /\ Append(s, n) \in Seq(Seqnum) /\ Len(Append(s, n)) = Len(s) + 1
         /\ Numbers(Append(s, n)) = Numbers(s) \cup {n}
<1>1. /\ Len(s) \in Nat /\ Append(s, n) \in Seq(Seqnum) /\ Len(Append(s, n)) = Len(s) + 1
      /\ \A i \in 1..Len(s) : Append(s, n)[i] = s[i]
      /\ Append(s, n)[Len(s) + 1] = n
  OBVIOUS
<1>2. 1..(Len(s) + 1) = (1..Len(s)) \cup {Len(s) + 1}
  BY <1>1
<1> QED
  BY <1>1, <1>2 DEF Numbers

LEMMA EmbedsLonger ==
  ASSUME NEW s \in Seq(Seqnum), NEW t \in Seq(Seqnum), NEW n \in Seqnum, Embeds(s, t)
  PROVE  Embeds(s, Append(t, n))
<1>1. PICK f \in [1..Len(s) -> 1..Len(t)] :
        /\ \A i, j \in 1..Len(s) : i < j => f[i] < f[j]
        /\ \A i \in 1..Len(s) : s[i] = t[f[i]]
  BY DEF Embeds
<1>2. /\ Len(t) \in Nat /\ Len(Append(t, n)) = Len(t) + 1
      /\ \A i \in 1..Len(t) : Append(t, n)[i] = t[i]
  OBVIOUS
<1>3. f \in [1..Len(s) -> 1..Len(Append(t, n))]
  BY <1>1, <1>2
<1>4. \A i \in 1..Len(s) : s[i] = Append(t, n)[f[i]]
  BY <1>1, <1>2
<1> QED
  BY <1>1, <1>3, <1>4 DEF Embeds

LEMMA EmbedsBoth ==
  ASSUME NEW s \in Seq(Seqnum), NEW t \in Seq(Seqnum), NEW n \in Seqnum, Embeds(s, t)
  PROVE  Embeds(Append(s, n), Append(t, n))
<1> DEFINE sn == Append(s, n)
           tn == Append(t, n)
<1>1. PICK f \in [1..Len(s) -> 1..Len(t)] :
        /\ \A i, j \in 1..Len(s) : i < j => f[i] < f[j]
        /\ \A i \in 1..Len(s) : s[i] = t[f[i]]
  BY DEF Embeds
<1>2. /\ Len(s) \in Nat /\ Len(sn) = Len(s) + 1 /\ sn[Len(s) + 1] = n
      /\ \A i \in 1..Len(s) : sn[i] = s[i]
      /\ Len(t) \in Nat /\ Len(tn) = Len(t) + 1 /\ tn[Len(t) + 1] = n
      /\ \A i \in 1..Len(t) : tn[i] = t[i]
  OBVIOUS
<1> DEFINE g == [i \in 1..Len(sn) |-> IF i = Len(sn) THEN Len(tn) ELSE f[i]]
<1>3. \A i \in 1..Len(sn) : i = Len(sn) \/ (i \in 1..Len(s) /\ i # Len(sn))
  BY <1>2
<1>4. \A i \in 1..Len(s) : i \in 1..Len(sn) /\ i # Len(sn) /\ g[i] = f[i] /\ f[i] \in 1..Len(t)
  BY <1>1, <1>2
<1>5. Len(sn) \in 1..Len(sn) /\ g[Len(sn)] = Len(tn) /\ Len(tn) \in 1..Len(tn)
  BY <1>2
<1>6. g \in [1..Len(sn) -> 1..Len(tn)]
  <2>1. \A i \in 1..Len(sn) : (IF i = Len(sn) THEN Len(tn) ELSE f[i]) \in 1..Len(tn)
    BY <1>2, <1>3, <1>4, <1>5
  <2> QED
    BY <2>1
<1> HIDE DEF g
<1>7. ASSUME NEW i \in 1..Len(sn), NEW j \in 1..Len(sn), i < j
      PROVE  g[i] < g[j]
  <2>1. i \in 1..Len(s)
    BY <1>2, <1>7
  <2>2. CASE j = Len(sn)
    BY <1>2, <1>4, <1>5, <2>1, <2>2
  <2>3. CASE j \in 1..Len(s)
    BY <1>1, <1>4, <1>7, <2>1, <2>3
  <2> QED
    BY <1>3, <2>2, <2>3
<1>8. ASSUME NEW i \in 1..Len(sn) PROVE sn[i] = tn[g[i]]
  <2>1. CASE i = Len(sn)
    BY <1>2, <1>5, <2>1
  <2>2. CASE i \in 1..Len(s)
    <3>1. g[i] = f[i] /\ f[i] \in 1..Len(t) /\ sn[i] = s[i] /\ s[i] = t[f[i]]
      BY <1>1, <1>2, <1>4, <2>2
    <3> QED
      BY <1>2, <3>1
  <2> QED
    BY <1>3, <2>1, <2>2
<1> QED
  BY <1>6, <1>7, <1>8 DEF Embeds

\* A record of the longer sequence is one of the shorter or above all of it.
LEMMA HighsLonger ==
  ASSUME NEW s \in Seq(Seqnum), NEW n \in Seqnum, NEW h \in RecordHighs(Append(s, n))
  PROVE  h \in RecordHighs(s) \/ (h = n /\ \A m \in Numbers(s) : m < n)
<1>1. /\ Len(s) \in Nat /\ Len(Append(s, n)) = Len(s) + 1
      /\ Append(s, n)[Len(s) + 1] = n
      /\ \A i \in 1..Len(s) : Append(s, n)[i] = s[i]
  OBVIOUS
<1>2. PICK i \in 1..(Len(s) + 1) :
        h = Append(s, n)[i] /\ \A j \in 1..(i - 1) : Append(s, n)[j] < Append(s, n)[i]
  BY <1>1 DEF RecordHighs
<1>3. \A j \in 1..(i - 1) : j \in 1..Len(s)
  BY <1>1, <1>2
<1>4. CASE i = Len(s) + 1
  <2>1. \A j \in 1..Len(s) : s[j] < n
    BY <1>1, <1>2, <1>4
  <2> QED
    BY <1>1, <1>2, <1>4, <2>1 DEF Numbers
<1>5. CASE i \in 1..Len(s)
  <2>1. h = s[i] /\ \A j \in 1..(i - 1) : s[j] < s[i]
    BY <1>1, <1>2, <1>3, <1>5
  <2> QED
    BY <1>5, <2>1 DEF RecordHighs
<1> QED
  BY <1>1, <1>2, <1>4, <1>5

LEMMA EmptyFollows ==
  Embeds(<< >>, << >>) /\ RecordHighs(<< >>) = {}
<1>1. Len(<< >>) = 0 /\ 1..0 = {} /\ << >> \in [{} -> {}]
  OBVIOUS
<1> QED
  BY <1>1 DEF Embeds, RecordHighs

LEMMA FollowInit == Init => Following
BY DEF Init, Following, PictureFollowsSequence, NoContent, AllNull

LEMMA FollowUnchanged == ASSUME Following, UNCHANGED vars PROVE Following'
BY DEF Following, PictureFollowsSequence, vars, files

LEMMA FollowStart ==
  ASSUME IInv, Following, NEW id \in Id, NEW quality \in Quality, Start(id, quality)
  PROVE  Following'
<1>1. CASE StartBroken
  BY <1>1 DEF StartBroken, files, Following, PictureFollowsSequence
<1>2. ASSUME NEW img \in Fopen, NEW sq \in Fopen, StartPicture(id, img, sq)
      PROVE  Following'
  <2>1. /\ fptr' = [AllNull EXCEPT ![id] = img] /\ fptrSeq' = [AllNull EXCEPT ![id] = sq]
        /\ prevSeq' = -1
        /\ imageFile'[id] = IF img = NULL THEN NoFile ELSE << >>
        /\ seqFile'[id] = IF sq = NULL THEN NoFile ELSE << >>
        /\ \A p \in Id : p # id => imageFile'[p] = imageFile[p] /\ seqFile'[p] = seqFile[p]
    BY <1>2 DEF StartPicture, IInv, TypeOK
  <2>2. \A p \in Id : p # id => fptr'[p] = NULL
    BY <2>1 DEF AllNull
  <2>3. fptrSeq'[id] = sq
    BY <2>1 DEF AllNull
  <2>4. PictureFollowsSequence'
    BY <2>1, EmptyFollows DEF Following, PictureFollowsSequence
  <2> QED
    BY <2>1, <2>2, <2>3, <2>4 DEF Following
<1> QED
  BY <1>1, <1>2 DEF Start

\* The chunk that a picture does not take is no record: prevSeq is above it or
\* equal to it, and in the sequence file.
LEMMA FollowImageData ==
  ASSUME IInv, Following, NEW id \in Id, NEW n \in Seqnum, NEW quality \in Quality,
         ImageData(id, n, quality)
  PROVE  Following'
<1>1. CASE fptr[id] # NULL /\ WriteChunk(id, n)
             /\ UNCHANGED <<imageFileID, fptr, fptrSeq, open, ended, shipped>>
  <2>1. /\ \A p \in Id : p # id => imageFile'[p] = imageFile[p] /\ seqFile'[p] = seqFile[p]
        /\ \A p \in Id : p # id => fptr[p] = NULL
        /\ imageFile[id] \in Seq(Seqnum)
        /\ prevSeq' = n /\ n \in Nat
    BY <1>1, SeqnumAssumption DEF WriteChunk, IInv, TypeOK, StreamsValid
  <2>2. CASE seqFile[id] # NoFile
    <3> DEFINE image == imageFile[id]
               seq   == seqFile[id]
    <3>1. /\ fptrSeq[id] # NULL /\ prevSeq \in {-1} \cup Numbers(seq)
          /\ image # NoFile /\ seq \in Seq(Seqnum)
      BY <1>1, <2>2 DEF Following, IInv, TypeOK, StreamsValid
    <3>2. Embeds(image, seq) /\ RecordHighs(seq) \subseteq Numbers(image)
      BY <2>2, <3>1 DEF Following, PictureFollowsSequence, Numbers
    <3>3. seqFile'[id] = Append(seq, n)
      BY <1>1, <3>1 DEF WriteChunk, IInv, TypeOK
    <3>4. n \in Numbers(seqFile'[id])
      BY <3>1, <3>3, AppendNumbers
    <3>5. Embeds(imageFile'[id], seqFile'[id]) /\ RecordHighs(seqFile'[id]) \subseteq Numbers(imageFile'[id])
      <4>1. CASE n > prevSeq
        <5>1. imageFile'[id] = Append(image, n)
          BY <1>1, <4>1 DEF WriteChunk, IInv, TypeOK
        <5>2. Numbers(imageFile'[id]) = Numbers(image) \cup {n}
          BY <2>1, <5>1, AppendNumbers
        <5> QED
          BY <2>1, <3>1, <3>2, <3>3, <5>1, <5>2, EmbedsBoth, HighsLonger
      <4>2. CASE ~(n > prevSeq)
        <5>1. imageFile'[id] = image
          BY <1>1, <4>2 DEF WriteChunk
        <5>2. prevSeq \in Numbers(seq) /\ ~(prevSeq < n)
          BY <2>1, <3>1, <4>2
        <5>3. \A h \in RecordHighs(Append(seq, n)) : h \in RecordHighs(seq)
          BY <3>1, <5>2, HighsLonger
        <5> QED
          BY <2>1, <3>1, <3>2, <3>3, <5>1, <5>3, EmbedsLonger
      <4> QED
        BY <4>1, <4>2
    <3>6. PictureFollowsSequence'
      <4>1. ASSUME NEW p \in Id, imageFile'[p] # NoFile, seqFile'[p] # NoFile
            PROVE  /\ Embeds(imageFile'[p], seqFile'[p])
                   /\ RecordHighs(seqFile'[p]) \subseteq Numbers(imageFile'[p])
        <5>1. CASE p = id
          BY <3>5, <5>1
        <5>2. CASE p # id
          BY <2>1, <4>1, <5>2 DEF Following, PictureFollowsSequence, Numbers
        <5> QED
          BY <5>1, <5>2
      <4> QED
        BY <4>1 DEF PictureFollowsSequence, Numbers
    <3> QED
      BY <1>1, <2>1, <3>1, <3>4, <3>6 DEF Following
  <2>3. CASE seqFile[id] = NoFile
    <3>1. seqFile' = seqFile
      BY <1>1, <2>3 DEF WriteChunk, IInv, StreamsValid
    <3>2. PictureFollowsSequence'
      BY <2>1, <2>3, <3>1 DEF Following, PictureFollowsSequence
    <3> QED
      BY <1>1, <2>1, <2>3, <3>1, <3>2 DEF Following
  <2> QED
    BY <2>2, <2>3
<1>2. CASE UNCHANGED vars
  BY <1>2, FollowUnchanged
<1> QED
  BY <1>1, <1>2 DEF ImageData

LEMMA FollowEnd ==
  ASSUME IInv, Following, NEW id \in Id, NEW quality \in Quality, End(id, quality)
  PROVE  Following'
<1>1. CASE id = imageFileID /\ Finish(id)
             /\ UNCHANGED <<prevSeq, imageFileID, imageFile, seqFile>>
  <2>1. \A p \in Id : fptr'[p] = NULL
    BY <1>1 DEF Finish, AllNull, IInv, StreamsValid
  <2> QED
    BY <1>1, <2>1 DEF Following, PictureFollowsSequence
<1>2. CASE UNCHANGED vars
  BY <1>2, FollowUnchanged
<1> QED
  BY <1>1, <1>2 DEF End

LEMMA FollowStep == IInv /\ Following /\ [Next]_vars => Following'
BY FollowStart, FollowImageData, FollowEnd, FollowUnchanged DEF Next

\* After any packets in any order the picture holds chunks of its sequence file,
\* in the same order, and every one that was new when it came.
THEOREM FollowsSequence == Spec => []PictureFollowsSequence
<1>1. Following => PictureFollowsSequence
  BY DEF Following
<1>2. Spec => []IInv
  BY InitInv, StepInv, PTL DEF Spec
<1>3. Spec => []Following
  BY <1>2, FollowInit, FollowStep, PTL DEF Spec
<1> QED
  BY <1>1, <1>3, PTL

-----------------------------------------------------------------------------
(* The frames of one sonde: module Downlink.                                *)

downlinkVars == <<vars, linkVars>>

LinkTypeOK ==
  /\ source \in {"sonde", "several"}
  /\ sending \in Id /\ pos \in 0..(Chunks + 1)
  /\ through \in BOOLEAN /\ disturbed \in BOOLEAN /\ finished \in BOOLEAN
  /\ chunksIn \subseteq Seqnum

\* The files of a picture whose START came through.  prevSeq is the number of a
\* chunk that came, and the highest unless it was forgotten; as frames are not
\* reordered, a chunk not above it is the same one again.
FilesFollow ==
  /\ imageFileID = sending
  /\ \A n \in chunksIn : n < pos
  /\ imageFile[sending] \in Seq(Seqnum) /\ seqFile[sending] \in Seq(Seqnum)
  /\ Numbers(imageFile[sending]) = chunksIn
  /\ Numbers(seqFile[sending]) = chunksIn
  /\ \A i, j \in 1..Len(imageFile[sending]) :
       i < j => imageFile[sending][i] <= imageFile[sending][j]
  /\ prevSeq \in chunksIn \cup {-1}
  /\ ~disturbed =>
       /\ \A n \in chunksIn : n <= prevSeq
       /\ Len(imageFile[sending]) = Cardinality(chunksIn)
  /\ ~finished => fptr[sending] # NULL /\ fptrSeq[sending] # NULL
  /\ finished => shipped[sending] # NoFile /\ Numbers(shipped[sending]) = chunksIn

SondeInv ==
  /\ finished => pos = Chunks + 1
  /\ ~finished => shipped[sending] = NoFile
  /\ \A id \in Id : id > sending => shipped[id] = NoFile
  /\ through => FilesFollow

DInv ==
  /\ IInv /\ LinkTypeOK
  /\ source = "sonde" => SondeInv
  /\ source = "several" => ~through

-----------------------------------------------------------------------------
LEMMA ChunksFinite == ASSUME NEW C \in SUBSET Seqnum PROVE IsFiniteSet(C)
<1>1. IsFiniteSet(0..(Chunks - 1))
  BY SondeAssumption, FS_Interval
<1> QED
  BY <1>1, SondeAssumption, FS_Subset

LEMMA DInit == DownlinkInit => DInv
<1> SUFFICES ASSUME DownlinkInit PROVE DInv
  OBVIOUS
<1>1. /\ source \in {"sonde", "several"} /\ sending = 1 /\ pos = 0 /\ chunksIn = {}
      /\ through = FALSE /\ disturbed = FALSE /\ finished = FALSE
  BY DEF DownlinkInit
<1>2. sending \in Id /\ pos \in 0..(Chunks + 1)
  BY <1>1, SondeAssumption
<1>3. LinkTypeOK
  BY <1>1, <1>2, Zenon DEF LinkTypeOK
<1>4. \A id \in Id : shipped[id] = NoFile
  BY DEF DownlinkInit, Init, NoContent
<1>5. SondeInv /\ ~through
  BY <1>1, <1>2, <1>4 DEF SondeInv
<1> QED
  BY <1>3, <1>5, InitInv DEF DownlinkInit, DInv

\* What a frame does to the files is what one packet, or none, does.
LEMMA LinkStep == ASSUME DInv, DownlinkNext PROVE [Next]_vars
<1>1. sending \in Id
  BY DEF DInv, LinkTypeOK
<1>2. CASE SondeNext
  <2>1. CASE NextFrame
    BY <2>1 DEF NextFrame
  <2>2. ASSUME NEW quality \in Quality, ReceiveStart(quality) PROVE Next
    BY <1>1, <2>2 DEF ReceiveStart, Next
  <2>3. ASSUME NEW quality \in Quality, ReceiveEnd(quality) PROVE Next
    BY <1>1, <2>3 DEF ReceiveEnd, Next
  <2>4. CASE ReceiveChunk
    <3>1. pos - 1 \in Seqnum /\ "intact" \in Quality
      BY <2>4, SondeAssumption DEF ReceiveChunk, Quality
    <3> QED
      BY <1>1, <2>4, <3>1 DEF ReceiveChunk, Next
  <2>5. CASE ReceiveBroken
    <3>1. "broken" \in Quality
      BY DEF Quality
    <3> QED
      BY <1>1, <2>5, <3>1 DEF ReceiveBroken, Next
  <2> QED
    BY <1>2, <2>1, <2>2, <2>3, <2>4, <2>5 DEF SondeNext
<1>3. CASE ReceiveAnything
  BY <1>3 DEF ReceiveAnything
<1> QED
  BY <1>2, <1>3 DEF DownlinkNext

LEMMA StepIInv == ASSUME DInv, DownlinkNext PROVE IInv'
BY LinkStep, StepInv DEF DInv

-----------------------------------------------------------------------------
LEMMA NextFrameInv ==
  ASSUME DInv, source = "sonde", NextFrame
  PROVE  LinkTypeOK' /\ SondeInv'
<1> USE DEF DInv
<1>1. UNCHANGED <<source, vars>> /\ pos \in 0..(Chunks + 1) /\ Chunks \in Nat /\ Pictures \in Nat
  BY SondeAssumption DEF NextFrame, LinkTypeOK
<1>2. CASE pos <= Chunks
  <2>1. pos' = pos + 1 /\ ~finished /\ UNCHANGED <<sending, through, chunksIn, disturbed, finished>>
    BY <1>1, <1>2 DEF NextFrame, SondeInv, LinkTypeOK
  <2>2. LinkTypeOK'
    BY <1>1, <1>2, <2>1 DEF LinkTypeOK
  <2>3. ASSUME through PROVE \A n \in chunksIn : n < pos'
    BY <1>1, <2>1, <2>3, SondeAssumption DEF SondeInv, FilesFollow, LinkTypeOK
  <2> QED
    BY <1>1, <2>1, <2>2, <2>3 DEF SondeInv, FilesFollow, vars, files
<1>3. CASE ~(pos <= Chunks)
  <2>1. /\ sending < Pictures /\ sending' = sending + 1 /\ pos' = 0
        /\ through' = FALSE /\ chunksIn' = {} /\ disturbed' = FALSE /\ finished' = FALSE
    BY <1>3 DEF NextFrame
  <2>2. sending' \in Id /\ sending' > sending
        /\ \A id \in Id : id > sending' => id > sending
    BY <2>1, SondeAssumption DEF LinkTypeOK
  <2>3. LinkTypeOK'
    <3>1. pos' \in 0..(Chunks + 1)
      BY <1>1, <2>1
    <3> QED
      BY <1>1, <2>1, <2>2, <3>1, Zenon DEF LinkTypeOK
  <2>4. shipped'[sending'] = NoFile /\ \A id \in Id : id > sending' => shipped'[id] = NoFile
    BY <1>1, <2>2 DEF SondeInv, vars, files
  <2> QED
    BY <2>1, <2>3, <2>4 DEF SondeInv
<1> QED
  BY <1>2, <1>3

LEMMA ReceiveStartInv ==
  ASSUME DInv, source = "sonde", NEW quality \in Quality, ReceiveStart(quality)
  PROVE  LinkTypeOK' /\ SondeInv'
<1> USE DEF DInv
<1>1. /\ pos = 0 /\ pos' = pos /\ sending' = sending /\ source' = source
      /\ chunksIn' = {} /\ disturbed' = FALSE /\ finished' = finished
      /\ through' = (fptr'[sending] # NULL /\ fptrSeq'[sending] # NULL)
      /\ sending \in Id
  BY DEF ReceiveStart, LinkTypeOK
<1>2. ~finished /\ Chunks \in Nat
  BY <1>1, SondeAssumption DEF SondeInv, LinkTypeOK
<1>3. PICK img, sq \in Fopen : StartPicture(sending, img, sq)
  BY DEF ReceiveStart, Start
<1>4. /\ imageFileID' = sending /\ prevSeq' = -1
      /\ fptr'[sending] = img /\ fptrSeq'[sending] = sq
      /\ imageFile'[sending] = IF img = NULL THEN NoFile ELSE << >>
      /\ seqFile'[sending] = IF sq = NULL THEN NoFile ELSE << >>
      /\ shipped'[sending] = NoFile
      /\ \A id \in Id : id # sending => shipped'[id] = shipped[id]
  BY <1>1, <1>3 DEF StartPicture, IInv, TypeOK, AllNull
<1>5. LinkTypeOK'
  BY <1>1 DEF LinkTypeOK
<1>6. \A id \in Id : id > sending => shipped'[id] = NoFile
  BY <1>1, <1>4, SondeAssumption DEF SondeInv
<1>7. ASSUME through' PROVE FilesFollow'
  <2>1. imageFile'[sending] = << >> /\ seqFile'[sending] = << >>
    BY <1>1, <1>4, <1>7
  <2>2. << >> \in Seq(Seqnum) /\ Numbers(<< >>) = {} /\ Len(<< >>) = 0 /\ Cardinality({}) = 0
    <3>1. Cardinality({}) = 0
      BY FS_EmptySet
    <3>2. Len(<< >>) = 0 /\ 1..0 = {}
      OBVIOUS
    <3> QED
      BY <3>1, <3>2 DEF Numbers
  <2>3. /\ Numbers(imageFile'[sending']) = chunksIn' /\ Numbers(seqFile'[sending']) = chunksIn'
        /\ imageFile'[sending'] \in Seq(Seqnum) /\ seqFile'[sending'] \in Seq(Seqnum)
        /\ Len(imageFile'[sending']) = Cardinality(chunksIn')
    BY <1>1, <2>1, <2>2
  <2>4. /\ \A i, j \in 1..Len(imageFile'[sending']) :
             i < j => imageFile'[sending'][i] <= imageFile'[sending'][j]
        /\ \A m \in chunksIn' : m < pos' /\ m <= prevSeq'
    BY <1>1, <2>1, <2>2
  <2>5. imageFileID' = sending' /\ prevSeq' \in chunksIn' \cup {-1} /\ ~finished'
        /\ fptr'[sending'] # NULL /\ fptrSeq'[sending'] # NULL
    BY <1>1, <1>2, <1>4, <1>7
  <2> QED
    BY <2>3, <2>4, <2>5 DEF FilesFollow
<1> QED
  BY <1>1, <1>2, <1>4, <1>5, <1>6, <1>7 DEF SondeInv

LEMMA ReceiveEndInv ==
  ASSUME DInv, source = "sonde", NEW quality \in Quality, ReceiveEnd(quality)
  PROVE  LinkTypeOK' /\ SondeInv'
<1> USE DEF DInv
<1>1. /\ pos = Chunks + 1 /\ quality # "broken" /\ finished' = TRUE
      /\ UNCHANGED <<source, sending, pos, through, chunksIn, disturbed>>
      /\ sending \in Id
  BY DEF ReceiveEnd, LinkTypeOK
<1>2. UNCHANGED <<prevSeq, imageFileID, imageFile, seqFile>>
  BY DEF ReceiveEnd, End, vars, files
<1>3. \A id \in Id : id # sending => shipped'[id] = shipped[id]
  BY <1>1 DEF ReceiveEnd, End, Finish, vars, IInv, TypeOK
<1>4. LinkTypeOK'
  BY <1>1 DEF LinkTypeOK
<1>5. \A id \in Id : id > sending => shipped'[id] = NoFile
  BY <1>1, <1>3, SondeAssumption DEF SondeInv
<1>6. ASSUME through
      PROVE  shipped'[sending] # NoFile /\ Numbers(shipped'[sending]) = chunksIn
  <2>1. FilesFollow /\ imageFileID = sending
    BY <1>6 DEF SondeInv, FilesFollow
  <2>2. Finish(sending)
    BY <1>1, <2>1 DEF ReceiveEnd, End
  <2>3. CASE finished
    <3>1. shipped[sending] # NoFile /\ Numbers(shipped[sending]) = chunksIn
      BY <2>1, <2>3 DEF FilesFollow
    <3>2. fptrSeq[sending] = NULL
      BY <1>1, <3>1 DEF IInv, ShippedWhole
    <3> QED
      BY <2>2, <3>1, <3>2 DEF Finish
  <2>4. CASE ~finished
    <3>1. fptrSeq[sending] # NULL /\ seqFile[sending] \in Seq(Seqnum)
          /\ Numbers(seqFile[sending]) = chunksIn
      BY <2>1, <2>4 DEF FilesFollow
    <3>2. shipped'[sending] = seqFile[sending]
      BY <1>1, <2>2, <3>1 DEF Finish, IInv, TypeOK
    <3> QED
      BY <3>1, <3>2, NoFileAssumption
  <2> QED
    BY <2>3, <2>4
<1>7. ASSUME through PROVE FilesFollow'
  <2>1. FilesFollow
    BY <1>7 DEF SondeInv
  <2> QED
    BY <1>1, <1>2, <1>6, <1>7, <2>1 DEF FilesFollow
<1> QED
  BY <1>1, <1>4, <1>5, <1>7 DEF SondeInv

\* The chunk of the present frame joins both files of a picture that came
\* through, unless it is in the picture already.
LEMMA ChunkFollows ==
  ASSUME DInv, source = "sonde", ReceiveChunk, through
  PROVE  FilesFollow'
<1> USE DEF DInv
<1> DEFINE n     == pos - 1
           image == imageFile[sending]
<1>1. /\ pos \in 1..Chunks /\ Chunks \in Nat /\ n \in Seqnum /\ n < pos /\ n \in Int
      /\ chunksIn' = chunksIn \cup {n} /\ sending \in Id
      /\ UNCHANGED <<source, sending, pos, through, disturbed, finished>>
  BY SondeAssumption DEF ReceiveChunk, LinkTypeOK
<1>2. FilesFollow /\ ~finished
  BY <1>1 DEF SondeInv
<1>3. fptr[sending] # NULL /\ fptrSeq[sending] # NULL
  BY <1>2 DEF FilesFollow
<1>4. /\ WriteChunk(sending, n)
      /\ UNCHANGED <<imageFileID, fptr, fptrSeq, shipped>>
  BY <1>3 DEF ReceiveChunk, ImageData
<1>5. /\ image \in Seq(Seqnum) /\ seqFile[sending] \in Seq(Seqnum)
      /\ Numbers(image) = chunksIn /\ Numbers(seqFile[sending]) = chunksIn
      /\ prevSeq \in chunksIn \cup {-1} /\ prevSeq' = n
      /\ \A m \in chunksIn : m \in Int /\ m <= n
  BY <1>1, <1>2, <1>4, SondeAssumption DEF FilesFollow, WriteChunk, LinkTypeOK
<1>6. seqFile'[sending] = Append(seqFile[sending], n)
  BY <1>1, <1>3, <1>4 DEF WriteChunk, IInv, TypeOK
<1>7. /\ seqFile'[sending] \in Seq(Seqnum)
      /\ Numbers(seqFile'[sending]) = chunksIn'
  BY <1>1, <1>5, <1>6, AppendNumbers
<1>8. /\ imageFile'[sending] \in Seq(Seqnum)
      /\ Numbers(imageFile'[sending]) = chunksIn'
      /\ \A i, j \in 1..Len(imageFile'[sending]) :
           i < j => imageFile'[sending][i] <= imageFile'[sending][j]
      /\ ~disturbed => Len(imageFile'[sending]) = Cardinality(chunksIn')
  <2>1. CASE n > prevSeq
    <3>1. imageFile'[sending] = Append(image, n)
      BY <1>1, <1>4, <2>1 DEF WriteChunk, IInv, TypeOK
    <3>2. /\ Append(image, n) \in Seq(Seqnum) /\ Len(Append(image, n)) = Len(image) + 1
          /\ Numbers(Append(image, n)) = chunksIn'
      BY <1>1, <1>5, AppendNumbers
    <3>3. Len(image) \in Nat /\ \A i \in 1..Len(image) : image[i] \in chunksIn
      BY <1>5 DEF Numbers
    <3>4. ASSUME NEW i \in 1..(Len(image) + 1), NEW j \in 1..(Len(image) + 1), i < j
          PROVE  Append(image, n)[i] <= Append(image, n)[j]
      <4>1. i \in 1..Len(image) /\ Append(image, n)[i] = image[i] /\ image[i] <= n
        BY <1>5, <3>3, <3>4
      <4>2. CASE j = Len(image) + 1
        BY <1>5, <4>1, <4>2
      <4>3. CASE j # Len(image) + 1
        <5>1. j \in 1..Len(image) /\ Append(image, n)[j] = image[j]
          BY <1>5, <3>3, <4>3
        <5> QED
          BY <1>2, <3>4, <4>1, <5>1 DEF FilesFollow
      <4> QED
        BY <4>2, <4>3
    <3>5. ASSUME ~disturbed PROVE Len(image) + 1 = Cardinality(chunksIn')
      <4>1. n \notin chunksIn
        BY <1>1, <1>2, <1>5, <2>1, <3>5 DEF FilesFollow
      <4>2. Cardinality(chunksIn \cup {n}) = Cardinality(chunksIn) + 1
        BY <4>1, ChunksFinite, FS_AddElement DEF LinkTypeOK
      <4> QED
        BY <1>1, <1>2, <3>5, <4>2 DEF FilesFollow
    <3> QED
      BY <3>1, <3>2, <3>4, <3>5
  <2>2. CASE ~(n > prevSeq)
    <3>1. n = prevSeq /\ n \in chunksIn
      BY <1>1, <1>5, <2>2, SondeAssumption
    <3>2. chunksIn' = chunksIn /\ imageFile'[sending] = image
      BY <1>1, <1>4, <2>2, <3>1 DEF WriteChunk
    <3> QED
      BY <1>2, <3>2 DEF FilesFollow
  <2> QED
    BY <2>1, <2>2
<1>9. /\ \A m \in chunksIn' : m < pos' /\ m <= prevSeq'
      /\ prevSeq' \in chunksIn' \cup {-1}
  BY <1>1, <1>5
<1> QED
  BY <1>1, <1>2, <1>3, <1>4, <1>7, <1>8, <1>9 DEF FilesFollow

LEMMA ReceiveChunkInv ==
  ASSUME DInv, source = "sonde", ReceiveChunk
  PROVE  LinkTypeOK' /\ SondeInv'
<1>1. /\ UNCHANGED <<source, sending, pos, through, disturbed, finished>>
      /\ pos - 1 \in Seqnum /\ chunksIn' = chunksIn \cup {pos - 1}
  BY SondeAssumption DEF ReceiveChunk
<1>2. shipped' = shipped
  BY DEF ReceiveChunk, ImageData, vars
<1>3. LinkTypeOK'
  BY <1>1 DEF DInv, LinkTypeOK
<1>4. through' => FilesFollow'
  BY <1>1, ChunkFollows
<1> QED
  BY <1>1, <1>2, <1>3, <1>4 DEF DInv, SondeInv

LEMMA ReceiveBrokenInv ==
  ASSUME DInv, source = "sonde", ReceiveBroken
  PROVE  LinkTypeOK' /\ SondeInv'
<1>1. /\ prevSeq' = -1 /\ disturbed' = TRUE
      /\ UNCHANGED <<imageFileID, fptr, fptrSeq, open, files, shipped>>
      /\ UNCHANGED <<source, sending, pos, through, chunksIn, finished>>
  BY DEF ReceiveBroken, Start, StartBroken
<1>2. LinkTypeOK'
  BY <1>1 DEF DInv, LinkTypeOK
<1> QED
  BY <1>1, <1>2 DEF DInv, SondeInv, FilesFollow, files

LEMMA DStep == DInv /\ [DownlinkNext]_downlinkVars => DInv'
<1> SUFFICES ASSUME DInv, [DownlinkNext]_downlinkVars PROVE DInv'
  OBVIOUS
<1>1. CASE source = "sonde" /\ SondeNext
  <2>1. IInv'
    BY <1>1, StepIInv DEF DownlinkNext
  <2>2. source' = source
    BY <1>1 DEF SondeNext, NextFrame, ReceiveStart, ReceiveEnd, ReceiveChunk, ReceiveBroken
  <2>3. LinkTypeOK' /\ SondeInv'
    BY <1>1, NextFrameInv, ReceiveStartInv, ReceiveEndInv, ReceiveChunkInv, ReceiveBrokenInv
    DEF SondeNext
  <2> QED
    BY <1>1, <2>1, <2>2, <2>3 DEF DInv
<1>2. CASE source = "several" /\ ReceiveAnything
  <2>1. IInv'
    BY <1>2, StepIInv DEF DownlinkNext
  <2> QED
    BY <1>2, <2>1 DEF DInv, LinkTypeOK, ReceiveAnything, linkVars
<1>3. CASE UNCHANGED downlinkVars
  <2>1. IInv'
    BY <1>3, UnchangedInv DEF DInv, downlinkVars
  <2> QED
    BY <1>3, <2>1 DEF downlinkVars, DInv, LinkTypeOK, SondeInv, FilesFollow, linkVars, vars, files
<1> QED
  BY <1>1, <1>2, <1>3 DEF DownlinkNext, downlinkVars

-----------------------------------------------------------------------------
LEMMA AlwaysDInv == DownlinkSpec => []DInv
<1>1. DownlinkSpec => DownlinkInit /\ [][DownlinkNext]_downlinkVars
  BY DEF DownlinkSpec, downlinkVars
<1> QED
  BY <1>1, DInit, DStep, PTL

\* However many pictures and chunks a sonde sends and whatever frames its link
\* loses, damages or repeats: from an accepted START on, the picture holds the
\* chunks that came intact, in order and, undisturbed, once each.
THEOREM PicturesAsReceived == DownlinkSpec => []PictureIsWhatCame
<1>1. DInv => PictureIsWhatCame
  BY DEF DInv, LinkTypeOK, SondeInv, FilesFollow, PictureIsWhatCame
<1> QED
  BY <1>1, AlwaysDInv, PTL

\* A picture whose START and END came is uploaded with all of them; one whose
\* END did not come is not uploaded.
THEOREM UploadsAsReceived == DownlinkSpec => []UploadIsWhatCame
<1>1. DInv => UploadIsWhatCame
  BY DEF DInv, SondeInv, FilesFollow, UploadIsWhatCame
<1> QED
  BY <1>1, AlwaysDInv, PTL

\* Nor do several sondes, or the frames of one, leave a picture without a chunk
\* that was new in its sequence file, or with one that is not in there.
THEOREM PicturesFollow == DownlinkSpec => []PictureFollowsSequence
<1>1. DownlinkInit => Following
  BY FollowInit DEF DownlinkInit
<1>2. DInv /\ Following /\ [DownlinkNext]_downlinkVars => Following'
  BY LinkStep, FollowStep DEF DInv, downlinkVars
<1>3. DownlinkSpec => []Following
  <2>1. DownlinkSpec => DownlinkInit /\ [][DownlinkNext]_downlinkVars
    BY DEF DownlinkSpec, downlinkVars
  <2> QED
    BY <1>1, <1>2, <2>1, AlwaysDInv, PTL
<1>4. Following => PictureFollowsSequence
  BY DEF Following
<1> QED
  BY <1>3, <1>4, PTL

\* No later frame changes the files or the upload of an earlier picture.
THEOREM EarlierKept == DownlinkSpec => EarlierPicturesKept
<1> DEFINE Kept == \A id \in Id : source = "sonde" /\ id < sending =>
                     imageFile'[id] = imageFile[id] /\ seqFile'[id] = seqFile[id]
                       /\ shipped'[id] = shipped[id]
<1>1. ASSUME DInv, SondeNext PROVE Kept
  <2> SUFFICES ASSUME NEW id \in Id, id < sending
               PROVE  imageFile'[id] = imageFile[id] /\ seqFile'[id] = seqFile[id]
                        /\ shipped'[id] = shipped[id]
    OBVIOUS
  <2>1. sending \in Id /\ id # sending
    BY <1>1, SondeAssumption DEF DInv, LinkTypeOK
  <2>2. imageFile \in [Id -> Content] /\ seqFile \in [Id -> Content] /\ shipped \in [Id -> Content]
    BY <1>1 DEF DInv, IInv, TypeOK, Content
  <2>3. CASE NextFrame
    BY <2>3 DEF NextFrame, vars, files
  <2>4. CASE ReceiveChunk
    BY <2>1, <2>2, <2>4 DEF ReceiveChunk, ImageData, WriteChunk, vars, files
  <2>5. ASSUME NEW quality \in Quality, Start(sending, quality)
        PROVE  imageFile'[id] = imageFile[id] /\ seqFile'[id] = seqFile[id]
                 /\ shipped'[id] = shipped[id]
    BY <2>1, <2>2, <2>5 DEF Start, StartBroken, StartPicture, files
  <2>6. ASSUME NEW quality \in Quality, End(sending, quality)
        PROVE  imageFile'[id] = imageFile[id] /\ seqFile'[id] = seqFile[id]
                 /\ shipped'[id] = shipped[id]
    BY <2>1, <2>2, <2>6 DEF End, Finish, vars, files
  <2>7. "broken" \in Quality
    BY DEF Quality
  <2> QED
    BY <1>1, <2>3, <2>4, <2>5, <2>6, <2>7 DEF SondeNext, ReceiveStart, ReceiveEnd, ReceiveBroken
<1>2. DInv /\ [DownlinkNext]_downlinkVars => [Kept]_downlinkVars
  <2>1. source = "several" => Kept
    OBVIOUS
  <2> QED
    BY <1>1, <2>1 DEF DownlinkNext
<1>3. DownlinkSpec => [][Kept]_downlinkVars
  <2>1. DownlinkSpec => [][DownlinkNext]_downlinkVars
    BY DEF DownlinkSpec, downlinkVars
  <2> QED
    BY <1>2, <2>1, AlwaysDInv, PTL
<1> QED
  BY <1>3 DEF EarlierPicturesKept, downlinkVars
=============================================================================
