----------------------------- MODULE ImageFile -----------------------------
(***************************************************************************)
(* imageFileManager.c: the receive thread turns START, DATA and END        *)
(* packets of a picture into two files, the picture itself and a sequence  *)
(* file that is uploaded when the picture ends.                            *)
(*                                                                         *)
(* One action is one call of processImageFilePacket.  A packet arrives     *)
(* "intact", "corrected" (its CRC only holds after the Reed-Solomon        *)
(* decoder worked on it) or "broken" (wrong length, or a CRC that does not *)
(* hold even then).  DATA packets carry no code: theirs must be intact.    *)
(*                                                                         *)
(* A file stands for what was written through the stream opened on it;     *)
(* the stream's buffer reaches the disk when the stream is closed.         *)
(***************************************************************************)
EXTENDS Integers, Sequences

CONSTANTS Id,         \* picture numbers (imageFileID, 8 bits)
          Seqnum,     \* chunk numbers (imageSeqnum, 16 bits)
          Stream,     \* the streams a process can have open
          NULL,       \* the null stream
          NoFile,     \* content of a path at which there is no file
          MaxFile     \* bound: chunks written to one file

ASSUME SeqnumAssumption == Seqnum \subseteq Nat
ASSUME NullAssumption   == NULL \notin Stream
ASSUME NoFileAssumption == NoFile \notin Seq(Seqnum)

VARIABLES prevSeq,      \* number of the last chunk, -1 after a START
          imageFileID,  \* of utils.c: the picture started last
          fptr,         \* the image stream of each picture
          fptrSeq,      \* its sequence stream
          open,         \* the streams that are open in the C library
          imageFile,    \* image%03d.jpg: the numbers of its chunks
          seqFile,      \* image%03dGW_%d.seq: those of its data records
          ended,        \* the pictures whose sequence file has an end record
          shipped       \* history: the sequence files uploaded last

files == <<imageFile, seqFile, ended>>
vars  == <<prevSeq, imageFileID, fptr, fptrSeq, open, files, shipped>>

Quality == {"intact", "corrected", "broken"}

AllNull   == [id \in Id |-> NULL]
NoContent == [id \in Id |-> NoFile]

Init ==
  /\ prevSeq = 0 /\ imageFileID \in Id
  /\ fptr = AllNull /\ fptrSeq = AllNull /\ open = {}
  /\ imageFile = NoContent /\ seqFile = NoContent
  /\ ended = {} /\ shipped = NoContent

(* The operators named Slip... are plausible mistakes in the definition that *)
(* follows them, against which the properties below are measured.            *)

-----------------------------------------------------------------------------
\* START_IMAGE.  prevSeq is reset before anything of the packet is checked.
StartBroken ==
  /\ prevSeq' = -1
  /\ UNCHANGED <<imageFileID, fptr, fptrSeq, open, files, shipped>>

\* Slip: the pointers of other pictures are kept.
SlipStartPicture(id, img, sq) ==
  /\ prevSeq' = -1
  /\ imageFileID' = id
  /\ fptr' = [fptr EXCEPT ![id] = img]
  /\ fptrSeq' = [fptrSeq EXCEPT ![id] = sq]
  /\ open' = open \cup ({img, sq} \ {NULL})
  /\ imageFile' = [imageFile EXCEPT ![id] = IF img = NULL THEN NoFile ELSE << >>]
  /\ seqFile' = [seqFile EXCEPT ![id] = IF sq = NULL THEN NoFile ELSE << >>]
  /\ ended' = ended \ {id}
  /\ shipped' = [shipped EXCEPT ![id] = NoFile]

\* Slip: a stream is taken for opened without a look at fopen's result.
SlipStartUnchecked(id, img, sq) ==
  /\ prevSeq' = -1
  /\ imageFileID' = id
  /\ fptr' = [AllNull EXCEPT ![id] = img]
  /\ fptrSeq' = [AllNull EXCEPT ![id] = sq]
  /\ open' = open \cup {img, sq}
  /\ imageFile' = [imageFile EXCEPT ![id] = << >>]
  /\ seqFile' = [seqFile EXCEPT ![id] = << >>]
  /\ ended' = ended \ {id}
  /\ shipped' = [shipped EXCEPT ![id] = NoFile]

\* An accepted START forgets every stream, none of which it closes, and makes
\* both files anew; either fopen may fail and return NULL.
StartPicture(id, img, sq) ==
  /\ prevSeq' = -1
  /\ imageFileID' = id
  /\ fptr' = [AllNull EXCEPT ![id] = img]
  /\ fptrSeq' = [AllNull EXCEPT ![id] = sq]
  /\ open' = open \cup ({img, sq} \ {NULL})
  /\ imageFile' = [imageFile EXCEPT ![id] = IF img = NULL THEN NoFile ELSE << >>]
  /\ seqFile' = [seqFile EXCEPT ![id] = IF sq = NULL THEN NoFile ELSE << >>]
  /\ ended' = ended \ {id}
  /\ shipped' = [shipped EXCEPT ![id] = NoFile]

Fopen == (Stream \ open) \cup {NULL}

Start(id, quality) ==
  \/ quality = "broken" /\ StartBroken
  \/ /\ quality # "broken"
     /\ \E img, sq \in Fopen : (img = sq => img = NULL) /\ StartPicture(id, img, sq)

-----------------------------------------------------------------------------
\* IMAGE_DATA.  Slip: one chunk number is skipped in the comparison.
SlipWriteChunk(id, n) ==
  /\ imageFile' = IF n > prevSeq + 1
                  THEN [imageFile EXCEPT ![id] = Append(@, n)]
                  ELSE imageFile
  /\ seqFile' = IF fptrSeq[id] # NULL
                THEN [seqFile EXCEPT ![id] = Append(@, n)]
                ELSE seqFile
  /\ prevSeq' = n

\* Slip: the sequence file only takes a chunk that follows the last one.
SlipSequence(id, n) ==
  /\ imageFile' = IF n > prevSeq
                  THEN [imageFile EXCEPT ![id] = Append(@, n)]
                  ELSE imageFile
  /\ seqFile' = IF fptrSeq[id] # NULL /\ n = prevSeq + 1
                THEN [seqFile EXCEPT ![id] = Append(@, n)]
                ELSE seqFile
  /\ prevSeq' = n

\* The picture takes a chunk only if its number is above the last one's; the
\* sequence file takes every chunk; an old chunk moves prevSeq back.  ftell and
\* fwrite are taken to succeed.
WriteChunk(id, n) ==
  /\ imageFile' = IF n > prevSeq
                  THEN [imageFile EXCEPT ![id] = Append(@, n)]
                  ELSE imageFile
  /\ seqFile' = IF fptrSeq[id] # NULL
                THEN [seqFile EXCEPT ![id] = Append(@, n)]
                ELSE seqFile
  /\ prevSeq' = n

HasRoom(id) ==
  /\ Len(imageFile[id]) < MaxFile
  /\ fptrSeq[id] # NULL => Len(seqFile[id]) < MaxFile

\* Slip: the chunk goes to the picture started last, whatever its own.
SlipImageData(id, n, quality) ==
  \/ /\ quality = "intact" /\ fptr[imageFileID] # NULL
     /\ HasRoom(imageFileID)
     /\ WriteChunk(imageFileID, n)
     /\ UNCHANGED <<imageFileID, fptr, fptrSeq, open, ended, shipped>>
  \/ /\ quality # "intact" \/ fptr[imageFileID] = NULL
     /\ UNCHANGED vars

\* Nothing is written, not even to the sequence file, for a picture whose
\* image stream is not open.
ImageData(id, n, quality) ==
  \/ /\ quality = "intact" /\ fptr[id] # NULL
     /\ HasRoom(id)
     /\ WriteChunk(id, n)
     /\ UNCHANGED <<imageFileID, fptr, fptrSeq, open, ended, shipped>>
  \/ /\ quality # "intact" \/ fptr[id] = NULL
     /\ UNCHANGED vars

-----------------------------------------------------------------------------
\* Slip: the pointers to the closed streams are kept.
SlipFinish(id) ==
  /\ open' = open \ {fptr[id], fptrSeq[id]}
  /\ UNCHANGED <<fptr, fptrSeq>>
  /\ IF fptrSeq[id] # NULL
     THEN ended' = ended \cup {id} /\ shipped' = [shipped EXCEPT ![id] = seqFile[id]]
     ELSE UNCHANGED <<ended, shipped>>

\* END_IMAGE of the picture started last: each stream that is not NULL is
\* closed, and all of its kind forgotten.  A sequence file gets its end record
\* first and is then uploaded, whose outcome is not looked at.
Finish(id) ==
  /\ open' = open \ {fptr[id], fptrSeq[id]}
  /\ fptr' = IF fptr[id] # NULL THEN AllNull ELSE fptr
  /\ IF fptrSeq[id] # NULL
     THEN /\ fptrSeq' = AllNull
          /\ ended' = ended \cup {id}
          /\ shipped' = [shipped EXCEPT ![id] = seqFile[id]]
     ELSE UNCHANGED <<fptrSeq, ended, shipped>>

End(id, quality) ==
  \/ /\ quality # "broken" /\ id = imageFileID
     /\ Finish(id)
     /\ UNCHANGED <<prevSeq, imageFileID, imageFile, seqFile>>
  \/ /\ quality = "broken" \/ id # imageFileID
     /\ UNCHANGED vars

Next == \E id \in Id, quality \in Quality :
          \/ Start(id, quality)
          \/ \E n \in Seqnum : ImageData(id, n, quality)
          \/ End(id, quality)

Spec == Init /\ [][Next]_vars

-----------------------------------------------------------------------------
\* Every variable holds a value of its kind.
TypeOK ==
  /\ prevSeq \in Seqnum \cup {-1, 0}
  /\ imageFileID \in Id
  /\ fptr \in [Id -> Stream \cup {NULL}]
  /\ fptrSeq \in [Id -> Stream \cup {NULL}]
  /\ open \subseteq Stream
  /\ imageFile \in [Id -> Seq(Seqnum) \cup {NoFile}]
  /\ seqFile \in [Id -> Seq(Seqnum) \cup {NoFile}]
  /\ ended \subseteq Id
  /\ shipped \in [Id -> Seq(Seqnum) \cup {NoFile}]

Held == {fptr[id] : id \in Id} \cup {fptrSeq[id] : id \in Id}

\* Only the picture started last has streams; a stream that is not NULL is
\* open and is no other pointer's, and the file it writes exists.  So nothing
\* is written through, or closes, a stream that was closed before, and no
\* packet adds to an earlier picture, whatever packets came in what order.
StreamsValid ==
  /\ \A id \in Id : fptr[id] # NULL =>
       id = imageFileID /\ fptr[id] \in open /\ imageFile[id] # NoFile
  /\ \A id \in Id : fptrSeq[id] # NULL =>
       id = imageFileID /\ fptrSeq[id] \in open /\ seqFile[id] # NoFile
  /\ \A id \in Id : fptr[id] = fptrSeq[id] => fptr[id] = NULL

\* What was uploaded is a whole sequence file, with its end record and closed,
\* and stays what the file holds until the picture is started again; so no
\* chunk is written behind an end record, and none is missing in the upload.
ShippedWhole ==
  \A id \in Id :
    /\ shipped[id] # NoFile <=> id \in ended
    /\ id \in ended => shipped[id] = seqFile[id] /\ fptrSeq[id] = NULL /\ fptr[id] = NULL

\* The numbers that are above all numbers before them.
RecordHighs(s) ==
  {s[i] : i \in {k \in 1..Len(s) : \A j \in 1..(k - 1) : s[j] < s[k]}}

\* s is left of t when some elements of t are removed: its elements are found
\* in t, in order.
Embeds(s, t) ==
  \E f \in [1..Len(s) -> 1..Len(t)] :
    /\ \A i, j \in 1..Len(s) : i < j => f[i] < f[j]
    /\ \A i \in 1..Len(s) : s[i] = t[f[i]]

\* The picture holds chunks of the sequence file, in its order, and at least
\* those that were new when they came: neither repeated nor late chunks, nor a
\* broken START in the middle, make it miss a chunk that goes on from there.
PictureFollowsSequence ==
  \A id \in Id : imageFile[id] # NoFile /\ seqFile[id] # NoFile =>
    /\ Embeds(imageFile[id], seqFile[id])
    /\ RecordHighs(seqFile[id]) \subseteq {imageFile[id][i] : i \in 1..Len(imageFile[id])}

\* "START_IMAGE File Cleanup": after it, as at any other time, the open
\* streams are the ones the program still has a pointer to.
NoStreamLost == open = Held \ {NULL}
=============================================================================
