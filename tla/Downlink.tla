------------------------------ MODULE Downlink ------------------------------
(***************************************************************************)
(* The picture files of imageFileManager.c under the traffic a sonde       *)
(* makes: pictures one after the other, each a START, its chunks in order  *)
(* and an END, over a radio link that loses, damages or repeats frames but *)
(* does not reorder them.                                                  *)
(*                                                                         *)
(* The type byte of a frame is trusted before its CRC is checked, so a     *)
(* damaged frame of any type may be handled as a broken START.             *)
(*                                                                         *)
(* When several sondes share the frequency, packets of any picture come in *)
(* any order.                                                              *)
(***************************************************************************)
EXTENDS ImageFile, FiniteSets

CONSTANTS Pictures,   \* how many pictures the sonde sends
          Chunks      \* chunks of a picture

ASSUME SondeAssumption ==
  /\ Pictures \in Nat \ {0} /\ Id = 1..Pictures
  /\ Chunks \in Nat /\ Seqnum = 0..(Chunks - 1)

VARIABLES source,     \* "sonde", or "several" of them
          sending,    \* the picture being sent
          pos,        \* frame: 0 the START, then the chunks, then the END
          through,    \* its START was accepted and both files were opened
          chunksIn,   \* history: its chunks that came intact since then
          disturbed,  \* history: a broken START was handled since then
          finished    \* its END was accepted

linkVars == <<source, sending, pos, through, chunksIn, disturbed, finished>>

DownlinkInit ==
  /\ Init
  /\ source \in {"sonde", "several"}
  /\ sending = 1 /\ pos = 0
  /\ through = FALSE /\ chunksIn = {} /\ disturbed = FALSE /\ finished = FALSE

-----------------------------------------------------------------------------
\* The sonde goes on to the next frame: the present one may have come never,
\* once or several times.
NextFrame ==
  /\ IF pos <= Chunks
     THEN pos' = pos + 1 /\ UNCHANGED <<sending, through, chunksIn, disturbed, finished>>
     ELSE /\ sending < Pictures
          /\ sending' = sending + 1 /\ pos' = 0
          /\ through' = FALSE /\ chunksIn' = {} /\ disturbed' = FALSE /\ finished' = FALSE
  /\ UNCHANGED <<source, vars>>

ReceiveStart(quality) ==
  /\ pos = 0 /\ quality # "broken"
  /\ Start(sending, quality)
  /\ through' = (fptr'[sending] # NULL /\ fptrSeq'[sending] # NULL)
  /\ chunksIn' = {} /\ disturbed' = FALSE
  /\ UNCHANGED <<source, sending, pos, finished>>

ReceiveChunk ==
  /\ pos \in 1..Chunks
  /\ ImageData(sending, pos - 1, "intact")
  /\ chunksIn' = chunksIn \cup {pos - 1}
  /\ UNCHANGED <<source, sending, pos, through, disturbed, finished>>

ReceiveEnd(quality) ==
  /\ pos = Chunks + 1 /\ quality # "broken"
  /\ End(sending, quality)
  /\ finished' = TRUE
  /\ UNCHANGED <<source, sending, pos, through, chunksIn, disturbed>>

\* A damaged frame; as anything but a START it changes nothing.
ReceiveBroken ==
  /\ Start(sending, "broken")
  /\ disturbed' = TRUE
  /\ UNCHANGED <<source, sending, pos, through, chunksIn, finished>>

\* Bound: the chunks of several sondes are followed until a file has as many
\* as a picture.
Short(file) == \A id \in Id : file[id] # NoFile => Len(file[id]) <= Chunks

ReceiveAnything ==
  /\ Next /\ Short(imageFile') /\ Short(seqFile')
  /\ UNCHANGED linkVars

SondeNext ==
  \/ NextFrame
  \/ \E quality \in Quality : ReceiveStart(quality) \/ ReceiveEnd(quality)
  \/ ReceiveChunk
  \/ ReceiveBroken

DownlinkNext ==
  \/ source = "sonde" /\ SondeNext
  \/ source = "several" /\ ReceiveAnything

DownlinkSpec == DownlinkInit /\ [][DownlinkNext]_<<vars, linkVars>>

-----------------------------------------------------------------------------
Numbers(s) == {s[i] : i \in 1..Len(s)}

\* Once the START of a picture came through, its file holds the chunks that
\* came intact, all of them and no others, in order; each is there once
\* unless a damaged frame passed for a START, which forgets the last number,
\* and a chunk was repeated after that.
PictureIsWhatCame ==
  through =>
    /\ Numbers(imageFile[sending]) = chunksIn
    /\ \A i, j \in 1..Len(imageFile[sending]) :
         i < j => imageFile[sending][i] <= imageFile[sending][j]
    /\ ~disturbed => Len(imageFile[sending]) = Cardinality(chunksIn)

\* A picture whose START and END came through is uploaded, with every chunk
\* that came intact; one of which either was lost is not.
UploadIsWhatCame ==
  source = "sonde" =>
    /\ through /\ finished => shipped[sending] # NoFile /\ Numbers(shipped[sending]) = chunksIn
    /\ ~finished => shipped[sending] = NoFile

\* The pictures before the present one are left as they were: neither their
\* files nor what was uploaded change when later frames come.
EarlierPicturesKept ==
  [][\A id \in Id : source = "sonde" /\ id < sending =>
       imageFile'[id] = imageFile[id] /\ seqFile'[id] = seqFile[id]
         /\ shipped'[id] = shipped[id]]_<<vars, linkVars>>
=============================================================================
