SPECIFICATION DownlinkSpec
CONSTANTS
  s1 = s1
  s2 = s2
  s3 = s3
  s4 = s4
  NULL = NULL
  NoFile = NoFile
  Id <- MCId
  Seqnum <- MCSeqnum
  Stream <- MCStream
  MaxFile = 4
  Pictures = 2
  Chunks = 3
SYMMETRY Symmetry
INVARIANTS
  TypeOK
  StreamsValid
  ShippedWhole
  PictureFollowsSequence
  PictureIsWhatCame
  
PROPERTY EarlierPicturesKept
CHECK_DEADLOCK FALSE
