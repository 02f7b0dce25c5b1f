SPECIFICATION Spec
CONSTANTS
  p1 = p1
  p2 = p2
  s1 = s1
  s2 = s2
  s3 = s3
  s4 = s4
  NULL = NULL
  NoFile = NoFile
  Id <- MCId
  Seqnum <- MCSeqnum
  Stream <- MCStream
  MaxFile = 2
INVARIANT NoStreamLost
