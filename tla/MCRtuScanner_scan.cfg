\* Mixed streams, every way of cutting them into portions.
CONSTANTS
  Address <- MCAddress
  Crc <- ToyCrc
  Streams <- MixedStreams
  MaxPortion = 64
SPECIFICATION FairSpec
INVARIANTS
  TypeOK
  NoReadPastEnd
  PdusAreFrames
  PdusInOrder
  NoSilentLoss
  ReadsByteWise
  IInv
PROPERTIES
  Promise
  FrameDelivered
\* A stream ends.
CHECK_DEADLOCK FALSE
