\* Frames with data where they have a byte count, and every kind of nonsense.
CONSTANTS
  Address <- MCAddress
  Crc <- ToyCrc
  Streams <- MixedStreams
SPECIFICATION Spec
INVARIANTS
  IInv
  PdusAreFrames
  ReadsByteWise
PROPERTY Promise
\* A stream ends.
CHECK_DEADLOCK FALSE
