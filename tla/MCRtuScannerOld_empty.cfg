\* Frames with a byte count of 0.
CONSTANTS
  Address <- MCAddress
  Crc <- ToyCrc
  Streams <- EmptyStreams
SPECIFICATION Spec
INVARIANT ReadsByteWise
\* A stream ends.
CHECK_DEADLOCK FALSE
