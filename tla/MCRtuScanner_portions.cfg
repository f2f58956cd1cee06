\* Mixed streams: the requests depend on where the portions end.
CONSTANTS
  Address <- MCAddress
  Crc <- ToyCrc
  MaxPortion = 64
  Streams <- MixedStreams
SPECIFICATION Spec
INVARIANT PortionIndependent
\* The line may go silent.
CHECK_DEADLOCK FALSE
