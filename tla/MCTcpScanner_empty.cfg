\* Requests with a byte count of 0.
CONSTANTS
  Address <- MCAddress
  MaxPortion = 64
  Streams <- EmptyStreams
SPECIFICATION Spec
INVARIANT AllDelivered
\* The peer may stop sending.
CHECK_DEADLOCK FALSE
