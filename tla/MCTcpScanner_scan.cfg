\* Every kind of message, byte counts of 0 included.
CONSTANTS
  Address <- MCAddress
  MaxPortion = 64
  Streams <- AllStreams
SPECIFICATION FairSpec
INVARIANTS
  IInv
  NoReadPastEnd
  PdusAreMessages
  LossExplained
  DeliveredInStep
PROPERTIES
  Promise
  MessageDelivered
\* The peer may stop sending.
CHECK_DEADLOCK FALSE
