\* Three clients, two sockets, one failure of accept.
CONSTANTS
  c1 = c1
  c2 = c2
  c3 = c3
  f3 = f3
  f16 = f16
  None = None
  Clients <- MCClients
  Requests <- MCRequests
  Streams <- MCStreams
  MaxOpen = 2
  MaxFails = 1
SPECIFICATION FairSpec
INVARIANTS
  IInv
  OneAccept
  HeldWhileUsed
  AllRead
PROPERTIES
  Handled
  SocketFreed
  NextServed
  Promise
CHECK_DEADLOCK FALSE
