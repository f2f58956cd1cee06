\* Three-bit bytes, requests proper and improper, every history.
CONSTANTS
  Bits = 3
  BUF_SIZE = 13
  Requests <- MCRequests
SPECIFICATION Spec
INVARIANT TypeOK
PROPERTIES
  IsBank
  OthersKept
