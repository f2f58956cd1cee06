\* Messages of up to three bytes, damaged in up to two.
CONSTANTS
  Alphabet <- MCAlphabet
  Masks <- MCMasks
  MaxLength = 3
SPECIFICATION CrcSpec
INVARIANTS
  CrcTypeOK
  TablesTrue
  AcceptedIffIntact
\* A message ends.
CHECK_DEADLOCK FALSE
