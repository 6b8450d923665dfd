CONSTANTS
  Jobs <- MCJobs
  IntBits = 8
  WordBits = 10
  DecRoom = 5
  HexRoom = 4
  NULL = NULL
SPECIFICATION Spec
INVARIANTS TextRight NumStrFits
