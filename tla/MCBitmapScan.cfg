CONSTANTS
  ByteBits = 3
  BytesLen = 3
  MaxCnt = 10
SPECIFICATION FairSpec
INVARIANT FindsFirstRun
PROPERTY Terminates
