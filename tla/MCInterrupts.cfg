SPECIFICATION FairSpec
CONSTANT SpuriousHappens = TRUE
INVARIANTS InServiceIsRunning DispatchDefined
PROPERTIES HearsAfterInit StartsUp TicksServed KeysRead
CHECK_DEADLOCK FALSE
