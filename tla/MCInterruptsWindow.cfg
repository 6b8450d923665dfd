SPECIFICATION FairSpec
CONSTANT SpuriousHappens = FALSE
INVARIANT HandlersInstalled
CHECK_DEADLOCK FALSE
