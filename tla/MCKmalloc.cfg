CONSTANTS
  NumPages = 4
  PageSize = 8
  NumCaches = 2
  SlabSize <- MCSlabSize
  HeaderSize = 1
  Word = 4
  Sizes = {0, 2, 3, 4, 5, 8, 9}
SPECIFICATION Spec
INVARIANTS BlocksPartition ListedIffFree CountersExact KfreeDispatch
PROPERTIES NoHoarding ImplementsHeap
