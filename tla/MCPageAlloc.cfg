CONSTANTS
  ByteBits = 3
  KernelPages = 1
  UserPages = 2
  CorePages = 4
  LoaderSlots = 2
  Span = 3
  Bits4K = 2
  Garbage = {0}
  Handles = {h1, h2, h3}
  MaxCount = 2
  Nil = Nil
  h1 = h1
  h2 = h2
  h3 = h3
SPECIFICATION Spec
SYMMETRY HandleSymmetry
INVARIANTS SoleOwner Accounting CoherentWhileSingle PoolConfined TablesApart
PROPERTY ImplementsPool
