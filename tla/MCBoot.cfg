CONSTANTS
  Maps <- MCMaps
  KernelEnds = {1200, 2048, 3000}
  Word = 1073741824
  Word32 = 8388608
  Faults = {"none", "read_fails", "carry_ends", "drive_dies", "drive_waits", "ram_dirty",
            "interrupt"}
  KERNEL_SECTOR_CNT = 2
  SECTOR_SIZE = 2
SPECIFICATION FairBootSpec
INVARIANTS LoaderSurvives KernelWhole KernelSees CachesApart CountsAllRam PoolsApart PoolsInRam BitmapsBelowIdt
PROPERTY ReachesKernel
