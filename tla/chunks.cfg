SPECIFICATION Spec
CONSTANTS
  TsMod = 8
  TsMark = 3
  Timestamps = {2, 5}
  Sizes = {1, 3}
  CommandSizes = {3}
  HeadSize = 2
  ChunkSizes = {1, 2}
  DefaultChunk = 2
  MaxFlight = 2
INVARIANTS
  InStep
  TimestampsKept
PROPERTIES
  FifoSpec
CHECK_DEADLOCK FALSE
