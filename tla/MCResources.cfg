SPECIFICATION MCSpec
CONSTANTS
  small = small
  large = large
  Code = {small, large}
  TableLen <- MCTableLen
  NoHash = NoHash
  Cell = {0, 1}
  InitCap = 2
  MaxWords = 2
  MaxDepth = 3
  MaxFrames = 3
  MaxTx = 2
  MaxArrays = 5
  Addr = {a, b}
  Key = {1, 2, 3}
  SlabSize = 1
  ObjectIds = {1, 2, 3, 4, 5}
  MapIds = {1, 2, 3, 4, 5, 6}
  MaxSlab = 2
  MaxSlots = 3
  MaxListed = 1
CHECK_DEADLOCK FALSE
INVARIANTS ContextsPrivate InputStable TableIsOfCode HeldStable PointersValid
