SPECIFICATION HeapSpec
CONSTANTS
  Slots = {1, 2, 3}
  Requests = {2, 11}
  Alignments = {}
  MinSize = 2
  MaxFast = 2
  MinLarge = 4
  BinWidth = 4
  ConsolidateAt = 6
  Page = 4
  HeapMin = 8
  HeapMax = 16
  TopPad = 4
  HeapInfo = 1
  ArenaState = 1
  Heaps = {1, 2}
  MaxCalls = 4
  MayRefuse = FALSE
INVARIANT FailsOnlyIfRefused
CHECK_DEADLOCK FALSE
