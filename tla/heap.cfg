SPECIFICATION FairHeapSpec
CONSTANTS
  Slots = {1, 2, 3}
  Requests = {2, 6}
  Alignments = {4}
  MinSize = 2
  MaxFast = 2
  MinLarge = 4
  BinWidth = 4
  ConsolidateAt = 4
  Page = 4
  HeapMin = 8
  HeapMax = 16
  TopPad = 6
  HeapInfo = 1
  ArenaState = 1
  Heaps = {1, 2}
  MaxCalls = 5
  MayRefuse = TRUE
INVARIANT HeapInductive
INVARIANT HeapShape
INVARIANT EveryChunkInOnePlace
INVARIANT TagsAgree
INVARIANT HeapBlocksDisjoint
INVARIANT ContentsKept
INVARIANT HeapAssertions
INVARIANT SmallRequestsServed
PROPERTY BestFit
PROPERTY HeapCallReturns
CHECK_DEADLOCK FALSE
