SPECIFICATION StudiesSpec
CONSTANTS
  Callers = {1, 2}
  OffsetPage = 2
  OffsetTable = 4
  RowTables <- MCRowTables
  Areas = {0, 1}
  AreaSize = 4
  Places = {1, 3}
  PageBytes = 2
  Sizes = {1, 2}
  Threshold = 2
  MaxMaps = 2
  MaxCalls = 4
  MaxMisses = 1
  NaN = NaN
  PageSize = 2
  PidStep = 10
  KeyWord = 1000
  MissPids = {1, 2}
  MissPages = {0, 1}
  MaxRows = 5
  Pids = {1, 2}
  Root = 1
  ReturnAddrs = {1, 2, 3}
  Requests = {5, 20}
  HeadSize = 2
  Alignment = 2
  PoolSize = 20
  MaxPoolCalls = 3
  NoCall = NoCall
  ChunkRows = 1
  MaxTouched = 1
  NoKey = NoKey
  Threads = {1, 2}
  FirstThread = 1
  Instructions <- MCInstructions
  MaxRefs = 2
  StreamRecords = 3
  MaxMade = 5
  LineSize = 2
  Sets = 2
  Ways = 2
  NoLine = NoLine
  ObjPids = {1, 12}
  FirstPid = 12
  InName <- MCInName
  ObjSizes = {1, 3}
  HeaderBytes = 1
  MmapThreshold = 2
  ChunkSize = 1
  MaxEvents = 7
  MaxObjProcs = 2
INVARIANT HeldByOwner
INVARIANT CountersAddUp
INVARIANT ColdCallersRouted
INVARIANT TemperatureIsAllocator
INVARIANT DistancesAgree
INVARIANT OnePoolPerCaller
INVARIANT ResultsHonest
INVARIANT ReferencesTraced
INVARIANT MissesHonest
INVARIANT ObjectsHonest
CHECK_DEADLOCK FALSE
