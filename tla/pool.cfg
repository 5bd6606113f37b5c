SPECIFICATION FairPoolSpec
CONSTANTS
  t1 = t1  t2 = t2  
  Threads = {t1, t2}
  First = t1
  Sizes = {0, 1, 7}
  HeadSize = 2
  Alignment = 2
  Base = 4
  PoolSize = 18
  Word = 64
  MaxCalls = 2
  MaxInner = 2
  Junk = Junk
  Null = Null
INVARIANT PoolInductive
INVARIANT BlocksDisjoint
INVARIANT HeadsIntact
PROPERTY PoolCallReturns
