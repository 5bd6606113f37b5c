SPECIFICATION FairForkSpec
PROPERTY EveryCallReturns
CHECK_DEADLOCK FALSE
CONSTANTS
  t1 = t1  t2 = t2  t3 = t3  a1 = a1  a2 = a2  s1 = s1  s2 = s2  s3 = s3
  Threads = {t1}
  Main = Main
  Dynamic = {a1}
  Slots = {s1}
  SlotOf <- Own1
  Early = {t1}
  WaitForArena = TRUE
  Ops = {"malloc", "realloc"}
  MayFail = FALSE
  MaxCalls = 4
  Foreign = Foreign
  Null = Null
  Atfork = Atfork
  Followed = {"child"}
  Forkers = {t1}
  MaxForks = 1
