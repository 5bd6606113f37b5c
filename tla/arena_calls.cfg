SPECIFICATION FairSpec
INVARIANT Inductive
PROPERTY EveryCallReturns
PROPERTY ImplementsFairService
CHECK_DEADLOCK TRUE
CONSTANTS
  t1 = t1  t2 = t2  t3 = t3  a1 = a1  a2 = a2  s1 = s1  s2 = s2  s3 = s3
  Threads = {t1, t2}
  Main = Main
  Dynamic = {a1, a2}
  Slots = {s1, s2}
  SlotOf <- Own2
  Early = {t1}
  WaitForArena = TRUE
  Ops = {"calloc", "free", "realloc"}
  MayFail = FALSE
  MaxCalls = 2
  Foreign = Foreign
  Null = Null
