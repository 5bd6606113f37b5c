SPECIFICATION Spec
INVARIANT RingComplete
INVARIANT MainDisabled
INVARIANT NoCrash
CHECK_DEADLOCK FALSE
CONSTANTS
  t1 = t1  t2 = t2  t3 = t3  a1 = a1  a2 = a2  s1 = s1  s2 = s2  s3 = s3
  Threads = {t1, t2, t3}
  Main = Main
  Dynamic = {a1, a2}
  Slots = {s1, s2}
  SlotOf <- Shared
  Early = {t1}
  WaitForArena = TRUE
  Ops = {"malloc", "small_memalign", "free", "realloc"}
  MayFail = FALSE
  MaxCalls = 1
  Foreign = Foreign
  Null = Null
SYMMETRY TwinSymmetry
