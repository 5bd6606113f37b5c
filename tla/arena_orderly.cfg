SPECIFICATION ForkSpec
INVARIANT ArenaExclusive
INVARIANT ParentUnharmed
INVARIANT CopiedAtRest
INVARIANT ForkLeavesNothing
INVARIANT ForkInductive
PROPERTY OnlyHolderReleases
CHECK_DEADLOCK TRUE
CONSTANTS
  t1 = t1  t2 = t2  t3 = t3  a1 = a1  a2 = a2  s1 = s1  s2 = s2  s3 = s3
  Threads = {t1, t2, t3}
  Main = Main
  Dynamic = {a1, a2}
  Slots = {s1, s2, s3}
  SlotOf <- Own3
  Early = {t1}
  WaitForArena = TRUE
  Ops = {"malloc", "memalign", "free"}
  MayFail = FALSE
  MaxCalls = 1
  Foreign = Foreign
  Null = Null
  Atfork = Atfork
  Followed = {"parent", "child"}
  Forkers = {t2, t3}
  MaxForks = 1
SYMMETRY LateSymmetry
