SPECIFICATION Spec
CONSTANTS
  hi = hi
  mid = mid
  lo = lo
  m1 = m1
  m2 = m2
  idle = idle
  Thread <- MCThread
  PrioMax = 4
  InitPrio <- MCInitPrio
  InitTick <- MCInitTick
  TickMod = 6
  Obj = {m1}
  NestMax = 1
  Flag <- MCFlag
  Time <- MCTime
  Queue <- MCQueue
  HoldMax = 2
INVARIANTS
  MutexSound HolderIsOwner OwnerIsHolder NoInversion PriorityRestored
