SPECIFICATION Spec
CONSTANTS
  hi = hi
  lo1 = lo1
  lo2 = lo2
  s1 = s1
  idle = idle
  Thread <- MCThread
  PrioMax = 3
  InitPrio <- MCInitPrio
  InitTick <- MCInitTick
  TickMod = 8
  Obj = {s1}
  NestMax = 1
  Flag <- MCFlag
  Time <- MCTime
  Queue <- MCQueue
  ValueMod = 3
  InitValue = {0, 1}
INVARIANTS
  KernelSound WaitersBlocked ResumeAllFindsWaiter WaitersOrdered NoTokenStranded
PROPERTIES
  CountingSemaphore
