SPECIFICATION FairSpec
CONSTANTS
  main = main
  t1 = t1
  idle = idle
  Thread <- MCThread
  PrioMax = 2
  InitPrio <- MCInitPrio
  InitTick <- MCInitTick
  TickMod = 6
  Obj = {}
  NestMax = 1
  Static = {main, t1}
  HasCleanup = {main}
  Delay = {0, 1}
INVARIANT
  StaticNotFreed
PROPERTY
  SleepersWake
