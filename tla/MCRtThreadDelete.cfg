SPECIFICATION SpecAny
CONSTANTS
  main = main
  t1 = t1
  idle = idle
  Thread <- MCThread
  PrioMax = 2
  InitPrio <- MCInitPrio
  InitTick <- MCInitTick
  TickMod = 6
  Obj = {}
  NestMax = 1
  Static = {}
  HasCleanup = {}
  Delay = {1}
INVARIANT ClosedNotReady
