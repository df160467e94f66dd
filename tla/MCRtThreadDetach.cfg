SPECIFICATION SpecAny
CONSTANTS
  main = main
  t1 = t1
  idle = idle
  Thread <- MCThread
  PrioMax = 2
  InitPrio <- MCInitPrio
  InitTick <- MCInitTick
  TickMod = 6
  Obj = {}
  NestMax = 1
  Static = {t1}
  HasCleanup = {t1}
  Delay = {1}
INVARIANT StaticNotFreed
