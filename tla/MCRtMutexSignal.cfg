SPECIFICATION SignalSpec
CONSTANTS
  hi = hi
  lo = lo
  m1 = m1
  idle = idle
  Thread <- MCThread
  PrioMax = 3
  InitPrio <- MCInitPrio
  InitTick <- MCInitTick
  TickMod = 6
  Obj = {m1}
  NestMax = 1
  Flag <- MCFlag
  Time <- MCTime
  Queue <- MCQueue
  HoldMax = 2
INVARIANT HolderIsOwner
