SPECIFICATION Spec
CONSTANTS
  main = main
  t1 = t1
  idle = idle
  Thread <- MCThread
  PrioMax = 3
  InitPrio <- MCInitPrio
  InitTick <- MCInitTick
  TickMod = 8
  Obj = {}
  NestMax = 1
  Static = {}
  HasCleanup = {}
  Delay = {0, 1, 2}
INVARIANTS
  IInv NodesLinkedOnce ReadyQueues Bitmap TimeoutFindsSuspended
  TimersOrdered FreedUnused ClosedNotReady NoStaleTimeout
PROPERTIES
  SwitchToHighest
