SPECIFICATION MCSpec
VIEW MCView
CONSTANTS
  hi = hi
  lo1 = lo1
  lo2 = lo2
  idle = idle
  Thread <- MCThread
  PrioMax = 3
  InitPrio <- MCInitPrio
  InitTick <- MCInitTick
  TickMod = 7
  Obj = {"mb", "mb_sender", "mq", "ev", "mp"}
  NestMax = 1
  Flag <- MCFlag
  Time <- MCTime
  Queue <- MCQueue
  Msg = {"m1", "m2"}
  MsgOf <- MCMsgOf
  TimeOf <- MCTimeOf
  MbSize = 2
  MaxMsgs = 2
  Bit = {1, 2}
  EvReceiver = {hi, lo2}
  EvOption <- MCOption
  MpBlock = {1, 2, 3}
  PoolTime <- MCPoolTime
  SuspMax = 4
CHECK_DEADLOCK FALSE
INVARIANTS
  ObjectsSound NoMailStranded DeadlineKept NoMessageStranded BuffersAccounted
  ReceiversServed PoolCounts NoBlockStranded
PROPERTIES
  MailboxIsQueue MessageQueueIsQueue TakenBitsDelivered OnlyTimeoutsLeak
