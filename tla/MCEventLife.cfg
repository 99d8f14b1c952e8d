CONSTANTS
  idle = idle
  e1 = e1
  e2 = e2
  e3 = e3
  t1 = t1
  t2 = t2
  Event = {idle, e1, e2, e3}
  Idle = idle
  PRIO_SYS_SERVICE = 3
  SyncHead <- MCSyncHead
  NoHead = NoHead
  TICK_US = 10
  TIMEOUT_FOREVER = FOREVER
  RRS_Slice = 0
  Evtt = {t1, t2}
  NoEvtt = NoEvtt
  NoFrame = NoFrame
  Correlative = {t1}
  VpusRes = {0, 1}
  DefaultPrio <- MCDefaultPrio
  PRIO_KEEP = 2
  MainType = t1
  StackLimit = 2
  POP_WRAP = 8
  PopPrios = {0, 1}
  DoneTimes = {0, 1, 2}
  BaseTimes <- MCBaseTimes
  Timeouts = {5, FOREVER}
  MaxLock = 1
SPECIFICATION Spec
SYMMETRY Symmetry
VIEW View
INVARIANTS
  TypeOK
  
  
  
  PopNotMissed
  ServiceUnmasked

  
