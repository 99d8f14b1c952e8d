CONSTANTS
  idle = idle
  e1 = e1
  e2 = e2
  e3 = e3
  m1 = m1
  Event = {idle, e1, e2, e3}
  Idle = idle
  PRIO_SYS_SERVICE = 4
  SyncHead = {m1}
  NoHead = NoHead
  TICK_US = 10
  TIMEOUT_FOREVER = FOREVER
  RRS_Slice = 1
  Delays = {5, 15}
  Timeouts = {FOREVER}
  TickIncs = {1}
  MaxLock = 0
  NewPrios = {}
  BootReady <- MCReady
  BootPrio <- MCPrio
  MutexLCB = {m1}
  NoEvent = NoEvent
  MaxNest = 1
  IsrKeeps = FALSE
SPECIFICATION FairSpec
INVARIANTS
  HighestPriorityRuns
  
  
  WaitersSorted

  
