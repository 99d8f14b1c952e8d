CONSTANTS
  idle = idle
  e1 = e1
  e2 = e2
  e3 = e3
  m1 = m1
  Event = {idle, e1, e2, e3}
  Idle = idle
  PRIO_SYS_SERVICE = 4
  SyncHead = {m1}
  NoHead = NoHead
  TICK_US = 10
  TIMEOUT_FOREVER = FOREVER
  RRS_Slice = 1
  Delays = {0, 5}
  Timeouts = {0, 5}
  TickIncs = {1}
  MaxLock = 0
  NewPrios = {2}
  BootReady <- MCReady
  BootPrio <- MCPrio
  MutexLCB = {m1}
  NoEvent = NoEvent
  MaxNest = 2
  IsrKeeps = TRUE
SPECIFICATION Spec
INVARIANTS
  TypeOK
  QueueCoherence
  Ownership
  BoostHasReason
