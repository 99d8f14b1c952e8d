CONSTANTS
  idle = idle
  e1 = e1
  e2 = e2
  e3 = e3
  Event = {idle, e1, e2, e3}
  Idle = idle
  PRIO_SYS_SERVICE = 3
  SyncHead = {sq}
  NoHead = NoHead
  NULL = NULL
  TICK_US = 10
  TIMEOUT_FOREVER = FOREVER
  RRS_Slice = 1
  Delays = {0, 15}
  Timeouts = {5, FOREVER}
  TickIncs = {1}
  NewPrios = {2}
  MaxLock = 0
  BootOrder <- MCOrder
  BootReady <- MCReady
  BootPrio <- MCPrio
  Moving = FALSE
SPECIFICATION Spec
INVARIANTS
  RingShape
PROPERTIES
  ImplementsQueues
