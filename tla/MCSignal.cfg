CONSTANTS
  idle = idle
  e1 = e1
  e2 = e2
  e3 = e3
  s1 = s1
  Event = {idle, e1, e2}
  Idle = idle
  PRIO_SYS_SERVICE = 3
  SyncHead = {s1}
  NoHead = NoHead
  TICK_US = 10
  TIMEOUT_FOREVER = FOREVER
  RRS_Slice = 2
  Semp = {s1}
  NoSemp = NoSemp
  Signal = {s1}
  Limits <- MCLimits
  Expansions = {2}
  LIMIT_SINT32 = 3
  MaxBorrow = 2
  Inits <- MCInits
  ExpandWithWaiters = FALSE
  Delays = {5, 15}
  Timeouts = {5, 15, FOREVER}
  TickIncs = {1, 2}
  MaxLock = 1
  NewPrios = {}
  BootReady <- MCReady
  BootPrio <- MCPrio
SPECIFICATION FairSpec
INVARIANTS
  LampBound
PROPERTIES
  WokenForAReason
  ImplementsCounting
  TimeoutsEnd
