CONSTANTS
  Client = client
  Server = server
  SEQ = 32
  ISN <- MCISN
  MSS = 2
  SNDBUF = 2
  RCVBUF = 2
  TICK_ACK = 2
  RSNDMAX = 0
  FASTRETRANS = 0
  ReadLens = {2}
  Plans <- MCClosePlans
SPECIFICATION Spec
VIEW View
CHECK_DEADLOCK FALSE
INVARIANT FinAfterData
