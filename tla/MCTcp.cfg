CONSTANTS
  Client = client
  Server = server
  SEQ = 32
  ISN <- MCISN
  MSS = 2
  SNDBUF = 3
  RCVBUF = 4
  TICK_ACK = 2
  RSNDMAX = 0
  FASTRETRANS = 0
  ReadLens = {2}
  Plans <- MCPlans
SPECIFICATION Spec
VIEW View
CHECK_DEADLOCK FALSE
INVARIANTS
  TypeOK
  SendRing
  
  AckedWasReceived
  SeqAgreement
  NoLostWakeup
