CONSTANTS
  Event = {a, b, c}
  Msg = {x, y}
  MaxMsgs = 3
  NoMsg = NoMsg
SPECIFICATION FairSpec
INVARIANTS
  TypeOK
  Claimed
PROPERTIES
  ImplementsBuffer
  MessagesReceived
  SlotsFilled
