CONSTANTS
  k1 = k1  k2 = k2
  Fd = {4, 5}
  Conn = {k1, k2}
  LISTEN = LISTEN  NONE = NONE
  LISTENQ = 2
  EPOLLEVENTS = 2
  MaxPackets = 1
  MaxQueued = 1
SPECIFICATION Spec
INVARIANTS TypeOK SessionOfConnection EventsFresh WaitsMidPacket
PROPERTIES PendingAccepted InputRead QueueDrains
CHECK_DEADLOCK FALSE
