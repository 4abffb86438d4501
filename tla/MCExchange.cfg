CONSTANTS
  c1 = c1  c2 = c2  m1 = m1  m2 = m2  t1 = t1  x = x  y = y
  Client = {c1, c2}
  Msg = {m1, m2}
  Name = {t1}
  ClientId = {x, y}
  Plus = Plus  Hash = Hash  NULL = NULL  NoPid = NoPid
  MaxRank = 8
  PidMod = 3
  InPid = {1}
  DEBUG = TRUE
  Requests <- NoRequests
  PidOf <- Colliding
  MaxRepeats = 1
  PubQos = {0, 1, 2}
  SubQos = {2}
SPECIFICATION ExchangeSpec
INVARIANTS ExchangeTypeOK TokenPerHandshake NoExtraCopy
PROPERTIES DeliverySpec CopiesArrive HandshakeEnds ListsDrain
CHECK_DEADLOCK FALSE
