CONSTANTS
  c1 = c1  c2 = c2  m1 = m1  m2 = m2  t1 = t1  x = x  y = y
  Client = {c1, c2}
  Msg = {m1, m2}
  Name = {t1}
  ClientId = {x}
  Plus = Plus  Hash = Hash  NULL = NULL  NoPid = NoPid
  MaxRank = 2
  PidMod = 2
  InPid = {1}
  DEBUG = TRUE
  Requests <- OneFilter
SPECIFICATION Spec
INVARIANTS SubscriberIsLive
SYMMETRY Symmetry
CHECK_DEADLOCK FALSE
