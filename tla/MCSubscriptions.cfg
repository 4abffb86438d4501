CONSTANTS
  c1 = c1  c2 = c2  m1 = m1  m2 = m2  t1 = t1  x = x  y = y
  Client = {c1, c2}
  Msg = {m1}
  Name = {t1}
  ClientId = {x, y}
  Plus = Plus  Hash = Hash  NULL = NULL  NoPid = NoPid
  MaxRank = 3
  PidMod = 2
  InPid = {1}
  DEBUG = FALSE
  Requests <- TwoFilters
SPECIFICATION Spec
INVARIANTS OneNodePerClient RefCountExact
SYMMETRY Symmetry
CHECK_DEADLOCK FALSE
