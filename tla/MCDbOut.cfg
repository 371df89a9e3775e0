SPECIFICATION Spec
CONSTANTS
  p = p
  old = old
  t = t
  oldT = oldT
  ann = ann
  bob = bob
  Nobody = Nobody
  Pools = {p, old}
  PoolOrder <- MCPoolOrder
  Legacy = {old}
  Positions = {t, oldT}
  Minted = {oldT}
  Owners = {ann, bob}
  Logs <- MCLogs
  MaxLogs = 2
  Stop = 2
  FlushInterval = 1
  MaxRuns = 2
  MaxUndos = 1
INVARIANTS
  TypeOK
  TablesAtCursor
  PoolUpdatesLand
  SummariesCountRows
  OnlyRegistrationsRecur
\* The runs are bounded: the sink is not started again after the last one.
CHECK_DEADLOCK FALSE
