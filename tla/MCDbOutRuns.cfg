SPECIFICATION FairSpec
CONSTANTS
  p = p
  old = old
  t = t
  oldT = oldT
  ann = ann
  bob = bob
  Nobody = Nobody
  Pools = {p, old}
  PoolOrder <- MCPoolOrder
  Legacy = {old}
  Positions = {t, oldT}
  Minted = {oldT}
  Owners = {ann, bob}
  Logs <- FewLogs
  MaxLogs = 1
  Stop = 4
  FlushInterval = 2
  MaxRuns = 3
  MaxUndos = 1
INVARIANT TablesAtCursor
PROPERTY PaddedRunCompletes
\* The runs are bounded: the sink is not started again after the last one.
CHECK_DEADLOCK FALSE
