SPECIFICATION Spec
CONSTANTS
  a = a
  b = b
  free = free
  old = old
  h = h
  NoHook = NoHook
  NoKey = NoKey
  Pools <- MCPools
  Legacy = {old}
  Hooks = {h}
  KeyOf <- MCKeyOf
  Logs <- MCLogs
  MaxLogs = 2
  MaxBlocks = 2
  MaxDisruptions = 1
INVARIANTS
  TypeOK
  SnapshotsExact
  RowsResolve
  TotalsAreRunningSums
  HooksCoverTheirPools
  NoZeroKeys
PROPERTY ImplementsLedger
\* The chain is bounded: the engine stops once its last block is emitted.
CHECK_DEADLOCK FALSE
