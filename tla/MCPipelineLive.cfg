SPECIFICATION FairSpec
CONSTANTS
  a = a
  b = b
  free = free
  old = old
  h = h
  NoHook = NoHook
  NoKey = NoKey
  Pools <- MCPools
  Legacy = {old}
  Hooks = {h}
  KeyOf <- MCKeyOf
  Logs <- LiveLogs
  MaxLogs = 2
  MaxBlocks = 3
  MaxDisruptions = 2
PROPERTY EveryBlockEmitted
\* The chain is bounded: the engine stops once its last block is emitted.
CHECK_DEADLOCK FALSE
