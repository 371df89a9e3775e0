SPECIFICATION Spec
CONSTANTS
  Samples <- AllSamples
  MaxLogs = 2
INVARIANTS
  TypeOK
  EveryLogIsItsRow
  RowsInLogOrder
  HookBitsAreItsAddress
  CurrencyIsItsId
\* One block: it ends once the last extractor has walked it.
CHECK_DEADLOCK FALSE
