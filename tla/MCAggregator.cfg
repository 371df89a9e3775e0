SPECIFICATION Spec
CONSTANTS
  hook = hook
  other = other
  pool = pool
  Emitters = {hook, other}
  Pools = {pool}
  HookOf <- MCHookOf
  MaxLogs = 3
  MaxBlocks = 2
  MaxTxs = 3
INVARIANTS
  TypeOK
  FeesPaidOnce
  AdjacentFeeMatched
  VerdictsAgree
\* The chain is bounded: nothing is emitted after the last block.
CHECK_DEADLOCK FALSE
