SPECIFICATION Spec
CONSTANTS
  native = native
  weth = weth
  usdc = usdc
  zora = zora
  Native = native
  Wrapped = weth
  Stable = usdc
  Whitelist = {native, weth, usdc, zora}
  Tokens = {native, weth, usdc, zora}
  PairOf <- MCPairOf
  Anchor = 1
  Floor = 0
  Old = {1, 2, 3, 4, 5}
  Logs <- FewLogs
  MaxLogs = 3
  MaxBlocks = 2
INVARIANT DerivedFromBefore
\* The chain is bounded: nothing happens after its last block.
CHECK_DEADLOCK FALSE
