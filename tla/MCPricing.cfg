SPECIFICATION Spec
CONSTANTS
  native = native
  weth = weth
  usdc = usdc
  zora = zora
  Native = native
  Wrapped = weth
  Stable = usdc
  Whitelist = {native, weth, usdc, zora}
  Tokens = {native, weth, usdc, zora}
  PairOf <- MCPairOf
  Anchor = 1
  Floor = 0
  Old = {2, 3, 4, 5}
  Logs <- MCLogs
  MaxLogs = 2
  MaxBlocks = 2
INVARIANTS
  TypeOK
  NativeIsLatest
  DerivedFromItsSource
  NoFabricatedPrice
  NeverFromLater
  AtMostABlockStale
\* The chain is bounded: nothing happens after its last block.
CHECK_DEADLOCK FALSE
