SPECIFICATION Spec
CONSTANTS
  Chars <- MCChars
  Numeral <- MCNumeral
  eth = eth
  usd = usd
  meme = meme
  dai = dai
  ethUsd = ethUsd
  usdMeme = usdMeme
  memeDai = memeDai
  oldPool = oldPool
  Currencies = {eth, usd, meme, dai}
  Native = eth
  Decimals <- MCDecimals
  Symbols <- MCSymbols
  Names <- MCNames
  Pools = {ethUsd, usdMeme, memeDai, oldPool}
  Legacy = {oldPool}
  PairOf <- MCPairOf
  MaxTokensPerBatch = 2
  MaxFailures = 2
  MaxRows = 2
  MaxBlocks = 2
INVARIANTS
  TypeOK
  MeasuredIsTrue
  ResolvedHasTokens
  EveryTokenListed
  OrdinalsNeverDecrease
\* The chain is bounded: the last block is never followed by another.
CHECK_DEADLOCK FALSE
