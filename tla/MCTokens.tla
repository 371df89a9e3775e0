------------------------------ MODULE MCTokens ------------------------------
(***************************************************************************)
(* Three tokens and the native currency: pools of neighbouring pairs, which*)
(* share a token, and a pool initialised before the stream.  A block with  *)
(* two of them asks for three tokens, in two batches.                      *)
(***************************************************************************)
EXTENDS Tokens, TLC

CONSTANTS eth, usd, meme, dai, ethUsd, usdMeme, memeDai, oldPool

MCDecimals == [c \in Currencies |-> IF c = eth THEN 18 ELSE IF c = usd THEN 6 ELSE IF c = meme THEN 9 ELSE 8]
MCPairOf ==
  [p \in Pools |-> IF p = usdMeme THEN <<usd, meme>> ELSE IF p = memeDai THEN <<meme, dai>>
                   ELSE <<eth, usd>>]

MCChars == STRING
MCNumeral == [n \in 0 .. MAX_DECIMALS |-> ToString(n)]

(* One token names itself like the fields of a stored value.               *)
MCSymbols ==
  [c \in Currencies |-> IF c = meme THEN String(<<"M", FIELD_SEP, "6", FIELD_SEP, "d">>)
                        ELSE Bytes32(<<"U", "S", "D", Nul>>)]
MCNames ==
  [c \in Currencies |-> IF c = meme THEN String(<<FIELD_SEP, Nul>>)
                        ELSE String(<<" ", "U", " ", "S", "D">>)]
=============================================================================
