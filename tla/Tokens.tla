------------------------------- MODULE Tokens -------------------------------
(***************************************************************************)
(* Token metadata: store_tokens asks the chain for the decimals of every   *)
(* currency a pool is initialised with (tokens.rs), map_enriched attaches  *)
(* them to the block's rows (enrich.rs, attach_tokens), and db_out keeps   *)
(* one row per currency in the token table (db_out.rs).                    *)
(*                                                                         *)
(* An eth_call may fail for any token in any block: the call reverts, the  *)
(* answer is garbage, or the batch comes back short.  The text a token     *)
(* answers with is its own choice (the module TokenText decodes it and     *)
(* encodes the stored value).  store_pools is reduced to the set of pools  *)
(* it knows (the module Pipeline has the store).                           *)
(***************************************************************************)
EXTENDS TokenText, FiniteSets, FiniteSetsExt

CONSTANTS
  Currencies,   \* token addresses, the native currency's zero address among them
  Native,       \* the zero address
  Decimals,     \* what decimals() says where it answers
  Symbols,      \* what symbol() answers
  Names,        \* what name() answers
  Pools,        \* pool ids
  Legacy,       \* the pools initialised before the stream's first block
  PairOf,       \* <<currency0, currency1>> of each pool
  MaxTokensPerBatch,   \* MAX_TOKENS_PER_BATCH
  MaxFailures,  \* bound: calls of a block that fail
  MaxRows,      \* bound: rows in a block
  MaxBlocks     \* bound: blocks

ASSUME TokensAssumption ==
  /\ Native \in Currencies
  /\ Decimals \in [Currencies -> 0 .. 254]
  /\ Decimals[Native] = NATIVE_DECIMALS
  /\ \A c \in Currencies : \A raw \in {Symbols[c], Names[c]} :
       raw.shape \in {"string", "bytes32"} /\ raw.text \in Seq(Chars)
  /\ Legacy \subseteq Pools
  /\ PairOf \in [Pools -> Currencies \X Currencies]
  /\ MaxTokensPerBatch \in Nat \ {0}
  /\ {MaxFailures, MaxRows, MaxBlocks} \subseteq Nat

VARIABLES
  height,        \* blocks begun
  stage,         \* the module to run next on the block, "idle" between blocks
  block,         \* the block's decoded rows in log order
  store_pools,   \* the pools known at the end of the block
  store_tokens,  \* currency -> the value written for it last
  asked,         \* the currencies in the block's eth_call batch, in its order
  ordinals,      \* the ordinal of each write of the block
  enriched,      \* row -> the token columns attached to it
  token          \* the sink's token table

vars == <<height, stage, block, store_pools, store_tokens, asked, ordinals, enriched, token>>

Kinds == {"Initialize", "Swap", "ModifyLiquidity"}
Row == [kind : Kinds, pool : Pools]
RowsOf(K) == {i \in DOMAIN block : block[i].kind \in K}

Currency(p, side) == PairOf[p][side]

Sides == {1, 2}

-----------------------------------------------------------------------------
(* A block.  The PoolManager initialises a pool once, before its other logs. *)
Legal(b) ==
  \A i \in DOMAIN b :
    (b[i].kind = "Initialize")
      <=> b[i].pool \notin Legacy \cup store_pools
                             \cup {b[j].pool : j \in {k \in 1 .. i - 1 : b[k].kind = "Initialize"}}

NewBlock(b) ==
  /\ stage = "idle"
  /\ height < MaxBlocks
  /\ Legal(b)
  /\ height' = height + 1
  /\ stage' = "store_tokens"
  /\ block' = b
  /\ store_pools' = store_pools
                      \cup {b[i].pool : i \in {k \in DOMAIN b : b[k].kind = "Initialize"}}
  /\ asked' = <<>> /\ ordinals' = <<>> /\ enriched' = <<>>
  /\ UNCHANGED <<store_tokens, token>>

-----------------------------------------------------------------------------
(* store_tokens.                                                           *)

(* The pools initialised in the block that have currency c.                *)
Mentions(c) ==
  {i \in RowsOf({"Initialize"}) : \E side \in Sides : Currency(block[i].pool, side) = c}

Mentioned == {c \in Currencies : Mentions(c) # {}}

(* Faulty: the last mention counts.                                        *)
OrdinalLatest(c) == Max(Mentions(c))

(* The lowest ordinal wins: the mention that discovered the currency.      *)
Ordinal(c) == Min(Mentions(c))

(* Where c is in the first-seen order in which the writes are made.        *)
Place(c) ==
  Min({2 * m[1] + m[2] : m \in
         {n \in RowsOf({"Initialize"}) \X Sides : Currency(block[n[1]].pool, n[2]) = c}})

InPlace(S) ==
  LET place == [c \in S |-> Place(c)]
      order == Sorted({place[c] : c \in S})
  IN  [k \in DOMAIN order |-> CHOOSE c \in S : place[c] = order[k]]

(* Faulty: the zero address is called like a contract.                     *)
AskedEverything == InPlace(Mentioned)

(* The native currency is a constant and is never called.                  *)
Asked == InPlace(Mentioned \ {Native})

(* eth_call (external): the calls go out in batches, three for each        *)
(* currency.  Any call may fail, and any batch may come back short.        *)
CALLS_PER_TOKEN == 3

Answer(c, offset) ==
  CASE offset = 0 -> Symbols[c] [] offset = 1 -> Names[c] [] OTHER -> Number(Decimals[c])

(* A symbol that is not there may come as a word instead of a revert.      *)
NoAnswer(offset) == IF offset = 0 THEN Null ELSE Failed

Chunks(currencies) ==
  LET size == MaxTokensPerBatch
  IN  [k \in 1 .. (Len(currencies) + size - 1) \div size |->
         SubSeq(currencies, (k - 1) * size + 1, Min({k * size, Len(currencies)}))]

Responses(chunk, failed, short) ==
  LET call(j) == LET c == chunk[1 + (j - 1) \div CALLS_PER_TOKEN]
                     offset == (j - 1) % CALLS_PER_TOKEN
                 IN  IF <<c, offset>> \in failed THEN NoAnswer(offset)
                     ELSE Answer(c, offset)
      length == IF short THEN 2 ELSE CALLS_PER_TOKEN * Len(chunk)
  IN  [j \in 1 .. length |-> call(j)]

(* Answers are positional; one that is not there is a failed call.         *)
Raw(responses, i, offset) ==
  LET j == CALLS_PER_TOKEN * (i - 1) + offset + 1
  IN  IF j \in DOMAIN responses THEN responses[j] ELSE Failed

FetchedFrom(responses, i) ==
  Token(decode_text(Raw(responses, i, 0)), decode_text(Raw(responses, i, 1)),
        decode_decimals(Raw(responses, i, 2)))

Fetched(c, chunks, responses) ==
  IF c = Native THEN native_token
  ELSE LET at == CHOOSE m \in (DOMAIN chunks) \X (1 .. MaxTokensPerBatch) :
                   m[2] \in DOMAIN chunks[m[1]] /\ chunks[m[1]][m[2]] = c
       IN  FetchedFrom(responses[at[1]], at[2])

(* Every distinct currency gets an entry, a placeholder if need be.        *)
StoreTokens ==
  /\ stage = "store_tokens"
  /\ stage' = "map_enriched"
  /\ asked' = Asked
  /\ ordinals' = [c \in Mentioned |-> Ordinal(c)]
  /\ LET chunks == Chunks(Asked)
         calls == ToSet(Asked) \X (0 .. CALLS_PER_TOKEN - 1)
     IN  \E failed \in {f \in SUBSET calls : Cardinality(f) <= MaxFailures},
            short \in SUBSET DOMAIN chunks :
           LET responses == [k \in DOMAIN chunks |-> Responses(chunks[k], failed, k \in short)]
           IN  store_tokens' = [c \in DOMAIN store_tokens \cup Mentioned |->
                                  IF c \in Mentioned
                                  THEN encode_token_value(Fetched(c, chunks, responses))
                                  ELSE store_tokens[c]]
  /\ UNCHANGED <<height, block, store_pools, enriched, token>>

-----------------------------------------------------------------------------
(* map_enriched: the token columns.                                        *)

(* An Initialize row names its currencies, the others get them from        *)
(* store_pools.                                                            *)
Resolved(row) == row.kind = "Initialize" \/ row.pool \in store_pools

(* What the store holds of c: none if there is no entry, or none that      *)
(* decodes.                                                                *)
Known(c) == IF c \in DOMAIN store_tokens THEN decode_token_value(store_tokens[c]) ELSE {}

(* Faulty: one measured side is enough.                                    *)
MeasuredEither(known) == \E side \in Sides : \E t \in known[side] : t.measured

(* AND, not OR: the flag guards arithmetic that uses both sides.           *)
Measured(known) == \A side \in Sides : \E t \in known[side] : t.measured

AttachTokens(row) ==
  LET known == [side \in Sides |-> IF Resolved(row) THEN Known(Currency(row.pool, side)) ELSE {}]
      the(side) == CHOOSE t \in known[side] : TRUE
  IN  [resolved |-> Resolved(row),
       symbols  |-> [side \in Sides |-> IF known[side] = {} THEN <<>> ELSE the(side).symbol],
       decimals |-> [side \in Sides |-> IF known[side] = {} THEN 0 ELSE the(side).decimals],
       measured |-> Measured(known)]

MapEnriched ==
  /\ stage = "map_enriched"
  /\ stage' = "db_out"
  /\ enriched' = [i \in DOMAIN block |-> AttachTokens(block[i])]
  /\ UNCHANGED <<height, block, store_pools, store_tokens, asked, ordinals, token>>

-----------------------------------------------------------------------------
(* db_out: the token table, from the Initialize rows and then the swaps;   *)
(* the first row that names a currency gives its columns.                  *)
Naming(K, c) ==
  {i \in RowsOf(K) : enriched[i].resolved /\ \E side \in Sides : Currency(block[i].pool, side) = c}

SideOf(p, c) == Min({side \in Sides : Currency(p, side) = c})

(* Faulty: only the swaps are collected.                                   *)
SourceRowSwaps(c) ==
  IF Naming({"Swap"}, c) = {} THEN 0 ELSE Min(Naming({"Swap"}, c))

(* The row of the block that gives c its columns, 0 if there is none.      *)
SourceRow(c) ==
  LET inits == Naming({"Initialize"}, c)
      swaps == Naming({"Swap"}, c)
  IN  IF inits # {} THEN Min(inits) ELSE IF swaps # {} THEN Min(swaps) ELSE 0

TokenRow(c) ==
  LET row == SourceRow(c)
  IN  [symbol    |-> enriched[row].symbols[SideOf(block[row].pool, c)],
       decimals  |-> enriched[row].decimals[SideOf(block[row].pool, c)],
       measured  |-> enriched[row].measured,
       last_seen |-> height]

DbOut ==
  /\ stage = "db_out"
  /\ stage' = "idle"
  /\ LET named == {c \in Currencies : SourceRow(c) # 0}
     IN  token' = [c \in DOMAIN token \cup named |->
                     IF c \in named THEN TokenRow(c) ELSE token[c]]
  /\ UNCHANGED <<height, block, store_pools, store_tokens, asked, ordinals, enriched>>

-----------------------------------------------------------------------------
Init ==
  /\ height = 0 /\ stage = "idle" /\ block = <<>>
  /\ store_pools = {} /\ store_tokens = <<>>
  /\ asked = <<>> /\ ordinals = <<>> /\ enriched = <<>> /\ token = <<>>

Blocks == UNION {[1 .. k -> Row] : k \in 0 .. MaxRows}

Next ==
  \/ \E b \in Blocks : NewBlock(b)
  \/ StoreTokens
  \/ MapEnriched
  \/ DbOut

Spec == Init /\ [][Next]_vars

-----------------------------------------------------------------------------
(* Every variable has its type (tokens.rs, enrich.rs, db_out.rs).          *)
TypeOK ==
  /\ height \in 0 .. MaxBlocks
  /\ stage \in {"idle", "store_tokens", "map_enriched", "db_out"}
  /\ block \in Blocks
  /\ store_pools \subseteq Pools \ Legacy
  /\ DOMAIN store_tokens \subseteq Currencies
  /\ \A c \in DOMAIN store_tokens : store_tokens[c] \in Seq(Chars)
  /\ asked \in Seq(Currencies \ {Native})
  /\ \A c \in DOMAIN ordinals : ordinals[c] \in DOMAIN block
  /\ \A i \in DOMAIN enriched : enriched[i] \in [resolved : BOOLEAN, decimals : Nat \X Nat,
                                                 symbols : Seq(Seq(Chars)), measured : BOOLEAN]
  /\ \A c \in DOMAIN token : token[c] \in [symbol : Seq(Chars), decimals : Nat, measured : BOOLEAN,
                                           last_seen : 1 .. MaxBlocks]

(* Money is never scaled by a default: a row, or a row of the token table, *)
(* that says its decimals were measured has the decimals of the contract,  *)
(* whatever calls failed in whichever blocks (tokens.rs, attach_tokens).   *)
MeasuredIsTrue ==
  /\ \A i \in DOMAIN enriched : enriched[i].measured =>
       \A side \in Sides : enriched[i].decimals[side] = Decimals[Currency(block[i].pool, side)]
  /\ \A c \in DOMAIN token : token[c].measured => token[c].decimals = Decimals[c]

(* What a token may be called: by the name it gives, without the           *)
(* characters that could not be stored, or unknown.                        *)
Called(c, raw, constant) ==
  IF c = Native THEN {constant} ELSE {UNKNOWN_TEXT} \cup Text(raw)

(* The two stores keep step: a row that finds its pool finds an entry that *)
(* decodes for both its currencies, from the block of the Initialize on,   *)
(* even if every call failed, and whatever separators and numbers a token  *)
(* puts into its name the entry's fields are the token's own: they do not  *)
(* shift (tokens.rs, fetch_token_meta, sanitize, decode_token_value).      *)
ResolvedHasTokens ==
  stage \in {"map_enriched", "db_out", "idle"} =>
    \A p \in store_pools, side \in Sides :
      LET c == Currency(p, side)
      IN  /\ c \in DOMAIN store_tokens
          /\ \E t \in Known(c) :
               /\ t.symbol \in Called(c, Symbols[c], NATIVE_SYMBOL)
               /\ t.name \in Called(c, Names[c], NATIVE_NAME)
               /\ t.sources[1] = "?" => t.symbol = UNKNOWN_TEXT
               /\ t.decimals = IF t.measured THEN Decimals[c] ELSE DEFAULT_DECIMALS

(* Between blocks the token table has a row for every currency of every    *)
(* pool the stream saw initialised, traded or not (db_out.rs:116-118).     *)
EveryTokenListed ==
  stage = "idle" => \A p \in store_pools, side \in Sides : Currency(p, side) \in DOMAIN token

(* The writes of a block are made in first-seen order and their ordinals   *)
(* never decrease in that order (store_tokens takes the lowest ordinal per *)
(* address out of a hash map, fetch_token_meta fixes the order).           *)
OrdinalsNeverDecrease ==
  \A c, d \in DOMAIN ordinals : Place(c) < Place(d) => ordinals[c] <= ordinals[d]

MeasuredOnce(c) == \E t \in Known(c) : t.measured

(* README.md:51 and schema.sql:752: a token is resolved once and cached.   *)
ResolvedOnce ==
  [][\A c \in Currencies : MeasuredOnce(c) => MeasuredOnce(c)']_vars
=============================================================================
