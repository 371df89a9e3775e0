# A TLA+ model of the Uniswap v4 Substreams package

The package turns the blocks of Base into database rows about Uniswap v4: decoded
events, the identity of the pool behind each of them, per-block statistics, lifetime
totals, token metadata and USD prices. It is a dataflow of Rust modules that the
Substreams engine runs once per block. No module keeps anything in memory from one
block to the next; state lives in *stores*, and the engine decides when a module runs,
runs it again after a crash, and takes blocks back on a reorg. What can go wrong is
mostly between modules, and that is what is modelled here.

Files: `X.tla` is a component, `XProofs.tla` its theorems, `MCX.tla` and the
`MCX*.cfg` its TLC instances. `PROJECT.json` lists components, runs, mutants, the code
behind each definition, findings, hazards and theorems.

## 1. Inventory

| component | state it keeps | operations | talks to |
|---|---|---|---|
| engine and manifest (`substreams.yaml`) | the block in flight, which modules have run, store snapshots | next block, run a module whose inputs are ready, execute again, undo | all modules |
| `map_events` (`lib.rs`, `pool_manager.rs`, `hooks.rs`, `position_manager.rs`, `arrakis.rs`, `aggregator.rs` extract) | none; within a block the aggregator's `pending` fee slot | decode the block's logs into rows | `store_pools`, `store_tokens`, `store_pool_totals`, `map_enriched` |
| `store_pools` | pool id -> PoolKey record | `set` at each Initialize | `map_enriched`, aggregator enrich |
| `store_tokens` | token -> decimals, symbol, name, what was measured | batched `eth_call`s for the tokens of each Initialize, `set` | `map_enriched` |
| `map_enriched` (`enrich.rs`) | none; accumulators within a block | write pool identity and token columns onto rows, emit `pool_stats` and `hook_stats` | both total stores, prices, `map_totals` |
| `store_pool_totals`, `store_hook_totals` (`stats_store.rs`) | (pool or hook, metric) -> running sum | `add` the block's delta | `map_totals` |
| `store_prices` (`pricing.rs`) | native price in USD, each whitelisted token's price in native, with source pool and block | observe the last swap of each pool in the block, `set` | `map_totals` (attach_usd) |
| `map_totals` | none | read the totals back for every pool and hook the block touched, fill USD columns | `db_out` |
| `db_out` | none | turn the block into Create / Update / Upsert changes with ordinals | sink |
| ABI bindings (`build.rs`, `abi/`), generated | none | match a log, decode its topics and data | `map_events` |
| `uniswap.proto` messages (`pb/`), generated | none | size, write, decode in three forms, clear | between all modules, and consumers of the package |
| SQL sink and `schema.sql` (external) | tables, cursor, history | apply a batch of blocks, restart from the cursor, undo | readers |

Hard behaviours, each listed at its line under "hazards":

* order within a block: pools are initialised and swapped in one transaction, so the
  join works only because of `get_last` and the manifest's inputs; ordinals must not
  decrease;
* order between modules: only the manifest's input lists order them;
* crash and reorg: add stores must not count a block twice;
* two computations of one quantity: volume in `enrich.rs` and `stats_store.rs`, hook
  totals from enriched rows and pool totals from raw rows;
* partial failure: `eth_call`s fail per token and per batch;
* pairing of logs by a single slot while calls nest;
* start in the middle of history: legacy pools never resolve;
* prices: one write per pool and block, staleness, unmeasured decimals, unpriced legs, a
  price computed from two rows of a block;
* sink: primary keys that recur, updates before inserts, the last partial batch,
  restart from the cursor, undo of flushed blocks;
* decoding: signed and unsigned words, padded addresses and ids, logs of contracts that
  imitate the topics, text chosen by a token;
* generated code that exists several times: three decoders for each message, sizes and
  writes listed apart.

What makes each component correct:

* *pipeline*: what it emits for a block is a function of the chain up to that block,
  whatever the schedule, crashes and reorgs were; lifetime totals are sums of the
  per-block statistics; a hook's figures are the sums of its pools';
* *aggregator*: a fee reaches the swap of its own call or none; verdicts do not depend
  on the order within a block;
* *tokens*: a default is never taken for a measurement; every currency of every known
  pool has an entry and a table row;
* *pricing*: no price from unmeasured decimals or an unpriced leg, a price is
  attributed to the pool that gave it, a swap is valued with a price that no earlier block
  has replaced and no later log has made;
* *db_out and sink*: after any crashes, restarts and reorgs the tables hold each block up to
  the cursor once, whichever order the sink applies a block in;
* *decoder*: each event the package covers is one row, with the arguments that were logged;
* *messages*: what one module writes is what the next one reads, with any of the decoders.

## 2. Modules

### PoolLogs, Ledger, Pipeline, PipelineProperties

`PoolLogs` is the vocabulary: a log has an emitter, a kind, a pool, two signed amounts
and a fee. A block is the sequence of its logs, so an index is the block-scoped
`log_index`. `Tally` sums a metric over the logs of a block by counting units, so that the sum is a
`Cardinality` about which the library has theorems; no recursion is needed. `Legal` is
what the PoolManager contract guarantees: a pool is initialised once and before
anything else happens to it, possibly earlier in the same block. `Legacy` pools were
initialised before the stream began.

`Ledger` is the abstract specification: two actions, a block appended together with all
its output, computed from the chain alone, or the last block taken away.

`Pipeline` has a variable per store and per module output and an action per module:

| action | code |
|---|---|
| `MapEvents` | `lib.rs` `map_events`, `pool_manager.rs` `extract`: the emitter's address is the filter |
| `StorePools` | `store_pools.rs` |
| `StorePoolTotals`, `StoreHookTotals` | `stats_store.rs` `pool_deltas`, `hook_deltas`, `add_delta` |
| `MapEnriched` | `enrich.rs` `enrich`: `RowKey` writes identities, `PoolStats` and `HookStats` are the accumulators |
| `MapTotals` | `stats_store.rs` `totals`, `note` |
| `DbOut` | the end of the block: output is emitted and the stores become the next snapshot |
| `NewBlock`, `Crash`, `Undo` | the engine |

`Inputs` is the manifest, module by module; `Run(m)` is the scheduling rule, so TLC tries
every order it allows. `Crash` loses the outputs and partly written stores of the block
in flight, which starts again from the last snapshot. `Undo` is a reorg of the last
block, emitted or not; deeper reorgs are several of them.

Left out of `Pipeline`: `store_tokens` and its columns (in `Tokens`; nothing else
reads them here), the aggregator rows (in `Aggregator`; other modules pass them
through), prices (in `Pricing`), and the rows of ERC-6909 claims, protocol
fees, positions and hook deployments (in `Decoder`; every later module passes them through). Amounts are small integers; the code uses
arbitrary-precision ones, so no width is lost. Fields that travel with a pool's key
(fee tier, tick spacing, permissions) are one value, `pair`. Volume is computed twice in the code
and twice in the model: `Accumulated`, with `AbsAmount` and `Adds`, is what the join counts for its
statistics, `Weight` of `PoolLogs` what `stats_store.rs` adds to the totals.

Properties: `SnapshotsExact` (the stores left by each emitted block are what the chain
says), `RowsResolve` (a row has its own pool's key if the stream holds the Initialize
and none otherwise), `TotalsAreRunningSums` (the totals emitted are the sums of the
statistics emitted, so the two conventions for volume agree), `HooksCoverTheirPools` (a hook's store entries are the sums of its
pools'), `NoZeroKeys`, `ImplementsLedger` (refinement) and `EveryBlockEmitted`
(liveness).

### Aggregator

The logs of the three aggregator events arrive one at a time, from any emitter, in any
interleaving: the topics alone select them, and calls nest. `pending` is the slot of
`extract`. A row points at its log by index; a fee at index 0 is none. `Short` is a log
whose topics or data are too short for its branch: it does not touch the slot.
`Initialize` may come at any point of the block, before or after the rows about the
pool; `Enrich` ends the block, and `Verified` reads the pool store as the block leaves
it.

Properties: `FeesPaidOnce` (a swap carries an earlier fee of the same contract and
transaction, with nothing in between, and no fee is carried twice),
`AdjacentFeeMatched` (the converse for calls that do not nest), `VerdictsAgree`.

### TokenText, Tokens

One block: `NewBlock`, `StoreTokens` (any calls fail, any batch comes back short),
`MapEnriched` (token columns), `DbOut` (the token table). `Decimals`, `Symbols` and `Names`
are the truth about each contract. The calls go out in batches of `MaxTokensPerBatch` tokens,
three for each, and the answers are found by their position (`Raw`). Ordinals and the order
of writes are modelled. Of `store_pools` only its key set is kept, as at the end of
the block.

`TokenText` holds what is done to the text: the two shapes a name comes in and the word some
contracts answer instead of reverting, `sanitize` (control characters dropped, then the cut,
then the trim), the stored value of four fields with their separator, and its decoder. Text is
a sequence of characters; `MAX_TEXT_LEN` is scaled to 4 so that the cut happens, a number is
one character, and the offsets inside an answer are not modelled (an answer with bad ones is
one that gives no text). One token of the instance names itself like the fields of a value. The
characters (`Chars`) and the text of a number (`Numeral`: one character, a different one for each
number and never the separator) are constants; the instance takes `STRING` and `ToString`. `Without` and
`Sorted` filter and sort by rank rather than by recursion, so that proofs can reason about them.

Properties: `MeasuredIsTrue` (a row or table entry that claims measured decimals has the
true ones), `ResolvedHasTokens` (every entry of a known pool's currencies decodes, to the
token's own text and decimals or to a placeholder), `EveryTokenListed`,
`OrdinalsNeverDecrease`.

### Pricing

One block: `NewBlock`, `StorePrices` (`price_writes`), `AttachUsd`. A price is
represented by the places of the chain it is computed from, which determine its value:
`{x}` is the price in the pool row at x, `{x, y}` a product, `{}` the constant 1 of native
and WETH. The arithmetic, its rounding and the text codec are left out; what is kept is
which row each number comes from, the depth of a row (in native, of the leg that does
the pricing), whether its decimals were measured and whether its square root is zero.
`Offers` and `Deepest` are the loop of `find_native_per_token`; `Attribution` is the copy
of it in `attribution`, which differs in what it does for a stablecoin. Pools are numbered in the
order of their ids, which decides ties.

`store` is what the block before left and `writes` the block's own writes with their
ordinals, so `GetAt` is the engine's `get_at`. Whether `get_at` includes a write at the very
ordinal asked for is the engine's business: the code's comment says it does not,
`AttachUsd` tries both. Crashes and reorgs of the store are those of `Pipeline`.

Properties: `NativeIsLatest` (the stored native price is that of the anchor's latest good row
in the whole chain), `DerivedFromItsSource` (the pool recorded gave the price, was the
deepest, and no later block could have given another), `NoFabricatedPrice`,
`NeverFromLater`, `AtMostABlockStale`.

### Abi, Decoder

`Abi` is a table, an entry for each event: what the ABI file declares, and how the
binding generated from it reads a log. `Decoder` is `map_events`: `Emit` is the chain, which
encodes an event as declared, with arguments that differ between parameters and include
zeros, negative numbers, padded and wide ones; any contract may log any topics. Then three
extractors walk the block one after another, an action for each log. The fourth is `Aggregator`.
A word has three bytes for 32 and an address two for 20; the permission bits and the fee and
tick types keep their width. Hex and decimal formatting is left out.

Properties: `EveryLogIsItsRow` (each event of the three contracts is exactly one row, in the
list, with the kind and in the columns `uniswap.proto` documents, showing the arguments the contract
logged), `RowsInLogOrder`, `HookBitsAreItsAddress`, `CurrencyIsItsId`.

### Wire, OwnedMessages, ViewMessages, LazyMessages, Codec

Everything that passes between modules, and to the package's consumers, is a message of
`uniswap.proto`. The generated code has three forms of each of the eighteen messages (owned, view
and lazy view) with functions of their own: `OwnedMessages`, `ViewMessages` and
`LazyMessages` are tables with an entry for each message and function, listing the fields its
arms name, in its order, with tag sizes, numbers and readers as the code has them. `Codec` has what such
an arm does: the two passes of an encoder and the cache of nested sizes, merging, fragments
a lazy view keeps undecoded (decoded later one by one, each within its own bounds), conversion to the owned form, `clear`. `Wire` is the buffa
runtime (external): a message is a sequence of tokens with widths, so a wrong length prefix
leads the reader to the wrong token. A 64-bit integer is scaled to 3 bits and a 32-bit one to 2.

One message is written (`SetField`, `Send`), may get a record of another encoder or a
damaged one (`Add`), is read by all three decoders record by record (`MergeField`), and the views are
turned into owned messages and written again (`Finish`).

Properties: `RoundTrip`, `PassesAgree` (the assertion behind `debug_assert_two_pass`),
`ReadersAgree` (the decoders give the same message or all fail), `RewritesKeepMessage`.
`TypeOK` says that no decoder lets a number wider than its field in. buffa's limits on nesting and
on the memory of repeated fields are not modelled.

### DbOut

`Changes(n)` is the array `db_out` returns for block n: pools, swaps with the pool updates,
position events with the position changes, registrations, summaries. The array is the set of its
changes, each with the place it is pushed at (its loop, the row, which push of that row): `Loop` is
the order of db_out's loops, and `Precedes` the order the sink applies a block in, by place or
by ordinal and then place. `PoolOrder` is the order of the `BTreeMap` of `enrich.rs` that the
summaries come out in. Tables that
differ only in columns (modify_liquidity, donate, claims, protocol fees, hook
deployments, the other aggregator and summary tables) are represented by `swap`,
`position_event` and `pool_stats`. The sink reads blocks (`Stream`), applies a full batch in one
transaction with its cursor (`Flush`), may crash (`Crash`), drops what is left
at the end of a bounded run (`Finish`) and is started again from the cursor (`Start`). `Undo` is a
reorg: blocks still in the batch are forgotten, flushed ones are taken back with the row
images of the history table, one for each row a block touched (`Images`: the row as it was, or the
empty set if the block made it). Otherwise the
chain does not depend on the run: blocks read again are the same. `Flush` tries both orders
the comment at `db_out.rs:39-43` allows. What an order decides is only the effect of several changes of one
row: the sink promises none among tables (`schema.sql:41-43`), no property compares tables within a transaction, and
a batch shows all of its changes at once. A Create of a key that exists stops the sink for good.

Properties: `TablesAtCursor` (the tables are a function of the chain up to the cursor),
`PoolUpdatesLand`, `SummariesCountRows` (a summary counts exactly the swap rows of its pool and block
that are in the database, and every swap row has its summary), `OnlyRegistrationsRecur`, `PaddedRunCompletes`
(liveness).

Operators whose comment begins with "Faulty" are the code with one plausible bug. No
specification uses them; replacing an operator by its faulty form makes TLC report the
property the mutant is listed with.

## 3. Runs

| run | instance | result |
|---|---|---|
| `pipeline` | two pools of one hook, one without a hook, one legacy pool of the hook; 12 log kinds incl. swaps in both directions, an empty leg, two fees, a donate and a foreign log; 2 blocks of up to 2 logs, 1 disruption | passes, about 62 000 states |
| `pipeline_live` | one pool and a legacy one, 3 blocks of up to 2 logs, 2 disruptions | passes; every block is emitted |
| `aggregator` | 2 emitters, 1 pool, 2 blocks of up to 3 logs, 2 transactions in each | passes, about 377 000 states |
| `tokens` | native and three tokens, three pools of neighbouring pairs, a legacy pool, batches of two tokens; 2 blocks of up to 2 rows, 2 failing calls and any short batches in each | passes, about 70 000 states |
| `tokens_once` | as `tokens` | finding |
| `pricing` | anchor, two pools of ZORA with native and WETH, one with USDC, USDC with native; 12 log kinds incl. an Initialize, zero square roots, unmeasured decimals, three depths; 2 blocks of up to 2 logs | passes, about 31 000 states |
| `pricing_later` | 3 log kinds, 2 blocks of up to 3 logs | finding |
| `dbout` | one pool and one position of the stream, one of each from before it, 10 log kinds; 2 blocks of up to 2 logs, flushed block by block, 2 runs, 1 reorg | passes, about 24 000 states |
| `dbout_runs` | 5 log kinds, 4 blocks of up to 1 log, flushed by two, 3 runs, 1 reorg | passes, about 11 000 states; the last block is reached |
| `dbout_keys` | as `dbout`, without a reorg | finding |
| `decoder` | all 13 events the extractors decode and the others of the three contracts, 5 samples of arguments each, logged by the contract or another one; blocks of up to 2 logs in one or two transactions | passes, about 199 000 states |
| `codec` | all eighteen messages; up to two fields set, or one and a foreign record, or two foreign records, at the widest value of its type, nested messages empty or full | passes, about 311 000 states |

Why the bounds suffice. *Pipeline*: the interesting blocks are Initialize followed by a
swap of the same pool (2 logs) and a pool that is initialised in one block and used in
the next (2 blocks, the second reading what the first left). One disruption covers a
crash after any set of modules and a reorg of either block; `pipeline_live` has two, so
a crash during the execution that follows an undo, at a smaller alphabet. *Aggregator*:
a fee that could go to the wrong swap, or to two, needs 3 logs; a row before and
after the Initialize and a later block need 2 logs and 2 blocks. Longer nestings are left to the
theorems. *Tokens*: two
pools that share a token, each initialised in a block of its own or in the same one, which
makes a batch of two and one of one; with two failing calls a pair has every combination of
measured sides, a short batch leaves a token without any answer. *Pricing*: a price that goes through the stablecoin needs
two pools in one block and a third log to be valued; a price that stands in
a quiet block needs a block before it; ties need two pools of one depth. *DbOut*: a pool created and
updated in one block, and created in one and updated in the next, need 2 logs and 2
blocks; a batch of 2 blocks with a crash between them, dropped and read again, needs 4
blocks and 3 runs for a crash in each batch; one reorg of any depth takes back blocks in the
database, in the batch, or both. *Decoder*: the arms share nothing but the message they append to, so two logs show
every order; wrong columns and readers show in one. *Codec*: the encoders test
each field by itself, so two fields, one of them perhaps nested and full, show order, cache and
merging; with two records added, a nested part that is cut short is followed by another part, whose bytes
it must not borrow; every field of every message is set in some state. The theorems below remove the bounds for the properties they
cover.

Deadlock is not checked: the number of blocks is bounded and the model stops after the
last one.

Fairness. `pipeline_live` assumes weak fairness of `RunModule`, that is, the
engine keeps running modules whose inputs are ready. That is what an engine does
and all the code needs. Nothing is assumed of `NewBlock`, and crashes are
finitely many (`MaxDisruptions`): an engine that crashes in every attempt at a block
never emits it. `dbout_runs` assumes weak fairness of `Start`, `Stream` and `Flush`: an
operator starts the sink again, and a running sink reads and flushes. The last of
`MaxRuns` runs does not crash; a run that always crashes before its first flush makes
no progress. The property holds because `Stop` is a multiple of the flush interval, as
`README.md` of the repository advises; for another `Stop` the last blocks are never written,
which is what that section reports. The padding counts on final blocks: a reorg moves the cursor off the
interval, and the property is about runs without one.

## 4. Findings

* `tokens_once`: documentation says a token is resolved once and cached. `store_tokens`
  never reads its store; every Initialize that mentions the token asks again, and a
  failed call overwrites a measured entry with a placeholder.
* `pricing_later`: a derived price through USDC is written at its own pool's log index but is
  computed with the block's native price, which may come from a later log; a swap
  between them is valued with it.
* `dbout_keys`: `token` is said to be the only table whose key recurs. Any contract may log
  a registration of a pool twice; the second Create of `aggregator_pool` is refused and the
  sink stops.

Seen while reading, without a run:

* `schema.sql:753-754` says `token.decimals_measured` records whether the token's
  `decimals()` answered. `db_out.rs:128` takes the pair's flag, which `enrich.rs:378` computes as
  the AND over both tokens: false when the *other* token's call failed;
* `uniswap.proto:146-147` says the price a swap is valued at is the one standing immediately before its log.
  `pricing.rs:681` keeps one observation per pool and block, the last, so a swap after the block's first
  anchor swap and before its last is valued with the previous block's price, or not at all;
* `position_manager.rs` and `arrakis.rs` have a `meta` of their own, which takes the timestamp
  with `timestamp_seconds()`, a panic if a block has no header, where `hooks::meta` falls back to zero;
* `aggregator.rs:78-79` promises a HookSwap the latest unconsumed fee of its hook and
  transaction. There is one slot: when a hook collects two fees before two of its HookSwaps (it
  is called again within its own call), the second swap carries none;
* `pricing.rs:849-851` says the provenance of a stablecoin's price is the anchor.
  `attribution` prefers any pool of USDC with native or WETH that is deep enough, so its id,
  depth and ordinal are recorded with the anchor's price;
* `pricing.rs:674-680` says Initialize rows are inert. `enrich.rs:185-192` attaches decimals to
  them, and the anchor, not gated on depth, prices native at its Initialize (`Pricing` has
  this behaviour);
* `tokens.rs:603-605` says last write wins, `tokens.rs:621` keeps the lowest ordinal (both
  mentions carry the same value within a block, so nothing depends on it);
* `db_out.rs:89-91` pushes the summaries last so that no reader in mid-batch sees one that counts rows
  it cannot see. `schema.sql:41-43` says a batch is one transaction with no guaranteed order between tables: it is
  the transaction, not the order, that keeps a reader from it (`SummariesCountRows`);
* `pool_manager.rs:369-371` calls a claim id that is not shaped like an address structurally impossible.
  `pool_manager.rs:338-346` concedes that the id of an `Approval` is the caller's: a wide one can be
  logged, and narrows to no currency (`Decoder` has it);
* comments that the code has outrun: `substreams.yaml:170-174` (totals "not yet on the
  db_out path"), `db_out.rs:64-68` (loops that "will not fire yet").

## 5. Proofs

Eight modules hold theorems, checked by TLAPS for every value of the constants that satisfies
the named assumptions of the modules (`PoolLogsAssumption`, `BoundsAssumption`, `AggregatorAssumption`,
`PricingAssumption`, `TextAssumption`, `TokensAssumption`, `DecoderAssumption`, `DbOutAssumption`: they give the constants their types,
and TLC evaluates them in every run). The last also says that the order of pool ids is total. No theorem assumes fairness. Each is proved the
same way: an inductive invariant, true initially and kept by every action, that implies the property.

*PipelineProofs*: `TypeCorrect`, `SnapshotsCorrect`, `RowsCorrect`, `NoZeros`. `SnapshotsExact` speaks of
finished blocks only, so it is not inductive: the invariant `IInv` adds what the stores
and outputs of the block in flight hold as a function of `done` -- a store whose module
has not run equals the last snapshot, one whose module has run equals it plus the
block; `events` is the decoded block once `map_events` is done, and the rows of
`enriched` carry the keys the chain determines once `map_enriched` is. The step that needs
work is that adding a block's delta to a lifetime sum gives the next lifetime sum:
`Lifetime` counts units tagged with their block, so it is a disjoint union of finite
sets. `HookDeltas` sums over rows by resolved hook; that these are the logs of the
pools of that hook needs the join to be exact, in turn that `store_pools` is.
`RowsCorrect` adds to `IInv` that the rows of `map_totals` and of every emitted
block are `RowsOf` of that block; `NoZeros` adds that the snapshots are free of zeros too,
as a crash or a reorg brings one back.

*LedgerProofs*: `PipelineImplementsLedger`, the refinement. On top of `IInv`, `EmitInv` says
that once `map_enriched` is done its rows and both statistics are the ones `Ledger` computes from
the block, once `map_totals` is done its whole output is `Output(chain, Len(chain))`, and that
the block in flight is a legal extension of the emitted ones. With it `db_out` is
`Emit`, a reorg of an emitted block is `Reorg`, and every other step leaves the ledger and
the emitted chain alone. The statistics are sums over the swap and liquidity rows of the pools that
resolve to a hook, the ledger's over all logs of the hook's pools: the rows left out weigh nothing.
`AccumulatedTally` says that the join's convention for volume is that of the totals.

In the same module `TotalsAreSums` and `HooksCovered`. Both properties add up with the recursive fold `MapThenFoldSet`, and
the library's theorems about it take operators as parameters. The lemmas go
round: `FoldExists` and `TotalUnfolds` are proved for the one fold in use by taking a least set size at which
they fail (`Extremes` has the least element), and `TotalCounts` identifies the sum with the size
of a finite set of tagged units, which is how `Pipeline` defines a lifetime. `SumsInv` says of every emitted block
that its statistics and totals are those of the chain up to it; `History` adds that each block was a legal
continuation of the ones before it, so that no pool was initialised twice.

*AggregatorProofs*: `TypeCorrect`, `FeesNeverMispaired`, `FlatCallsPaired`, `VerdictsNeverWaver`. For the fees, the invariant is that
the slot is empty exactly when a swap, or nothing, came after the last fee: if it holds
fee i, then i is a fee row that no row carries and no fee or swap lies after it; and if it
is empty every fee has a swap after it. For the verdicts (`VerdictsStand`): a swap once
verified is of a pool that is known and the pool's hook is the swap's contract; `known` only grows, so
a later row of the pool cannot be told otherwise.

*PricingProofs*: the six invariants of `Pricing` (`TypeCorrect`, `NativePriceIsLatest`, `PricesAreAscribed`,
`PricesAreMeasured`, `ValuesNotFromLater`, `ValuesNotStale`). `IInv` says, as functions of the chain,
what the price store holds before the block in flight (`Stands`), what that block writes once
`store_prices` has run (`WritesExact`), and at which price each swap of the finished block was valued (`UsdExact`); the six invariants follow from it.

*DecoderProofs*: the five invariants of `Decoder` (`DecoderTyped`, `LogsAreRows`, `RowsOrdered`, `HookBits`, `CurrencyIds`), by
the invariant `DecoderInv`. `OrderInv` says that the log of a row has been walked by the extractor of the list it is in,
while the log being walked has not, and that a list is sorted only after every walk. `ChainInv` says
that each log is the encoding of what was emitted there, with arguments of the declared event; `RowInv`, that each row is a `GoodRow`
of the one log it is from: of the right list and kind, each column showing its argument; `CompleteInv`,
that every log an extractor has walked and decodes has a row; `CountInv` bounds the rows. `EveryLogIsItsRow`
speaks of decoded blocks only, where every log has been walked; that its row is the only one is the uniqueness of event ids, part
of `OrderInv`.
What carries them is about one log. `ArgumentFits`: an argument fits its type, whatever parameter and sample it is drawn for.
`ColumnShows`: a word, read the way the binding reads that type, is the argument it was made from. `WordsOfRange`: the indexed
parameters are the topics and the others the data, each in declaration order, a statement about finite sets of positions.
Of each arm (`SwapEncoded`, `SwapRead`, `SwapFits`, `SwapShown`, `SwapGood`, and so for the other twelve) the lemmas say where the log
holds each argument, that the arm reads each column of its row from there, that the arguments fit, and so that the
row shows them; with `Signature` no arm takes another event's log. `BitKept` and `Narrows` are the
arithmetic of the last two theorems: masking two bytes keeps each of the fourteen bits, and an id narrows exactly if it fits.

*TokensProofs*: `TokensListed`, `OrdinalsInOrder`, `TypeCorrect`, `MeasuredDecimalsAreTrue`,
`ResolvedTokensDecode`. `TokensInv` says which tokens the pools seen
so far name (`PoolsListed`), that every token of an Initialize row was looked up when the block was
written (`InitsResolved`), and that a record's ordinal is the lowest at which the block
mentions the token (`OrdinalsExact`); `PlaceBounds` places each ordinal within its block. The last three follow a record through its
text form, with a second invariant, `KeptInv`: every stored value is the encoding of a `Faithful` token, one
whose decimals, when measured, are the contract's and whose texts are the contract's own, cleaned (`StoreGood`);
both tokens of every pool seen before the block are stored (`StoreKeeps`); the columns built from them have
their types (`RowsTyped`). Two facts carry it.
`RoundTrip`: decoding undoes encoding, since `sanitize` leaves no separator in a text (`SanitizeClean`), so that
the separators of a value are exactly the ones between its fields (`LaidEnds`, `LaidFields`). And
`FetchedFaithful`: the answer found at a position is to the call made for that token, whichever calls fail
and whichever batches come back short (`ChunkHas`, `RawIs`).

*DbOutProofs*: the five invariants of `DbOut` (`TypeCorrect`, `DatabaseExact`, `UpdatesFindRows`, `SummariesTrue`,
`OtherKeysNeverRecur`). `TablesAtCursor` is not inductive: a reorg sets the tables to what the row images say, and whether that
is the state after block n depends on every image since. `IInv` therefore says that there is a sequence of
snapshots, one for each block the database holds (`Snapshots`): each is `Exact` for its block, the last is the tables, and
the history entry of a block has, for the rows that differ between its two snapshots, the row as the first has it. The argument has four parts.
(1) The changes to one row in one block are lined up the same way in both orders (`PoolLined`, `PositionLined`), because a row's
ordinal is its log's index, a pool's Initialize precedes its swaps and a mint precedes the other transfers (`ChainLegal`);
so the order does not matter, and every update finds its row. (2) One block takes an exact database to the next
exact one: what the last change of a column says is what the latest log of the chain says (`PoolBlock`, `PositionBlock`,
`EventsBlock`, together `ExactAfter`), and no key but that of an aggregator pool is created twice. (3) A batch is its blocks one after another,
by least counterexample. (4) The first image of a row after block n is the row of the n-th snapshot, or the
row did not change since (`TablesAtIs`), so an undo of any depth lands on a snapshot.
For `SummariesTrue`, an exact database has a swap row for each swap of the chain and a summary for each pool and block with
one, with the size of the block's set of swaps (`RowsBlock`); `SwapRowsAre` is the bijection from that set to the rows.

*Extremes*: least and greatest elements of finite sets of naturals, and the step from there to a
least counterexample, which stands in for induction in the other modules.

Only model-checked, and why:

* all of `Codec`: its encoders and parsers are RECURSIVE over nested messages and token sequences, so each of its invariants is an
  induction over data;
* `EveryBlockEmitted` and `PaddedRunCompletes`: liveness.

## 6. Plan

Order: the pipeline that everything else sits in, then what its modules promise one by
one, then the two ends (decoder and sink), then what travels between them.

1. *Pipeline*, *Aggregator*, *Tokens*, *Pricing*, *DbOut* with reorgs, *Decoder*, *Codec*: done.
2. *Backfill*: stores built in parallel segments and merged (`add` and `set` policies, the
   argument at the head of `stats_store.rs`), refining the sequential stores of `Pipeline`.
   Constants: segments, blocks, workers; runs: merge order, a failing segment.
3. Proofs: the invariants of every module but `Codec` are proved; its parser would have to become a recursive function first.

## 7. Not modelled

The messages of `sf.firehose.v2` (no module uses them), `amounts.rs` (not part of
the build), formatting of hex and decimal text, the arithmetic of prices (`pricing.rs`:
fixed-point rounding; only which rows a price is computed from is modelled), reflection and `Debug`
of the generated messages, index and view definitions in `schema.sql`.
