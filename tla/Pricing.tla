------------------------------ MODULE Pricing ------------------------------
(***************************************************************************)
(* store_prices (pricing.rs) keeps the price of the native currency in     *)
(* USD, read off one anchor pool, and the price in native of each other    *)
(* whitelisted token, read off the deepest pool it shares with native or   *)
(* the stablecoin.  attach_usd, in map_totals (stats_store.rs), values the *)
(* block's swaps with get_at at their log index.                           *)
(*                                                                         *)
(* A price is represented by the set of places in the chain it is computed *)
(* from: {} is the constant 1, {x} the price in the pool's row at x, and   *)
(* {x, y} their product.  The depth of a row stands for what the leg       *)
(* opposite the priced token is worth in native: of two legs at most one   *)
(* can be priced by the other.  A row whose tokens did not resolve, or     *)
(* whose decimals() is absurd, behaves like one that is not measured.      *)
(***************************************************************************)
EXTENDS Integers, Sequences, FiniteSets, FiniteSetsExt

CONSTANTS
  Native, Wrapped,   \* the zero address and WETH
  Stable,            \* USDC
  Whitelist,         \* the tokens that get a store entry
  Tokens,
  PairOf,            \* the tokens of each pool; pools are numbered in the order of their ids
  Anchor,            \* STABLECOIN_NATIVE_POOL_ID
  Old,               \* the pools initialised, without a price, before the first block
  Floor,             \* minimum_active_native
  Logs,              \* the alphabet of logs blocks are made of
  MaxLogs,           \* bound: logs in a block
  MaxBlocks          \* bound: blocks

Pools == DOMAIN PairOf

Sides == {1, 2}

Log == [kind : {"Initialize", "Swap"}, pool : Pools, sqrt : Nat, depth : Nat, measured : BOOLEAN]

ASSUME PricingAssumption ==
  /\ Native # Wrapped /\ Stable \notin {Native, Wrapped}
  /\ {Native, Wrapped, Stable} \subseteq Whitelist /\ Whitelist \subseteq Tokens
  /\ PairOf \in Seq(Tokens \X Tokens)
  /\ \A p \in Pools : PairOf[p][1] # PairOf[p][2]
  /\ Anchor \in Pools /\ PairOf[Anchor] = <<Wrapped, Stable>>
  /\ Old \subseteq Pools
  /\ Logs \subseteq Log
  /\ \A l \in Logs : l.kind = "Initialize" => l.depth = 0
  /\ Floor \in Nat /\ MaxLogs \in Nat /\ MaxBlocks \in Nat

VARIABLES
  chain,    \* the blocks so far; a place <<n, i>> is log i of block n
  stage,    \* the module to run next on the last block, "idle" when it is done
  store,    \* store_prices as the block before left it
  writes,   \* key -> the write of the block
  usd       \* row -> the USD columns of each swap of the block that got any

vars == <<chain, stage, store, writes, usd>>

NativeUsdKey == "native_usd"

Keys == {<<NativeUsdKey>>} \cup {<<"derived_native", t>> : t \in Whitelist}

Places == UNION {{n} \X DOMAIN chain[n] : n \in DOMAIN chain}

LogAt(x) == chain[x[1]][x[2]]

Before(x, y) == x[1] < y[1] \/ (x[1] = y[1] /\ x[2] < y[2])

-----------------------------------------------------------------------------
(* The chain: a pool is initialised once, before it is swapped.            *)
Legal(c) ==
  LET inits(p) == {x \in UNION {{n} \X DOMAIN c[n] : n \in DOMAIN c} :
                     c[x[1]][x[2]].kind = "Initialize" /\ c[x[1]][x[2]].pool = p}
      n == Len(c)
  IN  \A i \in DOMAIN c[n] :
        LET l == c[n][i]
            earlier == {x \in inits(l.pool) : Before(x, <<n, i>>)}
        IN  (l.kind = "Initialize") <=> (l.pool \notin Old /\ earlier = {})

Blocks == UNION {[1 .. k -> Logs] : k \in 0 .. MaxLogs}

NewBlock(b) ==
  /\ stage = "idle" /\ Len(chain) < MaxBlocks
  /\ chain' = Append(chain, b)
  /\ Legal(chain')
  /\ stage' = "store_prices"
  /\ store' = [k \in DOMAIN store \cup DOMAIN writes |->
                 IF k \in DOMAIN writes THEN writes[k].value ELSE store[k]]
  /\ writes' = <<>> /\ usd' = <<>>

-----------------------------------------------------------------------------
(* The observations of a block.                                            *)

IsNativeOrWrapped(t) == t \in {Native, Wrapped}

(* Faulty: a default passes for a measurement.                             *)
EffectiveDecimalsTrusting(t, l) == TRUE

(* Decimals to price a leg with: the native currency needs no contract.    *)
EffectiveDecimals(t, l) == t = Native \/ l.measured

Measured(l) == \A side \in Sides : EffectiveDecimals(PairOf[l.pool][side], l)

(* An aggregator hook's swap has a square root of zero: no price here.     *)
Observed(l) == Measured(l) /\ l.sqrt > 0

(* Where block n has an observation of pool p.                             *)
Seen(n, p) == {i \in DOMAIN chain[n] : chain[n][i].pool = p /\ Observed(chain[n][i])}

(* Faulty: the first one stays.                                            *)
LastSeenFirst(n, p) == Min(Seen(n, p))

(* The last one, by log index, replaces the others.                        *)
LastSeen(n, p) == Max(Seen(n, p))

Observations(n) == {p \in Pools : Seen(n, p) # {}}

-----------------------------------------------------------------------------
(* price_writes.                                                           *)

(* The native price of the block: no gate on depth.  {} if there is none.  *)
NativeUsd(n) == IF Anchor \in Observations(n) THEN {<<n, LastSeen(n, Anchor)>>} ELSE {}

(* A leg can serve as an anchor if its native price is known in the block. *)
CanAnchor(t, n) == IsNativeOrWrapped(t) \/ (t = Stable /\ NativeUsd(n) # {})

AnchorDerivedNative(t, n) == IF t = Stable THEN NativeUsd(n) ELSE {}

Other(p, t) == IF PairOf[p][1] = t THEN PairOf[p][2] ELSE PairOf[p][1]

Depth(n, p) == chain[n][LastSeen(n, p)].depth

(* The candidates that can price t.                                        *)
Offers(t, n) ==
  {p \in Observations(n) : /\ t \in {PairOf[p][1], PairOf[p][2]}
                           /\ CanAnchor(Other(p, t), n)
                           /\ Depth(n, p) > Floor}

(* The deepest; of equals the first.                                       *)
Deepest(t, n) ==
  CHOOSE p \in Offers(t, n) :
    \A q \in Offers(t, n) : Depth(n, q) < Depth(n, p) \/ (Depth(n, q) = Depth(n, p) /\ p <= q)

HasPrice(t, n) == IF t = Stable THEN NativeUsd(n) # {} ELSE Offers(t, n) # {}

(* A stablecoin is the reciprocal of the native price, without a search.   *)
FindNativePerToken(t, n) ==
  IF t = Stable THEN NativeUsd(n)
  ELSE LET p == Deepest(t, n)
       IN  {<<n, LastSeen(n, p)>>} \cup AnchorDerivedNative(Other(p, t), n)

(* Faulty: of equals the last.                                             *)
AttributionLast(t, n) ==
  IF Offers(t, n) = {} THEN Anchor
  ELSE Max({p \in Offers(t, n) : \A q \in Offers(t, n) : Depth(n, q) <= Depth(n, p)})

(* The pool a price is ascribed to: selected again, for a stablecoin too,  *)
(* and the anchor if nothing is.                                           *)
Attribution(t, n) == IF Offers(t, n) = {} THEN Anchor ELSE Deepest(t, n)

(* A write takes its ordinal and its provenance from a pool's observation. *)
Write(price, p, n) ==
  [ordinal |-> LastSeen(n, p),
   value   |-> [price |-> price, native_locked |-> Depth(n, p), source_pool |-> p, block |-> n]]

(* Faulty: the constant 1 of WETH is searched for like any other price.    *)
TargetsWithNative(n) ==
  {t \in Whitelist : /\ \E p \in Observations(n) : t \in {PairOf[p][1], PairOf[p][2]}
                     /\ HasPrice(t, n)}

(* The whitelisted tokens seen, other than native, that have a price.      *)
Targets(n) ==
  {t \in Whitelist : /\ ~IsNativeOrWrapped(t)
                     /\ \E p \in Observations(n) : t \in {PairOf[p][1], PairOf[p][2]}
                     /\ HasPrice(t, n)}

(* Faulty: in a block without a native price an empty one is written.      *)
PriceWritesQuiet(n) ==
  [k \in {<<"derived_native", t>> : t \in Targets(n)} \cup {<<NativeUsdKey>>} |->
     IF k # <<NativeUsdKey>> THEN Write(FindNativePerToken(k[2], n), Attribution(k[2], n), n)
     ELSE IF NativeUsd(n) # {} THEN Write(NativeUsd(n), Anchor, n)
     ELSE [ordinal |-> 0,
           value |-> [price |-> {}, native_locked |-> 0, source_pool |-> Anchor, block |-> n]]]

(* At most one write per key, in the order of their ordinals.              *)
PriceWrites(n) ==
  [k \in {<<"derived_native", t>> : t \in Targets(n)}
           \cup (IF NativeUsd(n) = {} THEN {} ELSE {<<NativeUsdKey>>}) |->
     IF k = <<NativeUsdKey>> THEN Write(NativeUsd(n), Anchor, n)
     ELSE Write(FindNativePerToken(k[2], n), Attribution(k[2], n), n)]

StorePrices ==
  /\ stage = "store_prices"
  /\ stage' = "map_totals"
  /\ writes' = PriceWrites(Len(chain))
  /\ UNCHANGED <<chain, store, usd>>

-----------------------------------------------------------------------------
(* attach_usd.                                                             *)

(* Faulty: get_last, the state after every write of the block.             *)
AtIgnoringOrdinal(ord, k, own) == k \in DOMAIN writes

(* Whether the block's write of k is there at ordinal ord.  `own` is the   *)
(* engine's: whether a write at ord itself is.                             *)
At(ord, k, own) ==
  k \in DOMAIN writes /\ (writes[k].ordinal < ord \/ (own /\ writes[k].ordinal = ord))

Has(ord, k, own) == At(ord, k, own) \/ k \in DOMAIN store

GetAt(ord, k, own) == (IF At(ord, k, own) THEN writes[k].value ELSE store[k]).price

(* A stablecoin leg is USD; any other needs the native price, and a token  *)
(* its price in native besides.                                            *)
Priced(t, ord, own) ==
  \/ t = Stable
  \/ /\ Has(ord, <<NativeUsdKey>>, own)
     /\ IsNativeOrWrapped(t) \/ Has(ord, <<"derived_native", t>>, own)

UsdForLeg(t, ord, own) ==
  IF t = Stable THEN {}
  ELSE GetAt(ord, <<NativeUsdKey>>, own)
         \cup (IF IsNativeOrWrapped(t) THEN {} ELSE GetAt(ord, <<"derived_native", t>>, own))

(* The legs of row i that are priced, and the prices they are valued with. *)
UsdOf(i, own) ==
  LET pair == PairOf[chain[Len(chain)][i].pool]
  IN  [s \in {s \in Sides : Priced(pair[s], i, own)} |-> UsdForLeg(pair[s], i, own)]

AttachUsd(own) ==
  /\ stage = "map_totals"
  /\ stage' = "idle"
  /\ LET b == chain[Len(chain)]
     IN  usd' = [i \in {i \in DOMAIN b : b[i].kind = "Swap" /\ Measured(b[i])} |-> UsdOf(i, own)]
  /\ UNCHANGED <<chain, store, writes>>

Init == chain = <<>> /\ stage = "idle" /\ store = <<>> /\ writes = <<>> /\ usd = <<>>

Next == (\E b \in Blocks : NewBlock(b)) \/ StorePrices \/ (\E own \in BOOLEAN : AttachUsd(own))

Spec == Init /\ [][Next]_vars

-----------------------------------------------------------------------------
Record == [price : SUBSET Places, native_locked : Nat, source_pool : Pools, block : DOMAIN chain]

(* The store holds records of known keys, and only whitelisted contracts   *)
(* other than WETH get a derived price.                                    *)
TypeOK ==
  /\ chain \in Seq(Blocks)
  /\ stage \in {"idle", "store_prices", "map_totals"}
  /\ DOMAIN store \cup DOMAIN writes \subseteq
       Keys \ {<<"derived_native", Native>>, <<"derived_native", Wrapped>>}
  /\ \A k \in DOMAIN store : store[k] \in Record
  /\ \A k \in DOMAIN writes : writes[k] \in [ordinal : 1 .. MaxLogs, value : Record]
  /\ \A i \in DOMAIN usd : \E S \in SUBSET Sides : usd[i] \in [S -> SUBSET Places]

(* The store as the last block leaves it.                                  *)
Current ==
  [k \in DOMAIN store \cup DOMAIN writes |->
     IF k \in DOMAIN writes THEN writes[k].value ELSE store[k]]

(* The rows a price can be read off: one leg at least is a contract, so    *)
(* its decimals must be measured.                                          *)
Good(x) == LogAt(x).measured /\ LogAt(x).sqrt > 0

GoodOf(p) == {x \in Places : LogAt(x).pool = p /\ Good(x)}

Latest(S) == CHOOSE x \in S : \A y \in S : ~Before(x, y)

(* The last good row of pool p in block n, as a set.                       *)
LastGood(p, n) ==
  LET S == {x \in GoodOf(p) : x[1] = n} IN IF S = {} THEN {} ELSE {Latest(S)}

(* Once store_prices has run, the native price is that of the anchor's     *)
(* latest good row in the whole chain, and its age that row's: the value   *)
(* standing at the end of the block (pricing.rs:666-673, 742-745).         *)
NativeIsLatest ==
  stage # "store_prices" =>
    IF GoodOf(Anchor) = {} THEN <<NativeUsdKey>> \notin DOMAIN Current
    ELSE LET x == Latest(GoodOf(Anchor))
             r == Current[<<NativeUsdKey>>]
         IN  r.price = {x} /\ r.block = x[1] /\ r.source_pool = Anchor
               /\ r.native_locked = LogAt(x).depth

(* What could have priced t in block n: a pool with native or WETH, or     *)
(* with the stablecoin if the anchor was good in the block.                *)
Sources(t, n) ==
  {p \in Pools : /\ t \in {PairOf[p][1], PairOf[p][2]}
                 /\ \/ Other(p, t) \in {Native, Wrapped}
                    \/ Other(p, t) = Stable /\ LastGood(Anchor, n) # {}
                 /\ \E x \in LastGood(p, n) : LogAt(x).depth > Floor}

(* The pool a derived price is ascribed to is the one that gave it, it was *)
(* the deepest of its block, and no later block could have given another:  *)
(* the two copies of the selection agree (pricing.rs:928-933).             *)
DerivedFromItsSource ==
  \A t \in Whitelist \ {Native, Wrapped, Stable} :
    LET k == <<"derived_native", t>>
    IN  IF k \notin DOMAIN Current
        THEN stage # "store_prices" => \A n \in DOMAIN chain : Sources(t, n) = {}
        ELSE LET r == Current[k]
                 row == CHOOSE x \in LastGood(r.source_pool, r.block) : TRUE
             IN  /\ r.source_pool \in Sources(t, r.block)
                 /\ r.price = {row} \cup (IF Other(r.source_pool, t) = Stable
                                          THEN LastGood(Anchor, r.block) ELSE {})
                 /\ r.native_locked = LogAt(row).depth
                 /\ \A p \in Sources(t, r.block), x \in Places :
                      x \in LastGood(p, r.block) => LogAt(x).depth <= r.native_locked
                 /\ stage # "store_prices" =>
                      \A n \in r.block + 1 .. Len(chain) : Sources(t, n) = {}

(* No price stored, and no value attached to a swap, rests on a row whose  *)
(* decimals were not measured or that had no price, however long ago       *)
(* (pricing.rs:394-410, 638-644; stats_store.rs:542-549).                  *)
NoFabricatedPrice ==
  /\ \A k \in DOMAIN Current : \A x \in Current[k].price : Good(x)
  /\ \A i \in DOMAIN usd : /\ LogAt(<<Len(chain), i>>).measured
                           /\ \A s \in DOMAIN usd[i] : \A x \in usd[i][s] : Good(x)

ThroughStable(prices) ==
  \E x \in prices : LogAt(x).pool # Anchor /\ Stable \in {PairOf[LogAt(x).pool][1],
                                                          PairOf[LogAt(x).pool][2]}

(* A swap is not valued at a price that came after it, in the block or in  *)
(* a later one, but for the native price of the block inside a price that  *)
(* goes through the stablecoin (stats_store.rs:531-536).                   *)
NeverFromLater ==
  \A i \in DOMAIN usd : \A s \in DOMAIN usd[i] : \A x \in usd[i][s] :
    \/ ~Before(<<Len(chain), i>>, x)
    \/ LogAt(x).pool = Anchor /\ ThroughStable(usd[i][s])

(* A native leg is priced as soon as an earlier block had a native price,  *)
(* and never at one that an earlier block has replaced: quiet blocks leave *)
(* the price standing (pricing.rs:742-748).                                *)
AtMostABlockStale ==
  LET n == Len(chain)
      earlier == {x \in GoodOf(Anchor) : x[1] < n}
  IN  \A i \in DOMAIN usd, s \in Sides :
        PairOf[LogAt(<<n, i>>).pool][s] \in {Native, Wrapped} =>
          /\ earlier # {} => s \in DOMAIN usd[i]
          /\ s \in DOMAIN usd[i] =>
               \E x \in GoodOf(Anchor) : /\ usd[i][s] = {x}
                                         /\ x[1] = n \/ x = Latest(earlier)

(* pricing.rs:867-869: get_at sees exactly what preceded it in chain order. *)
DerivedFromBefore ==
  \A i \in DOMAIN usd : \A s \in DOMAIN usd[i] : \A x \in usd[i][s] :
    ~Before(<<Len(chain), i>>, x)
=============================================================================
