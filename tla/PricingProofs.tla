--------------------------- MODULE PricingProofs ---------------------------
(***************************************************************************)
(* The prices, for any tokens, pools, logs and length of chain.            *)
(***************************************************************************)
EXTENDS Pricing, Extremes

(* Row i of block n prices pool p, and is the last of the block to do so.  *)
GoodAt(n, i, p) ==
  /\ i \in DOMAIN chain[n] /\ chain[n][i].pool = p
  /\ chain[n][i].measured /\ chain[n][i].sqrt > 0

LastAt(n, i, p) == GoodAt(n, i, p) /\ \A j \in DOMAIN chain[n] : GoodAt(n, j, p) => j <= i

AnchorSeen(n) == \E i \in DOMAIN chain[n] : LastAt(n, i, Anchor)

DepthAt(n, i) == chain[n][i].depth

HasToken(p, t) == t \in {PairOf[p][1], PairOf[p][2]}

(* The row whose pool can price t in block n.                              *)
OfferAt(t, n, p, i) ==
  /\ LastAt(n, i, p) /\ DepthAt(n, i) > Floor
  /\ HasToken(p, t)
  /\ Other(p, t) \in {Native, Wrapped} \/ (Other(p, t) = Stable /\ AnchorSeen(n))

Offered(t, n) == \E p \in Pools : \E i \in DOMAIN chain[n] : OfferAt(t, n, p, i)

(* What a record of each key says of the block it was written in.          *)
NativeRecord(r, n) ==
  /\ r.block = n /\ r.source_pool = Anchor
  /\ \E i \in DOMAIN chain[n] :
       LastAt(n, i, Anchor) /\ r.price = {<<n, i>>} /\ r.native_locked = DepthAt(n, i)

DerivedRecord(r, t, n) ==
  /\ r.block = n /\ r.source_pool \in Pools
  /\ \E i \in DOMAIN chain[n] :
       /\ OfferAt(t, n, r.source_pool, i) /\ r.native_locked = DepthAt(n, i)
       /\ \/ Other(r.source_pool, t) # Stable /\ r.price = {<<n, i>>}
          \/ /\ Other(r.source_pool, t) = Stable
             /\ \E a \in DOMAIN chain[n] : LastAt(n, a, Anchor) /\ r.price = {<<n, i>>, <<n, a>>}
  /\ \A q \in Pools : \A j \in DOMAIN chain[n] :
       OfferAt(t, n, q, j) => DepthAt(n, j) <= r.native_locked

StableRecord(r, n) ==
  /\ r.block = n /\ r.source_pool \in Pools /\ r.native_locked \in Nat
  /\ \E i \in DOMAIN chain[n] : LastAt(n, i, Anchor) /\ r.price = {<<n, i>>}

NativeKey == <<NativeUsdKey>>
DerivedKey(t) == <<"derived_native", t>>

Others == Whitelist \ {Native, Wrapped, Stable}
PricedKeys == {NativeKey, DerivedKey(Stable)} \cup {DerivedKey(t) : t \in Others}

(* Whether block n writes key k, and what it may write.                    *)
Writable(k, n) == IF k[1] = NativeUsdKey THEN AnchorSeen(n)
                  ELSE IF k[2] = Stable THEN AnchorSeen(n) ELSE Offered(k[2], n)

IsRecord(r) ==
  r = [price |-> r.price, native_locked |-> r.native_locked, source_pool |-> r.source_pool,
       block |-> r.block]

RecordOf(r, k, n) ==
  /\ IsRecord(r)
  /\ IF k[1] = NativeUsdKey THEN NativeRecord(r, n)
     ELSE IF k[2] = Stable THEN StableRecord(r, n) ELSE DerivedRecord(r, k[2], n)

(* f holds, of each key, what the last block that could write it wrote.    *)
Stands(f, n) ==
  /\ DOMAIN f \subseteq PricedKeys
  /\ \A k \in PricedKeys :
       IF k \in DOMAIN f
       THEN \E m \in 1 .. n : RecordOf(f[k], k, m) /\ \A j \in m + 1 .. n : ~Writable(k, j)
       ELSE \A m \in 1 .. n : ~Writable(k, m)

(* The writes of block n.                                                  *)
WritesExact(n) ==
  /\ DOMAIN writes = {k \in PricedKeys : Writable(k, n)}
  /\ \A k \in DOMAIN writes :
       /\ writes[k] = [ordinal |-> writes[k].ordinal, value |-> writes[k].value]
       /\ RecordOf(writes[k].value, k, n)
       /\ LastAt(n, writes[k].ordinal, writes[k].value.source_pool)

(* The columns are those of the block just finished.                       *)
UsdExact ==
  usd # <<>> =>
    /\ stage = "idle" /\ chain # <<>>
    /\ LET b == chain[Len(chain)]
       IN  \E own \in BOOLEAN :
             usd = [i \in {i \in DOMAIN b : b[i].kind = "Swap" /\ Measured(b[i])} |-> UsdOf(i, own)]

IInv ==
  /\ chain \in Seq(Blocks)
  /\ stage \in {"idle", "store_prices", "map_totals"}
  /\ IF chain = <<>> THEN store = <<>> /\ writes = <<>> /\ stage = "idle"
     ELSE /\ Stands(store, Len(chain) - 1)
          /\ IF stage = "store_prices" THEN writes = <<>> ELSE WritesExact(Len(chain))
  /\ UsdExact

-----------------------------------------------------------------------------
LEMMA BlockFacts ==
  ASSUME NEW c \in Seq(Blocks), NEW n \in DOMAIN c
  PROVE  /\ n \in Nat \ {0} /\ n <= Len(c)
         /\ \E k \in 0 .. MaxLogs : DOMAIN c[n] = 1 .. k
         /\ \A i \in DOMAIN c[n] :
              /\ i \in 1 .. MaxLogs /\ c[n][i] \in Logs
              /\ c[n][i].kind \in {"Initialize", "Swap"}
              /\ c[n][i].pool \in Pools /\ c[n][i].sqrt \in Nat
              /\ c[n][i].depth \in Nat /\ c[n][i].measured \in BOOLEAN
<1>1. n \in Nat \ {0} /\ n <= Len(c) /\ c[n] \in Blocks
  OBVIOUS
<1>2. PICK k \in 0 .. MaxLogs : c[n] \in [1 .. k -> Logs]
  BY <1>1 DEF Blocks
<1>3. MaxLogs \in Nat /\ Logs \subseteq Log
  BY PricingAssumption
<1>4. \A l \in Logs : /\ l.kind \in {"Initialize", "Swap"} /\ l.pool \in Pools
                       /\ l.sqrt \in Nat /\ l.depth \in Nat /\ l.measured \in BOOLEAN
  BY <1>3 DEF Log
<1>5. DOMAIN c[n] = 1 .. k /\ \A i \in 1 .. k : c[n][i] \in Logs /\ i \in 1 .. MaxLogs
  BY <1>2, <1>3
<1> QED
  BY <1>1, <1>4, <1>5

(* Of the two tokens of a pool at most one is native: the decimals of a    *)
(* row are known only if those of the contract were measured.              *)
LEMMA MeasuredFacts ==
  ASSUME NEW l \in Logs
  PROVE  Measured(l) <=> l.measured
<1>1. l \in Log /\ l.pool \in Pools /\ PairOf[l.pool][1] # PairOf[l.pool][2]
  BY PricingAssumption DEF Log
<1> QED
  BY <1>1 DEF Measured, EffectiveDecimals, Sides, Log

LEMMA SeenFacts ==
  ASSUME chain \in Seq(Blocks), NEW n \in DOMAIN chain, NEW p
  PROVE  /\ Seen(n, p) = {i \in DOMAIN chain[n] : GoodAt(n, i, p)}
         /\ Seen(n, p) \in SUBSET (0 .. MaxLogs)
<1>1. \A i \in DOMAIN chain[n] : chain[n][i] \in Logs /\ i \in 1 .. MaxLogs
  BY BlockFacts
<1>2. \A i \in DOMAIN chain[n] : Measured(chain[n][i]) <=> chain[n][i].measured
  BY <1>1, MeasuredFacts
<1>3. MaxLogs \in Nat
  BY PricingAssumption
<1> QED
  BY <1>1, <1>2, <1>3 DEF Seen, Observed, GoodAt

(* The observation of a pool is its last good row in the block.            *)
LEMMA LastSeenFacts ==
  ASSUME chain \in Seq(Blocks), NEW n \in DOMAIN chain, NEW p \in Pools
  PROVE  /\ p \in Observations(n) => LastAt(n, LastSeen(n, p), p)
         /\ \A i : LastAt(n, i, p) => p \in Observations(n) /\ i = LastSeen(n, p)
         /\ \A i : GoodAt(n, i, p) => p \in Observations(n)
<1>1. /\ Seen(n, p) = {i \in DOMAIN chain[n] : GoodAt(n, i, p)}
      /\ Seen(n, p) \in SUBSET (0 .. MaxLogs) /\ MaxLogs \in Nat
  BY SeenFacts, PricingAssumption
<1>2. Seen(n, p) # {} => Max(Seen(n, p)) \in Seen(n, p) /\ \A y \in Seen(n, p) : y <= Max(Seen(n, p))
  BY <1>1, MaxFacts
<1>3. ASSUME p \in Observations(n) PROVE LastAt(n, LastSeen(n, p), p)
  BY <1>1, <1>2, <1>3 DEF Observations, LastSeen, LastAt
<1>4. \A i : GoodAt(n, i, p) => p \in Observations(n)
  BY <1>1 DEF Observations, GoodAt
<1>5. ASSUME NEW i, LastAt(n, i, p) PROVE p \in Observations(n) /\ i = LastSeen(n, p)
  <2>1. p \in Observations(n) /\ LastAt(n, LastSeen(n, p), p)
    BY <1>3, <1>4, <1>5 DEF LastAt
  <2>2. i \in 0 .. MaxLogs /\ LastSeen(n, p) \in 0 .. MaxLogs
    BY <1>1, <1>5, <2>1 DEF LastAt, GoodAt
  <2> QED
    BY <1>5, <2>1, <2>2 DEF LastAt, GoodAt
<1> QED
  BY <1>3, <1>4, <1>5

(* A set of numbered pools has a first among its deepest.                  *)
LEMMA DeepestExists ==
  ASSUME NEW N \in Nat, NEW S \in SUBSET (1 .. N), S # {}, NEW d, \A p \in S : d[p] \in Nat
  PROVE  \E p \in S : \A q \in S : d[q] < d[p] \/ (d[q] = d[p] /\ p <= q)
<1> DEFINE Best(k, p) == p \in S /\ p <= k /\ \A q \in S : q <= k => d[q] < d[p] \/ (d[q] = d[p] /\ p <= q)
<1> DEFINE Bad == {k \in 0 .. N : (\E q \in S : q <= k) /\ ~\E p \in S : Best(k, p)}
<1>1. SUFFICES Bad = {}
  <2>1. N \in 0 .. N /\ \A q \in S : q <= N
    OBVIOUS
  <2>2. PICK p \in S : Best(N, p)
    BY <1>1, <2>1
  <2> QED
    BY <2>1, <2>2
<1>2. SUFFICES ASSUME Bad # {} PROVE FALSE
  OBVIOUS
<1>3. PICK k \in Bad : \A j \in Bad : k <= j
  <2>1. Bad \in SUBSET Nat
    OBVIOUS
  <2> HIDE DEF Bad
  <2> QED
    BY <1>2, <2>1, LeastExists
<1>4. k \in 0 .. N /\ (\E q \in S : q <= k) /\ \A p \in S : ~Best(k, p)
  BY <1>3
<1>5. k # 0 /\ k - 1 \in 0 .. N /\ k - 1 \notin Bad
  <2>1. k # 0
    BY <1>4
  <2>2. k - 1 \notin Bad
    <3> HIDE DEF Bad
    <3> QED
      BY <1>3, <1>4, <2>1
  <2> QED
    BY <1>4, <2>1, <2>2
<1>6. CASE \E q \in S : q <= k - 1
  <2>1. PICK p \in S : Best(k - 1, p)
    BY <1>5, <1>6
  <2>2. CASE k \notin S \/ d[k] <= d[p]
    <3>1. Best(k, p)
      BY <1>4, <2>1, <2>2
    <3> QED
      BY <1>4, <3>1
  <2>3. CASE k \in S /\ ~(d[k] <= d[p])
    <3>1. Best(k, k)
      BY <1>4, <2>1, <2>3
    <3> QED
      BY <1>4, <2>3, <3>1
  <2> QED
    BY <2>2, <2>3
<1>7. CASE ~\E q \in S : q <= k - 1
  <2>1. k \in S /\ Best(k, k)
    BY <1>4, <1>7
  <2> QED
    BY <1>4, <2>1
<1> QED
  BY <1>6, <1>7

LEMMA OfferFacts ==
  ASSUME chain \in Seq(Blocks), NEW n \in DOMAIN chain
  PROVE  /\ AnchorSeen(n) <=> NativeUsd(n) # {}
         /\ \A i : LastAt(n, i, Anchor) => NativeUsd(n) = {<<n, i>>}
         /\ \A t, p : p \in Offers(t, n) <=> p \in Pools /\ OfferAt(t, n, p, LastSeen(n, p))
         /\ \A t, p, i : p \in Pools /\ OfferAt(t, n, p, i) => p \in Offers(t, n) /\ i = LastSeen(n, p)
         /\ \A t : Offered(t, n) <=> Offers(t, n) # {}
<1>1. Anchor \in Pools
  BY PricingAssumption
<1>2. AnchorSeen(n) <=> Anchor \in Observations(n)
  BY <1>1, LastSeenFacts DEF AnchorSeen, LastAt, GoodAt
<1>3. AnchorSeen(n) <=> NativeUsd(n) # {}
  BY <1>2 DEF NativeUsd
<1>4. \A i : LastAt(n, i, Anchor) => NativeUsd(n) = {<<n, i>>}
  BY <1>1, LastSeenFacts DEF NativeUsd
<1>5. \A p \in Pools : p \in Observations(n) <=> LastAt(n, LastSeen(n, p), p)
  BY LastSeenFacts
<1>6. \A t, p : p \in Offers(t, n) <=> p \in Pools /\ OfferAt(t, n, p, LastSeen(n, p))
  BY <1>3, <1>5 DEF Offers, OfferAt, CanAnchor, IsNativeOrWrapped, HasToken, Depth, DepthAt,
                    Observations
<1>7. \A t, p, i : p \in Pools /\ OfferAt(t, n, p, i) => p \in Offers(t, n) /\ i = LastSeen(n, p)
  <2> TAKE t, p, i
  <2> HAVE p \in Pools /\ OfferAt(t, n, p, i)
  <2>1. i = LastSeen(n, p)
    BY LastSeenFacts DEF OfferAt
  <2> QED
    BY <1>6, <2>1
<1>8. \A t : Offered(t, n) <=> Offers(t, n) # {}
  BY <1>6, <1>7 DEF Offered, OfferAt, LastAt, GoodAt
<1> QED
  BY <1>3, <1>4, <1>6, <1>7, <1>8

LEMMA DeepestFacts ==
  ASSUME chain \in Seq(Blocks), NEW n \in DOMAIN chain, NEW t, Offers(t, n) # {}
  PROVE  /\ Deepest(t, n) \in Offers(t, n)
         /\ \A q \in Offers(t, n) : Depth(n, q) <= Depth(n, Deepest(t, n))
<1> DEFINE d == [p \in Offers(t, n) |-> Depth(n, p)]
<1>1. PairOf \in Seq(Tokens \X Tokens)
  BY PricingAssumption
<1>2. PICK N \in Nat : Pools = 1 .. N
  BY <1>1 DEF Pools
<1>3. Offers(t, n) \in SUBSET (1 .. N)
  BY <1>2, OfferFacts
<1>4. \A p \in Offers(t, n) : Depth(n, p) \in Nat
  BY OfferFacts, BlockFacts DEF OfferAt, LastAt, GoodAt, Depth
<1>5. PICK p \in Offers(t, n) : \A q \in Offers(t, n) : d[q] < d[p] \/ (d[q] = d[p] /\ p <= q)
  <2>1. \A p \in Offers(t, n) : d[p] \in Nat
    BY <1>4
  <2> HIDE DEF d
  <2> QED
    BY <1>3, <2>1, DeepestExists
<1>6. \E o \in Offers(t, n) :
        \A q \in Offers(t, n) : Depth(n, q) < Depth(n, o) \/ (Depth(n, q) = Depth(n, o) /\ o <= q)
  BY <1>5
<1>7. /\ Deepest(t, n) \in Offers(t, n)
      /\ \A q \in Offers(t, n) :
           \/ Depth(n, q) < Depth(n, Deepest(t, n))
           \/ Depth(n, q) = Depth(n, Deepest(t, n)) /\ Deepest(t, n) <= q
  BY <1>6 DEF Deepest
<1> QED
  BY <1>4, <1>7

LEMMA KeyFacts ==
  /\ NativeKey[1] = NativeUsdKey
  /\ \A t : /\ DerivedKey(t)[1] # NativeUsdKey /\ DerivedKey(t)[2] = t
            /\ DerivedKey(t) # NativeKey
            /\ \A u : DerivedKey(t) = DerivedKey(u) => t = u
BY DEF NativeKey, DerivedKey, NativeUsdKey

(* The tokens priced in a block, under the names of the invariant.         *)
LEMMA TargetFacts ==
  ASSUME chain \in Seq(Blocks), NEW n \in DOMAIN chain
  PROVE  /\ Targets(n) \subseteq Whitelist \ {Native, Wrapped}
         /\ Stable \in Targets(n) <=> AnchorSeen(n)
         /\ \A t \in Others : t \in Targets(n) <=> Offered(t, n)
<1>1. Targets(n) \subseteq Whitelist \ {Native, Wrapped}
  BY DEF Targets, IsNativeOrWrapped
<1>2. Stable \in Targets(n) <=> AnchorSeen(n)
  <2>1. /\ Stable \in Whitelist \ {Native, Wrapped} /\ Anchor \in Pools
        /\ PairOf[Anchor][2] = Stable
    BY PricingAssumption
  <2>2. AnchorSeen(n) => Anchor \in Observations(n)
    BY <2>1, LastSeenFacts DEF AnchorSeen
  <2>3. HasPrice(Stable, n) <=> AnchorSeen(n)
    BY OfferFacts DEF HasPrice
  <2> QED
    BY <2>1, <2>2, <2>3 DEF Targets, IsNativeOrWrapped
<1>3. ASSUME NEW t \in Others PROVE t \in Targets(n) <=> Offered(t, n)
  <2>1. HasPrice(t, n) <=> Offered(t, n)
    BY OfferFacts DEF HasPrice, Others
  <2>2. \A p \in Offers(t, n) : p \in Observations(n) /\ t \in {PairOf[p][1], PairOf[p][2]}
    BY DEF Offers
  <2>3. Offers(t, n) # {} <=> Offered(t, n)
    BY OfferFacts
  <2> QED
    BY <2>1, <2>2, <2>3 DEF Targets, Others, IsNativeOrWrapped
<1> QED
  BY <1>1, <1>2, <1>3

LEMMA AttributionFacts ==
  ASSUME chain \in Seq(Blocks), NEW n \in DOMAIN chain, NEW t \in Targets(n)
  PROVE  LET p == Attribution(t, n)
         IN  p \in Pools /\ LastAt(n, LastSeen(n, p), p) /\ Depth(n, p) \in Nat
<1>1. CASE Offers(t, n) # {}
  <2>1. Attribution(t, n) \in Offers(t, n)
    BY <1>1, DeepestFacts DEF Attribution
  <2> QED
    BY <2>1, OfferFacts, BlockFacts DEF OfferAt, LastAt, GoodAt, Depth
<1>2. CASE Offers(t, n) = {}
  <2>1. Attribution(t, n) = Anchor /\ Anchor \in Pools
    BY <1>2, PricingAssumption DEF Attribution
  <2>2. NativeUsd(n) # {}
    BY <1>2 DEF Targets, HasPrice
  <2>3. Anchor \in Observations(n)
    BY <2>2 DEF NativeUsd
  <2>4. LastAt(n, LastSeen(n, Anchor), Anchor)
    BY <2>1, <2>3, LastSeenFacts
  <2> QED
    BY <2>1, <2>4, BlockFacts DEF LastAt, GoodAt, Depth
<1> QED
  BY <1>1, <1>2

(* price_writes is what the invariant says of a block.                     *)
LEMMA PriceWritesFacts ==
  ASSUME chain \in Seq(Blocks), NEW n \in DOMAIN chain
  PROVE  /\ DOMAIN PriceWrites(n) = {k \in PricedKeys : Writable(k, n)}
         /\ \A k \in DOMAIN PriceWrites(n) :
              /\ PriceWrites(n)[k] = [ordinal |-> PriceWrites(n)[k].ordinal,
                                      value   |-> PriceWrites(n)[k].value]
              /\ RecordOf(PriceWrites(n)[k].value, k, n)
              /\ LastAt(n, PriceWrites(n)[k].ordinal, PriceWrites(n)[k].value.source_pool)
<1> DEFINE D == {<<"derived_native", t>> : t \in Targets(n)}
                  \cup (IF NativeUsd(n) = {} THEN {} ELSE {<<NativeUsdKey>>})
<1>1. DOMAIN PriceWrites(n) = D
  BY DEF PriceWrites
<1>2. /\ Writable(NativeKey, n) <=> NativeUsd(n) # {}
      /\ Writable(DerivedKey(Stable), n) <=> Stable \in Targets(n)
      /\ \A t \in Others : Writable(DerivedKey(t), n) <=> t \in Targets(n)
  BY KeyFacts, OfferFacts, TargetFacts DEF Writable, Others
<1>3. Targets(n) \subseteq Others \cup {Stable} /\ Stable \notin Others
  BY TargetFacts DEF Others
<1>4. \A k : k \in D <=> k \in PricedKeys /\ Writable(k, n)
  BY <1>2, <1>3, KeyFacts DEF PricedKeys, NativeKey, DerivedKey
<1>5. NativeUsd(n) # {} =>
        /\ LastAt(n, LastSeen(n, Anchor), Anchor) /\ NativeUsd(n) = {<<n, LastSeen(n, Anchor)>>}
        /\ LastSeen(n, Anchor) \in DOMAIN chain[n]
  <2>1. NativeUsd(n) # {} => Anchor \in Observations(n)
    BY DEF NativeUsd
  <2> QED
    BY <2>1, PricingAssumption, LastSeenFacts DEF NativeUsd, LastAt, GoodAt
<1>6. ASSUME NativeUsd(n) # {}
      PROVE  /\ RecordOf(PriceWrites(n)[NativeKey].value, NativeKey, n)
             /\ LastAt(n, PriceWrites(n)[NativeKey].ordinal,
                       PriceWrites(n)[NativeKey].value.source_pool)
  <2>1. PriceWrites(n)[NativeKey] = Write(NativeUsd(n), Anchor, n)
    BY <1>6 DEF PriceWrites, NativeKey
  <2> QED
    BY <1>5, <1>6, <2>1, KeyFacts DEF Write, RecordOf, IsRecord, NativeRecord, Depth, DepthAt
<1>7. ASSUME NEW t \in Targets(n)
      PROVE  /\ RecordOf(PriceWrites(n)[DerivedKey(t)].value, DerivedKey(t), n)
             /\ LastAt(n, PriceWrites(n)[DerivedKey(t)].ordinal,
                       PriceWrites(n)[DerivedKey(t)].value.source_pool)
  <2>1. PriceWrites(n)[DerivedKey(t)] = Write(FindNativePerToken(t, n), Attribution(t, n), n)
    BY KeyFacts DEF PriceWrites, NativeKey, DerivedKey
  <2> DEFINE p == Attribution(t, n)
  <2> DEFINE i == LastSeen(n, p)
  <2> DEFINE r == PriceWrites(n)[DerivedKey(t)].value
  <2>2. /\ r.price = FindNativePerToken(t, n) /\ r.block = n /\ r.source_pool = p
        /\ r.native_locked = DepthAt(n, i) /\ PriceWrites(n)[DerivedKey(t)].ordinal = i
        /\ IsRecord(r)
    BY <2>1 DEF Write, Depth, DepthAt, IsRecord
  <2>3. p \in Pools /\ LastAt(n, i, p) /\ DepthAt(n, i) \in Nat /\ i \in DOMAIN chain[n]
    BY AttributionFacts DEF LastAt, GoodAt, Depth, DepthAt
  <2>4. CASE t = Stable
    <3>1. FindNativePerToken(t, n) = NativeUsd(n) /\ NativeUsd(n) # {}
      BY <2>4 DEF FindNativePerToken, Targets, HasPrice
    <3> HIDE DEF p, i, r
    <3>2. StableRecord(r, n)
      BY <1>5, <2>2, <2>3, <3>1 DEF StableRecord
    <3>3. RecordOf(r, DerivedKey(t), n)
      BY <2>2, <2>4, <3>2, KeyFacts DEF RecordOf
    <3> QED
      BY <2>2, <2>3, <3>3 DEF r
  <2>5. CASE t # Stable
    <3>1. Offers(t, n) # {} /\ p = Deepest(t, n)
      BY <2>5 DEF Targets, HasPrice, Attribution
    <3>2. p \in Offers(t, n) /\ \A q \in Offers(t, n) : Depth(n, q) <= Depth(n, p)
      BY <3>1, DeepestFacts
    <3>3. OfferAt(t, n, p, i)
      BY <3>2, OfferFacts
    <3>4. r.price = {<<n, i>>} \cup (IF Other(p, t) = Stable THEN NativeUsd(n) ELSE {})
      BY <2>2, <2>5, <3>1 DEF FindNativePerToken, AnchorDerivedNative
    <3>5. \A q \in Pools : \A j \in DOMAIN chain[n] :
            OfferAt(t, n, q, j) => DepthAt(n, j) <= r.native_locked
      <4> TAKE q \in Pools
      <4> TAKE j \in DOMAIN chain[n]
      <4> HAVE OfferAt(t, n, q, j)
      <4>1. q \in Offers(t, n) /\ j = LastSeen(n, q)
        BY OfferFacts
      <4> QED
        BY <2>2, <3>2, <4>1 DEF Depth, DepthAt
    <3>6. Other(p, t) = Stable => AnchorSeen(n) /\ NativeUsd(n) # {}
      <4>1. Stable \notin {Native, Wrapped}
        BY PricingAssumption
      <4> QED
        BY <3>3, <4>1, OfferFacts DEF OfferAt
    <3> HIDE DEF p, i, r
    <3>7. \/ Other(p, t) # Stable /\ r.price = {<<n, i>>}
          \/ /\ Other(p, t) = Stable
             /\ \E a \in DOMAIN chain[n] : LastAt(n, a, Anchor) /\ r.price = {<<n, i>>, <<n, a>>}
      BY <1>5, <3>4, <3>6
    <3>8. DerivedRecord(r, t, n)
      BY <2>2, <2>3, <3>3, <3>5, <3>7 DEF DerivedRecord
    <3>9. RecordOf(r, DerivedKey(t), n)
      BY <2>2, <2>5, <3>8, KeyFacts DEF RecordOf
    <3> QED
      BY <2>2, <2>3, <3>9 DEF r
  <2> QED
    BY <2>4, <2>5
<1>8. \A k \in D : \/ k = NativeKey /\ NativeUsd(n) # {}
                   \/ \E t \in Targets(n) : k = DerivedKey(t)
  BY DEF NativeKey, DerivedKey
<1> HIDE DEF D
<1>9. DOMAIN PriceWrites(n) = {k \in PricedKeys : Writable(k, n)}
  BY <1>1, <1>4
<1>10. ASSUME NEW k \in DOMAIN PriceWrites(n)
       PROVE  /\ RecordOf(PriceWrites(n)[k].value, k, n)
              /\ LastAt(n, PriceWrites(n)[k].ordinal, PriceWrites(n)[k].value.source_pool)
  <2>1. CASE k = NativeKey /\ NativeUsd(n) # {}
    BY <1>6, <2>1
  <2>2. ASSUME NEW t \in Targets(n), k = DerivedKey(t)
        PROVE  /\ RecordOf(PriceWrites(n)[k].value, k, n)
               /\ LastAt(n, PriceWrites(n)[k].ordinal, PriceWrites(n)[k].value.source_pool)
    BY <1>7, <2>2
  <2> QED
    BY <1>1, <1>8, <2>1, <2>2
<1>11. \A k \in DOMAIN PriceWrites(n) :
         PriceWrites(n)[k] = [ordinal |-> PriceWrites(n)[k].ordinal,
                              value   |-> PriceWrites(n)[k].value]
  <2>1. \A price, p : Write(price, p, n) = [ordinal |-> Write(price, p, n).ordinal,
                                            value   |-> Write(price, p, n).value]
    BY DEF Write
  <2>2. \A k \in DOMAIN PriceWrites(n) : \E price, p : PriceWrites(n)[k] = Write(price, p, n)
    BY DEF PriceWrites
  <2> QED
    BY <2>1, <2>2
<1> QED
  BY <1>9, <1>10, <1>11

-----------------------------------------------------------------------------
(* What is said of a block does not change when the chain grows.           *)
LEMMA BlocksStay ==
  ASSUME NEW m, chain'[m] = chain[m], NEW k, NEW r
  PROVE  /\ Writable(k, m)' <=> Writable(k, m)
         /\ RecordOf(r, k, m)' <=> RecordOf(r, k, m)
<1>1. \A i, p : GoodAt(m, i, p)' <=> GoodAt(m, i, p)
  BY DEF GoodAt
<1>2. \A i, p : LastAt(m, i, p)' <=> LastAt(m, i, p)
  BY <1>1 DEF LastAt
<1>3. AnchorSeen(m)' <=> AnchorSeen(m)
  BY <1>2 DEF AnchorSeen
<1>4. \A i : DepthAt(m, i)' = DepthAt(m, i)
  BY DEF DepthAt
<1>5. \A t, p, i : OfferAt(t, m, p, i)' <=> OfferAt(t, m, p, i)
  BY <1>2, <1>3, <1>4 DEF OfferAt
<1>6. \A t : Offered(t, m)' <=> Offered(t, m)
  BY <1>5 DEF Offered
<1>7. Writable(k, m)' <=> Writable(k, m)
  BY <1>3, <1>6 DEF Writable
<1>8. NativeRecord(r, m)' <=> NativeRecord(r, m)
  BY <1>2, <1>4 DEF NativeRecord
<1>9. StableRecord(r, m)' <=> StableRecord(r, m)
  BY <1>2 DEF StableRecord
<1>10. \A t : DerivedRecord(r, t, m)' <=> DerivedRecord(r, t, m)
  BY <1>2, <1>4, <1>5 DEF DerivedRecord
<1> QED
  BY <1>7, <1>8, <1>9, <1>10 DEF RecordOf

(* A block's writes on top of what stood before it.                        *)
LEMMA WritesLand ==
  ASSUME NEW n \in Nat \ {0}, Stands(store, n - 1), WritesExact(n),
         NEW f, f = [k \in DOMAIN store \cup DOMAIN writes |->
                       IF k \in DOMAIN writes THEN writes[k].value ELSE store[k]]
  PROVE  Stands(f, n)
<1>1. /\ DOMAIN f = DOMAIN store \cup DOMAIN writes
      /\ \A k \in DOMAIN f : f[k] = IF k \in DOMAIN writes THEN writes[k].value ELSE store[k]
      /\ DOMAIN f \subseteq PricedKeys
  BY DEF Stands, WritesExact
<1>2. ASSUME NEW k \in PricedKeys, k \in DOMAIN writes
      PROVE  \E m \in 1 .. n : RecordOf(f[k], k, m) /\ \A j \in m + 1 .. n : ~Writable(k, j)
  <2>1. RecordOf(f[k], k, n) /\ n \in 1 .. n /\ n + 1 .. n = {}
    BY <1>1, <1>2 DEF WritesExact
  <2> QED
    BY <2>1
<1>3. ASSUME NEW k \in PricedKeys, k \notin DOMAIN writes, k \in DOMAIN store
      PROVE  \E m \in 1 .. n : RecordOf(f[k], k, m) /\ \A j \in m + 1 .. n : ~Writable(k, j)
  <2>1. ~Writable(k, n) /\ f[k] = store[k]
    BY <1>1, <1>3 DEF WritesExact
  <2>2. PICK m \in 1 .. n - 1 : RecordOf(store[k], k, m) /\ \A j \in m + 1 .. n - 1 : ~Writable(k, j)
    BY <1>3 DEF Stands
  <2>3. \A j \in m + 1 .. n : j = n \/ j \in m + 1 .. n - 1
    OBVIOUS
  <2>4. RecordOf(f[k], k, m)
    BY <2>1, <2>2
  <2>5. m \in 1 .. n /\ \A j \in m + 1 .. n : ~Writable(k, j)
    BY <2>1, <2>2, <2>3
  <2> QED
    BY <2>4, <2>5
<1>4. ASSUME NEW k \in PricedKeys, k \notin DOMAIN f
      PROVE  \A m \in 1 .. n : ~Writable(k, m)
  <2>1. ~Writable(k, n) /\ \A m \in 1 .. n - 1 : ~Writable(k, m)
    BY <1>1, <1>4 DEF WritesExact, Stands
  <2>2. \A m \in 1 .. n : m = n \/ m \in 1 .. n - 1
    OBVIOUS
  <2> QED
    BY <2>1, <2>2
<1> QED
  BY <1>1, <1>2, <1>3, <1>4 DEF Stands

LEMMA InitIInv == Init => IInv
BY DEF Init, IInv, UsdExact

(* A new block finds the store as the last block's writes left it.         *)
LEMMA NewBlockIInv ==
  ASSUME IInv, NEW b \in Blocks, NewBlock(b)
  PROVE  IInv'
<1>1. /\ stage = "idle" /\ stage' = "store_prices" /\ writes' = <<>> /\ usd' = <<>>
      /\ chain' = Append(chain, b)
      /\ store' = [k \in DOMAIN store \cup DOMAIN writes |->
                     IF k \in DOMAIN writes THEN writes[k].value ELSE store[k]]
  BY DEF NewBlock
<1>2. chain \in Seq(Blocks)
  BY DEF IInv
<1>3. PICK n \in Nat : n = Len(chain)
  BY <1>2
<1>4. /\ chain' \in Seq(Blocks) /\ Len(chain') = n + 1 /\ chain' # <<>>
      /\ \A m \in 1 .. n : chain'[m] = chain[m]
  BY <1>1, <1>2, <1>3
<1>5. PICK f : f = store'
  OBVIOUS
<1>6. Stands(f, n)
  <2>1. CASE chain = <<>>
    <3>1. n = 0 /\ store = <<>> /\ writes = <<>>
      BY <1>3, <2>1 DEF IInv
    <3>2. DOMAIN f = {}
      BY <1>1, <1>5, <3>1
    <3>3. 1 .. n = {}
      BY <3>1
    <3> QED
      BY <3>2, <3>3 DEF Stands
  <2>2. CASE chain # <<>>
    <3>1. n # 0 /\ Stands(store, n - 1) /\ WritesExact(n)
      BY <1>1, <1>2, <1>3, <2>2 DEF IInv
    <3> QED
      BY <1>1, <1>5, <3>1, WritesLand
  <2> QED
    BY <2>1, <2>2
<1>7. Stands(f, n)'
  <2>1. \A m \in 1 .. n : \A k : Writable(k, m)' <=> Writable(k, m)
    BY <1>4, BlocksStay
  <2>2. \A m \in 1 .. n : \A k, r : RecordOf(r, k, m)' <=> RecordOf(r, k, m)
    BY <1>4, BlocksStay
  <2>3. \A m \in 1 .. n : \A j \in m + 1 .. n : j \in 1 .. n
    OBVIOUS
  <2> QED
    BY <1>6, <2>1, <2>2, <2>3 DEF Stands
<1>8. Stands(store, Len(chain) - 1)'
  <2>1. Len(chain') - 1 = n
    BY <1>4
  <2> QED
    BY <1>5, <1>7, <2>1 DEF Stands
<1> QED
  BY <1>1, <1>4, <1>8 DEF IInv, UsdExact

(* The writes of a block are those of its last observations.               *)
LEMMA StorePricesIInv ==
  ASSUME IInv, StorePrices
  PROVE  IInv'
<1>1. /\ stage = "store_prices" /\ stage' = "map_totals" /\ writes' = PriceWrites(Len(chain))
      /\ UNCHANGED <<chain, store, usd>>
  BY DEF StorePrices
<1>2. chain \in Seq(Blocks) /\ chain # <<>> /\ Stands(store, Len(chain) - 1) /\ usd = <<>>
  BY <1>1 DEF IInv, UsdExact
<1>3. PICK n \in DOMAIN chain : n = Len(chain)
  BY <1>2
<1>4. PICK w : w = writes'
  OBVIOUS
<1>5. /\ DOMAIN w = {k \in PricedKeys : Writable(k, n)}
      /\ \A k \in DOMAIN w :
           /\ w[k] = [ordinal |-> w[k].ordinal, value |-> w[k].value]
           /\ RecordOf(w[k].value, k, n) /\ LastAt(n, w[k].ordinal, w[k].value.source_pool)
  BY <1>1, <1>2, <1>3, <1>4, PriceWritesFacts
<1>6. \A m, k, r : /\ Writable(k, m)' <=> Writable(k, m)
                   /\ RecordOf(r, k, m)' <=> RecordOf(r, k, m)
  BY <1>1, BlocksStay
<1>7. \A i, p : LastAt(n, i, p)' <=> LastAt(n, i, p)
  BY <1>1 DEF LastAt, GoodAt
<1>8. WritesExact(n)'
  BY <1>4, <1>5, <1>6, <1>7 DEF WritesExact
<1>9. PICK m : m = n - 1
  OBVIOUS
<1>10. Stands(store, m)'
  BY <1>1, <1>2, <1>3, <1>6, <1>9 DEF Stands
<1>11. Stands(store, Len(chain) - 1)' /\ WritesExact(Len(chain))'
  BY <1>1, <1>3, <1>8, <1>9, <1>10 DEF Stands, WritesExact
<1> QED
  BY <1>1, <1>2, <1>11 DEF IInv, UsdExact

(* The rest of the state keeps what is said of it while the chain, the     *)
(* store and the writes stay.                                              *)
LEMMA ChainKeptIInv ==
  ASSUME IInv, UNCHANGED <<chain, store, writes>>,
         stage' = stage \/ (stage # "store_prices" /\ stage' = "idle"), UsdExact'
  PROVE  IInv'
<1>1. \A m, k, r : /\ Writable(k, m)' <=> Writable(k, m)
                   /\ RecordOf(r, k, m)' <=> RecordOf(r, k, m)
  BY BlocksStay
<1>2. \A n, i, p : LastAt(n, i, p)' <=> LastAt(n, i, p)
  BY DEF LastAt, GoodAt
<1>3. Stands(store, Len(chain) - 1)' <=> Stands(store, Len(chain) - 1)
  BY <1>1 DEF Stands
<1>4. WritesExact(Len(chain))' <=> WritesExact(Len(chain))
  BY <1>1, <1>2 DEF WritesExact
<1> QED
  BY <1>3, <1>4 DEF IInv

(* The price of a row depends on the store and the chain up to its block.  *)
LEMMA UsdOfStays ==
  ASSUME UNCHANGED <<chain, store, writes>>, NEW i, NEW own
  PROVE  UsdOf(i, own)' = UsdOf(i, own)
<1>0. chain' = chain /\ store' = store /\ writes' = writes
  OBVIOUS
<1>1. \A k : At(i, k, own)' <=> At(i, k, own)
  BY <1>0 DEF At
<1>2. \A k : (Has(i, k, own)' <=> Has(i, k, own)) /\ GetAt(i, k, own)' = GetAt(i, k, own)
  BY <1>0, <1>1 DEF Has, GetAt
<1>3. \A t : (Priced(t, i, own)' <=> Priced(t, i, own)) /\ UsdForLeg(t, i, own)' = UsdForLeg(t, i, own)
  BY <1>2 DEF Priced, UsdForLeg
<1>4. PICK pair : pair = PairOf[chain[Len(chain)][i].pool]
  OBVIOUS
<1>5. {s \in Sides : Priced(pair[s], i, own)'} = {s \in Sides : Priced(pair[s], i, own)}
  BY <1>3
<1>6. UsdOf(i, own) = [s \in {s \in Sides : Priced(pair[s], i, own)} |-> UsdForLeg(pair[s], i, own)]
  BY <1>4 DEF UsdOf
<1>7. UsdOf(i, own)' = [s \in {s \in Sides : Priced(pair[s], i, own)'} |-> UsdForLeg(pair[s], i, own)']
  BY <1>0, <1>4 DEF UsdOf
<1> QED
  BY <1>3, <1>5, <1>6, <1>7

LEMMA UsdExactStays ==
  ASSUME UsdExact, UNCHANGED <<chain, store, writes>>, stage' = stage, usd' = usd
  PROVE  UsdExact'
<1> DEFINE b == chain[Len(chain)]
<1> DEFINE R == {i \in DOMAIN b : b[i].kind = "Swap" /\ Measured(b[i])}
<1>1. chain' = chain /\ b' = b
  OBVIOUS
<1>2. \A i \in DOMAIN b : Measured(b[i])' <=> Measured(b[i])
  BY <1>1 DEF Measured, EffectiveDecimals
<1>3. R' = R
  BY <1>1, <1>2
<1>4. \A i, own : UsdOf(i, own)' = UsdOf(i, own)
  BY UsdOfStays
<1>5. \A own : [i \in R |-> UsdOf(i, own)]' = [i \in R |-> UsdOf(i, own)]
  BY <1>3, <1>4
<1> QED
  BY <1>1, <1>5 DEF UsdExact

(* The price each row is given is the one UsdOf names.                     *)
LEMMA AttachUsdIInv ==
  ASSUME IInv, NEW own \in BOOLEAN, AttachUsd(own)
  PROVE  IInv'
<1> DEFINE b == chain[Len(chain)]
<1>1. /\ stage = "map_totals" /\ stage' = "idle" /\ UNCHANGED <<chain, store, writes>>
      /\ usd' = [i \in {i \in DOMAIN b : b[i].kind = "Swap" /\ Measured(b[i])} |-> UsdOf(i, own)]
  BY DEF AttachUsd
<1>2. chain' # <<>>
  BY <1>1 DEF IInv
<1> DEFINE R == {i \in DOMAIN b : b[i].kind = "Swap" /\ Measured(b[i])}
<1>3. \A i : UsdOf(i, own)' = UsdOf(i, own)
  BY <1>1, UsdOfStays
<1>4. R' = R
  BY <1>1 DEF Measured, EffectiveDecimals
<1>5. UsdExact'
  <2>1. usd' = [i \in R' |-> UsdOf(i, own)']
    BY <1>1, <1>3, <1>4
  <2> QED
    BY <1>1, <1>2, <2>1 DEF UsdExact
<1> QED
  BY <1>1, <1>5, ChainKeptIInv

LEMMA NextIInv == IInv /\ [Next]_vars => IInv'
<1> SUFFICES ASSUME IInv, [Next]_vars PROVE IInv'
  OBVIOUS
<1>1. ASSUME NEW b \in Blocks, NewBlock(b) PROVE IInv'
  BY <1>1, NewBlockIInv
<1>2. CASE StorePrices
  BY <1>2, StorePricesIInv
<1>3. ASSUME NEW own \in BOOLEAN, AttachUsd(own) PROVE IInv'
  BY <1>3, AttachUsdIInv
<1>4. CASE UNCHANGED vars
  <2>1. UNCHANGED <<chain, store, writes, stage, usd>>
    BY <1>4 DEF vars
  <2>3. UsdExact'
    BY <2>1, UsdExactStays DEF IInv
  <2> QED
    BY <2>1, <2>3, ChainKeptIInv
<1> QED
  BY <1>1, <1>2, <1>3, <1>4 DEF Next

(* Store and writes say what the blocks' rows say.                         *)
THEOREM Invariance == Spec => []IInv
BY InitIInv, NextIInv, PTL DEF Spec

-----------------------------------------------------------------------------
(* What the invariant says of the values read.                             *)
LEMMA PlaceFacts ==
  ASSUME chain \in Seq(Blocks)
  PROVE  /\ \A n \in DOMAIN chain : \A i \in DOMAIN chain[n] : <<n, i>> \in Places
         /\ \A x \in Places : /\ x = <<x[1], x[2]>> /\ x[1] \in DOMAIN chain
                              /\ x[2] \in DOMAIN chain[x[1]]
         /\ \A n, i : LogAt(<<n, i>>) = chain[n][i]
         /\ \A n \in DOMAIN chain : \A i \in DOMAIN chain[n] : \A p :
              <<n, i>> \in GoodOf(p) <=> GoodAt(n, i, p)
<1>1. \A n \in DOMAIN chain : \A i \in DOMAIN chain[n] : <<n, i>> \in Places
  BY DEF Places
<1>2. \A x \in Places : /\ x = <<x[1], x[2]>> /\ x[1] \in DOMAIN chain
                        /\ x[2] \in DOMAIN chain[x[1]]
  <2> TAKE x \in Places
  <2>1. PICK n \in DOMAIN chain : x \in {n} \X DOMAIN chain[n]
    BY DEF Places
  <2> QED
    BY <2>1
<1>3. \A n, i : LogAt(<<n, i>>) = chain[n][i]
  BY DEF LogAt
<1> QED
  BY <1>1, <1>2, <1>3 DEF GoodOf, Good, GoodAt

LEMMA RecordFacts ==
  ASSUME chain \in Seq(Blocks), NEW n \in DOMAIN chain, NEW k \in PricedKeys, NEW r,
         RecordOf(r, k, n)
  PROVE  /\ r \in Record /\ r.block = n
         /\ \A x \in r.price : /\ x = <<n, x[2]>> /\ x \in Places /\ Good(x)
<1>1. k \in {NativeKey, DerivedKey(Stable)} \/ \E t \in Others : k = DerivedKey(t)
  BY DEF PricedKeys
<1>2. /\ r.block = n /\ r.source_pool \in Pools /\ r.native_locked \in Nat
      /\ \E i, j \in DOMAIN chain[n] :
           (\E p : GoodAt(n, i, p)) /\ (\E p : GoodAt(n, j, p)) /\ r.price = {<<n, i>>, <<n, j>>}
  <2>1. CASE k = NativeKey
    <3>1. NativeRecord(r, n)
      BY <2>1, KeyFacts DEF RecordOf
    <3>2. PICK i \in DOMAIN chain[n] : GoodAt(n, i, Anchor) /\ r.price = {<<n, i>>}
                                       /\ r.native_locked = chain[n][i].depth
      BY <3>1 DEF NativeRecord, LastAt, DepthAt
    <3>3. r.native_locked \in Nat /\ r.price = {<<n, i>>, <<n, i>>}
      BY <3>2, BlockFacts
    <3> QED
      BY <3>1, <3>2, <3>3, PricingAssumption DEF NativeRecord
  <2>2. CASE k = DerivedKey(Stable)
    <3>1. StableRecord(r, n)
      BY <2>2, KeyFacts DEF RecordOf
    <3>2. PICK i \in DOMAIN chain[n] : GoodAt(n, i, Anchor) /\ r.price = {<<n, i>>}
      BY <3>1 DEF StableRecord, LastAt
    <3>3. r.price = {<<n, i>>, <<n, i>>}
      BY <3>2
    <3> QED
      BY <3>1, <3>2, <3>3 DEF StableRecord
  <2>3. ASSUME NEW t \in Others, k = DerivedKey(t)
        PROVE  /\ r.block = n /\ r.source_pool \in Pools /\ r.native_locked \in Nat
               /\ \E i, j \in DOMAIN chain[n] :
                    (\E p : GoodAt(n, i, p)) /\ (\E p : GoodAt(n, j, p)) /\ r.price = {<<n, i>>, <<n, j>>}
    <3>1. DerivedRecord(r, t, n)
      BY <2>3, KeyFacts DEF RecordOf, Others
    <3>2. PICK i \in DOMAIN chain[n] :
            /\ GoodAt(n, i, r.source_pool) /\ r.native_locked = chain[n][i].depth
            /\ \/ r.price = {<<n, i>>}
               \/ \E a \in DOMAIN chain[n] : GoodAt(n, a, Anchor) /\ r.price = {<<n, i>>, <<n, a>>}
      BY <3>1 DEF DerivedRecord, OfferAt, LastAt, DepthAt
    <3>3. r.native_locked \in Nat
      BY <3>2, BlockFacts
    <3>4. \A x : {<<n, x>>} = {<<n, x>>, <<n, x>>}
      OBVIOUS
    <3> QED
      BY <3>1, <3>2, <3>3, <3>4 DEF DerivedRecord
  <2> QED
    BY <1>1, <2>1, <2>2, <2>3
<1>3. PICK i, j \in DOMAIN chain[n] :
        (\E p : GoodAt(n, i, p)) /\ (\E p : GoodAt(n, j, p)) /\ r.price = {<<n, i>>, <<n, j>>}
  BY <1>2
<1>4. \A h \in {i, j} : <<n, h>> \in Places /\ Good(<<n, h>>)
  BY <1>3, PlaceFacts DEF Good, GoodAt
<1>5. \A x \in r.price : x = <<n, x[2]>> /\ x \in Places /\ Good(x)
  BY <1>3, <1>4
<1>6. r.price \in SUBSET Places
  BY <1>5
<1>7. r \in Record
  <2>1. IsRecord(r)
    BY DEF RecordOf
  <2> QED
    BY <1>2, <1>6, <2>1 DEF IsRecord, Record
<1> QED
  BY <1>2, <1>5, <1>7

(* The store as the block leaves it.                                       *)
LEMMA CurrentFacts ==
  ASSUME IInv, chain # <<>>
  PROVE  /\ Len(chain) \in DOMAIN chain
         /\ stage = "store_prices" => Stands(Current, Len(chain) - 1)
         /\ stage # "store_prices" => Stands(Current, Len(chain))
<1>1. chain \in Seq(Blocks) /\ Stands(store, Len(chain) - 1)
  BY DEF IInv
<1>2. Len(chain) \in Nat \ {0} /\ Len(chain) \in DOMAIN chain
  BY <1>1
<1>3. ASSUME stage = "store_prices" PROVE Stands(Current, Len(chain) - 1)
  <2>1. writes = <<>>
    BY <1>3 DEF IInv
  <2>2. DOMAIN Current = DOMAIN store /\ \A k \in DOMAIN store : Current[k] = store[k]
    BY <2>1 DEF Current
  <2> HIDE DEF Current
  <2> QED
    BY <1>1, <2>2 DEF Stands
<1>4. ASSUME stage # "store_prices" PROVE Stands(Current, Len(chain))
  BY <1>1, <1>2, <1>4, WritesLand DEF IInv, Current
<1> QED
  BY <1>2, <1>3, <1>4

LEMMA NoneYet ==
  ASSUME IInv, chain = <<>>
  PROVE  DOMAIN Current = {} /\ DOMAIN store = {} /\ DOMAIN writes = {} /\ usd = <<>>
         /\ Places = {}
BY DEF IInv, Current, UsdExact, Places

(* A record of the store is an observation of some earlier block.          *)
LEMMA StandsFacts ==
  ASSUME chain \in Seq(Blocks), NEW n \in 0 .. Len(chain), NEW f, Stands(f, n), NEW k \in DOMAIN f
  PROVE  /\ k \in PricedKeys /\ f[k] \in Record
         /\ \E m \in DOMAIN chain : m <= n /\ RecordOf(f[k], k, m)
         /\ \A x \in f[k].price : x \in Places /\ Good(x) /\ x[1] <= n
<1>1. k \in PricedKeys
  BY DEF Stands
<1>2. PICK m \in DOMAIN chain : m <= n /\ RecordOf(f[k], k, m)
  BY <1>1 DEF Stands
<1>3. /\ f[k] \in Record
      /\ \A x \in f[k].price : x = <<m, x[2]>> /\ x \in Places /\ Good(x)
  BY <1>1, <1>2, RecordFacts
<1> QED
  BY <1>1, <1>2, <1>3

(* A value get_at finds is one the block wrote at or before that ordinal,  *)
(* or one that stood before the block.                                     *)
LEMMA GetFacts ==
  ASSUME IInv, stage = "idle", chain # <<>>, NEW i, NEW own \in BOOLEAN, NEW k,
         Has(i, k, own)
  PROVE  /\ k \in PricedKeys
         /\ \E r : /\ GetAt(i, k, own) = r.price
                   /\ \/ /\ k \in DOMAIN writes /\ r = writes[k].value
                         /\ RecordOf(r, k, Len(chain))
                         /\ writes[k].ordinal < i \/ writes[k].ordinal = i
                         /\ LastAt(Len(chain), writes[k].ordinal, r.source_pool)
                      \/ k \in DOMAIN store /\ r = store[k]
<1>1. WritesExact(Len(chain)) /\ Stands(store, Len(chain) - 1)
  BY DEF IInv
<1>2. CASE At(i, k, own)
  <2>1. /\ GetAt(i, k, own) = writes[k].value.price /\ k \in DOMAIN writes
        /\ writes[k].ordinal < i \/ writes[k].ordinal = i
    BY <1>2 DEF GetAt, At
  <2>2. /\ k \in PricedKeys /\ RecordOf(writes[k].value, k, Len(chain))
        /\ LastAt(Len(chain), writes[k].ordinal, writes[k].value.source_pool)
    BY <1>1, <2>1 DEF WritesExact
  <2> QED
    BY <2>1, <2>2
<1>3. CASE ~At(i, k, own)
  <2>1. k \in DOMAIN store /\ GetAt(i, k, own) = store[k].price
    BY <1>3 DEF GetAt, Has
  <2>2. k \in PricedKeys
    BY <1>1, <2>1 DEF Stands
  <2> QED
    BY <2>1, <2>2
<1> QED
  BY <1>2, <1>3

LEMMA UsdFacts ==
  ASSUME IInv, NEW i \in DOMAIN usd
  PROVE  /\ stage = "idle" /\ chain # <<>> /\ chain \in Seq(Blocks)
         /\ Len(chain) \in DOMAIN chain /\ i \in DOMAIN chain[Len(chain)]
         /\ chain[Len(chain)][i] \in Logs /\ chain[Len(chain)][i].measured
         /\ \E own \in BOOLEAN : usd[i] = UsdOf(i, own)
<1> DEFINE b == chain[Len(chain)]
<1>1. usd # <<>> /\ chain \in Seq(Blocks)
  BY DEF IInv
<1>2. stage = "idle" /\ chain # <<>>
  BY <1>1 DEF IInv, UsdExact
<1>3. PICK own \in BOOLEAN :
        usd = [j \in {j \in DOMAIN b : b[j].kind = "Swap" /\ Measured(b[j])} |-> UsdOf(j, own)]
  BY <1>1 DEF IInv, UsdExact
<1>4. Len(chain) \in DOMAIN chain
  BY <1>1, <1>2
<1>5. i \in DOMAIN b /\ Measured(b[i]) /\ usd[i] = UsdOf(i, own)
  BY <1>3
<1>6. b[i] \in Logs
  BY <1>1, <1>4, <1>5, BlockFacts
<1> QED
  BY <1>1, <1>2, <1>4, <1>5, <1>6, MeasuredFacts

LEMMA GetGood ==
  ASSUME IInv, stage = "idle", chain # <<>>, NEW i, NEW own \in BOOLEAN, NEW k,
         Has(i, k, own)
  PROVE  \A x \in GetAt(i, k, own) : x \in Places /\ Good(x)
<1>1. chain \in Seq(Blocks) /\ Stands(store, Len(chain) - 1)
  BY DEF IInv
<1>2. PICK r : /\ GetAt(i, k, own) = r.price
               /\ RecordOf(r, k, Len(chain)) \/ (k \in DOMAIN store /\ r = store[k])
  BY GetFacts
<1>3. k \in PricedKeys
  BY GetFacts
<1>4. Len(chain) \in DOMAIN chain /\ Len(chain) - 1 \in 0 .. Len(chain)
  BY <1>1
<1>5. CASE RecordOf(r, k, Len(chain))
  BY <1>1, <1>2, <1>3, <1>4, <1>5, RecordFacts
<1>6. CASE k \in DOMAIN store /\ r = store[k]
  BY <1>1, <1>2, <1>4, <1>6, StandsFacts
<1> QED
  BY <1>2, <1>5, <1>6

LEMMA LegFacts ==
  ASSUME IInv, NEW i \in DOMAIN usd
  PROVE  /\ DOMAIN usd[i] \in SUBSET Sides
         /\ usd[i] \in [DOMAIN usd[i] -> SUBSET Places]
         /\ \A s \in DOMAIN usd[i] : \A x \in usd[i][s] : Good(x)
<1>1. stage = "idle" /\ chain # <<>> /\ \E own \in BOOLEAN : usd[i] = UsdOf(i, own)
  BY UsdFacts
<1>2. PICK own \in BOOLEAN : usd[i] = UsdOf(i, own)
  BY <1>1
<1> DEFINE pair == PairOf[chain[Len(chain)][i].pool]
<1>3. usd[i] = [s \in {s \in Sides : Priced(pair[s], i, own)} |-> UsdForLeg(pair[s], i, own)]
  BY <1>2 DEF UsdOf
<1>4. ASSUME NEW s \in DOMAIN usd[i], NEW x \in usd[i][s]
      PROVE  x \in Places /\ Good(x)
  <2>1. Priced(pair[s], i, own) /\ x \in UsdForLeg(pair[s], i, own)
    BY <1>3, <1>4
  <2>2. \/ x \in GetAt(i, <<NativeUsdKey>>, own) /\ Has(i, <<NativeUsdKey>>, own)
        \/ x \in GetAt(i, <<"derived_native", pair[s]>>, own)
             /\ Has(i, <<"derived_native", pair[s]>>, own)
    BY <2>1 DEF Priced, UsdForLeg
  <2> QED
    BY <1>1, <2>2, GetGood
<1>5. DOMAIN usd[i] \in SUBSET Sides /\ usd[i] = [s \in DOMAIN usd[i] |-> usd[i][s]]
  BY <1>3
<1> QED
  BY <1>4, <1>5

LEMMA IInvTypeOK == IInv => TypeOK
<1> SUFFICES ASSUME IInv PROVE TypeOK
  OBVIOUS
<1>1. chain \in Seq(Blocks) /\ stage \in {"idle", "store_prices", "map_totals"}
  BY DEF IInv
<1>2. \A i \in DOMAIN usd : \E S \in SUBSET Sides : usd[i] \in [S -> SUBSET Places]
  BY LegFacts
<1>3. CASE chain = <<>>
  BY <1>1, <1>2, <1>3, NoneYet DEF TypeOK
<1>4. CASE chain # <<>>
  <2>1. Stands(store, Len(chain) - 1) /\ (writes = <<>> \/ WritesExact(Len(chain)))
    BY <1>4 DEF IInv
  <2>2. Len(chain) \in DOMAIN chain /\ Len(chain) - 1 \in 0 .. Len(chain)
    BY <1>1, <1>4
  <2>3. PricedKeys \subseteq Keys \ {<<"derived_native", Native>>, <<"derived_native", Wrapped>>}
    BY PricingAssumption DEF PricedKeys, Keys, NativeKey, DerivedKey, Others, NativeUsdKey
  <2>4. DOMAIN store \subseteq PricedKeys /\ DOMAIN writes \subseteq PricedKeys
    BY <2>1 DEF Stands, WritesExact
  <2>5. \A k \in DOMAIN store : store[k] \in Record
    BY <1>1, <2>1, <2>2, StandsFacts
  <2>6. ASSUME NEW k \in DOMAIN writes
        PROVE  writes[k] \in [ordinal : 1 .. MaxLogs, value : Record]
    <3>1. WritesExact(Len(chain))
      BY <2>1, <2>6
    <3>2. /\ writes[k] = [ordinal |-> writes[k].ordinal, value |-> writes[k].value]
          /\ RecordOf(writes[k].value, k, Len(chain))
          /\ writes[k].ordinal \in DOMAIN chain[Len(chain)]
      BY <3>1 DEF WritesExact, LastAt, GoodAt
    <3>3. writes[k].value \in Record /\ writes[k].ordinal \in 1 .. MaxLogs
      BY <1>1, <2>2, <2>4, <3>2, RecordFacts, BlockFacts
    <3> QED
      BY <3>2, <3>3
  <2> QED
    BY <1>1, <1>2, <2>3, <2>4, <2>5, <2>6 DEF TypeOK
<1> QED
  BY <1>3, <1>4

LEMMA IInvNoFabricatedPrice == IInv => NoFabricatedPrice
<1> SUFFICES ASSUME IInv PROVE NoFabricatedPrice
  OBVIOUS
<1>1. \A k \in DOMAIN Current : \A x \in Current[k].price : Good(x)
  <2>1. CASE chain = <<>>
    BY <2>1, NoneYet
  <2>2. CASE chain # <<>>
    <3>1. chain \in Seq(Blocks) /\ Len(chain) \in DOMAIN chain
      BY <2>2 DEF IInv
    <3>2. \E n \in 0 .. Len(chain) : Stands(Current, n)
      <4>1. Len(chain) \in 0 .. Len(chain) /\ Len(chain) - 1 \in 0 .. Len(chain)
        BY <3>1
      <4> QED
        BY <2>2, <4>1, CurrentFacts
    <3>3. PICK f : f = Current
      OBVIOUS
    <3> QED
      BY <3>1, <3>2, <3>3, StandsFacts
  <2> QED
    BY <2>1, <2>2
<1>2. \A i \in DOMAIN usd : LogAt(<<Len(chain), i>>).measured
  BY UsdFacts DEF LogAt
<1> QED
  BY <1>1, <1>2, LegFacts DEF NoFabricatedPrice

(* A place that no other is after is the latest.                           *)
LEMMA LatestFacts ==
  ASSUME chain \in Seq(Blocks), NEW S \in SUBSET Places, NEW x \in S, \A y \in S : ~Before(x, y)
  PROVE  Latest(S) = x
<1>1. PICK z : z = Latest(S)
  OBVIOUS
<1>2. z \in S /\ \A y \in S : ~Before(z, y)
  BY <1>1 DEF Latest
<1>3. \A y \in S : y = <<y[1], y[2]>> /\ y[1] \in Nat /\ y[2] \in Nat
  <2> TAKE y \in S
  <2>1. y = <<y[1], y[2]>> /\ y[1] \in DOMAIN chain /\ y[2] \in DOMAIN chain[y[1]]
    BY PlaceFacts
  <2> QED
    BY <2>1, BlockFacts, PricingAssumption
<1>4. ~Before(x, z) /\ ~Before(z, x)
  BY <1>2
<1>5. x[1] = z[1] /\ x[2] = z[2]
  BY <1>2, <1>3, <1>4 DEF Before
<1> QED
  BY <1>1, <1>2, <1>3, <1>5

(* The anchor's last good row before a block nobody could write since.     *)
LEMMA AnchorLatest ==
  ASSUME chain \in Seq(Blocks), NEW n \in 0 .. Len(chain), NEW m \in 1 .. n, NEW i,
         LastAt(m, i, Anchor), \A j \in m + 1 .. n : ~AnchorSeen(j)
  PROVE  /\ <<m, i>> \in GoodOf(Anchor)
         /\ Latest({x \in GoodOf(Anchor) : x[1] <= n}) = <<m, i>>
<1> DEFINE S == {x \in GoodOf(Anchor) : x[1] <= n}
<1>0. Anchor \in Pools /\ m \in DOMAIN chain /\ i \in DOMAIN chain[m]
  BY PricingAssumption DEF LastAt, GoodAt
<1>1. <<m, i>> \in GoodOf(Anchor) /\ <<m, i>> \in S
  BY <1>0, PlaceFacts DEF LastAt
<1>2. ASSUME NEW y \in S PROVE ~Before(<<m, i>>, y)
  <2>1. /\ y = <<y[1], y[2]>> /\ y[1] \in DOMAIN chain /\ y[2] \in DOMAIN chain[y[1]]
        /\ y \in GoodOf(Anchor) /\ y[1] <= n
    BY PlaceFacts DEF GoodOf
  <2>2. GoodAt(y[1], y[2], Anchor)
    BY <2>1, PlaceFacts
  <2>3. AnchorSeen(y[1])
    BY <1>0, <2>1, <2>2, LastSeenFacts DEF AnchorSeen, LastAt, GoodAt
  <2>4. y[1] \in Nat /\ y[1] \notin m + 1 .. n
    BY <2>1, <2>3
  <2>5. y[1] = m => y[2] <= i
    BY <2>1, <2>2 DEF LastAt
  <2>6. y[2] \in Nat /\ i \in Nat
    BY <1>0, <2>1, BlockFacts, PricingAssumption
  <2> QED
    BY <2>1, <2>4, <2>5, <2>6 DEF Before
<1>3. S \in SUBSET Places
  BY DEF GoodOf
<1> HIDE DEF S
<1>4. Latest(S) = <<m, i>>
  BY <1>1, <1>2, <1>3, LatestFacts
<1> QED
  BY <1>1, <1>4 DEF S

(* What the native price of a store is, in the words of the property.      *)
LEMMA NativeFacts ==
  ASSUME chain \in Seq(Blocks), NEW n \in 0 .. Len(chain), NEW f, Stands(f, n)
  PROVE  LET S == {x \in GoodOf(Anchor) : x[1] <= n}
             r == f[NativeKey]
         IN  IF NativeKey \in DOMAIN f
             THEN /\ Latest(S) \in S
                  /\ r.price = {Latest(S)} /\ r.block = Latest(S)[1]
                  /\ r.source_pool = Anchor /\ r.native_locked = LogAt(Latest(S)).depth
             ELSE S = {}
<1>1. NativeKey \in PricedKeys /\ \A m : Writable(NativeKey, m) <=> AnchorSeen(m)
  BY KeyFacts DEF PricedKeys, Writable
<1>2. CASE NativeKey \in DOMAIN f
  <2>1. PICK m \in 1 .. n :
          RecordOf(f[NativeKey], NativeKey, m) /\ \A j \in m + 1 .. n : ~AnchorSeen(j)
    BY <1>1, <1>2 DEF Stands
  <2>2. NativeRecord(f[NativeKey], m)
    BY <2>1, KeyFacts DEF RecordOf
  <2>3. PICK i : /\ LastAt(m, i, Anchor) /\ f[NativeKey].price = {<<m, i>>}
                 /\ f[NativeKey].native_locked = chain[m][i].depth
    BY <2>2 DEF NativeRecord, DepthAt
  <2>4. /\ <<m, i>> \in GoodOf(Anchor)
        /\ Latest({x \in GoodOf(Anchor) : x[1] <= n}) = <<m, i>>
    BY <2>1, <2>3, AnchorLatest
  <2> DEFINE S == {x \in GoodOf(Anchor) : x[1] <= n}
  <2>5. Latest(S) = <<m, i>> /\ <<m, i>> \in S
    BY <2>1, <2>4
  <2> HIDE DEF S
  <2>6. LogAt(<<m, i>>) = chain[m][i] /\ <<m, i>>[1] = m
    BY DEF LogAt
  <2>7. /\ Latest(S) \in S
        /\ f[NativeKey].price = {Latest(S)} /\ f[NativeKey].block = Latest(S)[1]
        /\ f[NativeKey].source_pool = Anchor
        /\ f[NativeKey].native_locked = LogAt(Latest(S)).depth
    BY <2>2, <2>3, <2>5, <2>6 DEF NativeRecord
  <2> QED
    BY <1>2, <2>7 DEF S
<1>3. CASE NativeKey \notin DOMAIN f
  <2>1. \A m \in 1 .. n : ~AnchorSeen(m)
    BY <1>1, <1>3 DEF Stands
  <2>2. ASSUME NEW y \in GoodOf(Anchor), y[1] <= n PROVE FALSE
    <3>1. /\ y = <<y[1], y[2]>> /\ y[1] \in DOMAIN chain /\ y[2] \in DOMAIN chain[y[1]]
      BY PlaceFacts DEF GoodOf
    <3>2. GoodAt(y[1], y[2], Anchor)
      BY <3>1, PlaceFacts
    <3>3. AnchorSeen(y[1])
      BY <3>1, <3>2, LastSeenFacts, PricingAssumption DEF AnchorSeen, LastAt, GoodAt
    <3> QED
      BY <2>1, <2>2, <3>1, <3>3
  <2> QED
    BY <1>3, <2>2
<1> QED
  BY <1>2, <1>3

LEMMA IInvNativeIsLatest == IInv => NativeIsLatest
<1> SUFFICES ASSUME IInv, stage # "store_prices"
             PROVE  IF GoodOf(Anchor) = {} THEN NativeKey \notin DOMAIN Current
                    ELSE LET x == Latest(GoodOf(Anchor))
                             r == Current[NativeKey]
                         IN  r.price = {x} /\ r.block = x[1] /\ r.source_pool = Anchor
                               /\ r.native_locked = LogAt(x).depth
  BY DEF NativeIsLatest, NativeKey
<1>1. CASE chain = <<>>
  BY <1>1, NoneYet DEF GoodOf
<1>2. CASE chain # <<>>
  <2>1. chain \in Seq(Blocks)
    BY DEF IInv
  <2>2. PICK n \in 0 .. Len(chain) : n = Len(chain)
    BY <2>1
  <2>3. PICK f : f = Current
    OBVIOUS
  <2>4. Stands(f, n)
    BY <1>2, <2>2, <2>3, CurrentFacts
  <2> DEFINE S == {x \in GoodOf(Anchor) : x[1] <= n}
  <2>5. S = GoodOf(Anchor)
    <3>1. \A x \in GoodOf(Anchor) : x[1] \in DOMAIN chain
      BY <2>1, PlaceFacts DEF GoodOf
    <3>2. \A x \in GoodOf(Anchor) : x[1] <= n
      BY <2>1, <2>2, <3>1
    <3> QED
      BY <3>2
  <2>6. IF NativeKey \in DOMAIN f
        THEN /\ Latest(S) \in S
             /\ f[NativeKey].price = {Latest(S)} /\ f[NativeKey].block = Latest(S)[1]
             /\ f[NativeKey].source_pool = Anchor
             /\ f[NativeKey].native_locked = LogAt(Latest(S)).depth
        ELSE S = {}
    BY <2>1, <2>4, NativeFacts
  <2> HIDE DEF S
  <2> QED
    BY <2>3, <2>5, <2>6
<1> QED
  BY <1>1, <1>2

LEMMA IInvAtMostABlockStale == IInv => AtMostABlockStale
<1> SUFFICES ASSUME IInv, NEW i \in DOMAIN usd, NEW s \in Sides,
                    PairOf[LogAt(<<Len(chain), i>>).pool][s] \in {Native, Wrapped}
             PROVE  /\ {x \in GoodOf(Anchor) : x[1] < Len(chain)} # {} => s \in DOMAIN usd[i]
                    /\ s \in DOMAIN usd[i] =>
                         \E x \in GoodOf(Anchor) :
                           /\ usd[i][s] = {x}
                           /\ \/ x[1] = Len(chain)
                              \/ x = Latest({y \in GoodOf(Anchor) : y[1] < Len(chain)})
  BY DEF AtMostABlockStale
<1>1. /\ stage = "idle" /\ chain # <<>> /\ chain \in Seq(Blocks) /\ Len(chain) \in DOMAIN chain
      /\ \E own \in BOOLEAN : usd[i] = UsdOf(i, own)
  BY UsdFacts
<1>2. PICK own \in BOOLEAN : usd[i] = UsdOf(i, own)
  BY <1>1
<1>3. PICK n \in DOMAIN chain : n = Len(chain)
  BY <1>1
<1>4. PICK f : f = store
  OBVIOUS
<1>5. Stands(f, n - 1) /\ n - 1 \in 0 .. Len(chain) /\ n \in Nat
  BY <1>1, <1>3, <1>4 DEF IInv
<1> DEFINE S == {x \in GoodOf(Anchor) : x[1] <= n - 1}
<1>6. S = {x \in GoodOf(Anchor) : x[1] < Len(chain)}
  <2>1. \A x \in GoodOf(Anchor) : x[1] \in DOMAIN chain
    BY <1>1, PlaceFacts DEF GoodOf
  <2>2. \A x \in GoodOf(Anchor) : x[1] \in Nat
    BY <1>1, <2>1
  <2> QED
    BY <1>3, <1>5, <2>2
<1>7. IF NativeKey \in DOMAIN f
      THEN Latest(S) \in S /\ f[NativeKey].price = {Latest(S)}
      ELSE S = {}
  BY <1>1, <1>5, NativeFacts
<1> HIDE DEF S
<1> DEFINE t == PairOf[chain[Len(chain)][i].pool][s]
<1>8. t \in {Native, Wrapped} /\ t # Stable /\ IsNativeOrWrapped(t)
  BY PricingAssumption DEF LogAt, IsNativeOrWrapped
<1>9. /\ s \in DOMAIN usd[i] <=> Has(i, NativeKey, own)
      /\ s \in DOMAIN usd[i] => usd[i][s] = GetAt(i, NativeKey, own)
  <2>1. Priced(t, i, own) <=> Has(i, NativeKey, own)
    BY <1>8 DEF Priced, NativeKey
  <2>2. UsdForLeg(t, i, own) = GetAt(i, NativeKey, own)
    BY <1>8 DEF UsdForLeg, NativeKey
  <2> HIDE DEF t
  <2>3. UsdOf(i, own) =
          [z \in {z \in Sides : Priced(PairOf[chain[Len(chain)][i].pool][z], i, own)} |->
             UsdForLeg(PairOf[chain[Len(chain)][i].pool][z], i, own)]
    BY DEF UsdOf
  <2> QED
    BY <1>2, <2>1, <2>2, <2>3 DEF t
<1>10. S # {} => s \in DOMAIN usd[i]
  BY <1>4, <1>7, <1>9 DEF Has
<1>11. ASSUME s \in DOMAIN usd[i]
       PROVE  \E x \in GoodOf(Anchor) : usd[i][s] = {x} /\ (x[1] = n \/ x = Latest(S))
  <2>1. Has(i, NativeKey, own) /\ usd[i][s] = GetAt(i, NativeKey, own)
    BY <1>9, <1>11
  <2>2. PICK r : /\ usd[i][s] = r.price
                 /\ \/ RecordOf(r, NativeKey, n)
                    \/ NativeKey \in DOMAIN store /\ r = store[NativeKey]
    BY <1>1, <1>3, <2>1, GetFacts
  <2>3. CASE RecordOf(r, NativeKey, n)
    <3>1. PICK j \in DOMAIN chain[n] : GoodAt(n, j, Anchor) /\ r.price = {<<n, j>>}
      BY <2>3, KeyFacts DEF RecordOf, NativeRecord, LastAt
    <3>2. <<n, j>> \in GoodOf(Anchor) /\ <<n, j>>[1] = n
      BY <1>1, <3>1, PlaceFacts
    <3> QED
      BY <2>2, <3>1, <3>2
  <2>4. CASE NativeKey \in DOMAIN store /\ r = store[NativeKey]
    <3>1. Latest(S) \in S /\ r.price = {Latest(S)} /\ S \subseteq GoodOf(Anchor)
      BY <1>4, <1>7, <2>4 DEF S
    <3> QED
      BY <2>2, <3>1
  <2> QED
    BY <2>2, <2>3, <2>4
<1> QED
  BY <1>3, <1>6, <1>10, <1>11

LEMMA IInvNeverFromLater == IInv => NeverFromLater
<1> SUFFICES ASSUME IInv, NEW i \in DOMAIN usd, NEW s \in DOMAIN usd[i], NEW x \in usd[i][s],
                    Before(<<Len(chain), i>>, x)
             PROVE  LogAt(x).pool = Anchor /\ ThroughStable(usd[i][s])
  BY DEF NeverFromLater
<1>1. /\ stage = "idle" /\ chain # <<>> /\ chain \in Seq(Blocks) /\ Len(chain) \in DOMAIN chain
      /\ i \in DOMAIN chain[Len(chain)]
      /\ \E own \in BOOLEAN : usd[i] = UsdOf(i, own)
  BY UsdFacts
<1>2. PICK own \in BOOLEAN : usd[i] = UsdOf(i, own)
  BY <1>1
<1>3. PICK n \in DOMAIN chain : n = Len(chain)
  BY <1>1
<1>4. /\ n \in Nat \ {0} /\ i \in Nat /\ n - 1 \in 0 .. Len(chain)
      /\ \A j \in DOMAIN chain[n] : j \in Nat
  BY <1>1, <1>3, BlockFacts
<1> DEFINE t == PairOf[chain[Len(chain)][i].pool][s]
<1>5. usd[i][s] = UsdForLeg(t, i, own) /\ Priced(t, i, own)
  BY <1>2 DEF UsdOf
<1> HIDE DEF t
<1>6. t # Stable
  BY <1>5 DEF UsdForLeg
(* A price from the store is of an earlier block, and one from the block   *)
(* is of the row that gave the write its ordinal.                          *)
<1>7. ASSUME NEW k, Has(i, k, own), x \in GetAt(i, k, own)
      PROVE  /\ k \in PricedKeys
             /\ \E r, o : /\ RecordOf(r, k, n) /\ r.price = GetAt(i, k, own)
                          /\ LastAt(n, o, r.source_pool) /\ (o < i \/ o = i)
  <2>1. k \in PricedKeys
    BY <1>1, <1>7, GetFacts
  <2>2. PICK r : /\ GetAt(i, k, own) = r.price
                 /\ \/ /\ RecordOf(r, k, n)
                       /\ writes[k].ordinal < i \/ writes[k].ordinal = i
                       /\ LastAt(n, writes[k].ordinal, r.source_pool)
                    \/ k \in DOMAIN store /\ r = store[k]
    BY <1>1, <1>3, <1>7, GetFacts
  <2>3. ~(k \in DOMAIN store /\ r = store[k])
    <3> SUFFICES ASSUME k \in DOMAIN store, r = store[k] PROVE FALSE
      OBVIOUS
    <3>1. Stands(store, n - 1)
      BY <1>1, <1>3 DEF IInv
    <3>2. x \in Places /\ x[1] <= n - 1
      BY <1>1, <1>4, <1>7, <2>2, <3>1, StandsFacts
    <3>3. x[1] \in DOMAIN chain
      BY <1>1, <3>2, PlaceFacts
    <3> QED
      BY <1>1, <1>3, <1>4, <3>2, <3>3 DEF Before
  <2> QED
    BY <2>1, <2>2, <2>3
<1>8. \A j \in DOMAIN chain[n] : (j < i \/ j = i) => x # <<n, j>>
  BY <1>3, <1>4 DEF Before
<1>9. ASSUME Has(i, NativeKey, own), x \in GetAt(i, NativeKey, own) PROVE FALSE
  <2>1. PICK r, o : /\ RecordOf(r, NativeKey, n) /\ r.price = GetAt(i, NativeKey, own)
                    /\ LastAt(n, o, r.source_pool) /\ (o < i \/ o = i)
    BY <1>7, <1>9
  <2>2. PICK j \in DOMAIN chain[n] :
          LastAt(n, j, Anchor) /\ r.price = {<<n, j>>} /\ r.source_pool = Anchor
    BY <2>1, KeyFacts DEF RecordOf, NativeRecord
  <2>3. j = o
    BY <1>1, <2>1, <2>2, LastSeenFacts, PricingAssumption
  <2> QED
    BY <1>8, <1>9, <2>1, <2>2, <2>3
<1>10. \/ Has(i, NativeKey, own) /\ x \in GetAt(i, NativeKey, own)
       \/ Has(i, DerivedKey(t), own) /\ x \in GetAt(i, DerivedKey(t), own)
  BY <1>5, <1>6 DEF Priced, UsdForLeg, NativeKey, DerivedKey
<1>11. CASE Has(i, DerivedKey(t), own) /\ x \in GetAt(i, DerivedKey(t), own)
  <2>1. DerivedKey(t) \in PricedKeys
    BY <1>7, <1>11
  <2>2. t \in Others
    BY <1>6, <2>1, KeyFacts DEF PricedKeys
  <2>3. PICK r, o : /\ RecordOf(r, DerivedKey(t), n) /\ r.price = GetAt(i, DerivedKey(t), own)
                    /\ LastAt(n, o, r.source_pool) /\ (o < i \/ o = i)
    BY <1>7, <1>11
  <2>4. DerivedRecord(r, t, n)
    BY <1>6, <2>3, KeyFacts DEF RecordOf
  <2>5. PICK j \in DOMAIN chain[n] :
          /\ OfferAt(t, n, r.source_pool, j)
          /\ \/ Other(r.source_pool, t) # Stable /\ r.price = {<<n, j>>}
             \/ /\ Other(r.source_pool, t) = Stable
                /\ \E a \in DOMAIN chain[n] : LastAt(n, a, Anchor) /\ r.price = {<<n, j>>, <<n, a>>}
    BY <2>4 DEF DerivedRecord
  <2>6. j = o /\ r.source_pool \in Pools
    BY <1>1, <2>3, <2>4, <2>5, LastSeenFacts DEF OfferAt, DerivedRecord
  <2>7. x # <<n, j>>
    BY <1>8, <2>3, <2>6
  <2>8. PICK a \in DOMAIN chain[n] :
          LastAt(n, a, Anchor) /\ r.price = {<<n, j>>, <<n, a>>} /\ Other(r.source_pool, t) = Stable
    BY <1>11, <2>3, <2>5, <2>7
  <2>9. x = <<n, a>> /\ LogAt(x).pool = Anchor
    BY <1>11, <2>3, <2>7, <2>8 DEF LogAt, LastAt, GoodAt
  <2>10. /\ LogAt(<<n, j>>).pool = r.source_pool
         /\ t \in {PairOf[r.source_pool][1], PairOf[r.source_pool][2]}
         /\ Stable \in {PairOf[r.source_pool][1], PairOf[r.source_pool][2]}
    BY <2>5, <2>8 DEF LogAt, OfferAt, LastAt, GoodAt, HasToken, Other
  <2>11. r.source_pool # Anchor
    BY <2>2, <2>10, PricingAssumption DEF Others
  <2>12. <<n, j>> \in usd[i][s]
    <3>1. t \notin {Native, Wrapped, Stable}
      BY <2>2 DEF Others
    <3>2. GetAt(i, DerivedKey(t), own) \subseteq usd[i][s]
      BY <1>5, <3>1 DEF UsdForLeg, IsNativeOrWrapped, DerivedKey
    <3> QED
      BY <2>3, <2>8, <3>2
  <2>13. ThroughStable(usd[i][s])
    BY <2>10, <2>11, <2>12 DEF ThroughStable
  <2> QED
    BY <2>9, <2>13
<1> QED
  BY <1>9, <1>10, <1>11

(* The last good row of a pool in a block, by either name.                 *)
LEMMA LastGoodFacts ==
  ASSUME chain \in Seq(Blocks), NEW n \in DOMAIN chain, NEW p \in Pools
  PROVE  /\ \A i : LastAt(n, i, p) => LastGood(p, n) = {<<n, i>>}
         /\ LastGood(p, n) # {} => \E i \in DOMAIN chain[n] : LastAt(n, i, p)
<1> DEFINE S == {x \in GoodOf(p) : x[1] = n}
<1>1. LastGood(p, n) = IF S = {} THEN {} ELSE {Latest(S)}
  BY DEF LastGood
<1>2. \A y \in S : /\ y = <<n, y[2]>> /\ y[2] \in DOMAIN chain[n] /\ GoodAt(n, y[2], p)
                   /\ y \in Places
  <2> TAKE y \in S
  <2>1. y = <<y[1], y[2]>> /\ y[2] \in DOMAIN chain[y[1]] /\ y[1] = n /\ y \in Places
        /\ y \in GoodOf(p)
    BY PlaceFacts DEF GoodOf
  <2> HIDE DEF S
  <2>2. y = <<n, y[2]>> /\ y[2] \in DOMAIN chain[n]
    BY <2>1
  <2> QED
    BY <2>1, <2>2, PlaceFacts
<1>3. \A i \in DOMAIN chain[n] : GoodAt(n, i, p) => <<n, i>> \in S
  BY PlaceFacts
<1> HIDE DEF S
<1>4. ASSUME NEW i, LastAt(n, i, p) PROVE LastGood(p, n) = {<<n, i>>}
  <2>1. i \in DOMAIN chain[n] /\ <<n, i>> \in S
    BY <1>3, <1>4 DEF LastAt, GoodAt
  <2>2. \A y \in S : ~Before(<<n, i>>, y)
    <3> TAKE y \in S
    <3>1. y = <<n, y[2]>> /\ y[2] <= i
      BY <1>2, <1>4 DEF LastAt
    <3>2. y[2] \in Nat /\ i \in Nat /\ n \in Nat
      BY <1>2, <2>1, BlockFacts, PricingAssumption
    <3>3. y[1] = n
      BY <3>1
    <3> QED
      BY <3>1, <3>2, <3>3 DEF Before
  <2>3. S \in SUBSET Places
    BY <1>2
  <2>4. Latest(S) = <<n, i>>
    BY <2>1, <2>2, <2>3, LatestFacts
  <2> QED
    BY <1>1, <2>1, <2>4
<1>5. ASSUME LastGood(p, n) # {} PROVE \E i \in DOMAIN chain[n] : LastAt(n, i, p)
  <2>1. S # {}
    BY <1>1, <1>5
  <2>2. p \in Observations(n)
    BY <1>2, <2>1, LastSeenFacts
  <2> QED
    BY <2>2, LastSeenFacts DEF LastAt, GoodAt
<1> QED
  BY <1>4, <1>5

(* The sources of a token in a block are the pools with an offer, and      *)
(* there is one iff the token is offered.                                  *)
LEMMA SourcesFacts ==
  ASSUME chain \in Seq(Blocks), NEW n \in DOMAIN chain, NEW t
  PROVE  /\ \A p : p \in Sources(t, n) <=>
                     p \in Pools /\ \E i \in DOMAIN chain[n] : OfferAt(t, n, p, i)
         /\ Sources(t, n) = {} <=> ~Offered(t, n)
<1>1. LastGood(Anchor, n) # {} <=> AnchorSeen(n)
  <2>1. Anchor \in Pools
    BY PricingAssumption
  <2>2. /\ \A i : LastAt(n, i, Anchor) => LastGood(Anchor, n) = {<<n, i>>}
        /\ LastGood(Anchor, n) # {} => \E i \in DOMAIN chain[n] : LastAt(n, i, Anchor)
    BY <2>1, LastGoodFacts
  <2> QED
    BY <2>2 DEF AnchorSeen
<1>2. ASSUME NEW p \in Pools
      PROVE  (\E x \in LastGood(p, n) : LogAt(x).depth > Floor)
               <=> \E i \in DOMAIN chain[n] : LastAt(n, i, p) /\ DepthAt(n, i) > Floor
  <2>1. ASSUME NEW i \in DOMAIN chain[n], LastAt(n, i, p), DepthAt(n, i) > Floor
        PROVE  \E x \in LastGood(p, n) : LogAt(x).depth > Floor
    <3>1. <<n, i>> \in LastGood(p, n)
      BY <2>1, LastGoodFacts
    <3>2. LogAt(<<n, i>>).depth > Floor
      BY <2>1 DEF LogAt, DepthAt
    <3> QED
      BY <3>1, <3>2
  <2>2. ASSUME NEW x \in LastGood(p, n), LogAt(x).depth > Floor
        PROVE  \E i \in DOMAIN chain[n] : LastAt(n, i, p) /\ DepthAt(n, i) > Floor
    <3>1. PICK i \in DOMAIN chain[n] : LastAt(n, i, p)
      BY <2>2, LastGoodFacts
    <3>2. x = <<n, i>>
      BY <2>2, <3>1, LastGoodFacts
    <3> QED
      BY <2>2, <3>1, <3>2 DEF LogAt, DepthAt
  <2> QED
    BY <2>1, <2>2
<1>3. \A p : p \in Sources(t, n) <=>
               p \in Pools /\ \E i \in DOMAIN chain[n] : OfferAt(t, n, p, i)
  BY <1>1, <1>2 DEF Sources, OfferAt, HasToken
<1> QED
  BY <1>3 DEF Offered

LEMMA IInvDerivedFromItsSource == IInv => DerivedFromItsSource
<1> SUFFICES ASSUME IInv, NEW t \in Others
             PROVE  LET k == DerivedKey(t)
                    IN  IF k \notin DOMAIN Current
                        THEN stage # "store_prices" => \A n \in DOMAIN chain : Sources(t, n) = {}
                        ELSE LET r == Current[k]
                                 row == CHOOSE x \in LastGood(r.source_pool, r.block) : TRUE
                             IN  /\ r.source_pool \in Sources(t, r.block)
                                 /\ r.price = {row} \cup (IF Other(r.source_pool, t) = Stable
                                                          THEN LastGood(Anchor, r.block) ELSE {})
                                 /\ r.native_locked = LogAt(row).depth
                                 /\ \A p \in Sources(t, r.block), x \in Places :
                                      x \in LastGood(p, r.block) => LogAt(x).depth <= r.native_locked
                                 /\ stage # "store_prices" =>
                                      \A n \in r.block + 1 .. Len(chain) : Sources(t, n) = {}
  BY DEF DerivedFromItsSource, DerivedKey, Others
<1>1. chain \in Seq(Blocks)
  BY DEF IInv
<1>2. t # Stable /\ DerivedKey(t) \in PricedKeys /\ \A n : Writable(DerivedKey(t), n) <=> Offered(t, n)
  BY KeyFacts DEF Others, PricedKeys, Writable
<1>3. PICK f : f = Current
  OBVIOUS
<1>4. ASSUME DerivedKey(t) \notin DOMAIN f, stage # "store_prices"
      PROVE  \A n \in DOMAIN chain : Sources(t, n) = {}
  <2>1. CASE chain = <<>>
    BY <2>1
  <2>2. CASE chain # <<>>
    <3>1. Stands(f, Len(chain))
      BY <1>3, <1>4, <2>2, CurrentFacts
    <3>2. \A n \in 1 .. Len(chain) : ~Offered(t, n)
      BY <1>2, <1>4, <3>1 DEF Stands
    <3>3. \A n \in DOMAIN chain : n \in 1 .. Len(chain)
      BY <1>1
    <3> QED
      BY <1>1, <3>2, <3>3, SourcesFacts
  <2> QED
    BY <2>1, <2>2
<1>5. ASSUME DerivedKey(t) \in DOMAIN f
      PROVE  LET r == f[DerivedKey(t)]
                 row == CHOOSE x \in LastGood(r.source_pool, r.block) : TRUE
             IN  /\ r.source_pool \in Sources(t, r.block)
                 /\ r.price = {row} \cup (IF Other(r.source_pool, t) = Stable
                                          THEN LastGood(Anchor, r.block) ELSE {})
                 /\ r.native_locked = LogAt(row).depth
                 /\ \A p \in Sources(t, r.block), x \in Places :
                      x \in LastGood(p, r.block) => LogAt(x).depth <= r.native_locked
                 /\ stage # "store_prices" =>
                      \A n \in r.block + 1 .. Len(chain) : Sources(t, n) = {}
  <2>1. chain # <<>>
    BY <1>3, <1>5, NoneYet
  <2>2. PICK n \in 0 .. Len(chain) :
          Stands(f, n) /\ (stage # "store_prices" => n = Len(chain))
    <3>1. Len(chain) \in 0 .. Len(chain) /\ Len(chain) - 1 \in 0 .. Len(chain)
      BY <1>1, <2>1
    <3> QED
      BY <1>3, <2>1, <3>1, CurrentFacts
  <2>3. PICK m \in 1 .. n : /\ RecordOf(f[DerivedKey(t)], DerivedKey(t), m)
                            /\ \A j \in m + 1 .. n : ~Offered(t, j)
    BY <1>2, <1>5, <2>2 DEF Stands
  <2>4. PICK r : r = f[DerivedKey(t)]
    OBVIOUS
  <2>5. m \in DOMAIN chain /\ DerivedRecord(r, t, m) /\ r.block = m /\ r.source_pool \in Pools
    BY <1>1, <1>2, <2>3, <2>4, KeyFacts DEF RecordOf, DerivedRecord
  <2>6. PICK i \in DOMAIN chain[m] :
          /\ OfferAt(t, m, r.source_pool, i) /\ r.native_locked = DepthAt(m, i)
          /\ \/ Other(r.source_pool, t) # Stable /\ r.price = {<<m, i>>}
             \/ /\ Other(r.source_pool, t) = Stable
                /\ \E a \in DOMAIN chain[m] : LastAt(m, a, Anchor) /\ r.price = {<<m, i>>, <<m, a>>}
    BY <2>5 DEF DerivedRecord
  <2>7. r.source_pool \in Sources(t, m)
    BY <1>1, <2>5, <2>6, SourcesFacts
  <2>8. LastGood(r.source_pool, m) = {<<m, i>>}
    BY <1>1, <2>5, <2>6, LastGoodFacts DEF OfferAt
  <2> DEFINE row == CHOOSE x \in LastGood(r.source_pool, m) : TRUE
  <2>9. row = <<m, i>>
    BY <2>8
  <2> HIDE DEF row
  <2>10. r.native_locked = LogAt(row).depth
    BY <2>6, <2>9 DEF LogAt, DepthAt
  <2>11. r.price = {row} \cup (IF Other(r.source_pool, t) = Stable THEN LastGood(Anchor, m) ELSE {})
    <3>1. CASE Other(r.source_pool, t) # Stable
      BY <2>6, <2>9, <3>1
    <3>2. CASE Other(r.source_pool, t) = Stable
      <4>1. PICK a \in DOMAIN chain[m] : LastAt(m, a, Anchor) /\ r.price = {<<m, i>>, <<m, a>>}
        BY <2>6, <3>2
      <4>2. LastGood(Anchor, m) = {<<m, a>>}
        BY <1>1, <2>5, <4>1, LastGoodFacts, PricingAssumption
      <4> QED
        BY <2>9, <3>2, <4>1, <4>2
    <3> QED
      BY <3>1, <3>2
  <2>12. \A p \in Sources(t, m), x \in Places :
           x \in LastGood(p, m) => LogAt(x).depth <= r.native_locked
    <3> TAKE p \in Sources(t, m), x \in Places
    <3> HAVE x \in LastGood(p, m)
    <3>1. PICK j \in DOMAIN chain[m] : p \in Pools /\ OfferAt(t, m, p, j)
      BY <1>1, <2>5, SourcesFacts
    <3>2. x = <<m, j>>
      BY <1>1, <2>5, <3>1, LastGoodFacts DEF OfferAt
    <3>3. DepthAt(m, j) <= r.native_locked
      BY <2>5, <3>1 DEF DerivedRecord
    <3> QED
      BY <3>2, <3>3 DEF LogAt, DepthAt
  <2>13. stage # "store_prices" => \A j \in m + 1 .. Len(chain) : Sources(t, j) = {}
    <3>1. \A j \in m + 1 .. Len(chain) : j \in DOMAIN chain
      BY <1>1, <2>3
    <3> QED
      BY <1>1, <2>2, <2>3, <3>1, SourcesFacts
  <2> QED
    BY <2>4, <2>5, <2>7, <2>10, <2>11, <2>12, <2>13 DEF row
<1> HIDE DEF Current
<1> QED
  BY <1>3, <1>4, <1>5

-----------------------------------------------------------------------------
(* Every variable has its type, and only whitelisted contracts other than  *)
(* WETH ever get a derived price (pricing.rs, price_writes).               *)
THEOREM TypeCorrect == Spec => []TypeOK
BY Invariance, IInvTypeOK, PTL

(* Nothing priced, however far down the chain, rests on decimals that were *)
(* not measured or on a row without a price (pricing.rs, observations).    *)
THEOREM PricesAreMeasured == Spec => []NoFabricatedPrice
BY Invariance, IInvNoFabricatedPrice, PTL

(* The native price standing is that of the anchor's latest good row in    *)
(* the whole chain (pricing.rs, native_usd and price_writes).              *)
THEOREM NativePriceIsLatest == Spec => []NativeIsLatest
BY Invariance, IInvNativeIsLatest, PTL

(* The price of a token comes from the pool it is ascribed to, the deepest *)
(* of its block, and no later block could have given one: the two copies   *)
(* of the selection agree (pricing.rs, find_native_per_token and the       *)
(* attribution in price_writes).                                           *)
THEOREM PricesAreAscribed == Spec => []DerivedFromItsSource
BY Invariance, IInvDerivedFromItsSource, PTL

(* A swap is valued at prices that came before it, but for the native      *)
(* price of its block inside a price through the stablecoin                *)
(* (stats_store.rs, attach_usd).                                           *)
THEOREM ValuesNotFromLater == Spec => []NeverFromLater
BY Invariance, IInvNeverFromLater, PTL

(* A native leg is valued at the price of the block or the latest one      *)
(* before it (stats_store.rs, attach_usd).                                 *)
THEOREM ValuesNotStale == Spec => []AtMostABlockStale
BY Invariance, IInvAtMostABlockStale, PTL

=============================================================================
