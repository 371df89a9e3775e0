---------------------------- MODULE LedgerProofs ----------------------------
(***************************************************************************)
(* The proof that the pipeline implements the ledger: what it emits for a  *)
(* block is what the chain alone determines, for every set of pools and    *)
(* hooks, every alphabet of logs and every bound.  And what the pipeline   *)
(* adds up agrees: a hook's totals with those of its pools, and the totals *)
(* with the statistics of the blocks.                                      *)
(***************************************************************************)
EXTENDS PipelineProofs, Extremes

-----------------------------------------------------------------------------
(* The ledger is stated in the pipeline's own vocabulary: its copy of each  *)
(* operator of PoolLogs is that operator.                                  *)
LEMMA LedgerSets ==
  /\ \A b : L!Own(b) = Own(b)
  /\ \A b, P : L!OwnOf(b, P) = OwnOf(b, P)
  /\ \A b, K : L!OfKind(b, K) = OfKind(b, K)
  /\ \A b, I : L!PoolsIn(b, I) = PoolsIn(b, I)
  /\ \A b : L!InitsIn(b) = InitsIn(b)
  /\ \A h : L!PoolsOf(h) = PoolsOf(h)
  /\ \A c, n : L!Initialised(c, n) = Initialised(c, n)
  /\ L!PoolMetrics = PoolMetrics /\ L!Metrics = Metrics
<1>1. \A b : L!Own(b) = Own(b)
  BY DEF L!Own, Own
<1>2. \A b, P : L!OwnOf(b, P) = OwnOf(b, P)
  BY <1>1 DEF L!OwnOf, OwnOf
<1>3. \A b, K : L!OfKind(b, K) = OfKind(b, K)
  BY <1>1 DEF L!OfKind, OfKind
<1>4. \A b, I : L!PoolsIn(b, I) = PoolsIn(b, I)
  BY DEF L!PoolsIn, PoolsIn
<1>5. \A b : L!InitsIn(b) = InitsIn(b)
  BY <1>3, <1>4 DEF L!InitsIn, InitsIn
<1>6. \A h : L!PoolsOf(h) = PoolsOf(h)
  BY DEF L!PoolsOf, PoolsOf
<1>7. \A c, n : L!Initialised(c, n) = Initialised(c, n)
  <2> SUFFICES ASSUME NEW c, NEW n PROVE L!Initialised(c, n) = Initialised(c, n)
    OBVIOUS
  <2>1. \A k \in 1 .. n : L!InitsIn(c[k]) = InitsIn(c[k])
    BY <1>5
  <2> QED
    BY <2>1 DEF L!Initialised, Initialised
<1>8. L!PoolMetrics = PoolMetrics /\ L!Metrics = Metrics
  BY DEF L!PoolMetrics, PoolMetrics, L!Metrics, Metrics
<1> QED
  BY <1>1, <1>2, <1>3, <1>4, <1>5, <1>6, <1>7, <1>8

LEMMA LedgerSums ==
  /\ \A S : L!Cardinality(S) = Cardinality(S)
  /\ \A b, I, m : L!Tally(b, I, m) = Tally(b, I, m)
  /\ \A c, n, P, m : L!Lifetime(c, n, P, m) = Lifetime(c, n, P, m)
<1>1. \A S : L!Cardinality(S) = Cardinality(S)
  BY DEF L!Cardinality, Cardinality
<1>2. \A l, m : L!Weight(l, m) = Weight(l, m)
  BY DEF L!Weight, Weight, L!Abs, Abs
<1>3. \A b, I, m : L!Units(b, I, m) = Units(b, I, m)
  BY <1>2 DEF L!Units, Units
<1>4. \A b, I, m : L!Tally(b, I, m) = Tally(b, I, m)
  BY <1>1, <1>3 DEF L!Tally, Tally
<1>5. ASSUME NEW c, NEW n, NEW P, NEW m
      PROVE  L!Lifetime(c, n, P, m) = Lifetime(c, n, P, m)
  <2>1. \A k \in 1 .. n : L!Units(c[k], L!OwnOf(c[k], P), m) = Units(c[k], OwnOf(c[k], P), m)
    BY <1>3, LedgerSets
  <2>2. L!LifeUnits(c, n, P, m) = LifeUnits(c, n, P, m)
    BY <2>1 DEF L!LifeUnits, LifeUnits
  <2> QED
    BY <1>1, <2>2 DEF L!Lifetime, Lifetime
<1> QED
  BY <1>1, <1>4, <1>5

LEMMA LedgerLegal == ASSUME NEW b, NEW c PROVE L!Legal(b, c) <=> Legal(b, c)
<1>1. /\ L!Own(b) = Own(b) /\ L!OfKind(b, {"Initialize"}) = OfKind(b, {"Initialize"})
      /\ L!Initialised(c, Len(c)) = Initialised(c, Len(c))
  BY LedgerSets
<1> QED
  BY <1>1 DEF L!Legal, Legal

-----------------------------------------------------------------------------
(* What the stages of the block in flight have computed.                   *)

EnrichedExact ==
  InFlight /\ "map_enriched" \in done =>
    /\ enriched.rows = L!RowsOf(block)
    /\ enriched.pool_stats = L!PoolStatsOf(block)
    /\ enriched.hook_stats = L!HookStatsOf(block)

TotalsExact ==
  InFlight /\ "map_totals" \in done => totals = L!Output(chain, Len(chain))

LastLegal == InFlight => Legal(block, SubSeq(chain, 1, Len(ledger)))

EmitInv == EnrichedExact /\ TotalsExact /\ LastLegal

-----------------------------------------------------------------------------
(* map_enriched.                                                           *)

LEMMA EventFacts ==
  ASSUME IInv, InFlight, "map_events" \in done
  PROVE  /\ DOMAIN events = Own(block)
         /\ \A i \in Own(block) : events[i] = block[i] /\ block[i] \in Log
<1>1. block \in Blocks /\ events = Decode(block)
  BY FlightFacts DEF IInv, OutputsExact
<1> QED
  BY <1>1, DecodeFacts

(* The join gives every pool of the block its identity.                    *)
LEMMA ResolveFacts ==
  ASSUME IInv, InFlight, "store_pools" \in done
  PROVE  \A i \in Own(block) : Resolve(block[i].pool) = L!Identity(block[i].pool)
<1>1. /\ TypeOK /\ ChainSound /\ Len(chain) \in Nat /\ Len(chain) \in 1 .. Len(chain)
  BY FlightFacts DEF IInv
<1>2. store_pools = [p \in Initialised(chain, Len(chain)) |-> KeyOf[p]]
  BY DEF IInv, StoresExact, Height, PoolsExact, Snapshot
<1>3. Initialised(chain, Len(chain)) \subseteq Pools \ Legacy
  BY <1>1, InitialisedPools
<1>4. \A i \in Own(block) : block[i].pool \in Legacy \cup Initialised(chain, Len(chain))
  BY <1>1 DEF ChainSound, block
<1> QED
  BY <1>2, <1>3, <1>4 DEF Resolve, L!Identity

(* A pool has a hook exactly if it is not legacy and its key names one.    *)
LEMMA IdentityFacts ==
  ASSUME NEW p \in Pools
  PROVE  /\ HasHook(L!Identity(p)) <=> p \notin Legacy /\ KeyOf[p].hook # NoHook
         /\ p \notin Legacy => L!Identity(p) = KeyOf[p]
BY PoolLogsAssumption DEF HasHook, L!Identity

(* The join's convention for volume is that of the totals.                 *)
LEMMA AccumulatedTally ==
  ASSUME NEW P, NEW m \in PoolMetrics
  PROVE  Accumulated(P, m) = Tally(events, RowsOf(P), m)
<1>1. ASSUME NEW i \in RowsOf(P)
      PROVE  Adds(events[i], m) = Weight(events[i], m)
  <2>1. events[i].kind \in {"Swap", "ModifyLiquidity"}
    BY DEF RowsOf, Rows
  <2>2. CASE events[i].kind = "ModifyLiquidity"
    BY <2>2 DEF Adds, Weight, PoolMetrics
  <2>3. CASE events[i].kind = "Swap"
    BY <2>3 DEF Adds, Weight, AbsAmount, Abs, PoolMetrics
  <2> QED
    BY <2>1, <2>2, <2>3
<1>2. UNION {{i} \X (1 .. Adds(events[i], m)) : i \in RowsOf(P)} = Units(events, RowsOf(P), m)
  BY <1>1 DEF Units
<1> QED
  BY <1>2 DEF Accumulated, Tally

(* The statistics are summed over the swap and liquidity rows of P; the    *)
(* other rows of the same pools weigh nothing.                             *)
LEMMA StatsTally ==
  ASSUME IInv, InFlight, "map_events" \in done, NEW P, NEW Q, P \subseteq Q,
         \A i \in RowsOf(Q) : events[i].pool \in P, NEW m \in PoolMetrics
  PROVE  Accumulated(P, m) = Tally(block, OwnOf(block, Q), m)
<1>1. /\ DOMAIN events = Own(block)
      /\ \A i \in Own(block) : events[i] = block[i] /\ block[i] \in Log
  BY EventFacts
<1>2. /\ RowsOf(P) \subseteq OwnOf(block, Q)
      /\ \A i \in RowsOf(P) : events[i] = block[i]
      /\ \A i \in OwnOf(block, Q) \ RowsOf(P) : block[i].kind \in {"Initialize", "Donate"}
  BY <1>1 DEF RowsOf, Rows, OwnOf, Log, Kinds
<1>3. \A i \in OwnOf(block, Q) \ RowsOf(P) : Weight(block[i], m) = 0
  BY <1>2 DEF Weight, PoolMetrics
<1>4. Tally(events, RowsOf(P), m) = Tally(block, RowsOf(P), m)
  BY <1>2, UnitsAgree
<1>5. Tally(block, RowsOf(P), m) = Tally(block, OwnOf(block, Q), m)
  BY <1>2, <1>3, UnitsIgnoreZero
<1> QED
  BY <1>4, <1>5, AccumulatedTally

LEMMA ActiveFacts ==
  ASSUME IInv, InFlight, "map_events" \in done, "store_pools" \in done
  PROVE  /\ {events[i].pool : i \in Rows({"Swap", "ModifyLiquidity"})} = L!Active(block)
         /\ \A p \in L!Active(block) : p \in Pools /\ Resolve(p) = L!Identity(p)
<1>1. /\ DOMAIN events = Own(block)
      /\ \A i \in Own(block) : events[i] = block[i] /\ block[i] \in Log
  BY EventFacts
<1>2. L!Active(block) = {block[i].pool : i \in Rows({"Swap", "ModifyLiquidity"})}
  BY <1>1, LedgerSets DEF L!Active, PoolsIn, OfKind, Rows
<1>3. Rows({"Swap", "ModifyLiquidity"}) \subseteq Own(block)
  BY <1>1 DEF Rows
<1> QED
  BY <1>1, <1>2, <1>3, ResolveFacts DEF Log

LEMMA PoolStatsExact ==
  ASSUME IInv, InFlight, "map_events" \in done, "store_pools" \in done
  PROVE  PoolStats = L!PoolStatsOf(block)
<1>1. /\ {events[i].pool : i \in Rows({"Swap", "ModifyLiquidity"})} = L!Active(block)
      /\ \A p \in L!Active(block) : Resolve(p) = L!Identity(p)
  BY ActiveFacts
<1>2. ASSUME NEW p, NEW m \in PoolMetrics
      PROVE  Accumulated({p}, m) = Tally(block, OwnOf(block, {p}), m)
  <2>1. \A i \in RowsOf({p}) : events[i].pool \in {p}
    BY DEF RowsOf
  <2> QED
    BY <2>1, StatsTally
<1>3. PoolStats = [p \in L!Active(block) |->
                     [key   |-> Resolve(p),
                      count |-> [m \in PoolMetrics |-> Accumulated({p}, m)]]]
  BY <1>1 DEF PoolStats
<1>4. L!PoolStatsOf(block) = [p \in L!Active(block) |->
                     [key   |-> L!Identity(p),
                      count |-> [m \in PoolMetrics |-> Tally(block, OwnOf(block, {p}), m)]]]
  BY LedgerSets, LedgerSums DEF L!PoolStatsOf
<1>5. ASSUME NEW p
      PROVE  [m \in PoolMetrics |-> Accumulated({p}, m)]
               = [m \in PoolMetrics |-> Tally(block, OwnOf(block, {p}), m)]
  BY <1>2
<1> QED
  BY <1>1, <1>3, <1>4, <1>5

LEMMA HookStatsExact ==
  ASSUME IInv, InFlight, "map_events" \in done, "store_pools" \in done
  PROVE  HookStats = L!HookStatsOf(block)
<1> DEFINE A == L!Active(block)
           hooked == {p \in DOMAIN PoolStats : HasHook(Resolve(p))}
           under(h) == {p \in hooked : Resolve(p).hook = h}
           HS == L!HooksOf(A)
<1>1. /\ DOMAIN events = Own(block)
      /\ \A i \in Own(block) : events[i] = block[i] /\ block[i] \in Log
  BY EventFacts
<1>2. /\ {events[i].pool : i \in Rows({"Swap", "ModifyLiquidity"})} = A
      /\ \A p \in A : p \in Pools /\ Resolve(p) = L!Identity(p)
  BY ActiveFacts
<1>3. DOMAIN PoolStats = A
  BY <1>2 DEF PoolStats
<1>4. hooked = {p \in A \ Legacy : KeyOf[p].hook # NoHook}
      /\ \A p \in hooked : Resolve(p) = KeyOf[p]
  BY <1>2, <1>3, IdentityFacts
<1>5. {Resolve(p).hook : p \in hooked} = HS
  BY <1>4 DEF L!HooksOf
<1>6. ASSUME NEW h \in HS
      PROVE  /\ under(h) = A \cap PoolsOf(h) /\ under(h) \subseteq PoolsOf(h)
             /\ \A i \in RowsOf(PoolsOf(h)) : events[i].pool \in under(h)
  <2>1. h # NoHook
    BY DEF L!HooksOf
  <2>2. under(h) = A \cap PoolsOf(h)
    BY <1>2, <1>4, <2>1 DEF PoolsOf
  <2>3. \A i \in RowsOf(PoolsOf(h)) : events[i].pool \in A \cap PoolsOf(h)
    BY <1>2 DEF RowsOf
  <2> QED
    BY <2>2, <2>3
<1> HIDE DEF under, HS
<1>7. ASSUME NEW h \in HS, NEW m \in {"swaps", "vol0", "vol1"}
      PROVE  Accumulated(under(h), m) = Tally(block, OwnOf(block, PoolsOf(h)), m)
  <2>1. m \in PoolMetrics
    BY DEF PoolMetrics
  <2> QED
    BY <1>6, <2>1, StatsTally
<1>8. ASSUME NEW h \in HS
      PROVE  SwapFees(under(h)) = L!Fees(block, PoolsOf(h))
  <2>1. RowsOf(under(h)) \cap Rows({"Swap"}) = OwnOf(block, PoolsOf(h)) \cap OfKind(block, {"Swap"})
    BY <1>1, <1>6 DEF RowsOf, Rows, OwnOf, OfKind
  <2>2. \A i \in OwnOf(block, PoolsOf(h)) : events[i] = block[i]
    BY <1>1 DEF OwnOf
  <2>3. L!Fees(block, PoolsOf(h))
          = {block[i].fee : i \in OwnOf(block, PoolsOf(h)) \cap OfKind(block, {"Swap"})}
    BY LedgerSets DEF L!Fees
  <2> QED
    BY <2>1, <2>2, <2>3 DEF SwapFees
<1>9. HookStats = [h \in HS |->
         [pool_count |-> Cardinality(under(h)),
          count      |-> [m \in {"swaps", "vol0", "vol1"} |-> Accumulated(under(h), m)],
          fees       |-> Cardinality(SwapFees(under(h)))]]
  BY <1>5 DEF HookStats, under
<1>10. L!HookStatsOf(block) = [h \in HS |->
         [pool_count |-> Cardinality(A \cap PoolsOf(h)),
          count      |-> [m \in {"swaps", "vol0", "vol1"} |->
                            Tally(block, OwnOf(block, PoolsOf(h)), m)],
          fees       |-> Cardinality(L!Fees(block, PoolsOf(h)))]]
  BY LedgerSets, LedgerSums DEF L!HookStatsOf, HS
<1>11. ASSUME NEW h \in HS
       PROVE  [m \in {"swaps", "vol0", "vol1"} |-> Accumulated(under(h), m)]
                = [m \in {"swaps", "vol0", "vol1"} |-> Tally(block, OwnOf(block, PoolsOf(h)), m)]
  BY <1>7
<1> QED
  BY <1>6, <1>8, <1>9, <1>10, <1>11

-----------------------------------------------------------------------------
(* map_totals.                                                             *)

(* The rows that name a pool, and the identity they note for it.           *)
LEMMA NotedFacts ==
  ASSUME IInv, InFlight, "map_enriched" \in done
  PROVE  /\ Noted = OfKind(block, {"Initialize", "Swap", "ModifyLiquidity"})
         /\ \A i \in Noted : /\ enriched.rows[i].log = block[i] /\ block[i].pool \in Pools
                            /\ enriched.rows[i].key = L!Identity(block[i].pool)
         /\ {enriched.rows[i].log.pool : i \in Noted} = L!Touched(block)
         /\ \A p \in L!Touched(block) : p \in Pools /\ NotedKey(p) = L!Identity(p)
<1>1. block \in Blocks /\ enriched.rows = L!RowsOf(block)
  BY FlightFacts DEF IInv, OutputsExact
<1>2. enriched.rows = [i \in Own(block) |->
         [log |-> block[i],
          key |-> IF block[i].kind = "Donate" THEN NoKey ELSE L!Identity(block[i].pool)]]
  BY <1>1, LedgerSets DEF L!RowsOf
<1>3. \A i \in Own(block) : block[i] \in Log
  BY <1>1, DecodeFacts
<1>4. Noted = OfKind(block, {"Initialize", "Swap", "ModifyLiquidity"})
  BY <1>2 DEF Noted, OfKind
<1>5. ASSUME NEW i \in Noted
      PROVE  /\ enriched.rows[i].log = block[i] /\ block[i].pool \in Pools
             /\ enriched.rows[i].key = L!Identity(block[i].pool)
  <2>1. i \in Own(block) /\ block[i].kind # "Donate"
    BY <1>4 DEF OfKind
  <2> QED
    BY <1>2, <1>3, <2>1 DEF Log
<1>6. {enriched.rows[i].log.pool : i \in Noted} = L!Touched(block)
  <2>1. {enriched.rows[i].log.pool : i \in Noted} = {block[i].pool : i \in Noted}
    BY <1>5
  <2>2. L!Touched(block) = PoolsIn(block, OfKind(block, {"Swap", "ModifyLiquidity"}))
                             \cup PoolsIn(block, OfKind(block, {"Initialize"}))
    BY LedgerSets DEF L!Touched, L!Active, InitsIn
  <2>3. Noted = OfKind(block, {"Swap", "ModifyLiquidity"}) \cup OfKind(block, {"Initialize"})
    BY <1>4 DEF OfKind
  <2> QED
    BY <2>1, <2>2, <2>3 DEF PoolsIn
<1>7. ASSUME NEW p \in L!Touched(block)
      PROVE  p \in Pools /\ NotedKey(p) = L!Identity(p)
  <2> DEFINE named == {i \in Noted : enriched.rows[i].log.pool = p
                                       /\ enriched.rows[i].key # NoKey}
  <2>1. PICK j \in Noted : block[j].pool = p
    BY <1>5, <1>6
  <2>2. \A i \in named : enriched.rows[i].key = L!Identity(p)
    BY <1>5
  <2>3. named = {} => L!Identity(p) = NoKey
    BY <1>5, <2>1
  <2>4. named # {} => (CHOOSE i \in named : TRUE) \in named
    OBVIOUS
  <2>5. NotedKey(p) = IF named = {} THEN NoKey ELSE enriched.rows[CHOOSE i \in named : TRUE].key
    BY DEF NotedKey
  <2> HIDE DEF named
  <2>6. NotedKey(p) = L!Identity(p)
    BY <2>2, <2>3, <2>4, <2>5
  <2> QED
    BY <1>5, <2>1, <2>6
<1> QED
  BY <1>4, <1>5, <1>6, <1>7

LEMMA PoolTotalsFinished ==
  ASSUME IInv, InFlight, "map_enriched" \in done, "store_pool_totals" \in done
  PROVE  PoolTotals = L!PoolTotalsOf(chain, Len(chain))
<1> DEFINE T == L!Touched(block)
<1>1. /\ {enriched.rows[i].log.pool : i \in Noted} = T
      /\ \A p \in T : p \in Pools /\ NotedKey(p) = L!Identity(p)
  BY NotedFacts
<1>2. \A p \in Pools, m \in PoolMetrics :
         Get(store_pool_totals, <<p, m>>) = Lifetime(chain, Len(chain), {p}, m)
  BY DEF IInv, StoresExact, Height, PoolTotalsExact, Snapshot
<1>3. PoolTotals = [p \in T |->
         [key   |-> NotedKey(p),
          count |-> [m \in PoolMetrics |-> Get(store_pool_totals, <<p, m>>)]]]
  BY <1>1 DEF PoolTotals
<1>4. L!PoolTotalsOf(chain, Len(chain)) = [p \in T |->
         [key   |-> L!Identity(p),
          count |-> [m \in PoolMetrics |-> Lifetime(chain, Len(chain), {p}, m)]]]
  BY LedgerSets, LedgerSums DEF L!PoolTotalsOf, block
<1>5. ASSUME NEW p \in T
      PROVE  [m \in PoolMetrics |-> Get(store_pool_totals, <<p, m>>)]
               = [m \in PoolMetrics |-> Lifetime(chain, Len(chain), {p}, m)]
  BY <1>1, <1>2
<1> QED
  BY <1>1, <1>3, <1>4, <1>5

LEMMA HookTotalsFinished ==
  ASSUME IInv, InFlight, "map_enriched" \in done, "store_pool_totals" \in done,
         "store_hook_totals" \in done
  PROVE  HookTotals = L!HookTotalsOf(chain, Len(chain))
<1> DEFINE T == L!Touched(block)
           keys == {PoolTotals[p].key : p \in DOMAIN PoolTotals}
           HS == L!HooksOf(T)
<1>1. \A p \in T : p \in Pools
  BY NotedFacts
<1>2. keys = {L!Identity(p) : p \in T}
  <2>1. DOMAIN PoolTotals = T
    BY NotedFacts DEF PoolTotals
  <2>2. \A p \in T : PoolTotals[p].key = L!Identity(p)
    BY NotedFacts DEF PoolTotals
  <2> HIDE DEF T
  <2> QED
    BY <2>1, <2>2
<1>3. {key.hook : key \in {k \in keys : HasHook(k)}} = HS
  <2>1. {k \in keys : HasHook(k)} = {L!Identity(p) : p \in {q \in T : HasHook(L!Identity(q))}}
    BY <1>2
  <2>2. {q \in T : HasHook(L!Identity(q))} = {q \in T \ Legacy : KeyOf[q].hook # NoHook}
    BY <1>1, IdentityFacts
  <2>3. \A p \in T \ Legacy : L!Identity(p) = KeyOf[p]
    BY <1>1, IdentityFacts
  <2>4. {k \in keys : HasHook(k)} = {KeyOf[p] : p \in {q \in T \ Legacy : KeyOf[q].hook # NoHook}}
    BY <2>1, <2>2, <2>3
  <2> HIDE DEF keys, T
  <2> QED
    BY <2>4 DEF L!HooksOf
<1>4. HS \subseteq Hooks
  BY <1>1, PoolLogsAssumption DEF L!HooksOf, PoolKey
<1>5. \A h \in Hooks, m \in Metrics :
         Get(store_hook_totals, <<h, m>>) = Lifetime(chain, Len(chain), PoolsOf(h), m)
  BY DEF IInv, StoresExact, Height, HookTotalsExact, Snapshot
<1>6. HookTotals = [h \in HS |-> [m \in Metrics |-> Get(store_hook_totals, <<h, m>>)]]
  BY <1>3 DEF HookTotals
<1>7. L!HookTotalsOf(chain, Len(chain))
         = [h \in HS |-> [m \in Metrics |-> Lifetime(chain, Len(chain), PoolsOf(h), m)]]
  BY LedgerSets, LedgerSums DEF L!HookTotalsOf, block
<1> HIDE DEF HS
<1>8. ASSUME NEW h \in HS
      PROVE  [m \in Metrics |-> Get(store_hook_totals, <<h, m>>)]
               = [m \in Metrics |-> Lifetime(chain, Len(chain), PoolsOf(h), m)]
  BY <1>4, <1>5
<1> QED
  BY <1>6, <1>7, <1>8

-----------------------------------------------------------------------------
(* The steps.                                                              *)

LEMMA InitEmit == Init => EmitInv
BY DEF Init, EmitInv, EnrichedExact, TotalsExact, LastLegal, InFlight

(* A module that runs leaves the block in flight where it is.              *)
LEMMA RunKeepsLegal ==
  ASSUME LastLegal, UNCHANGED <<chain, ledger>>
  PROVE  LastLegal'
<1>1. PICK c, n : c = chain /\ n = Len(ledger)
  OBVIOUS
<1>2. InFlight' = InFlight /\ chain' = c /\ ledger' = ledger /\ Len(ledger') = n
  BY <1>1 DEF InFlight
<1>3. InFlight => Legal(c[Len(c)], SubSeq(c, 1, n))
  BY <1>1 DEF LastLegal, block
<1> QED
  BY <1>2, <1>3 DEF LastLegal, block

LEMMA KeepsEnriched ==
  ASSUME EnrichedExact, UNCHANGED <<chain, ledger, enriched>>,
         "map_enriched" \in done' => "map_enriched" \in done
  PROVE  EnrichedExact'
<1>1. PICK b, e : b = block /\ e = enriched
  OBVIOUS
<1>2. InFlight' = InFlight /\ block' = b /\ enriched' = e
  BY <1>1 DEF InFlight, block
<1>3. InFlight /\ "map_enriched" \in done =>
        /\ e.rows = L!RowsOf(b) /\ e.pool_stats = L!PoolStatsOf(b)
        /\ e.hook_stats = L!HookStatsOf(b)
  BY <1>1 DEF EnrichedExact
<1> QED
  BY <1>2, <1>3 DEF EnrichedExact

LEMMA KeepsTotals ==
  ASSUME TotalsExact, UNCHANGED <<chain, ledger, totals>>,
         "map_totals" \in done' => "map_totals" \in done
  PROVE  TotalsExact'
<1>1. PICK c, t : c = chain /\ t = totals
  OBVIOUS
<1>2. InFlight' = InFlight /\ chain' = c /\ totals' = t
  BY <1>1 DEF InFlight
<1>3. InFlight /\ "map_totals" \in done => t = L!Output(c, Len(c))
  BY <1>1 DEF TotalsExact
<1> QED
  BY <1>2, <1>3 DEF TotalsExact

LEMMA OtherModuleEmit ==
  ASSUME EmitInv, NEW mod \in Modules \ {"map_enriched", "map_totals"}, Run(mod),
         UNCHANGED <<chain, ledger, enriched, totals>>
  PROVE  EmitInv'
<1>1. \A m \in {"map_enriched", "map_totals"} : m \in done' => m \in done
  BY DEF Run
<1>2. EnrichedExact'
  BY <1>1, KeepsEnriched DEF EmitInv
<1>3. TotalsExact'
  BY <1>1, KeepsTotals DEF EmitInv
<1>4. LastLegal'
  BY RunKeepsLegal DEF EmitInv
<1> QED
  BY <1>2, <1>3, <1>4 DEF EmitInv

LEMMA MapEnrichedEmit == ASSUME IInv, EmitInv, MapEnriched, IInv' PROVE EmitInv'
<1>1. /\ InFlight /\ "map_events" \in done /\ "store_pools" \in done
      /\ done' = done \cup {"map_enriched"} /\ UNCHANGED <<chain, ledger, totals>>
      /\ enriched'.pool_stats = PoolStats /\ enriched'.hook_stats = HookStats
  BY DEF MapEnriched, Run, Inputs
<1>2. PICK b : b = block
  OBVIOUS
<1>3. block' = b
  BY <1>1, <1>2 DEF block
<1>4. enriched'.pool_stats = L!PoolStatsOf(b) /\ enriched'.hook_stats = L!HookStatsOf(b)
  BY <1>1, <1>2, PoolStatsExact, HookStatsExact
<1>5. EnrichedExact'
  <2>1. enriched'.rows = L!RowsOf(b)
    BY <1>1, <1>3 DEF IInv, OutputsExact, InFlight
  <2> QED
    BY <1>3, <1>4, <2>1 DEF EnrichedExact
<1>6. TotalsExact'
  BY <1>1, KeepsTotals DEF EmitInv
<1>7. LastLegal'
  BY <1>1, RunKeepsLegal DEF EmitInv
<1> QED
  BY <1>5, <1>6, <1>7 DEF EmitInv

LEMMA MapTotalsEmit == ASSUME IInv, EmitInv, MapTotals PROVE EmitInv'
<1>1. /\ InFlight /\ {"map_enriched", "store_pool_totals", "store_hook_totals"} \subseteq done
      /\ done' = done \cup {"map_totals"} /\ UNCHANGED <<chain, ledger, enriched>>
  BY DEF MapTotals, Run, Inputs
<1>2. PICK c : c = chain
  OBVIOUS
<1>3. totals' = L!Output(c, Len(c))
  <2>1. /\ enriched.rows = L!RowsOf(c[Len(c)])
        /\ enriched.pool_stats = L!PoolStatsOf(c[Len(c)])
        /\ enriched.hook_stats = L!HookStatsOf(c[Len(c)])
    BY <1>1, <1>2 DEF EmitInv, EnrichedExact, block
  <2>2. PoolTotals = L!PoolTotalsOf(c, Len(c)) /\ HookTotals = L!HookTotalsOf(c, Len(c))
    BY <1>1, <1>2, PoolTotalsFinished, HookTotalsFinished
  <2> QED
    BY <2>1, <2>2 DEF MapTotals, L!Output
<1>4. TotalsExact'
  BY <1>1, <1>2, <1>3 DEF TotalsExact
<1>5. EnrichedExact'
  BY <1>1, KeepsEnriched DEF EmitInv
<1>6. LastLegal'
  BY <1>1, RunKeepsLegal DEF EmitInv
<1> QED
  BY <1>4, <1>5, <1>6 DEF EmitInv

LEMMA NewBlockEmit == ASSUME IInv, NEW b \in Blocks, NewBlock(b) PROVE EmitInv'
<1>1. /\ ~InFlight /\ Legal(b, chain) /\ chain' = Append(chain, b) /\ done' = {}
      /\ ledger' = ledger
  BY DEF NewBlock
<1>2. chain \in Seq(Blocks) /\ Len(ledger) \in Nat /\ Len(chain) = Len(ledger)
  BY <1>1, SequenceFacts DEF IInv, TypeOK, InFlight
<1>3. block' = b /\ SubSeq(chain', 1, Len(ledger')) = chain
  BY <1>1, <1>2 DEF block
<1>4. LastLegal'
  BY <1>1, <1>3 DEF LastLegal
<1> QED
  BY <1>1, <1>4 DEF EmitInv, EnrichedExact, TotalsExact

(* After a block is emitted, and after a reorg, no block is in flight.     *)
LEMMA NoneInFlight == ASSUME IInv, DbOut \/ Undo PROVE ~InFlight'
<1>1. /\ chain \in Seq(Blocks) /\ Len(chain) \in Nat /\ IsSequence(ledger)
      /\ Len(ledger) \in Nat /\ Len(chain) \in {Len(ledger), Len(ledger) + 1}
  BY SequenceFacts DEF IInv, TypeOK
<1>2. CASE DbOut
  <2>1. chain' = chain /\ Len(ledger') = Len(ledger) + 1
    BY <1>1, <1>2, SequenceFacts DEF DbOut
  <2> QED
    BY <1>1, <2>1 DEF InFlight
<1>3. CASE Undo
  <2> DEFINE n == Len(chain) - 1
  <2>1. chain' = SubSeq(chain, 1, n) /\ ledger' = SubSeq(ledger, 1, n) /\ chain # <<>>
    BY <1>3 DEF Undo
  <2>2. n \in 0 .. Len(ledger) /\ n \in 0 .. Len(chain)
    BY <1>1, <2>1
  <2> HIDE DEF n
  <2>3. Len(ledger') = n
    BY <1>1, <2>1, <2>2, SequenceFacts
  <2>4. Len(chain') = n
    BY <1>1, <2>1, <2>2
  <2> QED
    BY <2>2, <2>3, <2>4 DEF InFlight
<1> QED
  BY <1>2, <1>3

LEMMA NextEmit == IInv /\ EmitInv /\ [Next]_vars => EmitInv'
<1> SUFFICES ASSUME IInv, EmitInv, [Next]_vars PROVE EmitInv'
  OBVIOUS
<1>1. CASE \E b \in Blocks : NewBlock(b)
  BY <1>1, NewBlockEmit
<1>2. CASE MapEvents \/ StorePools \/ StorePoolTotals \/ StoreHookTotals
  <2>1. PICK mod \in Modules \ {"map_enriched", "map_totals"} : Run(mod)
    BY <1>2 DEF MapEvents, StorePools, StorePoolTotals, StoreHookTotals, Modules
  <2>2. UNCHANGED <<chain, ledger, enriched, totals>>
    BY <1>2 DEF MapEvents, StorePools, StorePoolTotals, StoreHookTotals, outputs
  <2> QED
    BY <2>1, <2>2, OtherModuleEmit
<1>3. CASE MapEnriched
  BY <1>3, MapEnrichedEmit, MapEnrichedIInv
<1>4. CASE MapTotals
  BY <1>4, MapTotalsEmit
<1>5. CASE DbOut \/ Undo
  BY <1>5, NoneInFlight DEF EmitInv, EnrichedExact, TotalsExact, LastLegal
<1>6. CASE Crash
  <2>1. done' = {} /\ UNCHANGED <<chain, ledger>>
    BY <1>6 DEF Crash, Restore
  <2>2. LastLegal'
    BY <2>1, RunKeepsLegal DEF EmitInv
  <2> QED
    BY <2>1, <2>2 DEF EmitInv, EnrichedExact, TotalsExact
<1>7. CASE UNCHANGED vars
  <2>1. UNCHANGED <<chain, done, ledger, enriched, totals>>
    BY <1>7 DEF vars, outputs
  <2> QED
    BY <2>1, KeepsEnriched, KeepsTotals, RunKeepsLegal DEF EmitInv
<1> QED
  BY <1>1, <1>2, <1>3, <1>4, <1>5, <1>6, <1>7 DEF Next, RunModule

-----------------------------------------------------------------------------
(* The refinement: db_out emits, a reorg of an emitted block takes it      *)
(* away, and every other step leaves the ledger and its chain alone.       *)

(* The chain the ledger sees: the blocks that are emitted.                 *)
Emitted == SubSeq(chain, 1, Len(ledger))

LEMMA EmittedFacts ==
  ASSUME IInv
  PROVE  /\ chain \in Seq(Blocks) /\ Len(chain) \in Nat /\ Len(ledger) \in Nat
         /\ IsSequence(ledger)
         /\ Len(chain) \in {Len(ledger), Len(ledger) + 1}
         /\ Emitted \in Seq(Blocks) /\ Len(Emitted) = Len(ledger)
         /\ \A i \in 1 .. Len(ledger) : Emitted[i] = chain[i]
<1>1. /\ chain \in Seq(Blocks) /\ Len(chain) \in Nat /\ Len(ledger) \in Nat
      /\ IsSequence(ledger)
      /\ Len(chain) \in {Len(ledger), Len(ledger) + 1}
  BY SequenceFacts DEF IInv, TypeOK
<1> QED
  BY <1>1 DEF Emitted

LEMMA DbOutEmits ==
  ASSUME IInv, EmitInv, DbOut
  PROVE  /\ block \in Blocks /\ Legal(block, Emitted)
         /\ Emitted' = Append(Emitted, block)
         /\ ledger' = Append(ledger, L!Output(Emitted', Len(Emitted')))
<1>1. /\ InFlight /\ "map_totals" \in done
      /\ ledger' = Append(ledger, totals) /\ chain' = chain
  BY DEF DbOut, Run, Inputs
<1>2. /\ chain \in Seq(Blocks) /\ Len(ledger) \in Nat /\ IsSequence(ledger)
      /\ Len(chain) = Len(ledger) + 1 /\ block \in Blocks
  BY <1>1, EmittedFacts, FlightFacts DEF IInv
<1>3. Len(ledger') = Len(ledger) + 1
  BY <1>1, <1>2, SequenceFacts
<1>4. Emitted' = chain
  BY <1>1, <1>2, <1>3 DEF Emitted
<1>5. chain = Append(Emitted, block)
  BY <1>2 DEF Emitted, block
<1>6. totals = L!Output(chain, Len(chain))
  BY <1>1 DEF EmitInv, TotalsExact
<1>7. Legal(block, Emitted)
  BY <1>1 DEF EmitInv, LastLegal, Emitted
<1> QED
  BY <1>1, <1>2, <1>4, <1>5, <1>6, <1>7

LEMMA UndoReorgs ==
  ASSUME IInv, Undo
  PROVE  \/ UNCHANGED <<Emitted, ledger>>
         \/ /\ Emitted # <<>>
            /\ Emitted' = SubSeq(Emitted, 1, Len(Emitted) - 1)
            /\ ledger' = SubSeq(ledger, 1, Len(Emitted) - 1)
<1> DEFINE n == Len(chain) - 1
<1>1. chain # <<>> /\ chain' = SubSeq(chain, 1, n) /\ ledger' = SubSeq(ledger, 1, n)
  BY DEF Undo
<1>2. /\ chain \in Seq(Blocks) /\ Len(chain) \in Nat /\ Len(ledger) \in Nat
      /\ IsSequence(ledger)
      /\ Len(chain) \in {Len(ledger), Len(ledger) + 1}
      /\ Emitted \in Seq(Blocks) /\ Len(Emitted) = Len(ledger)
      /\ \A i \in 1 .. Len(ledger) : Emitted[i] = chain[i]
  BY EmittedFacts
<1>3. n \in 0 .. Len(ledger) /\ n \in 0 .. Len(chain)
  BY <1>1, <1>2
<1>4. n = Len(ledger) \/ (n = Len(ledger) - 1 /\ Len(ledger) # 0)
  BY <1>1, <1>2
<1> HIDE DEF n
<1>5. Len(ledger') = n /\ \A i \in 1 .. n : ledger'[i] = ledger[i]
  BY <1>1, <1>2, <1>3, SequenceFacts
<1>6. Emitted' = SubSeq(chain, 1, n)
  BY <1>1, <1>2, <1>3, <1>5 DEF Emitted
<1>7. CASE n = Len(ledger)
  <2>1. Emitted' = Emitted
    BY <1>6, <1>7 DEF Emitted
  <2>2. ledger' = ledger
    <3> DEFINE R == {ledger[i] : i \in DOMAIN ledger}
    <3>1. ledger \in Seq(R)
      BY <1>2 DEF IsSequence
    <3> HIDE DEF R
    <3> QED
      BY <1>1, <1>7, <3>1
  <2> QED
    BY <2>1, <2>2
<1>8. CASE n = Len(ledger) - 1 /\ Len(ledger) # 0
  <2>1. Emitted # <<>> /\ n = Len(Emitted) - 1
    BY <1>2, <1>8
  <2>2. SubSeq(Emitted, 1, n) = SubSeq(chain, 1, n)
    BY <1>2, <1>3, <1>8 DEF Emitted
  <2> QED
    BY <1>1, <1>6, <2>1, <2>2
<1> QED
  BY <1>4, <1>7, <1>8

LEMMA OthersStutter ==
  ASSUME IInv, ledger' = ledger, chain' = chain \/ \E b \in Blocks : NewBlock(b)
  PROVE  UNCHANGED <<Emitted, ledger>>
<1>1. CASE chain' = chain
  BY <1>1 DEF Emitted
<1>2. CASE \E b \in Blocks : NewBlock(b)
  <2>1. PICK b \in Blocks : NewBlock(b)
    BY <1>2
  <2>2. /\ chain' = Append(chain, b) /\ chain \in Seq(Blocks)
        /\ Len(ledger) \in Nat /\ Len(ledger) <= Len(chain)
    BY <2>1, EmittedFacts DEF NewBlock
  <2> QED
    BY <2>2 DEF Emitted
<1> QED
  BY <1>1, <1>2

LEMMA StepRefines == IInv /\ EmitInv /\ [Next]_vars => [L!Next]_(L!vars)
<1> SUFFICES ASSUME IInv, EmitInv, [Next]_vars PROVE [L!Next]_(L!vars)
  OBVIOUS
<1>0. (UNCHANGED <<Emitted, ledger>>) => UNCHANGED L!vars
  BY DEF Emitted, L!vars
<1>1. CASE DbOut
  <2>1. /\ block \in Blocks /\ Legal(block, Emitted)
        /\ Emitted' = Append(Emitted, block)
        /\ ledger' = Append(ledger, L!Output(Emitted', Len(Emitted')))
    BY <1>1, DbOutEmits
  <2>2. L!Legal(block, Emitted)
    BY <2>1, LedgerLegal
  <2>3. L!Emit(block)
    BY <2>1, <2>2 DEF L!Emit, Emitted
  <2> QED
    BY <2>1, <2>3 DEF L!Next
<1>2. CASE Undo
  <2>1. CASE UNCHANGED <<Emitted, ledger>>
    BY <1>0, <2>1
  <2>2. CASE /\ Emitted # <<>>
             /\ Emitted' = SubSeq(Emitted, 1, Len(Emitted) - 1)
             /\ ledger' = SubSeq(ledger, 1, Len(Emitted) - 1)
    BY <2>2 DEF L!Next, L!Reorg, Emitted
  <2> QED
    BY <1>2, <2>1, <2>2, UndoReorgs
<1>3. CASE \E b \in Blocks : NewBlock(b)
  <2>1. ledger' = ledger
    BY <1>3 DEF NewBlock
  <2> QED
    BY <1>0, <1>3, <2>1, OthersStutter
<1>4. CASE MapEvents \/ StorePools \/ StorePoolTotals \/ MapEnriched \/ StoreHookTotals
           \/ MapTotals \/ Crash \/ UNCHANGED vars
  <2>1. UNCHANGED <<chain, ledger>>
    BY <1>4 DEF MapEvents, StorePools, StorePoolTotals, MapEnriched, StoreHookTotals, MapTotals,
                Crash, vars
  <2> QED
    BY <1>0, <2>1, OthersStutter
<1> QED
  BY <1>1, <1>2, <1>3, <1>4 DEF Next, RunModule

(* Whatever the order in which the engine runs the modules of              *)
(* substreams.yaml, the crashes and the reorgs, what db_out emits for each *)
(* block -- rows, statistics and totals -- is what the chain up to that    *)
(* block determines: no stage, store or restart shows in the output.       *)
THEOREM PipelineImplementsLedger == Spec => ImplementsLedger
<1>1. Init => L!Init
  BY DEF Init, L!Init
<1>2. Init => EmitInv
  BY InitEmit
<1>3. IInv /\ EmitInv /\ [Next]_vars => EmitInv'
  BY NextEmit
<1>4. IInv /\ EmitInv /\ [Next]_vars => [L!Next]_(L!vars)
  BY StepRefines
<1> QED
  BY <1>1, <1>2, <1>3, <1>4, Invariance, PTL DEF Spec, ImplementsLedger, L!Spec
-----------------------------------------------------------------------------
(* A sum over a finite set of sizes of disjoint sets is the size of their  *)
(* union.  Both inductions, one for the fold's recursive function and one  *)
(* for its value, are by least counterexample.                             *)

Pick(s) == CHOOSE x \in s : TRUE

(* The body of the fold's recursion.                                       *)
Body(f, g, s) == IF s = {} THEN 0 ELSE f[Pick(s)] + g[s \ {Pick(s)}]

(* The recursion of the fold over a finite set has a solution.             *)
LEMMA FoldExists ==
  ASSUME NEW S, IsFiniteSet(S), NEW f
  PROVE  \E g : g = [s \in SUBSET S |-> Body(f, g, s)]
<1> DEFINE Upto(n) == {s \in SUBSET S : Cardinality(s) < n}
           Solves(g, n) == DOMAIN g = SUBSET S /\ \A s \in Upto(n) : g[s] = Body(f, g, s)
           Bad == {n \in Nat : ~\E g : g = [s \in SUBSET S |-> g[s]] /\ Solves(g, n)}
<1>1. \A s \in SUBSET S : IsFiniteSet(s) /\ Cardinality(s) \in Nat
  BY FS_Subset, FS_CardinalityType
<1>2. Bad = {}
  <2> SUFFICES ASSUME Bad # {} PROVE FALSE
    OBVIOUS
  <2>1. PICK n \in Bad : \A k \in Bad : n <= k
    <3>1. Bad \in SUBSET Nat
      OBVIOUS
    <3> HIDE DEF Bad
    <3> QED
      BY <3>1, LeastExists
  <2>2. n # 0
    <3> SUFFICES ASSUME n = 0 PROVE FALSE
      OBVIOUS
    <3> DEFINE z == [s \in SUBSET S |-> 0]
    <3>1. Upto(0) = {}
      BY <1>1
    <3>2. z = [s \in SUBSET S |-> z[s]] /\ Solves(z, 0)
      BY <3>1
    <3> QED
      BY <3>2
  <2>3. n \in Nat /\ n - 1 \in Nat /\ n - 1 \notin Bad
    <3>1. n \in Nat
      BY <2>1
    <3> HIDE DEF Bad
    <3> QED
      BY <2>1, <2>2, <3>1
  <2>4. PICK g : g = [s \in SUBSET S |-> g[s]] /\ Solves(g, n - 1)
    BY <2>3
  <2> DEFINE h == [s \in SUBSET S |-> Body(f, g, s)]
  <2>5. \A s \in Upto(n - 1) : h[s] = g[s]
    BY <2>4
  <2>6. ASSUME NEW s \in Upto(n) PROVE h[s] = Body(f, h, s)
    <3>1. CASE s = {}
      BY <3>1 DEF Body
    <3>2. CASE s # {}
      <4>1. Pick(s) \in s
        BY <3>2 DEF Pick
      <4>2. s \ {Pick(s)} \in Upto(n - 1)
        <5>1. IsFiniteSet(s) /\ Cardinality(s) \in Nat /\ Cardinality(s) < n
          BY <1>1
        <5>2. Cardinality(s \ {Pick(s)}) = Cardinality(s) - 1
          BY <4>1, <5>1, FS_RemoveElement
        <5> QED
          BY <2>3, <5>1, <5>2
      <4>3. h[s \ {Pick(s)}] = g[s \ {Pick(s)}]
        BY <2>5, <4>2
      <4>4. h[s] = f[Pick(s)] + g[s \ {Pick(s)}]
        BY <3>2 DEF Body
      <4> HIDE DEF h
      <4> QED
        BY <3>2, <4>3, <4>4 DEF Body
    <3> QED
      BY <3>1, <3>2
  <2>7. h = [s \in SUBSET S |-> h[s]] /\ DOMAIN h = SUBSET S
    OBVIOUS
  <2>8. Solves(h, n)
    BY <2>6, <2>7
  <2> HIDE DEF h, Solves
  <2>9. n \notin Bad
    BY <2>7, <2>8
  <2> QED
    BY <2>1, <2>9
<1>3. Cardinality(S) + 1 \in Nat /\ Cardinality(S) + 1 \notin Bad
  <2>1. Cardinality(S) \in Nat
    BY FS_CardinalityType
  <2> HIDE DEF Bad
  <2> QED
    BY <1>2, <2>1
<1>4. PICK g : g = [s \in SUBSET S |-> g[s]] /\ Solves(g, Cardinality(S) + 1)
  BY <1>3
<1>5. \A s \in SUBSET S : Cardinality(s) < Cardinality(S) + 1
  BY <1>1, <1>3, FS_Subset
<1>6. \A s \in SUBSET S : g[s] = Body(f, g, s)
  BY <1>4, <1>5
<1>7. g = [s \in SUBSET S |-> Body(f, g, s)]
  BY <1>4, <1>6
<1> QED
  BY <1>7

(* So the fold's value is that of some solution.                           *)
LEMMA TotalUnfolds ==
  ASSUME NEW f, IsFiniteSet(DOMAIN f)
  PROVE  \E g : g = [s \in SUBSET DOMAIN f |-> Body(f, g, s)] /\ Total(f) = g[DOMAIN f]
<1> DEFINE iter == CHOOSE g : g = [s \in SUBSET DOMAIN f |-> Body(f, g, s)]
<1>1. iter = [s \in SUBSET DOMAIN f |-> Body(f, iter, s)]
  BY FoldExists
<1>2. Total(f) = iter[DOMAIN f]
  BY DEF Total, MapThenSumSet, MapThenFoldSet, Body, Pick
<1> QED
  BY <1>1, <1>2

(* The same fold for a family of finite sets.                              *)
LEMMA TotalCounts ==
  ASSUME NEW f, NEW g, IsFiniteSet(DOMAIN f), DOMAIN g = DOMAIN f,
         \A x \in DOMAIN f : IsFiniteSet(g[x]) /\ f[x] = Cardinality(g[x]),
         \A x, y \in DOMAIN f : x # y => g[x] \cap g[y] = {}
  PROVE  Total(f) = Cardinality(UNION {g[x] : x \in DOMAIN f})
<1> DEFINE D == DOMAIN f
           U(s) == UNION {g[x] : x \in s}
<1>1. PICK i : i = [s \in SUBSET D |-> Body(f, i, s)] /\ Total(f) = i[D]
  BY TotalUnfolds
<1>2. \A s \in SUBSET D : i[s] = Body(f, i, s)
  BY <1>1
<1>3. \A s \in SUBSET D : IsFiniteSet(s) /\ Cardinality(s) \in Nat
  BY FS_Subset, FS_CardinalityType
<1> DEFINE Wrong == {s \in SUBSET D : ~(IsFiniteSet(U(s)) /\ i[s] = Cardinality(U(s)))}
           Sizes == {Cardinality(s) : s \in Wrong}
<1>4. ASSUME NEW s \in SUBSET D, \A t \in SUBSET D : Cardinality(t) < Cardinality(s) => t \notin Wrong
      PROVE  s \notin Wrong
  <2>1. CASE s = {}
    <3>1. U(s) = {}
      BY <2>1
    <3>2. i[s] = 0
      BY <1>2, <2>1 DEF Body
    <3> QED
      BY <3>1, <3>2, FS_EmptySet
  <2>2. CASE s # {}
    <3> DEFINE x == Pick(s)
               t == s \ {x}
    <3>1. x \in s
      BY <2>2 DEF Pick
    <3>2. i[s] = f[x] + i[t]
      BY <1>2, <2>2 DEF Body
    <3> HIDE DEF x
    <3>3. t \in SUBSET D /\ Cardinality(t) < Cardinality(s)
      BY <1>3, <3>1, FS_RemoveElement
    <3>4. IsFiniteSet(U(t)) /\ i[t] = Cardinality(U(t))
      BY <1>4, <3>3
    <3>5. IsFiniteSet(g[x]) /\ f[x] = Cardinality(g[x])
      BY <3>1
    <3>6. U(s) = g[x] \cup U(t)
      BY <3>1
    <3>7. g[x] \cap U(t) = {}
      BY <3>1
    <3> HIDE DEF U, t
    <3>8. /\ IsFiniteSet(g[x] \cup U(t))
          /\ Cardinality(g[x] \cup U(t)) = Cardinality(g[x]) + Cardinality(U(t)) - Cardinality({})
      BY <3>4, <3>5, <3>7, FS_Union
    <3>9. Cardinality(U(s)) = f[x] + i[t]
      <4>1. Cardinality(g[x]) \in Nat /\ Cardinality(U(t)) \in Nat /\ Cardinality({}) = 0
        BY <3>4, <3>5, FS_CardinalityType, FS_EmptySet
      <4> QED
        BY <3>4, <3>5, <3>6, <3>8, <4>1
    <3> QED
      BY <3>2, <3>6, <3>8, <3>9
  <2> QED
    BY <2>1, <2>2
<1>5. Wrong = {}
  <2> SUFFICES ASSUME Wrong # {} PROVE FALSE
    OBVIOUS
  <2>1. Sizes \in SUBSET Nat /\ Sizes # {}
    <3>1. Wrong \in SUBSET SUBSET D
      OBVIOUS
    <3> HIDE DEF Wrong
    <3> QED
      BY <1>3, <3>1
  <2>2. PICK n \in Sizes : \A k \in Sizes : n <= k
    <3> HIDE DEF Sizes
    <3> QED
      BY <2>1, LeastExists
  <2>3. PICK s \in Wrong : n = Cardinality(s)
    OBVIOUS
  <2>4. s \in SUBSET D
    BY <2>3, Zenon
  <2>5. \A t \in Wrong : Cardinality(t) \in Sizes /\ Cardinality(t) \in Nat
    BY <1>3
  <2>6. ASSUME NEW t \in SUBSET D, Cardinality(t) < Cardinality(s) PROVE t \notin Wrong
    <3> HIDE DEF Sizes, Wrong
    <3>1. Cardinality(t) \in Nat /\ Cardinality(s) \in Nat
      BY <1>3, <2>4
    <3> QED
      BY <2>2, <2>3, <2>5, <2>6, <3>1
  <2> HIDE DEF Wrong
  <2> QED
    BY <1>4, <2>3, <2>4, <2>6
<1>6. D \in SUBSET D /\ D \notin Wrong
  BY <1>5
<1> QED
  BY <1>1, <1>6

-----------------------------------------------------------------------------
(* Lifetime sums, taken apart by block and by pool.                        *)

(* The units one block adds to the lifetime sum of P.                      *)
BlockUnits(c, k, P, m) == {k} \X Units(c[k], OwnOf(c[k], P), m)

LEMMA BlockUnitsFacts ==
  ASSUME NEW c, NEW k, NEW P, NEW m, c[k] \in Blocks
  PROVE  /\ IsFiniteSet(BlockUnits(c, k, P, m))
         /\ Cardinality(BlockUnits(c, k, P, m)) = Tally(c[k], OwnOf(c[k], P), m)
<1>1. IsFiniteSet(OwnOf(c[k], P)) /\ \A i \in OwnOf(c[k], P) : c[k][i] \in Log
  <2>1. OwnOf(c[k], P) \in SUBSET DOMAIN c[k]
    BY DEF OwnOf, Own
  <2> QED
    BY <2>1, BlockFacts
<1>2. IsFiniteSet(Units(c[k], OwnOf(c[k], P), m)) /\ Tally(c[k], OwnOf(c[k], P), m) \in Nat
  BY <1>1, UnitsFinite
<1>3. IsFiniteSet({k}) /\ Cardinality({k}) = 1
  BY FS_Singleton
<1>4. /\ IsFiniteSet(BlockUnits(c, k, P, m))
      /\ Cardinality(BlockUnits(c, k, P, m)) = 1 * Tally(c[k], OwnOf(c[k], P), m)
  BY <1>2, <1>3, FS_Product DEF Tally, BlockUnits
<1> QED
  BY <1>2, <1>4

(* Over the blocks: the sum of what each of them adds.                     *)
LEMMA LifetimeByBlock ==
  ASSUME NEW c, NEW n \in Nat, NEW P, NEW m, \A k \in 1 .. n : c[k] \in Blocks,
         NEW f, DOMAIN f = 1 .. n, \A k \in 1 .. n : f[k] = Tally(c[k], OwnOf(c[k], P), m)
  PROVE  Total(f) = Lifetime(c, n, P, m)
<1> DEFINE g == [k \in 1 .. n |-> BlockUnits(c, k, P, m)]
<1>1. DOMAIN g = DOMAIN f /\ IsFiniteSet(DOMAIN f)
  BY FS_Interval
<1>2. \A k \in DOMAIN f : IsFiniteSet(g[k]) /\ f[k] = Cardinality(g[k])
  BY BlockUnitsFacts
<1>3. \A j, k \in DOMAIN f : j # k => g[j] \cap g[k] = {}
  BY DEF BlockUnits
<1>4. UNION {g[k] : k \in DOMAIN f} = LifeUnits(c, n, P, m)
  BY DEF LifeUnits, BlockUnits
<1> HIDE DEF g
<1>5. Total(f) = Cardinality(UNION {g[k] : k \in DOMAIN f})
  BY <1>1, <1>2, <1>3, TotalCounts
<1> QED
  BY <1>4, <1>5 DEF Lifetime

LEMMA LifeUnitsFinite ==
  ASSUME NEW c, NEW n \in Nat, NEW P, NEW m, \A k \in 1 .. n : c[k] \in Blocks
  PROVE  IsFiniteSet(LifeUnits(c, n, P, m))
<1> DEFINE T == {BlockUnits(c, k, P, m) : k \in 1 .. n}
           f == [k \in 1 .. n |-> BlockUnits(c, k, P, m)]
<1>1. IsFiniteSet(1 .. n)
  BY FS_Interval
<1>2. f \in Surjection(1 .. n, T)
  BY DEF Surjection
<1>3. \A U \in T : IsFiniteSet(U)
  BY BlockUnitsFacts
<1>4. UNION T = LifeUnits(c, n, P, m)
  BY DEF LifeUnits, BlockUnits
<1> HIDE DEF f, T
<1>5. IsFiniteSet(T)
  BY <1>1, <1>2, FS_Surjection
<1> QED
  BY <1>3, <1>4, <1>5, FS_UNION

(* A unit names its block, its log and its place in the log's weight.      *)
LEMMA UnitNames ==
  ASSUME NEW c, NEW n, NEW P, NEW m, NEW e
  PROVE  e \in LifeUnits(c, n, P, m)
           <=> \E k \in 1 .. n : \E i \in Own(c[k]) : \E u \in 1 .. Weight(c[k][i], m) :
                 c[k][i].pool \in P /\ e = <<k, <<i, u>>>>
<1>1. ASSUME NEW k
      PROVE  e \in {k} \X Units(c[k], OwnOf(c[k], P), m)
               <=> \E i \in Own(c[k]) : \E u \in 1 .. Weight(c[k][i], m) :
                     c[k][i].pool \in P /\ e = <<k, <<i, u>>>>
  <2>1. \A x : x \in Units(c[k], OwnOf(c[k], P), m)
                <=> \E i \in Own(c[k]) : \E u \in 1 .. Weight(c[k][i], m) :
                      c[k][i].pool \in P /\ x = <<i, u>>
    BY DEF Units, OwnOf
  <2> QED
    BY <2>1
<1> QED
  BY <1>1 DEF LifeUnits

(* A lifetime for each of the pools of P that ever had a log.              *)
LifetimesOf(c, n, P, m, f) ==
  /\ IsFiniteSet(DOMAIN f) /\ DOMAIN f \subseteq P
  /\ \A k \in 1 .. n : \A i \in OwnOf(c[k], P) : c[k][i].pool \in DOMAIN f
  /\ \A p \in DOMAIN f : f[p] = Lifetime(c, n, {p}, m)

(* Over the pools: the sum of what the logs of each of them add.           *)
LEMMA LifetimeByPool ==
  ASSUME NEW c, NEW n \in Nat, NEW P, NEW m, \A k \in 1 .. n : c[k] \in Blocks,
         NEW f, LifetimesOf(c, n, P, m, f)
  PROVE  Total(f) = Lifetime(c, n, P, m)
<1> USE DEF LifetimesOf
<1> DEFINE Q == DOMAIN f
           g == [p \in Q |-> LifeUnits(c, n, {p}, m)]
<1>1. DOMAIN g = DOMAIN f /\ IsFiniteSet(DOMAIN f)
  OBVIOUS
<1>2. \A p \in DOMAIN f : IsFiniteSet(g[p]) /\ f[p] = Cardinality(g[p])
  BY LifeUnitsFinite DEF Lifetime
<1>3. \A p, q \in DOMAIN f : p # q => g[p] \cap g[q] = {}
  BY UnitNames
<1>4. UNION {g[p] : p \in DOMAIN f} = LifeUnits(c, n, P, m)
  <2>1. \A k \in 1 .. n : \A i \in Own(c[k]) : c[k][i].pool \in P <=> c[k][i].pool \in Q
    BY DEF OwnOf
  <2>2. ASSUME NEW e \in LifeUnits(c, n, P, m)
        PROVE  \E p \in Q : e \in LifeUnits(c, n, {p}, m)
    <3>1. PICK k \in 1 .. n :
            \E i \in Own(c[k]) : \E u \in 1 .. Weight(c[k][i], m) :
              c[k][i].pool \in P /\ e = <<k, <<i, u>>>>
      BY UnitNames
    <3>2. PICK i \in Own(c[k]) :
            c[k][i].pool \in P /\ \E u \in 1 .. Weight(c[k][i], m) : e = <<k, <<i, u>>>>
      BY <3>1
    <3>3. c[k][i].pool \in Q
      BY <2>1, <3>2
    <3>4. e \in LifeUnits(c, n, {c[k][i].pool}, m)
      BY <3>2, UnitNames
    <3> QED
      BY <3>3, <3>4
  <2>3. ASSUME NEW p \in Q, NEW e \in LifeUnits(c, n, {p}, m)
        PROVE  e \in LifeUnits(c, n, P, m)
    BY UnitNames
  <2> QED
    BY <2>2, <2>3
<1> HIDE DEF g
<1>5. Total(f) = Cardinality(UNION {g[p] : p \in DOMAIN f})
  BY <1>1, <1>2, <1>3, TotalCounts
<1> QED
  BY <1>4, <1>5 DEF Lifetime

-----------------------------------------------------------------------------
(* Every block was a legal continuation of those before it, so no pool has *)
(* two Initialize logs.                                                    *)

History == \A n \in 1 .. Len(chain) : Legal(chain[n], SubSeq(chain, 1, n - 1))

LEMMA InitHistory == Init => History
BY DEF Init, History

LEMMA NextHistory == IInv /\ History /\ [Next]_vars => History'
<1> SUFFICES ASSUME IInv, History, [Next]_vars PROVE History'
  OBVIOUS
<1>1. chain \in Seq(Blocks) /\ Len(chain) \in Nat
  BY DEF IInv, TypeOK
<1>2. CASE \E b \in Blocks : NewBlock(b)
  <2>1. PICK b \in Blocks : Legal(b, chain) /\ chain' = Append(chain, b)
    BY <1>2 DEF NewBlock
  <2>2. SubSeq(chain', 1, Len(chain)) = chain
    BY <1>1, <2>1
  <2>3. Len(chain') = Len(chain) + 1 /\ chain'[Len(chain) + 1] = b
    BY <1>1, <2>1
  <2>4. ASSUME NEW n \in 1 .. Len(chain)
        PROVE  chain'[n] = chain[n] /\ SubSeq(chain', 1, n - 1) = SubSeq(chain, 1, n - 1)
    BY <1>1, <2>1
  <2>5. ASSUME NEW n \in 1 .. Len(chain')
        PROVE  Legal(chain'[n], SubSeq(chain', 1, n - 1))
    <3>1. CASE n = Len(chain) + 1
      <4>1. n - 1 = Len(chain)
        BY <1>1, <3>1
      <4>2. chain'[n] = b /\ SubSeq(chain', 1, n - 1) = chain
        BY <2>2, <2>3, <3>1, <4>1
      <4> QED
        BY <2>1, <4>2, Zenon
    <3>2. CASE n # Len(chain) + 1
      <4>1. n \in 1 .. Len(chain)
        BY <1>1, <2>3, <3>2
      <4> QED
        BY <2>4, <4>1 DEF History
    <3> QED
      BY <3>1, <3>2
  <2> QED
    BY <2>5 DEF History
<1>3. CASE Undo
  <2> DEFINE k == Len(chain) - 1
  <2>1. chain # <<>> /\ chain' = SubSeq(chain, 1, k)
    BY <1>3 DEF Undo
  <2>2. k \in 0 .. Len(chain)
    BY <1>1, <2>1
  <2> HIDE DEF k
  <2>3. Len(chain') = k
    BY <1>1, <2>1, <2>2
  <2>4. ASSUME NEW n \in 1 .. k
        PROVE  chain'[n] = chain[n] /\ SubSeq(chain', 1, n - 1) = SubSeq(chain, 1, n - 1)
    BY <1>1, <2>1, <2>2
  <2>5. \A n \in 1 .. k : n \in 1 .. Len(chain)
    BY <1>1, <2>2
  <2> QED
    BY <2>3, <2>4, <2>5 DEF History
<1>4. CASE RunModule \/ Crash \/ UNCHANGED vars
  <2>1. chain' = chain
    BY <1>4 DEF RunModule, MapEvents, StorePools, StorePoolTotals, MapEnriched, StoreHookTotals,
                MapTotals, DbOut, Crash, vars
  <2> QED
    BY <2>1 DEF History
<1> QED
  BY <1>2, <1>3, <1>4 DEF Next

(* A pool the stream initialises is not legacy and has one Initialize.     *)
LEMMA InitialisedOnce ==
  ASSUME TypeOK, History, NEW n \in 0 .. Len(chain),
         NEW j \in 1 .. n, NEW k \in 1 .. n,
         NEW a \in OfKind(chain[j], {"Initialize"}), NEW b \in OfKind(chain[k], {"Initialize"}),
         chain[j][a].pool = chain[k][b].pool
  PROVE  j = k /\ a = b
<1>1. chain \in Seq(Blocks) /\ Len(chain) \in Nat
  BY DEF TypeOK
<1>2. ASSUME NEW x \in 1 .. n, NEW y \in 1 .. n, x < y,
             NEW e \in OfKind(chain[x], {"Initialize"}), NEW f \in OfKind(chain[y], {"Initialize"})
      PROVE  chain[x][e].pool # chain[y][f].pool
  <2> DEFINE c == SubSeq(chain, 1, y - 1)
  <2>1. Len(c) = y - 1 /\ x \in 1 .. Len(c) /\ c[x] = chain[x]
    BY <1>1, <1>2
  <2>2. Legal(chain[y], c)
    BY DEF History
  <2> HIDE DEF c
  <2>3. chain[x][e].pool \in Initialised(c, Len(c))
    BY <2>1 DEF Initialised, InitsIn, PoolsIn
  <2>4. f \in Own(chain[y]) /\ chain[y][f].kind = "Initialize"
    BY DEF OfKind
  <2> QED
    BY <2>2, <2>3, <2>4 DEF Legal
<1>3. ASSUME NEW x \in 1 .. n,
             NEW e \in OfKind(chain[x], {"Initialize"}), NEW f \in OfKind(chain[x], {"Initialize"}),
             e < f
      PROVE  chain[x][e].pool # chain[x][f].pool
  <2>1. Legal(chain[x], SubSeq(chain, 1, x - 1))
    BY DEF History
  <2>2. f \in Own(chain[x]) /\ chain[x][f].kind = "Initialize"
    BY DEF OfKind
  <2> QED
    BY <1>3, <2>1, <2>2 DEF Legal
<1>4. j \in Nat /\ k \in Nat
  OBVIOUS
<1>5. a \in Int /\ b \in Int
  <2>1. chain[j] \in Blocks /\ chain[k] \in Blocks
    BY <1>1
  <2>2. \A x \in Blocks : DOMAIN x \subseteq Int
    BY BoundsAssumption DEF Blocks
  <2> QED
    BY <2>1, <2>2 DEF OfKind, Own
<1>6. ~(j < k) /\ ~(k < j)
  BY <1>2
<1>7. j = k
  BY <1>4, <1>6
<1>8. ~(a < b) /\ ~(b < a)
  BY <1>3, <1>7
<1> QED
  BY <1>5, <1>7, <1>8

(* So a set of them adds up to as many Initialize logs as it has pools.    *)
LEMMA InitialisedCounts ==
  ASSUME IInv, History, NEW n \in 0 .. Len(chain), NEW P, NEW Q,
         Q = {p \in Initialised(chain, n) : p \in P}
  PROVE  IsFiniteSet(Q) /\ Lifetime(chain, n, P, "pools") = Cardinality(Q)
<1> DEFINE U == LifeUnits(chain, n, P, "pools")
           pool == [e \in U |-> chain[e[1]][e[2][1]].pool]
<1>1. chain \in Seq(Blocks) /\ Len(chain) \in Nat /\ n \in Nat /\ TypeOK
  BY DEF IInv, TypeOK
<1>2. \A k \in 1 .. n : chain[k] \in Blocks
  BY <1>1
<1>3. IsFiniteSet(U)
  BY <1>1, <1>2, LifeUnitsFinite
<1>4. ASSUME NEW k \in 1 .. n, NEW i \in Own(chain[k])
      PROVE  /\ i \in OfKind(chain[k], {"Initialize"}) => Weight(chain[k][i], "pools") = 1
             /\ i \notin OfKind(chain[k], {"Initialize"}) => Weight(chain[k][i], "pools") = 0
  BY DEF Weight, OfKind
<1>5. ASSUME NEW e \in U
      PROVE  \E k \in 1 .. n : \E i \in OfKind(chain[k], {"Initialize"}) :
               chain[k][i].pool \in P /\ e = <<k, <<i, 1>>>>
  <2>1. PICK k \in 1 .. n :
          \E i \in Own(chain[k]) : \E u \in 1 .. Weight(chain[k][i], "pools") :
            chain[k][i].pool \in P /\ e = <<k, <<i, u>>>>
    BY UnitNames
  <2>2. PICK i \in Own(chain[k]) :
          \E u \in 1 .. Weight(chain[k][i], "pools") :
            chain[k][i].pool \in P /\ e = <<k, <<i, u>>>>
    BY <2>1
  <2>3. PICK u \in 1 .. Weight(chain[k][i], "pools") :
          chain[k][i].pool \in P /\ e = <<k, <<i, u>>>>
    BY <2>2
  <2>4. i \in OfKind(chain[k], {"Initialize"}) /\ u = 1
    BY <1>4, <2>3
  <2> QED
    BY <2>3, <2>4
<1>6. ASSUME NEW k \in 1 .. n, NEW i \in OfKind(chain[k], {"Initialize"}), chain[k][i].pool \in P
      PROVE  <<k, <<i, 1>>>> \in U
  <2>1. i \in Own(chain[k]) /\ 1 \in 1 .. Weight(chain[k][i], "pools")
    BY <1>4 DEF OfKind
  <2> QED
    BY <1>6, <2>1, UnitNames
<1>7. ASSUME NEW q
      PROVE  q \in Q <=> \E k \in 1 .. n : \E i \in OfKind(chain[k], {"Initialize"}) :
                           chain[k][i].pool \in P /\ q = chain[k][i].pool
  BY DEF Initialised, InitsIn, PoolsIn
<1> HIDE DEF U
<1>8. pool \in Surjection(U, Q)
  <2>1. ASSUME NEW e \in U PROVE pool[e] \in Q
    BY <1>5, <1>7
  <2>2. ASSUME NEW q \in Q PROVE \E e \in U : pool[e] = q
    <3>1. PICK k \in 1 .. n : \E i \in OfKind(chain[k], {"Initialize"}) :
                                chain[k][i].pool \in P /\ q = chain[k][i].pool
      BY <1>7
    <3>2. PICK i \in OfKind(chain[k], {"Initialize"}) :
            chain[k][i].pool \in P /\ q = chain[k][i].pool
      BY <3>1
    <3>3. <<k, <<i, 1>>>> \in U
      BY <1>6, <3>2
    <3> QED
      BY <3>2, <3>3
  <2> QED
    BY <2>1, <2>2 DEF Surjection
<1>9. pool \in Injection(U, Q)
  <2>1. ASSUME NEW d \in U, NEW e \in U, pool[d] = pool[e]
        PROVE  d = e
    <3>1. PICK j \in 1 .. n : \E a \in OfKind(chain[j], {"Initialize"}) : d = <<j, <<a, 1>>>>
      BY <1>5
    <3>2. PICK a \in OfKind(chain[j], {"Initialize"}) : d = <<j, <<a, 1>>>>
      BY <3>1
    <3>3. PICK k \in 1 .. n : \E b \in OfKind(chain[k], {"Initialize"}) : e = <<k, <<b, 1>>>>
      BY <1>5
    <3>4. PICK b \in OfKind(chain[k], {"Initialize"}) : e = <<k, <<b, 1>>>>
      BY <3>3
    <3>5. chain[j][a].pool = chain[k][b].pool
      BY <2>1, <3>2, <3>4
    <3> QED
      BY <1>1, <3>2, <3>4, <3>5, InitialisedOnce
  <2>2. pool \in [U -> Q] /\ \A d, e \in U : pool[d] = pool[e] => d = e
    BY <1>8, <2>1 DEF Surjection
  <2> HIDE DEF pool
  <2> QED
    BY <2>2, Zenon DEF Injection, IsInjective
<1> HIDE DEF pool
<1> QED
  BY <1>3, <1>8, <1>9, FS_Surjection DEF Lifetime, U

(* A finished block leaves a hook's sums covered by the pools known under  *)
(* it: no log of another pool can count towards them.                      *)
LEMMA CoveredByPools == IInv /\ History => HooksCoverTheirPools
<1> SUFFICES ASSUME IInv, History, ~InFlight, NEW h \in Hooks
             PROVE  LET under == {p \in DOMAIN store_pools : store_pools[p].hook = h}
                    IN  /\ \A m \in PoolMetrics :
                             Get(store_hook_totals, <<h, m>>)
                               = Total([p \in under |-> Get(store_pool_totals, <<p, m>>)])
                        /\ Get(store_hook_totals, <<h, "pools">>) = Cardinality(under)
  BY DEF HooksCoverTheirPools
<1> DEFINE n == Len(chain)
           under == {p \in DOMAIN store_pools : store_pools[p].hook = h}
<1>1. /\ chain \in Seq(Blocks) /\ n \in Nat /\ n \in 0 .. n /\ TypeOK /\ ChainSound
      /\ Len(ledger) = n
  BY SequenceFacts DEF IInv, TypeOK, InFlight
<1>2. \A m \in Modules : Height(m) = n
  BY <1>1 DEF Height
<1>3. PoolsExact(Snapshot, n) /\ PoolTotalsExact(Snapshot, n) /\ HookTotalsExact(Snapshot, n)
  BY <1>2 DEF IInv, StoresExact, Modules
<1>4. store_pools = [p \in Initialised(chain, n) |-> KeyOf[p]]
  BY <1>3 DEF PoolsExact, Snapshot
<1>5. Initialised(chain, n) \subseteq Pools \ Legacy
  BY <1>1, InitialisedPools
<1>6. under = {p \in Initialised(chain, n) : p \in PoolsOf(h)}
  BY <1>4, <1>5 DEF PoolsOf
<1>7. under \subseteq Pools /\ under \subseteq PoolsOf(h)
  BY <1>5, <1>6
<1> HIDE DEF under, n
<1>8. IsFiniteSet(under) /\ Lifetime(chain, n, PoolsOf(h), "pools") = Cardinality(under)
  BY <1>1, <1>6, InitialisedCounts DEF n
<1>9. Get(store_hook_totals, <<h, "pools">>) = Cardinality(under)
  BY <1>3, <1>8 DEF HookTotalsExact, Snapshot, Metrics
<1>10. ASSUME NEW m \in PoolMetrics
       PROVE  Get(store_hook_totals, <<h, m>>)
                = Total([p \in under |-> Get(store_pool_totals, <<p, m>>)])
  <2> DEFINE f == [p \in under |-> Get(store_pool_totals, <<p, m>>)]
  <2>1. \A p \in under : f[p] = Lifetime(chain, n, {p}, m)
    BY <1>3, <1>7 DEF PoolTotalsExact, Snapshot
  <2>2. \A k \in 1 .. n : chain[k] \in Blocks
    BY <1>1 DEF n
  <2>3. ASSUME NEW k \in 1 .. n, NEW i \in OwnOf(chain[k], PoolsOf(h))
        PROVE  chain[k][i].pool \in under
    <3>1. chain[k][i].pool \in Legacy \cup Initialised(chain, k)
      BY <1>1 DEF ChainSound, OwnOf, n
    <3>2. Initialised(chain, k) \subseteq Initialised(chain, n)
      BY <1>1 DEF Initialised
    <3>3. chain[k][i].pool \in PoolsOf(h)
      BY DEF OwnOf
    <3> QED
      BY <1>6, <3>1, <3>2, <3>3 DEF PoolsOf
  <2>4. /\ IsFiniteSet(DOMAIN f) /\ DOMAIN f \subseteq PoolsOf(h)
        /\ \A p \in DOMAIN f : f[p] = Lifetime(chain, n, {p}, m)
        /\ \A k \in 1 .. n : \A i \in OwnOf(chain[k], PoolsOf(h)) : chain[k][i].pool \in DOMAIN f
    <3>1. DOMAIN f = under
      OBVIOUS
    <3> HIDE DEF f
    <3> QED
      BY <1>7, <1>8, <2>1, <2>3, <3>1
  <2> HIDE DEF f
  <2>5. Total(f) = Lifetime(chain, n, PoolsOf(h), m)
    <3>1. n \in Nat
      BY <1>1
    <3>2. LifetimesOf(chain, n, PoolsOf(h), m, f)
      BY <2>4 DEF LifetimesOf
    <3> QED
      BY <2>2, <3>1, <3>2, LifetimeByPool
  <2>6. Get(store_hook_totals, <<h, m>>) = Lifetime(chain, n, PoolsOf(h), m)
    BY <1>3 DEF HookTotalsExact, Snapshot, Metrics
  <2> QED
    BY <2>5, <2>6 DEF f
<1> QED
  BY <1>9, <1>10, Zenon DEF under

(* Whenever a block is finished, whatever crashed or was undone before, a  *)
(* hook's totals (stats_store.rs, hook_deltas) are the sums of the totals  *)
(* of the pools store_pools has under it, and their number is its count.   *)
THEOREM HooksCovered == Spec => []HooksCoverTheirPools
<1>1. Init => History
  BY InitHistory
<1>2. IInv /\ History /\ [Next]_vars => History'
  BY NextHistory
<1>3. IInv /\ History => HooksCoverTheirPools
  BY CoveredByPools
<1> QED
  BY <1>1, <1>2, <1>3, Invariance, PTL DEF Spec

-----------------------------------------------------------------------------
(* Running sums.  What was emitted for a block is what the ledger computes *)
(* for it, so both tables are sums over the same logs of the chain.        *)

(* What was emitted for the nth block of c tells the sums over its logs.   *)
TellsStats(out, b) ==
  /\ \A p \in Pools, m \in PoolMetrics :
       StatsOf(out.pool_stats, p, m) = Tally(b, OwnOf(b, {p}), m)
  /\ \A h \in Hooks, m \in {"swaps", "vol0", "vol1"} :
       StatsOf(out.hook_stats, h, m) = Tally(b, OwnOf(b, PoolsOf(h)), m)

TellsTotals(out, c, n) ==
  /\ \A p \in DOMAIN out.pool_totals :
       /\ p \in Pools
       /\ \A m \in PoolMetrics : out.pool_totals[p].count[m] = Lifetime(c, n, {p}, m)
  /\ \A h \in DOMAIN out.hook_totals :
       /\ h \in Hooks
       /\ \A m \in Metrics : out.hook_totals[h][m] = Lifetime(c, n, PoolsOf(h), m)

SumsInv ==
  \A n \in 1 .. Len(ledger) : TellsStats(ledger[n], chain[n]) /\ TellsTotals(ledger[n], chain, n)

(* The logs of pools without a swap or liquidity row weigh nothing in a    *)
(* statistic, so a pool or hook with no row in it has the sum zero.        *)
LEMMA QuietTally ==
  ASSUME NEW b \in Blocks, NEW P, NEW m \in PoolMetrics, L!Active(b) \cap P = {}
  PROVE  Tally(b, OwnOf(b, P), m) = 0
<1>1. \A i \in OwnOf(b, P) : b[i].kind \notin {"Swap", "ModifyLiquidity"}
  BY LedgerSets DEF L!Active, OwnOf, PoolsIn, OfKind
<1>2. \A i \in OwnOf(b, P) \ {} : Weight(b[i], m) = 0
  BY <1>1 DEF Weight, PoolMetrics
<1>3. Tally(b, {}, m) = Tally(b, OwnOf(b, P), m)
  BY <1>2, UnitsIgnoreZero
<1>4. Units(b, {}, m) = {}
  BY DEF Units
<1> QED
  BY <1>3, <1>4, FS_EmptySet DEF Tally

LEMMA ActivePools == ASSUME NEW b \in Blocks PROVE L!Touched(b) \subseteq Pools
<1>1. L!Touched(b) = PoolsIn(b, OfKind(b, {"Swap", "ModifyLiquidity"}))
                       \cup PoolsIn(b, OfKind(b, {"Initialize"}))
  BY LedgerSets DEF L!Touched, L!Active, InitsIn
<1>2. \A i \in DOMAIN b : b[i].pool \in Pools
  BY BlockFacts DEF Log
<1> QED
  BY <1>1, <1>2 DEF PoolsIn, OfKind, Own

(* The ledger's own statistics tell the sums.                              *)
LEMMA StatsTold ==
  ASSUME NEW c, NEW n, c[n] \in Blocks
  PROVE  TellsStats(L!Output(c, n), c[n])
<1> DEFINE b == c[n]
<1>1. /\ L!Output(c, n).pool_stats = L!PoolStatsOf(b)
      /\ L!Output(c, n).hook_stats = L!HookStatsOf(b)
  BY DEF L!Output
<1> HIDE DEF b
<1>2. b \in Blocks
  BY DEF b
<1>3. ASSUME NEW p \in Pools, NEW m \in PoolMetrics
      PROVE  StatsOf(L!PoolStatsOf(b), p, m) = Tally(b, OwnOf(b, {p}), m)
  <2>1. CASE p \in L!Active(b)
    <3>1. m \in L!PoolMetrics /\ L!Tally(b, L!OwnOf(b, {p}), m) = Tally(b, OwnOf(b, {p}), m)
      BY LedgerSets, LedgerSums
    <3> QED
      BY <2>1, <3>1 DEF StatsOf, L!PoolStatsOf
  <2>2. CASE p \notin L!Active(b)
    <3>1. Tally(b, OwnOf(b, {p}), m) = 0
      BY <1>2, <2>2, QuietTally
    <3>2. p \notin DOMAIN L!PoolStatsOf(b)
      BY <2>2 DEF L!PoolStatsOf
    <3> QED
      BY <3>1, <3>2 DEF StatsOf
  <2> QED
    BY <2>1, <2>2
<1>4. ASSUME NEW h \in Hooks, NEW m \in {"swaps", "vol0", "vol1"}
      PROVE  StatsOf(L!HookStatsOf(b), h, m) = Tally(b, OwnOf(b, PoolsOf(h)), m)
  <2>1. CASE h \in L!HooksOf(L!Active(b))
    <3>1. L!Tally(b, L!OwnOf(b, L!PoolsOf(h)), m) = Tally(b, OwnOf(b, PoolsOf(h)), m)
      BY LedgerSets, LedgerSums
    <3> QED
      BY <2>1, <3>1 DEF StatsOf, L!HookStatsOf
  <2>2. CASE h \notin L!HooksOf(L!Active(b))
    <3>1. h # NoHook
      BY PoolLogsAssumption
    <3>2. L!Active(b) \cap PoolsOf(h) = {}
      BY <2>2, <3>1 DEF L!HooksOf, PoolsOf
    <3>3. Tally(b, OwnOf(b, PoolsOf(h)), m) = 0
      BY <1>2, <3>2, QuietTally DEF PoolMetrics
    <3>4. h \notin DOMAIN L!HookStatsOf(b)
      BY <2>2 DEF L!HookStatsOf
    <3> QED
      BY <3>3, <3>4 DEF StatsOf
  <2> QED
    BY <2>1, <2>2
<1> QED
  BY <1>1, <1>3, <1>4 DEF TellsStats, b

(* ... and so do its totals.                                               *)
LEMMA TotalsTold ==
  ASSUME NEW c, NEW n, c[n] \in Blocks
  PROVE  TellsTotals(L!Output(c, n), c, n)
<1>1. /\ L!Output(c, n).pool_totals = L!PoolTotalsOf(c, n)
      /\ L!Output(c, n).hook_totals = L!HookTotalsOf(c, n)
  BY DEF L!Output
<1>2. L!Touched(c[n]) \subseteq Pools
  BY ActivePools
<1>3. ASSUME NEW p \in DOMAIN L!PoolTotalsOf(c, n)
      PROVE  p \in Pools
  BY <1>2 DEF L!PoolTotalsOf
<1>4. ASSUME NEW p \in DOMAIN L!PoolTotalsOf(c, n), NEW m \in PoolMetrics
      PROVE  L!PoolTotalsOf(c, n)[p].count[m] = Lifetime(c, n, {p}, m)
  <2>1. L!Lifetime(c, n, {p}, m) = Lifetime(c, n, {p}, m) /\ m \in L!PoolMetrics
    BY LedgerSums, LedgerSets
  <2> QED
    BY <2>1 DEF L!PoolTotalsOf
<1>5. ASSUME NEW h \in DOMAIN L!HookTotalsOf(c, n)
      PROVE  h \in Hooks
  BY <1>2, PoolLogsAssumption DEF L!HookTotalsOf, L!HooksOf, PoolKey
<1>6. ASSUME NEW h \in DOMAIN L!HookTotalsOf(c, n), NEW m \in Metrics
      PROVE  L!HookTotalsOf(c, n)[h][m] = Lifetime(c, n, PoolsOf(h), m)
  <2>1. L!Lifetime(c, n, L!PoolsOf(h), m) = Lifetime(c, n, PoolsOf(h), m) /\ m \in L!Metrics
    BY LedgerSums, LedgerSets
  <2> QED
    BY <2>1 DEF L!HookTotalsOf
<1> QED
  BY <1>1, <1>3, <1>4, <1>5, <1>6, Zenon DEF TellsTotals

(* A ledger no longer than before over a chain that begins as before.      *)
LEMMA TotalsPrefix ==
  ASSUME NEW out, NEW c, NEW d, NEW n \in Nat, \A k \in 1 .. n : c[k] = d[k],
         TellsTotals(out, c, n)
  PROVE  TellsTotals(out, d, n)
<1>1. \A P, m : Lifetime(c, n, P, m) = Lifetime(d, n, P, m)
  BY PrefixAgrees
<1> QED
  BY <1>1 DEF TellsTotals

LEMMA SumsKept ==
  ASSUME SumsInv, NEW n \in Nat, n <= Len(ledger), Len(ledger') = n,
         \A k \in 1 .. n : ledger'[k] = ledger[k] /\ chain'[k] = chain[k],
         Len(ledger) \in Nat
  PROVE  SumsInv'
<1> SUFFICES ASSUME NEW k \in 1 .. n
             PROVE  TellsStats(ledger'[k], chain'[k]) /\ TellsTotals(ledger'[k], chain', k)
  BY DEF SumsInv, TellsStats, TellsTotals
<1>1. k \in 1 .. Len(ledger) /\ k \in Nat /\ \A j \in 1 .. k : chain[j] = chain'[j]
  OBVIOUS
<1>2. TellsStats(ledger[k], chain[k]) /\ TellsTotals(ledger[k], chain, k)
  BY <1>1 DEF SumsInv
<1>3. TellsTotals(ledger[k], chain', k)
  BY <1>1, <1>2, TotalsPrefix
<1> QED
  BY <1>2, <1>3

LEMMA InitSums == Init => SumsInv
BY DEF Init, SumsInv

LEMMA DbOutSums == ASSUME IInv, EmitInv, SumsInv, DbOut PROVE SumsInv'
<1>1. /\ InFlight /\ "map_totals" \in done
      /\ ledger' = Append(ledger, totals) /\ chain' = chain
  BY DEF DbOut, Run, Inputs
<1>2. /\ IsSequence(ledger) /\ Len(ledger) \in Nat /\ Len(chain) = Len(ledger) + 1
      /\ chain[Len(chain)] \in Blocks
  BY <1>1, FlightFacts DEF IInv, TypeOK, block
<1>3. /\ Len(ledger') = Len(ledger) + 1 /\ ledger'[Len(ledger) + 1] = totals
      /\ \A n \in 1 .. Len(ledger) : ledger'[n] = ledger[n]
  BY <1>1, <1>2, SequenceFacts
<1>4. totals = L!Output(chain, Len(chain))
  BY <1>1 DEF EmitInv, TotalsExact
<1>5. TellsStats(totals, chain[Len(chain)]) /\ TellsTotals(totals, chain, Len(chain))
  BY <1>2, <1>4, StatsTold, TotalsTold
<1>6. ASSUME NEW n \in 1 .. Len(ledger')
      PROVE  TellsStats(ledger'[n], chain[n]) /\ TellsTotals(ledger'[n], chain, n)
  <2>1. CASE n = Len(chain)
    BY <1>2, <1>3, <1>5, <2>1
  <2>2. CASE n # Len(chain)
    <3>1. n \in 1 .. Len(ledger)
      BY <1>2, <1>3, <2>2
    <3> QED
      BY <1>3, <3>1 DEF SumsInv
  <2> QED
    BY <2>1, <2>2
<1>7. ASSUME NEW n \in 1 .. Len(ledger')
      PROVE  TellsStats(ledger'[n], chain'[n]) /\ TellsTotals(ledger'[n], chain', n)
  BY <1>1, <1>6
<1> QED
  BY <1>7 DEF SumsInv, TellsStats, TellsTotals

LEMMA NextSums == IInv /\ EmitInv /\ SumsInv /\ [Next]_vars => SumsInv'
<1> SUFFICES ASSUME IInv, EmitInv, SumsInv, [Next]_vars PROVE SumsInv'
  OBVIOUS
<1>1. /\ chain \in Seq(Blocks) /\ Len(chain) \in Nat /\ Len(ledger) \in Nat
      /\ IsSequence(ledger) /\ Len(chain) \in {Len(ledger), Len(ledger) + 1}
  BY EmittedFacts
<1>2. CASE \E b \in Blocks : NewBlock(b)
  <2>1. PICK b \in Blocks : NewBlock(b)
    BY <1>2
  <2>2. ledger' = ledger /\ chain' = Append(chain, b)
    BY <2>1 DEF NewBlock
  <2>3. \A k \in 1 .. Len(ledger) : chain'[k] = chain[k]
    BY <1>1, <2>2
  <2> QED
    BY <1>1, <2>2, <2>3, SumsKept
<1>3. CASE Undo
  <2> DEFINE n == Len(chain) - 1
  <2>1. chain # <<>> /\ chain' = SubSeq(chain, 1, n) /\ ledger' = SubSeq(ledger, 1, n)
    BY <1>3 DEF Undo
  <2>2. n \in 0 .. Len(ledger) /\ n \in 0 .. Len(chain)
    BY <1>1, <2>1
  <2> HIDE DEF n
  <2>3. /\ Len(ledger') = n /\ \A k \in 1 .. n : ledger'[k] = ledger[k]
    BY <1>1, <2>1, <2>2, SequenceFacts
  <2>4. \A k \in 1 .. n : chain'[k] = chain[k]
    BY <1>1, <2>1, <2>2
  <2>5. n \in Nat /\ n <= Len(ledger)
    BY <1>1, <2>2
  <2> QED
    BY <1>1, <2>3, <2>4, <2>5, SumsKept
<1>4. CASE DbOut
  BY <1>4, DbOutSums
<1>5. CASE MapEvents \/ StorePools \/ StorePoolTotals \/ MapEnriched \/ StoreHookTotals
           \/ MapTotals \/ Crash \/ UNCHANGED vars
  <2>1. UNCHANGED <<chain, ledger>>
    BY <1>5 DEF MapEvents, StorePools, StorePoolTotals, MapEnriched, StoreHookTotals, MapTotals,
                Crash, vars
  <2> QED
    BY <1>1, <2>1, SumsKept
<1> QED
  BY <1>2, <1>3, <1>4, <1>5 DEF Next, RunModule

(* The rows of an emitted block name the sums of the statistics so far.    *)
LEMMA SumsAreRunning == IInv /\ SumsInv => TotalsAreRunningSums
<1> SUFFICES ASSUME IInv, SumsInv, NEW n \in 1 .. Len(ledger)
             PROVE  /\ \A p \in DOMAIN ledger[n].pool_totals, m \in PoolMetrics :
                         ledger[n].pool_totals[p].count[m]
                           = Total([k \in 1 .. n |-> StatsOf(ledger[k].pool_stats, p, m)])
                    /\ \A h \in DOMAIN ledger[n].hook_totals, m \in {"swaps", "vol0", "vol1"} :
                         ledger[n].hook_totals[h][m]
                           = Total([k \in 1 .. n |-> StatsOf(ledger[k].hook_stats, h, m)])
  BY DEF TotalsAreRunningSums
<1>1. /\ chain \in Seq(Blocks) /\ Len(chain) \in Nat /\ Len(ledger) \in Nat
      /\ Len(chain) \in {Len(ledger), Len(ledger) + 1}
  BY EmittedFacts
<1>2. n \in Nat /\ \A k \in 1 .. n : k \in 1 .. Len(ledger) /\ chain[k] \in Blocks
  BY <1>1
<1>3. TellsTotals(ledger[n], chain, n) /\ \A k \in 1 .. n : TellsStats(ledger[k], chain[k])
  BY <1>2 DEF SumsInv
<1>4. ASSUME NEW p \in DOMAIN ledger[n].pool_totals, NEW m \in PoolMetrics
      PROVE  ledger[n].pool_totals[p].count[m]
               = Total([k \in 1 .. n |-> StatsOf(ledger[k].pool_stats, p, m)])
  <2> DEFINE f == [k \in 1 .. n |-> StatsOf(ledger[k].pool_stats, p, m)]
  <2>1. p \in Pools /\ ledger[n].pool_totals[p].count[m] = Lifetime(chain, n, {p}, m)
    BY <1>3 DEF TellsTotals
  <2>2. DOMAIN f = 1 .. n /\ \A k \in 1 .. n : f[k] = Tally(chain[k], OwnOf(chain[k], {p}), m)
    BY <1>3, <2>1 DEF TellsStats
  <2> HIDE DEF f
  <2>3. Total(f) = Lifetime(chain, n, {p}, m)
    BY <1>2, <2>2, LifetimeByBlock
  <2> QED
    BY <2>1, <2>3 DEF f
<1>5. ASSUME NEW h \in DOMAIN ledger[n].hook_totals, NEW m \in {"swaps", "vol0", "vol1"}
      PROVE  ledger[n].hook_totals[h][m]
               = Total([k \in 1 .. n |-> StatsOf(ledger[k].hook_stats, h, m)])
  <2> DEFINE f == [k \in 1 .. n |-> StatsOf(ledger[k].hook_stats, h, m)]
             P == PoolsOf(h)
  <2>1. h \in Hooks /\ ledger[n].hook_totals[h][m] = Lifetime(chain, n, P, m)
    BY <1>3 DEF TellsTotals, Metrics, PoolMetrics
  <2>2. DOMAIN f = 1 .. n /\ \A k \in 1 .. n : f[k] = Tally(chain[k], OwnOf(chain[k], P), m)
    BY <1>3, <2>1 DEF TellsStats
  <2> HIDE DEF f, P
  <2>3. Total(f) = Lifetime(chain, n, P, m)
    BY <1>2, <2>2, LifetimeByBlock
  <2> QED
    BY <2>1, <2>3 DEF f
<1> QED
  BY <1>4, <1>5

(* The lifetime columns of pool_totals and hook_totals are the running     *)
(* sums of the block columns of pool_stats and hook_stats (stats_store.rs, *)
(* test abs_matches_enrich_convention), for any blocks, crashes and        *)
(* reorgs: the two paths through the package never drift apart.            *)
THEOREM TotalsAreSums == Spec => []TotalsAreRunningSums
<1>1. Init => EmitInv /\ SumsInv
  BY InitEmit, InitSums
<1>2. IInv /\ EmitInv /\ SumsInv /\ [Next]_vars => EmitInv' /\ SumsInv'
  BY NextEmit, NextSums
<1>3. IInv /\ SumsInv => TotalsAreRunningSums
  BY SumsAreRunning
<1> QED
  BY <1>1, <1>2, <1>3, Invariance, PTL DEF Spec
=============================================================================
