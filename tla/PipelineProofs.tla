--------------------------- MODULE PipelineProofs ---------------------------
(***************************************************************************)
(* Proofs about what the stores of the pipeline hold and what it emits,    *)
(* for every set of pools and hooks, every alphabet of logs and every      *)
(* bound: the stores are exact, no row carries a wrong identity, and no    *)
(* key holds only zero.                                                    *)
(***************************************************************************)
EXTENDS PipelineProperties, FiniteSetTheorems, TLAPS

-----------------------------------------------------------------------------
(* The inductive invariant.                                                *)

(* No pool is initialised twice or used before: what a row can resolve to  *)
(* does not depend on where in its block the Initialize is.                *)
ChainSound ==
  \A n \in 1 .. Len(chain) :
    /\ InitsIn(chain[n]) \cap Legacy = {}
    /\ \A i \in Own(chain[n]) : chain[n][i].pool \in Legacy \cup Initialised(chain, n)

(* The number of blocks a store contains: the one in flight counts from    *)
(* the moment the store module has run on it.                              *)
Height(m) == IF m \in done THEN Len(chain) ELSE Len(ledger)

StoresExact ==
  /\ PoolsExact(Snapshot, Height("store_pools"))
  /\ PoolTotalsExact(Snapshot, Height("store_pool_totals"))
  /\ HookTotalsExact(Snapshot, Height("store_hook_totals"))

OutputsExact ==
  InFlight =>
    /\ \A m \in done : Inputs[m] \subseteq done
    /\ "map_events" \in done => events = Decode(block)
    /\ "map_enriched" \in done => enriched.rows = L!RowsOf(block)

IInv ==
  /\ TypeOK
  /\ ChainSound
  /\ SnapshotsExact
  /\ StoresExact
  /\ OutputsExact

-----------------------------------------------------------------------------
(* Sums.                                                                   *)

LEMMA WeightNat ==
  ASSUME NEW l \in Log, NEW m
  PROVE  Weight(l, m) \in Nat
BY DEF Weight, Log, Abs

(* A finite set of rows has finitely many units.                           *)
LEMMA UnitsFinite ==
  ASSUME NEW b, NEW I, NEW m, IsFiniteSet(I), \A i \in I : b[i] \in Log
  PROVE  /\ IsFiniteSet(Units(b, I, m))
         /\ Tally(b, I, m) \in Nat
<1> DEFINE U(i) == {i} \X (1 .. Weight(b[i], m))
           f == [i \in I |-> U(i)]
<1>1. \A i \in I : IsFiniteSet(U(i))
  <2> SUFFICES ASSUME NEW i \in I PROVE IsFiniteSet(U(i))
    OBVIOUS
  <2>1. Weight(b[i], m) \in Nat
    BY WeightNat
  <2>2. IsFiniteSet({i})
    BY FS_Singleton
  <2>3. IsFiniteSet(1 .. Weight(b[i], m))
    BY <2>1, FS_Interval
  <2> QED
    BY <2>2, <2>3, FS_Product
<1>2. f \in Surjection(I, {U(i) : i \in I})
  <2> HIDE DEF U
  <2> QED
    BY DEF Surjection
<1>3. IsFiniteSet({U(i) : i \in I})
  BY <1>2, FS_Surjection
<1>4. IsFiniteSet(UNION {U(i) : i \in I})
  BY <1>1, <1>3, FS_UNION
<1> QED
  BY <1>4, FS_CardinalityType DEF Units, Tally

(* Rows without weight can be left out of a sum.                           *)
LEMMA UnitsIgnoreZero ==
  ASSUME NEW b, NEW I, NEW J, NEW m, I \subseteq J,
         \A i \in J \ I : Weight(b[i], m) = 0
  PROVE  Tally(b, I, m) = Tally(b, J, m)
<1>1. \A i \in J \ I : 1 .. Weight(b[i], m) = {}
  OBVIOUS
<1>2. Units(b, I, m) = Units(b, J, m)
  BY <1>1 DEF Units
<1> QED
  BY <1>2 DEF Tally

LEMMA UnitsAgree ==
  ASSUME NEW b, NEW c, NEW I, NEW m, \A i \in I : b[i] = c[i]
  PROVE  Tally(b, I, m) = Tally(c, I, m)
BY DEF Units, Tally

(* The lifetime sum of a longer chain is the sum so far and the new block. *)
LEMMA LifetimeStep ==
  ASSUME NEW c, NEW n \in Nat, NEW P, NEW m,
         \A k \in 1 .. n + 1 : IsFiniteSet(OwnOf(c[k], P)) /\ \A i \in OwnOf(c[k], P) : c[k][i] \in Log
  PROVE  Lifetime(c, n + 1, P, m)
           = Lifetime(c, n, P, m) + Tally(c[n + 1], OwnOf(c[n + 1], P), m)
<1> DEFINE S(k) == {k} \X Units(c[k], OwnOf(c[k], P), m)
           A == LifeUnits(c, n, P, m)
           B == S(n + 1)
           f == [k \in 1 .. n |-> S(k)]
<1>1. \A k \in 1 .. n + 1 : IsFiniteSet(S(k)) /\ Cardinality(S(k)) = Tally(c[k], OwnOf(c[k], P), m)
  <2> SUFFICES ASSUME NEW k \in 1 .. n + 1
               PROVE  IsFiniteSet(S(k)) /\ Cardinality(S(k)) = Tally(c[k], OwnOf(c[k], P), m)
    OBVIOUS
  <2>1. IsFiniteSet(Units(c[k], OwnOf(c[k], P), m)) /\ Tally(c[k], OwnOf(c[k], P), m) \in Nat
    BY UnitsFinite
  <2>2. IsFiniteSet({k}) /\ Cardinality({k}) = 1
    BY FS_Singleton
  <2>3. Cardinality(S(k)) = 1 * Tally(c[k], OwnOf(c[k], P), m) /\ IsFiniteSet(S(k))
    BY <2>1, <2>2, FS_Product DEF Tally
  <2> QED
    BY <2>1, <2>3
<1>2. f \in Surjection(1 .. n, {S(k) : k \in 1 .. n})
  <2> HIDE DEF S
  <2> QED
    BY DEF Surjection
<1>3. IsFiniteSet({S(k) : k \in 1 .. n})
  <2>1. IsFiniteSet(1 .. n)
    BY FS_Interval
  <2> HIDE DEF f
  <2> QED
    BY <1>2, <2>1, FS_Surjection
<1>4. \A T \in {S(k) : k \in 1 .. n} : IsFiniteSet(T)
  BY <1>1
<1>5. IsFiniteSet(UNION {S(k) : k \in 1 .. n})
  BY <1>3, <1>4, FS_UNION
<1>6. IsFiniteSet(A)
  BY <1>5 DEF LifeUnits
<1>7. LifeUnits(c, n + 1, P, m) = A \cup B
  <2>1. 1 .. n + 1 = (1 .. n) \cup {n + 1}
    OBVIOUS
  <2> QED
    BY <2>1 DEF LifeUnits
<1>8. A \cap B = {}
  BY DEF LifeUnits
<1>9. Cardinality(A \cup B) = Cardinality(A) + Cardinality(B)
  <2>1. n + 1 \in 1 .. n + 1
    OBVIOUS
  <2>2. IsFiniteSet(B)
    BY <1>1, <2>1
  <2>3. Cardinality(A \cup B) = Cardinality(A) + Cardinality(B) - Cardinality(A \cap B)
    BY <1>6, <2>2, FS_Union
  <2>4. Cardinality(A) \in Nat /\ Cardinality(B) \in Nat
    BY <1>6, <2>2, FS_CardinalityType
  <2>5. Cardinality(A \cap B) = 0
    BY <1>8, FS_EmptySet
  <2> HIDE DEF A, B
  <2> QED
    BY <2>3, <2>4, <2>5
<1> QED
  BY <1>1, <1>7, <1>9 DEF Lifetime

LEMMA LifetimeZero ==
  ASSUME NEW c, NEW P, NEW m
  PROVE  Lifetime(c, 0, P, m) = 0
<1>1. LifeUnits(c, 0, P, m) = {}
  BY DEF LifeUnits
<1> QED
  BY <1>1, FS_EmptySet DEF Lifetime

(* What a chain says about its first n blocks depends on those blocks.     *)
LEMMA PrefixAgrees ==
  ASSUME NEW c, NEW d, NEW n \in Nat, \A k \in 1 .. n : c[k] = d[k]
  PROVE  /\ Initialised(c, n) = Initialised(d, n)
         /\ \A P, m : Lifetime(c, n, P, m) = Lifetime(d, n, P, m)
<1>1. Initialised(c, n) = Initialised(d, n)
  BY DEF Initialised
<1>2. \A P, m : LifeUnits(c, n, P, m) = LifeUnits(d, n, P, m)
  BY DEF LifeUnits
<1> QED
  BY <1>1, <1>2 DEF Lifetime

-----------------------------------------------------------------------------
(* Sequences, blocks and stores.                                           *)

LEMMA SequenceFacts ==
  ASSUME NEW s, IsSequence(s)
  PROVE  /\ Len(s) \in Nat
         /\ DOMAIN s = 1 .. Len(s)
         /\ \A e : /\ IsSequence(Append(s, e))
                  /\ Len(Append(s, e)) = Len(s) + 1
                  /\ Append(s, e)[Len(s) + 1] = e
                  /\ \A i \in 1 .. Len(s) : Append(s, e)[i] = s[i]
         /\ \A n \in 0 .. Len(s) : /\ IsSequence(SubSeq(s, 1, n))
                                  /\ Len(SubSeq(s, 1, n)) = n
                                  /\ \A i \in 1 .. n : SubSeq(s, 1, n)[i] = s[i]
<1> DEFINE R == {s[i] : i \in DOMAIN s}
<1>1. s \in Seq(R)
  BY DEF IsSequence
<1> HIDE DEF R
<1>2. ASSUME NEW e
      PROVE  IsSequence(Append(s, e))
  <2> DEFINE t == Append(s, e)
             T == {t[i] : i \in DOMAIN t}
  <2>1. t \in Seq(R \cup {e})
    BY <1>1
  <2>2. \A i \in 1 .. Len(t) : t[i] \in T
    BY <2>1
  <2>3. t \in Seq(T)
    <3> HIDE DEF t, T
    <3> QED
      BY <2>1, <2>2
  <2> QED
    BY <2>3 DEF IsSequence
<1>3. ASSUME NEW n \in 0 .. Len(s)
      PROVE  IsSequence(SubSeq(s, 1, n))
  <2> DEFINE t == SubSeq(s, 1, n)
             T == {t[i] : i \in DOMAIN t}
  <2>1. t \in Seq(R)
    BY <1>1
  <2>2. \A i \in 1 .. Len(t) : t[i] \in T
    BY <2>1
  <2>3. t \in Seq(T)
    <3> HIDE DEF t, T
    <3> QED
      BY <2>1, <2>2
  <2> QED
    BY <2>3 DEF IsSequence
<1>4. Len(s) \in Nat /\ DOMAIN s = 1 .. Len(s)
  BY <1>1
<1>5. ASSUME NEW e
      PROVE  /\ Len(Append(s, e)) = Len(s) + 1
             /\ Append(s, e)[Len(s) + 1] = e
             /\ \A i \in 1 .. Len(s) : Append(s, e)[i] = s[i]
  <2>1. s \in Seq(R \cup {e}) /\ e \in R \cup {e}
    BY <1>1
  <2> QED
    BY <2>1
<1>6. ASSUME NEW n \in 0 .. Len(s)
      PROVE  /\ Len(SubSeq(s, 1, n)) = n
             /\ \A i \in 1 .. n : SubSeq(s, 1, n)[i] = s[i]
  BY <1>1
<1> QED
  BY <1>2, <1>3, <1>4, <1>5, <1>6

LEMMA BlockFacts ==
  ASSUME NEW b \in Blocks
  PROVE  /\ IsFiniteSet(DOMAIN b)
         /\ \A i \in DOMAIN b : b[i] \in Log
         /\ \A I \in SUBSET DOMAIN b : IsFiniteSet(I)
<1>1. PICK k \in 0 .. MaxLogs : b \in [1 .. k -> Logs]
  BY BoundsAssumption DEF Blocks
<1>2. IsFiniteSet(1 .. k)
  BY FS_Interval
<1>3. IsFiniteSet(DOMAIN b)
  BY <1>1, <1>2
<1>4. \A I \in SUBSET DOMAIN b : IsFiniteSet(I)
  BY <1>3, FS_Subset
<1> QED
  BY <1>1, <1>3, <1>4, PoolLogsAssumption

LEMMA DecodeFacts ==
  ASSUME NEW b \in Blocks
  PROVE  /\ DOMAIN Decode(b) = Own(b)
         /\ \A i \in Own(b) : Decode(b)[i] = b[i] /\ b[i] \in Log
         /\ \A I \in SUBSET Own(b) : IsFiniteSet(I)
BY BlockFacts DEF Decode, Own

(* add_delta adds, key by key.                                             *)
LEMMA AddDeltaFacts ==
  ASSUME NEW K, NEW store, NEW delta,
         IsStore(store, K, Nat),
         DOMAIN delta \subseteq K, \A k \in DOMAIN delta : delta[k] \in Nat
  PROVE  /\ IsStore(AddDelta(store, delta), K, Nat)
         /\ \A k : Get(AddDelta(store, delta), k)
                   = Get(store, k) + (IF k \in DOMAIN delta THEN delta[k] ELSE 0)
BY DEF IsStore, AddDelta, Get
-----------------------------------------------------------------------------
(* One block's contribution, as the two store modules compute it.          *)

LEMMA PoolDeltaExact ==
  ASSUME NEW b \in Blocks, events = Decode(b)
  PROVE  /\ DOMAIN PoolDeltas \subseteq Pools \X PoolMetrics
         /\ \A k \in DOMAIN PoolDeltas : PoolDeltas[k] \in Nat
         /\ \A p \in Pools, m \in PoolMetrics :
              (IF <<p, m>> \in DOMAIN PoolDeltas THEN PoolDeltas[<<p, m>>] ELSE 0)
                = Tally(b, OwnOf(b, {p}), m)
<1> DEFINE SM == Rows({"Swap", "ModifyLiquidity"})
           I(p) == {i \in SM : events[i].pool = p}
           active == {events[i].pool : i \in SM}
<1>1. /\ DOMAIN events = Own(b)
      /\ \A i \in Own(b) : events[i] = b[i] /\ b[i] \in Log
      /\ \A J \in SUBSET Own(b) : IsFiniteSet(J)
  BY DecodeFacts
<1>2. SM \subseteq Own(b)
  BY <1>1 DEF Rows
<1>3. DOMAIN PoolDeltas = active \X PoolMetrics
  BY DEF PoolDeltas
<1>4. active \subseteq Pools
  BY <1>1, <1>2 DEF Log
<1>5. \A p \in active, m \in PoolMetrics : PoolDeltas[<<p, m>>] = Tally(events, I(p), m)
  BY DEF PoolDeltas
<1>6. ASSUME NEW p
      PROVE  /\ I(p) \subseteq OwnOf(b, {p})
             /\ \A i \in I(p) : i \in Own(b) /\ events[i] = b[i]
             /\ \A i \in OwnOf(b, {p}) \ I(p) : b[i].kind \in {"Initialize", "Donate"}
  BY <1>1 DEF Rows, OwnOf, Log, Kinds
<1>0. \A p : p \notin active => I(p) = {}
  OBVIOUS
<1> HIDE DEF I, active
<1>7. ASSUME NEW p, NEW m
      PROVE  Tally(events, I(p), m) \in Nat
  <2>1. I(p) \in SUBSET Own(b) /\ \A i \in I(p) : events[i] \in Log
    BY <1>1, <1>6
  <2>2. IsFiniteSet(I(p))
    BY <1>1, <2>1
  <2> QED
    BY <2>1, <2>2, UnitsFinite
<1>8. ASSUME NEW p \in Pools, NEW m \in PoolMetrics
      PROVE  Tally(events, I(p), m) = Tally(b, OwnOf(b, {p}), m)
  <2>0. \A i \in I(p) : events[i] = b[i]
    BY <1>6
  <2>1. Tally(events, I(p), m) = Tally(b, I(p), m)
    BY <2>0, UnitsAgree
  <2>2. \A i \in OwnOf(b, {p}) \ I(p) : Weight(b[i], m) = 0
    BY <1>6 DEF Weight, PoolMetrics
  <2>3. Tally(b, I(p), m) = Tally(b, OwnOf(b, {p}), m)
    BY <1>6, <2>2, UnitsIgnoreZero
  <2> QED
    BY <2>1, <2>3
<1>9. ASSUME NEW p \in Pools, NEW m \in PoolMetrics, p \notin active
      PROVE  Tally(events, I(p), m) = 0
  <2>1. I(p) = {}
    BY <1>0, <1>9
  <2>2. Units(events, I(p), m) = {}
    BY <2>1 DEF Units
  <2> QED
    BY <2>2, FS_EmptySet DEF Tally
<1>10. \A k \in DOMAIN PoolDeltas : PoolDeltas[k] \in Nat
  <2> SUFFICES ASSUME NEW k \in DOMAIN PoolDeltas PROVE PoolDeltas[k] \in Nat
    OBVIOUS
  <2>1. PICK p \in active, m \in PoolMetrics : k = <<p, m>>
    BY <1>3
  <2> QED
    BY <2>1, <1>5, <1>7
<1>11. ASSUME NEW p \in Pools, NEW m \in PoolMetrics
       PROVE (IF <<p, m>> \in DOMAIN PoolDeltas THEN PoolDeltas[<<p, m>>] ELSE 0)
                = Tally(b, OwnOf(b, {p}), m)
  BY <1>3, <1>5, <1>8, <1>9
<1> QED
  BY <1>3, <1>4, <1>10, <1>11

LEMMA HookDeltaExact ==
  ASSUME NEW b \in Blocks, enriched.rows = L!RowsOf(b)
  PROVE  /\ DOMAIN HookDeltas \subseteq Hooks \X Metrics
         /\ \A k \in DOMAIN HookDeltas : HookDeltas[k] \in Nat
         /\ \A h \in Hooks, m \in Metrics :
              (IF <<h, m>> \in DOMAIN HookDeltas THEN HookDeltas[<<h, m>>] ELSE 0)
                = Tally(b, OwnOf(b, PoolsOf(h)), m)
<1> DEFINE rows == enriched.rows
           I(h) == {i \in DOMAIN rows : HasHook(rows[i].key) /\ rows[i].key.hook = h}
           logs == [i \in DOMAIN rows |-> rows[i].log]
<1>1. /\ DOMAIN rows = Own(b)
      /\ \A i \in Own(b) :
           /\ rows[i].log = b[i] /\ b[i] \in Log
           /\ rows[i].key = IF b[i].kind = "Donate" THEN NoKey ELSE L!Identity(b[i].pool)
      /\ \A J \in SUBSET Own(b) : IsFiniteSet(J)
  <2>1. rows = [i \in Own(b) |->
                  [log |-> b[i],
                   key |-> IF b[i].kind = "Donate" THEN NoKey ELSE L!Identity(b[i].pool)]]
    BY DEF L!RowsOf, L!Own, Own
  <2>2. \A i \in Own(b) : b[i] \in Log
    BY DecodeFacts
  <2>3. \A J \in SUBSET Own(b) : IsFiniteSet(J)
    BY DecodeFacts
  <2> HIDE DEF rows
  <2> QED
    BY <2>1, <2>2, <2>3
<1>2. \A i \in Own(b) : HasHook(rows[i].key) =>
        /\ rows[i].key = KeyOf[b[i].pool] /\ b[i].pool \in Pools \ Legacy
        /\ rows[i].key.hook \in Hooks
  BY <1>1, PoolLogsAssumption DEF HasHook, L!Identity, Log, PoolKey
<1>3. \A i \in Own(b) : b[i].kind # "Donate" /\ b[i].pool \notin Legacy
                            => rows[i].key = KeyOf[b[i].pool] /\ rows[i].key # NoKey
  BY <1>1, PoolLogsAssumption DEF L!Identity, Log
<1>4. RowHooks \subseteq Hooks /\ DOMAIN HookDeltas = RowHooks \X Metrics
  BY <1>1, <1>2 DEF RowHooks, HookDeltas
<1>5. \A h \in RowHooks, m \in Metrics : HookDeltas[<<h, m>>] = Tally(logs, I(h), m)
  BY DEF HookDeltas
<1>6. ASSUME NEW h \in Hooks
      PROVE  /\ I(h) \subseteq OwnOf(b, PoolsOf(h)) /\ IsFiniteSet(I(h))
             /\ \A i \in I(h) : logs[i] = b[i]
             /\ \A i \in OwnOf(b, PoolsOf(h)) \ I(h) : b[i].kind = "Donate"
  <2>1. I(h) \subseteq OwnOf(b, PoolsOf(h))
    BY <1>1, <1>2 DEF OwnOf, PoolsOf
  <2>2. \A i \in OwnOf(b, PoolsOf(h)) \ I(h) : b[i].kind = "Donate"
    <3> SUFFICES ASSUME NEW i \in OwnOf(b, PoolsOf(h)), b[i].kind # "Donate" PROVE i \in I(h)
      OBVIOUS
    <3>1. i \in Own(b) /\ b[i].pool \notin Legacy /\ KeyOf[b[i].pool].hook = h
      BY DEF OwnOf, PoolsOf
    <3> QED
      BY <1>1, <1>3, <3>1, PoolLogsAssumption DEF HasHook
  <2>3. IsFiniteSet(I(h)) /\ \A i \in I(h) : logs[i] = b[i]
    BY <1>1
  <2> QED
    BY <2>1, <2>2, <2>3
<1>7. \A h \in Hooks, m \in Metrics : Tally(logs, I(h), m) \in Nat
  <2> SUFFICES ASSUME NEW h \in Hooks, NEW m \in Metrics PROVE Tally(logs, I(h), m) \in Nat
    OBVIOUS
  <2>1. IsFiniteSet(I(h)) /\ \A i \in I(h) : logs[i] \in Log
    BY <1>1, <1>6
  <2> HIDE DEF I, logs
  <2> QED
    BY <2>1, UnitsFinite
<1>8. ASSUME NEW h \in Hooks, NEW m \in Metrics
      PROVE  Tally(logs, I(h), m) = Tally(b, OwnOf(b, PoolsOf(h)), m)
  <2> HIDE DEF I, logs
  <2>1. Tally(logs, I(h), m) = Tally(b, I(h), m)
    BY <1>6, UnitsAgree
  <2>2. \A i \in OwnOf(b, PoolsOf(h)) \ I(h) : Weight(b[i], m) = 0
    BY <1>6 DEF Weight
  <2>3. Tally(b, I(h), m) = Tally(b, OwnOf(b, PoolsOf(h)), m)
    BY <1>6, <2>2, UnitsIgnoreZero
  <2> QED
    BY <2>1, <2>3
<1>9. ASSUME NEW h \in Hooks, NEW m \in Metrics, h \notin RowHooks
      PROVE  Tally(logs, I(h), m) = 0
  <2>1. I(h) = {}
    BY <1>9 DEF RowHooks
  <2>2. Units(logs, I(h), m) = {}
    BY <2>1 DEF Units
  <2> QED
    BY <2>2, FS_EmptySet DEF Tally
<1> HIDE DEF I, logs
<1>10. \A k \in DOMAIN HookDeltas : HookDeltas[k] \in Nat
  <2> SUFFICES ASSUME NEW k \in DOMAIN HookDeltas PROVE HookDeltas[k] \in Nat
    OBVIOUS
  <2>1. PICK h \in RowHooks, m \in Metrics : k = <<h, m>>
    BY <1>4
  <2> QED
    BY <2>1, <1>4, <1>5, <1>7
<1>11. ASSUME NEW h \in Hooks, NEW m \in Metrics
       PROVE (IF <<h, m>> \in DOMAIN HookDeltas THEN HookDeltas[<<h, m>>] ELSE 0)
                = Tally(b, OwnOf(b, PoolsOf(h)), m)
  BY <1>4, <1>5, <1>8, <1>9
<1> QED
  BY <1>4, <1>10, <1>11
-----------------------------------------------------------------------------
(* The invariant holds initially.                                          *)

LEMMA InitIInv == Init => IInv
<1> SUFFICES ASSUME Init PROVE IInv
  OBVIOUS
<1>1. IsSequence(ledger) /\ IsSequence(saved) /\ Len(saved) = 1 /\ Len(ledger) = 0
  <2>1. <<>> \in Seq({<<>>[i] : i \in DOMAIN <<>>})
    OBVIOUS
  <2>2. saved = <<Snapshot>> /\ DOMAIN saved = {1}
    BY DEF Init
  <2>3. saved \in Seq({Snapshot})
    BY <2>2
  <2>4. {saved[i] : i \in DOMAIN saved} = {Snapshot}
    BY <2>2
  <2> QED
    BY <2>1, <2>2, <2>3, <2>4 DEF IsSequence, Init
<1>2. Initialised(chain, 0) = {}
  BY DEF Initialised
<1>3. StoresTyped(Snapshot)
  BY DEF Init, Empty, StoresTyped, IsStore, Snapshot
<1>4. TypeOK
  <2>1. chain \in Seq(Blocks) /\ Len(chain) = 0
    BY DEF Init
  <2>2. \A n \in 1 .. Len(saved) : StoresTyped(saved[n])
    BY <1>1, <1>3 DEF Init
  <2>3. done \subseteq Modules /\ disruptions \in 0 .. MaxDisruptions
    BY BoundsAssumption DEF Init
  <2> QED
    BY <1>1, <1>3, <2>1, <2>2, <2>3 DEF TypeOK
<1>5. PoolsExact(Snapshot, 0) /\ PoolTotalsExact(Snapshot, 0) /\ HookTotalsExact(Snapshot, 0)
  <2>1. PoolsExact(Snapshot, 0)
    BY <1>2 DEF Init, Empty, PoolsExact, Snapshot
  <2>2. \A k : Get(Snapshot.pool_totals, k) = 0 /\ Get(Snapshot.hook_totals, k) = 0
    BY DEF Init, Empty, Get, Snapshot
  <2> QED
    BY <2>1, <2>2, LifetimeZero DEF PoolTotalsExact, HookTotalsExact
<1>6. saved[1] = Snapshot /\ Len(chain) = 0 /\ done = {}
  BY DEF Init
<1>7. SnapshotsExact
  BY <1>1, <1>5, <1>6 DEF SnapshotsExact
<1>8. StoresExact
  BY <1>1, <1>5, <1>6 DEF StoresExact, Height
<1>9. ChainSound /\ OutputsExact
  BY <1>1, <1>6 DEF ChainSound, OutputsExact, InFlight
<1> QED
  BY <1>4, <1>7, <1>8, <1>9 DEF IInv

-----------------------------------------------------------------------------
(* What a module that runs on the block in flight leaves alone.            *)

LEMMA FlightFacts ==
  ASSUME TypeOK, InFlight
  PROVE  /\ Len(ledger) \in Nat /\ Len(chain) = Len(ledger) + 1
         /\ block \in Blocks
         /\ \A k \in 1 .. Len(chain) : chain[k] \in Blocks
<1>1. chain \in Seq(Blocks) /\ Len(chain) \in Nat
  BY DEF TypeOK
<1>2. Len(ledger) \in Nat
  BY SequenceFacts DEF TypeOK
<1>3. Len(chain) = Len(ledger) + 1
  BY <1>1, <1>2 DEF TypeOK, InFlight
<1> QED
  BY <1>1, <1>2, <1>3 DEF block

(* The last step of a lifetime sum, for the block in flight.               *)
LEMMA FlightSum ==
  ASSUME TypeOK, InFlight, NEW P, NEW m
  PROVE  Lifetime(chain, Len(chain), P, m)
           = Lifetime(chain, Len(ledger), P, m) + Tally(block, OwnOf(block, P), m)
<1>1. /\ Len(ledger) \in Nat /\ Len(chain) = Len(ledger) + 1
      /\ \A k \in 1 .. Len(chain) : chain[k] \in Blocks
  BY FlightFacts
<1>2. ASSUME NEW k \in 1 .. Len(ledger) + 1
      PROVE  IsFiniteSet(OwnOf(chain[k], P)) /\ \A i \in OwnOf(chain[k], P) : chain[k][i] \in Log
  <2>1. chain[k] \in Blocks
    BY <1>1
  <2>2. OwnOf(chain[k], P) \in SUBSET DOMAIN chain[k]
    BY DEF OwnOf, Own
  <2> QED
    BY <2>1, <2>2, BlockFacts
<1> QED
  BY <1>1, <1>2, LifetimeStep DEF block
LEMMA InitialisedStep ==
  ASSUME TypeOK, InFlight
  PROVE  Initialised(chain, Len(chain)) = Initialised(chain, Len(ledger)) \cup InitsIn(block)
<1>1. Len(ledger) \in Nat /\ Len(chain) = Len(ledger) + 1
  BY FlightFacts
<1>2. 1 .. Len(chain) = (1 .. Len(ledger)) \cup {Len(chain)}
  BY <1>1
<1> QED
  BY <1>2 DEF Initialised, block

LEMMA InitialisedPools ==
  ASSUME TypeOK, ChainSound, NEW n \in Nat, n <= Len(chain)
  PROVE  Initialised(chain, n) \subseteq Pools \ Legacy
<1> SUFFICES ASSUME NEW k \in 1 .. n
             PROVE  InitsIn(chain[k]) \subseteq Pools \ Legacy
  BY DEF Initialised
<1>1. chain \in Seq(Blocks) /\ k \in 1 .. Len(chain)
  BY DEF TypeOK
<1>2. chain[k] \in Blocks /\ InitsIn(chain[k]) \cap Legacy = {}
  BY <1>1 DEF ChainSound
<1>3. \A i \in DOMAIN chain[k] : chain[k][i].pool \in Pools
  BY <1>2, BlockFacts DEF Log
<1> QED
  BY <1>2, <1>3 DEF InitsIn, PoolsIn, OfKind, Own

(* A module that runs changes neither the chain nor what is emitted.       *)
LEMMA RunFrame ==
  ASSUME IInv, NEW mod \in Modules, Run(mod), UNCHANGED <<chain, saved, ledger, disruptions>>
  PROVE  /\ ChainSound' /\ SnapshotsExact'
         /\ InFlight /\ InFlight' /\ block' = block
         /\ done' = done \cup {mod} /\ Inputs[mod] \subseteq done /\ mod \notin done
         /\ \A m \in done' : Inputs[m] \subseteq done'
         /\ StoresTyped(Snapshot)' => TypeOK'
<1>1. ChainSound'
  BY DEF IInv, ChainSound
<1>2. SnapshotsExact'
  BY DEF IInv, SnapshotsExact, PoolsExact, PoolTotalsExact, HookTotalsExact
<1>3. /\ InFlight /\ InFlight' /\ block' = block
      /\ done' = done \cup {mod} /\ Inputs[mod] \subseteq done /\ mod \notin done
  BY DEF Run, InFlight, block
<1>4. \A m \in done' : Inputs[m] \subseteq done'
  BY <1>3 DEF IInv, OutputsExact
<1>5. StoresTyped(Snapshot)' => TypeOK'
  <2>1. TypeOK
    BY DEF IInv
  <2> QED
    BY <1>3, <2>1 DEF TypeOK, StoresTyped, IsStore, IsSequence
<1> QED
  BY <1>1, <1>2, <1>3, <1>4, <1>5

LEMMA MapEventsIInv == IInv /\ MapEvents => IInv'
<1> SUFFICES ASSUME IInv, MapEvents PROVE IInv'
  OBVIOUS
<1>0. "map_events" \in Modules /\ Run("map_events")
      /\ UNCHANGED <<chain, saved, ledger, disruptions>>
      /\ UNCHANGED <<store_pools, store_pool_totals, store_hook_totals, enriched>>
  BY DEF MapEvents, Modules, stores
<1>1. /\ ChainSound' /\ SnapshotsExact'
      /\ InFlight /\ InFlight' /\ block' = block
      /\ done' = done \cup {"map_events"} /\ "map_events" \notin done
      /\ \A m \in done' : Inputs[m] \subseteq done'
      /\ StoresTyped(Snapshot)' => TypeOK'
  BY <1>0, RunFrame
<1>2. TypeOK'
  BY <1>0, <1>1 DEF IInv, TypeOK, StoresTyped, Snapshot, IsStore
<1>3. StoresExact'
  BY <1>0, <1>1 DEF IInv, StoresExact, Height, PoolsExact, PoolTotalsExact, HookTotalsExact,
                    Snapshot
<1>4. "map_enriched" \notin done
  BY <1>1 DEF IInv, OutputsExact, Inputs
<1>5. events' = Decode(block)'
  BY <1>1 DEF MapEvents, Decode
<1>6. OutputsExact'
  BY <1>1, <1>4, <1>5 DEF OutputsExact
<1> QED
  BY <1>1, <1>2, <1>3, <1>6 DEF IInv

LEMMA StorePoolsIInv == IInv /\ StorePools => IInv'
<1> SUFFICES ASSUME IInv, StorePools PROVE IInv'
  OBVIOUS
<1>0. "store_pools" \in Modules /\ Run("store_pools")
      /\ UNCHANGED <<chain, saved, ledger, disruptions>>
      /\ UNCHANGED <<store_pool_totals, store_hook_totals, events, enriched>>
  BY DEF StorePools, Modules, outputs
<1>1. /\ ChainSound' /\ SnapshotsExact'
      /\ InFlight /\ InFlight' /\ block' = block
      /\ done' = done \cup {"store_pools"} /\ "store_pools" \notin done
      /\ Inputs["store_pools"] \subseteq done
      /\ \A m \in done' : Inputs[m] \subseteq done'
      /\ StoresTyped(Snapshot)' => TypeOK'
  BY <1>0, RunFrame
<1>2. /\ Len(chain) \in Nat /\ block \in Blocks /\ events = Decode(block)
  BY <1>1, FlightFacts DEF IInv, OutputsExact, Inputs
<1>3. {events[i].pool : i \in Rows({"Initialize"})} = InitsIn(block)
  <2>1. DOMAIN events = Own(block) /\ \A i \in Own(block) : events[i] = block[i]
    BY <1>2, DecodeFacts
  <2> QED
    BY <2>1 DEF Rows, InitsIn, PoolsIn, OfKind
<1>4. store_pools = [p \in Initialised(chain, Len(ledger)) |-> KeyOf[p]]
  BY <1>1 DEF IInv, StoresExact, Height, PoolsExact, Snapshot
<1>5. store_pools' = [p \in Initialised(chain, Len(chain)) |-> KeyOf[p]]
  <2>1. Initialised(chain, Len(chain)) = Initialised(chain, Len(ledger)) \cup InitsIn(block)
    BY <1>1, InitialisedStep DEF IInv
  <2> QED
    BY <1>3, <1>4, <2>1 DEF StorePools, Remember
<1>6. Initialised(chain, Len(chain)) \subseteq Pools
  BY <1>2, InitialisedPools DEF IInv
<1>7. StoresTyped(Snapshot)'
  <2>1. IsStore(store_pools', Pools, PoolKey)
    BY <1>5, <1>6, PoolLogsAssumption DEF IsStore
  <2>2. StoresTyped(Snapshot)
    BY DEF IInv, TypeOK
  <2> QED
    BY <1>0, <2>1, <2>2 DEF StoresTyped, Snapshot, IsStore
<1>8. StoresExact'
  <2>1. PoolsExact(Snapshot, Height("store_pools"))'
    BY <1>0, <1>1, <1>5 DEF PoolsExact, Height, Snapshot, Initialised
  <2> QED
    BY <1>0, <1>1, <2>1 DEF IInv, StoresExact, Height, PoolTotalsExact, HookTotalsExact, Snapshot
<1>9. OutputsExact'
  BY <1>0, <1>1 DEF IInv, OutputsExact
<1> QED
  BY <1>1, <1>7, <1>8, <1>9 DEF IInv
LEMMA StorePoolTotalsIInv == IInv /\ StorePoolTotals => IInv'
<1> SUFFICES ASSUME IInv, StorePoolTotals PROVE IInv'
  OBVIOUS
<1>0. "store_pool_totals" \in Modules /\ Run("store_pool_totals")
      /\ UNCHANGED <<chain, saved, ledger, disruptions>>
      /\ UNCHANGED <<store_pools, store_hook_totals, events, enriched>>
  BY DEF StorePoolTotals, Modules, outputs
<1>1. /\ ChainSound' /\ SnapshotsExact'
      /\ InFlight /\ InFlight' /\ block' = block
      /\ done' = done \cup {"store_pool_totals"} /\ "store_pool_totals" \notin done
      /\ Inputs["store_pool_totals"] \subseteq done
      /\ \A m \in done' : Inputs[m] \subseteq done'
      /\ StoresTyped(Snapshot)' => TypeOK'
  BY <1>0, RunFrame
<1>2. TypeOK /\ block \in Blocks /\ events = Decode(block)
  BY <1>1, FlightFacts DEF IInv, OutputsExact, Inputs
<1>3. /\ DOMAIN PoolDeltas \subseteq Pools \X PoolMetrics
      /\ \A k \in DOMAIN PoolDeltas : PoolDeltas[k] \in Nat
      /\ \A p \in Pools, m \in PoolMetrics :
           (IF <<p, m>> \in DOMAIN PoolDeltas THEN PoolDeltas[<<p, m>>] ELSE 0)
             = Tally(block, OwnOf(block, {p}), m)
  BY <1>2, PoolDeltaExact
<1>4. StoresTyped(Snapshot)
  BY DEF IInv, TypeOK
<1>5. IsStore(store_pool_totals, Pools \X PoolMetrics, Nat)
  BY <1>4 DEF StoresTyped, Snapshot
<1>6. /\ IsStore(AddDelta(store_pool_totals, PoolDeltas), Pools \X PoolMetrics, Nat)
      /\ \A k : Get(AddDelta(store_pool_totals, PoolDeltas), k)
               = Get(store_pool_totals, k) + (IF k \in DOMAIN PoolDeltas THEN PoolDeltas[k] ELSE 0)
  BY <1>3, <1>5, AddDeltaFacts
<1>7. store_pool_totals' = AddDelta(store_pool_totals, PoolDeltas)
  BY DEF StorePoolTotals
<1>8. StoresTyped(Snapshot)'
  BY <1>0, <1>4, <1>6, <1>7 DEF StoresTyped, Snapshot, IsStore
<1>9. ASSUME NEW p \in Pools, NEW m \in PoolMetrics
      PROVE  Get(store_pool_totals', <<p, m>>) = Lifetime(chain, Len(chain), {p}, m)
  <2>1. Get(store_pool_totals, <<p, m>>) = Lifetime(chain, Len(ledger), {p}, m)
    BY <1>1 DEF IInv, StoresExact, Height, PoolTotalsExact, Snapshot
  <2>2. Lifetime(chain, Len(chain), {p}, m)
          = Lifetime(chain, Len(ledger), {p}, m) + Tally(block, OwnOf(block, {p}), m)
    BY <1>1, <1>2, FlightSum
  <2> QED
    BY <1>3, <1>6, <1>7, <2>1, <2>2
<1>10. StoresExact'
  <2>1. PoolTotalsExact(Snapshot, Height("store_pool_totals"))'
    BY <1>0, <1>1, <1>9 DEF PoolTotalsExact, Height, Snapshot, Get
  <2> QED
    BY <1>0, <1>1, <2>1 DEF IInv, StoresExact, Height, PoolsExact, HookTotalsExact, Snapshot
<1>11. OutputsExact'
  BY <1>0, <1>1 DEF IInv, OutputsExact
<1> QED
  BY <1>1, <1>8, <1>10, <1>11 DEF IInv

(* The join finds exactly the pools whose Initialize is in the stream.     *)
LEMMA MapEnrichedIInv == IInv /\ MapEnriched => IInv'
<1> SUFFICES ASSUME IInv, MapEnriched PROVE IInv'
  OBVIOUS
<1>0. "map_enriched" \in Modules /\ Run("map_enriched")
      /\ UNCHANGED <<chain, saved, ledger, disruptions>>
      /\ UNCHANGED <<store_pools, store_pool_totals, store_hook_totals, events>>
  BY DEF MapEnriched, Modules, stores
<1>1. /\ ChainSound' /\ SnapshotsExact'
      /\ InFlight /\ InFlight' /\ block' = block
      /\ done' = done \cup {"map_enriched"} /\ "map_enriched" \notin done
      /\ Inputs["map_enriched"] \subseteq done
      /\ \A m \in done' : Inputs[m] \subseteq done'
      /\ StoresTyped(Snapshot)' => TypeOK'
  BY <1>0, RunFrame
<1>2. /\ TypeOK /\ ChainSound /\ block \in Blocks /\ events = Decode(block)
      /\ Len(chain) \in Nat /\ Len(chain) \in 1 .. Len(chain)
  BY <1>1, FlightFacts DEF IInv, OutputsExact, Inputs
<1>3. /\ DOMAIN events = Own(block)
      /\ \A i \in Own(block) : events[i] = block[i] /\ block[i] \in Log
  BY <1>2, DecodeFacts
<1>4. store_pools = [p \in Initialised(chain, Len(chain)) |-> KeyOf[p]]
  BY <1>1 DEF IInv, StoresExact, Height, PoolsExact, Snapshot, Inputs
<1>5. Initialised(chain, Len(chain)) \subseteq Pools \ Legacy
  BY <1>2, InitialisedPools
<1>6. /\ InitsIn(block) \cap Legacy = {}
      /\ \A i \in Own(block) : block[i].pool \in Legacy \cup Initialised(chain, Len(chain))
  BY <1>2 DEF ChainSound, block
<1>7. ASSUME NEW i \in Own(block)
      PROVE  RowKey(events[i]) = IF block[i].kind = "Donate" THEN NoKey
                                 ELSE L!Identity(block[i].pool)
  <2>1. Resolve(block[i].pool) = L!Identity(block[i].pool)
    BY <1>4, <1>5, <1>6 DEF Resolve, L!Identity
  <2>2. CASE block[i].kind = "Initialize"
    <3>1. block[i].pool \in InitsIn(block)
      BY <2>2 DEF InitsIn, PoolsIn, OfKind
    <3> QED
      BY <1>3, <1>6, <2>2, <3>1 DEF RowKey, L!Identity
  <2>3. CASE block[i].kind \in {"Swap", "ModifyLiquidity"}
    BY <1>3, <2>1, <2>3 DEF RowKey
  <2>4. CASE block[i].kind = "Donate"
    BY <1>3, <2>4 DEF RowKey
  <2>5. block[i].kind \in Kinds
    BY <1>3 DEF Log
  <2> QED
    BY <2>2, <2>3, <2>4, <2>5 DEF Kinds
<1>8. enriched'.rows = L!RowsOf(block)
  <2>1. enriched'.rows = [i \in DOMAIN events |-> [log |-> events[i], key |-> RowKey(events[i])]]
    BY DEF MapEnriched
  <2>2. L!RowsOf(block) = [i \in Own(block) |->
           [log |-> block[i],
            key |-> IF block[i].kind = "Donate" THEN NoKey ELSE L!Identity(block[i].pool)]]
    BY DEF L!RowsOf, L!Own, Own
  <2> QED
    BY <1>3, <1>7, <2>1, <2>2
<1>9. TypeOK'
  BY <1>0, <1>1 DEF IInv, TypeOK, StoresTyped, Snapshot, IsStore
<1>10. StoresExact'
  BY <1>0, <1>1 DEF IInv, StoresExact, Height, PoolsExact, PoolTotalsExact, HookTotalsExact,
                    Snapshot
<1>11. OutputsExact'
  <2>1. enriched'.rows = L!RowsOf(block)'
    BY <1>1, <1>8 DEF L!RowsOf, L!Own, L!Identity
  <2> QED
    BY <1>0, <1>1, <2>1 DEF IInv, OutputsExact, Decode
<1> QED
  BY <1>1, <1>9, <1>10, <1>11 DEF IInv

LEMMA StoreHookTotalsIInv == IInv /\ StoreHookTotals => IInv'
<1> SUFFICES ASSUME IInv, StoreHookTotals PROVE IInv'
  OBVIOUS
<1>0. "store_hook_totals" \in Modules /\ Run("store_hook_totals")
      /\ UNCHANGED <<chain, saved, ledger, disruptions>>
      /\ UNCHANGED <<store_pools, store_pool_totals, events, enriched>>
  BY DEF StoreHookTotals, Modules, outputs
<1>1. /\ ChainSound' /\ SnapshotsExact'
      /\ InFlight /\ InFlight' /\ block' = block
      /\ done' = done \cup {"store_hook_totals"} /\ "store_hook_totals" \notin done
      /\ Inputs["store_hook_totals"] \subseteq done
      /\ \A m \in done' : Inputs[m] \subseteq done'
      /\ StoresTyped(Snapshot)' => TypeOK'
  BY <1>0, RunFrame
<1>2. TypeOK /\ block \in Blocks /\ enriched.rows = L!RowsOf(block)
  BY <1>1, FlightFacts DEF IInv, OutputsExact, Inputs
<1>3. /\ DOMAIN HookDeltas \subseteq Hooks \X Metrics
      /\ \A k \in DOMAIN HookDeltas : HookDeltas[k] \in Nat
      /\ \A h \in Hooks, m \in Metrics :
           (IF <<h, m>> \in DOMAIN HookDeltas THEN HookDeltas[<<h, m>>] ELSE 0)
             = Tally(block, OwnOf(block, PoolsOf(h)), m)
  BY <1>2, HookDeltaExact
<1>4. StoresTyped(Snapshot)
  BY DEF IInv, TypeOK
<1>5. IsStore(store_hook_totals, Hooks \X Metrics, Nat)
  BY <1>4 DEF StoresTyped, Snapshot
<1>6. /\ IsStore(AddDelta(store_hook_totals, HookDeltas), Hooks \X Metrics, Nat)
      /\ \A k : Get(AddDelta(store_hook_totals, HookDeltas), k)
               = Get(store_hook_totals, k) + (IF k \in DOMAIN HookDeltas THEN HookDeltas[k] ELSE 0)
  BY <1>3, <1>5, AddDeltaFacts
<1>7. store_hook_totals' = AddDelta(store_hook_totals, HookDeltas)
  BY DEF StoreHookTotals
<1>8. StoresTyped(Snapshot)'
  BY <1>0, <1>4, <1>6, <1>7 DEF StoresTyped, Snapshot, IsStore
<1>9. ASSUME NEW h \in Hooks, NEW m \in Metrics
      PROVE  Get(store_hook_totals', <<h, m>>) = Lifetime(chain, Len(chain), PoolsOf(h), m)
  <2>1. Get(store_hook_totals, <<h, m>>) = Lifetime(chain, Len(ledger), PoolsOf(h), m)
    BY <1>1 DEF IInv, StoresExact, Height, HookTotalsExact, Snapshot
  <2>2. Lifetime(chain, Len(chain), PoolsOf(h), m)
          = Lifetime(chain, Len(ledger), PoolsOf(h), m) + Tally(block, OwnOf(block, PoolsOf(h)), m)
    BY <1>1, <1>2, FlightSum
  <2> QED
    BY <1>3, <1>6, <1>7, <2>1, <2>2
<1>10. StoresExact'
  <2>1. HookTotalsExact(Snapshot, Height("store_hook_totals"))'
    BY <1>0, <1>1, <1>9 DEF HookTotalsExact, Height, Snapshot, Get
  <2> QED
    BY <1>0, <1>1, <2>1 DEF IInv, StoresExact, Height, PoolsExact, PoolTotalsExact, Snapshot
<1>11. OutputsExact'
  BY <1>0, <1>1 DEF IInv, OutputsExact
<1> QED
  BY <1>1, <1>8, <1>10, <1>11 DEF IInv

LEMMA MapTotalsIInv == IInv /\ MapTotals => IInv'
<1> SUFFICES ASSUME IInv, MapTotals PROVE IInv'
  OBVIOUS
<1>0. "map_totals" \in Modules /\ Run("map_totals")
      /\ UNCHANGED <<chain, saved, ledger, disruptions>>
      /\ UNCHANGED <<store_pools, store_pool_totals, store_hook_totals, events, enriched>>
  BY DEF MapTotals, Modules, stores
<1>1. /\ ChainSound' /\ SnapshotsExact'
      /\ InFlight /\ InFlight' /\ block' = block
      /\ done' = done \cup {"map_totals"} /\ "map_totals" \notin done
      /\ \A m \in done' : Inputs[m] \subseteq done'
      /\ StoresTyped(Snapshot)' => TypeOK'
  BY <1>0, RunFrame
<1>2. TypeOK'
  BY <1>0, <1>1 DEF IInv, TypeOK, StoresTyped, Snapshot, IsStore
<1>3. StoresExact'
  BY <1>0, <1>1 DEF IInv, StoresExact, Height, PoolsExact, PoolTotalsExact, HookTotalsExact,
                    Snapshot
<1>4. OutputsExact'
  BY <1>0, <1>1 DEF IInv, OutputsExact
<1> QED
  BY <1>1, <1>2, <1>3, <1>4 DEF IInv

(* When db_out runs, every store module has run on the block: what is      *)
(* saved with the block is what the block left.                            *)
LEMMA DbOutIInv == IInv /\ DbOut => IInv'
<1> SUFFICES ASSUME IInv, DbOut PROVE IInv'
  OBVIOUS
<1>0. /\ Run("db_out") /\ ledger' = Append(ledger, totals) /\ saved' = Append(saved, Snapshot)
      /\ UNCHANGED <<chain, store_pools, store_pool_totals, store_hook_totals, disruptions>>
  BY DEF DbOut, stores
<1>1. /\ InFlight /\ done' = done \cup {"db_out"} /\ Inputs["db_out"] \subseteq done
  BY <1>0 DEF Run
<1>2. /\ TypeOK /\ Len(ledger) \in Nat /\ Len(chain) = Len(ledger) + 1 /\ Len(saved) = Len(ledger) + 1
      /\ IsSequence(ledger) /\ IsSequence(saved)
  BY <1>1, FlightFacts DEF IInv, TypeOK
<1>3. {"store_pools", "store_pool_totals", "store_hook_totals"} \subseteq done
  <2>1. \A m \in done : Inputs[m] \subseteq done
    BY <1>1 DEF IInv, OutputsExact
  <2>2. "map_totals" \in done
    BY <1>1 DEF Inputs
  <2>3. "map_enriched" \in done /\ "store_pool_totals" \in done /\ "store_hook_totals" \in done
    BY <2>1, <2>2 DEF Inputs
  <2> QED
    BY <2>1, <2>3 DEF Inputs
<1>4. /\ IsSequence(ledger') /\ Len(ledger') = Len(chain)
      /\ IsSequence(saved') /\ Len(saved') = Len(chain) + 1
      /\ saved'[Len(chain) + 1] = Snapshot
      /\ \A n \in 1 .. Len(chain) : saved'[n] = saved[n]
  BY <1>0, <1>2, SequenceFacts
<1>5. Snapshot' = Snapshot
  BY <1>0 DEF Snapshot
<1>6. /\ PoolsExact(Snapshot, Len(chain)) /\ PoolTotalsExact(Snapshot, Len(chain))
      /\ HookTotalsExact(Snapshot, Len(chain))
  BY <1>3 DEF IInv, StoresExact, Height
<1>7. TypeOK'
  <2>1. \A n \in 1 .. Len(saved') : StoresTyped(saved'[n])
    BY <1>2, <1>4 DEF TypeOK
  <2>2. StoresTyped(Snapshot)'
    BY <1>2, <1>5 DEF TypeOK, StoresTyped, IsStore
  <2>3. done' \subseteq Modules
    BY <1>1, <1>2 DEF TypeOK, Modules
  <2> QED
    BY <1>0, <1>2, <1>4, <2>1, <2>2, <2>3 DEF TypeOK, StoresTyped, IsStore, IsSequence
<1>8. SnapshotsExact'
  <2> SUFFICES ASSUME NEW n \in 0 .. Len(chain)
               PROVE  /\ PoolsExact(saved[n + 1], n)'
                      /\ PoolTotalsExact(saved[n + 1], n)'
                      /\ HookTotalsExact(saved[n + 1], n)'
    BY <1>4 DEF SnapshotsExact
  <2>1. CASE n = Len(chain)
    BY <1>0, <1>4, <1>6, <2>1 DEF PoolsExact, PoolTotalsExact, HookTotalsExact
  <2>2. CASE n # Len(chain)
    <3>1. n \in 0 .. Len(ledger) /\ saved'[n + 1] = saved[n + 1]
      BY <1>2, <1>4, <2>2
    <3> QED
      BY <1>0, <3>1 DEF IInv, SnapshotsExact, PoolsExact, PoolTotalsExact, HookTotalsExact
  <2> QED
    BY <2>1, <2>2
<1>9. StoresExact'
  <2>1. \A m \in {"store_pools", "store_pool_totals", "store_hook_totals"} : Height(m)' = Len(chain)
    BY <1>0, <1>1, <1>3 DEF Height
  <2> QED
    BY <1>0, <1>5, <1>6, <2>1 DEF StoresExact, PoolsExact, PoolTotalsExact, HookTotalsExact
<1>10. ChainSound' /\ OutputsExact'
  BY <1>0, <1>2, <1>4 DEF IInv, ChainSound, OutputsExact, InFlight
<1> QED
  BY <1>7, <1>8, <1>9, <1>10 DEF IInv

-----------------------------------------------------------------------------
(* The engine's own steps.                                                 *)

(* What is said of the emitted blocks survives a change of the chain       *)
(* beyond them.                                                            *)
LEMMA ExactAgrees ==
  ASSUME NEW s, NEW n \in Nat, \A k \in 1 .. n : chain'[k] = chain[k],
         PoolsExact(s, n), PoolTotalsExact(s, n), HookTotalsExact(s, n)
  PROVE  /\ s.pools = [p \in Initialised(chain', n) |-> KeyOf[p]]
         /\ \A p \in Pools, m \in PoolMetrics :
              Get(s.pool_totals, <<p, m>>) = Lifetime(chain', n, {p}, m)
         /\ \A h \in Hooks, m \in Metrics :
              Get(s.hook_totals, <<h, m>>) = Lifetime(chain', n, PoolsOf(h), m)
<1>1. /\ Initialised(chain', n) = Initialised(chain, n)
      /\ \A P, m : Lifetime(chain', n, P, m) = Lifetime(chain, n, P, m)
  BY PrefixAgrees
<1> QED
  BY <1>1 DEF PoolsExact, PoolTotalsExact, HookTotalsExact

LEMMA NewBlockIInv == ASSUME IInv, NEW b \in Blocks, NewBlock(b) PROVE IInv'
<1>0. /\ ~InFlight /\ Legal(b, chain) /\ chain' = Append(chain, b) /\ done' = {}
      /\ UNCHANGED <<store_pools, store_pool_totals, store_hook_totals, saved, ledger,
                    disruptions>>
  BY DEF NewBlock, stores
<1>1. TypeOK /\ chain \in Seq(Blocks) /\ Len(chain) \in Nat
  BY DEF IInv, TypeOK
<1>2. Len(ledger) \in Nat /\ Len(ledger) = Len(chain) /\ DOMAIN ledger = 1 .. Len(ledger)
  BY <1>0, <1>1, SequenceFacts DEF TypeOK, InFlight
<1>3. /\ chain' \in Seq(Blocks) /\ Len(chain') = Len(chain) + 1
      /\ chain'[Len(chain) + 1] = b /\ \A k \in 1 .. Len(chain) : chain'[k] = chain[k]
  BY <1>0, <1>1
<1>4. Snapshot' = Snapshot
  BY <1>0 DEF Snapshot
<1>5. TypeOK'
  BY <1>0, <1>1, <1>2, <1>3, <1>4 DEF TypeOK, StoresTyped, IsStore, IsSequence
<1>6. ChainSound'
  <2> SUFFICES ASSUME NEW n \in 1 .. Len(chain) + 1
               PROVE  /\ InitsIn(chain'[n]) \cap Legacy = {}
                      /\ \A i \in Own(chain'[n]) :
                           chain'[n][i].pool \in Legacy \cup Initialised(chain', n)
    BY <1>3 DEF ChainSound
  <2>1. CASE n \in 1 .. Len(chain)
    <3>1. chain'[n] = chain[n] /\ \A k \in 1 .. n : chain'[k] = chain[k]
      BY <1>1, <1>3, <2>1
    <3>2. Initialised(chain', n) = Initialised(chain, n)
      BY <3>1, PrefixAgrees
    <3> QED
      BY <2>1, <3>1, <3>2 DEF IInv, ChainSound
  <2>2. CASE n = Len(chain) + 1
    <3>1. chain'[n] = b
      BY <1>3, <2>2
    <3>2. Initialised(chain', n) = Initialised(chain, Len(chain)) \cup InitsIn(b)
      <4>1. 1 .. n = (1 .. Len(chain)) \cup {n}
        BY <1>1, <2>2
      <4> QED
        BY <1>3, <3>1, <4>1 DEF Initialised
    <3>3. \A i \in Own(b) : b[i].kind = "Initialize" => b[i].pool \notin Legacy
      BY <1>0 DEF Legal
    <3>4. \A i \in Own(b) : b[i].pool \in Legacy \cup Initialised(chain, Len(chain)) \cup InitsIn(b)
      <4> SUFFICES ASSUME NEW i \in Own(b), b[i].pool \notin InitsIn(b)
                   PROVE  b[i].pool \in Legacy \cup Initialised(chain, Len(chain))
        OBVIOUS
      <4>1. b[i].kind # "Initialize"
        BY DEF InitsIn, PoolsIn, OfKind
      <4>2. \A j \in OfKind(b, {"Initialize"}) : b[j].pool \in InitsIn(b)
        BY DEF InitsIn, PoolsIn
      <4> QED
        BY <1>0, <4>1, <4>2 DEF Legal
    <3>5. InitsIn(b) \cap Legacy = {}
      BY <3>3 DEF InitsIn, PoolsIn, OfKind
    <3> QED
      BY <3>1, <3>2, <3>4, <3>5
  <2> QED
    BY <1>1, <2>1, <2>2
<1>7. SnapshotsExact'
  <2> SUFFICES ASSUME NEW n \in 0 .. Len(ledger)
               PROVE  /\ PoolsExact(saved[n + 1], n)'
                      /\ PoolTotalsExact(saved[n + 1], n)'
                      /\ HookTotalsExact(saved[n + 1], n)'
    BY <1>0 DEF SnapshotsExact
  <2>1. /\ PoolsExact(saved[n + 1], n) /\ PoolTotalsExact(saved[n + 1], n)
        /\ HookTotalsExact(saved[n + 1], n)
    BY DEF IInv, SnapshotsExact
  <2>2. n \in Nat /\ \A k \in 1 .. n : chain'[k] = chain[k]
    BY <1>2, <1>3
  <2>3. /\ saved[n + 1].pools = [p \in Initialised(chain', n) |-> KeyOf[p]]
        /\ \A p \in Pools, m \in PoolMetrics :
             Get(saved[n + 1].pool_totals, <<p, m>>) = Lifetime(chain', n, {p}, m)
        /\ \A h \in Hooks, m \in Metrics :
             Get(saved[n + 1].hook_totals, <<h, m>>) = Lifetime(chain', n, PoolsOf(h), m)
    BY <2>1, <2>2, ExactAgrees
  <2> QED
    BY <1>0, <2>3 DEF PoolsExact, PoolTotalsExact, HookTotalsExact
<1>8. StoresExact'
  <2>1. \A m : Height(m) = Len(chain)
    BY <1>2 DEF Height
  <2>2. \A m : Height(m)' = Len(chain)
    BY <1>0, <1>2 DEF Height
  <2>3. /\ PoolsExact(Snapshot, Len(chain)) /\ PoolTotalsExact(Snapshot, Len(chain))
        /\ HookTotalsExact(Snapshot, Len(chain))
    BY <2>1 DEF IInv, StoresExact
  <2>4. /\ Snapshot.pools = [p \in Initialised(chain', Len(chain)) |-> KeyOf[p]]
        /\ \A p \in Pools, m \in PoolMetrics :
             Get(Snapshot.pool_totals, <<p, m>>) = Lifetime(chain', Len(chain), {p}, m)
        /\ \A h \in Hooks, m \in Metrics :
             Get(Snapshot.hook_totals, <<h, m>>) = Lifetime(chain', Len(chain), PoolsOf(h), m)
    BY <1>1, <1>3, <2>3, ExactAgrees
  <2> QED
    BY <1>4, <2>2, <2>4 DEF StoresExact, PoolsExact, PoolTotalsExact, HookTotalsExact
<1>9. OutputsExact'
  BY <1>0 DEF OutputsExact
<1> QED
  BY <1>5, <1>6, <1>7, <1>8, <1>9 DEF IInv

(* Going back to the stores of an emitted block makes them exact for it.   *)
LEMMA RestoreFacts ==
  ASSUME IInv, NEW n \in 0 .. Len(ledger), Restore(n)
  PROVE  /\ done' = {} /\ disruptions' \in 0 .. MaxDisruptions
         /\ StoresTyped(Snapshot)'
         /\ PoolsExact(Snapshot', n) /\ PoolTotalsExact(Snapshot', n)
         /\ HookTotalsExact(Snapshot', n)
<1> DEFINE s == saved[n + 1]
<1>1. /\ Snapshot'.pools = s.pools /\ Snapshot'.pool_totals = s.pool_totals
      /\ Snapshot'.hook_totals = s.hook_totals
      /\ Snapshot'.pools = store_pools' /\ Snapshot'.pool_totals = store_pool_totals'
      /\ Snapshot'.hook_totals = store_hook_totals'
  BY DEF Restore, Snapshot
<1>2. Len(ledger) \in Nat /\ Len(saved) = Len(ledger) + 1
  BY SequenceFacts DEF IInv, TypeOK
<1>3. StoresTyped(s)
  BY <1>2 DEF IInv, TypeOK
<1>4. StoresTyped(Snapshot)'
  BY <1>1, <1>3 DEF StoresTyped, IsStore, Snapshot
<1>5. done' = {} /\ disruptions' \in 0 .. MaxDisruptions
  BY BoundsAssumption DEF Restore, IInv, TypeOK
<1>6. PoolsExact(s, n) /\ PoolTotalsExact(s, n) /\ HookTotalsExact(s, n)
  BY DEF IInv, SnapshotsExact
<1> QED
  BY <1>1, <1>4, <1>5, <1>6 DEF PoolsExact, PoolTotalsExact, HookTotalsExact

LEMMA CrashIInv == IInv /\ Crash => IInv'
<1> SUFFICES ASSUME IInv, Crash PROVE IInv'
  OBVIOUS
<1>0. InFlight /\ Restore(Len(ledger)) /\ UNCHANGED <<chain, saved, ledger>>
  BY DEF Crash
<1>1. TypeOK /\ Len(ledger) \in Nat /\ Len(ledger) \in 0 .. Len(ledger)
  BY SequenceFacts DEF IInv, TypeOK
<1>2. /\ done' = {} /\ disruptions' \in 0 .. MaxDisruptions
      /\ StoresTyped(Snapshot)'
      /\ PoolsExact(Snapshot', Len(ledger)) /\ PoolTotalsExact(Snapshot', Len(ledger))
      /\ HookTotalsExact(Snapshot', Len(ledger))
  BY <1>0, <1>1, RestoreFacts
<1>3. TypeOK'
  BY <1>0, <1>1, <1>2 DEF TypeOK, StoresTyped, IsStore, IsSequence
<1>4. ChainSound' /\ SnapshotsExact'
  BY <1>0 DEF IInv, ChainSound, SnapshotsExact, PoolsExact, PoolTotalsExact, HookTotalsExact
<1>5. StoresExact'
  <2>1. \A m : Height(m)' = Len(ledger)
    BY <1>0, <1>2 DEF Height
  <2> QED
    BY <1>0, <1>2, <2>1 DEF StoresExact, PoolsExact, PoolTotalsExact, HookTotalsExact
<1>6. OutputsExact'
  BY <1>2 DEF OutputsExact
<1> QED
  BY <1>3, <1>4, <1>5, <1>6 DEF IInv

LEMMA UndoIInv == IInv /\ Undo => IInv'
<1> SUFFICES ASSUME IInv, Undo PROVE IInv'
  OBVIOUS
<1> DEFINE n == Len(chain) - 1
<1>0. /\ chain # <<>> /\ Restore(n) /\ chain' = SubSeq(chain, 1, n)
      /\ ledger' = SubSeq(ledger, 1, n) /\ saved' = SubSeq(saved, 1, n + 1)
  BY DEF Undo
<1>1. /\ TypeOK /\ chain \in Seq(Blocks) /\ Len(chain) \in Nat /\ Len(chain) # 0
      /\ IsSequence(ledger) /\ IsSequence(saved)
  BY <1>0 DEF IInv, TypeOK
<1>2. /\ Len(ledger) \in Nat /\ n \in 0 .. Len(ledger) /\ Len(saved) = Len(ledger) + 1
      /\ n + 1 \in 0 .. Len(saved)
  BY <1>1, SequenceFacts DEF TypeOK
<1>3. /\ done' = {} /\ disruptions' \in 0 .. MaxDisruptions
      /\ StoresTyped(Snapshot)'
      /\ PoolsExact(Snapshot', n) /\ PoolTotalsExact(Snapshot', n)
      /\ HookTotalsExact(Snapshot', n)
  <2> HIDE DEF n
  <2> QED
    BY <1>0, <1>2, RestoreFacts
<1> HIDE DEF n
<1>4. /\ IsSequence(ledger') /\ Len(ledger') = n
      /\ IsSequence(saved') /\ Len(saved') = n + 1
      /\ \A i \in 1 .. n + 1 : saved'[i] = saved[i]
  BY <1>0, <1>1, <1>2, SequenceFacts
<1>5. /\ chain' \in Seq(Blocks) /\ Len(chain') = n
      /\ \A k \in 1 .. n : chain'[k] = chain[k]
  <2>1. n \in Nat /\ n \in 0 .. Len(chain)
    BY <1>1 DEF n
  <2> QED
    BY <1>0, <1>1, <2>1
<1>6. TypeOK'
  <2>1. \A i \in 1 .. Len(saved') : StoresTyped(saved'[i])
    BY <1>2, <1>4 DEF IInv, TypeOK
  <2> QED
    BY <1>2, <1>3, <1>4, <1>5, <2>1 DEF TypeOK, StoresTyped, IsStore, IsSequence
<1>7. ChainSound'
  <2> SUFFICES ASSUME NEW k \in 1 .. n
               PROVE  /\ InitsIn(chain'[k]) \cap Legacy = {}
                      /\ \A i \in Own(chain'[k]) :
                           chain'[k][i].pool \in Legacy \cup Initialised(chain', k)
    BY <1>5 DEF ChainSound
  <2>1. k \in 1 .. Len(chain) /\ k \in Nat /\ \A j \in 1 .. k : chain'[j] = chain[j]
    BY <1>1, <1>2, <1>5 DEF n
  <2>2. chain'[k] = chain[k] /\ Initialised(chain', k) = Initialised(chain, k)
    BY <1>5, <2>1, PrefixAgrees
  <2> QED
    BY <2>1, <2>2 DEF IInv, ChainSound
<1>8. ASSUME NEW k \in 0 .. n
      PROVE  k \in Nat /\ \A j \in 1 .. k : chain'[j] = chain[j]
  BY <1>2, <1>5
<1>9. SnapshotsExact'
  <2> SUFFICES ASSUME NEW k \in 0 .. n
               PROVE  /\ PoolsExact(saved[k + 1], k)'
                      /\ PoolTotalsExact(saved[k + 1], k)'
                      /\ HookTotalsExact(saved[k + 1], k)'
    BY <1>4 DEF SnapshotsExact
  <2>1. saved'[k + 1] = saved[k + 1] /\ k \in 0 .. Len(ledger)
    BY <1>2, <1>4
  <2>2. /\ PoolsExact(saved[k + 1], k) /\ PoolTotalsExact(saved[k + 1], k)
        /\ HookTotalsExact(saved[k + 1], k)
    BY <2>1 DEF IInv, SnapshotsExact
  <2>3. /\ saved[k + 1].pools = [p \in Initialised(chain', k) |-> KeyOf[p]]
        /\ \A p \in Pools, m \in PoolMetrics :
             Get(saved[k + 1].pool_totals, <<p, m>>) = Lifetime(chain', k, {p}, m)
        /\ \A h \in Hooks, m \in Metrics :
             Get(saved[k + 1].hook_totals, <<h, m>>) = Lifetime(chain', k, PoolsOf(h), m)
    BY <1>8, <2>2, ExactAgrees
  <2> QED
    BY <2>1, <2>3 DEF PoolsExact, PoolTotalsExact, HookTotalsExact
<1>10. StoresExact'
  <2>1. \A m : Height(m)' = n
    BY <1>3, <1>4 DEF Height
  <2>2. n \in Nat /\ \A j \in 1 .. n : chain'[j] = chain[j]
    BY <1>2, <1>5
  <2>3. /\ Snapshot'.pools = [p \in Initialised(chain', n) |-> KeyOf[p]]
        /\ \A p \in Pools, m \in PoolMetrics :
             Get(Snapshot'.pool_totals, <<p, m>>) = Lifetime(chain', n, {p}, m)
        /\ \A h \in Hooks, m \in Metrics :
             Get(Snapshot'.hook_totals, <<h, m>>) = Lifetime(chain', n, PoolsOf(h), m)
    BY <1>3, <2>2, ExactAgrees
  <2> QED
    BY <2>1, <2>3 DEF StoresExact, PoolsExact, PoolTotalsExact, HookTotalsExact
<1>11. OutputsExact'
  BY <1>4, <1>5 DEF OutputsExact, InFlight
<1> QED
  BY <1>6, <1>7, <1>9, <1>10, <1>11 DEF IInv

-----------------------------------------------------------------------------
LEMMA NextIInv == IInv /\ [Next]_vars => IInv'
<1> SUFFICES ASSUME IInv, [Next]_vars PROVE IInv'
  OBVIOUS
<1>1. CASE \E b \in Blocks : NewBlock(b)
  BY <1>1, NewBlockIInv
<1>2. CASE RunModule
  BY <1>2, MapEventsIInv, StorePoolsIInv, StorePoolTotalsIInv, MapEnrichedIInv,
     StoreHookTotalsIInv, MapTotalsIInv, DbOutIInv DEF RunModule
<1>3. CASE Crash
  BY <1>3, CrashIInv
<1>4. CASE Undo
  BY <1>4, UndoIInv
<1>5. CASE UNCHANGED vars
  <2>1. /\ UNCHANGED <<chain, done, events, enriched, saved, ledger, disruptions>>
        /\ UNCHANGED <<store_pools, store_pool_totals, store_hook_totals>>
    BY <1>5 DEF vars, stores, outputs
  <2>2. TypeOK'
    BY <2>1 DEF IInv, TypeOK, StoresTyped, IsStore, IsSequence, Snapshot
  <2>3. ChainSound' /\ SnapshotsExact'
    BY <2>1 DEF IInv, ChainSound, SnapshotsExact, PoolsExact, PoolTotalsExact, HookTotalsExact
  <2>4. StoresExact'
    BY <2>1 DEF IInv, StoresExact, Height, PoolsExact, PoolTotalsExact, HookTotalsExact, Snapshot
  <2>5. OutputsExact'
    BY <2>1 DEF IInv, OutputsExact, InFlight, block, Decode, L!RowsOf
  <2> QED
    BY <2>2, <2>3, <2>4, <2>5 DEF IInv
<1> QED
  BY <1>1, <1>2, <1>3, <1>4, <1>5 DEF Next

(* Every reachable state satisfies the inductive invariant.                *)
THEOREM Invariance == Spec => []IInv
BY InitIInv, NextIInv, PTL DEF Spec

(* Every variable keeps its type, whatever the pools, hooks and blocks:    *)
(* in particular at most one block is in flight and one snapshot is kept   *)
(* per emitted block.                                                      *)
THEOREM TypeCorrect == Spec => []TypeOK
<1>1. IInv => TypeOK
  BY DEF IInv
<1> QED
  BY <1>1, Invariance, PTL

(* The three stores (store_pools.rs, stats_store.rs) as each emitted block *)
(* left them hold exactly what the chain says, for any number of pools,    *)
(* hooks, blocks and logs, any order of the modules and any crashes and    *)
(* reorgs: nothing is added twice or lost.                                 *)
THEOREM SnapshotsCorrect == Spec => []SnapshotsExact
<1>1. IInv => SnapshotsExact
  BY DEF IInv
<1> QED
  BY <1>1, Invariance, PTL

-----------------------------------------------------------------------------
(* Identities.  The rows map_totals passes on, and those of every emitted  *)
(* block, are the block's own logs under their pools' own keys.            *)

TotalsCarryRows ==
  InFlight /\ "map_totals" \in done => totals.rows = L!RowsOf(block)

LedgerCarriesRows ==
  \A n \in 1 .. Len(ledger) : ledger[n].rows = L!RowsOf(chain[n])

RowsInv == TotalsCarryRows /\ LedgerCarriesRows

LEMMA InitRows == Init => RowsInv
BY DEF Init, RowsInv, TotalsCarryRows, LedgerCarriesRows, InFlight

(* A module other than map_totals and db_out leaves the emitted rows and   *)
(* map_totals' output alone.                                               *)
LEMMA OtherModuleRows ==
  ASSUME RowsInv, NEW mod \in Modules \ {"map_totals"}, Run(mod),
         UNCHANGED <<chain, ledger, totals>>
  PROVE  RowsInv'
BY DEF RowsInv, TotalsCarryRows, LedgerCarriesRows, InFlight, Run, block, L!RowsOf

LEMMA MapTotalsRows == ASSUME IInv, RowsInv, MapTotals PROVE RowsInv'
<1>1. /\ InFlight /\ Inputs["map_totals"] \subseteq done
      /\ totals'.rows = enriched.rows /\ UNCHANGED <<chain, ledger>>
  BY DEF MapTotals, Run
<1>2. enriched.rows = L!RowsOf(block)
  BY <1>1 DEF IInv, OutputsExact, Inputs
<1>3. TotalsCarryRows'
  BY <1>1, <1>2 DEF TotalsCarryRows, block, L!RowsOf
<1>4. LedgerCarriesRows'
  BY <1>1 DEF RowsInv, LedgerCarriesRows, L!RowsOf
<1> QED
  BY <1>3, <1>4 DEF RowsInv

LEMMA DbOutRows == ASSUME IInv, RowsInv, DbOut PROVE RowsInv'
<1>1. /\ InFlight /\ "map_totals" \in done
      /\ ledger' = Append(ledger, totals) /\ chain' = chain
  BY DEF DbOut, Run, Inputs
<1>2. totals.rows = L!RowsOf(chain[Len(chain)])
  BY <1>1 DEF RowsInv, TotalsCarryRows, block
<1>3. /\ IsSequence(ledger) /\ Len(ledger) \in Nat /\ Len(chain) = Len(ledger) + 1
  BY <1>1, FlightFacts DEF IInv, TypeOK
<1>4. /\ Len(ledger') = Len(ledger) + 1 /\ ledger'[Len(ledger) + 1] = totals
      /\ \A n \in 1 .. Len(ledger) : ledger'[n] = ledger[n]
  BY <1>1, <1>3, SequenceFacts
<1>5. LedgerCarriesRows'
  <2> SUFFICES ASSUME NEW n \in 1 .. Len(ledger) + 1
               PROVE  ledger'[n].rows = L!RowsOf(chain[n])
    BY <1>1, <1>4 DEF LedgerCarriesRows, L!RowsOf
  <2>1. CASE n = Len(ledger) + 1
    BY <1>2, <1>3, <1>4, <2>1
  <2>2. CASE n # Len(ledger) + 1
    <3>1. n \in 1 .. Len(ledger)
      BY <1>3, <2>2
    <3> QED
      BY <1>4, <3>1 DEF RowsInv, LedgerCarriesRows
  <2> QED
    BY <2>1, <2>2
<1>6. ~InFlight'
  BY <1>1, <1>3, <1>4 DEF InFlight
<1> QED
  BY <1>5, <1>6 DEF RowsInv, TotalsCarryRows

LEMMA NewBlockRows == ASSUME IInv, RowsInv, NEW b \in Blocks, NewBlock(b) PROVE RowsInv'
<1>1. /\ ~InFlight /\ chain' = Append(chain, b) /\ done' = {} /\ ledger' = ledger
  BY DEF NewBlock
<1>2. chain \in Seq(Blocks) /\ Len(ledger) \in Nat /\ Len(chain) = Len(ledger)
  BY <1>1, SequenceFacts DEF IInv, TypeOK, InFlight
<1>3. \A n \in 1 .. Len(ledger) : chain'[n] = chain[n]
  BY <1>1, <1>2
<1>4. ASSUME NEW n \in 1 .. Len(ledger)
      PROVE  ledger[n].rows = L!RowsOf(chain'[n])
  BY <1>3 DEF RowsInv, LedgerCarriesRows
<1>5. LedgerCarriesRows'
  BY <1>1, <1>4 DEF LedgerCarriesRows
<1> QED
  BY <1>1, <1>5 DEF RowsInv, TotalsCarryRows

LEMMA UndoRows == ASSUME IInv, RowsInv, Undo PROVE RowsInv'
<1> DEFINE n == Len(chain) - 1
<1>1. /\ chain # <<>> /\ done' = {}
      /\ chain' = SubSeq(chain, 1, n) /\ ledger' = SubSeq(ledger, 1, n)
  BY DEF Undo, Restore
<1>2. /\ chain \in Seq(Blocks) /\ Len(chain) \in Nat /\ Len(chain) # 0
      /\ IsSequence(ledger) /\ Len(ledger) \in Nat
      /\ Len(chain) \in {Len(ledger), Len(ledger) + 1}
  BY <1>1, SequenceFacts DEF IInv, TypeOK
<1>3. n \in 0 .. Len(ledger) /\ n \in 0 .. Len(chain)
  BY <1>2
<1> HIDE DEF n
<1>4. /\ Len(ledger') = n /\ \A k \in 1 .. n : ledger'[k] = ledger[k]
  BY <1>1, <1>2, <1>3, SequenceFacts
<1>5. \A k \in 1 .. n : chain'[k] = chain[k] /\ k \in 1 .. Len(ledger)
  BY <1>1, <1>2, <1>3
<1>6. LedgerCarriesRows'
  BY <1>4, <1>5 DEF RowsInv, LedgerCarriesRows, L!RowsOf
<1> QED
  BY <1>1, <1>6 DEF RowsInv, TotalsCarryRows

LEMMA NextRows == IInv /\ RowsInv /\ [Next]_vars => RowsInv'
<1> SUFFICES ASSUME IInv, RowsInv, [Next]_vars PROVE RowsInv'
  OBVIOUS
<1>1. CASE \E b \in Blocks : NewBlock(b)
  BY <1>1, NewBlockRows
<1>2. CASE MapEvents \/ StorePools \/ StorePoolTotals \/ MapEnriched \/ StoreHookTotals
  <2>1. PICK mod \in Modules \ {"map_totals"} : Run(mod)
    BY <1>2 DEF MapEvents, StorePools, StorePoolTotals, MapEnriched, StoreHookTotals, Modules
  <2>2. UNCHANGED <<chain, ledger, totals>>
    BY <1>2 DEF MapEvents, StorePools, StorePoolTotals, MapEnriched, StoreHookTotals, outputs
  <2> QED
    BY <2>1, <2>2, OtherModuleRows
<1>3. CASE MapTotals
  BY <1>3, MapTotalsRows
<1>4. CASE DbOut
  BY <1>4, DbOutRows
<1>5. CASE Crash
  <2>1. done' = {} /\ UNCHANGED <<chain, ledger>>
    BY <1>5 DEF Crash, Restore
  <2> QED
    BY <2>1 DEF RowsInv, TotalsCarryRows, LedgerCarriesRows, L!RowsOf
<1>6. CASE Undo
  BY <1>6, UndoRows
<1>7. CASE UNCHANGED vars
  BY <1>7 DEF vars, outputs, RowsInv, TotalsCarryRows, LedgerCarriesRows, InFlight, block,
              L!RowsOf
<1> QED
  BY <1>1, <1>2, <1>3, <1>4, <1>5, <1>6, <1>7 DEF Next, RunModule

(* A swap or liquidity row's pool is either legacy or initialised in the   *)
(* stream no later than its own block, so its own key is the key the       *)
(* stream gives it.                                                        *)
LEMMA CarriedRowsResolve == IInv /\ LedgerCarriesRows => RowsResolve
<1> SUFFICES ASSUME IInv, LedgerCarriesRows,
                    NEW n \in 1 .. Len(ledger), NEW i \in DOMAIN ledger[n].rows,
                    ledger[n].rows[i].log.kind \in {"Swap", "ModifyLiquidity"}
             PROVE  ledger[n].rows[i].key
                      = IF ledger[n].rows[i].log.pool \in Initialised(chain, n)
                        THEN KeyOf[ledger[n].rows[i].log.pool] ELSE NoKey
  BY DEF RowsResolve
<1>1. /\ chain \in Seq(Blocks) /\ Len(chain) \in Nat /\ Len(ledger) \in Nat
      /\ Len(ledger) <= Len(chain)
  BY SequenceFacts DEF IInv, TypeOK
<1>2. n \in Nat /\ n <= Len(chain) /\ n \in 1 .. Len(chain)
  BY <1>1
<1>3. ledger[n].rows = [j \in Own(chain[n]) |->
         [log |-> chain[n][j],
          key |-> IF chain[n][j].kind = "Donate" THEN NoKey ELSE L!Identity(chain[n][j].pool)]]
  BY DEF LedgerCarriesRows, L!RowsOf, L!Own, Own
<1>4. i \in Own(chain[n])
  BY <1>3
<1>5. /\ ledger[n].rows[i].log = chain[n][i]
      /\ chain[n][i].kind # "Donate"
      /\ ledger[n].rows[i].key = L!Identity(chain[n][i].pool)
  BY <1>3, <1>4
<1>6. chain[n][i].pool \in Legacy \cup Initialised(chain, n)
  BY <1>2, <1>4 DEF IInv, ChainSound
<1>7. Initialised(chain, n) \subseteq Pools \ Legacy
  BY <1>2, InitialisedPools DEF IInv
<1> QED
  BY <1>5, <1>6, <1>7 DEF L!Identity

(* An emitted swap or liquidity row carries its pool's own key if the      *)
(* stream has the pool's Initialize, in the same block included, and no    *)
(* identity otherwise (enrich.rs, resolve), for any pools, blocks, order   *)
(* of the modules, crashes and reorgs.                                     *)
THEOREM RowsCorrect == Spec => []RowsResolve
<1>1. Init => RowsInv
  BY InitRows
<1>2. IInv /\ RowsInv /\ [Next]_vars => RowsInv'
  BY NextRows
<1>3. IInv /\ RowsInv => RowsResolve
  BY CarriedRowsResolve DEF RowsInv
<1> QED
  BY <1>1, <1>2, <1>3, Invariance, PTL DEF Spec

-----------------------------------------------------------------------------
(* Zeros.  A crash or a reorg brings back a saved store, so the snapshots  *)
(* must be free of zeros as well.                                          *)

Positive(store) == \A k \in DOMAIN store : store[k] > 0

SavedPositive ==
  \A n \in 1 .. Len(saved) : Positive(saved[n].pool_totals) /\ Positive(saved[n].hook_totals)

ZerosInv == NoZeroKeys /\ SavedPositive

(* add_delta writes no key it does not move.                               *)
LEMMA AddDeltaPositive ==
  ASSUME NEW K, NEW store, NEW delta,
         IsStore(store, K, Nat), Positive(store),
         \A k \in DOMAIN delta : delta[k] \in Nat
  PROVE  Positive(AddDelta(store, delta))
BY DEF IsStore, Positive, AddDelta, Get

LEMMA InitZeros == Init => ZerosInv
BY DEF Init, ZerosInv, NoZeroKeys, SavedPositive, Positive, Empty, Snapshot

LEMMA StorePoolTotalsZeros == ASSUME IInv, ZerosInv, StorePoolTotals PROVE ZerosInv'
<1>1. /\ InFlight /\ Inputs["store_pool_totals"] \subseteq done
      /\ store_pool_totals' = AddDelta(store_pool_totals, PoolDeltas)
      /\ UNCHANGED <<store_hook_totals, saved>>
  BY DEF StorePoolTotals, Run
<1>2. block \in Blocks /\ events = Decode(block)
  BY <1>1, FlightFacts DEF IInv, OutputsExact, Inputs
<1>3. \A k \in DOMAIN PoolDeltas : PoolDeltas[k] \in Nat
  BY <1>2, PoolDeltaExact
<1>4. IsStore(store_pool_totals, Pools \X PoolMetrics, Nat)
  BY DEF IInv, TypeOK, StoresTyped, Snapshot
<1>5. Positive(store_pool_totals)
  BY DEF ZerosInv, NoZeroKeys, Positive
<1>6. Positive(AddDelta(store_pool_totals, PoolDeltas))
  BY <1>3, <1>4, <1>5, AddDeltaPositive
<1> QED
  BY <1>1, <1>6 DEF ZerosInv, NoZeroKeys, SavedPositive, Positive

LEMMA StoreHookTotalsZeros == ASSUME IInv, ZerosInv, StoreHookTotals PROVE ZerosInv'
<1>1. /\ InFlight /\ Inputs["store_hook_totals"] \subseteq done
      /\ store_hook_totals' = AddDelta(store_hook_totals, HookDeltas)
      /\ UNCHANGED <<store_pool_totals, saved>>
  BY DEF StoreHookTotals, Run
<1>2. block \in Blocks /\ enriched.rows = L!RowsOf(block)
  BY <1>1, FlightFacts DEF IInv, OutputsExact, Inputs
<1>3. \A k \in DOMAIN HookDeltas : HookDeltas[k] \in Nat
  BY <1>2, HookDeltaExact
<1>4. IsStore(store_hook_totals, Hooks \X Metrics, Nat)
  BY DEF IInv, TypeOK, StoresTyped, Snapshot
<1>5. Positive(store_hook_totals)
  BY DEF ZerosInv, NoZeroKeys, Positive
<1>6. Positive(AddDelta(store_hook_totals, HookDeltas))
  BY <1>3, <1>4, <1>5, AddDeltaPositive
<1> QED
  BY <1>1, <1>6 DEF ZerosInv, NoZeroKeys, SavedPositive, Positive

LEMMA DbOutZeros == ASSUME IInv, ZerosInv, DbOut PROVE ZerosInv'
<1>1. saved' = Append(saved, Snapshot) /\ UNCHANGED <<store_pool_totals, store_hook_totals>>
  BY DEF DbOut, stores
<1>2. IsSequence(saved) /\ Len(saved) \in Nat
  BY SequenceFacts DEF IInv, TypeOK
<1>3. /\ Len(saved') = Len(saved) + 1 /\ saved'[Len(saved) + 1] = Snapshot
      /\ \A n \in 1 .. Len(saved) : saved'[n] = saved[n]
  BY <1>1, <1>2, SequenceFacts
<1>4. Positive(Snapshot.pool_totals) /\ Positive(Snapshot.hook_totals)
  BY DEF ZerosInv, NoZeroKeys, Positive, Snapshot
<1>5. SavedPositive'
  <2> SUFFICES ASSUME NEW n \in 1 .. Len(saved) + 1
               PROVE  Positive(saved'[n].pool_totals) /\ Positive(saved'[n].hook_totals)
    BY <1>3 DEF SavedPositive, Positive
  <2>1. CASE n = Len(saved) + 1
    BY <1>3, <1>4, <2>1
  <2>2. CASE n # Len(saved) + 1
    <3>1. n \in 1 .. Len(saved)
      BY <1>2, <2>2
    <3> QED
      BY <1>3, <3>1 DEF ZerosInv, SavedPositive
  <2> QED
    BY <2>1, <2>2
<1> QED
  BY <1>1, <1>5 DEF ZerosInv, NoZeroKeys

LEMMA RestoreZeros ==
  ASSUME IInv, ZerosInv, NEW n \in 0 .. Len(ledger), Restore(n)
  PROVE  NoZeroKeys'
<1>1. Len(ledger) \in Nat /\ Len(saved) = Len(ledger) + 1
  BY SequenceFacts DEF IInv, TypeOK
<1>2. Positive(saved[n + 1].pool_totals) /\ Positive(saved[n + 1].hook_totals)
  BY <1>1 DEF ZerosInv, SavedPositive
<1> QED
  BY <1>2 DEF Restore, NoZeroKeys, Positive

LEMMA UndoZeros == ASSUME IInv, ZerosInv, Undo PROVE ZerosInv'
<1> DEFINE n == Len(chain) - 1
<1>1. chain # <<>> /\ Restore(n) /\ saved' = SubSeq(saved, 1, n + 1)
  BY DEF Undo
<1>2. /\ chain \in Seq(Blocks) /\ Len(chain) \in Nat /\ Len(chain) # 0
      /\ IsSequence(saved) /\ Len(ledger) \in Nat /\ Len(saved) = Len(ledger) + 1
      /\ Len(chain) \in {Len(ledger), Len(ledger) + 1}
  BY <1>1, SequenceFacts DEF IInv, TypeOK
<1>3. n \in 0 .. Len(ledger) /\ n + 1 \in 0 .. Len(saved)
  BY <1>2
<1> HIDE DEF n
<1>4. NoZeroKeys'
  BY <1>1, <1>3, RestoreZeros
<1>5. Len(saved') = n + 1 /\ \A k \in 1 .. n + 1 : saved'[k] = saved[k]
  BY <1>1, <1>2, <1>3, SequenceFacts
<1>6. \A k \in 1 .. n + 1 : k \in 1 .. Len(saved)
  BY <1>2, <1>3
<1>7. SavedPositive'
  BY <1>5, <1>6 DEF ZerosInv, SavedPositive, Positive
<1> QED
  BY <1>4, <1>7 DEF ZerosInv

LEMMA NextZeros == IInv /\ ZerosInv /\ [Next]_vars => ZerosInv'
<1> SUFFICES ASSUME IInv, ZerosInv, [Next]_vars PROVE ZerosInv'
  OBVIOUS
<1>1. CASE StorePoolTotals
  BY <1>1, StorePoolTotalsZeros
<1>2. CASE StoreHookTotals
  BY <1>2, StoreHookTotalsZeros
<1>3. CASE DbOut
  BY <1>3, DbOutZeros
<1>4. CASE Crash
  <2>1. Restore(Len(ledger)) /\ UNCHANGED saved
    BY <1>4 DEF Crash
  <2>2. Len(ledger) \in 0 .. Len(ledger)
    BY SequenceFacts DEF IInv, TypeOK
  <2>3. NoZeroKeys'
    BY <2>1, <2>2, RestoreZeros
  <2> QED
    BY <2>1, <2>3 DEF ZerosInv, SavedPositive, Positive
<1>5. CASE Undo
  BY <1>5, UndoZeros
<1>6. CASE (\E b \in Blocks : NewBlock(b)) \/ MapEvents \/ StorePools \/ MapEnriched \/ MapTotals
           \/ UNCHANGED vars
  <2>1. UNCHANGED <<store_pool_totals, store_hook_totals, saved>>
    BY <1>6 DEF NewBlock, MapEvents, StorePools, MapEnriched, MapTotals, vars, stores
  <2> QED
    BY <2>1 DEF ZerosInv, NoZeroKeys, SavedPositive, Positive
<1> QED
  BY <1>1, <1>2, <1>3, <1>4, <1>5, <1>6 DEF Next, RunModule

(* The two add stores (stats_store.rs, add_delta) never hold a key whose   *)
(* only content is zero, for any amounts, number of blocks, crashes and    *)
(* reorgs: a pool's key means that the pool has traded.                    *)
THEOREM NoZeros == Spec => []NoZeroKeys
<1>1. Init => ZerosInv
  BY InitZeros
<1>2. IInv /\ ZerosInv /\ [Next]_vars => ZerosInv'
  BY NextZeros
<1>3. ZerosInv => NoZeroKeys
  BY DEF ZerosInv
<1> QED
  BY <1>1, <1>2, <1>3, Invariance, PTL DEF Spec
=============================================================================
