------------------------------ MODULE PoolLogs ------------------------------
(***************************************************************************)
(* The vocabulary of the pipeline: the logs a block carries, what each one *)
(* adds to each metric, and which blocks the chain can produce.  The chain *)
(* is external to this repository; it is modelled from what the decoders   *)
(* and the join rely on (pool_manager.rs, enrich.rs).                      *)
(*                                                                         *)
(* A block is the sequence of its logs, so an index is the block-scoped    *)
(* log_index the code uses as a store ordinal.                             *)
(***************************************************************************)
EXTENDS Integers, Sequences, FiniteSets

CONSTANTS
  Pools,     \* pool ids
  Legacy,    \* the pools initialised before the stream's first block
  Hooks,     \* hook addresses
  NoHook,    \* the zero address: a pool without a hook
  NoKey,     \* "not in store_pools": the row's identity stays at its default
  KeyOf,     \* the PoolKey behind each pool id (the id is its hash)
  Logs       \* the alphabet of logs blocks are made of

Kinds == {"Initialize", "Swap", "ModifyLiquidity", "Donate"}

(* What a log contributes to a running total, one metric per store key.    *)
PoolMetrics == {"swaps", "modifies", "vol0", "vol1"}
Metrics == PoolMetrics \cup {"pools"}

PoolKey == [pair : STRING, hook : Hooks \cup {NoHook}]

Log == [by : {"PoolManager", "other"}, kind : Kinds, pool : Pools,
        a0 : Int, a1 : Int, fee : Nat]

ASSUME PoolLogsAssumption ==
  /\ Legacy \subseteq Pools
  /\ KeyOf \in [Pools -> PoolKey]
  /\ NoKey \notin PoolKey
  /\ NoHook \notin Hooks
  /\ Logs \subseteq Log

Abs(x) == IF x < 0 THEN -x ELSE x

-----------------------------------------------------------------------------
(* Sums over a block.  A natural number is counted as that many units, so  *)
(* the sum of the weights of the rows I of b is the size of a finite set.  *)

Weight(l, m) ==
  CASE l.kind = "Swap" /\ m = "swaps"               -> 1
    [] l.kind = "Swap" /\ m = "vol0"                -> Abs(l.a0)
    [] l.kind = "Swap" /\ m = "vol1"                -> Abs(l.a1)
    [] l.kind = "ModifyLiquidity" /\ m = "modifies" -> 1
    [] l.kind = "Initialize" /\ m = "pools"         -> 1
    [] OTHER                                        -> 0

Units(b, I, m) == UNION {{i} \X (1 .. Weight(b[i], m)) : i \in I}

Tally(b, I, m) == Cardinality(Units(b, I, m))

-----------------------------------------------------------------------------
(* The chain.                                                              *)

(* The logs of b that the PoolManager emitted.                             *)
Own(b) == {i \in DOMAIN b : b[i].by = "PoolManager"}

OwnOf(b, P) == {i \in Own(b) : b[i].pool \in P}

OfKind(b, K) == {i \in Own(b) : b[i].kind \in K}

PoolsIn(b, I) == {b[i].pool : i \in I}

InitsIn(b) == PoolsIn(b, OfKind(b, {"Initialize"}))

(* The pools whose Initialize is in the first n blocks of c.               *)
Initialised(c, n) == UNION {InitsIn(c[k]) : k \in 1 .. n}

(* The PoolManager initialises a pool once, and accepts no operation on a  *)
(* pool it has not initialised: a later log of the same block is enough.   *)
Legal(b, c) ==
  \A i \in Own(b) :
    LET known == Legacy \cup Initialised(c, Len(c))
                   \cup {b[j].pool : j \in {k \in OfKind(b, {"Initialize"}) : k < i}}
    IN  (b[i].kind = "Initialize") <=> (b[i].pool \notin known)

(* The lifetime sum of m over the logs of P in the first n blocks of c.    *)
LifeUnits(c, n, P, m) == UNION {{k} \X Units(c[k], OwnOf(c[k], P), m) : k \in 1 .. n}

Lifetime(c, n, P, m) == Cardinality(LifeUnits(c, n, P, m))

(* The pools of hook h that the stream has seen initialised.               *)
PoolsOf(h) == {p \in Pools \ Legacy : KeyOf[p].hook = h}
=============================================================================
