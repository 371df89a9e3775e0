------------------------------ MODULE Pipeline ------------------------------
(***************************************************************************)
(* The dataflow of the package (substreams.yaml, lib.rs): modules that run *)
(* once per block in any order their inputs allow, three stores that carry *)
(* state from block to block, and an engine that may crash in the middle   *)
(* of a block, or undo blocks on a reorg.                                  *)
(*                                                                         *)
(* A map module's output lives for one block; a store lives on.  The       *)
(* token-metadata columns, the prices and the aggregator rows that the     *)
(* same modules also fill are left out here.                               *)
(***************************************************************************)
EXTENDS PoolLogs

CONSTANTS
  MaxLogs,          \* bound: logs in a block
  MaxBlocks,        \* bound: length of the chain
  MaxDisruptions    \* bound: crashes and reorgs in a behaviour

ASSUME BoundsAssumption ==
  MaxLogs \in Nat /\ MaxBlocks \in Nat /\ MaxDisruptions \in Nat

Blocks == UNION {[1 .. k -> Logs] : k \in 0 .. MaxLogs}

VARIABLES
  chain,               \* the blocks handed to the engine, the last one perhaps still in flight
  done,                \* the modules that have run on the block in flight
  events,              \* map_events' output: log index -> decoded row
  enriched,            \* map_enriched's output
  totals,              \* map_totals' output
  store_pools,         \* pool id -> PoolKey
  store_pool_totals,   \* <<pool, metric>> -> sum
  store_hook_totals,   \* <<hook, metric>> -> sum
  saved,               \* saved[n+1]: the three stores as block n left them
  ledger,              \* ledger[n]: what db_out emitted for block n
  disruptions          \* crashes and reorgs so far

stores == <<store_pools, store_pool_totals, store_hook_totals>>
outputs == <<events, enriched, totals>>
vars == <<chain, done, outputs, stores, saved, ledger, disruptions>>

Empty == <<>>    \* the function with no keys: a store before its first write

-----------------------------------------------------------------------------
(* The manifest: which modules must have run on the block before m may.    *)

Modules == {"map_events", "store_pools", "store_pool_totals", "map_enriched",
            "store_hook_totals", "map_totals", "db_out"}

(* Faulty: the join does not wait for the pool store.                      *)
InputsJoinEarly ==
  [map_events        |-> {},
   store_pools       |-> {"map_events"},
   store_pool_totals |-> {"map_events"},
   map_enriched      |-> {"map_events"},
   store_hook_totals |-> {"map_enriched"},
   map_totals        |-> {"map_enriched", "store_pool_totals", "store_hook_totals"},
   db_out            |-> {"map_totals"}]

(* Faulty: the join reads the store that is built from the join.           *)
InputsCircular ==
  [map_events        |-> {},
   store_pools       |-> {"map_events"},
   store_pool_totals |-> {"map_events"},
   map_enriched      |-> {"map_events", "store_pools", "store_hook_totals"},
   store_hook_totals |-> {"map_enriched"},
   map_totals        |-> {"map_enriched", "store_pool_totals", "store_hook_totals"},
   db_out            |-> {"map_totals"}]

Inputs ==
  [map_events        |-> {},
   store_pools       |-> {"map_events"},
   store_pool_totals |-> {"map_events"},
   map_enriched      |-> {"map_events", "store_pools"},
   store_hook_totals |-> {"map_enriched"},
   map_totals        |-> {"map_enriched", "store_pool_totals", "store_hook_totals"},
   db_out            |-> {"map_totals"}]

InFlight == Len(chain) > Len(ledger)

block == chain[Len(chain)]

(* m runs on the block in flight.                                          *)
Run(m) ==
  /\ InFlight
  /\ m \notin done
  /\ Inputs[m] \subseteq done
  /\ done' = done \cup {m}

-----------------------------------------------------------------------------
(* map_events: the PoolManager's logs decoded, in log order.  The log's    *)
(* address is the filter: another contract may emit the same topics.       *)
Decode(b) == [i \in {j \in DOMAIN b : b[j].by = "PoolManager"} |-> b[i]]

MapEvents ==
  /\ Run("map_events")
  /\ events' = Decode(block)
  /\ UNCHANGED <<chain, enriched, totals, stores, saved, ledger, disruptions>>

Rows(K) == {i \in DOMAIN events : events[i].kind \in K}

(* Faulty: a record is written for every row that carries a pool id.       *)
RememberEveryRow(store) ==
  LET seen == {events[i].pool : i \in DOMAIN events}
  IN  [p \in DOMAIN store \cup seen |->
         IF p \in {events[i].pool : i \in Rows({"Initialize"})} THEN KeyOf[p]
         ELSE IF p \in DOMAIN store THEN store[p] ELSE NoKey]

(* store_pools: `set` of the whole record, once per Initialize row.        *)
Remember(store) ==
  LET created == {events[i].pool : i \in Rows({"Initialize"})}
  IN  [p \in DOMAIN store \cup created |-> IF p \in created THEN KeyOf[p] ELSE store[p]]

StorePools ==
  /\ Run("store_pools")
  /\ store_pools' = Remember(store_pools)
  /\ UNCHANGED <<chain, outputs, store_pool_totals, store_hook_totals, saved, ledger,
                 disruptions>>

-----------------------------------------------------------------------------
(* An add store: a missing key reads as zero, a zero component is not      *)
(* written.                                                                *)
Get(store, k) == IF k \in DOMAIN store THEN store[k] ELSE 0

(* Faulty: `set` semantics, the block's own sum replaces the running one.  *)
AddDeltaReplaces(store, delta) ==
  LET moved == {k \in DOMAIN delta : delta[k] > 0}
  IN  [k \in DOMAIN store \cup moved |-> IF k \in moved THEN delta[k] ELSE store[k]]

(* Faulty: zero components are written too.                                *)
AddDeltaWritesZeros(store, delta) ==
  [k \in DOMAIN store \cup DOMAIN delta |->
     Get(store, k) + (IF k \in DOMAIN delta THEN delta[k] ELSE 0)]

AddDelta(store, delta) ==
  [k \in DOMAIN store \cup {j \in DOMAIN delta : delta[j] > 0} |->
     Get(store, k) + (IF k \in DOMAIN delta THEN delta[k] ELSE 0)]

(* pool_deltas: the raw rows of this block, one delta per pool.            *)
PoolDeltas ==
  LET active == {events[i].pool : i \in Rows({"Swap", "ModifyLiquidity"})}
  IN  [k \in active \X PoolMetrics |->
         Tally(events, {i \in Rows({"Swap", "ModifyLiquidity"}) : events[i].pool = k[1]}, k[2])]

StorePoolTotals ==
  /\ Run("store_pool_totals")
  /\ store_pool_totals' = AddDelta(store_pool_totals, PoolDeltas)
  /\ UNCHANGED <<chain, outputs, store_pools, store_hook_totals, saved, ledger, disruptions>>

-----------------------------------------------------------------------------
(* Faulty: get_first, the store as the previous block left it.             *)
ResolveFirst(p) ==
  LET store == saved[Len(saved)].pools
  IN  IF p \in DOMAIN store THEN store[p] ELSE NoKey

(* map_enriched: the join.  resolve() is a get_last on store_pools, so a   *)
(* pool initialised anywhere in this block is found.                       *)
Resolve(p) == IF p \in DOMAIN store_pools THEN store_pools[p] ELSE NoKey

HasHook(key) == key # NoKey /\ key.hook # NoHook

(* Faulty: liquidity rows are left out of the join.                        *)
RowKeySwapsOnly(l) ==
  CASE l.kind = "Initialize" -> KeyOf[l.pool]
    [] l.kind = "Swap" -> Resolve(l.pool)
    [] OTHER -> NoKey

(* An Initialize row names its own key; a Donate row is never joined.      *)
RowKey(l) ==
  CASE l.kind = "Initialize" -> KeyOf[l.pool]
    [] l.kind \in {"Swap", "ModifyLiquidity"} -> Resolve(l.pool)
    [] OTHER -> NoKey

(* The accumulator of one pool, from which both statistics are emitted.    *)
RowsOf(P) == {i \in Rows({"Swap", "ModifyLiquidity"}) : events[i].pool \in P}

SwapFees(P) == {events[i].fee : i \in RowsOf(P) \cap Rows({"Swap"})}

(* Faulty: the signed amount, of which a negative one adds nothing.        *)
AbsAmountSigned(x) == x

(* The join has a convention of its own for volume, which stats_store.rs   *)
(* repeats for the totals (Weight): the magnitude of a leg.                *)
AbsAmount(x) == IF x < 0 THEN -x ELSE x

(* What a row adds to a counter of its pool's accumulator.                 *)
Adds(row, m) ==
  IF row.kind = "ModifyLiquidity" THEN (IF m = "modifies" THEN 1 ELSE 0)
  ELSE CASE m = "swaps" -> 1
         [] m = "vol0"  -> AbsAmount(row.a0)
         [] m = "vol1"  -> AbsAmount(row.a1)
         [] OTHER       -> 0

(* The counters of the accumulators of P, as numbers of units (PoolLogs).  *)
Accumulated(P, m) == Cardinality(UNION {{i} \X (1 .. Adds(events[i], m)) : i \in RowsOf(P)})

PoolStats ==
  [p \in {events[i].pool : i \in Rows({"Swap", "ModifyLiquidity"})} |->
     [key   |-> Resolve(p),
      count |-> [m \in PoolMetrics |-> Accumulated({p}, m)]]]

(* Unresolved and hookless pools are left out of the roll-up.              *)
HookStats ==
  LET hooked == {p \in DOMAIN PoolStats : HasHook(Resolve(p))}
      under(h) == {p \in hooked : Resolve(p).hook = h}
  IN  [h \in {Resolve(p).hook : p \in hooked} |->
         [pool_count |-> Cardinality(under(h)),
          count      |-> [m \in {"swaps", "vol0", "vol1"} |-> Accumulated(under(h), m)],
          fees       |-> Cardinality(SwapFees(under(h)))]]

MapEnriched ==
  /\ Run("map_enriched")
  /\ enriched' = [rows       |-> [i \in DOMAIN events |->
                                    [log |-> events[i], key |-> RowKey(events[i])]],
                  pool_stats |-> PoolStats,
                  hook_stats |-> HookStats]
  /\ UNCHANGED <<chain, events, totals, stores, saved, ledger, disruptions>>

-----------------------------------------------------------------------------
(* hook_deltas: the enriched rows, one delta per hook they name.           *)
RowHooks == {enriched.rows[i].key.hook :
               i \in {j \in DOMAIN enriched.rows : HasHook(enriched.rows[j].key)}}

HookDeltas ==
  LET under(h) == {i \in DOMAIN enriched.rows :
                     HasHook(enriched.rows[i].key) /\ enriched.rows[i].key.hook = h}
      logs == [i \in DOMAIN enriched.rows |-> enriched.rows[i].log]
  IN  [k \in RowHooks \X Metrics |-> Tally(logs, under(k[1]), k[2])]

StoreHookTotals ==
  /\ Run("store_hook_totals")
  /\ store_hook_totals' = AddDelta(store_hook_totals, HookDeltas)
  /\ UNCHANGED <<chain, outputs, store_pools, store_pool_totals, saved, ledger, disruptions>>

-----------------------------------------------------------------------------
(* map_totals: the finished sums of every pool and hook the block touched. *)

Noted == {i \in DOMAIN enriched.rows :
            enriched.rows[i].log.kind \in {"Initialize", "Swap", "ModifyLiquidity"}}

(* note(): a row that carries an identity beats one that does not.         *)
NotedKey(p) ==
  LET named == {i \in Noted : enriched.rows[i].log.pool = p /\ enriched.rows[i].key # NoKey}
  IN  IF named = {} THEN NoKey ELSE enriched.rows[CHOOSE i \in named : TRUE].key

(* Faulty: get_first, the sums before this block.                          *)
PoolTotalsBefore ==
  [p \in {enriched.rows[i].log.pool : i \in Noted} |->
     [key   |-> NotedKey(p),
      count |-> [m \in PoolMetrics |-> Get(saved[Len(saved)].pool_totals, <<p, m>>)]]]

PoolTotals ==
  [p \in {enriched.rows[i].log.pool : i \in Noted} |->
     [key   |-> NotedKey(p),
      count |-> [m \in PoolMetrics |-> Get(store_pool_totals, <<p, m>>)]]]

HookTotals ==
  LET keys == {PoolTotals[p].key : p \in DOMAIN PoolTotals}
  IN  [h \in {key.hook : key \in {k \in keys : HasHook(k)}} |->
         [m \in Metrics |-> Get(store_hook_totals, <<h, m>>)]]

MapTotals ==
  /\ Run("map_totals")
  /\ totals' = [rows        |-> enriched.rows,
                pool_stats  |-> enriched.pool_stats,
                hook_stats  |-> enriched.hook_stats,
                pool_totals |-> PoolTotals,
                hook_totals |-> HookTotals]
  /\ UNCHANGED <<chain, events, enriched, stores, saved, ledger, disruptions>>

-----------------------------------------------------------------------------
(* db_out emits the block, and with that the engine has finished it: the   *)
(* stores as they stand are what the next block starts from.               *)
Snapshot == [pools       |-> store_pools,
             pool_totals |-> store_pool_totals,
             hook_totals |-> store_hook_totals]

DbOut ==
  /\ Run("db_out")
  /\ ledger' = Append(ledger, totals)
  /\ saved' = Append(saved, Snapshot)
  /\ events' = Empty /\ enriched' = Empty /\ totals' = Empty
  /\ UNCHANGED <<chain, stores, disruptions>>

-----------------------------------------------------------------------------
(* The engine.                                                             *)

NewBlock(b) ==
  /\ ~InFlight
  /\ Len(chain) < MaxBlocks
  /\ Legal(b, chain)
  /\ chain' = Append(chain, b)
  /\ done' = {}
  /\ UNCHANGED <<outputs, stores, saved, ledger, disruptions>>

(* Go back to the stores as block n left them.                             *)
Restore(n) ==
  /\ store_pools' = saved[n + 1].pools
  /\ store_pool_totals' = saved[n + 1].pool_totals
  /\ store_hook_totals' = saved[n + 1].hook_totals
  /\ events' = Empty /\ enriched' = Empty /\ totals' = Empty
  /\ done' = {}
  /\ disruptions < MaxDisruptions
  /\ disruptions' = disruptions + 1

(* A crash in the middle of a block: the block is executed again.          *)
Crash ==
  /\ InFlight
  /\ done # {}
  /\ Restore(Len(ledger))
  /\ UNCHANGED <<chain, saved, ledger>>

(* A reorg: the last block is undone, whether it is in flight or emitted.  *)
Undo ==
  /\ chain # <<>>
  /\ LET n == Len(chain) - 1
     IN  /\ Restore(n)
         /\ chain' = SubSeq(chain, 1, n)
         /\ ledger' = SubSeq(ledger, 1, n)
         /\ saved' = SubSeq(saved, 1, n + 1)

-----------------------------------------------------------------------------
Init ==
  /\ chain = <<>> /\ ledger = <<>> /\ done = {} /\ disruptions = 0
  /\ events = Empty /\ enriched = Empty /\ totals = Empty
  /\ store_pools = Empty /\ store_pool_totals = Empty /\ store_hook_totals = Empty
  /\ saved = <<Snapshot>>

RunModule ==
  \/ MapEvents
  \/ StorePools
  \/ StorePoolTotals
  \/ MapEnriched
  \/ StoreHookTotals
  \/ MapTotals
  \/ DbOut

Next ==
  \/ \E b \in Blocks : NewBlock(b)
  \/ RunModule
  \/ Crash
  \/ Undo

Spec == Init /\ [][Next]_vars

(* The engine schedules a module whose inputs are ready.                   *)
FairSpec == Spec /\ WF_vars(RunModule)
=============================================================================
