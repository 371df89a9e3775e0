------------------------- MODULE PipelineProperties -------------------------
(***************************************************************************)
(* What the pipeline guarantees, stated over its variables.                *)
(***************************************************************************)
EXTENDS Pipeline, FiniteSetsExt

IsSequence(s) == s \in Seq({s[i] : i \in DOMAIN s})

IsStore(s, Keys, Values) == DOMAIN s \subseteq Keys /\ s \in [DOMAIN s -> Values]

StoresTyped(s) ==
  /\ IsStore(s.pools, Pools, PoolKey)
  /\ IsStore(s.pool_totals, Pools \X PoolMetrics, Nat)
  /\ IsStore(s.hook_totals, Hooks \X Metrics, Nat)

(* Every variable has its type: there is one snapshot more than there are  *)
(* emitted blocks, and at most one block is in flight (the engine runs the *)
(* manifest of substreams.yaml block by block).                            *)
TypeOK ==
  /\ chain \in Seq(Blocks)
  /\ done \subseteq Modules
  /\ StoresTyped(Snapshot)
  /\ IsSequence(ledger)
  /\ IsSequence(saved)
  /\ Len(saved) = Len(ledger) + 1
  /\ \A n \in 1 .. Len(saved) : StoresTyped(saved[n])
  /\ Len(chain) \in {Len(ledger), Len(ledger) + 1}
  /\ disruptions \in 0 .. MaxDisruptions

(* The stores as each emitted block left them hold exactly what the chain  *)
(* up to that block says: every pool initialised in the stream under its   *)
(* own key, and for each pool and hook the sum over all of its logs --     *)
(* however often a block was run again or undone (the claim of             *)
(* substreams.yaml and stats_store.rs that a replayed block is not added   *)
(* twice).                                                                 *)
PoolsExact(s, n) == s.pools = [p \in Initialised(chain, n) |-> KeyOf[p]]

PoolTotalsExact(s, n) ==
  \A p \in Pools, m \in PoolMetrics :
    Get(s.pool_totals, <<p, m>>) = Lifetime(chain, n, {p}, m)

HookTotalsExact(s, n) ==
  \A h \in Hooks, m \in Metrics :
    Get(s.hook_totals, <<h, m>>) = Lifetime(chain, n, PoolsOf(h), m)

SnapshotsExact ==
  \A n \in 0 .. Len(ledger) :
    /\ PoolsExact(saved[n + 1], n)
    /\ PoolTotalsExact(saved[n + 1], n)
    /\ HookTotalsExact(saved[n + 1], n)

(* A swap or liquidity row is emitted with its pool's own key if the       *)
(* stream contains the pool's Initialize, earlier in the same block        *)
(* included, and with no identity at all otherwise: never with another     *)
(* pool's, never invented (enrich.rs).                                     *)
RowsResolve ==
  \A n \in 1 .. Len(ledger) : \A i \in DOMAIN ledger[n].rows :
    LET row == ledger[n].rows[i]
    IN  row.log.kind \in {"Swap", "ModifyLiquidity"} =>
          row.key = IF row.log.pool \in Initialised(chain, n)
                    THEN KeyOf[row.log.pool] ELSE NoKey

(* The sum of the values of a function.                                    *)
Total(f) == MapThenSumSet(LAMBDA x : f[x], DOMAIN f)

(* Adding up a column of pool_stats (or hook_stats) over the blocks gives  *)
(* the same column of the latest pool_totals (hook_totals) row, though the *)
(* two are computed by different modules from different inputs             *)
(* (stats_store.rs, test abs_matches_enrich_convention).                   *)
StatsOf(table, id, m) == IF id \in DOMAIN table THEN table[id].count[m] ELSE 0

TotalsAreRunningSums ==
  \A n \in 1 .. Len(ledger) :
    /\ \A p \in DOMAIN ledger[n].pool_totals, m \in PoolMetrics :
         ledger[n].pool_totals[p].count[m]
           = Total([k \in 1 .. n |-> StatsOf(ledger[k].pool_stats, p, m)])
    /\ \A h \in DOMAIN ledger[n].hook_totals, m \in {"swaps", "vol0", "vol1"} :
         ledger[n].hook_totals[h][m]
           = Total([k \in 1 .. n |-> StatsOf(ledger[k].hook_stats, h, m)])

(* Whenever a block is finished, a hook's totals are the sums of the       *)
(* totals of the pools known under it and its pool_count is the number of  *)
(* those pools, though the one store reads enriched rows and the other raw *)
(* ones: no row is attributed to the wrong hook, lost between the two      *)
(* paths or counted twice.                                                 *)
HooksCoverTheirPools ==
  ~InFlight =>
    \A h \in Hooks :
      LET under == {p \in DOMAIN store_pools : store_pools[p].hook = h}
      IN  /\ \A m \in PoolMetrics :
               Get(store_hook_totals, <<h, m>>)
                 = Total([p \in under |-> Get(store_pool_totals, <<p, m>>)])
          /\ Get(store_hook_totals, <<h, "pools">>) = Cardinality(under)

(* The add stores never hold a key whose only content is zero, so a scan   *)
(* over a prefix sees what really traded (stats_store.rs, add_delta).      *)
NoZeroKeys ==
  /\ \A k \in DOMAIN store_pool_totals : store_pool_totals[k] > 0
  /\ \A k \in DOMAIN store_hook_totals : store_hook_totals[k] > 0

(* Whatever the order the modules run in, the crashes and the reorgs, the  *)
(* emitted blocks are the ones the abstract ledger emits.                  *)
L == INSTANCE Ledger WITH chain <- SubSeq(chain, 1, Len(ledger))

ImplementsLedger == L!Spec

(* A block handed to the engine is emitted, unless a reorg takes it away:  *)
(* the modules never wait for one another in a circle.                     *)
EveryBlockEmitted ==
  \A n \in 1 .. MaxBlocks : Len(chain) = n ~> (Len(ledger) = n \/ Len(chain) < n)
=============================================================================
