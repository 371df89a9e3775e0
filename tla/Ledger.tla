------------------------------- MODULE Ledger -------------------------------
(***************************************************************************)
(* What the pipeline promises its sink: the rows of each block, computed   *)
(* from the chain alone.  No stores, no stages and no crashes: a block is  *)
(* appended together with all its rows, or a reorg takes both away.        *)
(***************************************************************************)
EXTENDS PoolLogs

CONSTANT Blocks     \* the blocks the chain may append

VARIABLES
  chain,    \* the blocks of the canonical chain
  ledger    \* ledger[n]: what was emitted for block n

vars == <<chain, ledger>>

Identity(p) == IF p \in Legacy THEN NoKey ELSE KeyOf[p]

Active(b) == PoolsIn(b, OfKind(b, {"Swap", "ModifyLiquidity"}))

Touched(b) == Active(b) \cup InitsIn(b)

HooksOf(P) == {KeyOf[p].hook : p \in P \ Legacy} \ {NoHook}

(* The swap fees charged in block b by the pools P.                        *)
Fees(b, P) == {b[i].fee : i \in OwnOf(b, P) \cap OfKind(b, {"Swap"})}

RowsOf(b) ==
  [i \in Own(b) |-> [log |-> b[i],
                     key |-> IF b[i].kind = "Donate" THEN NoKey
                             ELSE Identity(b[i].pool)]]

PoolStatsOf(b) ==
  [p \in Active(b) |-> [key   |-> Identity(p),
                        count |-> [m \in PoolMetrics |-> Tally(b, OwnOf(b, {p}), m)]]]

HookStatsOf(b) ==
  [h \in HooksOf(Active(b)) |->
     [pool_count |-> Cardinality(Active(b) \cap PoolsOf(h)),
      count      |-> [m \in {"swaps", "vol0", "vol1"} |-> Tally(b, OwnOf(b, PoolsOf(h)), m)],
      fees       |-> Cardinality(Fees(b, PoolsOf(h)))]]

PoolTotalsOf(c, n) ==
  [p \in Touched(c[n]) |-> [key   |-> Identity(p),
                            count |-> [m \in PoolMetrics |-> Lifetime(c, n, {p}, m)]]]

HookTotalsOf(c, n) ==
  [h \in HooksOf(Touched(c[n])) |-> [m \in Metrics |-> Lifetime(c, n, PoolsOf(h), m)]]

Output(c, n) ==
  [rows        |-> RowsOf(c[n]),
   pool_stats  |-> PoolStatsOf(c[n]),
   hook_stats  |-> HookStatsOf(c[n]),
   pool_totals |-> PoolTotalsOf(c, n),
   hook_totals |-> HookTotalsOf(c, n)]

-----------------------------------------------------------------------------
Init == chain = <<>> /\ ledger = <<>>

Emit(b) ==
  /\ Legal(b, chain)
  /\ chain' = Append(chain, b)
  /\ ledger' = Append(ledger, Output(chain', Len(chain')))

Reorg ==
  /\ chain # <<>>
  /\ chain' = SubSeq(chain, 1, Len(chain) - 1)
  /\ ledger' = SubSeq(ledger, 1, Len(chain) - 1)

Next == (\E b \in Blocks : Emit(b)) \/ Reorg

Spec == Init /\ [][Next]_vars
=============================================================================
