----------------------------- MODULE Aggregator -----------------------------
(***************************************************************************)
(* The aggregator hooks' rows (aggregator.rs): extract() walks the logs of *)
(* a block once and pairs a protocol-fee log with the HookSwap of the same *)
(* call through a single slot; enrich() then marks a row verified when its *)
(* emitter is the hook in the pool's PoolKey.                              *)
(*                                                                         *)
(* Logs are matched by topic from any emitter, and calls nest: a hook may  *)
(* route through another aggregator pool between its fee and its HookSwap, *)
(* so the logs of two emitters interleave freely within a transaction.     *)
(***************************************************************************)
EXTENDS Integers, Sequences, FiniteSets

CONSTANTS
  Emitters,    \* contracts that emit the aggregator topics
  Pools,       \* pool ids
  HookOf,      \* the hook in the PoolKey of each pool
  MaxLogs,     \* bound: logs in a block
  MaxBlocks,   \* bound: blocks
  MaxTxs       \* bound: transactions

ASSUME AggregatorAssumption ==
  /\ HookOf \in [Pools -> Emitters]
  /\ MaxLogs \in Nat /\ MaxBlocks \in Nat /\ MaxTxs \in Nat

NoFee == 0    \* no fee: an index no log has

VARIABLES
  logs,      \* the aggregator logs of the block so far
  tx,        \* the transaction that is emitting
  pending,   \* the slot: index of the fee log it holds, or NoFee
  swaps,     \* index of a HookSwap row -> its pool and the fee it carries
  fees,      \* indices of the fee rows
  pools,     \* index of a registration row -> its pool
  known,     \* pool in store_pools -> the place of its Initialize in the block, 0 if earlier
  emitted    \* the verdicts on the rows of each finished block

vars == <<logs, tx, pending, swaps, fees, pools, known, emitted>>

Kinds == {"HookSwap", "AggregatorPoolRegistered", "ProtocolFeesCollected"}

(* A log is short when it lacks the topics or the data its event has.      *)
AggregatorLog == [kind : Kinds, by : Emitters, short : BOOLEAN, tx : Nat]

(* The index of the next log of the block.                                 *)
Here == Len(logs) + 1

Emit(kind, by, short) ==
  /\ Len(logs) < MaxLogs
  /\ logs' = Append(logs, [kind |-> kind, by |-> by, short |-> short, tx |-> tx])

With(rows, row) == [i \in DOMAIN rows \cup {Here} |-> IF i = Here THEN row ELSE rows[i]]

-----------------------------------------------------------------------------
(* extract().                                                              *)

(* Faulty: the emitter of the fee is not compared.                         *)
MatchAnyHook(by) ==
  IF pending # NoFee /\ logs[pending].tx = tx THEN pending ELSE NoFee

(* The fee in the slot, if this contract logged it in this transaction.    *)
Match(by) ==
  IF pending # NoFee /\ logs[pending].tx = tx /\ logs[pending].by = by
  THEN pending ELSE NoFee

(* pending.take(): the slot is emptied whether or not the fee fits.        *)
HookSwap(by, pool) ==
  /\ Emit("HookSwap", by, FALSE)
  /\ swaps' = With(swaps, [pool |-> pool, fee |-> Match(by)])
  /\ pending' = NoFee
  /\ UNCHANGED <<tx, fees, pools, known, emitted>>

AggregatorPoolRegistered(by, pool) ==
  /\ Emit("AggregatorPoolRegistered", by, FALSE)
  /\ pools' = With(pools, pool)
  /\ UNCHANGED <<tx, pending, swaps, fees, known, emitted>>

(* Faulty: a fee that is already waiting keeps the slot.                   *)
SlotFirstFee == IF pending = NoFee THEN Here ELSE pending

(* The slot forgets any fee it held.                                       *)
Slot == Here

ProtocolFeesCollected(by) ==
  /\ Emit("ProtocolFeesCollected", by, FALSE)
  /\ fees' = fees \cup {Here}
  /\ pending' = Slot
  /\ UNCHANGED <<tx, swaps, pools, known, emitted>>

(* A short log matches no branch: it neither makes a row nor takes the     *)
(* slot.                                                                   *)
Short(kind, by) ==
  /\ Emit(kind, by, TRUE)
  /\ UNCHANGED <<tx, pending, swaps, fees, pools, known, emitted>>

-----------------------------------------------------------------------------
(* The chain, and the end of the block.                                    *)

NextTx ==
  /\ tx < MaxTxs
  /\ tx' = tx + 1
  /\ UNCHANGED <<logs, pending, swaps, fees, pools, known, emitted>>

(* The PoolManager initialises a pool: store_pools will have it.           *)
Initialize(pool) ==
  /\ pool \notin DOMAIN known
  /\ known' = [p \in DOMAIN known \cup {pool} |-> IF p = pool THEN Len(logs) ELSE known[p]]
  /\ UNCHANGED <<logs, tx, pending, swaps, fees, pools, emitted>>

(* Faulty: get_at, the store as it stood at the row's own log.             *)
VerifiedAtLog(i, pool) ==
  pool \in DOMAIN known /\ known[pool] < i /\ HookOf[pool] = logs[i].by

(* store_pools is read with get_last.                                      *)
Verified(i, pool) == pool \in DOMAIN known /\ HookOf[pool] = logs[i].by

Verdict(i, pool) == [pool |-> pool, by |-> logs[i].by, verified |-> Verified(i, pool)]

(* Faulty: the slot outlives the block.                                    *)
SlotKept == pending

(* extract() starts with an empty slot.                                    *)
SlotAtStart == NoFee

(* enrich() at the end of the block; the next extract() starts afresh.     *)
Enrich ==
  /\ Len(emitted) < MaxBlocks
  /\ emitted' = Append(emitted, {Verdict(i, swaps[i].pool) : i \in DOMAIN swaps}
                                  \cup {Verdict(i, pools[i]) : i \in DOMAIN pools})
  /\ logs' = <<>> /\ pending' = SlotAtStart /\ swaps' = <<>> /\ fees' = {} /\ pools' = <<>>
  /\ known' = [p \in DOMAIN known |-> 0]
  /\ tx' = tx + 1

Init ==
  /\ logs = <<>> /\ tx = 1 /\ pending = NoFee
  /\ swaps = <<>> /\ fees = {} /\ pools = <<>>
  /\ known = <<>> /\ emitted = <<>>

Next ==
  \/ /\ Len(emitted) < MaxBlocks
     /\ \/ \E by \in Emitters, pool \in Pools :
             HookSwap(by, pool) \/ AggregatorPoolRegistered(by, pool)
        \/ \E by \in Emitters : ProtocolFeesCollected(by)
        \/ \E kind \in Kinds, by \in Emitters : Short(kind, by)
        \/ NextTx
        \/ \E pool \in Pools : Initialize(pool)
  \/ Enrich

Spec == Init /\ [][Next]_vars

-----------------------------------------------------------------------------
(* Every variable has its type: rows point at logs of their own kind, and  *)
(* the slot holds a fee log of this block (aggregator.rs, extract).        *)
TypeOK ==
  /\ logs \in Seq(AggregatorLog)
  /\ tx \in Nat
  /\ fees \subseteq {i \in DOMAIN logs : logs[i].kind = "ProtocolFeesCollected"}
  /\ DOMAIN pools \subseteq {i \in DOMAIN logs : logs[i].kind = "AggregatorPoolRegistered"}
  /\ DOMAIN swaps \subseteq {i \in DOMAIN logs : logs[i].kind = "HookSwap"}
  /\ swaps \in [DOMAIN swaps -> [pool : Pools, fee : fees \cup {NoFee}]]
  /\ pools \in [DOMAIN pools -> Pools]
  /\ pending \in fees \cup {NoFee}
  /\ DOMAIN known \subseteq Pools /\ known \in [DOMAIN known -> Nat]

SameCall(i, j) == logs[i].tx = logs[j].tx /\ logs[i].by = logs[j].by

(* No fee or swap row lies between logs i and j.                           *)
Adjacent(i, j) == \A k \in DOMAIN swaps \cup fees : ~(i < k /\ k < j)

(* A HookSwap row never carries another contract's fee, another            *)
(* transaction's, or a later one; a fee is carried by one row at most; and *)
(* between the fee and the row that carries it no other fee or swap was    *)
(* logged, so it is the latest one (aggregator.rs, extract).               *)
FeesPaidOnce ==
  \A j \in DOMAIN swaps :
    LET i == swaps[j].fee
    IN  i # NoFee => /\ i < j /\ SameCall(i, j) /\ Adjacent(i, j)
                     /\ \A k \in DOMAIN swaps : swaps[k].fee = i => k = j

(* Conversely a swap whose call logged its fee last, with no other         *)
(* aggregator call in between, carries that fee: calls that do not nest    *)
(* are paired exactly (aggregator.rs, extract).                            *)
AdjacentFeeMatched ==
  \A j \in DOMAIN swaps, i \in fees :
    i < j /\ SameCall(i, j) /\ Adjacent(i, j) => swaps[j].fee = i

(* The rows that one contract emits on one pool are all verified or all    *)
(* unverified within a block, wherever in the block the pool's Initialize  *)
(* is; and what is once verified is verified in every later block          *)
(* (aggregator.rs, enrich).                                                *)
VerdictsAgree ==
  \A m, n \in DOMAIN emitted :
    \A v \in emitted[m], w \in emitted[n] :
      m <= n /\ v.pool = w.pool /\ v.by = w.by =>
        /\ v.verified => w.verified
        /\ m = n => v.verified = w.verified
=============================================================================
