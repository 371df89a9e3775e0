-------------------------- MODULE AggregatorProofs --------------------------
(***************************************************************************)
(* The pairing of fees and swaps, for any emitters, pools and number of    *)
(* logs.                                                                   *)
(***************************************************************************)
EXTENDS Aggregator, TLAPS

(* The slot holds the last row of all, and only a last row can be waiting  *)
(* for its swap.                                                           *)
SlotIsLast ==
  /\ pending # NoFee =>
       /\ \A k \in DOMAIN swaps \cup fees : k <= pending
       /\ \A k \in DOMAIN swaps : swaps[k].fee # pending
  /\ \A i \in fees : i = pending \/ \E k \in DOMAIN swaps \cup fees : i < k

IInv == TypeOK /\ FeesPaidOnce /\ AdjacentFeeMatched /\ SlotIsLast

-----------------------------------------------------------------------------
LEMMA InitIInv == Init => IInv
BY DEF Init, IInv, TypeOK, FeesPaidOnce, AdjacentFeeMatched, SlotIsLast, NoFee, AggregatorLog

(* A log is appended behind all the others.                                *)
LEMMA EmitFacts ==
  ASSUME TypeOK, NEW kind \in Kinds, NEW by \in Emitters, NEW short \in BOOLEAN,
         Emit(kind, by, short)
  PROVE  /\ logs' \in Seq(AggregatorLog)
         /\ Here \in Nat \ {0} /\ DOMAIN logs = 1 .. Here - 1 /\ DOMAIN logs' = 1 .. Here
         /\ \A i \in DOMAIN logs : logs'[i] = logs[i] /\ i < Here
         /\ logs'[Here] = [kind |-> kind, by |-> by, short |-> short, tx |-> tx]
<1>1. logs \in Seq(AggregatorLog) /\ tx \in Nat
  BY DEF TypeOK
<1> DEFINE l == [kind |-> kind, by |-> by, short |-> short, tx |-> tx]
<1>2. l \in AggregatorLog
  BY <1>1 DEF AggregatorLog
<1>3. logs' = Append(logs, l)
  BY DEF Emit
<1> HIDE DEF l
<1>4. logs' \in Seq(AggregatorLog) /\ Len(logs') = Len(logs) + 1 /\ Len(logs) \in Nat
      /\ DOMAIN logs = 1 .. Len(logs) /\ DOMAIN logs' = 1 .. Len(logs) + 1
      /\ logs'[Len(logs) + 1] = l
      /\ \A i \in 1 .. Len(logs) : logs'[i] = logs[i]
  BY <1>1, <1>2, <1>3
<1> QED
  BY <1>4 DEF Here, l

(* The rows there were keep what is said of them when a log is appended    *)
(* and no fee or swap row is added.                                        *)
LEMMA LogOnlyIInv ==
  ASSUME IInv, NEW kind \in Kinds, NEW by \in Emitters, NEW short \in BOOLEAN,
         Emit(kind, by, short),
         UNCHANGED <<tx, pending, swaps, fees, known>>,
         \/ UNCHANGED pools
         \/ /\ kind = "AggregatorPoolRegistered"
            /\ \E pool \in Pools : pools' = With(pools, pool)
  PROVE  IInv'
<1>1. /\ logs' \in Seq(AggregatorLog)
      /\ Here \in Nat \ {0} /\ DOMAIN logs = 1 .. Here - 1 /\ DOMAIN logs' = 1 .. Here
      /\ \A i \in DOMAIN logs : logs'[i] = logs[i] /\ i < Here
      /\ logs'[Here] = [kind |-> kind, by |-> by, short |-> short, tx |-> tx]
  BY EmitFacts DEF IInv
<1>2. TypeOK /\ fees \subseteq DOMAIN logs /\ DOMAIN swaps \subseteq DOMAIN logs
  BY DEF IInv, TypeOK
<1>3. TypeOK'
  <2>1. /\ DOMAIN pools' \subseteq {i \in DOMAIN logs' : logs'[i].kind = "AggregatorPoolRegistered"}
        /\ pools' \in [DOMAIN pools' -> Pools]
    BY <1>1, <1>2 DEF TypeOK, With
  <2>2. /\ fees' \subseteq {i \in DOMAIN logs' : logs'[i].kind = "ProtocolFeesCollected"}
        /\ DOMAIN swaps' \subseteq {i \in DOMAIN logs' : logs'[i].kind = "HookSwap"}
    BY <1>1, <1>2 DEF TypeOK
  <2> QED
    BY <1>1, <1>2, <2>1, <2>2 DEF TypeOK
<1>4. \A i, j \in DOMAIN logs : SameCall(i, j)' = SameCall(i, j)
  BY <1>1 DEF SameCall
<1>5. \A i, j : Adjacent(i, j)' = Adjacent(i, j)
  BY DEF Adjacent
<1>6. FeesPaidOnce'
  BY <1>2, <1>4, <1>5 DEF IInv, FeesPaidOnce, TypeOK
<1>7. AdjacentFeeMatched'
  BY <1>2, <1>4, <1>5 DEF IInv, AdjacentFeeMatched
<1>8. SlotIsLast'
  BY DEF IInv, SlotIsLast
<1> QED
  BY <1>3, <1>6, <1>7, <1>8 DEF IInv

LEMMA HookSwapIInv ==
  ASSUME IInv, NEW by \in Emitters, NEW pool \in Pools, HookSwap(by, pool)
  PROVE  IInv'
<1>0. /\ Emit("HookSwap", by, FALSE)
      /\ swaps' = With(swaps, [pool |-> pool, fee |-> Match(by)]) /\ pending' = NoFee
      /\ UNCHANGED <<tx, fees, pools, known>>
  BY DEF HookSwap
<1>a. PICK h : h = Here
  OBVIOUS
<1>1. /\ logs' \in Seq(AggregatorLog)
      /\ h \in Nat \ {0} /\ DOMAIN logs = 1 .. h - 1 /\ DOMAIN logs' = 1 .. h
      /\ \A i \in DOMAIN logs : logs'[i] = logs[i] /\ i < h
      /\ logs'[h] = [kind |-> "HookSwap", by |-> by, short |-> FALSE, tx |-> tx]
  BY <1>a, <1>0, EmitFacts DEF IInv, Kinds
<1>2. TypeOK /\ fees \subseteq DOMAIN logs /\ DOMAIN swaps \subseteq DOMAIN logs
      /\ pending \in fees \cup {NoFee} /\ \A i \in fees \cup DOMAIN swaps : i \in Nat \ {0}
  BY <1>1 DEF IInv, TypeOK
<1>3. /\ DOMAIN swaps' = DOMAIN swaps \cup {h}
      /\ swaps'[h] = [pool |-> pool, fee |-> Match(by)]
      /\ \A j \in DOMAIN swaps : swaps'[j] = swaps[j] /\ j # h
  BY <1>a, <1>0, <1>1, <1>2 DEF With
<1>4. Match(by) \in fees \cup {NoFee} /\ (Match(by) # NoFee => Match(by) = pending)
  BY <1>2 DEF Match
<1>5. \A i, j \in DOMAIN logs : SameCall(i, j)' = SameCall(i, j)
  BY <1>1 DEF SameCall
<1>6. \A i \in DOMAIN logs : SameCall(i, h)' <=> (logs[i].tx = tx /\ logs[i].by = by)
  BY <1>1 DEF SameCall
<1>7. \A i, j \in DOMAIN logs : Adjacent(i, j)' = Adjacent(i, j)
  BY <1>0, <1>1, <1>3 DEF Adjacent
<1>8. \A i : Adjacent(i, h)' <=> \A k \in DOMAIN swaps \cup fees : ~(i < k)
  BY <1>0, <1>1, <1>2, <1>3 DEF Adjacent
<1>9. TypeOK'
  <2>1. DOMAIN swaps' \subseteq {i \in DOMAIN logs' : logs'[i].kind = "HookSwap"}
    BY <1>1, <1>2, <1>3 DEF TypeOK
  <2>2. swaps' \in [DOMAIN swaps' -> [pool : Pools, fee : fees' \cup {NoFee}]]
    <3>1. \A j \in DOMAIN swaps' : swaps'[j] \in [pool : Pools, fee : fees' \cup {NoFee}]
      BY <1>0, <1>2, <1>3, <1>4 DEF TypeOK
    <3>2. swaps' = [j \in DOMAIN swaps' |-> swaps'[j]]
      BY <1>0 DEF With
    <3> QED
      BY <3>1, <3>2
  <2>3. fees' \subseteq {i \in DOMAIN logs' : logs'[i].kind = "ProtocolFeesCollected"}
    BY <1>0, <1>1, <1>2 DEF TypeOK
  <2>4. DOMAIN pools' \subseteq {i \in DOMAIN logs' : logs'[i].kind = "AggregatorPoolRegistered"}
    BY <1>0, <1>1, <1>2 DEF TypeOK
  <2> QED
    BY <1>0, <1>1, <1>2, <2>1, <2>2, <2>3, <2>4 DEF TypeOK
<1>10. FeesPaidOnce'
  <2> SUFFICES ASSUME NEW j \in DOMAIN swaps', NEW i, i = swaps'[j].fee, i # NoFee
               PROVE  /\ i < j /\ SameCall(i, j)' /\ Adjacent(i, j)'
                      /\ \A k \in DOMAIN swaps' : swaps'[k].fee = i => k = j
    BY DEF FeesPaidOnce
  <2>1. CASE j \in DOMAIN swaps
    <3>1. i = swaps[j].fee /\ i \in DOMAIN logs /\ j \in DOMAIN logs
      BY <1>2, <1>3, <2>1 DEF TypeOK
    <3>2. Match(by) # i
      BY <1>4, <2>1, <3>1 DEF IInv, SlotIsLast
    <3>3. /\ i < j /\ SameCall(i, j) /\ Adjacent(i, j)
          /\ \A k \in DOMAIN swaps : swaps[k].fee = i => k = j
      BY <2>1, <3>1 DEF IInv, FeesPaidOnce
    <3>4. i < j /\ SameCall(i, j)' /\ Adjacent(i, j)'
      BY <1>5, <1>7, <3>1, <3>3
    <3> QED
      BY <1>3, <3>2, <3>3, <3>4
  <2>2. CASE j = h
    <3>1. i = pending /\ i \in fees /\ Match(by) = i
      BY <1>2, <1>3, <1>4, <2>2
    <3>2. SameCall(i, h)'
      BY <1>2, <1>6, <3>1 DEF Match
    <3>3. \A k \in DOMAIN swaps \cup fees : ~(i < k)
      BY <1>2, <3>1 DEF IInv, SlotIsLast
    <3>4. \A k \in DOMAIN swaps : swaps'[k].fee # i
      BY <1>3, <3>1 DEF IInv, SlotIsLast
    <3> QED
      BY <1>1, <1>2, <1>3, <1>8, <2>2, <3>1, <3>2, <3>3, <3>4
  <2> QED
    BY <1>3, <2>1, <2>2
<1>11. AdjacentFeeMatched'
  <2> SUFFICES ASSUME NEW j \in DOMAIN swaps', NEW i \in fees,
                      i < j, SameCall(i, j)', Adjacent(i, j)'
               PROVE  swaps'[j].fee = i
    BY <1>0 DEF AdjacentFeeMatched
  <2>1. CASE j \in DOMAIN swaps
    BY <1>2, <1>3, <1>5, <1>7, <2>1 DEF IInv, AdjacentFeeMatched
  <2>2. CASE j = h
    <3>1. i = pending
      BY <1>8, <2>2 DEF IInv, SlotIsLast
    <3>2. i # NoFee /\ logs[i].tx = tx /\ logs[i].by = by
      BY <1>2, <1>6, <2>2 DEF NoFee
    <3> QED
      BY <1>3, <2>2, <3>1, <3>2 DEF Match
  <2> QED
    BY <1>3, <2>1, <2>2
<1>12. SlotIsLast'
  BY <1>0, <1>1, <1>2, <1>3 DEF SlotIsLast
<1> QED
  BY <1>9, <1>10, <1>11, <1>12 DEF IInv

LEMMA FeesCollectedIInv ==
  ASSUME IInv, NEW by \in Emitters, ProtocolFeesCollected(by)
  PROVE  IInv'
<1>0. /\ Emit("ProtocolFeesCollected", by, FALSE)
      /\ fees' = fees \cup {Here} /\ pending' = Here
      /\ UNCHANGED <<tx, swaps, pools, known>>
  BY DEF ProtocolFeesCollected, Slot
<1>1. /\ logs' \in Seq(AggregatorLog)
      /\ Here \in Nat \ {0} /\ DOMAIN logs = 1 .. Here - 1 /\ DOMAIN logs' = 1 .. Here
      /\ \A i \in DOMAIN logs : logs'[i] = logs[i] /\ i < Here
      /\ logs'[Here] = [kind |-> "ProtocolFeesCollected", by |-> by, short |-> FALSE, tx |-> tx]
  BY <1>0, EmitFacts DEF IInv, Kinds
<1>2. TypeOK /\ fees \subseteq DOMAIN logs /\ DOMAIN swaps \subseteq DOMAIN logs
      /\ \A j \in DOMAIN swaps : swaps[j].fee \in fees \cup {NoFee}
      /\ \A i \in fees \cup DOMAIN swaps : i \in Nat \ {0} /\ i < Here
  BY <1>1 DEF IInv, TypeOK
<1>3. TypeOK'
  <2>1. fees' \subseteq {i \in DOMAIN logs' : logs'[i].kind = "ProtocolFeesCollected"}
    BY <1>0, <1>1, <1>2 DEF TypeOK
  <2>2. /\ DOMAIN pools' \subseteq {i \in DOMAIN logs' : logs'[i].kind = "AggregatorPoolRegistered"}
        /\ DOMAIN swaps' \subseteq {i \in DOMAIN logs' : logs'[i].kind = "HookSwap"}
    BY <1>0, <1>1, <1>2 DEF TypeOK
  <2>3. swaps' \in [DOMAIN swaps' -> [pool : Pools, fee : fees' \cup {NoFee}]]
    BY <1>0, <1>2 DEF TypeOK
  <2> QED
    BY <1>0, <1>1, <1>2, <2>1, <2>2, <2>3 DEF TypeOK
<1>4. \A i, j \in DOMAIN logs : SameCall(i, j)' = SameCall(i, j)
  BY <1>1 DEF SameCall
<1>5. \A i, j \in DOMAIN logs : Adjacent(i, j)' = Adjacent(i, j)
  BY <1>0, <1>1 DEF Adjacent
<1>6. FeesPaidOnce'
  <2> SUFFICES ASSUME NEW j \in DOMAIN swaps, NEW i, i = swaps[j].fee, i # NoFee
               PROVE  /\ i < j /\ SameCall(i, j)' /\ Adjacent(i, j)'
                      /\ \A k \in DOMAIN swaps : swaps[k].fee = i => k = j
    BY <1>0 DEF FeesPaidOnce
  <2>1. i \in DOMAIN logs /\ j \in DOMAIN logs
    BY <1>2
  <2> QED
    BY <1>4, <1>5, <2>1 DEF IInv, FeesPaidOnce
<1>7. AdjacentFeeMatched'
  <2> SUFFICES ASSUME NEW j \in DOMAIN swaps, NEW i \in fees',
                      i < j, SameCall(i, j)', Adjacent(i, j)'
               PROVE  swaps[j].fee = i
    BY <1>0 DEF AdjacentFeeMatched
  <2>1. i \in fees /\ i \in DOMAIN logs /\ j \in DOMAIN logs
    BY <1>0, <1>1, <1>2
  <2> QED
    BY <1>4, <1>5, <2>1 DEF IInv, AdjacentFeeMatched
<1>8. SlotIsLast'
  BY <1>0, <1>1, <1>2 DEF SlotIsLast, NoFee
<1> QED
  BY <1>3, <1>6, <1>7, <1>8 DEF IInv

LEMMA NextIInv == IInv /\ [Next]_vars => IInv'
<1> SUFFICES ASSUME IInv, [Next]_vars PROVE IInv'
  OBVIOUS
<1>1. ASSUME NEW by \in Emitters, NEW pool \in Pools, HookSwap(by, pool) PROVE IInv'
  BY <1>1, HookSwapIInv
<1>2. ASSUME NEW by \in Emitters, NEW pool \in Pools, AggregatorPoolRegistered(by, pool)
      PROVE IInv'
  BY <1>2, LogOnlyIInv DEF AggregatorPoolRegistered, Kinds
<1>3. ASSUME NEW by \in Emitters, ProtocolFeesCollected(by) PROVE IInv'
  BY <1>3, FeesCollectedIInv
<1>4. ASSUME NEW kind \in Kinds, NEW by \in Emitters, Short(kind, by) PROVE IInv'
  BY <1>4, LogOnlyIInv DEF Short
<1>5. CASE NextTx
  BY <1>5 DEF NextTx, IInv, TypeOK, FeesPaidOnce, AdjacentFeeMatched, SlotIsLast, SameCall,
              Adjacent
<1>6. ASSUME NEW pool \in Pools, Initialize(pool) PROVE IInv'
  <2>1. UNCHANGED <<logs, tx, pending, swaps, fees, pools>>
        /\ known' = [p \in DOMAIN known \cup {pool} |-> IF p = pool THEN Len(logs) ELSE known[p]]
    BY <1>6 DEF Initialize
  <2>2. Len(logs) \in Nat
    BY DEF IInv, TypeOK
  <2>3. DOMAIN known' \subseteq Pools /\ known' \in [DOMAIN known' -> Nat]
    BY <2>1, <2>2 DEF IInv, TypeOK
  <2> QED
    BY <2>1, <2>3 DEF IInv, TypeOK, FeesPaidOnce, AdjacentFeeMatched, SlotIsLast, SameCall,
                      Adjacent
<1>7. CASE Enrich
  <2>1. /\ logs' = <<>> /\ pending' = NoFee /\ swaps' = <<>> /\ fees' = {} /\ pools' = <<>>
        /\ known' = [p \in DOMAIN known |-> 0] /\ tx' = tx + 1
    BY <1>7 DEF Enrich, SlotAtStart
  <2> QED
    BY <2>1 DEF IInv, TypeOK, FeesPaidOnce, AdjacentFeeMatched, SlotIsLast
<1>8. CASE UNCHANGED vars
  BY <1>8 DEF vars, IInv, TypeOK, FeesPaidOnce, AdjacentFeeMatched, SlotIsLast, SameCall, Adjacent
<1> QED
  BY <1>1, <1>2, <1>3, <1>4, <1>5, <1>6, <1>7, <1>8 DEF Next

(* The type invariant and the two halves of the pairing hold together.     *)
THEOREM Invariance == Spec => []IInv
BY InitIInv, NextIInv, PTL DEF Spec

(* However the logs of any number of contracts interleave, a HookSwap row  *)
(* carries only the fee its own contract logged last in the same           *)
(* transaction, and no fee is carried twice (aggregator.rs, extract).      *)
THEOREM FeesNeverMispaired == Spec => []FeesPaidOnce
<1>1. IInv => FeesPaidOnce
  BY DEF IInv
<1> QED
  BY <1>1, Invariance, PTL

(* Calls that do not nest are paired exactly (aggregator.rs, extract).     *)
THEOREM FlatCallsPaired == Spec => []AdjacentFeeMatched
<1>1. IInv => AdjacentFeeMatched
  BY DEF IInv
<1> QED
  BY <1>1, Invariance, PTL

(* Every variable has its type: a row stands at a log of its own kind, and *)
(* the slot holds a fee log of the block (aggregator.rs, extract).         *)
THEOREM TypeCorrect == Spec => []TypeOK
<1>1. IInv => TypeOK
  BY DEF IInv
<1> QED
  BY <1>1, Invariance, PTL

-----------------------------------------------------------------------------
(* The verdicts.                                                           *)

(* A verdict of a past block was the truth of that block, and what is      *)
(* known of a pool is never forgotten.                                     *)
VerdictTrue(v) == v.verified => v.pool \in DOMAIN known /\ HookOf[v.pool] = v.by

VerdictsStand ==
  /\ emitted \in Seq({emitted[n] : n \in DOMAIN emitted})
  /\ \A n \in DOMAIN emitted : \A v \in emitted[n] : VerdictTrue(v)
  /\ VerdictsAgree

LEMMA EnrichVerdicts ==
  ASSUME VerdictsStand, Enrich
  PROVE  VerdictsStand'
<1> DEFINE new == {Verdict(i, swaps[i].pool) : i \in DOMAIN swaps}
                    \cup {Verdict(i, pools[i]) : i \in DOMAIN pools}
<1>1. /\ emitted' = Append(emitted, new)
      /\ DOMAIN known' = DOMAIN known
  BY DEF Enrich
<1>2. \A v \in new : v.verified = (v.pool \in DOMAIN known /\ HookOf[v.pool] = v.by)
  <2>1. \A i, p : LET v == Verdict(i, p)
                  IN  v.verified = (v.pool \in DOMAIN known /\ HookOf[v.pool] = v.by)
    BY DEF Verdict, Verified
  <2>2. \A v \in new : \E i, p : v = Verdict(i, p)
    OBVIOUS
  <2> QED
    BY <2>1, <2>2
<1> HIDE DEF new
<1>3. PICK N \in Nat : N = Len(emitted) /\ DOMAIN emitted = 1 .. N
  BY DEF VerdictsStand
<1> DEFINE E == {emitted[n] : n \in DOMAIN emitted}
<1>4. emitted \in Seq(E \cup {new})
  <2>1. emitted \in Seq(E)
    BY DEF VerdictsStand
  <2>2. E \subseteq E \cup {new}
    OBVIOUS
  <2> HIDE DEF E
  <2> QED
    BY <2>1, <2>2
<1> HIDE DEF E
<1>5. /\ emitted' \in Seq(E \cup {new})
      /\ DOMAIN emitted' = 1 .. N + 1 /\ emitted'[N + 1] = new
      /\ \A n \in 1 .. N : emitted'[n] = emitted[n]
  BY <1>1, <1>3, <1>4
<1>6. emitted' \in Seq({emitted'[n] : n \in DOMAIN emitted'})
  BY <1>5
<1>7. \A v : VerdictTrue(v)' <=> VerdictTrue(v)
  BY <1>1 DEF VerdictTrue
<1>8. \A n \in DOMAIN emitted' : \A v \in emitted'[n] : VerdictTrue(v)'
  <2> TAKE n \in DOMAIN emitted'
  <2>1. CASE n \in 1 .. N
    BY <1>3, <1>5, <1>7, <2>1 DEF VerdictsStand
  <2>2. CASE n = N + 1
    BY <1>2, <1>5, <1>7, <2>2 DEF VerdictTrue
  <2> QED
    BY <1>5, <2>1, <2>2
<1>9. VerdictsAgree'
  <2> SUFFICES ASSUME NEW m \in 1 .. N + 1, NEW n \in 1 .. N + 1,
                      NEW v \in emitted'[m], NEW w \in emitted'[n],
                      m <= n, v.pool = w.pool, v.by = w.by
               PROVE  /\ v.verified => w.verified
                      /\ m = n => v.verified = w.verified
    BY <1>5 DEF VerdictsAgree
  <2>1. CASE n \in 1 .. N
    <3>1. m \in 1 .. N /\ v \in emitted[m] /\ w \in emitted[n]
      BY <1>3, <1>5, <2>1
    <3> QED
      BY <1>3, <2>1, <3>1 DEF VerdictsStand, VerdictsAgree
  <2>2. CASE n = N + 1 /\ m = N + 1
    <3>1. v \in new /\ w \in new
      BY <1>5, <2>2
    <3>2. v.verified = w.verified
      BY <1>2, <3>1, Zenon
    <3> QED
      BY <3>2
  <2>3. CASE n = N + 1 /\ m \in 1 .. N
    <3>1. VerdictTrue(v)
      BY <1>3, <1>5, <2>3 DEF VerdictsStand
    <3>2. m # n
      BY <1>3, <2>3
    <3> QED
      BY <1>2, <1>5, <2>3, <3>1, <3>2 DEF VerdictTrue
  <2> QED
    BY <1>3, <2>1, <2>2, <2>3
<1> QED
  BY <1>6, <1>8, <1>9 DEF VerdictsStand

LEMMA NextVerdicts == VerdictsStand /\ [Next]_vars => VerdictsStand'
<1> SUFFICES ASSUME VerdictsStand, [Next]_vars PROVE VerdictsStand'
  OBVIOUS
<1>1. ASSUME emitted' = emitted, DOMAIN known \subseteq DOMAIN known' PROVE VerdictsStand'
  BY <1>1 DEF VerdictsStand, VerdictsAgree, VerdictTrue
<1>2. CASE Enrich
  BY <1>2, EnrichVerdicts
<1>3. CASE ~Enrich
  <2>1. emitted' = emitted /\ DOMAIN known \subseteq DOMAIN known'
    BY <1>3 DEF Next, vars, HookSwap, AggregatorPoolRegistered, ProtocolFeesCollected, Short,
                NextTx, Initialize
  <2> QED
    BY <1>1, <2>1
<1> QED
  BY <1>2, <1>3

(* The rows a contract emits on a pool are verified together within a      *)
(* block, and once verified stay so in every later block, wherever the     *)
(* pool's Initialize stands in its own (aggregator.rs, enrich).            *)
THEOREM VerdictsNeverWaver == Spec => []VerdictsAgree
<1>1. Init => VerdictsStand
  BY DEF Init, VerdictsStand, VerdictsAgree
<1>2. VerdictsStand => VerdictsAgree
  BY DEF VerdictsStand
<1> QED
  BY <1>1, <1>2, NextVerdicts, PTL DEF Spec
=============================================================================
