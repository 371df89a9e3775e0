--------------------------- MODULE DecoderProofs ----------------------------
(***************************************************************************)
(* Proof, for any block, that the lists map_events makes are in log order  *)
(* and no two of their rows share an event id; that every log of a decoded *)
(* event is one row, which shows the arguments the contract logged; and    *)
(* that a hook's permissions and a claim token's currency are those of     *)
(* their addresses.                                                        *)
(***************************************************************************)
EXTENDS Decoder, FiniteSetTheorems, TLAPS

(* The contract whose logs fill a list.                                    *)
Source(list) ==
  CASE list = "position_events" -> "PositionManager"
    [] list = "hook_deployments" -> "ArrakisHookFactory"
    [] OTHER -> "PoolManager"

(* The chain numbers the logs of a block from zero.                        *)
Numbered == /\ block \in Seq({block[k] : k \in DOMAIN block})
            /\ \A k \in DOMAIN block : block[k].block_index = k - 1

(* The logs an extractor of the given contract has walked.                 *)
Walked(contract) ==
  {k \in DOMAIN block :
     \/ stage = contract /\ k < cursor
     \/ contract = "PoolManager" /\ stage \in {"PositionManager", "ArrakisHookFactory"}
     \/ contract = "PositionManager" /\ stage = "ArrakisHookFactory"
     \/ stage = "done"}

(* A row carries the provenance of a log of its list's own contract that   *)
(* the contract's extractor has walked.                                    *)
RowIsWalked ==
  \A list \in Lists : \A n \in DOMAIN events[list] :
    \E k \in Walked(Source(list)) :
      block[k].address = Source(list) /\ events[list][n].meta = meta(block[k])

Typed ==
  /\ stage \in {"chain", "PoolManager", "PositionManager", "ArrakisHookFactory", "done"}
  /\ cursor \in Nat \ {0}
  /\ DOMAIN events = Lists
  /\ \A list \in Lists :
       events[list] \in Seq({events[list][n] : n \in DOMAIN events[list]})

OrderInv == Typed /\ Numbered /\ RowIsWalked /\ RowsInLogOrder

LEMMA InitOrder == Init => OrderInv
BY DEF Init, OrderInv, Typed, Numbered, RowIsWalked, RowsInLogOrder

-----------------------------------------------------------------------------
(* The chain and the order of the extractors.                              *)

LEMMA SequenceStep ==
  ASSUME NEW s, s \in Seq({s[i] : i \in DOMAIN s}), NEW e
  PROVE  /\ Append(s, e) \in Seq({Append(s, e)[i] : i \in DOMAIN Append(s, e)})
         /\ Len(s) \in Nat /\ DOMAIN s = 1 .. Len(s)
         /\ DOMAIN Append(s, e) = 1 .. Len(s) + 1 /\ Len(Append(s, e)) = Len(s) + 1
         /\ Append(s, e)[Len(s) + 1] = e
         /\ \A i \in 1 .. Len(s) : Append(s, e)[i] = s[i]
<1> DEFINE R == {s[i] : i \in DOMAIN s}
           t == Append(s, e)
           T == {t[i] : i \in DOMAIN t}
<1>1. s \in Seq(R)
  OBVIOUS
<1> HIDE DEF R
<1>2. s \in Seq(R \cup {e}) /\ e \in R \cup {e}
  BY <1>1
<1>3. t \in Seq(R \cup {e})
  BY <1>2
<1>4. \A i \in 1 .. Len(t) : t[i] \in T
  BY <1>3
<1>5. t \in Seq(T)
  <2> HIDE DEF t, T
  <2> QED
    BY <1>3, <1>4
<1>6. /\ Len(s) \in Nat /\ DOMAIN s = 1 .. Len(s)
      /\ DOMAIN t = 1 .. Len(s) + 1 /\ Len(t) = Len(s) + 1
      /\ t[Len(s) + 1] = e
      /\ \A i \in 1 .. Len(s) : t[i] = s[i]
  BY <1>2
<1> QED
  BY <1>5, <1>6

(* The order in which map_events calls its extractors (lib.rs).            *)
LEMMA NextStages ==
  ASSUME stage \in {"chain", "PoolManager", "PositionManager", "ArrakisHookFactory"}
  PROVE  NextStage = CASE stage = "chain" -> "PoolManager"
                       [] stage = "PoolManager" -> "PositionManager"
                       [] stage = "PositionManager" -> "ArrakisHookFactory"
                       [] OTHER -> "done"
<1>1. \A k \in 1 .. 5 : Min({k}) = k
  BY DEF Min
<1> DEFINE I == {i \in 1 .. Len(Stages) : Stages[i] = stage}
<1>2. NextStage = Stages[(IF I # {} THEN Min(I) ELSE 0) + 1]
  BY DEF NextStage, SelectInSeq
<1>3. I = {CASE stage = "chain" -> 1 [] stage = "PoolManager" -> 2
             [] stage = "PositionManager" -> 3 [] OTHER -> 4}
  BY DEF Stages
<1> HIDE DEF I
<1>4. \A k \in 1 .. 5 : I = {k} => NextStage = Stages[k + 1]
  BY <1>1, <1>2
<1>5. CASE stage = "chain"
  BY <1>3, <1>4, <1>5 DEF Stages
<1>6. CASE stage = "PoolManager"
  BY <1>3, <1>4, <1>6 DEF Stages
<1>7. CASE stage = "PositionManager"
  BY <1>3, <1>4, <1>7 DEF Stages
<1>8. CASE stage = "ArrakisHookFactory"
  BY <1>3, <1>4, <1>8 DEF Stages
<1> QED
  BY <1>5, <1>6, <1>7, <1>8

(* While the block is made no extractor has walked a log.                  *)
LEMMA ChainOrder == ASSUME OrderInv, Chain PROVE OrderInv'
<1>1. PICK log : /\ stage = "chain" /\ block' = Append(block, log)
                 /\ log.block_index = Len(block)
                 /\ UNCHANGED <<stage, cursor, events>>
  BY DEF Chain, Emit
<1>2. block \in Seq({block[k] : k \in DOMAIN block})
  BY DEF OrderInv, Numbered
<1>3. /\ block' \in Seq({block'[i] : i \in DOMAIN block'})
      /\ Len(block) \in Nat /\ DOMAIN block = 1 .. Len(block)
      /\ DOMAIN block' = 1 .. Len(block) + 1
      /\ block'[Len(block) + 1] = log
      /\ \A i \in 1 .. Len(block) : block'[i] = block[i]
  BY <1>1, <1>2, SequenceStep
<1>4. \A k \in DOMAIN block' : block'[k].block_index = k - 1
  <2> TAKE k \in DOMAIN block'
  <2>1. k \in 1 .. Len(block) \/ k = Len(block) + 1
    BY <1>3
  <2> QED
    BY <1>1, <1>3, <2>1 DEF OrderInv, Numbered
<1>5. Numbered'
  BY <1>3, <1>4 DEF Numbered
<1>6. Typed' /\ RowsInLogOrder'
  BY <1>1 DEF OrderInv, Typed, RowsInLogOrder
<1>7. \A list \in Lists : Walked(Source(list)) = {}
  BY <1>1 DEF Walked, Source
<1>8. RowIsWalked'
  BY <1>1, <1>7 DEF OrderInv, RowIsWalked
<1> QED
  BY <1>5, <1>6, <1>8 DEF OrderInv

(* The next extractor starts at the first log; what was walked stays       *)
(* walked, for the extractor that stops has come to the end of the block.  *)
LEMMA BeginOrder == ASSUME OrderInv, BeginExtract PROVE OrderInv'
<1>1. /\ stage \in {"chain", "PoolManager", "PositionManager", "ArrakisHookFactory"}
      /\ stage' = NextStage /\ cursor' = 1
      /\ UNCHANGED <<block, events>>
      /\ stage # "chain" => cursor > Len(block)
  BY DEF BeginExtract, Contracts, Declared
<1>2. stage' = CASE stage = "chain" -> "PoolManager"
                 [] stage = "PoolManager" -> "PositionManager"
                 [] stage = "PositionManager" -> "ArrakisHookFactory"
                 [] OTHER -> "done"
  BY <1>1, NextStages
<1>3. Numbered' /\ RowsInLogOrder'
  BY <1>1 DEF OrderInv, Numbered, RowsInLogOrder
<1>4. Typed'
  BY <1>1, <1>2 DEF OrderInv, Typed
<1>5. /\ Len(block) \in Nat /\ DOMAIN block = 1 .. Len(block)
      /\ cursor \in Nat
  BY DEF OrderInv, Numbered, Typed
<1>6. \A list \in Lists : Walked(Source(list)) \subseteq Walked(Source(list))'
  BY <1>1, <1>2, <1>5 DEF Walked, Source
<1>7. RowIsWalked'
  BY <1>1, <1>6 DEF OrderInv, RowIsWalked
<1> QED
  BY <1>3, <1>4, <1>7 DEF OrderInv

(* A log without a row is walked all the same.                             *)
LEMMA SkipOrder == ASSUME OrderInv, Skip PROVE OrderInv'
<1>1. cursor' = cursor + 1 /\ UNCHANGED <<block, stage, events>> /\ cursor \in Nat
  BY DEF Skip, Advance, OrderInv, Typed
<1>2. Numbered' /\ RowsInLogOrder' /\ Typed'
  BY <1>1 DEF OrderInv, Numbered, RowsInLogOrder, Typed
<1>3. \A list \in Lists : Walked(Source(list)) \subseteq Walked(Source(list))'
  <2>1. \A k \in DOMAIN block : k < cursor => k < cursor + 1
    BY <1>1 DEF OrderInv, Numbered
  <2> QED
    BY <1>1, <2>1 DEF Walked
<1>4. RowIsWalked'
  BY <1>1, <1>3 DEF OrderInv, RowIsWalked
<1> QED
  BY <1>2, <1>4 DEF OrderInv

-----------------------------------------------------------------------------
(* An arm appends one row.  Its log is none that a row came from before:   *)
(* a log of the same contract came earlier, and one of another contract is *)
(* another log.                                                            *)

LEMMA PushOrder ==
  ASSUME OrderInv, NEW list \in Lists, Ours(Source(list)), Advance,
         NEW row, row.meta = Meta, Push(list, row)
  PROVE  OrderInv'
<1>1. /\ stage = Source(list) /\ cursor \in 1 .. Len(block)
      /\ block[cursor].address = Source(list)
      /\ row.meta = meta(block[cursor])
      /\ cursor' = cursor + 1 /\ UNCHANGED <<block, stage>>
      /\ events' = [events EXCEPT ![list] = Append(events[list], row)]
      /\ stage # "done" /\ stage # "chain"
  BY DEF OrderInv, Typed, Ours, Advance, Push, Log, Meta, Source
<1>2. /\ Len(block) \in Nat /\ DOMAIN block = 1 .. Len(block)
      /\ \A k \in DOMAIN block : block[k].block_index = k - 1
  BY DEF OrderInv, Numbered
<1>3. \A k \in DOMAIN block :
        /\ meta(block[k]).log_index = k - 1
        /\ event_id(meta(block[k]))[2] = k - 1
  BY <1>2 DEF meta, event_id
<1>4. DOMAIN events = Lists
  BY DEF OrderInv, Typed
<1>5. \A l \in Lists : l # list => events'[l] = events[l]
  BY <1>1, <1>4
<1>6. /\ events'[list] = Append(events[list], row)
      /\ events'[list] \in Seq({events'[list][n] : n \in DOMAIN events'[list]})
      /\ Len(events[list]) \in Nat /\ DOMAIN events[list] = 1 .. Len(events[list])
      /\ DOMAIN events'[list] = 1 .. Len(events[list]) + 1
      /\ Len(events'[list]) = Len(events[list]) + 1
      /\ events'[list][Len(events[list]) + 1] = row
      /\ \A n \in 1 .. Len(events[list]) : events'[list][n] = events[list][n]
  <2>1. events'[list] = Append(events[list], row)
    BY <1>1, <1>4
  <2>2. events[list] \in Seq({events[list][n] : n \in DOMAIN events[list]})
    BY DEF OrderInv, Typed
  <2> DEFINE old == events[list]
             new == events'[list]
  <2>3. new = Append(old, row) /\ old \in Seq({old[n] : n \in DOMAIN old})
    BY <2>1, <2>2
  <2> HIDE DEF old, new
  <2>4. /\ new \in Seq({new[n] : n \in DOMAIN new})
        /\ Len(old) \in Nat /\ DOMAIN old = 1 .. Len(old)
        /\ DOMAIN new = 1 .. Len(old) + 1 /\ Len(new) = Len(old) + 1
        /\ new[Len(old) + 1] = row
        /\ \A n \in 1 .. Len(old) : new[n] = old[n]
    BY <2>3, SequenceStep
  <2> QED
    BY <2>3, <2>4 DEF old, new
<1> DEFINE New == Len(events[list]) + 1

<1>7. Walked(Source(list)) = {k \in DOMAIN block : k < cursor}
  BY <1>1 DEF Walked, Source
<1>8. \A n \in DOMAIN events[list] : \E k \in 1 .. (cursor - 1) :
        k \in DOMAIN block /\ events[list][n].meta = meta(block[k])
  <2> TAKE n \in DOMAIN events[list]
  <2>1. PICK k \in Walked(Source(list)) : events[list][n].meta = meta(block[k])
    BY DEF OrderInv, RowIsWalked
  <2>2. k \in DOMAIN block /\ k < cursor
    BY <1>7, <2>1
  <2>3. k \in 1 .. (cursor - 1)
    BY <1>1, <1>2, <2>2
  <2> QED
    BY <2>1, <2>2, <2>3
<1>9. \A l \in Lists : \A n \in DOMAIN events[l] : \E k \in DOMAIN block :
        k # cursor /\ events[l][n].meta = meta(block[k])
  <2> TAKE l \in Lists
  <2> TAKE n \in DOMAIN events[l]
  <2>1. PICK k \in Walked(Source(l)) :
          block[k].address = Source(l) /\ events[l][n].meta = meta(block[k])
    BY DEF OrderInv, RowIsWalked
  <2>2. k \in DOMAIN block
    BY <2>1 DEF Walked
  <2>3. k # cursor
    <3>1. CASE Source(l) = Source(list)
      BY <1>1, <1>2, <1>7, <2>1, <2>2, <3>1
    <3>2. CASE Source(l) # Source(list)
      BY <1>1, <2>1, <3>2
    <3> QED
      BY <3>1, <3>2
  <2> QED
    BY <2>1, <2>2, <2>3

<1>10. Typed'
  <2>1. DOMAIN events' = Lists
    BY <1>1, <1>4
  <2>2. \A l \in Lists : events'[l] \in Seq({events'[l][n] : n \in DOMAIN events'[l]})
    <3>1. \A l \in Lists : events[l] \in Seq({events[l][n] : n \in DOMAIN events[l]})
      BY DEF OrderInv, Typed
    <3> TAKE l \in Lists
    <3>2. CASE l = list
      BY <1>6, <3>2
    <3>3. CASE l # list
      <4>1. events'[l] = events[l]
        BY <1>5, <3>3
      <4> QED
        BY <3>1, <4>1
    <3> QED
      BY <3>2, <3>3
  <2> QED
    BY <1>1, <1>2, <2>1, <2>2 DEF OrderInv, Typed
<1>11. Numbered'
  BY <1>1 DEF OrderInv, Numbered
<1>12. RowIsWalked'
  <2>1. \A l \in Lists : Walked(Source(l)) \subseteq Walked(Source(l))'
    <3>1. \A k \in DOMAIN block : k < cursor => k < cursor + 1
      BY <1>1, <1>2
    <3> QED
      BY <1>1, <3>1 DEF Walked
  <2>2. cursor \in Walked(Source(list))'
    BY <1>1, <1>2 DEF Walked
  <2>3. \A l \in Lists : \A n \in DOMAIN events[l] : \E k \in Walked(Source(l))' :
          block[k].address = Source(l) /\ events[l][n].meta = meta(block[k])
    BY <2>1 DEF OrderInv, RowIsWalked
  <2>4. \A n \in DOMAIN events'[list] : \E k \in Walked(Source(list))' :
          block[k].address = Source(list) /\ events'[list][n].meta = meta(block[k])
    <3> TAKE n \in DOMAIN events'[list]
    <3>1. CASE n = New
      BY <1>1, <1>6, <2>2, <3>1
    <3>2. CASE n \in 1 .. Len(events[list])
      BY <1>6, <2>3, <3>2
    <3> QED
      BY <1>6, <3>1, <3>2
  <2>5. \A l \in Lists : \A n \in DOMAIN events'[l] : \E k \in Walked(Source(l))' :
          block'[k].address = Source(l) /\ events'[l][n].meta = meta(block'[k])
    BY <1>1, <1>5, <2>3, <2>4
  <2> QED
    BY <2>5 DEF RowIsWalked, meta, Source, gas_price
<1>13. \A l \in Lists : \A n \in 2 .. Len(events'[l]) :
         events'[l][n - 1].meta.log_index < events'[l][n].meta.log_index
  <2>1. SUFFICES ASSUME NEW n \in 2 .. Len(events'[list])
                 PROVE  events'[list][n - 1].meta.log_index < events'[list][n].meta.log_index
    BY <1>5 DEF OrderInv, RowsInLogOrder
  <2>2. CASE n = New
    <3>1. n - 1 \in DOMAIN events[list] /\ events'[list][n - 1] = events[list][n - 1]
      BY <1>6, <2>2
    <3>2. PICK k \in 1 .. (cursor - 1) :
            k \in DOMAIN block /\ events[list][n - 1].meta = meta(block[k])
      BY <1>8, <3>1
    <3>3. events'[list][n - 1].meta.log_index = k - 1
      BY <1>3, <3>1, <3>2
    <3>4. events'[list][n].meta.log_index = cursor - 1
      <4>1. events'[list][n] = row
        BY <1>6, <2>2
      <4> QED
        BY <1>1, <1>2, <1>3, <4>1
    <3> QED
      BY <1>1, <3>2, <3>3, <3>4
  <2>3. CASE n # New
    <3>1. n \in 2 .. Len(events[list])
      BY <1>6, <2>3
    <3>2. /\ events'[list][n - 1] = events[list][n - 1]
          /\ events'[list][n] = events[list][n]
      <4>1. Len(events[list]) \in Nat
        BY <1>6
      <4>2. n - 1 \in 1 .. Len(events[list]) /\ n \in 1 .. Len(events[list])
        BY <3>1, <4>1
      <4>3. \A i \in 1 .. Len(events[list]) : events'[list][i] = events[list][i]
        BY <1>6
      <4> QED
        BY <4>2, <4>3
    <3> QED
      BY <3>1, <3>2 DEF OrderInv, RowsInLogOrder
  <2> QED
    BY <2>2, <2>3
<1>14. \A l \in Lists : \A n \in DOMAIN events[l] :
         event_id(events[l][n].meta) # event_id(row.meta)
  <2> TAKE l \in Lists
  <2> TAKE n \in DOMAIN events[l]
  <2>1. PICK k \in DOMAIN block : k # cursor /\ events[l][n].meta = meta(block[k])
    BY <1>9
  <2>2. event_id(events[l][n].meta)[2] = k - 1 /\ event_id(row.meta)[2] = cursor - 1
    BY <1>1, <1>2, <1>3, <2>1
  <2>3. k - 1 # cursor - 1
    BY <1>1, <1>2, <2>1
  <2> QED
    BY <2>2, <2>3
<1>15. \A l \in Lists : \A n \in DOMAIN events'[l] :
         \/ l = list /\ n = New /\ events'[l][n] = row
         \/ n \in DOMAIN events[l] /\ events'[l][n] = events[l][n]
  <2> TAKE l \in Lists
  <2> TAKE n \in DOMAIN events'[l]
  <2>1. CASE l = list
    <3>1. Len(events[list]) \in Nat /\ n \in 1 .. Len(events[list]) + 1
      BY <1>6, <2>1
    <3>2. n = New \/ n \in 1 .. Len(events[list])
      BY <3>1
    <3>3. events'[list][New] = row
      BY <1>6
    <3>4. /\ DOMAIN events[list] = 1 .. Len(events[list])
          /\ \A i \in 1 .. Len(events[list]) : events'[list][i] = events[list][i]
      BY <1>6
    <3> HIDE DEF New
    <3> QED
      BY <2>1, <3>2, <3>3, <3>4
  <2>2. CASE l # list
    <3>1. events'[l] = events[l]
      BY <1>5, <2>2
    <3> QED
      BY <3>1
  <2> QED
    BY <2>1, <2>2
<1>16. \A l1, l2 \in Lists :
         \A n1 \in DOMAIN events'[l1], n2 \in DOMAIN events'[l2] :
           event_id(events'[l1][n1].meta) = event_id(events'[l2][n2].meta)
             => l1 = l2 /\ n1 = n2
  <2> SUFFICES ASSUME NEW l1 \in Lists, NEW l2 \in Lists,
                      NEW n1 \in DOMAIN events'[l1], NEW n2 \in DOMAIN events'[l2],
                      event_id(events'[l1][n1].meta) = event_id(events'[l2][n2].meta)
               PROVE  l1 = l2 /\ n1 = n2
    OBVIOUS
  <2>1. CASE n1 \in DOMAIN events[l1] /\ events'[l1][n1] = events[l1][n1]
    <3>1. n2 \in DOMAIN events[l2] /\ events'[l2][n2] = events[l2][n2]
      BY <1>14, <1>15, <2>1
    <3> QED
      BY <2>1, <3>1 DEF OrderInv, RowsInLogOrder
  <2>2. CASE l1 = list /\ n1 = New /\ events'[l1][n1] = row
    BY <1>14, <1>15, <2>2
  <2> QED
    BY <1>15, <2>1, <2>2
<1>17. RowsInLogOrder'
  BY <1>13, <1>16 DEF RowsInLogOrder, event_id
<1> QED
  BY <1>10, <1>11, <1>12, <1>17 DEF OrderInv

(* The arms, each with the list its event goes to.                         *)
LEMMA PoolManagerOrder == ASSUME OrderInv, ExtractPoolManager PROVE OrderInv'
<1>1. /\ \A list \in Lists \ {"position_events", "hook_deployments"} :
           Source(list) = "PoolManager"
      /\ {"swaps", "modify_liquidity", "pools", "claim_token_events", "donates",
          "protocol_fee_events"} \subseteq Lists \ {"position_events", "hook_deployments"}
  BY DEF Source, Lists
<1>2. PICK list, row :
        /\ list \in Lists /\ Source(list) = "PoolManager" /\ row.meta = Meta
        /\ Ours("PoolManager") /\ Advance /\ Push(list, row)
  BY <1>1 DEF ExtractPoolManager, Arm, SwapRow, ModifyLiquidityRow, PoolRow, TransferRow,
       DonateRow, ApprovalRow, OperatorSetRow, FeeUpdatedRow, ControllerUpdatedRow
<1> QED
  BY <1>2, PushOrder

LEMMA PositionManagerOrder == ASSUME OrderInv, ExtractPositionManager PROVE OrderInv'
<1>1. "position_events" \in Lists /\ Source("position_events") = "PositionManager"
  BY DEF Source, Lists
<1>2. PICK row : /\ row.meta = Meta /\ Ours("PositionManager") /\ Advance
                 /\ Push("position_events", row)
  BY DEF ExtractPositionManager, Arm, SubscribeRow, UnsubscribeRow, PositionTransferRow
<1> QED
  BY <1>1, <1>2, PushOrder

LEMMA ArrakisOrder == ASSUME OrderInv, ExtractArrakis PROVE OrderInv'
<1>1. "hook_deployments" \in Lists /\ Source("hook_deployments") = "ArrakisHookFactory"
  BY DEF Source, Lists
<1>2. PICK row : /\ row.meta = Meta /\ Ours("ArrakisHookFactory") /\ Advance
                 /\ Push("hook_deployments", row)
  BY DEF ExtractArrakis, Arm, HookDeploymentRow
<1> QED
  BY <1>1, <1>2, PushOrder

LEMMA NextOrder == OrderInv /\ [Next]_vars => OrderInv'
<1> SUFFICES ASSUME OrderInv, [Next]_vars PROVE OrderInv'
  OBVIOUS
<1>1. CASE UNCHANGED vars
  BY <1>1 DEF vars, OrderInv, Typed, Numbered, RowIsWalked, RowsInLogOrder, Walked
<1> QED
  BY <1>1, ChainOrder, BeginOrder, SkipOrder, PoolManagerOrder, PositionManagerOrder,
     ArrakisOrder DEF Next

-----------------------------------------------------------------------------
(* Within each list the rows are in strict log order, and no two rows of   *)
(* any lists share an event id (pool_manager.rs extract, event_id).        *)
THEOREM RowsOrdered == Spec => []RowsInLogOrder
<1>1. OrderInv => RowsInLogOrder
  BY DEF OrderInv
<1> QED
  BY <1>1, InitOrder, NextOrder, PTL DEF Spec

-----------------------------------------------------------------------------
(* What the chain encodes.                                                 *)

LEMMA NthOfRange ==
  ASSUME NEW a \in Int, NEW b \in Int, NEW k \in 1 .. (b - a) + 1
  PROVE  Nth(a .. b, k) = (a + k) - 1
<1>1. \A i \in a .. b : Cardinality({j \in a .. b : j < i}) = i - a
  <2> TAKE i \in a .. b
  <2>1. {j \in a .. b : j < i} = a .. (i - 1)
    OBVIOUS
  <2>2. i \in Int /\ i - 1 \in Int /\ i >= a
    OBVIOUS
  <2>3. Cardinality(a .. (i - 1)) = IF a > i - 1 THEN 0 ELSE ((i - 1) - a) + 1
    BY <2>2, FS_Interval
  <2>4. Cardinality(a .. (i - 1)) = i - a
    BY <2>2, <2>3
  <2> QED
    BY <2>1, <2>4
<1>2. (a + k) - 1 \in a .. b
  OBVIOUS
<1>3. \A i \in a .. b : (Cardinality({j \in a .. b : j < i}) = k - 1) <=> (i = (a + k) - 1)
  <2> TAKE i \in a .. b
  <2>1. Cardinality({j \in a .. b : j < i}) = i - a
    BY <1>1
  <2> QED
    BY <2>1
<1>4. PICK z : z = Nth(a .. b, k)
  OBVIOUS
<1>5. z \in a .. b /\ Cardinality({j \in a .. b : j < z}) = k - 1
  BY <1>2, <1>3, <1>4 DEF Nth
<1> QED
  BY <1>3, <1>4, <1>5

(* The q numbers after a.                                                  *)
After(a, q) == a + 1 .. a + q

(* The words of consecutive parameters.                                    *)
LEMMA WordsOfRange ==
  ASSUME NEW a \in Nat, NEW q \in Nat, NEW S, S = After(a, q), NEW args
  PROVE  /\ \E R : Words(args, S) \in Seq(R)
         /\ Len(Words(args, S)) = q
         /\ \A k \in 1 .. q : Words(args, S)[k] = ToWord(args[a + k])
<1>1. Cardinality(S) = q
  <2>1. a + 1 \in Int /\ a + q \in Int /\ ((a + q) - (a + 1)) + 1 = q
    OBVIOUS
  <2>2. Cardinality(a + 1 .. a + q) = IF a + 1 > a + q THEN 0 ELSE ((a + q) - (a + 1)) + 1
    BY <2>1, FS_Interval
  <2> QED
    BY <2>1, <2>2 DEF After
<1>2. Words(args, S) = [k \in 1 .. q |-> ToWord(args[Nth(S, k)])]
  BY <1>1 DEF Words
<1>3. \A k \in 1 .. q : Nth(S, k) = a + k
  <2> TAKE k \in 1 .. q
  <2>1. a + 1 \in Int /\ a + q \in Int /\ k \in 1 .. ((a + q) - (a + 1)) + 1
        /\ ((a + 1) + k) - 1 = a + k
    OBVIOUS
  <2>2. Nth(a + 1 .. a + q, k) = ((a + 1) + k) - 1
    BY <2>1, NthOfRange
  <2> QED
    BY <2>1, <2>2 DEF After
<1> DEFINE R == {ToWord(args[a + k]) : k \in 1 .. q}
<1>4. Words(args, S) \in [1 .. q -> R]
  BY <1>2, <1>3
<1>5. Words(args, S) \in Seq(R) /\ Len(Words(args, S)) = q
  <2> HIDE DEF R
  <2> QED
    BY <1>4
<1> QED
  BY <1>2, <1>3, <1>5

LEMMA HeadThenTail ==
  ASSUME NEW x, NEW R, NEW t \in Seq(R)
  PROVE  /\ Len(<<x>> \o t) = Len(t) + 1 /\ (<<x>> \o t)[1] = x
         /\ \A k \in 1 .. Len(t) : (<<x>> \o t)[k + 1] = t[k]
<1> DEFINE Q == R \cup {x}
<1>1. <<x>> \in Seq(Q) /\ t \in Seq(Q) /\ Len(<<x>>) = 1 /\ Len(t) \in Nat
  OBVIOUS
<1> HIDE DEF Q
<1>2. \A i \in 1 .. 1 + Len(t) : (<<x>> \o t)[i] = IF i <= 1 THEN <<x>>[i] ELSE t[i - 1]
  BY <1>1
<1>3. Len(<<x>> \o t) = 1 + Len(t)
  BY <1>1
<1>4. 1 \in 1 .. 1 + Len(t) /\ <<x>>[1] = x
  BY <1>1
<1>5. \A k \in 1 .. Len(t) : k + 1 \in 1 .. 1 + Len(t) /\ ~(k + 1 <= 1) /\ (k + 1) - 1 = k
  BY <1>1
<1> QED
  BY <1>1, <1>2, <1>3, <1>4, <1>5

(* A log the chain made of an event.                                       *)
Logged(contract, event, args, log) ==
  LET encoded == Encode(contract, event, args)
  IN  log.topics = encoded.topics /\ log.data = encoded.data

(* Parameters of which the first p are indexed and the other q are not.    *)
PrefixIndexed(inputs, p, q) ==
  /\ DOMAIN inputs = 1 .. p + q
  /\ \A i \in 1 .. p : inputs[i].indexed = TRUE
  /\ \A i \in p + 1 .. p + q : inputs[i].indexed = FALSE

(* The words of such a log.                                                *)
Laid(contract, event, args, log, p, q) ==
  /\ Len(log.topics) = p + 1 /\ log.topics[1] = <<contract, event>>
  /\ \A k \in 1 .. p : log.topics[k + 1] = ToWord(args[k])
  /\ Len(log.data) = q
  /\ \A k \in 1 .. q : log.data[k] = ToWord(args[p + k])

LEMMA PrefixEncoded ==
  ASSUME NEW contract, NEW event, NEW p \in Nat, NEW q \in Nat, NEW args,
         NEW table, table = Declared[contract][event], PrefixIndexed(table, p, q),
         NEW log, Logged(contract, event, args, log)
  PROVE  Laid(contract, event, args, log, p, q)
<1> DEFINE inputs == Declared[contract][event]
           places(indexed) == {i \in DOMAIN inputs : inputs[i].indexed = indexed}
<1>1. places(TRUE) = 0 + 1 .. 0 + p /\ places(FALSE) = p + 1 .. p + q
  <2>1. \A i \in 1 .. p + q : i \in 1 .. p \/ i \in p + 1 .. p + q
    OBVIOUS
  <2>2. \A i \in 1 .. p : i \in 1 .. p + q
    OBVIOUS
  <2>3. \A i \in p + 1 .. p + q : i \in 1 .. p + q
    OBVIOUS
  <2> QED
    BY <2>1, <2>2, <2>3 DEF PrefixIndexed
<1>2. PICK S, T : S = places(TRUE) /\ T = places(FALSE)
  OBVIOUS
<1>3. PICK t, d : t = Words(args, S) /\ d = Words(args, T)
  OBVIOUS
<1>4. log.topics = <<<<contract, event>>>> \o t /\ log.data = d
  BY <1>2, <1>3 DEF Encode, Logged
<1>5. 0 \in Nat /\ S = After(0, p) /\ T = After(p, q)
  BY <1>1, <1>2 DEF After
<1> HIDE DEF places
<1>6. /\ \E R : t \in Seq(R)
      /\ Len(t) = p
      /\ \A k \in 1 .. p : t[k] = ToWord(args[0 + k])
  BY <1>3, <1>5, WordsOfRange
<1>7. /\ Len(d) = q
      /\ \A k \in 1 .. q : d[k] = ToWord(args[p + k])
  BY <1>3, <1>5, WordsOfRange
<1>8. PICK R : t \in Seq(R)
  BY <1>6
<1>9. /\ Len(log.topics) = p + 1 /\ log.topics[1] = <<contract, event>>
      /\ \A k \in 1 .. p : log.topics[k + 1] = t[k]
  BY <1>4, <1>6, <1>8, HeadThenTail
<1>10. \A k \in 1 .. p : t[k] = ToWord(args[k])
  BY <1>6
<1> QED
  BY <1>4, <1>7, <1>9, <1>10 DEF Laid

-----------------------------------------------------------------------------
(* What a reader makes of a word.                                          *)

Numbers == {"uint24", "uint128", "uint160", "uint256", "bytes32"}
Types == {"address", "bool", "int24", "int128", "int256"} \cup Numbers

(* The values of a type, in the scale of the model.                        *)
Fits(type, v) ==
  /\ type \in Types /\ v \in Int
  /\ type = "address" => 0 <= v /\ v <= 65535
  /\ type = "bool" => v \in {0, 1}
  /\ type \in {"int24", "int128", "int256"} => 0 - 8388608 <= v /\ v <= 8388607
  /\ type \in Numbers => 0 <= v /\ v <= 16777215

(* The reader the binding should have for a type.                          *)
Suits(reader, type) ==
  /\ type = "address" => reader = "address"
  /\ type = "bool" => reader = "bool"
  /\ type \in {"int24", "int128", "int256"} => reader = "int"
  /\ type \in Numbers => reader \in {"uint", "fixed_bytes"}

LEMMA Scales ==
  /\ WordSize = 16777216 /\ WordSize \div 2 = 8388608 /\ AddressSize = 65536
BY SMT DEF WordSize, AddressSize

LEMMA ReadAddress ==
  ASSUME NEW v \in Nat, v <= 65535
  PROVE  /\ Read("address", ToWord(v)) = Bytes(v)
         /\ ToNumber(Bytes(v)) = v
         /\ v \div 256 \in Nat /\ v \div 256 <= 255
         /\ v % 256 \in Nat /\ v % 256 <= 255
<1>1. v % 16777216 = v /\ v % 65536 = v
  BY SMT
<1>2. Read("address", ToWord(v)) = Bytes(v)
  BY <1>1, Scales DEF Read, ToWord
<1>3. ((v \div 256) * 256) + (v % 256) = v
  BY SMT
<1>4. ToNumber(Bytes(v)) = v
  BY <1>3 DEF ToNumber, Bytes
<1>5. /\ v \div 256 \in Nat /\ v \div 256 <= 255
      /\ v % 256 \in Nat /\ v % 256 <= 255
  BY SMT
<1> QED
  BY <1>2, <1>4, <1>5

LEMMA ReadInt ==
  ASSUME NEW v \in Int, 0 - 8388608 <= v, v <= 8388607
  PROVE  Read("int", ToWord(v)) = v
<1>1. PICK w : w = v % 16777216
  OBVIOUS
<1>2. (IF w < 8388608 THEN w ELSE w - 16777216) = v
  BY SMT, <1>1
<1> QED
  BY <1>1, <1>2, Scales DEF Read, ToWord

LEMMA ReadNumber ==
  ASSUME NEW v \in Nat, v <= 16777215, NEW reader \in {"uint", "fixed_bytes"}
  PROVE  Read(reader, ToWord(v)) = v
<1>1. v % 16777216 = v
  BY SMT
<1> QED
  BY <1>1, Scales DEF Read, ToWord

LEMMA ReadBool ==
  ASSUME NEW v \in {0, 1}
  PROVE  Read("bool", ToWord(v)) = (v = 1)
<1>1. v % 16777216 = v
  BY SMT
<1>2. Read("bool", ToWord(v)) = (v # 0)
  BY <1>1, Scales DEF Read, ToWord
<1> QED
  BY <1>2

(* A column filled by the right reader shows the argument.                 *)
LEMMA ColumnShows ==
  ASSUME NEW type, NEW v, Fits(type, v), NEW reader, Suits(reader, type),
         NEW row, NEW column, column # "hooks", row[column] = Read(reader, ToWord(v))
  PROVE  Shows(row, column, type, v)
<1>1. CASE type = "address"
  BY <1>1, ReadAddress DEF Shows, Fits, Suits
<1>2. CASE type = "bool"
  BY <1>2, ReadBool DEF Shows, Fits, Suits
<1>3. CASE type \in {"int24", "int128", "int256"}
  BY <1>3, ReadInt DEF Shows, Fits, Suits
<1>4. CASE type \in Numbers
  BY <1>4, ReadNumber DEF Shows, Fits, Suits, Numbers
<1> QED
  BY <1>1, <1>2, <1>3, <1>4 DEF Fits, Types

WellNamed(event, param) ==
  /\ param.type \in Types
  /\ param.name \in {"hook", "hooks"} => param.type = "address"
  /\ param.name = "fee" => param.type = "uint24"
  /\ param.name = "tickSpacing" => param.type = "int24"
  /\ event = "Transfer" /\ param.name = "id" => param.type = "uint256"

LEMMA Powers == 2^23 = 8388608 /\ 2^15 = 32768
BY SMT

LEMMA PickOne ==
  ASSUME NEW a, NEW b, NEW c, NEW d, NEW e, NEW s \in 1 .. 5
  PROVE  <<a, b, c, d, e>>[s] \in {a, b, c, d, e}
<1>1. s = 1 \/ s = 2 \/ s = 3 \/ s = 4 \/ s = 5
  OBVIOUS
<1> QED
  BY <1>1

LEMMA HookFits ==
  ASSUME NEW event, NEW param, NEW i, NEW s \in 1 .. 5, NEW v,
         v = Argument(event, param, i, s), param.name \in {"hook", "hooks"}
  PROVE  v \in Int /\ 0 <= v /\ v <= 65535
<1>1. v = <<IF param.name = "hooks" THEN 0 ELSE 1, 6280, 65535, 49152, 256>>[s]
  BY DEF Argument
<1>2. v \in {IF param.name = "hooks" THEN 0 ELSE 1, 6280, 65535, 49152, 256}
  BY <1>1, PickOne
<1> QED
  BY <1>2

LEMMA FeeFits ==
  ASSUME NEW event, NEW param, NEW i, NEW s \in 1 .. 5, NEW v,
         v = Argument(event, param, i, s), param.name = "fee"
  PROVE  v \in Int /\ 0 <= v /\ v <= 16777215
<1>1. v = <<0, 3000, 1000000, 500, IF event = "Initialize" THEN 2^23 ELSE 1>>[s]
  BY DEF Argument
<1>2. v \in {0, 3000, 1000000, 500, IF event = "Initialize" THEN 2^23 ELSE 1}
  BY <1>1, PickOne
<1> QED
  BY <1>2, Powers

LEMMA SpacingFits ==
  ASSUME NEW event, NEW param, NEW i \in 1 .. 8, NEW s \in 1 .. 5, NEW v,
         v = Argument(event, param, i, s), param.name = "tickSpacing"
  PROVE  v \in Int /\ 0 - 8388608 <= v /\ v <= 8388607
<1>1. v = i
  BY DEF Argument
<1> QED
  BY <1>1

(* A parameter whose arguments its name alone does not settle.             *)
Plainly(param) == param.name \notin {"hook", "hooks", "fee", "tickSpacing"}

(* A currency id is drawn like the address it was minted from.             *)
Address(event, param) == param.type = "address" \/ (event = "Transfer" /\ param.name = "id")

LEMMA BoolFits ==
  ASSUME NEW event, NEW param, NEW i, NEW s \in 1 .. 5, NEW v,
         v = Argument(event, param, i, s), Plainly(param), param.type = "bool"
  PROVE  v \in {0, 1}
<1>1. v = s % 2
  BY DEF Argument, Plainly
<1> QED
  BY <1>1

LEMMA AddressFits ==
  ASSUME NEW event, NEW param, NEW i \in 1 .. 8, NEW s \in 1 .. 5, NEW v,
         v = Argument(event, param, i, s), Plainly(param), param.type # "bool",
         Address(event, param)
  PROVE  v \in Int /\ 0 <= v /\ v <= 65535
<1>1. v = <<IF i \in {2, 4} THEN 0 ELSE i, i, AddressSize - 9 + i, 256 * i, 2^15 + i>>[s]
  BY DEF Argument, Plainly, Address
<1>2. v \in {IF i \in {2, 4} THEN 0 ELSE i, i, AddressSize - 9 + i, 256 * i, 2^15 + i}
  BY <1>1, PickOne
<1> QED
  BY <1>2, Powers, Scales

LEMMA TickFits ==
  ASSUME NEW event, NEW param, NEW i \in 1 .. 8, NEW s \in 1 .. 5, NEW v,
         v = Argument(event, param, i, s), Plainly(param), param.type = "int24",
         ~Address(event, param)
  PROVE  v \in Int /\ 0 - 8388608 <= v /\ v <= 8388607
<1>1. v = <<i - 4, i, i - 9, 256 * i, i - 887272>>[s]
  BY DEF Argument, Plainly, Address
<1>2. v \in {i - 4, i, i - 9, 256 * i, i - 887272}
  BY <1>1, PickOne
<1> QED
  BY <1>2

LEMMA DeltaFits ==
  ASSUME NEW event, NEW param, NEW i \in 1 .. 8, NEW s \in 1 .. 5, NEW v,
         v = Argument(event, param, i, s), Plainly(param), param.type \in {"int128", "int256"},
         ~Address(event, param)
  PROVE  v \in Int /\ 0 - 8388608 <= v /\ v <= 8388607
<1>1. v = <<i - 4, i, i - 9, 256 * i, i - 2^23>>[s]
  BY DEF Argument, Plainly, Address
<1>2. v \in {i - 4, i, i - 9, 256 * i, i - 2^23}
  BY <1>1, PickOne
<1> QED
  BY <1>2, Powers

LEMMA NumberFits ==
  ASSUME NEW event, NEW param, NEW i \in 1 .. 8, NEW s \in 1 .. 5, NEW v,
         v = Argument(event, param, i, s), Plainly(param), param.type \in Numbers,
         ~Address(event, param)
  PROVE  v \in Int /\ 0 <= v /\ v <= 16777215
<1>1. param.type \notin {"bool", "int24", "int128", "int256"}
  BY DEF Numbers
<1>2. v = <<IF param.type \in {"bytes32", "uint160"} THEN 100 + i ELSE 0,
            i, WordSize - 9 + i, 256 * i, 2^23 + i>>[s]
  BY <1>1 DEF Argument, Plainly, Address
<1>3. v \in {IF param.type \in {"bytes32", "uint160"} THEN 100 + i ELSE 0,
             i, WordSize - 9 + i, 256 * i, 2^23 + i}
  BY <1>2, PickOne
<1> QED
  BY <1>3, Powers, Scales

LEMMA ArgumentFits ==
  ASSUME NEW event, NEW param, WellNamed(event, param), NEW i \in 1 .. 8, NEW s \in 1 .. 5
  PROVE  Fits(param.type, Argument(event, param, i, s))
<1>1. PICK v : v = Argument(event, param, i, s)
  OBVIOUS
<1> DEFINE T == param.type
<1>2. CASE param.name \in {"hook", "hooks"}
  <2>1. T = "address" /\ v \in Int /\ 0 <= v /\ v <= 65535
    BY <1>1, <1>2, HookFits DEF WellNamed
  <2> QED
    BY <1>1, <2>1 DEF Fits, Numbers, Types
<1>3. CASE param.name = "fee"
  <2>1. T = "uint24" /\ v \in Int /\ 0 <= v /\ v <= 16777215
    BY <1>1, <1>3, FeeFits DEF WellNamed
  <2> QED
    BY <1>1, <2>1 DEF Fits, Numbers, Types
<1>4. CASE param.name = "tickSpacing"
  <2>1. T = "int24" /\ v \in Int /\ 0 - 8388608 <= v /\ v <= 8388607
    BY <1>1, <1>4, SpacingFits DEF WellNamed
  <2> QED
    BY <1>1, <2>1 DEF Fits, Numbers, Types
<1>5. CASE Plainly(param) /\ T = "bool"
  <2>1. v \in {0, 1}
    BY <1>1, <1>5, BoolFits
  <2> QED
    BY <1>1, <1>5, <2>1 DEF Fits, Numbers, Types
<1>6. CASE Plainly(param) /\ T # "bool" /\ Address(event, param)
  <2>1. v \in Int /\ 0 <= v /\ v <= 65535
    BY <1>1, <1>6, AddressFits
  <2>2. T \in {"address", "uint256"}
    BY <1>6 DEF Address, WellNamed
  <2> QED
    BY <1>1, <2>1, <2>2 DEF Fits, Numbers, Types
<1>7. CASE Plainly(param) /\ ~Address(event, param) /\ T = "int24"
  <2>1. v \in Int /\ 0 - 8388608 <= v /\ v <= 8388607
    BY <1>1, <1>7, TickFits
  <2> QED
    BY <1>1, <1>7, <2>1 DEF Fits, Numbers, Types
<1>8. CASE Plainly(param) /\ ~Address(event, param) /\ T \in {"int128", "int256"}
  <2>1. v \in Int /\ 0 - 8388608 <= v /\ v <= 8388607
    BY <1>1, <1>8, DeltaFits
  <2> QED
    BY <1>1, <1>8, <2>1 DEF Fits, Numbers, Types
<1>9. CASE Plainly(param) /\ ~Address(event, param) /\ T \in Numbers
  <2>1. v \in Int /\ 0 <= v /\ v <= 16777215
    BY <1>1, <1>9, NumberFits
  <2> QED
    BY <1>1, <1>9, <2>1 DEF Fits, Numbers, Types
<1> QED
  BY <1>2, <1>3, <1>4, <1>5, <1>6, <1>7, <1>8, <1>9 DEF WellNamed, Types, Plainly, Address

(* Arguments the contract may log.                                         *)
Drawn(contract, event, args) ==
  \E s \in 1 .. 5 :
    args = [i \in DOMAIN Declared[contract][event] |->
              Argument(event, Declared[contract][event][i], i, s)]

LEMMA DrawnFits ==
  ASSUME NEW contract, NEW event, NEW args, Drawn(contract, event, args),
         NEW inputs, inputs = Declared[contract][event],
         DOMAIN inputs \subseteq 1 .. 8,
         NEW i \in DOMAIN inputs, WellNamed(event, inputs[i])
  PROVE  Fits(inputs[i].type, args[i])
<1>1. PICK s \in 1 .. 5 : args = [j \in DOMAIN inputs |-> Argument(event, inputs[j], j, s)]
  BY DEF Drawn
<1>2. args[i] = Argument(event, inputs[i], i, s) /\ i \in 1 .. 8
  BY <1>1
<1> QED
  BY <1>2, ArgumentFits

(* The row of a log shows every argument in the column that promises it.   *)
ShowsAll(contract, event, row, args) ==
  \A i \in DOMAIN Declared[contract][event] :
    Shows(row, Column(contract, event, Declared[contract][event][i]),
          Declared[contract][event][i].type, args[i])

LEMMA HookShows ==
  ASSUME NEW v, Fits("address", v), NEW row, row.hook.address = Read("address", ToWord(v))
  PROVE  Shows(row, "hooks", "address", v)
<1>1. v \in Nat /\ v <= 65535
  BY DEF Fits
<1> QED
  BY <1>1, ReadAddress DEF Shows

(* Reading one field of a log.                                             *)
LEMMA TopicRead ==
  ASSUME NEW contract, NEW event, NEW log, NEW reads, reads = Bound[contract][event].reads,
         NEW f \in DOMAIN reads, NEW reader, NEW n \in Nat, reads[f] = Topic(reader, n)
  PROVE  Decode(contract, event, log)[f] = Read(reader, log.topics[n + 1])
<1>1. reads[f].reader = reader /\ reads[f].of = "topics" /\ reads[f].at = n
  BY DEF Topic
<1>2. Decode(contract, event, log)[f] = Read(reads[f].reader, log[reads[f].of][reads[f].at + 1])
  BY DEF Decode
<1> QED
  BY <1>1, <1>2

LEMMA WordRead ==
  ASSUME NEW contract, NEW event, NEW log, NEW reads, reads = Bound[contract][event].reads,
         NEW f \in DOMAIN reads, NEW reader, NEW n \in Nat, reads[f] = Word(reader, n)
  PROVE  Decode(contract, event, log)[f] = Read(reader, log.data[n + 1])
<1>1. reads[f].reader = reader /\ reads[f].of = "data" /\ reads[f].at = n
  BY DEF Word
<1>2. Decode(contract, event, log)[f] = Read(reads[f].reader, log[reads[f].of][reads[f].at + 1])
  BY DEF Decode
<1> QED
  BY <1>1, <1>2

LEMMA LaidMatches ==
  ASSUME NEW contract, NEW event, NEW args, NEW log, NEW p, NEW q,
         Laid(contract, event, args, log, p, q),
         NEW binding, binding = Bound[contract][event],
         binding.topics = p + 1, binding.data = q
  PROVE  Matches(contract, event, log)
BY DEF Laid, Matches

LEMMA SwapEncoded ==
  ASSUME NEW args, NEW log, Logged("PoolManager", "Swap", args, log)
  PROVE  Laid("PoolManager", "Swap", args, log, 2, 6)
<1>1. PICK table : table = PoolManager_Swap_inputs
  OBVIOUS
<1>2. table = Declared["PoolManager"]["Swap"]
  BY <1>1 DEF Declared
<1>3. PrefixIndexed(table, 2, 6)
  BY <1>1 DEF PrefixIndexed, PoolManager_Swap_inputs, Indexed, Plain
<1> QED
  BY <1>2, <1>3, PrefixEncoded

(* Where the arm reads each column of its row from.                        *)
SwapColumns(row, args) ==
  /\ row.pool_id = Read("fixed_bytes", ToWord(args[1]))
  /\ row.sender = Read("address", ToWord(args[2]))
  /\ row.amount0 = Read("int", ToWord(args[3]))
  /\ row.amount1 = Read("int", ToWord(args[4]))
  /\ row.sqrt_price_x96 = Read("uint", ToWord(args[5]))
  /\ row.liquidity = Read("uint", ToWord(args[6]))
  /\ row.tick = Read("int", ToWord(args[7]))
  /\ row.fee = Read("uint", ToWord(args[8]))

LEMMA SwapRead ==
  ASSUME NEW args, NEW log, Logged("PoolManager", "Swap", args, log), NEW m,
         NEW row, row = SwapRow(Decode("PoolManager", "Swap", log), m)
  PROVE  SwapColumns(row, args)
<1>1. PICK ev : ev = Decode("PoolManager", "Swap", log)
  OBVIOUS
<1>2. /\ log.topics[2] = ToWord(args[1])
      /\ log.topics[3] = ToWord(args[2])
      /\ log.data[1] = ToWord(args[3])
      /\ log.data[2] = ToWord(args[4])
      /\ log.data[3] = ToWord(args[5])
      /\ log.data[4] = ToWord(args[6])
      /\ log.data[5] = ToWord(args[7])
      /\ log.data[6] = ToWord(args[8])
  <2>1. PICK topics, data : topics = log.topics /\ data = log.data
    OBVIOUS
  <2>2. Laid("PoolManager", "Swap", args, log, 2, 6)
    BY SwapEncoded
  <2>3. /\ topics[1 + 1] = ToWord(args[1])
        /\ topics[2 + 1] = ToWord(args[2])
        /\ data[1] = ToWord(args[2 + 1])
        /\ data[2] = ToWord(args[2 + 2])
        /\ data[3] = ToWord(args[2 + 3])
        /\ data[4] = ToWord(args[2 + 4])
        /\ data[5] = ToWord(args[2 + 5])
        /\ data[6] = ToWord(args[2 + 6])
    BY <2>1, <2>2 DEF Laid
  <2> QED
    BY <2>1, <2>3
<1>3. /\ ev.id = Read("fixed_bytes", log.topics[2])
      /\ ev.sender = Read("address", log.topics[3])
      /\ ev.amount0 = Read("int", log.data[1])
      /\ ev.amount1 = Read("int", log.data[2])
      /\ ev.sqrt_price_x96 = Read("uint", log.data[3])
      /\ ev.liquidity = Read("uint", log.data[4])
      /\ ev.tick = Read("int", log.data[5])
      /\ ev.fee = Read("uint", log.data[6])
  <2>1. PICK reads : reads = Bound["PoolManager"]["Swap"].reads
    OBVIOUS
  <2>2. /\ "id" \in DOMAIN reads /\ reads["id"] = Topic("fixed_bytes", 1)
        /\ "sender" \in DOMAIN reads /\ reads["sender"] = Topic("address", 2)
        /\ "amount0" \in DOMAIN reads /\ reads["amount0"] = Word("int", 0)
        /\ "amount1" \in DOMAIN reads /\ reads["amount1"] = Word("int", 1)
        /\ "sqrt_price_x96" \in DOMAIN reads /\ reads["sqrt_price_x96"] = Word("uint", 2)
        /\ "liquidity" \in DOMAIN reads /\ reads["liquidity"] = Word("uint", 3)
        /\ "tick" \in DOMAIN reads /\ reads["tick"] = Word("int", 4)
        /\ "fee" \in DOMAIN reads /\ reads["fee"] = Word("uint", 5)
    BY <2>1 DEF Bound, PoolManager_Swap
  <2> QED
    BY <1>1, <2>1, <2>2, TopicRead, WordRead
<1> QED
  BY <1>1, <1>2, <1>3 DEF SwapRow, SwapColumns

LEMMA SwapFits ==
  ASSUME NEW args, Drawn("PoolManager", "Swap", args),
         NEW inputs, inputs = PoolManager_Swap_inputs
  PROVE  /\ Fits(inputs[1].type, args[1])
         /\ Fits(inputs[2].type, args[2])
         /\ Fits(inputs[3].type, args[3])
         /\ Fits(inputs[4].type, args[4])
         /\ Fits(inputs[5].type, args[5])
         /\ Fits(inputs[6].type, args[6])
         /\ Fits(inputs[7].type, args[7])
         /\ Fits(inputs[8].type, args[8])
<1>1. Declared["PoolManager"]["Swap"] = inputs /\ DOMAIN inputs = 1 .. 8
  BY DEF Declared, PoolManager_Swap_inputs
<1>2. \A i \in 1 .. 8 : WellNamed("Swap", inputs[i])
  BY DEF PoolManager_Swap_inputs, Indexed, Plain, WellNamed, Types, Numbers
<1>3. \A i \in 1 .. 8 : Fits(inputs[i].type, args[i])
  BY <1>1, <1>2, DrawnFits
<1> QED
  BY <1>3

LEMMA SwapShown ==
  ASSUME NEW args, Drawn("PoolManager", "Swap", args),
         NEW log, Logged("PoolManager", "Swap", args, log), NEW m
  PROVE  /\ Matches("PoolManager", "Swap", log)
         /\ ShowsAll("PoolManager", "Swap",
                     SwapRow(Decode("PoolManager", "Swap", log), m), args)
<1>1. PICK inputs, row : /\ inputs = PoolManager_Swap_inputs
                         /\ row = SwapRow(Decode("PoolManager", "Swap", log), m)
  OBVIOUS
<1>2. SwapColumns(row, args)
  BY <1>1, SwapRead
<1>3. Declared["PoolManager"]["Swap"] = inputs /\ DOMAIN inputs = 1 .. 8
  BY <1>1 DEF Declared, PoolManager_Swap_inputs
<1>4. /\ Fits(inputs[1].type, args[1])
      /\ Fits(inputs[2].type, args[2])
      /\ Fits(inputs[3].type, args[3])
      /\ Fits(inputs[4].type, args[4])
      /\ Fits(inputs[5].type, args[5])
      /\ Fits(inputs[6].type, args[6])
      /\ Fits(inputs[7].type, args[7])
      /\ Fits(inputs[8].type, args[8])
  BY <1>1, SwapFits
<1>5. /\ inputs[1].type = "bytes32" /\ Column("PoolManager", "Swap", inputs[1]) = "pool_id"
      /\ inputs[2].type = "address" /\ Column("PoolManager", "Swap", inputs[2]) = "sender"
      /\ inputs[3].type = "int128" /\ Column("PoolManager", "Swap", inputs[3]) = "amount0"
      /\ inputs[4].type = "int128" /\ Column("PoolManager", "Swap", inputs[4]) = "amount1"
      /\ inputs[5].type = "uint160" /\ Column("PoolManager", "Swap", inputs[5]) = "sqrt_price_x96"
      /\ inputs[6].type = "uint128" /\ Column("PoolManager", "Swap", inputs[6]) = "liquidity"
      /\ inputs[7].type = "int24" /\ Column("PoolManager", "Swap", inputs[7]) = "tick"
      /\ inputs[8].type = "uint24" /\ Column("PoolManager", "Swap", inputs[8]) = "fee"
  BY <1>1 DEF Column, PoolManager_Swap_inputs, Indexed, Plain
<1>6. /\ Suits("fixed_bytes", "bytes32")
      /\ Suits("address", "address")
      /\ Suits("int", "int128")
      /\ Suits("int", "int128")
      /\ Suits("uint", "uint160")
      /\ Suits("uint", "uint128")
      /\ Suits("int", "int24")
      /\ Suits("uint", "uint24")
  BY DEF Suits, Numbers
<1>7. /\ Shows(row, "pool_id", "bytes32", args[1])
      /\ Shows(row, "sender", "address", args[2])
      /\ Shows(row, "amount0", "int128", args[3])
      /\ Shows(row, "amount1", "int128", args[4])
      /\ Shows(row, "sqrt_price_x96", "uint160", args[5])
      /\ Shows(row, "liquidity", "uint128", args[6])
      /\ Shows(row, "tick", "int24", args[7])
      /\ Shows(row, "fee", "uint24", args[8])
  BY <1>2, <1>4, <1>5, <1>6, ColumnShows DEF SwapColumns
<1>8. Matches("PoolManager", "Swap", log)
  <2>1. PICK binding : binding = Bound["PoolManager"]["Swap"]
    OBVIOUS
  <2>2. binding.topics = 2 + 1 /\ binding.data = 6
    BY <2>1 DEF Bound, PoolManager_Swap
  <2> QED
    BY <2>1, <2>2, SwapEncoded, LaidMatches
<1> QED
  BY <1>1, <1>3, <1>5, <1>7, <1>8 DEF ShowsAll

LEMMA ModifyLiquidityEncoded ==
  ASSUME NEW args, NEW log, Logged("PoolManager", "ModifyLiquidity", args, log)
  PROVE  Laid("PoolManager", "ModifyLiquidity", args, log, 2, 4)
<1>1. PICK table : table = PoolManager_ModifyLiquidity_inputs
  OBVIOUS
<1>2. table = Declared["PoolManager"]["ModifyLiquidity"]
  BY <1>1 DEF Declared
<1>3. PrefixIndexed(table, 2, 4)
  BY <1>1 DEF PrefixIndexed, PoolManager_ModifyLiquidity_inputs, Indexed, Plain
<1> QED
  BY <1>2, <1>3, PrefixEncoded

(* Where the arm reads each column of its row from.                        *)
ModifyLiquidityColumns(row, args) ==
  /\ row.pool_id = Read("fixed_bytes", ToWord(args[1]))
  /\ row.sender = Read("address", ToWord(args[2]))
  /\ row.tick_lower = Read("int", ToWord(args[3]))
  /\ row.tick_upper = Read("int", ToWord(args[4]))
  /\ row.liquidity_delta = Read("int", ToWord(args[5]))
  /\ row.salt = Read("fixed_bytes", ToWord(args[6]))

LEMMA ModifyLiquidityRead ==
  ASSUME NEW args, NEW log, Logged("PoolManager", "ModifyLiquidity", args, log), NEW m,
         NEW row, row = ModifyLiquidityRow(Decode("PoolManager", "ModifyLiquidity", log), m)
  PROVE  ModifyLiquidityColumns(row, args)
<1>1. PICK ev : ev = Decode("PoolManager", "ModifyLiquidity", log)
  OBVIOUS
<1>2. /\ log.topics[2] = ToWord(args[1])
      /\ log.topics[3] = ToWord(args[2])
      /\ log.data[1] = ToWord(args[3])
      /\ log.data[2] = ToWord(args[4])
      /\ log.data[3] = ToWord(args[5])
      /\ log.data[4] = ToWord(args[6])
  <2>1. PICK topics, data : topics = log.topics /\ data = log.data
    OBVIOUS
  <2>2. Laid("PoolManager", "ModifyLiquidity", args, log, 2, 4)
    BY ModifyLiquidityEncoded
  <2>3. /\ topics[1 + 1] = ToWord(args[1])
        /\ topics[2 + 1] = ToWord(args[2])
        /\ data[1] = ToWord(args[2 + 1])
        /\ data[2] = ToWord(args[2 + 2])
        /\ data[3] = ToWord(args[2 + 3])
        /\ data[4] = ToWord(args[2 + 4])
    BY <2>1, <2>2 DEF Laid
  <2> QED
    BY <2>1, <2>3
<1>3. /\ ev.id = Read("fixed_bytes", log.topics[2])
      /\ ev.sender = Read("address", log.topics[3])
      /\ ev.tick_lower = Read("int", log.data[1])
      /\ ev.tick_upper = Read("int", log.data[2])
      /\ ev.liquidity_delta = Read("int", log.data[3])
      /\ ev.salt = Read("fixed_bytes", log.data[4])
  <2>1. PICK reads : reads = Bound["PoolManager"]["ModifyLiquidity"].reads
    OBVIOUS
  <2>2. /\ "id" \in DOMAIN reads /\ reads["id"] = Topic("fixed_bytes", 1)
        /\ "sender" \in DOMAIN reads /\ reads["sender"] = Topic("address", 2)
        /\ "tick_lower" \in DOMAIN reads /\ reads["tick_lower"] = Word("int", 0)
        /\ "tick_upper" \in DOMAIN reads /\ reads["tick_upper"] = Word("int", 1)
        /\ "liquidity_delta" \in DOMAIN reads /\ reads["liquidity_delta"] = Word("int", 2)
        /\ "salt" \in DOMAIN reads /\ reads["salt"] = Word("fixed_bytes", 3)
    BY <2>1 DEF Bound, PoolManager_ModifyLiquidity
  <2> QED
    BY <1>1, <2>1, <2>2, TopicRead, WordRead
<1> QED
  BY <1>1, <1>2, <1>3 DEF ModifyLiquidityRow, ModifyLiquidityColumns

LEMMA ModifyLiquidityFits ==
  ASSUME NEW args, Drawn("PoolManager", "ModifyLiquidity", args),
         NEW inputs, inputs = PoolManager_ModifyLiquidity_inputs
  PROVE  /\ Fits(inputs[1].type, args[1])
         /\ Fits(inputs[2].type, args[2])
         /\ Fits(inputs[3].type, args[3])
         /\ Fits(inputs[4].type, args[4])
         /\ Fits(inputs[5].type, args[5])
         /\ Fits(inputs[6].type, args[6])
<1>1. Declared["PoolManager"]["ModifyLiquidity"] = inputs /\ DOMAIN inputs = 1 .. 6
  BY DEF Declared, PoolManager_ModifyLiquidity_inputs
<1>2. \A i \in 1 .. 6 : WellNamed("ModifyLiquidity", inputs[i])
  BY DEF PoolManager_ModifyLiquidity_inputs, Indexed, Plain, WellNamed, Types, Numbers
<1>3. \A i \in 1 .. 6 : Fits(inputs[i].type, args[i])
  BY <1>1, <1>2, DrawnFits
<1> QED
  BY <1>3

LEMMA ModifyLiquidityShown ==
  ASSUME NEW args, Drawn("PoolManager", "ModifyLiquidity", args),
         NEW log, Logged("PoolManager", "ModifyLiquidity", args, log), NEW m
  PROVE  /\ Matches("PoolManager", "ModifyLiquidity", log)
         /\ ShowsAll("PoolManager", "ModifyLiquidity",
                     ModifyLiquidityRow(Decode("PoolManager", "ModifyLiquidity", log), m), args)
<1>1. PICK inputs, row : /\ inputs = PoolManager_ModifyLiquidity_inputs
                         /\ row = ModifyLiquidityRow(Decode("PoolManager", "ModifyLiquidity", log), m)
  OBVIOUS
<1>2. ModifyLiquidityColumns(row, args)
  BY <1>1, ModifyLiquidityRead
<1>3. Declared["PoolManager"]["ModifyLiquidity"] = inputs /\ DOMAIN inputs = 1 .. 6
  BY <1>1 DEF Declared, PoolManager_ModifyLiquidity_inputs
<1>4. /\ Fits(inputs[1].type, args[1])
      /\ Fits(inputs[2].type, args[2])
      /\ Fits(inputs[3].type, args[3])
      /\ Fits(inputs[4].type, args[4])
      /\ Fits(inputs[5].type, args[5])
      /\ Fits(inputs[6].type, args[6])
  BY <1>1, ModifyLiquidityFits
<1>5. /\ inputs[1].type = "bytes32"
      /\ Column("PoolManager", "ModifyLiquidity", inputs[1]) = "pool_id"
      /\ inputs[2].type = "address"
      /\ Column("PoolManager", "ModifyLiquidity", inputs[2]) = "sender"
      /\ inputs[3].type = "int24"
      /\ Column("PoolManager", "ModifyLiquidity", inputs[3]) = "tick_lower"
      /\ inputs[4].type = "int24"
      /\ Column("PoolManager", "ModifyLiquidity", inputs[4]) = "tick_upper"
      /\ inputs[5].type = "int256"
      /\ Column("PoolManager", "ModifyLiquidity", inputs[5]) = "liquidity_delta"
      /\ inputs[6].type = "bytes32" /\ Column("PoolManager", "ModifyLiquidity", inputs[6]) = "salt"
  BY <1>1 DEF Column, PoolManager_ModifyLiquidity_inputs, Indexed, Plain
<1>6. /\ Suits("fixed_bytes", "bytes32")
      /\ Suits("address", "address")
      /\ Suits("int", "int24")
      /\ Suits("int", "int24")
      /\ Suits("int", "int256")
      /\ Suits("fixed_bytes", "bytes32")
  BY DEF Suits, Numbers
<1>7. /\ Shows(row, "pool_id", "bytes32", args[1])
      /\ Shows(row, "sender", "address", args[2])
      /\ Shows(row, "tick_lower", "int24", args[3])
      /\ Shows(row, "tick_upper", "int24", args[4])
      /\ Shows(row, "liquidity_delta", "int256", args[5])
      /\ Shows(row, "salt", "bytes32", args[6])
  BY <1>2, <1>4, <1>5, <1>6, ColumnShows DEF ModifyLiquidityColumns
<1>8. Matches("PoolManager", "ModifyLiquidity", log)
  <2>1. PICK binding : binding = Bound["PoolManager"]["ModifyLiquidity"]
    OBVIOUS
  <2>2. binding.topics = 2 + 1 /\ binding.data = 4
    BY <2>1 DEF Bound, PoolManager_ModifyLiquidity
  <2> QED
    BY <2>1, <2>2, ModifyLiquidityEncoded, LaidMatches
<1> QED
  BY <1>1, <1>3, <1>5, <1>7, <1>8 DEF ShowsAll

LEMMA PoolEncoded ==
  ASSUME NEW args, NEW log, Logged("PoolManager", "Initialize", args, log)
  PROVE  Laid("PoolManager", "Initialize", args, log, 3, 5)
<1>1. PICK table : table = PoolManager_Initialize_inputs
  OBVIOUS
<1>2. table = Declared["PoolManager"]["Initialize"]
  BY <1>1 DEF Declared
<1>3. PrefixIndexed(table, 3, 5)
  BY <1>1 DEF PrefixIndexed, PoolManager_Initialize_inputs, Indexed, Plain
<1> QED
  BY <1>2, <1>3, PrefixEncoded

(* Where the arm reads each column of its row from.                        *)
PoolColumns(row, args) ==
  /\ row.id = Read("fixed_bytes", ToWord(args[1]))
  /\ row.token0 = Read("address", ToWord(args[2]))
  /\ row.token1 = Read("address", ToWord(args[3]))
  /\ row.fee_tier = Read("uint", ToWord(args[4]))
  /\ row.tick_spacing = Read("int", ToWord(args[5]))
  /\ row.hook = decode_hook(Read("address", ToWord(args[6])))
  /\ row.sqrt_price = Read("uint", ToWord(args[7]))
  /\ row.tick = Read("int", ToWord(args[8]))

LEMMA PoolRead ==
  ASSUME NEW args, NEW log, Logged("PoolManager", "Initialize", args, log), NEW m,
         NEW row, row = PoolRow(Decode("PoolManager", "Initialize", log), m)
  PROVE  PoolColumns(row, args)
<1>1. PICK ev : ev = Decode("PoolManager", "Initialize", log)
  OBVIOUS
<1>2. /\ log.topics[2] = ToWord(args[1])
      /\ log.topics[3] = ToWord(args[2])
      /\ log.topics[4] = ToWord(args[3])
      /\ log.data[1] = ToWord(args[4])
      /\ log.data[2] = ToWord(args[5])
      /\ log.data[3] = ToWord(args[6])
      /\ log.data[4] = ToWord(args[7])
      /\ log.data[5] = ToWord(args[8])
  <2>1. PICK topics, data : topics = log.topics /\ data = log.data
    OBVIOUS
  <2>2. Laid("PoolManager", "Initialize", args, log, 3, 5)
    BY PoolEncoded
  <2>3. /\ topics[1 + 1] = ToWord(args[1])
        /\ topics[2 + 1] = ToWord(args[2])
        /\ topics[3 + 1] = ToWord(args[3])
        /\ data[1] = ToWord(args[3 + 1])
        /\ data[2] = ToWord(args[3 + 2])
        /\ data[3] = ToWord(args[3 + 3])
        /\ data[4] = ToWord(args[3 + 4])
        /\ data[5] = ToWord(args[3 + 5])
    BY <2>1, <2>2 DEF Laid
  <2> QED
    BY <2>1, <2>3
<1>3. /\ ev.id = Read("fixed_bytes", log.topics[2])
      /\ ev.currency0 = Read("address", log.topics[3])
      /\ ev.currency1 = Read("address", log.topics[4])
      /\ ev.fee = Read("uint", log.data[1])
      /\ ev.tick_spacing = Read("int", log.data[2])
      /\ ev.hooks = Read("address", log.data[3])
      /\ ev.sqrt_price_x96 = Read("uint", log.data[4])
      /\ ev.tick = Read("int", log.data[5])
  <2>1. PICK reads : reads = Bound["PoolManager"]["Initialize"].reads
    OBVIOUS
  <2>2. /\ "id" \in DOMAIN reads /\ reads["id"] = Topic("fixed_bytes", 1)
        /\ "currency0" \in DOMAIN reads /\ reads["currency0"] = Topic("address", 2)
        /\ "currency1" \in DOMAIN reads /\ reads["currency1"] = Topic("address", 3)
        /\ "fee" \in DOMAIN reads /\ reads["fee"] = Word("uint", 0)
        /\ "tick_spacing" \in DOMAIN reads /\ reads["tick_spacing"] = Word("int", 1)
        /\ "hooks" \in DOMAIN reads /\ reads["hooks"] = Word("address", 2)
        /\ "sqrt_price_x96" \in DOMAIN reads /\ reads["sqrt_price_x96"] = Word("uint", 3)
        /\ "tick" \in DOMAIN reads /\ reads["tick"] = Word("int", 4)
    BY <2>1 DEF Bound, PoolManager_Initialize
  <2> QED
    BY <1>1, <2>1, <2>2, TopicRead, WordRead
<1> QED
  BY <1>1, <1>2, <1>3 DEF PoolRow, PoolColumns

LEMMA PoolFits ==
  ASSUME NEW args, Drawn("PoolManager", "Initialize", args),
         NEW inputs, inputs = PoolManager_Initialize_inputs
  PROVE  /\ Fits(inputs[1].type, args[1])
         /\ Fits(inputs[2].type, args[2])
         /\ Fits(inputs[3].type, args[3])
         /\ Fits(inputs[4].type, args[4])
         /\ Fits(inputs[5].type, args[5])
         /\ Fits(inputs[6].type, args[6])
         /\ Fits(inputs[7].type, args[7])
         /\ Fits(inputs[8].type, args[8])
<1>1. Declared["PoolManager"]["Initialize"] = inputs /\ DOMAIN inputs = 1 .. 8
  BY DEF Declared, PoolManager_Initialize_inputs
<1>2. \A i \in 1 .. 8 : WellNamed("Initialize", inputs[i])
  BY DEF PoolManager_Initialize_inputs, Indexed, Plain, WellNamed, Types, Numbers
<1>3. \A i \in 1 .. 8 : Fits(inputs[i].type, args[i])
  BY <1>1, <1>2, DrawnFits
<1> QED
  BY <1>3

LEMMA PoolShown ==
  ASSUME NEW args, Drawn("PoolManager", "Initialize", args),
         NEW log, Logged("PoolManager", "Initialize", args, log), NEW m
  PROVE  /\ Matches("PoolManager", "Initialize", log)
         /\ ShowsAll("PoolManager", "Initialize",
                     PoolRow(Decode("PoolManager", "Initialize", log), m), args)
<1>1. PICK inputs, row : /\ inputs = PoolManager_Initialize_inputs
                         /\ row = PoolRow(Decode("PoolManager", "Initialize", log), m)
  OBVIOUS
<1>2. PoolColumns(row, args)
  BY <1>1, PoolRead
<1>3. Declared["PoolManager"]["Initialize"] = inputs /\ DOMAIN inputs = 1 .. 8
  BY <1>1 DEF Declared, PoolManager_Initialize_inputs
<1>4. /\ Fits(inputs[1].type, args[1])
      /\ Fits(inputs[2].type, args[2])
      /\ Fits(inputs[3].type, args[3])
      /\ Fits(inputs[4].type, args[4])
      /\ Fits(inputs[5].type, args[5])
      /\ Fits(inputs[6].type, args[6])
      /\ Fits(inputs[7].type, args[7])
      /\ Fits(inputs[8].type, args[8])
  BY <1>1, PoolFits
<1>5. /\ inputs[1].type = "bytes32" /\ Column("PoolManager", "Initialize", inputs[1]) = "id"
      /\ inputs[2].type = "address" /\ Column("PoolManager", "Initialize", inputs[2]) = "token0"
      /\ inputs[3].type = "address" /\ Column("PoolManager", "Initialize", inputs[3]) = "token1"
      /\ inputs[4].type = "uint24" /\ Column("PoolManager", "Initialize", inputs[4]) = "fee_tier"
      /\ inputs[5].type = "int24" /\ Column("PoolManager", "Initialize", inputs[5]) = "tick_spacing"
      /\ inputs[6].type = "address" /\ Column("PoolManager", "Initialize", inputs[6]) = "hooks"
      /\ inputs[7].type = "uint160" /\ Column("PoolManager", "Initialize", inputs[7]) = "sqrt_price"
      /\ inputs[8].type = "int24" /\ Column("PoolManager", "Initialize", inputs[8]) = "tick"
  BY <1>1 DEF Column, PoolManager_Initialize_inputs, Indexed, Plain
<1>6. /\ Suits("fixed_bytes", "bytes32")
      /\ Suits("address", "address")
      /\ Suits("address", "address")
      /\ Suits("uint", "uint24")
      /\ Suits("int", "int24")
      /\ Suits("address", "address")
      /\ Suits("uint", "uint160")
      /\ Suits("int", "int24")
  BY DEF Suits, Numbers
<1>7. /\ Shows(row, "id", "bytes32", args[1])
      /\ Shows(row, "token0", "address", args[2])
      /\ Shows(row, "token1", "address", args[3])
      /\ Shows(row, "fee_tier", "uint24", args[4])
      /\ Shows(row, "tick_spacing", "int24", args[5])
      /\ Shows(row, "hooks", "address", args[6])
      /\ Shows(row, "sqrt_price", "uint160", args[7])
      /\ Shows(row, "tick", "int24", args[8])
  <2>1. row.hook.address = Read("address", ToWord(args[6]))
    BY <1>2 DEF PoolColumns, decode_hook
  <2> QED
    BY <1>2, <1>4, <1>5, <1>6, <2>1, ColumnShows, HookShows DEF PoolColumns
<1>8. Matches("PoolManager", "Initialize", log)
  <2>1. PICK binding : binding = Bound["PoolManager"]["Initialize"]
    OBVIOUS
  <2>2. binding.topics = 3 + 1 /\ binding.data = 5
    BY <2>1 DEF Bound, PoolManager_Initialize
  <2> QED
    BY <2>1, <2>2, PoolEncoded, LaidMatches
<1> QED
  BY <1>1, <1>3, <1>5, <1>7, <1>8 DEF ShowsAll

(* The caller of a transfer is not indexed, the three parameters after it  *)
(* are.                                                                    *)
LEMMA TransferEncoded ==
  ASSUME NEW args, NEW log, Logged("PoolManager", "Transfer", args, log)
  PROVE  /\ Len(log.topics) = 4 /\ log.topics[1] = <<"PoolManager", "Transfer">>
         /\ log.topics[2] = ToWord(args[2])
         /\ log.topics[3] = ToWord(args[3])
         /\ log.topics[4] = ToWord(args[4])
         /\ Len(log.data) = 2
         /\ log.data[1] = ToWord(args[1])
         /\ log.data[2] = ToWord(args[5])
<1>1. PICK table : table = PoolManager_Transfer_inputs
  OBVIOUS
<1>2. table = Declared["PoolManager"]["Transfer"]
  BY <1>1 DEF Declared
<1>3. PICK S, T : /\ S = {i \in DOMAIN table : table[i].indexed = TRUE}
                  /\ T = {i \in DOMAIN table : table[i].indexed = FALSE}
  OBVIOUS
<1>4. S = {2, 3, 4} /\ T = {1, 5}
  BY <1>1, <1>3 DEF PoolManager_Transfer_inputs, Indexed, Plain
<1>5. PICK t, d : t = Words(args, S) /\ d = Words(args, T)
  OBVIOUS
<1>6. log.topics = <<<<"PoolManager", "Transfer">>>> \o t /\ log.data = d
  BY <1>2, <1>3, <1>5 DEF Encode, Logged
<1>7. S = After(1, 3)
  <2>1. After(1, 3) = 2 .. 4
    BY DEF After
  <2> QED
    BY <1>4, <2>1
<1>8. /\ \E R : t \in Seq(R)
      /\ Len(t) = 3
      /\ \A k \in 1 .. 3 : t[k] = ToWord(args[1 + k])
  <2>1. PICK a, q : a = 1 /\ q = 3
    OBVIOUS
  <2>2. a \in Nat /\ q \in Nat /\ S = After(a, q)
    BY <1>7, <2>1
  <2>3. /\ \E R : t \in Seq(R)
        /\ Len(t) = q
        /\ \A k \in 1 .. q : t[k] = ToWord(args[a + k])
    BY <1>5, <2>2, WordsOfRange
  <2> QED
    BY <2>1, <2>3
<1>9. t[1] = ToWord(args[2]) /\ t[2] = ToWord(args[3]) /\ t[3] = ToWord(args[4])
  BY <1>8
<1>10. PICK R : t \in Seq(R)
  BY <1>8
<1>11. PICK topics, head : topics = <<head>> \o t /\ head = <<"PoolManager", "Transfer">>
  OBVIOUS
<1>12. /\ Len(topics) = Len(t) + 1 /\ topics[1] = head
       /\ \A k \in 1 .. Len(t) : topics[k + 1] = t[k]
  BY <1>10, <1>11, HeadThenTail
<1>13. topics[1 + 1] = t[1] /\ topics[2 + 1] = t[2] /\ topics[3 + 1] = t[3]
  BY <1>8, <1>12
<1>14. Cardinality(T) = 2
  <2>1. Cardinality({1}) = 1 /\ IsFiniteSet({1})
    BY FS_Singleton
  <2>2. Cardinality({1} \cup {5}) = Cardinality({1}) + 1
    BY <2>1, FS_AddElement
  <2>3. T = {1} \cup {5}
    BY <1>4
  <2> QED
    BY <2>1, <2>2, <2>3
<1>15. Nth(T, 1) = 1 /\ Nth(T, 2) = 5
  <2>1. {j \in T : j < 1} = {} /\ {j \in T : j < 5} = {1}
    BY <1>4
  <2>2. Cardinality({j \in T : j < 1}) = 0 /\ Cardinality({j \in T : j < 5}) = 1
    BY <2>1, FS_EmptySet, FS_Singleton
  <2>3. PICK y, z : y = Nth(T, 1) /\ z = Nth(T, 2)
    OBVIOUS
  <2>4. y \in T /\ Cardinality({j \in T : j < y}) = 0
    BY <1>4, <2>2, <2>3 DEF Nth
  <2>5. z \in T /\ Cardinality({j \in T : j < z}) = 1
    BY <1>4, <2>2, <2>3 DEF Nth
  <2> QED
    BY <1>4, <2>2, <2>3, <2>4, <2>5
<1>16. d = [k \in 1 .. 2 |-> ToWord(args[Nth(T, k)])]
  BY <1>5, <1>14 DEF Words
<1>17. Len(d) = 2 /\ d[1] = ToWord(args[1]) /\ d[2] = ToWord(args[5])
  BY <1>15, <1>16
<1> QED
  BY <1>6, <1>8, <1>9, <1>11, <1>12, <1>13, <1>17

(* Where the arm reads each column of its row from.                        *)
TransferColumns(row, args) ==
  /\ row.caller = Read("address", ToWord(args[1]))
  /\ row.from = Read("address", ToWord(args[2]))
  /\ row.to = Read("address", ToWord(args[3]))
  /\ row.currency_id = Read("uint", ToWord(args[4]))
  /\ row.amount = Read("uint", ToWord(args[5]))

LEMMA TransferRead ==
  ASSUME NEW args, NEW log, Logged("PoolManager", "Transfer", args, log), NEW m,
         NEW row, row = TransferRow(Decode("PoolManager", "Transfer", log), m)
  PROVE  TransferColumns(row, args)
<1>1. PICK ev : ev = Decode("PoolManager", "Transfer", log)
  OBVIOUS
<1>2. /\ log.data[1] = ToWord(args[1])
      /\ log.topics[2] = ToWord(args[2])
      /\ log.topics[3] = ToWord(args[3])
      /\ log.topics[4] = ToWord(args[4])
      /\ log.data[2] = ToWord(args[5])
  BY TransferEncoded
<1>3. /\ ev.caller = Read("address", log.data[1])
      /\ ev.from = Read("address", log.topics[2])
      /\ ev.to = Read("address", log.topics[3])
      /\ ev.id = Read("uint", log.topics[4])
      /\ ev.amount = Read("uint", log.data[2])
  <2>1. PICK reads : reads = Bound["PoolManager"]["Transfer"].reads
    OBVIOUS
  <2>2. /\ "caller" \in DOMAIN reads /\ reads["caller"] = Word("address", 0)
        /\ "from" \in DOMAIN reads /\ reads["from"] = Topic("address", 1)
        /\ "to" \in DOMAIN reads /\ reads["to"] = Topic("address", 2)
        /\ "id" \in DOMAIN reads /\ reads["id"] = Topic("uint", 3)
        /\ "amount" \in DOMAIN reads /\ reads["amount"] = Word("uint", 1)
    BY <2>1 DEF Bound, PoolManager_Transfer
  <2> QED
    BY <1>1, <2>1, <2>2, TopicRead, WordRead
<1> QED
  BY <1>1, <1>2, <1>3 DEF TransferRow, TransferColumns

LEMMA TransferFits ==
  ASSUME NEW args, Drawn("PoolManager", "Transfer", args),
         NEW inputs, inputs = PoolManager_Transfer_inputs
  PROVE  /\ Fits(inputs[1].type, args[1])
         /\ Fits(inputs[2].type, args[2])
         /\ Fits(inputs[3].type, args[3])
         /\ Fits(inputs[4].type, args[4])
         /\ Fits(inputs[5].type, args[5])
<1>1. Declared["PoolManager"]["Transfer"] = inputs /\ DOMAIN inputs = 1 .. 5
  BY DEF Declared, PoolManager_Transfer_inputs
<1>2. \A i \in 1 .. 5 : WellNamed("Transfer", inputs[i])
  BY DEF PoolManager_Transfer_inputs, Indexed, Plain, WellNamed, Types, Numbers
<1>3. \A i \in 1 .. 5 : Fits(inputs[i].type, args[i])
  BY <1>1, <1>2, DrawnFits
<1> QED
  BY <1>3

LEMMA TransferShown ==
  ASSUME NEW args, Drawn("PoolManager", "Transfer", args),
         NEW log, Logged("PoolManager", "Transfer", args, log), NEW m
  PROVE  /\ Matches("PoolManager", "Transfer", log)
         /\ ShowsAll("PoolManager", "Transfer",
                     TransferRow(Decode("PoolManager", "Transfer", log), m), args)
<1>1. PICK inputs, row : /\ inputs = PoolManager_Transfer_inputs
                         /\ row = TransferRow(Decode("PoolManager", "Transfer", log), m)
  OBVIOUS
<1>2. TransferColumns(row, args)
  BY <1>1, TransferRead
<1>3. Declared["PoolManager"]["Transfer"] = inputs /\ DOMAIN inputs = 1 .. 5
  BY <1>1 DEF Declared, PoolManager_Transfer_inputs
<1>4. /\ Fits(inputs[1].type, args[1])
      /\ Fits(inputs[2].type, args[2])
      /\ Fits(inputs[3].type, args[3])
      /\ Fits(inputs[4].type, args[4])
      /\ Fits(inputs[5].type, args[5])
  BY <1>1, TransferFits
<1>5. /\ inputs[1].type = "address" /\ Column("PoolManager", "Transfer", inputs[1]) = "caller"
      /\ inputs[2].type = "address" /\ Column("PoolManager", "Transfer", inputs[2]) = "from"
      /\ inputs[3].type = "address" /\ Column("PoolManager", "Transfer", inputs[3]) = "to"
      /\ inputs[4].type = "uint256" /\ Column("PoolManager", "Transfer", inputs[4]) = "currency_id"
      /\ inputs[5].type = "uint256" /\ Column("PoolManager", "Transfer", inputs[5]) = "amount"
  BY <1>1 DEF Column, PoolManager_Transfer_inputs, Indexed, Plain
<1>6. /\ Suits("address", "address")
      /\ Suits("address", "address")
      /\ Suits("address", "address")
      /\ Suits("uint", "uint256")
      /\ Suits("uint", "uint256")
  BY DEF Suits, Numbers
<1>7. /\ Shows(row, "caller", "address", args[1])
      /\ Shows(row, "from", "address", args[2])
      /\ Shows(row, "to", "address", args[3])
      /\ Shows(row, "currency_id", "uint256", args[4])
      /\ Shows(row, "amount", "uint256", args[5])
  BY <1>2, <1>4, <1>5, <1>6, ColumnShows DEF TransferColumns
<1>8. Matches("PoolManager", "Transfer", log)
  <2>1. PICK binding : binding = Bound["PoolManager"]["Transfer"]
    OBVIOUS
  <2>2. binding.topics = 4 /\ binding.data = 2
    BY <2>1 DEF Bound, PoolManager_Transfer
  <2> QED
    BY <2>1, <2>2, TransferEncoded DEF Matches
<1> QED
  BY <1>1, <1>3, <1>5, <1>7, <1>8 DEF ShowsAll

LEMMA DonateEncoded ==
  ASSUME NEW args, NEW log, Logged("PoolManager", "Donate", args, log)
  PROVE  Laid("PoolManager", "Donate", args, log, 2, 2)
<1>1. PICK table : table = PoolManager_Donate_inputs
  OBVIOUS
<1>2. table = Declared["PoolManager"]["Donate"]
  BY <1>1 DEF Declared
<1>3. PrefixIndexed(table, 2, 2)
  BY <1>1 DEF PrefixIndexed, PoolManager_Donate_inputs, Indexed, Plain
<1> QED
  BY <1>2, <1>3, PrefixEncoded

(* Where the arm reads each column of its row from.                        *)
DonateColumns(row, args) ==
  /\ row.pool_id = Read("fixed_bytes", ToWord(args[1]))
  /\ row.sender = Read("address", ToWord(args[2]))
  /\ row.amount0 = Read("uint", ToWord(args[3]))
  /\ row.amount1 = Read("uint", ToWord(args[4]))

LEMMA DonateRead ==
  ASSUME NEW args, NEW log, Logged("PoolManager", "Donate", args, log), NEW m,
         NEW row, row = DonateRow(Decode("PoolManager", "Donate", log), m)
  PROVE  DonateColumns(row, args)
<1>1. PICK ev : ev = Decode("PoolManager", "Donate", log)
  OBVIOUS
<1>2. /\ log.topics[2] = ToWord(args[1])
      /\ log.topics[3] = ToWord(args[2])
      /\ log.data[1] = ToWord(args[3])
      /\ log.data[2] = ToWord(args[4])
  <2>1. PICK topics, data : topics = log.topics /\ data = log.data
    OBVIOUS
  <2>2. Laid("PoolManager", "Donate", args, log, 2, 2)
    BY DonateEncoded
  <2>3. /\ topics[1 + 1] = ToWord(args[1])
        /\ topics[2 + 1] = ToWord(args[2])
        /\ data[1] = ToWord(args[2 + 1])
        /\ data[2] = ToWord(args[2 + 2])
    BY <2>1, <2>2 DEF Laid
  <2> QED
    BY <2>1, <2>3
<1>3. /\ ev.id = Read("fixed_bytes", log.topics[2])
      /\ ev.sender = Read("address", log.topics[3])
      /\ ev.amount0 = Read("uint", log.data[1])
      /\ ev.amount1 = Read("uint", log.data[2])
  <2>1. PICK reads : reads = Bound["PoolManager"]["Donate"].reads
    OBVIOUS
  <2>2. /\ "id" \in DOMAIN reads /\ reads["id"] = Topic("fixed_bytes", 1)
        /\ "sender" \in DOMAIN reads /\ reads["sender"] = Topic("address", 2)
        /\ "amount0" \in DOMAIN reads /\ reads["amount0"] = Word("uint", 0)
        /\ "amount1" \in DOMAIN reads /\ reads["amount1"] = Word("uint", 1)
    BY <2>1 DEF Bound, PoolManager_Donate
  <2> QED
    BY <1>1, <2>1, <2>2, TopicRead, WordRead
<1> QED
  BY <1>1, <1>2, <1>3 DEF DonateRow, DonateColumns

LEMMA DonateFits ==
  ASSUME NEW args, Drawn("PoolManager", "Donate", args),
         NEW inputs, inputs = PoolManager_Donate_inputs
  PROVE  /\ Fits(inputs[1].type, args[1])
         /\ Fits(inputs[2].type, args[2])
         /\ Fits(inputs[3].type, args[3])
         /\ Fits(inputs[4].type, args[4])
<1>1. Declared["PoolManager"]["Donate"] = inputs /\ DOMAIN inputs = 1 .. 4
  BY DEF Declared, PoolManager_Donate_inputs
<1>2. \A i \in 1 .. 4 : WellNamed("Donate", inputs[i])
  BY DEF PoolManager_Donate_inputs, Indexed, Plain, WellNamed, Types, Numbers
<1>3. \A i \in 1 .. 4 : Fits(inputs[i].type, args[i])
  BY <1>1, <1>2, DrawnFits
<1> QED
  BY <1>3

LEMMA DonateShown ==
  ASSUME NEW args, Drawn("PoolManager", "Donate", args),
         NEW log, Logged("PoolManager", "Donate", args, log), NEW m
  PROVE  /\ Matches("PoolManager", "Donate", log)
         /\ ShowsAll("PoolManager", "Donate",
                     DonateRow(Decode("PoolManager", "Donate", log), m), args)
<1>1. PICK inputs, row : /\ inputs = PoolManager_Donate_inputs
                         /\ row = DonateRow(Decode("PoolManager", "Donate", log), m)
  OBVIOUS
<1>2. DonateColumns(row, args)
  BY <1>1, DonateRead
<1>3. Declared["PoolManager"]["Donate"] = inputs /\ DOMAIN inputs = 1 .. 4
  BY <1>1 DEF Declared, PoolManager_Donate_inputs
<1>4. /\ Fits(inputs[1].type, args[1])
      /\ Fits(inputs[2].type, args[2])
      /\ Fits(inputs[3].type, args[3])
      /\ Fits(inputs[4].type, args[4])
  BY <1>1, DonateFits
<1>5. /\ inputs[1].type = "bytes32" /\ Column("PoolManager", "Donate", inputs[1]) = "pool_id"
      /\ inputs[2].type = "address" /\ Column("PoolManager", "Donate", inputs[2]) = "sender"
      /\ inputs[3].type = "uint256" /\ Column("PoolManager", "Donate", inputs[3]) = "amount0"
      /\ inputs[4].type = "uint256" /\ Column("PoolManager", "Donate", inputs[4]) = "amount1"
  BY <1>1 DEF Column, PoolManager_Donate_inputs, Indexed, Plain
<1>6. /\ Suits("fixed_bytes", "bytes32")
      /\ Suits("address", "address")
      /\ Suits("uint", "uint256")
      /\ Suits("uint", "uint256")
  BY DEF Suits, Numbers
<1>7. /\ Shows(row, "pool_id", "bytes32", args[1])
      /\ Shows(row, "sender", "address", args[2])
      /\ Shows(row, "amount0", "uint256", args[3])
      /\ Shows(row, "amount1", "uint256", args[4])
  BY <1>2, <1>4, <1>5, <1>6, ColumnShows DEF DonateColumns
<1>8. Matches("PoolManager", "Donate", log)
  <2>1. PICK binding : binding = Bound["PoolManager"]["Donate"]
    OBVIOUS
  <2>2. binding.topics = 2 + 1 /\ binding.data = 2
    BY <2>1 DEF Bound, PoolManager_Donate
  <2> QED
    BY <2>1, <2>2, DonateEncoded, LaidMatches
<1> QED
  BY <1>1, <1>3, <1>5, <1>7, <1>8 DEF ShowsAll

LEMMA ApprovalEncoded ==
  ASSUME NEW args, NEW log, Logged("PoolManager", "Approval", args, log)
  PROVE  Laid("PoolManager", "Approval", args, log, 3, 1)
<1>1. PICK table : table = PoolManager_Approval_inputs
  OBVIOUS
<1>2. table = Declared["PoolManager"]["Approval"]
  BY <1>1 DEF Declared
<1>3. PrefixIndexed(table, 3, 1)
  BY <1>1 DEF PrefixIndexed, PoolManager_Approval_inputs, Indexed, Plain
<1> QED
  BY <1>2, <1>3, PrefixEncoded

(* Where the arm reads each column of its row from.                        *)
ApprovalColumns(row, args) ==
  /\ row.owner = Read("address", ToWord(args[1]))
  /\ row.spender = Read("address", ToWord(args[2]))
  /\ row.currency_id = Read("uint", ToWord(args[3]))
  /\ row.amount = Read("uint", ToWord(args[4]))

LEMMA ApprovalRead ==
  ASSUME NEW args, NEW log, Logged("PoolManager", "Approval", args, log), NEW m,
         NEW row, row = ApprovalRow(Decode("PoolManager", "Approval", log), m)
  PROVE  ApprovalColumns(row, args)
<1>1. PICK ev : ev = Decode("PoolManager", "Approval", log)
  OBVIOUS
<1>2. /\ log.topics[2] = ToWord(args[1])
      /\ log.topics[3] = ToWord(args[2])
      /\ log.topics[4] = ToWord(args[3])
      /\ log.data[1] = ToWord(args[4])
  <2>1. PICK topics, data : topics = log.topics /\ data = log.data
    OBVIOUS
  <2>2. Laid("PoolManager", "Approval", args, log, 3, 1)
    BY ApprovalEncoded
  <2>3. /\ topics[1 + 1] = ToWord(args[1])
        /\ topics[2 + 1] = ToWord(args[2])
        /\ topics[3 + 1] = ToWord(args[3])
        /\ data[1] = ToWord(args[3 + 1])
    BY <2>1, <2>2 DEF Laid
  <2> QED
    BY <2>1, <2>3
<1>3. /\ ev.owner = Read("address", log.topics[2])
      /\ ev.spender = Read("address", log.topics[3])
      /\ ev.id = Read("uint", log.topics[4])
      /\ ev.amount = Read("uint", log.data[1])
  <2>1. PICK reads : reads = Bound["PoolManager"]["Approval"].reads
    OBVIOUS
  <2>2. /\ "owner" \in DOMAIN reads /\ reads["owner"] = Topic("address", 1)
        /\ "spender" \in DOMAIN reads /\ reads["spender"] = Topic("address", 2)
        /\ "id" \in DOMAIN reads /\ reads["id"] = Topic("uint", 3)
        /\ "amount" \in DOMAIN reads /\ reads["amount"] = Word("uint", 0)
    BY <2>1 DEF Bound, PoolManager_Approval
  <2> QED
    BY <1>1, <2>1, <2>2, TopicRead, WordRead
<1> QED
  BY <1>1, <1>2, <1>3 DEF ApprovalRow, ApprovalColumns

LEMMA ApprovalFits ==
  ASSUME NEW args, Drawn("PoolManager", "Approval", args),
         NEW inputs, inputs = PoolManager_Approval_inputs
  PROVE  /\ Fits(inputs[1].type, args[1])
         /\ Fits(inputs[2].type, args[2])
         /\ Fits(inputs[3].type, args[3])
         /\ Fits(inputs[4].type, args[4])
<1>1. Declared["PoolManager"]["Approval"] = inputs /\ DOMAIN inputs = 1 .. 4
  BY DEF Declared, PoolManager_Approval_inputs
<1>2. \A i \in 1 .. 4 : WellNamed("Approval", inputs[i])
  BY DEF PoolManager_Approval_inputs, Indexed, Plain, WellNamed, Types, Numbers
<1>3. \A i \in 1 .. 4 : Fits(inputs[i].type, args[i])
  BY <1>1, <1>2, DrawnFits
<1> QED
  BY <1>3

LEMMA ApprovalShown ==
  ASSUME NEW args, Drawn("PoolManager", "Approval", args),
         NEW log, Logged("PoolManager", "Approval", args, log), NEW m
  PROVE  /\ Matches("PoolManager", "Approval", log)
         /\ ShowsAll("PoolManager", "Approval",
                     ApprovalRow(Decode("PoolManager", "Approval", log), m), args)
<1>1. PICK inputs, row : /\ inputs = PoolManager_Approval_inputs
                         /\ row = ApprovalRow(Decode("PoolManager", "Approval", log), m)
  OBVIOUS
<1>2. ApprovalColumns(row, args)
  BY <1>1, ApprovalRead
<1>3. Declared["PoolManager"]["Approval"] = inputs /\ DOMAIN inputs = 1 .. 4
  BY <1>1 DEF Declared, PoolManager_Approval_inputs
<1>4. /\ Fits(inputs[1].type, args[1])
      /\ Fits(inputs[2].type, args[2])
      /\ Fits(inputs[3].type, args[3])
      /\ Fits(inputs[4].type, args[4])
  BY <1>1, ApprovalFits
<1>5. /\ inputs[1].type = "address" /\ Column("PoolManager", "Approval", inputs[1]) = "owner"
      /\ inputs[2].type = "address" /\ Column("PoolManager", "Approval", inputs[2]) = "spender"
      /\ inputs[3].type = "uint256" /\ Column("PoolManager", "Approval", inputs[3]) = "currency_id"
      /\ inputs[4].type = "uint256" /\ Column("PoolManager", "Approval", inputs[4]) = "amount"
  BY <1>1 DEF Column, PoolManager_Approval_inputs, Indexed, Plain
<1>6. /\ Suits("address", "address")
      /\ Suits("address", "address")
      /\ Suits("uint", "uint256")
      /\ Suits("uint", "uint256")
  BY DEF Suits, Numbers
<1>7. /\ Shows(row, "owner", "address", args[1])
      /\ Shows(row, "spender", "address", args[2])
      /\ Shows(row, "currency_id", "uint256", args[3])
      /\ Shows(row, "amount", "uint256", args[4])
  BY <1>2, <1>4, <1>5, <1>6, ColumnShows DEF ApprovalColumns
<1>8. Matches("PoolManager", "Approval", log)
  <2>1. PICK binding : binding = Bound["PoolManager"]["Approval"]
    OBVIOUS
  <2>2. binding.topics = 3 + 1 /\ binding.data = 1
    BY <2>1 DEF Bound, PoolManager_Approval
  <2> QED
    BY <2>1, <2>2, ApprovalEncoded, LaidMatches
<1> QED
  BY <1>1, <1>3, <1>5, <1>7, <1>8 DEF ShowsAll

LEMMA OperatorSetEncoded ==
  ASSUME NEW args, NEW log, Logged("PoolManager", "OperatorSet", args, log)
  PROVE  Laid("PoolManager", "OperatorSet", args, log, 2, 1)
<1>1. PICK table : table = PoolManager_OperatorSet_inputs
  OBVIOUS
<1>2. table = Declared["PoolManager"]["OperatorSet"]
  BY <1>1 DEF Declared
<1>3. PrefixIndexed(table, 2, 1)
  BY <1>1 DEF PrefixIndexed, PoolManager_OperatorSet_inputs, Indexed, Plain
<1> QED
  BY <1>2, <1>3, PrefixEncoded

(* Where the arm reads each column of its row from.                        *)
OperatorSetColumns(row, args) ==
  /\ row.owner = Read("address", ToWord(args[1]))
  /\ row.operator = Read("address", ToWord(args[2]))
  /\ row.approved = Read("bool", ToWord(args[3]))

LEMMA OperatorSetRead ==
  ASSUME NEW args, NEW log, Logged("PoolManager", "OperatorSet", args, log), NEW m,
         NEW row, row = OperatorSetRow(Decode("PoolManager", "OperatorSet", log), m)
  PROVE  OperatorSetColumns(row, args)
<1>1. PICK ev : ev = Decode("PoolManager", "OperatorSet", log)
  OBVIOUS
<1>2. /\ log.topics[2] = ToWord(args[1])
      /\ log.topics[3] = ToWord(args[2])
      /\ log.data[1] = ToWord(args[3])
  <2>1. PICK topics, data : topics = log.topics /\ data = log.data
    OBVIOUS
  <2>2. Laid("PoolManager", "OperatorSet", args, log, 2, 1)
    BY OperatorSetEncoded
  <2>3. /\ topics[1 + 1] = ToWord(args[1])
        /\ topics[2 + 1] = ToWord(args[2])
        /\ data[1] = ToWord(args[2 + 1])
    BY <2>1, <2>2 DEF Laid
  <2> QED
    BY <2>1, <2>3
<1>3. /\ ev.owner = Read("address", log.topics[2])
      /\ ev.operator = Read("address", log.topics[3])
      /\ ev.approved = Read("bool", log.data[1])
  <2>1. PICK reads : reads = Bound["PoolManager"]["OperatorSet"].reads
    OBVIOUS
  <2>2. /\ "owner" \in DOMAIN reads /\ reads["owner"] = Topic("address", 1)
        /\ "operator" \in DOMAIN reads /\ reads["operator"] = Topic("address", 2)
        /\ "approved" \in DOMAIN reads /\ reads["approved"] = Word("bool", 0)
    BY <2>1 DEF Bound, PoolManager_OperatorSet
  <2> QED
    BY <1>1, <2>1, <2>2, TopicRead, WordRead
<1> QED
  BY <1>1, <1>2, <1>3 DEF OperatorSetRow, OperatorSetColumns

LEMMA OperatorSetFits ==
  ASSUME NEW args, Drawn("PoolManager", "OperatorSet", args),
         NEW inputs, inputs = PoolManager_OperatorSet_inputs
  PROVE  /\ Fits(inputs[1].type, args[1])
         /\ Fits(inputs[2].type, args[2])
         /\ Fits(inputs[3].type, args[3])
<1>1. Declared["PoolManager"]["OperatorSet"] = inputs /\ DOMAIN inputs = 1 .. 3
  BY DEF Declared, PoolManager_OperatorSet_inputs
<1>2. \A i \in 1 .. 3 : WellNamed("OperatorSet", inputs[i])
  BY DEF PoolManager_OperatorSet_inputs, Indexed, Plain, WellNamed, Types, Numbers
<1>3. \A i \in 1 .. 3 : Fits(inputs[i].type, args[i])
  BY <1>1, <1>2, DrawnFits
<1> QED
  BY <1>3

LEMMA OperatorSetShown ==
  ASSUME NEW args, Drawn("PoolManager", "OperatorSet", args),
         NEW log, Logged("PoolManager", "OperatorSet", args, log), NEW m
  PROVE  /\ Matches("PoolManager", "OperatorSet", log)
         /\ ShowsAll("PoolManager", "OperatorSet",
                     OperatorSetRow(Decode("PoolManager", "OperatorSet", log), m), args)
<1>1. PICK inputs, row : /\ inputs = PoolManager_OperatorSet_inputs
                         /\ row = OperatorSetRow(Decode("PoolManager", "OperatorSet", log), m)
  OBVIOUS
<1>2. OperatorSetColumns(row, args)
  BY <1>1, OperatorSetRead
<1>3. Declared["PoolManager"]["OperatorSet"] = inputs /\ DOMAIN inputs = 1 .. 3
  BY <1>1 DEF Declared, PoolManager_OperatorSet_inputs
<1>4. /\ Fits(inputs[1].type, args[1])
      /\ Fits(inputs[2].type, args[2])
      /\ Fits(inputs[3].type, args[3])
  BY <1>1, OperatorSetFits
<1>5. /\ inputs[1].type = "address" /\ Column("PoolManager", "OperatorSet", inputs[1]) = "owner"
      /\ inputs[2].type = "address" /\ Column("PoolManager", "OperatorSet", inputs[2]) = "operator"
      /\ inputs[3].type = "bool" /\ Column("PoolManager", "OperatorSet", inputs[3]) = "approved"
  BY <1>1 DEF Column, PoolManager_OperatorSet_inputs, Indexed, Plain
<1>6. /\ Suits("address", "address")
      /\ Suits("address", "address")
      /\ Suits("bool", "bool")
  BY DEF Suits, Numbers
<1>7. /\ Shows(row, "owner", "address", args[1])
      /\ Shows(row, "operator", "address", args[2])
      /\ Shows(row, "approved", "bool", args[3])
  BY <1>2, <1>4, <1>5, <1>6, ColumnShows DEF OperatorSetColumns
<1>8. Matches("PoolManager", "OperatorSet", log)
  <2>1. PICK binding : binding = Bound["PoolManager"]["OperatorSet"]
    OBVIOUS
  <2>2. binding.topics = 2 + 1 /\ binding.data = 1
    BY <2>1 DEF Bound, PoolManager_OperatorSet
  <2> QED
    BY <2>1, <2>2, OperatorSetEncoded, LaidMatches
<1> QED
  BY <1>1, <1>3, <1>5, <1>7, <1>8 DEF ShowsAll

LEMMA FeeUpdatedEncoded ==
  ASSUME NEW args, NEW log, Logged("PoolManager", "ProtocolFeeUpdated", args, log)
  PROVE  Laid("PoolManager", "ProtocolFeeUpdated", args, log, 1, 1)
<1>1. PICK table : table = PoolManager_ProtocolFeeUpdated_inputs
  OBVIOUS
<1>2. table = Declared["PoolManager"]["ProtocolFeeUpdated"]
  BY <1>1 DEF Declared
<1>3. PrefixIndexed(table, 1, 1)
  BY <1>1 DEF PrefixIndexed, PoolManager_ProtocolFeeUpdated_inputs, Indexed, Plain
<1> QED
  BY <1>2, <1>3, PrefixEncoded

(* Where the arm reads each column of its row from.                        *)
FeeUpdatedColumns(row, args) ==
  /\ row.pool_id = Read("fixed_bytes", ToWord(args[1]))
  /\ row.protocol_fee = Read("uint", ToWord(args[2]))

LEMMA FeeUpdatedRead ==
  ASSUME NEW args, NEW log, Logged("PoolManager", "ProtocolFeeUpdated", args, log), NEW m,
         NEW row, row = FeeUpdatedRow(Decode("PoolManager", "ProtocolFeeUpdated", log), m)
  PROVE  FeeUpdatedColumns(row, args)
<1>1. PICK ev : ev = Decode("PoolManager", "ProtocolFeeUpdated", log)
  OBVIOUS
<1>2. /\ log.topics[2] = ToWord(args[1])
      /\ log.data[1] = ToWord(args[2])
  <2>1. PICK topics, data : topics = log.topics /\ data = log.data
    OBVIOUS
  <2>2. Laid("PoolManager", "ProtocolFeeUpdated", args, log, 1, 1)
    BY FeeUpdatedEncoded
  <2>3. /\ topics[1 + 1] = ToWord(args[1])
        /\ data[1] = ToWord(args[1 + 1])
    BY <2>1, <2>2 DEF Laid
  <2> QED
    BY <2>1, <2>3
<1>3. /\ ev.id = Read("fixed_bytes", log.topics[2])
      /\ ev.protocol_fee = Read("uint", log.data[1])
  <2>1. PICK reads : reads = Bound["PoolManager"]["ProtocolFeeUpdated"].reads
    OBVIOUS
  <2>2. /\ "id" \in DOMAIN reads /\ reads["id"] = Topic("fixed_bytes", 1)
        /\ "protocol_fee" \in DOMAIN reads /\ reads["protocol_fee"] = Word("uint", 0)
    BY <2>1 DEF Bound, PoolManager_ProtocolFeeUpdated
  <2> QED
    BY <1>1, <2>1, <2>2, TopicRead, WordRead
<1> QED
  BY <1>1, <1>2, <1>3 DEF FeeUpdatedRow, FeeUpdatedColumns

LEMMA FeeUpdatedFits ==
  ASSUME NEW args, Drawn("PoolManager", "ProtocolFeeUpdated", args),
         NEW inputs, inputs = PoolManager_ProtocolFeeUpdated_inputs
  PROVE  /\ Fits(inputs[1].type, args[1])
         /\ Fits(inputs[2].type, args[2])
<1>1. Declared["PoolManager"]["ProtocolFeeUpdated"] = inputs /\ DOMAIN inputs = 1 .. 2
  BY DEF Declared, PoolManager_ProtocolFeeUpdated_inputs
<1>2. \A i \in 1 .. 2 : WellNamed("ProtocolFeeUpdated", inputs[i])
  BY DEF PoolManager_ProtocolFeeUpdated_inputs, Indexed, Plain, WellNamed, Types, Numbers
<1>3. \A i \in 1 .. 2 : Fits(inputs[i].type, args[i])
  BY <1>1, <1>2, DrawnFits
<1> QED
  BY <1>3

LEMMA FeeUpdatedShown ==
  ASSUME NEW args, Drawn("PoolManager", "ProtocolFeeUpdated", args),
         NEW log, Logged("PoolManager", "ProtocolFeeUpdated", args, log), NEW m
  PROVE  /\ Matches("PoolManager", "ProtocolFeeUpdated", log)
         /\ ShowsAll("PoolManager", "ProtocolFeeUpdated",
                     FeeUpdatedRow(Decode("PoolManager", "ProtocolFeeUpdated", log), m), args)
<1>1. PICK inputs, row : /\ inputs = PoolManager_ProtocolFeeUpdated_inputs
                         /\ row = FeeUpdatedRow(Decode("PoolManager", "ProtocolFeeUpdated", log), m)
  OBVIOUS
<1>2. FeeUpdatedColumns(row, args)
  BY <1>1, FeeUpdatedRead
<1>3. Declared["PoolManager"]["ProtocolFeeUpdated"] = inputs /\ DOMAIN inputs = 1 .. 2
  BY <1>1 DEF Declared, PoolManager_ProtocolFeeUpdated_inputs
<1>4. /\ Fits(inputs[1].type, args[1])
      /\ Fits(inputs[2].type, args[2])
  BY <1>1, FeeUpdatedFits
<1>5. /\ inputs[1].type = "bytes32"
      /\ Column("PoolManager", "ProtocolFeeUpdated", inputs[1]) = "pool_id"
      /\ inputs[2].type = "uint24"
      /\ Column("PoolManager", "ProtocolFeeUpdated", inputs[2]) = "protocol_fee"
  BY <1>1 DEF Column, PoolManager_ProtocolFeeUpdated_inputs, Indexed, Plain
<1>6. /\ Suits("fixed_bytes", "bytes32")
      /\ Suits("uint", "uint24")
  BY DEF Suits, Numbers
<1>7. /\ Shows(row, "pool_id", "bytes32", args[1])
      /\ Shows(row, "protocol_fee", "uint24", args[2])
  BY <1>2, <1>4, <1>5, <1>6, ColumnShows DEF FeeUpdatedColumns
<1>8. Matches("PoolManager", "ProtocolFeeUpdated", log)
  <2>1. PICK binding : binding = Bound["PoolManager"]["ProtocolFeeUpdated"]
    OBVIOUS
  <2>2. binding.topics = 1 + 1 /\ binding.data = 1
    BY <2>1 DEF Bound, PoolManager_ProtocolFeeUpdated
  <2> QED
    BY <2>1, <2>2, FeeUpdatedEncoded, LaidMatches
<1> QED
  BY <1>1, <1>3, <1>5, <1>7, <1>8 DEF ShowsAll

LEMMA ControllerUpdatedEncoded ==
  ASSUME NEW args, NEW log, Logged("PoolManager", "ProtocolFeeControllerUpdated", args, log)
  PROVE  Laid("PoolManager", "ProtocolFeeControllerUpdated", args, log, 1, 0)
<1>1. PICK table : table = PoolManager_ProtocolFeeControllerUpdated_inputs
  OBVIOUS
<1>2. table = Declared["PoolManager"]["ProtocolFeeControllerUpdated"]
  BY <1>1 DEF Declared
<1>3. PrefixIndexed(table, 1, 0)
  BY <1>1 DEF PrefixIndexed, PoolManager_ProtocolFeeControllerUpdated_inputs, Indexed, Plain
<1> QED
  BY <1>2, <1>3, PrefixEncoded

(* Where the arm reads each column of its row from.                        *)
ControllerUpdatedColumns(row, args) ==
  row.controller = Read("address", ToWord(args[1]))

LEMMA ControllerUpdatedRead ==
  ASSUME NEW args, NEW log, Logged("PoolManager", "ProtocolFeeControllerUpdated", args, log), NEW m,
         NEW row, row = ControllerUpdatedRow(Decode("PoolManager", "ProtocolFeeControllerUpdated", log), m)
  PROVE  ControllerUpdatedColumns(row, args)
<1>1. PICK ev : ev = Decode("PoolManager", "ProtocolFeeControllerUpdated", log)
  OBVIOUS
<1>2. log.topics[2] = ToWord(args[1])
  <2>1. PICK topics, data : topics = log.topics /\ data = log.data
    OBVIOUS
  <2>2. Laid("PoolManager", "ProtocolFeeControllerUpdated", args, log, 1, 0)
    BY ControllerUpdatedEncoded
  <2>3. topics[1 + 1] = ToWord(args[1])
    BY <2>1, <2>2 DEF Laid
  <2> QED
    BY <2>1, <2>3
<1>3. ev.protocol_fee_controller = Read("address", log.topics[2])
  <2>1. PICK reads : reads = Bound["PoolManager"]["ProtocolFeeControllerUpdated"].reads
    OBVIOUS
  <2>2. /\ "protocol_fee_controller" \in DOMAIN reads
        /\ reads["protocol_fee_controller"] = Topic("address", 1)
    BY <2>1 DEF Bound, PoolManager_ProtocolFeeControllerUpdated
  <2> QED
    BY <1>1, <2>1, <2>2, TopicRead
<1> QED
  BY <1>1, <1>2, <1>3 DEF ControllerUpdatedRow, ControllerUpdatedColumns

LEMMA ControllerUpdatedFits ==
  ASSUME NEW args, Drawn("PoolManager", "ProtocolFeeControllerUpdated", args),
         NEW inputs, inputs = PoolManager_ProtocolFeeControllerUpdated_inputs
  PROVE  Fits(inputs[1].type, args[1])
<1>1. Declared["PoolManager"]["ProtocolFeeControllerUpdated"] = inputs /\ DOMAIN inputs = 1 .. 1
  BY DEF Declared, PoolManager_ProtocolFeeControllerUpdated_inputs
<1>2. \A i \in 1 .. 1 : WellNamed("ProtocolFeeControllerUpdated", inputs[i])
  BY DEF PoolManager_ProtocolFeeControllerUpdated_inputs, Indexed, Plain, WellNamed, Types, Numbers
<1>3. \A i \in 1 .. 1 : Fits(inputs[i].type, args[i])
  BY <1>1, <1>2, DrawnFits
<1> QED
  BY <1>3

LEMMA ControllerUpdatedShown ==
  ASSUME NEW args, Drawn("PoolManager", "ProtocolFeeControllerUpdated", args),
         NEW log, Logged("PoolManager", "ProtocolFeeControllerUpdated", args, log), NEW m
  PROVE  /\ Matches("PoolManager", "ProtocolFeeControllerUpdated", log)
         /\ ShowsAll("PoolManager", "ProtocolFeeControllerUpdated",
                     ControllerUpdatedRow(Decode("PoolManager", "ProtocolFeeControllerUpdated", log), m), args)
<1>1. PICK inputs, row : /\ inputs = PoolManager_ProtocolFeeControllerUpdated_inputs
                         /\ row = ControllerUpdatedRow(Decode("PoolManager", "ProtocolFeeControllerUpdated", log), m)
  OBVIOUS
<1>2. ControllerUpdatedColumns(row, args)
  BY <1>1, ControllerUpdatedRead
<1>3. Declared["PoolManager"]["ProtocolFeeControllerUpdated"] = inputs /\ DOMAIN inputs = 1 .. 1
  BY <1>1 DEF Declared, PoolManager_ProtocolFeeControllerUpdated_inputs
<1>4. Fits(inputs[1].type, args[1])
  BY <1>1, ControllerUpdatedFits
<1>5. /\ inputs[1].type = "address"
      /\ Column("PoolManager", "ProtocolFeeControllerUpdated", inputs[1]) = "controller"
  BY <1>1 DEF Column, PoolManager_ProtocolFeeControllerUpdated_inputs, Indexed, Plain
<1>6. Suits("address", "address")
  BY DEF Suits, Numbers
<1>7. Shows(row, "controller", "address", args[1])
  BY <1>2, <1>4, <1>5, <1>6, ColumnShows DEF ControllerUpdatedColumns
<1>8. Matches("PoolManager", "ProtocolFeeControllerUpdated", log)
  <2>1. PICK binding : binding = Bound["PoolManager"]["ProtocolFeeControllerUpdated"]
    OBVIOUS
  <2>2. binding.topics = 1 + 1 /\ binding.data = 0
    BY <2>1 DEF Bound, PoolManager_ProtocolFeeControllerUpdated
  <2> QED
    BY <2>1, <2>2, ControllerUpdatedEncoded, LaidMatches
<1> QED
  BY <1>1, <1>3, <1>5, <1>7, <1>8 DEF ShowsAll

LEMMA SubscribeEncoded ==
  ASSUME NEW args, NEW log, Logged("PositionManager", "Subscription", args, log)
  PROVE  Laid("PositionManager", "Subscription", args, log, 2, 0)
<1>1. PICK table : table = PositionManager_Subscription_inputs
  OBVIOUS
<1>2. table = Declared["PositionManager"]["Subscription"]
  BY <1>1 DEF Declared
<1>3. PrefixIndexed(table, 2, 0)
  BY <1>1 DEF PrefixIndexed, PositionManager_Subscription_inputs, Indexed, Plain
<1> QED
  BY <1>2, <1>3, PrefixEncoded

(* Where the arm reads each column of its row from.                        *)
SubscribeColumns(row, args) ==
  /\ row.token_id = Read("uint", ToWord(args[1]))
  /\ row.address = Read("address", ToWord(args[2]))

LEMMA SubscribeRead ==
  ASSUME NEW args, NEW log, Logged("PositionManager", "Subscription", args, log), NEW m,
         NEW row, row = SubscribeRow(Decode("PositionManager", "Subscription", log), m)
  PROVE  SubscribeColumns(row, args)
<1>1. PICK ev : ev = Decode("PositionManager", "Subscription", log)
  OBVIOUS
<1>2. /\ log.topics[2] = ToWord(args[1])
      /\ log.topics[3] = ToWord(args[2])
  <2>1. PICK topics, data : topics = log.topics /\ data = log.data
    OBVIOUS
  <2>2. Laid("PositionManager", "Subscription", args, log, 2, 0)
    BY SubscribeEncoded
  <2>3. /\ topics[1 + 1] = ToWord(args[1])
        /\ topics[2 + 1] = ToWord(args[2])
    BY <2>1, <2>2 DEF Laid
  <2> QED
    BY <2>1, <2>3
<1>3. /\ ev.token_id = Read("uint", log.topics[2])
      /\ ev.subscriber = Read("address", log.topics[3])
  <2>1. PICK reads : reads = Bound["PositionManager"]["Subscription"].reads
    OBVIOUS
  <2>2. /\ "token_id" \in DOMAIN reads /\ reads["token_id"] = Topic("uint", 1)
        /\ "subscriber" \in DOMAIN reads /\ reads["subscriber"] = Topic("address", 2)
    BY <2>1 DEF Bound, PositionManager_Subscription
  <2> QED
    BY <1>1, <2>1, <2>2, TopicRead
<1> QED
  BY <1>1, <1>2, <1>3 DEF SubscribeRow, SubscribeColumns

LEMMA SubscribeFits ==
  ASSUME NEW args, Drawn("PositionManager", "Subscription", args),
         NEW inputs, inputs = PositionManager_Subscription_inputs
  PROVE  /\ Fits(inputs[1].type, args[1])
         /\ Fits(inputs[2].type, args[2])
<1>1. Declared["PositionManager"]["Subscription"] = inputs /\ DOMAIN inputs = 1 .. 2
  BY DEF Declared, PositionManager_Subscription_inputs
<1>2. \A i \in 1 .. 2 : WellNamed("Subscription", inputs[i])
  BY DEF PositionManager_Subscription_inputs, Indexed, Plain, WellNamed, Types, Numbers
<1>3. \A i \in 1 .. 2 : Fits(inputs[i].type, args[i])
  BY <1>1, <1>2, DrawnFits
<1> QED
  BY <1>3

LEMMA SubscribeShown ==
  ASSUME NEW args, Drawn("PositionManager", "Subscription", args),
         NEW log, Logged("PositionManager", "Subscription", args, log), NEW m
  PROVE  /\ Matches("PositionManager", "Subscription", log)
         /\ ShowsAll("PositionManager", "Subscription",
                     SubscribeRow(Decode("PositionManager", "Subscription", log), m), args)
<1>1. PICK inputs, row : /\ inputs = PositionManager_Subscription_inputs
                         /\ row = SubscribeRow(Decode("PositionManager", "Subscription", log), m)
  OBVIOUS
<1>2. SubscribeColumns(row, args)
  BY <1>1, SubscribeRead
<1>3. Declared["PositionManager"]["Subscription"] = inputs /\ DOMAIN inputs = 1 .. 2
  BY <1>1 DEF Declared, PositionManager_Subscription_inputs
<1>4. /\ Fits(inputs[1].type, args[1])
      /\ Fits(inputs[2].type, args[2])
  BY <1>1, SubscribeFits
<1>5. /\ inputs[1].type = "uint256"
      /\ Column("PositionManager", "Subscription", inputs[1]) = "token_id"
      /\ inputs[2].type = "address"
      /\ Column("PositionManager", "Subscription", inputs[2]) = "address"
  BY <1>1 DEF Column, PositionManager_Subscription_inputs, Indexed, Plain
<1>6. /\ Suits("uint", "uint256")
      /\ Suits("address", "address")
  BY DEF Suits, Numbers
<1>7. /\ Shows(row, "token_id", "uint256", args[1])
      /\ Shows(row, "address", "address", args[2])
  BY <1>2, <1>4, <1>5, <1>6, ColumnShows DEF SubscribeColumns
<1>8. Matches("PositionManager", "Subscription", log)
  <2>1. PICK binding : binding = Bound["PositionManager"]["Subscription"]
    OBVIOUS
  <2>2. binding.topics = 2 + 1 /\ binding.data = 0
    BY <2>1 DEF Bound, PositionManager_Subscription
  <2> QED
    BY <2>1, <2>2, SubscribeEncoded, LaidMatches
<1> QED
  BY <1>1, <1>3, <1>5, <1>7, <1>8 DEF ShowsAll

LEMMA UnsubscribeEncoded ==
  ASSUME NEW args, NEW log, Logged("PositionManager", "Unsubscription", args, log)
  PROVE  Laid("PositionManager", "Unsubscription", args, log, 2, 0)
<1>1. PICK table : table = PositionManager_Unsubscription_inputs
  OBVIOUS
<1>2. table = Declared["PositionManager"]["Unsubscription"]
  BY <1>1 DEF Declared
<1>3. PrefixIndexed(table, 2, 0)
  BY <1>1 DEF PrefixIndexed, PositionManager_Unsubscription_inputs, Indexed, Plain
<1> QED
  BY <1>2, <1>3, PrefixEncoded

(* Where the arm reads each column of its row from.                        *)
UnsubscribeColumns(row, args) ==
  /\ row.token_id = Read("uint", ToWord(args[1]))
  /\ row.address = Read("address", ToWord(args[2]))

LEMMA UnsubscribeRead ==
  ASSUME NEW args, NEW log, Logged("PositionManager", "Unsubscription", args, log), NEW m,
         NEW row, row = UnsubscribeRow(Decode("PositionManager", "Unsubscription", log), m)
  PROVE  UnsubscribeColumns(row, args)
<1>1. PICK ev : ev = Decode("PositionManager", "Unsubscription", log)
  OBVIOUS
<1>2. /\ log.topics[2] = ToWord(args[1])
      /\ log.topics[3] = ToWord(args[2])
  <2>1. PICK topics, data : topics = log.topics /\ data = log.data
    OBVIOUS
  <2>2. Laid("PositionManager", "Unsubscription", args, log, 2, 0)
    BY UnsubscribeEncoded
  <2>3. /\ topics[1 + 1] = ToWord(args[1])
        /\ topics[2 + 1] = ToWord(args[2])
    BY <2>1, <2>2 DEF Laid
  <2> QED
    BY <2>1, <2>3
<1>3. /\ ev.token_id = Read("uint", log.topics[2])
      /\ ev.subscriber = Read("address", log.topics[3])
  <2>1. PICK reads : reads = Bound["PositionManager"]["Unsubscription"].reads
    OBVIOUS
  <2>2. /\ "token_id" \in DOMAIN reads /\ reads["token_id"] = Topic("uint", 1)
        /\ "subscriber" \in DOMAIN reads /\ reads["subscriber"] = Topic("address", 2)
    BY <2>1 DEF Bound, PositionManager_Unsubscription
  <2> QED
    BY <1>1, <2>1, <2>2, TopicRead
<1> QED
  BY <1>1, <1>2, <1>3 DEF UnsubscribeRow, UnsubscribeColumns

LEMMA UnsubscribeFits ==
  ASSUME NEW args, Drawn("PositionManager", "Unsubscription", args),
         NEW inputs, inputs = PositionManager_Unsubscription_inputs
  PROVE  /\ Fits(inputs[1].type, args[1])
         /\ Fits(inputs[2].type, args[2])
<1>1. Declared["PositionManager"]["Unsubscription"] = inputs /\ DOMAIN inputs = 1 .. 2
  BY DEF Declared, PositionManager_Unsubscription_inputs
<1>2. \A i \in 1 .. 2 : WellNamed("Unsubscription", inputs[i])
  BY DEF PositionManager_Unsubscription_inputs, Indexed, Plain, WellNamed, Types, Numbers
<1>3. \A i \in 1 .. 2 : Fits(inputs[i].type, args[i])
  BY <1>1, <1>2, DrawnFits
<1> QED
  BY <1>3

LEMMA UnsubscribeShown ==
  ASSUME NEW args, Drawn("PositionManager", "Unsubscription", args),
         NEW log, Logged("PositionManager", "Unsubscription", args, log), NEW m
  PROVE  /\ Matches("PositionManager", "Unsubscription", log)
         /\ ShowsAll("PositionManager", "Unsubscription",
                     UnsubscribeRow(Decode("PositionManager", "Unsubscription", log), m), args)
<1>1. PICK inputs, row : /\ inputs = PositionManager_Unsubscription_inputs
                         /\ row = UnsubscribeRow(Decode("PositionManager", "Unsubscription", log), m)
  OBVIOUS
<1>2. UnsubscribeColumns(row, args)
  BY <1>1, UnsubscribeRead
<1>3. Declared["PositionManager"]["Unsubscription"] = inputs /\ DOMAIN inputs = 1 .. 2
  BY <1>1 DEF Declared, PositionManager_Unsubscription_inputs
<1>4. /\ Fits(inputs[1].type, args[1])
      /\ Fits(inputs[2].type, args[2])
  BY <1>1, UnsubscribeFits
<1>5. /\ inputs[1].type = "uint256"
      /\ Column("PositionManager", "Unsubscription", inputs[1]) = "token_id"
      /\ inputs[2].type = "address"
      /\ Column("PositionManager", "Unsubscription", inputs[2]) = "address"
  BY <1>1 DEF Column, PositionManager_Unsubscription_inputs, Indexed, Plain
<1>6. /\ Suits("uint", "uint256")
      /\ Suits("address", "address")
  BY DEF Suits, Numbers
<1>7. /\ Shows(row, "token_id", "uint256", args[1])
      /\ Shows(row, "address", "address", args[2])
  BY <1>2, <1>4, <1>5, <1>6, ColumnShows DEF UnsubscribeColumns
<1>8. Matches("PositionManager", "Unsubscription", log)
  <2>1. PICK binding : binding = Bound["PositionManager"]["Unsubscription"]
    OBVIOUS
  <2>2. binding.topics = 2 + 1 /\ binding.data = 0
    BY <2>1 DEF Bound, PositionManager_Unsubscription
  <2> QED
    BY <2>1, <2>2, UnsubscribeEncoded, LaidMatches
<1> QED
  BY <1>1, <1>3, <1>5, <1>7, <1>8 DEF ShowsAll

LEMMA PositionTransferEncoded ==
  ASSUME NEW args, NEW log, Logged("PositionManager", "Transfer", args, log)
  PROVE  Laid("PositionManager", "Transfer", args, log, 3, 0)
<1>1. PICK table : table = PositionManager_Transfer_inputs
  OBVIOUS
<1>2. table = Declared["PositionManager"]["Transfer"]
  BY <1>1 DEF Declared
<1>3. PrefixIndexed(table, 3, 0)
  BY <1>1 DEF PrefixIndexed, PositionManager_Transfer_inputs, Indexed, Plain
<1> QED
  BY <1>2, <1>3, PrefixEncoded

(* Where the arm reads each column of its row from.                        *)
PositionTransferColumns(row, args) ==
  /\ row.from = Read("address", ToWord(args[1]))
  /\ row.to = Read("address", ToWord(args[2]))
  /\ row.token_id = Read("uint", ToWord(args[3]))

LEMMA PositionTransferRead ==
  ASSUME NEW args, NEW log, Logged("PositionManager", "Transfer", args, log), NEW m,
         NEW row, row = PositionTransferRow(Decode("PositionManager", "Transfer", log), m)
  PROVE  PositionTransferColumns(row, args)
<1>1. PICK ev : ev = Decode("PositionManager", "Transfer", log)
  OBVIOUS
<1>2. /\ log.topics[2] = ToWord(args[1])
      /\ log.topics[3] = ToWord(args[2])
      /\ log.topics[4] = ToWord(args[3])
  <2>1. PICK topics, data : topics = log.topics /\ data = log.data
    OBVIOUS
  <2>2. Laid("PositionManager", "Transfer", args, log, 3, 0)
    BY PositionTransferEncoded
  <2>3. /\ topics[1 + 1] = ToWord(args[1])
        /\ topics[2 + 1] = ToWord(args[2])
        /\ topics[3 + 1] = ToWord(args[3])
    BY <2>1, <2>2 DEF Laid
  <2> QED
    BY <2>1, <2>3
<1>3. /\ ev.from = Read("address", log.topics[2])
      /\ ev.to = Read("address", log.topics[3])
      /\ ev.id = Read("uint", log.topics[4])
  <2>1. PICK reads : reads = Bound["PositionManager"]["Transfer"].reads
    OBVIOUS
  <2>2. /\ "from" \in DOMAIN reads /\ reads["from"] = Topic("address", 1)
        /\ "to" \in DOMAIN reads /\ reads["to"] = Topic("address", 2)
        /\ "id" \in DOMAIN reads /\ reads["id"] = Topic("uint", 3)
    BY <2>1 DEF Bound, PositionManager_Transfer
  <2> QED
    BY <1>1, <2>1, <2>2, TopicRead
<1> QED
  BY <1>1, <1>2, <1>3 DEF PositionTransferRow, PositionTransferColumns

LEMMA PositionTransferFits ==
  ASSUME NEW args, Drawn("PositionManager", "Transfer", args),
         NEW inputs, inputs = PositionManager_Transfer_inputs
  PROVE  /\ Fits(inputs[1].type, args[1])
         /\ Fits(inputs[2].type, args[2])
         /\ Fits(inputs[3].type, args[3])
<1>1. Declared["PositionManager"]["Transfer"] = inputs /\ DOMAIN inputs = 1 .. 3
  BY DEF Declared, PositionManager_Transfer_inputs
<1>2. \A i \in 1 .. 3 : WellNamed("Transfer", inputs[i])
  BY DEF PositionManager_Transfer_inputs, Indexed, Plain, WellNamed, Types, Numbers
<1>3. \A i \in 1 .. 3 : Fits(inputs[i].type, args[i])
  BY <1>1, <1>2, DrawnFits
<1> QED
  BY <1>3

LEMMA PositionTransferShown ==
  ASSUME NEW args, Drawn("PositionManager", "Transfer", args),
         NEW log, Logged("PositionManager", "Transfer", args, log), NEW m
  PROVE  /\ Matches("PositionManager", "Transfer", log)
         /\ ShowsAll("PositionManager", "Transfer",
                     PositionTransferRow(Decode("PositionManager", "Transfer", log), m), args)
<1>1. PICK inputs, row : /\ inputs = PositionManager_Transfer_inputs
                         /\ row = PositionTransferRow(Decode("PositionManager", "Transfer", log), m)
  OBVIOUS
<1>2. PositionTransferColumns(row, args)
  BY <1>1, PositionTransferRead
<1>3. Declared["PositionManager"]["Transfer"] = inputs /\ DOMAIN inputs = 1 .. 3
  BY <1>1 DEF Declared, PositionManager_Transfer_inputs
<1>4. /\ Fits(inputs[1].type, args[1])
      /\ Fits(inputs[2].type, args[2])
      /\ Fits(inputs[3].type, args[3])
  BY <1>1, PositionTransferFits
<1>5. /\ inputs[1].type = "address" /\ Column("PositionManager", "Transfer", inputs[1]) = "from"
      /\ inputs[2].type = "address" /\ Column("PositionManager", "Transfer", inputs[2]) = "to"
      /\ inputs[3].type = "uint256" /\ Column("PositionManager", "Transfer", inputs[3]) = "token_id"
  BY <1>1 DEF Column, PositionManager_Transfer_inputs, Indexed, Plain
<1>6. /\ Suits("address", "address")
      /\ Suits("address", "address")
      /\ Suits("uint", "uint256")
  BY DEF Suits, Numbers
<1>7. /\ Shows(row, "from", "address", args[1])
      /\ Shows(row, "to", "address", args[2])
      /\ Shows(row, "token_id", "uint256", args[3])
  BY <1>2, <1>4, <1>5, <1>6, ColumnShows DEF PositionTransferColumns
<1>8. Matches("PositionManager", "Transfer", log)
  <2>1. PICK binding : binding = Bound["PositionManager"]["Transfer"]
    OBVIOUS
  <2>2. binding.topics = 3 + 1 /\ binding.data = 0
    BY <2>1 DEF Bound, PositionManager_Transfer
  <2> QED
    BY <2>1, <2>2, PositionTransferEncoded, LaidMatches
<1> QED
  BY <1>1, <1>3, <1>5, <1>7, <1>8 DEF ShowsAll

LEMMA HookDeploymentEncoded ==
  ASSUME NEW args, NEW log, Logged("ArrakisHookFactory", "LogCreatePrivateHook", args, log)
  PROVE  Laid("ArrakisHookFactory", "LogCreatePrivateHook", args, log, 2, 1)
<1>1. PICK table : table = ArrakisHookFactory_LogCreatePrivateHook_inputs
  OBVIOUS
<1>2. table = Declared["ArrakisHookFactory"]["LogCreatePrivateHook"]
  BY <1>1 DEF Declared
<1>3. PrefixIndexed(table, 2, 1)
  BY <1>1 DEF PrefixIndexed, ArrakisHookFactory_LogCreatePrivateHook_inputs, Indexed, Plain
<1> QED
  BY <1>2, <1>3, PrefixEncoded

(* Where the arm reads each column of its row from.                        *)
HookDeploymentColumns(row, args) ==
  /\ row.hook = Read("address", ToWord(args[1]))
  /\ row.module = Read("address", ToWord(args[2]))
  /\ row.salt = Read("fixed_bytes", ToWord(args[3]))
  /\ row.permissions = decode_hook(Read("address", ToWord(args[1])))

LEMMA HookDeploymentRead ==
  ASSUME NEW args, NEW log, Logged("ArrakisHookFactory", "LogCreatePrivateHook", args, log), NEW m,
         NEW row, row = HookDeploymentRow(Decode("ArrakisHookFactory", "LogCreatePrivateHook", log), m)
  PROVE  HookDeploymentColumns(row, args)
<1>1. PICK ev : ev = Decode("ArrakisHookFactory", "LogCreatePrivateHook", log)
  OBVIOUS
<1>2. /\ log.topics[2] = ToWord(args[1])
      /\ log.topics[3] = ToWord(args[2])
      /\ log.data[1] = ToWord(args[3])
  <2>1. PICK topics, data : topics = log.topics /\ data = log.data
    OBVIOUS
  <2>2. Laid("ArrakisHookFactory", "LogCreatePrivateHook", args, log, 2, 1)
    BY HookDeploymentEncoded
  <2>3. /\ topics[1 + 1] = ToWord(args[1])
        /\ topics[2 + 1] = ToWord(args[2])
        /\ data[1] = ToWord(args[2 + 1])
    BY <2>1, <2>2 DEF Laid
  <2> QED
    BY <2>1, <2>3
<1>3. /\ ev.hook = Read("address", log.topics[2])
      /\ ev.module = Read("address", log.topics[3])
      /\ ev.salt = Read("fixed_bytes", log.data[1])
  <2>1. PICK reads : reads = Bound["ArrakisHookFactory"]["LogCreatePrivateHook"].reads
    OBVIOUS
  <2>2. /\ "hook" \in DOMAIN reads /\ reads["hook"] = Topic("address", 1)
        /\ "module" \in DOMAIN reads /\ reads["module"] = Topic("address", 2)
        /\ "salt" \in DOMAIN reads /\ reads["salt"] = Word("fixed_bytes", 0)
    BY <2>1 DEF Bound, ArrakisHookFactory_LogCreatePrivateHook
  <2> QED
    BY <1>1, <2>1, <2>2, TopicRead, WordRead
<1> QED
  BY <1>1, <1>2, <1>3 DEF HookDeploymentRow, HookDeploymentColumns

LEMMA HookDeploymentFits ==
  ASSUME NEW args, Drawn("ArrakisHookFactory", "LogCreatePrivateHook", args),
         NEW inputs, inputs = ArrakisHookFactory_LogCreatePrivateHook_inputs
  PROVE  /\ Fits(inputs[1].type, args[1])
         /\ Fits(inputs[2].type, args[2])
         /\ Fits(inputs[3].type, args[3])
<1>1. Declared["ArrakisHookFactory"]["LogCreatePrivateHook"] = inputs /\ DOMAIN inputs = 1 .. 3
  BY DEF Declared, ArrakisHookFactory_LogCreatePrivateHook_inputs
<1>2. \A i \in 1 .. 3 : WellNamed("LogCreatePrivateHook", inputs[i])
  BY DEF ArrakisHookFactory_LogCreatePrivateHook_inputs, Indexed, Plain, WellNamed, Types, Numbers
<1>3. \A i \in 1 .. 3 : Fits(inputs[i].type, args[i])
  BY <1>1, <1>2, DrawnFits
<1> QED
  BY <1>3

LEMMA HookDeploymentShown ==
  ASSUME NEW args, Drawn("ArrakisHookFactory", "LogCreatePrivateHook", args),
         NEW log, Logged("ArrakisHookFactory", "LogCreatePrivateHook", args, log), NEW m
  PROVE  /\ Matches("ArrakisHookFactory", "LogCreatePrivateHook", log)
         /\ ShowsAll("ArrakisHookFactory", "LogCreatePrivateHook",
                     HookDeploymentRow(Decode("ArrakisHookFactory", "LogCreatePrivateHook", log), m), args)
<1>1. PICK inputs, row : /\ inputs = ArrakisHookFactory_LogCreatePrivateHook_inputs
                         /\ row = HookDeploymentRow(Decode("ArrakisHookFactory", "LogCreatePrivateHook", log), m)
  OBVIOUS
<1>2. HookDeploymentColumns(row, args)
  BY <1>1, HookDeploymentRead
<1>3. Declared["ArrakisHookFactory"]["LogCreatePrivateHook"] = inputs /\ DOMAIN inputs = 1 .. 3
  BY <1>1 DEF Declared, ArrakisHookFactory_LogCreatePrivateHook_inputs
<1>4. /\ Fits(inputs[1].type, args[1])
      /\ Fits(inputs[2].type, args[2])
      /\ Fits(inputs[3].type, args[3])
  BY <1>1, HookDeploymentFits
<1>5. /\ inputs[1].type = "address"
      /\ Column("ArrakisHookFactory", "LogCreatePrivateHook", inputs[1]) = "hook"
      /\ inputs[2].type = "address"
      /\ Column("ArrakisHookFactory", "LogCreatePrivateHook", inputs[2]) = "module"
      /\ inputs[3].type = "bytes32"
      /\ Column("ArrakisHookFactory", "LogCreatePrivateHook", inputs[3]) = "salt"
  BY <1>1 DEF Column, ArrakisHookFactory_LogCreatePrivateHook_inputs, Indexed, Plain
<1>6. /\ Suits("address", "address")
      /\ Suits("address", "address")
      /\ Suits("fixed_bytes", "bytes32")
  BY DEF Suits, Numbers
<1>7. /\ Shows(row, "hook", "address", args[1])
      /\ Shows(row, "module", "address", args[2])
      /\ Shows(row, "salt", "bytes32", args[3])
  BY <1>2, <1>4, <1>5, <1>6, ColumnShows DEF HookDeploymentColumns
<1>8. Matches("ArrakisHookFactory", "LogCreatePrivateHook", log)
  <2>1. PICK binding : binding = Bound["ArrakisHookFactory"]["LogCreatePrivateHook"]
    OBVIOUS
  <2>2. binding.topics = 2 + 1 /\ binding.data = 1
    BY <2>1 DEF Bound, ArrakisHookFactory_LogCreatePrivateHook
  <2> QED
    BY <2>1, <2>2, HookDeploymentEncoded, LaidMatches
<1> QED
  BY <1>1, <1>3, <1>5, <1>7, <1>8 DEF ShowsAll

-----------------------------------------------------------------------------
(* What the decoders make of an address and of a currency id.              *)

(* The currency of an id below the width of a word.                        *)
Narrowed(id) ==
  /\ currency_address(id) # {} <=> id < AddressSize
  /\ \A a \in currency_address(id) : Len(a) = 2 /\ ToNumber(a) = id

LEMMA Pair ==
  ASSUME NEW x, NEW y
  PROVE  <<x>> \o <<y>> = <<x, y>>
<1>1. PICK t, u : t = <<y>> /\ u = <<x>> \o t
  OBVIOUS
<1>2. t \in Seq({x, y}) /\ <<x>> \in Seq({x, y}) /\ Len(t) = 1 /\ t[1] = y
  BY <1>1
<1>3. Len(u) = Len(t) + 1 /\ u[1] = x /\ \A k \in 1 .. Len(t) : u[k + 1] = t[k]
  BY <1>1, <1>2, HeadThenTail
<1>4. Len(u) = 2 /\ u[1 + 1] = y
  BY <1>2, <1>3
<1>5. u \in Seq({x, y})
  BY <1>1, <1>2
<1>6. u = <<u[1], u[2]>>
  BY <1>4, <1>5
<1> QED
  BY <1>1, <1>3, <1>4, <1>6

LEMMA PaddedByte ==
  ASSUME NEW x
  PROVE  [k \in 1 .. (2 - 1) |-> 0] \o <<x>> = <<0, x>>
<1>1. [k \in 1 .. (2 - 1) |-> 0] = <<0>>
  OBVIOUS
<1> QED
  BY <1>1, Pair

LEMMA Narrows ==
  ASSUME NEW id \in Nat, id <= 16777215
  PROVE  Narrowed(id)
<1>1. PICK magnitude : magnitude = to_bytes_be(id)
  OBVIOUS
<1>2. CASE id < 256
  <2>1. magnitude = <<id>> /\ Len(magnitude) = 1
    BY <1>1, <1>2 DEF to_bytes_be
  <2>2. currency_address(id) = {[k \in 1 .. (2 - 1) |-> 0] \o <<id>>}
    BY <1>1, <2>1 DEF currency_address
  <2>3. currency_address(id) = {<<0, id>>}
    BY <2>2, PaddedByte
  <2>4. Len(<<0, id>>) = 2 /\ ToNumber(<<0, id>>) = id
    BY DEF ToNumber
  <2> QED
    BY <1>2, <2>3, <2>4, Scales DEF Narrowed
<1>3. CASE 256 <= id /\ id < 65536
  <2>1. magnitude = Bytes(id) /\ Len(magnitude) = 2
    BY <1>1, <1>3, Scales DEF to_bytes_be, Bytes
  <2>2. currency_address(id) = {[k \in 1 .. (2 - 2) |-> 0] \o Bytes(id)}
    BY <1>1, <2>1 DEF currency_address
  <2>3. [k \in 1 .. (2 - 2) |-> 0] = << >>
    OBVIOUS
  <2>4. << >> \o Bytes(id) = Bytes(id) /\ Len(Bytes(id)) = 2
    BY DEF Bytes
  <2>5. ToNumber(Bytes(id)) = id
    BY <1>3, ReadAddress
  <2> QED
    BY <1>3, <2>2, <2>3, <2>4, <2>5, Scales DEF Narrowed
<1>4. CASE id >= 65536
  <2>1. magnitude = <<id \div AddressSize>> \o Bytes(id % AddressSize)
    BY <1>1, <1>4, Scales DEF to_bytes_be
  <2>2. Len(magnitude) = 3
    BY <2>1 DEF Bytes
  <2>3. currency_address(id) = {}
    BY <1>1, <2>2 DEF currency_address
  <2> QED
    BY <1>4, <2>3, Scales DEF Narrowed
<1> QED
  BY <1>2, <1>3, <1>4

(* A hook whose flags and permissions are those of its address.            *)
HookOfAddress(h) ==
  LET n == ToNumber(h.address) IN
  /\ h.flags = n % 2^14
  /\ \A b \in 1..14 : h.permits[Permissions[b]] <=> (n \div 2^(14 - b)) % 2 = 1
  /\ h.has_hook <=> n # 0
  /\ hook_flags(<<171>> \o h.address) = h.flags
  /\ hook_flags(<<h.address[2]>>) = h.flags % 256
  /\ hook_flags(<< >>) = 0

LEMMA FlagMask == HOOK_FLAG_MASK + 1 = 16384 /\ 2^14 = 16384
BY SMT DEF HOOK_FLAG_MASK

(* The flags of a two-byte address, padded and cut short.                  *)
FlagsOf(hi, lo) ==
  /\ hook_flags(<<hi, lo>>) = (hi * 256 + lo) % 16384
  /\ hook_flags(<<171>> \o <<hi, lo>>) = (hi * 256 + lo) % 16384
  /\ hook_flags(<<lo>>) = ((hi * 256 + lo) % 16384) % 256
  /\ hook_flags(<< >>) = 0

LEMMA TwoBytes ==
  ASSUME NEW hi \in Nat, NEW lo \in Nat, hi <= 255, lo <= 255
  PROVE  FlagsOf(hi, lo)
<1>1. hook_flags(<<hi, lo>>) = (hi * 256 + lo) % 16384
  <2>1. PICK s : s = <<hi, lo>>
    OBVIOUS
  <2>2. Len(s) = 2 /\ s[2] = lo /\ s[2 - 1] = hi
    BY <2>1
  <2> QED
    BY <2>1, <2>2, FlagMask DEF hook_flags
<1>2. hook_flags(<<171>> \o <<hi, lo>>) = (hi * 256 + lo) % 16384
  <2>1. PICK s : s = <<171>> \o <<hi, lo>>
    OBVIOUS
  <2>2. Len(s) = 3 /\ s[3] = lo /\ s[3 - 1] = hi
    BY <2>1
  <2> QED
    BY <2>1, <2>2, FlagMask DEF hook_flags
<1>3. hook_flags(<<lo>>) = (0 * 256 + lo) % 16384
  <2>1. PICK s : s = <<lo>>
    OBVIOUS
  <2>2. Len(s) = 1 /\ s[1] = lo
    BY <2>1
  <2> QED
    BY <2>1, <2>2, FlagMask DEF hook_flags
<1>4. (0 * 256 + lo) % 16384 = ((hi * 256 + lo) % 16384) % 256
  BY SMT
<1>5. hook_flags(<< >>) = 0
  BY FlagMask DEF hook_flags
<1> QED
  BY <1>1, <1>2, <1>3, <1>4, <1>5 DEF FlagsOf

LEMMA PowersOfTwo ==
  /\ 2^13 = 8192 /\ 2^12 = 4096 /\ 2^11 = 2048 /\ 2^10 = 1024 /\ 2^9 = 512 /\ 2^8 = 256
  /\ 2^7 = 128 /\ 2^6 = 64 /\ 2^5 = 32 /\ 2^4 = 16 /\ 2^3 = 8 /\ 2^2 = 4 /\ 2^1 = 2 /\ 2^0 = 1
BY SMT

(* The b-th of fourteen bits, the highest first.                           *)
Bit(b) == 2^(14 - b)

(* Two numbers with the same fourteen low bits.                            *)
SameBits(flags, n) ==
  \A b \in 1 .. 14 : (flags \div Bit(b)) % 2 = (n \div Bit(b)) % 2

(* The mask of fourteen bits leaves each of them as it is.                 *)
LEMMA BitKept ==
  ASSUME NEW n \in Nat, n <= 65535
  PROVE  SameBits(n % 16384, n)
<1> SUFFICES ASSUME NEW b \in 1 .. 14
             PROVE  ((n % 16384) \div Bit(b)) % 2 = (n \div Bit(b)) % 2
  BY DEF SameBits
<1>1. CASE b = 1
  <2>1. Bit(b) = 8192
    BY <1>1, PowersOfTwo DEF Bit
  <2>2. ((n % 16384) \div 8192) % 2 = (n \div 8192) % 2
    BY SMT
  <2> QED
    BY <2>1, <2>2
<1>2. CASE b = 2
  <2>1. Bit(b) = 4096
    BY <1>2, PowersOfTwo DEF Bit
  <2>2. ((n % 16384) \div 4096) % 2 = (n \div 4096) % 2
    BY SMT
  <2> QED
    BY <2>1, <2>2
<1>3. CASE b = 3
  <2>1. Bit(b) = 2048
    BY <1>3, PowersOfTwo DEF Bit
  <2>2. ((n % 16384) \div 2048) % 2 = (n \div 2048) % 2
    BY SMT
  <2> QED
    BY <2>1, <2>2
<1>4. CASE b = 4
  <2>1. Bit(b) = 1024
    BY <1>4, PowersOfTwo DEF Bit
  <2>2. ((n % 16384) \div 1024) % 2 = (n \div 1024) % 2
    BY SMT
  <2> QED
    BY <2>1, <2>2
<1>5. CASE b = 5
  <2>1. Bit(b) = 512
    BY <1>5, PowersOfTwo DEF Bit
  <2>2. ((n % 16384) \div 512) % 2 = (n \div 512) % 2
    BY SMT
  <2> QED
    BY <2>1, <2>2
<1>6. CASE b = 6
  <2>1. Bit(b) = 256
    BY <1>6, PowersOfTwo DEF Bit
  <2>2. ((n % 16384) \div 256) % 2 = (n \div 256) % 2
    BY SMT
  <2> QED
    BY <2>1, <2>2
<1>7. CASE b = 7
  <2>1. Bit(b) = 128
    BY <1>7, PowersOfTwo DEF Bit
  <2>2. ((n % 16384) \div 128) % 2 = (n \div 128) % 2
    BY SMT
  <2> QED
    BY <2>1, <2>2
<1>8. CASE b = 8
  <2>1. Bit(b) = 64
    BY <1>8, PowersOfTwo DEF Bit
  <2>2. ((n % 16384) \div 64) % 2 = (n \div 64) % 2
    BY SMT
  <2> QED
    BY <2>1, <2>2
<1>9. CASE b = 9
  <2>1. Bit(b) = 32
    BY <1>9, PowersOfTwo DEF Bit
  <2>2. ((n % 16384) \div 32) % 2 = (n \div 32) % 2
    BY SMT
  <2> QED
    BY <2>1, <2>2
<1>10. CASE b = 10
  <2>1. Bit(b) = 16
    BY <1>10, PowersOfTwo DEF Bit
  <2>2. ((n % 16384) \div 16) % 2 = (n \div 16) % 2
    BY SMT
  <2> QED
    BY <2>1, <2>2
<1>11. CASE b = 11
  <2>1. Bit(b) = 8
    BY <1>11, PowersOfTwo DEF Bit
  <2>2. ((n % 16384) \div 8) % 2 = (n \div 8) % 2
    BY SMT
  <2> QED
    BY <2>1, <2>2
<1>12. CASE b = 12
  <2>1. Bit(b) = 4
    BY <1>12, PowersOfTwo DEF Bit
  <2>2. ((n % 16384) \div 4) % 2 = (n \div 4) % 2
    BY SMT
  <2> QED
    BY <2>1, <2>2
<1>13. CASE b = 13
  <2>1. Bit(b) = 2
    BY <1>13, PowersOfTwo DEF Bit
  <2>2. ((n % 16384) \div 2) % 2 = (n \div 2) % 2
    BY SMT
  <2> QED
    BY <2>1, <2>2
<1>14. CASE b = 14
  <2>1. Bit(b) = 1
    BY <1>14, PowersOfTwo DEF Bit
  <2>2. ((n % 16384) \div 1) % 2 = (n \div 1) % 2
    BY SMT
  <2> QED
    BY <2>1, <2>2
<1> QED
  BY <1>1, <1>2, <1>3, <1>4, <1>5, <1>6, <1>7,
     <1>8, <1>9, <1>10, <1>11, <1>12, <1>13, <1>14

(* A permission and its bit.                                               *)
FlagIs(p, b) == p \in DOMAIN Flag /\ Flag[p] = Bit(b)

LEMMA FlagOfPermission ==
  ASSUME NEW b \in 1 .. 14
  PROVE  FlagIs(Permissions[b], b)
<1>1. CASE b = 1
  BY <1>1, PowersOfTwo DEF Permissions, Flag, FlagIs, Bit
<1>2. CASE b = 2
  BY <1>2, PowersOfTwo DEF Permissions, Flag, FlagIs, Bit
<1>3. CASE b = 3
  BY <1>3, PowersOfTwo DEF Permissions, Flag, FlagIs, Bit
<1>4. CASE b = 4
  BY <1>4, PowersOfTwo DEF Permissions, Flag, FlagIs, Bit
<1>5. CASE b = 5
  BY <1>5, PowersOfTwo DEF Permissions, Flag, FlagIs, Bit
<1>6. CASE b = 6
  BY <1>6, PowersOfTwo DEF Permissions, Flag, FlagIs, Bit
<1>7. CASE b = 7
  BY <1>7, PowersOfTwo DEF Permissions, Flag, FlagIs, Bit
<1>8. CASE b = 8
  BY <1>8, PowersOfTwo DEF Permissions, Flag, FlagIs, Bit
<1>9. CASE b = 9
  BY <1>9, PowersOfTwo DEF Permissions, Flag, FlagIs, Bit
<1>10. CASE b = 10
  BY <1>10, PowersOfTwo DEF Permissions, Flag, FlagIs, Bit
<1>11. CASE b = 11
  BY <1>11, PowersOfTwo DEF Permissions, Flag, FlagIs, Bit
<1>12. CASE b = 12
  BY <1>12, PowersOfTwo DEF Permissions, Flag, FlagIs, Bit
<1>13. CASE b = 13
  BY <1>13, PowersOfTwo DEF Permissions, Flag, FlagIs, Bit
<1>14. CASE b = 14
  BY <1>14, PowersOfTwo DEF Permissions, Flag, FlagIs, Bit
<1> QED
  BY <1>1, <1>2, <1>3, <1>4, <1>5, <1>6, <1>7, <1>8, <1>9, <1>10, <1>11, <1>12, <1>13, <1>14

(* A permission is a bit of the flags.                                     *)
Has(flags, bit) == (flags \div bit) % 2 = 1

LEMMA PermitsRead ==
  ASSUME NEW flags, NEW permits, permits = [q \in DOMAIN Flag |-> (flags \div Flag[q]) % 2 = 1],
         NEW p \in DOMAIN Flag, NEW bit, bit = Flag[p]
  PROVE  permits[p] <=> (flags \div bit) % 2 = 1
<1>1. permits = [q \in DOMAIN Flag |-> Has(flags, Flag[q])]
  BY DEF Has
<1>2. permits[p] <=> Has(flags, bit)
  BY <1>1
<1> QED
  BY <1>2 DEF Has

LEMMA HookFacts ==
  ASSUME NEW v \in Nat, v <= 65535
  PROVE  HookOfAddress(decode_hook(Bytes(v)))
<1>1. PICK hi, lo, h : hi = v \div 256 /\ lo = v % 256 /\ h = decode_hook(Bytes(v))
  OBVIOUS
<1>2. /\ hi \in Nat /\ lo \in Nat /\ hi <= 255 /\ lo <= 255
      /\ hi * 256 + lo = v
  BY <1>1, ReadAddress DEF ToNumber, Bytes
<1>3. Bytes(v) = <<hi, lo>>
  BY <1>1 DEF Bytes
<1>4. /\ h.address = <<hi, lo>>
      /\ h.flags = hook_flags(<<hi, lo>>)
      /\ h.has_hook = \E i \in DOMAIN <<hi, lo>> : <<hi, lo>>[i] # 0
      /\ h.permits = [p \in DOMAIN Flag |-> (h.flags \div Flag[p]) % 2 = 1]
  BY <1>1, <1>3 DEF decode_hook
<1>5. h.flags = v % 16384
  <2>1. FlagsOf(hi, lo)
    BY <1>2, TwoBytes
  <2>2. hook_flags(<<hi, lo>>) = (hi * 256 + lo) % 16384
    BY <2>1 DEF FlagsOf
  <2> QED
    BY <1>2, <1>4, <2>2
<1>6. ToNumber(h.address) = v
  BY <1>2, <1>4 DEF ToNumber
<1>7. h.has_hook <=> v # 0
  BY <1>2, <1>4
<1>8. ASSUME NEW b \in 1 .. 14
      PROVE  h.permits[Permissions[b]] <=> (v \div Bit(b)) % 2 = 1
  <2>1. PICK p, permits, flags : p = Permissions[b] /\ permits = h.permits /\ flags = h.flags
    OBVIOUS
  <2>2. FlagIs(p, b)
    BY <2>1, FlagOfPermission
  <2>3. permits = [q \in DOMAIN Flag |-> (flags \div Flag[q]) % 2 = 1]
    BY <1>4, <2>1
  <2>4. permits[p] <=> (flags \div Bit(b)) % 2 = 1
    <3>1. p \in DOMAIN Flag /\ Bit(b) = Flag[p]
      BY <2>2 DEF FlagIs
    <3> QED
      BY <2>3, <3>1, PermitsRead
  <2>5. SameBits(flags, v)
    BY <1>5, <2>1, BitKept
  <2>6. (flags \div Bit(b)) % 2 = (v \div Bit(b)) % 2
    BY <2>5 DEF SameBits
  <2> QED
    BY <2>1, <2>4, <2>6
<1>9. /\ hook_flags(<<171>> \o h.address) = h.flags
      /\ hook_flags(<<h.address[2]>>) = h.flags % 256
      /\ hook_flags(<< >>) = 0
  BY <1>2, <1>4, TwoBytes DEF FlagsOf
<1> QED
  BY <1>1, <1>5, <1>6, <1>7, <1>8, <1>9, FlagMask DEF HookOfAddress, Bit

-----------------------------------------------------------------------------
(* The chain's logs.                                                       *)

(* A log the chain made of a fact.                                         *)
Made(fact, log) ==
  /\ fact.contract \in Contracts /\ fact.event \in DOMAIN Declared[fact.contract]
  /\ fact.address \in {fact.contract, Foreign}
  /\ Drawn(fact.contract, fact.event, fact.args)
  /\ Logged(fact.contract, fact.event, fact.args, log)
  /\ log.address = fact.address

(* The block is what the chain logged, and no extractor is past its end.   *)
ChainInv ==
  /\ emitted \in Seq({emitted[k] : k \in DOMAIN emitted})
  /\ Len(emitted) = Len(block) /\ Len(block) <= MaxLogs
  /\ \A k \in DOMAIN emitted : Made(emitted[k], block[k])
  /\ cursor <= Len(block) + 1
  /\ stage = "chain" => cursor = 1

LEMMA Tables ==
  ASSUME NEW contract \in Contracts, NEW event \in DOMAIN Declared[contract]
  PROVE  IsFiniteSet(DOMAIN Declared[contract][event])
<1> DEFINE inputs == Declared[contract][event]
<1>1. DOMAIN inputs = 1 .. Len(inputs) /\ Len(inputs) \in Nat
  <2>1. CASE contract = "PoolManager"
    <3>1. CASE event = "Approval"
      BY <2>1, <3>1 DEF Declared, PoolManager_Approval_inputs
    <3>2. CASE event = "Donate"
      BY <2>1, <3>2 DEF Declared, PoolManager_Donate_inputs
    <3>3. CASE event = "Initialize"
      BY <2>1, <3>3 DEF Declared, PoolManager_Initialize_inputs
    <3>4. CASE event = "ModifyLiquidity"
      BY <2>1, <3>4 DEF Declared, PoolManager_ModifyLiquidity_inputs
    <3>5. CASE event = "OperatorSet"
      BY <2>1, <3>5 DEF Declared, PoolManager_OperatorSet_inputs
    <3>6. CASE event = "OwnershipTransferred"
      BY <2>1, <3>6 DEF Declared, PoolManager_OwnershipTransferred_inputs
    <3>7. CASE event = "ProtocolFeeControllerUpdated"
      BY <2>1, <3>7 DEF Declared, PoolManager_ProtocolFeeControllerUpdated_inputs
    <3>8. CASE event = "ProtocolFeeUpdated"
      BY <2>1, <3>8 DEF Declared, PoolManager_ProtocolFeeUpdated_inputs
    <3>9. CASE event = "Swap"
      BY <2>1, <3>9 DEF Declared, PoolManager_Swap_inputs
    <3>10. CASE event = "Transfer"
      BY <2>1, <3>10 DEF Declared, PoolManager_Transfer_inputs
    <3> QED
      BY <2>1, <3>1, <3>2, <3>3, <3>4, <3>5, <3>6, <3>7, <3>8, <3>9, <3>10 DEF Declared
  <2>2. CASE contract = "PositionManager"
    <3>1. CASE event = "Approval"
      BY <2>2, <3>1 DEF Declared, PositionManager_Approval_inputs
    <3>2. CASE event = "ApprovalForAll"
      BY <2>2, <3>2 DEF Declared, PositionManager_ApprovalForAll_inputs
    <3>3. CASE event = "Subscription"
      BY <2>2, <3>3 DEF Declared, PositionManager_Subscription_inputs
    <3>4. CASE event = "Transfer"
      BY <2>2, <3>4 DEF Declared, PositionManager_Transfer_inputs
    <3>5. CASE event = "Unsubscription"
      BY <2>2, <3>5 DEF Declared, PositionManager_Unsubscription_inputs
    <3> QED
      BY <2>2, <3>1, <3>2, <3>3, <3>4, <3>5 DEF Declared
  <2>3. CASE contract = "ArrakisHookFactory"
    <3>1. CASE event = "LogCreatePrivateHook"
      BY <2>3, <3>1 DEF Declared, ArrakisHookFactory_LogCreatePrivateHook_inputs
    <3> QED
      BY <2>3, <3>1 DEF Declared
  <2> QED
    BY <2>1, <2>2, <2>3 DEF Contracts, Declared
<1> HIDE DEF inputs
<1> QED
  BY <1>1, FS_Interval DEF inputs

(* The signature of every log says which event of which contract it is.    *)
LEMMA Signature ==
  ASSUME NEW fact, NEW log, Made(fact, log)
  PROVE  log.topics[1] = <<fact.contract, fact.event>>
<1> DEFINE inputs == Declared[fact.contract][fact.event]
<1>1. PICK S : S = {i \in DOMAIN inputs : inputs[i].indexed = TRUE}
  OBVIOUS
<1>2. IsFiniteSet(S)
  <2>1. IsFiniteSet(DOMAIN inputs)
    BY Tables DEF Made
  <2> QED
    BY <1>1, <2>1, FS_Subset
<1>3. Cardinality(S) \in Nat
  BY <1>2, FS_CardinalityType
<1>4. PICK t, sig : t = Words(fact.args, S) /\ sig = <<fact.contract, fact.event>>
  OBVIOUS
<1>5. \E R : t \in Seq(R)
  <2>1. PICK n \in Nat : n = Cardinality(S)
    BY <1>3
  <2>2. t = [k \in 1 .. n |-> ToWord(fact.args[Nth(S, k)])]
    BY <1>4, <2>1 DEF Words
  <2> DEFINE R == {ToWord(fact.args[Nth(S, k)]) : k \in 1 .. n}
  <2>3. t \in [1 .. n -> R]
    BY <2>2
  <2> HIDE DEF R
  <2>4. t \in Seq(R)
    BY <2>3
  <2> QED
    BY <2>4
<1>6. log.topics = <<sig>> \o t
  BY <1>1, <1>4 DEF Made, Logged, Encode
<1>7. (<<sig>> \o t)[1] = sig
  BY <1>5, HeadThenTail
<1> QED
  BY <1>4, <1>6, <1>7

LEMMA EmitMakes ==
  ASSUME NEW contract \in Contracts, NEW event \in DOMAIN Declared[contract],
         NEW address \in {contract, Foreign}, NEW s \in Samples, NEW newTx,
         Emit(contract, event, address, s, newTx)
  PROVE  \E fact, log : /\ Made(fact, log)
                        /\ emitted' = Append(emitted, fact) /\ block' = Append(block, log)
                        /\ Len(block) < MaxLogs
<1> DEFINE inputs == Declared[contract][event]
           args == [i \in DOMAIN inputs |-> Argument(event, inputs[i], i, s)]
           fact == [contract |-> contract, event |-> event, address |-> address, args |-> args]
           encoded == Encode(contract, event, args)
           tx == IF block = << >> THEN 1 ELSE Last(block).transaction.hash + newTx
           sameTx == {k \in DOMAIN block : block[k].transaction.hash = tx}
           made == [address |-> address, topics |-> encoded.topics, data |-> encoded.data,
                    transaction |-> TransactionTrace(tx),
                    index |-> Cardinality(sameTx), block_index |-> Len(block)]
<1>0. /\ emitted' = Append(emitted, fact) /\ block' = Append(block, made)
      /\ Len(block) < MaxLogs
  BY DEF Emit
<1>1. PICK log : /\ block' = Append(block, log)
                 /\ log.address = address
                 /\ log.topics = encoded.topics /\ log.data = encoded.data
  <2> HIDE DEF fact, encoded, args, tx, sameTx
  <2> QED
    BY <1>0
<1>2. Drawn(contract, event, args)
  BY DecoderAssumption DEF Drawn
<1>3. Logged(contract, event, args, log)
  BY <1>1 DEF Logged
<1> HIDE DEF args
<1>4. Made(fact, log)
  BY <1>1, <1>2, <1>3 DEF Made
<1> QED
  BY <1>0, <1>1, <1>4

-----------------------------------------------------------------------------
(* The rows.                                                               *)

(* The columns of a claim row that hold an address.                        *)
AddressColumns == {"caller", "owner", "from", "to", "spender", "operator"}

(* The bytes of an address, in the scale of the model.                     *)
TwoBytesLong(a) == a \in Seq(0..255) /\ Len(a) = 2

(* A claim-token row: its address columns are addresses, and its currency  *)
(* is one a contract may name.                                             *)
ClaimRow(row) ==
  /\ \A column \in DOMAIN row \cap AddressColumns : TwoBytesLong(row[column])
  /\ row.kind # "operator_set" => Narrowed(row.currency_id)
  /\ row.kind = "transfer" => row.currency_id < AddressSize

(* A row that is all it should be of a log.                                *)
GoodRow(list, row, fact, log) ==
  /\ row.meta = meta(log)
  /\ fact.address = fact.contract /\ fact.event \in Decoded[fact.contract]
  /\ list = Home[fact.contract][fact.event][1]
  /\ "kind" \in DOMAIN row => row.kind = Home[fact.contract][fact.event][2]
  /\ ShowsAll(fact.contract, fact.event, row, fact.args)
  /\ list = "claim_token_events" => ClaimRow(row)
  /\ list = "pools" => HookOfAddress(row.hook)
  /\ list = "hook_deployments" => HookOfAddress(row.permissions)

LEMMA AddressBytes ==
  ASSUME NEW v, Fits("address", v)
  PROVE  TwoBytesLong(Read("address", ToWord(v)))
<1>1. v \in Nat /\ v <= 65535
  BY DEF Fits
<1>2. PICK hi, lo : hi = v \div 256 /\ lo = v % 256
  OBVIOUS
<1>3. Read("address", ToWord(v)) = <<hi, lo>>
  <2>1. Read("address", ToWord(v)) = Bytes(v)
    BY <1>1, ReadAddress
  <2> QED
    BY <1>2, <2>1 DEF Bytes
<1>4. hi \in Nat /\ lo \in Nat /\ hi <= 255 /\ lo <= 255
  BY <1>1, <1>2, ReadAddress
<1>5. <<hi, lo>> \in Seq(0..255) /\ Len(<<hi, lo>>) = 2
  BY <1>4
<1> QED
  BY <1>3, <1>5 DEF TwoBytesLong

LEMMA IdNarrows ==
  ASSUME NEW v, Fits("uint256", v)
  PROVE  Narrowed(Read("uint", ToWord(v))) /\ Read("uint", ToWord(v)) = v
<1>1. v \in Nat /\ v <= 16777215
  BY DEF Fits, Numbers
<1>2. Read("uint", ToWord(v)) = v
  BY <1>1, ReadNumber
<1>3. Narrowed(v)
  BY <1>1, Narrows
<1> QED
  BY <1>2, <1>3

LEMMA HookRead ==
  ASSUME NEW v, Fits("address", v)
  PROVE  HookOfAddress(decode_hook(Read("address", ToWord(v))))
<1>1. v \in Nat /\ v <= 65535
  BY DEF Fits
<1>2. Read("address", ToWord(v)) = Bytes(v)
  BY <1>1, ReadAddress
<1>3. HookOfAddress(decode_hook(Bytes(v)))
  BY <1>1, HookFacts
<1> QED
  BY <1>2, <1>3

(* A transfer is of a currency: its id is an address.                      *)
LEMMA TransferIdIsAddress ==
  ASSUME NEW args, Drawn("PoolManager", "Transfer", args)
  PROVE  args[4] < AddressSize
<1>1. PICK inputs : inputs = PoolManager_Transfer_inputs
  OBVIOUS
<1>2. Declared["PoolManager"]["Transfer"] = inputs
  BY <1>1 DEF Declared
<1>3. PICK s \in 1 .. 5 : args = [i \in DOMAIN inputs |-> Argument("Transfer", inputs[i], i, s)]
  BY <1>2 DEF Drawn
<1>4. 4 \in DOMAIN inputs
  BY <1>1 DEF PoolManager_Transfer_inputs
<1>5. PICK param, i : param = inputs[4] /\ i = 4
  OBVIOUS
<1>6. args[4] = Argument("Transfer", param, i, s)
  BY <1>3, <1>4, <1>5
<1>7. param.name = "id" /\ param.type = "uint256"
  BY <1>1, <1>5 DEF PoolManager_Transfer_inputs, Indexed
<1>8. Plainly(param) /\ param.type # "bool" /\ Address("Transfer", param) /\ i \in 1 .. 8
  BY <1>5, <1>7 DEF Plainly, Address
<1>9. args[4] \in Int /\ args[4] <= 65535
  BY <1>6, <1>8, AddressFits
<1> QED
  BY <1>9, Scales

(* Each arm makes such a row.                                              *)
RowIsGood(list, row, fact, log) ==
  /\ Matches(fact.contract, fact.event, log)
  /\ GoodRow(list, row, fact, log)

LEMMA SwapGood ==
  ASSUME NEW fact, NEW log, Made(fact, log), fact.contract = "PoolManager",
         fact.event = "Swap", fact.address = fact.contract
  PROVE  RowIsGood("swaps", SwapRow(Decode("PoolManager", "Swap", log), meta(log)), fact, log)
<1>1. PICK row, args : /\ row = SwapRow(Decode("PoolManager", "Swap", log), meta(log))
                       /\ args = fact.args
  OBVIOUS
<1>2. Drawn("PoolManager", "Swap", args) /\ Logged("PoolManager", "Swap", args, log)
  BY <1>1 DEF Made
<1>3. Matches("PoolManager", "Swap", log) /\ ShowsAll("PoolManager", "Swap", row, args)
  BY <1>1, <1>2, SwapShown
<1>4. row.meta = meta(log)
  BY <1>1 DEF SwapRow
<1>5. /\ "swaps" = Home["PoolManager"]["Swap"][1] /\ "Swap" \in Decoded["PoolManager"]
      /\ "kind" \in DOMAIN row => row.kind = Home["PoolManager"]["Swap"][2]
  BY <1>1 DEF Home, Decoded, SwapRow
<1> QED
  BY <1>1, <1>3, <1>4, <1>5 DEF RowIsGood, GoodRow

LEMMA ModifyLiquidityGood ==
  ASSUME NEW fact, NEW log, Made(fact, log), fact.contract = "PoolManager",
         fact.event = "ModifyLiquidity", fact.address = fact.contract
  PROVE  RowIsGood("modify_liquidity", ModifyLiquidityRow(Decode("PoolManager", "ModifyLiquidity", log), meta(log)), fact, log)
<1>1. PICK row, args : /\ row = ModifyLiquidityRow(Decode("PoolManager", "ModifyLiquidity", log), meta(log))
                       /\ args = fact.args
  OBVIOUS
<1>2. /\ Drawn("PoolManager", "ModifyLiquidity", args)
      /\ Logged("PoolManager", "ModifyLiquidity", args, log)
  BY <1>1 DEF Made
<1>3. /\ Matches("PoolManager", "ModifyLiquidity", log)
      /\ ShowsAll("PoolManager", "ModifyLiquidity", row, args)
  BY <1>1, <1>2, ModifyLiquidityShown
<1>4. row.meta = meta(log)
  BY <1>1 DEF ModifyLiquidityRow
<1>5. /\ "modify_liquidity" = Home["PoolManager"]["ModifyLiquidity"][1]
      /\ "ModifyLiquidity" \in Decoded["PoolManager"]
      /\ "kind" \in DOMAIN row => row.kind = Home["PoolManager"]["ModifyLiquidity"][2]
  BY <1>1 DEF Home, Decoded, ModifyLiquidityRow
<1> QED
  BY <1>1, <1>3, <1>4, <1>5 DEF RowIsGood, GoodRow

LEMMA PoolGood ==
  ASSUME NEW fact, NEW log, Made(fact, log), fact.contract = "PoolManager",
         fact.event = "Initialize", fact.address = fact.contract
  PROVE  RowIsGood("pools", PoolRow(Decode("PoolManager", "Initialize", log), meta(log)), fact, log)
<1>1. PICK row, args : /\ row = PoolRow(Decode("PoolManager", "Initialize", log), meta(log))
                       /\ args = fact.args
  OBVIOUS
<1>2. Drawn("PoolManager", "Initialize", args) /\ Logged("PoolManager", "Initialize", args, log)
  BY <1>1 DEF Made
<1>3. Matches("PoolManager", "Initialize", log) /\ ShowsAll("PoolManager", "Initialize", row, args)
  BY <1>1, <1>2, PoolShown
<1>4. row.meta = meta(log)
  BY <1>1 DEF PoolRow
<1>5. /\ "pools" = Home["PoolManager"]["Initialize"][1] /\ "Initialize" \in Decoded["PoolManager"]
      /\ "kind" \in DOMAIN row => row.kind = Home["PoolManager"]["Initialize"][2]
  BY <1>1 DEF Home, Decoded, PoolRow
<1>6. HookOfAddress(row.hook)
  <2>1. PoolColumns(row, args)
    BY <1>1, <1>2, PoolRead
  <2>2. PICK inputs : inputs = PoolManager_Initialize_inputs
    OBVIOUS
  <2>3. inputs[6].type = "address"
    BY <2>2 DEF PoolManager_Initialize_inputs, Indexed, Plain
  <2>4. Fits("address", args[6])
    BY <1>2, <2>2, <2>3, PoolFits
  <2> QED
    BY <2>1, <2>4, HookRead DEF PoolColumns
<1> QED
  BY <1>1, <1>3, <1>4, <1>5, <1>6 DEF RowIsGood, GoodRow

LEMMA TransferGood ==
  ASSUME NEW fact, NEW log, Made(fact, log), fact.contract = "PoolManager",
         fact.event = "Transfer", fact.address = fact.contract
  PROVE  RowIsGood("claim_token_events", TransferRow(Decode("PoolManager", "Transfer", log), meta(log)), fact, log)
<1>1. PICK row, args : /\ row = TransferRow(Decode("PoolManager", "Transfer", log), meta(log))
                       /\ args = fact.args
  OBVIOUS
<1>2. Drawn("PoolManager", "Transfer", args) /\ Logged("PoolManager", "Transfer", args, log)
  BY <1>1 DEF Made
<1>3. Matches("PoolManager", "Transfer", log) /\ ShowsAll("PoolManager", "Transfer", row, args)
  BY <1>1, <1>2, TransferShown
<1>4. row.meta = meta(log)
  BY <1>1 DEF TransferRow
<1>5. /\ "claim_token_events" = Home["PoolManager"]["Transfer"][1]
      /\ "Transfer" \in Decoded["PoolManager"]
      /\ "kind" \in DOMAIN row => row.kind = Home["PoolManager"]["Transfer"][2]
  BY <1>1 DEF Home, Decoded, TransferRow
<1>6. ClaimRow(row)
  <2>1. TransferColumns(row, args)
    BY <1>1, <1>2, TransferRead
  <2>2. PICK inputs : inputs = PoolManager_Transfer_inputs
    OBVIOUS
  <2>3. /\ inputs[1].type = "address"
        /\ inputs[2].type = "address"
        /\ inputs[3].type = "address"
        /\ inputs[4].type = "uint256"
    BY <2>2 DEF PoolManager_Transfer_inputs, Indexed, Plain
  <2>4. /\ Fits("address", args[1])
        /\ Fits("address", args[2])
        /\ Fits("address", args[3])
        /\ Fits("uint256", args[4])
    BY <1>2, <2>2, <2>3, TransferFits
  <2>5. /\ TwoBytesLong(row.caller)
        /\ TwoBytesLong(row.from)
        /\ TwoBytesLong(row.to)
    BY <2>1, <2>4, AddressBytes DEF TransferColumns
  <2>6. DOMAIN row \cap AddressColumns = {"caller", "from", "to"}
    BY <1>1 DEF TransferRow, AddressColumns
  <2>7. row.kind = "transfer"
    BY <1>1 DEF TransferRow
  <2>8. Narrowed(row.currency_id) /\ row.currency_id = args[4]
    BY <2>1, <2>4, IdNarrows DEF TransferColumns
  <2>9. row.currency_id < AddressSize
    BY <1>2, <2>8, TransferIdIsAddress
  <2> QED
    BY <2>5, <2>6, <2>7, <2>8, <2>9 DEF ClaimRow
<1> QED
  BY <1>1, <1>3, <1>4, <1>5, <1>6 DEF RowIsGood, GoodRow

LEMMA DonateGood ==
  ASSUME NEW fact, NEW log, Made(fact, log), fact.contract = "PoolManager",
         fact.event = "Donate", fact.address = fact.contract
  PROVE  RowIsGood("donates", DonateRow(Decode("PoolManager", "Donate", log), meta(log)), fact, log)
<1>1. PICK row, args : /\ row = DonateRow(Decode("PoolManager", "Donate", log), meta(log))
                       /\ args = fact.args
  OBVIOUS
<1>2. Drawn("PoolManager", "Donate", args) /\ Logged("PoolManager", "Donate", args, log)
  BY <1>1 DEF Made
<1>3. Matches("PoolManager", "Donate", log) /\ ShowsAll("PoolManager", "Donate", row, args)
  BY <1>1, <1>2, DonateShown
<1>4. row.meta = meta(log)
  BY <1>1 DEF DonateRow
<1>5. /\ "donates" = Home["PoolManager"]["Donate"][1] /\ "Donate" \in Decoded["PoolManager"]
      /\ "kind" \in DOMAIN row => row.kind = Home["PoolManager"]["Donate"][2]
  BY <1>1 DEF Home, Decoded, DonateRow
<1> QED
  BY <1>1, <1>3, <1>4, <1>5 DEF RowIsGood, GoodRow

LEMMA ApprovalGood ==
  ASSUME NEW fact, NEW log, Made(fact, log), fact.contract = "PoolManager",
         fact.event = "Approval", fact.address = fact.contract
  PROVE  RowIsGood("claim_token_events", ApprovalRow(Decode("PoolManager", "Approval", log), meta(log)), fact, log)
<1>1. PICK row, args : /\ row = ApprovalRow(Decode("PoolManager", "Approval", log), meta(log))
                       /\ args = fact.args
  OBVIOUS
<1>2. Drawn("PoolManager", "Approval", args) /\ Logged("PoolManager", "Approval", args, log)
  BY <1>1 DEF Made
<1>3. Matches("PoolManager", "Approval", log) /\ ShowsAll("PoolManager", "Approval", row, args)
  BY <1>1, <1>2, ApprovalShown
<1>4. row.meta = meta(log)
  BY <1>1 DEF ApprovalRow
<1>5. /\ "claim_token_events" = Home["PoolManager"]["Approval"][1]
      /\ "Approval" \in Decoded["PoolManager"]
      /\ "kind" \in DOMAIN row => row.kind = Home["PoolManager"]["Approval"][2]
  BY <1>1 DEF Home, Decoded, ApprovalRow
<1>6. ClaimRow(row)
  <2>1. ApprovalColumns(row, args)
    BY <1>1, <1>2, ApprovalRead
  <2>2. PICK inputs : inputs = PoolManager_Approval_inputs
    OBVIOUS
  <2>3. /\ inputs[1].type = "address"
        /\ inputs[2].type = "address"
        /\ inputs[3].type = "uint256"
    BY <2>2 DEF PoolManager_Approval_inputs, Indexed, Plain
  <2>4. /\ Fits("address", args[1])
        /\ Fits("address", args[2])
        /\ Fits("uint256", args[3])
    BY <1>2, <2>2, <2>3, ApprovalFits
  <2>5. /\ TwoBytesLong(row.owner)
        /\ TwoBytesLong(row.spender)
    BY <2>1, <2>4, AddressBytes DEF ApprovalColumns
  <2>6. DOMAIN row \cap AddressColumns = {"owner", "spender"}
    BY <1>1 DEF ApprovalRow, AddressColumns
  <2>7. row.kind = "approval"
    BY <1>1 DEF ApprovalRow
  <2>8. Narrowed(row.currency_id) /\ row.currency_id = args[3]
    BY <2>1, <2>4, IdNarrows DEF ApprovalColumns
  <2> QED
    BY <2>5, <2>6, <2>7, <2>8 DEF ClaimRow
<1> QED
  BY <1>1, <1>3, <1>4, <1>5, <1>6 DEF RowIsGood, GoodRow

LEMMA OperatorSetGood ==
  ASSUME NEW fact, NEW log, Made(fact, log), fact.contract = "PoolManager",
         fact.event = "OperatorSet", fact.address = fact.contract
  PROVE  RowIsGood("claim_token_events", OperatorSetRow(Decode("PoolManager", "OperatorSet", log), meta(log)), fact, log)
<1>1. PICK row, args : /\ row = OperatorSetRow(Decode("PoolManager", "OperatorSet", log), meta(log))
                       /\ args = fact.args
  OBVIOUS
<1>2. Drawn("PoolManager", "OperatorSet", args) /\ Logged("PoolManager", "OperatorSet", args, log)
  BY <1>1 DEF Made
<1>3. /\ Matches("PoolManager", "OperatorSet", log)
      /\ ShowsAll("PoolManager", "OperatorSet", row, args)
  BY <1>1, <1>2, OperatorSetShown
<1>4. row.meta = meta(log)
  BY <1>1 DEF OperatorSetRow
<1>5. /\ "claim_token_events" = Home["PoolManager"]["OperatorSet"][1]
      /\ "OperatorSet" \in Decoded["PoolManager"]
      /\ "kind" \in DOMAIN row => row.kind = Home["PoolManager"]["OperatorSet"][2]
  BY <1>1 DEF Home, Decoded, OperatorSetRow
<1>6. ClaimRow(row)
  <2>1. OperatorSetColumns(row, args)
    BY <1>1, <1>2, OperatorSetRead
  <2>2. PICK inputs : inputs = PoolManager_OperatorSet_inputs
    OBVIOUS
  <2>3. /\ inputs[1].type = "address"
        /\ inputs[2].type = "address"
    BY <2>2 DEF PoolManager_OperatorSet_inputs, Indexed, Plain
  <2>4. /\ Fits("address", args[1])
        /\ Fits("address", args[2])
    BY <1>2, <2>2, <2>3, OperatorSetFits
  <2>5. /\ TwoBytesLong(row.owner)
        /\ TwoBytesLong(row.operator)
    BY <2>1, <2>4, AddressBytes DEF OperatorSetColumns
  <2>6. DOMAIN row \cap AddressColumns = {"owner", "operator"}
    BY <1>1 DEF OperatorSetRow, AddressColumns
  <2>7. row.kind = "operator_set"
    BY <1>1 DEF OperatorSetRow
  <2> QED
    BY <2>5, <2>6, <2>7 DEF ClaimRow
<1> QED
  BY <1>1, <1>3, <1>4, <1>5, <1>6 DEF RowIsGood, GoodRow

LEMMA FeeUpdatedGood ==
  ASSUME NEW fact, NEW log, Made(fact, log), fact.contract = "PoolManager",
         fact.event = "ProtocolFeeUpdated", fact.address = fact.contract
  PROVE  RowIsGood("protocol_fee_events", FeeUpdatedRow(Decode("PoolManager", "ProtocolFeeUpdated", log), meta(log)), fact, log)
<1>1. PICK row, args : /\ row = FeeUpdatedRow(Decode("PoolManager", "ProtocolFeeUpdated", log), meta(log))
                       /\ args = fact.args
  OBVIOUS
<1>2. /\ Drawn("PoolManager", "ProtocolFeeUpdated", args)
      /\ Logged("PoolManager", "ProtocolFeeUpdated", args, log)
  BY <1>1 DEF Made
<1>3. /\ Matches("PoolManager", "ProtocolFeeUpdated", log)
      /\ ShowsAll("PoolManager", "ProtocolFeeUpdated", row, args)
  BY <1>1, <1>2, FeeUpdatedShown
<1>4. row.meta = meta(log)
  BY <1>1 DEF FeeUpdatedRow
<1>5. /\ "protocol_fee_events" = Home["PoolManager"]["ProtocolFeeUpdated"][1]
      /\ "ProtocolFeeUpdated" \in Decoded["PoolManager"]
      /\ "kind" \in DOMAIN row => row.kind = Home["PoolManager"]["ProtocolFeeUpdated"][2]
  BY <1>1 DEF Home, Decoded, FeeUpdatedRow
<1> QED
  BY <1>1, <1>3, <1>4, <1>5 DEF RowIsGood, GoodRow

LEMMA ControllerUpdatedGood ==
  ASSUME NEW fact, NEW log, Made(fact, log), fact.contract = "PoolManager",
         fact.event = "ProtocolFeeControllerUpdated", fact.address = fact.contract
  PROVE  RowIsGood("protocol_fee_events", ControllerUpdatedRow(Decode("PoolManager", "ProtocolFeeControllerUpdated", log), meta(log)), fact, log)
<1>1. PICK row, args : /\ row = ControllerUpdatedRow(Decode("PoolManager", "ProtocolFeeControllerUpdated", log), meta(log))
                       /\ args = fact.args
  OBVIOUS
<1>2. /\ Drawn("PoolManager", "ProtocolFeeControllerUpdated", args)
      /\ Logged("PoolManager", "ProtocolFeeControllerUpdated", args, log)
  BY <1>1 DEF Made
<1>3. /\ Matches("PoolManager", "ProtocolFeeControllerUpdated", log)
      /\ ShowsAll("PoolManager", "ProtocolFeeControllerUpdated", row, args)
  BY <1>1, <1>2, ControllerUpdatedShown
<1>4. row.meta = meta(log)
  BY <1>1 DEF ControllerUpdatedRow
<1>5. /\ "protocol_fee_events" = Home["PoolManager"]["ProtocolFeeControllerUpdated"][1]
      /\ "ProtocolFeeControllerUpdated" \in Decoded["PoolManager"]
      /\ "kind" \in DOMAIN row => row.kind = Home["PoolManager"]["ProtocolFeeControllerUpdated"][2]
  BY <1>1 DEF Home, Decoded, ControllerUpdatedRow
<1> QED
  BY <1>1, <1>3, <1>4, <1>5 DEF RowIsGood, GoodRow

LEMMA SubscribeGood ==
  ASSUME NEW fact, NEW log, Made(fact, log), fact.contract = "PositionManager",
         fact.event = "Subscription", fact.address = fact.contract
  PROVE  RowIsGood("position_events", SubscribeRow(Decode("PositionManager", "Subscription", log), meta(log)), fact, log)
<1>1. PICK row, args : /\ row = SubscribeRow(Decode("PositionManager", "Subscription", log), meta(log))
                       /\ args = fact.args
  OBVIOUS
<1>2. /\ Drawn("PositionManager", "Subscription", args)
      /\ Logged("PositionManager", "Subscription", args, log)
  BY <1>1 DEF Made
<1>3. /\ Matches("PositionManager", "Subscription", log)
      /\ ShowsAll("PositionManager", "Subscription", row, args)
  BY <1>1, <1>2, SubscribeShown
<1>4. row.meta = meta(log)
  BY <1>1 DEF SubscribeRow
<1>5. /\ "position_events" = Home["PositionManager"]["Subscription"][1]
      /\ "Subscription" \in Decoded["PositionManager"]
      /\ "kind" \in DOMAIN row => row.kind = Home["PositionManager"]["Subscription"][2]
  BY <1>1 DEF Home, Decoded, SubscribeRow
<1> QED
  BY <1>1, <1>3, <1>4, <1>5 DEF RowIsGood, GoodRow

LEMMA UnsubscribeGood ==
  ASSUME NEW fact, NEW log, Made(fact, log), fact.contract = "PositionManager",
         fact.event = "Unsubscription", fact.address = fact.contract
  PROVE  RowIsGood("position_events", UnsubscribeRow(Decode("PositionManager", "Unsubscription", log), meta(log)), fact, log)
<1>1. PICK row, args : /\ row = UnsubscribeRow(Decode("PositionManager", "Unsubscription", log), meta(log))
                       /\ args = fact.args
  OBVIOUS
<1>2. /\ Drawn("PositionManager", "Unsubscription", args)
      /\ Logged("PositionManager", "Unsubscription", args, log)
  BY <1>1 DEF Made
<1>3. /\ Matches("PositionManager", "Unsubscription", log)
      /\ ShowsAll("PositionManager", "Unsubscription", row, args)
  BY <1>1, <1>2, UnsubscribeShown
<1>4. row.meta = meta(log)
  BY <1>1 DEF UnsubscribeRow
<1>5. /\ "position_events" = Home["PositionManager"]["Unsubscription"][1]
      /\ "Unsubscription" \in Decoded["PositionManager"]
      /\ "kind" \in DOMAIN row => row.kind = Home["PositionManager"]["Unsubscription"][2]
  BY <1>1 DEF Home, Decoded, UnsubscribeRow
<1> QED
  BY <1>1, <1>3, <1>4, <1>5 DEF RowIsGood, GoodRow

LEMMA PositionTransferGood ==
  ASSUME NEW fact, NEW log, Made(fact, log), fact.contract = "PositionManager",
         fact.event = "Transfer", fact.address = fact.contract
  PROVE  RowIsGood("position_events", PositionTransferRow(Decode("PositionManager", "Transfer", log), meta(log)), fact, log)
<1>1. PICK row, args : /\ row = PositionTransferRow(Decode("PositionManager", "Transfer", log), meta(log))
                       /\ args = fact.args
  OBVIOUS
<1>2. Drawn("PositionManager", "Transfer", args) /\ Logged("PositionManager", "Transfer", args, log)
  BY <1>1 DEF Made
<1>3. /\ Matches("PositionManager", "Transfer", log)
      /\ ShowsAll("PositionManager", "Transfer", row, args)
  BY <1>1, <1>2, PositionTransferShown
<1>4. row.meta = meta(log)
  BY <1>1 DEF PositionTransferRow
<1>5. /\ "position_events" = Home["PositionManager"]["Transfer"][1]
      /\ "Transfer" \in Decoded["PositionManager"]
      /\ "kind" \in DOMAIN row => row.kind = Home["PositionManager"]["Transfer"][2]
  BY <1>1 DEF Home, Decoded, PositionTransferRow
<1> QED
  BY <1>1, <1>3, <1>4, <1>5 DEF RowIsGood, GoodRow

LEMMA HookDeploymentGood ==
  ASSUME NEW fact, NEW log, Made(fact, log), fact.contract = "ArrakisHookFactory",
         fact.event = "LogCreatePrivateHook", fact.address = fact.contract
  PROVE  RowIsGood("hook_deployments", HookDeploymentRow(Decode("ArrakisHookFactory", "LogCreatePrivateHook", log), meta(log)), fact, log)
<1>1. PICK row, args : /\ row = HookDeploymentRow(Decode("ArrakisHookFactory", "LogCreatePrivateHook", log), meta(log))
                       /\ args = fact.args
  OBVIOUS
<1>2. /\ Drawn("ArrakisHookFactory", "LogCreatePrivateHook", args)
      /\ Logged("ArrakisHookFactory", "LogCreatePrivateHook", args, log)
  BY <1>1 DEF Made
<1>3. /\ Matches("ArrakisHookFactory", "LogCreatePrivateHook", log)
      /\ ShowsAll("ArrakisHookFactory", "LogCreatePrivateHook", row, args)
  BY <1>1, <1>2, HookDeploymentShown
<1>4. row.meta = meta(log)
  BY <1>1 DEF HookDeploymentRow
<1>5. /\ "hook_deployments" = Home["ArrakisHookFactory"]["LogCreatePrivateHook"][1]
      /\ "LogCreatePrivateHook" \in Decoded["ArrakisHookFactory"]
      /\ "kind" \in DOMAIN row => row.kind = Home["ArrakisHookFactory"]["LogCreatePrivateHook"][2]
  BY <1>1 DEF Home, Decoded, HookDeploymentRow
<1>6. HookOfAddress(row.permissions)
  <2>1. HookDeploymentColumns(row, args)
    BY <1>1, <1>2, HookDeploymentRead
  <2>2. PICK inputs : inputs = ArrakisHookFactory_LogCreatePrivateHook_inputs
    OBVIOUS
  <2>3. inputs[1].type = "address"
    BY <2>2 DEF ArrakisHookFactory_LogCreatePrivateHook_inputs, Indexed, Plain
  <2>4. Fits("address", args[1])
    BY <1>2, <2>2, <2>3, HookDeploymentFits
  <2> QED
    BY <2>1, <2>4, HookRead DEF HookDeploymentColumns
<1> QED
  BY <1>1, <1>3, <1>4, <1>5, <1>6 DEF RowIsGood, GoodRow

-----------------------------------------------------------------------------
(* The inductive invariant.                                                *)

(* Every row is a good row of a log its extractor has walked.              *)
RowInv ==
  \A list \in Lists : \A n \in DOMAIN events[list] :
    \E k \in Walked(Source(list)) :
      k \in DOMAIN emitted /\ GoodRow(list, events[list][n], emitted[k], block[k])

(* A log of a contract's own, of an event with an arm.                     *)
IsDecoded(fact) == fact.address = fact.contract /\ fact.event \in Decoded[fact.contract]

(* Some row carries the provenance of the k-th log.                        *)
HasRow(k) ==
  \E list \in Lists : \E n \in DOMAIN events[list] : events[list][n].meta = meta(block[k])

(* Every log walked that should have a row has one.                        *)
CompleteInv ==
  \A k \in DOMAIN emitted :
    IsDecoded(emitted[k]) /\ k \in Walked(emitted[k].contract) => HasRow(k)

(* A list is no longer than the log of its last row.                       *)
CountInv ==
  \A list \in Lists : \A n \in DOMAIN events[list] :
    n <= events[list][n].meta.log_index + 1

DecoderInv == OrderInv /\ ChainInv /\ RowInv /\ CompleteInv /\ CountInv

LEMMA InitDecoder == Init => DecoderInv
<1> SUFFICES ASSUME Init PROVE DecoderInv
  OBVIOUS
<1>1. OrderInv
  BY InitOrder
<1>2. ChainInv
  BY DecoderAssumption DEF Init, ChainInv
<1>3. RowInv /\ CompleteInv /\ CountInv
  BY DEF Init, RowInv, CompleteInv, CountInv
<1> QED
  BY <1>1, <1>2, <1>3 DEF DecoderInv

LEMMA ChainDecoder == ASSUME DecoderInv, Chain PROVE DecoderInv'
<1>1. PICK fact, log : /\ Made(fact, log)
                       /\ emitted' = Append(emitted, fact) /\ block' = Append(block, log)
                       /\ Len(block) < MaxLogs
  <2>1. PICK contract \in Contracts, s \in Samples, newTx \in {0, 1} :
          \E event \in DOMAIN Declared[contract] :
            \/ Emit(contract, event, contract, s, newTx)
            \/ s = 2 /\ Emit(contract, event, Foreign, s, newTx)
    BY DEF Chain
  <2>2. PICK event \in DOMAIN Declared[contract], address \in {contract, Foreign} :
          Emit(contract, event, address, s, newTx)
    BY <2>1
  <2> QED
    BY <2>2, EmitMakes
<1>2. stage = "chain" /\ UNCHANGED <<stage, cursor, events>>
  BY DEF Chain, Emit
<1>3. /\ emitted \in Seq({emitted[k] : k \in DOMAIN emitted})
      /\ block \in Seq({block[k] : k \in DOMAIN block})
      /\ Len(emitted) = Len(block)
  BY DEF DecoderInv, ChainInv, OrderInv, Numbered
<1>4. /\ emitted' \in Seq({emitted'[i] : i \in DOMAIN emitted'})
      /\ Len(emitted) \in Nat /\ DOMAIN emitted = 1 .. Len(emitted)
      /\ DOMAIN emitted' = 1 .. Len(emitted) + 1 /\ Len(emitted') = Len(emitted) + 1
      /\ emitted'[Len(emitted) + 1] = fact
      /\ \A i \in 1 .. Len(emitted) : emitted'[i] = emitted[i]
  <2> DEFINE old == emitted
             new == emitted'
  <2>1. new = Append(old, fact) /\ old \in Seq({old[i] : i \in DOMAIN old})
    BY <1>1, <1>3
  <2> HIDE DEF old, new
  <2>2. /\ new \in Seq({new[i] : i \in DOMAIN new})
        /\ Len(old) \in Nat /\ DOMAIN old = 1 .. Len(old)
        /\ DOMAIN new = 1 .. Len(old) + 1 /\ Len(new) = Len(old) + 1
        /\ new[Len(old) + 1] = fact
        /\ \A i \in 1 .. Len(old) : new[i] = old[i]
    BY <2>1, SequenceStep
  <2> QED
    BY <2>2 DEF old, new
<1>5. /\ Len(block) \in Nat /\ Len(block') = Len(block) + 1
      /\ block'[Len(block) + 1] = log
      /\ \A i \in 1 .. Len(block) : block'[i] = block[i]
  BY <1>1, <1>3, SequenceStep
<1>6. \A k \in DOMAIN emitted' : Made(emitted'[k], block'[k])
  <2> TAKE k \in DOMAIN emitted'
  <2>1. CASE k = Len(emitted) + 1
    BY <1>1, <1>3, <1>4, <1>5, <2>1
  <2>2. CASE k \in 1 .. Len(emitted)
    <3>1. Made(emitted[k], block[k])
      BY <1>4, <2>2 DEF DecoderInv, ChainInv
    <3> QED
      BY <1>3, <1>4, <1>5, <2>2, <3>1
  <2> QED
    BY <1>4, <2>1, <2>2
<1>7. ChainInv'
  <2>1. Len(block') <= MaxLogs
    BY <1>1, <1>5, DecoderAssumption
  <2>2. cursor' <= Len(block') + 1 /\ cursor' = 1
    BY <1>2, <1>5 DEF DecoderInv, ChainInv
  <2> QED
    BY <1>3, <1>4, <1>5, <1>6, <2>1, <2>2 DEF ChainInv
<1>8. OrderInv'
  BY ChainOrder DEF DecoderInv
<1>9. \A contract \in Contracts : Walked(contract) = {} /\ Walked(contract)' = {}
  BY <1>2 DEF Walked, Contracts, Declared
<1>10. \A list \in Lists : Source(list) \in Contracts
  BY DEF Source, Contracts, Declared
<1>11. RowInv' /\ CountInv'
  BY <1>2, <1>9, <1>10 DEF DecoderInv, RowInv, CountInv
<1>12. CompleteInv'
  BY <1>6, <1>9 DEF CompleteInv, Made
<1> QED
  BY <1>7, <1>8, <1>11, <1>12 DEF DecoderInv

LEMMA BeginDecoder == ASSUME DecoderInv, BeginExtract PROVE DecoderInv'
<1>1. /\ stage \in {"chain", "PoolManager", "PositionManager", "ArrakisHookFactory"}
      /\ stage' = NextStage /\ cursor' = 1
      /\ UNCHANGED <<emitted, block, events>>
      /\ stage # "chain" => cursor > Len(block)
  BY DEF BeginExtract, Contracts, Declared
<1>2. stage' = CASE stage = "chain" -> "PoolManager"
                 [] stage = "PoolManager" -> "PositionManager"
                 [] stage = "PositionManager" -> "ArrakisHookFactory"
                 [] OTHER -> "done"
  BY <1>1, NextStages
<1>3. OrderInv'
  BY BeginOrder DEF DecoderInv
<1>4. /\ Len(block) \in Nat /\ DOMAIN block = 1 .. Len(block) /\ cursor \in Nat
      /\ DOMAIN emitted = DOMAIN block
  BY DEF DecoderInv, ChainInv, OrderInv, Numbered, Typed
<1>5. ChainInv'
  <2>1. stage' # "chain" /\ 1 <= Len(block) + 1
    BY <1>1, <1>2, <1>4
  <2> QED
    BY <1>1, <2>1 DEF DecoderInv, ChainInv
<1>6. \A contract \in Contracts : Walked(contract)' = Walked(contract)
  <2>1. ASSUME NEW k \in DOMAIN block
        PROVE  /\ ~(k < 1)
               /\ stage # "chain" => k < cursor
    BY <1>1, <1>4
  <2> QED
    BY <1>1, <1>2, <2>1 DEF Walked, Contracts, Declared
<1>7. \A list \in Lists : Source(list) \in Contracts
  BY DEF Source, Contracts, Declared
<1>8. RowInv' /\ CountInv'
  BY <1>1, <1>6, <1>7 DEF DecoderInv, RowInv, CountInv
<1>9. CompleteInv'
  BY <1>1, <1>6 DEF DecoderInv, ChainInv, Made, CompleteInv, HasRow
<1> QED
  BY <1>3, <1>5, <1>8, <1>9 DEF DecoderInv

(* A log that should have a row matches its arm.                           *)
LEMMA DecodedMatches ==
  ASSUME NEW fact, NEW log, Made(fact, log), IsDecoded(fact)
  PROVE  Matches(fact.contract, fact.event, log)
<1>1. CASE fact.contract = "PoolManager"
  <2>1. fact.event \in {"Swap", "ModifyLiquidity", "Initialize", "Transfer", "Donate", "Approval",
                        "OperatorSet", "ProtocolFeeUpdated", "ProtocolFeeControllerUpdated"}
    BY <1>1 DEF IsDecoded, Decoded
  <2> QED
    BY <1>1, <2>1, SwapGood, ModifyLiquidityGood, PoolGood, TransferGood, DonateGood,
       ApprovalGood, OperatorSetGood, FeeUpdatedGood, ControllerUpdatedGood
       DEF IsDecoded, RowIsGood
<1>2. CASE fact.contract = "PositionManager"
  <2>1. fact.event \in {"Subscription", "Unsubscription", "Transfer"}
    BY <1>2 DEF IsDecoded, Decoded
  <2> QED
    BY <1>2, <2>1, SubscribeGood, UnsubscribeGood, PositionTransferGood
       DEF IsDecoded, RowIsGood
<1>3. CASE fact.contract = "ArrakisHookFactory"
  <2>1. fact.event = "LogCreatePrivateHook"
    BY <1>3 DEF IsDecoded, Decoded
  <2> QED
    BY <1>3, <2>1, HookDeploymentGood DEF IsDecoded, RowIsGood
<1> QED
  BY <1>1, <1>2, <1>3 DEF Made, Contracts, Declared

(* What a walk past the log at the cursor leaves to show.                  *)
LEMMA WalkOn ==
  ASSUME DecoderInv, stage \in Contracts, cursor <= Len(block), Advance
  PROVE  /\ cursor \in DOMAIN emitted /\ cursor \in DOMAIN block
         /\ DOMAIN emitted = DOMAIN block
         /\ ChainInv'
         /\ \A contract \in Contracts :
              /\ Walked(contract) \subseteq Walked(contract)'
              /\ Walked(contract)' \subseteq Walked(contract) \cup {cursor}
              /\ cursor \in Walked(contract)' \ Walked(contract) => contract = stage
         /\ cursor \in Walked(stage)' /\ cursor \notin Walked(stage)
<1>1. /\ cursor' = cursor + 1 /\ UNCHANGED <<emitted, block, stage>>
      /\ Len(block) \in Nat /\ DOMAIN block = 1 .. Len(block) /\ cursor \in Nat \ {0}
      /\ DOMAIN emitted = DOMAIN block
      /\ stage \in {"PoolManager", "PositionManager", "ArrakisHookFactory"}
  BY DEF DecoderInv, ChainInv, OrderInv, Numbered, Typed, Advance, Contracts, Declared
<1>2. cursor \in DOMAIN emitted /\ cursor \in DOMAIN block
  BY <1>1
<1>3. ChainInv'
  BY <1>1 DEF DecoderInv, ChainInv
<1>4. \A k \in DOMAIN block : (k < cursor => k < cursor + 1) /\ (k < cursor + 1 => k < cursor \/ k = cursor)
  BY <1>1
<1>5. cursor < cursor + 1 /\ ~(cursor < cursor)
  BY <1>1
<1>6. \A contract \in Contracts :
        /\ Walked(contract) \subseteq Walked(contract)'
        /\ Walked(contract)' \subseteq Walked(contract) \cup {cursor}
  BY <1>1, <1>4 DEF Walked
<1>7. \A contract \in Contracts : cursor \in Walked(contract)' \ Walked(contract) => contract = stage
  BY <1>1, <1>2, <1>5 DEF Walked
<1>8. cursor \in Walked(stage)' /\ cursor \notin Walked(stage)
  BY <1>1, <1>2, <1>5 DEF Walked
<1> QED
  BY <1>1, <1>2, <1>3, <1>6, <1>7, <1>8

LEMMA SkipDecoder == ASSUME DecoderInv, Skip PROVE DecoderInv'
<1>1. /\ stage \in Contracts /\ cursor <= Len(block) /\ Advance
      /\ UNCHANGED <<emitted, block, stage, events>>
  BY DEF Skip, Advance
<1>2. /\ cursor \in DOMAIN emitted /\ cursor \in DOMAIN block
      /\ ChainInv'
      /\ \A contract \in Contracts :
           /\ Walked(contract) \subseteq Walked(contract)'
           /\ Walked(contract)' \subseteq Walked(contract) \cup {cursor}
           /\ cursor \in Walked(contract)' \ Walked(contract) => contract = stage
  BY <1>1, WalkOn
<1>3. OrderInv'
  BY SkipOrder DEF DecoderInv
<1>4. \A list \in Lists : Source(list) \in Contracts
  BY DEF Source, Contracts, Declared
<1>5. RowInv'
  BY <1>1, <1>2, <1>4 DEF DecoderInv, RowInv
<1>6. CountInv'
  BY <1>1 DEF DecoderInv, CountInv
<1>7. Made(emitted[cursor], block[cursor])
  BY <1>2 DEF DecoderInv, ChainInv
<1>8. ~(IsDecoded(emitted[cursor]) /\ emitted[cursor].contract = stage)
  <2> SUFFICES ASSUME IsDecoded(emitted[cursor]), emitted[cursor].contract = stage
               PROVE  FALSE
    OBVIOUS
  <2>1. Matches(stage, emitted[cursor].event, block[cursor])
    BY <1>7, DecodedMatches
  <2>2. block[cursor].address = stage /\ emitted[cursor].event \in Decoded[stage]
    BY <1>7 DEF Made, IsDecoded
  <2> QED
    BY <2>1, <2>2 DEF Skip, Log
<1>9. CompleteInv'
  <2> SUFFICES ASSUME NEW k \in DOMAIN emitted, IsDecoded(emitted[k]),
                      NEW contract \in Contracts, contract = emitted[k].contract,
                      k \in Walked(contract)'
               PROVE  HasRow(k)
    BY <1>1 DEF DecoderInv, ChainInv, Made, CompleteInv, HasRow
  <2>1. CASE k \in Walked(contract)
    BY <2>1 DEF DecoderInv, CompleteInv
  <2>2. CASE k \notin Walked(contract)
    <3>1. k = cursor /\ contract = stage
      BY <1>2, <2>2
    <3> QED
      BY <1>8, <3>1
  <2> QED
    BY <2>1, <2>2
<1> QED
  BY <1>2, <1>3, <1>5, <1>6, <1>9 DEF DecoderInv

LEMMA PushDecoder ==
  ASSUME DecoderInv, NEW list \in Lists, Ours(Source(list)), Advance, NEW row, Push(list, row),
         GoodRow(list, row, emitted[cursor], block[cursor])
  PROVE  DecoderInv'
<1>1. /\ stage = Source(list) /\ stage \in Contracts /\ cursor <= Len(block)
      /\ row.meta = Meta /\ row.meta = meta(block[cursor])
      /\ UNCHANGED <<emitted, block, stage>>
      /\ events' = [events EXCEPT ![list] = Append(events[list], row)]
  BY DEF Ours, Advance, Push, GoodRow, Meta, Log, Source, Contracts, Declared
<1>2. OrderInv'
  BY <1>1, PushOrder DEF DecoderInv
<1>3. /\ cursor \in DOMAIN emitted /\ cursor \in DOMAIN block
      /\ DOMAIN emitted = DOMAIN block
      /\ ChainInv'
      /\ \A contract \in Contracts :
           /\ Walked(contract) \subseteq Walked(contract)'
           /\ Walked(contract)' \subseteq Walked(contract) \cup {cursor}
           /\ cursor \in Walked(contract)' \ Walked(contract) => contract = stage
      /\ cursor \in Walked(stage)'
  BY <1>1, WalkOn
<1>4. DOMAIN events = Lists /\ events[list] \in Seq({events[list][n] : n \in DOMAIN events[list]})
  BY DEF DecoderInv, OrderInv, Typed
<1>5. \A l \in Lists : l # list => events'[l] = events[l]
  BY <1>1, <1>4
<1>6. /\ Len(events[list]) \in Nat /\ DOMAIN events[list] = 1 .. Len(events[list])
      /\ DOMAIN events'[list] = 1 .. Len(events[list]) + 1
      /\ Len(events'[list]) = Len(events[list]) + 1
      /\ events'[list][Len(events[list]) + 1] = row
      /\ \A n \in 1 .. Len(events[list]) : events'[list][n] = events[list][n]
  <2> DEFINE old == events[list]
             new == events'[list]
  <2>1. new = Append(old, row) /\ old \in Seq({old[n] : n \in DOMAIN old})
    BY <1>1, <1>4
  <2> HIDE DEF old, new
  <2>2. /\ Len(old) \in Nat /\ DOMAIN old = 1 .. Len(old)
        /\ DOMAIN new = 1 .. Len(old) + 1 /\ Len(new) = Len(old) + 1
        /\ new[Len(old) + 1] = row
        /\ \A n \in 1 .. Len(old) : new[n] = old[n]
    BY <2>1, SequenceStep
  <2> QED
    BY <2>2 DEF old, new
<1>7. \A l \in Lists : Source(l) \in Contracts
  BY DEF Source, Contracts, Declared

<1>8. RowInv'
  <2>1. \A l \in Lists : \A n \in DOMAIN events[l] : \E k \in Walked(Source(l))' :
          k \in DOMAIN emitted /\ GoodRow(l, events[l][n], emitted[k], block[k])
    BY <1>3, <1>7 DEF DecoderInv, RowInv
  <2>2. \A n \in DOMAIN events'[list] : \E k \in Walked(Source(list))' :
          k \in DOMAIN emitted /\ GoodRow(list, events'[list][n], emitted[k], block[k])
    <3> TAKE n \in DOMAIN events'[list]
    <3>1. CASE n = Len(events[list]) + 1
      <4>1. events'[list][n] = row
        BY <1>6, <3>1
      <4> QED
        BY <1>1, <1>3, <4>1
    <3>2. CASE n \in 1 .. Len(events[list])
      <4>1. events'[list][n] = events[list][n] /\ n \in DOMAIN events[list]
        BY <1>6, <3>2
      <4> QED
        BY <2>1, <4>1
    <3> QED
      BY <1>6, <3>1, <3>2
  <2>3. \A l \in Lists : \A n \in DOMAIN events'[l] : \E k \in Walked(Source(l))' :
          k \in DOMAIN emitted /\ GoodRow(l, events'[l][n], emitted[k], block[k])
    <3> TAKE l \in Lists
    <3>1. CASE l = list
      BY <2>2, <3>1
    <3>2. CASE l # list
      BY <1>5, <2>1, <3>2
    <3> QED
      BY <3>1, <3>2
  <2>4. emitted' = emitted /\ block' = block
    BY <1>1
  <2> QED
    BY <2>3, <2>4 DEF RowInv, Source

<1>9. \A l \in Lists : \A n \in DOMAIN events[l] :
        n \in DOMAIN events'[l] /\ events'[l][n] = events[l][n]
  <2> TAKE l \in Lists
  <2>1. CASE l = list
    <3>1. \A n \in 1 .. Len(events[list]) : n \in 1 .. Len(events[list]) + 1
      BY <1>6
    <3> QED
      BY <1>6, <2>1, <3>1
  <2>2. CASE l # list
    BY <1>5, <2>2
  <2> QED
    BY <2>1, <2>2
<1>10. CompleteInv'
  <2> SUFFICES ASSUME NEW k \in DOMAIN emitted, IsDecoded(emitted[k]),
                      NEW contract \in Contracts, contract = emitted[k].contract,
                      k \in Walked(contract)'
               PROVE  \E l \in Lists : \E n \in DOMAIN events'[l] :
                        events'[l][n].meta = meta(block[k])
    BY <1>1 DEF DecoderInv, ChainInv, Made, CompleteInv, HasRow
  <2>1. CASE k \in Walked(contract)
    <3>1. PICK l \in Lists : \E n \in DOMAIN events[l] : events[l][n].meta = meta(block[k])
      BY <2>1 DEF DecoderInv, CompleteInv, HasRow
    <3>2. PICK n \in DOMAIN events[l] : events[l][n].meta = meta(block[k])
      BY <3>1
    <3> QED
      BY <1>9, <3>2
  <2>2. CASE k \notin Walked(contract)
    <3>1. k = cursor
      BY <1>3, <2>2
    <3>2. PICK n : n = Len(events[list]) + 1
      OBVIOUS
    <3>3. n \in DOMAIN events'[list] /\ events'[list][n] = row
      BY <1>6, <3>2
    <3> QED
      BY <1>1, <3>1, <3>3
  <2> QED
    BY <2>1, <2>2

<1>11. \A n \in DOMAIN events'[list] : n <= events'[list][n].meta.log_index + 1
  <2> TAKE n \in DOMAIN events'[list]
  <2>1. CASE n \in 1 .. Len(events[list])
    <3>1. events'[list][n] = events[list][n] /\ n \in DOMAIN events[list]
      BY <1>6, <2>1
    <3> QED
      BY <3>1 DEF DecoderInv, CountInv
  <2>2. CASE n = Len(events[list]) + 1
    <3>1. events'[list][n] = row /\ row.meta.log_index = cursor - 1 /\ cursor \in Nat \ {0}
      <4>1. block[cursor].block_index = cursor - 1 /\ cursor \in Nat \ {0}
        BY <1>3 DEF DecoderInv, OrderInv, Numbered, Typed
      <4> QED
        BY <1>1, <1>6, <2>2, <4>1 DEF meta
    <3>2. CASE Len(events[list]) = 0
      BY <2>2, <3>1, <3>2
    <3>3. CASE Len(events[list]) # 0
      <4>1. PICK p : p = Len(events[list])
        OBVIOUS
      <4>2. p \in DOMAIN events[list] /\ p = n - 1 /\ n \in 2 .. Len(events'[list])
        BY <1>6, <2>2, <3>3, <4>1
      <4>3. events'[list][n - 1].meta.log_index < events'[list][n].meta.log_index
        BY <1>2, <4>2 DEF OrderInv, RowsInLogOrder
      <4>4. events'[list][n - 1] = events[list][p]
        BY <1>6, <4>2
      <4>5. p <= events[list][p].meta.log_index + 1
        BY <4>2 DEF DecoderInv, CountInv
      <4>6. events[list][p].meta.log_index \in Int
        <5>1. PICK k \in Walked(Source(list)) : events[list][p].meta = meta(block[k])
          BY <4>2 DEF DecoderInv, RowInv, GoodRow
        <5>2. k \in DOMAIN block
          BY <5>1 DEF Walked
        <5>3. block[k].block_index = k - 1 /\ k \in Int
          BY <5>2 DEF DecoderInv, OrderInv, Numbered
        <5> QED
          BY <5>1, <5>3 DEF meta
      <4>7. PICK x, y : x = events[list][p].meta.log_index /\ y = events'[list][n].meta.log_index
        OBVIOUS
      <4>8. x \in Int /\ y \in Int /\ p <= x + 1 /\ x < y /\ p \in Int /\ n = p + 1
        BY <1>6, <2>2, <3>1, <4>1, <4>3, <4>4, <4>5, <4>6, <4>7
      <4>9. n <= y + 1
        BY <4>8
      <4> QED
        BY <4>7, <4>9
    <3> QED
      BY <3>2, <3>3
  <2> QED
    BY <1>6, <2>1, <2>2
<1>12. CountInv'
  <2>1. \A l \in Lists : \A n \in DOMAIN events'[l] : n <= events'[l][n].meta.log_index + 1
    <3> TAKE l \in Lists
    <3>1. CASE l = list
      BY <1>11, <3>1
    <3>2. CASE l # list
      <4>1. events'[l] = events[l]
        BY <1>5, <3>2
      <4> QED
        BY <4>1 DEF DecoderInv, CountInv
    <3> QED
      BY <3>1, <3>2
  <2> QED
    BY <2>1 DEF CountInv
<1> QED
  BY <1>2, <1>3, <1>8, <1>10, <1>12 DEF DecoderInv

(* The log an arm takes is one its contract made of the arm's event.       *)
LEMMA ArmFact ==
  ASSUME DecoderInv, NEW contract \in Contracts, NEW event, Arm(contract, event)
  PROVE  /\ stage = contract /\ Ours(contract) /\ Advance
         /\ Made(emitted[cursor], block[cursor])
         /\ emitted[cursor].contract = contract /\ emitted[cursor].event = event
         /\ emitted[cursor].address = contract
<1>1. /\ stage = contract /\ Ours(contract) /\ cursor <= Len(block) /\ Advance
      /\ block[cursor].address = contract
      /\ block[cursor].topics[1] = <<contract, event>>
  BY DEF Arm, Ours, Matches, Log
<1>2. Made(emitted[cursor], block[cursor])
  <2>1. cursor \in DOMAIN emitted
    BY <1>1, WalkOn
  <2> QED
    BY <2>1 DEF DecoderInv, ChainInv
<1>3. <<emitted[cursor].contract, emitted[cursor].event>> = <<contract, event>>
  BY <1>1, <1>2, Signature
<1>4. emitted[cursor].address = contract
  BY <1>1, <1>2 DEF Made
<1> QED
  BY <1>1, <1>2, <1>3, <1>4

LEMMA PoolManagerDecoder == ASSUME DecoderInv, ExtractPoolManager PROVE DecoderInv'
<1>1. "PoolManager" \in Contracts
  BY DEF Contracts, Declared
<1>2. CASE Arm("PoolManager", "Swap") /\ Push("swaps", SwapRow(Ev("Swap"), Meta))
  <2>1. PICK fact, log, row : /\ fact = emitted[cursor] /\ log = block[cursor]
                              /\ row = SwapRow(Decode("PoolManager", "Swap", log), meta(log))
    OBVIOUS
  <2>2. /\ stage = "PoolManager" /\ Ours("PoolManager") /\ Advance /\ Made(fact, log)
        /\ fact.contract = "PoolManager" /\ fact.event = "Swap"
        /\ fact.address = fact.contract
    BY <1>1, <1>2, <2>1, ArmFact
  <2>3. Push("swaps", row)
    BY <1>2, <2>1, <2>2 DEF Ev, Meta, Log
  <2>4. GoodRow("swaps", row, fact, log)
    BY <2>1, <2>2, SwapGood DEF RowIsGood
  <2>5. "swaps" \in Lists /\ Source("swaps") = "PoolManager"
    BY DEF Lists, Source
  <2> QED
    BY <2>1, <2>2, <2>3, <2>4, <2>5, PushDecoder
<1>3. CASE /\ Arm("PoolManager", "ModifyLiquidity")
           /\ Push("modify_liquidity", ModifyLiquidityRow(Ev("ModifyLiquidity"), Meta))
  <2>1. PICK fact, log, row : /\ fact = emitted[cursor] /\ log = block[cursor]
                              /\ row = ModifyLiquidityRow(Decode("PoolManager", "ModifyLiquidity", log), meta(log))
    OBVIOUS
  <2>2. /\ stage = "PoolManager" /\ Ours("PoolManager") /\ Advance /\ Made(fact, log)
        /\ fact.contract = "PoolManager" /\ fact.event = "ModifyLiquidity"
        /\ fact.address = fact.contract
    BY <1>1, <1>3, <2>1, ArmFact
  <2>3. Push("modify_liquidity", row)
    BY <1>3, <2>1, <2>2 DEF Ev, Meta, Log
  <2>4. GoodRow("modify_liquidity", row, fact, log)
    BY <2>1, <2>2, ModifyLiquidityGood DEF RowIsGood
  <2>5. "modify_liquidity" \in Lists /\ Source("modify_liquidity") = "PoolManager"
    BY DEF Lists, Source
  <2> QED
    BY <2>1, <2>2, <2>3, <2>4, <2>5, PushDecoder
<1>4. CASE Arm("PoolManager", "Initialize") /\ Push("pools", PoolRow(Ev("Initialize"), Meta))
  <2>1. PICK fact, log, row : /\ fact = emitted[cursor] /\ log = block[cursor]
                              /\ row = PoolRow(Decode("PoolManager", "Initialize", log), meta(log))
    OBVIOUS
  <2>2. /\ stage = "PoolManager" /\ Ours("PoolManager") /\ Advance /\ Made(fact, log)
        /\ fact.contract = "PoolManager" /\ fact.event = "Initialize"
        /\ fact.address = fact.contract
    BY <1>1, <1>4, <2>1, ArmFact
  <2>3. Push("pools", row)
    BY <1>4, <2>1, <2>2 DEF Ev, Meta, Log
  <2>4. GoodRow("pools", row, fact, log)
    BY <2>1, <2>2, PoolGood DEF RowIsGood
  <2>5. "pools" \in Lists /\ Source("pools") = "PoolManager"
    BY DEF Lists, Source
  <2> QED
    BY <2>1, <2>2, <2>3, <2>4, <2>5, PushDecoder
<1>5. CASE /\ Arm("PoolManager", "Transfer")
           /\ Push("claim_token_events", TransferRow(Ev("Transfer"), Meta))
  <2>1. PICK fact, log, row : /\ fact = emitted[cursor] /\ log = block[cursor]
                              /\ row = TransferRow(Decode("PoolManager", "Transfer", log), meta(log))
    OBVIOUS
  <2>2. /\ stage = "PoolManager" /\ Ours("PoolManager") /\ Advance /\ Made(fact, log)
        /\ fact.contract = "PoolManager" /\ fact.event = "Transfer"
        /\ fact.address = fact.contract
    BY <1>1, <1>5, <2>1, ArmFact
  <2>3. Push("claim_token_events", row)
    BY <1>5, <2>1, <2>2 DEF Ev, Meta, Log
  <2>4. GoodRow("claim_token_events", row, fact, log)
    BY <2>1, <2>2, TransferGood DEF RowIsGood
  <2>5. "claim_token_events" \in Lists /\ Source("claim_token_events") = "PoolManager"
    BY DEF Lists, Source
  <2> QED
    BY <2>1, <2>2, <2>3, <2>4, <2>5, PushDecoder
<1>6. CASE Arm("PoolManager", "Donate") /\ Push("donates", DonateRow(Ev("Donate"), Meta))
  <2>1. PICK fact, log, row : /\ fact = emitted[cursor] /\ log = block[cursor]
                              /\ row = DonateRow(Decode("PoolManager", "Donate", log), meta(log))
    OBVIOUS
  <2>2. /\ stage = "PoolManager" /\ Ours("PoolManager") /\ Advance /\ Made(fact, log)
        /\ fact.contract = "PoolManager" /\ fact.event = "Donate"
        /\ fact.address = fact.contract
    BY <1>1, <1>6, <2>1, ArmFact
  <2>3. Push("donates", row)
    BY <1>6, <2>1, <2>2 DEF Ev, Meta, Log
  <2>4. GoodRow("donates", row, fact, log)
    BY <2>1, <2>2, DonateGood DEF RowIsGood
  <2>5. "donates" \in Lists /\ Source("donates") = "PoolManager"
    BY DEF Lists, Source
  <2> QED
    BY <2>1, <2>2, <2>3, <2>4, <2>5, PushDecoder
<1>7. CASE /\ Arm("PoolManager", "Approval")
           /\ Push("claim_token_events", ApprovalRow(Ev("Approval"), Meta))
  <2>1. PICK fact, log, row : /\ fact = emitted[cursor] /\ log = block[cursor]
                              /\ row = ApprovalRow(Decode("PoolManager", "Approval", log), meta(log))
    OBVIOUS
  <2>2. /\ stage = "PoolManager" /\ Ours("PoolManager") /\ Advance /\ Made(fact, log)
        /\ fact.contract = "PoolManager" /\ fact.event = "Approval"
        /\ fact.address = fact.contract
    BY <1>1, <1>7, <2>1, ArmFact
  <2>3. Push("claim_token_events", row)
    BY <1>7, <2>1, <2>2 DEF Ev, Meta, Log
  <2>4. GoodRow("claim_token_events", row, fact, log)
    BY <2>1, <2>2, ApprovalGood DEF RowIsGood
  <2>5. "claim_token_events" \in Lists /\ Source("claim_token_events") = "PoolManager"
    BY DEF Lists, Source
  <2> QED
    BY <2>1, <2>2, <2>3, <2>4, <2>5, PushDecoder
<1>8. CASE /\ Arm("PoolManager", "OperatorSet")
           /\ Push("claim_token_events", OperatorSetRow(Ev("OperatorSet"), Meta))
  <2>1. PICK fact, log, row : /\ fact = emitted[cursor] /\ log = block[cursor]
                              /\ row = OperatorSetRow(Decode("PoolManager", "OperatorSet", log), meta(log))
    OBVIOUS
  <2>2. /\ stage = "PoolManager" /\ Ours("PoolManager") /\ Advance /\ Made(fact, log)
        /\ fact.contract = "PoolManager" /\ fact.event = "OperatorSet"
        /\ fact.address = fact.contract
    BY <1>1, <1>8, <2>1, ArmFact
  <2>3. Push("claim_token_events", row)
    BY <1>8, <2>1, <2>2 DEF Ev, Meta, Log
  <2>4. GoodRow("claim_token_events", row, fact, log)
    BY <2>1, <2>2, OperatorSetGood DEF RowIsGood
  <2>5. "claim_token_events" \in Lists /\ Source("claim_token_events") = "PoolManager"
    BY DEF Lists, Source
  <2> QED
    BY <2>1, <2>2, <2>3, <2>4, <2>5, PushDecoder
<1>9. CASE /\ Arm("PoolManager", "ProtocolFeeUpdated")
           /\ Push("protocol_fee_events", FeeUpdatedRow(Ev("ProtocolFeeUpdated"), Meta))
  <2>1. PICK fact, log, row : /\ fact = emitted[cursor] /\ log = block[cursor]
                              /\ row = FeeUpdatedRow(Decode("PoolManager", "ProtocolFeeUpdated", log), meta(log))
    OBVIOUS
  <2>2. /\ stage = "PoolManager" /\ Ours("PoolManager") /\ Advance /\ Made(fact, log)
        /\ fact.contract = "PoolManager" /\ fact.event = "ProtocolFeeUpdated"
        /\ fact.address = fact.contract
    BY <1>1, <1>9, <2>1, ArmFact
  <2>3. Push("protocol_fee_events", row)
    BY <1>9, <2>1, <2>2 DEF Ev, Meta, Log
  <2>4. GoodRow("protocol_fee_events", row, fact, log)
    BY <2>1, <2>2, FeeUpdatedGood DEF RowIsGood
  <2>5. "protocol_fee_events" \in Lists /\ Source("protocol_fee_events") = "PoolManager"
    BY DEF Lists, Source
  <2> QED
    BY <2>1, <2>2, <2>3, <2>4, <2>5, PushDecoder
<1>10. CASE /\ Arm("PoolManager", "ProtocolFeeControllerUpdated")
           /\ Push("protocol_fee_events", ControllerUpdatedRow(Ev("ProtocolFeeControllerUpdated"), Meta))
  <2>1. PICK fact, log, row : /\ fact = emitted[cursor] /\ log = block[cursor]
                              /\ row = ControllerUpdatedRow(Decode("PoolManager", "ProtocolFeeControllerUpdated", log), meta(log))
    OBVIOUS
  <2>2. /\ stage = "PoolManager" /\ Ours("PoolManager") /\ Advance /\ Made(fact, log)
        /\ fact.contract = "PoolManager" /\ fact.event = "ProtocolFeeControllerUpdated"
        /\ fact.address = fact.contract
    BY <1>1, <1>10, <2>1, ArmFact
  <2>3. Push("protocol_fee_events", row)
    BY <1>10, <2>1, <2>2 DEF Ev, Meta, Log
  <2>4. GoodRow("protocol_fee_events", row, fact, log)
    BY <2>1, <2>2, ControllerUpdatedGood DEF RowIsGood
  <2>5. "protocol_fee_events" \in Lists /\ Source("protocol_fee_events") = "PoolManager"
    BY DEF Lists, Source
  <2> QED
    BY <2>1, <2>2, <2>3, <2>4, <2>5, PushDecoder
<1> QED
  BY <1>2, <1>3, <1>4, <1>5, <1>6, <1>7, <1>8, <1>9, <1>10 DEF ExtractPoolManager

LEMMA PositionManagerDecoder == ASSUME DecoderInv, ExtractPositionManager PROVE DecoderInv'
<1>1. "PositionManager" \in Contracts
  BY DEF Contracts, Declared
<1>2. CASE /\ Arm("PositionManager", "Subscription")
           /\ Push("position_events", SubscribeRow(Ev("Subscription"), Meta))
  <2>1. PICK fact, log, row : /\ fact = emitted[cursor] /\ log = block[cursor]
                              /\ row = SubscribeRow(Decode("PositionManager", "Subscription", log), meta(log))
    OBVIOUS
  <2>2. /\ stage = "PositionManager" /\ Ours("PositionManager") /\ Advance /\ Made(fact, log)
        /\ fact.contract = "PositionManager" /\ fact.event = "Subscription"
        /\ fact.address = fact.contract
    BY <1>1, <1>2, <2>1, ArmFact
  <2>3. Push("position_events", row)
    BY <1>2, <2>1, <2>2 DEF Ev, Meta, Log
  <2>4. GoodRow("position_events", row, fact, log)
    BY <2>1, <2>2, SubscribeGood DEF RowIsGood
  <2>5. "position_events" \in Lists /\ Source("position_events") = "PositionManager"
    BY DEF Lists, Source
  <2> QED
    BY <2>1, <2>2, <2>3, <2>4, <2>5, PushDecoder
<1>3. CASE /\ Arm("PositionManager", "Unsubscription")
           /\ Push("position_events", UnsubscribeRow(Ev("Unsubscription"), Meta))
  <2>1. PICK fact, log, row : /\ fact = emitted[cursor] /\ log = block[cursor]
                              /\ row = UnsubscribeRow(Decode("PositionManager", "Unsubscription", log), meta(log))
    OBVIOUS
  <2>2. /\ stage = "PositionManager" /\ Ours("PositionManager") /\ Advance /\ Made(fact, log)
        /\ fact.contract = "PositionManager" /\ fact.event = "Unsubscription"
        /\ fact.address = fact.contract
    BY <1>1, <1>3, <2>1, ArmFact
  <2>3. Push("position_events", row)
    BY <1>3, <2>1, <2>2 DEF Ev, Meta, Log
  <2>4. GoodRow("position_events", row, fact, log)
    BY <2>1, <2>2, UnsubscribeGood DEF RowIsGood
  <2>5. "position_events" \in Lists /\ Source("position_events") = "PositionManager"
    BY DEF Lists, Source
  <2> QED
    BY <2>1, <2>2, <2>3, <2>4, <2>5, PushDecoder
<1>4. CASE /\ Arm("PositionManager", "Transfer")
           /\ Push("position_events", PositionTransferRow(Ev("Transfer"), Meta))
  <2>1. PICK fact, log, row : /\ fact = emitted[cursor] /\ log = block[cursor]
                              /\ row = PositionTransferRow(Decode("PositionManager", "Transfer", log), meta(log))
    OBVIOUS
  <2>2. /\ stage = "PositionManager" /\ Ours("PositionManager") /\ Advance /\ Made(fact, log)
        /\ fact.contract = "PositionManager" /\ fact.event = "Transfer"
        /\ fact.address = fact.contract
    BY <1>1, <1>4, <2>1, ArmFact
  <2>3. Push("position_events", row)
    BY <1>4, <2>1, <2>2 DEF Ev, Meta, Log
  <2>4. GoodRow("position_events", row, fact, log)
    BY <2>1, <2>2, PositionTransferGood DEF RowIsGood
  <2>5. "position_events" \in Lists /\ Source("position_events") = "PositionManager"
    BY DEF Lists, Source
  <2> QED
    BY <2>1, <2>2, <2>3, <2>4, <2>5, PushDecoder
<1> QED
  BY <1>2, <1>3, <1>4 DEF ExtractPositionManager

LEMMA ArrakisDecoder == ASSUME DecoderInv, ExtractArrakis PROVE DecoderInv'
<1>1. "ArrakisHookFactory" \in Contracts
  BY DEF Contracts, Declared
<1>2. CASE /\ Arm("ArrakisHookFactory", "LogCreatePrivateHook")
           /\ Push("hook_deployments", HookDeploymentRow(Ev("LogCreatePrivateHook"), Meta))
  <2>1. PICK fact, log, row : /\ fact = emitted[cursor] /\ log = block[cursor]
                              /\ row = HookDeploymentRow(Decode("ArrakisHookFactory", "LogCreatePrivateHook", log), meta(log))
    OBVIOUS
  <2>2. /\ stage = "ArrakisHookFactory" /\ Ours("ArrakisHookFactory") /\ Advance /\ Made(fact, log)
        /\ fact.contract = "ArrakisHookFactory" /\ fact.event = "LogCreatePrivateHook"
        /\ fact.address = fact.contract
    BY <1>1, <1>2, <2>1, ArmFact
  <2>3. Push("hook_deployments", row)
    BY <1>2, <2>1, <2>2 DEF Ev, Meta, Log
  <2>4. GoodRow("hook_deployments", row, fact, log)
    BY <2>1, <2>2, HookDeploymentGood DEF RowIsGood
  <2>5. "hook_deployments" \in Lists /\ Source("hook_deployments") = "ArrakisHookFactory"
    BY DEF Lists, Source
  <2> QED
    BY <2>1, <2>2, <2>3, <2>4, <2>5, PushDecoder
<1> QED
  BY <1>2 DEF ExtractArrakis

LEMMA NextDecoder == DecoderInv /\ [Next]_vars => DecoderInv'
<1> SUFFICES ASSUME DecoderInv, [Next]_vars PROVE DecoderInv'
  OBVIOUS
<1>1. CASE UNCHANGED vars
  <2>1. OrderInv'
    BY <1>1, NextOrder DEF DecoderInv
  <2>2. ChainInv' /\ RowInv' /\ CountInv'
    BY <1>1 DEF vars, DecoderInv, ChainInv, RowInv, CountInv, Walked
  <2>3. CompleteInv'
    BY <1>1 DEF vars, DecoderInv, CompleteInv, HasRow, Walked
  <2> QED
    BY <2>1, <2>2, <2>3 DEF DecoderInv
<1> QED
  BY <1>1, ChainDecoder, BeginDecoder, SkipDecoder, PoolManagerDecoder, PositionManagerDecoder,
     ArrakisDecoder DEF Next

-----------------------------------------------------------------------------
(* What the invariant says of a row.                                       *)

LEMMA RowFacts ==
  ASSUME DecoderInv, NEW list \in Lists, NEW n \in DOMAIN events[list]
  PROVE  \E k \in DOMAIN emitted :
           /\ k \in DOMAIN block /\ k \in Nat
           /\ GoodRow(list, events[list][n], emitted[k], block[k])
           /\ events[list][n].meta = meta(block[k])
           /\ events[list][n].meta.log_index = k - 1
<1>1. PICK k \in Walked(Source(list)) :
        k \in DOMAIN emitted /\ GoodRow(list, events[list][n], emitted[k], block[k])
  BY DEF DecoderInv, RowInv
<1>2. k \in DOMAIN block
  BY <1>1 DEF Walked
<1>3. k \in Nat /\ block[k].block_index = k - 1
  BY <1>2 DEF DecoderInv, OrderInv, Numbered
<1>4. events[list][n].meta = meta(block[k])
  BY <1>1 DEF GoodRow
<1>5. events[list][n].meta.log_index = k - 1
  BY <1>3, <1>4 DEF meta
<1> QED
  BY <1>1, <1>2, <1>3, <1>4, <1>5

LEMMA NoMoreRows ==
  ASSUME DecoderInv, NEW list \in Lists
  PROVE  Len(events[list]) <= Len(block)
<1>1. /\ events[list] \in Seq({events[list][n] : n \in DOMAIN events[list]})
      /\ block \in Seq({block[k] : k \in DOMAIN block})
  BY DEF DecoderInv, OrderInv, Typed, Numbered
<1>2. /\ Len(events[list]) \in Nat /\ DOMAIN events[list] = 1 .. Len(events[list])
      /\ Len(block) \in Nat /\ DOMAIN block = 1 .. Len(block)
  BY <1>1
<1>3. CASE Len(events[list]) = 0
  BY <1>2, <1>3
<1>4. CASE Len(events[list]) # 0
  <2>1. PICK n : n = Len(events[list])
    OBVIOUS
  <2>2. n \in DOMAIN events[list]
    BY <1>2, <1>4, <2>1
  <2>3. PICK k \in DOMAIN emitted :
          k \in DOMAIN block /\ k \in Nat /\ events[list][n].meta.log_index = k - 1
    BY <2>2, RowFacts
  <2>4. n <= events[list][n].meta.log_index + 1
    BY <2>2 DEF DecoderInv, CountInv
  <2>5. n <= (k - 1) + 1 /\ k <= Len(block)
    BY <1>2, <2>3, <2>4
  <2> QED
    BY <1>2, <2>1, <2>3, <2>5
<1> QED
  BY <1>3, <1>4

LEMMA TypeFollows == ASSUME DecoderInv PROVE TypeOK
<1>1. Len(emitted) = Len(block) /\ Len(block) <= MaxLogs
  BY DEF DecoderInv, ChainInv
<1>2. stage \in {Stages[k] : k \in DOMAIN Stages}
  <2>1. {Stages[k] : k \in DOMAIN Stages} =
          {"chain", "PoolManager", "PositionManager", "ArrakisHookFactory", "done"}
    BY DEF Stages
  <2> QED
    BY <2>1 DEF DecoderInv, OrderInv, Typed
<1>3. cursor \in 1..(MaxLogs + 1)
  <2>1. block \in Seq({block[k] : k \in DOMAIN block}) /\ cursor \in Nat \ {0}
        /\ cursor <= Len(block) + 1
    BY DEF DecoderInv, ChainInv, OrderInv, Numbered, Typed
  <2>2. Len(block) \in Nat
    BY <2>1
  <2> QED
    BY <1>1, <2>1, <2>2, DecoderAssumption
<1>4. DOMAIN events = Lists
  BY DEF DecoderInv, OrderInv, Typed
<1>5. \A row \in Rows("claim_token_events") :
        \A column \in DOMAIN row \cap AddressColumns :
          row[column] \in Seq(0..255) /\ Len(row[column]) = 2
  <2> TAKE row \in Rows("claim_token_events")
  <2>1. PICK n \in DOMAIN events["claim_token_events"] : row = events["claim_token_events"][n]
    BY DEF Rows
  <2>2. "claim_token_events" \in Lists
    BY DEF Lists
  <2>3. ClaimRow(row)
    BY <2>1, <2>2, RowFacts DEF GoodRow
  <2> QED
    BY <2>3 DEF ClaimRow, TwoBytesLong
<1> QED
  BY <1>1, <1>2, <1>3, <1>4, <1>5, NoMoreRows DEF TypeOK, AddressColumns

LEMMA HooksFollow == ASSUME DecoderInv PROVE HookBitsAreItsAddress
<1>1. SUFFICES ASSUME NEW h \in Hooks PROVE HookOfAddress(h)
  BY DEF HookBitsAreItsAddress, HookOfAddress
<1>2. "pools" \in Lists /\ "hook_deployments" \in Lists
  BY DEF Lists
<1>3. CASE h \in {row.hook : row \in Rows("pools")}
  <2>1. PICK row \in Rows("pools") : h = row.hook
    BY <1>3
  <2>2. PICK n \in DOMAIN events["pools"] : row = events["pools"][n]
    BY DEF Rows
  <2> QED
    BY <1>2, <2>1, <2>2, RowFacts DEF GoodRow
<1>4. CASE h \in {row.permissions : row \in Rows("hook_deployments")}
  <2>1. PICK row \in Rows("hook_deployments") : h = row.permissions
    BY <1>4
  <2>2. PICK n \in DOMAIN events["hook_deployments"] : row = events["hook_deployments"][n]
    BY DEF Rows
  <2> QED
    BY <1>2, <2>1, <2>2, RowFacts DEF GoodRow
<1> QED
  BY <1>3, <1>4 DEF Hooks

LEMMA CurrenciesFollow == ASSUME DecoderInv PROVE CurrencyIsItsId
<1> SUFFICES ASSUME NEW row \in Rows("claim_token_events"), row.kind # "operator_set"
             PROVE  /\ row.kind = "transfer" => currency_address(row.currency_id) # {}
                    /\ Narrowed(row.currency_id)
  BY DEF CurrencyIsItsId, Narrowed
<1>1. PICK n \in DOMAIN events["claim_token_events"] : row = events["claim_token_events"][n]
  BY DEF Rows
<1>2. "claim_token_events" \in Lists
  BY DEF Lists
<1>3. ClaimRow(row)
  BY <1>1, <1>2, RowFacts DEF GoodRow
<1> QED
  BY <1>3 DEF ClaimRow, Narrowed

LEMMA RowsFollow == ASSUME DecoderInv PROVE EveryLogIsItsRow
<1> SUFFICES ASSUME stage = "done", NEW k \in DOMAIN emitted
             PROVE  LET fact == emitted[k]
                        inputs == Declared[fact.contract][fact.event]
                        made == {m \in Lists \X DOMAIN emitted :
                                   m[2] \in DOMAIN events[m[1]] /\ IsRowOf(events[m[1]][m[2]], k)}
                    IN  IF fact.address # fact.contract \/ fact.event \notin Decoded[fact.contract]
                        THEN made = {}
                        ELSE /\ Cardinality(made) = 1
                             /\ \A m \in made :
                                  LET row == events[m[1]][m[2]] IN
                                  /\ m[1] = Home[fact.contract][fact.event][1]
                                  /\ "kind" \in DOMAIN row =>
                                       row.kind = Home[fact.contract][fact.event][2]
                                  /\ row.meta.origin = block[k].transaction.from
                                  /\ \A i \in DOMAIN inputs :
                                       Shows(row, Column(fact.contract, fact.event, inputs[i]),
                                             inputs[i].type, fact.args[i])
  BY DEF EveryLogIsItsRow
<1> DEFINE fact == emitted[k]
           made == {m \in Lists \X DOMAIN emitted :
                      m[2] \in DOMAIN events[m[1]] /\ IsRowOf(events[m[1]][m[2]], k)}
<1>1. k \in Nat /\ k \in DOMAIN block /\ DOMAIN emitted = DOMAIN block
      /\ block[k].block_index = k - 1 /\ DOMAIN block = 1 .. Len(block) /\ Len(block) \in Nat
  BY DEF DecoderInv, ChainInv, OrderInv, Numbered
<1>2. ASSUME NEW m \in made
      PROVE  /\ m[1] \in Lists /\ m[2] \in DOMAIN events[m[1]]
             /\ GoodRow(m[1], events[m[1]][m[2]], fact, block[k])
             /\ events[m[1]][m[2]].meta = meta(block[k])
  <2>1. PICK list, n : list = m[1] /\ n = m[2] /\ list \in Lists
    OBVIOUS
  <2>2. n \in DOMAIN events[list] /\ events[list][n].meta.log_index = k - 1
    BY <2>1 DEF IsRowOf
  <2>3. PICK j \in DOMAIN emitted :
          /\ j \in Nat /\ GoodRow(list, events[list][n], emitted[j], block[j])
          /\ events[list][n].meta = meta(block[j])
          /\ events[list][n].meta.log_index = j - 1
    BY <2>1, <2>2, RowFacts
  <2>4. j = k
    BY <1>1, <2>2, <2>3
  <2> QED
    BY <2>1, <2>2, <2>3, <2>4
<1>3. ASSUME NEW m1 \in made, NEW m2 \in made PROVE m1 = m2
  <2>1. /\ m1 = <<m1[1], m1[2]>> /\ m2 = <<m2[1], m2[2]>>
    OBVIOUS
  <2> HIDE DEF made
  <2>2. /\ m1[1] \in Lists /\ m1[2] \in DOMAIN events[m1[1]]
        /\ events[m1[1]][m1[2]].meta = meta(block[k])
        /\ m2[1] \in Lists /\ m2[2] \in DOMAIN events[m2[1]]
        /\ events[m2[1]][m2[2]].meta = meta(block[k])
    BY <1>2
  <2>3. m1[1] = m2[1] /\ m1[2] = m2[2]
    BY <2>2 DEF DecoderInv, OrderInv, RowsInLogOrder
  <2> QED
    BY <2>1, <2>3
<1>4. ASSUME IsDecoded(fact) PROVE Cardinality(made) = 1
  <2>1. PICK contract \in Contracts : contract = fact.contract
    BY DEF DecoderInv, ChainInv, Made
  <2>2. k \in Walked(contract)
    BY <1>1 DEF Walked
  <2>3. HasRow(k)
    BY <1>4, <2>1, <2>2 DEF DecoderInv, CompleteInv
  <2>4. PICK list \in Lists : \E n \in DOMAIN events[list] : events[list][n].meta = meta(block[k])
    BY <2>3 DEF HasRow
  <2>5. PICK n \in DOMAIN events[list] : events[list][n].meta = meta(block[k])
    BY <2>4
  <2>6. n \in DOMAIN emitted
    <3>1. events[list] \in Seq({events[list][i] : i \in DOMAIN events[list]})
      BY DEF DecoderInv, OrderInv, Typed
    <3>2. n \in 1 .. Len(events[list]) /\ Len(events[list]) \in Nat
      BY <3>1
    <3> QED
      BY <1>1, <3>2, NoMoreRows
  <2>7. IsRowOf(events[list][n], k)
    BY <1>1, <2>5 DEF IsRowOf, meta
  <2>8. <<list, n>> \in made
    BY <2>5, <2>6, <2>7
  <2> HIDE DEF made
  <2>9. made = {<<list, n>>}
    BY <1>3, <2>8
  <2> QED
    BY <2>9, FS_Singleton
<1>5. ASSUME ~IsDecoded(fact) PROVE made = {}
  <2> SUFFICES ASSUME NEW m \in made PROVE FALSE
    OBVIOUS
  <2> HIDE DEF made
  <2> QED
    BY <1>2, <1>5 DEF GoodRow, IsDecoded
<1>6. ASSUME NEW m \in made
      PROVE  LET row == events[m[1]][m[2]] IN
             /\ m[1] = Home[fact.contract][fact.event][1]
             /\ "kind" \in DOMAIN row => row.kind = Home[fact.contract][fact.event][2]
             /\ row.meta.origin = block[k].transaction.from
             /\ ShowsAll(fact.contract, fact.event, row, fact.args)
  <2> HIDE DEF made
  <2> QED
    BY <1>2 DEF GoodRow, meta
<1> QED
  BY <1>4, <1>5, <1>6 DEF IsDecoded, ShowsAll

-----------------------------------------------------------------------------
(* The extractors take no more rows than the block has logs, and every     *)
(* address column of a claim row is an address (map_events, lib.rs).       *)
THEOREM DecoderTyped == Spec => []TypeOK
<1> QED
  BY InitDecoder, NextDecoder, TypeFollows, PTL DEF Spec

(* At the end of the block every log that a contract made of a decoded     *)
(* event is exactly one row, of the list and kind the schema keeps the     *)
(* event in, showing each argument in the column that promises it; no      *)
(* other log has a row (pool_manager.rs, position_manager.rs, arrakis.rs). *)
THEOREM LogsAreRows == Spec => []EveryLogIsItsRow
<1> QED
  BY InitDecoder, NextDecoder, RowsFollow, PTL DEF Spec

(* The permissions and flags of every hook are the low fourteen bits of    *)
(* its address (hooks.rs hook_flags, decode_hook).                         *)
THEOREM HookBits == Spec => []HookBitsAreItsAddress
<1> QED
  BY InitDecoder, NextDecoder, HooksFollow, PTL DEF Spec

(* The currency of a claim row narrows to the address its id is, or to     *)
(* none when the id is too wide for one; every transfer's narrows          *)
(* (pool_manager.rs currency_address).                                     *)
THEOREM CurrencyIds == Spec => []CurrencyIsItsId
<1> QED
  BY InitDecoder, NextDecoder, CurrenciesFollow, PTL DEF Spec
=============================================================================
