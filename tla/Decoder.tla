------------------------------ MODULE Decoder ------------------------------
(***************************************************************************)
(* map_events (lib.rs) on the logs of the PoolManager, the PositionManager *)
(* and the ArrakisHookFactory: three extractors walk the block's logs one  *)
(* after another and append to the lists of one Events message.  The       *)
(* fourth extractor is the module Aggregator.                              *)
(*                                                                         *)
(* The chain encodes an event as its ABI file declares it; an extractor    *)
(* decodes it with the generated binding (both tables in Abi).             *)
(*                                                                         *)
(* Sizes are scaled: a word has three bytes for 32, an address two for 20. *)
(* The fourteen permission bits, a uint24 and an int24 keep their width.   *)
(***************************************************************************)
EXTENDS Abi, Integers, FiniteSets, FiniteSetsExt, SequencesExt

CONSTANTS
  Samples,    \* the samples the parameters of an event are drawn from
  MaxLogs     \* bound: logs in the block

ASSUME DecoderAssumption == Samples \subseteq 1..5 /\ MaxLogs \in Nat

Contracts == DOMAIN Declared
Foreign == "another contract"

VARIABLES
  emitted,   \* what the chain logged: contract, event, arguments
  block,     \* the logs, as blk.logs() yields them
  stage,     \* "chain" while the block is made, then the extractor running, then "done"
  cursor,    \* the log the extractor is at
  events     \* the Events message under construction

vars == <<emitted, block, stage, cursor, events>>

-----------------------------------------------------------------------------
(* The chain (external).  Arguments differ from one parameter to the next, *)
(* and lie in the range the contract can log.                              *)

WordSize == 2^24
AddressSize == 2^16

Argument(event, param, i, s) ==
  IF param.name \in {"hook", "hooks"}
  THEN <<IF param.name = "hooks" THEN 0 ELSE 1, 6280, 65535, 49152, 256>>[s]
  ELSE IF param.name = "fee"
  THEN <<0, 3000, 1000000, 500, IF event = "Initialize" THEN 2^23 ELSE 1>>[s]
  ELSE IF param.name = "tickSpacing" THEN i
  ELSE IF param.type = "bool" THEN s % 2
  ELSE IF \/ param.type = "address"
          \/ event = "Transfer" /\ param.name = "id"    \* minted from a currency
  THEN <<IF i \in {2, 4} THEN 0 ELSE i, i, AddressSize - 9 + i, 256 * i, 2^15 + i>>[s]
  ELSE IF param.type = "int24" THEN <<i - 4, i, i - 9, 256 * i, i - 887272>>[s]
  ELSE IF param.type \in {"int128", "int256"} THEN <<i - 4, i, i - 9, 256 * i, i - 2^23>>[s]
  ELSE <<IF param.type \in {"bytes32", "uint160"} THEN 100 + i ELSE 0,
         i, WordSize - 9 + i, 256 * i, 2^23 + i>>[s]

ToWord(value) == value % WordSize

(* The k-th of a set of numbers.                                           *)
Nth(S, k) == CHOOSE i \in S : Cardinality({j \in S : j < i}) = k - 1

(* The words of the parameters in S, in declaration order.                 *)
Words(args, S) == [k \in 1 .. Cardinality(S) |-> ToWord(args[Nth(S, k)])]

Encode(contract, event, args) ==
  LET inputs == Declared[contract][event]
      places(indexed) == {i \in DOMAIN inputs : inputs[i].indexed = indexed}
  IN  [topics |-> <<<<contract, event>>>> \o Words(args, places(TRUE)),
       data |-> Words(args, places(FALSE))]

(* A transaction may carry no gas price.                                   *)
TransactionTrace(n) ==
  [hash |-> n, from |-> 10 + n, gas_price |-> IF n % 2 = 1 THEN {} ELSE {n}]

(* Any contract may log any topics; a pool is initialised once.            *)
Emit(contract, event, address, s, newTx) ==
  LET inputs == Declared[contract][event]
      args == [i \in DOMAIN inputs |-> Argument(event, inputs[i], i, s)]
      tx == IF block = << >> THEN 1 ELSE Last(block).transaction.hash + newTx
      sameTx == {k \in DOMAIN block : block[k].transaction.hash = tx}
      fact == [contract |-> contract, event |-> event, address |-> address, args |-> args]
      encoded == Encode(contract, event, args)
  IN  /\ stage = "chain" /\ Len(block) < MaxLogs
      /\ event = "Initialize" => \A k \in DOMAIN emitted : emitted[k] # fact
      /\ emitted' = Append(emitted, fact)
      /\ block' = Append(block,
           [address |-> address, topics |-> encoded.topics, data |-> encoded.data,
            transaction |-> TransactionTrace(tx),
            index |-> Cardinality(sameTx), block_index |-> Len(block)])
      /\ UNCHANGED <<stage, cursor, events>>

-----------------------------------------------------------------------------
(* A binding applied to a log: match_log, and decode with its readers      *)
(* (external: substreams_ethereum::abi).                                   *)

(* Faulty: an address without its leading zeros.                           *)
Bytes_short(n) == IF n < 256 THEN <<n>> ELSE <<n \div 256, n % 256>>

Bytes(n) == <<n \div 256, n % 256>>

Read(reader, word) ==
  CASE reader = "address" -> Bytes(word % AddressSize)
    [] reader = "int" -> IF word < WordSize \div 2 THEN word ELSE word - WordSize
    [] reader = "bool" -> word # 0
    [] OTHER -> word

Matches(contract, event, log) ==
  LET binding == Bound[contract][event]
  IN  /\ Len(log.topics) = binding.topics
      /\ Len(log.data) = binding.data
      /\ log.topics[1] = <<contract, event>>

(* Topic 0 is the signature, so topics and data are both read from 1.      *)
Decode(contract, event, log) ==
  LET reads == Bound[contract][event].reads
  IN  [f \in DOMAIN reads |-> Read(reads[f].reader, log[reads[f].of][reads[f].at + 1])]

-----------------------------------------------------------------------------
(* hooks.rs.                                                               *)

HOOK_FLAG_MASK == 2^14 - 1

Flag ==
  [before_initialize |-> 2^13, after_initialize |-> 2^12,
   before_add_liquidity |-> 2^11, after_add_liquidity |-> 2^10,
   before_remove_liquidity |-> 2^9, after_remove_liquidity |-> 2^8,
   before_swap |-> 2^7, after_swap |-> 2^6,
   before_donate |-> 2^5, after_donate |-> 2^4,
   before_swap_returns_delta |-> 2^3, after_swap_returns_delta |-> 2^2,
   after_add_liquidity_returns_delta |-> 2, after_remove_liquidity_returns_delta |-> 1]

DYNAMIC_FEE_FLAG == 2^23
UINT24_MASK == 2^24 - 1

(* Faulty: the first two bytes of whatever is handed in.                   *)
hook_flags_front(addr) ==
  IF Len(addr) < 2 THEN 0 ELSE (addr[1] * 256 + addr[2]) % (HOOK_FLAG_MASK + 1)

(* A mask of ones is a remainder.                                          *)
hook_flags(addr) ==
  LET n == Len(addr)
      lo == IF n >= 1 THEN addr[n] ELSE 0
      hi == IF n >= 2 THEN addr[n - 1] ELSE 0
  IN  (hi * 256 + lo) % (HOOK_FLAG_MASK + 1)

decode_hook(addr) ==
  LET flags == hook_flags(addr)
      has(bit) == (flags \div bit) % 2 = 1
  IN  [address |-> addr,
       permits |-> [p \in DOMAIN Flag |-> has(Flag[p])],
       flags |-> flags,
       has_hook |-> \E i \in DOMAIN addr : addr[i] # 0]

is_dynamic_fee(fee) == fee % (UINT24_MASK + 1) = DYNAMIC_FEE_FLAG

gas_price(trx) == IF trx.gas_price = {} THEN 0 ELSE CHOOSE v \in trx.gas_price : TRUE

(* Faulty: the index within the transaction.                               *)
meta_tx_index(log) ==
  [tx_hash |-> log.transaction.hash, log_index |-> log.index,
   origin |-> log.transaction.from, gas_price |-> gas_price(log.transaction)]

(* The same provenance in all three extractors, formatting aside.          *)
meta(log) ==
  [tx_hash |-> log.transaction.hash, log_index |-> log.block_index,
   origin |-> log.transaction.from, gas_price |-> gas_price(log.transaction)]

event_id(m) == <<m.tx_hash, m.log_index>>

(* BigInt::to_bytes_be: the magnitude in as few bytes as it takes, at      *)
(* least one.                                                              *)
to_bytes_be(n) ==
  IF n < 256 THEN <<n>>
  ELSE IF n < AddressSize THEN Bytes(n)
  ELSE <<n \div AddressSize>> \o Bytes(n % AddressSize)

(* Faulty: padded on the right.                                            *)
currency_address_front(id) ==
  LET magnitude == to_bytes_be(id)
  IN  IF id < 0 \/ Len(magnitude) > 2 THEN {}
      ELSE {magnitude \o [k \in 1..(2 - Len(magnitude)) |-> 0]}

(* The address as Option: a set of at most one.                            *)
currency_address(id) ==
  LET magnitude == to_bytes_be(id)
  IN  IF id < 0 \/ Len(magnitude) > 2 THEN {}
      ELSE {[k \in 1..(2 - Len(magnitude)) |-> 0] \o magnitude}

-----------------------------------------------------------------------------
(* The extractors.  Each walks the logs from the first; an arm takes a log *)
(* of its own contract that its binding matches and decodes, and no two    *)
(* bindings share a signature.                                             *)

Stages == <<"chain", "PoolManager", "PositionManager", "ArrakisHookFactory", "done">>

NextStage == Stages[SelectInSeq(Stages, LAMBDA s : s = stage) + 1]

Log == block[cursor]
Ours(contract) == stage = contract /\ cursor <= Len(block) /\ Log.address = contract
Advance == cursor' = cursor + 1 /\ UNCHANGED <<emitted, block, stage>>
Push(list, row) == events' = [events EXCEPT ![list] = Append(@, row)]

Arm(contract, event) ==
  /\ Ours(contract)
  /\ Matches(contract, event, Log)
  /\ Advance

Ev(event) == Decode(stage, event, Log)
Meta == meta(Log)

Decoded ==
  [PoolManager |-> {"Swap", "ModifyLiquidity", "Initialize", "Transfer", "Donate", "Approval",
                    "OperatorSet", "ProtocolFeeUpdated", "ProtocolFeeControllerUpdated"},
   PositionManager |-> {"Subscription", "Unsubscription", "Transfer"},
   ArrakisHookFactory |-> {"LogCreatePrivateHook"}]

(* Another contract's log, or one of the contract's that no arm matches.   *)
Skip ==
  /\ stage \in Contracts /\ cursor <= Len(block)
  /\ \/ Log.address # stage
     \/ \A event \in Decoded[stage] : ~Matches(stage, event, Log)
  /\ Advance
  /\ UNCHANGED events

(* The next extractor, the first one once the block is complete.           *)
BeginExtract ==
  /\ \/ stage = "chain" /\ block # << >>
     \/ stage \in Contracts /\ cursor > Len(block)
  /\ stage' = NextStage
  /\ cursor' = 1
  /\ UNCHANGED <<emitted, block, events>>

-----------------------------------------------------------------------------
(* The arms.  A column left out is at its proto3 default.                  *)

SwapRow(ev, m) ==
  [id |-> event_id(m), pool_id |-> ev.id, sender |-> ev.sender,
   amount0 |-> ev.amount0, amount1 |-> ev.amount1,
   sqrt_price_x96 |-> ev.sqrt_price_x96, liquidity |-> ev.liquidity,
   tick |-> ev.tick, fee |-> ev.fee, meta |-> m]

ModifyLiquidityRow(ev, m) ==
  [id |-> event_id(m), pool_id |-> ev.id, sender |-> ev.sender,
   tick_lower |-> ev.tick_lower, tick_upper |-> ev.tick_upper,
   liquidity_delta |-> ev.liquidity_delta, salt |-> ev.salt, meta |-> m]

PoolRow(ev, m) ==
  [id |-> ev.id, token0 |-> ev.currency0, token1 |-> ev.currency1,
   fee_tier |-> ev.fee, tick_spacing |-> ev.tick_spacing,
   hook |-> decode_hook(ev.hooks), sqrt_price |-> ev.sqrt_price_x96,
   tick |-> ev.tick, liquidity |-> 0,
   is_dynamic_fee |-> is_dynamic_fee(ev.fee), meta |-> m]

TransferRow(ev, m) ==
  [id |-> event_id(m), kind |-> "transfer", caller |-> ev.caller,
   from |-> ev.from, to |-> ev.to, currency_id |-> ev.id,
   amount |-> ev.amount, meta |-> m]

DonateRow(ev, m) ==
  [id |-> event_id(m), pool_id |-> ev.id, sender |-> ev.sender,
   amount0 |-> ev.amount0, amount1 |-> ev.amount1, meta |-> m]

ApprovalRow(ev, m) ==
  [id |-> event_id(m), kind |-> "approval", owner |-> ev.owner,
   spender |-> ev.spender, currency_id |-> ev.id, amount |-> ev.amount, meta |-> m]

OperatorSetRow(ev, m) ==
  [id |-> event_id(m), kind |-> "operator_set", owner |-> ev.owner,
   operator |-> ev.operator, approved |-> ev.approved, meta |-> m]

FeeUpdatedRow(ev, m) ==
  [id |-> event_id(m), kind |-> "fee_updated", pool_id |-> ev.id,
   protocol_fee |-> ev.protocol_fee, meta |-> m]

ControllerUpdatedRow(ev, m) ==
  [id |-> event_id(m), kind |-> "controller_updated",
   controller |-> ev.protocol_fee_controller, meta |-> m]

SubscribeRow(ev, m) ==
  [id |-> event_id(m), kind |-> "subscribe", token_id |-> ev.token_id,
   address |-> ev.subscriber, meta |-> m]

UnsubscribeRow(ev, m) ==
  [id |-> event_id(m), kind |-> "unsubscribe", token_id |-> ev.token_id,
   address |-> ev.subscriber, meta |-> m]

(* "address" is whom the row now concerns: the new owner.                  *)
PositionTransferRow(ev, m) ==
  [id |-> event_id(m), kind |-> "transfer", token_id |-> ev.id,
   address |-> ev.to, from |-> ev.from, to |-> ev.to, meta |-> m]

HookDeploymentRow(ev, m) ==
  [id |-> event_id(m), hook |-> ev.hook, module |-> ev.module, salt |-> ev.salt,
   factory |-> "arrakis", permissions |-> decode_hook(ev.hook), meta |-> m]

ExtractPoolManager ==
  \/ Arm("PoolManager", "Swap") /\ Push("swaps", SwapRow(Ev("Swap"), Meta))
  \/ /\ Arm("PoolManager", "ModifyLiquidity")
     /\ Push("modify_liquidity", ModifyLiquidityRow(Ev("ModifyLiquidity"), Meta))
  \/ Arm("PoolManager", "Initialize") /\ Push("pools", PoolRow(Ev("Initialize"), Meta))
  \/ /\ Arm("PoolManager", "Transfer")
     /\ Push("claim_token_events", TransferRow(Ev("Transfer"), Meta))
  \/ Arm("PoolManager", "Donate") /\ Push("donates", DonateRow(Ev("Donate"), Meta))
  \/ /\ Arm("PoolManager", "Approval")
     /\ Push("claim_token_events", ApprovalRow(Ev("Approval"), Meta))
  \/ /\ Arm("PoolManager", "OperatorSet")
     /\ Push("claim_token_events", OperatorSetRow(Ev("OperatorSet"), Meta))
  \/ /\ Arm("PoolManager", "ProtocolFeeUpdated")
     /\ Push("protocol_fee_events", FeeUpdatedRow(Ev("ProtocolFeeUpdated"), Meta))
  \/ /\ Arm("PoolManager", "ProtocolFeeControllerUpdated")
     /\ Push("protocol_fee_events", ControllerUpdatedRow(Ev("ProtocolFeeControllerUpdated"), Meta))

ExtractPositionManager ==
  \/ /\ Arm("PositionManager", "Subscription")
     /\ Push("position_events", SubscribeRow(Ev("Subscription"), Meta))
  \/ /\ Arm("PositionManager", "Unsubscription")
     /\ Push("position_events", UnsubscribeRow(Ev("Unsubscription"), Meta))
  \/ /\ Arm("PositionManager", "Transfer")
     /\ Push("position_events", PositionTransferRow(Ev("Transfer"), Meta))

ExtractArrakis ==
  /\ Arm("ArrakisHookFactory", "LogCreatePrivateHook")
  /\ Push("hook_deployments", HookDeploymentRow(Ev("LogCreatePrivateHook"), Meta))

Lists == {"pools", "swaps", "modify_liquidity", "position_events", "hook_deployments",
          "donates", "claim_token_events", "protocol_fee_events"}

Init ==
  /\ emitted = << >> /\ block = << >>
  /\ stage = "chain" /\ cursor = 1
  /\ events = [list \in Lists |-> << >>]

Chain ==
  \E contract \in Contracts, s \in Samples, newTx \in {0, 1} :
    \E event \in DOMAIN Declared[contract] :
      \/ Emit(contract, event, contract, s, newTx)
      \/ s = 2 /\ Emit(contract, event, Foreign, s, newTx)

Next ==
  \/ Chain \/ BeginExtract \/ Skip
  \/ ExtractPoolManager \/ ExtractPositionManager \/ ExtractArrakis

Spec == Init /\ [][Next]_vars

-----------------------------------------------------------------------------
(* Properties. *)

Rows(list) == {events[list][k] : k \in DOMAIN events[list]}

(* Every list holds as many rows as extractors have taken logs, and a      *)
(* column of an address is one: two bytes.                                 *)
TypeOK ==
  /\ Len(emitted) = Len(block) /\ Len(block) <= MaxLogs
  /\ stage \in {Stages[k] : k \in DOMAIN Stages}
  /\ cursor \in 1..(MaxLogs + 1)
  /\ DOMAIN events = Lists
  /\ \A list \in Lists : Len(events[list]) <= Len(block)
  /\ \A row \in Rows("claim_token_events") :
       \A column \in DOMAIN row \cap {"caller", "owner", "from", "to", "spender", "operator"} :
         row[column] \in Seq(0..255) /\ Len(row[column]) = 2

(* Where the schema (uniswap.proto) keeps an event: list and kind.         *)
Home ==
  [PoolManager |->
     [Initialize |-> <<"pools", "">>, Swap |-> <<"swaps", "">>,
      ModifyLiquidity |-> <<"modify_liquidity", "">>, Donate |-> <<"donates", "">>,
      Transfer |-> <<"claim_token_events", "transfer">>,
      Approval |-> <<"claim_token_events", "approval">>,
      OperatorSet |-> <<"claim_token_events", "operator_set">>,
      ProtocolFeeUpdated |-> <<"protocol_fee_events", "fee_updated">>,
      ProtocolFeeControllerUpdated |-> <<"protocol_fee_events", "controller_updated">>],
   PositionManager |->
     [Transfer |-> <<"position_events", "transfer">>,
      Subscription |-> <<"position_events", "subscribe">>,
      Unsubscription |-> <<"position_events", "unsubscribe">>],
   ArrakisHookFactory |-> [LogCreatePrivateHook |-> <<"hook_deployments", "">>]]

(* The column that promises a parameter.  A PoolManager id is a pool's     *)
(* when it is a bytes32 and a currency's when it is a uint256.             *)
Column(contract, event, param) ==
  CASE param.name = "id" ->
         IF event = "Initialize" THEN "id"
         ELSE IF contract = "PositionManager" THEN "token_id"
         ELSE IF param.type = "bytes32" THEN "pool_id" ELSE "currency_id"
    [] param.name = "fee" -> IF event = "Initialize" THEN "fee_tier" ELSE "fee"
    [] param.name = "sqrtPriceX96" ->
         IF event = "Initialize" THEN "sqrt_price" ELSE "sqrt_price_x96"
    [] param.name = "tokenId" -> "token_id"
    [] param.name = "subscriber" -> "address"
    [] param.name = "currency0" -> "token0"
    [] param.name = "currency1" -> "token1"
    [] param.name = "tickSpacing" -> "tick_spacing"
    [] param.name = "tickLower" -> "tick_lower"
    [] param.name = "tickUpper" -> "tick_upper"
    [] param.name = "liquidityDelta" -> "liquidity_delta"
    [] param.name = "protocolFee" -> "protocol_fee"
    [] param.name = "protocolFeeController" -> "controller"
    [] OTHER -> param.name

ToNumber(addr) == addr[1] * 256 + addr[2]

Shows(row, column, type, value) ==
  LET shown == IF column = "hooks" THEN row.hook.address ELSE row[column]
  IN  /\ type = "address" => ToNumber(shown) = value
      /\ type = "bool" => shown = (value = 1)
      /\ type \notin {"address", "bool"} => shown = value

IsRowOf(row, k) ==
  row.meta.tx_hash = block[k].transaction.hash /\ row.meta.log_index = k - 1

(* Nothing is dropped, nothing is invented: at the end of the block each   *)
(* log that one of the three contracts made of a decoded event is exactly  *)
(* one row, of the right list and kind, whose columns show the arguments   *)
(* the contract logged and whose origin is the log's own transaction's;    *)
(* no other log has a row (pool_manager.rs "here nothing is dropped").     *)
EveryLogIsItsRow ==
  stage = "done" =>
    \A k \in DOMAIN emitted :
      LET fact == emitted[k]
          inputs == Declared[fact.contract][fact.event]
          made == {m \in Lists \X DOMAIN emitted :
                     m[2] \in DOMAIN events[m[1]] /\ IsRowOf(events[m[1]][m[2]], k)}
      IN  IF fact.address # fact.contract \/ fact.event \notin Decoded[fact.contract]
          THEN made = {}
          ELSE /\ Cardinality(made) = 1
               /\ \A m \in made :
                    LET row == events[m[1]][m[2]] IN
                    /\ m[1] = Home[fact.contract][fact.event][1]
                    /\ "kind" \in DOMAIN row => row.kind = Home[fact.contract][fact.event][2]
                    /\ row.meta.origin = block[k].transaction.from
                    /\ \A i \in DOMAIN inputs :
                         Shows(row, Column(fact.contract, fact.event, inputs[i]),
                               inputs[i].type, fact.args[i])

(* Within each list the rows are in strict log order, which a sink relies  *)
(* on without sorting, and no two rows of any lists share an event id      *)
(* (pool_manager.rs extract, event_id).                                    *)
RowsInLogOrder ==
  /\ \A list \in Lists : \A n \in 2..Len(events[list]) :
       events[list][n - 1].meta.log_index < events[list][n].meta.log_index
  /\ \A l1, l2 \in Lists : \A n1 \in DOMAIN events[l1], n2 \in DOMAIN events[l2] :
       event_id(events[l1][n1].meta) = event_id(events[l2][n2].meta) => l1 = l2 /\ n1 = n2

(* The order uniswap.proto lists the permissions in, bit 13 first.         *)
Permissions ==
  <<"before_initialize", "after_initialize", "before_add_liquidity", "after_add_liquidity",
    "before_remove_liquidity", "after_remove_liquidity", "before_swap", "after_swap",
    "before_donate", "after_donate", "before_swap_returns_delta", "after_swap_returns_delta",
    "after_add_liquidity_returns_delta", "after_remove_liquidity_returns_delta">>

Hooks == {row.hook : row \in Rows("pools")} \cup {row.permissions : row \in Rows("hook_deployments")}

(* The permissions of a hook are the low fourteen bits of its address as a *)
(* number, however many bytes the decoder hands over: a left-padded slice  *)
(* gives the same flags and a short one only the bits it has; an address   *)
(* without flags is still a hook (hooks.rs hook_flags, decode_hook).       *)
HookBitsAreItsAddress ==
  \A h \in Hooks :
    LET n == ToNumber(h.address) IN
    /\ h.flags = n % 2^14
    /\ \A b \in 1..14 : h.permits[Permissions[b]] <=> (n \div 2^(14 - b)) % 2 = 1
    /\ h.has_hook <=> n # 0
    /\ hook_flags(<<171>> \o h.address) = h.flags
    /\ hook_flags(<<h.address[2]>>) = h.flags % 256
    /\ hook_flags(<< >>) = 0

(* The currency of a claim token: the id of every transfer narrows to the  *)
(* two-byte address it was minted from, short ones included; an approval   *)
(* may name any number, and one too wide for an address narrows to none    *)
(* rather than to a wrong token (pool_manager.rs currency_address).        *)
CurrencyIsItsId ==
  \A row \in Rows("claim_token_events") :
    row.kind # "operator_set" =>
      LET narrowed == currency_address(row.currency_id) IN
      /\ row.kind = "transfer" => narrowed # {}
      /\ narrowed # {} <=> row.currency_id < AddressSize
      /\ \A a \in narrowed : Len(a) = 2 /\ ToNumber(a) = row.currency_id
=============================================================================
