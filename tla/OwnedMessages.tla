------------------------- MODULE OwnedMessages -------------------------
(***************************************************************************)
(* The owned messages of uniswap.proto as the generated codec reads and    *)
(* writes them.  The generator spells every field out in five functions    *)
(* per message; a table below is one function, and Codec interprets it.    *)
(*                                                                         *)
(* X_fields  the struct: a field and its type (a scalar, or a message)     *)
(* X_size    compute_size, in its order: <<bytes of tag, kind, field>>     *)
(* X_write   write_to, in its order: <<field number, kind, field>>         *)
(* X_merge   merge_field, an arm per number: <<number, kind, field>>       *)
(* X_clear   clear: the fields it resets                                   *)
(*                                                                         *)
(* "one" is a MessageField, set or not; "many" is a Vec of messages.       *)
(***************************************************************************)

\* The structs.
Meta_fields == [
    block_number |-> "uint64", block_timestamp |-> "uint64", tx_hash |-> "string", log_index |-> "uint32",
    origin |-> "string", gas_used |-> "uint64", gas_price |-> "string"]
HookPermissions_fields == [
    address |-> "string", before_initialize |-> "bool", after_initialize |-> "bool",
    before_add_liquidity |-> "bool", after_add_liquidity |-> "bool", before_remove_liquidity |-> "bool",
    after_remove_liquidity |-> "bool", before_swap |-> "bool", after_swap |-> "bool", before_donate |-> "bool",
    after_donate |-> "bool", before_swap_returns_delta |-> "bool", after_swap_returns_delta |-> "bool",
    after_add_liquidity_returns_delta |-> "bool", after_remove_liquidity_returns_delta |-> "bool",
    flags |-> "uint32", has_hook |-> "bool"]
Pool_fields == [
    id |-> "string", token0 |-> "string", token1 |-> "string", fee_tier |-> "uint64", tick_spacing |-> "int32",
    hook |-> "HookPermissions", sqrt_price |-> "string", tick |-> "int32", liquidity |-> "string",
    is_dynamic_fee |-> "bool", meta |-> "Meta", token0_symbol |-> "string", token1_symbol |-> "string",
    token0_decimals |-> "uint32", token1_decimals |-> "uint32", decimals_measured |-> "bool"]
Swap_fields == [
    id |-> "string", pool_id |-> "string", sender |-> "string", amount0 |-> "string", amount1 |-> "string",
    sqrt_price_x96 |-> "string", liquidity |-> "string", tick |-> "int32", fee |-> "uint32", meta |-> "Meta",
    token0 |-> "string", token1 |-> "string", fee_tier |-> "uint64", tick_spacing |-> "int32",
    hook |-> "HookPermissions", token0_symbol |-> "string", token1_symbol |-> "string",
    token0_decimals |-> "uint32", token1_decimals |-> "uint32", decimals_measured |-> "bool",
    amount0_adjusted |-> "string", amount1_adjusted |-> "string", amounts_adjusted |-> "bool",
    amount0_usd |-> "string", amount1_usd |-> "string", amount_usd |-> "string", native_price_usd |-> "string",
    priced |-> "bool", amount0_priced |-> "bool", amount1_priced |-> "bool"]
ModifyLiquidity_fields == [
    id |-> "string", pool_id |-> "string", sender |-> "string", tick_lower |-> "int32", tick_upper |-> "int32",
    liquidity_delta |-> "string", salt |-> "string", meta |-> "Meta", token0 |-> "string", token1 |-> "string",
    fee_tier |-> "uint64", tick_spacing |-> "int32", hook |-> "HookPermissions", token0_symbol |-> "string",
    token1_symbol |-> "string", token0_decimals |-> "uint32", token1_decimals |-> "uint32",
    decimals_measured |-> "bool"]
PositionEvent_fields == [
    id |-> "string", token_id |-> "string", kind |-> "string", address |-> "string", from |-> "string",
    to |-> "string", meta |-> "Meta"]
HookDeployment_fields == [
    id |-> "string", hook |-> "string", module |-> "string", salt |-> "string", factory |-> "string",
    permissions |-> "HookPermissions", meta |-> "Meta"]
PoolStats_fields == [
    pool_id |-> "string", token0 |-> "string", token1 |-> "string", swap_count |-> "uint64",
    volume_token0_abs |-> "string", volume_token1_abs |-> "string", modify_liquidity_count |-> "uint64",
    hook |-> "HookPermissions", last_block |-> "uint64", volume_token0_adjusted |-> "string",
    volume_token1_adjusted |-> "string", volumes_adjusted |-> "bool"]
HookStats_fields == [
    hook_address |-> "string", permissions |-> "HookPermissions", pool_count |-> "uint64",
    swap_count |-> "uint64", volume_token0_abs |-> "string", volume_token1_abs |-> "string",
    distinct_fee_values |-> "uint64", last_block |-> "uint64"]
Donate_fields == [
    id |-> "string", pool_id |-> "string", sender |-> "string", amount0 |-> "string", amount1 |-> "string",
    meta |-> "Meta", token0 |-> "string", token1 |-> "string", amount0_adjusted |-> "string",
    amount1_adjusted |-> "string", amounts_adjusted |-> "bool"]
ClaimTokenEvent_fields == [
    id |-> "string", kind |-> "string", caller |-> "string", owner |-> "string", from |-> "string",
    to |-> "string", spender |-> "string", operator |-> "string", currency_id |-> "string", amount |-> "string",
    approved |-> "bool", meta |-> "Meta"]
ProtocolFeeEvent_fields == [
    id |-> "string", kind |-> "string", pool_id |-> "string", protocol_fee |-> "uint32",
    controller |-> "string", meta |-> "Meta"]
PoolTotals_fields == [
    pool_id |-> "string", token0 |-> "string", token1 |-> "string", swap_count |-> "string",
    modify_liquidity_count |-> "string", volume_token0_abs |-> "string", volume_token1_abs |-> "string",
    hook |-> "HookPermissions", last_block |-> "uint64", volume_token0_adjusted |-> "string",
    volume_token1_adjusted |-> "string", volumes_adjusted |-> "bool"]
HookTotals_fields == [
    hook_address |-> "string", permissions |-> "HookPermissions", pool_count |-> "string",
    swap_count |-> "string", modify_liquidity_count |-> "string", volume_token0_abs |-> "string",
    volume_token1_abs |-> "string", last_block |-> "uint64"]
Events_fields == [
    pools |-> "Pool", swaps |-> "Swap", modify_liquidity |-> "ModifyLiquidity",
    position_events |-> "PositionEvent", hook_deployments |-> "HookDeployment", pool_stats |-> "PoolStats",
    hook_stats |-> "HookStats", donates |-> "Donate", claim_token_events |-> "ClaimTokenEvent",
    protocol_fee_events |-> "ProtocolFeeEvent", pool_totals |-> "PoolTotals", hook_totals |-> "HookTotals",
    aggregator_swaps |-> "AggregatorSwap", aggregator_pools |-> "AggregatorPool",
    aggregator_fees |-> "AggregatorFee"]
AggregatorSwap_fields == [
    id |-> "string", pool_id |-> "string", hook |-> "string", source |-> "string", sender |-> "string",
    amount0 |-> "string", amount1 |-> "string", protocol_fee_pips |-> "uint32",
    protocol_fee_amount |-> "string", protocol_fee_currency |-> "string", token0 |-> "string",
    token1 |-> "string", verified |-> "bool", meta |-> "Meta"]
AggregatorPool_fields == [
    pool_id |-> "string", hook |-> "string", source |-> "string", token0 |-> "string", token1 |-> "string",
    verified |-> "bool", meta |-> "Meta"]
AggregatorFee_fields == [
    id |-> "string", hook |-> "string", recipient |-> "string", currency |-> "string", amount |-> "string",
    meta |-> "Meta"]

\* compute_size of each message.
Meta_size == <<
    <<1, "uint64", "block_number">>, <<1, "uint64", "block_timestamp">>, <<1, "string", "tx_hash">>,
    <<1, "uint32", "log_index">>, <<1, "string", "origin">>, <<1, "uint64", "gas_used">>,
    <<1, "string", "gas_price">> >>
HookPermissions_size == <<
    <<1, "string", "address">>, <<1, "bool", "before_initialize">>, <<1, "bool", "after_initialize">>,
    <<1, "bool", "before_add_liquidity">>, <<1, "bool", "after_add_liquidity">>,
    <<1, "bool", "before_remove_liquidity">>, <<1, "bool", "after_remove_liquidity">>,
    <<1, "bool", "before_swap">>, <<1, "bool", "after_swap">>, <<1, "bool", "before_donate">>,
    <<1, "bool", "after_donate">>, <<1, "bool", "before_swap_returns_delta">>,
    <<1, "bool", "after_swap_returns_delta">>, <<1, "bool", "after_add_liquidity_returns_delta">>,
    <<1, "bool", "after_remove_liquidity_returns_delta">>, <<2, "uint32", "flags">>, <<2, "bool", "has_hook">> >>
Pool_size == <<
    <<1, "string", "id">>, <<1, "string", "token0">>, <<1, "string", "token1">>, <<1, "uint64", "fee_tier">>,
    <<1, "int32", "tick_spacing">>, <<1, "one", "hook">>, <<1, "string", "sqrt_price">>, <<1, "int32", "tick">>,
    <<1, "string", "liquidity">>, <<1, "bool", "is_dynamic_fee">>, <<1, "one", "meta">>,
    <<1, "string", "token0_symbol">>, <<1, "string", "token1_symbol">>, <<1, "uint32", "token0_decimals">>,
    <<1, "uint32", "token1_decimals">>, <<2, "bool", "decimals_measured">> >>
Swap_size == <<
    <<1, "string", "id">>, <<1, "string", "pool_id">>, <<1, "string", "sender">>, <<1, "string", "amount0">>,
    <<1, "string", "amount1">>, <<1, "string", "sqrt_price_x96">>, <<1, "string", "liquidity">>,
    <<1, "int32", "tick">>, <<1, "uint32", "fee">>, <<1, "one", "meta">>, <<1, "string", "token0">>,
    <<1, "string", "token1">>, <<1, "uint64", "fee_tier">>, <<1, "int32", "tick_spacing">>,
    <<1, "one", "hook">>, <<2, "string", "token0_symbol">>, <<2, "string", "token1_symbol">>,
    <<2, "uint32", "token0_decimals">>, <<2, "uint32", "token1_decimals">>, <<2, "bool", "decimals_measured">>,
    <<2, "string", "amount0_adjusted">>, <<2, "string", "amount1_adjusted">>, <<2, "bool", "amounts_adjusted">>,
    <<2, "string", "amount0_usd">>, <<2, "string", "amount1_usd">>, <<2, "string", "amount_usd">>,
    <<2, "string", "native_price_usd">>, <<2, "bool", "priced">>, <<2, "bool", "amount0_priced">>,
    <<2, "bool", "amount1_priced">> >>
ModifyLiquidity_size == <<
    <<1, "string", "id">>, <<1, "string", "pool_id">>, <<1, "string", "sender">>, <<1, "int32", "tick_lower">>,
    <<1, "int32", "tick_upper">>, <<1, "string", "liquidity_delta">>, <<1, "string", "salt">>,
    <<1, "one", "meta">>, <<1, "string", "token0">>, <<1, "string", "token1">>, <<1, "uint64", "fee_tier">>,
    <<1, "int32", "tick_spacing">>, <<1, "one", "hook">>, <<1, "string", "token0_symbol">>,
    <<1, "string", "token1_symbol">>, <<2, "uint32", "token0_decimals">>, <<2, "uint32", "token1_decimals">>,
    <<2, "bool", "decimals_measured">> >>
PositionEvent_size == <<
    <<1, "string", "id">>, <<1, "string", "token_id">>, <<1, "string", "kind">>, <<1, "string", "address">>,
    <<1, "string", "from">>, <<1, "string", "to">>, <<1, "one", "meta">> >>
HookDeployment_size == <<
    <<1, "string", "id">>, <<1, "string", "hook">>, <<1, "string", "module">>, <<1, "string", "salt">>,
    <<1, "string", "factory">>, <<1, "one", "permissions">>, <<1, "one", "meta">> >>
PoolStats_size == <<
    <<1, "string", "pool_id">>, <<1, "string", "token0">>, <<1, "string", "token1">>,
    <<1, "uint64", "swap_count">>, <<1, "string", "volume_token0_abs">>, <<1, "string", "volume_token1_abs">>,
    <<1, "uint64", "modify_liquidity_count">>, <<1, "one", "hook">>, <<1, "uint64", "last_block">>,
    <<1, "string", "volume_token0_adjusted">>, <<1, "string", "volume_token1_adjusted">>,
    <<1, "bool", "volumes_adjusted">> >>
HookStats_size == <<
    <<1, "string", "hook_address">>, <<1, "one", "permissions">>, <<1, "uint64", "pool_count">>,
    <<1, "uint64", "swap_count">>, <<1, "string", "volume_token0_abs">>, <<1, "string", "volume_token1_abs">>,
    <<1, "uint64", "distinct_fee_values">>, <<1, "uint64", "last_block">> >>
Donate_size == <<
    <<1, "string", "id">>, <<1, "string", "pool_id">>, <<1, "string", "sender">>, <<1, "string", "amount0">>,
    <<1, "string", "amount1">>, <<1, "one", "meta">>, <<1, "string", "token0">>, <<1, "string", "token1">>,
    <<1, "string", "amount0_adjusted">>, <<1, "string", "amount1_adjusted">>, <<1, "bool", "amounts_adjusted">> >>
ClaimTokenEvent_size == <<
    <<1, "string", "id">>, <<1, "string", "kind">>, <<1, "string", "caller">>, <<1, "string", "owner">>,
    <<1, "string", "from">>, <<1, "string", "to">>, <<1, "string", "spender">>, <<1, "string", "operator">>,
    <<1, "string", "currency_id">>, <<1, "string", "amount">>, <<1, "bool", "approved">>, <<1, "one", "meta">> >>
ProtocolFeeEvent_size == <<
    <<1, "string", "id">>, <<1, "string", "kind">>, <<1, "string", "pool_id">>, <<1, "uint32", "protocol_fee">>,
    <<1, "string", "controller">>, <<1, "one", "meta">> >>
PoolTotals_size == <<
    <<1, "string", "pool_id">>, <<1, "string", "token0">>, <<1, "string", "token1">>,
    <<1, "string", "swap_count">>, <<1, "string", "modify_liquidity_count">>,
    <<1, "string", "volume_token0_abs">>, <<1, "string", "volume_token1_abs">>, <<1, "one", "hook">>,
    <<1, "uint64", "last_block">>, <<1, "string", "volume_token0_adjusted">>,
    <<1, "string", "volume_token1_adjusted">>, <<1, "bool", "volumes_adjusted">> >>
HookTotals_size == <<
    <<1, "string", "hook_address">>, <<1, "one", "permissions">>, <<1, "string", "pool_count">>,
    <<1, "string", "swap_count">>, <<1, "string", "modify_liquidity_count">>,
    <<1, "string", "volume_token0_abs">>, <<1, "string", "volume_token1_abs">>, <<1, "uint64", "last_block">> >>
Events_size == <<
    <<1, "many", "pools">>, <<1, "many", "swaps">>, <<1, "many", "modify_liquidity">>,
    <<1, "many", "position_events">>, <<1, "many", "hook_deployments">>, <<1, "many", "pool_stats">>,
    <<1, "many", "hook_stats">>, <<1, "many", "donates">>, <<1, "many", "claim_token_events">>,
    <<1, "many", "protocol_fee_events">>, <<1, "many", "pool_totals">>, <<1, "many", "hook_totals">>,
    <<1, "many", "aggregator_swaps">>, <<1, "many", "aggregator_pools">>, <<1, "many", "aggregator_fees">> >>
AggregatorSwap_size == <<
    <<1, "string", "id">>, <<1, "string", "pool_id">>, <<1, "string", "hook">>, <<1, "string", "source">>,
    <<1, "string", "sender">>, <<1, "string", "amount0">>, <<1, "string", "amount1">>,
    <<1, "uint32", "protocol_fee_pips">>, <<1, "string", "protocol_fee_amount">>,
    <<1, "string", "protocol_fee_currency">>, <<1, "string", "token0">>, <<1, "string", "token1">>,
    <<1, "bool", "verified">>, <<1, "one", "meta">> >>
AggregatorPool_size == <<
    <<1, "string", "pool_id">>, <<1, "string", "hook">>, <<1, "string", "source">>, <<1, "string", "token0">>,
    <<1, "string", "token1">>, <<1, "bool", "verified">>, <<1, "one", "meta">> >>
AggregatorFee_size == <<
    <<1, "string", "id">>, <<1, "string", "hook">>, <<1, "string", "recipient">>, <<1, "string", "currency">>,
    <<1, "string", "amount">>, <<1, "one", "meta">> >>

\* A write_to that swaps two field numbers.
ClaimTokenEvent_write_swapped == <<
    <<1, "string", "id">>, <<2, "string", "kind">>, <<4, "string", "caller">>, <<3, "string", "owner">>,
    <<5, "string", "from">>, <<6, "string", "to">>, <<7, "string", "spender">>, <<8, "string", "operator">>,
    <<9, "string", "currency_id">>, <<10, "string", "amount">>, <<11, "bool", "approved">>,
    <<12, "one", "meta">> >>

\* write_to of each message.
Meta_write == <<
    <<1, "uint64", "block_number">>, <<2, "uint64", "block_timestamp">>, <<3, "string", "tx_hash">>,
    <<4, "uint32", "log_index">>, <<5, "string", "origin">>, <<6, "uint64", "gas_used">>,
    <<7, "string", "gas_price">> >>
HookPermissions_write == <<
    <<1, "string", "address">>, <<2, "bool", "before_initialize">>, <<3, "bool", "after_initialize">>,
    <<4, "bool", "before_add_liquidity">>, <<5, "bool", "after_add_liquidity">>,
    <<6, "bool", "before_remove_liquidity">>, <<7, "bool", "after_remove_liquidity">>,
    <<8, "bool", "before_swap">>, <<9, "bool", "after_swap">>, <<10, "bool", "before_donate">>,
    <<11, "bool", "after_donate">>, <<12, "bool", "before_swap_returns_delta">>,
    <<13, "bool", "after_swap_returns_delta">>, <<14, "bool", "after_add_liquidity_returns_delta">>,
    <<15, "bool", "after_remove_liquidity_returns_delta">>, <<16, "uint32", "flags">>,
    <<17, "bool", "has_hook">> >>
Pool_write == <<
    <<1, "string", "id">>, <<2, "string", "token0">>, <<3, "string", "token1">>, <<4, "uint64", "fee_tier">>,
    <<5, "int32", "tick_spacing">>, <<6, "one", "hook">>, <<7, "string", "sqrt_price">>, <<8, "int32", "tick">>,
    <<9, "string", "liquidity">>, <<10, "bool", "is_dynamic_fee">>, <<11, "one", "meta">>,
    <<12, "string", "token0_symbol">>, <<13, "string", "token1_symbol">>, <<14, "uint32", "token0_decimals">>,
    <<15, "uint32", "token1_decimals">>, <<16, "bool", "decimals_measured">> >>
Swap_write == <<
    <<1, "string", "id">>, <<2, "string", "pool_id">>, <<3, "string", "sender">>, <<4, "string", "amount0">>,
    <<5, "string", "amount1">>, <<6, "string", "sqrt_price_x96">>, <<7, "string", "liquidity">>,
    <<8, "int32", "tick">>, <<9, "uint32", "fee">>, <<10, "one", "meta">>, <<11, "string", "token0">>,
    <<12, "string", "token1">>, <<13, "uint64", "fee_tier">>, <<14, "int32", "tick_spacing">>,
    <<15, "one", "hook">>, <<16, "string", "token0_symbol">>, <<17, "string", "token1_symbol">>,
    <<18, "uint32", "token0_decimals">>, <<19, "uint32", "token1_decimals">>,
    <<20, "bool", "decimals_measured">>, <<21, "string", "amount0_adjusted">>,
    <<22, "string", "amount1_adjusted">>, <<23, "bool", "amounts_adjusted">>, <<24, "string", "amount0_usd">>,
    <<25, "string", "amount1_usd">>, <<26, "string", "amount_usd">>, <<27, "string", "native_price_usd">>,
    <<28, "bool", "priced">>, <<29, "bool", "amount0_priced">>, <<30, "bool", "amount1_priced">> >>
ModifyLiquidity_write == <<
    <<1, "string", "id">>, <<2, "string", "pool_id">>, <<3, "string", "sender">>, <<4, "int32", "tick_lower">>,
    <<5, "int32", "tick_upper">>, <<6, "string", "liquidity_delta">>, <<7, "string", "salt">>,
    <<8, "one", "meta">>, <<9, "string", "token0">>, <<10, "string", "token1">>, <<11, "uint64", "fee_tier">>,
    <<12, "int32", "tick_spacing">>, <<13, "one", "hook">>, <<14, "string", "token0_symbol">>,
    <<15, "string", "token1_symbol">>, <<16, "uint32", "token0_decimals">>, <<17, "uint32", "token1_decimals">>,
    <<18, "bool", "decimals_measured">> >>
PositionEvent_write == <<
    <<1, "string", "id">>, <<2, "string", "token_id">>, <<3, "string", "kind">>, <<4, "string", "address">>,
    <<5, "string", "from">>, <<6, "string", "to">>, <<7, "one", "meta">> >>
HookDeployment_write == <<
    <<1, "string", "id">>, <<2, "string", "hook">>, <<3, "string", "module">>, <<4, "string", "salt">>,
    <<5, "string", "factory">>, <<6, "one", "permissions">>, <<7, "one", "meta">> >>
PoolStats_write == <<
    <<1, "string", "pool_id">>, <<2, "string", "token0">>, <<3, "string", "token1">>,
    <<4, "uint64", "swap_count">>, <<5, "string", "volume_token0_abs">>, <<6, "string", "volume_token1_abs">>,
    <<7, "uint64", "modify_liquidity_count">>, <<8, "one", "hook">>, <<9, "uint64", "last_block">>,
    <<10, "string", "volume_token0_adjusted">>, <<11, "string", "volume_token1_adjusted">>,
    <<12, "bool", "volumes_adjusted">> >>
HookStats_write == <<
    <<1, "string", "hook_address">>, <<2, "one", "permissions">>, <<3, "uint64", "pool_count">>,
    <<4, "uint64", "swap_count">>, <<5, "string", "volume_token0_abs">>, <<6, "string", "volume_token1_abs">>,
    <<7, "uint64", "distinct_fee_values">>, <<8, "uint64", "last_block">> >>
Donate_write == <<
    <<1, "string", "id">>, <<2, "string", "pool_id">>, <<3, "string", "sender">>, <<4, "string", "amount0">>,
    <<5, "string", "amount1">>, <<6, "one", "meta">>, <<7, "string", "token0">>, <<8, "string", "token1">>,
    <<9, "string", "amount0_adjusted">>, <<10, "string", "amount1_adjusted">>,
    <<11, "bool", "amounts_adjusted">> >>
ClaimTokenEvent_write == <<
    <<1, "string", "id">>, <<2, "string", "kind">>, <<3, "string", "caller">>, <<4, "string", "owner">>,
    <<5, "string", "from">>, <<6, "string", "to">>, <<7, "string", "spender">>, <<8, "string", "operator">>,
    <<9, "string", "currency_id">>, <<10, "string", "amount">>, <<11, "bool", "approved">>,
    <<12, "one", "meta">> >>
ProtocolFeeEvent_write == <<
    <<1, "string", "id">>, <<2, "string", "kind">>, <<3, "string", "pool_id">>, <<4, "uint32", "protocol_fee">>,
    <<5, "string", "controller">>, <<6, "one", "meta">> >>
PoolTotals_write == <<
    <<1, "string", "pool_id">>, <<2, "string", "token0">>, <<3, "string", "token1">>,
    <<4, "string", "swap_count">>, <<5, "string", "modify_liquidity_count">>,
    <<6, "string", "volume_token0_abs">>, <<7, "string", "volume_token1_abs">>, <<8, "one", "hook">>,
    <<9, "uint64", "last_block">>, <<10, "string", "volume_token0_adjusted">>,
    <<11, "string", "volume_token1_adjusted">>, <<12, "bool", "volumes_adjusted">> >>
HookTotals_write == <<
    <<1, "string", "hook_address">>, <<2, "one", "permissions">>, <<3, "string", "pool_count">>,
    <<4, "string", "swap_count">>, <<5, "string", "modify_liquidity_count">>,
    <<6, "string", "volume_token0_abs">>, <<7, "string", "volume_token1_abs">>, <<8, "uint64", "last_block">> >>
Events_write == <<
    <<1, "many", "pools">>, <<2, "many", "swaps">>, <<3, "many", "modify_liquidity">>,
    <<4, "many", "position_events">>, <<5, "many", "hook_deployments">>, <<6, "many", "pool_stats">>,
    <<7, "many", "hook_stats">>, <<8, "many", "donates">>, <<9, "many", "claim_token_events">>,
    <<10, "many", "protocol_fee_events">>, <<11, "many", "pool_totals">>, <<12, "many", "hook_totals">>,
    <<13, "many", "aggregator_swaps">>, <<14, "many", "aggregator_pools">>, <<15, "many", "aggregator_fees">> >>
AggregatorSwap_write == <<
    <<1, "string", "id">>, <<2, "string", "pool_id">>, <<3, "string", "hook">>, <<4, "string", "source">>,
    <<5, "string", "sender">>, <<6, "string", "amount0">>, <<7, "string", "amount1">>,
    <<8, "uint32", "protocol_fee_pips">>, <<9, "string", "protocol_fee_amount">>,
    <<10, "string", "protocol_fee_currency">>, <<11, "string", "token0">>, <<12, "string", "token1">>,
    <<13, "bool", "verified">>, <<14, "one", "meta">> >>
AggregatorPool_write == <<
    <<1, "string", "pool_id">>, <<2, "string", "hook">>, <<3, "string", "source">>, <<4, "string", "token0">>,
    <<5, "string", "token1">>, <<6, "bool", "verified">>, <<7, "one", "meta">> >>
AggregatorFee_write == <<
    <<1, "string", "id">>, <<2, "string", "hook">>, <<3, "string", "recipient">>, <<4, "string", "currency">>,
    <<5, "string", "amount">>, <<6, "one", "meta">> >>

\* A merge_field that reads a u32 field as a u64.
Meta_merge_wide == {
    <<1, "uint64", "block_number">>, <<2, "uint64", "block_timestamp">>, <<3, "string", "tx_hash">>,
    <<4, "uint64", "log_index">>, <<5, "string", "origin">>, <<6, "uint64", "gas_used">>,
    <<7, "string", "gas_price">>}

\* merge_field of each message.
Meta_merge == {
    <<1, "uint64", "block_number">>, <<2, "uint64", "block_timestamp">>, <<3, "string", "tx_hash">>,
    <<4, "uint32", "log_index">>, <<5, "string", "origin">>, <<6, "uint64", "gas_used">>,
    <<7, "string", "gas_price">>}
HookPermissions_merge == {
    <<1, "string", "address">>, <<2, "bool", "before_initialize">>, <<3, "bool", "after_initialize">>,
    <<4, "bool", "before_add_liquidity">>, <<5, "bool", "after_add_liquidity">>,
    <<6, "bool", "before_remove_liquidity">>, <<7, "bool", "after_remove_liquidity">>,
    <<8, "bool", "before_swap">>, <<9, "bool", "after_swap">>, <<10, "bool", "before_donate">>,
    <<11, "bool", "after_donate">>, <<12, "bool", "before_swap_returns_delta">>,
    <<13, "bool", "after_swap_returns_delta">>, <<14, "bool", "after_add_liquidity_returns_delta">>,
    <<15, "bool", "after_remove_liquidity_returns_delta">>, <<16, "uint32", "flags">>,
    <<17, "bool", "has_hook">>}
Pool_merge == {
    <<1, "string", "id">>, <<2, "string", "token0">>, <<3, "string", "token1">>, <<4, "uint64", "fee_tier">>,
    <<5, "int32", "tick_spacing">>, <<6, "one", "hook">>, <<7, "string", "sqrt_price">>, <<8, "int32", "tick">>,
    <<9, "string", "liquidity">>, <<10, "bool", "is_dynamic_fee">>, <<11, "one", "meta">>,
    <<12, "string", "token0_symbol">>, <<13, "string", "token1_symbol">>, <<14, "uint32", "token0_decimals">>,
    <<15, "uint32", "token1_decimals">>, <<16, "bool", "decimals_measured">>}
Swap_merge == {
    <<1, "string", "id">>, <<2, "string", "pool_id">>, <<3, "string", "sender">>, <<4, "string", "amount0">>,
    <<5, "string", "amount1">>, <<6, "string", "sqrt_price_x96">>, <<7, "string", "liquidity">>,
    <<8, "int32", "tick">>, <<9, "uint32", "fee">>, <<10, "one", "meta">>, <<11, "string", "token0">>,
    <<12, "string", "token1">>, <<13, "uint64", "fee_tier">>, <<14, "int32", "tick_spacing">>,
    <<15, "one", "hook">>, <<16, "string", "token0_symbol">>, <<17, "string", "token1_symbol">>,
    <<18, "uint32", "token0_decimals">>, <<19, "uint32", "token1_decimals">>,
    <<20, "bool", "decimals_measured">>, <<21, "string", "amount0_adjusted">>,
    <<22, "string", "amount1_adjusted">>, <<23, "bool", "amounts_adjusted">>, <<24, "string", "amount0_usd">>,
    <<25, "string", "amount1_usd">>, <<26, "string", "amount_usd">>, <<27, "string", "native_price_usd">>,
    <<28, "bool", "priced">>, <<29, "bool", "amount0_priced">>, <<30, "bool", "amount1_priced">>}
ModifyLiquidity_merge == {
    <<1, "string", "id">>, <<2, "string", "pool_id">>, <<3, "string", "sender">>, <<4, "int32", "tick_lower">>,
    <<5, "int32", "tick_upper">>, <<6, "string", "liquidity_delta">>, <<7, "string", "salt">>,
    <<8, "one", "meta">>, <<9, "string", "token0">>, <<10, "string", "token1">>, <<11, "uint64", "fee_tier">>,
    <<12, "int32", "tick_spacing">>, <<13, "one", "hook">>, <<14, "string", "token0_symbol">>,
    <<15, "string", "token1_symbol">>, <<16, "uint32", "token0_decimals">>, <<17, "uint32", "token1_decimals">>,
    <<18, "bool", "decimals_measured">>}
PositionEvent_merge == {
    <<1, "string", "id">>, <<2, "string", "token_id">>, <<3, "string", "kind">>, <<4, "string", "address">>,
    <<5, "string", "from">>, <<6, "string", "to">>, <<7, "one", "meta">>}
HookDeployment_merge == {
    <<1, "string", "id">>, <<2, "string", "hook">>, <<3, "string", "module">>, <<4, "string", "salt">>,
    <<5, "string", "factory">>, <<6, "one", "permissions">>, <<7, "one", "meta">>}
PoolStats_merge == {
    <<1, "string", "pool_id">>, <<2, "string", "token0">>, <<3, "string", "token1">>,
    <<4, "uint64", "swap_count">>, <<5, "string", "volume_token0_abs">>, <<6, "string", "volume_token1_abs">>,
    <<7, "uint64", "modify_liquidity_count">>, <<8, "one", "hook">>, <<9, "uint64", "last_block">>,
    <<10, "string", "volume_token0_adjusted">>, <<11, "string", "volume_token1_adjusted">>,
    <<12, "bool", "volumes_adjusted">>}
HookStats_merge == {
    <<1, "string", "hook_address">>, <<2, "one", "permissions">>, <<3, "uint64", "pool_count">>,
    <<4, "uint64", "swap_count">>, <<5, "string", "volume_token0_abs">>, <<6, "string", "volume_token1_abs">>,
    <<7, "uint64", "distinct_fee_values">>, <<8, "uint64", "last_block">>}
Donate_merge == {
    <<1, "string", "id">>, <<2, "string", "pool_id">>, <<3, "string", "sender">>, <<4, "string", "amount0">>,
    <<5, "string", "amount1">>, <<6, "one", "meta">>, <<7, "string", "token0">>, <<8, "string", "token1">>,
    <<9, "string", "amount0_adjusted">>, <<10, "string", "amount1_adjusted">>,
    <<11, "bool", "amounts_adjusted">>}
ClaimTokenEvent_merge == {
    <<1, "string", "id">>, <<2, "string", "kind">>, <<3, "string", "caller">>, <<4, "string", "owner">>,
    <<5, "string", "from">>, <<6, "string", "to">>, <<7, "string", "spender">>, <<8, "string", "operator">>,
    <<9, "string", "currency_id">>, <<10, "string", "amount">>, <<11, "bool", "approved">>,
    <<12, "one", "meta">>}
ProtocolFeeEvent_merge == {
    <<1, "string", "id">>, <<2, "string", "kind">>, <<3, "string", "pool_id">>, <<4, "uint32", "protocol_fee">>,
    <<5, "string", "controller">>, <<6, "one", "meta">>}
PoolTotals_merge == {
    <<1, "string", "pool_id">>, <<2, "string", "token0">>, <<3, "string", "token1">>,
    <<4, "string", "swap_count">>, <<5, "string", "modify_liquidity_count">>,
    <<6, "string", "volume_token0_abs">>, <<7, "string", "volume_token1_abs">>, <<8, "one", "hook">>,
    <<9, "uint64", "last_block">>, <<10, "string", "volume_token0_adjusted">>,
    <<11, "string", "volume_token1_adjusted">>, <<12, "bool", "volumes_adjusted">>}
HookTotals_merge == {
    <<1, "string", "hook_address">>, <<2, "one", "permissions">>, <<3, "string", "pool_count">>,
    <<4, "string", "swap_count">>, <<5, "string", "modify_liquidity_count">>,
    <<6, "string", "volume_token0_abs">>, <<7, "string", "volume_token1_abs">>, <<8, "uint64", "last_block">>}
Events_merge == {
    <<1, "many", "pools">>, <<2, "many", "swaps">>, <<3, "many", "modify_liquidity">>,
    <<4, "many", "position_events">>, <<5, "many", "hook_deployments">>, <<6, "many", "pool_stats">>,
    <<7, "many", "hook_stats">>, <<8, "many", "donates">>, <<9, "many", "claim_token_events">>,
    <<10, "many", "protocol_fee_events">>, <<11, "many", "pool_totals">>, <<12, "many", "hook_totals">>,
    <<13, "many", "aggregator_swaps">>, <<14, "many", "aggregator_pools">>, <<15, "many", "aggregator_fees">>}
AggregatorSwap_merge == {
    <<1, "string", "id">>, <<2, "string", "pool_id">>, <<3, "string", "hook">>, <<4, "string", "source">>,
    <<5, "string", "sender">>, <<6, "string", "amount0">>, <<7, "string", "amount1">>,
    <<8, "uint32", "protocol_fee_pips">>, <<9, "string", "protocol_fee_amount">>,
    <<10, "string", "protocol_fee_currency">>, <<11, "string", "token0">>, <<12, "string", "token1">>,
    <<13, "bool", "verified">>, <<14, "one", "meta">>}
AggregatorPool_merge == {
    <<1, "string", "pool_id">>, <<2, "string", "hook">>, <<3, "string", "source">>, <<4, "string", "token0">>,
    <<5, "string", "token1">>, <<6, "bool", "verified">>, <<7, "one", "meta">>}
AggregatorFee_merge == {
    <<1, "string", "id">>, <<2, "string", "hook">>, <<3, "string", "recipient">>, <<4, "string", "currency">>,
    <<5, "string", "amount">>, <<6, "one", "meta">>}

\* clear of each message.
Meta_clear == { "block_number", "block_timestamp", "tx_hash", "log_index", "origin", "gas_used", "gas_price"}
HookPermissions_clear == {
    "address", "before_initialize", "after_initialize", "before_add_liquidity", "after_add_liquidity",
    "before_remove_liquidity", "after_remove_liquidity", "before_swap", "after_swap", "before_donate",
    "after_donate", "before_swap_returns_delta", "after_swap_returns_delta",
    "after_add_liquidity_returns_delta", "after_remove_liquidity_returns_delta", "flags", "has_hook"}
Pool_clear == {
    "id", "token0", "token1", "fee_tier", "tick_spacing", "hook", "sqrt_price", "tick", "liquidity",
    "is_dynamic_fee", "meta", "token0_symbol", "token1_symbol", "token0_decimals", "token1_decimals",
    "decimals_measured"}
Swap_clear == {
    "id", "pool_id", "sender", "amount0", "amount1", "sqrt_price_x96", "liquidity", "tick", "fee", "meta",
    "token0", "token1", "fee_tier", "tick_spacing", "hook", "token0_symbol", "token1_symbol", "token0_decimals",
    "token1_decimals", "decimals_measured", "amount0_adjusted", "amount1_adjusted", "amounts_adjusted",
    "amount0_usd", "amount1_usd", "amount_usd", "native_price_usd", "priced", "amount0_priced", "amount1_priced"}
ModifyLiquidity_clear == {
    "id", "pool_id", "sender", "tick_lower", "tick_upper", "liquidity_delta", "salt", "meta", "token0",
    "token1", "fee_tier", "tick_spacing", "hook", "token0_symbol", "token1_symbol", "token0_decimals",
    "token1_decimals", "decimals_measured"}
PositionEvent_clear == { "id", "token_id", "kind", "address", "from", "to", "meta"}
HookDeployment_clear == { "id", "hook", "module", "salt", "factory", "permissions", "meta"}
PoolStats_clear == {
    "pool_id", "token0", "token1", "swap_count", "volume_token0_abs", "volume_token1_abs",
    "modify_liquidity_count", "hook", "last_block", "volume_token0_adjusted", "volume_token1_adjusted",
    "volumes_adjusted"}
HookStats_clear == {
    "hook_address", "permissions", "pool_count", "swap_count", "volume_token0_abs", "volume_token1_abs",
    "distinct_fee_values", "last_block"}
Donate_clear == {
    "id", "pool_id", "sender", "amount0", "amount1", "meta", "token0", "token1", "amount0_adjusted",
    "amount1_adjusted", "amounts_adjusted"}
ClaimTokenEvent_clear == {
    "id", "kind", "caller", "owner", "from", "to", "spender", "operator", "currency_id", "amount", "approved",
    "meta"}
ProtocolFeeEvent_clear == { "id", "kind", "pool_id", "protocol_fee", "controller", "meta"}
PoolTotals_clear == {
    "pool_id", "token0", "token1", "swap_count", "modify_liquidity_count", "volume_token0_abs",
    "volume_token1_abs", "hook", "last_block", "volume_token0_adjusted", "volume_token1_adjusted",
    "volumes_adjusted"}
HookTotals_clear == {
    "hook_address", "permissions", "pool_count", "swap_count", "modify_liquidity_count", "volume_token0_abs",
    "volume_token1_abs", "last_block"}
Events_clear == {
    "pools", "swaps", "modify_liquidity", "position_events", "hook_deployments", "pool_stats", "hook_stats",
    "donates", "claim_token_events", "protocol_fee_events", "pool_totals", "hook_totals", "aggregator_swaps",
    "aggregator_pools", "aggregator_fees"}
AggregatorSwap_clear == {
    "id", "pool_id", "hook", "source", "sender", "amount0", "amount1", "protocol_fee_pips",
    "protocol_fee_amount", "protocol_fee_currency", "token0", "token1", "verified", "meta"}
AggregatorPool_clear == { "pool_id", "hook", "source", "token0", "token1", "verified", "meta"}
AggregatorFee_clear == { "id", "hook", "recipient", "currency", "amount", "meta"}

\* By message.
Fields == [
    Meta |-> Meta_fields, HookPermissions |-> HookPermissions_fields, Pool |-> Pool_fields,
    Swap |-> Swap_fields, ModifyLiquidity |-> ModifyLiquidity_fields, PositionEvent |-> PositionEvent_fields,
    HookDeployment |-> HookDeployment_fields, PoolStats |-> PoolStats_fields, HookStats |-> HookStats_fields,
    Donate |-> Donate_fields, ClaimTokenEvent |-> ClaimTokenEvent_fields,
    ProtocolFeeEvent |-> ProtocolFeeEvent_fields, PoolTotals |-> PoolTotals_fields,
    HookTotals |-> HookTotals_fields, Events |-> Events_fields, AggregatorSwap |-> AggregatorSwap_fields,
    AggregatorPool |-> AggregatorPool_fields, AggregatorFee |-> AggregatorFee_fields]
OwnedSize == [
    Meta |-> Meta_size, HookPermissions |-> HookPermissions_size, Pool |-> Pool_size, Swap |-> Swap_size,
    ModifyLiquidity |-> ModifyLiquidity_size, PositionEvent |-> PositionEvent_size,
    HookDeployment |-> HookDeployment_size, PoolStats |-> PoolStats_size, HookStats |-> HookStats_size,
    Donate |-> Donate_size, ClaimTokenEvent |-> ClaimTokenEvent_size,
    ProtocolFeeEvent |-> ProtocolFeeEvent_size, PoolTotals |-> PoolTotals_size, HookTotals |-> HookTotals_size,
    Events |-> Events_size, AggregatorSwap |-> AggregatorSwap_size, AggregatorPool |-> AggregatorPool_size,
    AggregatorFee |-> AggregatorFee_size]
OwnedWrite == [
    Meta |-> Meta_write, HookPermissions |-> HookPermissions_write, Pool |-> Pool_write, Swap |-> Swap_write,
    ModifyLiquidity |-> ModifyLiquidity_write, PositionEvent |-> PositionEvent_write,
    HookDeployment |-> HookDeployment_write, PoolStats |-> PoolStats_write, HookStats |-> HookStats_write,
    Donate |-> Donate_write, ClaimTokenEvent |-> ClaimTokenEvent_write,
    ProtocolFeeEvent |-> ProtocolFeeEvent_write, PoolTotals |-> PoolTotals_write,
    HookTotals |-> HookTotals_write, Events |-> Events_write, AggregatorSwap |-> AggregatorSwap_write,
    AggregatorPool |-> AggregatorPool_write, AggregatorFee |-> AggregatorFee_write]
OwnedMerge == [
    Meta |-> Meta_merge, HookPermissions |-> HookPermissions_merge, Pool |-> Pool_merge, Swap |-> Swap_merge,
    ModifyLiquidity |-> ModifyLiquidity_merge, PositionEvent |-> PositionEvent_merge,
    HookDeployment |-> HookDeployment_merge, PoolStats |-> PoolStats_merge, HookStats |-> HookStats_merge,
    Donate |-> Donate_merge, ClaimTokenEvent |-> ClaimTokenEvent_merge,
    ProtocolFeeEvent |-> ProtocolFeeEvent_merge, PoolTotals |-> PoolTotals_merge,
    HookTotals |-> HookTotals_merge, Events |-> Events_merge, AggregatorSwap |-> AggregatorSwap_merge,
    AggregatorPool |-> AggregatorPool_merge, AggregatorFee |-> AggregatorFee_merge]
OwnedClear == [
    Meta |-> Meta_clear, HookPermissions |-> HookPermissions_clear, Pool |-> Pool_clear, Swap |-> Swap_clear,
    ModifyLiquidity |-> ModifyLiquidity_clear, PositionEvent |-> PositionEvent_clear,
    HookDeployment |-> HookDeployment_clear, PoolStats |-> PoolStats_clear, HookStats |-> HookStats_clear,
    Donate |-> Donate_clear, ClaimTokenEvent |-> ClaimTokenEvent_clear,
    ProtocolFeeEvent |-> ProtocolFeeEvent_clear, PoolTotals |-> PoolTotals_clear,
    HookTotals |-> HookTotals_clear, Events |-> Events_clear, AggregatorSwap |-> AggregatorSwap_clear,
    AggregatorPool |-> AggregatorPool_clear, AggregatorFee |-> AggregatorFee_clear]

==============================================================================
