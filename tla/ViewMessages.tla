------------------------- MODULE ViewMessages -------------------------
(***************************************************************************)
(* The borrowed views of the same messages, decoded whole at once.  Their  *)
(* struct fields have the types of the owned ones.                         *)
(*                                                                         *)
(* XView_merge  merge_view_field        XView_owned  to_owned_from_source, *)
(* XView_size   compute_size                         by how a field is     *)
(* XView_write  write_to                             copied                *)
(***************************************************************************)

\* A merge_view_field without one of its arms.
HookDeploymentView_merge_short == {
    <<1, "string", "id">>, <<2, "string", "hook">>, <<4, "string", "salt">>, <<5, "string", "factory">>,
    <<6, "one", "permissions">>, <<7, "one", "meta">>}

\* merge_view_field of each view.
MetaView_merge == {
    <<1, "uint64", "block_number">>, <<2, "uint64", "block_timestamp">>, <<3, "string", "tx_hash">>,
    <<4, "uint32", "log_index">>, <<5, "string", "origin">>, <<6, "uint64", "gas_used">>,
    <<7, "string", "gas_price">>}
HookPermissionsView_merge == {
    <<1, "string", "address">>, <<2, "bool", "before_initialize">>, <<3, "bool", "after_initialize">>,
    <<4, "bool", "before_add_liquidity">>, <<5, "bool", "after_add_liquidity">>,
    <<6, "bool", "before_remove_liquidity">>, <<7, "bool", "after_remove_liquidity">>,
    <<8, "bool", "before_swap">>, <<9, "bool", "after_swap">>, <<10, "bool", "before_donate">>,
    <<11, "bool", "after_donate">>, <<12, "bool", "before_swap_returns_delta">>,
    <<13, "bool", "after_swap_returns_delta">>, <<14, "bool", "after_add_liquidity_returns_delta">>,
    <<15, "bool", "after_remove_liquidity_returns_delta">>, <<16, "uint32", "flags">>,
    <<17, "bool", "has_hook">>}
PoolView_merge == {
    <<1, "string", "id">>, <<2, "string", "token0">>, <<3, "string", "token1">>, <<4, "uint64", "fee_tier">>,
    <<5, "int32", "tick_spacing">>, <<6, "one", "hook">>, <<7, "string", "sqrt_price">>, <<8, "int32", "tick">>,
    <<9, "string", "liquidity">>, <<10, "bool", "is_dynamic_fee">>, <<11, "one", "meta">>,
    <<12, "string", "token0_symbol">>, <<13, "string", "token1_symbol">>, <<14, "uint32", "token0_decimals">>,
    <<15, "uint32", "token1_decimals">>, <<16, "bool", "decimals_measured">>}
SwapView_merge == {
    <<1, "string", "id">>, <<2, "string", "pool_id">>, <<3, "string", "sender">>, <<4, "string", "amount0">>,
    <<5, "string", "amount1">>, <<6, "string", "sqrt_price_x96">>, <<7, "string", "liquidity">>,
    <<8, "int32", "tick">>, <<9, "uint32", "fee">>, <<10, "one", "meta">>, <<11, "string", "token0">>,
    <<12, "string", "token1">>, <<13, "uint64", "fee_tier">>, <<14, "int32", "tick_spacing">>,
    <<15, "one", "hook">>, <<16, "string", "token0_symbol">>, <<17, "string", "token1_symbol">>,
    <<18, "uint32", "token0_decimals">>, <<19, "uint32", "token1_decimals">>,
    <<20, "bool", "decimals_measured">>, <<21, "string", "amount0_adjusted">>,
    <<22, "string", "amount1_adjusted">>, <<23, "bool", "amounts_adjusted">>, <<24, "string", "amount0_usd">>,
    <<25, "string", "amount1_usd">>, <<26, "string", "amount_usd">>, <<27, "string", "native_price_usd">>,
    <<28, "bool", "priced">>, <<29, "bool", "amount0_priced">>, <<30, "bool", "amount1_priced">>}
ModifyLiquidityView_merge == {
    <<1, "string", "id">>, <<2, "string", "pool_id">>, <<3, "string", "sender">>, <<4, "int32", "tick_lower">>,
    <<5, "int32", "tick_upper">>, <<6, "string", "liquidity_delta">>, <<7, "string", "salt">>,
    <<8, "one", "meta">>, <<9, "string", "token0">>, <<10, "string", "token1">>, <<11, "uint64", "fee_tier">>,
    <<12, "int32", "tick_spacing">>, <<13, "one", "hook">>, <<14, "string", "token0_symbol">>,
    <<15, "string", "token1_symbol">>, <<16, "uint32", "token0_decimals">>, <<17, "uint32", "token1_decimals">>,
    <<18, "bool", "decimals_measured">>}
PositionEventView_merge == {
    <<1, "string", "id">>, <<2, "string", "token_id">>, <<3, "string", "kind">>, <<4, "string", "address">>,
    <<5, "string", "from">>, <<6, "string", "to">>, <<7, "one", "meta">>}
HookDeploymentView_merge == {
    <<1, "string", "id">>, <<2, "string", "hook">>, <<3, "string", "module">>, <<4, "string", "salt">>,
    <<5, "string", "factory">>, <<6, "one", "permissions">>, <<7, "one", "meta">>}
PoolStatsView_merge == {
    <<1, "string", "pool_id">>, <<2, "string", "token0">>, <<3, "string", "token1">>,
    <<4, "uint64", "swap_count">>, <<5, "string", "volume_token0_abs">>, <<6, "string", "volume_token1_abs">>,
    <<7, "uint64", "modify_liquidity_count">>, <<8, "one", "hook">>, <<9, "uint64", "last_block">>,
    <<10, "string", "volume_token0_adjusted">>, <<11, "string", "volume_token1_adjusted">>,
    <<12, "bool", "volumes_adjusted">>}
HookStatsView_merge == {
    <<1, "string", "hook_address">>, <<2, "one", "permissions">>, <<3, "uint64", "pool_count">>,
    <<4, "uint64", "swap_count">>, <<5, "string", "volume_token0_abs">>, <<6, "string", "volume_token1_abs">>,
    <<7, "uint64", "distinct_fee_values">>, <<8, "uint64", "last_block">>}
DonateView_merge == {
    <<1, "string", "id">>, <<2, "string", "pool_id">>, <<3, "string", "sender">>, <<4, "string", "amount0">>,
    <<5, "string", "amount1">>, <<6, "one", "meta">>, <<7, "string", "token0">>, <<8, "string", "token1">>,
    <<9, "string", "amount0_adjusted">>, <<10, "string", "amount1_adjusted">>,
    <<11, "bool", "amounts_adjusted">>}
ClaimTokenEventView_merge == {
    <<1, "string", "id">>, <<2, "string", "kind">>, <<3, "string", "caller">>, <<4, "string", "owner">>,
    <<5, "string", "from">>, <<6, "string", "to">>, <<7, "string", "spender">>, <<8, "string", "operator">>,
    <<9, "string", "currency_id">>, <<10, "string", "amount">>, <<11, "bool", "approved">>,
    <<12, "one", "meta">>}
ProtocolFeeEventView_merge == {
    <<1, "string", "id">>, <<2, "string", "kind">>, <<3, "string", "pool_id">>, <<4, "uint32", "protocol_fee">>,
    <<5, "string", "controller">>, <<6, "one", "meta">>}
PoolTotalsView_merge == {
    <<1, "string", "pool_id">>, <<2, "string", "token0">>, <<3, "string", "token1">>,
    <<4, "string", "swap_count">>, <<5, "string", "modify_liquidity_count">>,
    <<6, "string", "volume_token0_abs">>, <<7, "string", "volume_token1_abs">>, <<8, "one", "hook">>,
    <<9, "uint64", "last_block">>, <<10, "string", "volume_token0_adjusted">>,
    <<11, "string", "volume_token1_adjusted">>, <<12, "bool", "volumes_adjusted">>}
HookTotalsView_merge == {
    <<1, "string", "hook_address">>, <<2, "one", "permissions">>, <<3, "string", "pool_count">>,
    <<4, "string", "swap_count">>, <<5, "string", "modify_liquidity_count">>,
    <<6, "string", "volume_token0_abs">>, <<7, "string", "volume_token1_abs">>, <<8, "uint64", "last_block">>}
EventsView_merge == {
    <<1, "many", "pools">>, <<2, "many", "swaps">>, <<3, "many", "modify_liquidity">>,
    <<4, "many", "position_events">>, <<5, "many", "hook_deployments">>, <<6, "many", "pool_stats">>,
    <<7, "many", "hook_stats">>, <<8, "many", "donates">>, <<9, "many", "claim_token_events">>,
    <<10, "many", "protocol_fee_events">>, <<11, "many", "pool_totals">>, <<12, "many", "hook_totals">>,
    <<13, "many", "aggregator_swaps">>, <<14, "many", "aggregator_pools">>, <<15, "many", "aggregator_fees">>}
AggregatorSwapView_merge == {
    <<1, "string", "id">>, <<2, "string", "pool_id">>, <<3, "string", "hook">>, <<4, "string", "source">>,
    <<5, "string", "sender">>, <<6, "string", "amount0">>, <<7, "string", "amount1">>,
    <<8, "uint32", "protocol_fee_pips">>, <<9, "string", "protocol_fee_amount">>,
    <<10, "string", "protocol_fee_currency">>, <<11, "string", "token0">>, <<12, "string", "token1">>,
    <<13, "bool", "verified">>, <<14, "one", "meta">>}
AggregatorPoolView_merge == {
    <<1, "string", "pool_id">>, <<2, "string", "hook">>, <<3, "string", "source">>, <<4, "string", "token0">>,
    <<5, "string", "token1">>, <<6, "bool", "verified">>, <<7, "one", "meta">>}
AggregatorFeeView_merge == {
    <<1, "string", "id">>, <<2, "string", "hook">>, <<3, "string", "recipient">>, <<4, "string", "currency">>,
    <<5, "string", "amount">>, <<6, "one", "meta">>}

\* to_owned_from_source of each view.
MetaView_owned == [
    copy |-> {"block_number", "block_timestamp", "tx_hash", "log_index", "origin", "gas_used", "gas_price"},
    one |-> {}, many |-> {}]
HookPermissionsView_owned == [
    copy |-> {"address", "before_initialize", "after_initialize", "before_add_liquidity", "after_add_liquidity",
    "before_remove_liquidity", "after_remove_liquidity", "before_swap", "after_swap", "before_donate",
    "after_donate", "before_swap_returns_delta", "after_swap_returns_delta",
    "after_add_liquidity_returns_delta", "after_remove_liquidity_returns_delta", "flags", "has_hook"},
    one |-> {}, many |-> {}]
PoolView_owned == [
    copy |-> {"id", "token0", "token1", "fee_tier", "tick_spacing", "sqrt_price", "tick", "liquidity",
    "is_dynamic_fee", "token0_symbol", "token1_symbol", "token0_decimals", "token1_decimals",
    "decimals_measured"}, one |-> {"hook", "meta"}, many |-> {}]
SwapView_owned == [
    copy |-> {"id", "pool_id", "sender", "amount0", "amount1", "sqrt_price_x96", "liquidity", "tick", "fee",
    "token0", "token1", "fee_tier", "tick_spacing", "token0_symbol", "token1_symbol", "token0_decimals",
    "token1_decimals", "decimals_measured", "amount0_adjusted", "amount1_adjusted", "amounts_adjusted",
    "amount0_usd", "amount1_usd", "amount_usd", "native_price_usd", "priced", "amount0_priced",
    "amount1_priced"}, one |-> {"meta", "hook"}, many |-> {}]
ModifyLiquidityView_owned == [
    copy |-> {"id", "pool_id", "sender", "tick_lower", "tick_upper", "liquidity_delta", "salt", "token0",
    "token1", "fee_tier", "tick_spacing", "token0_symbol", "token1_symbol", "token0_decimals",
    "token1_decimals", "decimals_measured"}, one |-> {"meta", "hook"}, many |-> {}]
PositionEventView_owned == [
    copy |-> {"id", "token_id", "kind", "address", "from", "to"}, one |-> {"meta"}, many |-> {}]
HookDeploymentView_owned == [
    copy |-> {"id", "hook", "module", "salt", "factory"}, one |-> {"permissions", "meta"}, many |-> {}]
PoolStatsView_owned == [
    copy |-> {"pool_id", "token0", "token1", "swap_count", "volume_token0_abs", "volume_token1_abs",
    "modify_liquidity_count", "last_block", "volume_token0_adjusted", "volume_token1_adjusted",
    "volumes_adjusted"}, one |-> {"hook"}, many |-> {}]
HookStatsView_owned == [
    copy |-> {"hook_address", "pool_count", "swap_count", "volume_token0_abs", "volume_token1_abs",
    "distinct_fee_values", "last_block"}, one |-> {"permissions"}, many |-> {}]
DonateView_owned == [
    copy |-> {"id", "pool_id", "sender", "amount0", "amount1", "token0", "token1", "amount0_adjusted",
    "amount1_adjusted", "amounts_adjusted"}, one |-> {"meta"}, many |-> {}]
ClaimTokenEventView_owned == [
    copy |-> {"id", "kind", "caller", "owner", "from", "to", "spender", "operator", "currency_id", "amount",
    "approved"}, one |-> {"meta"}, many |-> {}]
ProtocolFeeEventView_owned == [
    copy |-> {"id", "kind", "pool_id", "protocol_fee", "controller"}, one |-> {"meta"}, many |-> {}]
PoolTotalsView_owned == [
    copy |-> {"pool_id", "token0", "token1", "swap_count", "modify_liquidity_count", "volume_token0_abs",
    "volume_token1_abs", "last_block", "volume_token0_adjusted", "volume_token1_adjusted", "volumes_adjusted"},
    one |-> {"hook"}, many |-> {}]
HookTotalsView_owned == [
    copy |-> {"hook_address", "pool_count", "swap_count", "modify_liquidity_count", "volume_token0_abs",
    "volume_token1_abs", "last_block"}, one |-> {"permissions"}, many |-> {}]
EventsView_owned == [
    copy |-> {}, one |-> {}, many |-> {"pools", "swaps", "modify_liquidity", "position_events",
    "hook_deployments", "pool_stats", "hook_stats", "donates", "claim_token_events", "protocol_fee_events",
    "pool_totals", "hook_totals", "aggregator_swaps", "aggregator_pools", "aggregator_fees"}]
AggregatorSwapView_owned == [
    copy |-> {"id", "pool_id", "hook", "source", "sender", "amount0", "amount1", "protocol_fee_pips",
    "protocol_fee_amount", "protocol_fee_currency", "token0", "token1", "verified"}, one |-> {"meta"},
    many |-> {}]
AggregatorPoolView_owned == [
    copy |-> {"pool_id", "hook", "source", "token0", "token1", "verified"}, one |-> {"meta"}, many |-> {}]
AggregatorFeeView_owned == [
    copy |-> {"id", "hook", "recipient", "currency", "amount"}, one |-> {"meta"}, many |-> {}]

\* compute_size of each view.
MetaView_size == <<
    <<1, "uint64", "block_number">>, <<1, "uint64", "block_timestamp">>, <<1, "string", "tx_hash">>,
    <<1, "uint32", "log_index">>, <<1, "string", "origin">>, <<1, "uint64", "gas_used">>,
    <<1, "string", "gas_price">> >>
HookPermissionsView_size == <<
    <<1, "string", "address">>, <<1, "bool", "before_initialize">>, <<1, "bool", "after_initialize">>,
    <<1, "bool", "before_add_liquidity">>, <<1, "bool", "after_add_liquidity">>,
    <<1, "bool", "before_remove_liquidity">>, <<1, "bool", "after_remove_liquidity">>,
    <<1, "bool", "before_swap">>, <<1, "bool", "after_swap">>, <<1, "bool", "before_donate">>,
    <<1, "bool", "after_donate">>, <<1, "bool", "before_swap_returns_delta">>,
    <<1, "bool", "after_swap_returns_delta">>, <<1, "bool", "after_add_liquidity_returns_delta">>,
    <<1, "bool", "after_remove_liquidity_returns_delta">>, <<2, "uint32", "flags">>, <<2, "bool", "has_hook">> >>
PoolView_size == <<
    <<1, "string", "id">>, <<1, "string", "token0">>, <<1, "string", "token1">>, <<1, "uint64", "fee_tier">>,
    <<1, "int32", "tick_spacing">>, <<1, "one", "hook">>, <<1, "string", "sqrt_price">>, <<1, "int32", "tick">>,
    <<1, "string", "liquidity">>, <<1, "bool", "is_dynamic_fee">>, <<1, "one", "meta">>,
    <<1, "string", "token0_symbol">>, <<1, "string", "token1_symbol">>, <<1, "uint32", "token0_decimals">>,
    <<1, "uint32", "token1_decimals">>, <<2, "bool", "decimals_measured">> >>
SwapView_size == <<
    <<1, "string", "id">>, <<1, "string", "pool_id">>, <<1, "string", "sender">>, <<1, "string", "amount0">>,
    <<1, "string", "amount1">>, <<1, "string", "sqrt_price_x96">>, <<1, "string", "liquidity">>,
    <<1, "int32", "tick">>, <<1, "uint32", "fee">>, <<1, "one", "meta">>, <<1, "string", "token0">>,
    <<1, "string", "token1">>, <<1, "uint64", "fee_tier">>, <<1, "int32", "tick_spacing">>,
    <<1, "one", "hook">>, <<2, "string", "token0_symbol">>, <<2, "string", "token1_symbol">>,
    <<2, "uint32", "token0_decimals">>, <<2, "uint32", "token1_decimals">>, <<2, "bool", "decimals_measured">>,
    <<2, "string", "amount0_adjusted">>, <<2, "string", "amount1_adjusted">>, <<2, "bool", "amounts_adjusted">>,
    <<2, "string", "amount0_usd">>, <<2, "string", "amount1_usd">>, <<2, "string", "amount_usd">>,
    <<2, "string", "native_price_usd">>, <<2, "bool", "priced">>, <<2, "bool", "amount0_priced">>,
    <<2, "bool", "amount1_priced">> >>
ModifyLiquidityView_size == <<
    <<1, "string", "id">>, <<1, "string", "pool_id">>, <<1, "string", "sender">>, <<1, "int32", "tick_lower">>,
    <<1, "int32", "tick_upper">>, <<1, "string", "liquidity_delta">>, <<1, "string", "salt">>,
    <<1, "one", "meta">>, <<1, "string", "token0">>, <<1, "string", "token1">>, <<1, "uint64", "fee_tier">>,
    <<1, "int32", "tick_spacing">>, <<1, "one", "hook">>, <<1, "string", "token0_symbol">>,
    <<1, "string", "token1_symbol">>, <<2, "uint32", "token0_decimals">>, <<2, "uint32", "token1_decimals">>,
    <<2, "bool", "decimals_measured">> >>
PositionEventView_size == <<
    <<1, "string", "id">>, <<1, "string", "token_id">>, <<1, "string", "kind">>, <<1, "string", "address">>,
    <<1, "string", "from">>, <<1, "string", "to">>, <<1, "one", "meta">> >>
HookDeploymentView_size == <<
    <<1, "string", "id">>, <<1, "string", "hook">>, <<1, "string", "module">>, <<1, "string", "salt">>,
    <<1, "string", "factory">>, <<1, "one", "permissions">>, <<1, "one", "meta">> >>
PoolStatsView_size == <<
    <<1, "string", "pool_id">>, <<1, "string", "token0">>, <<1, "string", "token1">>,
    <<1, "uint64", "swap_count">>, <<1, "string", "volume_token0_abs">>, <<1, "string", "volume_token1_abs">>,
    <<1, "uint64", "modify_liquidity_count">>, <<1, "one", "hook">>, <<1, "uint64", "last_block">>,
    <<1, "string", "volume_token0_adjusted">>, <<1, "string", "volume_token1_adjusted">>,
    <<1, "bool", "volumes_adjusted">> >>
HookStatsView_size == <<
    <<1, "string", "hook_address">>, <<1, "one", "permissions">>, <<1, "uint64", "pool_count">>,
    <<1, "uint64", "swap_count">>, <<1, "string", "volume_token0_abs">>, <<1, "string", "volume_token1_abs">>,
    <<1, "uint64", "distinct_fee_values">>, <<1, "uint64", "last_block">> >>
DonateView_size == <<
    <<1, "string", "id">>, <<1, "string", "pool_id">>, <<1, "string", "sender">>, <<1, "string", "amount0">>,
    <<1, "string", "amount1">>, <<1, "one", "meta">>, <<1, "string", "token0">>, <<1, "string", "token1">>,
    <<1, "string", "amount0_adjusted">>, <<1, "string", "amount1_adjusted">>, <<1, "bool", "amounts_adjusted">> >>
ClaimTokenEventView_size == <<
    <<1, "string", "id">>, <<1, "string", "kind">>, <<1, "string", "caller">>, <<1, "string", "owner">>,
    <<1, "string", "from">>, <<1, "string", "to">>, <<1, "string", "spender">>, <<1, "string", "operator">>,
    <<1, "string", "currency_id">>, <<1, "string", "amount">>, <<1, "bool", "approved">>, <<1, "one", "meta">> >>
ProtocolFeeEventView_size == <<
    <<1, "string", "id">>, <<1, "string", "kind">>, <<1, "string", "pool_id">>, <<1, "uint32", "protocol_fee">>,
    <<1, "string", "controller">>, <<1, "one", "meta">> >>
PoolTotalsView_size == <<
    <<1, "string", "pool_id">>, <<1, "string", "token0">>, <<1, "string", "token1">>,
    <<1, "string", "swap_count">>, <<1, "string", "modify_liquidity_count">>,
    <<1, "string", "volume_token0_abs">>, <<1, "string", "volume_token1_abs">>, <<1, "one", "hook">>,
    <<1, "uint64", "last_block">>, <<1, "string", "volume_token0_adjusted">>,
    <<1, "string", "volume_token1_adjusted">>, <<1, "bool", "volumes_adjusted">> >>
HookTotalsView_size == <<
    <<1, "string", "hook_address">>, <<1, "one", "permissions">>, <<1, "string", "pool_count">>,
    <<1, "string", "swap_count">>, <<1, "string", "modify_liquidity_count">>,
    <<1, "string", "volume_token0_abs">>, <<1, "string", "volume_token1_abs">>, <<1, "uint64", "last_block">> >>
EventsView_size == <<
    <<1, "many", "pools">>, <<1, "many", "swaps">>, <<1, "many", "modify_liquidity">>,
    <<1, "many", "position_events">>, <<1, "many", "hook_deployments">>, <<1, "many", "pool_stats">>,
    <<1, "many", "hook_stats">>, <<1, "many", "donates">>, <<1, "many", "claim_token_events">>,
    <<1, "many", "protocol_fee_events">>, <<1, "many", "pool_totals">>, <<1, "many", "hook_totals">>,
    <<1, "many", "aggregator_swaps">>, <<1, "many", "aggregator_pools">>, <<1, "many", "aggregator_fees">> >>
AggregatorSwapView_size == <<
    <<1, "string", "id">>, <<1, "string", "pool_id">>, <<1, "string", "hook">>, <<1, "string", "source">>,
    <<1, "string", "sender">>, <<1, "string", "amount0">>, <<1, "string", "amount1">>,
    <<1, "uint32", "protocol_fee_pips">>, <<1, "string", "protocol_fee_amount">>,
    <<1, "string", "protocol_fee_currency">>, <<1, "string", "token0">>, <<1, "string", "token1">>,
    <<1, "bool", "verified">>, <<1, "one", "meta">> >>
AggregatorPoolView_size == <<
    <<1, "string", "pool_id">>, <<1, "string", "hook">>, <<1, "string", "source">>, <<1, "string", "token0">>,
    <<1, "string", "token1">>, <<1, "bool", "verified">>, <<1, "one", "meta">> >>
AggregatorFeeView_size == <<
    <<1, "string", "id">>, <<1, "string", "hook">>, <<1, "string", "recipient">>, <<1, "string", "currency">>,
    <<1, "string", "amount">>, <<1, "one", "meta">> >>

\* A write_to that writes two nested messages in the other order than their sizes.
SwapView_write_reordered == <<
    <<1, "string", "id">>, <<2, "string", "pool_id">>, <<3, "string", "sender">>, <<4, "string", "amount0">>,
    <<5, "string", "amount1">>, <<6, "string", "sqrt_price_x96">>, <<7, "string", "liquidity">>,
    <<8, "int32", "tick">>, <<9, "uint32", "fee">>, <<15, "one", "hook">>, <<11, "string", "token0">>,
    <<12, "string", "token1">>, <<13, "uint64", "fee_tier">>, <<14, "int32", "tick_spacing">>,
    <<10, "one", "meta">>, <<16, "string", "token0_symbol">>, <<17, "string", "token1_symbol">>,
    <<18, "uint32", "token0_decimals">>, <<19, "uint32", "token1_decimals">>,
    <<20, "bool", "decimals_measured">>, <<21, "string", "amount0_adjusted">>,
    <<22, "string", "amount1_adjusted">>, <<23, "bool", "amounts_adjusted">>, <<24, "string", "amount0_usd">>,
    <<25, "string", "amount1_usd">>, <<26, "string", "amount_usd">>, <<27, "string", "native_price_usd">>,
    <<28, "bool", "priced">>, <<29, "bool", "amount0_priced">>, <<30, "bool", "amount1_priced">> >>

\* write_to of each view.
MetaView_write == <<
    <<1, "uint64", "block_number">>, <<2, "uint64", "block_timestamp">>, <<3, "string", "tx_hash">>,
    <<4, "uint32", "log_index">>, <<5, "string", "origin">>, <<6, "uint64", "gas_used">>,
    <<7, "string", "gas_price">> >>
HookPermissionsView_write == <<
    <<1, "string", "address">>, <<2, "bool", "before_initialize">>, <<3, "bool", "after_initialize">>,
    <<4, "bool", "before_add_liquidity">>, <<5, "bool", "after_add_liquidity">>,
    <<6, "bool", "before_remove_liquidity">>, <<7, "bool", "after_remove_liquidity">>,
    <<8, "bool", "before_swap">>, <<9, "bool", "after_swap">>, <<10, "bool", "before_donate">>,
    <<11, "bool", "after_donate">>, <<12, "bool", "before_swap_returns_delta">>,
    <<13, "bool", "after_swap_returns_delta">>, <<14, "bool", "after_add_liquidity_returns_delta">>,
    <<15, "bool", "after_remove_liquidity_returns_delta">>, <<16, "uint32", "flags">>,
    <<17, "bool", "has_hook">> >>
PoolView_write == <<
    <<1, "string", "id">>, <<2, "string", "token0">>, <<3, "string", "token1">>, <<4, "uint64", "fee_tier">>,
    <<5, "int32", "tick_spacing">>, <<6, "one", "hook">>, <<7, "string", "sqrt_price">>, <<8, "int32", "tick">>,
    <<9, "string", "liquidity">>, <<10, "bool", "is_dynamic_fee">>, <<11, "one", "meta">>,
    <<12, "string", "token0_symbol">>, <<13, "string", "token1_symbol">>, <<14, "uint32", "token0_decimals">>,
    <<15, "uint32", "token1_decimals">>, <<16, "bool", "decimals_measured">> >>
SwapView_write == <<
    <<1, "string", "id">>, <<2, "string", "pool_id">>, <<3, "string", "sender">>, <<4, "string", "amount0">>,
    <<5, "string", "amount1">>, <<6, "string", "sqrt_price_x96">>, <<7, "string", "liquidity">>,
    <<8, "int32", "tick">>, <<9, "uint32", "fee">>, <<10, "one", "meta">>, <<11, "string", "token0">>,
    <<12, "string", "token1">>, <<13, "uint64", "fee_tier">>, <<14, "int32", "tick_spacing">>,
    <<15, "one", "hook">>, <<16, "string", "token0_symbol">>, <<17, "string", "token1_symbol">>,
    <<18, "uint32", "token0_decimals">>, <<19, "uint32", "token1_decimals">>,
    <<20, "bool", "decimals_measured">>, <<21, "string", "amount0_adjusted">>,
    <<22, "string", "amount1_adjusted">>, <<23, "bool", "amounts_adjusted">>, <<24, "string", "amount0_usd">>,
    <<25, "string", "amount1_usd">>, <<26, "string", "amount_usd">>, <<27, "string", "native_price_usd">>,
    <<28, "bool", "priced">>, <<29, "bool", "amount0_priced">>, <<30, "bool", "amount1_priced">> >>
ModifyLiquidityView_write == <<
    <<1, "string", "id">>, <<2, "string", "pool_id">>, <<3, "string", "sender">>, <<4, "int32", "tick_lower">>,
    <<5, "int32", "tick_upper">>, <<6, "string", "liquidity_delta">>, <<7, "string", "salt">>,
    <<8, "one", "meta">>, <<9, "string", "token0">>, <<10, "string", "token1">>, <<11, "uint64", "fee_tier">>,
    <<12, "int32", "tick_spacing">>, <<13, "one", "hook">>, <<14, "string", "token0_symbol">>,
    <<15, "string", "token1_symbol">>, <<16, "uint32", "token0_decimals">>, <<17, "uint32", "token1_decimals">>,
    <<18, "bool", "decimals_measured">> >>
PositionEventView_write == <<
    <<1, "string", "id">>, <<2, "string", "token_id">>, <<3, "string", "kind">>, <<4, "string", "address">>,
    <<5, "string", "from">>, <<6, "string", "to">>, <<7, "one", "meta">> >>
HookDeploymentView_write == <<
    <<1, "string", "id">>, <<2, "string", "hook">>, <<3, "string", "module">>, <<4, "string", "salt">>,
    <<5, "string", "factory">>, <<6, "one", "permissions">>, <<7, "one", "meta">> >>
PoolStatsView_write == <<
    <<1, "string", "pool_id">>, <<2, "string", "token0">>, <<3, "string", "token1">>,
    <<4, "uint64", "swap_count">>, <<5, "string", "volume_token0_abs">>, <<6, "string", "volume_token1_abs">>,
    <<7, "uint64", "modify_liquidity_count">>, <<8, "one", "hook">>, <<9, "uint64", "last_block">>,
    <<10, "string", "volume_token0_adjusted">>, <<11, "string", "volume_token1_adjusted">>,
    <<12, "bool", "volumes_adjusted">> >>
HookStatsView_write == <<
    <<1, "string", "hook_address">>, <<2, "one", "permissions">>, <<3, "uint64", "pool_count">>,
    <<4, "uint64", "swap_count">>, <<5, "string", "volume_token0_abs">>, <<6, "string", "volume_token1_abs">>,
    <<7, "uint64", "distinct_fee_values">>, <<8, "uint64", "last_block">> >>
DonateView_write == <<
    <<1, "string", "id">>, <<2, "string", "pool_id">>, <<3, "string", "sender">>, <<4, "string", "amount0">>,
    <<5, "string", "amount1">>, <<6, "one", "meta">>, <<7, "string", "token0">>, <<8, "string", "token1">>,
    <<9, "string", "amount0_adjusted">>, <<10, "string", "amount1_adjusted">>,
    <<11, "bool", "amounts_adjusted">> >>
ClaimTokenEventView_write == <<
    <<1, "string", "id">>, <<2, "string", "kind">>, <<3, "string", "caller">>, <<4, "string", "owner">>,
    <<5, "string", "from">>, <<6, "string", "to">>, <<7, "string", "spender">>, <<8, "string", "operator">>,
    <<9, "string", "currency_id">>, <<10, "string", "amount">>, <<11, "bool", "approved">>,
    <<12, "one", "meta">> >>
ProtocolFeeEventView_write == <<
    <<1, "string", "id">>, <<2, "string", "kind">>, <<3, "string", "pool_id">>, <<4, "uint32", "protocol_fee">>,
    <<5, "string", "controller">>, <<6, "one", "meta">> >>
PoolTotalsView_write == <<
    <<1, "string", "pool_id">>, <<2, "string", "token0">>, <<3, "string", "token1">>,
    <<4, "string", "swap_count">>, <<5, "string", "modify_liquidity_count">>,
    <<6, "string", "volume_token0_abs">>, <<7, "string", "volume_token1_abs">>, <<8, "one", "hook">>,
    <<9, "uint64", "last_block">>, <<10, "string", "volume_token0_adjusted">>,
    <<11, "string", "volume_token1_adjusted">>, <<12, "bool", "volumes_adjusted">> >>
HookTotalsView_write == <<
    <<1, "string", "hook_address">>, <<2, "one", "permissions">>, <<3, "string", "pool_count">>,
    <<4, "string", "swap_count">>, <<5, "string", "modify_liquidity_count">>,
    <<6, "string", "volume_token0_abs">>, <<7, "string", "volume_token1_abs">>, <<8, "uint64", "last_block">> >>
EventsView_write == <<
    <<1, "many", "pools">>, <<2, "many", "swaps">>, <<3, "many", "modify_liquidity">>,
    <<4, "many", "position_events">>, <<5, "many", "hook_deployments">>, <<6, "many", "pool_stats">>,
    <<7, "many", "hook_stats">>, <<8, "many", "donates">>, <<9, "many", "claim_token_events">>,
    <<10, "many", "protocol_fee_events">>, <<11, "many", "pool_totals">>, <<12, "many", "hook_totals">>,
    <<13, "many", "aggregator_swaps">>, <<14, "many", "aggregator_pools">>, <<15, "many", "aggregator_fees">> >>
AggregatorSwapView_write == <<
    <<1, "string", "id">>, <<2, "string", "pool_id">>, <<3, "string", "hook">>, <<4, "string", "source">>,
    <<5, "string", "sender">>, <<6, "string", "amount0">>, <<7, "string", "amount1">>,
    <<8, "uint32", "protocol_fee_pips">>, <<9, "string", "protocol_fee_amount">>,
    <<10, "string", "protocol_fee_currency">>, <<11, "string", "token0">>, <<12, "string", "token1">>,
    <<13, "bool", "verified">>, <<14, "one", "meta">> >>
AggregatorPoolView_write == <<
    <<1, "string", "pool_id">>, <<2, "string", "hook">>, <<3, "string", "source">>, <<4, "string", "token0">>,
    <<5, "string", "token1">>, <<6, "bool", "verified">>, <<7, "one", "meta">> >>
AggregatorFeeView_write == <<
    <<1, "string", "id">>, <<2, "string", "hook">>, <<3, "string", "recipient">>, <<4, "string", "currency">>,
    <<5, "string", "amount">>, <<6, "one", "meta">> >>

ViewMerge == [
    Meta |-> MetaView_merge, HookPermissions |-> HookPermissionsView_merge, Pool |-> PoolView_merge,
    Swap |-> SwapView_merge, ModifyLiquidity |-> ModifyLiquidityView_merge,
    PositionEvent |-> PositionEventView_merge, HookDeployment |-> HookDeploymentView_merge,
    PoolStats |-> PoolStatsView_merge, HookStats |-> HookStatsView_merge, Donate |-> DonateView_merge,
    ClaimTokenEvent |-> ClaimTokenEventView_merge, ProtocolFeeEvent |-> ProtocolFeeEventView_merge,
    PoolTotals |-> PoolTotalsView_merge, HookTotals |-> HookTotalsView_merge, Events |-> EventsView_merge,
    AggregatorSwap |-> AggregatorSwapView_merge, AggregatorPool |-> AggregatorPoolView_merge,
    AggregatorFee |-> AggregatorFeeView_merge]
ViewOwned == [
    Meta |-> MetaView_owned, HookPermissions |-> HookPermissionsView_owned, Pool |-> PoolView_owned,
    Swap |-> SwapView_owned, ModifyLiquidity |-> ModifyLiquidityView_owned,
    PositionEvent |-> PositionEventView_owned, HookDeployment |-> HookDeploymentView_owned,
    PoolStats |-> PoolStatsView_owned, HookStats |-> HookStatsView_owned, Donate |-> DonateView_owned,
    ClaimTokenEvent |-> ClaimTokenEventView_owned, ProtocolFeeEvent |-> ProtocolFeeEventView_owned,
    PoolTotals |-> PoolTotalsView_owned, HookTotals |-> HookTotalsView_owned, Events |-> EventsView_owned,
    AggregatorSwap |-> AggregatorSwapView_owned, AggregatorPool |-> AggregatorPoolView_owned,
    AggregatorFee |-> AggregatorFeeView_owned]
ViewSize == [
    Meta |-> MetaView_size, HookPermissions |-> HookPermissionsView_size, Pool |-> PoolView_size,
    Swap |-> SwapView_size, ModifyLiquidity |-> ModifyLiquidityView_size,
    PositionEvent |-> PositionEventView_size, HookDeployment |-> HookDeploymentView_size,
    PoolStats |-> PoolStatsView_size, HookStats |-> HookStatsView_size, Donate |-> DonateView_size,
    ClaimTokenEvent |-> ClaimTokenEventView_size, ProtocolFeeEvent |-> ProtocolFeeEventView_size,
    PoolTotals |-> PoolTotalsView_size, HookTotals |-> HookTotalsView_size, Events |-> EventsView_size,
    AggregatorSwap |-> AggregatorSwapView_size, AggregatorPool |-> AggregatorPoolView_size,
    AggregatorFee |-> AggregatorFeeView_size]
ViewWrite == [
    Meta |-> MetaView_write, HookPermissions |-> HookPermissionsView_write, Pool |-> PoolView_write,
    Swap |-> SwapView_write, ModifyLiquidity |-> ModifyLiquidityView_write,
    PositionEvent |-> PositionEventView_write, HookDeployment |-> HookDeploymentView_write,
    PoolStats |-> PoolStatsView_write, HookStats |-> HookStatsView_write, Donate |-> DonateView_write,
    ClaimTokenEvent |-> ClaimTokenEventView_write, ProtocolFeeEvent |-> ProtocolFeeEventView_write,
    PoolTotals |-> PoolTotalsView_write, HookTotals |-> HookTotalsView_write, Events |-> EventsView_write,
    AggregatorSwap |-> AggregatorSwapView_write, AggregatorPool |-> AggregatorPoolView_write,
    AggregatorFee |-> AggregatorFeeView_write]

==============================================================================
