------------------------- MODULE LazyMessages -------------------------
(***************************************************************************)
(* The lazy views: a nested message is kept as the byte ranges it came in  *)
(* ("frag", push_fragment, for a MessageField; "raw", push_bytes, for a    *)
(* Vec), decoded when it is read and written back as it was.               *)
(*                                                                         *)
(* XLazyView_merge  _merge_lazy         XLazyView_owned  to_owned_message  *)
(* XLazyView_size   compute_size        XLazyView_write  write_to          *)
(***************************************************************************)

\* _merge_lazy of each lazy view.
MetaLazyView_merge == {
    <<1, "uint64", "block_number">>, <<2, "uint64", "block_timestamp">>, <<3, "string", "tx_hash">>,
    <<4, "uint32", "log_index">>, <<5, "string", "origin">>, <<6, "uint64", "gas_used">>,
    <<7, "string", "gas_price">>}
HookPermissionsLazyView_merge == {
    <<1, "string", "address">>, <<2, "bool", "before_initialize">>, <<3, "bool", "after_initialize">>,
    <<4, "bool", "before_add_liquidity">>, <<5, "bool", "after_add_liquidity">>,
    <<6, "bool", "before_remove_liquidity">>, <<7, "bool", "after_remove_liquidity">>,
    <<8, "bool", "before_swap">>, <<9, "bool", "after_swap">>, <<10, "bool", "before_donate">>,
    <<11, "bool", "after_donate">>, <<12, "bool", "before_swap_returns_delta">>,
    <<13, "bool", "after_swap_returns_delta">>, <<14, "bool", "after_add_liquidity_returns_delta">>,
    <<15, "bool", "after_remove_liquidity_returns_delta">>, <<16, "uint32", "flags">>,
    <<17, "bool", "has_hook">>}
PoolLazyView_merge == {
    <<1, "string", "id">>, <<2, "string", "token0">>, <<3, "string", "token1">>, <<4, "uint64", "fee_tier">>,
    <<5, "int32", "tick_spacing">>, <<6, "frag", "hook">>, <<7, "string", "sqrt_price">>,
    <<8, "int32", "tick">>, <<9, "string", "liquidity">>, <<10, "bool", "is_dynamic_fee">>,
    <<11, "frag", "meta">>, <<12, "string", "token0_symbol">>, <<13, "string", "token1_symbol">>,
    <<14, "uint32", "token0_decimals">>, <<15, "uint32", "token1_decimals">>,
    <<16, "bool", "decimals_measured">>}
SwapLazyView_merge == {
    <<1, "string", "id">>, <<2, "string", "pool_id">>, <<3, "string", "sender">>, <<4, "string", "amount0">>,
    <<5, "string", "amount1">>, <<6, "string", "sqrt_price_x96">>, <<7, "string", "liquidity">>,
    <<8, "int32", "tick">>, <<9, "uint32", "fee">>, <<10, "frag", "meta">>, <<11, "string", "token0">>,
    <<12, "string", "token1">>, <<13, "uint64", "fee_tier">>, <<14, "int32", "tick_spacing">>,
    <<15, "frag", "hook">>, <<16, "string", "token0_symbol">>, <<17, "string", "token1_symbol">>,
    <<18, "uint32", "token0_decimals">>, <<19, "uint32", "token1_decimals">>,
    <<20, "bool", "decimals_measured">>, <<21, "string", "amount0_adjusted">>,
    <<22, "string", "amount1_adjusted">>, <<23, "bool", "amounts_adjusted">>, <<24, "string", "amount0_usd">>,
    <<25, "string", "amount1_usd">>, <<26, "string", "amount_usd">>, <<27, "string", "native_price_usd">>,
    <<28, "bool", "priced">>, <<29, "bool", "amount0_priced">>, <<30, "bool", "amount1_priced">>}
ModifyLiquidityLazyView_merge == {
    <<1, "string", "id">>, <<2, "string", "pool_id">>, <<3, "string", "sender">>, <<4, "int32", "tick_lower">>,
    <<5, "int32", "tick_upper">>, <<6, "string", "liquidity_delta">>, <<7, "string", "salt">>,
    <<8, "frag", "meta">>, <<9, "string", "token0">>, <<10, "string", "token1">>, <<11, "uint64", "fee_tier">>,
    <<12, "int32", "tick_spacing">>, <<13, "frag", "hook">>, <<14, "string", "token0_symbol">>,
    <<15, "string", "token1_symbol">>, <<16, "uint32", "token0_decimals">>, <<17, "uint32", "token1_decimals">>,
    <<18, "bool", "decimals_measured">>}
PositionEventLazyView_merge == {
    <<1, "string", "id">>, <<2, "string", "token_id">>, <<3, "string", "kind">>, <<4, "string", "address">>,
    <<5, "string", "from">>, <<6, "string", "to">>, <<7, "frag", "meta">>}
HookDeploymentLazyView_merge == {
    <<1, "string", "id">>, <<2, "string", "hook">>, <<3, "string", "module">>, <<4, "string", "salt">>,
    <<5, "string", "factory">>, <<6, "frag", "permissions">>, <<7, "frag", "meta">>}
PoolStatsLazyView_merge == {
    <<1, "string", "pool_id">>, <<2, "string", "token0">>, <<3, "string", "token1">>,
    <<4, "uint64", "swap_count">>, <<5, "string", "volume_token0_abs">>, <<6, "string", "volume_token1_abs">>,
    <<7, "uint64", "modify_liquidity_count">>, <<8, "frag", "hook">>, <<9, "uint64", "last_block">>,
    <<10, "string", "volume_token0_adjusted">>, <<11, "string", "volume_token1_adjusted">>,
    <<12, "bool", "volumes_adjusted">>}
HookStatsLazyView_merge == {
    <<1, "string", "hook_address">>, <<2, "frag", "permissions">>, <<3, "uint64", "pool_count">>,
    <<4, "uint64", "swap_count">>, <<5, "string", "volume_token0_abs">>, <<6, "string", "volume_token1_abs">>,
    <<7, "uint64", "distinct_fee_values">>, <<8, "uint64", "last_block">>}
DonateLazyView_merge == {
    <<1, "string", "id">>, <<2, "string", "pool_id">>, <<3, "string", "sender">>, <<4, "string", "amount0">>,
    <<5, "string", "amount1">>, <<6, "frag", "meta">>, <<7, "string", "token0">>, <<8, "string", "token1">>,
    <<9, "string", "amount0_adjusted">>, <<10, "string", "amount1_adjusted">>,
    <<11, "bool", "amounts_adjusted">>}
ClaimTokenEventLazyView_merge == {
    <<1, "string", "id">>, <<2, "string", "kind">>, <<3, "string", "caller">>, <<4, "string", "owner">>,
    <<5, "string", "from">>, <<6, "string", "to">>, <<7, "string", "spender">>, <<8, "string", "operator">>,
    <<9, "string", "currency_id">>, <<10, "string", "amount">>, <<11, "bool", "approved">>,
    <<12, "frag", "meta">>}
ProtocolFeeEventLazyView_merge == {
    <<1, "string", "id">>, <<2, "string", "kind">>, <<3, "string", "pool_id">>, <<4, "uint32", "protocol_fee">>,
    <<5, "string", "controller">>, <<6, "frag", "meta">>}
PoolTotalsLazyView_merge == {
    <<1, "string", "pool_id">>, <<2, "string", "token0">>, <<3, "string", "token1">>,
    <<4, "string", "swap_count">>, <<5, "string", "modify_liquidity_count">>,
    <<6, "string", "volume_token0_abs">>, <<7, "string", "volume_token1_abs">>, <<8, "frag", "hook">>,
    <<9, "uint64", "last_block">>, <<10, "string", "volume_token0_adjusted">>,
    <<11, "string", "volume_token1_adjusted">>, <<12, "bool", "volumes_adjusted">>}
HookTotalsLazyView_merge == {
    <<1, "string", "hook_address">>, <<2, "frag", "permissions">>, <<3, "string", "pool_count">>,
    <<4, "string", "swap_count">>, <<5, "string", "modify_liquidity_count">>,
    <<6, "string", "volume_token0_abs">>, <<7, "string", "volume_token1_abs">>, <<8, "uint64", "last_block">>}
EventsLazyView_merge == {
    <<1, "raw", "pools">>, <<2, "raw", "swaps">>, <<3, "raw", "modify_liquidity">>,
    <<4, "raw", "position_events">>, <<5, "raw", "hook_deployments">>, <<6, "raw", "pool_stats">>,
    <<7, "raw", "hook_stats">>, <<8, "raw", "donates">>, <<9, "raw", "claim_token_events">>,
    <<10, "raw", "protocol_fee_events">>, <<11, "raw", "pool_totals">>, <<12, "raw", "hook_totals">>,
    <<13, "raw", "aggregator_swaps">>, <<14, "raw", "aggregator_pools">>, <<15, "raw", "aggregator_fees">>}
AggregatorSwapLazyView_merge == {
    <<1, "string", "id">>, <<2, "string", "pool_id">>, <<3, "string", "hook">>, <<4, "string", "source">>,
    <<5, "string", "sender">>, <<6, "string", "amount0">>, <<7, "string", "amount1">>,
    <<8, "uint32", "protocol_fee_pips">>, <<9, "string", "protocol_fee_amount">>,
    <<10, "string", "protocol_fee_currency">>, <<11, "string", "token0">>, <<12, "string", "token1">>,
    <<13, "bool", "verified">>, <<14, "frag", "meta">>}
AggregatorPoolLazyView_merge == {
    <<1, "string", "pool_id">>, <<2, "string", "hook">>, <<3, "string", "source">>, <<4, "string", "token0">>,
    <<5, "string", "token1">>, <<6, "bool", "verified">>, <<7, "frag", "meta">>}
AggregatorFeeLazyView_merge == {
    <<1, "string", "id">>, <<2, "string", "hook">>, <<3, "string", "recipient">>, <<4, "string", "currency">>,
    <<5, "string", "amount">>, <<6, "frag", "meta">>}

\* to_owned_message of each lazy view.
MetaLazyView_owned == [
    copy |-> {"block_number", "block_timestamp", "tx_hash", "log_index", "origin", "gas_used", "gas_price"},
    one |-> {}, many |-> {}]
HookPermissionsLazyView_owned == [
    copy |-> {"address", "before_initialize", "after_initialize", "before_add_liquidity", "after_add_liquidity",
    "before_remove_liquidity", "after_remove_liquidity", "before_swap", "after_swap", "before_donate",
    "after_donate", "before_swap_returns_delta", "after_swap_returns_delta",
    "after_add_liquidity_returns_delta", "after_remove_liquidity_returns_delta", "flags", "has_hook"},
    one |-> {}, many |-> {}]
PoolLazyView_owned == [
    copy |-> {"id", "token0", "token1", "fee_tier", "tick_spacing", "sqrt_price", "tick", "liquidity",
    "is_dynamic_fee", "token0_symbol", "token1_symbol", "token0_decimals", "token1_decimals",
    "decimals_measured"}, one |-> {"hook", "meta"}, many |-> {}]
SwapLazyView_owned == [
    copy |-> {"id", "pool_id", "sender", "amount0", "amount1", "sqrt_price_x96", "liquidity", "tick", "fee",
    "token0", "token1", "fee_tier", "tick_spacing", "token0_symbol", "token1_symbol", "token0_decimals",
    "token1_decimals", "decimals_measured", "amount0_adjusted", "amount1_adjusted", "amounts_adjusted",
    "amount0_usd", "amount1_usd", "amount_usd", "native_price_usd", "priced", "amount0_priced",
    "amount1_priced"}, one |-> {"meta", "hook"}, many |-> {}]
ModifyLiquidityLazyView_owned == [
    copy |-> {"id", "pool_id", "sender", "tick_lower", "tick_upper", "liquidity_delta", "salt", "token0",
    "token1", "fee_tier", "tick_spacing", "token0_symbol", "token1_symbol", "token0_decimals",
    "token1_decimals", "decimals_measured"}, one |-> {"meta", "hook"}, many |-> {}]
PositionEventLazyView_owned == [
    copy |-> {"id", "token_id", "kind", "address", "from", "to"}, one |-> {"meta"}, many |-> {}]
HookDeploymentLazyView_owned == [
    copy |-> {"id", "hook", "module", "salt", "factory"}, one |-> {"permissions", "meta"}, many |-> {}]
PoolStatsLazyView_owned == [
    copy |-> {"pool_id", "token0", "token1", "swap_count", "volume_token0_abs", "volume_token1_abs",
    "modify_liquidity_count", "last_block", "volume_token0_adjusted", "volume_token1_adjusted",
    "volumes_adjusted"}, one |-> {"hook"}, many |-> {}]
HookStatsLazyView_owned == [
    copy |-> {"hook_address", "pool_count", "swap_count", "volume_token0_abs", "volume_token1_abs",
    "distinct_fee_values", "last_block"}, one |-> {"permissions"}, many |-> {}]
DonateLazyView_owned == [
    copy |-> {"id", "pool_id", "sender", "amount0", "amount1", "token0", "token1", "amount0_adjusted",
    "amount1_adjusted", "amounts_adjusted"}, one |-> {"meta"}, many |-> {}]
ClaimTokenEventLazyView_owned == [
    copy |-> {"id", "kind", "caller", "owner", "from", "to", "spender", "operator", "currency_id", "amount",
    "approved"}, one |-> {"meta"}, many |-> {}]
ProtocolFeeEventLazyView_owned == [
    copy |-> {"id", "kind", "pool_id", "protocol_fee", "controller"}, one |-> {"meta"}, many |-> {}]
PoolTotalsLazyView_owned == [
    copy |-> {"pool_id", "token0", "token1", "swap_count", "modify_liquidity_count", "volume_token0_abs",
    "volume_token1_abs", "last_block", "volume_token0_adjusted", "volume_token1_adjusted", "volumes_adjusted"},
    one |-> {"hook"}, many |-> {}]
HookTotalsLazyView_owned == [
    copy |-> {"hook_address", "pool_count", "swap_count", "modify_liquidity_count", "volume_token0_abs",
    "volume_token1_abs", "last_block"}, one |-> {"permissions"}, many |-> {}]
EventsLazyView_owned == [
    copy |-> {}, one |-> {}, many |-> {"pools", "swaps", "modify_liquidity", "position_events",
    "hook_deployments", "pool_stats", "hook_stats", "donates", "claim_token_events", "protocol_fee_events",
    "pool_totals", "hook_totals", "aggregator_swaps", "aggregator_pools", "aggregator_fees"}]
AggregatorSwapLazyView_owned == [
    copy |-> {"id", "pool_id", "hook", "source", "sender", "amount0", "amount1", "protocol_fee_pips",
    "protocol_fee_amount", "protocol_fee_currency", "token0", "token1", "verified"}, one |-> {"meta"},
    many |-> {}]
AggregatorPoolLazyView_owned == [
    copy |-> {"pool_id", "hook", "source", "token0", "token1", "verified"}, one |-> {"meta"}, many |-> {}]
AggregatorFeeLazyView_owned == [
    copy |-> {"id", "hook", "recipient", "currency", "amount"}, one |-> {"meta"}, many |-> {}]

\* A compute_size that counts one byte for every tag.
SwapLazyView_size_short == <<
    <<1, "string", "id">>, <<1, "string", "pool_id">>, <<1, "string", "sender">>, <<1, "string", "amount0">>,
    <<1, "string", "amount1">>, <<1, "string", "sqrt_price_x96">>, <<1, "string", "liquidity">>,
    <<1, "int32", "tick">>, <<1, "uint32", "fee">>, <<1, "frag", "meta">>, <<1, "string", "token0">>,
    <<1, "string", "token1">>, <<1, "uint64", "fee_tier">>, <<1, "int32", "tick_spacing">>,
    <<1, "frag", "hook">>, <<1, "string", "token0_symbol">>, <<1, "string", "token1_symbol">>,
    <<1, "uint32", "token0_decimals">>, <<1, "uint32", "token1_decimals">>, <<1, "bool", "decimals_measured">>,
    <<1, "string", "amount0_adjusted">>, <<1, "string", "amount1_adjusted">>, <<1, "bool", "amounts_adjusted">>,
    <<1, "string", "amount0_usd">>, <<1, "string", "amount1_usd">>, <<1, "string", "amount_usd">>,
    <<1, "string", "native_price_usd">>, <<1, "bool", "priced">>, <<1, "bool", "amount0_priced">>,
    <<1, "bool", "amount1_priced">> >>

\* compute_size of each lazy view.
MetaLazyView_size == <<
    <<1, "uint64", "block_number">>, <<1, "uint64", "block_timestamp">>, <<1, "string", "tx_hash">>,
    <<1, "uint32", "log_index">>, <<1, "string", "origin">>, <<1, "uint64", "gas_used">>,
    <<1, "string", "gas_price">> >>
HookPermissionsLazyView_size == <<
    <<1, "string", "address">>, <<1, "bool", "before_initialize">>, <<1, "bool", "after_initialize">>,
    <<1, "bool", "before_add_liquidity">>, <<1, "bool", "after_add_liquidity">>,
    <<1, "bool", "before_remove_liquidity">>, <<1, "bool", "after_remove_liquidity">>,
    <<1, "bool", "before_swap">>, <<1, "bool", "after_swap">>, <<1, "bool", "before_donate">>,
    <<1, "bool", "after_donate">>, <<1, "bool", "before_swap_returns_delta">>,
    <<1, "bool", "after_swap_returns_delta">>, <<1, "bool", "after_add_liquidity_returns_delta">>,
    <<1, "bool", "after_remove_liquidity_returns_delta">>, <<2, "uint32", "flags">>, <<2, "bool", "has_hook">> >>
PoolLazyView_size == <<
    <<1, "string", "id">>, <<1, "string", "token0">>, <<1, "string", "token1">>, <<1, "uint64", "fee_tier">>,
    <<1, "int32", "tick_spacing">>, <<1, "frag", "hook">>, <<1, "string", "sqrt_price">>,
    <<1, "int32", "tick">>, <<1, "string", "liquidity">>, <<1, "bool", "is_dynamic_fee">>,
    <<1, "frag", "meta">>, <<1, "string", "token0_symbol">>, <<1, "string", "token1_symbol">>,
    <<1, "uint32", "token0_decimals">>, <<1, "uint32", "token1_decimals">>, <<2, "bool", "decimals_measured">> >>
SwapLazyView_size == <<
    <<1, "string", "id">>, <<1, "string", "pool_id">>, <<1, "string", "sender">>, <<1, "string", "amount0">>,
    <<1, "string", "amount1">>, <<1, "string", "sqrt_price_x96">>, <<1, "string", "liquidity">>,
    <<1, "int32", "tick">>, <<1, "uint32", "fee">>, <<1, "frag", "meta">>, <<1, "string", "token0">>,
    <<1, "string", "token1">>, <<1, "uint64", "fee_tier">>, <<1, "int32", "tick_spacing">>,
    <<1, "frag", "hook">>, <<2, "string", "token0_symbol">>, <<2, "string", "token1_symbol">>,
    <<2, "uint32", "token0_decimals">>, <<2, "uint32", "token1_decimals">>, <<2, "bool", "decimals_measured">>,
    <<2, "string", "amount0_adjusted">>, <<2, "string", "amount1_adjusted">>, <<2, "bool", "amounts_adjusted">>,
    <<2, "string", "amount0_usd">>, <<2, "string", "amount1_usd">>, <<2, "string", "amount_usd">>,
    <<2, "string", "native_price_usd">>, <<2, "bool", "priced">>, <<2, "bool", "amount0_priced">>,
    <<2, "bool", "amount1_priced">> >>
ModifyLiquidityLazyView_size == <<
    <<1, "string", "id">>, <<1, "string", "pool_id">>, <<1, "string", "sender">>, <<1, "int32", "tick_lower">>,
    <<1, "int32", "tick_upper">>, <<1, "string", "liquidity_delta">>, <<1, "string", "salt">>,
    <<1, "frag", "meta">>, <<1, "string", "token0">>, <<1, "string", "token1">>, <<1, "uint64", "fee_tier">>,
    <<1, "int32", "tick_spacing">>, <<1, "frag", "hook">>, <<1, "string", "token0_symbol">>,
    <<1, "string", "token1_symbol">>, <<2, "uint32", "token0_decimals">>, <<2, "uint32", "token1_decimals">>,
    <<2, "bool", "decimals_measured">> >>
PositionEventLazyView_size == <<
    <<1, "string", "id">>, <<1, "string", "token_id">>, <<1, "string", "kind">>, <<1, "string", "address">>,
    <<1, "string", "from">>, <<1, "string", "to">>, <<1, "frag", "meta">> >>
HookDeploymentLazyView_size == <<
    <<1, "string", "id">>, <<1, "string", "hook">>, <<1, "string", "module">>, <<1, "string", "salt">>,
    <<1, "string", "factory">>, <<1, "frag", "permissions">>, <<1, "frag", "meta">> >>
PoolStatsLazyView_size == <<
    <<1, "string", "pool_id">>, <<1, "string", "token0">>, <<1, "string", "token1">>,
    <<1, "uint64", "swap_count">>, <<1, "string", "volume_token0_abs">>, <<1, "string", "volume_token1_abs">>,
    <<1, "uint64", "modify_liquidity_count">>, <<1, "frag", "hook">>, <<1, "uint64", "last_block">>,
    <<1, "string", "volume_token0_adjusted">>, <<1, "string", "volume_token1_adjusted">>,
    <<1, "bool", "volumes_adjusted">> >>
HookStatsLazyView_size == <<
    <<1, "string", "hook_address">>, <<1, "frag", "permissions">>, <<1, "uint64", "pool_count">>,
    <<1, "uint64", "swap_count">>, <<1, "string", "volume_token0_abs">>, <<1, "string", "volume_token1_abs">>,
    <<1, "uint64", "distinct_fee_values">>, <<1, "uint64", "last_block">> >>
DonateLazyView_size == <<
    <<1, "string", "id">>, <<1, "string", "pool_id">>, <<1, "string", "sender">>, <<1, "string", "amount0">>,
    <<1, "string", "amount1">>, <<1, "frag", "meta">>, <<1, "string", "token0">>, <<1, "string", "token1">>,
    <<1, "string", "amount0_adjusted">>, <<1, "string", "amount1_adjusted">>, <<1, "bool", "amounts_adjusted">> >>
ClaimTokenEventLazyView_size == <<
    <<1, "string", "id">>, <<1, "string", "kind">>, <<1, "string", "caller">>, <<1, "string", "owner">>,
    <<1, "string", "from">>, <<1, "string", "to">>, <<1, "string", "spender">>, <<1, "string", "operator">>,
    <<1, "string", "currency_id">>, <<1, "string", "amount">>, <<1, "bool", "approved">>, <<1, "frag", "meta">> >>
ProtocolFeeEventLazyView_size == <<
    <<1, "string", "id">>, <<1, "string", "kind">>, <<1, "string", "pool_id">>, <<1, "uint32", "protocol_fee">>,
    <<1, "string", "controller">>, <<1, "frag", "meta">> >>
PoolTotalsLazyView_size == <<
    <<1, "string", "pool_id">>, <<1, "string", "token0">>, <<1, "string", "token1">>,
    <<1, "string", "swap_count">>, <<1, "string", "modify_liquidity_count">>,
    <<1, "string", "volume_token0_abs">>, <<1, "string", "volume_token1_abs">>, <<1, "frag", "hook">>,
    <<1, "uint64", "last_block">>, <<1, "string", "volume_token0_adjusted">>,
    <<1, "string", "volume_token1_adjusted">>, <<1, "bool", "volumes_adjusted">> >>
HookTotalsLazyView_size == <<
    <<1, "string", "hook_address">>, <<1, "frag", "permissions">>, <<1, "string", "pool_count">>,
    <<1, "string", "swap_count">>, <<1, "string", "modify_liquidity_count">>,
    <<1, "string", "volume_token0_abs">>, <<1, "string", "volume_token1_abs">>, <<1, "uint64", "last_block">> >>
EventsLazyView_size == <<
    <<1, "raw", "pools">>, <<1, "raw", "swaps">>, <<1, "raw", "modify_liquidity">>,
    <<1, "raw", "position_events">>, <<1, "raw", "hook_deployments">>, <<1, "raw", "pool_stats">>,
    <<1, "raw", "hook_stats">>, <<1, "raw", "donates">>, <<1, "raw", "claim_token_events">>,
    <<1, "raw", "protocol_fee_events">>, <<1, "raw", "pool_totals">>, <<1, "raw", "hook_totals">>,
    <<1, "raw", "aggregator_swaps">>, <<1, "raw", "aggregator_pools">>, <<1, "raw", "aggregator_fees">> >>
AggregatorSwapLazyView_size == <<
    <<1, "string", "id">>, <<1, "string", "pool_id">>, <<1, "string", "hook">>, <<1, "string", "source">>,
    <<1, "string", "sender">>, <<1, "string", "amount0">>, <<1, "string", "amount1">>,
    <<1, "uint32", "protocol_fee_pips">>, <<1, "string", "protocol_fee_amount">>,
    <<1, "string", "protocol_fee_currency">>, <<1, "string", "token0">>, <<1, "string", "token1">>,
    <<1, "bool", "verified">>, <<1, "frag", "meta">> >>
AggregatorPoolLazyView_size == <<
    <<1, "string", "pool_id">>, <<1, "string", "hook">>, <<1, "string", "source">>, <<1, "string", "token0">>,
    <<1, "string", "token1">>, <<1, "bool", "verified">>, <<1, "frag", "meta">> >>
AggregatorFeeLazyView_size == <<
    <<1, "string", "id">>, <<1, "string", "hook">>, <<1, "string", "recipient">>, <<1, "string", "currency">>,
    <<1, "string", "amount">>, <<1, "frag", "meta">> >>

\* write_to of each lazy view.
MetaLazyView_write == <<
    <<1, "uint64", "block_number">>, <<2, "uint64", "block_timestamp">>, <<3, "string", "tx_hash">>,
    <<4, "uint32", "log_index">>, <<5, "string", "origin">>, <<6, "uint64", "gas_used">>,
    <<7, "string", "gas_price">> >>
HookPermissionsLazyView_write == <<
    <<1, "string", "address">>, <<2, "bool", "before_initialize">>, <<3, "bool", "after_initialize">>,
    <<4, "bool", "before_add_liquidity">>, <<5, "bool", "after_add_liquidity">>,
    <<6, "bool", "before_remove_liquidity">>, <<7, "bool", "after_remove_liquidity">>,
    <<8, "bool", "before_swap">>, <<9, "bool", "after_swap">>, <<10, "bool", "before_donate">>,
    <<11, "bool", "after_donate">>, <<12, "bool", "before_swap_returns_delta">>,
    <<13, "bool", "after_swap_returns_delta">>, <<14, "bool", "after_add_liquidity_returns_delta">>,
    <<15, "bool", "after_remove_liquidity_returns_delta">>, <<16, "uint32", "flags">>,
    <<17, "bool", "has_hook">> >>
PoolLazyView_write == <<
    <<1, "string", "id">>, <<2, "string", "token0">>, <<3, "string", "token1">>, <<4, "uint64", "fee_tier">>,
    <<5, "int32", "tick_spacing">>, <<6, "frag", "hook">>, <<7, "string", "sqrt_price">>,
    <<8, "int32", "tick">>, <<9, "string", "liquidity">>, <<10, "bool", "is_dynamic_fee">>,
    <<11, "frag", "meta">>, <<12, "string", "token0_symbol">>, <<13, "string", "token1_symbol">>,
    <<14, "uint32", "token0_decimals">>, <<15, "uint32", "token1_decimals">>,
    <<16, "bool", "decimals_measured">> >>
SwapLazyView_write == <<
    <<1, "string", "id">>, <<2, "string", "pool_id">>, <<3, "string", "sender">>, <<4, "string", "amount0">>,
    <<5, "string", "amount1">>, <<6, "string", "sqrt_price_x96">>, <<7, "string", "liquidity">>,
    <<8, "int32", "tick">>, <<9, "uint32", "fee">>, <<10, "frag", "meta">>, <<11, "string", "token0">>,
    <<12, "string", "token1">>, <<13, "uint64", "fee_tier">>, <<14, "int32", "tick_spacing">>,
    <<15, "frag", "hook">>, <<16, "string", "token0_symbol">>, <<17, "string", "token1_symbol">>,
    <<18, "uint32", "token0_decimals">>, <<19, "uint32", "token1_decimals">>,
    <<20, "bool", "decimals_measured">>, <<21, "string", "amount0_adjusted">>,
    <<22, "string", "amount1_adjusted">>, <<23, "bool", "amounts_adjusted">>, <<24, "string", "amount0_usd">>,
    <<25, "string", "amount1_usd">>, <<26, "string", "amount_usd">>, <<27, "string", "native_price_usd">>,
    <<28, "bool", "priced">>, <<29, "bool", "amount0_priced">>, <<30, "bool", "amount1_priced">> >>
ModifyLiquidityLazyView_write == <<
    <<1, "string", "id">>, <<2, "string", "pool_id">>, <<3, "string", "sender">>, <<4, "int32", "tick_lower">>,
    <<5, "int32", "tick_upper">>, <<6, "string", "liquidity_delta">>, <<7, "string", "salt">>,
    <<8, "frag", "meta">>, <<9, "string", "token0">>, <<10, "string", "token1">>, <<11, "uint64", "fee_tier">>,
    <<12, "int32", "tick_spacing">>, <<13, "frag", "hook">>, <<14, "string", "token0_symbol">>,
    <<15, "string", "token1_symbol">>, <<16, "uint32", "token0_decimals">>, <<17, "uint32", "token1_decimals">>,
    <<18, "bool", "decimals_measured">> >>
PositionEventLazyView_write == <<
    <<1, "string", "id">>, <<2, "string", "token_id">>, <<3, "string", "kind">>, <<4, "string", "address">>,
    <<5, "string", "from">>, <<6, "string", "to">>, <<7, "frag", "meta">> >>
HookDeploymentLazyView_write == <<
    <<1, "string", "id">>, <<2, "string", "hook">>, <<3, "string", "module">>, <<4, "string", "salt">>,
    <<5, "string", "factory">>, <<6, "frag", "permissions">>, <<7, "frag", "meta">> >>
PoolStatsLazyView_write == <<
    <<1, "string", "pool_id">>, <<2, "string", "token0">>, <<3, "string", "token1">>,
    <<4, "uint64", "swap_count">>, <<5, "string", "volume_token0_abs">>, <<6, "string", "volume_token1_abs">>,
    <<7, "uint64", "modify_liquidity_count">>, <<8, "frag", "hook">>, <<9, "uint64", "last_block">>,
    <<10, "string", "volume_token0_adjusted">>, <<11, "string", "volume_token1_adjusted">>,
    <<12, "bool", "volumes_adjusted">> >>
HookStatsLazyView_write == <<
    <<1, "string", "hook_address">>, <<2, "frag", "permissions">>, <<3, "uint64", "pool_count">>,
    <<4, "uint64", "swap_count">>, <<5, "string", "volume_token0_abs">>, <<6, "string", "volume_token1_abs">>,
    <<7, "uint64", "distinct_fee_values">>, <<8, "uint64", "last_block">> >>
DonateLazyView_write == <<
    <<1, "string", "id">>, <<2, "string", "pool_id">>, <<3, "string", "sender">>, <<4, "string", "amount0">>,
    <<5, "string", "amount1">>, <<6, "frag", "meta">>, <<7, "string", "token0">>, <<8, "string", "token1">>,
    <<9, "string", "amount0_adjusted">>, <<10, "string", "amount1_adjusted">>,
    <<11, "bool", "amounts_adjusted">> >>
ClaimTokenEventLazyView_write == <<
    <<1, "string", "id">>, <<2, "string", "kind">>, <<3, "string", "caller">>, <<4, "string", "owner">>,
    <<5, "string", "from">>, <<6, "string", "to">>, <<7, "string", "spender">>, <<8, "string", "operator">>,
    <<9, "string", "currency_id">>, <<10, "string", "amount">>, <<11, "bool", "approved">>,
    <<12, "frag", "meta">> >>
ProtocolFeeEventLazyView_write == <<
    <<1, "string", "id">>, <<2, "string", "kind">>, <<3, "string", "pool_id">>, <<4, "uint32", "protocol_fee">>,
    <<5, "string", "controller">>, <<6, "frag", "meta">> >>
PoolTotalsLazyView_write == <<
    <<1, "string", "pool_id">>, <<2, "string", "token0">>, <<3, "string", "token1">>,
    <<4, "string", "swap_count">>, <<5, "string", "modify_liquidity_count">>,
    <<6, "string", "volume_token0_abs">>, <<7, "string", "volume_token1_abs">>, <<8, "frag", "hook">>,
    <<9, "uint64", "last_block">>, <<10, "string", "volume_token0_adjusted">>,
    <<11, "string", "volume_token1_adjusted">>, <<12, "bool", "volumes_adjusted">> >>
HookTotalsLazyView_write == <<
    <<1, "string", "hook_address">>, <<2, "frag", "permissions">>, <<3, "string", "pool_count">>,
    <<4, "string", "swap_count">>, <<5, "string", "modify_liquidity_count">>,
    <<6, "string", "volume_token0_abs">>, <<7, "string", "volume_token1_abs">>, <<8, "uint64", "last_block">> >>
EventsLazyView_write == <<
    <<1, "raw", "pools">>, <<2, "raw", "swaps">>, <<3, "raw", "modify_liquidity">>,
    <<4, "raw", "position_events">>, <<5, "raw", "hook_deployments">>, <<6, "raw", "pool_stats">>,
    <<7, "raw", "hook_stats">>, <<8, "raw", "donates">>, <<9, "raw", "claim_token_events">>,
    <<10, "raw", "protocol_fee_events">>, <<11, "raw", "pool_totals">>, <<12, "raw", "hook_totals">>,
    <<13, "raw", "aggregator_swaps">>, <<14, "raw", "aggregator_pools">>, <<15, "raw", "aggregator_fees">> >>
AggregatorSwapLazyView_write == <<
    <<1, "string", "id">>, <<2, "string", "pool_id">>, <<3, "string", "hook">>, <<4, "string", "source">>,
    <<5, "string", "sender">>, <<6, "string", "amount0">>, <<7, "string", "amount1">>,
    <<8, "uint32", "protocol_fee_pips">>, <<9, "string", "protocol_fee_amount">>,
    <<10, "string", "protocol_fee_currency">>, <<11, "string", "token0">>, <<12, "string", "token1">>,
    <<13, "bool", "verified">>, <<14, "frag", "meta">> >>
AggregatorPoolLazyView_write == <<
    <<1, "string", "pool_id">>, <<2, "string", "hook">>, <<3, "string", "source">>, <<4, "string", "token0">>,
    <<5, "string", "token1">>, <<6, "bool", "verified">>, <<7, "frag", "meta">> >>
AggregatorFeeLazyView_write == <<
    <<1, "string", "id">>, <<2, "string", "hook">>, <<3, "string", "recipient">>, <<4, "string", "currency">>,
    <<5, "string", "amount">>, <<6, "frag", "meta">> >>

LazyMerge == [
    Meta |-> MetaLazyView_merge, HookPermissions |-> HookPermissionsLazyView_merge, Pool |-> PoolLazyView_merge,
    Swap |-> SwapLazyView_merge, ModifyLiquidity |-> ModifyLiquidityLazyView_merge,
    PositionEvent |-> PositionEventLazyView_merge, HookDeployment |-> HookDeploymentLazyView_merge,
    PoolStats |-> PoolStatsLazyView_merge, HookStats |-> HookStatsLazyView_merge,
    Donate |-> DonateLazyView_merge, ClaimTokenEvent |-> ClaimTokenEventLazyView_merge,
    ProtocolFeeEvent |-> ProtocolFeeEventLazyView_merge, PoolTotals |-> PoolTotalsLazyView_merge,
    HookTotals |-> HookTotalsLazyView_merge, Events |-> EventsLazyView_merge,
    AggregatorSwap |-> AggregatorSwapLazyView_merge, AggregatorPool |-> AggregatorPoolLazyView_merge,
    AggregatorFee |-> AggregatorFeeLazyView_merge]
LazyOwned == [
    Meta |-> MetaLazyView_owned, HookPermissions |-> HookPermissionsLazyView_owned, Pool |-> PoolLazyView_owned,
    Swap |-> SwapLazyView_owned, ModifyLiquidity |-> ModifyLiquidityLazyView_owned,
    PositionEvent |-> PositionEventLazyView_owned, HookDeployment |-> HookDeploymentLazyView_owned,
    PoolStats |-> PoolStatsLazyView_owned, HookStats |-> HookStatsLazyView_owned,
    Donate |-> DonateLazyView_owned, ClaimTokenEvent |-> ClaimTokenEventLazyView_owned,
    ProtocolFeeEvent |-> ProtocolFeeEventLazyView_owned, PoolTotals |-> PoolTotalsLazyView_owned,
    HookTotals |-> HookTotalsLazyView_owned, Events |-> EventsLazyView_owned,
    AggregatorSwap |-> AggregatorSwapLazyView_owned, AggregatorPool |-> AggregatorPoolLazyView_owned,
    AggregatorFee |-> AggregatorFeeLazyView_owned]
LazySize == [
    Meta |-> MetaLazyView_size, HookPermissions |-> HookPermissionsLazyView_size, Pool |-> PoolLazyView_size,
    Swap |-> SwapLazyView_size, ModifyLiquidity |-> ModifyLiquidityLazyView_size,
    PositionEvent |-> PositionEventLazyView_size, HookDeployment |-> HookDeploymentLazyView_size,
    PoolStats |-> PoolStatsLazyView_size, HookStats |-> HookStatsLazyView_size, Donate |-> DonateLazyView_size,
    ClaimTokenEvent |-> ClaimTokenEventLazyView_size, ProtocolFeeEvent |-> ProtocolFeeEventLazyView_size,
    PoolTotals |-> PoolTotalsLazyView_size, HookTotals |-> HookTotalsLazyView_size,
    Events |-> EventsLazyView_size, AggregatorSwap |-> AggregatorSwapLazyView_size,
    AggregatorPool |-> AggregatorPoolLazyView_size, AggregatorFee |-> AggregatorFeeLazyView_size]
LazyWrite == [
    Meta |-> MetaLazyView_write, HookPermissions |-> HookPermissionsLazyView_write, Pool |-> PoolLazyView_write,
    Swap |-> SwapLazyView_write, ModifyLiquidity |-> ModifyLiquidityLazyView_write,
    PositionEvent |-> PositionEventLazyView_write, HookDeployment |-> HookDeploymentLazyView_write,
    PoolStats |-> PoolStatsLazyView_write, HookStats |-> HookStatsLazyView_write,
    Donate |-> DonateLazyView_write, ClaimTokenEvent |-> ClaimTokenEventLazyView_write,
    ProtocolFeeEvent |-> ProtocolFeeEventLazyView_write, PoolTotals |-> PoolTotalsLazyView_write,
    HookTotals |-> HookTotalsLazyView_write, Events |-> EventsLazyView_write,
    AggregatorSwap |-> AggregatorSwapLazyView_write, AggregatorPool |-> AggregatorPoolLazyView_write,
    AggregatorFee |-> AggregatorFeeLazyView_write]

==============================================================================
