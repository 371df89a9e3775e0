-------------------------------- MODULE Abi --------------------------------
(***************************************************************************)
(* The event tables: for each event of the three contracts, what its ABI   *)
(* file declares and how the binding generated from it (build.rs) reads a  *)
(* log of that event.                                                      *)
(*                                                                         *)
(* <Contract>_<Event>_inputs: the parameters in declaration order.         *)
(* <Contract>_<Event>: the topic count and the data length, in words, that *)
(* match_log asks for, and for each field of the struct the read that      *)
(* decode fills it with.                                                   *)
(***************************************************************************)
EXTENDS Sequences

Indexed(name, type) == [name |-> name, type |-> type, indexed |-> TRUE]
Plain(name, type) == [name |-> name, type |-> type, indexed |-> FALSE]

Topic(reader, n) == [reader |-> reader, of |-> "topics", at |-> n]
Word(reader, n) == [reader |-> reader, of |-> "data", at |-> n]

-----------------------------------------------------------------------------
(* PoolManager. *)

PoolManager_Approval_inputs ==
  <<Indexed("owner", "address"), Indexed("spender", "address"),
    Indexed("id", "uint256"), Plain("amount", "uint256")>>
PoolManager_Approval ==
  [topics |-> 4, data |-> 1, reads |->
    [owner |-> Topic("address", 1), spender |-> Topic("address", 2),
     id |-> Topic("uint", 3), amount |-> Word("uint", 0)]]

PoolManager_Donate_inputs ==
  <<Indexed("id", "bytes32"), Indexed("sender", "address"),
    Plain("amount0", "uint256"), Plain("amount1", "uint256")>>
PoolManager_Donate ==
  [topics |-> 3, data |-> 2, reads |->
    [id |-> Topic("fixed_bytes", 1), sender |-> Topic("address", 2),
     amount0 |-> Word("uint", 0), amount1 |-> Word("uint", 1)]]

PoolManager_Initialize_inputs ==
  <<Indexed("id", "bytes32"), Indexed("currency0", "address"),
    Indexed("currency1", "address"), Plain("fee", "uint24"),
    Plain("tickSpacing", "int24"), Plain("hooks", "address"),
    Plain("sqrtPriceX96", "uint160"), Plain("tick", "int24")>>
PoolManager_Initialize ==
  [topics |-> 4, data |-> 5, reads |->
    [id |-> Topic("fixed_bytes", 1), currency0 |-> Topic("address", 2),
     currency1 |-> Topic("address", 3), fee |-> Word("uint", 0),
     tick_spacing |-> Word("int", 1), hooks |-> Word("address", 2),
     sqrt_price_x96 |-> Word("uint", 3), tick |-> Word("int", 4)]]

PoolManager_ModifyLiquidity_inputs ==
  <<Indexed("id", "bytes32"), Indexed("sender", "address"),
    Plain("tickLower", "int24"), Plain("tickUpper", "int24"),
    Plain("liquidityDelta", "int256"), Plain("salt", "bytes32")>>

\* Faulty: the delta read with the unsigned constructor.
PoolManager_ModifyLiquidity_unsigned ==
  [topics |-> 3, data |-> 4, reads |->
    [id |-> Topic("fixed_bytes", 1), sender |-> Topic("address", 2),
     tick_lower |-> Word("int", 0), tick_upper |-> Word("int", 1),
     liquidity_delta |-> Word("uint", 2), salt |-> Word("fixed_bytes", 3)]]

PoolManager_ModifyLiquidity ==
  [topics |-> 3, data |-> 4, reads |->
    [id |-> Topic("fixed_bytes", 1), sender |-> Topic("address", 2),
     tick_lower |-> Word("int", 0), tick_upper |-> Word("int", 1),
     liquidity_delta |-> Word("int", 2), salt |-> Word("fixed_bytes", 3)]]

PoolManager_OperatorSet_inputs ==
  <<Indexed("owner", "address"), Indexed("operator", "address"),
    Plain("approved", "bool")>>
PoolManager_OperatorSet ==
  [topics |-> 3, data |-> 1, reads |->
    [owner |-> Topic("address", 1), operator |-> Topic("address", 2),
     approved |-> Word("bool", 0)]]

PoolManager_OwnershipTransferred_inputs ==
  <<Indexed("user", "address"), Indexed("newOwner", "address")>>
PoolManager_OwnershipTransferred ==
  [topics |-> 3, data |-> 0, reads |->
    [user |-> Topic("address", 1), new_owner |-> Topic("address", 2)]]

PoolManager_ProtocolFeeControllerUpdated_inputs ==
  <<Indexed("protocolFeeController", "address")>>
PoolManager_ProtocolFeeControllerUpdated ==
  [topics |-> 2, data |-> 0, reads |->
    [protocol_fee_controller |-> Topic("address", 1)]]

PoolManager_ProtocolFeeUpdated_inputs ==
  <<Indexed("id", "bytes32"), Plain("protocolFee", "uint24")>>
PoolManager_ProtocolFeeUpdated ==
  [topics |-> 2, data |-> 1, reads |->
    [id |-> Topic("fixed_bytes", 1), protocol_fee |-> Word("uint", 0)]]

PoolManager_Swap_inputs ==
  <<Indexed("id", "bytes32"), Indexed("sender", "address"),
    Plain("amount0", "int128"), Plain("amount1", "int128"),
    Plain("sqrtPriceX96", "uint160"), Plain("liquidity", "uint128"),
    Plain("tick", "int24"), Plain("fee", "uint24")>>
PoolManager_Swap ==
  [topics |-> 3, data |-> 6, reads |->
    [id |-> Topic("fixed_bytes", 1), sender |-> Topic("address", 2),
     amount0 |-> Word("int", 0), amount1 |-> Word("int", 1),
     sqrt_price_x96 |-> Word("uint", 2), liquidity |-> Word("uint", 3),
     tick |-> Word("int", 4), fee |-> Word("uint", 5)]]

PoolManager_Transfer_inputs ==
  <<Plain("caller", "address"), Indexed("from", "address"),
    Indexed("to", "address"), Indexed("id", "uint256"),
    Plain("amount", "uint256")>>
PoolManager_Transfer ==
  [topics |-> 4, data |-> 2, reads |->
    [from |-> Topic("address", 1), to |-> Topic("address", 2),
     id |-> Topic("uint", 3), caller |-> Word("address", 0),
     amount |-> Word("uint", 1)]]

-----------------------------------------------------------------------------
(* PositionManager. *)

PositionManager_Approval_inputs ==
  <<Indexed("owner", "address"), Indexed("spender", "address"),
    Indexed("id", "uint256")>>
PositionManager_Approval ==
  [topics |-> 4, data |-> 0, reads |->
    [owner |-> Topic("address", 1), spender |-> Topic("address", 2),
     id |-> Topic("uint", 3)]]

PositionManager_ApprovalForAll_inputs ==
  <<Indexed("owner", "address"), Indexed("operator", "address"),
    Plain("approved", "bool")>>
PositionManager_ApprovalForAll ==
  [topics |-> 3, data |-> 1, reads |->
    [owner |-> Topic("address", 1), operator |-> Topic("address", 2),
     approved |-> Word("bool", 0)]]

PositionManager_Subscription_inputs ==
  <<Indexed("tokenId", "uint256"), Indexed("subscriber", "address")>>
PositionManager_Subscription ==
  [topics |-> 3, data |-> 0, reads |->
    [token_id |-> Topic("uint", 1), subscriber |-> Topic("address", 2)]]

PositionManager_Transfer_inputs ==
  <<Indexed("from", "address"), Indexed("to", "address"),
    Indexed("id", "uint256")>>
PositionManager_Transfer ==
  [topics |-> 4, data |-> 0, reads |->
    [from |-> Topic("address", 1), to |-> Topic("address", 2),
     id |-> Topic("uint", 3)]]

PositionManager_Unsubscription_inputs ==
  <<Indexed("tokenId", "uint256"), Indexed("subscriber", "address")>>
PositionManager_Unsubscription ==
  [topics |-> 3, data |-> 0, reads |->
    [token_id |-> Topic("uint", 1), subscriber |-> Topic("address", 2)]]

-----------------------------------------------------------------------------
(* ArrakisHookFactory. *)

ArrakisHookFactory_LogCreatePrivateHook_inputs ==
  <<Indexed("hook", "address"), Indexed("module", "address"),
    Plain("salt", "bytes32")>>
ArrakisHookFactory_LogCreatePrivateHook ==
  [topics |-> 3, data |-> 1, reads |->
    [hook |-> Topic("address", 1), module |-> Topic("address", 2),
     salt |-> Word("fixed_bytes", 0)]]

-----------------------------------------------------------------------------
(* The events of each contract: a topic0 names one of them. *)

Declared ==
  [ PoolManager |-> [Approval |-> PoolManager_Approval_inputs,
    Donate |-> PoolManager_Donate_inputs,
    Initialize |-> PoolManager_Initialize_inputs,
    ModifyLiquidity |-> PoolManager_ModifyLiquidity_inputs,
    OperatorSet |-> PoolManager_OperatorSet_inputs,
    OwnershipTransferred |-> PoolManager_OwnershipTransferred_inputs,
    ProtocolFeeControllerUpdated |-> PoolManager_ProtocolFeeControllerUpdated_inputs,
    ProtocolFeeUpdated |-> PoolManager_ProtocolFeeUpdated_inputs,
    Swap |-> PoolManager_Swap_inputs,
    Transfer |-> PoolManager_Transfer_inputs],
  PositionManager |-> [Approval |-> PositionManager_Approval_inputs,
    ApprovalForAll |-> PositionManager_ApprovalForAll_inputs,
    Subscription |-> PositionManager_Subscription_inputs,
    Transfer |-> PositionManager_Transfer_inputs,
    Unsubscription |-> PositionManager_Unsubscription_inputs],
  ArrakisHookFactory |-> [LogCreatePrivateHook |-> ArrakisHookFactory_LogCreatePrivateHook_inputs] ]

Bound ==
  [ PoolManager |-> [Approval |-> PoolManager_Approval,
    Donate |-> PoolManager_Donate,
    Initialize |-> PoolManager_Initialize,
    ModifyLiquidity |-> PoolManager_ModifyLiquidity,
    OperatorSet |-> PoolManager_OperatorSet,
    OwnershipTransferred |-> PoolManager_OwnershipTransferred,
    ProtocolFeeControllerUpdated |-> PoolManager_ProtocolFeeControllerUpdated,
    ProtocolFeeUpdated |-> PoolManager_ProtocolFeeUpdated,
    Swap |-> PoolManager_Swap,
    Transfer |-> PoolManager_Transfer],
  PositionManager |-> [Approval |-> PositionManager_Approval,
    ApprovalForAll |-> PositionManager_ApprovalForAll,
    Subscription |-> PositionManager_Subscription,
    Transfer |-> PositionManager_Transfer,
    Unsubscription |-> PositionManager_Unsubscription],
  ArrakisHookFactory |-> [LogCreatePrivateHook |-> ArrakisHookFactory_LogCreatePrivateHook] ]

=============================================================================
