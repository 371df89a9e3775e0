----------------------------- MODULE MCPricing -----------------------------
(***************************************************************************)
(* The anchor, two pools of zora with native, one with the stablecoin and  *)
(* one of the stablecoin with native.                                      *)
(***************************************************************************)
EXTENDS Pricing

CONSTANTS native, weth, usdc, zora

MCPairOf == <<<<weth, usdc>>, <<native, zora>>, <<weth, zora>>, <<usdc, zora>>, <<native, usdc>>>>

Swap(pool, depth) ==
  [kind |-> "Swap", pool |-> pool, sqrt |-> 1, depth |-> depth, measured |-> TRUE]

MCLogs ==
  {[Swap(1, 0) EXCEPT !.kind = "Initialize"], Swap(1, 2), [Swap(1, 2) EXCEPT !.sqrt = 0],
   [Swap(1, 2) EXCEPT !.measured = FALSE],
   Swap(2, 0), Swap(2, 1), Swap(2, 2), [Swap(2, 2) EXCEPT !.measured = FALSE],
   Swap(3, 2), Swap(4, 2), Swap(4, 3), Swap(5, 3)}

(* For longer blocks.                                                      *)
FewLogs == {Swap(1, 2), Swap(2, 2), Swap(4, 3)}
=============================================================================
