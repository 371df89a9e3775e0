----------------------------- MODULE MCPipeline -----------------------------
(***************************************************************************)
(* The instances TLC checks: two pools under one hook, one pool without a  *)
(* hook and one pool, of the same hook, initialised before the stream.     *)
(***************************************************************************)
EXTENDS PipelineProperties

CONSTANTS a, b, free, old, h

MCPools == {a, b, free, old}
MCKeyOf ==
  [p \in MCPools |-> [pair |-> "pair", hook |-> IF p = free THEN NoHook ELSE h]]

Init_(p) == [by |-> "PoolManager", kind |-> "Initialize", pool |-> p,
             a0 |-> 0, a1 |-> 0, fee |-> 0]
Swap_(p, x, y, f) == [by |-> "PoolManager", kind |-> "Swap", pool |-> p,
                      a0 |-> x, a1 |-> y, fee |-> f]
Modify_(p) == [by |-> "PoolManager", kind |-> "ModifyLiquidity", pool |-> p,
               a0 |-> 0, a1 |-> 0, fee |-> 0]
Donate_(p) == [by |-> "PoolManager", kind |-> "Donate", pool |-> p,
               a0 |-> 1, a1 |-> 0, fee |-> 0]
Foreign_(p) == [Swap_(p, 1, 1, 3) EXCEPT !.by = "other"]

(* Swaps in both directions, at two fees, one of them with an empty leg.   *)
MCLogs ==
  {Init_(p) : p \in {a, b, free}}
    \cup {Swap_(a, -2, 1, 1), Swap_(a, 1, 0, 2), Swap_(b, 1, -1, 1), Swap_(free, -1, 1, 1),
          Swap_(old, -1, 2, 1)}
    \cup {Modify_(a), Modify_(old), Donate_(a), Foreign_(a)}

LiveLogs == {Init_(a), Swap_(a, -2, 1, 1), Modify_(old)}
=============================================================================
