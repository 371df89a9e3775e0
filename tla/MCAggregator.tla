---------------------------- MODULE MCAggregator ----------------------------
(***************************************************************************)
(* The pool of one hook; the other emits on it too, as an unrelated        *)
(* contract would.                                                         *)
(***************************************************************************)
EXTENDS Aggregator

CONSTANTS hook, other, pool

MCHookOf == [p \in Pools |-> hook]
=============================================================================
