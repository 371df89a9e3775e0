------------------------------ MODULE MCDbOut ------------------------------
(***************************************************************************)
(* One pool and one position of the stream, and one of each from before.   *)
(***************************************************************************)
EXTENDS DbOut

CONSTANTS p, old, t, oldT, ann, bob

Log_(kind, id, from, value) == [kind |-> kind, id |-> id, from |-> from, value |-> value]

Registered == Log_("AggregatorPoolRegistered", p, Nobody, ann)

MCLogs ==
  {Log_("Initialize", p, Nobody, 1), Log_("Swap", p, Nobody, 2), Log_("Swap", p, Nobody, 3),
   Log_("Swap", old, Nobody, 2), Registered,
   Log_("Transfer", t, Nobody, ann), Log_("Transfer", t, ann, bob),
   Log_("Transfer", t, ann, Nobody), Log_("Transfer", oldT, bob, ann),
   Log_("Subscription", t, Nobody, 0)}

MCPoolOrder == [id \in {p, old} |-> IF id = p THEN 1 ELSE 0]

(* For longer chains.                                                      *)
FewLogs ==
  {Log_("Initialize", p, Nobody, 1), Log_("Swap", p, Nobody, 2),
   Log_("Transfer", t, Nobody, ann), Log_("Transfer", t, ann, bob), Registered}
=============================================================================
