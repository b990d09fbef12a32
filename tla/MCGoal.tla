-------------------------------- MODULE MCGoal --------------------------------
(***************************************************************************)
(* Goal for the model checker: two references, one criterion, and two      *)
(* budgets that between them let every limit be the first one reached.     *)
(***************************************************************************)
EXTENDS Goal, TLC

CONSTANTS e1, e2, k1, t1, t2

Supply(first, second) == (e1 :> first) @@ (e2 :> second)

Small == [turns |-> 3, tokens |-> 1, cost |-> Unlimited, stall |-> 1, deadline |-> 1]
Large == [turns |-> 3, tokens |-> Unlimited, cost |-> 1, stall |-> 3, deadline |-> Unlimited]

MCBudgets == {Small, Large}
MCGateSets == {{}, {{e1, e2}}}
MCSupplies == {Supply("none", "none"), Supply("hard", "none"), Supply("model", "hard")}
ModelOnly == {Supply("none", "none"), Supply("model", "model")}
=============================================================================
