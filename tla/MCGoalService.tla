----------------------------- MODULE MCGoalService -----------------------------
(***************************************************************************)
(* GoalService for the model checker: two goals, g1 made by o1 and g2 by   *)
(* o2, and a third operation id o3; g1 is also used as an operation id.    *)
(***************************************************************************)
EXTENDS GoalService, MCGoal

CONSTANTS c1, c2, o1, o2, o3, g1, g2, a, b

TwoGoals == {g1, g2}
TwoCallers == {c1, c2}
SomeOps == {o1, o2, o3, g1}
TwoVariants == {a, b}
FirstTwoOps == (g1 :> o1) @@ (g2 :> o2)

Make(op, made, variant) ==
  [op |-> op, goal |-> made, variant |-> variant, expected |-> 0]
Change(op, made, variant, version) ==
  [op |-> op, goal |-> made, variant |-> variant, expected |-> version]

\* The collisions of interest: a create resent and resent with another payload, one
\* operation id on two goals, on two versions and with two payloads, an operation
\* id spelled like a goal id, and the create's id used again for a mutation.
CollidingRequests ==
  {Make(o1, g1, a), Make(o1, g1, b), Make(o2, g2, a),
   Change(o3, g1, a, 1), Change(o3, g1, a, 2), Change(o3, g1, b, 1),
   Change(o3, g2, a, 1), Change(g1, g2, a, 1), Change(g1, g1, a, 2),
   Change(o1, g1, a, 1)}

\* While the operations run, the goal rests in one of its first states.
RestingInit ==
  /\ GoalServiceInit
  /\ part = "operations" =>
       /\ goal.status = "PAUSED" /\ goal.budget = Small
       /\ goal.gates = {} /\ goal.criteria = [k \in Crit |-> Absent]

MCGoalServiceSpec == RestingInit /\ [][GoalServiceNext]_goalServiceVars

Callers == Permutations(TwoCallers)
=============================================================================
