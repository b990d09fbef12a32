------------------------------ MODULE MCServices ------------------------------
(***************************************************************************)
(* Services for the model checker: two workers in each part, small sets of *)
(* objects, and the inputs that tell the cases apart.                      *)
(***************************************************************************)
EXTENDS Services, MCKeyLock, TLC

CONSTANTS p1, p2, p3, w1, w2, s1, s2, x1, x2, k1, t1, job1, job2,
          op1, op2, n1, n2, c1, c2, c3, d1, d2, e1, e2, e3

Workers == {w1, w2}

\* Base, a revision of it, and one more.
ThreeStrategies == {Base, s1, s2}
TwoRestorations == {x1, x2}

\* Objectives: two of them for one place, verified at V2.
TwoObjectives == {job1, job2}
OneCriterion == {k1}
OneToken == {t1}
Waiting == {"QUEUED", "RUNNING"}
Verdicts(state, basis) == [k \in OneCriterion |-> [status |-> state, basis |-> basis]]
Handed(level, independence, apart, verdicts) ==
  [level |-> level, independence |-> independence, apart |-> apart, verdicts |-> verdicts]
\* good, too weak for its level, below the floor, not independent, failed, silent
HandedIn ==
  {Handed(2, 1, TRUE, Verdicts("passed", "strong")), Handed(2, 1, TRUE, Verdicts("passed", "weak")),
   Handed(1, 0, FALSE, Verdicts("passed", "weak")), Handed(2, 0, FALSE, Verdicts("passed", "strong")),
   Handed(2, 1, TRUE, Verdicts("failed", "strong")), Handed(2, 1, TRUE, Verdicts("absent", "none")),
   Handed(2, 1, TRUE, Verdicts("not_applicable", "none"))}

\* Initiatives: two opportunities for one gap, two initiatives of them and one that is
\* there already.
TwoOpportunities == {op1, op2}
ThreeInitiatives == {n1, n2, Elder}

ThreeCopies == {c1, c2, c3}

\* Learning: two observations and a controlled evaluation to learn from.
TwoDrafts == {d1, d2}
ThreeRefs == {e1, e2, e3}
Classed == (e1 :> "observed") @@ (e2 :> "observed") @@ (e3 :> "controlled")
Times(ref, n) == [r \in ThreeRefs |-> IF r = ref THEN n ELSE 0]
FourBatches == {Times(e1, 1), Times(e2, 1), Times(e2, 2), Times(e3, 1)}

Symmetry ==
  UNION {Permutations(Workers), Permutations(TwoOpportunities), Permutations({n1, n2})}
=============================================================================
