------------------------------- MODULE MCTick -------------------------------
\* Two runners, two triggers of one scope.
EXTENDS Tick, TLC

CONSTANTS p1, p2, k1, k2, s1, gap, offer

Runners == {p1, p2}
Triggers == {k1, k2}
OneSession == {s1}
Findings == {gap, offer}
Symmetry == Permutations(Runners) \cup Permutations(Triggers) \cup Permutations(Findings)

NothingOverruns == {"tick", "recover"}
=============================================================================
