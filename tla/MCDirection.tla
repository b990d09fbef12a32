----------------------------- MODULE MCDirection -----------------------------
\* Two processes, the operator and one workspace, two things to state.
EXTENDS Direction, TLC

CONSTANTS c1, c2, operator, studio, growth, quality

Clients == {c1, c2}
Processes == Permutations(Clients)
Scopes == {operator, studio}
Items == {growth, quality}
Goals == {{growth}}
\* The operator alone: the liveness run.
Alone == {operator}
AloneSection == [s \in Alone |-> {{quality}}]
Sections == [s \in Scopes |-> {{quality}}]
=============================================================================
