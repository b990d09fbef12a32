------------------------------- MODULE MCIntents -------------------------------
\* Three corrections in one scope, the first of them cut short and sent again.
EXTENDS Intents, TLC

CONSTANTS o1, o2, o3
Symmetry == Permutations(Operation)
=============================================================================
