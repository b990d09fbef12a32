--------------------------- MODULE MCActionLedger ---------------------------
(***************************************************************************)
(* ActionLedger for the model checker: a side effect that may be run       *)
(* against an idempotent and a plain host, another request under the same  *)
(* key, and a read under the same key in the other place.                  *)
(***************************************************************************)
EXTENDS ActionLedger, TLC

CONSTANTS c1, c2, idem, plain, k1, scope, runtime

Write == [key |-> k1, place |-> scope, hosts |-> {idem, plain}, sideEffect |-> TRUE, body |-> 1]
Other == [key |-> k1, place |-> scope, hosts |-> {plain}, sideEffect |-> TRUE, body |-> 2]
Read == [key |-> k1, place |-> runtime, hosts |-> {plain}, sideEffect |-> FALSE, body |-> 3]

MCRequests == {Write, Other, Read}

Symmetry == Permutations(Caller)
=============================================================================
