---------------------------- MODULE MCObjectStore ----------------------------
(***************************************************************************)
(* ObjectStore for the model checker: three callers with two saves each,   *)
(* so that a save meets both a concurrent one and the leftovers of a dead  *)
(* one.                                                                    *)
(***************************************************************************)
EXTENDS ObjectStore, TLC

Symmetry == Permutations(Proc)
=============================================================================
