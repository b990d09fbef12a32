------------------------------ MODULE MCRecovery ------------------------------
(***************************************************************************)
(* Recovery for the model checker: two corrections of one intent, and two  *)
(* set-ups that adopt.                                                     *)
(***************************************************************************)
EXTENDS Recovery, MCKeyLock

CONSTANTS o1, o2, w1, w2

TwoOperations == {o1, o2}
TwoWorkers == {w1, w2}
=============================================================================
