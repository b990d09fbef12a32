------------------------------ MODULE MCKeyLock ------------------------------
(***************************************************************************)
(* KeyLock for the model checker: three processes, so that one can die     *)
(* holding the lock while two others reclaim it at the same time.          *)
(***************************************************************************)
EXTENDS KeyLock

QuickHolders == {"hold", "break"}
SlowHolders == {"break", "release"}
RacyBreak == {"hold"}
=============================================================================
