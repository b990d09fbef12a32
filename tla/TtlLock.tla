------------------------------- MODULE TtlLock -------------------------------
(***************************************************************************)
(* The expiring mutex that the callers of a key lock rely on: at most one  *)
(* live process is inside; a process that dies inside leaves the lock      *)
(* abandoned, and an abandoned lock is reclaimed, once its time to live is *)
(* over, without a live process ever losing its own.  KeyLock implements   *)
(* it; the modules that use a lock take its steps from here.               *)
(***************************************************************************)
CONSTANTS Proc, None

VARIABLES lock, inside

Free == [state |-> "free", owner |-> None]
Abandoned == [state |-> "abandoned", owner |-> None]
HeldBy(p) == [state |-> "held", owner |-> p]

Init == lock = Free /\ inside = {}

Take(p) ==
  /\ lock = Free
  /\ lock' = HeldBy(p)
  /\ inside' = inside \cup {p}

Give(p) ==
  /\ lock = HeldBy(p)
  /\ lock' = Free
  /\ inside' = inside \ {p}

Die(p) ==
  /\ lock = HeldBy(p)
  /\ lock' = Abandoned
  /\ inside' = inside \ {p}

Reclaim ==
  /\ lock = Abandoned
  /\ lock' = Free
  /\ UNCHANGED inside

Next == (\E p \in Proc : Take(p) \/ Give(p) \/ Die(p)) \/ Reclaim

Spec == Init /\ [][Next]_<<lock, inside>>
=============================================================================
