----------------------------- MODULE ObjectStore -----------------------------
(***************************************************************************)
(* One object file of ObjectStore (storage.py): optimistic concurrency on  *)
(* a revision number, checked and advanced under a per-object lock file,   *)
(* published with an atomic os.replace.                                    *)
(*                                                                         *)
(* A caller loads the object without a lock, makes its change and saves    *)
(* with the revision it loaded (None, written 0 here, for an object it did *)
(* not find).  The content of the object is the set of changes it carries: *)
(* a change is a pair of the caller and its running number, so that a      *)
(* change overwritten by a save that never saw it is visible.              *)
(*                                                                         *)
(* The lock is the expiring mutex TtlLock, plus the step the code does not *)
(* exclude: the lock of a saver that is merely slow (a suspended machine,  *)
(* a hanging fsync) is reclaimed while it runs.  overruns counts those.    *)
(***************************************************************************)
EXTENDS Naturals

CONSTANTS Proc, None, MaxSaves, MaxCrashes, MaxOverruns

ASSUME ObjectStoreAssumption ==
  /\ None \notin Proc
  /\ MaxSaves \in Nat
  /\ MaxCrashes \in Nat
  /\ MaxOverruns \in Nat

VARIABLES object,   \* the file: its revision (0: no file) and its content
          lock,     \* owner of the lock file: None, a process, or a dead one
          pc,
          local,    \* what the caller loaded, then what it is about to write
          seen,     \* the revision of the file the save found under the lock
          saves,    \* the number of saves each caller has begun
          outcome,  \* changes whose save returned or raised
          crashes, overruns

vars == <<object, lock, pc, local, seen, saves, outcome, crashes, overruns>>

Change == Proc \X (1 .. MaxSaves)
Object == [revision : Nat, changes : SUBSET Change]
Absent == [revision |-> 0, changes |-> {}]

Mine(p) == <<p, saves[p]>>
Inside(p) == pc[p] \in {"check", "replace", "return", "raise"}

Init ==
  /\ object = Absent
  /\ lock = None
  /\ pc = [p \in Proc |-> "idle"]
  /\ local = [p \in Proc |-> Absent]
  /\ seen = [p \in Proc |-> 0]
  /\ saves = [p \in Proc |-> 0]
  /\ outcome = [saved |-> {}, refused |-> {}]
  /\ crashes = 0
  /\ overruns = 0

\* load, and the caller's change to the object in memory
Load(p) ==
  /\ pc[p] = "idle"
  /\ saves[p] < MaxSaves
  /\ saves' = [saves EXCEPT ![p] = @ + 1]
  /\ local' = [local EXCEPT ![p] =
                 [object EXCEPT !.changes = @ \cup {<<p, saves[p] + 1>>}]]
  /\ pc' = [pc EXCEPT ![p] = "save"]
  /\ UNCHANGED <<object, lock, seen, outcome, crashes, overruns>>

Acquire(p) ==
  /\ pc[p] = "save"
  /\ lock = None
  /\ lock' = p
  /\ pc' = [pc EXCEPT ![p] = "check"]
  /\ UNCHANGED <<object, local, seen, saves, outcome, crashes, overruns>>

\* LockConflict: nothing was touched.
LockBusy(p) ==
  /\ pc[p] = "save"
  /\ lock # None
  /\ outcome' = [outcome EXCEPT !.refused = @ \cup {Mine(p)}]
  /\ pc' = [pc EXCEPT ![p] = "idle"]
  /\ UNCHANGED <<object, lock, local, seen, saves, crashes, overruns>>

\* Mutant: an object that moved on is accepted.
ExpectedAtLeast(p) == object.revision >= local[p].revision

\* The revision test: an existing file needs the revision the caller loaded, a
\* missing one needs a caller that found none.
Expected(p) == object.revision = local[p].revision

\* Mutant: a missing object has no revision to count from.
CheckMissing(p) ==
  /\ pc[p] = "check"
  /\ Expected(p)
  /\ seen' = [seen EXCEPT ![p] = IF object = Absent THEN None ELSE object.revision]
  /\ pc' = [pc EXCEPT ![p] = "replace"]
  /\ UNCHANGED <<object, lock, local, saves, outcome, crashes, overruns>>

Check(p) ==
  /\ pc[p] = "check"
  /\ Expected(p)
  /\ seen' = [seen EXCEPT ![p] = object.revision]
  /\ pc' = [pc EXCEPT ![p] = "replace"]
  /\ UNCHANGED <<object, lock, local, saves, outcome, crashes, overruns>>

\* Mutant: a conflict found after the object was written.
ConflictAfterWrite(p) ==
  /\ pc[p] = "check"
  /\ ~Expected(p)
  /\ object' = [object EXCEPT !.changes = @ \cup {Mine(p)}]
  /\ pc' = [pc EXCEPT ![p] = "raise"]
  /\ UNCHANGED <<lock, local, seen, saves, outcome, crashes, overruns>>

Conflict(p) ==
  /\ pc[p] = "check"
  /\ ~Expected(p)
  /\ pc' = [pc EXCEPT ![p] = "raise"]
  /\ UNCHANGED <<object, lock, local, seen, saves, outcome, crashes, overruns>>

\* Mutant: the revision is advanced by the caller as well.
ReplaceTwiceAdvanced(p) ==
  /\ pc[p] = "replace"
  /\ object' = [revision |-> seen[p] + 2, changes |-> local[p].changes]
  /\ pc' = [pc EXCEPT ![p] = "return"]
  /\ UNCHANGED <<lock, local, seen, saves, outcome, crashes, overruns>>

\* The temporary file is complete and synced before os.replace makes it the object.
Replace(p) ==
  /\ pc[p] = "replace"
  /\ object' = [revision |-> seen[p] + 1, changes |-> local[p].changes]
  /\ pc' = [pc EXCEPT ![p] = "return"]
  /\ UNCHANGED <<lock, local, seen, saves, outcome, crashes, overruns>>

\* _release_if_owned, then the save returns or its RevisionConflict goes on.
Release(p) ==
  /\ pc[p] \in {"return", "raise"}
  /\ lock' = IF lock = p THEN None ELSE lock
  /\ outcome' = IF pc[p] = "return"
                  THEN [outcome EXCEPT !.saved = @ \cup {Mine(p)}]
                  ELSE [outcome EXCEPT !.refused = @ \cup {Mine(p)}]
  /\ pc' = [pc EXCEPT ![p] = "idle"]
  /\ UNCHANGED <<object, local, seen, saves, crashes, overruns>>

\* The process dies between two steps of a save; a temporary file it leaves behind
\* is never read.
Crash(p) ==
  /\ pc[p] # "idle"
  /\ crashes < MaxCrashes
  /\ crashes' = crashes + 1
  /\ pc' = [pc EXCEPT ![p] = "idle"]
  /\ UNCHANGED <<object, lock, local, seen, saves, outcome, overruns>>

\* The lock of a dead saver is taken away once it is old enough ...
Reclaim ==
  /\ lock # None
  /\ ~Inside(lock)
  /\ lock' = None
  /\ UNCHANGED <<object, pc, local, seen, saves, outcome, crashes, overruns>>

\* ... and so is that of a saver slower than the time to live.
Overrun ==
  /\ lock # None
  /\ Inside(lock)
  /\ overruns < MaxOverruns
  /\ overruns' = overruns + 1
  /\ lock' = None
  /\ UNCHANGED <<object, pc, local, seen, saves, outcome, crashes>>

Next ==
  \/ \E p \in Proc :
       \/ Load(p) \/ Acquire(p) \/ LockBusy(p) \/ Check(p) \/ Conflict(p)
       \/ Replace(p) \/ Release(p) \/ Crash(p)
  \/ Reclaim
  \/ Overrun

Spec == Init /\ [][Next]_vars

(***************************************************************************)
(* Properties                                                              *)
(***************************************************************************)

TypeOK ==
  /\ object \in Object
  /\ lock \in Proc \cup {None}
  /\ pc \in [Proc -> {"idle", "save", "check", "replace", "return", "raise"}]
  /\ local \in [Proc -> Object]
  /\ seen \in [Proc -> Nat]
  /\ saves \in [Proc -> 0 .. MaxSaves]
  /\ \A p \in Proc : pc[p] # "idle" => saves[p] > 0
  /\ outcome \in [saved : SUBSET Change, refused : SUBSET Change]
  /\ crashes \in 0 .. MaxCrashes
  /\ overruns \in 0 .. MaxOverruns

\* No silent last-write-wins: a change whose save returned stays in the object,
\* whatever later saves, conflicts and crashes happen, as long as no saver outlived
\* its lock.
NoLostUpdate == overruns = 0 => outcome.saved \subseteq object.changes

\* A save that raised a conflict left no trace in the object, nor does any later
\* save carry its change in, lost locks included.
RefusedIsAbsent == outcome.refused \cap object.changes = {}

\* Every new revision follows the previous one by one and keeps what it carried: the
\* versions of the object form one line of history until a saver outlives its lock.
OneHistory ==
  [][overruns = 0 /\ object' # object =>
       /\ object'.revision = object.revision + 1
       /\ object.changes \subseteq object'.changes]_vars
=============================================================================
