------------------------------- MODULE KeyLock -------------------------------
(***************************************************************************)
(* One lock file of aiverse_brain: the protocol of RuntimeKeyLock.acquire  *)
(* (runtime_lock.py) and of ObjectStore._lock (storage.py), which is the   *)
(* same code twice.  A process creates the file with O_CREAT|O_EXCL, then  *)
(* writes its token into it; a process that finds the file already there   *)
(* stats it and, on its first attempt only, unlinks it when it is older    *)
(* than the time to live; the owner reads the token back and unlinks the   *)
(* file when the token is its own.  Every system call is a step.           *)
(*                                                                         *)
(* The age of the file counts clock ticks since its last write and         *)
(* saturates at Ttl + 1: the code only asks whether it is above Ttl.       *)
(*                                                                         *)
(* A process name stands for one live attempt: the uuid token of an        *)
(* attempt that ended or crashed never comes back into the file, because   *)
(* the next creation by the same process needs the old file to be gone.    *)
(*                                                                         *)
(* Short names the windows assumed shorter than what the others do in the  *)
(* meantime.  The code assumes all of them and enforces none:              *)
(*   "hold"     a critical section ends before its lock file expires       *)
(*   "break"    no one touches the file between the stat that found it     *)
(*              expired and the unlink                                     *)
(*   "release"  no one touches the file between reading the token back     *)
(*              and the unlink                                             *)
(***************************************************************************)
EXTENDS Naturals, FiniteSets

CONSTANTS Proc, None, Ttl, Short, MaxCrashes

Windows == {"hold", "break", "release"}

ASSUME KeyLockAssumption ==
  /\ None \notin Proc
  /\ Ttl \in Nat
  /\ Short \subseteq Windows
  /\ MaxCrashes \in Nat

VARIABLES file, pc, attempt, crashes

vars == <<file, pc, attempt, crashes>>

NoFile == [owner |-> None, written |-> FALSE, age |-> 0]
LockFile == [owner : Proc \cup {None}, written : BOOLEAN, age : 0 .. Ttl + 1]

Present == file.owner # None
Expired == file.age > Ttl

\* Between a successful O_EXCL creation and the end of the release.
HoldStates == {"write", "critical", "readToken", "unlink"}
Holding(p) == pc[p] \in HoldStates
\* The lock protects what runs between the yield and the release.
Critical(p) == pc[p] = "critical"

Init ==
  /\ file = NoFile
  /\ pc = [p \in Proc |-> "idle"]
  /\ attempt = [p \in Proc |-> 0]
  /\ crashes = 0

Goto(p, state) == pc' = [pc EXCEPT ![p] = state]

\* A process about to unlink on the strength of what it saw earlier.
InWindow(p) ==
  \/ pc[p] = "break"  /\ "break" \in Short
  \/ pc[p] = "unlink" /\ "release" \in Short

\* No other process is inside a window assumed to be uninterrupted.
Undisturbed(p) == \A q \in Proc \ {p} : ~InWindow(q)

(***************************************************************************)
(* acquire: two attempts at most                                           *)
(***************************************************************************)

Start(p) ==
  /\ pc[p] = "idle"
  /\ Goto(p, "create")
  /\ attempt' = [attempt EXCEPT ![p] = 0]
  /\ UNCHANGED file

\* Mutant: without O_EXCL.
CreateOver(p) ==
  /\ pc[p] = "create"
  /\ Undisturbed(p)
  /\ file' = [owner |-> p, written |-> FALSE, age |-> 0]
  /\ Goto(p, "write")
  /\ UNCHANGED attempt

Create(p) ==
  /\ pc[p] = "create"
  /\ ~Present
  /\ Undisturbed(p)
  /\ file' = [owner |-> p, written |-> FALSE, age |-> 0]
  /\ Goto(p, "write")
  /\ UNCHANGED attempt

CreateExists(p) ==
  /\ pc[p] = "create"
  /\ Present
  /\ Goto(p, "stat")
  /\ UNCHANGED <<file, attempt>>

\* Mutant: the attempts are counted from one.
NextAttemptFromOne(p) ==
  /\ attempt' = [attempt EXCEPT ![p] = @ + 1]
  /\ Goto(p, "create")

\* The file was gone by the time of the stat, or was just unlinked by us: the
\* for loop goes on to the second attempt and there is no third.
NextAttempt(p) ==
  IF attempt[p] = 0
    THEN /\ attempt' = [attempt EXCEPT ![p] = 1]
         /\ Goto(p, "create")
    ELSE /\ attempt' = [attempt EXCEPT ![p] = 0]
         /\ Goto(p, "idle")

StatMissing(p) ==
  /\ pc[p] = "stat"
  /\ ~Present
  /\ NextAttempt(p)
  /\ UNCHANGED file

\* Mutants: a lock file that is just as old as the time to live is broken; only the
\* second attempt breaks one.
StatExpiring(p) ==
  /\ pc[p] = "stat"
  /\ Present
  /\ file.age >= Ttl
  /\ attempt[p] = 0
  /\ Undisturbed(p)
  /\ Goto(p, "break")
  /\ UNCHANGED <<file, attempt>>

StatExpiredLast(p) ==
  /\ pc[p] = "stat"
  /\ Present
  /\ Expired
  /\ attempt[p] = 1
  /\ Undisturbed(p)
  /\ Goto(p, "break")
  /\ UNCHANGED <<file, attempt>>

StatExpired(p) ==
  /\ pc[p] = "stat"
  /\ Present
  /\ Expired
  /\ attempt[p] = 0
  /\ Undisturbed(p)
  /\ Goto(p, "break")
  /\ UNCHANGED <<file, attempt>>

\* raise LockConflict
StatConflict(p) ==
  /\ pc[p] = "stat"
  /\ Present
  /\ ~Expired \/ attempt[p] = 1
  /\ Goto(p, "idle")
  /\ attempt' = [attempt EXCEPT ![p] = 0]
  /\ UNCHANGED file

\* path.unlink() removes whatever file is there now; FileNotFoundError is ignored.
Break(p) ==
  /\ pc[p] = "break"
  /\ file' = NoFile
  /\ NextAttempt(p)

\* The token goes to the open descriptor: when the file was unlinked in the
\* meantime, the write reaches an inode that no path names any more.
Write(p) ==
  /\ pc[p] = "write"
  /\ file' = IF file.owner = p THEN [owner |-> p, written |-> TRUE, age |-> 0] ELSE file
  /\ Undisturbed(p)
  /\ Goto(p, "critical")
  /\ UNCHANGED attempt

(***************************************************************************)
(* release                                                                 *)
(***************************************************************************)

Finish(p) ==
  /\ pc[p] = "critical"
  /\ Goto(p, "readToken")
  /\ UNCHANGED <<file, attempt>>

\* Mutant: the token is not compared.
ReadAnyToken(p) ==
  /\ pc[p] = "readToken"
  /\ Undisturbed(p)
  /\ Goto(p, "unlink")
  /\ UNCHANGED <<file, attempt>>

ReadOwnToken(p) ==
  /\ pc[p] = "readToken"
  /\ file.owner = p
  /\ Undisturbed(p)
  /\ Goto(p, "unlink")
  /\ UNCHANGED <<file, attempt>>

\* The file is gone, or carries another token, or is still empty and fails to
\* parse (the JSON error leaves the file alone and reaches the caller).
ReadOtherToken(p) ==
  /\ pc[p] = "readToken"
  /\ file.owner # p
  /\ Goto(p, "idle")
  /\ attempt' = [attempt EXCEPT ![p] = 0]
  /\ UNCHANGED file

Unlink(p) ==
  /\ pc[p] = "unlink"
  /\ file' = NoFile
  /\ Goto(p, "idle")
  /\ attempt' = [attempt EXCEPT ![p] = 0]

(***************************************************************************)
(* The environment                                                         *)
(***************************************************************************)

\* The process dies: its lock file, if it made one, stays on disk.
Crash(p) ==
  /\ pc[p] # "idle"
  /\ crashes < MaxCrashes
  /\ crashes' = crashes + 1
  /\ Goto(p, "idle")
  /\ attempt' = [attempt EXCEPT ![p] = 0]
  /\ UNCHANGED file

\* "hold": the file of a live holder never gets past its time to live.
Age ==
  /\ Present
  /\ ~Expired
  /\ \/ "hold" \notin Short
     \/ file.age < Ttl
     \/ ~\E p \in Proc : file.owner = p /\ Holding(p)
  /\ file' = [file EXCEPT !.age = @ + 1]
  /\ UNCHANGED <<pc, attempt, crashes>>

Step(p) ==
  /\ \/ Start(p) \/ Create(p) \/ CreateExists(p) \/ StatMissing(p)
     \/ StatExpired(p) \/ StatConflict(p) \/ Break(p) \/ Write(p)
     \/ Finish(p) \/ ReadOwnToken(p) \/ ReadOtherToken(p) \/ Unlink(p)
  /\ UNCHANGED crashes

Next ==
  \/ \E p \in Proc : Step(p) \/ Crash(p)
  \/ Age

Spec == Init /\ [][Next]_vars

(***************************************************************************)
(* Fairness: the clock runs, a live process takes its next step, and a     *)
(* caller turned away comes back (the callers poll or are called again).   *)
(***************************************************************************)
Fairness ==
  /\ WF_vars(Age)
  /\ \A p \in Proc : WF_vars(Step(p))

FairSpec == Spec /\ Fairness

(***************************************************************************)
(* What the rest of the project takes the lock for: module TtlLock.        *)
(***************************************************************************)
Lock == INSTANCE TtlLock WITH
  lock   <- IF ~Present THEN [state |-> "free", owner |-> None]
            ELSE IF Holding(file.owner) THEN [state |-> "held", owner |-> file.owner]
            ELSE [state |-> "abandoned", owner |-> None],
  inside <- {p \in Proc : Holding(p)}

(***************************************************************************)
(* Properties                                                              *)
(***************************************************************************)

TypeOK ==
  /\ file \in LockFile
  /\ pc \in [Proc -> {"idle", "create", "stat", "break"} \cup HoldStates]
  /\ attempt \in [Proc -> {0, 1}]
  /\ crashes \in 0 .. MaxCrashes

\* Two processes never run under the same key lock at once: this is what every
\* caller of RuntimeKeyLock.acquire and ObjectStore._lock relies on.  It needs
\* "hold" and "break".
Exclusive == \A p, q \in Proc : Critical(p) /\ Critical(q) => p = q

\* A release takes away a lock file only when it is the releaser's own: what the
\* token check is for, even when the releaser overran its time to live and someone
\* else now owns the key.  It needs "release".
ReleaseIsOwn ==
  [][\A p \in Proc : pc[p] \in {"readToken", "unlink"} /\ pc'[p] = "idle"
                       => file' = file \/ file.owner = p]_vars

\* The lock file protocol is the expiring mutex of TtlLock when critical sections
\* are shorter than the time to live and a break is not interleaved.
ImplementsTtlLock == Lock!Spec

\* A lock file whose maker died does not block its key forever: some later caller
\* breaks it, and someone gets the lock.
AbandonedIsReclaimed ==
  (Present /\ ~\E p \in Proc : file.owner = p /\ Holding(p)) ~> ~Present

=============================================================================
