---------------------------- MODULE KeyLockProofs ----------------------------
(***************************************************************************)
(* For every set of processes, time to live and number of crashes: when    *)
(* critical sections end before their lock expires and a break is not      *)
(* interleaved, the lock file protocol excludes, and it implements the     *)
(* expiring mutex TtlLock.  When no step falls between the token check of  *)
(* a release and its unlink, a holder however slow only unlinks its own.   *)
(***************************************************************************)
EXTENDS KeyLock, TLAPS

\* A process that holds the lock made the file on disk and the file has not
\* expired, and a file about to be broken is gone or expired.
LockInv ==
  /\ TypeOK
  /\ \A p \in Proc : Holding(p) => file.owner = p /\ ~Expired
  /\ \A p \in Proc : pc[p] = "break" => ~Present \/ Expired

Timely == {"hold", "break"} \subseteq Short

\* The variables keep their types: one file, two attempts, at most MaxCrashes.
THEOREM TypeCorrect == Spec => []TypeOK
<1> USE KeyLockAssumption
<1>1. Init => TypeOK
  BY DEF Init, TypeOK, NoFile, LockFile
<1>2. TypeOK /\ [Next]_vars => TypeOK'
  <2> SUFFICES ASSUME TypeOK, [Next]_vars
               PROVE  TypeOK'
    OBVIOUS
  <2> USE DEF TypeOK, HoldStates, LockFile, NoFile, Goto, NextAttempt
  <2>1. ASSUME NEW p \in Proc, Step(p)
        PROVE  TypeOK'
    <3>1. CASE Start(p) BY <2>1, <3>1 DEF Step, Start
    <3>2. CASE Create(p) BY <2>1, <3>2 DEF Step, Create
    <3>3. CASE CreateExists(p) BY <2>1, <3>3 DEF Step, CreateExists
    <3>4. CASE StatMissing(p) BY <2>1, <3>4 DEF Step, StatMissing
    <3>5. CASE StatExpired(p) BY <2>1, <3>5 DEF Step, StatExpired
    <3>6. CASE StatConflict(p) BY <2>1, <3>6 DEF Step, StatConflict
    <3>7. CASE Break(p) BY <2>1, <3>7 DEF Step, Break
    <3>8. CASE Write(p) BY <2>1, <3>8 DEF Step, Write
    <3>9. CASE Finish(p) BY <2>1, <3>9 DEF Step, Finish
    <3>10. CASE ReadOwnToken(p) BY <2>1, <3>10 DEF Step, ReadOwnToken
    <3>11. CASE ReadOtherToken(p) BY <2>1, <3>11 DEF Step, ReadOtherToken
    <3>12. CASE Unlink(p) BY <2>1, <3>12 DEF Step, Unlink
    <3>13. QED BY <2>1, <3>1, <3>2, <3>3, <3>4, <3>5, <3>6, <3>7, <3>8, <3>9,
                  <3>10, <3>11, <3>12 DEF Step
  <2>2. ASSUME NEW p \in Proc, Crash(p)
        PROVE  TypeOK'
    BY <2>2 DEF Crash
  <2>3. CASE Age
    BY <2>3 DEF Age, Expired
  <2>4. CASE UNCHANGED vars
    BY <2>4 DEF vars
  <2>5. QED
    BY <2>1, <2>2, <2>3, <2>4 DEF Next
<1>3. QED
  BY <1>1, <1>2, PTL DEF Spec

\* Under the timing assumptions every step keeps the file and its holder in agreement.
LEMMA LockInvStep == ASSUME Timely, LockInv, [Next]_vars, TypeOK' PROVE LockInv'
<1> USE KeyLockAssumption DEF LockInv, Holding, HoldStates, Present, Expired
<1>1. ASSUME NEW p \in Proc, Step(p)
      PROVE  LockInv'
  <2> USE DEF TypeOK, LockFile, NoFile, Goto
  <2>1. CASE Start(p) BY <1>1, <2>1 DEF Step, Start
  <2>2. CASE Create(p)
    BY <1>1, <2>2 DEF Step, Create, Undisturbed, InWindow, Timely
  <2>3. CASE CreateExists(p) BY <1>1, <2>3 DEF Step, CreateExists
  <2>4. CASE StatMissing(p) BY <1>1, <2>4 DEF Step, StatMissing, NextAttempt
  <2>5. CASE StatExpired(p) BY <1>1, <2>5 DEF Step, StatExpired
  <2>6. CASE StatConflict(p) BY <1>1, <2>6 DEF Step, StatConflict
  <2>7. CASE Break(p) BY <1>1, <2>7 DEF Step, Break, NextAttempt
  <2>8. CASE Write(p)
    BY <1>1, <2>8 DEF Step, Write, Undisturbed, InWindow, Timely
  <2>9. CASE Finish(p) BY <1>1, <2>9 DEF Step, Finish
  <2>10. CASE ReadOwnToken(p) BY <1>1, <2>10 DEF Step, ReadOwnToken
  <2>11. CASE ReadOtherToken(p) BY <1>1, <2>11 DEF Step, ReadOtherToken
  <2>12. CASE Unlink(p) BY <1>1, <2>12 DEF Step, Unlink
  <2>13. QED BY <1>1, <2>1, <2>2, <2>3, <2>4, <2>5, <2>6, <2>7, <2>8, <2>9,
                <2>10, <2>11, <2>12 DEF Step
<1>2. ASSUME NEW p \in Proc, Crash(p)
      PROVE  LockInv'
  BY <1>2 DEF Crash, TypeOK, Goto
<1>3. CASE Age
  BY <1>3 DEF Age, TypeOK, LockFile, Timely
<1>4. CASE UNCHANGED vars
  BY <1>4 DEF vars
<1>5. QED
  BY <1>1, <1>2, <1>3, <1>4 DEF Next

\* The file and its holder agree in every reachable state.
LEMMA LockInvInvariant == Timely /\ Spec => []LockInv
<1> SUFFICES ASSUME Timely PROVE Spec => []LockInv
  OBVIOUS
<1>1. Init => LockInv
  BY KeyLockAssumption DEF Init, LockInv, TypeOK, NoFile, LockFile, Holding, HoldStates
<1>2. LockInv /\ [Next]_vars /\ TypeOK' => LockInv'
  BY LockInvStep
<1>3. QED
  BY <1>1, <1>2, TypeCorrect, PTL DEF Spec

\* Under the two timing assumptions the code relies on, two processes are never
\* inside the same key lock, whatever crashes, expiries and reclaims happen.
THEOREM MutualExclusion == Timely /\ Spec => []Exclusive
<1>1. LockInv => Exclusive
  BY DEF LockInv, Exclusive, Critical, Holding, HoldStates
<1>2. QED
  BY <1>1, LockInvInvariant, PTL

\* A releaser about to unlink still owns the file, and nobody else is about to unlink it.
UnlinkInv ==
  /\ TypeOK
  /\ \A p \in Proc : pc[p] = "unlink" =>
       /\ file.owner = p
       /\ \A q \in Proc \ {p} : pc[q] \notin {"break", "unlink"}

Uninterrupted == {"break", "release"} \subseteq Short

\* No step takes the file from under a releaser that has read its token back.
LEMMA UnlinkInvStep == ASSUME Uninterrupted, UnlinkInv, [Next]_vars, TypeOK' PROVE UnlinkInv'
<1> USE KeyLockAssumption DEF UnlinkInv, TypeOK, HoldStates
<1>1. ASSUME NEW p \in Proc, Step(p)
      PROVE  UnlinkInv'
  <2> USE DEF Goto
  <2>1. CASE Start(p) BY <1>1, <2>1 DEF Start
  <2>2. CASE Create(p)
    BY <1>1, <2>2 DEF Create, Undisturbed, InWindow, Uninterrupted
  <2>3. CASE CreateExists(p) BY <1>1, <2>3 DEF CreateExists
  <2>4. CASE StatMissing(p) BY <1>1, <2>4 DEF StatMissing, NextAttempt
  <2>5. CASE StatExpired(p)
    BY <1>1, <2>5 DEF StatExpired, Undisturbed, InWindow, Uninterrupted
  <2>6. CASE StatConflict(p) BY <1>1, <2>6 DEF StatConflict
  <2>7. CASE Break(p) BY <1>1, <2>7 DEF Break, NextAttempt
  <2>8. CASE Write(p) BY <1>1, <2>8 DEF Write
  <2>9. CASE Finish(p) BY <1>1, <2>9 DEF Finish
  <2>10. CASE ReadOwnToken(p)
    BY <1>1, <2>10 DEF ReadOwnToken, Undisturbed, InWindow, Uninterrupted
  <2>11. CASE ReadOtherToken(p) BY <1>1, <2>11 DEF ReadOtherToken
  <2>12. CASE Unlink(p) BY <1>1, <2>12 DEF Unlink
  <2>13. QED BY <1>1, <2>1, <2>2, <2>3, <2>4, <2>5, <2>6, <2>7, <2>8, <2>9,
                <2>10, <2>11, <2>12 DEF Step
<1>2. ASSUME NEW p \in Proc, Crash(p)
      PROVE  UnlinkInv'
  BY <1>2 DEF Crash, Goto
<1>3. CASE Age
  BY <1>3 DEF Age, LockFile
<1>4. CASE UNCHANGED vars
  BY <1>4 DEF vars
<1>5. QED
  BY <1>1, <1>2, <1>3, <1>4 DEF Next

\* The end of a release leaves the file alone or unlinks the releaser's own.
LEMMA ReleaseStep ==
  ASSUME UnlinkInv, [Next]_vars, NEW p \in Proc,
         pc[p] \in {"readToken", "unlink"}, pc'[p] = "idle"
  PROVE  file' = file \/ file.owner = p
<1> USE DEF UnlinkInv, TypeOK, Goto
<1>1. ASSUME NEW q \in Proc, Step(q)
      PROVE  file' = file \/ file.owner = p
  <2>1. CASE q = p
    BY <1>1, <2>1 DEF Step, Start, Create, CreateExists, StatMissing, StatExpired, StatConflict,
                      Break, Write, Finish, ReadOwnToken, ReadOtherToken, Unlink
  <2>2. CASE q # p
    <3>1. pc'[p] = pc[p]
      BY <1>1, <2>2 DEF Step, Start, Create, CreateExists, StatMissing, StatExpired, StatConflict,
                        Break, NextAttempt, Write, Finish, ReadOwnToken, ReadOtherToken, Unlink
    <3>2. QED BY <3>1
  <2>3. QED BY <2>1, <2>2
<1>2. ASSUME NEW q \in Proc, Crash(q)
      PROVE  file' = file \/ file.owner = p
  BY <1>2 DEF Crash
<1>3. CASE Age
  BY <1>3 DEF Age
<1>4. CASE UNCHANGED vars
  BY <1>4 DEF vars
<1>5. QED
  BY <1>1, <1>2, <1>3, <1>4 DEF Next

\* Even a holder that overran its time to live never takes away another's lock file:
\* the token check of the release is enough when nobody steps between it and the unlink.
THEOREM ReleaseOwn == Uninterrupted /\ Spec => ReleaseIsOwn
<1> SUFFICES ASSUME Uninterrupted PROVE Spec => ReleaseIsOwn
  OBVIOUS
<1>1. Init => UnlinkInv
  BY KeyLockAssumption DEF Init, UnlinkInv, TypeOK, NoFile, LockFile
<1>2. UnlinkInv /\ [Next]_vars /\ TypeOK' => UnlinkInv'
  BY UnlinkInvStep
<1>3. UnlinkInv /\ [Next]_vars
        => [\A p \in Proc : pc[p] \in {"readToken", "unlink"} /\ pc'[p] = "idle"
                            => file' = file \/ file.owner = p]_vars
  BY ReleaseStep
<1>4. QED
  BY <1>1, <1>2, <1>3, TypeCorrect, PTL DEF Spec, ReleaseIsOwn

\* No file, no holder: the free mutex.
LEMMA RefinementInit == Init => Lock!Init
  BY KeyLockAssumption DEF Init, Lock!Init, Lock!Free, Present, NoFile, Holding, HoldStates

\* Each system call is a step of the mutex or leaves it alone.
LEMMA RefinementStep ==
  ASSUME Timely, LockInv, LockInv', [Next]_vars
  PROVE  [Lock!Next]_<<IF ~Present THEN [state |-> "free", owner |-> None]
                       ELSE IF Holding(file.owner)
                         THEN [state |-> "held", owner |-> file.owner]
                         ELSE [state |-> "abandoned", owner |-> None],
                       {p \in Proc : Holding(p)}>>
PROOF
<1> DEFINE lk == IF ~Present THEN [state |-> "free", owner |-> None]
                 ELSE IF Holding(file.owner)
                   THEN [state |-> "held", owner |-> file.owner]
                   ELSE [state |-> "abandoned", owner |-> None]
           ins == {p \in Proc : Holding(p)}
<1> SUFFICES Lock!Next \/ (lk' = lk /\ ins' = ins)
  OBVIOUS
<1> USE KeyLockAssumption DEF LockInv, TypeOK, LockFile, Holding, HoldStates, Present
<1>1. ASSUME NEW p \in Proc, UNCHANGED file, UNCHANGED Holding(p),
             \A q \in Proc \ {p} : UNCHANGED pc[q]
      PROVE  lk' = lk /\ ins' = ins
  BY <1>1
<1>2. ASSUME NEW p \in Proc, Step(p)
      PROVE  Lock!Next \/ (lk' = lk /\ ins' = ins)
  <2> USE DEF Goto
  <2>1. CASE Start(p) BY <1>1, <2>1 DEF Start
  <2>2. CASE Create(p)
    <3>1. lk = Lock!Free /\ lk' = Lock!HeldBy(p)
      BY <2>2 DEF Create, Lock!Free, Lock!HeldBy
    <3>2. ins' = ins \cup {p}
      BY <2>2 DEF Create
    <3>3. QED BY <3>1, <3>2 DEF Lock!Next, Lock!Take
  <2>3. CASE CreateExists(p) BY <1>1, <2>3 DEF CreateExists
  <2>4. CASE StatMissing(p) BY <1>1, <2>4 DEF StatMissing, NextAttempt
  <2>5. CASE StatExpired(p) BY <1>1, <2>5 DEF StatExpired
  <2>6. CASE StatConflict(p) BY <1>1, <2>6 DEF StatConflict
  <2>7. CASE Break(p)
    <3>1. ins' = ins
      BY <2>7 DEF Break, NextAttempt
    <3>2. lk' = Lock!Free
      BY <2>7 DEF Break, NoFile, Lock!Free
    <3>3. lk \in {Lock!Free, Lock!Abandoned}
      BY <2>7 DEF Break, Lock!Free, Lock!Abandoned
    <3>4. QED BY <3>1, <3>2, <3>3 DEF Lock!Next, Lock!Reclaim, Lock!Free, Lock!Abandoned
  <2>8. CASE Write(p)
    <3>1. file'.owner = file.owner BY <2>8 DEF Write
    <3>2. \A q \in Proc : Holding(q)' = Holding(q) BY <2>8 DEF Write
    <3>3. QED BY <3>1, <3>2
  <2>9. CASE Finish(p) BY <1>1, <2>9 DEF Finish
  <2>10. CASE ReadOwnToken(p) BY <1>1, <2>10 DEF ReadOwnToken
  <2>11. CASE ReadOtherToken(p) BY <2>11 DEF ReadOtherToken
  <2>12. CASE Unlink(p)
    <3>1. lk = Lock!HeldBy(p) /\ lk' = Lock!Free
      BY <2>12 DEF Unlink, NoFile, Lock!Free, Lock!HeldBy
    <3>2. ins' = ins \ {p}
      BY <2>12 DEF Unlink
    <3>3. QED BY <3>1, <3>2 DEF Lock!Next, Lock!Give
  <2>13. QED BY <1>2, <2>1, <2>2, <2>3, <2>4, <2>5, <2>6, <2>7, <2>8, <2>9,
                <2>10, <2>11, <2>12 DEF Step
<1>3. ASSUME NEW p \in Proc, Crash(p)
      PROVE  Lock!Next \/ (lk' = lk /\ ins' = ins)
  <2>1. CASE Holding(p)
    <3>1. lk = Lock!HeldBy(p) /\ lk' = Lock!Abandoned
      BY <1>3, <2>1 DEF Crash, Goto, Lock!HeldBy, Lock!Abandoned
    <3>2. ins' = ins \ {p}
      BY <1>3, <2>1 DEF Crash, Goto
    <3>3. QED BY <3>1, <3>2 DEF Lock!Next, Lock!Die
  <2>2. CASE ~Holding(p)
    BY <1>1, <1>3, <2>2 DEF Crash, Goto
  <2>3. QED BY <2>1, <2>2
<1>4. CASE Age
  BY <1>4 DEF Age
<1>5. CASE UNCHANGED vars
  BY <1>5 DEF vars
<1>6. QED
  BY <1>2, <1>3, <1>4, <1>5 DEF Next

\* The lock file, its stale break and its crashes implement the expiring mutex the
\* modules of the lock's callers are written against.
THEOREM Refinement == Timely /\ Spec => ImplementsTtlLock
<1> SUFFICES ASSUME Timely PROVE Spec => ImplementsTtlLock
  OBVIOUS
<1>1. LockInv /\ LockInv' /\ [Next]_vars
        => [Lock!Next]_<<IF ~Present THEN [state |-> "free", owner |-> None]
                         ELSE IF Holding(file.owner)
                           THEN [state |-> "held", owner |-> file.owner]
                           ELSE [state |-> "abandoned", owner |-> None],
                         {p \in Proc : Holding(p)}>>
  BY RefinementStep
<1>2. QED
  BY <1>1, RefinementInit, LockInvInvariant, PTL DEF Spec, ImplementsTtlLock, Lock!Spec
=============================================================================
