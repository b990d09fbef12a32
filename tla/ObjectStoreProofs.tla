--------------------------- MODULE ObjectStoreProofs ---------------------------
(***************************************************************************)
(* For every number of callers, saves and crashes: the object store loses  *)
(* no update as long as no saver outlives its lock, and a refused save     *)
(* leaves no trace even when one does.                                     *)
(***************************************************************************)
EXTENDS ObjectStore, TLAPS

\* The variables keep their types.
THEOREM StoreTypeCorrect == Spec => []TypeOK
<1> USE ObjectStoreAssumption DEF TypeOK, Object, Absent
<1>1. Init => TypeOK
  BY DEF Init
<1>2. TypeOK /\ [Next]_vars => TypeOK'
  <2> SUFFICES ASSUME TypeOK, [Next]_vars
               PROVE  TypeOK'
    OBVIOUS
  <2>1. ASSUME NEW p \in Proc, Load(p)
        PROVE  TypeOK'
    <3>1. <<p, saves[p] + 1>> \in Change
      BY <2>1 DEF Load, Change
    <3>2. [object EXCEPT !.changes = @ \cup {<<p, saves[p] + 1>>}] \in Object
      BY <3>1
    <3>3. local' \in [Proc -> Object]
      BY <2>1, <3>2 DEF Load
    <3>4. QED BY <2>1, <3>3 DEF Load
  <2>2. ASSUME NEW p \in Proc, pc[p] # "idle"
        PROVE  Mine(p) \in Change
    BY <2>2 DEF Mine, Change
  <2>3. ASSUME NEW p \in Proc, Acquire(p)
        PROVE  TypeOK'
    BY <2>3 DEF Acquire
  <2>4. ASSUME NEW p \in Proc, LockBusy(p)
        PROVE  TypeOK'
    <3>1. pc[p] # "idle"
      BY <2>4 DEF LockBusy
    <3>2. outcome' \in [saved : SUBSET Change, refused : SUBSET Change]
      BY <2>2, <2>4, <3>1 DEF LockBusy
    <3>3. pc' \in [Proc -> {"idle", "save", "check", "replace", "return", "raise"}]
      BY <2>4 DEF LockBusy
    <3>4. \A q \in Proc : pc'[q] # "idle" => saves[q] > 0
      BY <2>4 DEF LockBusy
    <3>5. QED BY <2>4, <3>2, <3>3, <3>4 DEF LockBusy
  <2>5. ASSUME NEW p \in Proc, Check(p)
        PROVE  TypeOK'
    BY <2>5 DEF Check
  <2>6. ASSUME NEW p \in Proc, Conflict(p)
        PROVE  TypeOK'
    BY <2>6 DEF Conflict
  <2>7. ASSUME NEW p \in Proc, Replace(p)
        PROVE  TypeOK'
    BY <2>7 DEF Replace
  <2>8. ASSUME NEW p \in Proc, Release(p)
        PROVE  TypeOK'
    <3>1. outcome' \in [saved : SUBSET Change, refused : SUBSET Change]
      BY <2>2, <2>8 DEF Release
    <3>2. QED BY <2>8, <3>1 DEF Release
  <2>9. ASSUME NEW p \in Proc, Crash(p)
        PROVE  TypeOK'
    BY <2>9 DEF Crash
  <2>10. CASE Reclaim
    BY <2>10 DEF Reclaim
  <2>11. CASE Overrun
    BY <2>11 DEF Overrun
  <2>12. CASE UNCHANGED vars
    BY <2>12 DEF vars
  <2>13. QED
    BY <2>1, <2>3, <2>4, <2>5, <2>6, <2>7, <2>8, <2>9, <2>10, <2>11, <2>12 DEF Next
<1>3. QED
  BY <1>1, <1>2, PTL DEF Spec

Preparing(p) == pc[p] \in {"save", "check", "replace"}

\* Between the revision test and the replace nothing moves: the saver owns the lock,
\* its copy is of the current revision and carries everything the object carries.
CopiesAreSound ==
  /\ \A p \in Proc : Inside(p) => lock = p
  /\ \A p \in Proc : local[p].revision <= object.revision
  /\ \A p \in Proc : pc[p] = "replace" =>
       seen[p] = object.revision /\ local[p].revision = object.revision
  /\ \A p \in Proc : Preparing(p) =>
       /\ Mine(p) \in local[p].changes
       /\ local[p].revision = object.revision => object.changes \subseteq local[p].changes
  /\ \A p \in Proc : pc[p] = "return" => Mine(p) \in object.changes
  /\ outcome.saved \subseteq object.changes

StoreInv == overruns = 0 => CopiesAreSound

\* Without an overrun every step keeps the copies sound.
LEMMA StoreInvStep ==
  ASSUME TypeOK, TypeOK', StoreInv, [Next]_vars
  PROVE  StoreInv'
<1> USE ObjectStoreAssumption
<1> SUFFICES ASSUME overruns = 0, overruns' = 0, CopiesAreSound
             PROVE  CopiesAreSound'
  <2>1. overruns' = 0 => overruns = 0
    <3>1. CASE Overrun BY <3>1 DEF Overrun, TypeOK
    <3>2. CASE overruns' = overruns BY <3>2
    <3>3. QED
      BY <3>1, <3>2 DEF Next, vars, Load, Acquire, LockBusy, Check, Conflict, Replace,
                        Release, Crash, Reclaim
  <2>2. QED BY <2>1 DEF StoreInv
<1> USE DEF CopiesAreSound, Preparing, Inside, Mine
<1>1. ASSUME NEW p \in Proc, Load(p)
      PROVE  CopiesAreSound'
  <2>1. /\ local'[p] = [revision |-> object.revision,
                        changes |-> object.changes \cup {<<p, saves[p] + 1>>}]
        /\ saves'[p] = saves[p] + 1
        /\ pc'[p] = "save"
    BY <1>1 DEF Load, TypeOK, Object
  <2>2. \A q \in Proc \ {p} : local'[q] = local[q] /\ saves'[q] = saves[q] /\ pc'[q] = pc[q]
    BY <1>1 DEF Load, TypeOK
  <2>3. object' = object /\ lock' = lock /\ seen' = seen /\ outcome' = outcome
    BY <1>1 DEF Load
  <2>4. object.revision \in Nat
    BY DEF TypeOK, Object
  <2>5. QED BY <2>1, <2>2, <2>3, <2>4
<1>2. ASSUME NEW p \in Proc, Acquire(p)
      PROVE  CopiesAreSound'
  BY <1>2 DEF Acquire, TypeOK
<1>3. ASSUME NEW p \in Proc, LockBusy(p)
      PROVE  CopiesAreSound'
  BY <1>3 DEF LockBusy, TypeOK
<1>4. ASSUME NEW p \in Proc, Check(p)
      PROVE  CopiesAreSound'
  BY <1>4 DEF Check, Expected, TypeOK
<1>5. ASSUME NEW p \in Proc, Conflict(p)
      PROVE  CopiesAreSound'
  BY <1>5 DEF Conflict, TypeOK
<1>6. ASSUME NEW p \in Proc, Replace(p)
      PROVE  CopiesAreSound'
  <2>1. /\ object'.revision = object.revision + 1
        /\ object'.changes = local[p].changes
        /\ object.changes \subseteq object'.changes
        /\ Mine(p) \in object'.changes
    BY <1>6 DEF Replace
  <2>2. \A q \in Proc : local[q].revision < object'.revision
    BY <2>1 DEF TypeOK, Object
  <2>3. \A q \in Proc \ {p} : ~Inside(q) /\ pc'[q] = pc[q]
    BY <1>6 DEF Replace, TypeOK
  <2>4. pc'[p] = "return" /\ UNCHANGED <<lock, local, seen, saves, outcome>>
    BY <1>6 DEF Replace, TypeOK
  <2>5. \A q \in Proc : local'[q].revision <= object'.revision
    BY <2>1, <2>4 DEF TypeOK, Object
  <2>6. \A q \in Proc : Inside(q)' => lock' = q
    BY <1>6, <2>3, <2>4 DEF Replace
  <2>7. \A q \in Proc : (Preparing(q))' => Mine(q)' \in local'[q].changes
                                           /\ local'[q].revision # object'.revision
    <3>1. SUFFICES ASSUME NEW q \in Proc, pc'[q] \in {"save", "check", "replace"}
                   PROVE  <<q, saves[q]>> \in local[q].changes
                          /\ local[q].revision # object'.revision
      BY <2>4
    <3>2. q # p /\ pc[q] = "save"
      BY <2>3, <2>4, <3>1
    <3>3. local[q].revision < object'.revision
      BY <2>2
    <3>4. local[q].revision \in Nat /\ object'.revision \in Nat
      BY DEF TypeOK, Object
    <3>5. QED BY <3>2, <3>3, <3>4
  <2>8. \A q \in Proc : pc'[q] = "return" => Mine(q)' \in object'.changes
    BY <2>1, <2>3, <2>4
  <2>9. \A q \in Proc : pc'[q] # "replace"
    BY <2>3, <2>4
  <2>10. outcome'.saved \subseteq object'.changes
    BY <2>1, <2>4
  <2>11. QED BY <2>5, <2>6, <2>7, <2>8, <2>9, <2>10
<1>7. ASSUME NEW p \in Proc, Release(p)
      PROVE  CopiesAreSound'
  BY <1>7 DEF Release, TypeOK
<1>8. ASSUME NEW p \in Proc, Crash(p)
      PROVE  CopiesAreSound'
  BY <1>8 DEF Crash, TypeOK
<1>9. CASE Reclaim
  BY <1>9 DEF Reclaim, TypeOK
<1>10. CASE Overrun
  BY <1>10 DEF Overrun, TypeOK
<1>11. CASE UNCHANGED vars
  BY <1>11 DEF vars
<1>12. QED
  BY <1>1, <1>2, <1>3, <1>4, <1>5, <1>6, <1>7, <1>8, <1>9, <1>10, <1>11 DEF Next

\* The copies are sound in every state before the first overrun.
LEMMA StoreInvInvariant == Spec => []StoreInv
<1>1. Init => StoreInv
  BY ObjectStoreAssumption
     DEF Init, StoreInv, CopiesAreSound, Preparing, Inside, Absent
<1>2. TypeOK /\ TypeOK' /\ StoreInv /\ [Next]_vars => StoreInv'
  BY StoreInvStep
<1>3. QED
  BY <1>1, <1>2, StoreTypeCorrect, PTL DEF Spec

\* No silent last-write-wins: every change whose save returned is still in the object,
\* for any number of concurrent callers and crashes, until a saver outlives its lock.
THEOREM NothingIsLost == Spec => []NoLostUpdate
<1>1. StoreInv => NoLostUpdate
  BY DEF StoreInv, CopiesAreSound, NoLostUpdate
<1>2. QED
  BY <1>1, StoreInvInvariant, PTL

\* The revisions of an object form one line of history until a saver outlives its lock.
THEOREM RevisionsFormOneLine == Spec => OneHistory
<1>1. ASSUME TypeOK, StoreInv, [Next]_vars, overruns = 0, object' # object
      PROVE  /\ object'.revision = object.revision + 1
             /\ object.changes \subseteq object'.changes
  <2>1. PICK p \in Proc : Replace(p)
    BY <1>1 DEF Next, vars, Load, Acquire, LockBusy, Check, Conflict, Release, Crash,
                Reclaim, Overrun
  <2>2. QED
    BY <1>1, <2>1 DEF Replace, StoreInv, CopiesAreSound, Preparing
<1>2. QED
  BY <1>1, StoreInvInvariant, StoreTypeCorrect, PTL DEF Spec, OneHistory

\* What keeps a refused change out: while its save is undecided only its own caller's
\* copy carries it, and no copy carries a change that was refused or not yet made.
RefusalInv ==
  /\ \A c \in outcome.refused : c \notin object.changes
  /\ \A c \in outcome.refused : \A q \in Proc : c \in local[q].changes => c = Mine(q)
  /\ \A p \in Proc : pc[p] \in {"save", "check", "replace", "raise"} =>
       /\ Mine(p) \notin object.changes
       /\ \A q \in Proc \ {p} : Mine(p) \notin local[q].changes
  /\ \A p \in Proc : pc[p] # "idle" => Mine(p) \notin outcome.refused
  /\ \A p \in Proc : \A n \in Nat : n > saves[p] =>
       /\ <<p, n>> \notin object.changes
       /\ <<p, n>> \notin outcome.refused
       /\ \A q \in Proc : <<p, n>> \notin local[q].changes

\* Every step, an overrun included, keeps refused changes out of all copies.
LEMMA RefusalInvStep ==
  ASSUME TypeOK, TypeOK', RefusalInv, [Next]_vars
  PROVE  RefusalInv'
<1> USE ObjectStoreAssumption DEF RefusalInv, Mine
<1>1. ASSUME NEW p \in Proc, Load(p)
      PROVE  RefusalInv'
  <2>1. /\ local'[p].changes = object.changes \cup {<<p, saves[p] + 1>>}
        /\ saves'[p] = saves[p] + 1
        /\ saves[p] \in Nat
        /\ pc[p] = "idle"
    BY <1>1 DEF Load, TypeOK, Object
  <2>2. \A q \in Proc \ {p} : local'[q] = local[q] /\ saves'[q] = saves[q] /\ pc'[q] = pc[q]
    BY <1>1 DEF Load, TypeOK
  <2>3. object' = object /\ outcome' = outcome
    BY <1>1 DEF Load
  <2>4. \A n \in Nat : n > saves'[p] => n > saves[p] /\ n # saves[p] + 1
    BY <2>1
  <2>5. saves[p] + 1 \in Nat /\ saves[p] + 1 > saves[p]
    BY <2>1
  <2>6. \A c \in outcome.refused : \A q \in Proc : c \in local'[q].changes => c = Mine(q)'
    BY <2>1, <2>2, <2>3
  <2>7. \A q \in Proc : pc'[q] \in {"save", "check", "replace", "raise"} =>
          /\ Mine(q)' \notin object'.changes
          /\ \A r \in Proc \ {q} : Mine(q)' \notin local'[r].changes
    BY <2>1, <2>2, <2>3, <2>5
  <2>8. \A q \in Proc : pc'[q] # "idle" => Mine(q)' \notin outcome'.refused
    BY <2>1, <2>2, <2>3, <2>5
  <2>9. \A q \in Proc : \A n \in Nat : n > saves'[q] =>
          /\ <<q, n>> \notin object'.changes
          /\ <<q, n>> \notin outcome'.refused
          /\ \A r \in Proc : <<q, n>> \notin local'[r].changes
    <3> SUFFICES ASSUME NEW q \in Proc, NEW n \in Nat, n > saves'[q]
                 PROVE  /\ <<q, n>> \notin object'.changes
                        /\ <<q, n>> \notin outcome'.refused
                        /\ \A r \in Proc : <<q, n>> \notin local'[r].changes
      OBVIOUS
    <3>1. n > saves[q] /\ <<q, n>> # <<p, saves[p] + 1>>
      BY <2>2, <2>4
    <3>2. <<q, n>> \notin object.changes /\ <<q, n>> \notin outcome.refused
      BY <3>1
    <3>3. \A r \in Proc : <<q, n>> \notin local[r].changes
      BY <3>1
    <3>4. QED BY <2>1, <2>2, <2>3, <3>1, <3>2, <3>3
  <2>10. QED BY <2>3, <2>6, <2>7, <2>8, <2>9
<1>2. ASSUME NEW p \in Proc, UNCHANGED <<object, local, saves>>,
             \A q \in Proc \ {p} : pc'[q] = pc[q],
             pc[p] \in {"save", "raise"}, pc'[p] = "idle",
             outcome'.refused = outcome.refused \cup {Mine(p)}
      PROVE  RefusalInv'
  <2>1. saves[p] \in Nat
    BY DEF TypeOK
  <2>2. \A q \in Proc, n \in Nat : n > saves[q] => <<q, n>> # Mine(p)
    BY <2>1
  <2>3. \A q \in Proc : pc'[q] # "idle" => q # p /\ Mine(q)' # Mine(p)
    BY <1>2
  <2>4. QED BY <1>2, <2>2, <2>3
<1>3. ASSUME NEW p \in Proc, UNCHANGED <<object, local, saves>>,
             outcome'.refused = outcome.refused,
             \A q \in Proc \ {p} : pc'[q] = pc[q],
             \/ pc'[p] = pc[p]
             \/ pc'[p] = "idle"
             \/ pc[p] \in {"save", "check"} /\ pc'[p] \in {"check", "replace", "raise"}
      PROVE  RefusalInv'
  BY <1>3
<1>4. ASSUME NEW p \in Proc, Acquire(p)
      PROVE  RefusalInv'
  BY <1>3, <1>4 DEF Acquire, TypeOK
<1>5. ASSUME NEW p \in Proc, LockBusy(p)
      PROVE  RefusalInv'
  <2>1. outcome'.refused = outcome.refused \cup {Mine(p)}
    BY <1>5 DEF LockBusy, TypeOK
  <2>2. QED BY <1>2, <1>5, <2>1 DEF LockBusy, TypeOK
<1>6. ASSUME NEW p \in Proc, Check(p)
      PROVE  RefusalInv'
  BY <1>3, <1>6 DEF Check, TypeOK
<1>7. ASSUME NEW p \in Proc, Conflict(p)
      PROVE  RefusalInv'
  BY <1>3, <1>7 DEF Conflict, TypeOK
<1>8. ASSUME NEW p \in Proc, Replace(p)
      PROVE  RefusalInv'
  <2>1. /\ object'.changes = local[p].changes
        /\ pc[p] = "replace" /\ pc'[p] = "return"
        /\ \A q \in Proc \ {p} : pc'[q] = pc[q]
        /\ UNCHANGED <<local, saves, outcome>>
    BY <1>8 DEF Replace, TypeOK
  <2>2. \A c \in outcome.refused : c \notin object'.changes
    BY <2>1
  <2>3. QED BY <2>1, <2>2
<1>9. ASSUME NEW p \in Proc, Release(p)
      PROVE  RefusalInv'
  <2>1. CASE pc[p] = "return"
    <3>1. outcome'.refused = outcome.refused
      BY <1>9, <2>1 DEF Release, TypeOK
    <3>2. QED BY <1>3, <1>9, <3>1 DEF Release, TypeOK
  <2>2. CASE pc[p] = "raise"
    <3>1. outcome'.refused = outcome.refused \cup {Mine(p)}
      BY <1>9, <2>2 DEF Release, TypeOK
    <3>2. QED BY <1>2, <1>9, <2>2, <3>1 DEF Release, TypeOK
  <2>3. QED BY <1>9, <2>1, <2>2 DEF Release
<1>10. ASSUME NEW p \in Proc, Crash(p)
       PROVE  RefusalInv'
  BY <1>3, <1>10 DEF Crash, TypeOK
<1>11. CASE Reclaim
  BY <1>11 DEF Reclaim
<1>12. CASE Overrun
  BY <1>12 DEF Overrun
<1>13. CASE UNCHANGED vars
  BY <1>13 DEF vars
<1>14. QED
  BY <1>1, <1>4, <1>5, <1>6, <1>7, <1>8, <1>9, <1>10, <1>11, <1>12, <1>13 DEF Next

\* A save that raised a conflict leaves no trace in the object, and no later save
\* carries its change in: not even when lock files are lost to slow savers.
THEOREM RefusedLeavesNoTrace == Spec => []RefusedIsAbsent
<1>1. Init => RefusalInv
  BY ObjectStoreAssumption DEF Init, RefusalInv, Mine, Absent
<1>2. TypeOK /\ TypeOK' /\ RefusalInv /\ [Next]_vars => RefusalInv'
  BY RefusalInvStep
<1>3. RefusalInv => RefusedIsAbsent
  BY DEF RefusalInv, RefusedIsAbsent
<1>4. QED
  BY <1>1, <1>2, <1>3, StoreTypeCorrect, PTL DEF Spec
=============================================================================
