----------------------------- MODULE TickProofs -----------------------------
(***************************************************************************)
(* For every set of processes and keys, and whatever the attention ledger  *)
(* does: when a live tick ends before its claim can be recovered and       *)
(* a recovery is not interleaved, the trigger receipts run each key's tick *)
(* once.  The steps inside a tick are first reduced to what they do to the *)
(* receipts; the refinement is then one case per kind of step.             *)
(***************************************************************************)
EXTENDS Tick, FiniteSetTheorems, SequenceTheorems, TLAPS

InTime == {"tick", "recover"} \subseteq Short

\* The variables the receipts depend on keep their types.
ReceiptTypes ==
  /\ clock \in Day
  /\ receipt \in [Key -> Receipt]
  /\ temp \subseteq Key
  /\ pc \in [Proc -> {"idle", "recover"} \cup TickStates]
  /\ job \in [Proc -> [key : Key \cup {None}, since : Day]]
  /\ \A p \in Proc : pc[p] # "idle" => job[p].key \in Key

\* One process at a time is busy with a key; a running tick has a receipt too young to
\* recover; a recovery still sees the claim it checked.
TickInv ==
  /\ ReceiptTypes
  /\ \A p, q \in Proc : pc[p] # "idle" /\ pc[q] # "idle" /\ job[p].key = job[q].key => p = q
  /\ \A p \in Proc : Running(p) =>
       /\ receipt[job[p].key].status \in {"blank", "claimed"}
       /\ receipt[job[p].key].at >= job[p].since
       /\ clock - job[p].since < RecoveryAge
  /\ \A p \in Proc : pc[p] = "recover" => receipt[job[p].key].status = "claimed"
  /\ \A p \in Proc : pc[p] = "replace" => job[p].key \in temp

\* The work of a tick on its proposals and the reading of its receipt.
Proceeds(p) ==
  /\ pc[p] \in TickStates
  /\ \E state \in TickStates \ {"claim", "replace"} : Goto(p, state)
  /\ UNCHANGED <<clock, receipt, temp, job>>

\* A tick or recovery that ends and leaves the receipts as they are.
Gives(p) ==
  /\ pc[p] # "idle"
  /\ Goto(p, "idle")
  /\ job' = [job EXCEPT ![p] = NoJob]
  /\ UNCHANGED <<clock, receipt, temp>>

Claims(p, k) ==
  /\ pc[p] = "idle"
  /\ receipt[k].status = "absent"
  /\ Undisturbed(p, k)
  /\ receipt' = [receipt EXCEPT ![k] = [status |-> "blank", by |-> p, at |-> clock]]
  /\ Goto(p, "claim")
  /\ job' = [job EXCEPT ![p] = [key |-> k, since |-> clock]]
  /\ UNCHANGED <<clock, temp>>

StepKinds ==
  \/ \E p \in Proc :
       \/ \E k \in Key : Claims(p, k) \/ (CheckRecovery(p, k) /\ UNCHANGED clock)
       \/ WriteClaim(p) /\ UNCHANGED clock
       \/ WriteTemp(p) /\ UNCHANGED clock
       \/ Replace(p) /\ UNCHANGED clock
       \/ UnlinkClaim(p) /\ UNCHANGED clock
       \/ Proceeds(p)
       \/ Gives(p)
  \/ PassDay
  \/ UNCHANGED <<clock, receipt, temp, pc, job>>

\* Every step is of one of these kinds.
LEMMA Kinds == [Next]_vars => StepKinds
<1> SUFFICES ASSUME [Next]_vars PROVE StepKinds
  OBVIOUS
<1> USE DEF world, receipts, attention
<1>1. ASSUME NEW p \in Proc, Step(p)
      PROVE  StepKinds
  <2>1. CASE \E k \in Key : CheckRecovery(p, k)
    BY <1>1, <2>1 DEF Step, StepKinds
  <2>2. CASE \E k \in Key : \E s \in Sessions : Claim(p, k, s)
    BY <1>1, <2>2 DEF Step, StepKinds, Claim, Claims
  <2>3. CASE WriteClaim(p) \/ WriteTemp(p) \/ Replace(p) \/ UnlinkClaim(p)
    BY <1>1, <2>3 DEF Step, StepKinds
  <2>4. CASE CompletionRefused(p)
    <3>1. Gives(p)
      BY <1>1, <2>4 DEF Step, CompletionRefused, WorkDone, Stop, Gives
    <3>2. QED BY <3>1 DEF StepKinds
  <2>5. CASE \/ ReadReceipt(p) \/ KeepToItself(p) \/ \E item \in Item : Ask(p, item)
             \/ TakeLock(p) \/ LockRefused(p) \/ ReadLedger(p) \/ Deny(p) \/ Grant(p)
             \/ GrantRefused(p) \/ Surface(p)
    <3> USE DEF Proceeds, TickStates, AttentionStates, Proceed
    <3>1. CASE ReadReceipt(p)
      <4>1. Goto(p, "temp") BY <3>1 DEF ReadReceipt
      <4>2. Proceeds(p) BY <1>1, <3>1, <4>1 DEF Step, ReadReceipt, WorkDone
      <4>3. QED BY <4>2 DEF StepKinds
    <3>2. CASE KeepToItself(p)
      <4>1. Proceeds(p) BY <1>1, <3>2 DEF Step, KeepToItself
      <4>2. QED BY <4>1 DEF StepKinds
    <3>3. CASE \E item \in Item : Ask(p, item)
      <4>1. Proceeds(p) BY <1>1, <3>3 DEF Step, Ask
      <4>2. QED BY <4>1 DEF StepKinds
    <3>4. CASE TakeLock(p)
      <4>1. Proceeds(p) BY <1>1, <3>4 DEF Step, TakeLock
      <4>2. QED BY <4>1 DEF StepKinds
    <3>5. CASE LockRefused(p)
      <4>1. Proceeds(p) BY <1>1, <3>5 DEF Step, LockRefused
      <4>2. QED BY <4>1 DEF StepKinds
    <3>6. CASE ReadLedger(p)
      <4>1. Proceeds(p) BY <1>1, <3>6 DEF Step, ReadLedger
      <4>2. QED BY <4>1 DEF StepKinds
    <3>7. CASE Deny(p)
      <4>1. Proceeds(p) BY <1>1, <3>7 DEF Step, Deny
      <4>2. QED BY <4>1 DEF StepKinds
    <3>8. CASE Grant(p)
      <4>1. Proceeds(p) BY <1>1, <3>8 DEF Step, Grant
      <4>2. QED BY <4>1 DEF StepKinds
    <3>9. CASE GrantRefused(p)
      <4>1. Proceeds(p) BY <1>1, <3>9 DEF Step, GrantRefused
      <4>2. QED BY <4>1 DEF StepKinds
    <3>10. CASE Surface(p)
      <4>1. Proceeds(p) BY <1>1, <3>10 DEF Step, Surface
      <4>2. QED BY <4>1 DEF StepKinds
    <3>11. QED BY <2>5, <3>1, <3>2, <3>3, <3>4, <3>5, <3>6, <3>7, <3>8, <3>9, <3>10
  <2>6. QED BY <1>1, <2>1, <2>2, <2>3, <2>4, <2>5 DEF Step
<1>2. ASSUME NEW p \in Proc, Crash(p)
      PROVE  StepKinds
  <2>1. Gives(p)
    BY <1>2 DEF Crash, Stop, Gives
  <2>2. QED BY <2>1 DEF StepKinds
<1>3. CASE ReclaimLock
  BY <1>3 DEF ReclaimLock, StepKinds
<1>4. CASE SwitchGate
  BY <1>4 DEF SwitchGate, StepKinds
<1>5. CASE PassDay
  BY <1>5 DEF StepKinds
<1>6. CASE UNCHANGED vars
  BY <1>6 DEF vars, StepKinds
<1>7. QED
  BY <1>1, <1>2, <1>3, <1>4, <1>5, <1>6 DEF Next
\* Every kind of step keeps the types.
LEMMA TypesStep == ReceiptTypes /\ StepKinds => ReceiptTypes'
<1> SUFFICES ASSUME ReceiptTypes, StepKinds PROVE ReceiptTypes'
  OBVIOUS
<1> USE TickAssumption DEF ReceiptTypes, Receipt, Day, TickStates, AttentionStates, Goto
<1>1. ASSUME NEW p \in Proc, NEW k \in Key, Claims(p, k)
      PROVE  ReceiptTypes'
  BY <1>1 DEF Claims
<1>2. ASSUME NEW p \in Proc, NEW k \in Key, CheckRecovery(p, k), UNCHANGED clock
      PROVE  ReceiptTypes'
  BY <1>2 DEF CheckRecovery, receipts
<1>3. ASSUME NEW p \in Proc, WriteClaim(p), UNCHANGED clock
      PROVE  ReceiptTypes'
  BY <1>3 DEF WriteClaim
<1>4. ASSUME NEW p \in Proc, WriteTemp(p), UNCHANGED clock
      PROVE  ReceiptTypes'
  BY <1>4 DEF WriteTemp
<1>5. ASSUME NEW p \in Proc, Replace(p), UNCHANGED clock
      PROVE  ReceiptTypes'
  BY <1>5 DEF Replace, Stop, NoJob
<1>6. ASSUME NEW p \in Proc, UnlinkClaim(p), UNCHANGED clock
      PROVE  ReceiptTypes'
  BY <1>6 DEF UnlinkClaim, Stop, NoJob, NoReceipt
<1>7. ASSUME NEW p \in Proc, Proceeds(p)
      PROVE  ReceiptTypes'
  BY <1>7 DEF Proceeds
<1>8. ASSUME NEW p \in Proc, Gives(p)
      PROVE  ReceiptTypes'
  BY <1>8 DEF Gives, NoJob
<1>9. CASE PassDay
  BY <1>9 DEF PassDay, receipts
<1>10. CASE UNCHANGED <<clock, receipt, temp, pc, job>>
  BY <1>10
<1>11. QED
  BY <1>1, <1>2, <1>3, <1>4, <1>5, <1>6, <1>7, <1>8, <1>9, <1>10 DEF StepKinds

\* No step lets a second process at a key, or a receipt slip from under its tick.
LEMMA TickInvStep == ASSUME InTime, TickInv, StepKinds PROVE TickInv'
<1>0. ReceiptTypes'
  BY TypesStep DEF TickInv
<1> USE <1>0, TickAssumption
    DEF TickInv, ReceiptTypes, Receipt, Day, TickStates, AttentionStates, Running, Goto
<1>1. ASSUME NEW p \in Proc, NEW k \in Key, Claims(p, k)
      PROVE  TickInv'
  <2>1. \A q \in Proc \ {p} : pc[q] # "idle" => job[q].key # k
    BY <1>1 DEF Claims, Undisturbed, InTime
  <2>2. QED BY <1>1, <2>1 DEF Claims
<1>2. ASSUME NEW p \in Proc, NEW k \in Key, CheckRecovery(p, k), UNCHANGED clock
      PROVE  TickInv'
  <2>1. \A q \in Proc \ {p} : pc[q] # "idle" => job[q].key # k
    BY <1>2 DEF CheckRecovery, Undisturbed, InTime
  <2>2. QED BY <1>2, <2>1 DEF CheckRecovery, receipts
<1>3. ASSUME NEW p \in Proc, WriteClaim(p), UNCHANGED clock
      PROVE  TickInv'
  BY <1>3 DEF WriteClaim
<1>4. ASSUME NEW p \in Proc, WriteTemp(p), UNCHANGED clock
      PROVE  TickInv'
  BY <1>4 DEF WriteTemp
<1>5. ASSUME NEW p \in Proc, Replace(p), UNCHANGED clock
      PROVE  TickInv'
  BY <1>5 DEF Replace, Stop, NoJob
<1>6. ASSUME NEW p \in Proc, UnlinkClaim(p), UNCHANGED clock
      PROVE  TickInv'
  BY <1>6 DEF UnlinkClaim, Stop, NoJob, NoReceipt
<1>7. ASSUME NEW p \in Proc, Proceeds(p)
      PROVE  TickInv'
  BY <1>7 DEF Proceeds
<1>8. ASSUME NEW p \in Proc, Gives(p)
      PROVE  TickInv'
  BY <1>8 DEF Gives, NoJob
<1>9. CASE PassDay
  BY <1>9 DEF PassDay, receipts, InTime
<1>10. CASE UNCHANGED <<clock, receipt, temp, pc, job>>
  BY <1>10
<1>11. QED
  BY <1>1, <1>2, <1>3, <1>4, <1>5, <1>6, <1>7, <1>8, <1>9, <1>10 DEF StepKinds

\* A step that moves the state of one key and of no other is a step of TriggerOnce.
LEMMA OneKeyMoves ==
  ASSUME NEW k \in Key, NEW from, NEW to,
         KeyState(k) = from, KeyState(k)' = to,
         \A j \in Key \ {k} : KeyState(j)' = KeyState(j)
  PROVE  Once!Move(k, from, to)
BY DEF Once!Move

\* Each kind of step is a step of TriggerOnce or leaves every key's state alone.
LEMMA OnceStep ==
  ASSUME TickInv, TickInv', StepKinds
  PROVE  [Once!Next]_[k \in Key |-> KeyState(k)]
<1> DEFINE Stays(k) == KeyState(k)' = KeyState(k)
<1> SUFFICES Once!Next \/ \A k \in Key : Stays(k)
  OBVIOUS
<1>0. ASSUME NEW k \in Key, UNCHANGED receipt[k],
             \A p \in Proc : (Running(p) /\ job[p].key = k)' <=> (Running(p) /\ job[p].key = k)
      PROVE  Stays(k)
  BY <1>0 DEF KeyState
<1> USE TickAssumption DEF TickInv, ReceiptTypes, Receipt, TickStates, AttentionStates, Running, Goto
<1>1. ASSUME NEW p \in Proc, NEW k \in Key, Claims(p, k)
      PROVE  Once!Next
  <2>1. KeyState(k) = "new"
    BY <1>1 DEF Claims, KeyState
  <2>2. KeyState(k)' = "running"
    BY <1>1 DEF Claims, KeyState
  <2>3. \A j \in Key \ {k} : Stays(j)
    BY <1>1, <1>0 DEF Claims
  <2>4. QED BY <2>1, <2>2, <2>3, OneKeyMoves DEF Once!Next, Once!Begin
<1>2. ASSUME NEW p \in Proc, NEW k \in Key, CheckRecovery(p, k)
      PROVE  \A j \in Key : Stays(j)
  BY <1>2, <1>0 DEF CheckRecovery, receipts
<1>3. ASSUME NEW p \in Proc, WriteClaim(p)
      PROVE  \A j \in Key : Stays(j)
  <2>1. PICK k \in Key : k = job[p].key
    BY <1>3 DEF WriteClaim
  <2>2. Stays(k)
    BY <1>3, <2>1 DEF WriteClaim, KeyState
  <2>3. \A j \in Key \ {k} : Stays(j)
    BY <1>3, <1>0, <2>1 DEF WriteClaim
  <2>4. QED BY <2>2, <2>3
<1>4. ASSUME NEW p \in Proc, WriteTemp(p)
      PROVE  \A j \in Key : Stays(j)
  BY <1>4, <1>0 DEF WriteTemp
<1>5. ASSUME NEW p \in Proc, Replace(p)
      PROVE  Once!Next
  <2>1. PICK k \in Key : k = job[p].key
    BY <1>5 DEF Replace
  <2>2. KeyState(k) = "running"
    BY <1>5, <2>1 DEF Replace, KeyState
  <2>3. KeyState(k)' = "done"
    BY <1>5, <2>1 DEF Replace, KeyState
  <2>4. \A j \in Key \ {k} : Stays(j)
    BY <1>5, <1>0, <2>1 DEF Replace, Stop, NoJob
  <2>5. QED BY <2>2, <2>3, <2>4, OneKeyMoves DEF Once!Next, Once!Complete
<1>6. ASSUME NEW p \in Proc, UnlinkClaim(p)
      PROVE  Once!Next
  <2>1. PICK k \in Key : k = job[p].key
    BY <1>6 DEF UnlinkClaim
  <2>2. KeyState(k) = "lost"
    BY <1>6, <2>1 DEF UnlinkClaim, KeyState
  <2>3. KeyState(k)' = "new"
    BY <1>6, <2>1 DEF UnlinkClaim, KeyState, NoReceipt
  <2>4. \A j \in Key \ {k} : Stays(j)
    BY <1>6, <1>0, <2>1 DEF UnlinkClaim, Stop, NoJob
  <2>5. QED BY <2>2, <2>3, <2>4, OneKeyMoves DEF Once!Next, Once!Recover
<1>7. ASSUME NEW p \in Proc, Proceeds(p)
      PROVE  \A j \in Key : Stays(j)
  BY <1>7, <1>0 DEF Proceeds
<1>8. ASSUME NEW p \in Proc, Gives(p)
      PROVE  Once!Next \/ \A j \in Key : Stays(j)
  <2>1. CASE pc[p] = "recover"
    BY <1>8, <2>1, <1>0 DEF Gives, NoJob
  <2>2. CASE Running(p)
    <3>1. PICK k \in Key : k = job[p].key
      BY <2>2
    <3>2. KeyState(k) = "running"
      BY <2>2, <3>1 DEF KeyState
    <3>3. KeyState(k)' = "lost"
      BY <1>8, <2>2, <3>1 DEF Gives, KeyState
    <3>4. \A j \in Key \ {k} : Stays(j)
      BY <1>8, <1>0, <3>1 DEF Gives, NoJob
    <3>5. QED BY <3>2, <3>3, <3>4, OneKeyMoves DEF Once!Next, Once!Lose
  <2>3. QED BY <1>8, <2>1, <2>2 DEF Gives
<1>9. CASE PassDay
  BY <1>9, <1>0 DEF PassDay, receipts
<1>10. CASE UNCHANGED <<clock, receipt, temp, pc, job>>
  BY <1>10, <1>0
<1>11. QED
  BY <1>1, <1>2, <1>3, <1>4, <1>5, <1>6, <1>7, <1>8, <1>9, <1>10 DEF StepKinds

\* The tick of an idempotency key is run once: never by two processes at a time, never
\* again after it was completed, and after a death only when its claim was recovered.
THEOREM TickRunsOnce == InTime /\ Spec => ImplementsTriggerOnce
<1> SUFFICES ASSUME InTime PROVE Spec => ImplementsTriggerOnce
  OBVIOUS
<1>1. Init => TickInv
  BY TickAssumption
  DEF Init, TickInv, ReceiptTypes, Receipt, NoReceipt, NoJob, Day, TickStates, AttentionStates, Running
<1>2. Init => Once!Init
  BY DEF Init, Once!Init, KeyState, NoReceipt
<1>3. TickInv /\ [Next]_vars => TickInv'
  BY Kinds, TickInvStep
<1>4. TickInv /\ TickInv' /\ [Next]_vars => [Once!Next]_[k \in Key |-> KeyState(k)]
  BY Kinds, OnceStep
<1>5. QED
  BY <1>1, <1>2, <1>3, <1>4, PTL DEF Spec, ImplementsTriggerOnce, Once!Spec

-----------------------------------------------------------------------------
(***************************************************************************)
(* The attention policy, as long as a ledger keeps every session it knows: *)
(* claim_notification drops the sessions beyond KeptSessions, and a        *)
(* session that was dropped counts from nothing.                           *)
(***************************************************************************)
Roomy == IsFiniteSet(Sessions) /\ Cardinality(Sessions) <= KeptSessions

Book == [days : [Day -> Nat \cup {Absent}],
         sessions : [Sessions -> [count : Nat, at : Day \cup {Absent}]],
         last : [Fingerprint -> Day \cup {Absent}]]
Run == [session : Sessions, left : 0 .. MaxItems, item : Item \cup {None}, now : Day, seen : Book]

\* A ledger has counted every item that was surfaced, but for the interruptions of days so
\* old that no live tick can still ask about them.
Accounts(book) ==
  /\ \A d \in Day : book.days[d] # Absent => d <= clock
  /\ \A d \in Day : clock - d < RecoveryAge => Cardinality(InterruptionsOf(d)) <= Interruptions(book, d)
  /\ \A s \in Sessions : /\ Cardinality(ItemsOf(s)) <= book.sessions[s].count
                         /\ book.sessions[s].at = Absent => book.sessions[s].count = 0
  /\ \A i \in DOMAIN shown : /\ book.last[shown[i].fingerprint] # Absent
                             /\ shown[i].day <= book.last[shown[i].fingerprint]

\* Inside the lock the copy of the ledger is the ledger, then the ledger counts the item
\* that is about to be surfaced.
Holding == {"read", "decide", "release"}
Attends(p) ==
  /\ pc[p] \in AttentionStates => /\ run[p].item \in Item /\ run[p].left > 0
                                  /\ job[p].since <= run[p].now /\ run[p].now <= clock
  /\ pc[p] \in Holding => lock = Lock!HeldBy(p)
  /\ pc[p] = "decide" => run[p].seen = ledger
  /\ pc[p] = "release" => /\ Accounts(run[p].seen) /\ ledger = Counted(p)
                          /\ ~CoolingDown(p) /\ ~SessionFull(p)

AttentionInv ==
  /\ ledger \in Book
  /\ shown \in Seq(Notice)
  /\ run \in [Proc -> Run]
  /\ \A p \in Proc : Running(p) => job[p].since <= clock
  /\ \A p \in Proc : Attends(p)
  /\ Accounts(ledger)
  /\ WithinAttentionPolicy

-----------------------------------------------------------------------------
\* What the ledger drops.

\* A day a live tick can still ask about stays.
LEMMA RecentDayStays ==
  ASSUME NEW days \in [Day -> Nat \cup {Absent}], clock \in Day,
         \A e \in Day : days[e] # Absent => e <= clock,
         NEW d \in Day, clock - d < RecoveryAge, days[d] # Absent
  PROVE  d \in LatestDays(days)
<1> DEFINE entries == {e \in Day : days[e] # Absent}
           later == {e \in entries : [x \in Day |-> x][e] > [x \in Day |-> x][d]}
<1>1. clock \in Nat /\ d \in Nat /\ d <= clock /\ KeptDays \in Nat /\ RecoveryAge <= KeptDays
      /\ MaxClock \in Nat /\ RecoveryAge \in Nat
  BY TickAssumption DEF Day
<1>2. later \subseteq (d + 1) .. clock
  <2>1. ASSUME NEW e \in later PROVE e \in (d + 1) .. clock
    <3>1. e \in Day /\ e > d /\ e <= clock
      BY <2>1
    <3>2. QED BY <1>1, <3>1 DEF Day
  <2>2. QED BY <2>1
<1>3. /\ IsFiniteSet((d + 1) .. clock)
      /\ Cardinality((d + 1) .. clock) = IF d + 1 > clock THEN 0 ELSE clock - (d + 1) + 1
  BY <1>1, FS_Interval
<1>4. IsFiniteSet(later) /\ Cardinality(later) \in Nat /\ Cardinality(later) <= Cardinality((d + 1) .. clock)
  BY <1>2, <1>3, FS_Subset, FS_CardinalityType
<1>5. Cardinality(later) < KeptDays
  BY <1>1, <1>3, <1>4
<1>6. d \in entries
  OBVIOUS
<1> HIDE DEF entries
<1>7. d \in Latest(entries, [x \in Day |-> x], KeptDays)
  BY <1>5, <1>6 DEF Latest
<1>8. QED BY <1>7 DEF LatestDays, entries

\* A ledger that is roomy enough keeps every session.
LEMMA SessionStays ==
  ASSUME Roomy, NEW sessions \in [Sessions -> [count : Nat, at : Day \cup {Absent}]],
         NEW s \in Sessions, sessions[s].at # Absent
  PROVE  s \in LatestSessions(sessions)
<1> DEFINE entries == {e \in Sessions : sessions[e].at # Absent}
           at == [e \in Sessions |-> sessions[e].at]
           later == {e \in entries : at[e] > at[s]}
<1>1. sessions[s].at \in Nat
  BY TickAssumption DEF Day
<1>2. later \subseteq Sessions \ {s}
  BY <1>1
<1>3. IsFiniteSet(Sessions) /\ Cardinality(Sessions) \in Nat /\ Cardinality(Sessions) <= KeptSessions
      /\ KeptSessions \in Nat
  BY FS_CardinalityType, TickAssumption DEF Roomy
<1>4. IsFiniteSet(Sessions \ {s}) /\ Cardinality(Sessions \ {s}) = Cardinality(Sessions) - 1
  BY <1>3, FS_RemoveElement
<1>5. Cardinality(later) \in Nat /\ Cardinality(later) <= Cardinality(Sessions \ {s})
  BY <1>2, <1>4, FS_Subset, FS_CardinalityType
<1>6. Cardinality(later) < KeptSessions
  BY <1>3, <1>4, <1>5
<1>7. s \in entries
  OBVIOUS
<1> HIDE DEF entries, at
<1>8. s \in Latest(entries, at, KeptSessions)
  BY <1>6, <1>7 DEF Latest
<1>9. QED BY <1>8 DEF LatestSessions, entries, at

\* The ledger after an item is counted.
LEMMA CountedBook ==
  ASSUME Roomy, clock \in Day, NEW p \in Proc, run[p] \in Run, run[p].item \in Item,
         run[p].now <= clock, clock - run[p].now < RecoveryAge, NEW book, book = run[p].seen,
         Accounts(book)
  PROVE  /\ Counted(p) \in Book
         /\ \A d \in Day : Counted(p).days[d] # Absent => d <= clock
         /\ \A d \in Day : clock - d < RecoveryAge =>
              Interruptions(Counted(p), d) =
                Interruptions(book, d) + IF d = run[p].now /\ ActualClass(p) = "INTERRUPT" THEN 1 ELSE 0
         /\ \A s \in Sessions :
              Counted(p).sessions[s] = IF s = run[p].session
                                         THEN [count |-> book.sessions[s].count + 1, at |-> run[p].now]
                                         ELSE book.sessions[s]
         /\ Counted(p).last = [book.last EXCEPT ![run[p].item.fingerprint] = run[p].now]
<1> DEFINE now == run[p].now
           own == run[p].session
           more == IF ActualClass(p) = "INTERRUPT" THEN 1 ELSE 0
           days == DaysAfter(p)
           sessions == SessionsAfter(p)
           c == Counted(p)
<1>1. /\ book \in Book /\ now \in Day /\ own \in Sessions /\ run[p].item.fingerprint \in Fingerprint
      /\ Day \subseteq Nat /\ Absent \notin Nat
  BY TickAssumption DEF Run, Item, Day, Absent
<1>2. /\ book.days \in [Day -> Nat \cup {Absent}] /\ book.last \in [Fingerprint -> Day \cup {Absent}]
      /\ book.sessions \in [Sessions -> [count : Nat, at : Day \cup {Absent}]]
  BY <1>1 DEF Book
<1>3. \A d \in Day : Interruptions(book, d) \in Nat
  BY <1>2 DEF Interruptions
<1>4. days = [book.days EXCEPT ![now] = Interruptions(book, now) + more]
  BY DEF DaysAfter
<1>5. /\ days \in [Day -> Nat \cup {Absent}] /\ days[now] = Interruptions(book, now) + more /\ days[now] \in Nat
      /\ \A d \in Day \ {now} : days[d] = book.days[d]
  <2>1. PICK v : v = Interruptions(book, now) + more
    OBVIOUS
  <2>2. more \in Nat
    OBVIOUS
  <2>3. v \in Nat
    <3>1. Interruptions(book, now) \in Nat
      BY <1>1, <1>3
    <3> HIDE DEF more, now
    <3>2. QED BY <2>1, <2>2, <3>1
  <2>4. days = [book.days EXCEPT ![now] = v]
    BY <1>4, <2>1
  <2> HIDE DEF days, more, now
  <2>5. days \in [Day -> Nat \cup {Absent}] /\ days[now] = v
    BY <1>1, <1>2, <2>3, <2>4
  <2>6. \A d \in Day \ {now} : days[d] = book.days[d]
    BY <1>1, <1>2, <2>4
  <2>7. QED BY <2>1, <2>3, <2>5, <2>6
<1>6. \A e \in Day : days[e] # Absent => e <= clock
  BY <1>5 DEF Accounts
<1>7. c.days = [d \in Day |-> IF d \in LatestDays(days) THEN days[d] ELSE Absent]
  BY DEF Counted
<1>8. \A d \in Day : clock - d < RecoveryAge => c.days[d] = days[d]
  <2>1. SUFFICES ASSUME NEW d \in Day, clock - d < RecoveryAge PROVE c.days[d] = days[d]
    OBVIOUS
  <2>2. days[d] # Absent => d \in LatestDays(days)
    BY <1>5, <1>6, <2>1, RecentDayStays
  <2>3. QED BY <1>7, <2>2
<1>9. \A d \in Day : c.days[d] # Absent => d <= clock
  BY <1>6, <1>7
<1>10. ASSUME NEW d \in Day, clock - d < RecoveryAge
       PROVE  Interruptions(c, d) = Interruptions(book, d) + IF d = now THEN more ELSE 0
  <2>1. c.days[d] = days[d]
    BY <1>8, <1>10
  <2>2. CASE d = now
    BY <1>1, <1>5, <2>1, <2>2 DEF Interruptions
  <2>3. CASE d # now
    BY <1>3, <1>5, <2>1, <2>3 DEF Interruptions
  <2>4. QED BY <2>2, <2>3
<1>11. sessions = [book.sessions EXCEPT ![own] = [count |-> book.sessions[own].count + 1, at |-> now]]
  BY <1>1, <1>2 DEF SessionsAfter
<1>12. /\ sessions \in [Sessions -> [count : Nat, at : Day \cup {Absent}]]
       /\ sessions[own] = [count |-> book.sessions[own].count + 1, at |-> now]
       /\ \A s \in Sessions \ {own} : sessions[s] = book.sessions[s]
  BY <1>1, <1>2, <1>11
<1>13. c.sessions = [s \in Sessions |-> IF s \in LatestSessions(sessions) THEN sessions[s]
                                                                       ELSE NothingShown.sessions[s]]
  BY DEF Counted
<1>14. ASSUME NEW s \in Sessions PROVE c.sessions[s] = sessions[s]
  <2>1. CASE sessions[s].at # Absent
    BY <1>12, <1>13, <2>1, SessionStays
  <2>2. CASE sessions[s].at = Absent
    <3>1. s # own
      <4>1. sessions[own].at = now /\ now # Absent
        <5>1. now # Absent
          BY <1>1
        <5> HIDE DEF sessions, now, own
        <5>2. sessions[own].at = now
          BY <1>12
        <5>3. QED BY <5>1, <5>2
      <4>2. QED BY <2>2, <4>1
    <3>2. sessions[s].count = 0 /\ sessions[s] \in [count : Nat, at : Day \cup {Absent}]
      BY <1>2, <1>12, <2>2, <3>1 DEF Accounts
    <3>3. NothingShown.sessions[s] = [count |-> 0, at |-> Absent]
      BY DEF NothingShown
    <3>4. sessions[s] = NothingShown.sessions[s]
      BY <2>2, <3>2, <3>3
    <3>5. QED BY <1>13, <3>4
  <2>3. QED BY <2>1, <2>2
<1>15. c.last = [book.last EXCEPT ![run[p].item.fingerprint] = now]
  BY DEF Counted
<1>16. c \in Book
  <2>1. c.days \in [Day -> Nat \cup {Absent}]
    BY <1>5, <1>7
  <2>2. c.sessions \in [Sessions -> [count : Nat, at : Day \cup {Absent}]]
    BY <1>12, <1>13, <1>14
  <2>3. c.last \in [Fingerprint -> Day \cup {Absent}]
    BY <1>1, <1>2, <1>15
  <2>4. PICK ds, ss, ls : ds = c.days /\ ss = c.sessions /\ ls = c.last
    OBVIOUS
  <2>5. c = [days |-> ds, sessions |-> ss, last |-> ls]
    BY <2>4 DEF Counted
  <2>6. QED BY <2>1, <2>2, <2>3, <2>4, <2>5 DEF Book
<1> HIDE DEF c, days, sessions
<1>17. \A s \in Sessions : c.sessions[s] = IF s = own THEN [count |-> book.sessions[s].count + 1, at |-> now]
                                                    ELSE book.sessions[s]
  BY <1>12, <1>14
<1>18. QED BY <1>9, <1>10, <1>15, <1>16, <1>17 DEF c

\* What was surfaced is finite, and counted in naturals.
LEMMA ShownFinite ==
  ASSUME shown \in Seq(Notice)
  PROVE  /\ \A d : IsFiniteSet(InterruptionsOf(d)) /\ Cardinality(InterruptionsOf(d)) \in Nat
         /\ \A s : IsFiniteSet(ItemsOf(s)) /\ Cardinality(ItemsOf(s)) \in Nat
<1>1. Len(shown) \in Nat /\ DOMAIN shown = 1 .. Len(shown)
  BY LenProperties
<1>2. IsFiniteSet(DOMAIN shown)
  BY <1>1, FS_Interval
<1>3. \A d : InterruptionsOf(d) \subseteq DOMAIN shown
  BY DEF InterruptionsOf
<1>4. \A s : ItemsOf(s) \subseteq DOMAIN shown
  BY DEF ItemsOf
<1>5. QED BY <1>2, <1>3, <1>4, FS_Subset, FS_CardinalityType

\* The ledger with an item counted accounts for what was surfaced without it.
LEMMA CountedAccounts ==
  ASSUME Roomy, clock \in Day, NEW p \in Proc, run[p] \in Run, run[p].item \in Item,
         run[p].now <= clock, clock - run[p].now < RecoveryAge,
         shown \in Seq(Notice), Accounts(run[p].seen), ~CoolingDown(p)
  PROVE  Accounts(Counted(p))
<1>1. PICK book, now, own, f, c :
        book = run[p].seen /\ now = run[p].now /\ own = run[p].session /\ f = run[p].item.fingerprint
        /\ c = Counted(p)
  OBVIOUS
<1>2. book \in Book /\ now \in Day /\ own \in Sessions /\ f \in Fingerprint /\ Absent \notin Nat /\ Day \subseteq Nat
  BY <1>1, TickAssumption DEF Run, Item, Day, Absent
<1>3. PICK more \in {0, 1} :
      /\ c \in Book
      /\ \A d \in Day : c.days[d] # Absent => d <= clock
      /\ \A d \in Day : clock - d < RecoveryAge =>
           Interruptions(c, d) = Interruptions(book, d) + IF d = now /\ more = 1 THEN 1 ELSE 0
      /\ \A s \in Sessions :
           c.sessions[s] = IF s = own THEN [count |-> book.sessions[s].count + 1, at |-> now]
                                      ELSE book.sessions[s]
      /\ c.last = [book.last EXCEPT ![f] = now]
  <2>1. PICK more \in {0, 1} : more = 1 <=> ActualClass(p) = "INTERRUPT"
    OBVIOUS
  <2>2. QED BY <1>1, <2>1, CountedBook
<1>4. Accounts(book)
  BY <1>1
<1>5. book.last[f] # Absent => now - book.last[f] >= Cooldown
  <2>1. book.last[f] # Absent => ~(now - book.last[f] < Cooldown)
    BY <1>1 DEF CoolingDown
  <2>2. book.last[f] \in Day \cup {Absent}
    BY <1>2 DEF Book
  <2>3. ASSUME book.last[f] # Absent PROVE now - book.last[f] >= Cooldown
    <3>1. PICK last \in Nat : last = book.last[f]
      BY <1>2, <2>2, <2>3
    <3>2. now \in Nat /\ Cooldown \in Nat
      BY <1>2, TickAssumption
    <3>3. ~(now - last < Cooldown)
      BY <2>1, <2>3, <3>1
    <3>4. now - last >= Cooldown
      BY <3>2, <3>3
    <3>5. QED BY <3>1, <3>4
  <2>4. QED BY <2>3
<1>6. ASSUME NEW d \in Day, clock - d < RecoveryAge
      PROVE  Cardinality(InterruptionsOf(d)) <= Interruptions(c, d)
  <2>1. Cardinality(InterruptionsOf(d)) \in Nat
    BY ShownFinite
  <2>2. Interruptions(book, d) \in Nat /\ Cardinality(InterruptionsOf(d)) <= Interruptions(book, d)
    BY <1>2, <1>4, <1>6 DEF Accounts, Interruptions, Book
  <2>3. \/ Interruptions(c, d) = Interruptions(book, d) + 1
        \/ Interruptions(c, d) = Interruptions(book, d)
    BY <1>3, <1>6, <2>2
  <2>4. QED BY <2>1, <2>2, <2>3
<1>7. ASSUME NEW s \in Sessions
      PROVE  /\ Cardinality(ItemsOf(s)) <= c.sessions[s].count
             /\ c.sessions[s].at = Absent => c.sessions[s].count = 0
  <2>1. Cardinality(ItemsOf(s)) \in Nat
    BY ShownFinite
  <2>2. book.sessions[s].count \in Nat /\ Cardinality(ItemsOf(s)) <= book.sessions[s].count
        /\ (book.sessions[s].at = Absent => book.sessions[s].count = 0)
    BY <1>2, <1>4 DEF Accounts, Book
  <2>3. CASE s = own
    <3>1. c.sessions[s] = [count |-> book.sessions[s].count + 1, at |-> now]
      BY <1>3, <2>3
    <3>2. QED BY <1>2, <2>1, <2>2, <3>1
  <2>4. CASE s # own
    BY <1>3, <2>2, <2>4
  <2>5. QED BY <2>3, <2>4
<1>8. ASSUME NEW i \in DOMAIN shown
      PROVE  c.last[shown[i].fingerprint] # Absent /\ shown[i].day <= c.last[shown[i].fingerprint]
  <2>1. PICK g \in Fingerprint, d \in Day : g = shown[i].fingerprint /\ d = shown[i].day
    <3>1. shown[i] \in Notice
      BY ElementOfSeq, LenProperties
    <3>2. QED BY <3>1 DEF Notice
  <2>2. book.last[g] # Absent /\ d <= book.last[g] /\ book.last[g] \in Day \cup {Absent}
    BY <1>2, <1>4, <2>1 DEF Accounts, Book
  <2>3. book.last \in [Fingerprint -> Day \cup {Absent}]
    BY <1>2 DEF Book
  <2>4. CASE g = f
    <3>1. c.last[g] = now
      BY <1>2, <1>3, <2>3, <2>4
    <3>2. d <= now /\ now # Absent
      <4>1. PICK last \in Day : last = book.last[g]
        BY <2>2
      <4>2. now - last >= Cooldown /\ d <= last
        BY <1>5, <2>2, <2>4, <4>1
      <4>3. now \in Nat /\ last \in Nat /\ Cooldown \in Nat /\ d \in Nat
        BY <1>2, TickAssumption
      <4>4. QED BY <1>2, <4>2, <4>3
    <3>3. QED BY <2>1, <3>1, <3>2
  <2>5. CASE g # f
    BY <1>2, <1>3, <2>1, <2>2, <2>3, <2>5
  <2>6. QED BY <2>4, <2>5
<1>9. QED BY <1>1, <1>3, <1>6, <1>7, <1>8 DEF Accounts

\* One more item among those surfaced.
LEMMA ShownGrows ==
  ASSUME shown \in Seq(Notice), NEW n \in Notice, shown' = Append(shown, n)
  PROVE  /\ shown' \in Seq(Notice)
         /\ \A i \in DOMAIN shown : i \in DOMAIN shown' /\ shown'[i] = shown[i]
         /\ \A i \in DOMAIN shown' : i \in DOMAIN shown \/ shown'[i] = n
         /\ \A i, j \in DOMAIN shown' : i < j => i \in DOMAIN shown
         /\ \A d : Cardinality(InterruptionsOf(d)') =
              Cardinality(InterruptionsOf(d)) + IF n.day = d /\ n.class = "INTERRUPT" THEN 1 ELSE 0
         /\ \A s : Cardinality(ItemsOf(s)') = Cardinality(ItemsOf(s)) + IF n.session = s THEN 1 ELSE 0
<1>1. PICK m \in Nat : m = Len(shown)
  BY Zenon, LenProperties
<1>2. /\ shown' \in Seq(Notice) /\ Len(shown') = m + 1
      /\ \A i \in 1 .. m : shown'[i] = shown[i]
      /\ shown'[m + 1] = n
  BY <1>1, AppendProperties
<1>3. DOMAIN shown = 1 .. m /\ DOMAIN shown' = 1 .. m + 1
  BY <1>1, <1>2, LenProperties
<1>4. /\ \A i \in DOMAIN shown : i \in DOMAIN shown' /\ shown'[i] = shown[i]
      /\ \A i \in DOMAIN shown' : i \in DOMAIN shown \/ (i = m + 1 /\ shown'[i] = n)
      /\ \A i, j \in DOMAIN shown' : i < j => i \in DOMAIN shown
      /\ m + 1 \notin DOMAIN shown /\ m + 1 \in DOMAIN shown'
  BY <1>1, <1>2, <1>3
<1>5. ASSUME NEW d
      PROVE  Cardinality(InterruptionsOf(d)') =
               Cardinality(InterruptionsOf(d)) + IF n.day = d /\ n.class = "INTERRUPT" THEN 1 ELSE 0
  <2>1. IsFiniteSet(InterruptionsOf(d)) /\ Cardinality(InterruptionsOf(d)) \in Nat
    BY ShownFinite
  <2>2. m + 1 \notin InterruptionsOf(d)
    BY <1>4 DEF InterruptionsOf
  <2>3. CASE n.day = d /\ n.class = "INTERRUPT"
    <3>1. InterruptionsOf(d)' = InterruptionsOf(d) \cup {m + 1}
      BY <1>2, <1>4, <2>3 DEF InterruptionsOf
    <3>2. QED BY <2>1, <2>2, <2>3, <3>1, FS_AddElement
  <2>4. CASE ~(n.day = d /\ n.class = "INTERRUPT")
    <3>1. InterruptionsOf(d)' = InterruptionsOf(d)
      BY <1>2, <1>4, <2>4 DEF InterruptionsOf
    <3>2. QED BY <2>1, <2>4, <3>1
  <2>5. QED BY <2>3, <2>4
<1>6. ASSUME NEW s
      PROVE  Cardinality(ItemsOf(s)') = Cardinality(ItemsOf(s)) + IF n.session = s THEN 1 ELSE 0
  <2>1. IsFiniteSet(ItemsOf(s)) /\ Cardinality(ItemsOf(s)) \in Nat
    BY ShownFinite
  <2>2. m + 1 \notin ItemsOf(s)
    BY <1>4 DEF ItemsOf
  <2>3. CASE n.session = s
    <3>1. ItemsOf(s)' = ItemsOf(s) \cup {m + 1}
      BY <1>2, <1>4, <2>3 DEF ItemsOf
    <3>2. QED BY <2>1, <2>2, <2>3, <3>1, FS_AddElement
  <2>4. CASE n.session # s
    <3>1. ItemsOf(s)' = ItemsOf(s)
      BY <1>2, <1>4, <2>4 DEF ItemsOf
    <3>2. QED BY <2>1, <2>4, <3>1
  <2>5. QED BY <2>3, <2>4
<1>7. QED BY <1>2, <1>4, <1>5, <1>6

\* Surfacing an item the ledger has counted keeps the policy, and the books straight.
LEMMA SurfaceStep ==
  ASSUME Roomy, clock \in Day, clock' = clock, ledger' = ledger, NEW p \in Proc, run[p] \in Run,
         run[p].item \in Item, run[p].now <= clock, clock - run[p].now < RecoveryAge,
         shown \in Seq(Notice), Accounts(run[p].seen), ledger = Counted(p),
         ~CoolingDown(p), ~SessionFull(p), WithinAttentionPolicy, Surface(p)
  PROVE  shown' \in Seq(Notice) /\ Accounts(ledger)' /\ WithinAttentionPolicy'
<1>1. PICK book, now, own, f, class :
        /\ book = run[p].seen /\ now = run[p].now /\ own = run[p].session
        /\ f = run[p].item.fingerprint /\ class = ActualClass(p)
  OBVIOUS
<1>2. book \in Book /\ now \in Day /\ own \in Sessions /\ f \in Fingerprint /\ Absent \notin Nat /\ Day \subseteq Nat
      /\ class \in {"INTERRUPT", "SURFACE"}
  BY <1>1, TickAssumption DEF Run, Item, Day, Absent, ActualClass
<1>3. PICK n : n = [fingerprint |-> f, class |-> class, session |-> own, day |-> now]
  OBVIOUS
<1>4. n \in Notice /\ shown' = Append(shown, n)
  BY <1>1, <1>2, <1>3 DEF Surface, Notice
<1>5. /\ n.fingerprint = f /\ n.class = class /\ n.session = own /\ n.day = now
  BY <1>3
<1>6. /\ \A i \in DOMAIN shown : i \in DOMAIN shown' /\ shown'[i] = shown[i]
      /\ \A i \in DOMAIN shown' : i \in DOMAIN shown \/ shown'[i] = n
      /\ \A i, j \in DOMAIN shown' : i < j => i \in DOMAIN shown
      /\ \A d : Cardinality(InterruptionsOf(d)') =
           Cardinality(InterruptionsOf(d)) + IF n.day = d /\ n.class = "INTERRUPT" THEN 1 ELSE 0
      /\ \A s : Cardinality(ItemsOf(s)') = Cardinality(ItemsOf(s)) + IF n.session = s THEN 1 ELSE 0
      /\ shown' \in Seq(Notice)
  BY <1>4, ShownGrows
<1>7. /\ ledger \in Book
      /\ \A d \in Day : clock - d < RecoveryAge =>
           Interruptions(ledger, d) =
             Interruptions(book, d) + IF d = now /\ class = "INTERRUPT" THEN 1 ELSE 0
      /\ \A s \in Sessions :
           ledger.sessions[s] = IF s = own THEN [count |-> book.sessions[s].count + 1, at |-> now]
                                           ELSE book.sessions[s]
      /\ ledger.last = [book.last EXCEPT ![f] = now]
  BY <1>1, CountedBook
<1>8. Accounts(book) /\ Accounts(ledger)
  BY <1>1, CountedAccounts
<1>9. clock - now < RecoveryAge
  BY <1>1
<1>10. PICK more \in {0, 1} : more = 1 <=> class = "INTERRUPT"
  OBVIOUS
<1>11. more = 1 => Interruptions(book, now) < MaxInterruptions
  BY <1>1, <1>10 DEF ActualClass
<1>12. ASSUME NEW d \in Day
       PROVE  /\ Cardinality(InterruptionsOf(d)') <= MaxInterruptions
              /\ clock - d < RecoveryAge => Cardinality(InterruptionsOf(d)') <= Interruptions(ledger, d)
  <2>1. PICK c \in Nat : c = Cardinality(InterruptionsOf(d))
    BY ShownFinite
  <2>2. PICK c2 : c2 = Cardinality(InterruptionsOf(d)')
    OBVIOUS
  <2>3. c <= MaxInterruptions /\ MaxInterruptions \in Nat
    BY <2>1, TickAssumption DEF WithinAttentionPolicy
  <2>4. PICK k \in Nat : k = Interruptions(book, d)
    BY <1>2 DEF Interruptions, Book
  <2>5. clock - d < RecoveryAge => c <= k
    BY <1>8, <2>1, <2>4 DEF Accounts
  <2>6. c2 = c + IF d = now THEN more ELSE 0
    BY <1>5, <1>6, <1>10, <2>1, <2>2
  <2>7. clock - d < RecoveryAge => Interruptions(ledger, d) = k + IF d = now THEN more ELSE 0
    BY <1>7, <1>10, <2>4
  <2>8. clock - d < RecoveryAge => c2 <= Interruptions(ledger, d)
    BY <2>5, <2>6, <2>7
  <2>9. c2 <= MaxInterruptions
    BY <1>9, <1>11, <2>3, <2>4, <2>5, <2>6
  <2>10. QED BY <2>2, <2>8, <2>9
<1>13. ASSUME NEW s \in Sessions
       PROVE  /\ Cardinality(ItemsOf(s)') <= MaxPerSession
              /\ Cardinality(ItemsOf(s)') <= ledger.sessions[s].count
  <2>1. PICK c \in Nat : c = Cardinality(ItemsOf(s))
    BY ShownFinite
  <2>2. PICK c2 : c2 = Cardinality(ItemsOf(s)')
    OBVIOUS
  <2>3. c <= MaxPerSession /\ MaxPerSession \in Nat
    BY <2>1, TickAssumption DEF WithinAttentionPolicy
  <2>4. PICK k \in Nat : k = book.sessions[s].count
    BY <1>2 DEF Book
  <2>5. c <= k
    BY <1>8, <2>1, <2>4 DEF Accounts
  <2>6. s = own => k < MaxPerSession
    <3>1. s = own => ~(k >= MaxPerSession)
      BY <1>1, <2>4 DEF SessionFull
    <3>2. QED BY <2>3, <3>1
  <2>7. c2 = c + IF s = own THEN 1 ELSE 0
    BY <1>5, <1>6, <2>1, <2>2
  <2>8. ledger.sessions[s].count = k + IF s = own THEN 1 ELSE 0
    <3>1. CASE s = own
      <4>1. ledger.sessions[s] = [count |-> k + 1, at |-> now]
        BY <1>7, <2>4, <3>1
      <4>2. QED BY <3>1, <4>1
    <3>2. CASE s # own
      <4>1. ledger.sessions[s] = book.sessions[s]
        BY <1>7, <3>2
      <4>2. QED BY <2>4, <3>2, <4>1
    <3>3. QED BY <3>1, <3>2
  <2>9. QED BY <2>2, <2>3, <2>5, <2>6, <2>7, <2>8
<1>14. ASSUME NEW i \in DOMAIN shown'
       PROVE  /\ ledger.last[shown'[i].fingerprint] # Absent
              /\ shown'[i].day <= ledger.last[shown'[i].fingerprint]
  <2>1. CASE i \in DOMAIN shown
    BY <1>6, <1>8, <2>1 DEF Accounts
  <2>2. CASE shown'[i] = n
    <3>1. ledger.last[f] = now
      BY <1>2, <1>7 DEF Book
    <3>2. QED BY <1>2, <1>5, <2>2, <3>1
  <2>3. QED BY <1>6, <2>1, <2>2
<1>15. ASSUME NEW i \in DOMAIN shown', NEW j \in DOMAIN shown', i < j,
              shown'[i].fingerprint = shown'[j].fingerprint
       PROVE  shown'[j].day - shown'[i].day >= Cooldown
  <2>1. i \in DOMAIN shown
    BY <1>6, <1>15
  <2>2. CASE j \in DOMAIN shown
    BY <1>6, <1>15, <2>1, <2>2 DEF WithinAttentionPolicy
  <2>3. CASE shown'[j] = n
    <3>1. shown[i].fingerprint = f /\ shown'[i] = shown[i]
      BY <1>5, <1>6, <1>15, <2>1, <2>3
    <3>2. PICK last \in Nat : last = book.last[f] /\ last # Absent
      BY <1>2, <1>8, <2>1, <3>1 DEF Accounts, Book
    <3>3. shown[i].day <= last
      BY <1>8, <2>1, <3>1, <3>2 DEF Accounts
    <3>4. shown[i] \in Notice
      BY <2>1, ElementOfSeq, LenProperties
    <3>5. PICK d \in Nat : d = shown[i].day
      BY <1>2, <3>4 DEF Notice
    <3>6. ~(now - last < Cooldown)
      BY <1>1, <3>2 DEF CoolingDown
    <3>7. now \in Nat /\ Cooldown \in Nat
      BY <1>2, TickAssumption
    <3>8. now - d >= Cooldown
      <4>1. d <= last
        BY <3>3, <3>5
      <4>2. now - last >= Cooldown
        BY <3>6, <3>7
      <4>3. QED BY <3>7, <4>1, <4>2
    <3>9. QED BY <1>5, <2>3, <3>1, <3>5, <3>8
  <2>4. QED BY <1>6, <2>2, <2>3
<1>16. WithinAttentionPolicy'
  BY <1>12, <1>13, <1>15 DEF WithinAttentionPolicy
<1>17. Accounts(ledger)'
  <2>1. /\ \A d \in Day : ledger.days[d] # Absent => d <= clock
        /\ \A s \in Sessions : ledger.sessions[s].at = Absent => ledger.sessions[s].count = 0
    BY <1>8 DEF Accounts
  <2>2. QED BY <1>12, <1>13, <1>14, <2>1 DEF Accounts, Interruptions
<1>18. QED BY <1>6, <1>16, <1>17

\* Time that passes leaves the books straight.
LEMMA AccountsKept ==
  ASSUME NEW book, Accounts(book), clock \in Day, clock' \in {clock, clock + 1}, shown' = shown
  PROVE  Accounts(book)'
<1>1. clock \in Nat /\ Day \subseteq Nat /\ RecoveryAge \in Nat
  BY TickAssumption DEF Day
<1>2. PICK before \in Nat, after \in Nat : before = clock /\ after = clock' /\ before <= after
  BY <1>1
<1>3. ASSUME NEW d \in Day
      PROVE  /\ d <= clock => d <= clock'
             /\ clock' - d < RecoveryAge => clock - d < RecoveryAge
  <2>1. d \in Nat
    BY <1>1
  <2>2. d <= before => d <= after
    BY <1>2, <2>1
  <2>3. after - d < RecoveryAge => before - d < RecoveryAge
    <3>1. before \in Int /\ after \in Int /\ before <= after /\ d \in Int /\ RecoveryAge \in Int
      BY <1>1, <1>2, <2>1
    <3> HIDE <1>2
    <3>2. after - d >= before - d
      BY <3>1
    <3>3. QED BY <3>1, <3>2
  <2>4. QED BY <1>2, <2>2, <2>3
<1>4. QED BY <1>3 DEF Accounts, InterruptionsOf, ItemsOf, Interruptions

-----------------------------------------------------------------------------
\* The steps of the attention policy.

Others(p) == \A q \in Proc \ {p} : UNCHANGED <<pc[q], job[q], run[q]>>

\* One process at a time is inside the attention lock.
LEMMA OneInside ==
  ASSUME AttentionInv, NEW p \in Proc, NEW q \in Proc, pc[p] \in Holding, pc[q] \in Holding
  PROVE  p = q
BY DEF AttentionInv, Attends, Lock!HeldBy

\* What a process promises is not disturbed by the steps of others.
LEMMA StillAttends ==
  ASSUME NEW q \in Proc, Attends(q), clock \in Day, clock' \in {clock, clock + 1},
         run[q] \in Run, UNCHANGED <<pc[q], job[q], run[q]>>,
         pc[q] \in Holding => UNCHANGED <<lock, ledger, shown>>
  PROVE  Attends(q)'
<1>1. PICK book : book = run[q].seen
  OBVIOUS
<1>2. Counted(q)' = Counted(q) /\ CoolingDown(q)' = CoolingDown(q) /\ SessionFull(q)' = SessionFull(q)
  BY DEF Counted, DaysAfter, SessionsAfter, ActualClass, Interruptions, CoolingDown, SessionFull
<1>3. pc[q] = "release" => Accounts(book)'
  BY <1>1, AccountsKept DEF Attends, Holding
<1>4. pc[q] = "release" => Accounts(run[q].seen)'
  BY <1>1, <1>3 DEF Accounts
<1>5. run[q].now <= clock => run[q].now <= clock'
  BY TickAssumption DEF Run, Day
<1>6. QED
  BY <1>2, <1>4, <1>5 DEF Attends, Holding

\* Nothing surfaced and nothing counted.
LEMMA BooksKept ==
  ASSUME AttentionInv, clock \in Day, clock' \in {clock, clock + 1}, UNCHANGED <<ledger, shown>>
  PROVE  /\ ledger' \in Book /\ shown' \in Seq(Notice)
         /\ Accounts(ledger)' /\ WithinAttentionPolicy'
<1>1. PICK book : book = ledger
  OBVIOUS
<1>2. Accounts(book)'
  BY <1>1, AccountsKept DEF AttentionInv
<1>3. Accounts(ledger)'
  BY <1>1, <1>2 DEF Accounts
<1>4. WithinAttentionPolicy'
  BY DEF AttentionInv, WithinAttentionPolicy, InterruptionsOf, ItemsOf
<1>5. QED BY <1>3, <1>4 DEF AttentionInv

\* A step of one process keeps the invariant when it keeps that process's part and the books.
LEMMA OwnStep ==
  ASSUME AttentionInv, clock \in Day, UNCHANGED clock, NEW p \in Proc, Others(p),
         \A q \in Proc \ {p} : pc[q] \in Holding => UNCHANGED <<lock, ledger, shown>>,
         run' \in [Proc -> Run], Running(p)' => job'[p].since <= clock, Attends(p)',
         ledger' \in Book, shown' \in Seq(Notice), Accounts(ledger)', WithinAttentionPolicy'
  PROVE  AttentionInv'
<1>1. ASSUME NEW q \in Proc PROVE Attends(q)' /\ (Running(q) => job[q].since <= clock)'
  <2>1. CASE q = p
    BY <2>1
  <2>2. CASE q # p
    <3>1. Attends(q)'
      BY <2>2, StillAttends DEF AttentionInv, Others
    <3>2. (Running(q) => job[q].since <= clock)'
      BY <2>2 DEF AttentionInv, Others, Running
    <3>3. QED BY <3>1, <3>2
  <2>3. QED BY <2>1, <2>2
<1>2. QED BY <1>1 DEF AttentionInv

LEMMA NoRunTyped == NoRun \in Run /\ NothingShown \in Book
<1>1. NothingShown \in Book
  BY TickAssumption DEF NothingShown, Book, Day
<1>2. QED BY <1>1, TickAssumption DEF NoRun, Run, Sessions, Day

\* A process that stops is out of everything.
LEMMA Stopped ==
  ASSUME AttentionInv, TickInv, NEW p \in Proc, Stop(p)
  PROVE  /\ Others(p) /\ run' \in [Proc -> Run] /\ Attends(p)'
         /\ Running(p)' => job'[p].since <= clock
<1>1. pc'[p] = "idle" /\ run' = [run EXCEPT ![p] = NoRun]
  BY DEF Stop, Goto, TickInv, ReceiptTypes
<1>2. Others(p)
  BY DEF Others, Stop, Goto, TickInv, ReceiptTypes, AttentionInv
<1>3. run' \in [Proc -> Run]
  BY <1>1, NoRunTyped DEF AttentionInv
<1>4. Attends(p)' /\ ~Running(p)'
  BY <1>1 DEF Attends, Running, AttentionStates, TickStates, Holding
<1>5. QED BY <1>2, <1>3, <1>4

\* A process that goes on to its next proposal.
LEMMA Proceeded ==
  ASSUME AttentionInv, TickInv, NEW p \in Proc, Proceed(p), UNCHANGED job, Running(p), run[p].left > 0
  PROVE  /\ Others(p) /\ run' \in [Proc -> Run] /\ Attends(p)'
         /\ Running(p)' => job'[p].since <= clock
<1>1. pc'[p] = "work"
  BY DEF Proceed, Goto, TickInv, ReceiptTypes
<1>2. PICK r : r = [run[p] EXCEPT !.left = @ - 1, !.item = None, !.now = 0, !.seen = NothingShown]
  OBVIOUS
<1>3. run' = [run EXCEPT ![p] = r]
  BY <1>2 DEF Proceed, AttentionInv
<1>4. r \in Run
  <2>1. run[p] \in Run /\ run[p].left - 1 \in 0 .. MaxItems /\ 0 \in Day
    BY TickAssumption DEF AttentionInv, Run, Day
  <2>2. QED BY <1>2, <2>1, NoRunTyped DEF Run
<1>5. Others(p)
  BY <1>3 DEF Others, Proceed, Goto, TickInv, ReceiptTypes, AttentionInv
<1>6. run' \in [Proc -> Run]
  BY <1>3, <1>4 DEF AttentionInv
<1>7. Attends(p)'
  BY <1>1 DEF Attends, AttentionStates, Holding
<1>8. QED BY <1>5, <1>6, <1>7 DEF AttentionInv, Running

\* A step before or after the lock, by a process that neither takes nor gives it.
LEMMA OutsideStep ==
  ASSUME AttentionInv, TickInv, NEW p \in Proc, UNCHANGED <<clock, ledger, shown>>, Others(p),
         run' \in [Proc -> Run], Running(p)' => job'[p].since <= clock, Attends(p)',
         \/ UNCHANGED lock
         \/ pc[p] \in Holding
  PROVE  AttentionInv'
<1>1. clock \in Day
  BY DEF TickInv, ReceiptTypes
<1>2. ledger' \in Book /\ shown' \in Seq(Notice) /\ Accounts(ledger)' /\ WithinAttentionPolicy'
  BY <1>1, BooksKept
<1>3. \A q \in Proc \ {p} : pc[q] \in Holding => UNCHANGED <<lock, ledger, shown>>
  BY OneInside
<1>4. QED BY <1>1, <1>2, <1>3, OwnStep

\* No step surfaces what the policy refuses, or loses count of what was surfaced.
LEMMA AttentionStep ==
  ASSUME InTime, Roomy, AttentionInv, TickInv, [Next]_vars
  PROVE  AttentionInv'
<1>1. clock \in Day /\ pc \in [Proc -> {"idle", "recover"} \cup TickStates] /\ run \in [Proc -> Run]
      /\ job \in [Proc -> [key : Key \cup {None}, since : Day]] /\ Day \subseteq Nat
  BY TickAssumption DEF TickInv, ReceiptTypes, AttentionInv, Day
<1>2. \A p \in Proc : Running(p) => job[p].since <= clock /\ clock - job[p].since < RecoveryAge
  BY DEF AttentionInv, TickInv
<1>3. ASSUME NEW p \in Proc, Step(p)
      PROVE  AttentionInv'
  <2>0. UNCHANGED clock
    BY <1>3 DEF Step, world
  <2>1. CASE \E k \in Key : CheckRecovery(p, k)
    <3>1. pc'[p] = "recover" /\ Others(p) /\ UNCHANGED <<run, lock, ledger, shown>>
      BY <1>1, <2>1 DEF CheckRecovery, Goto, Others, attention
    <3>2. Attends(p)' /\ ~Running(p)'
      BY <3>1 DEF Attends, Running, TickStates, AttentionStates, Holding
    <3>3. QED BY <1>1, <2>0, <3>1, <3>2, OutsideStep
  <2>2. CASE \E k \in Key : \E s \in Sessions : Claim(p, k, s)
    <3>1. PICK k \in Key, s \in Sessions : Claim(p, k, s)
      BY <2>2
    <3>2. /\ pc'[p] = "claim" /\ Others(p) /\ UNCHANGED <<lock, ledger, shown>>
          /\ job'[p].since = clock
      BY <1>1, <3>1 DEF Claim, Goto, Others, attention
    <3>3. PICK r : r = [NoRun EXCEPT !.session = s, !.left = MaxItems]
      OBVIOUS
    <3>4. r \in Run
      <4>1. MaxItems \in 0 .. MaxItems
        BY TickAssumption
      <4>2. QED BY <3>3, <4>1, NoRunTyped DEF Run
    <3>5. run' \in [Proc -> Run]
      BY <1>1, <3>1, <3>3, <3>4 DEF Claim
    <3>6. Attends(p)'
      BY <3>2 DEF Attends, AttentionStates, Holding
    <3>7. QED BY <1>1, <2>0, <3>2, <3>5, <3>6, OutsideStep
  <2>3. CASE WriteClaim(p) \/ ReadReceipt(p) \/ WriteTemp(p)
    <3>1. pc'[p] \in {"work", "temp", "replace"} /\ Others(p) /\ UNCHANGED <<run, job, lock, ledger, shown>>
          /\ Running(p)
      BY <1>1, <2>3
      DEF WriteClaim, ReadReceipt, WriteTemp, WorkDone, Goto, Others, attention, Running, TickStates
    <3>2. Attends(p)'
      BY <3>1 DEF Attends, AttentionStates, Holding
    <3>3. QED BY <1>1, <1>2, <2>0, <3>1, <3>2, OutsideStep
  <2>4. CASE CompletionRefused(p) \/ Replace(p) \/ UnlinkClaim(p)
    <3>1. Stop(p) /\ UNCHANGED <<lock, ledger, shown>>
      BY <2>4 DEF CompletionRefused, Replace, UnlinkClaim, attention
    <3>2. QED BY <2>0, <3>1, Stopped, OutsideStep
  <2>5. CASE KeepToItself(p)
    <3>1. Proceed(p) /\ Running(p) /\ run[p].left > 0 /\ UNCHANGED <<job, lock, ledger, shown>>
      BY <2>5 DEF KeepToItself, attention, Running, TickStates
    <3>2. QED BY <2>0, <3>1, Proceeded, OutsideStep
  <2>6. CASE \E item \in Item : Ask(p, item)
    <3>1. PICK item \in Item : Ask(p, item)
      BY <2>6
    <3>2. /\ pc'[p] = "ask" /\ UNCHANGED <<job, lock, ledger, shown>> /\ Running(p) /\ run[p].left > 0
          /\ \A q \in Proc \ {p} : UNCHANGED <<pc[q], job[q]>>
      BY <1>1, <3>1 DEF Ask, Goto, attention, Running, TickStates
    <3>3. PICK r : r = [run[p] EXCEPT !.item = item, !.now = clock]
      OBVIOUS
    <3>4. r \in Run /\ r.item = item /\ r.now = clock /\ r.left = run[p].left
      BY <1>1, <3>3 DEF Run
    <3>5. run' = [run EXCEPT ![p] = r]
      BY <1>1, <3>1, <3>3 DEF Ask
    <3>6. run' \in [Proc -> Run] /\ Others(p) /\ run'[p] = r
      BY <1>1, <3>2, <3>4, <3>5 DEF Others
    <3>7. Attends(p)'
      BY <1>1, <1>2, <2>0, <3>2, <3>4, <3>6 DEF Attends, AttentionStates, Holding
    <3>8. QED BY <1>2, <2>0, <3>2, <3>6, <3>7, OutsideStep
  <2>7. CASE TakeLock(p)
    <3>1. /\ pc[p] = "ask" /\ pc'[p] = "read" /\ Others(p) /\ UNCHANGED <<job, run, ledger, shown>>
          /\ lock = Lock!Free /\ lock' = Lock!HeldBy(p)
      BY <1>1, <2>7 DEF TakeLock, Goto, Others, Lock!Take
    <3>2. \A q \in Proc : pc[q] \notin Holding
      BY <3>1 DEF AttentionInv, Attends, Lock!Free, Lock!HeldBy
    <3>3. Attends(p)'
      <4>1. Attends(p)
        BY DEF AttentionInv
      <4>2. QED BY <2>0, <3>1, <4>1 DEF Attends, AttentionStates, Holding, Lock!HeldBy
    <3>4. Running(p)
      BY <3>1 DEF Running, TickStates, AttentionStates
    <3>5. ledger' \in Book /\ shown' \in Seq(Notice) /\ Accounts(ledger)' /\ WithinAttentionPolicy'
      BY <1>1, <2>0, <3>1, BooksKept
    <3>6. QED BY <1>1, <1>2, <2>0, <3>1, <3>2, <3>3, <3>4, <3>5, OwnStep
  <2>8. CASE LockRefused(p)
    <3>1. Proceed(p) /\ Running(p) /\ run[p].left > 0 /\ UNCHANGED <<job, lock, ledger, shown>>
      BY <2>8 DEF LockRefused, attention, Running, TickStates, AttentionStates, AttentionInv, Attends
    <3>2. QED BY <2>0, <3>1, Proceeded, OutsideStep
  <2>9. CASE ReadLedger(p)
    <3>1. /\ pc[p] = "read" /\ pc'[p] = "decide" /\ UNCHANGED <<job, lock, ledger, shown>>
          /\ \A q \in Proc \ {p} : UNCHANGED <<pc[q], job[q]>>
      BY <1>1, <2>9 DEF ReadLedger, Goto, attention
    <3>2. PICK r : r = [run[p] EXCEPT !.seen = ledger]
      OBVIOUS
    <3>3. r \in Run /\ r.seen = ledger /\ r.item = run[p].item /\ r.now = run[p].now /\ r.left = run[p].left
      BY <1>1, <3>2 DEF Run, AttentionInv
    <3>4. run' = [run EXCEPT ![p] = r]
      BY <1>1, <2>9, <3>2 DEF ReadLedger
    <3>5. run' \in [Proc -> Run] /\ Others(p) /\ run'[p] = r
      BY <1>1, <3>1, <3>3, <3>4 DEF Others
    <3>6. Attends(p)'
      <4>1. Attends(p)
        BY DEF AttentionInv
      <4>2. QED BY <2>0, <3>1, <3>3, <3>5, <4>1 DEF Attends, AttentionStates, Holding, Lock!HeldBy
    <3>7. Running(p)
      BY <3>1 DEF Running, TickStates, AttentionStates
    <3>8. QED BY <1>2, <2>0, <3>1, <3>5, <3>6, <3>7, OutsideStep
  <2>10. CASE Deny(p) \/ GrantRefused(p)
    <3>1. pc[p] = "decide" /\ Proceed(p) /\ UNCHANGED <<job, ledger, shown>>
      BY <2>10 DEF Deny, GrantRefused
    <3>2. Running(p) /\ pc[p] \in Holding /\ run[p].left > 0
      BY <3>1 DEF Running, TickStates, AttentionStates, Holding, AttentionInv, Attends
    <3>3. QED BY <2>0, <3>1, <3>2, Proceeded, OutsideStep
  <2> DEFINE Timely == /\ Running(p) /\ run[p] \in Run /\ run[p].item \in Item /\ run[p].left > 0
                       /\ run[p].now <= clock /\ clock - run[p].now < RecoveryAge
  <2>11. ASSUME pc[p] \in Holding PROVE Timely
    <3>1. /\ Running(p) /\ run[p] \in Run /\ run[p].item \in Item /\ run[p].left > 0
          /\ job[p].since <= run[p].now /\ run[p].now <= clock
      BY <1>1, <2>11 DEF Running, TickStates, AttentionStates, Holding, AttentionInv, Attends
    <3>2. PICK now \in Nat, since \in Nat, t \in Nat : now = run[p].now /\ since = job[p].since /\ t = clock
      BY <1>1, <3>1 DEF Run
    <3>3. t - since < RecoveryAge /\ since <= now /\ RecoveryAge \in Int
      BY <1>2, <3>1, <3>2, TickAssumption
    <3>4. t - now <= t - since
      BY <3>2, <3>3
    <3>5. t - now < RecoveryAge
      BY <3>2, <3>3, <3>4
    <3>6. QED BY <3>1, <3>2, <3>5
  <2>12. CASE Grant(p)
    <3>1. /\ pc[p] = "decide" /\ pc'[p] = "release" /\ Others(p) /\ UNCHANGED <<job, run, lock, shown>>
          /\ ledger' = Counted(p) /\ ~CoolingDown(p) /\ ~SessionFull(p)
      BY <1>1, <2>12 DEF Grant, Goto, Others
    <3>2. Timely /\ pc[p] \in Holding
      BY <2>11, <3>1 DEF Holding
    <3>3. run[p].seen = ledger /\ Attends(p) /\ Accounts(ledger) /\ shown \in Seq(Notice)
      BY <3>1 DEF AttentionInv, Attends
    <3>4. PICK book, c : book = run[p].seen /\ c = Counted(p)
      OBVIOUS
    <3>5. Accounts(book) /\ Accounts(c) /\ c \in Book
      BY <1>1, <3>1, <3>2, <3>3, <3>4, CountedAccounts, CountedBook
    <3>6. Accounts(book)' /\ Accounts(c)'
      BY <1>1, <2>0, <3>1, <3>5, AccountsKept
    <3>7. Accounts(ledger)' /\ Accounts(run[p].seen)'
      BY <3>1, <3>4, <3>6 DEF Accounts
    <3>8. ledger' \in Book /\ WithinAttentionPolicy' /\ shown' \in Seq(Notice)
      BY <3>1, <3>4, <3>5 DEF AttentionInv, WithinAttentionPolicy, InterruptionsOf, ItemsOf
    <3>9. Counted(p)' = Counted(p) /\ CoolingDown(p)' = CoolingDown(p) /\ SessionFull(p)' = SessionFull(p)
      <4>1. UNCHANGED run[p]
        BY <3>1
      <4>2. QED BY <4>1 DEF Counted, DaysAfter, SessionsAfter, ActualClass, Interruptions, CoolingDown, SessionFull
    <3>10. Attends(p)'
      BY <2>0, <3>1, <3>3, <3>7, <3>9 DEF Attends, AttentionStates, Holding, Lock!HeldBy
    <3>11. \A q \in Proc \ {p} : pc[q] \notin Holding
      BY <3>2, OneInside
    <3>12. QED BY <1>1, <1>2, <2>0, <3>1, <3>2, <3>7, <3>8, <3>10, <3>11, OwnStep
  <2>13. CASE Surface(p)
    <3>1. pc[p] = "release" /\ Proceed(p) /\ UNCHANGED <<job, ledger>>
      BY <2>13 DEF Surface
    <3>2. Timely /\ pc[p] \in Holding
      BY <2>11, <3>1 DEF Holding
    <3>3. /\ Accounts(run[p].seen) /\ ledger = Counted(p) /\ ~CoolingDown(p) /\ ~SessionFull(p)
          /\ shown \in Seq(Notice) /\ WithinAttentionPolicy /\ ledger \in Book
      BY <3>1 DEF AttentionInv, Attends
    <3>4. shown' \in Seq(Notice) /\ Accounts(ledger)' /\ WithinAttentionPolicy'
      BY <1>1, <2>0, <2>13, <3>1, <3>2, <3>3, SurfaceStep
    <3>5. \A q \in Proc \ {p} : pc[q] \notin Holding
      BY <3>2, OneInside
    <3>6. /\ Others(p) /\ run' \in [Proc -> Run] /\ Attends(p)'
          /\ Running(p)' => job'[p].since <= clock
      BY <3>1, <3>2, Proceeded
    <3>7. QED BY <1>1, <2>0, <3>1, <3>3, <3>4, <3>5, <3>6, OwnStep
  <2>14. QED BY <1>3, <2>1, <2>2, <2>3, <2>4, <2>5, <2>6, <2>7, <2>8, <2>9, <2>10, <2>12, <2>13 DEF Step
<1>4. ASSUME NEW p \in Proc, Crash(p)
      PROVE  AttentionInv'
  <2>1. Stop(p) /\ UNCHANGED <<clock, ledger, shown>> /\ (pc[p] \in Holding \/ UNCHANGED lock)
    BY <1>4 DEF Crash, Holding
  <2>2. QED BY <2>1, Stopped, OutsideStep
<1>5. ASSUME clock' \in {clock, clock + 1}, UNCHANGED <<pc, job, run, ledger, shown>>,
             UNCHANGED lock \/ \A q \in Proc : pc[q] \notin Holding
      PROVE  AttentionInv'
  <2>1. ledger' \in Book /\ shown' \in Seq(Notice) /\ Accounts(ledger)' /\ WithinAttentionPolicy'
    BY <1>1, <1>5, BooksKept
  <2>2. ASSUME NEW q \in Proc PROVE Attends(q)' /\ (Running(q) => job[q].since <= clock)'
    <3>1. Attends(q)'
      BY <1>1, <1>5, StillAttends DEF AttentionInv
    <3>2. Running(q) => job[q].since \in Nat /\ job[q].since <= clock
      BY <1>1, <1>2
    <3>3. QED BY <1>1, <1>5, <3>1, <3>2 DEF Running
  <2>3. QED BY <1>1, <1>5, <2>1, <2>2 DEF AttentionInv
<1>6. CASE ReclaimLock
  <2>1. \A q \in Proc : pc[q] \notin Holding
    BY <1>6 DEF ReclaimLock, Lock!Reclaim, AttentionInv, Attends, Lock!Abandoned, Lock!HeldBy
  <2>2. QED BY <1>5, <1>6, <2>1 DEF ReclaimLock, world
<1>7. CASE SwitchGate
  BY <1>5, <1>7 DEF SwitchGate, attention
<1>8. CASE PassDay
  BY <1>5, <1>8 DEF PassDay, attention
<1>9. CASE UNCHANGED vars
  BY <1>5, <1>9 DEF vars
<1>10. QED BY <1>3, <1>4, <1>6, <1>7, <1>8, <1>9 DEF Next

\* What concurrent, crashed, repeated and midnight-crossing ticks surface stays within the
\* attention policy, for every number of processes, keys, sessions and days, when a tick
\* ends before its claim can be recovered and the ledger keeps every session.
THEOREM AttentionPolicyHolds == InTime /\ Roomy /\ Spec => []WithinAttentionPolicy
<1> SUFFICES ASSUME InTime, Roomy PROVE Spec => []WithinAttentionPolicy
  OBVIOUS
<1>1. Init => TickInv
  BY TickAssumption
  DEF Init, TickInv, ReceiptTypes, Receipt, NoReceipt, NoJob, Day, TickStates, AttentionStates, Running
<1>2. Init => AttentionInv
  <2> SUFFICES ASSUME Init PROVE AttentionInv
    OBVIOUS
  <2>1. shown \in Seq(Notice) /\ shown = <<>> /\ DOMAIN shown = {}
    BY EmptySeq DEF Init
  <2>2. \A d : Cardinality(InterruptionsOf(d)) = 0
    BY <2>1, FS_EmptySet DEF InterruptionsOf
  <2>3. \A s : Cardinality(ItemsOf(s)) = 0
    BY <2>1, FS_EmptySet DEF ItemsOf
  <2>4. WithinAttentionPolicy
    <3>1. 0 <= MaxInterruptions /\ 0 <= MaxPerSession
      BY TickAssumption
    <3>2. QED BY <2>1, <2>2, <2>3, <3>1 DEF WithinAttentionPolicy
  <2>5. ledger = NothingShown /\ ledger \in Book
    BY NoRunTyped DEF Init
  <2>6. /\ \A d \in Day : ledger.days[d] = Absent
        /\ \A s \in Sessions : ledger.sessions[s] = [count |-> 0, at |-> Absent]
    BY <2>5 DEF NothingShown
  <2>7. \A d \in Day : Interruptions(ledger, d) = 0
    BY <2>6 DEF Interruptions
  <2>8. Accounts(ledger)
    BY <2>1, <2>2, <2>3, <2>6, <2>7 DEF Accounts
  <2>9. /\ run \in [Proc -> Run]
        /\ \A p \in Proc : Attends(p) /\ ~Running(p)
    BY NoRunTyped DEF Init, Attends, Running, TickStates, AttentionStates, Holding
  <2>10. QED BY <2>1, <2>4, <2>5, <2>8, <2>9 DEF AttentionInv
<1>3. TickInv /\ [Next]_vars => TickInv'
  BY Kinds, TickInvStep
<1>4. AttentionInv /\ TickInv /\ [Next]_vars => AttentionInv'
  BY AttentionStep
<1>5. AttentionInv => WithinAttentionPolicy
  BY DEF AttentionInv
<1>6. QED
  BY <1>1, <1>2, <1>3, <1>4, <1>5, PTL DEF Spec

-----------------------------------------------------------------------------
\* The types, whatever the windows and however little the ledger keeps.

Typed ==
  /\ ReceiptTypes
  /\ ready \in BOOLEAN /\ mishaps \in 0 .. MaxMishaps
  /\ ledger \in Book /\ shown \in Seq(Notice) /\ run \in [Proc -> Run]
  /\ \A p \in Proc : pc[p] \in AttentionStates => run[p].item \in Item /\ run[p].left > 0

\* Counting an item leaves a ledger, trimmed or not.
LEMMA CountedTyped ==
  ASSUME NEW p \in Proc, run[p] \in Run, run[p].item \in Item
  PROVE  Counted(p) \in Book
<1>0. PICK more \in {0, 1} : more = IF ActualClass(p) = "INTERRUPT" THEN 1 ELSE 0
  OBVIOUS
<1>1. PICK book, now, own, f, c :
        /\ book = run[p].seen /\ now = run[p].now /\ own = run[p].session
        /\ f = run[p].item.fingerprint /\ c = Counted(p)
  OBVIOUS
<1>2. book \in Book /\ now \in Day /\ own \in Sessions /\ f \in Fingerprint
  BY <1>1 DEF Run, Item
<1>3. /\ book.days \in [Day -> Nat \cup {Absent}] /\ book.last \in [Fingerprint -> Day \cup {Absent}]
      /\ book.sessions \in [Sessions -> [count : Nat, at : Day \cup {Absent}]]
  BY <1>2 DEF Book
<1>4. DaysAfter(p) \in [Day -> Nat \cup {Absent}]
  <2>1. PICK k \in Nat : k = Interruptions(book, now)
    BY <1>2, <1>3 DEF Interruptions
  <2>2. PICK v \in Nat : v = k + more
    BY <2>1
  <2>3. DaysAfter(p) = [book.days EXCEPT ![now] = v]
    BY <1>0, <1>1, <2>1, <2>2 DEF DaysAfter
  <2>4. QED BY <1>3, <2>2, <2>3
<1>5. SessionsAfter(p) \in [Sessions -> [count : Nat, at : Day \cup {Absent}]]
  <2>1. PICK e : e = [count |-> book.sessions[own].count + 1, at |-> now]
    OBVIOUS
  <2>2. e \in [count : Nat, at : Day \cup {Absent}]
    BY <1>2, <1>3, <2>1
  <2>3. SessionsAfter(p) = [book.sessions EXCEPT ![own] = e]
    BY <1>1, <1>2, <1>3, <2>1 DEF SessionsAfter
  <2>4. QED BY <1>3, <2>2, <2>3
<1>6. PICK ds, ss, ls : ds = c.days /\ ss = c.sessions /\ ls = c.last
  OBVIOUS
<1>7. ds \in [Day -> Nat \cup {Absent}]
  BY <1>1, <1>4, <1>6 DEF Counted
<1>8. ss \in [Sessions -> [count : Nat, at : Day \cup {Absent}]]
  <2>1. ss = [s \in Sessions |-> IF s \in LatestSessions(SessionsAfter(p)) THEN SessionsAfter(p)[s]
                                                                        ELSE NothingShown.sessions[s]]
    BY <1>1, <1>6 DEF Counted
  <2>2. \A s \in Sessions : NothingShown.sessions[s] \in [count : Nat, at : Day \cup {Absent}]
    BY DEF NothingShown
  <2>3. QED BY <1>5, <2>1, <2>2
<1>9. ls \in [Fingerprint -> Day \cup {Absent}]
  <2>1. ls = [book.last EXCEPT ![f] = now]
    BY <1>1, <1>6 DEF Counted
  <2>2. QED BY <1>2, <1>3, <2>1
<1>10. c = [days |-> ds, sessions |-> ss, last |-> ls]
  BY <1>1, <1>6 DEF Counted
<1>11. QED BY <1>1, <1>7, <1>8, <1>9, <1>10 DEF Book

\* A process that stops, or goes on to its next proposal, has left the attention ledger.
LEMMA LeavesAttention ==
  ASSUME Typed, NEW p \in Proc, Stop(p) \/ (Proceed(p) /\ run[p].left > 0)
  PROVE  /\ run' \in [Proc -> Run] /\ pc'[p] \notin AttentionStates
         /\ \A q \in Proc \ {p} : UNCHANGED <<pc[q], run[q]>>
<1>1. PICK r : \/ Stop(p) /\ r = NoRun
               \/ /\ Proceed(p) /\ run[p].left > 0
                  /\ r = [run[p] EXCEPT !.left = @ - 1, !.item = None, !.now = 0, !.seen = NothingShown]
  OBVIOUS
<1>2. r \in Run
  <2>1. run[p] \in Run /\ 0 \in Day /\ (run[p].left > 0 => run[p].left - 1 \in 0 .. MaxItems)
    BY TickAssumption DEF Typed, Run, Day
  <2>2. QED BY <1>1, <2>1, NoRunTyped DEF Run
<1>3. run' = [run EXCEPT ![p] = r]
  BY <1>1 DEF Stop, Proceed, Typed
<1>4. pc'[p] \notin AttentionStates /\ \A q \in Proc \ {p} : UNCHANGED pc[q]
  BY <1>1 DEF Stop, Proceed, Goto, AttentionStates, Typed, ReceiptTypes
<1>5. QED BY <1>2, <1>3, <1>4 DEF Typed

LEMMA TypedStep == Typed /\ [Next]_vars => Typed'
<1> SUFFICES ASSUME Typed, [Next]_vars PROVE Typed'
  OBVIOUS
<1>1. ReceiptTypes'
  BY Kinds, TypesStep DEF Typed
<1>2. clock \in Day /\ pc \in [Proc -> {"idle", "recover"} \cup TickStates] /\ run \in [Proc -> Run]
  BY DEF Typed, ReceiptTypes
\* A step of p outside the ledger's own states, and one inside them.
<1>3. ASSUME NEW p \in Proc, UNCHANGED <<ready, mishaps, ledger, shown>>, run' \in [Proc -> Run],
             \A q \in Proc \ {p} : UNCHANGED <<pc[q], run[q]>>,
             pc'[p] \in AttentionStates => run'[p].item \in Item /\ run'[p].left > 0
      PROVE  Typed'
  BY <1>1, <1>3 DEF Typed
<1>4. ASSUME NEW p \in Proc, Step(p)
      PROVE  Typed'
  <2>0. UNCHANGED <<ready, mishaps>>
    BY <1>4 DEF Step, world
  <2>1. CASE \/ \E k \in Key : CheckRecovery(p, k)
             \/ WriteClaim(p) \/ ReadReceipt(p) \/ WriteTemp(p)
    <3>1. pc'[p] \notin AttentionStates /\ (\A q \in Proc \ {p} : UNCHANGED pc[q]) /\ UNCHANGED <<run, ledger, shown>>
      BY <1>2, <2>1 DEF CheckRecovery, WriteClaim, ReadReceipt, WriteTemp, Goto, attention, AttentionStates
    <3>2. QED BY <1>2, <1>3, <2>0, <3>1
  <2>2. CASE \E k \in Key : \E s \in Sessions : Claim(p, k, s)
    <3>1. PICK k \in Key, s \in Sessions : Claim(p, k, s)
      BY <2>2
    <3>2. pc'[p] \notin AttentionStates /\ (\A q \in Proc \ {p} : UNCHANGED pc[q]) /\ UNCHANGED <<ledger, shown>>
      BY <1>2, <3>1 DEF Claim, Goto, attention, AttentionStates
    <3>3. PICK r : r = [NoRun EXCEPT !.session = s, !.left = MaxItems]
      OBVIOUS
    <3>4. r \in Run
      <4>1. MaxItems \in 0 .. MaxItems
        BY TickAssumption
      <4>2. QED BY <3>3, <4>1, NoRunTyped DEF Run
    <3>5. run' = [run EXCEPT ![p] = r]
      BY <3>1, <3>3 DEF Claim
    <3>6. QED BY <1>2, <1>3, <2>0, <3>2, <3>4, <3>5
  <2>3. CASE \/ CompletionRefused(p) \/ Replace(p) \/ UnlinkClaim(p) \/ KeepToItself(p)
             \/ LockRefused(p) \/ Deny(p) \/ GrantRefused(p)
    <3>1. Stop(p) \/ (Proceed(p) /\ run[p].left > 0)
      BY <2>3 DEF CompletionRefused, Replace, UnlinkClaim, KeepToItself, LockRefused, Deny, GrantRefused,
                  Typed, AttentionStates
    <3>2. UNCHANGED <<ledger, shown>>
      BY <2>3 DEF CompletionRefused, Replace, UnlinkClaim, KeepToItself, LockRefused, Deny, GrantRefused,
                  attention
    <3>3. QED BY <1>3, <2>0, <3>1, <3>2, LeavesAttention
  <2>4. CASE \E item \in Item : Ask(p, item)
    <3>1. PICK item \in Item : Ask(p, item)
      BY <2>4
    <3>2. (\A q \in Proc \ {p} : UNCHANGED pc[q]) /\ UNCHANGED <<ledger, shown>> /\ run[p].left > 0
      BY <1>2, <3>1 DEF Ask, Goto, attention
    <3>3. PICK r : r = [run[p] EXCEPT !.item = item, !.now = clock]
      OBVIOUS
    <3>4. r \in Run /\ r.item = item /\ r.left = run[p].left
      BY <1>2, <3>3 DEF Run
    <3>5. run' = [run EXCEPT ![p] = r]
      BY <1>2, <3>1, <3>3 DEF Ask
    <3>6. QED BY <1>2, <1>3, <2>0, <3>2, <3>4, <3>5
  <2>5. CASE TakeLock(p)
    <3>1. pc[p] \in AttentionStates /\ (\A q \in Proc \ {p} : UNCHANGED pc[q]) /\ UNCHANGED <<run, ledger, shown>>
      BY <1>2, <2>5 DEF TakeLock, Goto, AttentionStates
    <3>2. QED BY <1>2, <1>3, <2>0, <3>1 DEF Typed
  <2>6. CASE ReadLedger(p)
    <3>1. pc[p] \in AttentionStates /\ (\A q \in Proc \ {p} : UNCHANGED pc[q]) /\ UNCHANGED <<ledger, shown>>
      BY <1>2, <2>6 DEF ReadLedger, Goto, attention, AttentionStates
    <3>2. PICK r : r = [run[p] EXCEPT !.seen = ledger]
      OBVIOUS
    <3>3. r \in Run /\ r.item = run[p].item /\ r.left = run[p].left
      BY <1>2, <3>2 DEF Run, Typed
    <3>4. run' = [run EXCEPT ![p] = r]
      BY <1>2, <2>6, <3>2 DEF ReadLedger
    <3>5. QED BY <1>2, <1>3, <2>0, <3>1, <3>3, <3>4 DEF Typed
  <2>7. CASE Grant(p)
    <3>1. /\ pc[p] \in AttentionStates /\ (\A q \in Proc \ {p} : UNCHANGED pc[q])
          /\ UNCHANGED <<run, shown>> /\ ledger' = Counted(p)
      BY <1>2, <2>7 DEF Grant, Goto, AttentionStates
    <3>2. Counted(p) \in Book
      BY <1>2, <3>1, CountedTyped DEF Typed
    <3>3. QED BY <1>1, <1>2, <2>0, <3>1, <3>2 DEF Typed
  <2>8. CASE Surface(p)
    <3>1. pc[p] \in AttentionStates /\ Proceed(p) /\ UNCHANGED ledger
      BY <2>8 DEF Surface, AttentionStates
    <3>2. run[p] \in Run /\ run[p].item \in Item /\ run[p].left > 0 /\ shown \in Seq(Notice)
      BY <3>1 DEF Typed
    <3>3. PICK n : n = [fingerprint |-> run[p].item.fingerprint, class |-> ActualClass(p),
                        session |-> run[p].session, day |-> run[p].now]
      OBVIOUS
    <3>4. n \in Notice
      BY <3>2, <3>3 DEF Run, Item, Notice, ActualClass
    <3>5. shown' \in Seq(Notice)
      BY <2>8, <3>2, <3>3, <3>4, AppendProperties DEF Surface
    <3>6. /\ run' \in [Proc -> Run] /\ pc'[p] \notin AttentionStates
          /\ \A q \in Proc \ {p} : UNCHANGED <<pc[q], run[q]>>
      BY <3>1, <3>2, LeavesAttention
    <3>7. QED BY <1>1, <2>0, <3>1, <3>5, <3>6 DEF Typed
  <2>9. QED BY <1>4, <2>1, <2>2, <2>3, <2>4, <2>5, <2>6, <2>7, <2>8 DEF Step
<1>5. ASSUME NEW p \in Proc, Crash(p)
      PROVE  Typed'
  <2>1. UNCHANGED <<ready, ledger, shown>> /\ Stop(p) /\ mishaps' \in 0 .. MaxMishaps
    BY <1>5, TickAssumption DEF Crash, Typed
  <2>2. QED BY <1>1, <2>1, LeavesAttention DEF Typed
<1>6. CASE ReclaimLock \/ PassDay \/ UNCHANGED vars
  BY <1>1, <1>6 DEF Typed, ReclaimLock, PassDay, vars, world, attention
<1>7. CASE SwitchGate
  <2>1. ready' \in BOOLEAN /\ mishaps' \in 0 .. MaxMishaps
    BY <1>7, TickAssumption DEF SwitchGate, Typed
  <2>2. QED BY <1>1, <1>7, <2>1 DEF Typed, SwitchGate, attention
<1>8. QED BY <1>4, <1>5, <1>6, <1>7 DEF Next

\* The receipts, the attention ledger and the ticks keep their types; no tick works on more
\* proposals than it has, and only items of a tick's own proposals are surfaced.
THEOREM TickTypeCorrect == Spec => []TypeOK
<1>1. Init => Typed
  <2>1. Init => ReceiptTypes
    BY TickAssumption
    DEF Init, ReceiptTypes, Receipt, NoReceipt, NoJob, Day, TickStates, AttentionStates
  <2>2. QED
    BY <2>1, NoRunTyped, EmptySeq, TickAssumption DEF Init, Typed, AttentionStates
<1>2. Typed => TypeOK
  BY DEF Typed, TypeOK, ReceiptTypes, Book, Run
<1>3. QED
  BY <1>1, <1>2, TypedStep, PTL DEF Spec
=============================================================================
