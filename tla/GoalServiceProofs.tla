-------------------------- MODULE GoalServiceProofs --------------------------
(***************************************************************************)
(* For every set of criteria, references, budgets and gates, and without   *)
(* any bound on versions or time: a completed goal is earned, turns are    *)
(* bounded, late progress is refused and the epoch is a fence.  For every  *)
(* set of callers, operation ids, goals and requests: receipts are true    *)
(* and final, and the operations are those of an idempotent store.         *)
(***************************************************************************)
EXTENDS GoalService, SequenceTheorems, TLAPS

(***************************************************************************)
(* One goal                                                                *)
(***************************************************************************)

\* A changed goal of the right type is saved as one.
LEMMA SavedTyped ==
  ASSUME TypeOK, NEW g \in Goals, Saved(g)
  PROVE  TypeOK'
<1>1. goal.version + 1 \in Nat
  BY DEF TypeOK, Goals
<1>2. [g EXCEPT !.version = goal.version + 1] \in Goals
  BY <1>1, Zenon DEF Goals
<1>3. QED
  BY <1>2 DEF TypeOK, Saved

LEMMA RecordedTyped ==
  ASSUME NEW recorded \in Evidence, NEW supply \in Supplies
  PROVE  Recorded(recorded, supply) \in Evidence
  BY GoalAssumption DEF Recorded, Evidence, Class

LEMMA MaterializedTyped ==
  ASSUME NEW g \in Goals, NEW results \in Results
  PROVE  Materialized(g, results) \in [Crit -> Criterion]
  BY DEF Materialized, Results, Goals, Criterion, Given, Open, Waived, Absent, PassedOn

\* What a user can hand in is a criterion.
LEMMA GivenTyped == Given \cup {Absent} \subseteq Criterion
  BY DEF Given, Open, Waived, Absent, PassedOn, Criterion

\* The fields of a goal.
LEMMA FieldsTyped ==
  ASSUME NEW g \in Goals
  PROVE  /\ g.status \in Status /\ g.version \in Nat /\ g.epoch \in Nat
         /\ g.criteria \in [Crit -> Criterion] /\ g.evidence \in Evidence
         /\ g.attempts \in Nat /\ g.tokens \in Nat /\ g.cost \in Nat /\ g.stalled \in Nat
         /\ g.version + 1 \in Nat /\ g.epoch + 1 \in Nat /\ g.attempts + 1 \in Nat
         /\ g.stalled + 1 \in Nat
  BY DEF Goals

LEMMA InitTyped == Init => TypeOK
<1> SUFFICES ASSUME Init PROVE TypeOK
  OBVIOUS
<1>1. PICK status \in {"ACTIVE", "PAUSED"}, gates \in GateSets, budget \in Budgets,
           criteria \in [Crit -> Given \cup {Absent}] :
        goal = [status |-> status, version |-> 1, epoch |-> 1,
                criteria |-> criteria, gates |-> gates,
                evidence |-> NoEvidence, budget |-> budget,
                attempts |-> 0, tokens |-> 0, cost |-> 0, stalled |-> 0, token |-> None]
  BY DEF Init
<1>2. criteria \in [Crit -> Criterion]
  BY GivenTyped
<1>3. NoEvidence \in Evidence
  BY DEF NoEvidence, Evidence, Class
<1>4. status \in Status /\ gates \in SUBSET SUBSET Ref /\ budget \in Budget
  BY GoalAssumption DEF Status
<1>5. goal \in Goals
  BY <1>1, <1>2, <1>3, <1>4 DEF Goals
<1>6. QED
  BY <1>5 DEF Init, TypeOK, NoContract

LEMMA ProgressedTyped ==
  ASSUME TypeOK, NEW token \in Token, NEW tokens \in 0 .. 1, NEW cost \in 0 .. 1,
         NEW supply \in Supplies
  PROVE  Progressed(token, tokens, cost, supply) \in Goals
<1>1. goal \in Goals
  BY DEF TypeOK
<1>2. /\ goal.attempts + 1 \in Nat /\ goal.tokens + tokens \in Nat /\ goal.cost + cost \in Nat
      /\ (IF goal.token = token THEN goal.stalled + 1 ELSE 0) \in Nat
  BY <1>1, FieldsTyped
<1>3. Recorded(goal.evidence, supply) \in Evidence
  BY <1>1, FieldsTyped, RecordedTyped
<1>4. QED
  BY <1>1, <1>2, <1>3, Zenon DEF Progressed, Goals

\* The variables keep their types.
THEOREM GoalTypeCorrect == Spec => []TypeOK
<1>1. TypeOK /\ [Next]_vars => TypeOK'
  <2> SUFFICES ASSUME TypeOK, [Next]_vars
               PROVE  TypeOK'
    OBVIOUS
  <2>1. ASSUME NEW target \in Status, NEW supply \in Supplies, Transition(target, supply)
        PROVE  TypeOK'
    <3> DEFINE g == [goal EXCEPT !.status = target,
                                 !.evidence = Recorded(goal.evidence, supply),
                                 !.epoch = IF target = "ACTIVE" THEN @ + 1 ELSE @]
    <3>1. Recorded(goal.evidence, supply) \in Evidence
      BY RecordedTyped DEF TypeOK, Goals
    <3>2. g \in Goals
      <4>1. goal \in Goals /\ (IF target = "ACTIVE" THEN goal.epoch + 1 ELSE goal.epoch) \in Nat
        BY FieldsTyped DEF TypeOK
      <4>2. QED BY <3>1, <4>1, Zenon DEF Goals
    <3>3. QED BY <2>1, <3>2, SavedTyped DEF Transition
  <2>2. ASSUME NEW supply \in Supplies, NEW results \in Results, Complete(supply, results)
        PROVE  TypeOK'
    <3> DEFINE g == [goal EXCEPT !.status = "COMPLETE",
                                 !.criteria = Materialized(goal, results),
                                 !.evidence = Recorded(goal.evidence, supply)]
    <3>1. Recorded(goal.evidence, supply) \in Evidence
      BY RecordedTyped DEF TypeOK, Goals
    <3>2. Materialized(goal, results) \in [Crit -> Criterion]
      BY MaterializedTyped DEF TypeOK
    <3>3. g \in Goals
      BY <3>1, <3>2 DEF TypeOK, Goals, Status
    <3>4. QED BY <2>2, <3>3, SavedTyped DEF Complete
  <2>3. ASSUME NEW gates \in GateSets, NEW budget \in Budgets, Edit(gates, budget)
        PROVE  TypeOK'
    <3> DEFINE g == [goal EXCEPT !.gates = gates, !.budget = budget,
                                 !.epoch = IF gates # goal.gates \/ budget # goal.budget
                                             THEN @ + 1 ELSE @]
    <3>1. gates \in SUBSET SUBSET Ref /\ budget \in Budget
      BY GoalAssumption
    <3>2. g \in Goals
      <4> DEFINE epoch == IF gates # goal.gates \/ budget # goal.budget
                            THEN goal.epoch + 1 ELSE goal.epoch
      <4>1. goal \in Goals /\ epoch \in Nat
        BY FieldsTyped DEF TypeOK
      <4>2. QED BY <3>1, <4>1, Zenon DEF Goals
    <3>3. QED BY <2>3, <3>2, SavedTyped DEF Edit
  <2>4. ASSUME NEW criteria \in [Crit -> Criterion], ChangeCriteria(criteria)
        PROVE  TypeOK'
    <3> DEFINE g == [goal EXCEPT !.criteria = criteria, !.epoch = @ + 1]
    <3>1. g \in Goals
      <4>1. goal \in Goals /\ goal.epoch + 1 \in Nat
        BY FieldsTyped DEF TypeOK
      <4>2. QED BY <4>1, Zenon DEF Goals
    <3>2. QED BY <2>4, <3>1, SavedTyped DEF ChangeCriteria
  <2>5. goal.criteria \in [Crit -> Criterion]
    BY DEF TypeOK, Goals
  <2>6. ASSUME NEW k \in Crit, NEW criterion \in Given, CriteriaAdd(k, criterion)
        PROVE  TypeOK'
    BY <2>4, <2>5, <2>6, GivenTyped DEF CriteriaAdd
  <2>7. ASSUME NEW k \in Crit, CriteriaRemove(k)
        PROVE  TypeOK'
    BY <2>4, <2>5, <2>7, GivenTyped DEF CriteriaRemove
  <2>8. CASE CriteriaClear
    BY <2>4, <2>8, GivenTyped DEF CriteriaClear
  <2>9. CASE FetchContract
    BY <2>9 DEF FetchContract, TypeOK, Goals
  <2>10. ASSUME NEW token \in Token, NEW tokens \in 0 .. 1, NEW cost \in 0 .. 1,
                NEW supply \in Supplies, RecordProgress(token, tokens, cost, supply)
         PROVE  TypeOK'
    <3> DEFINE g == Progressed(token, tokens, cost, supply)
    <3>1. g \in Goals
      BY ProgressedTyped
    <3>2. StatusAfter(g) \in Status
      BY <3>1 DEF StatusAfter, Status, Goals
    <3> HIDE DEF g
    <3>3. [g EXCEPT !.status = StatusAfter(g), !.version = @ + 1] \in Goals
      <4>1. g.version + 1 \in Nat
        BY <3>1, FieldsTyped
      <4>2. QED BY <3>1, <3>2, <4>1, Zenon DEF Goals
    <3>4. QED BY <2>10, <3>3 DEF RecordProgress, TypeOK, NoContract, g
  <2>11. CASE Tick
    BY <2>11 DEF Tick, TypeOK
  <2>12. ASSUME NEW target \in Status, ControllerTransition(target)
         PROVE  TypeOK'
    <3>1. goal \in Goals /\ goal.version + 1 \in Nat
      BY FieldsTyped DEF TypeOK
    <3>2. [goal EXCEPT !.status = target, !.version = @ + 1] \in Goals
      BY <3>1, Zenon DEF Goals
    <3>3. QED BY <2>12, <3>2 DEF ControllerTransition, TypeOK
  <2>13. CASE UNCHANGED vars
    BY <2>13 DEF vars, TypeOK
  <2>14. QED
    BY <2>1, <2>2, <2>3, <2>6, <2>7, <2>8, <2>9, <2>10, <2>11, <2>12, <2>13 DEF Next
<1>2. QED
  BY InitTyped, <1>1, PTL DEF Spec

(***************************************************************************)
(* What each kind of step does to the fields the properties speak of       *)
(***************************************************************************)

\* A save keeps what it was given and advances the version.
LEMMA SavedFields ==
  ASSUME NEW g \in Goals, Saved(g)
  PROVE  /\ goal'.status = g.status /\ goal'.epoch = g.epoch /\ goal'.attempts = g.attempts
         /\ goal'.criteria = g.criteria /\ goal'.gates = g.gates /\ goal'.budget = g.budget
         /\ goal'.evidence = g.evidence
         /\ goal'.version = goal.version + 1
         /\ contract' = contract /\ bypassed' = bypassed
  BY DEF Saved, Goals

SavedOnce ==
  goal'.version = goal.version + 1 /\ contract' = contract /\ bypassed' = bypassed

TransitionStep ==
  /\ goal'.status \in Allowed(goal.status) \ {"COMPLETE"}
  /\ goal'.epoch = IF goal'.status = "ACTIVE" THEN goal.epoch + 1 ELSE goal.epoch
  /\ goal'.attempts = goal.attempts /\ goal'.criteria = goal.criteria
  /\ goal'.gates = goal.gates /\ goal'.budget = goal.budget
  /\ SavedOnce

CompleteStep ==
  /\ goal.status = "ACTIVE" /\ goal'.status = "COMPLETE"
  /\ Unmet(goal'.criteria, goal'.evidence) = {} /\ FailedGates(goal', goal'.evidence) = {}
  /\ goal'.epoch = goal.epoch /\ goal'.attempts = goal.attempts
  /\ goal'.gates = goal.gates /\ goal'.budget = goal.budget
  /\ SavedOnce

\* edit and the criteria changes
DefinitionStep ==
  /\ goal.status \notin Terminal /\ goal'.status = goal.status
  /\ goal'.attempts = goal.attempts /\ goal'.budget \in Budgets
  /\ \/ goal'.epoch = goal.epoch + 1
     \/ /\ goal'.epoch = goal.epoch /\ goal'.criteria = goal.criteria
        /\ goal'.gates = goal.gates /\ goal'.budget = goal.budget
  /\ SavedOnce

ProgressStep ==
  /\ goal.status = "ACTIVE" /\ contract # NoContract /\ contract.version = goal.version
  /\ goal'.attempts = goal.attempts + 1
  /\ goal'.status \in {"ACTIVE", "BLOCKED", "BUDGET_LIMITED", "USAGE_LIMITED"}
  /\ goal'.status = "ACTIVE" => ~Reached(goal.budget.turns, goal.attempts + 1)
  /\ goal'.epoch = goal.epoch /\ goal'.criteria = goal.criteria
  /\ goal'.gates = goal.gates /\ goal'.budget = goal.budget
  /\ goal'.version = goal.version + 1 /\ contract' = NoContract /\ bypassed' = bypassed

BypassStep ==
  /\ bypassed' = TRUE /\ contract' = contract /\ goal'.version = goal.version + 1
  /\ goal'.attempts = goal.attempts /\ goal'.epoch = goal.epoch /\ goal'.budget = goal.budget

QuietStep ==
  /\ goal' = goal /\ bypassed' = bypassed
  /\ contract' \in {contract, [version |-> goal.version, epoch |-> goal.epoch]}

\* Completing saves the criteria and evidence it was judged on: a reference is bound in
\* the evaluation exactly when it is recorded by the save.
LEMMA CompletionSaved ==
  ASSUME TypeOK, NEW supply \in Supplies, NEW results \in Results, Complete(supply, results)
  PROVE  CompleteStep
<1> DEFINE evidence == Recorded(goal.evidence, supply)
           criteria == Materialized(goal, results)
           g == [goal EXCEPT !.status = "COMPLETE", !.criteria = criteria,
                             !.evidence = evidence]
<1>1. goal \in Goals
  BY DEF TypeOK
<1>2. evidence \in Evidence /\ criteria \in [Crit -> Criterion]
  BY <1>1, FieldsTyped, RecordedTyped, MaterializedTyped
<1>3. g \in Goals
  BY <1>1, <1>2, Zenon DEF Goals, Status
<1>4. Saved(g)
  BY DEF Complete
<1>5. /\ g.status = "COMPLETE" /\ g.criteria = criteria /\ g.evidence = evidence
      /\ g.epoch = goal.epoch /\ g.attempts = goal.attempts
      /\ g.gates = goal.gates /\ g.budget = goal.budget
  BY <1>1 DEF Goals
<1> HIDE DEF g
<1>6. /\ goal'.status = "COMPLETE" /\ goal'.criteria = criteria /\ goal'.evidence = evidence
      /\ goal'.epoch = goal.epoch /\ goal'.attempts = goal.attempts
      /\ goal'.gates = goal.gates /\ goal'.budget = goal.budget
      /\ SavedOnce
  BY <1>3, <1>4, <1>5, SavedFields DEF SavedOnce
<1>7. \A refs \in SUBSET Ref : Has(Bound(goal.evidence, supply), refs) <=> Has(evidence, refs)
  BY <1>1, FieldsTyped, GoalAssumption DEF Has, Bound, Recorded, Evidence, Class
<1>8. /\ goal.status = "ACTIVE"
      /\ Unmet(criteria, Bound(goal.evidence, supply)) = {}
      /\ FailedGates(goal, Bound(goal.evidence, supply)) = {}
  BY DEF Complete, Satisfied
<1>9. \A k \in Crit : criteria[k].refs \in SUBSET Ref
  BY <1>2 DEF Criterion
<1>10. goal.gates \in SUBSET SUBSET Ref
  BY <1>1 DEF Goals
<1> HIDE DEF evidence, criteria
<1>11. Unmet(criteria, evidence) = {}
  BY <1>7, <1>8, <1>9 DEF Unmet
<1>12. FailedGates(goal', evidence) = {}
  BY <1>6, <1>7, <1>8, <1>10 DEF FailedGates
<1>13. QED
  BY <1>6, <1>8, <1>11, <1>12 DEF CompleteStep

LEMMA TransitionSaved ==
  ASSUME TypeOK, NEW target \in Status, NEW supply \in Supplies, Transition(target, supply)
  PROVE  TransitionStep
<1> DEFINE epoch == IF target = "ACTIVE" THEN goal.epoch + 1 ELSE goal.epoch
           g == [goal EXCEPT !.status = target, !.evidence = Recorded(goal.evidence, supply),
                             !.epoch = IF target = "ACTIVE" THEN @ + 1 ELSE @]
<1>1. goal \in Goals /\ epoch \in Nat
  BY FieldsTyped DEF TypeOK
<1>2. Recorded(goal.evidence, supply) \in Evidence
  BY <1>1, FieldsTyped, RecordedTyped
<1>3. g \in Goals
  BY <1>1, <1>2, Zenon DEF Goals
<1>4. Saved(g) /\ target \in Allowed(goal.status) \ {"COMPLETE"}
  BY DEF Transition
<1>5. /\ g.status = target /\ g.epoch = epoch
      /\ g.criteria = goal.criteria /\ g.attempts = goal.attempts
      /\ g.gates = goal.gates /\ g.budget = goal.budget
  BY <1>1 DEF Goals
<1> HIDE DEF g
<1>6. QED
  BY <1>3, <1>4, <1>5, SavedFields DEF SavedOnce, TransitionStep

LEMMA EditSaved ==
  ASSUME TypeOK, NEW gates \in GateSets, NEW budget \in Budgets, Edit(gates, budget)
  PROVE  DefinitionStep
<1> DEFINE changed == gates # goal.gates \/ budget # goal.budget
           epoch == IF changed THEN goal.epoch + 1 ELSE goal.epoch
           g == [goal EXCEPT !.gates = gates, !.budget = budget,
                             !.epoch = IF gates # goal.gates \/ budget # goal.budget
                                         THEN @ + 1 ELSE @]
<1>1. goal \in Goals /\ epoch \in Nat
  BY FieldsTyped DEF TypeOK
<1>2. gates \in SUBSET SUBSET Ref /\ budget \in Budget
  BY GoalAssumption
<1>3. g \in Goals
  BY <1>1, <1>2, Zenon DEF Goals
<1>4. Saved(g) /\ goal.status \notin Terminal
  BY DEF Edit
<1>5. /\ g.gates = gates /\ g.budget = budget /\ g.epoch = epoch
      /\ g.status = goal.status /\ g.attempts = goal.attempts /\ g.criteria = goal.criteria
  BY <1>1 DEF Goals
<1> HIDE DEF g
<1>6. QED
  BY <1>3, <1>4, <1>5, SavedFields DEF SavedOnce, DefinitionStep

LEMMA CriteriaSaved ==
  ASSUME TypeOK, goal.budget \in Budgets,
         NEW criteria \in [Crit -> Criterion], ChangeCriteria(criteria)
  PROVE  DefinitionStep
<1> DEFINE g == [goal EXCEPT !.criteria = criteria, !.epoch = @ + 1]
<1>1. goal \in Goals /\ goal.epoch + 1 \in Nat
  BY FieldsTyped DEF TypeOK
<1>2. g \in Goals
  BY <1>1, Zenon DEF Goals
<1>3. Saved(g) /\ goal.status \notin Terminal
  BY DEF ChangeCriteria
<1>4. /\ g.epoch = goal.epoch + 1 /\ g.status = goal.status
      /\ g.attempts = goal.attempts /\ g.budget = goal.budget
  BY <1>1 DEF Goals
<1> HIDE DEF g
<1>5. QED
  BY <1>2, <1>3, <1>4, SavedFields DEF SavedOnce, DefinitionStep

\* The turn limit is looked at unless the deadline has already stopped the goal.
LEMMA ProgressSaved ==
  ASSUME TypeOK, NEW token \in Token, NEW tokens \in 0 .. 1, NEW cost \in 0 .. 1,
         NEW supply \in Supplies, RecordProgress(token, tokens, cost, supply)
  PROVE  ProgressStep
<1> DEFINE g == Progressed(token, tokens, cost, supply)
<1>1. goal \in Goals /\ g \in Goals
  BY ProgressedTyped DEF TypeOK
<1>2. /\ g.status = goal.status /\ g.attempts = goal.attempts + 1 /\ g.epoch = goal.epoch
      /\ g.criteria = goal.criteria /\ g.gates = goal.gates /\ g.budget = goal.budget
      /\ g.version = goal.version
  BY <1>1 DEF Progressed, Goals
<1>3. /\ goal.status = "ACTIVE" /\ contract # NoContract /\ contract.version = goal.version
      /\ goal' = [g EXCEPT !.status = StatusAfter(g), !.version = @ + 1]
      /\ contract' = NoContract /\ bypassed' = bypassed
  BY DEF RecordProgress, CurrentVersion
<1> HIDE DEF g
<1>4. /\ StatusAfter(g) \in {"ACTIVE", "BLOCKED", "BUDGET_LIMITED", "USAGE_LIMITED"}
      /\ StatusAfter(g) = "ACTIVE" => ~Reached(g.budget.turns, g.attempts)
  BY <1>2, <1>3 DEF StatusAfter
<1>5. /\ goal'.status = StatusAfter(g) /\ goal'.version = g.version + 1
      /\ goal'.attempts = g.attempts /\ goal'.epoch = g.epoch /\ goal'.criteria = g.criteria
      /\ goal'.gates = g.gates /\ goal'.budget = g.budget
  BY <1>1, <1>3 DEF Goals
<1>6. QED
  BY <1>2, <1>3, <1>4, <1>5 DEF ProgressStep

LEMMA BypassSaved ==
  ASSUME TypeOK, NEW target \in Status, ControllerTransition(target)
  PROVE  BypassStep
  BY DEF ControllerTransition, BypassStep, TypeOK, Goals

\* Every step is one of the six kinds.
LEMMA StepKinds ==
  ASSUME TypeOK, goal.budget \in Budgets, [Next]_vars
  PROVE  \/ TransitionStep \/ CompleteStep \/ DefinitionStep
         \/ ProgressStep \/ BypassStep \/ QuietStep
<1>1. goal.criteria \in [Crit -> Criterion]
  BY FieldsTyped DEF TypeOK
<1>2. ASSUME NEW k \in Crit, NEW criterion \in Given, CriteriaAdd(k, criterion)
      PROVE  DefinitionStep
  BY <1>1, <1>2, GivenTyped, CriteriaSaved DEF CriteriaAdd
<1>3. ASSUME NEW k \in Crit, CriteriaRemove(k)
      PROVE  DefinitionStep
  BY <1>1, <1>3, GivenTyped, CriteriaSaved DEF CriteriaRemove
<1>4. CASE CriteriaClear
  BY <1>4, GivenTyped, CriteriaSaved DEF CriteriaClear
<1>5. CASE FetchContract
  BY <1>5 DEF FetchContract, QuietStep
<1>6. CASE Tick
  BY <1>6 DEF Tick, QuietStep
<1>7. CASE UNCHANGED vars
  BY <1>7 DEF vars, QuietStep
<1>8. QED
  BY <1>2, <1>3, <1>4, <1>5, <1>6, <1>7, TransitionSaved, CompletionSaved, EditSaved,
     ProgressSaved, BypassSaved DEF Next

(***************************************************************************)
(* The inductive invariant.  A contract of the current version is of the   *)
(* current epoch; an active goal has a turn in hand.                       *)
(***************************************************************************)

TurnsLimited == \A budget \in Budgets : budget.turns \in 0 .. MostTurns

ContractIsCurrent ==
  /\ contract.version <= goal.version
  /\ contract # NoContract /\ contract.version = goal.version => contract.epoch = goal.epoch

TurnInHand ==
  TurnsLimited /\ ~bypassed =>
    /\ goal.attempts + 1 <= MostTurns + goal.epoch
    /\ goal.status = "ACTIVE" => goal.attempts + 2 <= MostTurns + goal.epoch

GoalInv ==
  /\ TypeOK
  /\ goal.budget \in Budgets /\ goal.epoch >= 1
  /\ ContractIsCurrent
  /\ TurnInHand
  /\ CompletionIsEarned

LEMMA GoalInvInit == Init => GoalInv
<1> SUFFICES ASSUME Init PROVE GoalInv
  OBVIOUS
<1>1. TypeOK
  BY InitTyped
<1>2. /\ goal.status # "COMPLETE" /\ goal.budget \in Budgets
      /\ goal.version = 1 /\ goal.epoch = 1 /\ goal.attempts = 0
      /\ contract.version = 0
  BY DEF Init, NoContract
<1>3. TurnInHand
  <2>1. goal.budget.turns # 0
    BY <1>2, GoalAssumption
  <2>2. TurnsLimited => goal.budget.turns \in 0 .. MostTurns
    BY <1>2 DEF TurnsLimited
  <2>3. QED BY <1>2, <2>1, <2>2, GoalAssumption DEF TurnInHand
<1>4. QED
  BY <1>1, <1>2, <1>3 DEF GoalInv, ContractIsCurrent, CompletionIsEarned

\* A contract taken at an older version is never of a later one.
LEMMA ContractStep ==
  ASSUME GoalInv, TypeOK', [Next]_vars
  PROVE  ContractIsCurrent'
<1>1. /\ goal.version \in Nat /\ goal.epoch \in Nat
      /\ contract \in [version : Nat, epoch : Nat]
  BY FieldsTyped DEF GoalInv, TypeOK
<1>2. \/ goal' = goal /\ contract' \in {contract, [version |-> goal.version, epoch |-> goal.epoch]}
      \/ goal'.version = goal.version + 1 /\ contract' \in {contract, NoContract}
  BY StepKinds DEF GoalInv, TransitionStep, CompleteStep, DefinitionStep, ProgressStep,
                   BypassStep, QuietStep, SavedOnce
<1>3. QED
  BY <1>1, <1>2 DEF GoalInv, ContractIsCurrent, NoContract

\* A goal left active by a turn has not reached its turn limit, and one that becomes
\* active again has a new epoch to pay for its next turn.
LEMMA TurnStep ==
  ASSUME GoalInv, TypeOK', [Next]_vars
  PROVE  TurnInHand'
<1> SUFFICES ASSUME TurnsLimited, ~bypassed'
             PROVE  /\ goal'.attempts + 1 <= MostTurns + goal'.epoch
                    /\ goal'.status = "ACTIVE" => goal'.attempts + 2 <= MostTurns + goal'.epoch
  BY DEF TurnInHand, TurnsLimited
<1>1. goal.attempts \in Nat /\ goal.epoch \in Nat /\ goal.epoch >= 1 /\ MostTurns \in Nat
  BY FieldsTyped, GoalAssumption DEF GoalInv, TypeOK
<1>2. ~bypassed =>
        /\ goal.attempts + 1 <= MostTurns + goal.epoch
        /\ goal.status = "ACTIVE" => goal.attempts + 2 <= MostTurns + goal.epoch
  BY DEF GoalInv, TurnInHand
<1>3. goal.budget.turns \in 0 .. MostTurns
  BY DEF GoalInv, TurnsLimited
<1>4. CASE TransitionStep
  <2>1. goal'.status = "ACTIVE" => goal.status # "ACTIVE"
    BY <1>4 DEF TransitionStep, Allowed
  <2>2. QED BY <1>1, <1>2, <1>4, <2>1 DEF TransitionStep, SavedOnce
<1>5. CASE CompleteStep
  BY <1>1, <1>2, <1>5 DEF CompleteStep, SavedOnce
<1>6. CASE DefinitionStep
  BY <1>1, <1>2, <1>6 DEF DefinitionStep, SavedOnce
<1>7. CASE ProgressStep
  <2>1. goal'.status = "ACTIVE" => goal.attempts + 1 < goal.budget.turns
    BY <1>1, <1>3, <1>7, GoalAssumption DEF ProgressStep, Reached
  <2>2. QED BY <1>1, <1>2, <1>3, <1>7, <2>1 DEF ProgressStep
<1>8. CASE BypassStep
  BY <1>8 DEF BypassStep
<1>9. CASE QuietStep
  BY <1>1, <1>2, <1>9 DEF QuietStep
<1>10. QED
  BY <1>4, <1>5, <1>6, <1>7, <1>8, <1>9, StepKinds DEF GoalInv

LEMMA GoalInvStep == GoalInv /\ TypeOK' /\ [Next]_vars => GoalInv'
<1> SUFFICES ASSUME GoalInv, TypeOK', [Next]_vars
             PROVE  GoalInv'
  OBVIOUS
<1>1. goal'.budget \in Budgets
  BY StepKinds DEF GoalInv, TransitionStep, CompleteStep, DefinitionStep, ProgressStep,
                   BypassStep, QuietStep
<1>2. goal'.epoch >= 1
  <2>1. goal.epoch \in Nat /\ goal.epoch >= 1
    BY FieldsTyped DEF GoalInv, TypeOK
  <2>2. goal'.epoch \in {goal.epoch, goal.epoch + 1}
    BY StepKinds DEF GoalInv, TransitionStep, CompleteStep, DefinitionStep, ProgressStep,
                     BypassStep, QuietStep
  <2>3. QED BY <2>1, <2>2
<1>3. CompletionIsEarned'
  <2> SUFFICES ASSUME goal'.status = "COMPLETE", ~bypassed'
               PROVE  /\ Unmet(goal'.criteria, goal'.evidence) = {}
                      /\ FailedGates(goal', goal'.evidence) = {}
    BY DEF CompletionIsEarned
  <2>1. CASE CompleteStep
    BY <2>1 DEF CompleteStep
  <2>2. CASE QuietStep
    BY <2>2 DEF QuietStep, GoalInv, CompletionIsEarned
  <2>3. ~TransitionStep /\ ~DefinitionStep /\ ~ProgressStep /\ ~BypassStep
    BY DEF TransitionStep, DefinitionStep, ProgressStep, BypassStep, Terminal
  <2>4. QED
    BY <2>1, <2>2, <2>3, StepKinds DEF GoalInv
<1>4. QED
  BY <1>1, <1>2, <1>3, ContractStep, TurnStep DEF GoalInv

LEMMA GoalInvariant == Spec => []GoalInv
  BY GoalInvInit, GoalInvStep, GoalTypeCorrect, PTL DEF Spec

\* A goal completed by the owner service stands on evidence it holds.
THEOREM CompletionEarned == Spec => []CompletionIsEarned
<1>1. GoalInv => CompletionIsEarned
  BY DEF GoalInv
<1>2. QED
  BY <1>1, GoalInvariant, PTL

\* No goal takes more turns than its largest budget and its reactivations pay for.
THEOREM TurnsBounded == Spec => []TurnsAreBounded
<1>1. GoalInv => TurnsAreBounded
  BY DEF GoalInv, TurnInHand, TurnsLimited, TurnsAreBounded
<1>2. QED
  BY <1>1, GoalInvariant, PTL

\* Progress counts only for a turn of the epoch the goal is in.
THEOREM LateTurnsRefused == Spec => ProgressIsCurrent
<1>1. GoalInv /\ [Next]_vars =>
        [goal'.attempts > goal.attempts =>
           contract.epoch = goal.epoch /\ goal.status = "ACTIVE"]_vars
  <2> SUFFICES ASSUME GoalInv, [Next]_vars, goal'.attempts > goal.attempts
               PROVE  contract.epoch = goal.epoch /\ goal.status = "ACTIVE"
    OBVIOUS
  <2>1. goal.attempts \in Nat
    BY FieldsTyped DEF GoalInv, TypeOK
  <2>2. goal'.attempts # goal.attempts
    BY <2>1
  <2>3. ~TransitionStep /\ ~CompleteStep /\ ~DefinitionStep /\ ~BypassStep /\ ~QuietStep
    BY <2>2 DEF TransitionStep, CompleteStep, DefinitionStep, BypassStep, QuietStep
  <2>4. ProgressStep
    BY <2>3, StepKinds DEF GoalInv
  <2>5. QED BY <2>4 DEF ProgressStep, GoalInv, ContractIsCurrent
<1>2. QED
  BY <1>1, GoalInvariant, PTL DEF Spec, ProgressIsCurrent

\* The epoch never goes back and moves with every reactivation or new definition of done.
THEOREM EpochIsFence == Spec => EpochFences
<1>1. GoalInv /\ [Next]_vars =>
        [/\ goal'.epoch >= goal.epoch
         /\ ~bypassed' /\ \/ goal.status # "ACTIVE" /\ goal'.status = "ACTIVE"
                          \/ goal'.gates # goal.gates
                          \/ goal'.budget # goal.budget
                          \/ goal'.status # "COMPLETE" /\ goal'.criteria # goal.criteria
            => goal'.epoch > goal.epoch]_vars
  <2> SUFFICES ASSUME GoalInv, [Next]_vars
               PROVE  /\ goal'.epoch >= goal.epoch
                      /\ ~bypassed' /\ \/ goal.status # "ACTIVE" /\ goal'.status = "ACTIVE"
                                       \/ goal'.gates # goal.gates
                                       \/ goal'.budget # goal.budget
                                       \/ goal'.status # "COMPLETE" /\ goal'.criteria # goal.criteria
                         => goal'.epoch > goal.epoch
    OBVIOUS
  <2>1. goal.epoch \in Nat
    BY FieldsTyped DEF GoalInv, TypeOK
  <2>2. CASE TransitionStep BY <2>1, <2>2 DEF TransitionStep
  <2>3. CASE CompleteStep BY <2>1, <2>3 DEF CompleteStep
  <2>4. CASE DefinitionStep BY <2>1, <2>4 DEF DefinitionStep
  <2>5. CASE ProgressStep BY <2>1, <2>5 DEF ProgressStep
  <2>6. CASE BypassStep BY <2>1, <2>6 DEF BypassStep
  <2>7. CASE QuietStep BY <2>1, <2>7 DEF QuietStep
  <2>8. QED
    BY <2>2, <2>3, <2>4, <2>5, <2>6, <2>7, StepKinds DEF GoalInv
<1>2. QED
  BY <1>1, GoalInvariant, PTL DEF Spec, EpochFences

(***************************************************************************)
(* The operations: a receipt never claims what did not take effect,        *)
(* whoever died and whichever lock was lost; an operation id with a        *)
(* receipt does not take effect again while no live caller lost a lock;    *)
(* and the service implements the idempotent store of module               *)
(* IdempotentGoals.                                                        *)
(***************************************************************************)

\* Receipts, answers and callers past the save speak of what took effect.
Truthful ==
  /\ Operations!ReceiptMeansApplied
  /\ \A r \in reported : Operations!Promise!TookEffect(r)
  /\ \A c \in Caller : pc[c] \in {"record", "release"} => Operations!Promise!TookEffect(req[c])

\* A caller has the locks it believes it has, and no receipt has come up since its
\* second look.
Owns(c) ==
  /\ \A k \in Operations!HeldKeys(c) : locks[k] = c
  /\ pc[c] \in {"load", "save"} => receipts[req[c].op] = None

\* What took effect has its receipt, or its caller is about to write it.
UsedIsRecorded ==
  \A o \in Op : Operations!Promise!OperationUsed(o) =>
    receipts[o] # None \/ \E c \in Caller : pc[c] = "record" /\ req[c].op = o

OperationsInv ==
  /\ Operations!TypeOK
  /\ Truthful
  /\ overruns = 0 => \A c \in Caller : Owns(c)
  /\ crashes = 0 => UsedIsRecorded

-----------------------------------------------------------------------------
\* The steps of a caller have one of five forms.
Kept == UNCHANGED <<history, receipts, asked, crashes, overruns>>

Advances(c) ==
  /\ \/ pc[c] = "begin" /\ Operations!Goto(c, "opLock")
     \/ pc[c] = "recheck" /\ receipts[req[c].op] = None /\ Operations!Goto(c, "load")
     \/ pc[c] = "load" /\ Operations!Goto(c, "save")
     \/ /\ pc[c] = "load" /\ Operations!Version(req[c].goal) # 0 /\ history[req[c].goal][1] = req[c]
        /\ Operations!Goto(c, "record")
  /\ Kept /\ UNCHANGED <<locks, req, reported>>

Locks(c) ==
  /\ \/ /\ pc[c] = "opLock" /\ Operations!Take(c, req[c].op)
        /\ Operations!Goto(c, IF Operations!IsCreate(req[c]) \/ req[c].goal = req[c].op THEN "recheck" ELSE "goalLock")
     \/ pc[c] = "goalLock" /\ Operations!Take(c, req[c].goal) /\ Operations!Goto(c, "recheck")
  /\ Kept /\ UNCHANGED <<req, reported>>

Returns(c) ==
  /\ pc[c] \notin {"idle", "record"}
  /\ \/ Operations!Return(c, FALSE)
     \/ /\ Operations!Return(c, TRUE)
        /\ pc[c] = "release" \/ (receipts[req[c].op] # None /\ receipts[req[c].op] = req[c])
  /\ Kept

Applies(c) ==
  /\ pc[c] = "save" /\ Operations!Goto(c, "record")
  /\ Operations!Version(req[c].goal) = req[c].expected
  /\ history' = [history EXCEPT ![req[c].goal] = Append(@, req[c])]
  /\ UNCHANGED <<receipts, locks, req, reported, asked, crashes, overruns>>

LEMMA Forms ==
  ASSUME NEW c \in Caller, Operations!Step(c)
  PROVE  Advances(c) \/ Locks(c) \/ Returns(c) \/ Applies(c) \/ Operations!Record(c)
<1>1. ASSUME NEW next, Operations!Begin(c, next), Kept, pc[c] \notin {"idle", "record"},
             Operations!Goto(c, next) /\ receipts[req[c].op] = None /\ UNCHANGED <<locks, req, reported>> => Advances(c)
      PROVE  Advances(c) \/ Returns(c)
  <2>1. CASE Operations!Return(c, receipts[req[c].op] = req[c]) /\ receipts[req[c].op] # None
    <3>1. CASE receipts[req[c].op] = req[c]
      BY <1>1, <2>1, <3>1 DEF Returns, Operations!Return
    <3>2. CASE receipts[req[c].op] # req[c]
      BY <1>1, <2>1, <3>2 DEF Returns, Operations!Return
    <3>3. QED BY <3>1, <3>2
  <2>2. QED BY <1>1, <2>1 DEF Operations!Begin
<1>2. Operations!FirstBegin(c) => Advances(c) \/ Returns(c)
  BY <1>1 DEF Operations!FirstBegin, Kept, Advances
<1>3. Operations!SecondBegin(c) => Advances(c) \/ Returns(c)
  BY <1>1 DEF Operations!SecondBegin, Kept, Advances
<1>4. Operations!LockOperation(c) \/ Operations!LockGoal(c) => Locks(c)
  BY DEF Operations!LockOperation, Operations!LockGoal, Locks, Kept
<1>5. Operations!OperationBusy(c) \/ Operations!GoalBusy(c) \/ Operations!RefuseMutation(c) \/ Operations!Release(c) => Returns(c)
  BY DEF Operations!OperationBusy, Operations!GoalBusy, Operations!RefuseMutation,
     Operations!Release, Returns, Kept
<1>6. Operations!LoadForMutation(c) => Advances(c) \/ Returns(c)
  BY DEF Operations!LoadForMutation, Advances, Returns, Kept
<1>7. Operations!LoadForCreate(c) => Advances(c) \/ Returns(c)
  BY DEF Operations!LoadForCreate, Advances, Returns, Kept
<1>8. Operations!Save(c) => Applies(c) \/ Returns(c)
  BY DEF Operations!Save, Applies, Returns, Kept
<1>9. QED BY Zenon, <1>2, <1>3, <1>4, <1>5, <1>6, <1>7, <1>8 DEF Operations!Step

LEMMA Steps ==
  ASSUME [Operations!Next]_Operations!vars
  PROVE  \/ UNCHANGED Operations!vars
         \/ \E c \in Caller, r \in Requests : Operations!Ask(c, r)
         \/ \E c \in Caller : \/ Advances(c) \/ Locks(c) \/ Returns(c) \/ Applies(c) \/ Operations!Record(c)
                              \/ Operations!Crash(c)
         \/ \E k \in Operations!Key : Operations!Reclaim(k)
         \/ \E k \in Operations!Key : Operations!Overrun(k)
BY Zenon, Forms DEF Operations!Next

-----------------------------------------------------------------------------
\* Type correctness.

LEMMA Fields ==
  ASSUME Operations!GoalOperationsAssumption, NEW r \in Requests
  PROVE  /\ r \in Operations!Request /\ r # None
         /\ r.op \in Op /\ r.goal \in GoalId /\ r.op \in Operations!Key /\ r.goal \in Operations!Key
         /\ r.expected \in Nat
<1>1. r \in Operations!Request /\ r # None
  BY DEF Operations!GoalOperationsAssumption
<1>2. QED BY <1>1 DEF Operations!Request, Operations!Key

LEMMA Requested ==
  ASSUME Operations!GoalOperationsAssumption, Operations!TypeOK, NEW r \in Requests
  PROVE  /\ r \in Operations!Request /\ r # None
         /\ r.op \in Op /\ r.goal \in GoalId /\ r.op \in Operations!Key /\ r.goal \in Operations!Key
         /\ r.expected \in Nat
         /\ history[r.goal] \in Seq(Requests)
BY Fields DEF Operations!TypeOK

LEMMA AtWork ==
  ASSUME Operations!GoalOperationsAssumption, Operations!TypeOK, NEW c \in Caller, pc[c] # "idle"
  PROVE  req[c] \in Requests
BY DEF Operations!TypeOK

\* What the save of a caller adds.
Extends(t, s) == \A i \in DOMAIN s : i \in DOMAIN t /\ t[i] = s[i]

LEMMA Grows ==
  ASSUME Operations!GoalOperationsAssumption, Operations!TypeOK, NEW c \in Caller, Applies(c),
         NEW r, r = req[c],
         NEW g, g = r.goal
  PROVE  /\ r \in Requests /\ g \in GoalId
         /\ history' \in [GoalId -> Seq(Requests)]
         /\ \A h \in GoalId \ {g} : history'[h] = history[h]
         /\ Len(history[g]) \in Nat /\ r.expected = Len(history[g])
         /\ DOMAIN history[g] = 1 .. Len(history[g])
         /\ Len(history'[g]) = Len(history[g]) + 1
         /\ DOMAIN history'[g] = DOMAIN history[g] \cup {Len(history[g]) + 1}
         /\ Len(history[g]) + 1 \notin DOMAIN history[g]
         /\ history'[g][Len(history[g]) + 1] = r
         /\ Extends(history'[g], history[g])
<1>1. r \in Requests /\ g \in GoalId /\ history \in [GoalId -> Seq(Requests)] /\ history[g] \in Seq(Requests)
  BY AtWork, Requested DEF Applies, Operations!TypeOK
<1>2. history' = [history EXCEPT ![g] = Append(history[g], r)]
  BY DEF Applies
<1>3. PICK s : s = history[g]
  OBVIOUS
<1>4. PICK t : t = Append(s, r)
  OBVIOUS
<1>5. /\ s \in Seq(Requests) /\ t \in Seq(Requests) /\ Len(s) \in Nat /\ Len(t) = Len(s) + 1
      /\ \A i \in 1 .. Len(s) : t[i] = s[i]
      /\ t[Len(s) + 1] = r
  BY <1>1, <1>3, <1>4
<1>6. DOMAIN s = 1 .. Len(s) /\ DOMAIN t = 1 .. Len(t)
  BY <1>5, LenProperties
<1>7. \A l \in Nat : 1 .. (l + 1) = (1 .. l) \cup {l + 1} /\ l + 1 \notin 1 .. l
  OBVIOUS
<1>8. history'[g] = t /\ \A h \in GoalId \ {g} : history'[h] = history[h]
  BY <1>1, <1>2, <1>3, <1>4
<1>9. history' \in [GoalId -> Seq(Requests)]
  BY <1>1, <1>2, <1>3, <1>4, <1>5
<1>10. DOMAIN t = DOMAIN s \cup {Len(s) + 1} /\ Len(s) + 1 \notin DOMAIN s
  <2>1. PICK l \in Nat : l = Len(s)
    BY Zenon, <1>5
  <2>2. DOMAIN t = 1 .. (l + 1) /\ DOMAIN s = 1 .. l
    BY <1>5, <1>6, <2>1
  <2>3. QED BY <1>7, <2>1, <2>2
<1>11. r.expected = Len(s)
  BY <1>3 DEF Applies, Operations!Version
<1>12. Extends(t, s)
  BY <1>5, <1>6, <1>10 DEF Extends
<1>13. QED BY <1>1, <1>3, <1>5, <1>6, <1>8, <1>9, <1>10, <1>11, <1>12

LEMMA TypeStep ==
  ASSUME Operations!GoalOperationsAssumption, Operations!TypeOK, [Operations!Next]_Operations!vars
  PROVE  Operations!TypeOK'
<1>0. /\ history \in [GoalId -> Seq(Requests)]
      /\ receipts \in [Op -> Requests \cup {None}]
      /\ locks \in [Operations!Key -> Caller \cup {None}]
      /\ pc \in [Caller -> {"idle", "begin", "opLock", "goalLock"} \cup Operations!Guarded]
      /\ req \in [Caller -> Requests \cup {None}]
      /\ \A c \in Caller : pc[c] # "idle" => req[c] # None
      /\ reported \subseteq Requests
      /\ asked \in 0 .. MaxRequests /\ crashes \in 0 .. MaxCrashes /\ overruns \in 0 .. MaxOverruns
      /\ MaxRequests \in Nat /\ MaxCrashes \in Nat /\ MaxOverruns \in Nat
  BY DEF Operations!TypeOK, Operations!GoalOperationsAssumption
<1> USE DEF Operations!Guarded
<1>1. CASE UNCHANGED Operations!vars
  BY <1>0, <1>1 DEF Operations!vars, Operations!TypeOK
<1>2. ASSUME NEW c \in Caller, NEW r \in Requests, Operations!Ask(c, r) PROVE Operations!TypeOK'
  <2>1. r # None
    BY Requested
  <2>2. asked' \in 0 .. MaxRequests
    BY <1>0, <1>2 DEF Operations!Ask
  <2>3. pc' \in [Caller -> {"idle", "begin", "opLock", "goalLock"} \cup Operations!Guarded]
        /\ req' \in [Caller -> Requests \cup {None}]
    BY <1>0, <1>2 DEF Operations!Ask, Operations!Goto
  <2>4. \A d \in Caller : pc'[d] # "idle" => req'[d] # None
    BY <1>0, <1>2, <2>1 DEF Operations!Ask, Operations!Goto
  <2>5. QED BY <1>0, <1>2, <2>2, <2>3, <2>4 DEF Operations!Ask, Operations!TypeOK
<1>3. ASSUME NEW c \in Caller, Advances(c) PROVE Operations!TypeOK'
  <2>1. pc' \in [Caller -> {"idle", "begin", "opLock", "goalLock"} \cup Operations!Guarded]
    BY <1>0, <1>3 DEF Advances, Operations!Goto
  <2>2. \A d \in Caller : pc'[d] # "idle" => req'[d] # None
    BY <1>0, <1>3 DEF Advances, Operations!Goto
  <2>3. QED BY <1>0, <1>3, <2>1, <2>2 DEF Advances, Kept, Operations!TypeOK
<1>4. ASSUME NEW c \in Caller, Locks(c) PROVE Operations!TypeOK'
  <2>1. req[c] \in Requests
    BY <1>4, AtWork DEF Locks
  <2>2. req[c].op \in Operations!Key /\ req[c].goal \in Operations!Key
    BY <2>1, Requested
  <2>3. locks' \in [Operations!Key -> Caller \cup {None}]
    BY <1>0, <1>4, <2>2 DEF Locks, Operations!Take
  <2>4. pc' \in [Caller -> {"idle", "begin", "opLock", "goalLock"} \cup Operations!Guarded]
    BY <1>0, <1>4 DEF Locks, Operations!Goto
  <2>5. \A d \in Caller : pc'[d] # "idle" => req'[d] # None
    BY <1>0, <1>4, <2>4 DEF Locks, Operations!Goto
  <2>6. QED BY <1>0, <1>4, <2>3, <2>4, <2>5 DEF Locks, Kept, Operations!TypeOK
<1>5. ASSUME NEW c \in Caller, Returns(c) PROVE Operations!TypeOK'
  <2>1. req[c] \in Requests
    BY <1>5, AtWork DEF Returns
  <2>2. locks' \in [Operations!Key -> Caller \cup {None}] /\ reported' \subseteq Requests
    BY <1>0, <1>5, <2>1 DEF Returns, Operations!Return
  <2>3. /\ pc' \in [Caller -> {"idle", "begin", "opLock", "goalLock"} \cup Operations!Guarded]
        /\ req' \in [Caller -> Requests \cup {None}]
        /\ \A d \in Caller : pc'[d] # "idle" => req'[d] # None
    BY <1>0, <1>5 DEF Returns, Operations!Return, Operations!Goto
  <2>4. QED BY <1>0, <1>5, <2>2, <2>3 DEF Returns, Kept, Operations!TypeOK
<1>6. ASSUME NEW c \in Caller, Applies(c) PROVE Operations!TypeOK'
  <2>1. history' \in [GoalId -> Seq(Requests)]
    BY <1>6, Grows
  <2>2. /\ pc' \in [Caller -> {"idle", "begin", "opLock", "goalLock"} \cup Operations!Guarded]
        /\ \A d \in Caller : pc'[d] # "idle" => req'[d] # None
    BY <1>0, <1>6 DEF Applies, Operations!Goto
  <2>3. QED BY <1>0, <1>6, <2>1, <2>2 DEF Applies, Operations!TypeOK
<1>7. ASSUME NEW c \in Caller, Operations!Record(c) PROVE Operations!TypeOK'
  <2>1. req[c] \in Requests
    BY <1>7, AtWork DEF Operations!Record
  <2>2. receipts' \in [Op -> Requests \cup {None}]
    BY <1>0, <1>7, <2>1 DEF Operations!Record
  <2>3. /\ pc' \in [Caller -> {"idle", "begin", "opLock", "goalLock"} \cup Operations!Guarded]
        /\ \A d \in Caller : pc'[d] # "idle" => req'[d] # None
    BY <1>0, <1>7 DEF Operations!Record, Operations!Goto
  <2>4. QED BY <1>0, <1>7, <2>2, <2>3 DEF Operations!Record, Operations!TypeOK
<1>8. ASSUME NEW c \in Caller, Operations!Crash(c) PROVE Operations!TypeOK'
  <2>1. /\ pc' \in [Caller -> {"idle", "begin", "opLock", "goalLock"} \cup Operations!Guarded]
        /\ req' \in [Caller -> Requests \cup {None}]
        /\ \A d \in Caller : pc'[d] # "idle" => req'[d] # None
    BY <1>0, <1>8 DEF Operations!Crash, Operations!Goto
  <2>2. crashes' \in 0 .. MaxCrashes
    BY <1>0, <1>8 DEF Operations!Crash
  <2>3. QED BY <1>0, <1>8, <2>1, <2>2 DEF Operations!Crash, Operations!TypeOK
<1>9. ASSUME NEW k \in Operations!Key,
             Operations!Reclaim(k) \/ Operations!Overrun(k) PROVE Operations!TypeOK'
  <2>1. locks' \in [Operations!Key -> Caller \cup {None}] /\ overruns' \in 0 .. MaxOverruns
    BY <1>0, <1>9 DEF Operations!Reclaim, Operations!Overrun
  <2>2. QED BY <1>0, <1>9, <2>1 DEF Operations!Reclaim, Operations!Overrun, Operations!TypeOK
<1>10. QED BY <1>1, <1>2, <1>3, <1>4, <1>5, <1>6, <1>7, <1>8, <1>9, Steps

-----------------------------------------------------------------------------
\* What took effect stays in effect.

LEMMA EffectStays ==
  ASSUME Operations!GoalOperationsAssumption, Operations!TypeOK, [Operations!Next]_Operations!vars,
         NEW r \in Requests, Operations!Promise!TookEffect(r)
  PROVE  Operations!Promise!TookEffect(r)'
<1>1. UNCHANGED history \/ \E c \in Caller : Applies(c)
  BY Zenon, Steps DEF Operations!vars, Operations!Ask, Advances, Locks, Returns, Kept,
     Operations!Record, Operations!Crash, Operations!Reclaim, Operations!Overrun
<1>2. CASE UNCHANGED history
  BY <1>2 DEF Operations!Promise!TookEffect
<1>3. ASSUME NEW c \in Caller, Applies(c) PROVE Operations!Promise!TookEffect(r)'
  <2>1. PICK q, g, h : q = req[c] /\ g = q.goal /\ h = r.goal
    OBVIOUS
  <2>2. h \in GoalId
    BY <2>1, Requested
  <2>3. PICK i \in DOMAIN history[h] : history[h][i] = r
    BY <2>1 DEF Operations!Promise!TookEffect
  <2>4. i \in DOMAIN history'[h] /\ history'[h][i] = r
    <3>1. CASE h = g
      <4>1. Extends(history'[g], history[g])
        BY <1>3, <2>1, Grows
      <4>2. QED BY <2>3, <3>1, <4>1 DEF Extends
    <3>2. CASE h # g
      <4>1. history'[h] = history[h]
        BY <1>3, <2>1, <2>2, <3>2, Grows
      <4>2. QED BY <2>3, <4>1
    <3>3. QED BY <3>1, <3>2
  <2>5. QED BY <2>1, <2>4 DEF Operations!Promise!TookEffect
<1>4. QED BY <1>1, <1>2, <1>3

\* The callers past the save: one that has just saved, or found its goal saved by an
\* earlier attempt.
LEMMA PastSave ==
  ASSUME Operations!GoalOperationsAssumption, Operations!TypeOK,
         Truthful, [Operations!Next]_Operations!vars, NEW c \in Caller,
         pc'[c] \in {"record", "release"}
  PROVE  Operations!Promise!TookEffect(req[c])'
<1>0. pc \in [Caller -> {"idle", "begin", "opLock", "goalLock"} \cup Operations!Guarded] /\ req \in [Caller -> Requests \cup {None}]
  BY DEF Operations!TypeOK
<1> DEFINE Stays == pc[c] \in {"record", "release"} /\ req'[c] = req[c]
<1>1. CASE Stays
  <2>1. req[c] \in Requests /\ Operations!Promise!TookEffect(req[c])
    BY <1>1, AtWork DEF Truthful
  <2>2. PICK r \in Requests : r = req[c]
    BY <2>1
  <2>3. Operations!Promise!TookEffect(r)'
    BY <2>1, <2>2, EffectStays
  <2>4. QED BY <1>1, <2>2, <2>3
<1>2. ASSUME Applies(c) PROVE Operations!Promise!TookEffect(req[c])'
  <2>1. PICK r, g : r = req[c] /\ g = r.goal
    OBVIOUS
  <2>2. PICK n : n = Len(history[g]) + 1
    OBVIOUS
  <2>3. n \in DOMAIN history'[g] /\ history'[g][n] = r
    BY <1>2, <2>1, <2>2, Grows
  <2>4. req'[c] = r
    BY <1>2, <2>1 DEF Applies
  <2>5. QED BY <2>1, <2>3, <2>4 DEF Operations!Promise!TookEffect
<1>3. ASSUME Advances(c) PROVE Operations!Promise!TookEffect(req[c])'
  <2>1. PICK r, g : r = req[c] /\ g = r.goal
    OBVIOUS
  <2>2. pc[c] = "load" /\ Operations!Version(g) # 0 /\ history[g][1] = r /\ UNCHANGED <<history, req>>
    BY <1>0, <1>3, <2>1 DEF Advances, Operations!Goto, Kept
  <2>3. r \in Requests /\ history[g] \in Seq(Requests)
    BY <2>1, <2>2, AtWork, Requested
  <2>4. 1 \in DOMAIN history[g]
    <3>1. Len(history[g]) \in Nat /\ DOMAIN history[g] = 1 .. Len(history[g]) /\ Len(history[g]) # 0
      BY <2>2, <2>3, LenProperties DEF Operations!Version
    <3>2. QED BY <3>1
  <2>5. QED BY <2>1, <2>2, <2>4 DEF Operations!Promise!TookEffect
<1>4. ASSUME Locks(c) PROVE FALSE
  BY <1>0, <1>4 DEF Locks, Operations!Goto
<1>5. ASSUME Returns(c) \/ Operations!Crash(c) PROVE FALSE
  BY <1>0, <1>5 DEF Returns, Operations!Return, Operations!Crash, Operations!Goto
<1>6. ASSUME Operations!Record(c) PROVE Stays
  BY <1>6 DEF Operations!Record
<1>7. ASSUME NEW d \in Caller \ {c},
             Advances(d) \/ Locks(d) \/ Returns(d) \/ Applies(d) \/ Operations!Record(d) \/ Operations!Crash(d)
      PROVE  Stays
  BY <1>0, <1>7 DEF Advances, Locks, Returns, Operations!Return, Applies, Operations!Record,
     Operations!Crash, Operations!Goto
<1>8. ASSUME NEW d \in Caller, NEW r \in Requests, Operations!Ask(d, r) PROVE Stays
  BY <1>0, <1>8 DEF Operations!Ask, Operations!Goto
<1>9. ASSUME NEW k \in Operations!Key, Operations!Reclaim(k) \/ Operations!Overrun(k) PROVE Stays
  BY <1>9 DEF Operations!Reclaim, Operations!Overrun
<1>10. UNCHANGED Operations!vars => Stays
  BY DEF Operations!vars
<1> HIDE DEF Stays
<1>11. QED BY <1>1, <1>2, <1>3, <1>4, <1>5, <1>6, <1>7, <1>8, <1>9, <1>10, Steps

-----------------------------------------------------------------------------
\* Receipts and answers.

LEMMA Answers ==
  ASSUME Operations!GoalOperationsAssumption, Operations!TypeOK, Truthful, NEW c \in Caller,
         Returns(c), reported' # reported
  PROVE  /\ req[c] \in Requests /\ Operations!Promise!TookEffect(req[c])
         /\ reported' = reported \cup {req[c]}
<1>1. /\ reported' = reported \cup {req[c]}
      /\ pc[c] = "release" \/ (receipts[req[c].op] # None /\ receipts[req[c].op] = req[c])
  BY DEF Returns, Operations!Return
<1>2. req[c] \in Requests /\ req[c].op \in Op
  BY AtWork, Requested DEF Returns
<1>3. CASE pc[c] = "release"
  BY <1>1, <1>2, <1>3 DEF Truthful
<1>4. CASE receipts[req[c].op] # None /\ receipts[req[c].op] = req[c]
  BY <1>1, <1>2, <1>4 DEF Truthful, Operations!ReceiptMeansApplied
<1>5. QED BY <1>1, <1>3, <1>4

LEMMA TruthStep ==
  ASSUME Operations!GoalOperationsAssumption, Operations!TypeOK,
         Truthful, [Operations!Next]_Operations!vars
  PROVE  Truthful'
<1>0. /\ receipts \in [Op -> Requests \cup {None}] /\ pc \in [Caller -> {"idle", "begin", "opLock", "goalLock"} \cup Operations!Guarded]
      /\ req \in [Caller -> Requests \cup {None}] /\ reported \subseteq Requests
  BY DEF Operations!TypeOK
<1>a. ASSUME UNCHANGED receipts PROVE Operations!ReceiptMeansApplied'
  <2>1. SUFFICES ASSUME NEW o \in Op, receipts'[o] # None
                 PROVE  receipts'[o].op = o /\ Operations!Promise!TookEffect(receipts[o])'
    BY DEF Operations!ReceiptMeansApplied
  <2>2. PICK r : r = receipts[o]
    OBVIOUS
  <2>3. r \in Requests /\ r.op = o /\ Operations!Promise!TookEffect(r)
    BY <1>0, <1>a, <2>1, <2>2 DEF Truthful, Operations!ReceiptMeansApplied
  <2>4. Operations!Promise!TookEffect(r)'
    BY <2>3, EffectStays
  <2>5. receipts'[o] = r
    BY <1>a, <2>2
  <2>6. QED BY <2>3, <2>4, <2>5
<1>1. Operations!ReceiptMeansApplied'
  <2>1. ASSUME NEW c \in Caller, Operations!Record(c) PROVE Operations!ReceiptMeansApplied'
    <3>1. SUFFICES ASSUME NEW o \in Op, receipts'[o] # None
                   PROVE  receipts'[o].op = o /\ Operations!Promise!TookEffect(receipts[o])'
      BY DEF Operations!ReceiptMeansApplied
    <3>2. PICK r : r = receipts'[o]
      OBVIOUS
    <3>3. CASE o = req[c].op
      <4>1. r = req[c] /\ r \in Requests /\ Operations!Promise!TookEffect(r)
        <5>1. r = req[c] /\ pc[c] = "record"
          BY <1>0, <2>1, <3>2, <3>3 DEF Operations!Record
        <5>2. QED BY <5>1, AtWork DEF Truthful
      <4>2. Operations!Promise!TookEffect(r)'
        BY <4>1, EffectStays
      <4>3. QED BY <3>2, <3>3, <4>1, <4>2
    <3>4. CASE o # req[c].op
      <4>1. r = receipts[o]
        BY <1>0, <2>1, <3>2, <3>4 DEF Operations!Record
      <4>2. r \in Requests /\ r.op = o /\ Operations!Promise!TookEffect(r)
        BY <1>0, <3>1, <3>2, <4>1 DEF Truthful, Operations!ReceiptMeansApplied
      <4>3. Operations!Promise!TookEffect(r)'
        BY <4>2, EffectStays
      <4>4. QED BY <3>2, <4>2, <4>3
    <3>5. QED BY <3>3, <3>4
  <2>2. UNCHANGED receipts \/ \E c \in Caller : Operations!Record(c)
    BY Zenon, Steps DEF Operations!vars, Operations!Ask, Advances, Locks, Returns, Kept, Applies,
       Operations!Crash, Operations!Reclaim, Operations!Overrun
  <2>3. QED BY <1>a, <2>1, <2>2
<1>2. ASSUME NEW r \in reported' PROVE Operations!Promise!TookEffect(r)'
  <2>1. r \in Requests /\ Operations!Promise!TookEffect(r)
    <3>1. CASE r \in reported
      BY <1>0, <3>1 DEF Truthful
    <3>2. ASSUME NEW c \in Caller,
                 Returns(c), r \notin reported PROVE r \in Requests /\ Operations!Promise!TookEffect(r)
      <4>1. r = req[c] /\ req[c] \in Requests /\ Operations!Promise!TookEffect(req[c])
        BY <1>2, <3>2, Answers
      <4>2. QED BY <4>1
    <3>3. UNCHANGED reported \/ \E c \in Caller : Returns(c)
      BY Zenon, Steps DEF Operations!vars, Operations!Ask, Advances, Locks, Kept, Applies,
         Operations!Record, Operations!Crash, Operations!Reclaim, Operations!Overrun
    <3>4. QED BY <1>2, <3>1, <3>2, <3>3
  <2>2. QED BY <2>1, EffectStays
<1>3. ASSUME NEW c \in Caller, pc'[c] \in {"record", "release"} PROVE Operations!Promise!TookEffect(req[c])'
  BY <1>3, PastSave
<1>4. QED BY <1>1, <1>2, <1>3 DEF Truthful

-----------------------------------------------------------------------------
\* The locks, as long as none expired under a live caller.

\* The keys held, as a function of what a caller is doing.
HeldAt(label, r) ==
  {k \in Operations!Key : \/ label = "goalLock" /\ k = r.op
                          \/ label \in Operations!Guarded /\ (k = r.op \/ (~Operations!IsCreate(r) /\ k = r.goal))}

LEMMA Held ==
  ASSUME Operations!GoalOperationsAssumption, Operations!TypeOK, NEW c \in Caller
  PROVE  Operations!HeldKeys(c) = HeldAt(pc[c], req[c])
<1>1. CASE pc[c] = "idle"
  BY <1>1 DEF Operations!HeldKeys, HeldAt, Operations!Guarded
<1>2. CASE pc[c] # "idle"
  <2>1. req[c].op \in Operations!Key /\ req[c].goal \in Operations!Key
    BY <1>2, AtWork, Requested
  <2>2. QED BY <2>1 DEF Operations!HeldKeys, HeldAt, Operations!Guarded
<1>3. QED BY <1>1, <1>2

LEMMA HeldNext ==
  ASSUME Operations!GoalOperationsAssumption, Operations!TypeOK', NEW c \in Caller
  PROVE  Operations!HeldKeys(c)' = HeldAt(pc'[c], req'[c])
<1>1. CASE pc'[c] = "idle"
  BY <1>1 DEF Operations!HeldKeys, HeldAt, Operations!Guarded
<1>2. CASE pc'[c] # "idle"
  <2>1. req'[c] \in Requests
    BY <1>2 DEF Operations!TypeOK
  <2>2. req'[c].op \in Operations!Key /\ req'[c].goal \in Operations!Key
    BY <2>1, Fields
  <2>3. QED BY <2>2 DEF Operations!HeldKeys, HeldAt, Operations!Guarded
<1>3. QED BY <1>1, <1>2

\* Two callers do not work on one operation id inside its lock.
LEMMA Alone ==
  ASSUME Operations!GoalOperationsAssumption, Operations!TypeOK, NEW c \in Caller, NEW d \in Caller,
         Owns(c), Owns(d),
         pc[c] \in Operations!Guarded, pc[d] \in Operations!Guarded, req[c].op = req[d].op
  PROVE  c = d
<1>1. req[c].op \in Operations!Key /\ pc[c] # "idle" /\ pc[d] # "idle"
  BY AtWork, Requested DEF Operations!Guarded
<1>2. req[c].op \in Operations!HeldKeys(c) /\ req[c].op \in Operations!HeldKeys(d)
  BY <1>1, Held DEF HeldAt
<1>3. QED BY <1>2 DEF Owns

\* A caller that rests keeps its locks when the others take and give back only theirs.
LEMMA OthersOwn ==
  ASSUME Operations!GoalOperationsAssumption, Operations!TypeOK, Operations!TypeOK',
         NEW d \in Caller, Owns(d), UNCHANGED <<pc[d], req[d]>>,
         \A k \in Operations!HeldKeys(d) : locks[k] = d => locks'[k] = d,
         pc[d] \in {"load", "save"} => receipts'[req[d].op] = receipts[req[d].op]
  PROVE  Owns(d)'
<1>1. Operations!HeldKeys(d)' = Operations!HeldKeys(d)
  <2>1. Operations!HeldKeys(d)' = HeldAt(pc'[d], req'[d])
    BY HeldNext
  <2>2. QED BY <2>1, Held
<1>2. QED BY <1>1 DEF Owns

LEMMA OwnsStep ==
  ASSUME Operations!GoalOperationsAssumption, Operations!TypeOK,
         Operations!TypeOK', [Operations!Next]_Operations!vars, UNCHANGED overruns,
         \A c \in Caller : Owns(c), NEW d \in Caller
  PROVE  Owns(d)'
<1>0. /\ pc \in [Caller -> {"idle", "begin", "opLock", "goalLock"} \cup Operations!Guarded]
      /\ req \in [Caller -> Requests \cup {None}] /\ locks \in [Operations!Key -> Caller \cup {None}]
      /\ receipts \in [Op -> Requests \cup {None}]
      /\ Operations!HeldKeys(d) = HeldAt(pc[d], req[d]) /\ \A k \in Operations!HeldKeys(d) : k \in Operations!Key /\ locks[k] = d
      /\ d # None
  BY Held DEF Operations!TypeOK, HeldAt, Operations!GoalOperationsAssumption, Owns
<1>a. Operations!HeldKeys(d)' = HeldAt(pc'[d], req'[d])
  BY HeldNext
<1>b. ASSUME Operations!HeldKeys(d)' = {}, pc'[d] \notin {"load", "save"} PROVE Owns(d)'
  BY <1>b DEF Owns
<1>1. ASSUME UNCHANGED Operations!vars PROVE Owns(d)'
  BY <1>1, OthersOwn DEF Operations!vars
<1>2. ASSUME NEW c \in Caller, NEW r \in Requests, Operations!Ask(c, r) PROVE Owns(d)'
  <2>1. CASE c = d
    <3>1. pc'[d] = "begin"
      BY <1>0, <1>2, <2>1 DEF Operations!Ask, Operations!Goto
    <3>2. QED BY <1>a, <1>b, <3>1 DEF HeldAt, Operations!Guarded
  <2>2. CASE c # d
    BY <1>0, <1>2, <2>2, OthersOwn DEF Operations!Ask, Operations!Goto
  <2>3. QED BY <2>1, <2>2
<1>3. ASSUME NEW c \in Caller, Advances(c) PROVE Owns(d)'
  <2>1. CASE c = d
    <3>1. UNCHANGED <<req, locks, receipts>>
      BY <1>3 DEF Advances, Kept
    <3>2. CASE pc'[d] = "opLock"
      BY <1>a, <1>b, <3>2 DEF HeldAt, Operations!Guarded
    <3>3. CASE pc'[d] # "opLock"
      <4>1. pc[d] \in Operations!Guarded /\ pc'[d] \in Operations!Guarded
        BY <1>0, <1>3, <2>1, <3>3 DEF Advances, Operations!Goto, Operations!Guarded
      <4>2. Operations!HeldKeys(d)' = Operations!HeldKeys(d)
        BY <1>0, <1>a, <3>1, <4>1 DEF HeldAt
      <4>3. pc'[d] \in {"load", "save"} => receipts[req[d].op] = None
        BY <1>0, <1>3, <2>1 DEF Advances, Operations!Goto, Owns
      <4>4. QED BY <1>0, <3>1, <4>2, <4>3 DEF Owns
    <3>4. QED BY <3>2, <3>3
  <2>2. CASE c # d
    BY <1>0, <1>3, <2>2, OthersOwn DEF Advances, Kept, Operations!Goto
  <2>3. QED BY <2>1, <2>2
<1>4. ASSUME NEW c \in Caller, Locks(c) PROVE Owns(d)'
  <2>1. CASE c = d
    <3>1. req[d].op \in Operations!Key /\ req[d].goal \in Operations!Key /\ UNCHANGED req
      BY <1>4, <2>1, AtWork, Requested DEF Locks
    <3>2. ASSUME NEW k \in Operations!HeldKeys(d)' PROVE locks'[k] = d
      <4>1. k \in Operations!Key /\ (k = req[d].op \/ (~Operations!IsCreate(req[d]) /\ k = req[d].goal))
        BY <1>a, <3>1, <3>2 DEF HeldAt
      <4>2. CASE pc[d] = "opLock"
        <5>1. locks' = [locks EXCEPT ![req[d].op] = d]
          BY <1>4, <2>1, <4>2 DEF Locks, Operations!Take
        <5>2. k = req[d].op
          <6>1. CASE Operations!IsCreate(req[d]) \/ req[d].goal = req[d].op
            BY <4>1, <6>1
          <6>2. CASE ~(Operations!IsCreate(req[d]) \/ req[d].goal = req[d].op)
            <7>1. pc'[d] = "goalLock"
              BY <1>0, <1>4, <2>1, <4>2, <6>2 DEF Locks, Operations!Goto
            <7>2. QED BY <1>a, <3>1, <3>2, <7>1 DEF HeldAt, Operations!Guarded
          <6>3. QED BY <6>1, <6>2
        <5>3. QED BY <1>0, <3>1, <5>1, <5>2
      <4>3. CASE pc[d] = "goalLock"
        <5>1. locks' = [locks EXCEPT ![req[d].goal] = d]
          BY <1>4, <2>1, <4>3 DEF Locks, Operations!Take
        <5>2. locks[req[d].op] = d
          BY <1>0, <3>1, <4>3 DEF HeldAt
        <5>3. QED BY <1>0, <3>1, <4>1, <5>1, <5>2
      <4>4. QED BY <1>4, <2>1, <4>2, <4>3 DEF Locks
    <3>3. pc'[d] \notin {"load", "save"}
      BY <1>0, <1>4, <2>1 DEF Locks, Operations!Goto
    <3>4. QED BY <3>2, <3>3 DEF Owns
  <2>2. CASE c # d
    <3>1. ASSUME NEW k \in Operations!HeldKeys(d) PROVE locks'[k] = d
      BY <1>0, <1>4, <3>1 DEF Locks, Operations!Take
    <3>2. QED BY <1>0, <1>4, <2>2, <3>1, OthersOwn DEF Locks, Kept, Operations!Goto
  <2>3. QED BY <2>1, <2>2
<1>5. ASSUME NEW c \in Caller, Returns(c) PROVE Owns(d)'
  <2>1. CASE c = d
    <3>1. pc'[d] = "idle"
      BY <1>0, <1>5, <2>1 DEF Returns, Operations!Return, Operations!Goto
    <3>2. QED BY <1>a, <1>b, <3>1 DEF HeldAt, Operations!Guarded
  <2>2. CASE c # d
    <3>1. ASSUME NEW k \in Operations!HeldKeys(d) PROVE locks'[k] = d
      BY <1>0, <1>5, <2>2, <3>1 DEF Returns, Operations!Return
    <3>2. QED BY <1>0, <1>5, <2>2, <3>1, OthersOwn DEF Returns, Operations!Return, Kept, Operations!Goto
  <2>3. QED BY <2>1, <2>2
<1>6. ASSUME NEW c \in Caller, Applies(c) PROVE Owns(d)'
  <2>1. CASE c = d
    <3>1. pc[d] = "save" /\ pc'[d] = "record" /\ UNCHANGED <<req, locks>>
      BY <1>0, <1>6, <2>1 DEF Applies, Operations!Goto
    <3>2. Operations!HeldKeys(d)' = Operations!HeldKeys(d)
      BY <1>0, <1>a, <3>1 DEF HeldAt, Operations!Guarded
    <3>3. QED BY <1>0, <3>1, <3>2 DEF Owns
  <2>2. CASE c # d
    BY <1>0, <1>6, <2>2, OthersOwn DEF Applies, Operations!Goto
  <2>3. QED BY <2>1, <2>2
<1>7. ASSUME NEW c \in Caller, Operations!Record(c) PROVE Owns(d)'
  <2>1. CASE c = d
    <3>1. pc[d] = "record" /\ pc'[d] = "release" /\ UNCHANGED <<req, locks>>
      BY <1>0, <1>7, <2>1 DEF Operations!Record, Operations!Goto
    <3>2. Operations!HeldKeys(d)' = Operations!HeldKeys(d)
      BY <1>0, <1>a, <3>1 DEF HeldAt, Operations!Guarded
    <3>3. QED BY <1>0, <3>1, <3>2 DEF Owns
  <2>2. CASE c # d
    <3>1. pc[d] \in {"load", "save"} => req[c].op # req[d].op
      BY <1>7, <2>2, Alone DEF Operations!Record, Operations!Guarded
    <3>2. pc[d] \in {"load", "save"} => receipts'[req[d].op] = receipts[req[d].op]
      <4>1. req[d].op \in Op \/ pc[d] = "idle"
        BY AtWork, Requested
      <4>2. QED BY <1>0, <1>7, <3>1, <4>1 DEF Operations!Record
    <3>3. QED BY <1>0, <1>7, <2>2, <3>2, OthersOwn DEF Operations!Record, Operations!Goto
  <2>3. QED BY <2>1, <2>2
<1>8. ASSUME NEW c \in Caller, Operations!Crash(c) PROVE Owns(d)'
  <2>1. CASE c = d
    <3>1. pc'[d] = "idle"
      BY <1>0, <1>8, <2>1 DEF Operations!Crash, Operations!Goto
    <3>2. QED BY <1>a, <1>b, <3>1 DEF HeldAt, Operations!Guarded
  <2>2. CASE c # d
    BY <1>0, <1>8, <2>2, OthersOwn DEF Operations!Crash, Operations!Goto
  <2>3. QED BY <2>1, <2>2
<1>9. ASSUME NEW k \in Operations!Key, Operations!Reclaim(k) PROVE Owns(d)'
  <2>1. ASSUME NEW l \in Operations!HeldKeys(d) PROVE locks'[l] = d
    BY <1>0, <1>9, <2>1 DEF Operations!Reclaim
  <2>2. QED BY <1>0, <1>9, <2>1, OthersOwn DEF Operations!Reclaim
<1>10. ASSUME NEW k \in Operations!Key, Operations!Overrun(k) PROVE FALSE
  BY <1>10 DEF Operations!Overrun, Operations!TypeOK
<1>11. QED BY <1>1, <1>2, <1>3, <1>4, <1>5, <1>6, <1>7, <1>8, <1>9, <1>10, Steps

-----------------------------------------------------------------------------
\* Operations that took effect and their receipts.

LEMMA NewlyUsed ==
  ASSUME Operations!GoalOperationsAssumption, Operations!TypeOK, [Operations!Next]_Operations!vars,
         NEW o \in Op, Operations!Promise!OperationUsed(o)'
  PROVE  Operations!Promise!OperationUsed(o) \/ \E c \in Caller : Applies(c) /\ req[c].op = o
<1>1. UNCHANGED history \/ \E c \in Caller : Applies(c)
  BY Zenon, Steps DEF Operations!vars, Operations!Ask, Advances, Locks, Returns, Kept,
     Operations!Record, Operations!Crash, Operations!Reclaim, Operations!Overrun
<1>2. CASE UNCHANGED history
  BY <1>2 DEF Operations!Promise!OperationUsed
<1>3. ASSUME NEW c \in Caller, Applies(c), req[c].op # o PROVE Operations!Promise!OperationUsed(o)
  <2>1. PICK g \in GoalId : \E i \in DOMAIN history'[g] : history'[g][i].op = o
    BY DEF Operations!Promise!OperationUsed
  <2>2. PICK i \in DOMAIN history'[g] : history'[g][i].op = o
    BY <2>1
  <2>3. PICK r, h : r = req[c] /\ h = r.goal
    OBVIOUS
  <2>4. i \in DOMAIN history[g] /\ history[g][i].op = o
    <3>1. CASE g = h
      <4>1. PICK n : n = Len(history[h]) + 1
        OBVIOUS
      <4>2. /\ DOMAIN history'[h] = DOMAIN history[h] \cup {n} /\ history'[h][n] = r
            /\ Extends(history'[h], history[h])
        BY <1>3, <2>3, <4>1, Grows
      <4>3. i \in DOMAIN history[h]
        BY <1>3, <2>2, <2>3, <3>1, <4>2
      <4>4. QED BY <2>2, <3>1, <4>2, <4>3 DEF Extends
    <3>2. CASE g # h
      <4>1. history'[g] = history[g]
        BY <1>3, <2>3, <3>2, Grows
      <4>2. QED BY <2>2, <4>1
    <3>3. QED BY <3>1, <3>2
  <2>5. QED BY <2>4 DEF Operations!Promise!OperationUsed
<1>4. QED BY <1>1, <1>2, <1>3

LEMMA RecordedStep ==
  ASSUME Operations!GoalOperationsAssumption, Operations!TypeOK,
         UsedIsRecorded, [Operations!Next]_Operations!vars, UNCHANGED crashes
  PROVE  UsedIsRecorded'
<1>0. /\ receipts \in [Op -> Requests \cup {None}] /\ req \in [Caller -> Requests \cup {None}]
      /\ pc \in [Caller -> {"idle", "begin", "opLock", "goalLock"} \cup Operations!Guarded]
  BY DEF Operations!TypeOK
<1>1. SUFFICES ASSUME NEW o \in Op, Operations!Promise!OperationUsed(o)'
               PROVE  receipts'[o] # None \/ \E c \in Caller : pc'[c] = "record" /\ req'[c].op = o
  BY DEF UsedIsRecorded
<1>2. ASSUME NEW c \in Caller,
             Operations!Record(c) PROVE \A x \in Op : receipts[x] # None \/ x = req[c].op => receipts'[x] # None
  <2>1. req[c] # None
    BY <1>2, AtWork, Requested DEF Operations!Record
  <2>2. QED BY <1>0, <1>2, <2>1 DEF Operations!Record
<1>3. ASSUME NEW c \in Caller, Applies(c), req[c].op = o PROVE pc'[c] = "record" /\ req'[c].op = o
  BY <1>0, <1>3 DEF Applies, Operations!Goto
<1>4. ASSUME receipts[o] # None PROVE receipts'[o] # None
  <2>1. UNCHANGED receipts \/ \E c \in Caller : Operations!Record(c)
    BY Zenon, Steps DEF Operations!vars, Operations!Ask, Advances, Locks, Returns, Kept, Applies,
       Operations!Crash, Operations!Reclaim, Operations!Overrun
  <2>2. QED BY <1>2, <1>4, <2>1
<1>5. ASSUME NEW c \in Caller, pc[c] = "record", req[c].op = o
      PROVE  receipts'[o] # None \/ (pc'[c] = "record" /\ req'[c].op = o)
  <2> DEFINE Stays == pc'[c] = "record" /\ req'[c].op = o
  <2>1. UNCHANGED Operations!vars => Stays
    BY <1>5 DEF Operations!vars
  <2>2. ASSUME NEW d \in Caller, NEW r \in Requests, Operations!Ask(d, r) PROVE Stays
    BY <1>0, <1>5, <2>2 DEF Operations!Ask, Operations!Goto
  <2>3. ASSUME NEW d \in Caller, Advances(d) \/ Locks(d) \/ Returns(d) \/ Applies(d) PROVE Stays
    BY <1>0, <1>5, <2>3 DEF Advances, Locks, Returns, Operations!Return, Applies, Kept, Operations!Goto
  <2>4. ASSUME NEW d \in Caller, Operations!Record(d) PROVE Stays \/ receipts'[o] # None
    BY <1>0, <1>2, <1>5, <2>4 DEF Operations!Record, Operations!Goto
  <2>5. ASSUME NEW d \in Caller, Operations!Crash(d) PROVE FALSE
    BY <2>5 DEF Operations!Crash, Operations!TypeOK
  <2>6. ASSUME NEW k \in Operations!Key, Operations!Reclaim(k) \/ Operations!Overrun(k) PROVE Stays
    BY <1>5, <2>6 DEF Operations!Reclaim, Operations!Overrun
  <2> HIDE DEF Stays
  <2>7. Stays \/ receipts'[o] # None
    BY <2>1, <2>2, <2>3, <2>4, <2>5, <2>6, Steps
  <2>8. QED BY <2>7 DEF Stays
<1>6. CASE Operations!Promise!OperationUsed(o)
  BY <1>4, <1>5, <1>6 DEF UsedIsRecorded
<1>7. QED BY <1>1, <1>3, <1>6, NewlyUsed

-----------------------------------------------------------------------------
\* The invariant.

LEMMA OperationsInit == Operations!GoalOperationsAssumption /\ Operations!Init => OperationsInv
<1> SUFFICES ASSUME Operations!GoalOperationsAssumption, Operations!Init PROVE OperationsInv
  OBVIOUS
<1>1. /\ history \in [GoalId -> Seq(Requests)] /\ \A g \in GoalId : DOMAIN history[g] = {}
  BY DEF Operations!Init
<1>2. Operations!TypeOK
  BY <1>1 DEF Operations!Init, Operations!TypeOK, Operations!GoalOperationsAssumption
<1>3. Truthful
  BY DEF Operations!Init, Truthful, Operations!ReceiptMeansApplied
<1>4. \A c \in Caller : Owns(c)
  BY DEF Operations!Init, Owns, Operations!HeldKeys, Operations!Guarded
<1>5. UsedIsRecorded
  BY <1>1 DEF UsedIsRecorded, Operations!Promise!OperationUsed
<1>6. QED BY <1>2, <1>3, <1>4, <1>5 DEF OperationsInv

LEMMA Counting ==
  ASSUME Operations!GoalOperationsAssumption, Operations!TypeOK, [Operations!Next]_Operations!vars
  PROVE  /\ overruns' = 0 => overruns = 0
         /\ crashes' = 0 => crashes = 0
<1>1. crashes \in Nat /\ overruns \in Nat
  BY DEF Operations!TypeOK, Operations!GoalOperationsAssumption
<1>2. \/ UNCHANGED <<crashes, overruns>>
      \/ \E c \in Caller : Operations!Crash(c)
      \/ \E k \in Operations!Key : Operations!Overrun(k)
  BY Zenon, Steps DEF Operations!vars, Operations!Ask, Advances, Locks, Returns, Kept, Applies,
     Operations!Record, Operations!Reclaim
<1>3. QED BY <1>1, <1>2 DEF Operations!Crash, Operations!Overrun

LEMMA OperationsStep ==
  Operations!GoalOperationsAssumption /\ OperationsInv /\ [Operations!Next]_Operations!vars => OperationsInv'
<1> SUFFICES ASSUME Operations!GoalOperationsAssumption, OperationsInv, [Operations!Next]_Operations!vars PROVE OperationsInv'
  OBVIOUS
<1>1. Operations!TypeOK /\ Truthful
  BY DEF OperationsInv
<1>2. Operations!TypeOK' /\ Truthful'
  BY <1>1, TypeStep, TruthStep
<1>3. ASSUME overruns' = 0, NEW d \in Caller PROVE Owns(d)'
  <2>1. overruns = 0
    BY <1>1, <1>3, Counting
  <2>2. \A c \in Caller : Owns(c)
    BY <2>1 DEF OperationsInv
  <2>3. QED BY <1>1, <1>2, <1>3, <2>1, <2>2, OwnsStep
<1>4. ASSUME crashes' = 0 PROVE UsedIsRecorded'
  <2>1. crashes = 0
    BY <1>1, <1>4, Counting
  <2>2. QED BY <1>1, <1>4, <2>1, RecordedStep DEF OperationsInv
<1>5. QED BY <1>2, <1>3, <1>4 DEF OperationsInv

LEMMA OperationsInvariant == Operations!GoalOperationsAssumption => (Operations!Spec => []OperationsInv)
<1> SUFFICES ASSUME Operations!GoalOperationsAssumption PROVE Operations!Spec => []OperationsInv
  OBVIOUS
<1>1. Operations!Init => OperationsInv
  BY OperationsInit
<1>2. OperationsInv /\ [Operations!Next]_Operations!vars => OperationsInv'
  BY OperationsStep
<1>3. QED BY <1>1, <1>2, PTL DEF Operations!Spec

LEMMA UsesStay ==
  ASSUME Operations!GoalOperationsAssumption, OperationsInv, [Operations!Next]_Operations!vars,
         NEW o \in Op, overruns = 0, receipts[o] # None
  PROVE  Operations!Uses(o)' = Operations!Uses(o)
<1>0. Operations!TypeOK /\ \A c \in Caller : Owns(c)
  BY DEF OperationsInv
<1>1. UNCHANGED history \/ \E c \in Caller : Applies(c)
  BY Zenon, Steps DEF Operations!vars, Operations!Ask, Advances, Locks, Returns, Kept,
     Operations!Record, Operations!Crash, Operations!Reclaim, Operations!Overrun
<1>2. CASE UNCHANGED history
  BY <1>2 DEF Operations!Uses, Operations!Version
<1>3. ASSUME NEW c \in Caller, Applies(c) PROVE Operations!Uses(o)' = Operations!Uses(o)
  <2>1. PICK r, g, l : r = req[c] /\ g = r.goal /\ l = Len(history[g])
    OBVIOUS
  <2>2. r.op # o
    BY <1>0, <1>3, <2>1 DEF Applies, Owns
  <2>3. l \in Nat /\ Len(history'[g]) = l + 1 /\ history'[g][l + 1] = r /\ DOMAIN history[g] = 1 .. l
        /\ \A h \in GoalId \ {g} : history'[h] = history[h]
    BY <1>0, <1>3, <2>1, Grows
  <2>4. Extends(history'[g], history[g])
    BY <1>0, <1>3, <2>1, Grows
  <2>5. ASSUME NEW h \in GoalId, NEW i \in 1 .. MaxRequests
        PROVE  (i <= Len(history'[h]) /\ history'[h][i].op = o) <=> (i <= Len(history[h]) /\ history[h][i].op = o)
    <3>0. i \in Nat /\ i >= 1
      BY DEF Operations!GoalOperationsAssumption
    <3>1. CASE h # g
      BY <2>3, <3>1
    <3>2. CASE h = g /\ i = l + 1
      BY <2>1, <2>2, <2>3, <3>2
    <3>3. CASE h = g /\ i <= l
      <4>1. history'[g][i] = history[g][i]
        BY <2>3, <2>4, <3>0, <3>3 DEF Extends
      <4>2. QED BY <2>1, <2>3, <3>0, <3>3, <4>1
    <3>4. CASE h = g /\ i > l + 1
      BY <2>1, <2>3, <3>0, <3>4
    <3>5. QED BY <2>3, <3>0, <3>1, <3>2, <3>3, <3>4
  <2>6. QED BY <2>5 DEF Operations!Uses, Operations!Version
<1>4. QED BY <1>1, <1>2, <1>3

\* Once its receipt is written an operation id never takes effect again, whatever is sent
\* under it and whoever died, as long as no live caller lost a lock.
LEMMA ReceiptStaysFinal == Operations!GoalOperationsAssumption => (Operations!Spec => Operations!ReceiptIsFinal)
<1> SUFFICES ASSUME Operations!GoalOperationsAssumption PROVE Operations!Spec => Operations!ReceiptIsFinal
  OBVIOUS
<1>1. OperationsInv /\ [Operations!Next]_Operations!vars =>
        [\A o \in Op : overruns = 0 /\ receipts[o] # None => Operations!TimesApplied(o)' = Operations!TimesApplied(o)]_Operations!vars
  BY UsesStay DEF Operations!TimesApplied
<1>2. QED BY <1>1, OperationsInvariant, PTL DEF Operations!Spec, Operations!ReceiptIsFinal

-----------------------------------------------------------------------------
\* The refinement: a save applies, an answer reports, a crash or a lost lock interrupts,
\* and every other step changes nothing the store promises.

LEMMA RefinesInit == Operations!GoalOperationsAssumption /\ Operations!Init => Operations!Promise!Init
BY DEF Operations!Init, Operations!Promise!Init

LEMMA SavesOnce ==
  ASSUME Operations!GoalOperationsAssumption, OperationsInv, NEW c \in Caller,
         Applies(c), crashes = 0, overruns = 0
  PROVE  ~Operations!Promise!OperationUsed(req[c].op)
<1>0. Operations!TypeOK /\ UsedIsRecorded /\ \A d \in Caller : Owns(d)
  BY DEF OperationsInv
<1>1. req[c].op \in Op /\ receipts[req[c].op] = None
  BY <1>0, AtWork, Requested DEF Applies, Owns
<1>2. ASSUME NEW d \in Caller, pc[d] = "record", req[d].op = req[c].op PROVE FALSE
  <2>1. c = d
    BY <1>0, <1>2, Alone DEF Applies, Operations!Guarded
  <2>2. QED BY <1>2, <2>1 DEF Applies
<1>3. QED BY <1>0, <1>1, <1>2 DEF UsedIsRecorded

LEMMA RefinesStep ==
  ASSUME Operations!GoalOperationsAssumption, OperationsInv, [Operations!Next]_Operations!vars
  PROVE  [Operations!Promise!Next]_<<history, reported, crashes + overruns > 0>>
<1>0. Operations!TypeOK /\ Truthful /\ crashes \in Nat /\ overruns \in Nat
  BY DEF OperationsInv, Operations!TypeOK, Operations!GoalOperationsAssumption
<1>1. ASSUME NEW c \in Caller, Applies(c) PROVE Operations!Promise!Next
  <2>1. req[c] \in Requests /\ req[c].expected = Len(history[req[c].goal])
    BY <1>0, <1>1, AtWork DEF Applies, Operations!Version
  <2>2. ~Operations!Promise!OperationUsed(req[c].op) \/ crashes + overruns > 0
    BY <1>0, <1>1, SavesOnce
  <2>3. Operations!Promise!Apply(req[c])
    BY <1>1, <2>1, <2>2 DEF Applies, Operations!Promise!Apply
  <2>4. QED BY <2>1, <2>3 DEF Operations!Promise!Next
<1>2. ASSUME NEW c \in Caller, Returns(c), reported' # reported PROVE Operations!Promise!Next
  <2>1. req[c] \in Requests /\ Operations!Promise!TookEffect(req[c]) /\ reported' = reported \cup {req[c]}
    BY <1>0, <1>2, Answers
  <2>2. Operations!Promise!Report(req[c])
    BY <1>2, <2>1 DEF Returns, Kept, Operations!Promise!Report
  <2>3. QED BY <2>1, <2>2 DEF Operations!Promise!Next
<1>3. ASSUME NEW c \in Caller, Operations!Crash(c) PROVE Operations!Promise!Next
  BY <1>0, <1>3 DEF Operations!Crash, Operations!Promise!Next, Operations!Promise!Interrupt
<1>4. ASSUME NEW k \in Operations!Key, Operations!Overrun(k) PROVE Operations!Promise!Next
  BY <1>0, <1>4 DEF Operations!Overrun, Operations!Promise!Next, Operations!Promise!Interrupt
<1>5. \/ UNCHANGED <<history, reported, crashes, overruns>>
      \/ \E c \in Caller : Applies(c)
      \/ \E c \in Caller : Returns(c) /\ reported' # reported
      \/ \E c \in Caller : Operations!Crash(c)
      \/ \E k \in Operations!Key : Operations!Overrun(k)
  BY Zenon, Steps DEF Operations!vars, Operations!Ask, Advances, Locks, Returns, Kept,
     Operations!Record, Operations!Reclaim
<1>6. CASE UNCHANGED <<history, reported, crashes, overruns>>
  BY <1>6
<1>7. QED BY <1>1, <1>2, <1>3, <1>4, <1>5, <1>6

\* The service is the idempotent store: one line of history per goal, each change made
\* against the version before it, success reported only for what took effect, and, until
\* a caller is interrupted, every operation applied at most once.
LEMMA OperationsImplementPromise == Operations!GoalOperationsAssumption => (Operations!Spec => Operations!ImplementsIdempotentGoals)
<1> SUFFICES ASSUME Operations!GoalOperationsAssumption PROVE Operations!Spec => Operations!ImplementsIdempotentGoals
  OBVIOUS
<1>1. Operations!Init => Operations!Promise!Init
  BY RefinesInit
<1>2. OperationsInv /\ [Operations!Next]_Operations!vars => [Operations!Promise!Next]_<<history, reported, crashes + overruns > 0>>
  BY RefinesStep
<1>3. QED BY <1>1, <1>2, OperationsInvariant, PTL DEF Operations!Spec,
    Operations!ImplementsIdempotentGoals, Operations!Promise!Spec

(***************************************************************************)
(* The parts together                                                      *)
(***************************************************************************)

\* The steps of the service are steps of the operations, or leave them alone.
LEMMA ServiceRunsOperations == GoalServiceSpec => Operations!Spec
<1>1. GoalServiceInit => Operations!Init
  BY DEF GoalServiceInit
<1>2. [GoalServiceNext]_goalServiceVars => [Operations!Next]_Operations!vars
  BY DEF GoalServiceNext, goalServiceVars, operationVars, Operations!vars
<1>3. QED
  BY <1>1, <1>2, PTL DEF GoalServiceSpec, Operations!Spec

\* goal.py:385: a receipt is the truth about the past, whoever died and whichever lock was
\* lost, and every variable of the operations keeps its type.
THEOREM ReceiptsAreTrue == GoalServiceSpec => []ReceiptMeansApplied
<1>1. OperationsInv => ReceiptMeansApplied
  BY DEF OperationsInv, Truthful, ReceiptMeansApplied
<1>2. QED
  BY <1>1, ServiceRunsOperations, OperationsInvariant, GoalServiceAssumption, PTL

\* goal.py:361: once its receipt is written an operation id never takes effect again, whatever
\* is sent under it and whoever died, as long as no live caller lost a lock.
THEOREM ReceiptsAreFinal == GoalServiceSpec => ReceiptIsFinal
  BY ServiceRunsOperations, ReceiptStaysFinal, GoalServiceAssumption, PTL DEF ReceiptIsFinal

\* The service is the idempotent store: one line of history per goal, each change made
\* against the version before it, success reported only for what took effect, and, until
\* a caller is interrupted, every operation applied at most once.
THEOREM ServiceImplementsPromise == GoalServiceSpec => ImplementsIdempotentGoals
  BY ServiceRunsOperations, OperationsImplementPromise, GoalServiceAssumption, PTL
     DEF ImplementsIdempotentGoals
=============================================================================
