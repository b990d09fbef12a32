--------------------------------- MODULE Goal ---------------------------------
(***************************************************************************)
(* What the mutations of one Brain Goal do (GoalService in goal.py), and   *)
(* the host that works on it under continuation contracts.  Each mutation  *)
(* is one step here: GoalOperations shows that the locks, the version test *)
(* and the receipts make it one.  A request made against another version   *)
(* is refused and changes nothing, so it is not a step; the host's stale   *)
(* contracts are the exception that matters, and they are modelled.        *)
(*                                                                         *)
(* Evidence is a function from references to the class recorded for them:  *)
(* "model" for MODEL_INFERENCE, "hard" for any other class, "none" when    *)
(* the goal has no such evidence.  A criterion is open (unverified, failed *)
(* or insufficient: the evaluation treats them alike), passed on some      *)
(* references, or waived (not_applicable); "absent" when the goal has no   *)
(* criterion of that id.  A required verification gate is the set of       *)
(* references it names.                                                    *)
(***************************************************************************)
EXTENDS Naturals, FiniteSets

CONSTANTS Crit,          \* criterion ids
          Ref,           \* evidence references
          Token,         \* progress tokens reported by the host
          Budgets,       \* budget policies in use
          GateSets,      \* sets of required gates in use
          Supplies,      \* evidence a call may bring along
          Unlimited, None,
          MaxVersion, MaxTime,
          MostTurns      \* at least the turns of every budget with a turn limit

Limit == Nat \cup {Unlimited}
Budget == [turns : Limit, tokens : Limit, cost : Limit, stall : Nat, deadline : Limit]
Class == {"none", "hard", "model"}
Evidence == [Ref -> Class]
Criterion == [status : {"absent", "open", "passed", "waived"}, refs : SUBSET Ref]

ASSUME GoalAssumption ==
  /\ Unlimited \notin Nat
  /\ None \notin Token
  /\ Budgets \subseteq Budget
  /\ \A budget \in Budgets : budget.turns # 0 /\ budget.tokens # 0 /\ budget.stall # 0
  /\ GateSets \subseteq SUBSET SUBSET Ref
  /\ Supplies \subseteq Evidence
  /\ MaxVersion \in Nat
  /\ MaxTime \in Nat
  /\ MostTurns \in Nat

VARIABLES goal,
          contract,  \* the last continuation contract the host fetched
          now,
          bypassed   \* BrainController.transition was used on the goal

vars == <<goal, contract, now, bypassed>>

Status == {"ACTIVE", "PAUSED", "BLOCKED", "BUDGET_LIMITED", "USAGE_LIMITED",
           "COMPLETE", "CLEARED"}
Terminal == {"COMPLETE", "CLEARED"}

Goals == [status : Status, version : Nat, epoch : Nat,
          criteria : [Crit -> Criterion], gates : SUBSET SUBSET Ref,
          evidence : Evidence, budget : Budget,
          attempts : Nat, tokens : Nat, cost : Nat, stalled : Nat, token : Token \cup {None}]

Absent == [status |-> "absent", refs |-> {}]
Open == [status |-> "open", refs |-> {}]
Waived == [status |-> "waived", refs |-> {}]
PassedOn(refs) == [status |-> "passed", refs |-> refs]
NoEvidence == [r \in Ref |-> "none"]

\* Criteria a user can hand in: open, waived, or passed on at least one reference.
Given == {Open, Waived} \cup {PassedOn(refs) : refs \in (SUBSET Ref) \ {{}}}

NoContract == [version |-> 0, epoch |-> 0]

(***************************************************************************)
(* create: any criteria, gates and budget; ACTIVE, or PAUSED for a draft.  *)
(***************************************************************************)
Init ==
  /\ \E status \in {"ACTIVE", "PAUSED"}, gates \in GateSets, budget \in Budgets,
        criteria \in [Crit -> Given \cup {Absent}] :
       goal = [status |-> status, version |-> 1, epoch |-> 1,
               criteria |-> criteria, gates |-> gates,
               evidence |-> NoEvidence, budget |-> budget,
               attempts |-> 0, tokens |-> 0, cost |-> 0, stalled |-> 0, token |-> None]
  /\ contract = NoContract
  /\ now = 0
  /\ bypassed = FALSE

\* store.save of the changed goal
Saved(changed) ==
  /\ goal.version < MaxVersion
  /\ goal' = [changed EXCEPT !.version = goal.version + 1]
  /\ UNCHANGED <<contract, now, bypassed>>

(***************************************************************************)
(* evaluate                                                                *)
(***************************************************************************)

\* Incoming evidence is bound over the recorded one, reference by reference ...
Bound(recorded, supply) == [r \in Ref |-> IF supply[r] # "none" THEN supply[r] ELSE recorded[r]]
\* ... but only references that are new are recorded.
Recorded(recorded, supply) == [r \in Ref |-> IF recorded[r] # "none" THEN recorded[r] ELSE supply[r]]

Has(evidence, refs) == refs # {} /\ \A r \in refs : evidence[r] # "none"

\* A result "absent" stands for no result on that criterion.
ResultsValid(g, evidence, results) ==
  \A k \in Crit :
    /\ results[k].status # "absent" => g.criteria[k].status # "absent"
    /\ results[k].status = "passed" =>
         /\ Has(evidence, results[k].refs)
         /\ \E r \in results[k].refs : evidence[r] # "model"

Materialized(g, results) ==
  [k \in Crit |-> IF results[k].status # "absent" THEN results[k] ELSE g.criteria[k]]

Unmet(criteria, evidence) ==
  {k \in Crit : \/ criteria[k].status = "open"
                \/ criteria[k].status = "passed" /\ ~Has(evidence, criteria[k].refs)}

FailedGates(g, evidence) == {gate \in g.gates : ~Has(evidence, gate)}

\* The verdict is "complete".
Satisfied(g, supply, results) ==
  LET evidence == Bound(g.evidence, supply)
      criteria == Materialized(g, results)
  IN /\ ResultsValid(g, evidence, results)
     /\ g.status = "ACTIVE"
     /\ Unmet(criteria, evidence) = {}
     /\ FailedGates(g, evidence) = {}
     /\ \/ evidence # NoEvidence
        \/ g.gates = {} /\ \A k \in Crit : g.criteria[k].status = "absent"

(***************************************************************************)
(* transition                                                              *)
(***************************************************************************)

Allowed(status) ==
  CASE status = "ACTIVE" -> {"PAUSED", "BLOCKED", "BUDGET_LIMITED", "USAGE_LIMITED",
                             "COMPLETE", "CLEARED"}
    [] status = "PAUSED" -> {"ACTIVE", "CLEARED"}
    [] status \in {"BLOCKED", "BUDGET_LIMITED", "USAGE_LIMITED"} -> {"ACTIVE", "PAUSED", "CLEARED"}
    [] OTHER -> {}

\* pause, resume, block, clear, budget_limit, usage_limit
Transition(target, supply) ==
  /\ target \in Allowed(goal.status) \ {"COMPLETE"}
  /\ Saved([goal EXCEPT !.status = target,
                        !.evidence = Recorded(goal.evidence, supply),
                        !.epoch = IF target = "ACTIVE" THEN @ + 1 ELSE @])

\* Mutant: what the evaluation used is not saved with the status.
CompleteUnsaved(supply, results) ==
  /\ "COMPLETE" \in Allowed(goal.status)
  /\ Satisfied(goal, supply, results)
  /\ Saved([goal EXCEPT !.status = "COMPLETE"])

Complete(supply, results) ==
  /\ "COMPLETE" \in Allowed(goal.status)
  /\ Satisfied(goal, supply, results)
  /\ Saved([goal EXCEPT !.status = "COMPLETE",
                        !.criteria = Materialized(goal, results),
                        !.evidence = Recorded(goal.evidence, supply)])

(***************************************************************************)
(* edit and the criteria changes                                           *)
(***************************************************************************)

\* An edit that changes nothing is saved all the same, without a new epoch.
Edit(gates, budget) ==
  /\ goal.status \notin Terminal
  /\ Saved([goal EXCEPT !.gates = gates, !.budget = budget,
                        !.epoch = IF gates # goal.gates \/ budget # goal.budget THEN @ + 1 ELSE @])

\* Mutant: criteria change under a running turn.
ChangeCriteriaQuietly(criteria) ==
  /\ goal.status \notin Terminal
  /\ Saved([goal EXCEPT !.criteria = criteria])

ChangeCriteria(criteria) ==
  /\ goal.status \notin Terminal
  /\ Saved([goal EXCEPT !.criteria = criteria, !.epoch = @ + 1])

CriteriaAdd(k, criterion) ==
  /\ goal.criteria[k].status = "absent"
  /\ ChangeCriteria([goal.criteria EXCEPT ![k] = criterion])

CriteriaRemove(k) ==
  /\ goal.criteria[k].status # "absent"
  /\ ChangeCriteria([goal.criteria EXCEPT ![k] = Absent])

CriteriaClear == ChangeCriteria([k \in Crit |-> Absent])

(***************************************************************************)
(* The host: continuation_contract, a turn of work, record_progress        *)
(***************************************************************************)

\* Mutant: one past the limit.
Passed(limit, used) == limit # Unlimited /\ used > limit

Reached(limit, used) == limit # Unlimited /\ used >= limit

MayContinue == goal.status = "ACTIVE" /\ ~Reached(goal.budget.deadline, now)

\* Mutant: the contract carries the version only.
FetchVersion ==
  /\ MayContinue
  /\ contract' = [version |-> goal.version]
  /\ UNCHANGED <<goal, now, bypassed>>

FetchContract ==
  /\ MayContinue
  /\ contract' = [version |-> goal.version, epoch |-> goal.epoch]
  /\ UNCHANGED <<goal, now, bypassed>>

\* Where the progress leaves the goal: the first limit reached decides.
StatusAfter(g) ==
  IF Reached(g.budget.deadline, now) \/ Reached(g.budget.turns, g.attempts) THEN "BUDGET_LIMITED"
  ELSE IF Reached(g.budget.tokens, g.tokens) THEN "USAGE_LIMITED"
  ELSE IF Reached(g.budget.cost, g.cost)     THEN "BUDGET_LIMITED"
  ELSE IF g.stalled >= g.budget.stall        THEN "BLOCKED"
  ELSE g.status

Progressed(token, tokens, cost, supply) ==
  [goal EXCEPT !.attempts = @ + 1, !.tokens = @ + tokens, !.cost = @ + cost,
               !.stalled = IF goal.token = token THEN @ + 1 ELSE 0,
               !.token = token,
               !.evidence = Recorded(goal.evidence, supply)]

\* Mutant: any version the host was given will do.
KnownVersion == contract.version <= goal.version

CurrentVersion == contract.version = goal.version

RecordProgress(token, tokens, cost, supply) ==
  LET g == Progressed(token, tokens, cost, supply) IN
  /\ goal.status = "ACTIVE"
  /\ contract # NoContract
  /\ CurrentVersion
  /\ goal.version < MaxVersion
  /\ goal' = [g EXCEPT !.status = StatusAfter(g), !.version = @ + 1]
  /\ contract' = NoContract
  /\ UNCHANGED <<now, bypassed>>

Tick ==
  /\ now < MaxTime
  /\ now' = now + 1
  /\ UNCHANGED <<goal, contract, bypassed>>

\* BrainController.transition accepts the kind "goal" and moves it along the same
\* table, with no evaluation and no epoch.
ControllerTransition(target) ==
  /\ target \in Allowed(goal.status)
  /\ goal.version < MaxVersion
  /\ goal' = [goal EXCEPT !.status = target, !.version = @ + 1]
  /\ bypassed' = TRUE
  /\ UNCHANGED <<contract, now>>

Results == [Crit -> Given \cup {Absent}]

Next ==
  \/ \E target \in Status, supply \in Supplies : Transition(target, supply)
  \/ \E supply \in Supplies, results \in Results : Complete(supply, results)
  \/ \E gates \in GateSets, budget \in Budgets : Edit(gates, budget)
  \/ \E k \in Crit, criterion \in Given : CriteriaAdd(k, criterion)
  \/ \E k \in Crit : CriteriaRemove(k)
  \/ CriteriaClear
  \/ FetchContract
  \/ \E token \in Token, tokens \in 0 .. 1, cost \in 0 .. 1, supply \in Supplies :
       RecordProgress(token, tokens, cost, supply)
  \/ Tick
  \/ \E target \in Status : ControllerTransition(target)

Spec == Init /\ [][Next]_vars

(***************************************************************************)
(* Properties                                                              *)
(***************************************************************************)

TypeOK ==
  /\ goal \in Goals
  /\ contract \in [version : Nat, epoch : Nat]
  /\ now \in Nat
  /\ bypassed \in BOOLEAN

\* A goal the owner service completed stands on what it recorded: no criterion is
\* open, every passed criterion and every required gate names evidence the goal
\* holds.  The evaluation works on evidence the call brings along and on results not
\* yet saved; this says that all of it was saved with the status.
CompletionIsEarned ==
  goal.status = "COMPLETE" /\ ~bypassed =>
    Unmet(goal.criteria, goal.evidence) = {} /\ FailedGates(goal, goal.evidence) = {}

\* Progress is recorded only for a turn that the host began under the activation
\* epoch the goal is in now: a turn begun before a pause and resume, an edit or a
\* change of criteria is refused, however late it reports, and whichever path the
\* goal was paused and resumed by.
ProgressIsCurrent ==
  [][goal'.attempts > goal.attempts =>
       contract.epoch = goal.epoch /\ goal.status = "ACTIVE"]_vars

\* The epoch is a fence for the continuation owner: it never goes back, and the owner
\* service moves it whenever a stopped goal becomes active again or its definition of
\* done or budget changes.
EpochFences ==
  [][/\ goal'.epoch >= goal.epoch
     /\ ~bypassed' /\ \/ goal.status # "ACTIVE" /\ goal'.status = "ACTIVE"
                      \/ goal'.gates # goal.gates
                      \/ goal'.budget # goal.budget
                      \/ goal'.status # "COMPLETE" /\ goal'.criteria # goal.criteria
        => goal'.epoch > goal.epoch]_vars

\* Turns are bounded: beyond the largest turn budget a goal ever had, each further
\* turn takes a decision of the operator (resuming does not reset the count, so
\* every resume of an exhausted goal buys one turn).
TurnsAreBounded ==
  (\A budget \in Budgets : budget.turns \in 0 .. MostTurns) /\ ~bypassed
    => goal.attempts + 1 <= MostTurns + goal.epoch

\* "Deterministic verification gates and bound evidence outrank model opinion"
\* (README.md): no gate of a goal the owner service completed rests on model
\* inference alone.
GatesOutrankModelOpinion ==
  goal.status = "COMPLETE" /\ ~bypassed =>
    \A gate \in goal.gates : \E r \in gate : goal.evidence[r] = "hard"
=============================================================================
