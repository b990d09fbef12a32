------------------------------ MODULE Objectives ------------------------------
(***************************************************************************)
(* The objectives of one scope: attempts are recorded against a budget     *)
(* (progress.py), evaluations judge the criteria and settle the verdict    *)
(* (evaluator.py), the user moves them by hand, and all of them go through *)
(* BrainController.transition with its cap on parallel objectives and its  *)
(* test of what may pass.  Recording and judging save the content first    *)
(* and move the status with a second load and save.  Every load and every  *)
(* save is a step; the cap is counted in the step that loads.              *)
(***************************************************************************)
EXTENDS Naturals, FiniteSets

CONSTANTS Objective, Worker, Crit, StateToken,
          None,
          Cap,         \* resources.max_parallel_objectives
          MaxAttempts, \* budget.max_attempts of each objective
          StallAfter,  \* its stall_threshold
          Floor,       \* its verification_level, 0 for V0 to 3 for V3
          Beginnings,  \* statuses the objectives are in at first
          Evaluations, \* evaluations that are handed in
          MaxWorkCalls, MaxWorkCrashes

VARIABLES objective,
          working,  \* what each worker is doing
          excused,  \* reasons an exhausted objective had for one more attempt
          raced,    \* objectives made ready on a count that another one outdated
          workCalls, workCrashes

vars == <<objective, working, excused, raced, workCalls, workCrashes>>

\* The rows of _TRANSITIONS for objective.
Moves == [QUEUED |-> {"READY", "CANCELLED", "SUPERSEDED"},
          READY |-> {"RUNNING", "CANCELLED", "SUPERSEDED"},
          RUNNING |-> {"WAITING", "BLOCKED", "STALLED", "VERIFYING", "CANCELLED", "SUPERSEDED"},
          WAITING |-> {"RUNNING", "BLOCKED", "CANCELLED", "SUPERSEDED"},
          BLOCKED |-> {"READY", "RUNNING", "CANCELLED", "SUPERSEDED"},
          STALLED |-> {"READY", "RUNNING", "CANCELLED", "SUPERSEDED"},
          VERIFYING |-> {"PASSED", "FAILED", "INSUFFICIENT_EVIDENCE", "RUNNING"},
          INSUFFICIENT_EVIDENCE |-> {"RUNNING", "VERIFYING", "CANCELLED"},
          FAILED |-> {"READY", "CANCELLED", "SUPERSEDED"},
          PASSED |-> {}, CANCELLED |-> {}, SUPERSEDED |-> {}]
Status == DOMAIN Moves

\* Mutant: an objective under evaluation takes no place.
ActiveStatesButVerifying == {"READY", "RUNNING", "WAITING", "BLOCKED", "STALLED", "INSUFFICIENT_EVIDENCE"}

\* ACTIVE_OBJECTIVE_STATES
ActiveStates ==
  {"READY", "RUNNING", "WAITING", "BLOCKED", "STALLED", "VERIFYING", "INSUFFICIENT_EVIDENCE"}

\* A verdict, and the best class of evidence it names: "weak" stands for the
\* classes between a model's inference and _STRONG_EVIDENCE.
Basis == {"none", "model", "weak", "strong"}
Verdict == [status : {"absent", "passed", "failed", "insufficient_evidence", "not_applicable"}, basis : Basis]
Evaluation == [level : 0 .. 3, independence : 0 .. 3, apart : BOOLEAN, verdicts : [Crit -> Verdict]]

Unverified == [status |-> "insufficient_evidence", basis |-> "none"]

Suffices(basis, level) ==
  CASE level = 0 -> basis # "none"
    [] level = 1 -> basis \in {"weak", "strong"}
    [] OTHER -> basis = "strong"

\* EvaluationResult.validate: apart says that the evaluator's context is not the
\* builder's.
Valid(e) ==
  /\ \A k \in Crit : e.verdicts[k].status = "passed" => Suffices(e.verdicts[k].basis, e.level)
  /\ e.level >= 2 => e.independence >= 1
  /\ e.level >= 3 => e.independence >= 2
  /\ e.independence = 1 => e.apart

Materialized(e) == [k \in Crit |-> IF e.verdicts[k].status = "absent" THEN Unverified ELSE e.verdicts[k]]

\* Mutant: a status that there is not.
ConclusionMisnamed(criteria) ==
  CASE \E k \in Crit : criteria[k].status = "failed" -> "FAILED"
    [] /\ \A k \in Crit : criteria[k].status \in {"passed", "not_applicable"}
       /\ \E k \in Crit : criteria[k].status = "passed" -> "PASSED"
    [] OTHER -> "INSUFFICIENT"

\* what the criteria call for
Conclusion(criteria) ==
  CASE \E k \in Crit : criteria[k].status = "failed" -> "FAILED"
    [] /\ \A k \in Crit : criteria[k].status \in {"passed", "not_applicable"}
       /\ \E k \in Crit : criteria[k].status = "passed" -> "PASSED"
    [] OTHER -> "INSUFFICIENT_EVIDENCE"

\* Mutant: the service's own verdict is not tested again.
PassableUntested(criteria) == TRUE

\* _assert_objective_passable
Passable(criteria) ==
  /\ \A k \in Crit : criteria[k].status \in {"passed", "not_applicable"}
  /\ \E k \in Crit : criteria[k].status = "passed"
  /\ \A k \in Crit : criteria[k].status = "passed" => criteria[k].basis # "none"

Free == [op |-> "none", at |-> "idle", of |-> None, current |-> FALSE, target |-> "QUEUED", overlapped |-> FALSE]
Working == [op : {"none", "attempt", "evaluate", "move"}, at : {"idle", "save", "load", "move"},
            of : Objective \cup {None}, current : BOOLEAN, target : Status, overlapped : BOOLEAN]

Objectives == [status : Status, attempts : Nat, idle : Nat, token : StateToken \cup {None},
               criteria : [Crit -> Verdict]]

Active(objs) == {o \in Objective : objs[o].status \in ActiveStates}
\* neither waiting for their turn nor settled
AtWork(objs) ==
  {o \in Objective : objs[o].status \notin {"QUEUED", "PASSED", "FAILED", "CANCELLED", "SUPERSEDED"}}

Init ==
  /\ \E status \in [Objective -> Beginnings] :
       objective = [o \in Objective |-> [status |-> status[o], attempts |-> 0, idle |-> 0, token |-> None,
                                         criteria |-> [k \in Crit |-> Unverified]]]
  /\ Cardinality(AtWork(objective)) <= Cap
  /\ working = [w \in Worker |-> Free]
  /\ excused = [o \in Objective |-> 0]
  /\ raced = 0 /\ workCalls = 0 /\ workCrashes = 0

Done(calls, w) == [calls EXCEPT ![w] = Free]
Counted == workCalls < MaxWorkCalls /\ workCalls' = workCalls + 1

\* A save of o outdates the copies the other workers hold; when it makes o
\* active, it outdates the counts they took.
Outdated(c, o, changed) ==
  [c EXCEPT !.current = @ /\ c.of # o,
            !.overlapped = @ \/ (changed.status = "READY" /\ c.at = "move")]
Saved(w, o, changed, next) ==
  /\ objective' = [objective EXCEPT ![o] = changed]
  /\ working' = [v \in Worker |-> IF v = w THEN next ELSE Outdated(working[v], o, changed)]

Exhausted(o) == objective[o].attempts >= MaxAttempts

\* A recorder that fails to block an exhausted objective leaves it running.
LeftRunning(w) ==
  excused' = IF working[w].op = "attempt" /\ working[w].at \in {"load", "move"} /\ Exhausted(working[w].of)
             THEN [excused EXCEPT ![working[w].of] = @ + 1] ELSE excused

-----------------------------------------------------------------------------
\* record_attempt

Spent(attempts) == attempts >= MaxAttempts

Attempt(w, o) ==
  /\ working[w] = Free /\ Counted
  /\ objective[o].status = "RUNNING"
  /\ working' = [working EXCEPT ![w] = [Free EXCEPT !.op = "attempt", !.of = o, !.at = "save", !.current = TRUE]]
  /\ UNCHANGED <<objective, excused, raced, workCrashes>>

SaveAttempt(w, token, evidence, blocked) ==
  LET o == working[w].of
      was == objective[o]
      meaningful == was.token \notin {None, token} /\ evidence
      idle == IF was.token = None \/ meaningful THEN 0 ELSE was.idle + 1
      target == IF blocked \/ Spent(was.attempts + 1) THEN "BLOCKED"
                ELSE IF idle >= StallAfter THEN "STALLED"
                ELSE "RUNNING"
  IN /\ working[w].op = "attempt" /\ working[w].at = "save" /\ working[w].current
     /\ Saved(w, o, [was EXCEPT !.attempts = @ + 1, !.idle = idle, !.token = token],
              IF target = "RUNNING" THEN Free
              ELSE [working[w] EXCEPT !.at = "load", !.target = target, !.current = FALSE])
     /\ UNCHANGED <<excused, raced, workCalls, workCrashes>>

-----------------------------------------------------------------------------
\* apply_to_objective, also of what a Skills receipt reports

Evaluate(w, o) ==
  /\ working[w] = Free /\ Counted
  /\ objective[o].status = "VERIFYING"
  /\ working' = [working EXCEPT ![w] = [Free EXCEPT !.op = "evaluate", !.of = o, !.at = "save", !.current = TRUE]]
  /\ UNCHANGED <<objective, excused, raced, workCrashes>>

\* An evaluation that is not valid or below the floor is refused before anything
\* is written.
SaveVerdict(w, e) ==
  LET o == working[w].of
      criteria == Materialized(e)
  IN /\ working[w].op = "evaluate" /\ working[w].at = "save" /\ working[w].current
     /\ Valid(e) /\ e.level >= Floor
     /\ Saved(w, o, [objective[o] EXCEPT !.criteria = criteria],
              [working[w] EXCEPT !.at = "load", !.target = Conclusion(criteria), !.current = FALSE])
     /\ UNCHANGED <<excused, raced, workCalls, workCrashes>>

-----------------------------------------------------------------------------
\* BrainController.transition

MoveByHand(w, o, target) ==
  /\ working[w] = Free /\ Counted
  /\ target \in Moves[objective[o].status]
  /\ working' = [working EXCEPT ![w] = [Free EXCEPT !.op = "move", !.of = o, !.at = "load", !.target = target]]
  /\ UNCHANGED <<objective, excused, raced, workCrashes>>

HasRoom(o) == Cardinality(Active(objective) \ {o}) < Cap

MayMove(o, target) ==
  /\ target \in Moves[objective[o].status]
  /\ target = "READY" /\ objective[o].status \notin ActiveStates => HasRoom(o)
  /\ target = "PASSED" => Passable(objective[o].criteria)

Load(w) ==
  /\ working[w].at = "load"
  /\ MayMove(working[w].of, working[w].target)
  /\ working' = [working EXCEPT ![w].at = "move", ![w].current = TRUE, ![w].overlapped = FALSE]
  /\ UNCHANGED <<objective, excused, raced, workCalls, workCrashes>>

Move(w) ==
  LET o == working[w].of IN
  /\ working[w].at = "move" /\ working[w].current
  /\ Saved(w, o, [objective[o] EXCEPT !.status = working[w].target], Free)
  /\ excused' = IF working[w].target = "RUNNING" /\ Exhausted(o) THEN [excused EXCEPT ![o] = @ + 1] ELSE excused
  /\ raced' = IF working[w].target = "READY" /\ working[w].overlapped THEN raced + 1 ELSE raced
  /\ UNCHANGED <<workCalls, workCrashes>>

\* the transition is not allowed, or a save finds another revision
Refuse(w) ==
  /\ \/ working[w].at = "load" /\ ~MayMove(working[w].of, working[w].target)
     \/ working[w].at \in {"save", "move"} /\ ~working[w].current
  /\ LeftRunning(w)
  /\ working' = Done(working, w)
  /\ UNCHANGED <<objective, raced, workCalls, workCrashes>>

Die(w) ==
  /\ working[w] # Free
  /\ workCrashes < MaxWorkCrashes /\ workCrashes' = workCrashes + 1
  /\ LeftRunning(w)
  /\ working' = Done(working, w)
  /\ UNCHANGED <<objective, raced, workCalls>>

Step(w) ==
  \/ \E token \in StateToken, evidence, blocked \in BOOLEAN : SaveAttempt(w, token, evidence, blocked)
  \/ \E e \in Evaluations : SaveVerdict(w, e)
  \/ Load(w) \/ Move(w) \/ Refuse(w) \/ Die(w)

Next ==
  \E w \in Worker :
    \/ Step(w)
    \/ \E o \in Objective :
         \/ Attempt(w, o) \/ Evaluate(w, o)
         \/ \E target \in Status : MoveByHand(w, o, target)

Spec == Init /\ [][Next]_vars

-----------------------------------------------------------------------------

TypeOK ==
  /\ objective \in [Objective -> Objectives]
  /\ working \in [Worker -> Working]
  /\ excused \in [Objective -> Nat]
  /\ raced \in Nat
  /\ workCalls \in 0 .. MaxWorkCalls /\ workCrashes \in 0 .. MaxWorkCrashes

\* An objective takes no attempt past its budget but one for each time that it
\* was set running again when exhausted, or that its recorder failed to block it;
\* the attempt that is recorded but not yet answered by a block is on its way.
AttemptsAreBounded ==
  \A o \in Objective :
    objective[o].attempts <= MaxAttempts + excused[o] +
      Cardinality({w \in Worker : working[w].op = "attempt" /\ working[w].of = o /\ working[w].at \in {"load", "move"}})

\* An objective that passed stands on criteria that were judged at its level, or
\* above, on evidence good enough for it, whichever evaluator, late transition or
\* hand moved it.
PassedIsVerified ==
  \A o \in Objective : objective[o].status = "PASSED" =>
    /\ Conclusion(objective[o].criteria) = "PASSED"
    /\ \A k \in Crit : objective[o].criteria[k].status = "passed" => Suffices(objective[o].criteria[k].basis, Floor)

\* The objectives that are neither waiting for their turn nor settled stay within
\* the cap, but for those made ready on a count that another one outdated.
WorkIsCapped == Cardinality(AtWork(objective)) <= Cap + raced
=============================================================================
