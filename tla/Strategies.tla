------------------------------ MODULE Strategies ------------------------------
(***************************************************************************)
(* Strategy revisions (StrategyRevisionService in strategy_revision.py):   *)
(* a candidate takes the place of the revision it was derived from, and a  *)
(* rollback restores that revision, each by two transitions of two objects *)
(* and, for the rollback, a record of how far it came.  A transition is    *)
(* BrainController.transition: the object is loaded and judged in one step *)
(* and saved in another, which fails when somebody saved it in between.    *)
(*                                                                         *)
(* The lock of a call is on the operation and the strategy it is asked     *)
(* for, not on the chain: a second call of the same kind on the same       *)
(* strategy is refused, every other pair of calls interleaves.  A crashed  *)
(* caller's lock is left to expire, after which the next call gets it.     *)
(***************************************************************************)
EXTENDS Naturals

CONSTANTS Strategy, Base,   \* Base is in force from the start
          Worker,           \* callers of the service
          Restoration,      \* ids of restoration transactions
          None,
          MaxStrategyCalls, MaxStrategyCrashes, MaxOutcomes

VARIABLES rule,        \* status of each strategy rule
          previous,    \* previous_revision_ref
          sound,       \* the strategies assert_strategy_activation lets through
          restoration, \* the files under strategy-restorations
          call,        \* what each worker is doing
          tangled,     \* a reconciliation met a promotion about to retire what it restores
          strategyCalls, strategyCrashes, outcomes

vars == <<rule, previous, sound, restoration, call, tangled,
                  strategyCalls, strategyCrashes, outcomes>>

StrategyStatus == {"absent", "CANDIDATE", "ACTIVE", "RETIRED", "ROLLED_BACK", "REJECTED"}

\* the rows of _TRANSITIONS for strategy_rule that the service takes
Allowed == [s \in StrategyStatus |->
  CASE s = "CANDIDATE" -> {"ACTIVE", "REJECTED"}
    [] s = "ACTIVE" -> {"RETIRED", "ROLLED_BACK"}
    [] s = "RETIRED" -> {"ACTIVE"}
    [] OTHER -> {}]

\* The transition a call makes at each of its stages, by the status it asks for.
Target == [activate |-> "ACTIVE", retirePrevious |-> "RETIRED", undo |-> "RETIRED",
           restore |-> "ACTIVE", rollBack |-> "ROLLED_BACK"]
Notes == [noteRestored |-> "previous_restored", noteCleanup |-> "cleanup_required",
          noteComplete |-> "complete"]

Idle == [op |-> "none", strategy |-> None, at |-> "idle", held |-> None, tx |-> None]

Call == [op : {"none", "promote", "rollback", "reconcile"}, strategy : Strategy \cup {None},
         at : {"idle"} \cup DOMAIN Target \cup DOMAIN Notes,
         held : Strategy \cup {None, "outdated"}, tx : Restoration \cup {None}]

Init ==
  /\ rule = [s \in Strategy |-> IF s = Base THEN "ACTIVE" ELSE "absent"]
  /\ previous = [s \in Strategy |-> None]
  /\ sound = {Base}
  /\ restoration = [r \in Restoration |-> [current |-> None, state |-> "none"]]
  /\ call = [w \in Worker |-> Idle]
  /\ tangled = FALSE
  /\ strategyCalls = 0 /\ strategyCrashes = 0 /\ outcomes = 0

\* The object a stage works on: one of the two ends of the link.
Subject(c) == IF c.at \in {"retirePrevious", "restore"} THEN previous[c.strategy] ELSE c.strategy

After(c) ==
  CASE c.at = "activate" -> IF previous[c.strategy] = None THEN "idle" ELSE "retirePrevious"
    [] c.at = "restore" -> "noteRestored"
    [] c.at = "rollBack" -> "noteComplete"
    [] c.at = "noteRestored" -> "rollBack"
    [] OTHER -> "idle"

\* Mutant: the current strategy is rolled back though the previous one was not restored.
OtherwiseRegardless(c) ==
  CASE c.at = "retirePrevious" -> "undo"
    [] c.at = "restore" -> "rollBack"
    [] c.at = "rollBack" /\ c.op = "rollback" -> "noteCleanup"
    [] OTHER -> "idle"

\* where a call goes whose transition raised
Otherwise(c) ==
  CASE c.at = "retirePrevious" -> "undo"
    [] c.at = "rollBack" /\ c.op = "rollback" -> "noteCleanup"
    [] OTHER -> "idle"

GoOn(c, stage) == IF stage = "idle" THEN Idle ELSE [c EXCEPT !.at = stage, !.held = None]

\* A save of s makes the copies that the other calls hold of it outdated.
Outdated(s, calls) ==
  [w \in Worker |-> IF calls[w].held = s THEN [calls[w] EXCEPT !.held = "outdated"] ELSE calls[w]]

Permitted(s, target) == target \in Allowed[rule[s]] /\ (target = "ACTIVE" => s \in sound)

-----------------------------------------------------------------------------
\* Transitions

Load(w) ==
  /\ call[w].at \in DOMAIN Target /\ call[w].held = None
  /\ Permitted(Subject(call[w]), Target[call[w].at])
  /\ call' = [call EXCEPT ![w].held = Subject(call[w])]
  /\ UNCHANGED <<rule, previous, sound, restoration, tangled, strategyCalls, strategyCrashes, outcomes>>

Save(w) ==
  /\ call[w].at \in DOMAIN Target /\ call[w].held = Subject(call[w])
  /\ rule' = [rule EXCEPT ![call[w].held] = Target[call[w].at]]
  /\ call' = Outdated(call[w].held, [call EXCEPT ![w] = GoOn(@, After(@))])
  /\ UNCHANGED <<previous, sound, restoration, tangled, strategyCalls, strategyCrashes, outcomes>>

\* the transition is not allowed, or its save finds another revision
Refused(w) ==
  /\ call[w].at \in DOMAIN Target
  /\ \/ call[w].held = None /\ ~Permitted(Subject(call[w]), Target[call[w].at])
     \/ call[w].held = "outdated"
  /\ call' = [call EXCEPT ![w] = GoOn(@, Otherwise(@))]
  /\ UNCHANGED <<rule, previous, sound, restoration, tangled, strategyCalls, strategyCrashes, outcomes>>

Note(w) ==
  /\ call[w].at \in DOMAIN Notes
  /\ restoration' = [restoration EXCEPT ![call[w].tx].state = Notes[call[w].at]]
  /\ call' = [call EXCEPT ![w] = GoOn(@, After(@))]
  /\ UNCHANGED <<rule, previous, sound, tangled, strategyCalls, strategyCrashes, outcomes>>

-----------------------------------------------------------------------------
\* Operations

\* a strategy, the one it was derived from, and so on
Closed(S) == \A s \in S : previous[s] # None => previous[s] \in S
Line(s) == {t \in Strategy : \A S \in SUBSET Strategy : s \in S /\ Closed(S) => t \in S}
SameChain(s, t) == Line(s) \cap Line(t) # {}

\* A promotion is about to retire the strategy that s was derived from.
Meets(s) == \E w \in Worker : call[w].at = "retirePrevious" /\ previous[call[w].strategy] = previous[s]

Counted == strategyCalls < MaxStrategyCalls /\ strategyCalls' = strategyCalls + 1

\* LearningService.create_strategy_candidate, and link_previous when p is given.
\* A candidate is derived with or without the evidence its activation needs.
Derive(s, p, fit) ==
  /\ rule[s] = "absent"
  /\ p # None => rule[p] = "ACTIVE"
  /\ Counted
  /\ rule' = [rule EXCEPT ![s] = "CANDIDATE"]
  /\ previous' = [previous EXCEPT ![s] = p]
  /\ sound' = IF fit THEN sound \cup {s} ELSE sound
  /\ UNCHANGED <<restoration, call, tangled, strategyCrashes, outcomes>>

\* the key lock of the call: none of this kind is under way for s
Unlocked(op, s) == \A w \in Worker : ~(call[w].op = op /\ call[w].strategy = s)

Promote(w, s) ==
  /\ call[w] = Idle
  /\ rule[s] # "absent"
  /\ previous[s] # None =>
       Unlocked("promote", s) /\ rule[s] = "CANDIDATE" /\ rule[previous[s]] = "ACTIVE"
  /\ Counted
  /\ call' = [call EXCEPT ![w] = [Idle EXCEPT !.op = "promote", !.strategy = s, !.at = "activate"]]
  /\ UNCHANGED <<rule, previous, sound, restoration, tangled, strategyCrashes, outcomes>>

\* The record is written before the states are judged, so a refused rollback
\* leaves one behind.
Rollback(w, s, r) ==
  /\ call[w] = Idle
  /\ previous[s] # None /\ Unlocked("rollback", s)
  /\ restoration[r].state = "none"
  /\ Counted
  /\ LET done == rule[s] = "ROLLED_BACK" /\ rule[previous[s]] = "ACTIVE"
         fit == rule[s] = "ACTIVE" /\ rule[previous[s]] = "RETIRED"
     IN  /\ restoration' = [restoration EXCEPT
              ![r] = [current |-> s, state |-> IF done THEN "complete" ELSE "prepared"]]
         /\ call' = IF fit
                    THEN [call EXCEPT ![w] = [Idle EXCEPT
                            !.op = "rollback", !.strategy = s, !.at = "restore", !.tx = r]]
                    ELSE call
  /\ UNCHANGED <<rule, previous, sound, tangled, strategyCrashes, outcomes>>

\* reconcile takes no lock
Reconcile(w, r) ==
  /\ call[w] = Idle
  /\ restoration[r].current # None
  /\ LET s == restoration[r].current
     IN  /\ rule[previous[s]] = "ACTIVE"
         /\ \/ /\ rule[s] = "ROLLED_BACK"
               /\ restoration' = [restoration EXCEPT ![r].state = "complete"]
               /\ restoration # restoration'
               /\ UNCHANGED <<call, tangled>>
            \/ /\ rule[s] = "ACTIVE"
               /\ call' = [call EXCEPT ![w] = [Idle EXCEPT
                     !.op = "reconcile", !.strategy = s, !.at = "rollBack", !.tx = r]]
               /\ tangled' = (tangled \/ Meets(s))
               /\ UNCHANGED restoration
  /\ UNCHANGED <<rule, previous, sound, strategyCalls, strategyCrashes, outcomes>>

\* record_strategy_outcome: a save of the rule in whatever status
RecordOutcome(s, passed) ==
  /\ rule[s] # "absent"
  /\ outcomes < MaxOutcomes /\ outcomes' = outcomes + 1
  /\ sound' = IF passed THEN sound \cup {s} ELSE sound \ {s}
  /\ call' = Outdated(s, call)
  /\ UNCHANGED <<rule, previous, restoration, tangled, strategyCalls, strategyCrashes>>

Crash(w) ==
  /\ call[w] # Idle
  /\ strategyCrashes < MaxStrategyCrashes /\ strategyCrashes' = strategyCrashes + 1
  /\ call' = [call EXCEPT ![w] = Idle]
  /\ UNCHANGED <<rule, previous, sound, restoration, tangled, strategyCalls, outcomes>>

Step(w) == Load(w) \/ Save(w) \/ Refused(w) \/ Note(w)

Next ==
  \/ \E w \in Worker :
       \/ Step(w) \/ Crash(w)
       \/ \E s \in Strategy : Promote(w, s) \/ \E r \in Restoration : Rollback(w, s, r)
       \/ \E r \in Restoration : Reconcile(w, r)
  \/ \E s \in Strategy : \/ \E p \in Strategy \cup {None}, fit \in BOOLEAN : Derive(s, p, fit)
                         \/ \E passed \in BOOLEAN : RecordOutcome(s, passed)

Spec == Init /\ [][Next]_vars

-----------------------------------------------------------------------------

TypeOK ==
  /\ rule \in [Strategy -> StrategyStatus]
  /\ previous \in [Strategy -> Strategy \cup {None}]
  /\ sound \subseteq Strategy
  /\ restoration \in [Restoration -> [current : Strategy \cup {None},
       state : {"none", "prepared", "previous_restored", "cleanup_required", "complete"}]]
  /\ call \in [Worker -> Call]
  /\ tangled \in BOOLEAN
  /\ strategyCalls \in 0 .. MaxStrategyCalls
  /\ strategyCrashes \in 0 .. MaxStrategyCrashes
  /\ outcomes \in 0 .. MaxOutcomes

\* promote_revision activates before it retires, and rollback restores before
\* it rolls back: whatever is refused or dies in between, and whatever other
\* call meets it, a chain that had a strategy in force has one; but for a
\* reconciliation, which takes no lock, of a revision whose promotion, or that
\* of another one in its place, is about to retire what it restores.
ChainStaysInForce ==
  ~tangled => \A s \in Strategy : rule[s] \in {"RETIRED", "ROLLED_BACK"} =>
    \E t \in Strategy : SameChain(s, t) /\ rule[t] = "ACTIVE"

=============================================================================
