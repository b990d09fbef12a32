------------------------------- MODULE Services -------------------------------
(***************************************************************************)
(* The services that keep one kind of object each, and the lock most of    *)
(* them take.  They share the store, whose promise (ObjectStore) each of   *)
(* them builds on, and no object: a behaviour is one of a single part,     *)
(* picked in the beginning, while the others rest.                         *)
(***************************************************************************)
EXTENDS KeyLock, FiniteSets

CONSTANTS
  Worker,
  \* Strategies
  Strategy, Base, Restoration, MaxStrategyCalls, MaxStrategyCrashes, MaxOutcomes,
  \* Beliefs
  Never, MaxAge, LastDay, MaxBeliefCalls, MaxBeliefCrashes,
  \* Objectives
  Objective, Crit, StateToken, Cap, MaxAttempts, StallAfter, Floor, Beginnings, Evaluations,
  MaxWorkCalls, MaxWorkCrashes,
  \* Initiatives
  Opportunity, Initiative, Gap, Elder, WipCap, Cooldown, LastCooldownDay,
  MaxProposalCalls, MaxProposalCrashes,
  \* Proposals
  Copy, MaxApplyCalls, MaxApplyCrashes, MaxRevivals,
  \* Learning
  Draft, Ref, Class, Batches, MaxLearningCalls, MaxLearningCrashes,
  \* Lifecycle
  MaxCommands, MaxCommandCrashes, MaxEdits

VARIABLES
  part,
  rule, previous, sound, restoration, call, tangled, strategyCalls, strategyCrashes, outcomes,
  belief, today, handling, challenged, beliefCalls, beliefCrashes,
  objective, working, excused, raced, workCalls, workCrashes,
  status, source, eligible, settled, day, proposing, fence, overtaken, cutShort,
  proposalCalls, proposalCrashes,
  kind, copy, grounds, applying, candidate, deliveries, crossed, unmarked, revived, applyCalls,
  applyCrashes,
  learning, draft, tending, overruled, doubled, crowded, learningCalls, learningCrashes,
  registry, edits, lockFile, marker, identities, owner, command, overlapped, silently, squeezed,
  unseen, commands, commandCrashes

Strategies == INSTANCE Strategies
Beliefs == INSTANCE Beliefs
Objectives == INSTANCE Objectives
Initiatives == INSTANCE Initiatives WITH LastDay <- LastCooldownDay
Proposals == INSTANCE Proposals
Learning == INSTANCE Learning
Lifecycle == INSTANCE Lifecycle

ASSUME ServicesAssumption ==
  /\ IsFiniteSet(Worker) /\ None \notin Worker
  \* Strategies
  /\ IsFiniteSet(Strategy) /\ Base \in Strategy /\ None \notin Strategy /\ "outdated" \notin Strategy
  /\ MaxStrategyCalls \in Nat /\ MaxStrategyCrashes \in Nat /\ MaxOutcomes \in Nat
  \* Beliefs
  /\ LastDay \in Nat /\ MaxBeliefCalls \in Nat /\ MaxBeliefCrashes \in Nat
  \* Objectives: none passed before the run, and what is handed in is an evaluation
  /\ IsFiniteSet(Objective)
  /\ Cap \in Nat /\ MaxAttempts \in Nat \ {0} /\ Floor \in 0 .. 3
  /\ Beginnings \subseteq Objectives!Status \ {"PASSED"} /\ Evaluations \subseteq Objectives!Evaluation
  /\ MaxWorkCalls \in Nat /\ MaxWorkCrashes \in Nat
  \* Initiatives: the three kinds of object have ids of their own
  /\ IsFiniteSet(Opportunity) /\ IsFiniteSet(Initiative) /\ Elder \in Initiative
  /\ Opportunity \cap Initiative = {} /\ Gap \notin Opportunity \cup Initiative
  /\ None \notin Opportunity \cup Initiative
  /\ WipCap \in Nat \ {0} /\ LastCooldownDay \in Nat
  /\ MaxProposalCalls \in Nat /\ MaxProposalCrashes \in Nat
  \* Proposals
  /\ IsFiniteSet(Copy) /\ MaxApplyCalls \in Nat /\ MaxApplyCrashes \in Nat
  /\ MaxRevivals \in Nat
  \* Learning
  /\ IsFiniteSet(Ref) /\ Batches \subseteq [Ref -> Nat] /\ None \notin Draft
  /\ MaxLearningCalls \in Nat /\ MaxLearningCrashes \in Nat
  \* Lifecycle
  /\ MaxCommands \in Nat /\ MaxCommandCrashes \in Nat /\ MaxEdits \in Nat

strategyVars == <<rule, previous, sound, restoration, call, tangled, strategyCalls,
                  strategyCrashes, outcomes>>
beliefVars == <<belief, today, handling, challenged, beliefCalls, beliefCrashes>>
objectiveVars == <<objective, working, excused, raced, workCalls, workCrashes>>
initiativeVars == <<status, source, eligible, settled, day, proposing, fence, overtaken,
                    cutShort, proposalCalls, proposalCrashes>>
proposalVars == <<kind, copy, grounds, applying, candidate, deliveries, crossed, unmarked, revived,
                  applyCalls, applyCrashes>>
learningVars == <<learning, draft, tending, overruled, doubled, crowded, learningCalls,
                  learningCrashes>>
lifecycleVars == <<registry, edits, lockFile, marker, identities, owner, command, overlapped,
                   silently, squeezed, unseen, commands, commandCrashes>>

serviceVars == <<part, vars, strategyVars, beliefVars, objectiveVars, initiativeVars, proposalVars,
               learningVars, lifecycleVars>>

\* A part that rests is in one of its initial states.
ServicesInit ==
  /\ part \in {"lock", "strategies", "beliefs", "objectives", "initiatives", "proposals",
               "learning", "lifecycle"}
  /\ Init /\ Strategies!Init
  /\ Beliefs!Init /\ (part # "beliefs" => belief.expires = Never /\ belief.evidence = Never)
  /\ Objectives!Init /\ (part # "objectives" => \A o \in Objective : objective[o].status = "QUEUED")
  /\ Initiatives!Init /\ (part # "initiatives" => eligible = {} /\ status[Elder] = "ACTIVE")
  /\ Proposals!Init /\ (part # "proposals" => kind = "gap")
  /\ Learning!Init /\ (part # "learning" =>
       learning.refs = CHOOSE refs \in {Learning!Named(batch) : batch \in Batches} : TRUE)
  /\ Lifecycle!Init /\ (part # "lifecycle" => identities = 0)

ServicesNext ==
  /\ UNCHANGED part
  /\ IF part = "lock" THEN Next ELSE UNCHANGED vars
  /\ IF part = "strategies" THEN Strategies!Next ELSE UNCHANGED strategyVars
  /\ IF part = "beliefs" THEN Beliefs!Next ELSE UNCHANGED beliefVars
  /\ IF part = "objectives" THEN Objectives!Next ELSE UNCHANGED objectiveVars
  /\ IF part = "initiatives" THEN Initiatives!Next ELSE UNCHANGED initiativeVars
  /\ IF part = "proposals" THEN Proposals!Next ELSE UNCHANGED proposalVars
  /\ IF part = "learning" THEN Learning!Next ELSE UNCHANGED learningVars
  /\ IF part = "lifecycle" THEN Lifecycle!Next ELSE UNCHANGED lifecycleVars

ServicesSpec == ServicesInit /\ [][ServicesNext]_serviceVars

-----------------------------------------------------------------------------

\* The part that is running stays within its types.
ServicesTypeOK ==
  CASE part = "strategies" -> Strategies!TypeOK [] part = "beliefs" -> Beliefs!TypeOK
    [] part = "objectives" -> Objectives!TypeOK [] part = "initiatives" -> Initiatives!TypeOK
    [] part = "proposals" -> Proposals!TypeOK [] part = "learning" -> Learning!TypeOK
    [] part = "lifecycle" -> Lifecycle!TypeOK [] OTHER -> TypeOK

\* A chain of strategies keeps one in force through refused and interrupted
\* promotions and rollbacks (strategy_revision.py:80), and a learning that is a
\* strategy candidate names the strategy made of it (learning.py:566).
StrategiesHold == Strategies!ChainStaysInForce /\ Learning!NamesItsStrategy

\* Contradicting evidence is not undone by a slower call that looked before it
\* came: neither on a belief (freshness.py:136) nor on a learning (learning.py:397).
ContradictionSticks == Beliefs!ContradictionSticks /\ Learning!NeverOverruled

\* What passed was verified at its level (evaluator.py), and what counts as
\* learned rests on the evidence its rung asks for (learning.py:389).
VerdictsAreEarned == Objectives!PassedIsVerified /\ Learning!ValidationIsEarned

\* Objectives and initiatives at work stay within the caps of the policy
\* (controller.py:148), but for counts that another one outdated, and an objective
\* takes no attempt past its budget (progress.py:97), but for those its owner set
\* running again or its recorder failed to block.
LimitsHold == Objectives!WorkIsCapped /\ Initiatives!WipIsCapped /\ Objectives!AttemptsAreBounded

\* One thing of a fingerprint is in play (direction.py), and a proposal that is
\* applied again makes nothing new while what it made is in force
\* (proposal_apply.py:94), but for calls that overlap or are cut short and beliefs
\* that are refreshed after another took their place (freshness.py:181).
AppliedOnce == Initiatives!ProposedOnce /\ Proposals!AppliedOnce

\* Brain stays enabled while it owns direction and disabled when the user
\* disabled it, the entries of others are kept, and an installation keeps its
\* identity, but for the races each part names (lifecycle.py, extension_registry.py).
AttachmentIsHonest ==
  /\ Lifecycle!OwnerStaysEnabled /\ Lifecycle!NeverSilentlyEnabled
  /\ Lifecycle!OthersAreKept /\ Lifecycle!OneIdentity
=============================================================================
