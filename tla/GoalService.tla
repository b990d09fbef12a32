----------------------------- MODULE GoalService -----------------------------
(***************************************************************************)
(* The goal service: what its operations do to one goal (Goal), and how    *)
(* operations of several callers take effect (GoalOperations).  A          *)
(* behaviour is one of either part; the other rests.                       *)
(***************************************************************************)
EXTENDS Goal, Sequences

CONSTANTS GoalId, Caller, Op, Variant, CreatedBy, Requests,
          MaxRequests, MaxCrashes, MaxOverruns                  \* GoalOperations

VARIABLES part, history, receipts, locks, pc, req, reported, asked, crashes, overruns

operationVars == <<history, receipts, locks, pc, req, reported, asked, crashes, overruns>>
goalServiceVars == <<part, vars, operationVars>>

Operations == INSTANCE GoalOperations WITH Goal <- GoalId

ASSUME GoalServiceAssumption == Operations!GoalOperationsAssumption

GoalServiceInit ==
  /\ part \in {"goal", "operations"}
  /\ Init /\ Operations!Init

GoalServiceNext ==
  /\ UNCHANGED part
  /\ IF part = "goal" THEN Next ELSE UNCHANGED vars
  /\ IF part = "operations" THEN Operations!Next ELSE UNCHANGED operationVars

GoalServiceSpec == GoalServiceInit /\ [][GoalServiceNext]_goalServiceVars

-----------------------------------------------------------------------------

\* goal.py:385: a receipt is the truth about the past, whoever died and whichever
\* lock was lost: what it names took effect, so no replay invents a success.
ReceiptMeansApplied == Operations!TypeOK /\ Operations!ReceiptMeansApplied

\* goal.py:361: once its receipt is written an operation id never takes effect
\* again, as long as no live caller lost a lock.
ReceiptIsFinal == Operations!ReceiptIsFinal

\* The operations are those of the idempotent store of module IdempotentGoals.
ImplementsIdempotentGoals == Operations!ImplementsIdempotentGoals
=============================================================================
