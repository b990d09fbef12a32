------------------------------- MODULE Recovery -------------------------------
(***************************************************************************)
(* What a caller that died leaves behind and the next one clears or        *)
(* finishes: a lock file (KeyLock), the correction of an intent (Intents)  *)
(* and the adoption of a standalone Brain (Adoption).  A behaviour is one  *)
(* of a single part; the others rest.                                      *)
(***************************************************************************)
EXTENDS KeyLock

CONSTANTS Operation, Origin, MaxRevision, MaxCaptureCrashes,  \* Intents
          Worker, MaxAdoptionDeaths                           \* Adoption

\* A call that lost its copy of an intent has none of the intents for it.
ASSUME RecoveryAssumption ==
  /\ {None, "outdated"} \cap (Operation \cup {Origin}) = {} /\ Origin \notin Operation
  /\ MaxCaptureCrashes \in Nat
  /\ None \notin Worker /\ MaxAdoptionDeaths \in Nat

VARIABLES part,
          intent, request, capturing, captureCrashes,
          standalone, retired, staging, native, tx, adopting, looked, met, unnoted, adoptionDeaths

intentVars == <<intent, request, capturing, captureCrashes>>
adoptionVars == <<standalone, retired, staging, native, tx, adopting, looked, met, unnoted, adoptionDeaths>>
recoveryVars == <<part, vars, intentVars, adoptionVars>>

Intents == INSTANCE Intents
Adoption == INSTANCE Adoption

RecoveryInit ==
  /\ part \in {"lock", "intents", "adoption"}
  /\ Init /\ Intents!Init /\ Adoption!Init

RecoveryNext ==
  /\ UNCHANGED part
  /\ IF part = "lock" THEN Next ELSE UNCHANGED vars
  /\ IF part = "intents" THEN Intents!Next ELSE UNCHANGED intentVars
  /\ IF part = "adoption" THEN Adoption!Next ELSE UNCHANGED adoptionVars

\* KeyLock's fairness for a behaviour of that part.  The fair actions of the other
\* two are not enabled while they rest in their initial states.
LockFairness ==
  /\ WF_vars(part = "lock" /\ Age)
  /\ \A p \in Proc : WF_vars(part = "lock" /\ Step(p))

RecoverySteps == RecoveryInit /\ [][RecoveryNext]_recoveryVars

RecoverySpec == RecoverySteps /\ LockFairness /\ Intents!Fairness /\ Adoption!Fairness

-----------------------------------------------------------------------------

\* What was cut short ends when it is sent again: a correction that had retired its
\* intent (intent_owner.py:221) and an adoption that was under way (adoption.py:180),
\* but for the ways out each part names.
ResumesEnd == Intents!CorrectionEnds /\ Adoption!AdoptionEnds

\* intent_owner.py:51: one intent takes the place of another, however the calls
\* of competing operations are cut short and sent again.
OneSuccessor == Intents!TypeOK /\ Intents!OneSuccessor

\* The standalone state is never lost, nor writable next to a native one, and
\* what is recorded as adopted is the whole of it (adoption.py:169).
AdoptionIsSafe ==
  Adoption!TypeOK /\ Adoption!StateIsKept /\ Adoption!OneTruth /\ Adoption!AdoptedIsWhole
=============================================================================
