------------------------------ MODULE Direction ------------------------------
(***************************************************************************)
(* Who owns the strategic direction of a scope, AI-Verse OS or the Brain:  *)
(* DirectionOwnershipService (direction_ownership.py) and the intent       *)
(* writes of BrainController that depend on its answer (controller.py).    *)
(*                                                                         *)
(* All scopes share one registry file.  handover and handback_to_os hold   *)
(* the lock file of their scope, tried once, and inside it the lock file   *)
(* of the registry, polled for ten seconds; every rewrite of the registry  *)
(* replaces the whole file.  Intent writes hold neither lock: they ask for *)
(* the owner, then save.                                                   *)
(*                                                                         *)
(* A statement is the set of items it speaks of: the objective of a        *)
(* workspace is read back as one statement however many lines the handback *)
(* wrote, the sections of the operator as one statement a bullet.  The     *)
(* label a handback puts in front of each line is left out.  Intents are   *)
(* numbered in the order they were saved.  The subtype "goal" stands for   *)
(* the five subtypes a handover imports and a handback exports (goal,      *)
(* desired_state, success_definition, boundary, constraint), "mission" for *)
(* the other three (mission, problem, strategy).  The status "CONFIRMED"   *)
(* stands for CONFIRMED and ACTIVE, "ABANDONED" for the final ones         *)
(* (ABANDONED, ACHIEVED, SUPERSEDED).                                      *)
(***************************************************************************)
EXTENDS Naturals, Sequences, FiniteSets

CONSTANTS
  Client,        \* processes
  Scope,         \* scopes of one AI-Verse OS installation
  Operator,      \* the operator's scope; every other scope is a workspace
  Item,          \* what statements are about
  Horizon,       \* statements of operator/profile/goals.md, which Brain never writes
  FirstSection,  \* the strategic section of each scope before the first handover
  None,
  MaxOperations, \* operations started; resuming an interrupted handover is free
  MaxMishaps     \* crashes, and lock files that expire under a live owner

Statement == (SUBSET Item) \ {{}}

\* What a lock file whose owner is gone looks like to everyone else.
Orphan == "orphan"

ASSUME DirectionAssumption ==
  /\ Operator \in Scope
  /\ Horizon \subseteq Statement
  /\ FirstSection \in [Scope -> SUBSET Statement]
  /\ Client \cap {None, Orphan} = {}
  /\ {MaxOperations, MaxMishaps} \subseteq Nat

VARIABLES
  registry,      \* .aiverse/direction ownership registry, one record a scope
  section,       \* the strategic section of each scope's CURRENT.md
  intents,       \* the Brain's strategic intents
  late,          \* intents confirmed too late for the handback they met
  scopeLock, registryLock,
  pc, task,
  operations, crashes, overruns

shared == <<registry, section, intents, late>>
locks == <<scopeLock, registryLock>>
bounds == <<operations, crashes, overruns>>
vars == <<shared, locks, pc, task, bounds>>

Holder == Client \cup {None, Orphan}

NoRecord == [owner |-> "os", state |-> "none", refs |-> {}, sources |-> {}]
Record == [owner : {"os", "brain"}, state : {"none", "activating", "active"},
           refs : SUBSET Nat, sources : SUBSET Statement]

NoTask == [op |-> "none", scope |-> None, seen |-> [s \in Scope |-> NoRecord],
           todo |-> {}, refs |-> {}, sources |-> {}, subtype |-> None,
           from |-> None, to |-> None]

Subtype == {"goal", "mission"}
Intent == [scope : Scope, statement : Statement, subtype : Subtype,
           status : {"PROPOSED", "CONFIRMED", "PAUSED", "ABANDONED"}, revision : Nat]

BrainOwns(s) == registry[s].owner = "brain"
Activating(s) == BrainOwns(s) /\ registry[s].state = "activating"
Confirmed(s) == {i \in DOMAIN intents : intents[i].scope = s
                                        /\ intents[i].status = "CONFIRMED"}
\* _brain_direction_items: confirmed intents of the five subtypes.
Exported(s) == {i \in Confirmed(s) : intents[i].subtype = "goal"}
StatementsOf(ids) == {intents[i].statement : i \in ids}

\* _candidates: what a handover would import, duplicates dropped.
Candidates(s) ==
  IF s = Operator THEN Horizon \cup section[s]
  ELSE IF section[s] = {} THEN {}
  ELSE {UNION section[s]}

Init ==
  /\ registry = [s \in Scope |-> NoRecord]
  /\ section = FirstSection
  /\ intents = <<>>
  /\ late = {}
  /\ scopeLock = [s \in Scope |-> None]
  /\ registryLock = None
  /\ pc = [c \in Client |-> "idle"]
  /\ task = [c \in Client |-> NoTask]
  /\ operations = 0 /\ crashes = 0 /\ overruns = 0

Goto(c, label) == pc' = [pc EXCEPT ![c] = label]
ScopeOf(c) == task[c].scope
Reread(c) == task' = [task EXCEPT ![c].seen = registry]
Seen(c) == task[c].seen[ScopeOf(c)]
Save(intent) == intents' = Append(intents, intent)
NewIntent(s, t, subtype, status) ==
  [scope |-> s, statement |-> t, subtype |-> subtype, status |-> status, revision |-> 0]
Advanced(i, status) == [intents[i] EXCEPT !.status = status, !.revision = @ + 1]
\* A rewrite replaces the whole file with the copy last read, one record changed.
Rewrite(c, record) == registry' = [task[c].seen EXCEPT ![ScopeOf(c)] = record]

(***************************************************************************)
(* The two locks                                                           *)
(***************************************************************************)

Start(c, first) ==
  /\ pc[c] = "idle"
  /\ \/ operations < MaxOperations /\ operations' = operations + 1
     \/ first.op = "handover" /\ Activating(first.scope) /\ UNCHANGED operations
  /\ task' = [task EXCEPT ![c] = first]

Request(c, op, s) ==
  /\ Start(c, [NoTask EXCEPT !.op = op, !.scope = s])
  /\ Goto(c, "lock")
  /\ UNCHANGED <<shared, locks, crashes, overruns>>

Handover(c, s) == Request(c, "handover", s)
Handback(c, s) == Request(c, "handback", s)

LockScope(c) ==
  /\ pc[c] = "lock"
  /\ scopeLock[ScopeOf(c)] = None
  /\ scopeLock' = [scopeLock EXCEPT ![ScopeOf(c)] = c]
  /\ Goto(c, IF task[c].op = "handover" THEN "plan" ELSE "guardReturn")
  /\ UNCHANGED <<shared, registryLock, task, bounds>>

\* LockConflict: the scope's lock is tried once.
ScopeBusy(c) ==
  /\ pc[c] = "lock"
  /\ scopeLock[ScopeOf(c)] # None
  /\ Goto(c, "idle")
  /\ task' = [task EXCEPT ![c] = NoTask]
  /\ UNCHANGED <<shared, locks, bounds>>

GuardedBy == [guardRecord |-> "reread", guardResume |-> "resume", guardReturn |-> "return"]

\* Mutant: the registry has no lock of its own.
GuardUnlocked(c) ==
  /\ pc[c] \in DOMAIN GuardedBy
  /\ Goto(c, GuardedBy[pc[c]])
  /\ Reread(c)
  /\ UNCHANGED <<shared, locks, bounds>>

Guard(c) ==
  /\ pc[c] \in DOMAIN GuardedBy
  /\ registryLock = None
  /\ registryLock' = c
  /\ Goto(c, GuardedBy[pc[c]])
  /\ Reread(c)
  /\ UNCHANGED <<shared, scopeLock, bounds>>

\* Ten seconds of polling are over.
GuardTimeout(c) ==
  /\ pc[c] \in DOMAIN GuardedBy
  /\ registryLock # None
  /\ Goto(c, "finish")
  /\ UNCHANGED <<shared, locks, task, bounds>>

\* RuntimeKeyLock removes the file only when the token in it is its own.
LeaveGuard(c) ==
  /\ pc[c] \in {"leave", "leaveThenResume"}
  /\ registryLock' = IF registryLock = c THEN None ELSE registryLock
  /\ Goto(c, IF pc[c] = "leave" THEN "finish" ELSE "guardResume")
  /\ UNCHANGED <<shared, scopeLock, task, bounds>>

\* Mutant: the scope's lock file is not removed.
FinishHolding(c) ==
  /\ pc[c] = "finish"
  /\ Goto(c, "idle")
  /\ task' = [task EXCEPT ![c] = NoTask]
  /\ UNCHANGED <<shared, locks, bounds>>

Finish(c) ==
  /\ pc[c] = "finish"
  /\ scopeLock' = [scopeLock EXCEPT ![ScopeOf(c)] = IF @ = c THEN None ELSE @]
  /\ Goto(c, "idle")
  /\ task' = [task EXCEPT ![c] = NoTask]
  /\ UNCHANGED <<shared, registryLock, bounds>>

(***************************************************************************)
(* handover                                                                *)
(***************************************************************************)

\* An interrupted handover is resumed, a finished one reported; otherwise
\* the OS statements become the candidates.
Plan(c) ==
  /\ pc[c] = "plan"
  /\ \/ /\ BrainOwns(ScopeOf(c))
        /\ Goto(c, IF Activating(ScopeOf(c)) THEN "guardResume" ELSE "finish")
        /\ UNCHANGED task
     \/ /\ ~BrainOwns(ScopeOf(c))
        /\ task' = [task EXCEPT ![c].todo = Candidates(ScopeOf(c)),
                                ![c].sources = Candidates(ScopeOf(c))]
        /\ Goto(c, "stage")
  /\ UNCHANGED <<shared, locks, bounds>>

\* _create_proposed_intent, one candidate.  The owner check of create lets
\* the staging of a handover through whoever owns the scope.
StageIntent(c) ==
  /\ pc[c] = "stage"
  /\ \E t \in task[c].todo :
       /\ Save(NewIntent(ScopeOf(c), t, "goal", "PROPOSED"))
       /\ task' = [task EXCEPT ![c].todo = @ \ {t},
                               ![c].refs = @ \cup {Len(intents) + 1}]
  /\ UNCHANGED <<registry, section, late, locks, pc, bounds>>

Staged(c) ==
  /\ pc[c] = "stage"
  /\ task[c].todo = {}
  /\ Goto(c, "guardRecord")
  /\ UNCHANGED <<shared, locks, task, bounds>>

\* Someone else's handover of this scope got there first: its record stays
\* and this one's staged intents are left behind.
AlreadyHandedOver(c) ==
  /\ pc[c] = "reread"
  /\ Seen(c).owner = "brain"
  /\ Goto(c, IF Seen(c).state = "activating" THEN "leaveThenResume" ELSE "leave")
  /\ UNCHANGED <<shared, locks, task, bounds>>

WriteActivating(c) ==
  /\ pc[c] = "reread"
  /\ Seen(c).owner # "brain"
  /\ Rewrite(c, [owner |-> "brain", state |-> "activating",
                 refs |-> task[c].refs, sources |-> task[c].sources])
  /\ Goto(c, "leaveThenResume")
  /\ UNCHANGED <<section, intents, late, locks, task, bounds>>

\* _resume_pending: only a pending record goes on.
Resume(c) ==
  /\ pc[c] = "resume"
  /\ IF Seen(c).owner = "brain" /\ Seen(c).state = "activating"
       THEN /\ task' = [task EXCEPT ![c].todo = Seen(c).refs]
            /\ Goto(c, "confirm")
       ELSE /\ Goto(c, "leave")
            /\ UNCHANGED task
  /\ UNCHANGED <<shared, locks, bounds>>

\* One ref: confirmed now, or found confirmed by an earlier attempt.
ConfirmRef(c) ==
  /\ pc[c] = "confirm"
  /\ \E i \in task[c].todo :
       /\ \/ /\ intents[i].status = "PROPOSED"
             /\ BrainOwns(ScopeOf(c))
             /\ intents' = [intents EXCEPT ![i] = Advanced(i, "CONFIRMED")]
          \/ /\ intents[i].status = "CONFIRMED"
             /\ UNCHANGED intents
       /\ task' = [task EXCEPT ![c].todo = @ \ {i}]
  /\ UNCHANGED <<registry, section, late, locks, pc, bounds>>

\* A ref that cannot be confirmed ends the attempt with an error.
RefuseRef(c) ==
  /\ pc[c] = "confirm"
  /\ \E i \in task[c].todo :
       \/ intents[i].status \in {"PAUSED", "ABANDONED"}
       \/ intents[i].status = "PROPOSED" /\ ~BrainOwns(ScopeOf(c))
  /\ Goto(c, "leave")
  /\ UNCHANGED <<shared, locks, task, bounds>>

\* Mutant: the record becomes active before the last intent is confirmed.
ActivateEarly(c) ==
  /\ pc[c] = "confirm"
  /\ Rewrite(c, [Seen(c) EXCEPT !.state = "active"])
  /\ Goto(c, "leave")
  /\ UNCHANGED <<section, intents, late, locks, task, bounds>>

\* Mutant: a resumed handover forgets to store the new state.
ActivateUnsaved(c) ==
  /\ pc[c] = "confirm"
  /\ task[c].todo = {}
  /\ Goto(c, "leave")
  /\ UNCHANGED <<shared, locks, task, bounds>>

Activate(c) ==
  /\ pc[c] = "confirm"
  /\ task[c].todo = {}
  /\ Rewrite(c, [Seen(c) EXCEPT !.state = "active"])
  /\ Goto(c, "leave")
  /\ UNCHANGED <<section, intents, late, locks, task, bounds>>

(***************************************************************************)
(* handback_to_os                                                          *)
(***************************************************************************)

\* The owner, the pending state and an empty export are refused.
RefuseReturn(c) ==
  /\ pc[c] = "return"
  /\ \/ Seen(c).owner # "brain"
     \/ Seen(c).state # "active"
     \/ Exported(ScopeOf(c)) = {}
  /\ Goto(c, "leave")
  /\ UNCHANGED <<shared, locks, task, bounds>>

CollectExport(c) ==
  /\ pc[c] = "return"
  /\ Seen(c).owner = "brain" /\ Seen(c).state = "active"
  /\ Exported(ScopeOf(c)) # {}
  /\ task' = [task EXCEPT ![c].refs = Exported(ScopeOf(c)),
                          ![c].sources = StatementsOf(Exported(ScopeOf(c)))]
  /\ late' = late \ Exported(ScopeOf(c))
  /\ Goto(c, "export")
  /\ UNCHANGED <<registry, section, intents, locks, bounds>>

\* Mutant: the export is appended to a file of its own only.
ExportCopyOnly(c) ==
  /\ pc[c] = "export"
  /\ Goto(c, "flip")
  /\ Reread(c)
  /\ UNCHANGED <<shared, locks, bounds>>

\* CURRENT.md is replaced, then the registry is read again.
Export(c) ==
  /\ pc[c] = "export"
  /\ section' = [section EXCEPT ![ScopeOf(c)] = task[c].sources]
  /\ Reread(c)
  /\ Goto(c, "flip")
  /\ UNCHANGED <<registry, intents, late, locks, bounds>>

Flip(c) ==
  /\ pc[c] = "flip"
  /\ IF Seen(c).owner = "brain" /\ Seen(c).state = "active"
       THEN Rewrite(c, [Seen(c) EXCEPT !.owner = "os", !.refs = task[c].refs])
       ELSE UNCHANGED registry
  /\ Goto(c, "leave")
  /\ UNCHANGED <<section, intents, late, locks, task, bounds>>

(***************************************************************************)
(* Intent writes of the controller: check the owner, then save             *)
(***************************************************************************)

\* The save comes after a handback of the scope has collected its export.
TooLate(s) ==
  \/ ~BrainOwns(s)
  \/ \E d \in Client : ScopeOf(d) = s /\ pc[d] \in {"export", "flip"}

Written(c, ids) ==
  /\ late' = IF task[c].to = "CONFIRMED" /\ TooLate(ScopeOf(c)) THEN late \cup ids ELSE late
  /\ Goto(c, "idle")
  /\ task' = [task EXCEPT ![c] = NoTask]
  /\ UNCHANGED <<registry, section, locks, bounds>>

\* create with explicit user authority: a new confirmed statement.
DeclareIntent(c, s, t, subtype) ==
  /\ BrainOwns(s)
  /\ Start(c, [NoTask EXCEPT !.op = "declare", !.scope = s, !.sources = {t},
                             !.subtype = subtype, !.to = "CONFIRMED"])
  /\ Goto(c, "create")
  /\ UNCHANGED <<shared, locks, crashes, overruns>>

SaveDeclared(c) ==
  /\ pc[c] = "create"
  /\ \E t \in task[c].sources :
       Save(NewIntent(ScopeOf(c), t, task[c].subtype, "CONFIRMED"))
  /\ Written(c, {Len(intents) + 1})

Moves == [PROPOSED |-> {"CONFIRMED", "ABANDONED"}, CONFIRMED |-> {"PAUSED", "ABANDONED"},
          PAUSED |-> {"CONFIRMED", "ABANDONED"}, ABANDONED |-> {}]

\* transition loads the intent, asks for the owner and saves against the
\* revision it loaded.
ChangeIntent(c, i, target) ==
  /\ i \in DOMAIN intents
  /\ target \in Moves[intents[i].status]
  /\ BrainOwns(intents[i].scope)
  /\ Start(c, [NoTask EXCEPT !.op = "change", !.scope = intents[i].scope, !.refs = {i},
                             !.from = intents[i].revision, !.to = target])
  /\ Goto(c, "change")
  /\ UNCHANGED <<shared, locks, crashes, overruns>>

SaveChanged(c) ==
  /\ pc[c] = "change"
  /\ LET stale == {i \in task[c].refs : intents[i].revision # task[c].from}
     IN /\ intents' = [i \in DOMAIN intents |-> IF i \in task[c].refs \ stale
                                                THEN Advanced(i, task[c].to)
                                                ELSE intents[i]]
        /\ Written(c, task[c].refs \ stale)

(***************************************************************************)
(* Crashes and expired locks                                               *)
(***************************************************************************)

\* The process dies; its lock files stay behind.
Crash(c) ==
  /\ pc[c] # "idle"
  /\ crashes + overruns < MaxMishaps
  /\ crashes' = crashes + 1
  /\ scopeLock' = [s \in Scope |-> IF scopeLock[s] = c THEN Orphan ELSE scopeLock[s]]
  /\ registryLock' = IF registryLock = c THEN Orphan ELSE registryLock
  /\ Goto(c, "idle")
  /\ task' = [task EXCEPT ![c] = NoTask]
  /\ UNCHANGED <<shared, operations, overruns>>

\* An expired lock file is unlinked by the next process that wants it.
Reclaim ==
  /\ \/ /\ registryLock = Orphan
        /\ registryLock' = None
        /\ UNCHANGED scopeLock
     \/ \E s \in Scope :
          /\ scopeLock[s] = Orphan
          /\ scopeLock' = [scopeLock EXCEPT ![s] = None]
          /\ UNCHANGED registryLock
  /\ UNCHANGED <<shared, pc, task, bounds>>

\* So is that of an owner that is only slow: staging or confirming many intents
\* may take longer than the sixty seconds of either lock.
Overrun ==
  /\ crashes + overruns < MaxMishaps
  /\ overruns' = overruns + 1
  /\ \/ /\ registryLock \in Client
        /\ registryLock' = None
        /\ UNCHANGED scopeLock
     \/ \E s \in Scope :
          /\ scopeLock[s] \in Client
          /\ scopeLock' = [scopeLock EXCEPT ![s] = None]
          /\ UNCHANGED registryLock
  /\ UNCHANGED <<shared, pc, task, operations, crashes>>

HandoverStep(c) ==
  \/ Plan(c) \/ StageIntent(c) \/ Staged(c)
  \/ AlreadyHandedOver(c) \/ WriteActivating(c)
  \/ Resume(c) \/ ConfirmRef(c) \/ RefuseRef(c) \/ Activate(c)

HandbackStep(c) == RefuseReturn(c) \/ CollectExport(c) \/ Export(c) \/ Flip(c)

Step(c) ==
  \/ LockScope(c) \/ ScopeBusy(c) \/ Guard(c) \/ LeaveGuard(c) \/ Finish(c)
  \/ HandoverStep(c) \/ HandbackStep(c)
  \/ SaveDeclared(c) \/ SaveChanged(c)

Next ==
  \/ \E c \in Client :
       \/ \E s \in Scope : Handover(c, s) \/ Handback(c, s)
       \/ \E s \in Scope, x \in Item, subtype \in Subtype : DeclareIntent(c, s, {x}, subtype)
       \/ \E i \in DOMAIN intents, target \in {"CONFIRMED", "PAUSED", "ABANDONED"} :
            ChangeIntent(c, i, target)
       \/ Step(c) \/ GuardTimeout(c) \/ Crash(c)
  \/ Reclaim
  \/ Overrun

Spec == Init /\ [][Next]_vars

(***************************************************************************)
(* Fairness: a process goes on, the polled lock is got in the end, a lock  *)
(* left behind expires, and an interrupted handover is run again: that the *)
(* user does so is the recovery the comment in handover counts on.         *)
(***************************************************************************)
Fairness ==
  /\ \A c \in Client : /\ WF_vars(Step(c))
                       /\ SF_vars(LockScope(c))
                       /\ SF_vars(Guard(c))
  /\ \A s \in Scope : SF_vars(\E c \in Client : Activating(s) /\ Handover(c, s))
  /\ WF_vars(Reclaim)

FairSpec == Spec /\ Fairness

(***************************************************************************)
(* Properties                                                              *)
(***************************************************************************)

TypeOK ==
  /\ registry \in [Scope -> Record]
  /\ section \in [Scope -> SUBSET Statement]
  /\ intents \in Seq(Intent)
  /\ late \subseteq DOMAIN intents
  /\ scopeLock \in [Scope -> Holder]
  /\ registryLock \in Holder
  /\ \A s \in Scope : registry[s].refs \subseteq DOMAIN intents
  /\ \A c \in Client :
       \/ task[c].scope \in Scope
       \/ /\ pc[c] = "idle" /\ task[c] = NoTask
          /\ registryLock # c /\ \A s \in Scope : scopeLock[s] # c
  /\ operations \in 0 .. MaxOperations
  /\ crashes \in Nat /\ overruns \in Nat
  /\ crashes + overruns <= MaxMishaps

\* Ownership of a scope moves from the OS to a pending handover, from there
\* to the Brain, and back to the OS, never otherwise; completing a handover
\* keeps what it imported.  A record that another scope's rewrite of the
\* shared file put back to an older value would take a forbidden step.  No
\* lock must have expired under its owner.
OwnershipMoves(before, after) ==
  \/ /\ before.owner = "os" /\ after.owner = "brain" /\ after.state = "activating"
  \/ /\ before.owner = "brain" /\ before.state = "activating"
     /\ after = [before EXCEPT !.state = "active"]
  \/ /\ before.owner = "brain" /\ before.state = "active"
     /\ after.owner = "os" /\ after.refs # {}

OwnershipCycle ==
  [][overruns' = 0 => \A s \in Scope :
       registry'[s] = registry[s] \/ OwnershipMoves(registry[s], registry'[s])]_vars

\* A scope whose handover is complete has every OS statement it imported in
\* an intent of its own that is past the proposal, whatever crashed on the
\* way and however often it was resumed.
ActiveMeansImported ==
  \A s \in Scope : registry[s].owner = "brain" /\ registry[s].state = "active" =>
    /\ \A i \in registry[s].refs : intents[i].scope = s /\ intents[i].status # "PROPOSED"
    /\ registry[s].sources = StatementsOf(registry[s].refs)

\* When ownership goes back to the OS, the OS section carries every statement
\* of the Brain for that scope that is confirmed and of one of the five
\* exported subtypes, but for those confirmed after the handback had collected
\* its export.  A problem, mission or strategy (subtype "mission") is not exported.
ReturnCarriesDirection ==
  [][overruns' = 0 => \A s \in Scope :
       BrainOwns(s) /\ registry'[s].owner = "os" =>
         StatementsOf(Exported(s) \ late) \subseteq section'[s]]_vars

\* A handover interrupted while its intents were being confirmed is brought
\* to its end by running it again, unless one of its intents was paused or
\* abandoned meanwhile: then every further attempt, and every handback, refuses.
HandoverCompletes ==
  \A s \in Scope :
    Activating(s) ~> \/ ~Activating(s)
                     \/ \E i \in registry[s].refs : intents[i].status \in {"PAUSED", "ABANDONED"}

\* protocol/PURPOSE-STRATEGIC-INTENTS.md: Brain may confirm strategic Intent
\* only when it is the active direction owner of that exact scope.
OnlyOwnerConfirms ==
  [][\A i \in DOMAIN intents' :
       (i \in DOMAIN intents => intents[i].status = "PROPOSED")
         /\ intents'[i].status = "CONFIRMED" => BrainOwns(intents'[i].scope)]_vars
=============================================================================
