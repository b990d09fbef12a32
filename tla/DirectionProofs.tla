----------------------------- MODULE DirectionProofs -----------------------------
(***************************************************************************)
(* For every set of processes, scopes and items and all bounds: a scope    *)
(* whose handover is complete has every statement it imported in an intent *)
(* past the proposal, whatever crashed and whatever lock expired; and as   *)
(* long as no lock expired under its owner, ownership only goes round the  *)
(* cycle, and what goes back to the OS carries the Brain's direction.      *)
(***************************************************************************)
EXTENDS Direction, SequenceTheorems, TLAPS

\* The states inside the registry's lock, and those of a handover before its record.
Guarded == {"reread", "resume", "confirm", "return", "export", "flip", "leave", "leaveThenResume"}
Staging == {"stage", "guardRecord", "reread"}
Inside == {"plan", "stage", "guardRecord", "guardResume", "guardReturn", "finish"} \cup Guarded
State == {"idle", "lock", "create", "change"} \cup Inside

Target == {"CONFIRMED", "PAUSED", "ABANDONED"}
Task == [op : {"handover", "handback", "declare", "change"}, scope : Scope, seen : [Scope -> Record],
         todo : SUBSET (Statement \cup Nat), refs : SUBSET Nat, sources : SUBSET Statement,
         subtype : Subtype \cup {None}, from : Nat \cup {None}, to : Target \cup {None}]

Typed ==
  /\ registry \in [Scope -> Record]
  /\ section \in [Scope -> SUBSET Statement]
  /\ intents \in Seq(Intent)
  /\ late \subseteq DOMAIN intents
  /\ scopeLock \in [Scope -> Holder]
  /\ registryLock \in Holder
  /\ pc \in [Client -> State]
  /\ task \in [Client -> Task \cup {NoTask}]
  /\ \A c \in Client : IF pc[c] = "idle" THEN task[c] = NoTask ELSE task[c] \in Task
  /\ operations \in 0 .. MaxOperations
  /\ crashes \in Nat /\ overruns \in Nat /\ crashes + overruns <= MaxMishaps

\* Only a process inside keeps a lock.
Locking ==
  \A c \in Client :
    /\ registryLock = c => pc[c] \in Guarded
    /\ \A s \in Scope : scopeLock[s] = c => pc[c] \in Inside /\ task[c].scope = s

\* The intents of a handover: of its scope, one for each statement.
OfScope(s, ids) == ids \subseteq DOMAIN intents /\ \A i \in ids : intents[i].scope = s
PastProposal(ids) == \A i \in ids : intents[i].status # "PROPOSED"

\* A record, in the registry or in a copy of it, however old.
Sound(s, record) ==
  /\ record.refs \subseteq DOMAIN intents
  /\ record.owner = "brain" =>
       /\ OfScope(s, record.refs)
       /\ record.sources = StatementsOf(record.refs)
       /\ record.state = "active" => PastProposal(record.refs)

\* What a process has done of its operation at each of its steps.
OnItsWay(label, t) ==
  /\ label \in {"lock", "plan"} => t.refs = {}
  /\ label \in Staging => OfScope(t.scope, t.refs)
  /\ label = "stage" => t.todo \subseteq Statement /\ t.sources = StatementsOf(t.refs) \cup t.todo
  /\ label \in {"guardRecord", "reread"} => t.sources = StatementsOf(t.refs)
  /\ label = "confirm" =>
       /\ t.seen[t.scope].owner = "brain" /\ t.seen[t.scope].state = "activating"
       /\ t.todo \subseteq t.seen[t.scope].refs
       /\ PastProposal(t.seen[t.scope].refs \ t.todo)
  /\ label \in {"export", "flip"} => t.refs # {} /\ t.refs \subseteq DOMAIN intents
  /\ label = "create" => t.to = "CONFIRMED" /\ t.subtype \in Subtype
  /\ label = "change" => t.to \in Target /\ OfScope(t.scope, t.refs)

Good(label, t) == OnItsWay(label, t) /\ \A s \in Scope : Sound(s, t.seen[s])

Imports ==
  /\ \A s \in Scope : Sound(s, registry[s])
  /\ \A c \in Client : Good(pc[c], task[c])

\* Inside the registry's lock the copy read is the registry itself, and what is being
\* exported carries every statement to be exported that is not late.
Undisputed(c) ==
  LET s == task[c].scope IN
  /\ pc[c] \in Guarded => registryLock = c
  /\ pc[c] \in Guarded \ {"leave", "leaveThenResume"} => task[c].seen = registry
  /\ pc[c] \in {"export", "flip"} => StatementsOf(Exported(s) \ late) \subseteq task[c].sources
  /\ pc[c] = "flip" => section[s] = task[c].sources

DirectionInv ==
  Typed /\ Locking /\ Imports /\ (overruns = 0 => \A c \in Client : Undisputed(c))

-----------------------------------------------------------------------------
\* The processes of a well-typed state.
Processes ==
  /\ pc \in [Client -> State]
  /\ task \in [Client -> Task \cup {NoTask}]
  /\ \A c \in Client : IF pc[c] = "idle" THEN task[c] = NoTask ELSE task[c] \in Task

LEMMA Busy ==
  ASSUME Typed, NEW c \in Client, pc[c] # "idle"
  PROVE  /\ task[c] \in Task
         /\ ScopeOf(c) \in Scope /\ task[c].seen \in [Scope -> Record] /\ Seen(c) \in Record
         /\ task[c].refs \subseteq Nat /\ task[c].sources \subseteq Statement
         /\ task[c].todo \subseteq Statement \cup Nat
<1>1. task[c] \in Task
  BY DEF Typed
<1>2. QED BY <1>1 DEF Task, ScopeOf, Seen

LEMMA FirstTask ==
  ASSUME NEW op \in {"handover", "handback", "declare", "change"}, NEW s \in Scope, NEW sources,
         sources \subseteq Statement, NEW refs, refs \subseteq Nat, NEW subtype \in Subtype \cup {None},
         NEW from \in Nat \cup {None}, NEW to \in Target \cup {None}
  PROVE  [op |-> op, scope |-> s, seen |-> [t \in Scope |-> NoRecord], todo |-> {}, refs |-> refs,
          sources |-> sources, subtype |-> subtype, from |-> from, to |-> to] \in Task
<1>1. NoRecord \in Record
  BY DEF NoRecord, Record
<1>2. [t \in Scope |-> NoRecord] \in [Scope -> Record]
  BY <1>1
<1>3. QED BY <1>2 DEF Task

\* The registry read again.
LEMMA Rereads ==
  ASSUME Typed, NEW c \in Client, pc[c] # "idle", Reread(c)
  PROVE  /\ [task[c] EXCEPT !.seen = registry] \in Task
         /\ task' = [task EXCEPT ![c] = [task[c] EXCEPT !.seen = registry]]
<1>1. task[c] \in Task /\ registry \in [Scope -> Record]
  BY DEF Typed
<1>2. [task[c] EXCEPT !.seen = registry] \in Task
  BY <1>1 DEF Task
<1>3. QED BY <1>2 DEF Reread

-----------------------------------------------------------------------------
\* Intents are never removed; their scope, their statement, their subtype and the fact
\* that they are past the proposal stay.
Grown ==
  /\ intents' \in Seq(Intent)
  /\ \A i \in DOMAIN intents : /\ i \in DOMAIN intents'
                               /\ intents'[i].scope = intents[i].scope
                               /\ intents'[i].statement = intents[i].statement
                               /\ intents'[i].subtype = intents[i].subtype
                               /\ intents[i].status # "PROPOSED" => intents'[i].status # "PROPOSED"

LEMMA Saves ==
  ASSUME Typed, NEW x \in Intent, Save(x)
  PROVE  /\ intents' \in Seq(Intent)
         /\ DOMAIN intents' = DOMAIN intents \cup {Len(intents) + 1}
         /\ Len(intents) + 1 \in Nat \ DOMAIN intents
         /\ intents'[Len(intents) + 1] = x
         /\ \A i \in DOMAIN intents : intents'[i] = intents[i]
<1>1. /\ intents \in Seq(Intent) /\ Len(intents) \in Nat /\ DOMAIN intents = 1 .. Len(intents)
  BY LenProperties DEF Typed
<1>2. intents' = Append(intents, x)
  BY DEF Save
<1>3. /\ intents' \in Seq(Intent) /\ Len(intents') = Len(intents) + 1
      /\ \A i \in 1 .. Len(intents) : intents'[i] = intents[i]
      /\ intents'[Len(intents) + 1] = x
  BY <1>1, <1>2
<1>4. DOMAIN intents' = 1 .. Len(intents')
  BY <1>3, LenProperties
<1>5. \A l \in Nat : 1 .. (l + 1) = (1 .. l) \cup {l + 1} /\ l + 1 \in Nat \ (1 .. l)
  OBVIOUS
<1>6. PICK l \in Nat : l = Len(intents)
  BY Zenon, <1>1
<1>7. DOMAIN intents' = 1 .. (l + 1) /\ DOMAIN intents = 1 .. l
  BY <1>1, <1>3, <1>4, <1>6
<1>8. QED BY <1>1, <1>3, <1>5, <1>6, <1>7

\* Statuses written over some of the intents.
Rewritten(ids, status) ==
  intents' = [i \in DOMAIN intents |-> IF i \in ids THEN Advanced(i, status) ELSE intents[i]]

LEMMA Advances ==
  ASSUME NEW i, intents[i] \in Intent, NEW status \in Target
  PROVE  LET y == Advanced(i, status)
         IN  /\ y \in Intent /\ y.status = status
             /\ y.scope = intents[i].scope /\ y.statement = intents[i].statement
             /\ y.subtype = intents[i].subtype
<1>1. PICK x \in Intent : x = intents[i]
  OBVIOUS
<1>2. PICK n \in Nat : n = x.revision + 1
  BY DEF Intent
<1>3. Advanced(i, status) = [x EXCEPT !.status = status, !.revision = n]
  BY <1>1, <1>2 DEF Advanced
<1>4. QED BY <1>1, <1>3 DEF Intent, Target

LEMMA Rewrites ==
  ASSUME Typed, NEW ids, NEW status \in Target, Rewritten(ids, status)
  PROVE  /\ Grown /\ DOMAIN intents' = DOMAIN intents
         /\ \A i \in DOMAIN intents : intents'[i].status = IF i \in ids THEN status ELSE intents[i].status
<1>1. /\ intents \in Seq(Intent) /\ Len(intents) \in Nat /\ DOMAIN intents = 1 .. Len(intents)
      /\ \A i \in DOMAIN intents : intents[i] \in Intent
  BY LenProperties, ElementOfSeq DEF Typed
<1>2. ASSUME NEW i \in DOMAIN intents
      PROVE  /\ intents'[i] \in Intent
             /\ intents'[i].scope = intents[i].scope /\ intents'[i].statement = intents[i].statement
             /\ intents'[i].subtype = intents[i].subtype
             /\ intents'[i].status = IF i \in ids THEN status ELSE intents[i].status
  <2>1. intents[i] \in Intent
    BY <1>1, <1>2
  <2>2. CASE i \in ids
    <3>1. intents'[i] = Advanced(i, status)
      BY <1>2, <2>2 DEF Rewritten
    <3>2. QED BY <2>1, <2>2, <3>1, Advances
  <2>3. CASE i \notin ids
    <3>1. intents'[i] = intents[i]
      BY <1>2, <2>3 DEF Rewritten
    <3>2. QED BY <2>1, <2>3, <3>1
  <2>4. QED BY <2>2, <2>3
<1>3. DOMAIN intents' = DOMAIN intents
  BY DEF Rewritten
<1>4. intents' \in [1 .. Len(intents) -> Intent]
  BY <1>1, <1>2 DEF Rewritten
<1>5. intents' \in Seq(Intent)
  BY <1>1, <1>4, SeqDef
<1>6. QED BY <1>2, <1>3, <1>5 DEF Grown, Target

LEMMA NewIsIntent ==
  ASSUME NEW s \in Scope, NEW t \in Statement, NEW subtype \in Subtype,
         NEW status \in {"PROPOSED", "CONFIRMED"}
  PROVE  /\ NewIntent(s, t, subtype, status) \in Intent
         /\ NewIntent(s, t, subtype, status).scope = s /\ NewIntent(s, t, subtype, status).statement = t
         /\ NewIntent(s, t, subtype, status).status = status
BY DEF NewIntent, Intent

LEMMA SavedBy ==
  ASSUME [Next]_vars
  PROVE  \/ UNCHANGED intents
         \/ \E c \in Client : StageIntent(c)
         \/ \E c \in Client : ConfirmRef(c)
         \/ \E c \in Client : SaveDeclared(c)
         \/ \E c \in Client : SaveChanged(c)
BY Zenon DEF Next, vars, shared, Handover, Handback, Request, DeclareIntent, ChangeIntent, Step, LockScope,
       ScopeBusy, Guard, LeaveGuard, Finish, HandoverStep, HandbackStep, Plan, Staged, AlreadyHandedOver,
       WriteActivating, Resume, RefuseRef, Activate, RefuseReturn, CollectExport, Export, Flip,
       GuardTimeout, Crash, Reclaim, Overrun

\* What each of them saves.
LEMMA Stages ==
  ASSUME Typed, Imports, NEW c \in Client, StageIntent(c)
  PROVE  \E t \in task[c].todo :
           /\ NewIntent(ScopeOf(c), t, "goal", "PROPOSED") \in Intent
           /\ Save(NewIntent(ScopeOf(c), t, "goal", "PROPOSED"))
           /\ task' = [task EXCEPT ![c].todo = @ \ {t}, ![c].refs = @ \cup {Len(intents) + 1}]
<1>1. pc[c] = "stage"
  BY DEF StageIntent
<1>2. task[c].todo \subseteq Statement /\ ScopeOf(c) \in Scope
  BY <1>1, Busy DEF Imports, Good, OnItsWay
<1>3. \A t \in task[c].todo : NewIntent(ScopeOf(c), t, "goal", "PROPOSED") \in Intent
  BY <1>2, NewIsIntent DEF Subtype
<1>4. QED BY <1>3 DEF StageIntent

LEMMA Confirms ==
  ASSUME Typed, Imports, NEW c \in Client, ConfirmRef(c)
  PROVE  \E i \in task[c].todo :
           /\ i \in Seen(c).refs /\ i \in DOMAIN intents
           /\ Rewritten({i}, "CONFIRMED") \/ (UNCHANGED intents /\ intents[i].status = "CONFIRMED")
           /\ task' = [task EXCEPT ![c].todo = @ \ {i}]
<1>1. pc[c] = "confirm"
  BY DEF ConfirmRef
<1>2. task[c].todo \subseteq Seen(c).refs
  BY <1>1 DEF Imports, Good, OnItsWay, Seen, ScopeOf
<1>3. Seen(c).refs \subseteq DOMAIN intents
  BY <1>1, Busy DEF Imports, Good, Sound, Seen
<1>4. PICK i \in task[c].todo : /\ \/ intents' = [intents EXCEPT ![i] = Advanced(i, "CONFIRMED")]
                                   \/ UNCHANGED intents /\ intents[i].status = "CONFIRMED"
                                /\ task' = [task EXCEPT ![c].todo = @ \ {i}]
  BY Zenon DEF ConfirmRef
<1>5. i \in DOMAIN intents
  BY <1>2, <1>3
<1>6. Rewritten({i}, "CONFIRMED") \/ (UNCHANGED intents /\ intents[i].status = "CONFIRMED")
  <2>1. CASE intents' = [intents EXCEPT ![i] = Advanced(i, "CONFIRMED")]
    <3>1. PICK y : y = Advanced(i, "CONFIRMED")
      OBVIOUS
    <3>2. intents' = [j \in DOMAIN intents |-> IF j \in {i} THEN y ELSE intents[j]]
      BY <1>5, <2>1, <3>1
    <3>3. QED BY Zenon, <3>1, <3>2 DEF Rewritten
  <2>2. QED BY <1>4, <2>1
<1>7. QED BY <1>2, <1>4, <1>5, <1>6

LEMMA Declares ==
  ASSUME Typed, Imports, NEW c \in Client, SaveDeclared(c)
  PROVE  \E t \in task[c].sources :
           /\ NewIntent(ScopeOf(c), t, task[c].subtype, "CONFIRMED") \in Intent
           /\ Save(NewIntent(ScopeOf(c), t, task[c].subtype, "CONFIRMED"))
<1>0. pc[c] = "create"
  BY DEF SaveDeclared
<1>1. task[c].sources \subseteq Statement /\ ScopeOf(c) \in Scope /\ task[c].subtype \in Subtype
  BY <1>0, Busy DEF Imports, Good, OnItsWay
<1>2. \A t \in task[c].sources : NewIntent(ScopeOf(c), t, task[c].subtype, "CONFIRMED") \in Intent
  BY <1>1, NewIsIntent
<1>3. QED BY <1>2 DEF SaveDeclared

Fresh(c) == {i \in task[c].refs : intents[i].revision = task[c].from}

LEMMA Changes ==
  ASSUME Typed, Imports, NEW c \in Client, SaveChanged(c)
  PROVE  /\ pc[c] = "change" /\ task[c].to \in Target
         /\ OfScope(ScopeOf(c), task[c].refs)
         /\ Rewritten(Fresh(c), task[c].to) /\ Written(c, Fresh(c))
<1>1. pc[c] = "change"
  BY DEF SaveChanged
<1>2. task[c].to \in Target /\ OfScope(ScopeOf(c), task[c].refs)
  BY <1>1, Busy DEF Imports, Good, OnItsWay, ScopeOf
<1>3. task[c].refs \ {i \in task[c].refs : intents[i].revision # task[c].from} = Fresh(c)
  BY DEF Fresh
<1>4. QED BY <1>1, <1>2, <1>3 DEF SaveChanged, Rewritten

LEMMA IntentsStep == ASSUME Typed, Imports, [Next]_vars PROVE Grown
<1>1. CASE UNCHANGED intents
  BY <1>1 DEF Grown, Typed
<1>a. ASSUME NEW x \in Intent, Save(x) PROVE Grown
  BY <1>a, Saves DEF Grown
<1>2. ASSUME NEW c \in Client, StageIntent(c) PROVE Grown
  BY <1>2, <1>a, Stages
<1>3. ASSUME NEW c \in Client, ConfirmRef(c) PROVE Grown
  <2>1. PICK i \in DOMAIN intents : Rewritten({i}, "CONFIRMED") \/ UNCHANGED intents
    BY <1>3, Confirms
  <2>2. "CONFIRMED" \in Target
    BY DEF Target
  <2>3. QED BY <1>1, <2>1, <2>2, Rewrites
<1>4. ASSUME NEW c \in Client, SaveDeclared(c) PROVE Grown
  BY <1>4, <1>a, Declares
<1>5. ASSUME NEW c \in Client, SaveChanged(c) PROVE Grown
  BY <1>5, Changes, Rewrites
<1>6. QED BY <1>1, <1>2, <1>3, <1>4, <1>5, SavedBy

-----------------------------------------------------------------------------
\* Which steps touch what.
LEMMA RegistryBy ==
  ASSUME [Next]_vars
  PROVE  \/ UNCHANGED registry
         \/ \E c \in Client : WriteActivating(c)
         \/ \E c \in Client : Activate(c)
         \/ \E c \in Client : Flip(c)
BY Zenon DEF Next, vars, shared, Handover, Handback, Request, DeclareIntent, ChangeIntent, Step, LockScope,
       ScopeBusy, Guard, LeaveGuard, Finish, HandoverStep, HandbackStep, Plan, StageIntent, Staged,
       AlreadyHandedOver, Resume, ConfirmRef, RefuseRef, RefuseReturn, CollectExport, Export, SaveDeclared,
       SaveChanged, Written, GuardTimeout, Crash, Reclaim, Overrun

LEMMA SectionBy ==
  ASSUME [Next]_vars
  PROVE  UNCHANGED section \/ \E c \in Client : Export(c)
BY Zenon DEF Next, vars, shared, Handover, Handback, Request, DeclareIntent, ChangeIntent, Step, LockScope,
       ScopeBusy, Guard, LeaveGuard, Finish, HandoverStep, HandbackStep, Plan, StageIntent, Staged,
       AlreadyHandedOver, WriteActivating, Resume, ConfirmRef, RefuseRef, Activate, RefuseReturn,
       CollectExport, Flip, SaveDeclared, SaveChanged, Written, GuardTimeout, Crash, Reclaim, Overrun

LEMMA LateBy ==
  ASSUME [Next]_vars
  PROVE  \/ UNCHANGED late
         \/ \E c \in Client : SaveDeclared(c)
         \/ \E c \in Client : SaveChanged(c)
         \/ \E c \in Client : CollectExport(c)
BY Zenon DEF Next, vars, shared, Handover, Handback, Request, DeclareIntent, ChangeIntent, Step, LockScope,
       ScopeBusy, Guard, LeaveGuard, Finish, HandoverStep, HandbackStep, Plan, StageIntent, Staged,
       AlreadyHandedOver, WriteActivating, Resume, ConfirmRef, RefuseRef, Activate, RefuseReturn,
       Export, Flip, GuardTimeout, Crash, Reclaim, Overrun

LEMMA ScopeLockBy ==
  ASSUME [Next]_vars
  PROVE  \/ UNCHANGED scopeLock
         \/ \E c \in Client : LockScope(c)
         \/ \E c \in Client : Finish(c)
         \/ \E c \in Client : Crash(c)
         \/ Reclaim
         \/ Overrun
BY Zenon DEF Next, vars, shared, locks, Handover, Handback, Request, DeclareIntent, ChangeIntent, Step,
       ScopeBusy, Guard, LeaveGuard, HandoverStep, HandbackStep, Plan, StageIntent, Staged,
       AlreadyHandedOver, WriteActivating, Resume, ConfirmRef, RefuseRef, Activate, RefuseReturn,
       CollectExport, Export, Flip, SaveDeclared, SaveChanged, Written, GuardTimeout

LEMMA RegistryLockBy ==
  ASSUME [Next]_vars
  PROVE  \/ UNCHANGED registryLock
         \/ \E c \in Client : Guard(c)
         \/ \E c \in Client : LeaveGuard(c)
         \/ \E c \in Client : Crash(c)
         \/ Reclaim
         \/ Overrun
BY Zenon DEF Next, vars, shared, locks, Handover, Handback, Request, DeclareIntent, ChangeIntent, Step,
       LockScope, ScopeBusy, Finish, HandoverStep, HandbackStep, Plan, StageIntent, Staged,
       AlreadyHandedOver, WriteActivating, Resume, ConfirmRef, RefuseRef, Activate, RefuseReturn,
       CollectExport, Export, Flip, SaveDeclared, SaveChanged, Written, GuardTimeout

Counted ==
  /\ (operations < MaxOperations /\ operations' = operations + 1) \/ UNCHANGED operations
  /\ UNCHANGED <<crashes, overruns>>

LEMMA BoundsBy ==
  ASSUME [Next]_vars
  PROVE  \/ Counted
         \/ \E c \in Client : Crash(c)
         \/ Overrun
<1>1. ASSUME NEW c \in Client, Step(c) \/ GuardTimeout(c) PROVE Counted
  BY <1>1, Zenon DEF bounds, Counted, Step, LockScope, ScopeBusy, Guard, LeaveGuard, Finish, HandoverStep,
     HandbackStep, Plan, StageIntent, Staged, AlreadyHandedOver, WriteActivating, Resume, ConfirmRef,
     RefuseRef, Activate, RefuseReturn, CollectExport, Export, Flip, SaveDeclared, SaveChanged, Written,
     GuardTimeout
<1>2. ASSUME NEW c \in Client, NEW first, Start(c, first), UNCHANGED <<crashes, overruns>> PROVE Counted
  BY <1>2, Zenon DEF Counted, Start
<1>3. ASSUME UNCHANGED vars \/ Reclaim PROVE Counted
  BY <1>3 DEF vars, bounds, Counted, Reclaim
<1>4. QED
  BY <1>1, <1>2, <1>3, Zenon DEF Next, Handover, Handback, Request, DeclareIntent, ChangeIntent

\* A record is written into the copy last read.
LEMMA RecordTyped ==
  ASSUME Typed, NEW c \in Client, pc[c] # "idle", NEW record \in Record, Rewrite(c, record)
  PROVE  registry' \in [Scope -> Record]
BY Busy DEF Rewrite

LEMMA TypedStep == ASSUME Typed, Locking, Imports, [Next]_vars, Processes' PROVE Typed'
<1>1. registry' \in [Scope -> Record]
  <2>1. ASSUME NEW c \in Client, WriteActivating(c) PROVE registry' \in [Scope -> Record]
    <3>1. task[c].refs \subseteq Nat /\ task[c].sources \subseteq Statement /\ pc[c] # "idle"
      BY <2>1, Busy DEF WriteActivating
    <3>2. [owner |-> "brain", state |-> "activating", refs |-> task[c].refs,
           sources |-> task[c].sources] \in Record
      BY <3>1 DEF Record
    <3>3. QED BY <2>1, <3>1, <3>2, RecordTyped DEF WriteActivating
  <2>2. ASSUME NEW c \in Client, Activate(c) PROVE registry' \in [Scope -> Record]
    <3>1. Seen(c) \in Record /\ pc[c] # "idle"
      BY <2>2, Busy DEF Activate
    <3>2. [Seen(c) EXCEPT !.state = "active"] \in Record
      BY <3>1 DEF Record
    <3>3. QED BY <2>2, <3>1, <3>2, RecordTyped DEF Activate
  <2>3. ASSUME NEW c \in Client, Flip(c) PROVE registry' \in [Scope -> Record]
    <3>1. Seen(c) \in Record /\ pc[c] # "idle" /\ task[c].refs \subseteq Nat
      BY <2>3, Busy DEF Flip
    <3>2. [Seen(c) EXCEPT !.owner = "os", !.refs = task[c].refs] \in Record
      BY <3>1 DEF Record
    <3>3. QED BY <2>3, <3>1, <3>2, RecordTyped DEF Flip, Typed
  <2>4. QED BY <2>1, <2>2, <2>3, RegistryBy DEF Typed
<1>2. section' \in [Scope -> SUBSET Statement]
  <2>1. ASSUME NEW c \in Client, Export(c) PROVE section' \in [Scope -> SUBSET Statement]
    BY <2>1, Busy DEF Export, Typed
  <2>2. QED BY <2>1, SectionBy DEF Typed
<1>3. intents' \in Seq(Intent)
  BY IntentsStep DEF Grown
<1>4. late' \subseteq DOMAIN intents'
  <2>1. late \subseteq DOMAIN intents'
    BY IntentsStep DEF Grown, Typed
  <2>2. ASSUME NEW c \in Client, SaveDeclared(c) PROVE late' \subseteq DOMAIN intents'
    <3>1. Len(intents) + 1 \in DOMAIN intents'
      BY <2>2, Declares, Saves
    <3>2. QED BY <2>1, <2>2, <3>1 DEF SaveDeclared, Written
  <2>3. ASSUME NEW c \in Client, SaveChanged(c) PROVE late' \subseteq DOMAIN intents'
    <3>1. Written(c, Fresh(c)) /\ Fresh(c) \subseteq DOMAIN intents /\ DOMAIN intents' = DOMAIN intents
      BY <2>3, Changes, Rewrites DEF OfScope, Fresh
    <3>2. QED BY <2>1, <3>1 DEF Written
  <2>4. ASSUME NEW c \in Client, CollectExport(c) PROVE late' \subseteq DOMAIN intents'
    BY <2>1, <2>4 DEF CollectExport
  <2>5. QED BY <2>1, <2>2, <2>3, <2>4, LateBy
<1>5. scopeLock' \in [Scope -> Holder]
  <2>1. ASSUME NEW c \in Client, LockScope(c) \/ Finish(c) \/ Crash(c) PROVE scopeLock' \in [Scope -> Holder]
    BY <2>1 DEF LockScope, Finish, Crash, Typed, Holder
  <2>2. ASSUME Reclaim \/ Overrun PROVE scopeLock' \in [Scope -> Holder]
    BY <2>2 DEF Reclaim, Overrun, Typed, Holder
  <2>3. QED BY <2>1, <2>2, ScopeLockBy DEF Typed
<1>6. registryLock' \in Holder
  <2>1. ASSUME NEW c \in Client, Guard(c) \/ LeaveGuard(c) \/ Crash(c) PROVE registryLock' \in Holder
    BY <2>1 DEF Guard, LeaveGuard, Crash, Typed, Holder
  <2>2. ASSUME Reclaim \/ Overrun PROVE registryLock' \in Holder
    BY <2>2 DEF Reclaim, Overrun, Typed, Holder
  <2>3. QED BY <2>1, <2>2, RegistryLockBy DEF Typed
<1>7. operations' \in 0 .. MaxOperations /\ crashes' \in Nat /\ overruns' \in Nat
      /\ crashes' + overruns' <= MaxMishaps
  <2>0. /\ operations \in 0 .. MaxOperations /\ crashes \in Nat /\ overruns \in Nat
        /\ crashes + overruns <= MaxMishaps /\ MaxOperations \in Nat /\ MaxMishaps \in Nat
    BY DirectionAssumption DEF Typed
  <2>1. ASSUME Counted
        PROVE  operations' \in 0 .. MaxOperations /\ crashes' = crashes /\ overruns' = overruns
    BY <2>0, <2>1 DEF Counted
  <2>2. ASSUME NEW c \in Client, Crash(c)
        PROVE  operations' = operations /\ crashes' = crashes + 1 /\ overruns' = overruns
               /\ crashes + overruns < MaxMishaps
    BY <2>2 DEF Crash
  <2>3. ASSUME Overrun
        PROVE  operations' = operations /\ crashes' = crashes /\ overruns' = overruns + 1
               /\ crashes + overruns < MaxMishaps
    BY <2>3 DEF Overrun
  <2>4. QED BY <2>0, <2>1, <2>2, <2>3, BoundsBy
<1>8. QED BY <1>1, <1>2, <1>3, <1>4, <1>5, <1>6, <1>7 DEF Typed, Processes

-----------------------------------------------------------------------------
\* What is true of intents that stay, stays true.
LEMMA OfScopeKept ==
  ASSUME Grown, NEW s, NEW ids, OfScope(s, ids)
  PROVE  OfScope(s, ids)'
BY DEF Grown, OfScope

LEMMA PastKept ==
  ASSUME Grown, NEW ids, ids \subseteq DOMAIN intents, PastProposal(ids)
  PROVE  PastProposal(ids)'
BY DEF Grown, PastProposal

LEMMA StatementsKept ==
  ASSUME Grown, NEW ids, ids \subseteq DOMAIN intents
  PROVE  StatementsOf(ids)' = StatementsOf(ids)
<1>1. \A i \in ids : intents'[i].statement = intents[i].statement
  BY DEF Grown
<1>2. QED BY <1>1 DEF StatementsOf

LEMMA SoundKept ==
  ASSUME Grown, NEW s, NEW record, Sound(s, record)
  PROVE  Sound(s, record)'
<1>1. record.refs \subseteq DOMAIN intents /\ record.refs \subseteq DOMAIN intents'
  BY DEF Grown, Sound
<1>2. QED BY <1>1, OfScopeKept, PastKept, StatementsKept DEF Sound

LEMMA GoodKept ==
  ASSUME Grown, NEW label, NEW t, label # "idle" => t.scope \in Scope, Good(label, t)
  PROVE  Good(label, t)'
<1>1. \A s \in Scope : Sound(s, t.seen[s])'
  BY SoundKept DEF Good
<1>2. OnItsWay(label, t)
  BY DEF Good
<1>3. OfScope(t.scope, t.refs) => OfScope(t.scope, t.refs)' /\ StatementsOf(t.refs)' = StatementsOf(t.refs)
  BY OfScopeKept, StatementsKept DEF OfScope
<1>4. label = "confirm" => PastProposal(t.seen[t.scope].refs \ t.todo)'
  <2>1. SUFFICES ASSUME label = "confirm" PROVE PastProposal(t.seen[t.scope].refs \ t.todo)'
    OBVIOUS
  <2>2. Sound(t.scope, t.seen[t.scope])
    BY <2>1 DEF Good
  <2>3. t.seen[t.scope].refs \ t.todo \subseteq DOMAIN intents
    BY <2>2 DEF Sound
  <2>4. QED BY <1>2, <2>1, <2>3, PastKept DEF OnItsWay
<1>5. label \in {"export", "flip"} => t.refs \subseteq DOMAIN intents'
  BY <1>2 DEF OnItsWay, Grown
<1>6. label \in Staging \cup {"change"} => OfScope(t.scope, t.refs)
  BY <1>2 DEF OnItsWay
<1>7. OnItsWay(label, t)'
  BY <1>2, <1>3, <1>4, <1>5, <1>6 DEF OnItsWay, Staging
<1>8. QED BY <1>1, <1>7 DEF Good

Stays(d) == pc'[d] = pc[d] /\ task'[d] = task[d]

\* One process moves, and the others stay where they are.
Moved(c) ==
  /\ Processes'
  /\ \A d \in Client : Good(pc[d], task[d])'
  /\ \A d \in Client \ {c} : Stays(d)

LEMMA OneMoves ==
  ASSUME Typed, Imports, Grown, NEW c \in Client, NEW label \in State, NEW x,
         pc' = [pc EXCEPT ![c] = label], task' = [task EXCEPT ![c] = x],
         IF label = "idle" THEN x = NoTask ELSE x \in Task,
         Good(label, x)'
  PROVE  Moved(c)
<1>1. /\ pc \in [Client -> State] /\ task \in [Client -> Task \cup {NoTask}]
      /\ \A d \in Client : IF pc[d] = "idle" THEN task[d] = NoTask ELSE task[d] \in Task
  BY DEF Typed
<1>2. pc'[c] = label /\ task'[c] = x /\ \A d \in Client \ {c} : Stays(d)
  BY <1>1 DEF Stays
<1>3. Processes'
  BY <1>1, <1>2 DEF Processes, Stays
<1>4. ASSUME NEW d \in Client PROVE Good(pc[d], task[d])'
  <2>1. CASE d = c
    <3>1. Good(pc[c], task[c])'
      BY <1>2
    <3>2. QED BY <2>1, <3>1
  <2>2. CASE d # c
    <3>1. pc[d] # "idle" => task[d].scope \in Scope
      BY <1>1 DEF Task
    <3>2. Good(pc[d], task[d])
      BY DEF Imports
    <3>3. PICK l, t : l = pc[d] /\ t = task[d]
      OBVIOUS
    <3>4. Good(l, t)'
      BY <3>1, <3>2, <3>3, GoodKept
    <3>5. pc'[d] = l /\ task'[d] = t
      BY <1>2, <2>2, <3>3 DEF Stays
    <3>6. QED BY <3>4, <3>5
  <2>3. QED BY <2>1, <2>2
<1>5. QED BY <1>2, <1>3, <1>4 DEF Moved

LEMMA OneWalks ==
  ASSUME Typed, Imports, Grown, NEW c \in Client, pc[c] # "idle", NEW label \in State \ {"idle"},
         Goto(c, label), UNCHANGED task, NEW t, t = task[c], OnItsWay(label, t)'
  PROVE  Moved(c)
<1>1. t \in Task /\ Good(pc[c], t) /\ t.scope \in Scope
  BY DEF Typed, Imports, Task
<1>2. Good(label, t)'
  BY <1>1, SoundKept DEF Good
<1>3. task' = [task EXCEPT ![c] = t]
  BY DEF Typed
<1>4. QED BY <1>1, <1>2, <1>3, OneMoves DEF Goto

\* Steps after which nothing needs to be remembered.
Unmarked == {"guardResume", "guardReturn", "resume", "return", "leave", "leaveThenResume",
             "finish"}

LEMMA OnePasses ==
  ASSUME Typed, Imports, Grown, NEW c \in Client, pc[c] # "idle", NEW label \in Unmarked,
         Goto(c, label), UNCHANGED task
  PROVE  Moved(c)
<1>1. PICK t : t = task[c]
  OBVIOUS
<1>2. OnItsWay(label, t)' /\ label \in State \ {"idle"}
  BY DEF OnItsWay, Unmarked, Staging, State, Inside, Guarded
<1>3. QED BY <1>1, <1>2, OneWalks

LEMMA OneEnds ==
  ASSUME Typed, Imports, Grown, NEW c \in Client, Goto(c, "idle"), task' = [task EXCEPT ![c] = NoTask]
  PROVE  Moved(c)
<1>1. \A s \in Scope : Sound(s, NoTask.seen[s])'
  BY DEF NoTask, NoRecord, Sound
<1>2. Good("idle", NoTask)'
  BY <1>1 DEF Good, OnItsWay, Staging
<1>3. QED BY <1>2, OneMoves DEF Goto, State

LEMMA OneStarts ==
  ASSUME Typed, Imports, Grown, NEW c \in Client, NEW label \in State \ {"idle"}, NEW first \in Task,
         first.seen = [s \in Scope |-> NoRecord],
         Goto(c, label), Start(c, first), OnItsWay(label, first)'
  PROVE  Moved(c)
<1>1. \A s \in Scope : Sound(s, first.seen[s])'
  BY DEF NoRecord, Sound
<1>2. Good(label, first)'
  BY <1>1 DEF Good
<1>3. QED BY <1>2, OneMoves DEF Goto, Start

LEMMA OneRereads ==
  ASSUME Typed, Imports, Grown, NEW c \in Client, pc[c] # "idle", NEW label \in State \ {"idle"},
         Goto(c, label), Reread(c), NEW x, x = [task[c] EXCEPT !.seen = registry], OnItsWay(label, x)'
  PROVE  Moved(c)
<1>1. x \in Task /\ task' = [task EXCEPT ![c] = x]
  BY Rereads
<1>2. task[c] \in Task
  BY Busy
<1>3. x.seen = registry
  BY <1>2 DEF Task
<1>4. PICK copy : copy = registry
  OBVIOUS
<1>5. \A s \in Scope : Sound(s, copy[s])'
  BY <1>4, SoundKept DEF Imports
<1>6. Good(label, x)'
  BY <1>3, <1>4, <1>5 DEF Good
<1>7. QED BY <1>1, <1>6, OneMoves DEF Goto

\* Any field of the task changes but the copy of the registry.
LEMMA OneMarks ==
  ASSUME Typed, Imports, Grown, NEW c \in Client, pc[c] # "idle", NEW label \in State \ {"idle"},
         pc' = [pc EXCEPT ![c] = label],
         NEW x \in Task, x.seen = task[c].seen, task' = [task EXCEPT ![c] = x], OnItsWay(label, x)'
  PROVE  Moved(c)
<1>1. PICK t : t = task[c] /\ Good(pc[c], t)
  BY DEF Imports
<1>2. \A s \in Scope : Sound(s, x.seen[s])'
  BY <1>1, SoundKept DEF Good
<1>3. Good(label, x)'
  BY <1>2 DEF Good
<1>4. QED BY <1>3, OneMoves

\* Statements read from the scope's files.
LEMMA CandidatesAreStatements ==
  ASSUME Typed, NEW s \in Scope
  PROVE  Candidates(s) \subseteq Statement
<1>1. section[s] \subseteq Statement
  BY DEF Typed
<1>2. CASE s = Operator
  BY <1>1, <1>2, DirectionAssumption DEF Candidates
<1>3. CASE s # Operator
  <2>1. section[s] # {} => UNION section[s] \in Statement
    BY <1>1 DEF Statement
  <2>2. QED BY <1>3, <2>1 DEF Candidates
<1>4. QED BY <1>2, <1>3

\* The steps of one process.
Acts(c) ==
  \/ \E s \in Scope : Handover(c, s) \/ Handback(c, s)
  \/ \E s \in Scope, x \in Item, k \in Subtype : DeclareIntent(c, s, {x}, k)
  \/ \E i \in DOMAIN intents, target \in Target : ChangeIntent(c, i, target)
  \/ Step(c) \/ GuardTimeout(c) \/ Crash(c)

LEMMA ActsMove == ASSUME Typed, Imports, Grown, NEW c \in Client, Acts(c) PROVE Moved(c)
<1> USE DEF State, Inside, Guarded, Unmarked
<1>1. ASSUME NEW s \in Scope, NEW op \in {"handover", "handback"}, Request(c, op, s) PROVE Moved(c)
  <2>1. PICK first : first = [NoTask EXCEPT !.op = op, !.scope = s]
    OBVIOUS
  <2>2. first \in Task /\ first.seen = [t \in Scope |-> NoRecord] /\ first.refs = {}
    <3>1. first = [op |-> op, scope |-> s, seen |-> [t \in Scope |-> NoRecord], todo |-> {}, refs |-> {},
                   sources |-> {}, subtype |-> None, from |-> None, to |-> None]
      BY <2>1 DEF NoTask
    <3>2. QED BY <3>1, FirstTask
  <2>3. OnItsWay("lock", first)'
    BY <2>2 DEF OnItsWay, Staging
  <2>4. QED BY <1>1, <2>1, <2>2, <2>3, OneStarts DEF Request
<1>2. ASSUME NEW s \in Scope, NEW x \in Item, NEW k \in Subtype, DeclareIntent(c, s, {x}, k) PROVE Moved(c)
  <2>1. PICK first : first = [NoTask EXCEPT !.op = "declare", !.scope = s, !.sources = {{x}},
                                            !.subtype = k, !.to = "CONFIRMED"]
    OBVIOUS
  <2>2. {{x}} \subseteq Statement
    <3>1. {x} \in SUBSET Item /\ {x} # {}
      OBVIOUS
    <3>2. QED BY <3>1 DEF Statement
  <2>3. first \in Task /\ first.seen = [t \in Scope |-> NoRecord] /\ first.to = "CONFIRMED"
        /\ first.subtype = k
    <3>1. first = [op |-> "declare", scope |-> s, seen |-> [t \in Scope |-> NoRecord], todo |-> {},
                   refs |-> {}, sources |-> {{x}}, subtype |-> k, from |-> None, to |-> "CONFIRMED"]
      BY <2>1 DEF NoTask
    <3>2. QED BY <2>2, <3>1, FirstTask DEF Target
  <2>4. OnItsWay("create", first)'
    BY <2>3 DEF OnItsWay, Staging
  <2>5. QED BY <1>2, <2>1, <2>3, <2>4, OneStarts DEF DeclareIntent
<1>3. ASSUME NEW i \in DOMAIN intents, NEW target \in Target, ChangeIntent(c, i, target)
      PROVE  Moved(c)
  <2>1. PICK first : first = [NoTask EXCEPT !.op = "change", !.scope = intents[i].scope, !.refs = {i},
                                            !.from = intents[i].revision, !.to = target]
    OBVIOUS
  <2>2. intents[i] \in Intent /\ i \in Nat
    <3>1. intents \in Seq(Intent) /\ DOMAIN intents = 1 .. Len(intents) /\ Len(intents) \in Nat
      BY LenProperties DEF Typed
    <3>2. QED BY <3>1, ElementOfSeq
  <2>3. /\ first \in Task /\ first.seen = [t \in Scope |-> NoRecord]
        /\ first.to = target /\ first.refs = {i} /\ first.scope = intents[i].scope
    <3>1. first = [op |-> "change", scope |-> intents[i].scope, seen |-> [t \in Scope |-> NoRecord],
                   todo |-> {}, refs |-> {i}, sources |-> {}, subtype |-> None, from |-> intents[i].revision,
                   to |-> target]
      BY <2>1 DEF NoTask
    <3>2. intents[i].scope \in Scope /\ intents[i].revision \in Nat /\ {i} \subseteq Nat
      BY <2>2 DEF Intent
    <3>3. QED BY <3>1, <3>2, FirstTask
  <2>4. UNCHANGED intents
    BY <1>3 DEF ChangeIntent, shared
  <2>5. OnItsWay("change", first)'
    BY <2>3, <2>4 DEF OnItsWay, Staging, OfScope
  <2>6. QED BY <1>3, <2>1, <2>3, <2>5, OneStarts DEF ChangeIntent
<1>4. ASSUME LockScope(c) PROVE Moved(c)
  <2>1. PICK t : t = task[c]
    OBVIOUS
  <2>2. pc[c] = "lock" /\ t.refs = {}
    BY <1>4, <2>1 DEF LockScope, Imports, Good, OnItsWay
  <2>3. OnItsWay("plan", t)' /\ OnItsWay("guardReturn", t)'
    BY <2>2 DEF OnItsWay, Staging
  <2>4. QED BY <1>4, <2>1, <2>2, <2>3, OneWalks DEF LockScope
<1>5. ASSUME ScopeBusy(c) \/ Finish(c) \/ Crash(c) PROVE Moved(c)
  BY <1>5, OneEnds DEF ScopeBusy, Finish, Crash
<1>6. ASSUME Guard(c) PROVE Moved(c)
  <2>1. /\ pc[c] \in {"guardRecord", "guardResume", "guardReturn"} /\ pc[c] # "idle" /\ Reread(c)
        /\ Goto(c, GuardedBy[pc[c]])
    BY <1>6 DEF Guard, GuardedBy
  <2>2. PICK x : x = [task[c] EXCEPT !.seen = registry]
    OBVIOUS
  <2>3. UNCHANGED intents /\ task[c] \in Task
    BY <1>6, <2>1, Busy DEF Guard, shared
  <2>4. /\ x.refs = task[c].refs /\ x.scope = task[c].scope /\ x.sources = task[c].sources
    BY <2>2, <2>3 DEF Task
  <2>5. OnItsWay(pc[c], task[c])
    BY DEF Imports, Good
  <2>6. CASE pc[c] = "guardRecord"
    <3>1. GuardedBy[pc[c]] = "reread"
      BY <2>6 DEF GuardedBy
    <3>2. OnItsWay("reread", x)'
      BY <2>3, <2>4, <2>5, <2>6 DEF OnItsWay, Staging, OfScope, StatementsOf
    <3>3. QED BY <2>1, <2>2, <3>1, <3>2, OneRereads
  <2>7. CASE pc[c] # "guardRecord"
    <3>1. GuardedBy[pc[c]] \in {"resume", "return"}
      BY <2>1, <2>7 DEF GuardedBy
    <3>2. PICK label \in {"resume", "return"} : label = GuardedBy[pc[c]]
      BY <3>1
    <3>3. OnItsWay(label, x)'
      BY DEF OnItsWay, Staging
    <3>4. QED BY <2>1, <2>2, <3>2, <3>3, OneRereads
  <2>8. QED BY <2>6, <2>7
<1>7. ASSUME GuardTimeout(c) PROVE Moved(c)
  BY <1>7, OnePasses DEF GuardTimeout, GuardedBy
<1>8. ASSUME LeaveGuard(c) PROVE Moved(c)
  BY <1>8, OnePasses DEF LeaveGuard
<1>9. ASSUME Plan(c) PROVE Moved(c)
  <2>1. CASE BrainOwns(ScopeOf(c))
    BY <1>9, <2>1, OnePasses DEF Plan
  <2>2. CASE ~BrainOwns(ScopeOf(c))
    <3>1. PICK t : t = task[c]
      OBVIOUS
    <3>2. pc[c] = "plan" /\ UNCHANGED intents
      BY <1>9 DEF Plan, shared
    <3>3. t \in Task /\ ScopeOf(c) \in Scope
      BY <3>1, <3>2, Busy
    <3>4. PICK cs : cs = Candidates(ScopeOf(c))
      OBVIOUS
    <3>5. cs \subseteq Statement
      BY <3>3, <3>4, CandidatesAreStatements
    <3>6. PICK x : x = [t EXCEPT !.todo = cs, !.sources = cs]
      OBVIOUS
    <3>7. task' = [task EXCEPT ![c] = x] /\ pc' = [pc EXCEPT ![c] = "stage"]
      BY <1>9, <2>2, <3>1, <3>3, <3>4, <3>6 DEF Plan, Goto, Task
    <3>8. x.todo = cs /\ x.sources = cs /\ x.refs = {} /\ x.seen = t.seen
      BY <3>1, <3>2, <3>3, <3>6 DEF Task, Imports, Good, OnItsWay
    <3>9. OnItsWay("stage", x)'
      BY <3>5, <3>8 DEF OnItsWay, Staging, OfScope, StatementsOf
    <3>10. x \in Task
      BY <3>3, <3>5, <3>6 DEF Task
    <3>11. QED BY <3>1, <3>2, <3>7, <3>8, <3>9, <3>10, OneMarks
  <2>3. QED BY <2>1, <2>2
<1>10. ASSUME StageIntent(c) PROVE Moved(c)
  <2>1. PICK s \in task[c].todo :
          /\ NewIntent(ScopeOf(c), s, "goal", "PROPOSED") \in Intent
          /\ Save(NewIntent(ScopeOf(c), s, "goal", "PROPOSED"))
          /\ task' = [task EXCEPT ![c].todo = @ \ {s}, ![c].refs = @ \cup {Len(intents) + 1}]
    BY <1>10, Stages
  <2>2. PICK t, n : t = task[c] /\ n = Len(intents) + 1
    OBVIOUS
  <2>3. /\ pc[c] = "stage" /\ UNCHANGED pc /\ t \in Task /\ OnItsWay("stage", t) /\ t.scope = ScopeOf(c)
    BY <1>10, <2>2, Busy DEF StageIntent, Imports, Good, ScopeOf
  <2>4. PICK y : y = NewIntent(ScopeOf(c), s, "goal", "PROPOSED")
    OBVIOUS
  <2>5. y \in Intent /\ Save(y) /\ y.scope = t.scope /\ y.statement = s
    BY <2>1, <2>3, <2>4 DEF NewIntent
  <2>6. /\ DOMAIN intents' = DOMAIN intents \cup {n} /\ n \in Nat /\ intents'[n] = y
    BY <2>2, <2>5, Saves
  <2>7. PICK x : x = [t EXCEPT !.todo = t.todo \ {s}, !.refs = t.refs \cup {n}]
    OBVIOUS
  <2>8. task' = [task EXCEPT ![c] = x] /\ pc' = [pc EXCEPT ![c] = "stage"]
    BY <2>1, <2>2, <2>3, <2>7 DEF Typed, Task
  <2>9. /\ x.todo = t.todo \ {s} /\ x.refs = t.refs \cup {n} /\ x.sources = t.sources /\ x.scope = t.scope
         /\ x.seen = t.seen
    BY <2>3, <2>7 DEF Task
  <2>10. /\ OfScope(t.scope, t.refs) /\ t.todo \subseteq Statement
         /\ t.sources = StatementsOf(t.refs) \cup t.todo
    BY <2>3 DEF OnItsWay, Staging
  <2>11. OfScope(x.scope, x.refs)'
    <3>1. OfScope(t.scope, t.refs)'
      BY <2>10, OfScopeKept
    <3>2. n \in DOMAIN intents' /\ intents'[n].scope = t.scope
      BY <2>5, <2>6
    <3>3. OfScope(t.scope, t.refs \cup {n})'
      BY <3>1, <3>2 DEF OfScope
    <3>4. QED BY <2>9, <3>3
  <2>12. StatementsOf(x.refs)' = StatementsOf(t.refs) \cup {s}
    <3>1. StatementsOf(t.refs)' = StatementsOf(t.refs)
      BY <2>10, StatementsKept DEF OfScope
    <3>2. StatementsOf(t.refs \cup {n})' = StatementsOf(t.refs)' \cup {intents'[n].statement}
      BY DEF StatementsOf
    <3>3. QED BY <2>5, <2>6, <2>9, <3>1, <3>2
  <2>13. x.sources = StatementsOf(x.refs)' \cup x.todo
    BY <2>1, <2>2, <2>9, <2>10, <2>12
  <2>14. OnItsWay("stage", x)'
    BY <2>9, <2>10, <2>11, <2>13 DEF OnItsWay, Staging
  <2>15. x \in Task
    BY <2>3, <2>6, <2>7 DEF Task
  <2>16. QED BY <2>2, <2>3, <2>8, <2>9, <2>14, <2>15, OneMarks
<1>11. ASSUME Staged(c) PROVE Moved(c)
  <2>1. PICK t : t = task[c]
    OBVIOUS
  <2>2. pc[c] = "stage" /\ t.todo = {} /\ OnItsWay("stage", t)
    BY <1>11, <2>1 DEF Staged, Imports, Good
  <2>3. OfScope(t.scope, t.refs) /\ t.sources = StatementsOf(t.refs)
    BY <2>2 DEF OnItsWay, Staging
  <2>4. OfScope(t.scope, t.refs)' /\ t.sources = StatementsOf(t.refs)'
    BY <2>3, OfScopeKept, StatementsKept DEF OfScope
  <2>5. OnItsWay("guardRecord", t)'
    BY <2>4 DEF OnItsWay, Staging
  <2>6. QED BY <1>11, <2>1, <2>2, <2>5, OneWalks DEF Staged
<1>12. ASSUME AlreadyHandedOver(c) PROVE Moved(c)
  BY <1>12, OnePasses DEF AlreadyHandedOver
<1>13. ASSUME WriteActivating(c) PROVE Moved(c)
  BY <1>13, OnePasses DEF WriteActivating
<1>14. ASSUME Resume(c) PROVE Moved(c)
  <2>1. CASE Seen(c).owner = "brain" /\ Seen(c).state = "activating"
    <3>1. PICK t : t = task[c]
      OBVIOUS
    <3>2. pc[c] = "resume" /\ t \in Task /\ Seen(c) = t.seen[t.scope] /\ Seen(c).refs \subseteq Nat
      BY <1>14, <3>1, Busy DEF Resume, Seen, ScopeOf, Record
    <3>3. PICK ids : ids = Seen(c).refs
      OBVIOUS
    <3>4. PICK x : x = [t EXCEPT !.todo = ids]
      OBVIOUS
    <3>5. task' = [task EXCEPT ![c] = x] /\ pc' = [pc EXCEPT ![c] = "confirm"]
      BY <1>14, <2>1, <3>1, <3>2, <3>3, <3>4 DEF Resume, Goto, Task
    <3>6. x.todo = ids /\ x.seen = t.seen /\ x.scope = t.scope
      BY <3>2, <3>4 DEF Task
    <3>7. OnItsWay("confirm", x)'
      BY <2>1, <3>2, <3>3, <3>6 DEF OnItsWay, Staging, PastProposal
    <3>8. x \in Task
      BY <3>2, <3>3, <3>4 DEF Task
    <3>9. QED BY <3>1, <3>2, <3>5, <3>6, <3>7, <3>8, OneMarks
  <2>2. CASE ~(Seen(c).owner = "brain" /\ Seen(c).state = "activating")
    BY <1>14, <2>2, OnePasses DEF Resume
  <2>3. QED BY <2>1, <2>2
<1>15. ASSUME ConfirmRef(c) PROVE Moved(c)
  <2>1. PICK i \in task[c].todo :
           /\ i \in Seen(c).refs /\ i \in DOMAIN intents
           /\ Rewritten({i}, "CONFIRMED") \/ (UNCHANGED intents /\ intents[i].status = "CONFIRMED")
           /\ task' = [task EXCEPT ![c].todo = @ \ {i}]
    BY <1>15, Confirms
  <2>2. PICK t : t = task[c]
    OBVIOUS
  <2>3. /\ pc[c] = "confirm" /\ UNCHANGED pc /\ t \in Task /\ OnItsWay("confirm", t)
        /\ Seen(c) = t.seen[t.scope] /\ Sound(t.scope, t.seen[t.scope])
    BY <1>15, <2>2, Busy DEF ConfirmRef, Imports, Good, Seen, ScopeOf
  <2>4. PICK x : x = [t EXCEPT !.todo = t.todo \ {i}]
    OBVIOUS
  <2>5. task' = [task EXCEPT ![c] = x] /\ pc' = [pc EXCEPT ![c] = "confirm"]
    BY <2>1, <2>2, <2>3, <2>4 DEF Typed, Task
  <2>6. x.todo = t.todo \ {i} /\ x.seen = t.seen /\ x.scope = t.scope
    BY <2>3, <2>4 DEF Task
  <2>7. PICK record : record = t.seen[t.scope]
    OBVIOUS
  <2>8. /\ record.owner = "brain" /\ record.state = "activating" /\ t.todo \subseteq record.refs
        /\ PastProposal(record.refs \ t.todo) /\ record.refs \subseteq DOMAIN intents
    BY <2>3, <2>7 DEF OnItsWay, Sound
  <2>9. PastProposal(record.refs \ t.todo)'
    BY <2>8, PastKept
  <2>10. intents'[i].status = "CONFIRMED"
    BY <2>1, Rewrites DEF Target
  <2>11. PastProposal(record.refs \ x.todo)'
    BY <2>6, <2>9, <2>10 DEF PastProposal
  <2>12. OnItsWay("confirm", x)'
    BY <2>6, <2>7, <2>8, <2>11 DEF OnItsWay, Staging
  <2>13. x \in Task
    BY <2>3, <2>4 DEF Task
  <2>14. QED BY <2>2, <2>3, <2>5, <2>6, <2>12, <2>13, OneMarks
<1>16. ASSUME RefuseRef(c) \/ Activate(c) \/ RefuseReturn(c) PROVE Moved(c)
  BY <1>16, OnePasses DEF RefuseRef, Activate, RefuseReturn
<1>17. ASSUME CollectExport(c) PROVE Moved(c)
  <2>1. PICK t, ids, ss : t = task[c] /\ ids = Exported(ScopeOf(c)) /\ ss = StatementsOf(Exported(ScopeOf(c)))
    OBVIOUS
  <2>2. pc[c] = "return" /\ t \in Task /\ UNCHANGED intents
    BY <1>17, <2>1, Busy DEF CollectExport
  <2>3. /\ DOMAIN intents \subseteq Nat /\ \A i \in DOMAIN intents : intents[i].statement \in Statement
    <3>1. intents \in Seq(Intent) /\ DOMAIN intents = 1 .. Len(intents) /\ Len(intents) \in Nat
      BY LenProperties DEF Typed
    <3>2. \A i \in DOMAIN intents : intents[i] \in Intent
      BY <3>1, ElementOfSeq
    <3>3. QED BY <3>1, <3>2 DEF Intent
  <2>4. ids \subseteq DOMAIN intents /\ ids # {} /\ ids \subseteq Nat /\ ss \subseteq Statement
    BY <1>17, <2>1, <2>3 DEF CollectExport, Exported, Confirmed, StatementsOf
  <2>5. PICK x : x = [t EXCEPT !.refs = ids, !.sources = ss]
    OBVIOUS
  <2>6. task' = [task EXCEPT ![c] = x] /\ pc' = [pc EXCEPT ![c] = "export"]
    BY <1>17, <2>1, <2>2, <2>5 DEF CollectExport, Goto, Task
  <2>7. x.refs = ids /\ x.seen = t.seen /\ x \in Task
    BY <2>2, <2>4, <2>5 DEF Task
  <2>8. OnItsWay("export", x)'
    BY <2>2, <2>4, <2>7 DEF OnItsWay, Staging
  <2>9. QED BY <2>1, <2>2, <2>6, <2>7, <2>8, OneMarks
<1>18. ASSUME Export(c) PROVE Moved(c)
  <2>1. PICK x : x = [task[c] EXCEPT !.seen = registry]
    OBVIOUS
  <2>2. pc[c] = "export" /\ task[c] \in Task /\ OnItsWay("export", task[c]) /\ UNCHANGED intents
    BY <1>18, Busy DEF Export, Imports, Good
  <2>3. x.refs = task[c].refs
    BY <2>1, <2>2 DEF Task
  <2>4. OnItsWay("flip", x)'
    BY <2>2, <2>3 DEF OnItsWay, Staging
  <2>5. QED BY <1>18, <2>1, <2>2, <2>4, OneRereads DEF Export
<1>19. ASSUME Flip(c) PROVE Moved(c)
  BY <1>19, OnePasses DEF Flip
<1>20. ASSUME SaveDeclared(c) \/ SaveChanged(c) PROVE Moved(c)
  BY <1>20, OneEnds DEF SaveDeclared, SaveChanged, Written
<1>21. ASSUME Step(c) PROVE Moved(c)
  BY <1>4, <1>5, <1>6, <1>8, <1>9, <1>10, <1>11, <1>12, <1>13, <1>14, <1>15, <1>16, <1>17, <1>18, <1>19, <1>20,
     <1>21 DEF Step, HandoverStep, HandbackStep
<1>22. QED
  BY <1>1, <1>2, <1>3, <1>5, <1>7, <1>21 DEF Acts, Handover, Handback

LEMMA ProcessStep ==
  ASSUME Typed, Imports, [Next]_vars
  PROVE  /\ Processes' /\ \A d \in Client : Good(pc[d], task[d])'
         /\ \A d \in Client : Stays(d) \/ Acts(d)
<1>0. Grown
  BY IntentsStep
<1>1. ASSUME NEW c \in Client, Acts(c)
      PROVE  /\ Processes' /\ \A d \in Client : Good(pc[d], task[d])'
             /\ \A d \in Client : Stays(d) \/ Acts(d)
  BY <1>0, <1>1, ActsMove DEF Moved
<1>2. ASSUME UNCHANGED <<pc, task>>
      PROVE  /\ Processes' /\ \A d \in Client : Good(pc[d], task[d])'
             /\ \A d \in Client : Stays(d) \/ Acts(d)
  <2>1. Processes' /\ \A d \in Client : Stays(d)
    BY <1>2 DEF Processes, Typed, Stays
  <2>2. ASSUME NEW d \in Client PROVE Good(pc[d], task[d])'
    <3>1. PICK l, t : l = pc[d] /\ t = task[d]
      OBVIOUS
    <3>2. Good(l, t) /\ (l # "idle" => t.scope \in Scope)
      BY <3>1, Busy DEF Imports, ScopeOf
    <3>3. Good(l, t)'
      BY <1>0, <3>2, GoodKept
    <3>4. pc'[d] = l /\ task'[d] = t
      BY <1>2, <3>1
    <3>5. QED BY <3>3, <3>4
  <2>3. QED BY <2>1, <2>2
<1>3. UNCHANGED <<pc, task>> \/ \E c \in Client : Acts(c)
  <2>1. CASE Next
    BY <2>1, Zenon DEF Next, Acts, Target, Reclaim, Overrun
  <2>2. CASE UNCHANGED vars
    BY <2>2 DEF vars
  <2>3. QED BY <2>1, <2>2
<1>4. QED BY <1>1, <1>2, <1>3

LEMMA SoundStays ==
  ASSUME Grown, Imports, UNCHANGED registry
  PROVE  \A s \in Scope : Sound(s, registry[s])'
<1>1. PICK old : old = registry
  OBVIOUS
<1>2. \A s \in Scope : Sound(s, old[s])'
  BY <1>1, SoundKept DEF Imports
<1>3. QED BY <1>1, <1>2

\* The record written is sound: its intents are those of the handover, all of them past
\* the proposal before it becomes active.
LEMMA RegistrySound ==
  ASSUME Typed, Imports, [Next]_vars
  PROVE  \A s \in Scope : Sound(s, registry[s])'
<1>0. Grown
  BY IntentsStep
<1>1. ASSUME NEW c \in Client, pc[c] # "idle", NEW record, Rewrite(c, record),
             NEW own, own = ScopeOf(c), Sound(own, record)'
      PROVE  \A s \in Scope : Sound(s, registry[s])'
  <2>1. PICK t : t = task[c]
    OBVIOUS
  <2>2. t.scope = ScopeOf(c) /\ t.seen \in [Scope -> Record] /\ \A s \in Scope : Sound(s, t.seen[s])
    BY <1>1, <2>1, Busy DEF Imports, Good, ScopeOf
  <2>3. registry' = [t.seen EXCEPT ![t.scope] = record]
    BY <1>1, <2>1 DEF Rewrite, ScopeOf
  <2>4. ASSUME NEW s \in Scope PROVE Sound(s, registry[s])'
    <3>1. PICK r : r = registry'[s]
      OBVIOUS
    <3>2. CASE s = t.scope
      <4>1. r = record
        BY <2>2, <2>3, <3>1, <3>2
      <4>2. s = own
        BY <1>1, <2>2, <3>2
      <4>3. QED BY <1>1, <3>1, <4>1, <4>2
    <3>3. CASE s # t.scope
      <4>1. r = t.seen[s]
        BY <2>2, <2>3, <3>1, <3>3
      <4>2. Sound(s, r)'
        BY <1>0, <2>2, <4>1, SoundKept
      <4>3. QED BY <3>1, <4>2
    <3>4. QED BY <3>2, <3>3
  <2>5. QED BY <2>4
<1>2. ASSUME NEW c \in Client, WriteActivating(c) PROVE \A s \in Scope : Sound(s, registry[s])'
  <2>1. PICK t : t = task[c]
    OBVIOUS
  <2>2. pc[c] = "reread" /\ OnItsWay("reread", t) /\ UNCHANGED <<intents, task>>
    BY <1>2, <2>1 DEF WriteActivating, Imports, Good
  <2>3. OfScope(t.scope, t.refs) /\ t.sources = StatementsOf(t.refs)
    BY <2>2 DEF OnItsWay, Staging
  <2>4. PICK record : record = [owner |-> "brain", state |-> "activating", refs |-> t.refs,
                                sources |-> t.sources]
    OBVIOUS
  <2>5. /\ record.state # "active" /\ record.refs = t.refs /\ record.sources = t.sources
    BY <2>4
  <2>6. Sound(t.scope, record)'
    BY <2>2, <2>3, <2>5 DEF Sound, OfScope, StatementsOf
  <2>7. t.scope = ScopeOf(c)
    BY <2>1 DEF ScopeOf
  <2>8. Rewrite(c, record)
    BY <1>2, <2>1, <2>4 DEF WriteActivating
  <2>9. QED BY <1>1, <2>2, <2>6, <2>7, <2>8
<1>3. ASSUME NEW c \in Client, Activate(c) PROVE \A s \in Scope : Sound(s, registry[s])'
  <2>1. PICK t : t = task[c]
    OBVIOUS
  <2>2. /\ pc[c] = "confirm" /\ OnItsWay("confirm", t) /\ UNCHANGED <<intents, task>> /\ t.todo = {}
        /\ Seen(c) \in Record /\ Seen(c) = t.seen[t.scope] /\ Sound(t.scope, Seen(c))
    BY <1>3, <2>1, Busy DEF Activate, Imports, Good, Seen, ScopeOf
  <2>3. PICK old : old = Seen(c)
    OBVIOUS
  <2>4. PastProposal(old.refs)
    <3>1. old.refs \ t.todo = old.refs
      BY <2>2
    <3>2. PastProposal(t.seen[t.scope].refs \ t.todo)
      BY <2>2 DEF OnItsWay
    <3>3. QED BY <2>2, <2>3, <3>1, <3>2
  <2>5. PICK record : record = [old EXCEPT !.state = "active"]
    OBVIOUS
  <2>6. record.refs = old.refs /\ record.sources = old.sources /\ record.owner = old.owner
    BY <2>2, <2>3, <2>5 DEF Record
  <2>7. Sound(t.scope, record)'
    BY <2>2, <2>3, <2>4, <2>6 DEF Sound, OfScope, PastProposal, StatementsOf
  <2>8. t.scope = ScopeOf(c)
    BY <2>1 DEF ScopeOf
  <2>9. Rewrite(c, record)
    BY <1>3, <2>3, <2>5 DEF Activate
  <2>10. QED BY <1>1, <2>2, <2>7, <2>8, <2>9
<1>4. ASSUME NEW c \in Client, Flip(c) PROVE \A s \in Scope : Sound(s, registry[s])'
  <2>1. PICK t : t = task[c]
    OBVIOUS
  <2>2. /\ pc[c] = "flip" /\ OnItsWay("flip", t) /\ UNCHANGED <<intents, task>> /\ Seen(c) \in Record
    BY <1>4, <2>1, Busy DEF Flip, Imports, Good
  <2>3. CASE UNCHANGED registry
    BY <1>0, <2>3, SoundStays
  <2>4. CASE Rewrite(c, [Seen(c) EXCEPT !.owner = "os", !.refs = task[c].refs])
    <3>1. PICK record : record = [Seen(c) EXCEPT !.owner = "os", !.refs = task[c].refs]
      OBVIOUS
    <3>2. record.owner = "os" /\ record.refs = t.refs
      BY <2>1, <2>2, <3>1 DEF Record
    <3>3. record.refs \subseteq DOMAIN intents
      BY <2>2, <3>2 DEF OnItsWay
    <3>4. Sound(t.scope, record)'
      BY <2>2, <3>2, <3>3 DEF Sound
    <3>5. t.scope = ScopeOf(c)
      BY <2>1 DEF ScopeOf
    <3>6. QED BY <1>1, <2>2, <2>4, <3>1, <3>4, <3>5
  <2>5. QED BY <1>4, <2>3, <2>4 DEF Flip
<1>5. QED BY <1>0, <1>2, <1>3, <1>4, RegistryBy, SoundStays

LEMMA ImportsStep == ASSUME Typed, Imports, [Next]_vars PROVE Imports'
BY ProcessStep, RegistrySound DEF Imports

-----------------------------------------------------------------------------
\* The locks are kept by the steps of a process that stays inside.

LEMMA InsideStays ==
  ASSUME Typed, NEW d \in Client, Stays(d) \/ Acts(d), pc[d] \in Inside
  PROVE  \/ /\ pc'[d] \in Inside /\ task'[d].scope = task[d].scope
            /\ pc[d] \in Guarded => pc'[d] \in Guarded \/ LeaveGuard(d)
         \/ Finish(d)
         \/ Crash(d)
<1> DEFINE Goal == \/ /\ pc'[d] \in Inside /\ task'[d].scope = task[d].scope
                      /\ pc[d] \in Guarded => pc'[d] \in Guarded \/ LeaveGuard(d)
                   \/ Finish(d)
                   \/ Crash(d)
<1>0. /\ pc \in [Client -> State] /\ task \in [Client -> Task \cup {NoTask}] /\ task[d] \in Task
      /\ pc[d] # "idle"
  BY Busy DEF Typed, Inside, Guarded
<1> USE DEF Inside, Guarded
<1>a. ASSUME NEW label \in Inside, Goto(d, label), task'[d].scope = task[d].scope,
             label \notin Guarded => pc[d] \notin Guarded
      PROVE  Goal
  BY <1>0, <1>a DEF Goto
<1>1. ASSUME Stays(d) PROVE Goal
  BY <1>1 DEF Stays
<1>2. ASSUME NEW s \in Scope, Handover(d, s) \/ Handback(d, s) PROVE Goal
  BY <1>0, <1>2 DEF Handover, Handback, Request, Start
<1>3. ASSUME NEW s \in Scope, NEW x \in Item, NEW k \in Subtype, DeclareIntent(d, s, {x}, k) PROVE Goal
  BY <1>0, <1>3 DEF DeclareIntent, Start
<1>4. ASSUME NEW i \in DOMAIN intents, NEW target \in Target, ChangeIntent(d, i, target)
      PROVE  Goal
  BY <1>0, <1>4 DEF ChangeIntent, Start
<1>5. ASSUME LockScope(d) \/ ScopeBusy(d) \/ SaveDeclared(d) \/ SaveChanged(d) PROVE Goal
  BY <1>5 DEF LockScope, ScopeBusy, SaveDeclared, SaveChanged
<1>6. ASSUME Guard(d) PROVE Goal
  <2>1. task'[d].scope = task[d].scope
    BY <1>0, <1>6 DEF Guard, Reread, Task
  <2>2. GuardedBy[pc[d]] \in {"reread", "resume", "return"}
    BY <1>6 DEF Guard, GuardedBy
  <2>3. QED BY <1>6, <1>a, <2>1, <2>2 DEF Guard
<1>7. ASSUME GuardTimeout(d) PROVE Goal
  BY <1>7, <1>a DEF GuardTimeout, GuardedBy
<1>8. ASSUME LeaveGuard(d) PROVE Goal
  BY <1>0, <1>8 DEF LeaveGuard, Goto
<1>9. ASSUME Finish(d) \/ Crash(d) PROVE Goal
  BY <1>9
<1>10. ASSUME Plan(d) PROVE Goal
  <2>1. task'[d].scope = task[d].scope
    BY <1>0, <1>10 DEF Plan, Task
  <2>2. QED BY <1>10, <1>a, <2>1 DEF Plan
<1>11. ASSUME StageIntent(d) \/ ConfirmRef(d) PROVE Goal
  BY <1>0, <1>11 DEF StageIntent, ConfirmRef, Task
<1>12. ASSUME Staged(d) \/ AlreadyHandedOver(d) \/ WriteActivating(d) PROVE Goal
  BY <1>12, <1>a DEF Staged, AlreadyHandedOver, WriteActivating
<1>13. ASSUME Resume(d) PROVE Goal
  <2>1. task'[d].scope = task[d].scope
    BY <1>0, <1>13 DEF Resume, Task
  <2>2. QED BY <1>13, <1>a, <2>1 DEF Resume
<1>14. ASSUME RefuseRef(d) \/ Activate(d) \/ RefuseReturn(d) \/ Flip(d) PROVE Goal
  BY <1>14, <1>a DEF RefuseRef, Activate, RefuseReturn, Flip
<1>15. ASSUME CollectExport(d) PROVE Goal
  <2>1. task'[d].scope = task[d].scope
    BY <1>0, <1>15 DEF CollectExport, Task
  <2>2. QED BY <1>15, <1>a, <2>1 DEF CollectExport
<1>16. ASSUME Export(d) PROVE Goal
  <2>1. task'[d].scope = task[d].scope
    BY <1>0, <1>16 DEF Export, Reread, Task
  <2>2. QED BY <1>16, <1>a, <2>1 DEF Export
<1> HIDE DEF Goal
<1>17. ASSUME HandoverStep(d) \/ HandbackStep(d) PROVE Goal
  BY Zenon, <1>10, <1>11, <1>12, <1>13, <1>14, <1>15, <1>16, <1>17 DEF HandoverStep, HandbackStep
<1>18. ASSUME Step(d) PROVE Goal
  BY Zenon, <1>5, <1>6, <1>8, <1>9, <1>17, <1>18 DEF Step
<1>19. Goal
  BY Zenon, <1>1, <1>2, <1>3, <1>4, <1>7, <1>9, <1>18 DEF Acts
<1>20. QED BY <1>19 DEF Goal

\* A lock that is held after a step was held before it, or has just been taken.
LEMMA ScopeHeld ==
  ASSUME Typed, [Next]_vars, NEW d \in Client, NEW s \in Scope, scopeLock'[s] = d
  PROVE  /\ scopeLock[s] = d \/ (LockScope(d) /\ s = ScopeOf(d))
         /\ ~Crash(d) /\ (Finish(d) => s # ScopeOf(d))
<1>0. scopeLock \in [Scope -> Holder] /\ d # None /\ d # Orphan
  BY DirectionAssumption DEF Typed
<1>1. ASSUME NEW c \in Client, LockScope(c) PROVE scopeLock[s] = d \/ (c = d /\ s = ScopeOf(d))
  <2>1. ScopeOf(c) \in Scope
    BY <1>1, Busy DEF LockScope
  <2>2. QED BY <1>0, <1>1, <2>1 DEF LockScope
<1>2. ASSUME NEW c \in Client, Finish(c) PROVE scopeLock[s] = d /\ (c = d => s # ScopeOf(d))
  BY <1>0, <1>2 DEF Finish
<1>3. ASSUME NEW c \in Client, Crash(c) PROVE scopeLock[s] = d /\ c # d
  BY <1>0, <1>3 DEF Crash
<1>4. ASSUME Reclaim \/ Overrun PROVE scopeLock[s] = d
  BY <1>0, <1>4 DEF Reclaim, Overrun
<1>5. QED BY <1>1, <1>2, <1>3, <1>4, ScopeLockBy

LEMMA RegistryHeld ==
  ASSUME Typed, [Next]_vars, NEW d \in Client, registryLock' = d
  PROVE  /\ registryLock = d \/ Guard(d)
         /\ ~LeaveGuard(d) /\ ~Crash(d)
<1>0. d # None /\ d # Orphan
  BY DirectionAssumption
<1>1. ASSUME NEW c \in Client, Guard(c) PROVE c = d
  BY <1>1 DEF Guard
<1>2. ASSUME NEW c \in Client, LeaveGuard(c) PROVE registryLock = d /\ c # d
  BY <1>0, <1>2 DEF LeaveGuard
<1>3. ASSUME NEW c \in Client, Crash(c) PROVE registryLock = d /\ c # d
  BY <1>0, <1>3 DEF Crash
<1>4. ASSUME Reclaim \/ Overrun PROVE registryLock = d
  BY <1>0, <1>4 DEF Reclaim, Overrun
<1>5. QED BY <1>1, <1>2, <1>3, <1>4, RegistryLockBy

LEMMA LockingStep ==
  ASSUME Typed, Locking, Imports, [Next]_vars
  PROVE  Locking'
<1>1. ASSUME NEW d \in Client, registryLock' = d PROVE pc'[d] \in Guarded
  <2>1. CASE Guard(d)
    <3>1. GuardedBy[pc[d]] \in Guarded
      BY <2>1 DEF Guard, GuardedBy, Guarded
    <3>2. QED BY <2>1, <3>1 DEF Guard, Goto, Typed
  <2>2. CASE registryLock = d
    <3>1. pc[d] \in Guarded /\ pc[d] \in Inside
      BY <2>2 DEF Locking, Inside
    <3>2. ~Finish(d)
      BY <3>1 DEF Finish, Guarded
    <3>3. QED BY <1>1, <3>1, <3>2, ProcessStep, InsideStays, RegistryHeld
  <2>3. QED BY <1>1, <2>1, <2>2, RegistryHeld
<1>2. ASSUME NEW d \in Client, NEW s \in Scope, scopeLock'[s] = d
      PROVE  pc'[d] \in Inside /\ task'[d].scope = s
  <2>1. CASE LockScope(d) /\ s = ScopeOf(d)
    BY <2>1 DEF LockScope, Goto, Typed, Inside, ScopeOf
  <2>2. CASE scopeLock[s] = d
    <3>1. pc[d] \in Inside /\ task[d].scope = s
      BY <2>2 DEF Locking
    <3>2. ~Crash(d) /\ ~Finish(d)
      BY <1>2, <3>1, ScopeHeld DEF ScopeOf
    <3>3. QED BY <3>1, <3>2, ProcessStep, InsideStays
  <2>3. QED BY <1>2, <2>1, <2>2, ScopeHeld
<1>3. QED BY <1>1, <1>2 DEF Locking

-----------------------------------------------------------------------------
\* The registry's lock, as long as it does not expire under its owner.

\* A process inside has just taken the lock, or was inside before.
LEMMA InGuard ==
  ASSUME Typed, NEW d \in Client, Stays(d) \/ Acts(d), pc'[d] \in Guarded
  PROVE  \/ Guard(d)
         \/ /\ pc[d] \in Guarded
            /\ \/ pc'[d] \in {"leave", "leaveThenResume"}
               \/ Stays(d) \/ Resume(d) \/ ConfirmRef(d) \/ CollectExport(d) \/ Export(d)
<1> DEFINE Leaving == pc[d] \in Guarded /\ pc'[d] \in {"leave", "leaveThenResume"}
           Going == Resume(d) \/ ConfirmRef(d) \/ CollectExport(d) \/ Export(d)
           Goal == Stays(d) \/ Guard(d) \/ Leaving \/ Going
<1>0. pc \in [Client -> State]
  BY DEF Typed
<1>a. ASSUME NEW label, Goto(d, label) PROVE label \in Guarded
  BY <1>0, <1>a DEF Goto
<1>1. ASSUME NEW s \in Scope, Handover(d, s) \/ Handback(d, s) PROVE FALSE
  BY <1>1, <1>a DEF Handover, Handback, Request, Guarded
<1>2. ASSUME NEW s \in Scope, NEW x \in Item, NEW k \in Subtype, DeclareIntent(d, s, {x}, k) PROVE FALSE
  BY <1>2, <1>a DEF DeclareIntent, Guarded
<1>3. ASSUME NEW i \in DOMAIN intents, NEW target \in Target, ChangeIntent(d, i, target)
      PROVE  FALSE
  BY <1>3, <1>a DEF ChangeIntent, Guarded
<1>4. ASSUME \/ LockScope(d) \/ ScopeBusy(d) \/ LeaveGuard(d) \/ Finish(d) \/ GuardTimeout(d) \/ Crash(d)
             \/ SaveDeclared(d) \/ SaveChanged(d) \/ Plan(d) \/ Staged(d)
      PROVE  FALSE
  BY <1>4, <1>a DEF LockScope, ScopeBusy, LeaveGuard, Finish, GuardTimeout, Crash, SaveDeclared, SaveChanged,
     Written, Plan, Staged, Guarded
<1>5. ASSUME StageIntent(d) PROVE FALSE
  BY <1>5 DEF StageIntent, Guarded
<1>6. ASSUME \/ AlreadyHandedOver(d) \/ WriteActivating(d) \/ RefuseRef(d) \/ Activate(d) \/ RefuseReturn(d)
             \/ Flip(d)
      PROVE  Leaving
  BY <1>0, <1>6 DEF AlreadyHandedOver, WriteActivating, RefuseRef, Activate, RefuseReturn, Flip, Guarded, Goto
<1>7. ASSUME Going PROVE pc[d] \in Guarded
  BY <1>7 DEF Resume, ConfirmRef, CollectExport, Export, Guarded
<1>8. CASE Stays(d)
  BY <1>8 DEF Stays
<1> HIDE DEF Leaving
<1>9. ASSUME Acts(d) PROVE Guard(d) \/ Leaving \/ Going
  <2>1. ASSUME HandoverStep(d) \/ HandbackStep(d) PROVE Leaving \/ Going
    BY Zenon, <1>4, <1>5, <1>6, <2>1 DEF HandoverStep, HandbackStep
  <2>2. ASSUME Step(d) PROVE Guard(d) \/ Leaving \/ Going
    BY Zenon, <1>4, <2>1, <2>2 DEF Step
  <2>3. QED BY Zenon, <1>1, <1>2, <1>3, <1>4, <1>9, <2>2 DEF Acts
<1>10. QED BY <1>7, <1>8, <1>9 DEF Leaving

\* Only the process inside rewrites the registry, and it leaves with it.
LEMMA Rewriting ==
  ASSUME Typed, NEW c \in Client, WriteActivating(c) \/ Activate(c) \/ Flip(c)
  PROVE  pc[c] \in Guarded /\ pc'[c] \in {"leave", "leaveThenResume"}
BY DEF Typed, WriteActivating, Activate, Flip, Guarded, Goto

LEMMA LockKept ==
  ASSUME Typed, Imports, [Next]_vars, ~Overrun, NEW d \in Client, Undisputed(d), pc'[d] \in Guarded
  PROVE  registryLock' = d
<1>0. d # None /\ d # Orphan /\ pc \in [Client -> State]
  BY DirectionAssumption DEF Typed
<1>1. CASE Guard(d)
  BY <1>1 DEF Guard
<1>2. CASE ~Guard(d)
  <2>1. pc[d] \in Guarded
    BY <1>2, ProcessStep, InGuard
  <2>2. registryLock = d
    BY <2>1 DEF Undisputed
  <2>3. ASSUME NEW c \in Client, Guard(c) PROVE FALSE
    BY <1>0, <2>2, <2>3 DEF Guard
  <2>4. ASSUME NEW c \in Client, LeaveGuard(c) PROVE registryLock' = d
    <3>1. c # d
      BY <1>0, <2>4 DEF LeaveGuard, Goto, Guarded
    <3>2. QED BY <2>2, <2>4, <3>1 DEF LeaveGuard
  <2>5. ASSUME NEW c \in Client, Crash(c) PROVE registryLock' = d
    <3>1. c # d
      BY <1>0, <2>5 DEF Crash, Goto, Guarded
    <3>2. QED BY <2>2, <2>5, <3>1 DEF Crash
  <2>6. ASSUME Reclaim PROVE registryLock' = d
    BY <1>0, <2>2, <2>6 DEF Reclaim
  <2>7. QED BY <2>2, <2>3, <2>4, <2>5, <2>6, RegistryLockBy
<1>3. QED BY <1>1, <1>2

\* The copy of the process inside stays the registry.
LEMMA CopyKept ==
  ASSUME Typed, Imports, [Next]_vars, NEW d \in Client, \A c \in Client : Undisputed(c),
         pc'[d] \in Guarded \ {"leave", "leaveThenResume"}
  PROVE  task'[d].seen = registry'
<1>0. /\ pc \in [Client -> State] /\ task \in [Client -> Task \cup {NoTask}]
      /\ Stays(d) \/ Acts(d)
  BY ProcessStep DEF Typed
<1>1. CASE Guard(d)
  <2>1. pc[d] # "idle"
    BY <1>1 DEF Guard, GuardedBy
  <2>2. task[d] \in Task /\ UNCHANGED registry /\ Reread(d)
    BY <1>1, <2>1, Busy DEF Guard, shared
  <2>3. QED BY <1>0, <2>2 DEF Reread, Task
<1>2. CASE ~Guard(d)
  <2>1. pc[d] \in Guarded /\ registryLock = d /\ task[d] \in Task
    BY <1>0, <1>2, InGuard, Busy DEF Undisputed, Guarded
  <2>2. UNCHANGED registry
    <3>1. ASSUME NEW c \in Client, WriteActivating(c) \/ Activate(c) \/ Flip(c) PROVE FALSE
      <4>1. pc[c] \in Guarded /\ pc'[c] \in {"leave", "leaveThenResume"}
        BY <3>1, Rewriting
      <4>2. c = d
        BY <2>1, <4>1 DEF Undisputed
      <4>3. QED BY <4>1, <4>2
    <3>2. QED BY <3>1, RegistryBy
  <2>3. Stays(d) \/ Resume(d) \/ ConfirmRef(d) \/ CollectExport(d) \/ Export(d)
    BY <1>0, <1>2, InGuard
  <2>4. pc[d] \notin {"leave", "leaveThenResume"} => task[d].seen = registry
    BY <2>1 DEF Undisputed
  <2>5. CASE Stays(d)
    BY <2>2, <2>4, <2>5 DEF Stays
  <2>6. CASE Resume(d)
    <3>1. task'[d].seen = task[d].seen
      BY <1>0, <2>1, <2>6 DEF Resume, Task
    <3>2. QED BY <2>2, <2>4, <2>6, <3>1 DEF Resume
  <2>7. CASE ConfirmRef(d)
    <3>1. task'[d].seen = task[d].seen
      BY <1>0, <2>1, <2>7 DEF ConfirmRef, Task
    <3>2. QED BY <2>2, <2>4, <2>7, <3>1 DEF ConfirmRef
  <2>8. CASE CollectExport(d)
    <3>1. task'[d].seen = task[d].seen
      BY <1>0, <2>1, <2>8 DEF CollectExport, Task
    <3>2. QED BY <2>2, <2>4, <2>8, <3>1 DEF CollectExport
  <2>9. CASE Export(d)
    BY <1>0, <2>1, <2>2, <2>9 DEF Export, Reread, Task
  <2>10. QED BY <2>3, <2>5, <2>6, <2>7, <2>8, <2>9
<1>3. QED BY <1>1, <1>2

\* What a handback exports keeps carrying what is to be exported: whatever is confirmed
\* after it was collected is late.
LEMMA ExportCarries ==
  ASSUME Typed, Imports, [Next]_vars, NEW d \in Client, pc[d] \in {"export", "flip"},
         \A c \in Client : ~ConfirmRef(c) /\ ~CollectExport(c), NEW s, s = task[d].scope
  PROVE  StatementsOf(Exported(s) \ late)' \subseteq StatementsOf(Exported(s) \ late)
<1> DEFINE Old == \A i \in DOMAIN intents' :
                    intents'[i].scope = s /\ intents'[i].status = "CONFIRMED" /\ i \notin late' =>
                      /\ i \in DOMAIN intents /\ i \notin late
                      /\ intents[i].scope = s /\ intents[i].status = "CONFIRMED"
                      /\ intents[i].subtype = intents'[i].subtype
<1>0. Grown
  BY IntentsStep
<1>1. ASSUME UNCHANGED <<intents, late>> PROVE Old
  BY <1>1
<1>2. ASSUME NEW c \in Client, StageIntent(c) PROVE Old
  <2>1. PICK t \in task[c].todo :
          /\ NewIntent(ScopeOf(c), t, "goal", "PROPOSED") \in Intent
          /\ Save(NewIntent(ScopeOf(c), t, "goal", "PROPOSED"))
    BY <1>2, Stages
  <2>2. PICK y : y = NewIntent(ScopeOf(c), t, "goal", "PROPOSED")
    OBVIOUS
  <2>3. y \in Intent /\ Save(y) /\ y.status = "PROPOSED" /\ UNCHANGED late
    BY <1>2, <2>1, <2>2 DEF StageIntent, NewIntent
  <2>4. QED BY <2>3, Saves
<1>3. ASSUME NEW c \in Client, SaveDeclared(c) PROVE Old
  <2>1. PICK t \in task[c].sources :
          /\ NewIntent(ScopeOf(c), t, task[c].subtype, "CONFIRMED") \in Intent
          /\ Save(NewIntent(ScopeOf(c), t, task[c].subtype, "CONFIRMED"))
    BY <1>3, Declares
  <2>2. PICK y : y = NewIntent(ScopeOf(c), t, task[c].subtype, "CONFIRMED")
    OBVIOUS
  <2>3. PICK n : n = Len(intents) + 1
    OBVIOUS
  <2>4. y \in Intent /\ Save(y) /\ y.scope = ScopeOf(c) /\ Written(c, {n}) /\ pc[c] = "create"
    BY <1>3, <2>1, <2>2, <2>3 DEF SaveDeclared, NewIntent
  <2>5. /\ DOMAIN intents' = DOMAIN intents \cup {n} /\ intents'[n] = y
        /\ \A i \in DOMAIN intents : intents'[i] = intents[i]
    BY <2>3, <2>4, Saves
  <2>6. CASE ScopeOf(c) # s
    BY <2>4, <2>5, <2>6 DEF Written
  <2>7. CASE ScopeOf(c) = s
    <3>1. TooLate(ScopeOf(c))
      BY <2>7 DEF TooLate, ScopeOf
    <3>2. task[c].to = "CONFIRMED" => n \in late' /\ late \subseteq late'
      BY <2>4, <3>1 DEF Written
    <3>3. task[c].to = "CONFIRMED"
      BY <1>3, <2>4 DEF Imports, Good, OnItsWay
    <3>4. QED BY <2>5, <3>2, <3>3
  <2>8. QED BY <2>6, <2>7
<1>4. ASSUME NEW c \in Client, SaveChanged(c) PROVE Old
  <2>1. /\ task[c].to \in Target /\ OfScope(ScopeOf(c), task[c].refs)
        /\ Rewritten(Fresh(c), task[c].to) /\ Written(c, Fresh(c))
    BY <1>4, Changes
  <2>2. /\ DOMAIN intents' = DOMAIN intents
        /\ \A i \in DOMAIN intents : /\ intents'[i].status = IF i \in Fresh(c) THEN task[c].to
                                                                             ELSE intents[i].status
                                     /\ intents'[i].scope = intents[i].scope
                                     /\ intents'[i].subtype = intents[i].subtype
    BY <1>0, <2>1, Rewrites DEF Grown
  <2>3. late \subseteq late' /\ \A i \in Fresh(c) : i \in DOMAIN intents /\ intents[i].scope = ScopeOf(c)
    BY <2>1 DEF Written, Fresh, OfScope
  <2>4. ASSUME NEW i \in Fresh(c), task[c].to = "CONFIRMED", ScopeOf(c) = s PROVE i \in late'
    <3>1. TooLate(ScopeOf(c))
      BY <2>4 DEF TooLate, ScopeOf
    <3>2. QED BY <2>1, <2>4, <3>1 DEF Written
  <2>5. QED BY <2>1, <2>2, <2>3, <2>4
<1>5. Old
  <2>1. UNCHANGED intents /\ UNCHANGED late => Old
    BY <1>1
  <2>2. QED BY Zenon, <1>2, <1>3, <1>4, <2>1, SavedBy, LateBy
<1>6. \A i \in DOMAIN intents : intents'[i].statement = intents[i].statement
  BY <1>0 DEF Grown
<1>7. QED BY <1>5, <1>6 DEF StatementsOf, Exported, Confirmed

LEMMA SectionKept ==
  ASSUME Typed, [Next]_vars, NEW d \in Client, \A c \in Client : Undisputed(c), Stays(d), pc[d] = "flip"
  PROVE  UNCHANGED section
<1>1. ASSUME NEW c \in Client, Export(c) PROVE FALSE
  <2>1. pc[c] = "export" /\ pc[c] \in Guarded /\ pc[d] \in Guarded
    BY <1>1 DEF Export, Guarded
  <2>2. c = d
    BY <2>1 DEF Undisputed
  <2>3. QED BY <2>1, <2>2
<1>2. QED BY <1>1, SectionBy

LEMMA UndisputedStep ==
  ASSUME Typed, Imports, [Next]_vars, ~Overrun, \A c \in Client : Undisputed(c), NEW d \in Client
  PROVE  Undisputed(d)'
<1> DEFINE s == task[d].scope
           Carries(t) == StatementsOf(Exported(t.scope) \ late) \subseteq t.sources
<1>0. /\ pc \in [Client -> State] /\ task \in [Client -> Task \cup {NoTask}]
      /\ Stays(d) \/ Acts(d)
  BY ProcessStep DEF Typed
<1>1. pc'[d] \in Guarded => registryLock' = d
  BY LockKept
<1>2. pc'[d] \in Guarded \ {"leave", "leaveThenResume"} => task'[d].seen = registry'
  BY CopyKept
<1>3. ASSUME pc'[d] \in {"export", "flip"}
      PROVE  \/ /\ pc[d] \in {"export", "flip"} /\ Stays(d)
             \/ CollectExport(d) /\ pc'[d] = "export"
             \/ Export(d) /\ pc'[d] = "flip"
  <2>1. Guard(d) \/ Stays(d) \/ Resume(d) \/ ConfirmRef(d) \/ CollectExport(d) \/ Export(d)
    BY <1>0, <1>3, InGuard DEF Guarded
  <2>2. ~Guard(d)
    BY <1>0, <1>3 DEF Guard, GuardedBy, Goto
  <2>3. ~Resume(d) /\ ~ConfirmRef(d)
    BY <1>0, <1>3 DEF Resume, ConfirmRef, Goto
  <2>4. CollectExport(d) => pc'[d] = "export"
    BY <1>0 DEF CollectExport, Goto
  <2>5. Export(d) => pc'[d] = "flip"
    BY <1>0 DEF Export, Goto
  <2>6. QED BY <1>3, <2>1, <2>2, <2>3, <2>4, <2>5 DEF Stays
<1>4. ASSUME pc'[d] \in {"export", "flip"} PROVE Carries(task[d])'
  <2>1. PICK t, x : t = task[d] /\ x = task'[d]
    OBVIOUS
  <2>2. CASE CollectExport(d)
    <3>1. t \in Task /\ UNCHANGED intents
      BY <2>1, <2>2, Busy DEF CollectExport
    <3>2. x.scope = t.scope /\ x.sources = StatementsOf(Exported(t.scope))
      BY <1>0, <2>1, <2>2, <3>1 DEF CollectExport, Task, ScopeOf
    <3>3. StatementsOf(Exported(t.scope) \ late)' \subseteq StatementsOf(Exported(t.scope))
      BY <3>1 DEF StatementsOf, Exported, Confirmed
    <3>4. QED BY <2>1, <3>2, <3>3
  <2>3. CASE Export(d)
    <3>1. pc[d] = "export" /\ t \in Task /\ UNCHANGED <<intents, late>>
      BY <2>1, <2>3, Busy DEF Export
    <3>2. x.scope = t.scope /\ x.sources = t.sources
      BY <1>0, <2>1, <2>3, <3>1 DEF Export, Reread, Task
    <3>3. Carries(t)
      BY <2>1, <3>1 DEF Undisputed
    <3>4. StatementsOf(Exported(t.scope) \ late)' = StatementsOf(Exported(t.scope) \ late)
      BY <3>1 DEF StatementsOf, Exported, Confirmed
    <3>5. QED BY <2>1, <3>2, <3>3, <3>4
  <2>4. CASE pc[d] \in {"export", "flip"} /\ Stays(d)
    <3>1. \A c \in Client : ~ConfirmRef(c) /\ ~CollectExport(c)
      <4>1. SUFFICES ASSUME NEW c \in Client, ConfirmRef(c) \/ CollectExport(c) PROVE FALSE
        OBVIOUS
      <4>2. pc[c] \in {"confirm", "return"}
        BY <4>1 DEF ConfirmRef, CollectExport
      <4>3. c = d
        BY <2>4, <4>2 DEF Undisputed, Guarded
      <4>4. QED BY <2>4, <4>2, <4>3
    <3>2. x = t /\ Carries(t)
      BY <2>1, <2>4 DEF Stays, Undisputed
    <3>3. StatementsOf(Exported(t.scope) \ late)' \subseteq StatementsOf(Exported(t.scope) \ late)
      BY <2>1, <2>4, <3>1, ExportCarries
    <3>4. QED BY <2>1, <3>2, <3>3
  <2>5. QED BY <1>3, <1>4, <2>2, <2>3, <2>4
<1>5. ASSUME pc'[d] = "flip" PROVE section'[task'[d].scope] = task'[d].sources
  <2>1. CASE Export(d)
    <3>1. pc[d] # "idle"
      BY <2>1 DEF Export
    <3>2. task[d] \in Task /\ task[d].scope \in Scope /\ section \in [Scope -> SUBSET Statement]
      BY <3>1, Busy DEF Typed, ScopeOf
    <3>3. task'[d].scope = task[d].scope /\ task'[d].sources = task[d].sources
      BY <1>0, <2>1, <3>2 DEF Export, Reread, Task
    <3>4. section' = [section EXCEPT ![task[d].scope] = task[d].sources]
      BY <2>1 DEF Export, ScopeOf
    <3>5. QED BY <3>2, <3>3, <3>4
  <2>2. CASE Stays(d)
    <3>1. pc[d] = "flip" /\ task'[d] = task[d]
      BY <1>5, <2>2 DEF Stays
    <3>2. UNCHANGED section
      BY <2>2, <3>1, SectionKept
    <3>3. QED BY <3>1, <3>2 DEF Undisputed
  <2>3. QED BY <1>3, <1>5, <2>1, <2>2
<1>6. QED BY <1>1, <1>2, <1>4, <1>5 DEF Undisputed

-----------------------------------------------------------------------------
\* The invariant, step by step.

LEMMA DirectionInit == Init => DirectionInv
<1> SUFFICES ASSUME Init PROVE DirectionInv
  OBVIOUS
<1> USE DirectionAssumption
<1>1. intents = <<>> /\ DOMAIN intents = {} /\ intents \in Seq(Intent)
  BY DEF Init
<1>2. registry \in [Scope -> Record]
  BY DEF Init, NoRecord, Record
<1>3. /\ pc \in [Client -> State] /\ task \in [Client -> Task \cup {NoTask}]
      /\ \A c \in Client : pc[c] = "idle" /\ task[c] = NoTask
  BY DEF Init, State
<1>4. scopeLock \in [Scope -> Holder] /\ registryLock \in Holder
  BY DEF Init, Holder
<1>5. section \in [Scope -> SUBSET Statement]
  BY DEF Init
<1>6. operations \in 0 .. MaxOperations /\ crashes \in Nat /\ overruns \in Nat /\ crashes + overruns <= MaxMishaps
  BY DEF Init
<1>7. late \subseteq DOMAIN intents
  BY <1>1 DEF Init
<1>8. Typed
  BY <1>1, <1>2, <1>3, <1>4, <1>5, <1>6, <1>7 DEF Typed
<1>9. Locking
  BY DEF Init, Locking
<1>10. \A s \in Scope : Sound(s, NoRecord)
  BY DEF NoRecord, Sound
<1>11. \A s \in Scope : Sound(s, registry[s])
  BY <1>10 DEF Init
<1>12. Good("idle", NoTask)
  <2>1. NoTask.seen = [s \in Scope |-> NoRecord]
    BY DEF NoTask
  <2>2. QED BY <1>10, <2>1 DEF Good, OnItsWay, Staging
<1>13. Imports
  BY <1>3, <1>11, <1>12 DEF Imports
<1>14. \A c \in Client : Undisputed(c)
  BY <1>3 DEF Undisputed, Guarded
<1>15. QED BY <1>8, <1>9, <1>13, <1>14 DEF DirectionInv

LEMMA OverrunCounts ==
  ASSUME Typed, [Next]_vars, overruns' = 0
  PROVE  overruns = 0 /\ ~Overrun
<1>1. overruns \in Nat
  BY DEF Typed
<1>2. ~Overrun
  BY <1>1 DEF Overrun
<1>3. QED BY <1>2, BoundsBy DEF Counted, Crash

LEMMA DirectionStep == DirectionInv /\ [Next]_vars => DirectionInv'
<1> SUFFICES ASSUME DirectionInv, [Next]_vars PROVE DirectionInv'
  OBVIOUS
<1>1. Typed /\ Locking /\ Imports
  BY DEF DirectionInv
<1>2. Typed' /\ Locking' /\ Imports'
  BY <1>1, ProcessStep, TypedStep, LockingStep, ImportsStep
<1>3. ASSUME overruns' = 0, NEW d \in Client PROVE Undisputed(d)'
  <2>1. ~Overrun /\ \A c \in Client : Undisputed(c)
    BY <1>1, <1>3, OverrunCounts DEF DirectionInv
  <2>2. QED BY <1>1, <2>1, UndisputedStep
<1>4. QED BY <1>2, <1>3 DEF DirectionInv

THEOREM DirectionInvariant == Spec => []DirectionInv
BY DirectionInit, DirectionStep, PTL DEF Spec

LEMMA InvImpliesTypeOK == DirectionInv => TypeOK
<1> SUFFICES ASSUME DirectionInv PROVE TypeOK
  OBVIOUS
<1>1. Typed /\ Locking /\ Imports
  BY DEF DirectionInv
<1>2. \A s \in Scope : registry[s].refs \subseteq DOMAIN intents
  BY <1>1 DEF Imports, Sound
<1>3. ASSUME NEW c \in Client
      PROVE  \/ task[c].scope \in Scope
             \/ /\ pc[c] = "idle" /\ task[c] = NoTask
                /\ registryLock # c /\ \A s \in Scope : scopeLock[s] # c
  <2>1. CASE pc[c] = "idle"
    <3>1. task[c] = NoTask
      BY <1>1, <2>1 DEF Typed
    <3>2. registryLock # c /\ \A s \in Scope : scopeLock[s] # c
      BY <1>1, <2>1 DEF Locking, Inside, Guarded
    <3>3. QED BY <2>1, <3>1, <3>2
  <2>2. CASE pc[c] # "idle"
    BY <1>1, <2>2, Busy DEF ScopeOf
  <2>3. QED BY <2>1, <2>2
<1>4. QED BY <1>1, <1>2, <1>3 DEF Typed, TypeOK

\* Every variable keeps its type, the registry only refers to intents that exist, and
\* a process that is not at work holds no lock.
THEOREM DirectionTypeCorrect == Spec => []TypeOK
BY DirectionInvariant, InvImpliesTypeOK, PTL

\* A scope whose handover is complete has imported every statement, whatever crashed on
\* the way, whatever lock expired under its owner and however often it was resumed.
THEOREM ImportIsComplete == Spec => []ActiveMeansImported
<1>1. DirectionInv => ActiveMeansImported
  BY DEF DirectionInv, Imports, Sound, OfScope, PastProposal, ActiveMeansImported
<1>2. QED BY <1>1, DirectionInvariant, PTL

LEMMA StepMovesOwnership ==
  ASSUME DirectionInv, [Next]_vars, overruns' = 0, NEW s \in Scope, registry'[s] # registry[s]
  PROVE  OwnershipMoves(registry[s], registry'[s])
<1>1. Typed /\ Imports /\ registry \in [Scope -> Record]
  BY DEF DirectionInv, Typed
<1>2. \A c \in Client : Undisputed(c)
  BY <1>1, OverrunCounts DEF DirectionInv
<1>a. ASSUME NEW c \in Client, pc[c] \in Guarded \ {"leave", "leaveThenResume"}, NEW record, Rewrite(c, record)
      PROVE  s = ScopeOf(c) /\ Seen(c) = registry[s] /\ registry'[s] = record
  <2>1. task[c].seen = registry
    BY <1>2, <1>a DEF Undisputed
  <2>2. registry' = [registry EXCEPT ![ScopeOf(c)] = record]
    BY <1>a, <2>1 DEF Rewrite
  <2>3. QED BY <1>1, <2>1, <2>2 DEF Seen
<1>3. ASSUME NEW c \in Client, WriteActivating(c) PROVE OwnershipMoves(registry[s], registry'[s])
  <2>1. PICK record : record = [owner |-> "brain", state |-> "activating", refs |-> task[c].refs,
                                sources |-> task[c].sources]
    OBVIOUS
  <2>2. Rewrite(c, record) /\ pc[c] = "reread" /\ Seen(c).owner # "brain"
    BY <1>3, <2>1 DEF WriteActivating
  <2>3. registry'[s] = record /\ registry[s].owner # "brain"
    BY <1>a, <2>2 DEF Guarded
  <2>4. registry[s].owner = "os"
    BY <1>1, <2>3 DEF Record
  <2>5. record.owner = "brain" /\ record.state = "activating"
    BY <2>1
  <2>6. QED BY <2>3, <2>4, <2>5 DEF OwnershipMoves
<1>4. ASSUME NEW c \in Client, Activate(c) PROVE OwnershipMoves(registry[s], registry'[s])
  <2>1. pc[c] = "confirm" /\ Rewrite(c, [Seen(c) EXCEPT !.state = "active"])
    BY <1>4 DEF Activate
  <2>2. Seen(c).owner = "brain" /\ Seen(c).state = "activating"
    BY <1>1, <2>1 DEF Imports, Good, OnItsWay, Seen, ScopeOf
  <2>3. Seen(c) = registry[s] /\ registry'[s] = [Seen(c) EXCEPT !.state = "active"]
    BY <1>a, <2>1 DEF Guarded
  <2>4. QED BY <2>2, <2>3 DEF OwnershipMoves
<1>5. ASSUME NEW c \in Client, Flip(c) PROVE OwnershipMoves(registry[s], registry'[s])
  <2>1. PICK old, ids : old = Seen(c) /\ ids = task[c].refs
    OBVIOUS
  <2>2. PICK record : record = [old EXCEPT !.owner = "os", !.refs = ids]
    OBVIOUS
  <2>3. pc[c] = "flip" /\ Rewrite(c, record) /\ old.owner = "brain" /\ old.state = "active"
    BY <1>5, <2>1, <2>2 DEF Flip
  <2>4. old = registry[s] /\ registry'[s] = record
    BY <1>a, <2>1, <2>3 DEF Guarded
  <2>5. ids # {}
    <3>1. OnItsWay("flip", task[c])
      BY <1>1, <2>3 DEF Imports, Good
    <3>2. QED BY <2>1, <3>1 DEF OnItsWay
  <2>6. record.owner = "os" /\ record.refs = ids
    BY <1>1, <2>2, <2>4 DEF Record
  <2>7. QED BY <2>3, <2>4, <2>5, <2>6 DEF OwnershipMoves
<1>6. QED BY <1>3, <1>4, <1>5, RegistryBy

\* Ownership only goes round the cycle, although each of many processes replaces the whole
\* file with a copy it read before: no step puts a record back to an older value.
THEOREM OwnershipOnlyCycles == Spec => OwnershipCycle
<1>1. DirectionInv /\ [Next]_vars =>
        [overruns' = 0 => \A s \in Scope :
           registry'[s] = registry[s] \/ OwnershipMoves(registry[s], registry'[s])]_vars
  BY StepMovesOwnership
<1>2. QED BY <1>1, DirectionInvariant, PTL DEF Spec, OwnershipCycle

LEMMA StepReturns ==
  ASSUME DirectionInv, [Next]_vars, overruns' = 0, NEW s \in Scope, BrainOwns(s), registry'[s].owner = "os"
  PROVE  StatementsOf(Exported(s) \ late) \subseteq section'[s]
<1>1. Typed /\ Imports /\ registry \in [Scope -> Record]
  BY DEF DirectionInv, Typed
<1>2. \A c \in Client : Undisputed(c)
  BY <1>1, OverrunCounts DEF DirectionInv
<1>3. registry[s].owner = "brain"
  BY DEF BrainOwns
<1>a. ASSUME NEW c \in Client, pc[c] \in Guarded \ {"leave", "leaveThenResume"}, NEW record, Rewrite(c, record)
      PROVE  s = ScopeOf(c) /\ registry'[s] = record
  <2>1. task[c].seen = registry
    BY <1>2, <1>a DEF Undisputed
  <2>2. registry' = [registry EXCEPT ![ScopeOf(c)] = record]
    BY <1>a, <2>1 DEF Rewrite
  <2>3. QED BY <1>1, <1>3, <2>2
<1>4. ASSUME NEW c \in Client, WriteActivating(c) PROVE FALSE
  <2>1. PICK record : record = [owner |-> "brain", state |-> "activating", refs |-> task[c].refs,
                                sources |-> task[c].sources]
    OBVIOUS
  <2>2. Rewrite(c, record) /\ pc[c] = "reread" /\ record.owner = "brain"
    BY <1>4, <2>1 DEF WriteActivating
  <2>3. registry'[s] = record
    BY <1>a, <2>2 DEF Guarded
  <2>4. QED BY <2>2, <2>3
<1>5. ASSUME NEW c \in Client, Activate(c) PROVE FALSE
  <2>1. PICK old : old = Seen(c)
    OBVIOUS
  <2>2. PICK record : record = [old EXCEPT !.state = "active"]
    OBVIOUS
  <2>3. pc[c] = "confirm" /\ Rewrite(c, record)
    BY <1>5, <2>1, <2>2 DEF Activate
  <2>4. old.owner = "brain" /\ old \in Record
    BY <1>1, <2>1, <2>3, Busy DEF Imports, Good, OnItsWay, Seen, ScopeOf
  <2>5. record.owner = "brain"
    BY <2>2, <2>4 DEF Record
  <2>6. registry'[s] = record
    BY <1>a, <2>3 DEF Guarded
  <2>7. QED BY <2>5, <2>6
<1>6. ASSUME NEW c \in Client, Flip(c) PROVE StatementsOf(Exported(s) \ late) \subseteq section'[s]
  <2>1. pc[c] = "flip" /\ UNCHANGED section /\ task[c].scope = ScopeOf(c)
    BY <1>6 DEF Flip, ScopeOf
  <2>2. CASE UNCHANGED registry
    BY <1>3, <2>2
  <2>3. CASE Rewrite(c, [Seen(c) EXCEPT !.owner = "os", !.refs = task[c].refs])
    <3>1. s = ScopeOf(c)
      BY <1>a, <2>1, <2>3 DEF Guarded
    <3>2. QED BY <1>2, <2>1, <3>1 DEF Undisputed
  <2>4. QED BY <1>6, <2>2, <2>3 DEF Flip
<1>7. QED BY <1>3, <1>4, <1>5, <1>6, RegistryBy

\* When ownership goes back to the OS, the section of the OS carries every statement of
\* the Brain for that scope that is confirmed and of one of the five exported subtypes,
\* but for those confirmed after the export was collected.
THEOREM ReturnIsComplete == Spec => ReturnCarriesDirection
<1>1. DirectionInv /\ [Next]_vars =>
        [overruns' = 0 => \A s \in Scope :
           BrainOwns(s) /\ registry'[s].owner = "os" =>
             StatementsOf(Exported(s) \ late) \subseteq section'[s]]_vars
  BY StepReturns
<1>2. QED BY <1>1, DirectionInvariant, PTL DEF Spec, ReturnCarriesDirection
==================================================================================
