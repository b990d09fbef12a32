# AI-Verse Brain: a verification development in TLA+

AI-Verse Brain (`src/engine/aiverse_brain`) is a library that keeps a file-based store of strategic objects
(intents, goals, objectives, strategies, beliefs, policies), runs bounded "ticks" of cognition over them, and
performs external actions through a host. It has no server: every process that opens the same directory is a
peer, and all coordination goes through files created with `O_CREAT|O_EXCL`, files replaced with `os.replace`,
and revision numbers. What is hard in it is therefore not in any one function but between two processes, or
between two file operations of a process that dies.

This directory holds TLA+ modules translated from that code, the TLC configurations that check them on small
instances, and proofs checked by TLAPS of what holds for every instance. `PROJECT.json` is the index: which
definition stands for which lines, which run checks what, which mutation of the code each property detects,
and the list of hazards with the properties that answer each one, or a note why none does.

## 1. Inventory

Paths are relative to `src/engine/aiverse_brain`.

| component | state | operations | hard parts | what makes it correct |
|---|---|---|---|---|
| key locks: `runtime_lock.py`, `storage.py` `_lock` | one lock file per key, its mtime and token | acquire (two attempts, break when expired), release (token check) | break and release are check-then-unlink; crashes leave files; slow holders expire | mutual exclusion, no unlink of another's file, recovery after a crash |
| object store: `storage.py`, `models.py` | one JSON file per object with a revision | load, save(expected_revision), list | load without lock, save later; crash in the save | no acknowledged change lost, no refused change kept |
| goal service: `goal.py` | goal object, one receipt file per operation id | create, edit, transition, criteria changes, record_progress, evaluate, continuation_contract | resent and colliding operation ids, crash between goal and receipt, late turns, limits | operations apply once, completion is earned, turns are bounded, epochs fence |
| action boundary: `action_boundary*.py`, `host_permission.py`, `action_snapshot.py` | one receipt per place, class and key; in-memory approvals | authorize, execute, reconcile | lost answers, crashes after the claim, retries, a host that is asked twice for permission | an effect happens at most once, receipts tell the truth |
| direction ownership: `direction_ownership.py` | one registry file for all scopes, `CURRENT.md` of each scope | handover, resume, handback_to_os, views | two nested locks, whole-file rewrites, staged intents, interrupted handovers | one owner at a time, nothing lost on the way in or out |
| controller: `controller.py`, `state_machine.py` | none of its own | create, transition, update_policy, link_workspace_intent | checks (owner, caps, policy) precede the save without a lock over both | owner check, WIP caps |
| intent owner: `intent_owner.py` | intents | capture, resume, correct | two or three saves per correction | one current intent per chain |
| cadence: `cadence.py`, `cadence_plan.py`, `cadence_hooks.py` | trigger receipts | claim, complete, recover_stale_claim | recovery races a slow tick | a trigger runs once |
| runtime: `runtime.py`, `orchestrator.py`, `tick_output.py`, `proposal_apply.py` | none of its own | run_tick, execute_action, apply | failure of one proposal, crash in a tick | no automatic replay |
| attention: `attention.py` | counters per scope | claim_notification | concurrent sessions at a budget | budgets are kept |
| strategies and learning: `strategy_revision.py`, `learning.py`, `freshness.py` | strategy, learning and belief objects, restoration records | promote, rollback, reconcile, admit, contradict, refresh | pairs of objects changed in two saves | one ACTIVE strategy of a chain, restorable |
| objectives: `progress.py`, `evaluator.py`, `verification.py`, `direction.py` | objectives, evaluations, initiatives | record_attempt, apply_to_objective, initiatives | save then transition | attempts bounded, passed means evidence |
| lifecycle: `lifecycle.py`, `extension_registry.py`, `write_gate.py` | attachment registry | attach, enable, disable, uninstall | check-then-act against handover, lock without expiry | a Brain that owns direction is enabled |
| adoption and set-up: `adoption.py`, `installation.py`, `migration.py`, `onboarding.py` | transaction record, state directories | apply, resume | crash between a rename and its record | adoption can always be resumed |
| policy: `policy.py`, `effective_policy.py`, `authority.py` | policy objects | intersect, assert_tightens | precedence | an override only tightens |
| cognition: `cognition.py`, `reasoner.py`, `retrieval.py`, `ranking.py`, `improvement.py` | none | assemble, parse, rank | pure text | - |
| bridges and hosts: `bridge*.py`, `vendor*.py`, `integration.py`, `skills_receipt*.py`, `purpose_snapshot.py`, `owner_write.py`, `write_router.py`, `host*.py`, `local_host.py` | none | dispatch | validation | - |
| `cli.py`, `doctor.py`, `validation.py`, `path_safety.py`, `errors.py` | none | - | - | - |

How they interact. `BrainController` is the gate to `ObjectStore`; services (goals, ownership, strategies,
intents) take a `RuntimeKeyLock` and call the controller or the store inside it. `BrainRuntime.run_tick` claims
a trigger in the ledger, asks a reasoner, applies its proposals through the controller and claims attention for
what it shows; `execute_action` goes through the action boundary to the host. The controller asks the ownership
registry before it writes a strategic intent. Everything shared is a file.

## 2. Modules

| module | models | extends / uses |
|---|---|---|
| `TtlLock` | the expiring mutex callers of a key lock rely on | - |
| `KeyLock` | the lock file protocol, one system call a step | implements `TtlLock` (`Lock!Spec`) |
| `KeyLockProofs` | theorems about `KeyLock` | `KeyLock`, TLAPS |
| `ObjectStore` | load and save of one object | its lock is `TtlLock` plus a slow owner |
| `ObjectStoreProofs` | theorems about `ObjectStore` | `ObjectStore`, TLAPS |
| `IdempotentGoals` | what the goal service promises of its mutations | - |
| `GoalOperations` | receipts, locks, version test and save of a goal mutation | implements `IdempotentGoals` (`Promise!Spec`) |
| `Goal` | what the mutations do to a goal, and the host working on it | one step per mutation, justified by `GoalOperations` |
| `GoalService` | both goal modules, one part at a time | `Goal`, instance of `GoalOperations` |
| `GoalServiceProofs` | theorems about `Goal`, `GoalOperations` and the promise | `GoalService`, TLAPS |
| `ActionLedger` | executions, receipts and reconciliations of external actions | locks as in `TtlLock` plus a slow owner |
| `ActionLedgerProofs` | theorems about `ActionLedger` | `ActionLedger`, TLAPS |
| `Direction` | ownership of direction, the shared registry, intent writes | locks likewise |
| `DirectionProofs` | theorems about `Direction` | `Direction`, TLAPS |
| `TriggerOnce` | what the trigger ledger promises of a key | - |
| `Intents` | capture, correction and replay of strategic intents, and their other writers | the scope's lock as in `TtlLock`, one call at a time |
| `Strategies` | promotion, rollback and reconciliation of a chain of strategies | - |
| `Learning` | a learning from observation to strategy candidate | - |
| `Beliefs` | freshness, contradiction and refresh of a belief | - |
| `Objectives` | attempts, evaluations and transitions of objectives under a cap | - |
| `Initiatives` | opportunity, initiative, duplicates, cooldown, WIP cap | the fingerprint's lock |
| `Proposals` | applying a proposal again and again, routing a candidate | - |
| `Lifecycle` | setup, enable, disable, update, uninstall and the extension registry | ownership of direction reduced to its owner |
| `Adoption` | the resumable adoption of a standalone Brain | - |
| `Tick` | ticks of a scope: trigger receipts, proposals, the attention ledger | implements `TriggerOnce` (`Once!Spec`), takes its lock from `TtlLock` |
| `TickProofs` | theorems about `Tick` | `Tick`, TLAPS |
| `Services` | the services over the store and a key lock, one part at a time | `KeyLock`, instances of the seven modules of kinds of object |
| `ServicesProofs` | theorems about the seven and the lock | `Services`, `KeyLockProofs` |
| `Recovery` | what a dead caller leaves and the next one finishes | `KeyLock`, instances of `Intents` and `Adoption` |
| `RecoveryProofs` | theorems about `Intents` and `Adoption` | `Recovery`, TLAPS |
| `MC*` | constants, symmetry and small inputs for TLC | the module they are named after |

The layers stand on each other. `KeyLock` is the only module with the system calls of a lock; it shows that the
file protocol is the mutex of `TtlLock` as long as holders are quicker than the time to live and a break is not
interleaved with another. Every other module uses that mutex as variables of its own (`lock`, `locks`,
`scopeLock`, `registryLock`) with its four steps take, give, die, reclaim, and adds one step that the code does
not exclude: `Overrun`, the lock of a live, slow owner taken away. Properties that need no overrun say so in
their first conjunct (`overruns = 0`), so each run shows at once what holds with healthy locks and what holds
whatever happens to them.

Above the store, the services share one shape: load, judge, save at the revision that was loaded, and often a second
load and save for the status. That `ObjectStore` refuses a save of an older revision is proved of its own module;
the modules of the services use it as their save: `current` (or `held`) says that a worker's copy is of the revision on
disk, and a save makes everybody else's copy outdated. What they explore is what happens between the saves.

These services share no object, so a run over the product of their states would multiply what cannot interact.
`Services`, `Recovery` and `GoalService` therefore let each behaviour be one of a single part, `part`, picked in
the beginning, and leave the other parts at rest in an initial state: the behaviours are those of each module by itself,
and a property of the run is a property of each of them. Where two services do share an object, they are in one module
(outcomes recorded on a strategy, evaluation and attempts of an objective, evidence and derivation of a learning, a
handover next to a disable).

### KeyLock
`file` is the lock file (owner, whether its payload is written, age in ticks saturating at `Ttl + 1`); `pc` walks through
`acquire` and the release: `create` (`os.open`), `stat`, `break` (unlink of an expired file), `write`,
`critical`, `readToken`, `unlink`. `attempt` is the loop variable: only the first attempt breaks. A token written
after the file was unlinked goes to a dead inode and changes nothing (`Write`). `Crash` leaves the file.
`Short` names the windows assumed shorter than what others do in the meantime ("hold", "break", "release"); the
code enforces none of the three, and each run says which it assumes.

### ObjectStore
One object file. Contents are sets of changes, a change being a caller and its running number, so that a change
overwritten unseen is visible. `Load` is the caller's `load` and its change in memory; `Acquire`, `Check` or
`Conflict`, `Replace`, `Release` are the save. `None` as expected revision is written 0.

### GoalOperations and IdempotentGoals
A request is a fingerprint: operation id, goal, a variant for the rest of the payload, the version expected (0
for create). A goal is the sequence of requests that made it. The steps of a call are those of `edit`,
`transition`, `_criteria_mutation` and `record_progress`, which share one shape (`_begin`, operation lock, goal lock,
`_begin`, load and version test, save, `_record`, release), and of `create`, which takes the operation lock only and recovers a goal
saved without its receipt. Operation ids and goal ids share one lock namespace, so the two sets may overlap.
`IdempotentGoals` is the promise: requests apply against the current version, success is reported only for what
took effect, an operation id takes effect once until somebody is interrupted.

### Goal
The payload logic: `Transition`, `Complete`, `Edit`, `CriteriaAdd/Remove/Clear`, `RecordProgress` with the order of limits
(deadline, turns, tokens, cost, stall), `Satisfied` for `evaluate`, and `FetchContract` for the host. The epoch
rises on resume and on changes of definition. Evidence is reduced to its class (model or not), because that is all
the code asks of it. `ControllerTransition` is the generic path of `BrainController.transition`, which accepts goals
too; `bypassed` records its use, and the properties about the owner service exclude it by name.

### ActionLedger
A call walks `permit` (host permission), `lock`, `read`, `authorize`, `claim`, `bind`, `edge` (second permission), `send`,
`wait`, `release`; a reconciliation `settleLock`, `settle`. Receipts live per place (state root of the scope for side
effects, the runtime directory for reads) and key. The host is external: a message flies until it is performed, repeated (by an idempotent host that knows it) or
refused, and the caller may lose the answer while it flies. A host never claims a receipt or "no effect" falsely; of
everything else it may say anything. `stale` records that a reconciliation used evidence older than the last
dispatch.

### Direction
All scopes in one `registry`; `section` is the strategic section of each scope's `CURRENT.md`, `intents` the Brain's
intents in order of creation. `handover` (plan, stage, guarded record, guarded resume), `handback_to_os` (guarded collect,
export, flip) and the unguarded intent writes of the controller (ask the owner, later save) interleave step by
step. `seen` in a task is the copy of the registry a process last read; `Rewrite` writes that copy back with one
record changed, which is what the code does with the whole file. A statement is the set of items it speaks of. An intent has one
of two subtypes: `goal` stands for the five that a handover imports and a handback exports (`_STRATEGIC_SUBTYPES`), `mission` for
the other three, which `_brain_direction_items` passes over: `Exported` is what a handback looks at, also when it refuses an empty
export. A paused intent comes back (`Moves`), and a transition saves against the revision it loaded. `late` is a history: the
intents confirmed after a handback had collected its export; a later handback that collects them clears it.

### Tick and TriggerOnce
`run_tick` of several processes in one scope. `receipt` is the file of each idempotency key: `Claim` creates it
blank (`O_EXCL`), `WriteClaim` writes its payload, `ReadReceipt`, `WriteTemp` and `Replace` are the three file operations of
`complete`, whose temporary file is named after the key alone; `CheckRecovery` and `UnlinkClaim` are the two of
`recover_stale_claim`. In between a tick works off its proposals: one that never reaches the user is `KeepToItself`; one that
does asks (`Ask`, which reads the clock first), takes the attention lock, reads the ledger and is denied or granted.
The three counters are written at once (`Counted`), with the oldest days and sessions dropped. `shown` is a history: the
items that came back as surfaced, in order. The write gate is asked again at every write and may close under a running tick
(`SwitchGate`): then completions and grants fail and leave what is on disk. The clock counts days. `Short` names
the two windows the trigger ledger assumes and does not enforce. The attention lock is a plain `TtlLock`, without a slow
owner: its section reads and writes one small file.
`TriggerOnce` is the promise: a key's tick is new, running, done or lost, and only a recovery makes a lost one new.

### Intents
`intent` has status, revision and whether a workspace is linked; a candidate bears the name of the operation that made
it. `capturing` is the call in the scope's lock with the copy it holds; its stages are the transitions of `_activate`
(`supersede`, `confirm`, `activate`, `link`). `Resume` is `_resume_or_return`: a request sent again. `ChangeStatus` and `ChangeLink`
are the controller's writes, which take no such lock. What a request said (`request`) is on the candidate in the code
(`intent_capture`). The user's own words are confirmed by the service and not by hand, which is how the command line offers it.

### Strategies
`rule` and `previous` are statuses and links, `sound` the strategies whose evidence lets them be activated, `restoration` the
transaction files. A call's stages are the transitions of promotion (`activate`, `retirePrevious`, and `undo` when that is refused)
and of rollback (`restore`, `noteRestored`, `rollBack`, `noteComplete` or `noteCleanup`); `After` and `Otherwise` are where it
goes when the transition succeeded or raised. Each transition is `Load` and `Save`. `Line` is a strategy's
chain, the smallest set with it that `Closed` holds of: the links are followed to the end, without recursion. `tangled` is set when a reconciliation, which
takes no lock, begins while a promotion is about to retire the strategy it restores.

### Learning
One learning and the strategies derived from it. `SaveEvidence` counts as `add_evidence` does, by entry and not by reference;
`MayMove` is `assert_learning_transition`. `Derive`, `CreateDraft`, `NameDraft`, the transition and, on failure, `RejectDraft` are
`create_strategy_candidate`. `crowded` is set when two derivations meet or the user makes the last move by hand, `doubled` when a
batch names a new reference twice.

### Beliefs
One belief, days that pass, and calls of `review`, `mark_contradicted`, `refresh` and a retirement. `Save` is the first save,
`Reload` and `Move` the transition after it. `challenged` is the history: contradicted and not refreshed since.

### Objectives
Objectives of one scope under one cap. `SaveAttempt` is the whole of `record_attempt` up to its save (count, streak, budget), and
`SaveVerdict` the whole of `apply_to_objective` up to its save (validation, floor, criteria); `Load` and `Move` are the transition
both ask for, or the user does. Evidence is one of four classes of what verdicts need. `raced` counts transitions whose
capacity count another one outdated, `excused` the reasons an exhausted objective had to run on.

### Initiatives
A gap, opportunities of one fingerprint and the initiatives made of them; `Elder` competes for the cap. `Check` and
`Recheck` are the looks in the lock of the fingerprint; `Then` and `Refuse` chain the transitions of `propose_initiative`: propose, consume the
opportunity, or defer the initiative when that is refused. `fence` is the lock of the fingerprint, which lets nobody in
while it is held. Days pass for the cooldown.

### Proposals
One proposal of the kind `Init` picks, applied again and again. `Scan` is the look for the same object, `Create` the create,
`Mark` the second save by which a learning is recognised; `Route`, `Send` and `NoteRouted` are the delivery of a candidate, or, for
one without an owner (`transient`), its retirement. A belief has, next to its status, `doubted`: `review` (`Doubt`) leaves it ACTIVE and
stale, a contradiction or its later transition takes it out of force, and `refresh` brings it back, also from CONTRADICTED. The look
passes over a belief in doubt (`proposal_apply.py:440-442`), so the proposal makes it again. `crossed` and `unmarked` count the
calls that overlapped and those that were cut short, `revived` the beliefs that came back in force next to one made in their absence;
by these three the property is relaxed.

### Lifecycle
`registry` is Brain's entry and the number of the OS's edits it contains; a command reads it (`Attach`, in the lock file),
compares (`Compare`), replaces (`Replace`) and removes the lock file
(`Release`); a death before that leaves the file, and every later change of the registry is refused. A comparison that fails removes the
file in the same step. `WriteReady` is the gate in front of the commands. `marker` is the installation marker;
its identity is a running number. A handover of direction is `BeginHandover` and `RecordOwner`: module `Direction` has all of its
steps. The histories are `overlapped`, `silently`, `squeezed` and `unseen`. The OS's writes of its registry are external and modelled
as taking no lock, since none is visible.

### Adoption
`standalone`, `retired`, `staging` and `native` are the directories, whole or partial, `tx` the transaction file. Each rename, each
copy and each record of a state is a step (`Retire`, `NoteRetired`, `Stage`, `Copy`, `NoteStaged`, `Activate`, `NoteComplete`); `Entry` is where a
recorded state resumes. No lock is taken, so a second adopter may join at any point (`met`), and an `init --apply` in between looks
for a marker (`LookForNative`) and writes one later (`InitializeNative`), whatever was put in place meanwhile.

## 3. Runs

Deadlock is not checked: callers have a bounded number of calls, requests may all be answered and goals complete, so
the systems may rightly stop (`CHECK_DEADLOCK FALSE`, with a comment in the cfg). The one run without that line is
`keylock_break_race`, which ends at its violation.

| run | checks | shows |
|---|---|---|
| `recovery` | `TypeOK`, `Exclusive`, `ImplementsTtlLock`, `AbandonedIsReclaimed` (`KeyLock`); `OneSuccessor` (`Intents`); `AdoptionIsSafe` (`Adoption`); `ResumesEnd` (both) | with quick holders and atomic breaks a lock file is the expiring mutex and a dead holder's file is reclaimed; a correction and an adoption that died end when they are sent again, with one successor per intent and no state lost |
| `services` | `ServicesTypeOK`, `StrategiesHold`, `ContradictionSticks`, `LimitsHold`, `VerdictsAreEarned`, `AppliedOnce`, `AttachmentIsHonest`; `ReleaseIsOwn` (`KeyLock`) | each service with two workers that race, die and repeat; a holder that outlived its lock never removes its successor's file, if nothing happens between its token read and its unlink |
| `keylock_break_race` | `Exclusive`, violated | two breakers of one expired file end up both inside, though no holder overran |
| `objectstore_cas` | `TypeOK`, `NoLostUpdate`, `RefusedIsAbsent`, `OneHistory` | three savers, crashes, an expired lock |
| `goal_service` | `TypeOK`, `CompletionIsEarned`, `TurnsAreBounded`, `ProgressIsCurrent`, `EpochFences` (`Goal`); `ReceiptMeansApplied`, `ReceiptIsFinal`, `ImplementsIdempotentGoals` (`GoalOperations`) | every order of mutations of one goal and a host with an old contract; colliding requests of two callers, a crash, an expired lock |
| `goal_model_gate` | `GatesOutrankModelOpinion`, violated | a required gate passes on model evidence alone |
| `actionledger_calls` | `TypeOK`, `EffectAtMostOnce`, `SafeMeansNoEffect`, `CompletedMeansEffect`, `CompletedIsFinal` | two callers, an idempotent and a plain host, lost answers, a crash or an expired lock |
| `tick_policy` | `TypeOK`, `ImplementsTriggerOnce`, `WithinAttentionPolicy` | two runners, two triggers, two sessions, three days, a crash or a closed gate: each key runs once unless recovered, and all ticks together keep the attention policy |
| `direction_ownership` | `TypeOK`, `ActiveMeansImported`, `OwnershipCycle`, `ReturnCarriesDirection` | two processes, two scopes, a crash or a lock that expires under its owner |
| `direction_resume` | `HandoverCompletes` | an interrupted handover ends when it is run again |
| `direction_late_intent` | `OnlyOwnerConfirms`, violated | an intent write that asked before a handback saves after it |
| `intent_stale_correction` | `StaleCorrectionsFail`, violated | a correction sent again after two later ones takes effect next to them |

The invariants of `services` are conjunctions over the parts: `StrategiesHold` is `Strategies!ChainStaysInForce` (no chain
is left without a strategy in force) and `Learning!NamesItsStrategy`; `ContradictionSticks` the same of beliefs and
`Learning!NeverOverruled`; `LimitsHold` is `WorkIsCapped`, `WipIsCapped` and `AttemptsAreBounded`; `VerdictsAreEarned` is `PassedIsVerified` and
`ValidationIsEarned`; `AppliedOnce` is `ProposedOnce` and `Proposals!AppliedOnce`; `AttachmentIsHonest` is the four of `Lifecycle`. Several of
these bound a quantity by one more for each race of a kind the code leaves open (`raced`, `overtaken`, `crossed`, `cutShort`,
`unmarked`, `revived`, `excused`, `unseen`): they say that nothing else breaks the limit, and by how much such a race does.

Bounds, and why they suffice. `KeyLock`: three processes, because the races that matter need one dead owner and
two breakers; `Ttl = 1`, because the code compares the age with one threshold and the age saturates above it; two
crashes. `ObjectStore`: three callers with two saves each, so that a save can be stale against both a concurrent
saver and an earlier change of its own. `GoalOperations`: four requests out of ten that were chosen for their
collisions (same id on two goals, two versions and two payloads, an id spelled like a goal's id, a create's id
used for an edit), two callers; a fifth request repeats a situation of the first four. `Goal`: five versions, so
that a turn limit of three is reached and then exceeded by a resume; two budgets that let each limit be first.
`ActionLedger`: two callers and three calls (an execution, a retry or competitor, a reconciliation), one mishap.
`Direction`: two processes, an operator and a workspace scope, three operations (handover, handback, an intent write or a
second handover) and free resumption; one mishap. `Tick`: one proposal a tick, so that the ticks differ in when they ask; a budget of one, a cap and a cooldown of two, so
that each refuses once within the run; a recovery age of two days, so that a tick may cross midnight, and three days, so
that a recovered key runs again and the ledger prunes a day; one mishap. `direction_resume` has the operator's scope alone and two operations (a
handover and whatever else meets it), because resumption is free and one interruption is enough to need it. The services have two
workers: a race has two sides, and what a third would add is a worker that died, which a crash is. `Intents` in `recovery`: two
corrections, two deaths, two edits by others; in `intent_stale_correction` three corrections and one death, the least that shows it.
`Strategies`: a strategy in force and two to come, so that a chain has length three; four calls, one death, one outcome. `Learning`: two
observations and a controlled evaluation, four calls. `Beliefs`: three days with an age of two; three calls. `Objectives`: two for one
place, a budget of one attempt (exhausted at once), a floor of V2, one evaluation for each way to be refused or concluded. `Initiatives`: two
opportunities for one initiative in play and `Elder` for the one place; a day's cooldown. `Proposals`: three objects for five applications, two cut
short, and one belief that comes back next to another (`MaxRevivals`): with three objects there is room for the old one, the one made
again and one more that a race makes. `Lifecycle`: four commands, one death, one edit of the OS. `Adoption`: two adopters, two deaths. Counters that only bound the
exploration are `crashes`, `overruns`, `asked`, `calls`, `saves`, `operations`, the `...Calls`, `...Crashes` and `...Deaths` of the services, `outcomes`,
`edits`, `Intents`' `MaxRevision`, and `Goal`'s `MaxVersion` and `MaxTime`.

Fairness. `KeyLock`: the clock runs (WF of `Age`) and each process takes its next step (WF of `Step(p)`), which
includes coming back after a conflict; the callers poll or are called again. `Direction`: weak fairness of a
process's own steps; strong fairness of getting a lock file that is released again and again, which the ten
seconds of polling under the guard and repeated calls stand for; weak fairness of `Reclaim` (time passes); and
strong fairness of running an interrupted handover again, which is the recovery the comment in `handover` names.
`Intents`: weak fairness of a call that is in
the lock, strong fairness of a user sending a request again that was cut short: the code resumes only when the same capture is
repeated. `Adoption`: weak fairness of each adopter's steps, strong fairness of running set-up again while a transaction record is there.
No other module claims liveness.

## 4. What is proved

`KeyLockProofs`, for every set of processes, time to live and number of crashes:

* `TypeCorrect`: `Spec => []TypeOK`.
* `MutualExclusion`: with "hold" and "break" in `Short`, `Spec => []Exclusive`. `Exclusive` is not inductive; the
  invariant proved, `LockInv`, adds that a process holding the lock owns a file that is not expired (so two holders
  would both be its one owner) and that while a process is about to break, the file is gone or expired (so it is
  nobody's who holds).
* `Refinement`: under the same assumption `Spec => ImplementsTtlLock`, one system call at a time, from that invariant.

* `ReleaseOwn`: with "break" and "release" in `Short`, `Spec => ReleaseIsOwn`, however long a holder overruns. The
  invariant, `UnlinkInv`, says that a releaser past its token check owns the file and is the only process about to unlink.

`TickProofs`, for every set of processes, keys, sessions and fingerprints and all limits: `TickRunsOnce`, that is
`Spec => ImplementsTriggerOnce` when "tick" and "recover" are in `Short` and the recovery age is not zero. Steps are reduced to the
kinds of what they do to the receipts (`Kinds`), so that nothing about the attention ledger enters the argument.
`TickInv` says that one process at a time is busy with a key, that a running tick's receipt is blank or claimed and too
young to recover, and that a recovery still sees the claim it checked; without the ages the recovery's check would
not exclude the tick it recovers from.

The same module proves `TickTypeCorrect` (`Spec => []TypeOK`, without any window) and `AttentionPolicyHolds`: with both windows
and `Roomy`, `Spec => []WithinAttentionPolicy`, for every number of processes, sessions, fingerprints and days. The policy says
nothing of the ledger and is not inductive. `AttentionInv` adds that the ledger accounts for what was surfaced (`Accounts`): the
interruptions of every day young enough for a live tick to ask about, the items of every session, the last day of every
fingerprint; and what a process inside the lock may rely on (`Attends`): the copy it decides on is the ledger, then the ledger
is that copy with its item counted, and the copy accounted for what was surfaced before. Two facts about pruning carry it. A day a
live tick can ask about is among the latest `KeptDays` (`RecentDayStays`; a tick's clock is younger than the recovery age, by the
window "tick", and `RecoveryAge <= KeptDays`, minutes against fourteen days). And no session is dropped (`SessionStays`) when there
are no more than `KeptSessions`: that is the premise `Roomy`, which the run satisfies. It cannot be spared: `attention.py:136` drops
the session that was longest silent, and when it speaks again its count begins at nothing.

`ActionLedgerProofs`, for every set of callers, requests, places, keys and hosts: `LedgerTypeCorrect`, `CompletionIsEarned`
(`CompletedMeansEffect`), `RetryIsSafe` (`SafeMeansNoEffect`), `EffectHappensOnce` (`EffectAtMostOnce`), `CompletionIsFinal`
(`CompletedIsFinal`). `LedgerInv` has two halves. `Honest` holds whatever happens to locks and evidence: what receipts, answers and
callers on their way to either say of the past is true of the messages that were sent. `Orderly` holds while `Undisturbed`: a
caller inside owns its key and finds the receipt as it left it (`InTurn`), the receipt of a request that was sent is its own
(`Owned`), and a message follows another of its request only when the earlier one was refused or went to a host that recognises
a repetition (`Spaced`). That last part is what makes the effect happen once; none of the four safety properties says it.

`DirectionProofs`, for every set of processes, scopes and items: `DirectionTypeCorrect`, `ImportIsComplete`
(`ActiveMeansImported`), `OwnershipOnlyCycles` (`OwnershipCycle`), `ReturnIsComplete` (`ReturnCarriesDirection`). The records
`DirectionInv` speaks of are not only those of the registry but those of every copy a process carries, however old, since any of
them may be written back (`Sound`, `Good`); so the import is complete even when locks are lost. The other two need that none was
(`overruns = 0`): then a process inside the registry's lock carries the registry itself, and what it exports carries every
confirmed statement of an exported subtype that is not late (`Undisputed`).

`GoalServiceProofs` has the theorems of both goal modules. About one goal, for every set of criteria, references, budgets and gates
and without the bounds of the run: `GoalTypeCorrect`, `CompletionEarned`, `TurnsBounded`, `LateTurnsRefused`, `EpochIsFence`. Every
action is first reduced to one of six kinds of step over the fields the properties speak of (`StepKinds`); `GoalInv` then adds to the
properties that a contract of the current version is of the current epoch, that the epoch is at least 1 and the budget one of
`Budgets`, and `TurnInHand`: an active goal has one turn more in hand than the bound, which is what a turn
consumes and a resume pays for. `TurnsAreBounded` alone is not inductive, since it says nothing of an active goal at its bound.

About the operations, for every set of callers, goals, operation ids and requests: `ReceiptsAreTrue` (`ReceiptMeansApplied`),
`ReceiptsAreFinal` (`ReceiptIsFinal`) and `ServiceImplementsPromise`, the refinement `ImplementsIdempotentGoals`, each of every
behaviour of `GoalServiceSpec`. `OperationsInv` adds to the truth of the receipts that while no lock was lost a caller has the locks it
believes it has and no receipt has come up since its second look (`Owns`), and that while nobody has died what took effect has its
receipt or a caller about to write it (`Recorded`). The second is what the refinement rests on: it says an operation without a receipt
has not been used.

`ObjectStoreProofs`, for every set of callers and all bounds: `StoreTypeCorrect`, `NothingIsLost` (`NoLostUpdate`),
`RevisionsFormOneLine` (`OneHistory`), `RefusedLeavesNoTrace` (`RefusedIsAbsent`). The inductive invariant `StoreInv` says
that with no overrun a process inside a save owns the lock, that a saver past its check has seen the revision
that is still there, that a loaded copy of the current revision carries everything the object carries, and that
saved changes are in the object. `RefusedIsAbsent` needs no premise on overruns and has an invariant of its own.

`ServicesProofs`, for every set of workers and of objects, and every bound, cap and budget that `ServicesAssumption` allows. Each
part has an inductive invariant of its own; `PartsInvariant` puts them together, since a step of the services is a step of one part
and leaves the others alone. Common to all of them is what a call under way may rely on of what it read: the content it holds is the
one on disk, or it has been told (`current`, `touched`, `overlapped`, `crossed`), and those flags are what the properties make
their exceptions for.

* `ServicesTypesStand`: each part stays in its types.
* `StrategiesStand` (`StrategiesHold`). The hardest of these. That a chain has a strategy in force is far from inductive: between the
  two saves of a promotion or rollback there are two or none, a promotion may die with its revision in force and its predecessor not
  retired, and any number of revisions of one strategy, and of calls on them, may be at different stages. `ChainInv` says what each stage may
  rely on (`StagesFit`), that an undisturbed copy is judged (`CopiesJudged`), that a revision is promoted by one call at a time (its key
  lock, `OnePromotes`), that links have no gaps (`LinksFit`, `Rooted`); and that there is a set `G` of strategies (`Borne`) which has the
  first of each chain, all of them in force or retired, such that for each `x` in `G` the *bearers*, revisions of `x` in `G` with no call under
  way that could take them out, are at least as many as the *claims*, promotions about to retire `x` that do not add a bearer, and one
  more once `x` is retired. A save moves one revision into or out of `G`, or settles one claim (`BorneKeptSave`). Were no strategy
  of a chain in force, each of its strategies in `G` would have a revision in `G`, an injection of a finite set into itself, and so a
  surjection: the first of the chain would be a revision of something (`BorneIsInForce`). `~tangled` is needed once: when a
  reconciliation begins, no promotion is about to retire what it restores (`ChainKeptBeginning`). The proof showed that no other
  meeting of calls needs an exception. The derivation of a strategy from a learning (`NamesItsStrategy`) has
  `DerivationInv`: who derives does so alone, and has named its strategy before it asks for the last move.
* `ContradictionStands` (`ContradictionSticks`). The status of a belief is saved apart from the content and lags behind it, so `BeliefInv`
  rests on the content alone, and on `Unaware`: a review about to save a copy that is still current has not seen a contradiction.
* `VerdictsStand` (`VerdictsAreEarned`). A criterion that counts as passed was judged at the floor when it was recorded, a transition
  about to be saved on an undisturbed copy may still be made (`MovesAreJudged`), and the counts a rung is judged by are founded on
  the references on file (`CountsAreFounded`).
* `LimitsStand` (`LimitsHold`). An objective at work has an attempt left, or an excuse or a recorder for it (`BudgetLeft`); objectives and
  initiatives at work are at most the cap and those whose count another one outdated.
* `OneOfAKind` (`AppliedOnce`). Who holds the lock of a fingerprint knows what is in play; what is there beyond one was made by calls that
  are counted as crossed, cut short or unmarked, or is a belief that a refresh put back in force (`revived`).
* `AttachmentStands` (`AttachmentIsHonest`). Who changes the registry holds its lock and has read the entry it replaces.

`RecoveryProofs`, for every set of operations and workers and every number of deaths: `OneSuccessorStands` (`OneSuccessor`) and
`AdoptionStands` (`AdoptionIsSafe`). `IntentsInv`: a correction in force holds a prior intent that is retired, and the call in the lock is judged
on what is on disk. `AdoptionInv`: each worker's next step fits the directories and the transaction file, unless two adopters met.
Neither needs the fairness of the run: the proofs are of its steps (`RecoverySteps`).

The assumptions used are the named `ASSUME`s of these modules, which TLC evaluates in the runs. With them the invariants, the
action properties and the three refinements of the passing runs are theorems. What stays with TLC, and for good, is what is temporal:
`AbandonedIsReclaimed`, `ResumesEnd` and `HandoverCompletes`, since liveness under fairness and ENABLED are beyond the prover.

## 5. Disagreements between code and documents

Four are runs (`expect: violation`, with the quotation in `PROJECT.json`):

1. *Reclaiming an expired lock is not safe* (`keylock_break_race`). `research/PHASE-3-QC-RISK-MATRIX.md:88` asks for safe
   reclaim after a state check; the check and the unlink are two steps on a path name.
2. *Model opinion can pass a gate* (`goal_model_gate`). `README.md:184`.
3. *An intent is confirmed after ownership went back* (`direction_late_intent`).
   `protocol/PURPOSE-STRATEGIC-INTENTS.md:68`.
4. *A stale correction takes effect* (`intent_stale_correction`). `README.md:205` ("stale corrections fail closed"): a correction cut
   short and sent again, after another one took its place and was corrected in turn, is activated next to the newest.

Others are visible in the models as the premise a property needs:

* `NoLostUpdate` needs `overruns = 0`: a saver suspended between its check and `os.replace` for longer than 60 s
  overwrites whatever was saved meanwhile.
* `CompletionIsEarned` and `TurnsAreBounded` need `~bypassed`: `BrainController.transition("goal", ...)` completes or
  resumes a goal without evaluation, epoch or receipt.
* `IdempotentGoals!Apply` may repeat an operation id once `interrupted`: after a crash between goal and receipt a caller
  that refreshes its version and resends under the same id applies the change again.
* `EffectAtMostOnce` speaks of one place and one host: the same key in another scope or action class has another
  receipt path; and a failure marked safe because the first host was idempotent may be retried at a host that is
  not.
* `Undisturbed` in `ActionLedger`: a reconciliation carries what was seen before it took the lock.
* `ImplementsTriggerOnce` needs both windows of `Tick`: a recovery by age cannot tell a dead tick from a slow one, and its check and
  unlink are two steps, against `cadence.py:87` ("Completed receipts are never cleared by this method").
* A tick that dies between creating its receipt and writing it leaves an empty file, against
  `protocol/RUNTIME-PIPELINE.md:94` ("A process crash leaves the trigger `claimed`"). `recover_stale_claim` fails to parse it,
  so the key stays lost for good.
* The cap of `protocol/DIRECTION-ATTENTION.md:104` ("per-session proactive item cap") is, for ticks without a session id, one cap
  for all of them and for ever: they share the entry `__no_session__` (`attention.py:105`), whose count never goes
  back. The scheduler's hooks (`cadence_hooks.py:66`) pass no session id.
* `HandoverCompletes` has an exception: while one of the staged intents is paused, and for ever when it was abandoned, every further
  handover fails on it, and a handback is refused because the scope is still activating.
* `ReturnCarriesDirection` speaks of the five exported subtypes: a handback passes over confirmed intents of the subtypes problem, mission
  and strategy (`direction_ownership.py:429`), which `protocol/PURPOSE-STRATEGIC-INTENTS.md:60` calls strategic intent, against
  `README.md:129` ("The handback first exports the active Brain strategic intent"). A scope with a mission next to a goal is
  handed back without the mission, and neither the OS section nor the record's refs mention it.
* A belief that `review` found stale is ACTIVE, but not the same to a proposal (`proposal_apply.py:442`), which makes a second one; when
  the first is refreshed, two beliefs in force say the same, and no call crossed another (`revived` in `AppliedOnce`).
* `StrategiesHold` needs `~tangled`: `rollback` writes its record before it judges the states, so a refused one leaves a `prepared`
  transaction; reconciled during a promotion of the same chain, without a lock, it rolls the activated strategy back just as the previous one is
  retired, and no strategy is in force. More than one in force is possible too and not excluded: a promotion that died between its two
  saves (repeating it is refused), a rollback that overlaps a promotion, a retired strategy without a link promoted again.
* Nothing in the code gives an initiative `evaluation_refs` (`controller.py:182`), so no initiative becomes COMPLETED.
* Two evaluators of one objective can leave it FAILED with criteria that passed; a verdict saved by an evaluator that died lets the user's
  own transition to PASSED through later, on criteria that are as good as then.
* Two recorders whose saves conflict in turn run an objective past its attempts (`excused`).
* A contradiction and a refresh that race can leave a belief CONTRADICTED with state `known`: `assess_freshness` still says contradicted.
* `add_evidence` counts a new reference named twice in one call as two (`doubled`), unlike `record_observation`; two derivations of
  one learning can leave it naming a REJECTED strategy, and an orphan.
* A new strategy or learning candidate is created twice by proposals that overlap (`crossed`), and delivered twice when the process died before
  it noted the delivery (`unmarked`).
* `update` (`lifecycle.py:236`) attaches again a Brain that was uninstalled after it looked. (`cli.py:450`, a second branch for
  `disable`, is never reached: `cli.py:267` answers the command first.)
* An adoption that died between putting the native state in place and recording it (`adoption.py:240`) cannot be resumed: the destination is
  not empty. An `init --apply` during an adoption blocks it the same way. Two adopters may copy to one directory (`met`).
* `docs/RELEASE.md:17` and the order of an adoption differ: the standalone state is retired before it is copied.

## 6. Not modelled, and why

Text and data: reasoner prompts and answers, retrieval, ranking, field validation, path checks, schemas, printing,
the bridges' request tables. They hold no state and nothing concurrent. Approval grants are reduced to
whether one was supplied and whether it is still valid; fingerprints to equality; evidence to its class. Left out of
modelled parts: reads (`read`, `status`, `doctor`, orientation, `list`), the admission of learning envelopes from Data and Skills, payload
validation and scoring of proposals, changes of the policy's caps while transitions run, objectives created with criteria that already
passed, `link_previous` on a candidate that exists (in `Strategies` a candidate is created with its link: the two calls follow each other,
and a relink in the middle of a promotion is not explored), policy updates and their intersection, directory layout and version comparison, and onboarding and the
command line, which call the operations above.

## 7. Plan

1. Policy intersection (`policy.py`, `effective_policy.py`) as an operator against its reference definition, and `update_policy` next to the
   transitions it caps.
2. `Lifecycle` over `Direction`'s own handover, and its gate in front of every service.
3. The bridge's replay of requests (`bridge_legacy.py`, `vendor_bridge.py`) over the services.
4. The exceptions of the services' properties (`crowded`, `doubled`, `overtaken`, `crossed`, `met`): the proof about `tangled` showed that it could
   be set far more seldom than it was; the others may be wider than they need to be too.
