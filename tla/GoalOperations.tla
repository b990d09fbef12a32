---------------------------- MODULE GoalOperations ----------------------------
(***************************************************************************)
(* How a Goal mutation of GoalService (goal.py) takes effect: the receipt  *)
(* of its operation id is looked up, the operation key and the goal key    *)
(* are locked, the receipt is looked up again, the goal is loaded and its  *)
(* version compared, the changed goal is saved, the receipt is written and *)
(* the locks are released.  create, edit, transition, the criteria changes *)
(* and record_progress all have this shape; what they change is the        *)
(* business of module Goal.                                                *)
(*                                                                         *)
(* A request is the fingerprinted payload: the operation id, the goal, a   *)
(* variant that stands for the rest of the payload, and the version it was *)
(* made against, 0 for a create.  A goal is the sequence of the requests   *)
(* that made it, its version the length of that sequence.  The id of a     *)
(* goal is a hash of the operation id that creates it: CreatedBy.          *)
(*                                                                         *)
(* Operation ids and goal ids share one lock namespace, so an operation id *)
(* may be spelled like a goal id: Op and Goal may overlap.                 *)
(*                                                                         *)
(* Locks are expiring mutexes (TtlLock), and overruns counts the locks     *)
(* that expired under a live, slow caller, which the code does not exclude.*)
(***************************************************************************)
EXTENDS Naturals, Sequences, FiniteSets

CONSTANTS Caller, Op, Goal, Variant, CreatedBy, Requests, None,
          MaxRequests, MaxCrashes, MaxOverruns

Request == [op : Op, goal : Goal, variant : Variant, expected : Nat]

\* what is taken for granted of the constants
GoalOperationsAssumption ==
  /\ None \notin Caller \cup Request
  /\ CreatedBy \in [Goal -> Op]
  /\ \A g, h \in Goal : CreatedBy[g] = CreatedBy[h] => g = h
  /\ Requests \subseteq Request
  /\ \A r \in Requests : r.expected = 0 => r.op = CreatedBy[r.goal]
  /\ MaxRequests \in Nat
  /\ MaxCrashes \in Nat
  /\ MaxOverruns \in Nat

VARIABLES history,   \* the goal objects
          receipts,  \* the fingerprint in the receipt file of each operation id
          locks, pc, req,
          reported,  \* requests answered with success
          asked, crashes, overruns

vars == <<history, receipts, locks, pc, req, reported, asked, crashes, overruns>>

Key == Op \cup Goal
Version(g) == Len(history[g])
IsCreate(r) == r.expected = 0

\* The keys a caller holds; create takes only the operation key, and a goal key
\* spelled like the operation key is not taken twice.
Guarded == {"recheck", "load", "save", "record", "release"}
HeldKeys(c) ==
  CASE pc[c] = "goalLock" -> {req[c].op}
    [] pc[c] \in Guarded  -> IF IsCreate(req[c]) THEN {req[c].op}
                                                 ELSE {req[c].op, req[c].goal}
    [] OTHER              -> {}

Init ==
  /\ history = [g \in Goal |-> <<>>]
  /\ receipts = [o \in Op |-> None]
  /\ locks = [k \in Key |-> None]
  /\ pc = [c \in Caller |-> "idle"]
  /\ req = [c \in Caller |-> None]
  /\ reported = {}
  /\ asked = 0
  /\ crashes = 0
  /\ overruns = 0

Goto(c, state) == pc' = [pc EXCEPT ![c] = state]

\* The end of a call; every lock still its own is unlinked.
Return(c, success) ==
  /\ Goto(c, "idle")
  /\ req' = [req EXCEPT ![c] = None]
  /\ reported' = IF success THEN reported \cup {req[c]} ELSE reported
  /\ locks' = [k \in Key |-> IF k \in HeldKeys(c) /\ locks[k] = c THEN None ELSE locks[k]]

\* A caller sends any request made against a version it can have read.
Ask(c, r) ==
  /\ pc[c] = "idle"
  /\ asked < MaxRequests
  /\ r.expected <= Version(r.goal)
  /\ asked' = asked + 1
  /\ req' = [req EXCEPT ![c] = r]
  /\ Goto(c, "begin")
  /\ UNCHANGED <<history, receipts, locks, reported, crashes, overruns>>

(***************************************************************************)
(* _begin: a receipt with this fingerprint answers the request, one with   *)
(* another fingerprint refuses it.                                         *)
(***************************************************************************)
Begin(c, next) ==
  \/ /\ receipts[req[c].op] = None
     /\ Goto(c, next)
     /\ UNCHANGED <<locks, req, reported>>
  \/ /\ receipts[req[c].op] # None
     /\ Return(c, receipts[req[c].op] = req[c])

FirstBegin(c) ==
  /\ pc[c] = "begin"
  /\ Begin(c, "opLock")
  /\ UNCHANGED <<history, receipts, asked, crashes, overruns>>

Take(c, k) == locks[k] = None /\ locks' = [locks EXCEPT ![k] = c]

\* The operation key is polled for until a deadline.
LockOperation(c) ==
  /\ pc[c] = "opLock"
  /\ Take(c, req[c].op)
  /\ Goto(c, IF IsCreate(req[c]) \/ req[c].goal = req[c].op THEN "recheck" ELSE "goalLock")
  /\ UNCHANGED <<history, receipts, req, reported, asked, crashes, overruns>>

OperationBusy(c) ==
  /\ pc[c] = "opLock"
  /\ locks[req[c].op] # None
  /\ Return(c, FALSE)
  /\ UNCHANGED <<history, receipts, asked, crashes, overruns>>

\* The goal key is tried once.
LockGoal(c) ==
  /\ pc[c] = "goalLock"
  /\ Take(c, req[c].goal)
  /\ Goto(c, "recheck")
  /\ UNCHANGED <<history, receipts, req, reported, asked, crashes, overruns>>

GoalBusy(c) ==
  /\ pc[c] = "goalLock"
  /\ locks[req[c].goal] # None
  /\ Return(c, FALSE)
  /\ UNCHANGED <<history, receipts, asked, crashes, overruns>>

\* Mutant: the receipt is looked up only before the lock.
SecondBeginSkipped(c) ==
  /\ pc[c] = "recheck"
  /\ Goto(c, "load")
  /\ UNCHANGED <<history, receipts, locks, req, reported, asked, crashes, overruns>>

SecondBegin(c) ==
  /\ pc[c] = "recheck"
  /\ Begin(c, "load")
  /\ UNCHANGED <<history, receipts, asked, crashes, overruns>>

(***************************************************************************)
(* store.load and the version test, or create's look for its own goal      *)
(***************************************************************************)

LoadForMutation(c) ==
  /\ pc[c] = "load"
  /\ ~IsCreate(req[c])
  /\ IF Version(req[c].goal) = req[c].expected
       THEN Goto(c, "save") /\ UNCHANGED <<locks, req, reported>>
       ELSE Return(c, FALSE)
  /\ UNCHANGED <<history, receipts, asked, crashes, overruns>>

\* A mutation the payload of the goal does not allow (module Goal).
RefuseMutation(c) ==
  /\ pc[c] = "load"
  /\ ~IsCreate(req[c])
  /\ Return(c, FALSE)
  /\ UNCHANGED <<history, receipts, asked, crashes, overruns>>

LoadForCreate(c) ==
  LET g == req[c].goal IN
  /\ pc[c] = "load"
  /\ IsCreate(req[c])
  /\ \/ /\ Version(g) = 0
        /\ Goto(c, "save")
        /\ UNCHANGED <<locks, req, reported>>
     \* An earlier attempt saved the goal and died before its receipt.
     \/ /\ Version(g) # 0
        /\ history[g][1] = req[c]
        /\ Goto(c, "record")
        /\ UNCHANGED <<locks, req, reported>>
     \/ /\ Version(g) # 0
        /\ history[g][1] # req[c]
        /\ Return(c, FALSE)
  /\ UNCHANGED <<history, receipts, asked, crashes, overruns>>

\* Mutants: a save that does not compare, and one whose conflict is swallowed.
SaveUnversioned(c) ==
  /\ pc[c] = "save"
  /\ history' = [history EXCEPT ![req[c].goal] = Append(@, req[c])]
  /\ Goto(c, "record")
  /\ UNCHANGED <<receipts, locks, req, reported, asked, crashes, overruns>>

SaveSwallowed(c) ==
  /\ pc[c] = "save"
  /\ history' = IF Version(req[c].goal) = req[c].expected
                  THEN [history EXCEPT ![req[c].goal] = Append(@, req[c])] ELSE history
  /\ Goto(c, "record")
  /\ UNCHANGED <<receipts, locks, req, reported, asked, crashes, overruns>>

\* ObjectStore.save: the revision is compared again with the one expected.
Save(c) ==
  /\ pc[c] = "save"
  /\ IF Version(req[c].goal) = req[c].expected
       THEN /\ history' = [history EXCEPT ![req[c].goal] = Append(@, req[c])]
            /\ Goto(c, "record")
            /\ UNCHANGED <<locks, req, reported>>
       ELSE /\ Return(c, FALSE)
            /\ UNCHANGED history
  /\ UNCHANGED <<receipts, asked, crashes, overruns>>

\* _record replaces the receipt file of the operation id.
Record(c) ==
  /\ pc[c] = "record"
  /\ receipts' = [receipts EXCEPT ![req[c].op] = req[c]]
  /\ Goto(c, "release")
  /\ UNCHANGED <<history, locks, req, reported, asked, crashes, overruns>>

Release(c) ==
  /\ pc[c] = "release"
  /\ Return(c, TRUE)
  /\ UNCHANGED <<history, receipts, asked, crashes, overruns>>

\* The process dies; its lock files stay.
Crash(c) ==
  /\ pc[c] # "idle"
  /\ crashes < MaxCrashes
  /\ crashes' = crashes + 1
  /\ Goto(c, "idle")
  /\ req' = [req EXCEPT ![c] = None]
  /\ UNCHANGED <<history, receipts, locks, reported, asked, overruns>>

\* A lock past its time to live is taken away from a dead caller ...
Reclaim(k) ==
  /\ locks[k] # None
  /\ k \notin HeldKeys(locks[k])
  /\ locks' = [locks EXCEPT ![k] = None]
  /\ UNCHANGED <<history, receipts, pc, req, reported, asked, crashes, overruns>>

\* ... or from one that is slower than the time to live.
Overrun(k) ==
  /\ locks[k] # None
  /\ k \in HeldKeys(locks[k])
  /\ overruns < MaxOverruns
  /\ overruns' = overruns + 1
  /\ locks' = [locks EXCEPT ![k] = None]
  /\ UNCHANGED <<history, receipts, pc, req, reported, asked, crashes>>

Step(c) ==
  \/ FirstBegin(c) \/ LockOperation(c) \/ OperationBusy(c)
  \/ LockGoal(c) \/ GoalBusy(c) \/ SecondBegin(c)
  \/ LoadForMutation(c) \/ RefuseMutation(c) \/ LoadForCreate(c)
  \/ Save(c) \/ Record(c) \/ Release(c)

Next ==
  \/ \E c \in Caller : (\E r \in Requests : Ask(c, r)) \/ Step(c) \/ Crash(c)
  \/ \E k \in Key : Reclaim(k) \/ Overrun(k)

Spec == Init /\ [][Next]_vars

(***************************************************************************)
(* Properties                                                              *)
(***************************************************************************)

Promise == INSTANCE IdempotentGoals WITH interrupted <- crashes + overruns > 0

TypeOK ==
  /\ history \in [Goal -> Seq(Requests)]
  /\ receipts \in [Op -> Requests \cup {None}]
  /\ locks \in [Key -> Caller \cup {None}]
  /\ pc \in [Caller -> {"idle", "begin", "opLock", "goalLock"} \cup Guarded]
  /\ req \in [Caller -> Requests \cup {None}]
  /\ \A c \in Caller : pc[c] # "idle" => req[c] # None
  /\ reported \subseteq Requests
  /\ asked \in 0 .. MaxRequests
  /\ crashes \in 0 .. MaxCrashes
  /\ overruns \in 0 .. MaxOverruns

\* A receipt is the truth about the past, crashes and lost locks included: the
\* request it names took effect on its goal.  Replaying from it can therefore never
\* invent a success.
ReceiptMeansApplied ==
  \A o \in Op : receipts[o] # None => /\ receipts[o].op = o
                                      /\ Promise!TookEffect(receipts[o])

\* Where an operation id took effect: a goal and a version of it.
Uses(o) == {use \in Goal \X (1 .. MaxRequests) :
              /\ use[2] <= Version(use[1])
              /\ history[use[1]][use[2]].op = o}
TimesApplied(o) == Cardinality(Uses(o))

\* Once its receipt is written an operation id never takes effect again, whatever is
\* sent under it and whoever died before or after, as long as no live caller lost a
\* lock: the second look at the receipt, under the operation key, is what
\* guarantees it.
ReceiptIsFinal ==
  [][\A o \in Op : overruns = 0 /\ receipts[o] # None
                     => TimesApplied(o)' = TimesApplied(o)]_vars

\* The service is the store of module IdempotentGoals: one line of history per goal,
\* each change made against the version before it, success reported only for what
\* took effect, and, until a caller is interrupted, operations applied at most once.
ImplementsIdempotentGoals == Promise!Spec
=============================================================================
