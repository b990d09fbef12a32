-------------------------------- MODULE Tick --------------------------------
(***************************************************************************)
(* The Brain's cognition tick: BrainRuntime.run_tick with the trigger      *)
(* ledger it claims its idempotency key in (cadence.py) and the attention  *)
(* ledger it asks before it surfaces anything (attention.py), for the      *)
(* ticks of one scope.  Several processes run ticks at once, each of them  *)
(* may die, a claim left behind may be recovered, and the write gate may   *)
(* close and open under all of them.                                       *)
(*                                                                         *)
(* A trigger receipt is one file per key.  It is created with O_EXCL and   *)
(* is blank until its payload is written; complete() reads it, writes      *)
(* a temporary file whose name depends on the key alone, and replaces it.  *)
(*                                                                         *)
(* The clock counts days.  RecoveryAge stands for the minimum age a claim  *)
(* is recovered at, Cooldown for the notification cooldown.  What a        *)
(* proposal says is left out: one that does not reach the attention ledger *)
(* (stored, dropped, refused by the applier, reactive mode) changes no     *)
(* state of this module, and BATCH goes the way of SURFACE.                *)
(*                                                                         *)
(* Short names the windows assumed shorter than what the others do in the  *)
(* meantime, which the code assumes and does not enforce:                  *)
(*   "tick"     a live tick ends before its claim can be recovered         *)
(*   "recover"  no one touches a receipt between the check of a recovery   *)
(*              and its unlink                                             *)
(***************************************************************************)
EXTENDS Integers, FiniteSets, Sequences

CONSTANTS Proc, None, Key,
          Fingerprint,
          Session, NoSession,          \* session ids; the key of ticks without one
          MaxInterruptions, MaxPerSession, Cooldown,
          KeptDays, KeptSessions,
          RecoveryAge, Short,
          MaxItems, MaxClock, MaxMishaps     \* bounds

ASSUME TickAssumption ==
  /\ None \notin Proc
  /\ NoSession \notin Session
  /\ {MaxInterruptions, MaxPerSession, Cooldown, KeptDays, KeptSessions,
      RecoveryAge, MaxItems, MaxClock, MaxMishaps} \subseteq Nat
  /\ RecoveryAge > 0
  \* fourteen days are kept, a tick lasts minutes
  /\ RecoveryAge <= KeptDays
  /\ Short \subseteq {"tick", "recover"}

VARIABLES
  clock,
  ready,      \* does the write gate let writes through
  receipt,    \* key -> its receipt file
  temp,       \* the keys whose temporary file is on disk
  lock,       \* the attention lock of the scope
  ledger,     \* the attention ledger of the scope
  pc,         \* process -> where it is
  job,        \* process -> the key it claimed or recovers, and when it began
  run,        \* process -> the rest of the tick it runs
  shown,      \* history: the items surfaced, in order
  mishaps     \* crashes and closings of the gate so far

vars == <<clock, ready, receipt, temp, lock, ledger, pc, job, run, shown, mishaps>>
receipts == <<receipt, temp>>
attention == <<lock, ledger, shown>>
world == <<clock, ready, mishaps>>

Day == 0 .. MaxClock
Absent == -1
Sessions == Session \cup {NoSession}
Item == [fingerprint : Fingerprint, class : {"INTERRUPT", "SURFACE"}]
Notice == [fingerprint : Fingerprint, class : {"INTERRUPT", "SURFACE"}, session : Sessions, day : Day]

NoReceipt == [status |-> "absent", by |-> None, at |-> 0]
Receipt == [status : {"absent", "blank", "claimed", "completed"},
            by : Proc \cup {None}, at : Day]

\* Absent for the entries the ledger's dictionaries do not have.
NothingShown ==
  [days     |-> [d \in Day |-> Absent],
   sessions |-> [s \in Sessions |-> [count |-> 0, at |-> Absent]],
   last     |-> [f \in Fingerprint |-> Absent]]

NoJob == [key |-> None, since |-> 0]
NoRun == [session |-> NoSession, left |-> 0,
          item |-> None, now |-> 0, seen |-> NothingShown]

AttentionStates == {"ask", "read", "decide", "release"}
TickStates == {"claim", "work", "temp", "replace"} \cup AttentionStates
Running(p) == pc[p] \in TickStates

Init ==
  /\ clock = 0
  /\ ready = TRUE
  /\ receipt = [k \in Key |-> NoReceipt]
  /\ temp = {}
  /\ lock = [state |-> "free", owner |-> None]
  /\ ledger = NothingShown
  /\ pc = [p \in Proc |-> "idle"]
  /\ job = [p \in Proc |-> NoJob]
  /\ run = [p \in Proc |-> NoRun]
  /\ shown = <<>>
  /\ mishaps = 0

Goto(p, state) == pc' = [pc EXCEPT ![p] = state]
Stop(p) ==
  /\ Goto(p, "idle")
  /\ job' = [job EXCEPT ![p] = NoJob]
  /\ run' = [run EXCEPT ![p] = NoRun]

\* The attention lock, as its callers may rely on it.
Lock == INSTANCE TtlLock WITH inside <- {p \in Proc : pc[p] \in {"read", "decide", "release"}}

\* No other process is between the check and the unlink of a recovery of k.
Undisturbed(p, k) ==
  "recover" \in Short => \A q \in Proc \ {p} : ~(pc[q] = "recover" /\ job[q].key = k)

(***************************************************************************)
(* TriggerLedger                                                           *)
(***************************************************************************)

\* O_CREAT | O_EXCL: a receipt in any state is a DuplicateTrigger.
Claim(p, k, s) ==
  /\ pc[p] = "idle"
  /\ ready
  /\ receipt[k].status = "absent"
  /\ Undisturbed(p, k)
  /\ receipt' = [receipt EXCEPT ![k] = [status |-> "blank", by |-> p, at |-> clock]]
  /\ Goto(p, "claim")
  /\ job' = [job EXCEPT ![p] = [key |-> k, since |-> clock]]
  /\ run' = [run EXCEPT ![p] = [NoRun EXCEPT !.session = s, !.left = MaxItems]]
  /\ UNCHANGED <<temp, attention>>

\* Through the open descriptor: an unlinked or replaced file is not reached.
WriteClaim(p) ==
  LET k == job[p].key IN
  /\ pc[p] = "claim"
  /\ Undisturbed(p, k)
  /\ receipt' = IF receipt[k].status = "blank" /\ receipt[k].by = p
                  THEN [receipt EXCEPT ![k].status = "claimed", ![k].at = clock]
                  ELSE receipt
  /\ Goto(p, "work")
  /\ UNCHANGED <<temp, job, run, attention>>

WorkDone(p) == pc[p] = "work" /\ run[p].left = 0

\* complete(): it reads whatever receipt is there.
ReadReceipt(p) ==
  /\ WorkDone(p)
  /\ ready
  /\ receipt[job[p].key].status \in {"claimed", "completed"}
  /\ Goto(p, "temp")
  /\ UNCHANGED <<receipts, job, run, attention>>

\* The gate is closed, the receipt is gone or does not parse: the error leaves
\* run_tick after all its work is done, and the receipt as it is.
CompletionRefused(p) ==
  /\ WorkDone(p)
  /\ ready => receipt[job[p].key].status \in {"absent", "blank"}
  /\ Stop(p)
  /\ UNCHANGED <<receipts, attention>>

WriteTemp(p) ==
  /\ pc[p] = "temp"
  /\ temp' = temp \cup {job[p].key}
  /\ Goto(p, "replace")
  /\ UNCHANGED <<receipt, job, run, attention>>

\* os.replace fails when another completion of the key took the temporary file.
Replace(p) ==
  LET k == job[p].key IN
  /\ pc[p] = "replace"
  /\ Undisturbed(p, k)
  /\ receipt' = IF k \in temp
                  THEN [receipt EXCEPT ![k] = [status |-> "completed", by |-> p, at |-> clock]]
                  ELSE receipt
  /\ temp' = temp \ {k}
  /\ Stop(p)
  /\ UNCHANGED attention

\* Mutant: the age is not looked at.
CheckRecoveryAnyAge(p, k) ==
  /\ pc[p] = "idle"
  /\ ready
  /\ receipt[k].status = "claimed"
  /\ Undisturbed(p, k)
  /\ Goto(p, "recover")
  /\ job' = [job EXCEPT ![p] = [key |-> k, since |-> clock]]
  /\ UNCHANGED <<receipts, run, attention>>

\* recover_stale_claim: a completed or a young receipt is left alone, a blank one
\* does not parse.
CheckRecovery(p, k) ==
  /\ pc[p] = "idle"
  /\ ready
  /\ receipt[k].status = "claimed"
  /\ clock - receipt[k].at >= RecoveryAge
  /\ Undisturbed(p, k)
  /\ Goto(p, "recover")
  /\ job' = [job EXCEPT ![p] = [key |-> k, since |-> clock]]
  /\ UNCHANGED <<receipts, run, attention>>

\* path.unlink() takes whatever is there by now.
UnlinkClaim(p) ==
  /\ pc[p] = "recover"
  /\ receipt' = [receipt EXCEPT ![job[p].key] = NoReceipt]
  /\ Stop(p)
  /\ UNCHANGED <<temp, attention>>

(***************************************************************************)
(* The proposals of a tick                                                 *)
(***************************************************************************)

\* One proposal less, whatever came of it.
Proceed(p) ==
  /\ Goto(p, "work")
  /\ run' = [run EXCEPT ![p].left = @ - 1,
                         ![p].item = None, ![p].now = 0, ![p].seen = NothingShown]

\* Mutant: one proposal too many.
KeepOneMore(p) ==
  /\ pc[p] = "work"
  /\ run[p].left >= 0
  /\ Proceed(p)
  /\ UNCHANGED <<receipts, job, attention>>

\* The proposal is not for the user, or failed.
KeepToItself(p) ==
  /\ pc[p] = "work"
  /\ run[p].left > 0
  /\ Proceed(p)
  /\ UNCHANGED <<receipts, job, attention>>

\* claim_notification reads the clock before it asks for the lock.
Ask(p, item) ==
  /\ pc[p] = "work"
  /\ run[p].left > 0
  /\ Goto(p, "ask")
  /\ run' = [run EXCEPT ![p].item = item, ![p].now = clock]
  /\ UNCHANGED <<receipts, job, attention>>

TakeLock(p) ==
  /\ pc[p] = "ask"
  /\ ready
  /\ Goto(p, "read")
  /\ Lock!Take(p)
  /\ UNCHANGED <<receipts, job, run, ledger, shown>>

\* LockConflict, or a closed gate: an error of this proposal, and the tick goes on.
LockRefused(p) ==
  /\ pc[p] = "ask"
  /\ ready => lock # Lock!Free
  /\ Proceed(p)
  /\ UNCHANGED <<receipts, job, attention>>

ReadLedger(p) ==
  /\ pc[p] = "read"
  /\ run' = [run EXCEPT ![p].seen = ledger]
  /\ Goto(p, "decide")
  /\ UNCHANGED <<receipts, job, attention>>

Interruptions(book, day) == IF book.days[day] = Absent THEN 0 ELSE book.days[day]

CoolingDown(p) ==
  LET last == run[p].seen.last[run[p].item.fingerprint]
  IN last # Absent /\ run[p].now - last < Cooldown

SessionFull(p) == run[p].seen.sessions[run[p].session].count >= MaxPerSession

\* Mutant: one interruption beyond the budget.
ActualClassAtBudget(p) ==
  IF run[p].item.class = "INTERRUPT" /\ Interruptions(run[p].seen, run[p].now) <= MaxInterruptions
    THEN "INTERRUPT" ELSE "SURFACE"

\* An interruption beyond the day's budget is surfaced instead.
ActualClass(p) ==
  IF run[p].item.class = "INTERRUPT" /\ Interruptions(run[p].seen, run[p].now) < MaxInterruptions
    THEN "INTERRUPT" ELSE "SURFACE"

\* The latest n of a set of entries; entries of one instant are kept together.
Latest(entries, at, n) ==
  {e \in entries : Cardinality({d \in entries : at[d] > at[e]}) < n}
LatestDays(days) == Latest({d \in Day : days[d] # Absent}, [d \in Day |-> d], KeptDays)
LatestSessions(sessions) == Latest({s \in Sessions : sessions[s].at # Absent},
                                   [s \in Sessions |-> sessions[s].at], KeptSessions)

\* p's item counted.
DaysAfter(p) ==
  [run[p].seen.days EXCEPT ![run[p].now] =
     Interruptions(run[p].seen, run[p].now) + IF ActualClass(p) = "INTERRUPT" THEN 1 ELSE 0]
SessionsAfter(p) ==
  [run[p].seen.sessions EXCEPT ![run[p].session] = [count |-> @.count + 1, at |-> run[p].now]]

\* The ledger after that, with the oldest days and sessions dropped.
Counted(p) ==
  [days     |-> [d \in Day |-> IF d \in LatestDays(DaysAfter(p)) THEN DaysAfter(p)[d] ELSE Absent],
   sessions |-> [s \in Sessions |-> IF s \in LatestSessions(SessionsAfter(p)) THEN SessionsAfter(p)[s]
                                    ELSE NothingShown.sessions[s]],
   last     |-> [run[p].seen.last EXCEPT ![run[p].item.fingerprint] = run[p].now]]

\* notification_cooldown, session_attention_budget: nothing is written.
Deny(p) ==
  /\ pc[p] = "decide"
  /\ CoolingDown(p) \/ SessionFull(p)
  /\ Proceed(p)
  /\ Lock!Give(p)
  /\ UNCHANGED <<receipts, job, ledger, shown>>

Grant(p) ==
  /\ pc[p] = "decide"
  /\ ~CoolingDown(p) /\ ~SessionFull(p)
  /\ ready
  /\ ledger' = Counted(p)
  /\ Goto(p, "release")
  /\ UNCHANGED <<receipts, job, run, lock, shown>>

\* _write raises before it writes: an error of this proposal.
GrantRefused(p) ==
  /\ pc[p] = "decide"
  /\ ~CoolingDown(p) /\ ~SessionFull(p)
  /\ ~ready
  /\ Proceed(p)
  /\ Lock!Give(p)
  /\ UNCHANGED <<receipts, job, ledger, shown>>

\* The decision returns and the item joins the result's surface_items.
Surface(p) ==
  /\ pc[p] = "release"
  /\ Proceed(p)
  /\ Lock!Give(p)
  /\ shown' = Append(shown, [fingerprint |-> run[p].item.fingerprint, class |-> ActualClass(p),
                             session |-> run[p].session, day |-> run[p].now])
  /\ UNCHANGED <<receipts, job, ledger>>

(***************************************************************************)
(* The environment                                                         *)
(***************************************************************************)

\* The process dies, or planning raises.
Crash(p) ==
  /\ pc[p] # "idle"
  /\ mishaps < MaxMishaps
  /\ mishaps' = mishaps + 1
  /\ Stop(p)
  /\ IF pc[p] \in {"read", "decide", "release"} THEN Lock!Die(p) ELSE UNCHANGED lock
  /\ UNCHANGED <<clock, ready, receipts, ledger, shown>>

\* An abandoned lock outlives its time to live and is broken.
ReclaimLock ==
  /\ UNCHANGED <<world, receipts, ledger, shown, pc, job, run>>
  /\ Lock!Reclaim

\* The extension is disabled or enabled again under the ticks that run.
SwitchGate ==
  /\ ready => mishaps < MaxMishaps
  /\ mishaps' = IF ready THEN mishaps + 1 ELSE mishaps
  /\ ready' = ~ready
  /\ UNCHANGED <<clock, receipts, attention, pc, job, run>>

PassDay ==
  /\ clock < MaxClock
  /\ "tick" \in Short => \A p \in Proc : Running(p) => clock + 1 - job[p].since < RecoveryAge
  /\ clock' = clock + 1
  /\ UNCHANGED <<ready, mishaps, receipts, attention, pc, job, run>>

Step(p) ==
  /\ \/ \E k \in Key : CheckRecovery(p, k) \/ \E s \in Sessions : Claim(p, k, s)
     \/ WriteClaim(p) \/ ReadReceipt(p) \/ CompletionRefused(p) \/ WriteTemp(p)
     \/ Replace(p) \/ UnlinkClaim(p) \/ KeepToItself(p)
     \/ \E item \in Item : Ask(p, item)
     \/ TakeLock(p) \/ LockRefused(p) \/ ReadLedger(p) \/ Deny(p) \/ Grant(p)
     \/ GrantRefused(p) \/ Surface(p)
  /\ UNCHANGED world

Next ==
  \/ \E p \in Proc : Step(p) \/ Crash(p)
  \/ ReclaimLock \/ SwitchGate \/ PassDay

Spec == Init /\ [][Next]_vars

(***************************************************************************)
(* Properties                                                              *)
(***************************************************************************)

TypeOK ==
  /\ clock \in Day
  /\ ready \in BOOLEAN
  /\ receipt \in [Key -> Receipt]
  /\ temp \subseteq Key
  /\ ledger.days \in [Day -> Nat \cup {Absent}]
  /\ ledger.last \in [Fingerprint -> Day \cup {Absent}]
  /\ shown \in Seq(Notice)
  /\ pc \in [Proc -> {"idle", "recover"} \cup TickStates]
  /\ \A p \in Proc : run[p].left \in 0 .. MaxItems /\ run[p].session \in Sessions
  /\ mishaps \in 0 .. MaxMishaps

\* What a key's receipt and its live ticks amount to.
KeyState(k) ==
  IF receipt[k].status = "absent" THEN "new"
  ELSE IF receipt[k].status = "completed" THEN "done"
  ELSE IF \E p \in Proc : Running(p) /\ job[p].key = k THEN "running"
  ELSE "lost"

Once == INSTANCE TriggerOnce WITH tick <- [k \in Key |-> KeyState(k)]

\* The same idempotency key does not execute the same tick twice: not twice at once,
\* not after it was completed, and after a death only when it was recovered.
ImplementsTriggerOnce == Once!Spec

InterruptionsOf(d) == {i \in DOMAIN shown : shown[i].day = d /\ shown[i].class = "INTERRUPT"}
ItemsOf(s) == {i \in DOMAIN shown : shown[i].session = s}

\* What concurrent, crashed, repeated and midnight-crossing ticks of a scope surface
\* stays within the attention policy: the interruptions of a day, the items of
\* a session and the time between two notifications of one fingerprint.
WithinAttentionPolicy ==
  /\ \A d \in Day : Cardinality(InterruptionsOf(d)) <= MaxInterruptions
  /\ \A s \in Sessions : Cardinality(ItemsOf(s)) <= MaxPerSession
  /\ \A i, j \in DOMAIN shown :
       i < j /\ shown[i].fingerprint = shown[j].fingerprint
         => shown[j].day - shown[i].day >= Cooldown
=============================================================================
