----------------------------- MODULE ActionLedger -----------------------------
(***************************************************************************)
(* External actions (action_boundary.py over action_boundary_legacy.py):   *)
(* an execution asks the host's permission, takes the lock of its          *)
(* idempotency key, reads the receipt, is authorized, writes a claim, asks *)
(* the host again, dispatches, and records what came back; reconcile       *)
(* settles a receipt from evidence.  Every file access and every call of   *)
(* the host is a step, and a caller may die between any two.               *)
(*                                                                         *)
(* A request names its key, the place its receipt lives in (the state root *)
(* of its scope for a side effect, the runtime directory for a read), the  *)
(* hosts it may be run against, whether it has a side effect, and a body   *)
(* for the rest of its fingerprint.                                        *)
(*                                                                         *)
(* The host is external.  A dispatched message flies until the host        *)
(* performs it, refuses it or, when the host is idempotent and has         *)
(* performed the request before, repeats the answer.  A caller may lose    *)
(* the answer while the message flies on.  A host that says "noEffect"    *)
(* or returns a receipt tells the truth; everything else it may say of any *)
(* outcome.                                                                *)
(***************************************************************************)
EXTENDS Naturals, Sequences

CONSTANTS Caller, Host, Idempotent, Key, Place, Requests, None,
          MaxCalls, MaxMishaps

Request == [key : Key, place : Place, hosts : SUBSET Host, sideEffect : BOOLEAN, body : Nat]

ASSUME ActionLedgerAssumption ==
  /\ None \notin Caller \cup Requests
  /\ Idempotent \subseteq Host
  /\ Requests \subseteq Request
  /\ \A r, q \in Requests : r.place = q.place => r.sideEffect = q.sideEffect
  /\ MaxCalls \in Nat
  /\ MaxMishaps \in Nat

VARIABLES ledger,   \* the receipt file of each place and key
          locks,
          pc, call, \* each caller's step and what it is calling
          sent,     \* per request, the messages dispatched and what became of them
          answered, \* requests whose completed receipt was returned to a caller
          calls, crashes, overruns,
          stale     \* a reconciliation used evidence older than the last dispatch

vars == <<ledger, locks, pc, call, sent, answered, calls, crashes, overruns, stale>>

NoReceipt == [status |-> "none", req |-> None, safe |-> FALSE]
Receipt(status, r, safe) == [status |-> status, req |-> r, safe |-> safe]

Sent(r) == DOMAIN sent[r]
Performed(r) == {n \in Sent(r) : sent[r][n].fate = "performed"}
Flying(r) == {n \in Sent(r) : sent[r][n].fate = "flying"}

Here(c) == ledger[call[c].req.place][call[c].req.key]
KeyOf(c) == call[c].req.key

LockedStates == {"read", "authorize", "claim", "bind", "edge", "send", "wait", "release",
                 "settle"}
Holds(c, k) == pc[c] \in LockedStates /\ KeyOf(c) = k /\ locks[k] = c

Init ==
  /\ ledger = [p \in Place |-> [k \in Key |-> NoReceipt]]
  /\ locks = [k \in Key |-> None]
  /\ pc = [c \in Caller |-> "idle"]
  /\ call = [c \in Caller |-> None]
  /\ sent = [r \in Requests |-> <<>>]
  /\ answered = {}
  /\ calls = 0
  /\ crashes = 0
  /\ overruns = 0
  /\ stale = FALSE

Goto(c, state) == pc' = [pc EXCEPT ![c] = state]

\* Mutant: the finished call stays behind.
ReturnKeepingCall(c) == Goto(c, "idle") /\ UNCHANGED call

\* The call is over without a lock to release.
Return(c) == Goto(c, "idle") /\ call' = [call EXCEPT ![c] = None]

WriteReceipt(c, receipt) ==
  ledger' = [ledger EXCEPT ![call[c].req.place][KeyOf(c)] = receipt]

Unchanged == UNCHANGED <<calls, crashes, overruns>>

(***************************************************************************)
(* execute                                                                 *)
(***************************************************************************)

\* The caller's idempotency flag is true only of a host that is idempotent.
Execute(c, r, h, flag, approved) ==
  /\ pc[c] = "idle"
  /\ calls < MaxCalls
  /\ h \in r.hosts
  /\ flag => h \in Idempotent
  /\ calls' = calls + 1
  /\ call' = [call EXCEPT ![c] = [req |-> r, host |-> h, flag |-> flag, approved |-> approved,
                                  evidence |-> "none", seen |-> 0]]
  /\ Goto(c, "permit")
  /\ UNCHANGED <<ledger, locks, sent, answered, crashes, overruns, stale>>

\* _require_host_permission: the host allows, denies, or wants an approval.
HostPermits(c, verdict) == verdict = "allow" \/ (verdict = "ask" /\ call[c].approved)
Verdict == {"allow", "ask", "deny"}

FirstPermission(c, verdict) ==
  /\ pc[c] = "permit"
  /\ IF HostPermits(c, verdict) THEN Goto(c, "lock") /\ UNCHANGED call ELSE Return(c)
  /\ UNCHANGED <<ledger, locks, sent, answered, stale>>
  /\ Unchanged

Lock(c, next) ==
  /\ locks[KeyOf(c)] = None
  /\ locks' = [locks EXCEPT ![KeyOf(c)] = c]
  /\ Goto(c, next)

TakeLock(c) ==
  /\ pc[c] = "lock"
  /\ Lock(c, "read")
  /\ UNCHANGED <<ledger, call, sent, answered, stale>>
  /\ Unchanged

\* LockConflict
LockBusy(c) ==
  /\ pc[c] \in {"lock", "settleLock"}
  /\ locks[KeyOf(c)] # None
  /\ Return(c)
  /\ UNCHANGED <<ledger, locks, sent, answered, stale>>
  /\ Unchanged

\* Mutant: any failed receipt may be tried again.
MayRunFailed(c) ==
  Here(c) = NoReceipt \/ (Here(c).req = call[c].req /\ Here(c).status = "failed")

\* What the receipt found says of the request: absent or safely failed, it may run.
MayRun(c) ==
  \/ Here(c) = NoReceipt
  \/ Here(c).req = call[c].req /\ Here(c).status = "failed" /\ Here(c).safe

Replayed(c) == Here(c).req = call[c].req /\ Here(c).status = "completed"

ReadReceipt(c) ==
  /\ pc[c] = "read"
  /\ Goto(c, IF MayRun(c) THEN "authorize" ELSE "release")
  /\ answered' = IF Replayed(c) THEN answered \cup {call[c].req} ELSE answered
  /\ UNCHANGED <<ledger, locks, call, sent, stale>>
  /\ Unchanged

\* The policy decides; a side effect on a host without idempotency needs approval.
Authorize(c, allowed) ==
  /\ pc[c] = "authorize"
  /\ Goto(c, IF allowed /\ (call[c].req.sideEffect => call[c].flag \/ call[c].approved)
               THEN "claim" ELSE "release")
  /\ UNCHANGED <<ledger, locks, call, sent, answered, stale>>
  /\ Unchanged

Claim(c) ==
  /\ pc[c] = "claim"
  /\ WriteReceipt(c, Receipt("claimed", call[c].req, FALSE))
  /\ Goto(c, "bind")
  /\ UNCHANGED <<locks, call, sent, answered, stale>>
  /\ Unchanged

\* The approval may have expired since.
Bind(c, valid) ==
  /\ pc[c] = "bind"
  /\ ~valid => call[c].approved
  /\ IF valid
       THEN Goto(c, "edge") /\ UNCHANGED ledger
       ELSE Goto(c, "release") /\ WriteReceipt(c, Receipt("failed", call[c].req, TRUE))
  /\ UNCHANGED <<locks, call, sent, answered, stale>>
  /\ Unchanged

\* The second permission, at the edge of the dispatch: a refusal becomes a failure
\* without effect.
SecondPermission(c, verdict) ==
  /\ pc[c] = "edge"
  /\ IF HostPermits(c, verdict)
       THEN Goto(c, "send") /\ UNCHANGED ledger
       ELSE Goto(c, "release") /\ WriteReceipt(c, Receipt("failed", call[c].req, TRUE))
  /\ UNCHANGED <<locks, call, sent, answered, stale>>
  /\ Unchanged

Send(c) ==
  /\ pc[c] = "send"
  /\ sent' = [sent EXCEPT ![call[c].req] =
                Append(@, [host |-> call[c].host, fate |-> "flying"])]
  /\ call' = [call EXCEPT ![c].seen = Len(sent[call[c].req]) + 1]
  /\ Goto(c, "wait")
  /\ UNCHANGED <<ledger, locks, answered, stale>>
  /\ Unchanged

\* External: the host handles a message, or drops it.
Fates(r, n) ==
  LET h == sent[r][n].host
      before == h \in Idempotent /\ \E m \in Performed(r) : sent[r][m].host = h
  IN IF before THEN {"repeated", "refused"} ELSE {"performed", "refused"}

Handle(r, n, fate) ==
  /\ n \in Flying(r)
  /\ fate \in Fates(r, n)
  /\ sent' = [sent EXCEPT ![r][n].fate = fate]
  /\ UNCHANGED <<ledger, locks, pc, call, answered, stale>>
  /\ Unchanged

\* External: what the host, or the way to it, can answer to a message of this fate.
Answer == {"succeeded", "noEffect", "failed", "bareSuccess", "uncertain", "invalid", "raised"}
Answers(fate) ==
  {answer \in Answer : /\ answer = "succeeded" => fate \in {"performed", "repeated"}
                       /\ answer = "noEffect" => fate = "refused"}

\* Mutant: a failure of any host may be retried.
AlwaysRetryable(c) == TRUE

Retryable(c) == ~call[c].req.sideEffect \/ call[c].flag

\* Mutant: the receipt id is not asked for.
CompletedWithoutReceipt(c) == Receipt("completed", call[c].req, FALSE)

\* A success without a receipt id.
BareSuccess(c) ==
  IF call[c].req.sideEffect THEN Receipt("uncertain", call[c].req, FALSE)
                            ELSE Receipt("completed", call[c].req, FALSE)

\* An exception, no object, or an unknown status.
NoAnswer(c) ==
  IF call[c].req.sideEffect THEN Receipt("uncertain", call[c].req, FALSE)
                            ELSE Receipt("failed", call[c].req, TRUE)

\* The receipt written for an answer.
Outcome(c, answer) ==
  CASE answer = "succeeded"    -> Receipt("completed", call[c].req, FALSE)
    [] answer = "noEffect"    -> Receipt("failed", call[c].req, TRUE)
    [] answer = "failed"       -> Receipt("failed", call[c].req, Retryable(c))
    [] answer = "uncertain"    -> Receipt("uncertain", call[c].req, FALSE)
    [] answer = "bareSuccess" -> BareSuccess(c)
    [] OTHER                   -> NoAnswer(c)

RecordAnswer(c, answer) ==
  /\ pc[c] = "wait"
  /\ answer \in Answers(sent[call[c].req][call[c].seen].fate)
  /\ WriteReceipt(c, Outcome(c, answer))
  /\ answered' = IF Outcome(c, answer).status = "completed"
                   THEN answered \cup {call[c].req} ELSE answered
  /\ Goto(c, "release")
  /\ UNCHANGED <<locks, call, sent, stale>>
  /\ Unchanged

Release(c) ==
  /\ pc[c] = "release"
  /\ locks' = IF locks[KeyOf(c)] = c THEN [locks EXCEPT ![KeyOf(c)] = None] ELSE locks
  /\ Return(c)
  /\ UNCHANGED <<ledger, sent, answered, stale>>
  /\ Unchanged

(***************************************************************************)
(* reconcile, from evidence gathered before the call                       *)
(***************************************************************************)

\* Verified evidence is true when it is gathered: a receipt of an effect, or proof
\* that no message of the request had or can have one; anything else is "unclear".
Evidence(r) ==
  (IF Performed(r) # {} THEN {"effect"} ELSE {})
    \cup (IF Performed(r) = {} /\ Flying(r) = {} THEN {"noEffect"} ELSE {})
    \cup {"unclear"}

Reconcile(c, r, evidence) ==
  /\ pc[c] = "idle"
  /\ calls < MaxCalls
  /\ evidence \in Evidence(r)
  /\ calls' = calls + 1
  /\ call' = [call EXCEPT ![c] = [req |-> r, host |-> None, flag |-> FALSE, approved |-> FALSE,
                                  evidence |-> evidence, seen |-> Len(sent[r])]]
  /\ Goto(c, "settleLock")
  /\ UNCHANGED <<ledger, locks, sent, answered, crashes, overruns, stale>>

TakeLockToSettle(c) ==
  /\ pc[c] = "settleLock"
  /\ Lock(c, "settle")
  /\ UNCHANGED <<ledger, call, sent, answered, stale>>
  /\ Unchanged

Settled(c) ==
  CASE call[c].evidence = "effect"    -> Receipt("completed", call[c].req, FALSE)
    [] call[c].evidence = "noEffect" -> Receipt("failed", call[c].req, TRUE)
    [] call[c].evidence = "unclear"   -> Receipt("uncertain", call[c].req, FALSE)

\* Mutant: evidence replaces a completed receipt.
SettleAgain(c) ==
  /\ pc[c] = "settle"
  /\ Goto(c, "release")
  /\ IF Here(c).req = call[c].req
       THEN /\ WriteReceipt(c, Settled(c))
            /\ stale' = (stale \/ call[c].seen # Len(sent[call[c].req]))
       ELSE UNCHANGED <<ledger, stale>>
  /\ UNCHANGED <<locks, call, sent, answered>>
  /\ Unchanged

Settle(c) ==
  /\ pc[c] = "settle"
  /\ Goto(c, "release")
  /\ IF Here(c).req = call[c].req /\ Here(c).status # "completed"
       THEN /\ WriteReceipt(c, Settled(c))
            /\ stale' = (stale \/ call[c].seen # Len(sent[call[c].req]))
       ELSE UNCHANGED <<ledger, stale>>
  /\ UNCHANGED <<locks, call, sent, answered>>
  /\ Unchanged

(***************************************************************************)
(* Failures                                                                *)
(***************************************************************************)

Crash(c) ==
  /\ pc[c] # "idle"
  /\ crashes + overruns < MaxMishaps
  /\ crashes' = crashes + 1
  /\ Return(c)
  /\ UNCHANGED <<ledger, locks, sent, answered, calls, overruns, stale>>

\* The lock of a dead caller is reclaimed once it is an hour old ...
Reclaim(k) ==
  /\ locks[k] # None
  /\ ~Holds(locks[k], k)
  /\ locks' = [locks EXCEPT ![k] = None]
  /\ UNCHANGED <<ledger, pc, call, sent, answered, stale>>
  /\ Unchanged

\* ... and so is that of a caller whose host takes longer than that to answer.
Overrun(k) ==
  /\ locks[k] # None
  /\ Holds(locks[k], k)
  /\ crashes + overruns < MaxMishaps
  /\ overruns' = overruns + 1
  /\ locks' = [locks EXCEPT ![k] = None]
  /\ UNCHANGED <<ledger, pc, call, sent, answered, calls, crashes, stale>>

Next ==
  \/ \E c \in Caller :
       \/ \E r \in Requests, h \in Host, flag, approved \in BOOLEAN :
            Execute(c, r, h, flag, approved)
       \/ \E verdict \in Verdict : FirstPermission(c, verdict) \/ SecondPermission(c, verdict)
       \/ TakeLock(c) \/ LockBusy(c) \/ ReadReceipt(c)
       \/ \E yes \in BOOLEAN : Authorize(c, yes) \/ Bind(c, yes)
       \/ Claim(c) \/ Send(c)
       \/ \E answer \in Answer : RecordAnswer(c, answer)
       \/ Release(c)
       \/ \E r \in Requests, evidence \in {"effect", "noEffect", "unclear"} :
            Reconcile(c, r, evidence)
       \/ TakeLockToSettle(c) \/ Settle(c) \/ Crash(c)
  \/ \E r \in Requests : \E n \in Sent(r), fate \in {"performed", "repeated", "refused"} :
       Handle(r, n, fate)
  \/ \E k \in Key : Reclaim(k) \/ Overrun(k)

Spec == Init /\ [][Next]_vars

(***************************************************************************)
(* Properties                                                              *)
(***************************************************************************)

Receipts == [status : {"none", "claimed", "completed", "uncertain", "failed"},
             req : Requests \cup {None}, safe : BOOLEAN]
Message == [host : Host, fate : {"flying", "performed", "repeated", "refused"}]
Call == [req : Requests, host : Host \cup {None}, flag : BOOLEAN, approved : BOOLEAN,
         evidence : {"none", "effect", "noEffect", "unclear"}, seen : Nat]

TypeOK ==
  /\ ledger \in [Place -> [Key -> Receipts]]
  /\ locks \in [Key -> Caller \cup {None}]
  /\ pc \in [Caller -> {"idle", "permit", "lock", "settleLock"} \cup LockedStates]
  /\ call \in [Caller -> Call \cup {None}]
  /\ \A c \in Caller : IF pc[c] = "idle" THEN call[c] = None ELSE call[c] \in Call
  /\ sent \in [Requests -> Seq(Message)]
  /\ answered \subseteq Requests
  /\ calls \in 0 .. MaxCalls
  /\ crashes \in Nat /\ overruns \in Nat /\ crashes + overruns <= MaxMishaps
  /\ stale \in BOOLEAN

\* No caller lost its lock while the host was answering, and evidence was used before
\* anyone dispatched again.
Undisturbed == overruns = 0 /\ ~stale

OneHost(r) == \A m, n \in Sent(r) : sent[r][m].host = sent[r][n].host

\* "Completed duplicate requests ... without calling the host again", and no automatic
\* replay of what may have happened: whatever callers race, die, lose answers, retry
\* and reconcile, a side effect requested from one host happens at most once.
EffectAtMostOnce ==
  \A r \in Requests : r.sideEffect /\ OneHost(r) /\ Undisturbed
                        => \A m, n \in Performed(r) : m = n

\* A failed receipt marked safe to retry stands for an effect that did not happen and
\* cannot happen any more, unless the host promised to recognise the retry.
SafeMeansNoEffect ==
  \A p \in Place, k \in Key :
    LET r == ledger[p][k].req IN
    ledger[p][k].safe /\ r.sideEffect /\ Undisturbed
      => \A n \in Sent(r) : sent[r][n].fate = "refused" \/ sent[r][n].host \in Idempotent

\* A completed receipt, and every success ever reported from one, stands for an effect
\* that happened: lost locks and late reconciliations included.
CompletedMeansEffect ==
  /\ \A p \in Place, k \in Key :
       ledger[p][k].status = "completed" /\ ledger[p][k].req.sideEffect
         => Performed(ledger[p][k].req) # {}
  /\ \A r \in answered : r.sideEffect => Performed(r) # {}

\* A completed receipt is the end of its request: it is never rewritten and the host is
\* never called again for it.
CompletedIsFinal ==
  [][\A p \in Place, k \in Key : Undisturbed /\ ledger[p][k].status = "completed" =>
       /\ ledger'[p][k] = ledger[p][k]
       /\ Len(sent'[ledger[p][k].req]) = Len(sent[ledger[p][k].req])]_vars
=============================================================================
