--------------------------- MODULE ActionLedgerProofs ---------------------------
(***************************************************************************)
(* For every set of callers, hosts and requests and all bounds: a          *)
(* completed receipt stands for an effect, whatever lock was lost and      *)
(* whatever evidence came late; and while nobody lost a lock and no        *)
(* evidence was outdated, a completed receipt is final, a receipt that is  *)
(* safe to retry stands for no effect, and an effect happens once.         *)
(***************************************************************************)
EXTENDS ActionLedger, SequenceTheorems, TLAPS

-----------------------------------------------------------------------------
\* What is true whatever happens.

\* A receipt is of a request of its place and key; a completed one had its effect.
GoodReceipt(p, k) ==
  LET f == ledger[p][k] IN
  /\ f.status = "none" => f = NoReceipt
  /\ f.status # "none" => f.req \in Requests /\ f.req.place = p /\ f.req.key = k
  /\ f.safe => f.status = "failed"
  /\ f.status = "completed" /\ f.req.sideEffect => Performed(f.req) # {}

\* An idempotent host performs a request once, and repeats only what it performed.
GoodMessages(r) ==
  /\ \A n \in Sent(r) : sent[r][n].fate = "repeated" => Performed(r) # {}
  /\ \A m, n \in Performed(r) :
       sent[r][m].host = sent[r][n].host /\ sent[r][n].host \in Idempotent => m = n

Executing == {"permit", "lock", "read", "authorize", "claim", "bind", "edge", "send", "wait"}

\* What a call knows of the messages is still so.
GoodCall(c) ==
  pc[c] # "idle" =>
    LET r == call[c].req IN
    /\ pc[c] \in Executing => call[c].host \in Host
    /\ pc[c] \in {"settleLock", "settle"} => call[c].evidence # "none"
    /\ pc[c] \in Executing => call[c].evidence = "none"
    /\ call[c].flag => call[c].host \in Idempotent
    /\ pc[c] = "wait" => call[c].seen \in Sent(r) /\ sent[r][call[c].seen].host = call[c].host
    /\ call[c].evidence = "effect" => Performed(r) # {}
    /\ call[c].evidence = "noEffect" =>
         /\ call[c].seen <= Len(sent[r])
         /\ \A n \in Sent(r) : n <= call[c].seen => sent[r][n].fate = "refused"

Honest ==
  /\ \A p \in Place, k \in Key : GoodReceipt(p, k)
  /\ \A r \in Requests : GoodMessages(r)
  /\ \A r \in answered : r.sideEffect => Performed(r) # {}
  /\ \A c \in Caller : GoodCall(c)

-----------------------------------------------------------------------------
\* What is true while nobody lost a lock and no evidence was outdated.

\* A message that had no effect and can have none, but for a host that recognises it.
Harmless(m) == m.fate = "refused" \/ m.host \in Idempotent
Clean(r) == \A n \in Sent(r) : Harmless(sent[r][n])

\* A caller inside owns its key, and the receipt is still as the caller left it.
InTurn(c) ==
  pc[c] \in LockedStates =>
    LET r == call[c].req IN
    /\ locks[KeyOf(c)] = c
    /\ pc[c] \in {"authorize", "claim"} => MayRun(c)
    /\ pc[c] \in {"bind", "edge", "send", "wait"} => Here(c).status = "claimed" /\ Here(c).req = r
    /\ pc[c] \in {"authorize", "claim", "bind", "edge", "send"} /\ r.sideEffect => Clean(r)
    /\ pc[c] = "wait" /\ r.sideEffect =>
         \A n \in Sent(r) : n # call[c].seen => Harmless(sent[r][n])

\* The receipt of a request that was sent is its own, ...
Owned(r) == Sent(r) # {} => ledger[r.place][r.key].req = r

\* ... and it was sent again only after what was sent before was harmless.
Spaced(r) == r.sideEffect => \A m, n \in Sent(r) : m < n => Harmless(sent[r][m])

SafeIsClean(p, k) == ledger[p][k].safe /\ ledger[p][k].req.sideEffect => Clean(ledger[p][k].req)

Orderly ==
  /\ \A c \in Caller : InTurn(c)
  /\ \A r \in Requests : Owned(r) /\ Spaced(r)
  /\ \A p \in Place, k \in Key : SafeIsClean(p, k)

LedgerInv == TypeOK /\ Honest /\ (Undisturbed => Orderly)

-----------------------------------------------------------------------------
\* The messages of a request are numbered from one.
LEMMA Numbered ==
  ASSUME TypeOK, NEW r \in Requests
  PROVE  /\ sent[r] \in Seq(Message) /\ Len(sent[r]) \in Nat
         /\ Sent(r) = 1 .. Len(sent[r])
         /\ \A n \in Sent(r) : sent[r][n] \in Message
<1>1. sent[r] \in Seq(Message)
  BY DEF TypeOK
<1>2. QED BY <1>1, LenProperties, ElementOfSeq DEF Sent

\* A call that goes on has a request of its own place and key.
LEMMA Calling ==
  ASSUME TypeOK, NEW c \in Caller, pc[c] # "idle"
  PROVE  /\ call[c] \in Call
         /\ call[c].req \in Requests /\ KeyOf(c) \in Key /\ call[c].req.place \in Place
         /\ call[c].seen \in Nat
<1>1. call[c] \in Call
  BY DEF TypeOK
<1>2. call[c].req \in Requests /\ call[c].seen \in Nat
  BY <1>1 DEF Call
<1>3. call[c].req \in Request
  BY <1>2, ActionLedgerAssumption
<1>4. QED BY <1>1, <1>2, <1>3 DEF Request, KeyOf

\* One more message at the end.
LEMMA SendAppends ==
  ASSUME TypeOK, Honest, NEW c \in Caller, Send(c), NEW r \in Requests, r = call[c].req
  PROVE  /\ sent' \in [Requests -> Seq(Message)]
         /\ \A q \in Requests : q # r => sent'[q] = sent[q]
         /\ Len(sent'[r]) = Len(sent[r]) + 1
         /\ \A n \in Sent(r) : sent'[r][n] = sent[r][n]
         /\ sent'[r][Len(sent[r]) + 1] = [host |-> call[c].host, fate |-> "flying"]
<1> DEFINE m == [host |-> call[c].host, fate |-> "flying"]
<1>1. pc[c] = "send" /\ call[c].host \in Host
  BY DEF Send, Honest, GoodCall, Executing
<1>2. m \in Message
  BY <1>1 DEF Message
<1>3. /\ sent[r] \in Seq(Message) /\ Sent(r) = 1 .. Len(sent[r])
  BY <1>1, Numbered
<1>4. /\ Append(sent[r], m) \in Seq(Message)
      /\ Len(Append(sent[r], m)) = Len(sent[r]) + 1
      /\ \A n \in 1 .. Len(sent[r]) : Append(sent[r], m)[n] = sent[r][n]
      /\ Append(sent[r], m)[Len(sent[r]) + 1] = m
  <2> HIDE DEF m
  <2> QED BY <1>2, <1>3
<1>5. sent' = [sent EXCEPT ![r] = Append(@, m)]
  BY DEF Send
<1>6. sent'[r] = Append(sent[r], m) /\ \A q \in Requests : q # r => sent'[q] = sent[q]
  <2> HIDE DEF m
  <2> QED BY <1>5 DEF TypeOK
<1>7. sent' \in [Requests -> Seq(Message)]
  <2> HIDE DEF m
  <2> QED BY <1>4, <1>5 DEF TypeOK
<1>8. QED BY <1>3, <1>4, <1>6, <1>7

\* The fate of one flying message is decided.
LEMMA HandleDecides ==
  ASSUME TypeOK, NEW r \in Requests, NEW n \in Sent(r),
         NEW fate \in {"performed", "repeated", "refused"}, Handle(r, n, fate)
  PROVE  /\ sent' \in [Requests -> Seq(Message)]
         /\ \A q \in Requests : q # r => sent'[q] = sent[q]
         /\ Len(sent'[r]) = Len(sent[r])
         /\ \A i \in Sent(r) : i # n => sent'[r][i] = sent[r][i]
         /\ sent[r][n].fate = "flying"
         /\ sent'[r][n].fate = fate /\ sent'[r][n].host = sent[r][n].host
<1> DEFINE m == [sent[r][n] EXCEPT !.fate = fate]
<1>1. /\ sent[r] \in Seq(Message) /\ Sent(r) = 1 .. Len(sent[r]) /\ sent[r][n] \in Message
  BY Numbered
<1>2. m \in Message /\ m.fate = fate /\ m.host = sent[r][n].host
  BY <1>1 DEF Message
<1>3. sent' = [sent EXCEPT ![r] = [sent[r] EXCEPT ![n] = m]]
  BY DEF Handle, TypeOK
<1>4. /\ [sent[r] EXCEPT ![n] = m] \in Seq(Message)
      /\ Len([sent[r] EXCEPT ![n] = m]) = Len(sent[r])
      /\ \A i \in 1 .. Len(sent[r]) : [sent[r] EXCEPT ![n] = m][i] = IF i = n THEN m ELSE sent[r][i]
  <2> HIDE DEF m
  <2> QED BY <1>1, <1>2, ExceptSeq
<1>5. sent'[r] = [sent[r] EXCEPT ![n] = m] /\ \A q \in Requests : q # r => sent'[q] = sent[q]
  <2> HIDE DEF m
  <2> QED BY <1>3 DEF TypeOK
<1>6. sent' \in [Requests -> Seq(Message)]
  <2> HIDE DEF m
  <2> QED BY <1>3, <1>4 DEF TypeOK
<1>7. sent[r][n].fate = "flying"
  BY DEF Handle, Flying
<1>8. QED
  <2> HIDE DEF m
  <2> QED BY <1>1, <1>2, <1>4, <1>5, <1>6, <1>7

\* Messages stay, and so does a fate that is decided.
Grows ==
  /\ sent' \in [Requests -> Seq(Message)]
  /\ \A r \in Requests :
       /\ Len(sent[r]) <= Len(sent'[r])
       /\ \A n \in Sent(r) :
            /\ n \in DOMAIN sent'[r]
            /\ sent'[r][n].host = sent[r][n].host
            /\ sent[r][n].fate # "flying" => sent'[r][n].fate = sent[r][n].fate

LEMMA OnlySendAndHandle ==
  ASSUME [Next]_vars
  PROVE  \/ UNCHANGED sent
         \/ \E c \in Caller : Send(c)
         \/ \E r \in Requests : \E n \in Sent(r), fate \in {"performed", "repeated", "refused"} :
              Handle(r, n, fate)
BY DEF Next, vars, Execute, FirstPermission, SecondPermission, TakeLock, LockBusy, ReadReceipt, Authorize,
       Bind, Claim, RecordAnswer, Release, Reconcile, TakeLockToSettle, Settle, Crash, Reclaim, Overrun

LEMMA SentGrows == ASSUME TypeOK, Honest, [Next]_vars PROVE Grows
<1>0. \A r \in Requests : Sent(r) = 1 .. Len(sent[r]) /\ Len(sent[r]) \in Nat
  BY Numbered
<1>1. CASE UNCHANGED sent
  BY <1>0, <1>1 DEF Grows, TypeOK, Sent
<1>2. ASSUME NEW c \in Caller, Send(c) PROVE Grows
  <2>1. PICK q \in Requests : q = call[c].req
    BY <1>2, Calling DEF Send
  <2>2. /\ sent' \in [Requests -> Seq(Message)]
        /\ \A r \in Requests : r # q => sent'[r] = sent[r]
        /\ Len(sent'[q]) = Len(sent[q]) + 1
        /\ \A n \in Sent(q) : sent'[q][n] = sent[q][n]
    BY <1>2, <2>1, SendAppends
  <2>3. \A r \in Requests : DOMAIN sent'[r] = 1 .. Len(sent'[r])
    BY <2>2, LenProperties
  <2>4. ASSUME NEW r \in Requests
        PROVE  /\ Len(sent[r]) <= Len(sent'[r])
               /\ \A n \in Sent(r) : n \in DOMAIN sent'[r] /\ sent'[r][n] = sent[r][n]
    <3>1. CASE r = q
      BY <1>0, <2>2, <2>3, <3>1
    <3>2. CASE r # q
      BY <1>0, <2>2, <2>3, <3>2
    <3>3. QED BY <3>1, <3>2, Z3
  <2>5. QED BY <2>2, <2>4 DEF Grows
<1>3. ASSUME NEW q \in Requests, NEW m \in Sent(q), NEW fate \in {"performed", "repeated", "refused"},
             Handle(q, m, fate)
      PROVE  Grows
  <2>1. /\ sent' \in [Requests -> Seq(Message)]
        /\ \A r \in Requests : DOMAIN sent'[r] = 1 .. Len(sent'[r])
    BY <1>3, HandleDecides, LenProperties
  <2>2. ASSUME NEW r \in Requests
        PROVE  /\ Len(sent[r]) = Len(sent'[r])
               /\ \A n \in Sent(r) : /\ sent'[r][n].host = sent[r][n].host
                                     /\ sent[r][n].fate # "flying" => sent'[r][n].fate = sent[r][n].fate
    <3>1. CASE r = q
      <4>1. ASSUME NEW n \in Sent(r)
            PROVE  /\ sent'[r][n].host = sent[r][n].host
                   /\ sent[r][n].fate # "flying" => sent'[r][n].fate = sent[r][n].fate
        BY <1>3, <3>1, HandleDecides
      <4>2. QED BY <1>3, <3>1, <4>1, HandleDecides
    <3>2. CASE r # q
      BY <1>3, <3>2, HandleDecides
    <3>3. QED BY <3>1, <3>2, Z3
  <2>3. QED BY <1>0, <2>1, <2>2 DEF Grows
<1>4. QED BY <1>1, <1>2, <1>3, OnlySendAndHandle

States == {"idle", "permit", "lock", "settleLock"} \cup LockedStates

\* Who is in a call has one.
CallersTyped ==
  /\ pc \in [Caller -> States]
  /\ call \in [Caller -> Call \cup {None}]
  /\ \A c \in Caller : IF pc[c] = "idle" THEN call[c] = None ELSE call[c] \in Call

LEMMA Enters ==
  ASSUME TypeOK, NEW c \in Caller, NEW state \in States, state # "idle", Goto(c, state),
         NEW x \in Call, call' = [call EXCEPT ![c] = x]
  PROVE  CallersTyped'
BY DEF TypeOK, CallersTyped, States, Goto

LEMMA Moves ==
  ASSUME TypeOK, NEW c \in Caller, pc[c] # "idle", NEW state \in States, state # "idle", Goto(c, state),
         UNCHANGED call
  PROVE  CallersTyped'
BY DEF TypeOK, CallersTyped, States, Goto

LEMMA Returns == ASSUME TypeOK, NEW c \in Caller, Return(c) PROVE CallersTyped'
BY DEF TypeOK, CallersTyped, States, Return, Goto

LEMMA Writes ==
  ASSUME TypeOK, NEW c \in Caller, pc[c] # "idle", NEW receipt \in Receipts, WriteReceipt(c, receipt)
  PROVE  ledger' \in [Place -> [Key -> Receipts]]
BY Calling DEF TypeOK, WriteReceipt

LEMMA Issued ==
  ASSUME NEW r \in Requests, NEW safe \in BOOLEAN,
         NEW status \in {"claimed", "completed", "uncertain", "failed"}
  PROVE  Receipt(status, r, safe) \in Receipts
BY DEF Receipt, Receipts

LEMMA Locks ==
  ASSUME TypeOK, NEW c \in Caller, pc[c] # "idle", NEW state, Lock(c, state)
  PROVE  locks' \in [Key -> Caller \cup {None}]
BY Calling DEF TypeOK, Lock

LEMMA OutcomeTyped ==
  ASSUME TypeOK, NEW c \in Caller, pc[c] # "idle", NEW answer \in Answer
  PROVE  Outcome(c, answer) \in Receipts
<1>1. call[c].req \in Requests /\ call[c] \in Call
  BY Calling
<1>2. Retryable(c) \in BOOLEAN
  BY DEF Retryable
<1>3. BareSuccess(c) \in Receipts /\ NoAnswer(c) \in Receipts
  BY <1>1, Issued DEF BareSuccess, NoAnswer
<1>4. QED
  BY <1>1, <1>2, <1>3, Issued, Zenon DEF Outcome, Answer

LEMMA SettledTyped ==
  ASSUME TypeOK, Honest, NEW c \in Caller, pc[c] = "settle"
  PROVE  Settled(c) \in Receipts
<1>1. call[c].req \in Requests /\ call[c].evidence \in {"effect", "noEffect", "unclear"}
  BY Calling DEF Call, Honest, GoodCall
<1>2. QED BY <1>1, Issued DEF Settled

LEMMA TypeStep == ASSUME TypeOK, Honest, [Next]_vars PROVE TypeOK'
<1>0. sent' \in [Requests -> Seq(Message)]
  BY SentGrows DEF Grows
<1>a. /\ CallersTyped
      /\ ledger \in [Place -> [Key -> Receipts]]
      /\ locks \in [Key -> Caller \cup {None}]
      /\ answered \subseteq Requests
      /\ calls \in 0 .. MaxCalls
      /\ crashes \in Nat /\ overruns \in Nat /\ crashes + overruns <= MaxMishaps
      /\ stale \in BOOLEAN
  BY DEF TypeOK, CallersTyped, States
<1>b. MaxCalls \in Nat /\ MaxMishaps \in Nat
  BY ActionLedgerAssumption
<1> DEFINE Rest == /\ ledger' \in [Place -> [Key -> Receipts]]
                   /\ locks' \in [Key -> Caller \cup {None}]
                   /\ answered' \subseteq Requests
                   /\ calls' \in 0 .. MaxCalls
                   /\ crashes' \in Nat /\ overruns' \in Nat /\ crashes' + overruns' <= MaxMishaps
                   /\ stale' \in BOOLEAN
<1> SUFFICES CallersTyped' /\ Rest
  BY <1>0 DEF TypeOK, CallersTyped, States
<1> USE DEF Unchanged, States, LockedStates
<1>1. ASSUME NEW c \in Caller, NEW r \in Requests, NEW h \in Host, NEW flag \in BOOLEAN, NEW approved \in BOOLEAN,
             Execute(c, r, h, flag, approved)
      PROVE  CallersTyped' /\ Rest
  <2>1. [req |-> r, host |-> h, flag |-> flag, approved |-> approved, evidence |-> "none", seen |-> 0] \in Call
    BY DEF Call
  <2>2. CallersTyped'
    BY <1>1, <2>1, Enters DEF Execute
  <2>3. QED BY <1>a, <1>b, <1>1, <2>2 DEF Execute
<1>2. ASSUME NEW c \in Caller, NEW verdict \in Verdict, FirstPermission(c, verdict)
      PROVE  CallersTyped' /\ Rest
  <2>1. CallersTyped'
    BY <1>2, Moves, Returns DEF FirstPermission
  <2>2. QED BY <1>a, <1>2, <2>1 DEF FirstPermission
<1>3. ASSUME NEW c \in Caller, NEW verdict \in Verdict, SecondPermission(c, verdict)
      PROVE  CallersTyped' /\ Rest
  <2>1. CallersTyped'
    BY <1>3, Moves DEF SecondPermission
  <2>2. ledger' \in [Place -> [Key -> Receipts]]
    BY <1>a, <1>3, Writes, Issued, Calling DEF SecondPermission
  <2>3. QED BY <1>a, <1>3, <2>1, <2>2 DEF SecondPermission
<1>4. ASSUME NEW c \in Caller, TakeLock(c)
      PROVE  CallersTyped' /\ Rest
  <2>1. CallersTyped' /\ locks' \in [Key -> Caller \cup {None}]
    BY <1>4, Moves, Locks DEF TakeLock, Lock
  <2>2. QED BY <1>a, <1>4, <2>1 DEF TakeLock
<1>5. ASSUME NEW c \in Caller, LockBusy(c)
      PROVE  CallersTyped' /\ Rest
  BY <1>a, <1>5, Returns DEF LockBusy
<1>6. ASSUME NEW c \in Caller, ReadReceipt(c)
      PROVE  CallersTyped' /\ Rest
  <2>1. CallersTyped'
    BY <1>6, Moves DEF ReadReceipt
  <2>2. answered' \subseteq Requests
    BY <1>a, <1>6, Calling DEF ReadReceipt
  <2>3. QED BY <1>a, <1>6, <2>1, <2>2 DEF ReadReceipt
<1>7. ASSUME NEW c \in Caller, NEW yes \in BOOLEAN, Authorize(c, yes)
      PROVE  CallersTyped' /\ Rest
  <2>1. CallersTyped'
    BY <1>7, Moves DEF Authorize
  <2>2. QED BY <1>a, <1>7, <2>1 DEF Authorize
<1>8. ASSUME NEW c \in Caller, NEW yes \in BOOLEAN, Bind(c, yes)
      PROVE  CallersTyped' /\ Rest
  <2>1. CallersTyped'
    BY <1>8, Moves DEF Bind
  <2>2. ledger' \in [Place -> [Key -> Receipts]]
    BY <1>a, <1>8, Writes, Issued, Calling DEF Bind
  <2>3. QED BY <1>a, <1>8, <2>1, <2>2 DEF Bind
<1>9. ASSUME NEW c \in Caller, Claim(c)
      PROVE  CallersTyped' /\ Rest
  <2>1. CallersTyped' /\ ledger' \in [Place -> [Key -> Receipts]]
    BY <1>9, Moves, Writes, Issued, Calling DEF Claim
  <2>2. QED BY <1>a, <1>9, <2>1 DEF Claim
<1>10. ASSUME NEW c \in Caller, Send(c)
       PROVE  CallersTyped' /\ Rest
  <2> DEFINE x == [call[c] EXCEPT !.seen = Len(sent[call[c].req]) + 1]
  <2>1. x \in Call
    <3>1. Len(sent[call[c].req]) + 1 \in Nat /\ call[c] \in Call
      BY <1>10, Calling, Numbered DEF Send
    <3>2. QED BY <3>1 DEF Call
  <2>2. call' = [call EXCEPT ![c] = x]
    BY <1>10 DEF Send
  <2>3. CallersTyped'
    <3> HIDE DEF x
    <3> QED BY <1>10, <2>1, <2>2, Enters DEF Send
  <2>4. QED BY <1>a, <1>10, <2>3 DEF Send
<1>11. ASSUME NEW c \in Caller, NEW answer \in Answer, RecordAnswer(c, answer)
       PROVE  CallersTyped' /\ Rest
  <2>1. CallersTyped' /\ ledger' \in [Place -> [Key -> Receipts]]
    BY <1>11, Moves, Writes, OutcomeTyped DEF RecordAnswer
  <2>2. answered' \subseteq Requests
    BY <1>a, <1>11, Calling DEF RecordAnswer
  <2>3. QED BY <1>a, <1>11, <2>1, <2>2 DEF RecordAnswer
<1>12. ASSUME NEW c \in Caller, Release(c)
       PROVE  CallersTyped' /\ Rest
  <2>1. CallersTyped'
    BY <1>12, Returns DEF Release
  <2>2. locks' \in [Key -> Caller \cup {None}]
    BY <1>a, <1>12 DEF Release
  <2>3. QED BY <1>a, <1>12, <2>1, <2>2 DEF Release
<1>13. ASSUME NEW c \in Caller, NEW r \in Requests, NEW evidence \in {"effect", "noEffect", "unclear"},
              Reconcile(c, r, evidence)
       PROVE  CallersTyped' /\ Rest
  <2>1. [req |-> r, host |-> None, flag |-> FALSE, approved |-> FALSE, evidence |-> evidence,
         seen |-> Len(sent[r])] \in Call
    BY Numbered DEF Call
  <2>2. CallersTyped'
    BY <1>13, <2>1, Enters DEF Reconcile
  <2>3. QED BY <1>a, <1>b, <1>13, <2>2 DEF Reconcile
<1>14. ASSUME NEW c \in Caller, TakeLockToSettle(c)
       PROVE  CallersTyped' /\ Rest
  <2>1. CallersTyped' /\ locks' \in [Key -> Caller \cup {None}]
    BY <1>14, Moves, Locks DEF TakeLockToSettle, Lock
  <2>2. QED BY <1>a, <1>14, <2>1 DEF TakeLockToSettle
<1>15. ASSUME NEW c \in Caller, Settle(c)
       PROVE  CallersTyped' /\ Rest
  <2>1. CallersTyped'
    BY <1>15, Moves DEF Settle
  <2>2. ledger' \in [Place -> [Key -> Receipts]]
    BY <1>a, <1>15, Writes, SettledTyped DEF Settle
  <2>3. stale' \in BOOLEAN
    BY <1>a, <1>15 DEF Settle
  <2>4. QED BY <1>a, <1>15, <2>1, <2>2, <2>3 DEF Settle
<1>16. ASSUME NEW c \in Caller, Crash(c)
       PROVE  CallersTyped' /\ Rest
  BY <1>a, <1>b, <1>16, Returns DEF Crash
<1>17. ASSUME NEW r \in Requests, NEW n \in Sent(r), NEW fate \in {"performed", "repeated", "refused"},
              Handle(r, n, fate)
       PROVE  CallersTyped' /\ Rest
  BY <1>a, <1>17 DEF Handle, CallersTyped
<1>18. ASSUME NEW k \in Key, Reclaim(k)
       PROVE  CallersTyped' /\ Rest
  BY <1>a, <1>18 DEF Reclaim, CallersTyped
<1>19. ASSUME NEW k \in Key, Overrun(k)
       PROVE  CallersTyped' /\ Rest
  BY <1>a, <1>b, <1>19 DEF Overrun, CallersTyped
<1>20. CASE UNCHANGED vars
  BY <1>a, <1>20 DEF vars, CallersTyped
<1>21. QED
  <2> HIDE DEF Rest
  <2> QED
  BY <1>1, <1>2, <1>3, <1>4, <1>5, <1>6, <1>7, <1>8, <1>9, <1>10, <1>11, <1>12, <1>13, <1>14, <1>15, <1>16,
     <1>17, <1>18, <1>19, <1>20 DEF Next

-----------------------------------------------------------------------------
\* The honesty of receipts, messages and calls is kept by every step.

LEMMA StillPerformed ==
  ASSUME TypeOK, Grows, NEW r \in Requests, Performed(r) # {}
  PROVE  Performed(r)' # {}
BY DEF Performed, Grows, Sent

\* Messages that are left alone keep everything said of them.
LEMMA MessagesKept ==
  ASSUME NEW r, sent'[r] = sent[r]
  PROVE  Sent(r)' = Sent(r) /\ Performed(r)' = Performed(r) /\ Flying(r)' = Flying(r)
BY DEF Sent, Performed, Flying

LEMMA MessagesSent ==
  ASSUME TypeOK, Honest, NEW c \in Caller, Send(c), NEW r \in Requests, r = call[c].req
  PROVE  /\ Sent(r)' = Sent(r) \cup {Len(sent[r]) + 1} /\ Len(sent[r]) + 1 \notin Sent(r)
         /\ Performed(r)' = Performed(r)
         /\ \A n \in Sent(r) : sent'[r][n] = sent[r][n]
<1>1. Sent(r) = 1 .. Len(sent[r]) /\ Len(sent[r]) \in Nat
  BY Numbered
<1>2. /\ sent' \in [Requests -> Seq(Message)] /\ Len(sent'[r]) = Len(sent[r]) + 1
      /\ \A n \in Sent(r) : sent'[r][n] = sent[r][n]
      /\ sent'[r][Len(sent[r]) + 1] = [host |-> call[c].host, fate |-> "flying"]
  BY SendAppends
<1>3. sent'[r] \in Seq(Message)
  BY <1>2
<1>4. Sent(r)' = 1 .. Len(sent'[r])
  BY <1>3, LenProperties DEF Sent
<1>5. Sent(r)' = Sent(r) \cup {Len(sent[r]) + 1} /\ Len(sent[r]) + 1 \notin Sent(r)
  <2>1. \A l \in Nat : 1 .. (l + 1) = (1 .. l) \cup {l + 1} /\ l + 1 \notin 1 .. l
    OBVIOUS
  <2>2. PICK l \in Nat : l = Len(sent[r])
    BY <1>1
  <2>3. Sent(r)' = 1 .. (l + 1) /\ Sent(r) = 1 .. l
    BY <1>1, <1>2, <1>4, <2>2
  <2>4. QED BY <2>1, <2>2, <2>3
<1>6. sent'[r][Len(sent[r]) + 1].fate # "performed"
  BY <1>2
<1>7. Performed(r)' = {n \in Sent(r)' : sent'[r][n].fate = "performed"}
  BY DEF Performed
<1>8. QED BY <1>2, <1>5, <1>6, <1>7 DEF Performed

LEMMA MessagesHandled ==
  ASSUME TypeOK, NEW r \in Requests, NEW n \in Sent(r),
         NEW fate \in {"performed", "repeated", "refused"}, Handle(r, n, fate)
  PROVE  /\ Sent(r)' = Sent(r)
         /\ Performed(r)' = IF fate = "performed" THEN Performed(r) \cup {n} ELSE Performed(r)
<1>1. /\ sent' \in [Requests -> Seq(Message)] /\ Len(sent'[r]) = Len(sent[r])
      /\ \A i \in Sent(r) : i # n => sent'[r][i] = sent[r][i]
      /\ sent'[r][n].fate = fate /\ sent[r][n].fate = "flying"
  BY HandleDecides
<1>2. sent'[r] \in Seq(Message)
  BY <1>1
<1>3. Sent(r)' = 1 .. Len(sent'[r])
  BY <1>2, LenProperties DEF Sent
<1>4. Sent(r)' = Sent(r)
  BY <1>1, <1>3, Numbered
<1>5. Performed(r)' = {i \in Sent(r)' : sent'[r][i].fate = "performed"}
  BY DEF Performed
<1>6. QED BY <1>1, <1>4, <1>5 DEF Performed

LEMMA MessagesStep ==
  ASSUME TypeOK, Honest, [Next]_vars, NEW r \in Requests
  PROVE  GoodMessages(r)'
<1>0. GoodMessages(r)
  BY DEF Honest
<1>a. ASSUME sent'[r] = sent[r] PROVE GoodMessages(r)'
  BY <1>0, <1>a, MessagesKept DEF GoodMessages
<1>1. CASE UNCHANGED sent
  BY <1>1, <1>a
<1>2. ASSUME NEW c \in Caller, Send(c) PROVE GoodMessages(r)'
  <2>1. PICK q \in Requests : q = call[c].req
    BY <1>2, Calling DEF Send
  <2>2. CASE r # q
    BY <1>2, <1>a, <2>1, <2>2, SendAppends
  <2>3. CASE r = q
    <3>1. /\ Sent(r)' = Sent(r) \cup {Len(sent[r]) + 1}
          /\ Performed(r)' = Performed(r)
          /\ \A n \in Sent(r) : sent'[r][n] = sent[r][n]
      BY <1>2, <2>1, <2>3, MessagesSent
    <3>a. sent'[r][Len(sent[r]) + 1] = [host |-> call[c].host, fate |-> "flying"]
      BY <1>2, <2>1, <2>3, SendAppends
    <3>2. sent'[r][Len(sent[r]) + 1].fate = "flying"
      BY <3>a
    <3>3. \A n \in Performed(r) : n \in Sent(r)
      BY DEF Performed
    <3>4. QED BY <1>0, <3>1, <3>2, <3>3 DEF GoodMessages
  <2>4. QED BY <2>2, <2>3
<1>3. ASSUME NEW q \in Requests, NEW n \in Sent(q), NEW fate \in {"performed", "repeated", "refused"},
             Handle(q, n, fate)
      PROVE  GoodMessages(r)'
  <2>1. CASE r # q
    BY <1>3, <1>a, <2>1, HandleDecides
  <2>2. CASE r = q
    <3>1. /\ Sent(r)' = Sent(r) /\ n \in Sent(r)
          /\ Performed(r)' = IF fate = "performed" THEN Performed(r) \cup {n} ELSE Performed(r)
      BY <1>3, <2>2, MessagesHandled
    <3>2. /\ \A i \in Sent(r) : i # n => sent'[r][i] = sent[r][i]
          /\ sent'[r][n].fate = fate /\ sent'[r][n].host = sent[r][n].host
      BY <1>3, <2>2, HandleDecides
    <3>3. fate \in Fates(r, n)
      BY <1>3, <2>2 DEF Handle
    <3>4. /\ fate = "repeated" => Performed(r) # {}
          /\ fate = "performed" /\ sent[r][n].host \in Idempotent =>
               \A m \in Performed(r) : sent[r][m].host # sent[r][n].host
      BY <3>3 DEF Fates
    <3>5. \A i \in Sent(r) : sent'[r][i].host = sent[r][i].host
      BY <3>2
    <3>6. \A i \in Performed(r) : i \in Sent(r)
      BY DEF Performed
    <3>7. \A i \in Sent(r) : sent'[r][i].fate = "repeated" => Performed(r)' # {}
      BY <1>0, <3>1, <3>2, <3>4 DEF GoodMessages
    <3>8. ASSUME NEW i \in Performed(r)', NEW j \in Performed(r)',
                 sent'[r][i].host = sent'[r][j].host, sent'[r][j].host \in Idempotent
          PROVE  i = j
      <4>1. /\ i \in Sent(r) /\ j \in Sent(r)
            /\ sent[r][i].host = sent[r][j].host /\ sent[r][j].host \in Idempotent
        BY <3>1, <3>5, <3>6, <3>8
      <4>2. QED BY <1>0, <3>1, <3>4, <3>8, <4>1 DEF GoodMessages
    <3>9. QED BY <3>1, <3>7, <3>8 DEF GoodMessages
  <2>3. QED BY <2>1, <2>2
<1>4. QED BY <1>1, <1>2, <1>3, OnlySendAndHandle

\* A receipt that is left alone, and one that is written for a reason.
LEMMA ReceiptKept ==
  ASSUME TypeOK, Grows, NEW p \in Place, NEW k \in Key, GoodReceipt(p, k), ledger'[p][k] = ledger[p][k]
  PROVE  GoodReceipt(p, k)'
BY StillPerformed DEF GoodReceipt

LEMMA ReceiptWritten ==
  ASSUME TypeOK, Honest, Grows, NEW c \in Caller, pc[c] # "idle", NEW r, r = call[c].req,
         NEW status \in {"claimed", "completed", "uncertain", "failed"}, NEW safe \in BOOLEAN,
         WriteReceipt(c, Receipt(status, r, safe)), safe => status = "failed",
         status = "completed" /\ r.sideEffect => Performed(r) # {}
  PROVE  \A p \in Place, k \in Key : GoodReceipt(p, k)'
<1> SUFFICES ASSUME NEW p \in Place, NEW k \in Key PROVE GoodReceipt(p, k)'
  OBVIOUS
<1>1. r \in Requests /\ r.key \in Key /\ r.place \in Place /\ KeyOf(c) = r.key
  BY Calling DEF KeyOf
<1>2. CASE p = r.place /\ k = r.key
  <2>1. ledger'[p][k] = Receipt(status, r, safe)
    BY <1>1, <1>2 DEF WriteReceipt, TypeOK
  <2>2. status = "completed" /\ r.sideEffect => Performed(r)' # {}
    BY <1>1, StillPerformed
  <2>3. PICK f : f = ledger'[p][k]
    OBVIOUS
  <2>4. f.status = status /\ f.req = r /\ f.safe = safe
    BY <2>1, <2>3 DEF Receipt
  <2>5. Performed(f.req)' = Performed(r)'
    BY <2>4
  <2>6. QED BY <1>1, <1>2, <2>2, <2>3, <2>4, <2>5 DEF GoodReceipt
<1>3. CASE ~(p = r.place /\ k = r.key)
  <2>1. ledger'[p][k] = ledger[p][k]
    BY <1>1, <1>3 DEF WriteReceipt, TypeOK
  <2>2. QED BY <2>1, ReceiptKept DEF Honest
<1>4. QED BY <1>2, <1>3

\* A host that reports success performed the request, now or before.
LEMMA SuccessIsEarned ==
  ASSUME TypeOK, Honest, NEW c \in Caller, RecordAnswer(c, "succeeded"), NEW r \in Requests, r = call[c].req
  PROVE  Performed(r) # {}
<1>1. pc[c] = "wait" /\ sent[r][call[c].seen].fate \in {"performed", "repeated"}
  BY DEF RecordAnswer, Answers
<1>2. call[c].seen \in Sent(r)
  BY <1>1 DEF Honest, GoodCall
<1>3. QED BY <1>1, <1>2 DEF Honest, GoodMessages, Performed

LEMMA ReceiptsStep ==
  ASSUME TypeOK, Honest, [Next]_vars
  PROVE  \A p \in Place, k \in Key : GoodReceipt(p, k)'
<1>0. Grows
  BY SentGrows
<1>a. ASSUME UNCHANGED ledger PROVE \A p \in Place, k \in Key : GoodReceipt(p, k)'
  BY <1>0, <1>a, ReceiptKept DEF Honest
<1>1. ASSUME NEW c \in Caller, Claim(c) PROVE \A p \in Place, k \in Key : GoodReceipt(p, k)'
  BY <1>0, <1>1, ReceiptWritten DEF Claim
<1>2. ASSUME NEW c \in Caller, NEW yes \in BOOLEAN, Bind(c, yes)
      PROVE  \A p \in Place, k \in Key : GoodReceipt(p, k)'
  BY <1>0, <1>2, <1>a, ReceiptWritten DEF Bind
<1>3. ASSUME NEW c \in Caller, NEW verdict \in Verdict, SecondPermission(c, verdict)
      PROVE  \A p \in Place, k \in Key : GoodReceipt(p, k)'
  BY <1>0, <1>3, <1>a, ReceiptWritten DEF SecondPermission
<1>4. ASSUME NEW c \in Caller, NEW answer \in Answer, RecordAnswer(c, answer)
      PROVE  \A p \in Place, k \in Key : GoodReceipt(p, k)'
  <2>1. PICK r \in Requests : r = call[c].req
    BY <1>4, Calling DEF RecordAnswer
  <2>2. pc[c] = "wait" /\ WriteReceipt(c, Outcome(c, answer)) /\ pc[c] # "idle"
    BY <1>4 DEF RecordAnswer
  <2>3. \E status \in {"completed", "uncertain", "failed"}, safe \in BOOLEAN :
           /\ Outcome(c, answer) = Receipt(status, r, safe)
           /\ safe => status = "failed"
           /\ status = "completed" /\ r.sideEffect => answer = "succeeded"
    BY <2>1 DEF Outcome, BareSuccess, NoAnswer, Retryable, Answer
  <2>4. PICK status \in {"completed", "uncertain", "failed"}, safe \in BOOLEAN :
           /\ Outcome(c, answer) = Receipt(status, r, safe)
           /\ safe => status = "failed"
           /\ status = "completed" /\ r.sideEffect => answer = "succeeded"
    BY <2>3
  <2>5. answer = "succeeded" => Performed(r) # {}
    BY <1>4, <2>1, SuccessIsEarned
  <2>6. QED BY <1>0, <2>1, <2>2, <2>4, <2>5, ReceiptWritten
<1>5. ASSUME NEW c \in Caller, Settle(c) PROVE \A p \in Place, k \in Key : GoodReceipt(p, k)'
  <2>1. PICK r \in Requests : r = call[c].req
    BY <1>5, Calling DEF Settle
  <2>2. pc[c] = "settle" /\ pc[c] # "idle" /\ call[c].evidence \in {"effect", "noEffect", "unclear"}
    BY <1>5, Calling DEF Settle, Call, Honest, GoodCall
  <2>3. \E status \in {"completed", "uncertain", "failed"}, safe \in BOOLEAN :
           /\ Settled(c) = Receipt(status, r, safe)
           /\ safe => status = "failed"
           /\ status = "completed" => call[c].evidence = "effect"
    BY <2>1, <2>2 DEF Settled
  <2>4. PICK status \in {"completed", "uncertain", "failed"}, safe \in BOOLEAN :
           /\ Settled(c) = Receipt(status, r, safe)
           /\ safe => status = "failed"
           /\ status = "completed" => call[c].evidence = "effect"
    BY <2>3
  <2>5. call[c].evidence = "effect" => Performed(r) # {}
    BY <2>1, <2>2 DEF Honest, GoodCall
  <2>6. CASE WriteReceipt(c, Settled(c))
    BY <1>0, <2>1, <2>2, <2>4, <2>5, <2>6, ReceiptWritten
  <2>7. QED BY <1>5, <1>a, <2>6 DEF Settle
<1>6. QED
  BY <1>a, <1>1, <1>2, <1>3, <1>4, <1>5
     DEF Next, vars, Execute, FirstPermission, TakeLock, LockBusy, ReadReceipt, Authorize, Send, Release,
         Reconcile, TakeLockToSettle, Crash, Handle, Reclaim, Overrun

LEMMA AnsweredStep ==
  ASSUME TypeOK, Honest, [Next]_vars
  PROVE  \A r \in answered' : r.sideEffect => Performed(r)' # {}
<1>0. Grows /\ answered \subseteq Requests
  BY SentGrows DEF TypeOK
<1>a. \A r \in Requests : Performed(r) # {} => Performed(r)' # {}
  BY <1>0, StillPerformed
<1>b. ASSUME UNCHANGED answered PROVE \A r \in answered' : r.sideEffect => Performed(r)' # {}
  BY <1>0, <1>a, <1>b DEF Honest
<1>1. ASSUME NEW c \in Caller, ReadReceipt(c)
      PROVE  \A r \in answered' : r.sideEffect => Performed(r)' # {}
  <2>1. PICK q \in Requests : q = call[c].req
    BY <1>1, Calling DEF ReadReceipt
  <2>2. /\ Here(c) = ledger[q.place][q.key] /\ q.place \in Place /\ q.key \in Key
    BY <1>1, <2>1, Calling DEF Here, ReadReceipt, KeyOf
  <2>3. Replayed(c) /\ q.sideEffect => Performed(q) # {}
    BY <2>1, <2>2 DEF Replayed, Honest, GoodReceipt
  <2>4. answered' = answered \/ (Replayed(c) /\ answered' = answered \cup {q})
    BY <1>1, <2>1 DEF ReadReceipt
  <2>5. QED BY <1>0, <1>a, <1>b, <2>3, <2>4 DEF Honest
<1>2. ASSUME NEW c \in Caller, NEW answer \in Answer, RecordAnswer(c, answer)
      PROVE  \A r \in answered' : r.sideEffect => Performed(r)' # {}
  <2>1. PICK q \in Requests : q = call[c].req
    BY <1>2, Calling DEF RecordAnswer
  <2>2. Outcome(c, answer).status = "completed" /\ q.sideEffect => answer = "succeeded"
    BY <2>1 DEF Outcome, BareSuccess, NoAnswer, Receipt, Answer
  <2>3. answer = "succeeded" => Performed(q) # {}
    BY <1>2, <2>1, SuccessIsEarned
  <2>4. answered' = answered \/ (Outcome(c, answer).status = "completed" /\ answered' = answered \cup {q})
    BY <1>2, <2>1 DEF RecordAnswer
  <2>5. QED BY <1>0, <1>a, <1>b, <2>2, <2>3, <2>4 DEF Honest
<1>3. \/ UNCHANGED answered
      \/ \E c \in Caller : ReadReceipt(c)
      \/ \E c \in Caller, answer \in Answer : RecordAnswer(c, answer)
  BY DEF Next, vars, Execute, FirstPermission, SecondPermission, TakeLock, LockBusy, Authorize, Bind, Claim,
         Send, Release, Reconcile, TakeLockToSettle, Settle, Crash, Handle, Reclaim, Overrun
<1>4. QED BY <1>b, <1>1, <1>2, <1>3

\* A step of another caller, or of the host, leaves a call where it was; its own steps
\* begin it, move it on, end it, or dispatch.
CallMoves(c) ==
  /\ UNCHANGED <<call[c]>>
  /\ pc'[c] # pc[c] => pc[c] # "idle" /\ pc'[c] # "wait"
  /\ pc'[c] \in Executing => pc[c] \in Executing
  /\ pc'[c] \in {"settleLock", "settle"} => pc[c] \in {"settleLock", "settle"}

LEMMA CallSteps ==
  ASSUME TypeOK, [Next]_vars, NEW c \in Caller
  PROVE  \/ pc'[c] = "idle"
         \/ CallMoves(c)
         \/ \E r \in Requests, h \in Host, flag, approved \in BOOLEAN : Execute(c, r, h, flag, approved)
         \/ \E r \in Requests, evidence \in {"effect", "noEffect", "unclear"} : Reconcile(c, r, evidence)
         \/ Send(c)
<1> DEFINE Goal == \/ pc'[c] = "idle"
                   \/ CallMoves(c)
                   \/ \E r \in Requests, h \in Host, flag, approved \in BOOLEAN :
                        Execute(c, r, h, flag, approved)
                   \/ \E r \in Requests, evidence \in {"effect", "noEffect", "unclear"} :
                        Reconcile(c, r, evidence)
                   \/ Send(c)
<1>0. /\ pc \in [Caller -> {"idle", "permit", "lock", "settleLock"} \cup LockedStates]
      /\ call \in [Caller -> Call \cup {None}]
  BY DEF TypeOK
<1>a. ASSUME NEW d \in Caller, NEW state, Goto(d, state), UNCHANGED call, pc[d] # "idle",
             state # "wait", state \in Executing => pc[d] \in Executing,
             state \in {"settleLock", "settle"} => pc[d] \in {"settleLock", "settle"}
      PROVE  Goal
  BY <1>0, <1>a DEF Goto, CallMoves
<1>b. ASSUME NEW d \in Caller, Return(d) PROVE Goal
  BY <1>0, <1>b DEF Return, Goto, CallMoves
<1>c. ASSUME UNCHANGED <<pc, call>> PROVE Goal
  BY <1>c DEF CallMoves
<1>d. ASSUME NEW d \in Caller, NEW state, NEW x, d # c, Goto(d, state), call' = [call EXCEPT ![d] = x]
      PROVE  Goal
  BY <1>0, <1>d DEF Goto, CallMoves
<1> HIDE DEF Goal
<1> USE DEF Executing
<1>1. ASSUME NEW d \in Caller, NEW verdict \in Verdict,
             FirstPermission(d, verdict) \/ SecondPermission(d, verdict)
      PROVE  Goal
  BY <1>1, <1>a, <1>b DEF FirstPermission, SecondPermission
<1>2. ASSUME NEW d \in Caller, TakeLock(d) \/ TakeLockToSettle(d) PROVE Goal
  BY <1>2, <1>a DEF TakeLock, TakeLockToSettle, Lock
<1>3. ASSUME NEW d \in Caller, LockBusy(d) \/ Release(d) \/ Crash(d) PROVE Goal
  BY <1>3, <1>b DEF LockBusy, Release, Crash
<1>4. ASSUME NEW d \in Caller, ReadReceipt(d) \/ Claim(d) \/ Settle(d) PROVE Goal
  BY <1>4, <1>a DEF ReadReceipt, Claim, Settle
<1>5. ASSUME NEW d \in Caller, NEW yes \in BOOLEAN, Authorize(d, yes) \/ Bind(d, yes) PROVE Goal
  BY <1>5, <1>a DEF Authorize, Bind
<1>6. ASSUME NEW d \in Caller, NEW answer \in Answer, RecordAnswer(d, answer) PROVE Goal
  BY <1>6, <1>a DEF RecordAnswer
<1>7. ASSUME NEW d \in Caller, Send(d) PROVE Goal
  <2>1. CASE d = c
    BY <1>7, <2>1 DEF Goal
  <2>2. CASE d # c
    BY <1>7, <1>d, <2>2 DEF Send
  <2>3. QED BY <2>1, <2>2
<1>8. ASSUME NEW d \in Caller, NEW r \in Requests, NEW h \in Host, NEW flag \in BOOLEAN,
             NEW approved \in BOOLEAN, Execute(d, r, h, flag, approved)
      PROVE  Goal
  <2>1. CASE d = c
    BY <1>8, <2>1 DEF Goal
  <2>2. CASE d # c
    BY <1>8, <1>d, <2>2 DEF Execute
  <2>3. QED BY <2>1, <2>2
<1>9. ASSUME NEW d \in Caller, NEW r \in Requests, NEW evidence \in {"effect", "noEffect", "unclear"},
             Reconcile(d, r, evidence)
      PROVE  Goal
  <2>1. CASE d = c
    BY <1>9, <2>1 DEF Goal
  <2>2. CASE d # c
    BY <1>9, <1>d, <2>2 DEF Reconcile
  <2>3. QED BY <2>1, <2>2
<1>10. ASSUME NEW r \in Requests, NEW n \in Sent(r), NEW fate \in {"performed", "repeated", "refused"},
              Handle(r, n, fate)
       PROVE  Goal
  BY <1>10, <1>c DEF Handle
<1>11. ASSUME NEW k \in Key, Reclaim(k) \/ Overrun(k) PROVE Goal
  BY <1>11, <1>c DEF Reclaim, Overrun
<1>12. ASSUME UNCHANGED vars PROVE Goal
  BY <1>12, <1>c DEF vars
<1>13. Goal
  BY <1>1, <1>2, <1>3, <1>4, <1>5, <1>6, <1>7, <1>8, <1>9, <1>10, <1>11, <1>12 DEF Next
<1>14. QED BY <1>13 DEF Goal

LEMMA CallsStep ==
  ASSUME TypeOK, Honest, [Next]_vars, NEW c \in Caller
  PROVE  GoodCall(c)'
<1>0. Grows /\ GoodCall(c)
  BY SentGrows DEF Honest
<1>1. CASE pc'[c] = "idle"
  BY <1>1 DEF GoodCall
<1>2. ASSUME CallMoves(c), pc'[c] # "idle" PROVE GoodCall(c)'
  <2>1. pc[c] # "idle" /\ call'[c] = call[c]
    BY <1>2 DEF CallMoves
  <2>2. PICK r \in Requests : r = call[c].req
    BY <2>1, Calling
  <2>3. /\ pc'[c] \in Executing => pc[c] \in Executing
        /\ pc'[c] \in {"settleLock", "settle"} => pc[c] \in {"settleLock", "settle"}
        /\ pc'[c] = "wait" => pc[c] = "wait"
    BY <1>2 DEF CallMoves
  <2>4. /\ Sent(r) = 1 .. Len(sent[r]) /\ Len(sent[r]) \in Nat /\ call[c].seen \in Nat
    BY <2>1, Numbered, Calling
  <2>5. sent'[r] \in Seq(Message) /\ Len(sent[r]) <= Len(sent'[r])
    BY <1>0 DEF Grows
  <2>6. Sent(r)' = 1 .. Len(sent'[r]) /\ Len(sent'[r]) \in Nat
    BY <2>5, LenProperties DEF Sent
  <2>7. \A n \in Sent(r) : /\ n \in Sent(r)'
                           /\ sent'[r][n].host = sent[r][n].host
                           /\ sent[r][n].fate = "refused" => sent'[r][n].fate = "refused"
    BY <1>0 DEF Grows, Sent
  <2>8. Performed(r) # {} => Performed(r)' # {}
    BY <1>0, StillPerformed
  <2>9. pc'[c] = "wait" => call[c].seen \in Sent(r)' /\ sent'[r][call[c].seen].host = call[c].host
    BY <1>0, <2>2, <2>3, <2>7 DEF GoodCall
  <2>10. call[c].evidence = "noEffect" =>
           /\ call[c].seen <= Len(sent'[r])
           /\ \A n \in Sent(r)' : n <= call[c].seen => sent'[r][n].fate = "refused"
    <3>1. SUFFICES ASSUME call[c].evidence = "noEffect"
                   PROVE  /\ call[c].seen <= Len(sent'[r])
                          /\ \A n \in Sent(r)' : n <= call[c].seen => sent'[r][n].fate = "refused"
      OBVIOUS
    <3>2. /\ call[c].seen <= Len(sent[r])
          /\ \A n \in Sent(r) : n <= call[c].seen => sent[r][n].fate = "refused"
      BY <1>0, <2>1, <2>2, <3>1 DEF GoodCall
    <3>3. QED BY <2>4, <2>5, <2>6, <2>7, <3>2
  <2>11. /\ call[c].flag => call[c].host \in Idempotent
         /\ call[c].evidence = "effect" => Performed(r)' # {}
         /\ pc'[c] \in Executing => call[c].host \in Host /\ call[c].evidence = "none"
         /\ pc'[c] \in {"settleLock", "settle"} => call[c].evidence # "none"
    BY <1>0, <2>1, <2>2, <2>3, <2>8 DEF GoodCall
  <2>12. PICK x : x = call'[c]
    OBVIOUS
  <2>13. /\ x.req = r /\ x.flag = call[c].flag /\ x.host = call[c].host /\ x.evidence = call[c].evidence
         /\ x.seen = call[c].seen
    BY <2>1, <2>2, <2>12
  <2>14. QED BY <2>9, <2>10, <2>11, <2>12, <2>13 DEF GoodCall
<1>3. ASSUME NEW r \in Requests, NEW h \in Host, NEW flag \in BOOLEAN, NEW approved \in BOOLEAN,
             Execute(c, r, h, flag, approved)
      PROVE  GoodCall(c)'
  <2>1. /\ pc'[c] = "permit"
        /\ flag => h \in Idempotent
        /\ call'[c] = [req |-> r, host |-> h, flag |-> flag, approved |-> approved,
                       evidence |-> "none", seen |-> 0]
    BY <1>3 DEF Execute, Goto, TypeOK
  <2>2. PICK x : x = call'[c]
    OBVIOUS
  <2>3. x.req = r /\ x.host = h /\ x.flag = flag /\ x.evidence = "none" /\ h \in Host
    BY <2>1, <2>2
  <2>4. QED BY <2>1, <2>2, <2>3 DEF GoodCall, Executing
<1>4. ASSUME NEW r \in Requests, NEW evidence \in {"effect", "noEffect", "unclear"}, Reconcile(c, r, evidence)
      PROVE  GoodCall(c)'
  <2>1. pc'[c] = "settleLock" /\ UNCHANGED sent /\ evidence \in Evidence(r)
    BY <1>4 DEF Reconcile, Goto, TypeOK
  <2>2. call'[c] = [req |-> r, host |-> None, flag |-> FALSE, approved |-> FALSE,
                    evidence |-> evidence, seen |-> Len(sent[r])]
    BY <1>4 DEF Reconcile, TypeOK
  <2>3. /\ evidence = "effect" => Performed(r) # {}
        /\ evidence = "noEffect" => Performed(r) = {} /\ Flying(r) = {}
    BY <2>1 DEF Evidence
  <2>4. /\ Performed(r) = {} /\ Flying(r) = {} => \A n \in Sent(r) : sent[r][n].fate = "refused"
    <3>1. SUFFICES ASSUME Performed(r) = {}, Flying(r) = {}, NEW n \in Sent(r) PROVE sent[r][n].fate = "refused"
      OBVIOUS
    <3>2. sent[r][n].fate \in {"flying", "performed", "repeated", "refused"}
      BY <3>1, Numbered DEF Message
    <3>3. sent[r][n].fate # "repeated"
      BY <3>1 DEF Honest, GoodMessages
    <3>4. sent[r][n].fate # "performed" /\ sent[r][n].fate # "flying"
      BY <3>1 DEF Performed, Flying
    <3>5. QED BY <3>2, <3>3, <3>4
  <2>5. PICK x : x = call'[c]
    OBVIOUS
  <2>6. /\ x.req = r /\ x.flag = FALSE /\ x.evidence = evidence /\ x.seen = Len(sent[r])
    BY <2>2, <2>5
  <2>7. Performed(r)' = Performed(r) /\ Sent(r)' = Sent(r) /\ sent'[r] = sent[r] /\ Len(sent[r]) \in Nat
    BY <2>1, MessagesKept, Numbered
  <2>8. QED BY <2>1, <2>3, <2>4, <2>5, <2>6, <2>7 DEF GoodCall, Executing
<1>5. ASSUME Send(c) PROVE GoodCall(c)'
  <2>1. PICK r \in Requests : r = call[c].req
    BY <1>5, Calling DEF Send
  <2>2. /\ pc[c] = "send" /\ pc'[c] = "wait" /\ call'[c] = [call[c] EXCEPT !.seen = Len(sent[r]) + 1]
    BY <1>5, <2>1 DEF Send, Goto, TypeOK
  <2>3. call[c] \in Call
    BY <2>2, Calling
  <2>4. PICK x : x = call'[c]
    OBVIOUS
  <2>5. /\ x.req = r /\ x.flag = call[c].flag /\ x.host = call[c].host /\ x.evidence = call[c].evidence
        /\ x.seen = Len(sent[r]) + 1
    BY <2>1, <2>2, <2>3, <2>4 DEF Call
  <2>6. Len(sent[r]) + 1 \in Sent(r)'
    BY <1>5, <2>1, MessagesSent
  <2>7. sent'[r][Len(sent[r]) + 1] = [host |-> call[c].host, fate |-> "flying"]
    BY <1>5, <2>1, SendAppends
  <2>8. call[c].evidence = "none"
    BY <2>2 DEF Honest, GoodCall, Executing
  <2>9. sent'[r][Len(sent[r]) + 1].host = call[c].host
    BY <2>7
  <2>10. /\ call[c].host \in Host
         /\ call[c].flag => call[c].host \in Idempotent
    BY <1>0, <2>2 DEF GoodCall, Executing
  <2>11. QED BY <2>2, <2>4, <2>5, <2>6, <2>8, <2>9, <2>10 DEF GoodCall, Executing
<1>6. QED BY <1>1, <1>2, <1>3, <1>4, <1>5, CallSteps

LEMMA HonestStep == ASSUME TypeOK, Honest, [Next]_vars PROVE Honest'
BY ReceiptsStep, AnsweredStep, CallsStep, MessagesStep DEF Honest

-----------------------------------------------------------------------------
\* The order of things is kept while nobody loses a lock and no evidence is outdated.

\* Two callers inside have different keys.
LEMMA Exclusive ==
  ASSUME Orderly, NEW c \in Caller, NEW d \in Caller, c # d, pc[c] \in LockedStates, pc[d] \in LockedStates
  PROVE  KeyOf(c) # KeyOf(d)
BY DEF Orderly, InTurn

\* A receipt is written by a caller in its turn, ...
LEMMA WrittenBy ==
  ASSUME [Next]_vars
  PROVE  \/ UNCHANGED ledger
         \/ \E c \in Caller : Claim(c)
         \/ \E c \in Caller, yes \in BOOLEAN : Bind(c, yes)
         \/ \E c \in Caller, verdict \in Verdict : SecondPermission(c, verdict)
         \/ \E c \in Caller, answer \in Answer : RecordAnswer(c, answer)
         \/ \E c \in Caller : Settle(c)
BY Zenon DEF Next, vars, Execute, FirstPermission, TakeLock, LockBusy, ReadReceipt, Authorize, Send, Release,
       Reconcile, TakeLockToSettle, Crash, Handle, Reclaim, Overrun

\* ... for its own request, over a receipt of that request or none, not a completed one,
\* and it is safe only if what was sent is harmless.
Written(c) ==
  /\ pc[c] \in LockedStates
  /\ pc'[c] # pc[c]
  /\ UNCHANGED <<locks, sent, call>>
  /\ Here(c).req \in {None, call[c].req}
  /\ Here(c).status # "completed"
  /\ \E status \in {"claimed", "completed", "uncertain", "failed"}, safe \in BOOLEAN :
       /\ WriteReceipt(c, Receipt(status, call[c].req, safe))
       /\ safe /\ call[c].req.sideEffect /\ Undisturbed' => Clean(call[c].req)

LEMMA WrittenInTurn ==
  ASSUME TypeOK, Honest, Orderly, [Next]_vars
  PROVE  UNCHANGED ledger \/ \E c \in Caller : Written(c)
<1> USE DEF LockedStates
<1>0. pc \in [Caller -> {"idle", "permit", "lock", "settleLock"} \cup LockedStates]
  BY DEF TypeOK
<1>1. ASSUME NEW c \in Caller, Claim(c) PROVE Written(c)
  <2>1. pc[c] = "claim" /\ pc'[c] = "bind" /\ UNCHANGED <<locks, sent, call>>
    BY <1>0, <1>1 DEF Claim, Goto
  <2>2. MayRun(c)
    BY <2>1 DEF Orderly, InTurn
  <2>3. Here(c).req \in {None, call[c].req} /\ Here(c).status # "completed"
    BY <2>2 DEF MayRun, NoReceipt
  <2>4. WriteReceipt(c, Receipt("claimed", call[c].req, FALSE))
    BY <1>1 DEF Claim
  <2>5. QED BY <2>1, <2>3, <2>4 DEF Written
<1>2. ASSUME NEW c \in Caller, NEW r, r = call[c].req, pc[c] \in {"bind", "edge", "wait"}, pc'[c] = "release",
             UNCHANGED <<locks, sent, call>>,
             NEW status \in {"completed", "uncertain", "failed"}, NEW safe \in BOOLEAN,
             WriteReceipt(c, Receipt(status, r, safe)), safe /\ r.sideEffect => Clean(r)
      PROVE  Written(c)
  <2>1. Here(c).req = r /\ Here(c).status = "claimed"
    BY <1>2 DEF Orderly, InTurn
  <2>2. QED BY <1>2, <2>1 DEF Written
<1>3. ASSUME NEW c \in Caller, NEW yes \in BOOLEAN, Bind(c, yes) PROVE UNCHANGED ledger \/ Written(c)
  <2>1. CASE yes
    BY <1>3, <2>1 DEF Bind
  <2>2. CASE ~yes
    <3>1. /\ pc[c] = "bind" /\ pc'[c] = "release" /\ UNCHANGED <<locks, sent, call>>
          /\ WriteReceipt(c, Receipt("failed", call[c].req, TRUE))
      BY <1>0, <1>3, <2>2 DEF Bind, Goto
    <3>2. call[c].req.sideEffect => Clean(call[c].req)
      BY <3>1 DEF Orderly, InTurn
    <3>3. QED BY <1>2, <3>1, <3>2
  <2>3. QED BY <2>1, <2>2
<1>4. ASSUME NEW c \in Caller, NEW verdict \in Verdict, SecondPermission(c, verdict)
      PROVE  UNCHANGED ledger \/ Written(c)
  <2>1. CASE HostPermits(c, verdict)
    BY <1>4, <2>1 DEF SecondPermission
  <2>2. CASE ~HostPermits(c, verdict)
    <3>1. /\ pc[c] = "edge" /\ pc'[c] = "release" /\ UNCHANGED <<locks, sent, call>>
          /\ WriteReceipt(c, Receipt("failed", call[c].req, TRUE))
      BY <1>0, <1>4, <2>2 DEF SecondPermission, Goto
    <3>2. call[c].req.sideEffect => Clean(call[c].req)
      BY <3>1 DEF Orderly, InTurn
    <3>3. QED BY <1>2, <3>1, <3>2
  <2>3. QED BY <2>1, <2>2
<1>5. ASSUME NEW c \in Caller, NEW answer \in Answer, RecordAnswer(c, answer) PROVE Written(c)
  <2>1. PICK r \in Requests : r = call[c].req
    BY <1>5, Calling DEF RecordAnswer
  <2>2. /\ pc[c] = "wait" /\ pc'[c] = "release" /\ UNCHANGED <<locks, sent, call>>
        /\ WriteReceipt(c, Outcome(c, answer))
        /\ answer = "noEffect" => sent[r][call[c].seen].fate = "refused"
    BY <1>0, <1>5, <2>1 DEF RecordAnswer, Goto, Answers
  <2>3. \E status \in {"completed", "uncertain", "failed"}, safe \in BOOLEAN :
           /\ Outcome(c, answer) = Receipt(status, r, safe)
           /\ safe /\ r.sideEffect => answer = "noEffect" \/ call[c].flag
    BY <2>1 DEF Outcome, BareSuccess, NoAnswer, Retryable, Answer
  <2>4. PICK status \in {"completed", "uncertain", "failed"}, safe \in BOOLEAN :
           /\ Outcome(c, answer) = Receipt(status, r, safe)
           /\ safe /\ r.sideEffect => answer = "noEffect" \/ call[c].flag
    BY <2>3
  <2>5. call[c].flag => sent[r][call[c].seen].host \in Idempotent
    BY <2>1, <2>2 DEF Honest, GoodCall
  <2>6. answer = "noEffect" \/ call[c].flag => Harmless(sent[r][call[c].seen])
    BY <2>2, <2>5 DEF Harmless
  <2>7. r.sideEffect => \A n \in Sent(r) : n # call[c].seen => Harmless(sent[r][n])
    BY <2>1, <2>2 DEF Orderly, InTurn
  <2>8. safe /\ r.sideEffect => Clean(r)
    BY <2>4, <2>6, <2>7 DEF Clean
  <2>9. QED BY <1>2, <2>1, <2>2, <2>4, <2>8
<1>6. ASSUME NEW c \in Caller, Settle(c) PROVE UNCHANGED ledger \/ Written(c)
  <2>1. PICK r \in Requests : r = call[c].req
    BY <1>6, Calling DEF Settle
  <2>2. /\ pc[c] = "settle" /\ pc'[c] = "release" /\ UNCHANGED <<locks, sent, call>>
    BY <1>0, <1>6 DEF Settle, Goto
  <2>3. CASE Here(c).req = call[c].req /\ Here(c).status # "completed"
    <3>1. WriteReceipt(c, Settled(c)) /\ (Undisturbed' => call[c].seen = Len(sent[r]))
      BY <1>6, <2>1, <2>3 DEF Settle, Undisturbed
    <3>2. call[c].evidence \in {"effect", "noEffect", "unclear"}
      BY <2>2, Calling DEF Call, Honest, GoodCall
    <3>3. \E status \in {"completed", "uncertain", "failed"}, safe \in BOOLEAN :
             Settled(c) = Receipt(status, r, safe) /\ (safe => call[c].evidence = "noEffect")
      BY <2>1, <3>2 DEF Settled
    <3>4. PICK status \in {"completed", "uncertain", "failed"}, safe \in BOOLEAN :
             Settled(c) = Receipt(status, r, safe) /\ (safe => call[c].evidence = "noEffect")
      BY <3>3
    <3>5. call[c].evidence = "noEffect" /\ Undisturbed' => \A n \in Sent(r) : sent[r][n].fate = "refused"
      <4>1. call[c].evidence = "noEffect" => \A n \in Sent(r) : n <= call[c].seen => sent[r][n].fate = "refused"
        BY <2>1, <2>2 DEF Honest, GoodCall
      <4>2. \A n \in Sent(r) : n <= Len(sent[r])
        BY Numbered
      <4>3. QED BY <3>1, <4>1, <4>2
    <3>6. safe /\ Undisturbed' => Clean(r)
      BY <3>4, <3>5 DEF Clean, Harmless
    <3>7. QED BY <2>1, <2>2, <2>3, <3>1, <3>4, <3>6 DEF Written
  <2>4. CASE ~(Here(c).req = call[c].req /\ Here(c).status # "completed")
    BY <1>6, <2>4 DEF Settle
  <2>5. QED BY <2>3, <2>4
<1>7. QED BY <1>1, <1>3, <1>4, <1>5, <1>6, WrittenBy

\* What was harmless stays so.
LEMMA HarmlessKept ==
  ASSUME Grows, NEW r \in Requests, NEW n \in Sent(r), Harmless(sent[r][n])
  PROVE  Harmless(sent'[r][n])
BY DEF Grows, Harmless

LEMMA CleanKept ==
  ASSUME Grows, NEW r \in Requests, Clean(r), Sent(r)' = Sent(r)
  PROVE  Clean(r)'
BY HarmlessKept DEF Clean

\* A message is added only by the caller in its turn at the receipt of the request.
LEMMA AddedInTurn ==
  ASSUME TypeOK, Honest, [Next]_vars, NEW r \in Requests
  PROVE  \/ Sent(r)' = Sent(r)
         \/ \E c \in Caller : Send(c) /\ call[c].req = r
<1>1. CASE UNCHANGED sent
  BY <1>1 DEF Sent
<1>2. ASSUME NEW c \in Caller, Send(c), call[c].req # r PROVE Sent(r)' = Sent(r)
  <2>1. PICK q \in Requests : q = call[c].req
    BY <1>2, Calling DEF Send
  <2>2. sent'[r] = sent[r]
    BY <1>2, <2>1, SendAppends
  <2>3. QED BY <2>2 DEF Sent
<1>3. ASSUME NEW q \in Requests, NEW n \in Sent(q), NEW fate \in {"performed", "repeated", "refused"},
             Handle(q, n, fate)
      PROVE  Sent(r)' = Sent(r)
  <2>1. CASE q = r
    BY <1>3, <2>1, MessagesHandled
  <2>2. CASE q # r
    <3>1. sent'[r] = sent[r]
      BY <1>3, <2>2, HandleDecides
    <3>2. QED BY <3>1 DEF Sent
  <2>3. QED BY <2>1, <2>2
<1>4. QED BY <1>1, <1>2, <1>3, OnlySendAndHandle

\* The steps that touch a lock.
LEMMA LockedBy ==
  ASSUME [Next]_vars
  PROVE  \/ UNCHANGED locks
         \/ \E c \in Caller : TakeLock(c)
         \/ \E c \in Caller : TakeLockToSettle(c)
         \/ \E c \in Caller : Release(c)
         \/ \E k \in Key : Reclaim(k)
         \/ \E k \in Key : Overrun(k)
BY Zenon DEF Next, vars, Execute, FirstPermission, SecondPermission, LockBusy, ReadReceipt, Authorize, Bind,
       Claim, Send, RecordAnswer, Reconcile, Settle, Crash, Handle

\* Nobody takes the lock of a caller inside.
LEMMA LockKept ==
  ASSUME TypeOK, Orderly, [Next]_vars, overruns' = overruns,
         NEW c \in Caller, pc[c] \in LockedStates, pc'[c] = pc[c]
  PROVE  locks'[KeyOf(c)] = c
<1>0. locks[KeyOf(c)] = c
  BY DEF Orderly, InTurn
<1>1. KeyOf(c) \in Key /\ c # None /\ locks \in [Key -> Caller \cup {None}]
  BY Calling, ActionLedgerAssumption DEF TypeOK, LockedStates
<1>2. ASSUME NEW d \in Caller, NEW state, Lock(d, state) PROVE locks'[KeyOf(c)] = c
  BY <1>0, <1>1, <1>2 DEF Lock
<1>3. ASSUME NEW d \in Caller, Release(d) PROVE locks'[KeyOf(c)] = c
  <2>1. pc[d] = "release" /\ pc'[d] = "idle"
    BY <1>3 DEF Release, Return, Goto, TypeOK
  <2>2. d # c
    BY <2>1 DEF LockedStates
  <2>3. KeyOf(d) # KeyOf(c)
    BY <2>1, <2>2, Exclusive DEF LockedStates
  <2>4. QED BY <1>0, <1>1, <1>3, <2>3 DEF Release
<1>4. ASSUME NEW k \in Key, Reclaim(k) PROVE locks'[KeyOf(c)] = c
  <2>1. k # KeyOf(c)
    BY <1>0, <1>4 DEF Reclaim, Holds
  <2>2. QED BY <1>0, <1>1, <1>4, <2>1 DEF Reclaim
<1>5. ASSUME NEW k \in Key PROVE ~Overrun(k)
  <2>1. overruns \in Nat
    BY DEF TypeOK
  <2>2. QED BY <2>1 DEF Overrun
<1>6. QED BY <1>0, <1>2, <1>3, <1>4, <1>5, LockedBy DEF TakeLock, TakeLockToSettle

\* Nobody writes the receipt of a caller inside, or sends its request.
LEMMA ReceiptKeptInTurn ==
  ASSUME TypeOK, Honest, Orderly, [Next]_vars, NEW c \in Caller, pc[c] \in LockedStates, pc'[c] = pc[c],
         NEW r \in Requests, r = call[c].req
  PROVE  ledger'[r.place][r.key] = ledger[r.place][r.key] /\ Sent(r)' = Sent(r)
<1>0. r.key = KeyOf(c) /\ r.place \in Place /\ r.key \in Key
  BY Calling DEF KeyOf, LockedStates
<1>1. ASSUME NEW d \in Caller, Written(d) PROVE ledger'[r.place][r.key] = ledger[r.place][r.key]
  <2>1. pc[d] \in LockedStates /\ d # c
    BY <1>1 DEF Written
  <2>2. KeyOf(d) # r.key
    BY <1>0, <2>1, Exclusive
  <2>3. KeyOf(d) \in Key /\ call[d].req.place \in Place
    BY <2>1, Calling DEF LockedStates
  <2>4. QED BY <1>0, <1>1, <2>2, <2>3 DEF Written, WriteReceipt, TypeOK
<1>2. ASSUME NEW d \in Caller, Send(d), call[d].req = r PROVE FALSE
  <2>1. pc[d] = "send" /\ pc'[d] = "wait"
    BY <1>2 DEF Send, Goto, TypeOK
  <2>2. d # c /\ pc[d] \in LockedStates
    BY <2>1 DEF LockedStates
  <2>3. QED BY <1>0, <1>2, <2>2, Exclusive DEF KeyOf
<1>3. QED BY <1>1, <1>2, WrittenInTurn, AddedInTurn

\* A caller inside that does not move stays in its turn.
LEMMA TurnKept ==
  ASSUME TypeOK, Honest, Orderly, [Next]_vars, overruns' = overruns,
         NEW c \in Caller, pc[c] \in LockedStates, pc'[c] = pc[c], call'[c] = call[c]
  PROVE  InTurn(c)'
<1>1. PICK r \in Requests : r = call[c].req
  BY Calling DEF LockedStates
<1>2. /\ Grows /\ InTurn(c) /\ locks'[KeyOf(c)] = c /\ KeyOf(c) = r.key
      /\ ledger'[r.place][r.key] = ledger[r.place][r.key] /\ Sent(r)' = Sent(r)
  BY <1>1, SentGrows, LockKept, ReceiptKeptInTurn DEF Orderly, KeyOf
<1>3. Clean(r) => Clean(r)'
  BY <1>2, CleanKept
<1>4. ASSUME \A n \in Sent(r) : n # call[c].seen => Harmless(sent[r][n])
      PROVE  \A n \in Sent(r)' : n # call[c].seen => Harmless(sent'[r][n])
  BY <1>2, <1>4, HarmlessKept
<1>5. Here(c) = ledger[r.place][r.key] /\ Here(c)' = ledger[r.place][r.key] /\ KeyOf(c)' = r.key
  BY <1>1, <1>2 DEF Here, KeyOf
<1>6. MayRun(c) => MayRun(c)'
  BY <1>5 DEF MayRun, NoReceipt
<1>7. call'[c].req = r /\ call'[c].seen = call[c].seen
  BY <1>1
<1>8. QED BY <1>1, <1>2, <1>3, <1>4, <1>5, <1>6, <1>7 DEF InTurn

\* What a caller that is inside after a step has just done.
Advances(c) ==
  \/ TakeLock(c)
  \/ TakeLockToSettle(c)
  \/ ReadReceipt(c)
  \/ \E yes \in BOOLEAN : Authorize(c, yes)
  \/ Claim(c)
  \/ \E yes \in BOOLEAN : Bind(c, yes)
  \/ \E verdict \in Verdict : SecondPermission(c, verdict)
  \/ Send(c)
  \/ \E answer \in Answer : RecordAnswer(c, answer)
  \/ Settle(c)

LEMMA InsideSteps ==
  ASSUME TypeOK, [Next]_vars, NEW c \in Caller, pc'[c] \in LockedStates
  PROVE  (pc'[c] = pc[c] /\ call'[c] = call[c]) \/ Advances(c)
<1> DEFINE Goal == (pc'[c] = pc[c] /\ call'[c] = call[c]) \/ Advances(c)
<1>0. /\ pc \in [Caller -> {"idle", "permit", "lock", "settleLock"} \cup LockedStates]
      /\ call \in [Caller -> Call \cup {None}]
  BY DEF TypeOK
<1>a. ASSUME NEW d \in Caller, NEW state, Goto(d, state), UNCHANGED call, d # c PROVE Goal
  BY <1>0, <1>a DEF Goto
<1>b. ASSUME NEW d \in Caller, NEW state, state \notin LockedStates, Goto(d, state),
             NEW x, call' = [call EXCEPT ![d] = x]
      PROVE  Goal
  BY <1>0, <1>b DEF Goto
<1>c. ASSUME UNCHANGED <<pc, call>> PROVE Goal
  BY <1>c
<1>d. ASSUME NEW d \in Caller, NEW state, Goto(d, state), UNCHANGED call, state \notin LockedStates PROVE Goal
  BY <1>0, <1>d DEF Goto
<1> HIDE DEF Goal
<1>e. ASSUME NEW d \in Caller, Return(d) PROVE Goal
  BY <1>e, <1>b DEF Return, LockedStates
<1>f. ASSUME Advances(c) PROVE Goal
  BY <1>f DEF Goal
<1>1. ASSUME NEW d \in Caller, NEW verdict \in Verdict, FirstPermission(d, verdict) PROVE Goal
  BY <1>1, <1>d, <1>e DEF FirstPermission, LockedStates
<1>2. ASSUME NEW d \in Caller, Advances(d), d # c PROVE Goal
  <2>1. ASSUME Send(d) PROVE Goal
    BY <1>0, <1>2, <2>1 DEF Send, Goto, Goal
  <2>2. ASSUME TakeLock(d) \/ TakeLockToSettle(d) PROVE Goal
    BY <1>2, <1>a, <2>2 DEF TakeLock, TakeLockToSettle, Lock
  <2>3. ASSUME NEW yes \in BOOLEAN, Authorize(d, yes) \/ Bind(d, yes) PROVE Goal
    BY <1>2, <1>a, <2>3 DEF Authorize, Bind
  <2>4. ASSUME NEW verdict \in Verdict, SecondPermission(d, verdict) PROVE Goal
    BY <1>2, <1>a, <2>4 DEF SecondPermission
  <2>5. ASSUME NEW answer \in Answer, RecordAnswer(d, answer) PROVE Goal
    BY <1>2, <1>a, <2>5 DEF RecordAnswer
  <2>6. ASSUME ReadReceipt(d) \/ Claim(d) \/ Settle(d) PROVE Goal
    BY <1>2, <1>a, <2>6 DEF ReadReceipt, Claim, Settle
  <2>7. QED BY <1>2, <2>1, <2>2, <2>3, <2>4, <2>5, <2>6 DEF Advances
<1>3. ASSUME NEW d \in Caller, LockBusy(d) \/ Release(d) \/ Crash(d) PROVE Goal
  BY <1>3, <1>e DEF LockBusy, Release, Crash
<1>4. ASSUME NEW d \in Caller, NEW r \in Requests, NEW h \in Host, NEW flag \in BOOLEAN,
             NEW approved \in BOOLEAN, Execute(d, r, h, flag, approved)
      PROVE  Goal
  BY <1>4, <1>b DEF Execute, LockedStates
<1>5. ASSUME NEW d \in Caller, NEW r \in Requests, NEW evidence \in {"effect", "noEffect", "unclear"},
             Reconcile(d, r, evidence)
      PROVE  Goal
  BY <1>5, <1>b DEF Reconcile, LockedStates
<1>6. ASSUME NEW r \in Requests, NEW n \in Sent(r), NEW fate \in {"performed", "repeated", "refused"},
             Handle(r, n, fate)
      PROVE  Goal
  BY <1>6, <1>c DEF Handle
<1>7. ASSUME NEW k \in Key, Reclaim(k) \/ Overrun(k) PROVE Goal
  BY <1>7, <1>c DEF Reclaim, Overrun
<1>8. ASSUME UNCHANGED vars PROVE Goal
  BY <1>8, <1>c DEF vars
<1>9. ASSUME NEW d \in Caller, Advances(d) PROVE Goal
  BY <1>2, <1>9, <1>f
<1>10. \/ UNCHANGED vars
       \/ \E d \in Caller : \/ \E r \in Requests, h \in Host, flag, approved \in BOOLEAN :
                                 Execute(d, r, h, flag, approved)
                            \/ \E verdict \in Verdict : FirstPermission(d, verdict)
                            \/ LockBusy(d) \/ Release(d) \/ Crash(d)
                            \/ \E r \in Requests, evidence \in {"effect", "noEffect", "unclear"} :
                                 Reconcile(d, r, evidence)
                            \/ Advances(d)
       \/ \E r \in Requests : \E n \in Sent(r), fate \in {"performed", "repeated", "refused"} :
            Handle(r, n, fate)
       \/ \E k \in Key : Reclaim(k) \/ Overrun(k)
  BY Zenon DEF Next, Advances
<1>11. Goal
  BY <1>1, <1>3, <1>4, <1>5, <1>6, <1>7, <1>8, <1>9, <1>10
<1>12. QED BY <1>11 DEF Goal

\* A request that may run was never sent, or what was sent of it is harmless.
LEMMA MayRunIsClean ==
  ASSUME TypeOK, Orderly, NEW c \in Caller, pc[c] \in LockedStates, MayRun(c), NEW r, r = call[c].req,
         r.sideEffect
  PROVE  Clean(r)
<1>1. /\ r \in Requests /\ KeyOf(c) = r.key /\ r.key \in Key /\ r.place \in Place
      /\ Here(c) = ledger[r.place][r.key]
  BY Calling DEF LockedStates, KeyOf, Here
<1>2. CASE Here(c) = NoReceipt
  <2>1. ledger[r.place][r.key].req # r
    BY <1>1, <1>2, ActionLedgerAssumption DEF NoReceipt
  <2>2. Sent(r) = {}
    BY <1>1, <2>1 DEF Orderly, Owned
  <2>3. QED BY <2>2 DEF Clean
<1>3. CASE Here(c).req = r /\ Here(c).status = "failed" /\ Here(c).safe
  BY <1>1, <1>3 DEF Orderly, SafeIsClean
<1>4. QED BY <1>2, <1>3 DEF MayRun

LEMMA TurnStep ==
  ASSUME TypeOK, Honest, Orderly, [Next]_vars, overruns' = overruns, NEW c \in Caller
  PROVE  InTurn(c)'
<1>0. /\ pc \in [Caller -> {"idle", "permit", "lock", "settleLock"} \cup LockedStates]
      /\ locks \in [Key -> Caller \cup {None}]
      /\ ledger \in [Place -> [Key -> Receipts]]
      /\ call \in [Caller -> Call \cup {None}]
  BY DEF TypeOK
<1> USE DEF LockedStates
<1>1. CASE pc'[c] \notin LockedStates
  BY <1>1 DEF InTurn
<1>2. CASE pc'[c] \in LockedStates /\ pc'[c] = pc[c] /\ call'[c] = call[c]
  BY <1>2, TurnKept
<1>3. ASSUME Advances(c) PROVE InTurn(c)'
  <2>1. pc[c] # "idle" /\ InTurn(c)
    BY <1>3 DEF Orderly, Advances, TakeLock, TakeLockToSettle, ReadReceipt, Authorize, Claim, Bind,
                SecondPermission, Send, RecordAnswer, Settle
  <2>2. PICK r \in Requests : r = call[c].req
    BY <2>1, Calling
  <2>3. /\ KeyOf(c) = r.key /\ r.key \in Key /\ r.place \in Place
        /\ Here(c) = ledger[r.place][r.key]
    BY <2>1, <2>2, Calling DEF KeyOf, Here
  <2>4. ASSUME TakeLock(c) \/ TakeLockToSettle(c) PROVE InTurn(c)'
    <3>1. /\ locks'[r.key] = c /\ pc'[c] \in {"read", "settle"} /\ call'[c] = call[c]
      BY <1>0, <2>3, <2>4 DEF TakeLock, TakeLockToSettle, Lock, Goto
    <3>2. QED BY <2>2, <3>1 DEF InTurn, KeyOf
  <2>5. ASSUME pc[c] \in LockedStates, pc'[c] \in {"release", "authorize", "claim"},
               UNCHANGED <<locks, call>>,
               pc'[c] \in {"authorize", "claim"} => MayRun(c) /\ UNCHANGED <<ledger, sent>>
        PROVE  InTurn(c)'
    <3>1. locks'[r.key] = c /\ call'[c].req = r
      BY <2>1, <2>2, <2>3, <2>5 DEF InTurn
    <3>2. pc'[c] \in {"authorize", "claim"} => MayRun(c)'
      BY <2>5 DEF MayRun, Here, KeyOf
    <3>3. pc'[c] \in {"authorize", "claim"} /\ r.sideEffect => Clean(r)'
      BY <2>2, <2>5, MayRunIsClean DEF Clean, Sent
    <3>4. QED BY <2>2, <2>5, <3>1, <3>2, <3>3 DEF InTurn, KeyOf
  <2>6. ASSUME ReadReceipt(c) PROVE InTurn(c)'
    BY <1>0, <2>5, <2>6 DEF ReadReceipt, Goto
  <2>7. ASSUME NEW yes \in BOOLEAN, Authorize(c, yes) PROVE InTurn(c)'
    BY <1>0, <2>1, <2>5, <2>7 DEF Authorize, Goto, InTurn
  <2>8. ASSUME pc[c] \in {"claim", "bind", "edge"}, pc'[c] \in {"bind", "edge", "send"},
               UNCHANGED <<locks, sent, call>>,
               ledger'[r.place][r.key].status = "claimed", ledger'[r.place][r.key].req = r
        PROVE  InTurn(c)'
    <3>1. locks'[r.key] = c /\ call'[c].req = r
      BY <2>1, <2>2, <2>3, <2>8 DEF InTurn
    <3>2. r.sideEffect => Clean(r)'
      BY <2>1, <2>2, <2>8 DEF InTurn, Clean, Sent
    <3>3. QED BY <2>2, <2>8, <3>1, <3>2 DEF InTurn, KeyOf, Here
  <2>9. ASSUME Claim(c) PROVE InTurn(c)'
    <3>1. ledger'[r.place][r.key] = Receipt("claimed", r, FALSE)
      BY <1>0, <2>2, <2>3, <2>9 DEF Claim, WriteReceipt
    <3>2. ledger'[r.place][r.key].status = "claimed" /\ ledger'[r.place][r.key].req = r
      BY <3>1 DEF Receipt
    <3>3. pc[c] = "claim" /\ pc'[c] = "bind" /\ UNCHANGED <<locks, sent, call>>
      BY <1>0, <2>9 DEF Claim, Goto
    <3>4. QED BY <2>8, <3>2, <3>3
  <2>10. ASSUME NEW yes \in BOOLEAN, Bind(c, yes) PROVE InTurn(c)'
    <3>1. pc[c] = "bind" /\ UNCHANGED <<locks, sent, call>> /\ (pc'[c] = "release" \/ (pc'[c] = "edge" /\ UNCHANGED ledger))
      BY <1>0, <2>10 DEF Bind, Goto
    <3>2. Here(c).status = "claimed" /\ Here(c).req = r
      BY <2>1, <2>2, <3>1 DEF InTurn
    <3>3. QED BY <2>3, <2>5, <2>8, <3>1, <3>2
  <2>11. ASSUME NEW verdict \in Verdict, SecondPermission(c, verdict) PROVE InTurn(c)'
    <3>1. pc[c] = "edge" /\ UNCHANGED <<locks, sent, call>> /\ (pc'[c] = "release" \/ (pc'[c] = "send" /\ UNCHANGED ledger))
      BY <1>0, <2>11 DEF SecondPermission, Goto
    <3>2. Here(c).status = "claimed" /\ Here(c).req = r
      BY <2>1, <2>2, <3>1 DEF InTurn
    <3>3. QED BY <2>3, <2>5, <2>8, <3>1, <3>2
  <2>12. ASSUME Send(c) PROVE InTurn(c)'
    <3>1. /\ pc[c] = "send" /\ pc'[c] = "wait" /\ UNCHANGED <<ledger, locks>>
          /\ call'[c] = [call[c] EXCEPT !.seen = Len(sent[r]) + 1]
      BY <1>0, <2>2, <2>12 DEF Send, Goto
    <3>2. PICK x : x = call'[c]
      OBVIOUS
    <3>3. x.req = r /\ x.seen = Len(sent[r]) + 1
      BY <2>1, <2>2, <3>1, <3>2, Calling DEF Call
    <3>4. Here(c).status = "claimed" /\ Here(c).req = r /\ locks[r.key] = c /\ (r.sideEffect => Clean(r))
      BY <2>1, <2>2, <2>3, <3>1 DEF InTurn
    <3>5. r.sideEffect => \A n \in Sent(r)' : n # x.seen => Harmless(sent'[r][n])
      <4>1. Sent(r)' = Sent(r) \cup {x.seen} /\ \A n \in Sent(r) : sent'[r][n] = sent[r][n]
        BY <2>2, <2>12, <3>3, MessagesSent
      <4>2. QED BY <3>4, <4>1 DEF Clean
    <3>6. ledger'[r.place][r.key].status = "claimed" /\ ledger'[r.place][r.key].req = r
      BY <2>3, <3>1, <3>4
    <3>7. QED BY <3>1, <3>2, <3>3, <3>4, <3>5, <3>6 DEF InTurn, KeyOf, Here
  <2>13. ASSUME NEW answer \in Answer, RecordAnswer(c, answer) PROVE InTurn(c)'
    BY <1>0, <2>5, <2>13 DEF RecordAnswer, Goto
  <2>14. ASSUME Settle(c) PROVE InTurn(c)'
    BY <1>0, <2>5, <2>14 DEF Settle, Goto
  <2>15. QED BY <1>3, <2>4, <2>6, <2>7, <2>9, <2>10, <2>11, <2>12, <2>13, <2>14 DEF Advances
<1>4. QED BY <1>1, <1>2, <1>3, InsideSteps

\* A caller that writes or sends does it at the receipt of its request.
LEMMA Cell ==
  ASSUME TypeOK, NEW c \in Caller, pc[c] \in LockedStates, NEW q, q = call[c].req,
         NEW receipt, WriteReceipt(c, receipt), NEW p \in Place, NEW k \in Key
  PROVE  ledger'[p][k] = IF p = q.place /\ k = q.key THEN receipt ELSE ledger[p][k]
BY Calling DEF WriteReceipt, KeyOf, LockedStates, TypeOK

LEMMA SenderHasClaimed ==
  ASSUME TypeOK, Orderly, NEW c \in Caller, Send(c), NEW r, r = call[c].req
  PROVE  /\ r \in Requests /\ r.place \in Place /\ r.key \in Key
         /\ ledger[r.place][r.key].status = "claimed" /\ ledger[r.place][r.key].req = r
         /\ r.sideEffect => Clean(r)
<1>1. pc[c] = "send"
  BY DEF Send
<1>2. Here(c).status = "claimed" /\ Here(c).req = r /\ (r.sideEffect => Clean(r))
  BY <1>1 DEF Orderly, InTurn, LockedStates
<1>3. Here(c) = ledger[r.place][r.key] /\ r \in Requests /\ r.place \in Place /\ r.key \in Key
  BY <1>1, Calling DEF Here, KeyOf
<1>4. QED BY <1>2, <1>3

LEMMA OwnedStep ==
  ASSUME TypeOK, Honest, Orderly, [Next]_vars, NEW r \in Requests
  PROVE  Owned(r)'
<1>0. r.place \in Place /\ r.key \in Key /\ Owned(r)
  BY ActionLedgerAssumption DEF Request, Orderly
<1>1. CASE Sent(r)' = Sent(r) /\ UNCHANGED ledger
  BY <1>0, <1>1 DEF Owned
<1>2. ASSUME NEW c \in Caller, Written(c) PROVE Owned(r)'
  <2>1. PICK q : q = call[c].req
    OBVIOUS
  <2>2. Sent(r)' = Sent(r)
    BY <1>2 DEF Written, Sent
  <2>3. pc[c] \in LockedStates /\ Here(c).req \in {None, q} /\ Here(c) = ledger[q.place][q.key]
    BY <1>2, <2>1 DEF Written, Here, KeyOf
  <2>4. PICK status \in {"claimed", "completed", "uncertain", "failed"}, safe \in BOOLEAN :
          WriteReceipt(c, Receipt(status, q, safe))
    BY <1>2, <2>1 DEF Written
  <2>5. ledger'[r.place][r.key] = IF r.place = q.place /\ r.key = q.key THEN Receipt(status, q, safe)
                                                                       ELSE ledger[r.place][r.key]
    BY <1>0, <2>1, <2>3, <2>4, Cell
  <2>6. CASE r.place = q.place /\ r.key = q.key
    <3>1. Sent(r) # {} => r = q
      BY <1>0, <2>3, <2>6, ActionLedgerAssumption DEF Owned
    <3>2. ledger'[r.place][r.key].req = q
      BY <2>5, <2>6 DEF Receipt
    <3>3. QED BY <2>2, <3>1, <3>2 DEF Owned
  <2>7. CASE ~(r.place = q.place /\ r.key = q.key)
    BY <1>0, <2>2, <2>5, <2>7 DEF Owned
  <2>8. QED BY <2>6, <2>7
<1>3. ASSUME NEW c \in Caller, Send(c), call[c].req = r PROVE Owned(r)'
  <2>1. ledger[r.place][r.key].req = r /\ UNCHANGED ledger
    BY <1>3, SenderHasClaimed DEF Send
  <2>2. QED BY <2>1 DEF Owned
<1>4. QED BY <1>1, <1>2, <1>3, WrittenInTurn, AddedInTurn

LEMMA SpacedStep ==
  ASSUME TypeOK, Honest, Orderly, [Next]_vars, NEW r \in Requests
  PROVE  Spaced(r)'
<1>0. Grows /\ Spaced(r)
  BY SentGrows DEF Orderly
<1>1. CASE Sent(r)' = Sent(r)
  BY <1>0, <1>1, HarmlessKept DEF Spaced
<1>2. ASSUME NEW c \in Caller, Send(c), call[c].req = r PROVE Spaced(r)'
  <2>1. r.sideEffect => Clean(r)
    BY <1>2, SenderHasClaimed
  <2>2. Sent(r)' = Sent(r) \cup {Len(sent[r]) + 1} /\ Sent(r) = 1 .. Len(sent[r]) /\ Len(sent[r]) \in Nat
    BY <1>2, MessagesSent, Numbered
  <2>3. \A m, n \in Sent(r)' : m < n => m \in Sent(r)
    BY <2>2
  <2>4. r.sideEffect => \A m \in Sent(r) : Harmless(sent'[r][m])
    BY <1>0, <2>1, HarmlessKept DEF Clean
  <2>5. QED BY <2>3, <2>4 DEF Spaced
<1>3. QED BY <1>1, <1>2, AddedInTurn

LEMMA SafeStep ==
  ASSUME TypeOK, Honest, Orderly, [Next]_vars, Undisturbed', NEW p \in Place, NEW k \in Key
  PROVE  SafeIsClean(p, k)'
<1>0. Grows /\ GoodReceipt(p, k) /\ SafeIsClean(p, k)
  BY SentGrows DEF Orderly, Honest
<1>1. ASSUME ledger'[p][k] = ledger[p][k] PROVE SafeIsClean(p, k)'
  <2>1. PICK f : f = ledger[p][k]
    OBVIOUS
  <2>2. SUFFICES ASSUME f.safe, f.req.sideEffect PROVE Clean(f.req)'
    BY <1>1, <2>1 DEF SafeIsClean
  <2>3. f.status = "failed" /\ f.req \in Requests /\ f.req.place = p /\ f.req.key = k /\ Clean(f.req)
    BY <1>0, <2>1, <2>2 DEF GoodReceipt, SafeIsClean
  <2>4. PICK r \in Requests : r = f.req
    BY <2>3
  <2>5. ASSUME NEW c \in Caller, Send(c), call[c].req = r PROVE FALSE
    BY <2>1, <2>3, <2>4, <2>5, SenderHasClaimed
  <2>6. Sent(r)' = Sent(r)
    BY <2>5, AddedInTurn
  <2>7. QED BY <1>0, <2>3, <2>4, <2>6, CleanKept
<1>2. ASSUME NEW c \in Caller, Written(c) PROVE SafeIsClean(p, k)'
  <2>1. PICK q \in Requests : q = call[c].req
    BY <1>2, Calling DEF Written, LockedStates
  <2>2. PICK status \in {"claimed", "completed", "uncertain", "failed"}, safe \in BOOLEAN :
          WriteReceipt(c, Receipt(status, q, safe)) /\ (safe /\ q.sideEffect => Clean(q))
    BY <1>2, <2>1 DEF Written
  <2>3. Sent(q)' = Sent(q) /\ pc[c] \in LockedStates
    BY <1>2 DEF Written, Sent
  <2>4. ledger'[p][k] = IF p = q.place /\ k = q.key THEN Receipt(status, q, safe) ELSE ledger[p][k]
    BY <2>1, <2>2, <2>3, Cell
  <2>5. CASE p = q.place /\ k = q.key
    <3>1. PICK f : f = ledger'[p][k]
      OBVIOUS
    <3>2. f.req = q /\ f.safe = safe
      BY <2>4, <2>5, <3>1 DEF Receipt
    <3>3. Clean(q) => Clean(q)'
      BY <1>0, <2>3, CleanKept
    <3>4. QED BY <2>2, <3>1, <3>2, <3>3 DEF SafeIsClean
  <2>6. CASE ~(p = q.place /\ k = q.key)
    BY <1>1, <2>4, <2>6
  <2>7. QED BY <2>5, <2>6
<1>3. QED BY <1>1, <1>2, WrittenInTurn

LEMMA StaysUndisturbed ==
  ASSUME TypeOK, [Next]_vars, Undisturbed'
  PROVE  Undisturbed /\ overruns' = overruns
<1>1. overruns \in Nat /\ stale \in BOOLEAN
  BY DEF TypeOK
<1>a. UNCHANGED stale \/ \E c \in Caller : Settle(c)
  BY Zenon DEF Next, vars, Execute, FirstPermission, SecondPermission, TakeLock, LockBusy, ReadReceipt,
         Authorize, Bind, Claim, Send, RecordAnswer, Release, Reconcile, TakeLockToSettle, Crash, Handle,
         Reclaim, Overrun
<1>b. UNCHANGED overruns \/ \E k \in Key : Overrun(k)
  BY Zenon DEF Next, vars, Execute, FirstPermission, SecondPermission, TakeLock, LockBusy, ReadReceipt,
         Authorize, Bind, Claim, Send, RecordAnswer, Release, Reconcile, TakeLockToSettle, Settle, Crash,
         Handle, Reclaim, Unchanged
<1>2. (overruns' = overruns \/ overruns' = overruns + 1) /\ (stale' = stale \/ \E s : stale' = (stale \/ s))
  <2>1. ASSUME NEW c \in Caller, Settle(c) PROVE stale' = stale \/ \E s : stale' = (stale \/ s)
    BY Zenon, <2>1 DEF Settle
  <2>2. ASSUME NEW k \in Key, Overrun(k) PROVE overruns' = overruns + 1
    BY <2>2 DEF Overrun
  <2>3. QED BY <1>a, <1>b, <2>1, <2>2
<1>3. overruns' = 0 /\ ~stale'
  BY DEF Undisturbed
<1>4. QED BY <1>1, <1>2, <1>3 DEF Undisturbed

LEMMA OrderlyStep ==
  ASSUME TypeOK, Honest, Undisturbed => Orderly, [Next]_vars, Undisturbed'
  PROVE  Orderly'
<1>1. Orderly /\ overruns' = overruns
  BY StaysUndisturbed
<1>2. QED BY <1>1, TurnStep, OwnedStep, SpacedStep, SafeStep DEF Orderly

LEMMA LedgerInit == Init => LedgerInv
<1> SUFFICES ASSUME Init PROVE LedgerInv
  OBVIOUS
<1>0. MaxCalls \in Nat /\ MaxMishaps \in Nat
  BY ActionLedgerAssumption
<1>1. TypeOK
  <2>1. ledger \in [Place -> [Key -> Receipts]]
    <3>1. NoReceipt \in Receipts
      BY DEF NoReceipt, Receipts
    <3>2. QED BY <3>1 DEF Init
  <2>2. pc \in [Caller -> {"idle", "permit", "lock", "settleLock"} \cup LockedStates]
    BY DEF Init
  <2>3. \A c \in Caller : IF pc[c] = "idle" THEN call[c] = None ELSE call[c] \in Call
    <3>1. SUFFICES ASSUME NEW c \in Caller
                   PROVE  IF pc[c] = "idle" THEN call[c] = None ELSE call[c] \in Call
      BY Zenon
    <3>2. QED BY DEF Init
  <2>4. << >> \in Seq(Message)
    OBVIOUS
  <2>5. sent \in [Requests -> Seq(Message)]
    BY <2>4 DEF Init
  <2>6. calls \in 0 .. MaxCalls /\ crashes \in Nat /\ overruns \in Nat /\ crashes + overruns <= MaxMishaps
    BY <1>0 DEF Init
  <2>7. QED BY <2>1, <2>2, <2>3, <2>5, <2>6 DEF Init, TypeOK
<1>2. \A r \in Requests : Sent(r) = {}
  <2>1. DOMAIN << >> = {}
    OBVIOUS
  <2>2. QED BY <2>1 DEF Init, Sent
<1>3. /\ \A p \in Place, k \in Key : ledger[p][k] = NoReceipt
      /\ \A c \in Caller : pc[c] = "idle"
      /\ answered = {}
  BY DEF Init
<1>4. Honest
  <2>1. \A p \in Place, k \in Key : GoodReceipt(p, k)
    <3>1. /\ NoReceipt.status = "none" /\ NoReceipt.safe = FALSE
      BY DEF NoReceipt
    <3>2. QED BY <1>3, <3>1 DEF GoodReceipt
  <2>2. \A r \in Requests : GoodMessages(r)
    BY <1>2 DEF GoodMessages, Performed
  <2>3. QED BY <1>3, <2>1, <2>2 DEF Honest, GoodCall
<1>5. Orderly
  <2>1. \A p \in Place, k \in Key : SafeIsClean(p, k)
    BY <1>3 DEF SafeIsClean, NoReceipt
  <2>2. \A r \in Requests : Owned(r) /\ Spaced(r)
    BY <1>2 DEF Owned, Spaced
  <2>3. QED BY <1>3, <2>1, <2>2 DEF Orderly, InTurn, LockedStates
<1>6. QED BY <1>1, <1>4, <1>5 DEF LedgerInv

LEMMA LedgerStep == LedgerInv /\ [Next]_vars => LedgerInv'
BY TypeStep, HonestStep, OrderlyStep DEF LedgerInv

LEMMA LedgerHolds == Spec => []LedgerInv
BY LedgerInit, LedgerStep, PTL DEF Spec

-----------------------------------------------------------------------------
\* Receipts, locks, calls and messages keep their form (ActionBoundary.execute and
\* reconcile).
THEOREM LedgerTypeCorrect == Spec => []TypeOK
<1>1. LedgerInv => TypeOK
  BY DEF LedgerInv
<1>2. QED BY <1>1, LedgerHolds, PTL

\* Whatever lock was lost and whatever evidence came late, a completed receipt and every
\* success reported stand for an effect that happened (_load_replay, _finish_claim).
THEOREM CompletionIsEarned == Spec => []CompletedMeansEffect
<1>1. LedgerInv => CompletedMeansEffect
  <2> SUFFICES ASSUME LedgerInv PROVE CompletedMeansEffect
    OBVIOUS
  <2>1. \A p \in Place, k \in Key :
          ledger[p][k].status = "completed" /\ ledger[p][k].req.sideEffect
            => Performed(ledger[p][k].req) # {}
    BY DEF LedgerInv, Honest, GoodReceipt
  <2>2. QED BY <2>1 DEF LedgerInv, Honest, CompletedMeansEffect
<1>2. QED BY <1>1, LedgerHolds, PTL

\* While no lock was lost and no evidence was outdated, a receipt that may be retried
\* stands for no effect now or later, but on a host that recognises the retry.
THEOREM RetryIsSafe == Spec => []SafeMeansNoEffect
<1>1. LedgerInv => SafeMeansNoEffect
  <2> SUFFICES ASSUME LedgerInv PROVE SafeMeansNoEffect
    OBVIOUS
  <2>1. SUFFICES ASSUME NEW p \in Place, NEW k \in Key, Undisturbed, NEW f, f = ledger[p][k],
                        f.safe, f.req.sideEffect
                 PROVE  \A n \in Sent(f.req) : \/ sent[f.req][n].fate = "refused"
                                               \/ sent[f.req][n].host \in Idempotent
    BY DEF SafeMeansNoEffect
  <2>2. Clean(f.req)
    BY <2>1 DEF LedgerInv, Orderly, SafeIsClean
  <2>3. QED BY <2>2 DEF Clean, Harmless
<1>2. QED BY <1>1, LedgerHolds, PTL

\* Under the same conditions a side effect requested from one host happens at most once,
\* whatever callers race, die, lose answers, retry and reconcile.
THEOREM EffectHappensOnce == Spec => []EffectAtMostOnce
<1>1. LedgerInv => EffectAtMostOnce
  <2> SUFFICES ASSUME LedgerInv, NEW r \in Requests, r.sideEffect, OneHost(r), Undisturbed,
                      NEW m \in Performed(r), NEW n \in Performed(r), m # n
               PROVE  FALSE
    BY DEF EffectAtMostOnce
  <2>1. /\ Spaced(r) /\ GoodMessages(r) /\ TypeOK
    BY DEF LedgerInv, Orderly, Honest
  <2>2. /\ m \in Sent(r) /\ n \in Sent(r)
        /\ sent[r][m].fate = "performed" /\ sent[r][n].fate = "performed"
        /\ sent[r][m].host = sent[r][n].host
    BY DEF Performed, OneHost
  <2>3. m \in Nat /\ n \in Nat
    BY <2>1, <2>2, Numbered
  <2>4. Harmless(sent[r][m]) \/ Harmless(sent[r][n])
    <3>1. CASE m < n
      BY <2>1, <2>2, <3>1 DEF Spaced
    <3>2. CASE n < m
      BY <2>1, <2>2, <3>2 DEF Spaced
    <3>3. QED BY <2>3, <3>1, <3>2
  <2>5. sent[r][n].host \in Idempotent
    BY <2>2, <2>4 DEF Harmless
  <2>6. QED BY <2>1, <2>2, <2>5 DEF GoodMessages
<1>2. QED BY <1>1, LedgerHolds, PTL

\* Under the same conditions no step rewrites a completed receipt, and none calls the
\* host again for its request.
THEOREM CompletionIsFinal == Spec => CompletedIsFinal
<1> DEFINE Final == \A p \in Place, k \in Key : Undisturbed /\ ledger[p][k].status = "completed" =>
                      /\ ledger'[p][k] = ledger[p][k]
                      /\ Len(sent'[ledger[p][k].req]) = Len(sent[ledger[p][k].req])
<1>1. ASSUME LedgerInv, [Next]_vars PROVE Final
  <2> SUFFICES ASSUME NEW p \in Place, NEW k \in Key, Undisturbed, ledger[p][k].status = "completed"
               PROVE  /\ ledger'[p][k] = ledger[p][k]
                      /\ Len(sent'[ledger[p][k].req]) = Len(sent[ledger[p][k].req])
    OBVIOUS
  <2>1. TypeOK /\ Honest /\ Orderly /\ GoodReceipt(p, k)
    BY <1>1 DEF LedgerInv, Honest
  <2>2. PICK r \in Requests : r = ledger[p][k].req /\ r.place = p /\ r.key = k
    BY <2>1 DEF GoodReceipt
  <2>3. ASSUME NEW c \in Caller, Written(c) PROVE ledger'[p][k] = ledger[p][k]
    <3>1. PICK q : q = call[c].req
      OBVIOUS
    <3>2. pc[c] \in LockedStates /\ ledger[q.place][q.key].status # "completed"
      BY <2>3, <3>1 DEF Written, Here, KeyOf
    <3>3. \E receipt : WriteReceipt(c, receipt)
      BY <2>3 DEF Written
    <3>4. ~(p = q.place /\ k = q.key)
      BY <3>2
    <3>5. QED BY <2>1, <3>1, <3>2, <3>3, <3>4, Cell
  <2>4. ledger'[p][k] = ledger[p][k]
    BY <1>1, <2>1, <2>3, WrittenInTurn
  <2>5. ASSUME NEW c \in Caller, Send(c), call[c].req = r PROVE FALSE
    BY <2>1, <2>2, <2>5, SenderHasClaimed
  <2>6. Sent(r)' = Sent(r)
    BY <1>1, <2>1, <2>5, AddedInTurn
  <2>7. sent[r] \in Seq(Message) /\ sent'[r] \in Seq(Message)
    BY <1>1, <2>1, SentGrows, Numbered DEF Grows
  <2>8. Len(sent'[r]) = Len(sent[r])
    <3>1. /\ Sent(r) = 1 .. Len(sent[r]) /\ Len(sent[r]) \in Nat
          /\ Sent(r)' = 1 .. Len(sent'[r]) /\ Len(sent'[r]) \in Nat
      BY <2>7, LenProperties DEF Sent
    <3>2. \A l, m \in Nat : 1 .. l = 1 .. m => l = m
      OBVIOUS
    <3>3. QED BY <2>6, <3>1, <3>2
  <2>9. QED BY <2>2, <2>4, <2>8
<1>2. LedgerInv /\ [Next]_vars => [Final]_vars
  BY <1>1
<1>3. QED BY <1>2, LedgerHolds, PTL DEF Spec, CompletedIsFinal
=============================================================================
