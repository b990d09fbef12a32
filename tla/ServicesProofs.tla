---------------------------- MODULE ServicesProofs ----------------------------
(***************************************************************************)
(* For every set of workers and of objects, and every bound on calls,      *)
(* crashes and caps: the parts of Services stay within their types, a      *)
(* chain of strategies stays in force, contradicting evidence stands,      *)
(* verdicts are earned, limits hold, one thing of a fingerprint is in      *)
(* play, and an attachment is honest.                                      *)
(*                                                                         *)
(* Each part has an inductive invariant of its own, named after it, which  *)
(* its first state satisfies (...Start, ...Starts) and its steps keep      *)
(* (...Kept).  All of them add to the types what a call that is under way  *)
(* may rely on of what it read before: the content it holds is the one on  *)
(* disk, or it has been told (current, touched, overlapped, crossed); the  *)
(* flags that say so are what the properties make their exceptions for.    *)
(* The theorems at the end put the parts together: a part's step is one of *)
(* its Next, or leaves its variables alone.                                *)
(***************************************************************************)
EXTENDS Services, KeyLockProofs, FiniteSetTheorems

(***************************************************************************)
(* Strategies. Each call may rely on what its stage says of the revision   *)
(* it is about. That a chain stays in force is shown with a set G of       *)
(* strategies that were each in force and, once retired, have a revision   *)
(* in G that bears them: were none of a chain in force, each of its        *)
(* strategies in G would have a revision in G, and so would one have the   *)
(* first for its revision. A promotion adds the revision it activated, a   *)
(* refused promotion or a rollback takes its revision out again; a         *)
(* promotion whose revision does not stand for the strategy before, but    *)
(* which may still retire it, is a claim, and there are always more        *)
(* bearers than claims.                                                    *)
(***************************************************************************)

\* A call under way is about a strategy, whose neighbour it may look up.
StrategiesInv ==
  /\ Strategies!TypeOK
  /\ \A w \in Worker : call[w].at # "idle" => call[w].strategy \in Strategy

LEMMA StrategiesStart == Strategies!Init => StrategiesInv
<1> SUFFICES ASSUME Strategies!Init PROVE StrategiesInv
  OBVIOUS
<1>1. Strategies!Idle \in Strategies!Call /\ Strategies!Idle.at = "idle"
  BY DEF Strategies!Call, Strategies!Idle
<1>2. /\ rule \in [Strategy -> Strategies!StrategyStatus] /\ previous \in [Strategy -> Strategy \cup {None}]
      /\ sound \subseteq Strategy
  BY ServicesAssumption DEF Strategies!Init, Strategies!StrategyStatus
<1>3. /\ restoration \in [Restoration -> [current : Strategy \cup {None},
           state : {"none", "prepared", "previous_restored", "cleanup_required", "complete"}]]
      /\ call \in [Worker -> Strategies!Call]
  BY <1>1 DEF Strategies!Init
<1>4. tangled = FALSE /\ strategyCalls = 0 /\ strategyCrashes = 0 /\ outcomes = 0
  BY DEF Strategies!Init
<1>5. /\ strategyCalls \in 0 .. MaxStrategyCalls
      /\ strategyCrashes \in 0 .. MaxStrategyCrashes /\ outcomes \in 0 .. MaxOutcomes
  BY <1>4, ServicesAssumption
<1>6. QED BY <1>1, <1>2, <1>3, <1>4, <1>5 DEF Strategies!Init, StrategiesInv, Strategies!TypeOK

\* A call that goes on is a call; the strategy it is about is the same.
LEMMA CallGoesOn ==
  ASSUME NEW c \in Strategies!Call, NEW stage \in {"idle"} \cup DOMAIN Strategies!Target \cup DOMAIN Strategies!Notes
  PROVE  /\ Strategies!GoOn(c, stage) \in Strategies!Call
         /\ Strategies!GoOn(c, stage).at = stage
         /\ stage # "idle" => Strategies!GoOn(c, stage).strategy = c.strategy
  BY DEF Strategies!GoOn, Strategies!Call, Strategies!Idle

\* The copies a save outdates stay with their calls.
LEMMA CallsOutdated ==
  ASSUME NEW s, NEW calls \in [Worker -> Strategies!Call],
         \A w \in Worker : calls[w].at # "idle" => calls[w].strategy \in Strategy
  PROVE  /\ Strategies!Outdated(s, calls) \in [Worker -> Strategies!Call]
         /\ \A w \in Worker : Strategies!Outdated(s, calls)[w].at # "idle" => Strategies!Outdated(s, calls)[w].strategy \in Strategy
<1>1. ASSUME NEW w \in Worker
      PROVE  /\ Strategies!Outdated(s, calls)[w] \in Strategies!Call
             /\ Strategies!Outdated(s, calls)[w].at = calls[w].at
             /\ Strategies!Outdated(s, calls)[w].strategy = calls[w].strategy
  <2>1. PICK c \in Strategies!Call : c = calls[w]
    OBVIOUS
  <2>2. [c EXCEPT !.held = "outdated"] \in Strategies!Call
    BY DEF Strategies!Call
  <2>3. Strategies!Outdated(s, calls)[w] = IF c.held = s THEN [c EXCEPT !.held = "outdated"] ELSE c
    BY <2>1 DEF Strategies!Outdated
  <2>4. QED BY <2>1, <2>2, <2>3 DEF Strategies!Call
<1>2. Strategies!Outdated(s, calls) \in [Worker -> Strategies!Call]
  BY <1>1 DEF Strategies!Outdated
<1>3. QED BY <1>1, <1>2

\* Every step keeps the types of the strategies' variables.
LEMMA StrategiesKept == StrategiesInv /\ [Strategies!Next]_Strategies!vars => StrategiesInv'
<1> SUFFICES ASSUME StrategiesInv, [Strategies!Next]_Strategies!vars PROVE StrategiesInv'
  OBVIOUS
<1>0. Strategies!TypeOK /\ \A w \in Worker : call[w].at # "idle" => call[w].strategy \in Strategy
  BY DEF StrategiesInv
<1> DEFINE CallsFit(calls) == /\ calls \in [Worker -> Strategies!Call]
                              /\ \A w \in Worker : calls[w].at # "idle" => calls[w].strategy \in Strategy
<1>c. CallsFit(call)
  BY <1>0 DEF Strategies!TypeOK
\* one call replaced by another that fits
<1>r. ASSUME NEW w \in Worker, NEW c \in Strategies!Call, c.at # "idle" => c.strategy \in Strategy
      PROVE  CallsFit([call EXCEPT ![w] = c])
  BY <1>c, <1>r
<1>s. ASSUME NEW w \in Worker, NEW stage \in {"idle"} \cup DOMAIN Strategies!Target \cup DOMAIN Strategies!Notes,
             call[w].at # "idle"
      PROVE  CallsFit([call EXCEPT ![w] = Strategies!GoOn(call[w], stage)])
  <2>1. call[w] \in Strategies!Call /\ call[w].strategy \in Strategy
    BY <1>c, <1>s
  <2>2. /\ Strategies!GoOn(call[w], stage) \in Strategies!Call
        /\ Strategies!GoOn(call[w], stage).at = stage
        /\ stage # "idle" => Strategies!GoOn(call[w], stage).strategy = call[w].strategy
    BY <2>1, CallGoesOn
  <2>3. QED BY <1>r, <2>1, <2>2
<1>o. ASSUME NEW s, NEW calls, CallsFit(calls) PROVE CallsFit(Strategies!Outdated(s, calls))
  BY <1>o, CallsOutdated
<1>i. Strategies!Idle \in Strategies!Call /\ Strategies!Idle.at = "idle"
  BY DEF Strategies!Call, Strategies!Idle
<1> HIDE DEF CallsFit
<1>q. Strategies!TypeOK' /\ CallsFit(call)' => StrategiesInv'
  BY DEF StrategiesInv, CallsFit
<1>t. CallsFit(call') => call' \in [Worker -> Strategies!Call]
  BY DEF CallsFit
<1>1. ASSUME NEW w \in Worker, Strategies!Load(w) PROVE StrategiesInv'
  <2>1. call[w].at # "idle" /\ call[w].at \in DOMAIN Strategies!Target /\ call[w] \in Strategies!Call /\ call[w].strategy \in Strategy
    BY <1>0, <1>1 DEF Strategies!Load, Strategies!TypeOK, Strategies!Target
  <2>2. PICK c \in Strategies!Call : c = call[w]
    BY <2>1
  <2>3. Strategies!Subject(c) \in Strategy \cup {None}
    BY <1>0, <2>1, <2>2 DEF Strategies!Subject, Strategies!TypeOK
  <2>4. [c EXCEPT !.held = Strategies!Subject(c)] \in Strategies!Call /\ [c EXCEPT !.held = Strategies!Subject(c)].strategy = c.strategy
    BY <2>3 DEF Strategies!Call
  <2>5. call' = [call EXCEPT ![w] = [c EXCEPT !.held = Strategies!Subject(c)]]
    BY <1>1, <2>2 DEF Strategies!Load
  <2>6. CallsFit(call')
    BY <1>r, <2>1, <2>2, <2>4, <2>5
  <2>7. Strategies!TypeOK'
    BY <1>0, <1>1, <1>t, <2>6 DEF Strategies!Load, Strategies!TypeOK
  <2>8. QED BY <1>q, <2>6, <2>7
<1>2. ASSUME NEW w \in Worker, Strategies!Save(w) PROVE StrategiesInv'
  <2>1. call[w].at # "idle" /\ call[w].at \in DOMAIN Strategies!Target
    BY <1>2 DEF Strategies!Save, Strategies!Target
  <2>2. Strategies!After(call[w]) \in {"idle"} \cup DOMAIN Strategies!Target \cup DOMAIN Strategies!Notes
    BY DEF Strategies!After, Strategies!Target, Strategies!Notes
  <2>3. CallsFit([call EXCEPT ![w] = Strategies!GoOn(call[w], Strategies!After(call[w]))])
    BY <1>s, <2>1, <2>2
  <2>4. call' = Strategies!Outdated(call[w].held, [call EXCEPT ![w] = Strategies!GoOn(call[w], Strategies!After(call[w]))])
    BY <1>2 DEF Strategies!Save
  <2>5. CallsFit(call')
    BY <1>o, <2>3, <2>4
  <2>6. Strategies!Target[call[w].at] \in Strategies!StrategyStatus
    BY <2>1 DEF Strategies!Target, Strategies!StrategyStatus
  <2>7. Strategies!TypeOK'
    BY <1>0, <1>2, <1>t, <2>5, <2>6 DEF Strategies!Save, Strategies!TypeOK
  <2>8. QED BY <1>q, <2>5, <2>7
<1>3. ASSUME NEW w \in Worker, Strategies!Refused(w) PROVE StrategiesInv'
  <2>1. call[w].at # "idle"
    BY <1>3 DEF Strategies!Refused, Strategies!Target
  <2>2. Strategies!Otherwise(call[w]) \in {"idle"} \cup DOMAIN Strategies!Target \cup DOMAIN Strategies!Notes
    BY DEF Strategies!Otherwise, Strategies!Target, Strategies!Notes
  <2>3. CallsFit(call')
    BY <1>s, <1>3, <2>1, <2>2 DEF Strategies!Refused
  <2>4. Strategies!TypeOK'
    BY <1>0, <1>3, <1>t, <2>3 DEF Strategies!Refused, Strategies!TypeOK
  <2>5. QED BY <1>q, <2>3, <2>4
<1>4. ASSUME NEW w \in Worker, Strategies!Note(w) PROVE StrategiesInv'
  <2>1. call[w].at # "idle" /\ call[w].at \in DOMAIN Strategies!Notes
    BY <1>4 DEF Strategies!Note, Strategies!Notes
  <2>2. Strategies!After(call[w]) \in {"idle"} \cup DOMAIN Strategies!Target \cup DOMAIN Strategies!Notes
    BY DEF Strategies!After, Strategies!Target, Strategies!Notes
  <2>3. CallsFit(call')
    BY <1>s, <1>4, <2>1, <2>2 DEF Strategies!Note
  <2>4. Strategies!Notes[call[w].at] \in {"none", "prepared", "previous_restored", "cleanup_required", "complete"}
    BY <2>1 DEF Strategies!Notes
  <2>5. Strategies!TypeOK'
    BY <1>0, <1>4, <1>t, <2>3, <2>4 DEF Strategies!Note, Strategies!TypeOK
  <2>6. QED BY <1>q, <2>3, <2>5
<1>5. ASSUME NEW w \in Worker, Strategies!Crash(w) PROVE StrategiesInv'
  <2>1. CallsFit(call')
    BY <1>5, <1>i, <1>r DEF Strategies!Crash
  <2>2. Strategies!TypeOK'
    BY <1>0, <1>5, <1>t, <2>1, ServicesAssumption DEF Strategies!Crash, Strategies!TypeOK
  <2>3. QED BY <1>q, <2>1, <2>2
<1>6. ASSUME NEW w \in Worker, NEW s \in Strategy, Strategies!Promote(w, s) PROVE StrategiesInv'
  <2>1. PICK c : c = [Strategies!Idle EXCEPT !.op = "promote", !.strategy = s, !.at = "activate"]
    OBVIOUS
  <2>2. c \in Strategies!Call /\ c.strategy = s
    BY <2>1 DEF Strategies!Call, Strategies!Idle, Strategies!Target
  <2>3. call' = [call EXCEPT ![w] = c]
    BY <1>6, <2>1 DEF Strategies!Promote
  <2>4. CallsFit(call')
    BY <1>r, <2>2, <2>3
  <2>5. tangled' = tangled
    BY <1>6 DEF Strategies!Promote
  <2>6. Strategies!TypeOK'
    BY <1>0, <1>6, <1>t, <2>4, <2>5, ServicesAssumption DEF Strategies!Promote, Strategies!Counted,
       Strategies!TypeOK
  <2>7. QED BY <1>q, <2>4, <2>6
<1>7. ASSUME NEW w \in Worker, NEW s \in Strategy, NEW r \in Restoration, Strategies!Rollback(w, s, r)
      PROVE  StrategiesInv'
  <2>1. PICK c : c = [Strategies!Idle EXCEPT !.op = "rollback", !.strategy = s, !.at = "restore", !.tx = r]
    OBVIOUS
  <2>2. c \in Strategies!Call /\ c.strategy = s
    BY <2>1 DEF Strategies!Call, Strategies!Idle, Strategies!Target
  <2>3. call' = call \/ call' = [call EXCEPT ![w] = c]
    BY <1>7, <2>1 DEF Strategies!Rollback
  <2>4. CallsFit(call')
    BY <1>c, <1>r, <2>2, <2>3
  <2>5. tangled' = tangled
    BY <1>7 DEF Strategies!Rollback
  <2>6. \E state \in {"complete", "prepared"} :
          restoration' = [restoration EXCEPT ![r] = [current |-> s, state |-> state]]
    BY <1>7 DEF Strategies!Rollback
  <2>7. Strategies!TypeOK'
    BY <1>0, <1>7, <1>t, <2>4, <2>5, <2>6, ServicesAssumption DEF Strategies!Rollback,
       Strategies!Counted, Strategies!TypeOK
  <2>8. QED BY <1>q, <2>4, <2>7
<1>8. ASSUME NEW w \in Worker, NEW r \in Restoration, Strategies!Reconcile(w, r) PROVE StrategiesInv'
  <2>1. PICK s \in Strategy : s = restoration[r].current
    BY <1>0, <1>8 DEF Strategies!Reconcile, Strategies!TypeOK
  <2>2. PICK c : c = [Strategies!Idle EXCEPT !.op = "reconcile", !.strategy = s, !.at = "rollBack", !.tx = r]
    OBVIOUS
  <2>3. c \in Strategies!Call /\ c.strategy = s
    BY <2>2 DEF Strategies!Call, Strategies!Idle, Strategies!Target
  <2>4. call' = call \/ call' = [call EXCEPT ![w] = c]
    BY <1>8, <2>1, <2>2 DEF Strategies!Reconcile
  <2>5. CallsFit(call')
    BY <1>c, <1>r, <2>3, <2>4
  <2>6. tangled' \in BOOLEAN
    BY <1>0, <1>8 DEF Strategies!Reconcile, Strategies!TypeOK
  <2>7. restoration' = restoration \/ restoration' = [restoration EXCEPT ![r].state = "complete"]
    BY <1>8 DEF Strategies!Reconcile
  <2>8. Strategies!TypeOK'
    BY <1>0, <1>8, <1>t, <2>5, <2>6, <2>7 DEF Strategies!Reconcile, Strategies!TypeOK
  <2>9. QED BY <1>q, <2>5, <2>8
<1>9. ASSUME NEW s \in Strategy, NEW p \in Strategy \cup {None}, NEW fit \in BOOLEAN, Strategies!Derive(s, p, fit)
      PROVE  StrategiesInv'
  <2>1. Strategies!TypeOK'
    BY <1>0, <1>9, ServicesAssumption DEF Strategies!Derive, Strategies!Counted, Strategies!TypeOK,
       Strategies!StrategyStatus
  <2>2. QED BY <1>c, <1>q, <1>9, <2>1 DEF Strategies!Derive
<1>10. ASSUME NEW s \in Strategy, NEW passed \in BOOLEAN, Strategies!RecordOutcome(s, passed) PROVE StrategiesInv'
  <2>1. CallsFit(call')
    BY <1>c, <1>o, <1>10 DEF Strategies!RecordOutcome
  <2>2. Strategies!TypeOK'
    BY <1>0, <1>10, <1>t, <2>1, ServicesAssumption DEF Strategies!RecordOutcome, Strategies!TypeOK
  <2>3. QED BY <1>q, <2>1, <2>2
<1>11. CASE UNCHANGED Strategies!vars
  BY <1>0, <1>11 DEF Strategies!vars, StrategiesInv, Strategies!TypeOK
<1>12. QED
  BY <1>1, <1>2, <1>3, <1>4, <1>5, <1>6, <1>7, <1>8, <1>9, <1>10, <1>11 DEF Strategies!Next,
     Strategies!Step

-----------------------------------------------------------------------------

\* Neither derived nor taken back to: what a strategy is before its first activation.
Unborn == {"absent", "CANDIDATE"}

\* What each stage of a call may rely on, whatever others do meanwhile.
StagesFit == \A w \in Worker :
  /\ call[w].op = "none" <=> call[w].at = "idle"
  /\ call[w].op = "promote" => call[w].at \in {"activate", "retirePrevious", "undo"}
  /\ call[w].op = "rollback" =>
       call[w].at \in {"restore", "noteRestored", "rollBack", "noteComplete", "noteCleanup"}
  /\ call[w].op = "reconcile" => call[w].at \in {"rollBack", "noteComplete"}
  /\ call[w].at # "idle" =>
       /\ rule[call[w].strategy] # "absent"
       /\ previous[call[w].strategy] = None => call[w].at = "activate"
       /\ previous[call[w].strategy] # None =>
            (call[w].at = "activate" <=> rule[call[w].strategy] = "CANDIDATE")

\* A copy that is the one on disk was judged for the transition it waits for.
CopiesJudged == \A w \in Worker :
  call[w].at \in DOMAIN Strategies!Target /\ call[w].held = Strategies!Subject(call[w]) =>
    Strategies!Target[call[w].at] \in Strategies!Allowed[rule[call[w].held]]

\* The lock of the promotions of a revision.
OnePromotes == \A v, w \in Worker :
  /\ call[v].op = "promote" /\ call[w].op = "promote" /\ call[v].strategy = call[w].strategy
  /\ previous[call[w].strategy] # None
  => v = w

\* A revision was derived from a strategy that was in force.
LinksFit ==
  /\ \A y, z \in Strategy : previous[z] = y => y # z /\ rule[y] \notin Unborn
  /\ \A s \in Strategy : rule[s] = "absent" => previous[s] = None
  /\ \A r \in Restoration : restoration[r].current # None => previous[restoration[r].current] # None

\* A chain ends in a strategy derived from no other.
Rooted == \A s \in Strategy : \E r \in Strategies!Line(s) : previous[r] = None /\ (r = s \/ rule[r] \notin Unborn)

\* Calls under way on a revision.
Promoting(y) == \E w \in Worker : call[w].op = "promote" /\ call[w].strategy = y
Retiring(y) == \E w \in Worker : call[w].at = "retirePrevious" /\ call[w].strategy = y
Replaced(y) == \E w \in Worker : call[w].at \in {"noteRestored", "rollBack"} /\ call[w].strategy = y

\* The revisions of x among those of G that took its place for good, and those whose
\* promotion may still retire x though they do not, or soon do not, stand for it.
Bearers(G, x) == {y \in G : previous[y] = x /\ ~Promoting(y) /\ ~Replaced(y)}
Claims(G, x) == {y \in Strategy : previous[y] = x /\ Retiring(y) /\ (y \notin G \/ Replaced(y))}
Vacancy(x) == IF rule[x] = "RETIRED" THEN 1 ELSE 0

\* G has the first strategy of every chain, is in force or was replaced by revisions that
\* are in G again, and will be when the promotions under way have ended.
Borne(G) ==
  /\ \A s \in Strategy : previous[s] = None /\ rule[s] \notin Unborn => s \in G
  /\ \A x \in G : rule[x] \in {"ACTIVE", "RETIRED"}
  /\ \A x \in G : Cardinality(Bearers(G, x)) >= Cardinality(Claims(G, x)) + Vacancy(x)

ChainInv ==
  /\ StagesFit /\ CopiesJudged /\ OnePromotes /\ LinksFit /\ Rooted
  /\ ~tangled => \E G \in SUBSET Strategy : Borne(G)

-----------------------------------------------------------------------------

\* More bearers and fewer claims outweigh no less.
LEMMA Outweigh ==
  ASSUME NEW B \in SUBSET Strategy, NEW C \in SUBSET Strategy, NEW D \in SUBSET Strategy,
         NEW E \in SUBSET Strategy, B \subseteq D, E \subseteq C
  PROVE  /\ \A k \in {0, 1} : Cardinality(B) >= Cardinality(C) + k => Cardinality(D) >= Cardinality(E) + k
         /\ \A y \in Strategy : (y \in D \ B \/ y \in C \ E) /\ Cardinality(B) >= Cardinality(C) =>
              Cardinality(D) >= Cardinality(E) + 1
<1>1. \A S \in SUBSET Strategy : IsFiniteSet(S) /\ Cardinality(S) \in Nat
  BY ServicesAssumption, FS_Subset, FS_CardinalityType
<1>2. \A S, T \in SUBSET Strategy : S \subseteq T => Cardinality(S) <= Cardinality(T)
  BY <1>1, FS_Subset
<1>3. Cardinality(B) <= Cardinality(D) /\ Cardinality(E) <= Cardinality(C)
  BY <1>2
<1>4. /\ Cardinality(B) \in Nat /\ Cardinality(C) \in Nat /\ Cardinality(D) \in Nat
      /\ Cardinality(E) \in Nat
  BY <1>1
<1>5. ASSUME NEW S \in SUBSET Strategy, NEW T \in SUBSET Strategy, S \subseteq T, NEW y \in T \ S
      PROVE  Cardinality(S) + 1 <= Cardinality(T)
  <2>1. Cardinality(S \cup {y}) = Cardinality(S) + 1
    BY <1>1, <1>5, FS_AddElement
  <2>2. S \cup {y} \in SUBSET Strategy /\ S \cup {y} \subseteq T
    BY <1>5
  <2>3. QED BY <1>2, <1>5, <2>1, <2>2
<1>6. \A y \in Strategy : /\ y \in D \ B => Cardinality(B) + 1 <= Cardinality(D)
                          /\ y \in C \ E => Cardinality(E) + 1 <= Cardinality(C)
  BY <1>5
<1>7. QED BY <1>3, <1>4, <1>6

\* One bearer less or one claim more, but not both, is what a replaced strategy can spare.
LEMMA Spare ==
  ASSUME NEW B \in SUBSET Strategy, NEW C \in SUBSET Strategy, NEW D \in SUBSET Strategy,
         NEW E \in SUBSET Strategy, NEW y \in Strategy, B \ {y} \subseteq D, E \ {y} \subseteq C,
         ~(y \in B /\ y \in E), Cardinality(B) >= Cardinality(C) + 1
  PROVE  Cardinality(D) >= Cardinality(E)
<1>1. \A S \in SUBSET Strategy : IsFiniteSet(S) /\ Cardinality(S) \in Nat
  BY ServicesAssumption, FS_Subset, FS_CardinalityType
<1>2. \A S, T \in SUBSET Strategy : S \subseteq T => Cardinality(S) <= Cardinality(T)
  BY <1>1, FS_Subset
<1>3. \A S \in SUBSET Strategy : /\ Cardinality(S) <= Cardinality(S \ {y}) + 1
                                 /\ y \notin S => S \ {y} = S
  <2> SUFFICES ASSUME NEW S \in SUBSET Strategy
               PROVE  Cardinality(S) <= Cardinality(S \ {y}) + 1
    OBVIOUS
  <2>1. Cardinality(S \ {y}) = IF y \in S THEN Cardinality(S) - 1 ELSE Cardinality(S)
    BY <1>1, FS_RemoveElement
  <2>2. QED BY <1>1, <2>1
<1>4. Cardinality(B \ {y}) <= Cardinality(D) /\ Cardinality(E \ {y}) <= Cardinality(C)
  BY <1>2
<1>5. /\ Cardinality(B) <= Cardinality(B \ {y}) + 1 /\ Cardinality(E) <= Cardinality(E \ {y}) + 1
      /\ y \notin B => B \ {y} = B
      /\ y \notin E => E \ {y} = E
  BY <1>3
<1>6. /\ Cardinality(B) \in Nat /\ Cardinality(C) \in Nat /\ Cardinality(D) \in Nat
      /\ Cardinality(E) \in Nat /\ Cardinality(B \ {y}) \in Nat /\ Cardinality(E \ {y}) \in Nat
  BY <1>1
<1>7. Cardinality(B) = Cardinality(B \ {y}) \/ Cardinality(E) = Cardinality(E \ {y})
  BY <1>5
<1>8. QED BY <1>4, <1>5, <1>6, <1>7

\* A line starts with its strategy and goes on with the line of the one before.
LEMMA LineGoesOn ==
  /\ \A s \in Strategy : s \in Strategies!Line(s)
  /\ \A s, t \in Strategy : previous[s] = t => Strategies!Line(t) \subseteq Strategies!Line(s)
  /\ \A s \in Strategy : previous[s] = None => Strategies!Line(s) = {s}
<1>1. \A s \in Strategy : s \in Strategies!Line(s)
  BY DEF Strategies!Line
<1>2. \A s, t \in Strategy : previous[s] = t => Strategies!Line(t) \subseteq Strategies!Line(s)
  BY ServicesAssumption DEF Strategies!Line, Strategies!Closed
<1>3. ASSUME NEW s \in Strategy, previous[s] = None PROVE Strategies!Line(s) = {s}
  <2>1. Strategies!Closed({s})
    BY <1>3 DEF Strategies!Closed
  <2>2. {s} \in SUBSET Strategy /\ s \in {s}
    OBVIOUS
  <2>3. QED BY <1>1, <2>1, <2>2 DEF Strategies!Line
<1>4. QED BY <1>1, <1>2, <1>3

\* A strategy that was borne is in a chain with one in force: were there none, each of
\* the chain in G would have a revision in G, and the first would be one.
LEMMA BorneIsInForce ==
  ASSUME StrategiesInv, Rooted, NEW G \in SUBSET Strategy, Borne(G),
         NEW s \in Strategy, rule[s] \notin Unborn
  PROVE  \E t \in Strategy : Strategies!SameChain(s, t) /\ rule[t] = "ACTIVE"
<1>1. PICK r \in Strategies!Line(s) : previous[r] = None /\ rule[r] \notin Unborn
  BY DEF Rooted
<1>2. r \in G /\ r \in Strategy /\ r \in Strategies!Line(r)
  BY <1>1, LineGoesOn DEF Borne, Strategies!Line
<1> DEFINE D == {x \in G : r \in Strategies!Line(x)}
<1>3. IsFiniteSet(D) /\ r \in D
  BY <1>2, ServicesAssumption, FS_Subset
<1>4. SUFFICES ASSUME \A x \in D : rule[x] # "ACTIVE" PROVE FALSE
  BY <1>1 DEF Strategies!SameChain
<1>5. ASSUME NEW x \in D PROVE \E y \in D : previous[y] = x
  <2>1. Vacancy(x) = 1 /\ x \in Strategy
    BY <1>4 DEF Borne, Vacancy
  <2>2. Cardinality(Bearers(G, x)) >= Cardinality(Claims(G, x)) + 1
    BY <2>1 DEF Borne
  <2>3. IsFiniteSet(Bearers(G, x)) /\ IsFiniteSet(Claims(G, x))
    <3>1. Bearers(G, x) \in SUBSET Strategy /\ Claims(G, x) \in SUBSET Strategy
      BY DEF Bearers, Claims
    <3>2. QED BY <3>1, ServicesAssumption, FS_Subset
  <2>4. Bearers(G, x) # {}
    <3>1. Cardinality(Claims(G, x)) \in Nat
      BY <2>3, FS_CardinalityType
    <3>2. Cardinality(Bearers(G, x)) # 0
      BY <2>2, <3>1
    <3>3. QED BY <3>2, FS_EmptySet
  <2>5. PICK y \in G : previous[y] = x
    BY <2>4 DEF Bearers
  <2>6. r \in Strategies!Line(y)
    BY <2>1, <2>5, LineGoesOn
  <2>7. QED BY <2>5, <2>6
<1> DEFINE f == [x \in D |-> CHOOSE y \in D : previous[y] = x]
<1> HIDE DEF D
<1>6. \A x \in D : f[x] \in D /\ previous[f[x]] = x
  BY <1>5
<1>7. f \in [D -> D]
  BY <1>6
<1> HIDE DEF f
<1>8. f \in Injection(D, D)
  BY <1>6, <1>7 DEF Injection, IsInjective
<1>9. f \in Surjection(D, D)
  BY <1>3, <1>8, FS_Injection
<1>10. PICK x \in D : f[x] = r
  BY <1>3, <1>9 DEF Surjection
<1>11. x = None /\ x \in Strategy
  BY <1>1, <1>6, <1>10 DEF D
<1>12. QED BY <1>11, ServicesAssumption

-----------------------------------------------------------------------------

LEMMA ChainStarts == Strategies!Init => ChainInv
<1> SUFFICES ASSUME Strategies!Init PROVE ChainInv
  OBVIOUS
<1>1. /\ rule = [s \in Strategy |-> IF s = Base THEN "ACTIVE" ELSE "absent"]
      /\ previous = [s \in Strategy |-> None]
      /\ restoration = [r \in Restoration |-> [current |-> None, state |-> "none"]]
  BY DEF Strategies!Init
<1>2. \A w \in Worker : /\ call[w].op = "none" /\ call[w].at = "idle" /\ call[w].strategy = None
                        /\ call[w].held = None
  BY DEF Strategies!Init, Strategies!Idle
<1>3. StagesFit
  BY <1>2 DEF StagesFit
<1>4. CopiesJudged /\ OnePromotes
  BY <1>2 DEF CopiesJudged, OnePromotes, Strategies!Target
<1>5. LinksFit
  BY <1>1, ServicesAssumption DEF LinksFit
<1>6. Rooted
  <2>1. ASSUME NEW s \in Strategy
        PROVE  \E r \in Strategies!Line(s) : previous[r] = None /\ (r = s \/ rule[r] \notin Unborn)
    <3>1. s \in Strategies!Line(s)
      BY LineGoesOn
    <3>2. previous[s] = None
      BY <1>1
    <3>3. QED BY <3>1, <3>2
  <2>2. QED BY <2>1 DEF Rooted
<1>7. \E G \in SUBSET Strategy : Borne(G)
  <2>1. {Base} \in SUBSET Strategy /\ rule[Base] = "ACTIVE"
    BY <1>1, ServicesAssumption
  <2>2. \A x \in {Base} : Bearers({Base}, x) = {} /\ Claims({Base}, x) = {} /\ Vacancy(x) = 0
    BY <1>1, <2>1, ServicesAssumption DEF Bearers, Claims, Vacancy
  <2>3. \A s \in Strategy : rule[s] \notin Unborn => s \in {Base}
    BY <1>1 DEF Unborn
  <2>4. 0 >= 0 + 0 /\ Cardinality({}) = 0
    BY FS_EmptySet
  <2>5. \A x \in {Base} : Cardinality(Bearers({Base}, x)) >= Cardinality(Claims({Base}, x)) + Vacancy(x)
    BY <2>2, <2>4
  <2>6. QED BY <2>1, <2>3, <2>5 DEF Borne
<1>8. QED BY <1>3, <1>4, <1>5, <1>6, <1>7 DEF ChainInv

-----------------------------------------------------------------------------
\* What the steps do to the calls

\* The call of v is where it was, or where it was with its copy outdated.
Waits(v) == /\ call'[v].op = call[v].op /\ call'[v].at = call[v].at
            /\ call'[v].strategy = call[v].strategy
            /\ call'[v].held \in {call[v].held, "outdated"}

\* A call that goes on.
LEMMA GoesOn ==
  ASSUME StrategiesInv, NEW w \in Worker, NEW stage \in {"idle"} \cup DOMAIN Strategies!Target \cup DOMAIN Strategies!Notes
  PROVE  LET c == Strategies!GoOn(call[w], stage)
         IN  /\ c \in Strategies!Call /\ c.at = stage /\ c.held = None
             /\ stage # "idle" => c.op = call[w].op /\ c.strategy = call[w].strategy
             /\ stage = "idle" => c.op = "none" /\ c.strategy = None
<1>1. PICK c \in Strategies!Call : c = call[w]
  BY DEF StrategiesInv, Strategies!TypeOK
<1>2. QED
  BY <1>1 DEF Strategies!GoOn, Strategies!Call, Strategies!Idle

\* An outdated copy waits as it did.
LEMMA OthersWait ==
  ASSUME NEW calls \in [Worker -> Strategies!Call], NEW s, NEW v \in Worker
  PROVE  /\ Strategies!Outdated(s, calls)[v].op = calls[v].op /\ Strategies!Outdated(s, calls)[v].at = calls[v].at
         /\ Strategies!Outdated(s, calls)[v].strategy = calls[v].strategy
         /\ Strategies!Outdated(s, calls)[v].held = IF calls[v].held = s THEN "outdated" ELSE calls[v].held
<1>1. PICK c \in Strategies!Call : c = calls[v]
  OBVIOUS
<1>2. Strategies!Outdated(s, calls)[v] = IF c.held = s THEN [c EXCEPT !.held = "outdated"] ELSE c
  BY <1>1 DEF Strategies!Outdated
<1>3. QED BY <1>1, <1>2 DEF Strategies!Call

\* A call that waits goes on working on the object it works on.
LEMMA SubjectRests ==
  ASSUME NEW v \in Worker, call'[v].at = call[v].at, call'[v].strategy = call[v].strategy,
         previous' = previous
  PROVE  Strategies!Subject(call[v])' = Strategies!Subject(call[v])
  BY DEF Strategies!Subject

\* The object a stage works on is a strategy.
LEMMA SubjectFits ==
  ASSUME StrategiesInv, StagesFit, NEW w \in Worker, call[w].at \in DOMAIN Strategies!Target
  PROVE  /\ Strategies!Subject(call[w]) \in Strategy /\ call[w].strategy \in Strategy /\ call[w].at # "idle"
         /\ Strategies!Subject(call[w]) = IF call[w].at \in {"retirePrevious", "restore"}
                               THEN previous[call[w].strategy] ELSE call[w].strategy
<1>1. call[w].at # "idle" /\ call[w].strategy \in Strategy
  BY DEF StrategiesInv, Strategies!Target
<1>2. previous[call[w].strategy] \in Strategy \cup {None}
  BY <1>1 DEF StrategiesInv, Strategies!TypeOK
<1>3. call[w].at \in {"retirePrevious", "restore"} => previous[call[w].strategy] # None
  BY <1>1 DEF StagesFit
<1>4. QED BY <1>1, <1>2, <1>3 DEF Strategies!Subject

\* Statuses that change as the transitions allow keep the chains' shape.
LEMMA ShapeStands ==
  ASSUME StrategiesInv, LinksFit, Rooted, UNCHANGED previous,
         \A s \in Strategy : rule[s] \notin Unborn => rule'[s] \notin Unborn,
         \A s \in Strategy : rule'[s] = "absent" => rule[s] = "absent",
         \A r \in Restoration : \/ restoration'[r].current = restoration[r].current
                                \/ restoration'[r].current \in Strategy /\ previous[restoration'[r].current] # None
  PROVE  LinksFit' /\ Rooted'
<1>1. \A s \in Strategy : Strategies!Line(s)' = Strategies!Line(s)
  BY DEF Strategies!Line, Strategies!Closed
<1>2. \A s \in Strategy : Strategies!Line(s) \subseteq Strategy
  BY DEF Strategies!Line
<1>3. Rooted'
  BY <1>1, <1>2 DEF Rooted
<1>4. LinksFit'
  BY DEF LinksFit
<1>5. QED BY <1>3, <1>4

\* What was borne is, when no revision ceases to bear, none is claimed anew and what is
\* due is not more.
LEMMA BorneStands ==
  ASSUME NEW G \in SUBSET Strategy, Borne(G), NEW H \in SUBSET Strategy, NEW x \in G,
         Bearers(G, x) \subseteq Bearers(H, x)', Claims(H, x)' \subseteq Claims(G, x),
         rule'[x] \in {rule[x], "ACTIVE"}
  PROVE  Cardinality(Bearers(H, x))' >= Cardinality(Claims(H, x))' + Vacancy(x)'
<1> DEFINE B == Bearers(G, x)
           C == Claims(G, x)
           D == Bearers(H, x)'
           E == Claims(H, x)'
<1>1. B \in SUBSET Strategy /\ C \in SUBSET Strategy /\ D \in SUBSET Strategy /\ E \in SUBSET Strategy
  BY DEF Bearers, Claims
<1>2. B \subseteq D /\ E \subseteq C
  OBVIOUS
<1>3. Cardinality(B) >= Cardinality(C) + Vacancy(x)
  BY DEF Borne
<1>4. Vacancy(x) \in {0, 1} /\ Vacancy(x)' \in {0, Vacancy(x)}
  BY DEF Vacancy
<1> HIDE DEF B, C, D, E
<1>5. Cardinality(D) >= Cardinality(E) + Vacancy(x)
  BY <1>1, <1>2, <1>3, <1>4, Outweigh
<1>6. Cardinality(D) \in Nat /\ Cardinality(E) \in Nat
  BY <1>1, ServicesAssumption, FS_Subset, FS_CardinalityType
<1>7. Cardinality(D) >= Cardinality(E) + Vacancy(x)'
  BY <1>4, <1>5, <1>6
<1>8. QED BY <1>7 DEF D, E

\* A step of calls alone, by which no promotion, retirement or replacement begins.
LEMMA CallsStep ==
  ASSUME StrategiesInv, ChainInv, UNCHANGED <<rule, previous>>, tangled => tangled',
         StagesFit', CopiesJudged', OnePromotes',
         \A r \in Restoration : \/ restoration'[r].current = restoration[r].current
                                \/ restoration'[r].current \in Strategy /\ previous[restoration'[r].current] # None,
         \A y \in Strategy : /\ Retiring(y)' => Retiring(y)
                             /\ previous[y] # None /\ rule[y] # "CANDIDATE" =>
                                  (Promoting(y)' => Promoting(y)) /\ (Replaced(y)' => Replaced(y))
  PROVE  ChainInv'
<1>1. LinksFit' /\ Rooted'
  BY ShapeStands DEF ChainInv
<1>2. ASSUME NEW G \in SUBSET Strategy, Borne(G) PROVE Borne(G)'
  <2>1. ASSUME NEW x \in G
        PROVE  Bearers(G, x) \subseteq Bearers(G, x)' /\ Claims(G, x)' \subseteq Claims(G, x)
    <3>1. x \in Strategy /\ x # None
      BY ServicesAssumption
    <3>2. \A y \in G : y \in Strategy /\ rule[y] # "CANDIDATE"
      BY <1>2 DEF Borne
    <3>3. Bearers(G, x) \subseteq Bearers(G, x)'
      BY <3>1, <3>2 DEF Bearers
    <3>4. ASSUME NEW y \in Strategy, previous[y] = x, Retiring(y)' PROVE Retiring(y) /\ rule[y] # "CANDIDATE"
      <4>1. Retiring(y)
        BY <3>4
      <4>2. PICK v \in Worker : call[v].at = "retirePrevious" /\ call[v].strategy = y
        BY <4>1 DEF Retiring
      <4>3. QED BY <3>1, <3>4, <4>1, <4>2 DEF ChainInv, StagesFit
    <3>5. Claims(G, x)' \subseteq Claims(G, x)
      BY <3>1, <3>4 DEF Claims
    <3>6. QED BY <3>3, <3>5
  <2>2. \A x \in G : Cardinality(Bearers(G, x))' >= Cardinality(Claims(G, x))' + Vacancy(x)'
    BY <1>2, <2>1, BorneStands
  <2>3. QED BY <1>2, <2>2 DEF Borne
<1>3. QED BY <1>1, <1>2 DEF ChainInv

\* The worker w goes on to a stage, or ends, without a save.
LEMMA ChainKeptGoing ==
  ASSUME StrategiesInv, ChainInv, NEW w \in Worker,
         NEW stage \in {"idle"} \cup DOMAIN Strategies!Target \cup DOMAIN Strategies!Notes,
         \/ stage = "idle"
         \/ call[w].at = "retirePrevious" /\ stage = "undo"
         \/ call[w].at = "noteRestored" /\ stage = "rollBack"
         \/ call[w].at = "rollBack" /\ call[w].op = "rollback" /\ stage = "noteCleanup",
         call' = [call EXCEPT ![w] = Strategies!GoOn(call[w], stage)],
         UNCHANGED <<rule, previous, tangled>>,
         \A r \in Restoration : restoration'[r].current = restoration[r].current
  PROVE  ChainInv'
<1>0. call \in [Worker -> Strategies!Call]
  BY DEF StrategiesInv, Strategies!TypeOK
<1>1. /\ call'[w].at = stage /\ call'[w].held = None
      /\ stage # "idle" => call'[w].op = call[w].op /\ call'[w].strategy = call[w].strategy
      /\ stage = "idle" => call'[w].op = "none"
  BY <1>0, GoesOn
<1>2. \A v \in Worker : v # w => call'[v] = call[v]
  BY <1>0
<1>3. StagesFit /\ CopiesJudged /\ OnePromotes
  BY DEF ChainInv
<1>4. \A v \in Worker : call'[v].op = "promote" => call[v].op = "promote" /\ call'[v].strategy = call[v].strategy
  BY <1>1, <1>2
<1>5. StagesFit'
  <2>1. ASSUME NEW v \in Worker, v # w
        PROVE  /\ call'[v] = call[v]
               /\ call[v].at # "idle" => call[v].strategy \in Strategy
    BY <1>2, <2>1 DEF StrategiesInv
  <2>2. CASE stage = "idle"
    BY <1>1, <1>2, <1>3, <2>2 DEF StagesFit
  <2>3. CASE stage # "idle"
    <3>1. call'[w].op = call[w].op /\ call'[w].strategy = call[w].strategy /\ call'[w].at = stage
      BY <1>1, <2>3
    <3>2. call[w].at # "idle" /\ call[w].at # "activate" /\ stage # "activate"
      BY <2>3
    <3>3. /\ call[w].at = "retirePrevious" => call[w].op = "promote"
          /\ call[w].at = "noteRestored" => call[w].op = "rollback"
      <4>1. call[w].op \in {"none", "promote", "rollback", "reconcile"}
        BY <1>0 DEF Strategies!Call
      <4>2. QED BY <1>3, <4>1 DEF StagesFit
    <3>4. QED BY <1>2, <1>3, <2>3, <3>1, <3>2, <3>3 DEF StagesFit
  <2>4. QED BY <2>2, <2>3
<1>6. CopiesJudged'
  <2>1. ASSUME NEW v \in Worker, call'[v].at \in DOMAIN Strategies!Target, call'[v].held = Strategies!Subject(call[v])'
        PROVE  Strategies!Target[call'[v].at] \in Strategies!Allowed[rule'[call'[v].held]]
    <3>1. CASE v = w
      <4>1. stage # "idle" /\ stage \notin {"retirePrevious", "restore"}
        BY <1>1, <2>1, <3>1 DEF Strategies!Target
      <4>2. call'[w].strategy \in Strategy
        BY <1>1, <4>1 DEF StrategiesInv
      <4>3. Strategies!Subject(call[w])' \in Strategy
        BY <1>1, <4>1, <4>2 DEF Strategies!Subject
      <4>4. QED BY <1>1, <2>1, <3>1, <4>3, ServicesAssumption
    <3>2. CASE v # w
      <4>1. call'[v] = call[v] /\ Strategies!Subject(call[v])' = Strategies!Subject(call[v])
        BY <1>2, <3>2, SubjectRests
      <4>2. QED BY <1>3, <2>1, <4>1 DEF CopiesJudged
    <3>3. QED BY <3>1, <3>2
  <2>2. QED BY <2>1 DEF CopiesJudged
<1>7. OnePromotes'
  BY <1>3, <1>4 DEF OnePromotes
<1>8. \A y : /\ Promoting(y)' => Promoting(y)
             /\ Retiring(y)' => Retiring(y)
             /\ Replaced(y)' => Replaced(y)
  <2>1. \A y : Promoting(y)' => Promoting(y)
    BY <1>4 DEF Promoting
  <2>2. \A y : Retiring(y)' => Retiring(y)
    BY <1>1, <1>2 DEF Retiring
  <2>3. \A y : Replaced(y)' => Replaced(y)
    BY <1>1, <1>2 DEF Replaced
  <2>4. QED BY <2>1, <2>2, <2>3
<1>9. QED
  <2>1. \A y \in Strategy : /\ Retiring(y)' => Retiring(y)
                            /\ previous[y] # None /\ rule[y] # "CANDIDATE" =>
                                 (Promoting(y)' => Promoting(y)) /\ (Replaced(y)' => Replaced(y))
    BY <1>8
  <2>2. QED BY <1>5, <1>6, <1>7, <2>1, CallsStep

\* Calls that wait, with copies outdated or judged.
LEMMA ChainKeptWaiting ==
  ASSUME StrategiesInv, ChainInv, UNCHANGED <<rule, previous>>, tangled => tangled',
         \A v \in Worker :
           /\ call'[v].op = call[v].op /\ call'[v].at = call[v].at /\ call'[v].strategy = call[v].strategy
           /\ \/ call'[v].held \in {call[v].held, "outdated"}
              \/ call'[v].held = Strategies!Subject(call[v]) /\ Strategies!Target[call[v].at] \in Strategies!Allowed[rule[Strategies!Subject(call[v])]],
         \A r \in Restoration : \/ restoration'[r].current = restoration[r].current
                                \/ restoration'[r].current \in Strategy /\ previous[restoration'[r].current] # None
  PROVE  ChainInv'
<1>1. StagesFit /\ CopiesJudged /\ OnePromotes
  BY DEF ChainInv
<1>2. StagesFit'
  BY <1>1 DEF StagesFit
<1>3. OnePromotes'
  BY <1>1 DEF OnePromotes
<1>4. CopiesJudged'
  <2>1. ASSUME NEW v \in Worker, call'[v].at \in DOMAIN Strategies!Target, call'[v].held = Strategies!Subject(call[v])'
        PROVE  Strategies!Target[call'[v].at] \in Strategies!Allowed[rule'[call'[v].held]]
    <3>1. call[v].at \in DOMAIN Strategies!Target /\ Strategies!Subject(call[v])' = Strategies!Subject(call[v])
      <4>1. call'[v].at = call[v].at /\ call'[v].strategy = call[v].strategy
        OBVIOUS
      <4>2. Strategies!Subject(call[v])' = Strategies!Subject(call[v])
        BY <4>1, SubjectRests
      <4>3. QED BY <2>1, <4>1, <4>2
    <3>2. Strategies!Subject(call[v]) \in Strategy
      BY <1>1, <3>1, SubjectFits
    <3>3. call'[v].held # "outdated"
      BY <2>1, <3>1, <3>2, ServicesAssumption
    <3>4. QED BY <1>1, <2>1, <3>1, <3>3 DEF CopiesJudged
  <2>2. QED BY <2>1 DEF CopiesJudged
<1>5. \A y \in Strategy : /\ Retiring(y)' => Retiring(y)
                          /\ Promoting(y)' => Promoting(y)
                          /\ Replaced(y)' => Replaced(y)
  BY DEF Retiring, Promoting, Replaced
<1>6. QED BY <1>2, <1>3, <1>4, <1>5, CallsStep

\* What the one that begins adds to what is under way.
LEMMA OneBegins ==
  ASSUME NEW w \in Worker, NEW c, NEW s, call'[w] = c, c.strategy = s,
         \A v \in Worker : v # w => call'[v] = call[v],
         c.at \in {"activate", "restore", "rollBack"}, c.at = "rollBack" => c.op = "reconcile"
  PROVE  \A y : /\ Retiring(y)' => Retiring(y)
                /\ Promoting(y)' => Promoting(y) \/ (c.op = "promote" /\ y = s)
                /\ Replaced(y)' => Replaced(y) \/ (c.op = "reconcile" /\ y = s)
<1>1. \A y : Retiring(y)' => Retiring(y)
  BY DEF Retiring
<1>2. \A y : Promoting(y)' => Promoting(y) \/ (c.op = "promote" /\ y = s)
  BY DEF Promoting
<1>3. \A y : Replaced(y)' => Replaced(y) \/ (c.op = "reconcile" /\ y = s)
  BY DEF Replaced
<1>4. QED BY <1>1, <1>2, <1>3

\* An idle worker begins a call: a promotion, a rollback, or a reconciliation that meets no
\* promotion about to retire what it restores.
LEMMA ChainKeptBeginning ==
  ASSUME StrategiesInv, ChainInv, NEW w \in Worker, NEW s \in Strategy, call[w].op = "none",
         NEW c \in Strategies!Call, c.strategy = s, c.held = None, call' = [call EXCEPT ![w] = c],
         UNCHANGED <<rule, previous>>, tangled => tangled', rule[s] # "absent",
         \/ /\ c.op = "promote" /\ c.at = "activate"
            /\ previous[s] # None => rule[s] = "CANDIDATE" /\ Strategies!Unlocked("promote", s)
         \/ /\ c.op = "rollback" /\ c.at = "restore"
            /\ previous[s] # None /\ rule[s] # "CANDIDATE"
         \/ /\ c.op = "reconcile" /\ c.at = "rollBack"
            /\ previous[s] # None /\ rule[s] # "CANDIDATE" /\ rule[previous[s]] = "ACTIVE"
            /\ ~tangled' => ~Strategies!Meets(s),
         \A r \in Restoration : \/ restoration'[r].current = restoration[r].current
                                \/ restoration'[r].current = s /\ previous[s] # None
  PROVE  ChainInv'
<1>0. call \in [Worker -> Strategies!Call] /\ previous \in [Strategy -> Strategy \cup {None}]
  BY DEF StrategiesInv, Strategies!TypeOK
<1>1. /\ call'[w] = c /\ \A v \in Worker : v # w => call'[v] = call[v]
  BY <1>0
<1>2. StagesFit /\ CopiesJudged /\ OnePromotes
  BY DEF ChainInv
<1>3. StagesFit'
  BY <1>1, <1>2 DEF StagesFit
<1>4. OnePromotes'
  BY <1>1, <1>2 DEF OnePromotes, Strategies!Unlocked
<1>5. CopiesJudged'
  <2>1. ASSUME NEW v \in Worker, call'[v].at \in DOMAIN Strategies!Target, call'[v].held = Strategies!Subject(call[v])'
        PROVE  Strategies!Target[call'[v].at] \in Strategies!Allowed[rule'[call'[v].held]]
    <3>1. CASE v = w
      <4>1. Strategies!Subject(c)' = IF c.at = "restore" THEN previous[s] ELSE s
        <5>1. c.at \in {"activate", "restore", "rollBack"}
          OBVIOUS
        <5>2. Strategies!Subject(c)' = IF c.at \in {"retirePrevious", "restore"} THEN previous'[c.strategy] ELSE c.strategy
          BY DEF Strategies!Subject
        <5>3. QED BY <5>1, <5>2
      <4>2. c.at = "restore" => previous[s] # None
        OBVIOUS
      <4>3. Strategies!Subject(call[w])' = Strategies!Subject(c)'
        BY <1>1 DEF Strategies!Subject
      <4>4. QED BY <1>0, <1>1, <2>1, <3>1, <4>1, <4>2, <4>3, ServicesAssumption
    <3>2. CASE v # w
      <4>1. call'[v] = call[v] /\ Strategies!Subject(call[v])' = Strategies!Subject(call[v])
        BY <1>1, <3>2, SubjectRests
      <4>2. QED BY <1>2, <2>1, <4>1 DEF CopiesJudged
    <3>3. QED BY <3>1, <3>2
  <2>2. QED BY <2>1 DEF CopiesJudged
<1>6. \A r \in Restoration : \/ restoration'[r].current = restoration[r].current
                             \/ restoration'[r].current \in Strategy /\ previous[restoration'[r].current] # None
  OBVIOUS
<1>7. \A y \in Strategy : /\ Retiring(y)' => Retiring(y)
                          /\ Promoting(y)' => Promoting(y) \/ (c.op = "promote" /\ y = s)
                          /\ Replaced(y)' => Replaced(y) \/ (c.op = "reconcile" /\ y = s)
  <2>1. /\ c.at \in {"activate", "restore", "rollBack"} /\ (c.at = "rollBack" => c.op = "reconcile")
        /\ c.strategy = s
    OBVIOUS
  <2>2. QED BY <1>1, <2>1, OneBegins
<1>8. CASE c.op # "reconcile"
  BY <1>3, <1>4, <1>5, <1>6, <1>7, <1>8, CallsStep
<1>9. CASE c.op = "reconcile"
  <2>1. LinksFit' /\ Rooted'
    BY <1>6, ShapeStands DEF ChainInv
  <2>2. SUFFICES ASSUME ~tangled', NEW G \in SUBSET Strategy, Borne(G) PROVE Borne(G)'
    BY <1>3, <1>4, <1>5, <2>1 DEF ChainInv
  <2>3. ASSUME NEW x \in G
        PROVE  Cardinality(Bearers(G, x))' >= Cardinality(Claims(G, x))' + Vacancy(x)'
    <3>1. CASE x # previous[s]
      <4>1. Bearers(G, x) \subseteq Bearers(G, x)' /\ Claims(G, x)' \subseteq Claims(G, x)
        BY <1>7, <1>9, <3>1 DEF Bearers, Claims
      <4>2. QED BY <2>2, <4>1, BorneStands
    <3>2. CASE x = previous[s]
      <4>1. ASSUME NEW y \in Strategy, previous[y] = x, Retiring(y)' PROVE FALSE
        <5>1. PICK v \in Worker : call[v].at = "retirePrevious" /\ call[v].strategy = y
          BY <1>7, <4>1 DEF Retiring
        <5>2. Strategies!Meets(s)
          BY <3>2, <4>1, <5>1 DEF Strategies!Meets
        <5>3. QED BY <1>9, <2>2, <5>2
      <4>2. Claims(G, x)' = {} /\ Vacancy(x)' = 0
        BY <1>9, <3>2, <4>1 DEF Claims, Vacancy
      <4>3. Cardinality(Bearers(G, x)') \in Nat
        <5>1. Bearers(G, x)' \in SUBSET Strategy
          BY DEF Bearers
        <5>2. QED BY <5>1, ServicesAssumption, FS_Subset, FS_CardinalityType
      <4>4. Cardinality(Claims(G, x)') = 0
        BY <4>2, FS_EmptySet
      <4>5. QED BY <4>2, <4>3, <4>4
    <3>3. QED BY <3>1, <3>2
  <2>4. QED BY <2>2, <2>3 DEF Borne
<1>10. QED BY <1>8, <1>9

\* A candidate is derived, from no strategy or from one in force: its chain grows.
LEMMA ChainKeptDerive ==
  ASSUME StrategiesInv, ChainInv, NEW s \in Strategy, NEW p \in Strategy \cup {None},
         NEW fit \in BOOLEAN, Strategies!Derive(s, p, fit)
  PROVE  ChainInv'
<1>0. /\ call \in [Worker -> Strategies!Call] /\ previous \in [Strategy -> Strategy \cup {None}]
      /\ rule \in [Strategy -> Strategies!StrategyStatus]
  BY DEF StrategiesInv, Strategies!TypeOK
<1>1. /\ rule[s] = "absent" /\ (p # None => rule[p] = "ACTIVE") /\ UNCHANGED <<restoration, call, tangled>>
      /\ rule'[s] = "CANDIDATE" /\ previous'[s] = p
      /\ \A t \in Strategy : t # s => rule'[t] = rule[t] /\ previous'[t] = previous[t]
  BY <1>0 DEF Strategies!Derive
<1>2. StagesFit /\ CopiesJudged /\ OnePromotes /\ LinksFit /\ Rooted
  BY DEF ChainInv
<1>3. previous[s] = None
  BY <1>1, <1>2 DEF LinksFit
<1>4. \A v \in Worker : call[v].at # "idle" => call[v].strategy \in Strategy /\ call[v].strategy # s
  BY <1>1, <1>2 DEF StagesFit, StrategiesInv
<1>5. \A v \in Worker : call[v].op # "none" => call[v].at # "idle"
  BY <1>2 DEF StagesFit
<1>6. StagesFit'
  BY <1>1, <1>2, <1>4 DEF StagesFit
<1>7. OnePromotes'
  <2>1. ASSUME NEW v \in Worker, call[v].op = "promote"
        PROVE  previous'[call[v].strategy] = previous[call[v].strategy]
    BY <1>1, <1>4, <1>5, <2>1
  <2>2. QED BY <1>1, <1>2, <2>1 DEF OnePromotes
<1>8. CopiesJudged'
  <2>1. ASSUME NEW v \in Worker, call[v].at \in DOMAIN Strategies!Target, call[v].held = Strategies!Subject(call[v])'
        PROVE  Strategies!Target[call[v].at] \in Strategies!Allowed[rule'[call[v].held]]
    <3>1. call[v].at # "idle" /\ call[v].strategy \in Strategy /\ call[v].strategy # s
      BY <1>4, <2>1 DEF Strategies!Target
    <3>2. previous'[call[v].strategy] = previous[call[v].strategy]
      BY <1>1, <3>1
    <3>3. Strategies!Subject(call[v])' = Strategies!Subject(call[v])
      BY <1>1, <3>2 DEF Strategies!Subject
    <3>4. Strategies!Target[call[v].at] \in Strategies!Allowed[rule[call[v].held]]
      BY <1>2, <2>1, <3>3 DEF CopiesJudged
    <3>5. call[v].held \in Strategy
      BY <1>2, <2>1, <3>3, SubjectFits
    <3>6. call[v].held # s
      <4>1. Strategies!Allowed["absent"] = {}
        BY DEF Strategies!Allowed, Strategies!StrategyStatus
      <4>2. QED BY <1>1, <3>4, <4>1
    <3>7. QED BY <1>1, <3>4, <3>5, <3>6
  <2>2. QED BY <1>1, <2>1 DEF CopiesJudged
<1>9. LinksFit'
  <2>1. \A t \in Strategy : rule'[t] = "absent" => t # s
    BY <1>1
  <2>2. \A y \in Strategy : rule[y] \notin Unborn => rule'[y] \notin Unborn /\ y # s
    BY <1>1 DEF Unborn
  <2>3. p # None => p # s /\ rule[p] \notin Unborn
    BY <1>1 DEF Unborn
  <2>4. \A y, z \in Strategy : previous'[z] = y => y # z /\ rule'[y] \notin Unborn
    BY <1>1, <1>2, <2>2, <2>3, ServicesAssumption DEF LinksFit
  <2>5. \A t \in Strategy : rule'[t] = "absent" => previous'[t] = None
    BY <1>1, <1>2, <2>1 DEF LinksFit
  <2>6. ASSUME NEW r \in Restoration, restoration'[r].current # None
        PROVE  previous'[restoration'[r].current] # None
    <3>1. previous[restoration[r].current] # None /\ restoration[r].current \in Strategy
      <4>1. restoration[r] \in [current : Strategy \cup {None},
                 state : {"none", "prepared", "previous_restored", "cleanup_required", "complete"}]
        BY DEF StrategiesInv, Strategies!TypeOK
      <4>2. QED BY <1>1, <1>2, <2>6, <4>1 DEF LinksFit
    <3>2. QED BY <1>1, <1>3, <3>1
  <2>7. QED BY <2>4, <2>5, <2>6 DEF LinksFit
<1>10. \A t \in Strategy : Strategies!Line(t) \subseteq Strategies!Line(t)'
  <2>1. \A S \in SUBSET Strategy : Strategies!Closed(S)' => Strategies!Closed(S)
    BY <1>1, <1>3 DEF Strategies!Closed
  <2>2. QED BY <2>1 DEF Strategies!Line
<1>11. Rooted'
  <2>1. ASSUME NEW t \in Strategy, t # s
        PROVE  \E r \in Strategies!Line(t)' : previous'[r] = None /\ (r = t \/ rule'[r] \notin Unborn) /\ r # s
    <3>1. PICK r \in Strategies!Line(t) : previous[r] = None /\ (r = t \/ rule[r] \notin Unborn)
      BY <1>2 DEF Rooted
    <3>2. r \in Strategy /\ r # s
      BY <1>1, <2>1, <3>1 DEF Strategies!Line, Unborn
    <3>3. QED BY <1>1, <1>10, <3>1, <3>2
  <2>2. s \in Strategies!Line(s)'
    BY <1>10, LineGoesOn
  <2>3. CASE p = None
    BY <1>1, <2>1, <2>2, <2>3 DEF Rooted
  <2>4. CASE p # None
    <3>1. p \in Strategy /\ p # s /\ rule'[p] \notin Unborn
      BY <1>1, <2>4 DEF Unborn
    <3>2. PICK r \in Strategies!Line(p)' : previous'[r] = None /\ (r = p \/ rule'[r] \notin Unborn)
      BY <2>1, <3>1
    <3>3. Strategies!Line(p)' \subseteq Strategies!Line(s)'
      BY <1>1, <3>1, ServicesAssumption DEF Strategies!Line, Strategies!Closed
    <3>4. \E r1 \in Strategies!Line(s)' : previous'[r1] = None /\ (r1 = s \/ rule'[r1] \notin Unborn)
      BY <3>1, <3>2, <3>3
    <3>5. QED BY <2>1, <3>4 DEF Rooted
  <2>5. QED BY <2>3, <2>4
<1>12. ASSUME NEW G \in SUBSET Strategy, Borne(G) PROVE Borne(G)'
  <2>1. s \notin G
    BY <1>1, <1>12 DEF Borne
  <2>2. \A y \in Strategy : Retiring(y)' = Retiring(y) /\ Promoting(y)' = Promoting(y) /\ Replaced(y)' = Replaced(y)
    BY <1>1 DEF Retiring, Promoting, Replaced
  <2>3. ~Retiring(s)
    BY <1>4 DEF Retiring
  <2>4. ASSUME NEW x \in G
        PROVE  Bearers(G, x) \subseteq Bearers(G, x)' /\ Claims(G, x)' \subseteq Claims(G, x)
    <3>1. Bearers(G, x) \subseteq Bearers(G, x)'
      BY <1>1, <2>1, <2>2 DEF Bearers
    <3>2. Claims(G, x)' \subseteq Claims(G, x)
      BY <1>1, <2>2, <2>3 DEF Claims
    <3>3. QED BY <3>1, <3>2
  <2>5. \A x \in G : rule'[x] = rule[x]
    BY <1>1, <2>1
  <2>6. \A x \in G : Cardinality(Bearers(G, x))' >= Cardinality(Claims(G, x))' + Vacancy(x)'
    BY <1>12, <2>4, <2>5, BorneStands
  <2>7. \A t \in Strategy : previous'[t] = None /\ rule'[t] \notin Unborn => t \in G
    BY <1>1, <1>12 DEF Borne, Unborn
  <2>8. \A x \in G : rule'[x] \in {"ACTIVE", "RETIRED"}
    BY <1>12, <2>5 DEF Borne
  <2>9. QED BY <2>6, <2>7, <2>8 DEF Borne
<1>13. QED BY <1>1, <1>6, <1>7, <1>8, <1>9, <1>11, <1>12 DEF ChainInv

\* A save: the transition was judged, and every other copy of the object is outdated.
LEMMA SaveView ==
  ASSUME StrategiesInv, ChainInv, NEW w \in Worker, Strategies!Save(w)
  PROVE  LET h == Strategies!Subject(call[w])
             y == call[w].strategy
             target == Strategies!Target[call[w].at]
         IN  /\ h \in Strategy /\ y \in Strategy /\ call[w].at \in DOMAIN Strategies!Target
             /\ rule'[h] = target /\ \A s \in Strategy : s # h => rule'[s] = rule[s]
             /\ target \in Strategies!Allowed[rule[h]]
             /\ UNCHANGED <<previous, restoration, tangled>>
             /\ \A v \in Worker : v # w => Waits(v) /\ call'[v].held # h
             /\ call'[w].at = Strategies!After(call[w]) /\ call'[w].held = None
             /\ call'[w].at # "idle" => call'[w].op = call[w].op /\ call'[w].strategy = y
             /\ call'[w].at = "idle" => call'[w].op = "none"
<1> DEFINE h == Strategies!Subject(call[w])
           stage == Strategies!After(call[w])
           calls == [call EXCEPT ![w] = Strategies!GoOn(call[w], stage)]
<1>0. call \in [Worker -> Strategies!Call] /\ rule \in [Strategy -> Strategies!StrategyStatus]
  BY DEF StrategiesInv, Strategies!TypeOK
<1>1. /\ call[w].at \in DOMAIN Strategies!Target /\ call[w].held = h /\ call' = Strategies!Outdated(h, calls)
      /\ rule' = [rule EXCEPT ![h] = Strategies!Target[call[w].at]] /\ UNCHANGED <<previous, restoration, tangled>>
  BY DEF Strategies!Save
<1>2. /\ h \in Strategy /\ call[w].strategy \in Strategy /\ call[w].at # "idle"
  BY <1>1, SubjectFits DEF ChainInv
<1>3. Strategies!Target[call[w].at] \in Strategies!Allowed[rule[h]]
  BY <1>1 DEF ChainInv, CopiesJudged
<1>4. stage \in {"idle"} \cup DOMAIN Strategies!Target \cup DOMAIN Strategies!Notes
  BY DEF Strategies!After, Strategies!Target, Strategies!Notes
<1> HIDE DEF h, stage
<1>5. /\ Strategies!GoOn(call[w], stage) \in Strategies!Call /\ Strategies!GoOn(call[w], stage).at = stage /\ Strategies!GoOn(call[w], stage).held = None
      /\ stage # "idle" => Strategies!GoOn(call[w], stage).op = call[w].op /\ Strategies!GoOn(call[w], stage).strategy = call[w].strategy
      /\ stage = "idle" => Strategies!GoOn(call[w], stage).op = "none"
  BY <1>2, <1>4, GoesOn
<1>6. /\ calls \in [Worker -> Strategies!Call] /\ calls[w] = Strategies!GoOn(call[w], stage)
      /\ \A v \in Worker : v # w => calls[v] = call[v]
  BY <1>0, <1>5
<1> HIDE DEF calls
<1>7. \A v \in Worker :
        /\ call'[v].op = calls[v].op /\ call'[v].at = calls[v].at /\ call'[v].strategy = calls[v].strategy
        /\ call'[v].held = IF calls[v].held = h THEN "outdated" ELSE calls[v].held
  BY <1>1, <1>6, OthersWait
<1>8. h # None /\ h # "outdated"
  BY <1>2, ServicesAssumption
<1>9. \A v \in Worker : v # w => Waits(v) /\ call'[v].held # h
  BY <1>6, <1>7, <1>8 DEF Waits
<1>10. /\ call'[w].at = stage /\ call'[w].held = None
       /\ stage # "idle" => call'[w].op = call[w].op /\ call'[w].strategy = call[w].strategy
       /\ stage = "idle" => call'[w].op = "none"
  BY <1>5, <1>6, <1>7, <1>8
<1>11. rule'[h] = Strategies!Target[call[w].at] /\ \A s \in Strategy : s # h => rule'[s] = rule[s]
  BY <1>0, <1>1, <1>2
<1>12. QED BY <1>1, <1>2, <1>3, <1>9, <1>10, <1>11 DEF h, stage

\* What a save asks of the status it changes.
LEMMA SaveJudged ==
  ASSUME StrategiesInv, ChainInv, NEW w \in Worker, Strategies!Save(w)
  PROVE  LET h == Strategies!Subject(call[w])
             y == call[w].strategy
             at == call[w].at
         IN  /\ at \in {"activate", "retirePrevious", "undo", "restore", "rollBack"}
             /\ at \in {"activate", "retirePrevious", "undo"} => call[w].op = "promote"
             /\ at = "restore" => call[w].op = "rollback"
             /\ at = "rollBack" => call[w].op \in {"rollback", "reconcile"}
             /\ at \in {"activate", "undo", "rollBack"} => h = y
             /\ at \in {"retirePrevious", "restore"} => h = previous[y] /\ h # y /\ rule[h] \notin Unborn
             /\ at = "activate" => rule[h] \in {"CANDIDATE", "RETIRED"} /\ rule'[h] = "ACTIVE"
             /\ at = "restore" => rule[h] = "RETIRED" /\ rule'[h] = "ACTIVE"
             /\ at \in {"retirePrevious", "undo"} => rule[h] = "ACTIVE" /\ rule'[h] = "RETIRED"
             /\ at = "rollBack" => rule[h] = "ACTIVE" /\ rule'[h] = "ROLLED_BACK"
             /\ at # "activate" => previous[y] # None /\ rule[y] # "CANDIDATE"
             /\ at = "activate" /\ previous[y] # None => rule[y] = "CANDIDATE"
             /\ call'[w].at = CASE at = "activate" /\ previous[y] # None -> "retirePrevious"
                                [] at = "restore" -> "noteRestored"
                                [] at = "rollBack" -> "noteComplete"
                                [] OTHER -> "idle"
<1> DEFINE h == Strategies!Subject(call[w])
           y == call[w].strategy
           at == call[w].at
<1>1. /\ h \in Strategy /\ y \in Strategy /\ at \in DOMAIN Strategies!Target /\ rule'[h] = Strategies!Target[at]
      /\ Strategies!Target[at] \in Strategies!Allowed[rule[h]] /\ call'[w].at = Strategies!After(call[w]) /\ at # "idle"
  BY SaveView DEF Strategies!Target
<1>2. /\ rule[h] \in Strategies!StrategyStatus
      /\ call[w].op \in {"none", "promote", "rollback", "reconcile"}
  BY <1>1 DEF StrategiesInv, Strategies!TypeOK, Strategies!Call
<1>3. at \in {"activate", "retirePrevious", "undo", "restore", "rollBack"}
  BY <1>1 DEF Strategies!Target
<1>4. /\ at \in {"activate", "retirePrevious", "undo"} => call[w].op = "promote"
      /\ at = "restore" => call[w].op = "rollback"
      /\ at = "rollBack" => call[w].op \in {"rollback", "reconcile"}
  BY <1>1, <1>2 DEF ChainInv, StagesFit
<1>5. /\ previous[y] = None => at = "activate"
      /\ previous[y] # None => (at = "activate" <=> rule[y] = "CANDIDATE")
  BY <1>1 DEF ChainInv, StagesFit
<1>6. /\ at \in {"activate", "undo", "rollBack"} => h = y
      /\ at \in {"retirePrevious", "restore"} => h = previous[y]
  BY DEF Strategies!Subject
<1>7. at \in {"retirePrevious", "restore"} => h # y /\ rule[h] \notin Unborn
  BY <1>1, <1>6 DEF ChainInv, LinksFit
<1>8. /\ Strategies!Target["activate"] = "ACTIVE" /\ Strategies!Target["restore"] = "ACTIVE" /\ Strategies!Target["undo"] = "RETIRED"
      /\ Strategies!Target["retirePrevious"] = "RETIRED" /\ Strategies!Target["rollBack"] = "ROLLED_BACK"
  BY DEF Strategies!Target
<1>9. /\ "ACTIVE" \in Strategies!Allowed[rule[h]] => rule[h] \in {"CANDIDATE", "RETIRED"}
      /\ "RETIRED" \in Strategies!Allowed[rule[h]] => rule[h] = "ACTIVE"
      /\ "ROLLED_BACK" \in Strategies!Allowed[rule[h]] => rule[h] = "ACTIVE"
  BY <1>2 DEF Strategies!Allowed, Strategies!StrategyStatus
<1>10. /\ at = "activate" => rule[h] \in {"CANDIDATE", "RETIRED"} /\ rule'[h] = "ACTIVE"
       /\ at = "restore" => rule[h] \in {"CANDIDATE", "RETIRED"} /\ rule'[h] = "ACTIVE"
       /\ at \in {"retirePrevious", "undo"} => rule[h] = "ACTIVE" /\ rule'[h] = "RETIRED"
       /\ at = "rollBack" => rule[h] = "ACTIVE" /\ rule'[h] = "ROLLED_BACK"
  BY <1>1, <1>8, <1>9
<1>11. at = "restore" => rule[h] = "RETIRED"
  BY <1>7, <1>10 DEF Unborn
<1>12. call'[w].at = CASE at = "activate" /\ previous[y] # None -> "retirePrevious"
                       [] at = "restore" -> "noteRestored"
                       [] at = "rollBack" -> "noteComplete"
                       [] OTHER -> "idle"
  BY <1>1, <1>3 DEF Strategies!After
<1> HIDE DEF h, y, at
<1>13. QED BY <1>3, <1>4, <1>5, <1>6, <1>7, <1>10, <1>11, <1>12 DEF h, y, at

\* After a save the calls fit their stages, and the chains have the shape they had.
LEMMA ShapeKeptSave ==
  ASSUME StrategiesInv, ChainInv, NEW w \in Worker, Strategies!Save(w)
  PROVE  StagesFit' /\ CopiesJudged' /\ OnePromotes' /\ LinksFit' /\ Rooted'
<1> DEFINE h == Strategies!Subject(call[w])
           y == call[w].strategy
           at == call[w].at
<1>1. /\ h \in Strategy /\ y \in Strategy /\ \A s \in Strategy : s # h => rule'[s] = rule[s]
      /\ UNCHANGED <<previous, restoration, tangled>>
      /\ \A v \in Worker : v # w => Waits(v) /\ call'[v].held # h
      /\ call'[w].held = None
      /\ call'[w].at # "idle" => call'[w].op = call[w].op /\ call'[w].strategy = y
      /\ call'[w].at = "idle" => call'[w].op = "none"
  BY SaveView
<1>2. /\ at \in {"activate", "retirePrevious", "undo", "restore", "rollBack"}
      /\ at \in {"activate", "retirePrevious", "undo"} => call[w].op = "promote"
      /\ at = "restore" => call[w].op = "rollback"
      /\ at = "rollBack" => call[w].op \in {"rollback", "reconcile"}
      /\ at \in {"activate", "undo", "rollBack"} => h = y
      /\ at \in {"retirePrevious", "restore"} => h = previous[y] /\ h # y /\ rule[h] \notin Unborn
      /\ rule[h] # "absent" /\ rule'[h] \in {"ACTIVE", "RETIRED", "ROLLED_BACK"}
      /\ at # "activate" => previous[y] # None /\ rule[y] # "CANDIDATE"
      /\ at # "activate" => rule[h] # "CANDIDATE"
      /\ at = "activate" /\ previous[y] # None => rule[y] = "CANDIDATE"
      /\ call'[w].at \in {"retirePrevious", "noteRestored", "noteComplete", "idle"}
      /\ call'[w].at = "retirePrevious" => at = "activate" /\ previous[y] # None
      /\ call'[w].at = "noteRestored" => at = "restore"
      /\ call'[w].at = "noteComplete" => at = "rollBack"
  BY SaveJudged DEF Unborn
<1>3. StagesFit /\ CopiesJudged /\ OnePromotes /\ LinksFit /\ Rooted
  BY DEF ChainInv
<1>4. \A s \in Strategy : /\ rule[s] \notin Unborn => rule'[s] \notin Unborn
                          /\ rule'[s] \in {"absent", "CANDIDATE"} => s # h /\ rule'[s] = rule[s]
  BY <1>1, <1>2 DEF Unborn
<1> HIDE DEF h, y, at
<1>5. LinksFit' /\ Rooted'
  BY <1>1, <1>3, <1>4, ShapeStands
<1>6. \A v \in Worker : call'[v].op = "promote" => call[v].op = "promote" /\ call'[v].strategy = call[v].strategy
  BY <1>1 DEF Waits, y
<1>7. OnePromotes'
  BY <1>1, <1>3, <1>6 DEF OnePromotes
<1>8. StagesFit'
  <2>1. ASSUME NEW v \in Worker, v # w
        PROVE  /\ call'[v].op = call[v].op /\ call'[v].at = call[v].at /\ call'[v].strategy = call[v].strategy
               /\ call[v].at # "idle" =>
                    /\ rule'[call[v].strategy] # "absent"
                    /\ previous[call[v].strategy] # None =>
                         (call[v].at = "activate" <=> rule'[call[v].strategy] = "CANDIDATE")
    <3>1. call'[v].op = call[v].op /\ call'[v].at = call[v].at /\ call'[v].strategy = call[v].strategy
      BY <1>1, <2>1 DEF Waits
    <3>2. ASSUME call[v].at # "idle"
          PROVE  /\ call[v].strategy \in Strategy /\ rule'[call[v].strategy] # "absent"
                 /\ previous[call[v].strategy] # None =>
                      (call[v].at = "activate" <=> rule'[call[v].strategy] = "CANDIDATE")
      <4>1. /\ call[v].strategy \in Strategy /\ rule[call[v].strategy] # "absent"
            /\ previous[call[v].strategy] # None =>
                 (call[v].at = "activate" <=> rule[call[v].strategy] = "CANDIDATE")
        BY <1>3, <3>2 DEF StagesFit, StrategiesInv
      <4>2. CASE call[v].strategy # h
        BY <1>1, <4>1, <4>2
      <4>3. CASE call[v].strategy = h
        <5>1. rule'[h] # "absent" /\ rule'[h] # "CANDIDATE"
          BY <1>2
        <5>2. ASSUME previous[h] # None, call[v].at = "activate" PROVE FALSE
          <6>1. rule[h] = "CANDIDATE"
            BY <4>1, <4>3, <5>2
          <6>2. at = "activate" /\ h = y
            BY <1>2, <6>1
          <6>3. call[w].op = "promote" /\ call[v].op = "promote"
            <7>1. call[v].op \in {"none", "promote", "rollback", "reconcile"}
              BY DEF StrategiesInv, Strategies!TypeOK, Strategies!Call
            <7>2. QED BY <1>2, <1>3, <5>2, <6>2, <7>1 DEF StagesFit
          <6>4. v = w
            BY <1>3, <4>3, <5>2, <6>2, <6>3 DEF OnePromotes, y
          <6>5. QED BY <2>1, <6>4
        <5>3. QED BY <4>1, <4>3, <5>1, <5>2
      <4>4. QED BY <4>2, <4>3
    <3>3. QED BY <3>1, <3>2
  <2>2. call'[w].at # "idle" =>
          /\ rule'[y] \notin Unborn /\ previous[y] # None
          /\ call'[w].op = call[w].op /\ call'[w].strategy = y
    <3>1. ASSUME call'[w].at # "idle" PROVE rule'[y] \notin Unborn /\ previous[y] # None
      <4>1. rule[y] # "absent"
        BY <1>2, <1>3 DEF StagesFit, y, at
      <4>2. rule'[h] \notin Unborn
        BY <1>2 DEF Unborn
      <4>3. previous[y] # None
        BY <1>2, <3>1
      <4>4. h # y => rule'[y] = rule[y] /\ rule[y] # "CANDIDATE"
        BY <1>1, <1>2
      <4>5. QED BY <4>1, <4>2, <4>3, <4>4 DEF Unborn
    <3>2. QED BY <1>1, <3>1
  <2>3. /\ call'[w].op = "none" <=> call'[w].at = "idle"
        /\ call'[w].op = "promote" => call'[w].at = "retirePrevious"
        /\ call'[w].op = "rollback" => call'[w].at \in {"noteRestored", "noteComplete"}
        /\ call'[w].op = "reconcile" => call'[w].at = "noteComplete"
    BY <1>1, <1>2
  <2>4. ASSUME NEW v \in Worker
        PROVE  /\ call'[v].op = "none" <=> call'[v].at = "idle"
               /\ call'[v].op = "promote" => call'[v].at \in {"activate", "retirePrevious", "undo"}
               /\ call'[v].op = "rollback" =>
                    call'[v].at \in {"restore", "noteRestored", "rollBack", "noteComplete", "noteCleanup"}
               /\ call'[v].op = "reconcile" => call'[v].at \in {"rollBack", "noteComplete"}
               /\ call'[v].at # "idle" =>
                    /\ rule'[call'[v].strategy] # "absent"
                    /\ previous'[call'[v].strategy] = None => call'[v].at = "activate"
                    /\ previous'[call'[v].strategy] # None =>
                         (call'[v].at = "activate" <=> rule'[call'[v].strategy] = "CANDIDATE")
    <3>1. CASE v = w
      BY <1>1, <1>2, <2>2, <2>3, <3>1 DEF Unborn
    <3>2. CASE v # w
      BY <1>1, <1>3, <2>1, <3>2 DEF StagesFit
    <3>3. QED BY <3>1, <3>2
  <2>5. QED BY <2>4 DEF StagesFit
<1>9. CopiesJudged'
  <2>1. ASSUME NEW v \in Worker, call'[v].at \in DOMAIN Strategies!Target, call'[v].held = Strategies!Subject(call[v])'
        PROVE  Strategies!Target[call'[v].at] \in Strategies!Allowed[rule'[call'[v].held]]
    <3>1. StrategiesInv'
      BY StrategiesKept DEF Strategies!Next, Strategies!Step
    <3>2. Strategies!Subject(call[v])' \in Strategy
      <4>1. /\ call'[v].at # "idle" /\ call'[v].strategy \in Strategy
        BY <2>1, <3>1 DEF StrategiesInv, Strategies!Target
      <4>2. previous'[call'[v].strategy] \in Strategy \cup {None}
        BY <3>1, <4>1 DEF StrategiesInv, Strategies!TypeOK
      <4>3. call'[v].at \in {"retirePrevious", "restore"} => previous'[call'[v].strategy] # None
        BY <1>8, <4>1 DEF StagesFit
      <4>4. QED BY <4>1, <4>2, <4>3 DEF Strategies!Subject
    <3>3. v # w
      BY <1>1, <2>1, <3>2, ServicesAssumption
    <3>4. Waits(v) /\ call'[v].held # h
      BY <1>1, <3>3
    <3>5. Strategies!Subject(call[v])' = Strategies!Subject(call[v])
      BY <1>1, <3>4, SubjectRests DEF Waits
    <3>6. call'[v].held = call[v].held /\ call'[v].at = call[v].at
      BY <2>1, <3>2, <3>4, ServicesAssumption DEF Waits
    <3>7. Strategies!Target[call'[v].at] \in Strategies!Allowed[rule[call'[v].held]]
      BY <1>3, <2>1, <3>5, <3>6 DEF CopiesJudged
    <3>8. rule'[call'[v].held] = rule[call'[v].held]
      BY <1>1, <2>1, <3>2, <3>4
    <3>9. QED BY <3>7, <3>8
  <2>2. QED BY <2>1 DEF CopiesJudged
<1>10. QED BY <1>5, <1>7, <1>8, <1>9

\* What a save changes of the calls under way on a revision: only those on its own.
LEMMA SaveMoves ==
  ASSUME StrategiesInv, ChainInv, NEW w \in Worker, Strategies!Save(w),
         NEW y \in Strategy, y = call[w].strategy, NEW at, at = call[w].at
  PROVE  /\ \A z : z # y => /\ Promoting(z)' <=> Promoting(z)
                            /\ Retiring(z)' <=> Retiring(z)
                            /\ Replaced(z)' <=> Replaced(z)
         /\ at # "activate" => (Retiring(y)' => Retiring(y))
         /\ previous[y] # None => (Retiring(y) => Promoting(y))
         /\ Replaced(y)' => Replaced(y) \/ at = "restore"
         /\ at = "rollBack" => Replaced(y)
         /\ at \in {"activate", "retirePrevious", "undo"} => Promoting(y)
         /\ at = "retirePrevious" => Retiring(y)
         /\ at \in {"retirePrevious", "undo"} => ~Promoting(y)' /\ ~Retiring(y)'
         /\ at = "activate" /\ previous[y] # None => ~Replaced(y)
<1>1. /\ y \in Strategy
      /\ \A v \in Worker : v # w => Waits(v)
      /\ call'[w].at # "idle" => call'[w].op = call[w].op /\ call'[w].strategy = y
      /\ call'[w].at = "idle" => call'[w].op = "none"
      /\ UNCHANGED previous
  BY SaveView
<1>2. /\ at \in {"activate", "retirePrevious", "undo", "restore", "rollBack"}
      /\ at \in {"activate", "retirePrevious", "undo"} => call[w].op = "promote"
      /\ at # "activate" => previous[y] # None
      /\ at = "activate" /\ previous[y] # None => rule[y] = "CANDIDATE"
      /\ call'[w].at \in {"retirePrevious", "noteRestored", "noteComplete", "idle"}
      /\ call'[w].at = "retirePrevious" => at = "activate"
      /\ call'[w].at = "noteRestored" => at = "restore"
      /\ at \in {"retirePrevious", "undo"} => call'[w].at = "idle"
  BY SaveJudged
<1>3. StagesFit /\ OnePromotes
  BY DEF ChainInv
<1>4. \A v \in Worker : call[v].op \in {"none", "promote", "rollback", "reconcile"}
  BY DEF StrategiesInv, Strategies!TypeOK, Strategies!Call
<1>5. ASSUME NEW z, z # y
      PROVE  /\ Promoting(z)' <=> Promoting(z)
             /\ Retiring(z)' <=> Retiring(z)
             /\ Replaced(z)' <=> Replaced(z)
  <2>1. \A v \in Worker : /\ call'[v].op = "promote" /\ call'[v].strategy = z <=>
                               call[v].op = "promote" /\ call[v].strategy = z
                          /\ call'[v].at # "idle" /\ call'[v].strategy = z => v # w
                          /\ call[v].strategy = z => v # w
    BY <1>1, <1>5 DEF Waits
  <2>2. Promoting(z)' <=> Promoting(z)
    BY <2>1 DEF Promoting
  <2>3. Retiring(z)' <=> Retiring(z)
    BY <1>1, <2>1 DEF Retiring, Waits
  <2>4. Replaced(z)' <=> Replaced(z)
    BY <1>1, <2>1 DEF Replaced, Waits
  <2>5. QED BY <2>2, <2>3, <2>4
<1>6. \A v \in Worker : call[v].at = "retirePrevious" => call[v].op = "promote"
  BY <1>3, <1>4 DEF StagesFit
<1>7. \A v \in Worker : v # w => /\ call'[v].op = call[v].op /\ call'[v].at = call[v].at
                               /\ call'[v].strategy = call[v].strategy
  BY <1>1 DEF Waits
<1>8. /\ at # "activate" => (Retiring(y)' => Retiring(y))
      /\ previous[y] # None => (Retiring(y) => Promoting(y))
      /\ Replaced(y)' => Replaced(y) \/ at = "restore"
  <2>1. at # "activate" => (Retiring(y)' => Retiring(y))
    <3>1. at # "activate" => call'[w].at # "retirePrevious"
      BY <1>2
    <3>2. QED BY <1>7, <3>1 DEF Retiring
  <2>2. Retiring(y) => Promoting(y)
    BY <1>6 DEF Retiring, Promoting
  <2>3. Replaced(y)' => Replaced(y) \/ at = "restore"
    <3>1. at # "restore" => call'[w].at \notin {"noteRestored", "rollBack"}
      BY <1>2
    <3>2. QED BY <1>7, <3>1 DEF Replaced
  <2>4. QED BY <2>1, <2>2, <2>3
<1>9. at = "rollBack" => Replaced(y)
  BY DEF Replaced
<1>10. at \in {"activate", "retirePrevious", "undo"} => Promoting(y)
  BY <1>2 DEF Promoting
<1>11. at = "retirePrevious" => Retiring(y)
  BY DEF Retiring
<1>12. ASSUME at \in {"retirePrevious", "undo"} PROVE ~Promoting(y)' /\ ~Retiring(y)'
  <2>1. \A v \in Worker : call[v].op = "promote" /\ call[v].strategy = y => v = w
    BY <1>2, <1>3, <1>12 DEF OnePromotes
  <2>2. call'[w].op = "none" /\ call'[w].at = "idle"
    BY <1>1, <1>2, <1>12
  <2>3. ~Promoting(y)'
    BY <1>7, <2>1, <2>2 DEF Promoting
  <2>4. ~Retiring(y)'
    BY <1>6, <1>7, <2>1, <2>2 DEF Retiring
  <2>5. QED BY <2>3, <2>4
<1>13. ASSUME at = "activate", previous[y] # None PROVE ~Replaced(y)
  <2>1. \A v \in Worker : call[v].at # "idle" /\ call[v].strategy = y => call[v].at = "activate"
    BY <1>2, <1>3, <1>13 DEF StagesFit
  <2>2. QED BY <2>1 DEF Replaced
<1>14. QED BY <1>5, <1>8, <1>9, <1>10, <1>11, <1>12, <1>13

\* After a save the chains are borne: a promotion that has activated its revision adds it,
\* the ones that retire or roll back a revision take it out, and what restores or retires
\* the strategy before gains or spares a bearer.
LEMMA BorneKeptSave ==
  ASSUME StrategiesInv, ChainInv, NEW w \in Worker, Strategies!Save(w), NEW G \in SUBSET Strategy, Borne(G)
  PROVE  \E H \in SUBSET Strategy : Borne(H)'
<1>1. PICK y \in Strategy : y = call[w].strategy
  BY SaveView
<1>2. PICK h \in Strategy : h = Strategies!Subject(call[w])
  BY SaveView
<1>3. PICK at : at = call[w].at
  OBVIOUS
<1>4. /\ \A s \in Strategy : s # h => rule'[s] = rule[s]
      /\ UNCHANGED previous
  BY <1>2, SaveView
<1>5. /\ at \in {"activate", "retirePrevious", "undo", "restore", "rollBack"}
      /\ at \in {"activate", "undo", "rollBack"} => h = y
      /\ at \in {"retirePrevious", "restore"} => h = previous[y] /\ h # y /\ rule[h] \notin Unborn
      /\ at = "activate" => rule[h] \in {"CANDIDATE", "RETIRED"} /\ rule'[h] = "ACTIVE"
      /\ at = "restore" => rule[h] = "RETIRED" /\ rule'[h] = "ACTIVE"
      /\ at \in {"retirePrevious", "undo"} => rule[h] = "ACTIVE" /\ rule'[h] = "RETIRED"
      /\ at = "rollBack" => rule[h] = "ACTIVE" /\ rule'[h] = "ROLLED_BACK"
      /\ at # "activate" => previous[y] # None
  BY <1>1, <1>2, <1>3, SaveJudged
<1>6. /\ \A z : z # y => /\ Promoting(z)' <=> Promoting(z)
                         /\ Retiring(z)' <=> Retiring(z)
                         /\ Replaced(z)' <=> Replaced(z)
      /\ at # "activate" => (Retiring(y)' => Retiring(y))
      /\ previous[y] # None => (Retiring(y) => Promoting(y))
      /\ Replaced(y)' => Replaced(y) \/ at = "restore"
      /\ at = "rollBack" => Replaced(y)
      /\ at \in {"activate", "retirePrevious", "undo"} => Promoting(y)
      /\ at = "retirePrevious" => Retiring(y)
      /\ at \in {"retirePrevious", "undo"} => ~Promoting(y)' /\ ~Retiring(y)'
      /\ at = "activate" /\ previous[y] # None => ~Replaced(y)
  BY <1>1, <1>3, SaveMoves
<1>7. LinksFit
  BY DEF ChainInv
<1>8. \A x \in G : x \in Strategy /\ x # None /\ rule[x] \in {"ACTIVE", "RETIRED"}
  BY ServicesAssumption DEF Borne
<1>9. \A s \in Strategy : previous[s] = None /\ rule[s] \notin Unborn => s \in G
  BY DEF Borne
<1>10. CASE at = "activate"
  <2> DEFINE H == G \cup {y}
  <2>1. ASSUME NEW x \in G
        PROVE  Cardinality(Bearers(H, x))' >= Cardinality(Claims(H, x))' + Vacancy(x)'
    <3>1. Bearers(G, x) \subseteq Bearers(H, x)' /\ Claims(H, x)' \subseteq Claims(G, x)
      BY <1>4, <1>6, <1>8, <1>10 DEF Bearers, Claims
    <3>2. rule'[x] \in {rule[x], "ACTIVE"}
      BY <1>4, <1>5, <1>8, <1>10
    <3>3. QED BY <3>1, <3>2, BorneStands
  <2>2. ASSUME y \notin G
        PROVE  Cardinality(Bearers(H, y))' >= Cardinality(Claims(H, y))' + Vacancy(y)'
    <3>1. rule[y] = "CANDIDATE" /\ rule'[y] = "ACTIVE"
      <4>1. rule[y] = "CANDIDATE" \/ previous[y] = None
        BY <1>1, <1>3, <1>10, SaveJudged
      <4>2. QED BY <1>5, <1>9, <1>10, <2>2, <4>1 DEF Unborn
    <3>2. \A z \in Strategy : previous[z] # y
      BY <1>7, <3>1 DEF LinksFit, Unborn
    <3>3. Bearers(H, y)' = {} /\ Claims(H, y)' = {} /\ Vacancy(y)' = 0
      BY <1>4, <3>1, <3>2 DEF Bearers, Claims, Vacancy
    <3>4. Cardinality({}) = 0 /\ 0 >= 0 + 0
      BY FS_EmptySet
    <3>5. QED BY <3>3, <3>4
  <2>3. \A x \in H : rule'[x] \in {"ACTIVE", "RETIRED"}
    BY <1>4, <1>5, <1>8, <1>10
  <2>4. \A s \in Strategy : previous'[s] = None /\ rule'[s] \notin Unborn => s \in H
    BY <1>4, <1>5, <1>9, <1>10
  <2>5. H \in SUBSET Strategy
    OBVIOUS
  <2>6. QED BY <2>1, <2>2, <2>3, <2>4, <2>5 DEF Borne
<1>11. CASE at \in {"undo", "rollBack"}
  <2> DEFINE H == G \ {y}
  <2>1. ASSUME NEW x \in H
        PROVE  Cardinality(Bearers(H, x))' >= Cardinality(Claims(H, x))' + Vacancy(x)'
    <3>1. Bearers(G, x) \subseteq Bearers(H, x)' /\ Claims(H, x)' \subseteq Claims(G, x)
      BY <1>4, <1>6, <1>8, <1>11 DEF Bearers, Claims
    <3>2. rule'[x] = rule[x]
      BY <1>4, <1>5, <1>8, <1>11
    <3>3. QED BY <2>1, <3>1, <3>2, BorneStands
  <2>2. \A x \in H : rule'[x] \in {"ACTIVE", "RETIRED"}
    BY <1>4, <1>5, <1>8, <1>11
  <2>3. \A s \in Strategy : previous'[s] = None /\ rule'[s] \notin Unborn => s \in H
    BY <1>4, <1>5, <1>9, <1>11
  <2>4. H \in SUBSET Strategy
    OBVIOUS
  <2>5. QED BY <2>1, <2>2, <2>3, <2>4 DEF Borne
<1>12. CASE at \in {"retirePrevious", "restore"}
  <2>1. ASSUME NEW x \in G, x # h
        PROVE  Cardinality(Bearers(G, x))' >= Cardinality(Claims(G, x))' + Vacancy(x)'
    <3>1. Bearers(G, x) \subseteq Bearers(G, x)' /\ Claims(G, x)' \subseteq Claims(G, x)
      BY <1>4, <1>5, <1>6, <1>12, <2>1 DEF Bearers, Claims
    <3>2. rule'[x] = rule[x]
      BY <1>4, <1>8, <2>1
    <3>3. QED BY <3>1, <3>2, BorneStands
  <2>2. ASSUME h \in G
        PROVE  Cardinality(Bearers(G, h))' >= Cardinality(Claims(G, h))' + Vacancy(h)'
    <3> DEFINE B == Bearers(G, h)
               C == Claims(G, h)
               D == Bearers(G, h)'
               E == Claims(G, h)'
    <3>1. B \in SUBSET Strategy /\ C \in SUBSET Strategy /\ D \in SUBSET Strategy /\ E \in SUBSET Strategy
      BY DEF Bearers, Claims
    <3>2. Cardinality(B) >= Cardinality(C) + Vacancy(h)
      BY <2>2 DEF Borne
    <3>3. Cardinality(D) \in Nat /\ Cardinality(E) \in Nat /\ Cardinality(B) \in Nat /\ Cardinality(C) \in Nat
      BY <3>1, ServicesAssumption, FS_Subset, FS_CardinalityType
    <3>4. CASE at = "retirePrevious"
      <4>1. B \subseteq D /\ E \subseteq C
        BY <1>4, <1>6, <3>4 DEF Bearers, Claims
      <4>2. y \in D \ B \/ y \in C \ E
        BY <1>4, <1>5, <1>6, <3>4 DEF Bearers, Claims
      <4>3. Vacancy(h) = 0 /\ Vacancy(h)' = 1
        BY <1>5, <3>4 DEF Vacancy
      <4> HIDE DEF B, C, D, E
      <4>4. Cardinality(B) >= Cardinality(C)
        BY <3>2, <3>3, <4>3
      <4>5. Cardinality(D) >= Cardinality(E) + 1
        BY <3>1, <4>1, <4>2, <4>4, Outweigh
      <4>6. QED BY <4>3, <4>5 DEF D, E
    <3>5. CASE at = "restore"
      <4>1. B \ {y} \subseteq D /\ E \ {y} \subseteq C
        BY <1>4, <1>6, <3>5 DEF Bearers, Claims
      <4>2. ~(y \in B /\ y \in E)
        BY <1>5, <1>6, <3>5 DEF Bearers, Claims
      <4>3. Vacancy(h) = 1 /\ Vacancy(h)' = 0
        BY <1>5, <3>5 DEF Vacancy
      <4> HIDE DEF B, C, D, E
      <4>4. Cardinality(B) >= Cardinality(C) + 1
        BY <3>2, <4>3
      <4>5. Cardinality(D) >= Cardinality(E)
        BY <3>1, <4>1, <4>2, <4>4, Spare
      <4>6. Cardinality(D) >= Cardinality(E) + 0
        BY <3>3, <4>5
      <4>7. QED BY <4>3, <4>6 DEF D, E
    <3>6. QED BY <1>12, <3>4, <3>5
  <2>3. \A x \in G : rule'[x] \in {"ACTIVE", "RETIRED"}
    BY <1>4, <1>5, <1>8, <1>12
  <2>4. \A s \in Strategy : previous'[s] = None /\ rule'[s] \notin Unborn => s \in G
    BY <1>4, <1>5, <1>9, <1>12
  <2>5. QED BY <2>1, <2>2, <2>3, <2>4 DEF Borne
<1>13. QED BY <1>5, <1>10, <1>11, <1>12

\* The restorations of a step that touches one of them.
LEMMA NotesKeepLinks ==
  ASSUME StrategiesInv, NEW r \in Restoration, NEW state,
         restoration' = [restoration EXCEPT ![r].state = state]
  PROVE  \A q \in Restoration : restoration'[q].current = restoration[q].current
<1>1. restoration \in [Restoration -> [current : Strategy \cup {None},
           state : {"none", "prepared", "previous_restored", "cleanup_required", "complete"}]]
  BY DEF StrategiesInv, Strategies!TypeOK
<1>2. QED BY <1>1

LEMMA ChainKeptLoad ==
  ASSUME StrategiesInv, ChainInv, NEW w \in Worker, Strategies!Load(w)
  PROVE  ChainInv'
<1>1. PICK c \in Strategies!Call : c = call[w]
  BY DEF StrategiesInv, Strategies!TypeOK
<1>2. call \in [Worker -> Strategies!Call]
  BY DEF StrategiesInv, Strategies!TypeOK
<1>3. /\ call' = [call EXCEPT ![w] = [c EXCEPT !.held = Strategies!Subject(call[w])]]
      /\ Strategies!Target[call[w].at] \in Strategies!Allowed[rule[Strategies!Subject(call[w])]]
      /\ UNCHANGED <<rule, previous, restoration, tangled>>
  <2>1. call' = [call EXCEPT ![w].held = Strategies!Subject(call[w])]
    BY DEF Strategies!Load
  <2>2. QED BY <1>1, <2>1 DEF Strategies!Load, Strategies!Permitted
<1> DEFINE d == [c EXCEPT !.held = Strategies!Subject(call[w])]
<1>4. /\ d.op = call[w].op /\ d.at = call[w].at /\ d.strategy = call[w].strategy
      /\ d.held = Strategies!Subject(call[w])
  BY <1>1 DEF Strategies!Call
<1>5. call'[w] = d /\ \A v \in Worker : v # w => call'[v] = call[v]
  BY <1>2, <1>3
<1> HIDE DEF d
<1>6. \A v \in Worker :
        /\ call'[v].op = call[v].op /\ call'[v].at = call[v].at /\ call'[v].strategy = call[v].strategy
        /\ \/ call'[v].held \in {call[v].held, "outdated"}
           \/ call'[v].held = Strategies!Subject(call[v]) /\ Strategies!Target[call[v].at] \in Strategies!Allowed[rule[Strategies!Subject(call[v])]]
  BY <1>3, <1>4, <1>5
<1>7. QED BY <1>3, <1>6, ChainKeptWaiting

LEMMA ChainKeptRefused ==
  ASSUME StrategiesInv, ChainInv, NEW w \in Worker, Strategies!Refused(w)
  PROVE  ChainInv'
<1>1. PICK stage : stage = Strategies!Otherwise(call[w])
  OBVIOUS
<1>2. /\ call' = [call EXCEPT ![w] = Strategies!GoOn(call[w], stage)]
      /\ UNCHANGED <<rule, previous, restoration, tangled>>
  BY <1>1 DEF Strategies!Refused
<1>3. /\ stage \in {"idle"} \cup DOMAIN Strategies!Target \cup DOMAIN Strategies!Notes
      /\ \/ stage = "idle"
         \/ call[w].at = "retirePrevious" /\ stage = "undo"
         \/ call[w].at = "noteRestored" /\ stage = "rollBack"
         \/ call[w].at = "rollBack" /\ call[w].op = "rollback" /\ stage = "noteCleanup"
  BY <1>1 DEF Strategies!Otherwise, Strategies!Target, Strategies!Notes
<1>4. QED BY <1>2, <1>3, ChainKeptGoing

LEMMA ChainKeptNote ==
  ASSUME StrategiesInv, ChainInv, NEW w \in Worker, Strategies!Note(w)
  PROVE  ChainInv'
<1>1. PICK stage : stage = Strategies!After(call[w])
  OBVIOUS
<1>2. /\ call[w].at \in {"noteRestored", "noteCleanup", "noteComplete"}
      /\ call' = [call EXCEPT ![w] = Strategies!GoOn(call[w], stage)]
      /\ UNCHANGED <<rule, previous, tangled>>
  BY <1>1 DEF Strategies!Note, Strategies!Notes
<1>3. /\ stage \in {"idle"} \cup DOMAIN Strategies!Target \cup DOMAIN Strategies!Notes
      /\ \/ stage = "idle"
         \/ call[w].at = "noteRestored" /\ stage = "rollBack"
  BY <1>1, <1>2 DEF Strategies!After, Strategies!Target, Strategies!Notes
<1>4. \A r \in Restoration : restoration'[r].current = restoration[r].current
  <2>1. restoration \in [Restoration -> [current : Strategy \cup {None},
             state : {"none", "prepared", "previous_restored", "cleanup_required", "complete"}]]
    BY DEF StrategiesInv, Strategies!TypeOK
  <2>2. PICK q, st : restoration' = [restoration EXCEPT ![q].state = st]
    BY DEF Strategies!Note
  <2>3. QED BY <2>1, <2>2
<1>5. QED BY <1>2, <1>3, <1>4, ChainKeptGoing

LEMMA ChainKeptPromote ==
  ASSUME StrategiesInv, ChainInv, NEW w \in Worker, NEW s \in Strategy, Strategies!Promote(w, s)
  PROVE  ChainInv'
<1>1. PICK c : c = [Strategies!Idle EXCEPT !.op = "promote", !.strategy = s, !.at = "activate"]
  OBVIOUS
<1>2. c \in Strategies!Call /\ c.op = "promote" /\ c.strategy = s /\ c.at = "activate" /\ c.held = None
  BY <1>1 DEF Strategies!Idle, Strategies!Call, Strategies!Target
<1>3. /\ call[w].op = "none" /\ call' = [call EXCEPT ![w] = c] /\ rule[s] # "absent"
      /\ previous[s] # None => Strategies!Unlocked("promote", s) /\ rule[s] = "CANDIDATE"
      /\ UNCHANGED <<rule, previous, restoration>>
      /\ tangled => tangled'
  <2>1. call[w].op = "none"
    BY DEF Strategies!Promote, Strategies!Idle
  <2>2. tangled => tangled'
    BY DEF Strategies!Promote
  <2>3. QED BY <1>1, <2>1, <2>2 DEF Strategies!Promote
<1>4. QED BY <1>2, <1>3, ChainKeptBeginning

LEMMA ChainKeptRollback ==
  ASSUME StrategiesInv, ChainInv, NEW w \in Worker, NEW s \in Strategy, NEW r \in Restoration,
         Strategies!Rollback(w, s, r)
  PROVE  ChainInv'
<1>1. PICK c : c = [Strategies!Idle EXCEPT !.op = "rollback", !.strategy = s, !.at = "restore", !.tx = r]
  OBVIOUS
<1>2. c \in Strategies!Call /\ c.op = "rollback" /\ c.strategy = s /\ c.at = "restore" /\ c.held = None
  BY <1>1 DEF Strategies!Idle, Strategies!Call, Strategies!Target
<1>3. PICK state : restoration' = [restoration EXCEPT ![r] = [current |-> s, state |-> state]]
  BY DEF Strategies!Rollback
<1>4. /\ call[w].op = "none" /\ previous[s] # None /\ UNCHANGED <<rule, previous>>
      /\ tangled => tangled'
      /\ \/ call' = call
         \/ call' = [call EXCEPT ![w] = c] /\ rule[s] = "ACTIVE"
  <2>1. call[w].op = "none"
    BY DEF Strategies!Rollback, Strategies!Idle
  <2>2. tangled => tangled'
    BY DEF Strategies!Rollback
  <2>3. QED BY <1>1, <2>1, <2>2 DEF Strategies!Rollback
<1>5. \A q \in Restoration : \/ restoration'[q].current = restoration[q].current
                             \/ restoration'[q].current = s /\ previous[s] # None
  <2>1. restoration \in [Restoration -> [current : Strategy \cup {None},
             state : {"none", "prepared", "previous_restored", "cleanup_required", "complete"}]]
    BY DEF StrategiesInv, Strategies!TypeOK
  <2>2. restoration'[r].current = s /\ \A q \in Restoration : q # r => restoration'[q] = restoration[q]
    BY <1>3, <2>1
  <2>3. QED BY <1>4, <2>2
<1>6. CASE call' = call
  BY <1>4, <1>5, <1>6, ChainKeptWaiting
<1>7. CASE call' = [call EXCEPT ![w] = c] /\ rule[s] = "ACTIVE"
  BY <1>2, <1>4, <1>5, <1>7, ChainKeptBeginning
<1>8. QED BY <1>4, <1>6, <1>7

LEMMA ChainKeptReconcile ==
  ASSUME StrategiesInv, ChainInv, NEW w \in Worker, NEW r \in Restoration, Strategies!Reconcile(w, r)
  PROVE  ChainInv'
<1>1. PICK s : s = restoration[r].current
  OBVIOUS
<1>2. s \in Strategy /\ previous[s] # None
  <2>1. restoration[r] \in [current : Strategy \cup {None},
             state : {"none", "prepared", "previous_restored", "cleanup_required", "complete"}]
    BY DEF StrategiesInv, Strategies!TypeOK
  <2>2. s # None
    BY <1>1 DEF Strategies!Reconcile
  <2>3. QED BY <1>1, <2>1, <2>2 DEF ChainInv, LinksFit
<1>3. PICK c : c = [Strategies!Idle EXCEPT !.op = "reconcile", !.strategy = s, !.at = "rollBack", !.tx = r]
  OBVIOUS
<1>4. c \in Strategies!Call /\ c.op = "reconcile" /\ c.strategy = s /\ c.at = "rollBack" /\ c.held = None
  BY <1>2, <1>3 DEF Strategies!Idle, Strategies!Call, Strategies!Target
<1>5. /\ call[w].op = "none" /\ rule[previous[s]] = "ACTIVE" /\ UNCHANGED <<rule, previous>>
      /\ \/ /\ restoration' = [restoration EXCEPT ![r].state = "complete"]
            /\ UNCHANGED <<call, tangled>>
         \/ /\ rule[s] = "ACTIVE" /\ call' = [call EXCEPT ![w] = c]
            /\ tangled' = (tangled \/ Strategies!Meets(s))
            /\ UNCHANGED restoration
  BY <1>1, <1>3 DEF Strategies!Reconcile, Strategies!Idle
<1>6. CASE /\ restoration' = [restoration EXCEPT ![r].state = "complete"]
           /\ UNCHANGED <<call, tangled>>
  <2>1. \A q \in Restoration : restoration'[q].current = restoration[q].current
    BY <1>6, NotesKeepLinks
  <2>2. QED BY <1>5, <1>6, <2>1, ChainKeptWaiting
<1>7. CASE /\ rule[s] = "ACTIVE" /\ call' = [call EXCEPT ![w] = c]
           /\ tangled' = (tangled \/ Strategies!Meets(s))
           /\ UNCHANGED restoration
  <2>1. /\ tangled => tangled'
        /\ ~tangled' => ~Strategies!Meets(s)
    BY <1>7
  <2>2. QED BY <1>2, <1>4, <1>5, <1>7, <2>1, ChainKeptBeginning
<1>8. QED BY <1>5, <1>6, <1>7

LEMMA ChainKeptOutcome ==
  ASSUME StrategiesInv, ChainInv, NEW s \in Strategy, NEW passed \in BOOLEAN, Strategies!RecordOutcome(s, passed)
  PROVE  ChainInv'
<1>1. /\ call' = Strategies!Outdated(s, call) /\ UNCHANGED <<rule, previous, restoration, tangled>>
      /\ call \in [Worker -> Strategies!Call]
  BY DEF Strategies!RecordOutcome, StrategiesInv, Strategies!TypeOK
<1>2. \A v \in Worker :
        /\ call'[v].op = call[v].op /\ call'[v].at = call[v].at /\ call'[v].strategy = call[v].strategy
        /\ call'[v].held \in {call[v].held, "outdated"}
  BY <1>1, OthersWait
<1>3. QED BY <1>1, <1>2, ChainKeptWaiting

LEMMA ChainKeptCrash ==
  ASSUME StrategiesInv, ChainInv, NEW w \in Worker, Strategies!Crash(w)
  PROVE  ChainInv'
<1>1. /\ call' = [call EXCEPT ![w] = Strategies!GoOn(call[w], "idle")]
      /\ UNCHANGED <<rule, previous, restoration, tangled>>
  BY DEF Strategies!Crash, Strategies!GoOn
<1>2. QED BY <1>1, ChainKeptGoing

LEMMA ChainKept == StrategiesInv /\ ChainInv /\ [Strategies!Next]_Strategies!vars => ChainInv'
<1> SUFFICES ASSUME StrategiesInv, ChainInv, [Strategies!Next]_Strategies!vars PROVE ChainInv'
  OBVIOUS
<1>1. CASE UNCHANGED Strategies!vars
  BY <1>1, ChainKeptWaiting DEF Strategies!vars
<1>2. ASSUME NEW w \in Worker, Strategies!Step(w) PROVE ChainInv'
  <2>1. CASE Strategies!Load(w)
    BY <2>1, ChainKeptLoad
  <2>2. CASE Strategies!Save(w)
    <3>1. StagesFit' /\ CopiesJudged' /\ OnePromotes' /\ LinksFit' /\ Rooted'
      BY <2>2, ShapeKeptSave
    <3>2. tangled' = tangled
      BY <2>2 DEF Strategies!Save
    <3>3. ~tangled' => (\E G \in SUBSET Strategy : Borne(G))'
      BY <2>2, <3>2, BorneKeptSave DEF ChainInv
    <3>4. QED BY <3>1, <3>3 DEF ChainInv
  <2>3. CASE Strategies!Refused(w)
    BY <2>3, ChainKeptRefused
  <2>4. CASE Strategies!Note(w)
    BY <2>4, ChainKeptNote
  <2>5. QED BY <1>2, <2>1, <2>2, <2>3, <2>4 DEF Strategies!Step
<1>3. ASSUME NEW w \in Worker, Strategies!Crash(w) PROVE ChainInv'
  BY <1>3, ChainKeptCrash
<1>4. ASSUME NEW w \in Worker, NEW s \in Strategy, Strategies!Promote(w, s) PROVE ChainInv'
  BY <1>4, ChainKeptPromote
<1>5. ASSUME NEW w \in Worker, NEW s \in Strategy, NEW r \in Restoration, Strategies!Rollback(w, s, r)
      PROVE  ChainInv'
  BY <1>5, ChainKeptRollback
<1>6. ASSUME NEW w \in Worker, NEW r \in Restoration, Strategies!Reconcile(w, r) PROVE ChainInv'
  BY <1>6, ChainKeptReconcile
<1>7. ASSUME NEW s \in Strategy, NEW p \in Strategy \cup {None}, NEW fit \in BOOLEAN, Strategies!Derive(s, p, fit)
      PROVE  ChainInv'
  BY <1>7, ChainKeptDerive
<1>8. ASSUME NEW s \in Strategy, NEW passed \in BOOLEAN, Strategies!RecordOutcome(s, passed) PROVE ChainInv'
  BY <1>8, ChainKeptOutcome
<1>9. QED BY <1>1, <1>2, <1>3, <1>4, <1>5, <1>6, <1>7, <1>8 DEF Strategies!Next

\* What is borne keeps a strategy of every chain in force.
LEMMA ChainShows == StrategiesInv /\ ChainInv => Strategies!ChainStaysInForce
<1> SUFFICES ASSUME StrategiesInv, ChainInv, ~tangled, NEW s \in Strategy,
                    rule[s] \in {"RETIRED", "ROLLED_BACK"}
             PROVE  \E t \in Strategy : Strategies!SameChain(s, t) /\ rule[t] = "ACTIVE"
  BY DEF Strategies!ChainStaysInForce
<1>1. PICK G \in SUBSET Strategy : Borne(G)
  BY DEF ChainInv
<1>2. Rooted /\ rule[s] \notin Unborn
  BY DEF ChainInv, Unborn
<1>3. QED BY <1>1, <1>2, BorneIsInForce

(***************************************************************************)
(* Beliefs. The status is saved apart from the content, so neither of the  *)
(* two alone can be relied on; the proof rests on the content, which only  *)
(* a save changes, and on what a review that is about to save has seen.    *)
(***************************************************************************)

\* A review whose copy is of the revision on disk has not seen a contradiction.
Unaware ==
  \A w \in Worker :
    handling[w].at = "save" /\ handling[w].op = "review" /\ Beliefs!Untouched(w) => belief.state # "contradicted"

\* Workers at these stages have these calls.
StagesFitCalls ==
  \A w \in Worker :
    /\ handling[w].at \in {"load", "save"} => handling[w].op \in {"review", "contradict", "refresh"}
    /\ handling[w].at \in {"reload", "move"} => handling[w].op \in {"contradict", "refresh", "retire"}

BeliefInv ==
  /\ Beliefs!TypeOK
  /\ StagesFitCalls
  /\ Unaware
  /\ challenged => belief.state = "contradicted"

-----------------------------------------------------------------------------

LEMMA LaterIsExpiry ==
  ASSUME NEW x \in Beliefs!Expiry, NEW y \in Beliefs!Expiry PROVE Beliefs!Later(x, y) \in Beliefs!Expiry
BY DEF Beliefs!Later

\* What a call saves is a belief, of the state its operation stands for.
LEMMA ContentSaved ==
  ASSUME BeliefInv, NEW w \in Worker, handling[w].at = "save"
  PROVE  /\ Beliefs!Content(handling[w]) \in Beliefs!Belief
         /\ Beliefs!Content(handling[w]).status = belief.status
         /\ Beliefs!Content(handling[w]).state =
              CASE handling[w].op = "review" -> "stale"
                [] handling[w].op = "contradict" -> "contradicted"
                [] OTHER -> "known"
<1>1. /\ handling[w].op \in {"review", "contradict", "refresh"}
      /\ belief \in Beliefs!Belief /\ today \in Beliefs!Day
      /\ handling[w].expires \in Beliefs!Expiry /\ handling[w].evidence \in Beliefs!Expiry
      /\ belief.expires \in Beliefs!Expiry /\ belief.evidence \in Beliefs!Expiry
  BY DEF BeliefInv, StagesFitCalls, Beliefs!TypeOK, Beliefs!Handling, Beliefs!Belief
<1>2. Beliefs!Later(belief.evidence, handling[w].evidence) \in Beliefs!Expiry
  BY <1>1, LaterIsExpiry
<1>3. QED
  BY <1>1, <1>2 DEF Beliefs!Content, Beliefs!Belief

\* A save puts a belief in place and outdates everybody else's copy.
LEMMA BeliefSaved ==
  ASSUME BeliefInv, NEW w \in Worker, NEW b \in Beliefs!Belief, NEW next \in Beliefs!Handling,
         Beliefs!Saved(w, b, next), next.at \in {"idle", "reload"},
         next.at = "reload" => next.op \in {"contradict", "refresh", "retire"}
  PROVE  /\ belief' \in Beliefs!Belief
         /\ handling' \in [Worker -> Beliefs!Handling]
         /\ StagesFitCalls' /\ Unaware'
<1>1. /\ belief' \in Beliefs!Belief
      /\ handling' \in [Worker -> Beliefs!Handling]
  BY DEF BeliefInv, Beliefs!TypeOK, Beliefs!Saved, Beliefs!Handling
<1>2. ASSUME NEW v \in Worker
      PROVE  /\ v = w => handling'[v] = next
             /\ v # w => /\ handling'[v].at = handling[v].at
                         /\ handling'[v].op = handling[v].op
                         /\ handling'[v].current = FALSE
  BY DEF BeliefInv, Beliefs!TypeOK, Beliefs!Saved, Beliefs!Handling
<1>3. StagesFitCalls'
  BY <1>2 DEF BeliefInv, StagesFitCalls
<1>4. Unaware'
  BY <1>2 DEF Unaware, Beliefs!Untouched
<1>5. QED BY <1>1, <1>3, <1>4

\* A step that changes one worker's call and leaves the belief alone.
LEMMA BeliefRests ==
  ASSUME BeliefInv, NEW w \in Worker, NEW next \in Beliefs!Handling,
         handling' = [handling EXCEPT ![w] = next], UNCHANGED belief,
         next.at \in {"load", "save"} => next.op \in {"review", "contradict", "refresh"},
         next.at \in {"reload", "move"} => next.op \in {"contradict", "refresh", "retire"},
         next.at = "save" /\ next.op = "review" => belief.state # "contradicted"
  PROVE  handling' \in [Worker -> Beliefs!Handling] /\ StagesFitCalls' /\ Unaware'
<1>1. handling' \in [Worker -> Beliefs!Handling]
  BY DEF BeliefInv, Beliefs!TypeOK
<1>2. ASSUME NEW v \in Worker PROVE handling'[v] = IF v = w THEN next ELSE handling[v]
  BY DEF BeliefInv, Beliefs!TypeOK
<1>3. StagesFitCalls'
  BY <1>2 DEF BeliefInv, StagesFitCalls
<1>4. Unaware'
  BY <1>2 DEF BeliefInv, Unaware, Beliefs!Untouched
<1>5. QED BY <1>1, <1>3, <1>4

-----------------------------------------------------------------------------

LEMMA BeliefStarts == ASSUME Beliefs!Init PROVE BeliefInv
<1>1. PICK expires \in {LastDay, Never}, evidence \in {LastDay, Never} :
        belief = [status |-> "ACTIVE", state |-> "inferred", observed |-> 0,
                  expires |-> expires, evidence |-> evidence]
  BY DEF Beliefs!Init
<1>2. belief \in Beliefs!Belief
  BY ServicesAssumption, <1>1 DEF Beliefs!Belief, Beliefs!Expiry, Beliefs!Day
<1>3. /\ handling = [w \in Worker |-> Beliefs!Free] /\ challenged = FALSE
      /\ today = 0 /\ beliefCalls = 0 /\ beliefCrashes = 0
  BY DEF Beliefs!Init
<1>4. Beliefs!Free \in Beliefs!Handling
  BY DEF Beliefs!Free, Beliefs!Handling, Beliefs!Stages, Beliefs!Expiry
<1>5. Beliefs!TypeOK
  <2>1. handling \in [Worker -> Beliefs!Handling]
    BY <1>3, <1>4
  <2>2. 0 \in Beliefs!Day /\ 0 \in 0 .. MaxBeliefCalls /\ 0 \in 0 .. MaxBeliefCrashes
    BY ServicesAssumption DEF Beliefs!Day
  <2>3. challenged \in BOOLEAN
    BY <1>3
  <2>4. QED BY <1>2, <1>3, <2>1, <2>2, <2>3 DEF Beliefs!TypeOK
<1>6. StagesFitCalls /\ Unaware
  BY <1>3 DEF StagesFitCalls, Unaware, Beliefs!Free
<1>7. QED BY <1>3, <1>5, <1>6 DEF BeliefInv

LEMMA BeliefKept == ASSUME BeliefInv, [Beliefs!Next]_Beliefs!vars PROVE BeliefInv'
<1>0. /\ belief \in Beliefs!Belief /\ today \in Beliefs!Day /\ challenged \in BOOLEAN
      /\ handling \in [Worker -> Beliefs!Handling]
      /\ beliefCalls \in 0 .. MaxBeliefCalls /\ beliefCrashes \in 0 .. MaxBeliefCrashes
      /\ challenged => belief.state = "contradicted"
  BY DEF BeliefInv, Beliefs!TypeOK
<1>1. ASSUME NEW w \in Worker, Beliefs!Done(w), UNCHANGED <<belief, today, challenged, beliefCalls>>,
             beliefCrashes' \in 0 .. MaxBeliefCrashes
      PROVE  BeliefInv'
  <2>1. Beliefs!Free \in Beliefs!Handling /\ Beliefs!Free.at = "idle"
    BY DEF Beliefs!Free, Beliefs!Handling, Beliefs!Stages, Beliefs!Expiry
  <2>2. handling' \in [Worker -> Beliefs!Handling] /\ StagesFitCalls' /\ Unaware'
    BY <1>1, <2>1, BeliefRests DEF Beliefs!Done
  <2>3. QED BY <1>0, <1>1, <2>2 DEF BeliefInv, Beliefs!TypeOK
<1>2. ASSUME NEW w \in Worker, NEW stage \in {"save", "move"},
             handling' = Beliefs!Go(w, stage), UNCHANGED <<belief, today, challenged, beliefCalls, beliefCrashes>>,
             stage = "save" => handling[w].op \in {"review", "contradict", "refresh"},
             stage = "move" => handling[w].op \in {"contradict", "refresh", "retire"},
             stage = "save" /\ handling[w].op = "review" => belief.state # "contradicted"
      PROVE  BeliefInv'
  <2> DEFINE next == [handling[w] EXCEPT !.at = stage, !.current = TRUE]
  <2>1. next \in Beliefs!Handling /\ next.at = stage /\ next.op = handling[w].op
    BY <1>0 DEF Beliefs!Handling, Beliefs!Stages
  <2>2. handling' = [handling EXCEPT ![w] = next]
    BY <1>0, <1>2 DEF Beliefs!Go, Beliefs!Handling
  <2>3. handling' \in [Worker -> Beliefs!Handling] /\ StagesFitCalls' /\ Unaware'
    <3> HIDE DEF next
    <3> QED BY <1>2, <2>1, <2>2, BeliefRests
  <2>4. QED BY <1>0, <1>2, <2>3 DEF BeliefInv, Beliefs!TypeOK
<1>3. ASSUME NEW w \in Worker, NEW op \in {"review", "contradict", "refresh", "retire"},
             NEW expires \in {LastDay, Never}, NEW evidence \in {LastDay, Never},
             Beliefs!Call(w, op, expires, evidence)
      PROVE  BeliefInv'
  <2> DEFINE next == [op |-> op, at |-> IF op = "retire" THEN "reload" ELSE "load", current |-> FALSE,
                      expires |-> expires, evidence |-> evidence]
  <2>1. next \in Beliefs!Handling
    BY ServicesAssumption DEF Beliefs!Handling, Beliefs!Stages, Beliefs!Expiry, Beliefs!Day
  <2>2. handling' \in [Worker -> Beliefs!Handling] /\ StagesFitCalls' /\ Unaware'
    BY <1>3, <2>1, BeliefRests DEF Beliefs!Call
  <2>3. beliefCalls' \in 0 .. MaxBeliefCalls
    BY ServicesAssumption, <1>0, <1>3 DEF Beliefs!Call
  <2>4. QED BY <1>0, <1>3, <2>2, <2>3 DEF BeliefInv, Beliefs!TypeOK, Beliefs!Call
<1>4. ASSUME NEW w \in Worker, Beliefs!Load(w) PROVE BeliefInv'
  <2>1. CASE handling' = Beliefs!Go(w, "save")
    <3>1. handling[w].op \in {"review", "contradict", "refresh"}
      BY <1>4 DEF Beliefs!Load, BeliefInv, StagesFitCalls
    <3>2. handling[w].op = "review" => belief.state # "contradicted"
      <4>1. handling[w].at = "load" /\ Beliefs!Go(w, "save")[w].at = "save" /\ Beliefs!Free.at = "idle"
        BY <1>0, <1>4 DEF Beliefs!Load, Beliefs!Go, Beliefs!Free, Beliefs!Handling
      <4>2. ~Beliefs!Done(w)
        BY <1>0, <2>1, <4>1 DEF Beliefs!Done
      <4>3. handling[w].op = "review" => Beliefs!Assessment(belief) = "stale"
        BY <1>4, <4>2 DEF Beliefs!Load
      <4>4. QED BY <4>3 DEF Beliefs!Assessment
    <3>3. QED BY <1>2, <1>4, <2>1, <3>1, <3>2 DEF Beliefs!Load
  <2>2. CASE Beliefs!Done(w)
    BY <1>0, <1>1, <1>4, <2>2 DEF Beliefs!Load
  <2>3. QED BY <1>4, <2>1, <2>2 DEF Beliefs!Load
<1>5. ASSUME NEW w \in Worker, Beliefs!Save(w) PROVE BeliefInv'
  <2> DEFINE next == IF Beliefs!ThenMoves(handling[w])
                     THEN [handling[w] EXCEPT !.at = "reload", !.current = FALSE] ELSE Beliefs!Free
  <2>1. /\ next \in Beliefs!Handling /\ next.at \in {"idle", "reload"}
        /\ next.at = "reload" => next.op \in {"contradict", "refresh", "retire"}
    BY <1>0 DEF Beliefs!Handling, Beliefs!Stages, Beliefs!Free, Beliefs!Expiry, Beliefs!ThenMoves
  <2>2. Beliefs!Content(handling[w]) \in Beliefs!Belief
    BY <1>5, ContentSaved DEF Beliefs!Save
  <2>3. /\ belief' \in Beliefs!Belief
        /\ handling' \in [Worker -> Beliefs!Handling]
        /\ StagesFitCalls' /\ Unaware'
    <3>1. Beliefs!Saved(w, Beliefs!Content(handling[w]), next)
      BY <1>5 DEF Beliefs!Save
    <3> HIDE DEF next
    <3> QED BY <2>1, <2>2, <3>1, BeliefSaved
  <2>4. belief' = Beliefs!Content(handling[w])
    BY <1>5 DEF Beliefs!Save, Beliefs!Saved
  <2>5. challenged' \in BOOLEAN /\ (challenged' => belief'.state = "contradicted")
    <3>1. handling[w].op \in {"review", "contradict", "refresh"}
      BY <1>5 DEF Beliefs!Save, BeliefInv, StagesFitCalls
    <3>2. CASE handling[w].op = "review"
      BY <1>0, <1>5, <3>2 DEF Beliefs!Save, BeliefInv, Unaware
    <3>3. CASE handling[w].op = "contradict"
      BY <1>5, <2>4, <3>3, ContentSaved DEF Beliefs!Save
    <3>4. CASE handling[w].op = "refresh"
      BY <1>5, <3>4 DEF Beliefs!Save
    <3>5. QED BY <3>1, <3>2, <3>3, <3>4
  <2>6. QED BY <1>0, <1>5, <2>3, <2>5 DEF BeliefInv, Beliefs!TypeOK, Beliefs!Save
<1>6. ASSUME NEW w \in Worker, Beliefs!Reload(w) PROVE BeliefInv'
  <2>1. handling[w].op \in {"contradict", "refresh", "retire"}
    BY <1>6 DEF Beliefs!Reload, BeliefInv, StagesFitCalls
  <2>2. QED BY <1>0, <1>1, <1>2, <1>6, <2>1 DEF Beliefs!Reload
<1>7. ASSUME NEW w \in Worker, Beliefs!Move(w) PROVE BeliefInv'
  <2> DEFINE moved == [belief EXCEPT !.status = Beliefs!Target(handling[w].op)]
  <2>1. moved \in Beliefs!Belief /\ moved.state = belief.state
    BY <1>0 DEF Beliefs!Belief, Beliefs!Target
  <2>2. Beliefs!Free \in Beliefs!Handling /\ Beliefs!Free.at = "idle"
    BY DEF Beliefs!Free, Beliefs!Handling, Beliefs!Stages, Beliefs!Expiry
  <2>3. Beliefs!Saved(w, moved, Beliefs!Free) /\ belief' = moved
    BY <1>7 DEF Beliefs!Move, Beliefs!Saved
  <2>4. belief' \in Beliefs!Belief /\ handling' \in [Worker -> Beliefs!Handling] /\ StagesFitCalls' /\ Unaware'
    <3> HIDE DEF moved
    <3> QED BY <2>1, <2>2, <2>3, BeliefSaved
  <2>5. QED BY <1>0, <1>7, <2>1, <2>3, <2>4 DEF BeliefInv, Beliefs!TypeOK, Beliefs!Move
<1>8. ASSUME NEW w \in Worker, Beliefs!Conflict(w) PROVE BeliefInv'
  BY <1>0, <1>1, <1>8 DEF Beliefs!Conflict
<1>9. ASSUME NEW w \in Worker, Beliefs!Die(w) PROVE BeliefInv'
  <2>1. beliefCrashes' \in 0 .. MaxBeliefCrashes
    BY ServicesAssumption, <1>0, <1>9 DEF Beliefs!Die
  <2>2. QED BY <1>1, <1>9, <2>1 DEF Beliefs!Die
<1>10. CASE Beliefs!PassDay
  <2>1. today' \in Beliefs!Day
    BY ServicesAssumption, <1>0, <1>10 DEF Beliefs!PassDay, Beliefs!Day
  <2>2. StagesFitCalls' /\ Unaware'
    BY <1>10 DEF Beliefs!PassDay, BeliefInv, StagesFitCalls, Unaware, Beliefs!Untouched
  <2>3. QED BY <1>0, <1>10, <2>1, <2>2 DEF Beliefs!PassDay, BeliefInv, Beliefs!TypeOK
<1>11. CASE UNCHANGED Beliefs!vars
  BY <1>11 DEF Beliefs!vars, BeliefInv, Beliefs!TypeOK, StagesFitCalls, Unaware, Beliefs!Untouched
<1>12. QED
  BY <1>3, <1>4, <1>5, <1>6, <1>7, <1>8, <1>9, <1>10, <1>11 DEF Beliefs!Next, Beliefs!Step

(***************************************************************************)
(* Objectives. A transition that is about to be saved may still be made as *)
(* long as its copy is the one on disk, a criterion that counts as passed  *)
(* was judged at the floor when it was recorded, and an objective at work  *)
(* has an attempt left, or an excuse or a recorder for it.                 *)
(***************************************************************************)

\* The cardinality that the part's module extends is this one.
LEMMA ObjectivesCounts == \A S : Objectives!Cardinality(S) = Cardinality(S)
  BY DEF Objectives!Cardinality, Cardinality

\* Calls at these stages are about an objective, and recorders only stop it.
CallsFitObjectives ==
  \A w \in Worker :
    /\ working[w].at # "idle" => working[w].of \in Objective
    /\ working[w].at = "save" => working[w].op \in {"attempt", "evaluate"}
    /\ working[w].op = "attempt" /\ working[w].at \in {"load", "move"} => working[w].target \in {"BLOCKED", "STALLED"}

\* Content about to be saved is of an objective that is still run or verified.
SavesAreDue ==
  \A w \in Worker : working[w].at = "save" /\ working[w].current =>
    objective[working[w].of].status = IF working[w].op = "attempt" THEN "RUNNING" ELSE "VERIFYING"

\* A transition about to be saved may still be made; of the cap that is known as long as
\* nothing else was made ready.
Due(c) ==
  /\ c.target \in Objectives!Moves[objective[c.of].status]
  /\ c.target = "PASSED" => Objectives!Passable(objective[c.of].criteria)
  /\ c.target = "READY" /\ ~c.overlapped /\ objective[c.of].status \notin Objectives!ActiveStates => Objectives!HasRoom(c.of)
TransitionsAreDue ==
  \A w \in Worker : working[w].at = "move" /\ working[w].current => Due(working[w])

\* Every criterion counted as passed, also of an objective that is not, was judged at the floor.
Judged(criteria) == \A k \in Crit : criteria[k].status = "passed" => Objectives!Suffices(criteria[k].basis, Floor)
CriteriaAreJudged == \A o \in Objective : Judged(objective[o].criteria)

PassedIsConcluded ==
  \A o \in Objective : objective[o].status = "PASSED" => Objectives!Conclusion(objective[o].criteria) = "PASSED"

\* An objective at work has an attempt left, or an excuse or a recorder for it.
IsRecorder(c, o) == c.op = "attempt" /\ c.of = o /\ c.at \in {"load", "move"}
Recorders(o) == {w \in Worker : IsRecorder(working[w], o)}
Ahead(o) == IF objective[o].status \in {"RUNNING", "WAITING"} THEN 1 ELSE 0
BudgetLeft ==
  \A o \in Objective : objective[o].attempts + Ahead(o) <= MaxAttempts + excused[o] + Cardinality(Recorders(o))

ObjectivesInv ==
  /\ Objectives!TypeOK
  /\ CallsFitObjectives /\ SavesAreDue /\ TransitionsAreDue
  /\ CriteriaAreJudged /\ PassedIsConcluded
  /\ BudgetLeft
  /\ Objectives!WorkIsCapped

-----------------------------------------------------------------------------

\* One element more, and one less.
LEMMA OneMoreOrLess ==
  ASSUME NEW T, IsFiniteSet(T), NEW S \in SUBSET T, NEW x
  PROVE  /\ IsFiniteSet(S) /\ Cardinality(S) \in Nat
         /\ Cardinality(S \cup {x}) = IF x \in S THEN Cardinality(S) ELSE Cardinality(S) + 1
         /\ Cardinality(S \ {x}) = IF x \in S THEN Cardinality(S) - 1 ELSE Cardinality(S)
<1>1. IsFiniteSet(S)
  BY FS_Subset
<1>2. Cardinality(S) \in Nat
  BY <1>1, FS_CardinalityType
<1>3. Cardinality(S \cup {x}) = IF x \in S THEN Cardinality(S) ELSE Cardinality(S) + 1
  BY <1>1, FS_AddElement
<1>4. Cardinality(S \ {x}) = IF x \in S THEN Cardinality(S) - 1 ELSE Cardinality(S)
  BY <1>1, FS_RemoveElement
<1>5. QED BY <1>1, <1>2, <1>3, <1>4

\* A criterion judged at one level is judged at every lower one.
LEMMA SufficesBelow ==
  ASSUME NEW low \in 0 .. 3, NEW high \in 0 .. 3, low <= high, NEW basis, Objectives!Suffices(basis, high)
  PROVE  Objectives!Suffices(basis, low)
BY DEF Objectives!Suffices

\* What may pass is what the criteria call passed.
LEMMA PassableIsPassed ==
  ASSUME NEW criteria, Objectives!Passable(criteria) PROVE Objectives!Conclusion(criteria) = "PASSED"
BY DEF Objectives!Passable, Objectives!Conclusion

\* What is neither waiting for its turn nor settled is what the cap counts, and nothing
\* but a move to READY adds to it.
LEMMA OnlyReadyIsCounted ==
  /\ \A s \in Objectives!Status : s \in Objectives!ActiveStates <=> s \notin {"QUEUED", "PASSED", "FAILED", "CANCELLED", "SUPERSEDED"}
  /\ \A s \in Objectives!Status : Objectives!Moves[s] \subseteq Objectives!Status
  /\ \A s \in Objectives!Status : \A target \in Objectives!Moves[s] :
       /\ s \notin Objectives!ActiveStates /\ target \in Objectives!ActiveStates => target = "READY"
       /\ target \in {"BLOCKED", "STALLED"} => s \in {"RUNNING", "WAITING"}
       /\ target = "WAITING" => s = "RUNNING"
BY DEF Objectives!Status, Objectives!Moves, Objectives!ActiveStates

-----------------------------------------------------------------------------

\* A step of one worker, saving or not, leaves the others at what they do.
LEMMA RecordersChange ==
  ASSUME NEW w \in Worker, NEW o,
         \A v \in Worker \ {w} : /\ working'[v].op = working[v].op /\ working'[v].of = working[v].of
                                 /\ working'[v].at = working[v].at
  PROVE  /\ Cardinality(Recorders(o)) \in Nat
         /\ Cardinality(Recorders(o)') \in Nat
         /\ Cardinality(Recorders(o)') =
              Cardinality(Recorders(o)) + (IF IsRecorder(working'[w], o) THEN 1 ELSE 0)
                                        - (IF IsRecorder(working[w], o) THEN 1 ELSE 0)
<1>1. Recorders(o) \in SUBSET Worker /\ IsFiniteSet(Worker)
  BY ServicesAssumption DEF Recorders
<1>2. Recorders(o)' = IF IsRecorder(working'[w], o) THEN Recorders(o) \cup {w} ELSE Recorders(o) \ {w}
  BY DEF Recorders, IsRecorder
<1>3. w \in Recorders(o) <=> IsRecorder(working[w], o)
  BY DEF Recorders
<1>4. /\ Cardinality(Recorders(o)) \in Nat
      /\ Cardinality(Recorders(o) \cup {w}) = IF w \in Recorders(o) THEN Cardinality(Recorders(o)) ELSE Cardinality(Recorders(o)) + 1
      /\ Cardinality(Recorders(o) \ {w}) = IF w \in Recorders(o) THEN Cardinality(Recorders(o)) - 1 ELSE Cardinality(Recorders(o))
  BY <1>1, OneMoreOrLess
<1>5. QED
  <2> DEFINE n == Cardinality(Recorders(o))
             isNow == IsRecorder(working'[w], o)
             was == IsRecorder(working[w], o)
  <2>1. n \in Nat /\ Cardinality(Recorders(o)') = (IF isNow THEN IF was THEN n ELSE n + 1 ELSE IF was THEN n - 1 ELSE n)
    BY <1>2, <1>3, <1>4
  <2>a. Recorders(o)' \in SUBSET Worker
    BY DEF Recorders
  <2>b. Cardinality(Recorders(o)') \in Nat
    BY <1>1, <2>a, OneMoreOrLess
  <2> HIDE DEF n, isNow, was
  <2>2. Cardinality(Recorders(o)') = n + (IF isNow THEN 1 ELSE 0) - (IF was THEN 1 ELSE 0)
    BY <2>1
  <2>3. QED BY <2>1, <2>2, <2>b DEF n, isNow, was

\* A save of an objective, of its content or of its status.
LEMMA ObjectiveSaved ==
  ASSUME ObjectivesInv, NEW w \in Worker, NEW o \in Objective, NEW changed \in Objectives!Objectives,
         NEW next \in Objectives!Working, Objectives!Saved(w, o, changed, next),
         ~(next.current /\ next.at \in {"save", "move"}), next.at # "save",
         next.at # "idle" => next.of \in Objective,
         next.op = "attempt" /\ next.at \in {"load", "move"} => next.target \in {"BLOCKED", "STALLED"},
         changed.status = objective[o].status \/ changed.status \in Objectives!Moves[objective[o].status],
         Judged(changed.criteria),
         changed.status = "PASSED" => Objectives!Conclusion(changed.criteria) = "PASSED"
  PROVE  /\ objective' \in [Objective -> Objectives!Objectives]
         /\ objective'[o] = changed
         /\ \A p \in Objective \ {o} : objective'[p] = objective[p]
         /\ working' \in [Worker -> Objectives!Working] /\ working'[w] = next
         /\ \A v \in Worker \ {w} : /\ working'[v].op = working[v].op /\ working'[v].of = working[v].of
                                    /\ working'[v].at = working[v].at
         /\ CallsFitObjectives' /\ SavesAreDue' /\ TransitionsAreDue'
         /\ CriteriaAreJudged' /\ PassedIsConcluded'
<1>0. /\ objective \in [Objective -> Objectives!Objectives] /\ working \in [Worker -> Objectives!Working]
  BY DEF ObjectivesInv, Objectives!TypeOK
<1>s. /\ objective' = [objective EXCEPT ![o] = changed]
      /\ working' = [v \in Worker |-> IF v = w THEN next ELSE Objectives!Outdated(working[v], o, changed)]
  BY DEF Objectives!Saved
<1>1. /\ objective' \in [Objective -> Objectives!Objectives] /\ objective'[o] = changed
      /\ \A p \in Objective \ {o} : objective'[p] = objective[p]
  BY <1>0, <1>s
<1>3. ASSUME NEW v \in Worker, v # w
      PROVE  /\ working'[v] \in Objectives!Working
             /\ working'[v].op = working[v].op /\ working'[v].of = working[v].of
             /\ working'[v].at = working[v].at /\ working'[v].target = working[v].target
             /\ working'[v].current => working[v].current /\ working[v].of # o
             /\ working'[v].overlapped = (working[v].overlapped \/ (changed.status = "READY" /\ working[v].at = "move"))
  <2> DEFINE current == working[v].current /\ working[v].of # o
             late == working[v].overlapped \/ (changed.status = "READY" /\ working[v].at = "move")
  <2>1. working'[v] = [working[v] EXCEPT !.current = current, !.overlapped = late]
    <3>1. working'[v] = Objectives!Outdated(working[v], o, changed)
      BY <1>s, <1>3
    <3>2. QED BY <3>1 DEF Objectives!Outdated
  <2>2. working[v] \in Objectives!Working
    BY <1>0
  <2>3. current \in BOOLEAN /\ late \in BOOLEAN
    BY <2>2 DEF Objectives!Working
  <2>4. current => working[v].current /\ working[v].of # o
    OBVIOUS
  <2> HIDE DEF current, late
  <2>5. /\ working'[v] \in Objectives!Working /\ working'[v].current = current /\ working'[v].overlapped = late
        /\ working'[v].op = working[v].op /\ working'[v].of = working[v].of
        /\ working'[v].at = working[v].at /\ working'[v].target = working[v].target
    BY <2>1, <2>2, <2>3 DEF Objectives!Working
  <2>6. QED BY <2>4, <2>5 DEF late
<1>2. working' \in [Worker -> Objectives!Working] /\ working'[w] = next
  <2>1. working'[w] = next /\ DOMAIN working' = Worker /\ working' = [v \in Worker |-> working'[v]]
    BY <1>s
  <2>2. \A v \in Worker : working'[v] \in Objectives!Working
    BY <1>3, <2>1
  <2>3. QED BY <2>1, <2>2
<1>4. CallsFitObjectives'
  <2> SUFFICES ASSUME NEW v \in Worker
               PROVE  /\ working'[v].at # "idle" => working'[v].of \in Objective
                      /\ working'[v].at = "save" => working'[v].op \in {"attempt", "evaluate"}
                      /\ working'[v].op = "attempt" /\ working'[v].at \in {"load", "move"} =>
                           working'[v].target \in {"BLOCKED", "STALLED"}
    BY DEF CallsFitObjectives
  <2>1. CASE v = w
    BY <1>2, <2>1
  <2>2. CASE v # w
    BY <1>3, <2>2 DEF ObjectivesInv, CallsFitObjectives
  <2>3. QED BY <2>1, <2>2
<1>5. SavesAreDue'
  <2> SUFFICES ASSUME NEW v \in Worker, working'[v].at = "save", working'[v].current
               PROVE  objective'[working'[v].of].status = IF working'[v].op = "attempt" THEN "RUNNING" ELSE "VERIFYING"
    BY DEF SavesAreDue
  <2>1. v # w
    BY <1>2
  <2>2. working[v].of \in Objective /\ working[v].of # o
    BY <1>3, <2>1 DEF ObjectivesInv, CallsFitObjectives
  <2>3. QED BY <1>1, <1>3, <2>1, <2>2 DEF ObjectivesInv, SavesAreDue
<1>6. TransitionsAreDue'
  <2> SUFFICES ASSUME NEW v \in Worker, working'[v].at = "move", working'[v].current
               PROVE  Due(working[v])'
    BY DEF TransitionsAreDue
  <2>1. v # w
    BY <1>2
  <2>p. working[v].of \in Objective
    BY <1>3, <2>1 DEF ObjectivesInv, CallsFitObjectives
  <2>q. PICK p \in Objective : p = working[v].of
    BY <2>p
  <2>2. /\ p # o /\ working[v].at = "move" /\ working[v].current
        /\ working'[v].of = p /\ working'[v].target = working[v].target
        /\ objective'[p] = objective[p]
    BY <1>1, <1>3, <2>1, <2>q
  <2>3. Due(working[v])
    BY <2>2 DEF ObjectivesInv, TransitionsAreDue
  <2>4. ASSUME working'[v].target = "READY", ~working'[v].overlapped, objective'[p].status \notin Objectives!ActiveStates
        PROVE  Objectives!HasRoom(p)'
    <3>1. changed.status # "READY" /\ ~working[v].overlapped
      BY <1>3, <2>1, <2>2, <2>4
    <3>2. Objectives!HasRoom(p)
      BY <2>2, <2>3, <2>4, <2>q, <3>1 DEF Due
    <3>3. Objectives!Active(objective') \ {p} \in SUBSET (Objectives!Active(objective) \ {p})
      <4>1. ASSUME NEW q \in Objective, objective'[q].status \in Objectives!ActiveStates
            PROVE  objective[q].status \in Objectives!ActiveStates
        <5>1. CASE q # o
          BY <1>1, <4>1, <5>1
        <5>2. CASE q = o
          <6>1. objective[o].status \in Objectives!Status /\ changed.status \in Objectives!ActiveStates
            BY <1>0, <1>1, <4>1, <5>2 DEF Objectives!Objectives
          <6>2. QED BY <3>1, <5>2, <6>1, OnlyReadyIsCounted
        <5>3. QED BY <5>1, <5>2
      <4>2. QED BY <4>1 DEF Objectives!Active
    <3>4. IsFiniteSet(Objectives!Active(objective) \ {p})
      <4>1. Objectives!Active(objective) \ {p} \in SUBSET Objective
        BY DEF Objectives!Active
      <4>2. QED BY <4>1, ServicesAssumption, FS_Subset
    <3>5. /\ Cardinality(Objectives!Active(objective') \ {p}) <= Cardinality(Objectives!Active(objective) \ {p})
          /\ Cardinality(Objectives!Active(objective') \ {p}) \in Nat /\ Cardinality(Objectives!Active(objective) \ {p}) \in Nat
      <4>1. IsFiniteSet(Objectives!Active(objective') \ {p})
        BY <3>3, <3>4, FS_Subset
      <4>2. QED BY <3>3, <3>4, <4>1, FS_Subset, FS_CardinalityType
    <3>6. QED BY ObjectivesCounts, <3>2, <3>5, ServicesAssumption DEF Objectives!HasRoom,
        Objectives!Active
  <2>5. Due(working[v])'
    <3>1. /\ working'[v].target \in Objectives!Moves[objective'[p].status]
          /\ working'[v].target = "PASSED" => Objectives!Passable(objective'[p].criteria)
      BY <2>2, <2>3, <2>q DEF Due
    <3>2. QED BY ObjectivesCounts, <2>2, <2>4, <3>1 DEF Due, Objectives!HasRoom, Objectives!Active
  <2>6. QED BY <2>5
<1>7. CriteriaAreJudged'
  BY <1>1 DEF CriteriaAreJudged, ObjectivesInv, Judged
<1>8. PassedIsConcluded'
  BY <1>1 DEF PassedIsConcluded, ObjectivesInv
<1>9. QED BY <1>1, <1>2, <1>3, <1>4, <1>5, <1>6, <1>7, <1>8

\* A step of one worker that saves nothing.
LEMMA ObjectiveRests ==
  ASSUME ObjectivesInv, NEW w \in Worker, NEW c \in Objectives!Working,
         working' = [working EXCEPT ![w] = c], UNCHANGED objective,
         c.at # "idle" => c.of \in Objective,
         c.at = "save" => c.op \in {"attempt", "evaluate"},
         c.op = "attempt" /\ c.at \in {"load", "move"} => c.target \in {"BLOCKED", "STALLED"},
         c.at = "save" /\ c.current => objective[c.of].status = (IF c.op = "attempt" THEN "RUNNING" ELSE "VERIFYING"),
         c.at = "move" /\ c.current => Due(c)
  PROVE  /\ working' \in [Worker -> Objectives!Working] /\ working'[w] = c
         /\ \A v \in Worker \ {w} : /\ working'[v].op = working[v].op /\ working'[v].of = working[v].of
                                    /\ working'[v].at = working[v].at
         /\ CallsFitObjectives' /\ SavesAreDue' /\ TransitionsAreDue'
         /\ CriteriaAreJudged' /\ PassedIsConcluded'
<1>0. working \in [Worker -> Objectives!Working]
  BY DEF ObjectivesInv, Objectives!TypeOK
<1>1. working' \in [Worker -> Objectives!Working] /\ working'[w] = c /\ \A v \in Worker \ {w} : working'[v] = working[v]
  BY <1>0
<1>2. CallsFitObjectives' /\ SavesAreDue'
  BY <1>1 DEF ObjectivesInv, CallsFitObjectives, SavesAreDue
<1>3. TransitionsAreDue'
  <2> SUFFICES ASSUME NEW v \in Worker, working'[v].at = "move", working'[v].current
               PROVE  Due(working[v])'
    BY DEF TransitionsAreDue
  <2>1. PICK d : d = working'[v]
    OBVIOUS
  <2>2. Due(d)
    BY <1>1, <2>1 DEF ObjectivesInv, TransitionsAreDue
  <2>3. Due(d)'
    BY ObjectivesCounts, <2>2 DEF Due, Objectives!HasRoom, Objectives!Active
  <2>4. QED BY ObjectivesCounts, <2>1, <2>3 DEF Due, Objectives!HasRoom, Objectives!Active
<1>4. CriteriaAreJudged' /\ PassedIsConcluded'
  BY DEF ObjectivesInv, CriteriaAreJudged, PassedIsConcluded
<1>5. QED BY <1>1, <1>2, <1>3, <1>4

LEMMA ObjectivesStart == ASSUME Objectives!Init PROVE ObjectivesInv
<1>0. /\ Cap \in Nat /\ MaxAttempts \in Nat \ {0} /\ Beginnings \subseteq Objectives!Status \ {"PASSED"}
      /\ MaxWorkCalls \in Nat /\ MaxWorkCrashes \in Nat
  BY ServicesAssumption
<1>1. PICK starts \in [Objective -> Beginnings] :
        objective = [o \in Objective |-> [status |-> starts[o], attempts |-> 0, idle |-> 0, token |-> None,
                                          criteria |-> [k \in Crit |-> Objectives!Unverified]]]
  BY ObjectivesCounts DEF Objectives!Init
<1>2. /\ working = [w \in Worker |-> Objectives!Free] /\ excused = [o \in Objective |-> 0]
      /\ raced = 0 /\ workCalls = 0 /\ workCrashes = 0
      /\ Cardinality(Objectives!AtWork(objective)) <= Cap
  BY ObjectivesCounts DEF Objectives!Init
<1>3. Objectives!Unverified \in Objectives!Verdict /\ Objectives!Unverified.status = "insufficient_evidence"
  BY DEF Objectives!Unverified, Objectives!Verdict, Objectives!Basis
<1>4. ASSUME NEW o \in Objective
      PROVE  /\ objective[o] \in Objectives!Objectives /\ objective[o].status \in Objectives!Status \ {"PASSED"}
             /\ objective[o].attempts = 0 /\ objective[o].criteria = [k \in Crit |-> Objectives!Unverified]
  <2>1. starts[o] \in Objectives!Status \ {"PASSED"}
    BY <1>0, <1>1
  <2>2. [k \in Crit |-> Objectives!Unverified] \in [Crit -> Objectives!Verdict]
    BY <1>3
  <2>3. QED BY <1>1, <2>1, <2>2 DEF Objectives!Objectives
<1>5. objective \in [Objective -> Objectives!Objectives]
  BY <1>1, <1>4
<1>6. Objectives!Free \in Objectives!Working /\ Objectives!Free.at = "idle" /\ Objectives!Free.op = "none"
  BY DEF Objectives!Free, Objectives!Working, Objectives!Status, Objectives!Moves
<1>7. Objectives!TypeOK
  BY <1>0, <1>2, <1>5, <1>6 DEF Objectives!TypeOK
<1>8. CallsFitObjectives /\ SavesAreDue /\ TransitionsAreDue
  BY <1>2, <1>6 DEF CallsFitObjectives, SavesAreDue, TransitionsAreDue
<1>9. CriteriaAreJudged /\ PassedIsConcluded
  BY <1>3, <1>4 DEF CriteriaAreJudged, PassedIsConcluded, Judged
<1>10. BudgetLeft
  <2> SUFFICES ASSUME NEW o \in Objective
               PROVE  objective[o].attempts + Ahead(o) <= MaxAttempts + excused[o] + Cardinality(Recorders(o))
    BY DEF BudgetLeft
  <2>1. Recorders(o) = {}
    BY <1>2, <1>6 DEF Recorders, IsRecorder
  <2>2. Cardinality(Recorders(o)) = 0
    BY <2>1, FS_EmptySet
  <2>3. QED BY <1>0, <1>2, <1>4, <2>2 DEF Ahead
<1>11. Objectives!WorkIsCapped
  BY ObjectivesCounts, <1>0, <1>2 DEF Objectives!WorkIsCapped
<1>12. QED
  BY <1>7, <1>8, <1>9, <1>10, <1>11 DEF ObjectivesInv

LEMMA ObjectivesKept == ASSUME ObjectivesInv, [Objectives!Next]_Objectives!vars PROVE ObjectivesInv'
<1>0. /\ objective \in [Objective -> Objectives!Objectives] /\ working \in [Worker -> Objectives!Working]
      /\ excused \in [Objective -> Nat] /\ raced \in Nat
      /\ workCalls \in 0 .. MaxWorkCalls /\ workCrashes \in 0 .. MaxWorkCrashes
      /\ MaxWorkCalls \in Nat /\ MaxWorkCrashes \in Nat
      /\ Cap \in Nat /\ MaxAttempts \in Nat \ {0} /\ Floor \in 0 .. 3 /\ Evaluations \subseteq Objectives!Evaluation
      /\ IsFiniteSet(Objective)
  BY ServicesAssumption DEF ObjectivesInv, Objectives!TypeOK
<1>f. /\ Objectives!Free \in Objectives!Working /\ Objectives!Free.at = "idle" /\ Objectives!Free.op = "none"
      /\ Objectives!Free.current = FALSE /\ Objectives!Free.of = None
  BY DEF Objectives!Free, Objectives!Working, Objectives!Status, Objectives!Moves
<1>b. \A o \in Objective : /\ objective[o].attempts \in Nat /\ Ahead(o) \in {0, 1} /\ excused[o] \in Nat
                          /\ objective[o].attempts + Ahead(o) <= MaxAttempts + excused[o] + Cardinality(Recorders(o))
  BY <1>0 DEF ObjectivesInv, BudgetLeft, Ahead, Objectives!Objectives
\* nothing is saved
<1>r. ASSUME NEW w \in Worker, NEW c \in Objectives!Working,
             working' = [working EXCEPT ![w] = c], UNCHANGED <<objective, raced>>,
             c.at # "idle" => c.of \in Objective,
             c.at = "save" => c.op \in {"attempt", "evaluate"},
             c.op = "attempt" /\ c.at \in {"load", "move"} => c.target \in {"BLOCKED", "STALLED"},
             c.at = "save" /\ c.current => objective[c.of].status = (IF c.op = "attempt" THEN "RUNNING" ELSE "VERIFYING"),
             c.at = "move" /\ c.current => Due(c),
             workCalls' \in 0 .. MaxWorkCalls, workCrashes' \in 0 .. MaxWorkCrashes,
             \/ excused' = excused /\ \A o \in Objective : IsRecorder(c, o) <=> IsRecorder(working[w], o)
             \/ c.op = "none" /\ Objectives!LeftRunning(w)
      PROVE  ObjectivesInv'
  <2>1. /\ working' \in [Worker -> Objectives!Working] /\ working'[w] = c
        /\ \A v \in Worker \ {w} : /\ working'[v].op = working[v].op /\ working'[v].of = working[v].of
                                   /\ working'[v].at = working[v].at
        /\ CallsFitObjectives' /\ SavesAreDue' /\ TransitionsAreDue'
        /\ CriteriaAreJudged' /\ PassedIsConcluded'
    BY <1>r, ObjectiveRests
  <2>2. ASSUME NEW o \in Objective
        PROVE  /\ Cardinality(Recorders(o)) \in Nat /\ Cardinality(Recorders(o)') \in Nat
               /\ Cardinality(Recorders(o)') =
                    Cardinality(Recorders(o)) + (IF IsRecorder(c, o) THEN 1 ELSE 0)
                                              - (IF IsRecorder(working[w], o) THEN 1 ELSE 0)
    BY <2>1, RecordersChange
  <2>3. Objectives!WorkIsCapped'
    BY ObjectivesCounts, <1>r DEF ObjectivesInv, Objectives!WorkIsCapped, Objectives!AtWork
  <2>4. CASE excused' = excused /\ \A o \in Objective : IsRecorder(c, o) <=> IsRecorder(working[w], o)
    <3>1. \A o \in Objective : Cardinality(Recorders(o)') = Cardinality(Recorders(o))
      BY <2>2, <2>4
    <3>2. BudgetLeft'
      BY <1>b, <1>r, <2>4, <3>1 DEF BudgetLeft, Ahead
    <3>3. QED BY <1>0, <1>r, <2>1, <2>3, <2>4, <3>2 DEF ObjectivesInv, Objectives!TypeOK
  <2>5. CASE c.op = "none" /\ Objectives!LeftRunning(w)
    <3>1. ASSUME NEW o \in Objective
          PROVE  /\ excused'[o] \in Nat
                 /\ excused'[o] = excused[o] \/ (IsRecorder(working[w], o) /\ excused'[o] = excused[o] + 1)
                 /\ IsRecorder(working[w], o) => excused'[o] = excused[o] + 1 \/ objective[o].attempts < MaxAttempts
      BY <1>0, <1>b, <2>5 DEF Objectives!LeftRunning, Objectives!Exhausted, IsRecorder
    <3>2. excused' \in [Objective -> Nat]
      <4>1. IsRecorder(working[w], working[w].of) => working[w].of \in Objective
        BY DEF IsRecorder, ObjectivesInv, CallsFitObjectives
      <4>2. QED BY <1>0, <2>5, <4>1 DEF Objectives!LeftRunning, IsRecorder
    <3>3. ASSUME NEW o \in Objective
          PROVE  objective[o].attempts + Ahead(o) <= MaxAttempts + excused'[o] + Cardinality(Recorders(o)')
      <4>1. ~IsRecorder(c, o)
        BY <2>5 DEF IsRecorder
      <4>2. CASE ~IsRecorder(working[w], o)
        BY <1>0, <1>b, <2>2, <3>1, <4>1, <4>2
      <4>3. CASE IsRecorder(working[w], o)
        <5>1. Cardinality(Recorders(o)') = Cardinality(Recorders(o)) - 1 /\ Cardinality(Recorders(o)) \in Nat
          BY <2>2, <4>1, <4>3
        <5>2. Cardinality(Recorders(o)') \in Nat
          BY <2>2
        <5>3. CASE excused'[o] = excused[o] + 1
          BY <1>0, <1>b, <5>1, <5>3
        <5>4. CASE objective[o].attempts < MaxAttempts
          BY <1>0, <1>b, <3>1, <5>2, <5>4
        <5>5. QED BY <3>1, <4>3, <5>3, <5>4
      <4>4. QED BY <4>2, <4>3
    <3>4. BudgetLeft'
      BY <1>r, <3>3 DEF BudgetLeft, Ahead
    <3>5. QED BY <1>0, <1>r, <2>1, <2>3, <3>2, <3>4 DEF ObjectivesInv, Objectives!TypeOK
  <2>6. QED BY <1>r, <2>4, <2>5
\* content is saved: the status stays
<1>s. ASSUME NEW w \in Worker, NEW o \in Objective, NEW changed \in Objectives!Objectives, NEW next \in Objectives!Working,
             Objectives!Saved(w, o, changed, next), changed.status = objective[o].status,
             ~next.current, next.at # "save", next.at # "idle" => next.of = o,
             next.op = "attempt" /\ next.at \in {"load", "move"} => next.target \in {"BLOCKED", "STALLED"},
             Judged(changed.criteria), changed.status # "PASSED",
             UNCHANGED <<excused, raced, workCalls, workCrashes>>,
             ~\E p \in Objective : IsRecorder(working[w], p),
             \/ changed.attempts = objective[o].attempts
             \/ changed.attempts = objective[o].attempts + 1 /\ changed.attempts < MaxAttempts
             \/ changed.attempts = objective[o].attempts + 1 /\ IsRecorder(next, o)
      PROVE  ObjectivesInv'
  <2>1. /\ objective' \in [Objective -> Objectives!Objectives] /\ objective'[o] = changed
        /\ \A p \in Objective \ {o} : objective'[p] = objective[p]
        /\ working' \in [Worker -> Objectives!Working] /\ working'[w] = next
        /\ \A v \in Worker \ {w} : /\ working'[v].op = working[v].op /\ working'[v].of = working[v].of
                                   /\ working'[v].at = working[v].at
        /\ CallsFitObjectives' /\ SavesAreDue' /\ TransitionsAreDue'
        /\ CriteriaAreJudged' /\ PassedIsConcluded'
    BY <1>s, ObjectiveSaved
  <2>2. ASSUME NEW p \in Objective
        PROVE  /\ Cardinality(Recorders(p)) \in Nat /\ Cardinality(Recorders(p)') \in Nat
               /\ Cardinality(Recorders(p)') =
                    Cardinality(Recorders(p)) + (IF IsRecorder(next, p) THEN 1 ELSE 0)
                                              - (IF IsRecorder(working[w], p) THEN 1 ELSE 0)
    BY <2>1, RecordersChange
  <2>3. Objectives!WorkIsCapped'
    <3>1. \A p \in Objective : objective'[p].status = objective[p].status
      BY <1>s, <2>1
    <3>2. Objectives!AtWork(objective') = Objectives!AtWork(objective)
      BY <3>1 DEF Objectives!AtWork
    <3>3. QED BY ObjectivesCounts, <1>s, <3>2 DEF ObjectivesInv, Objectives!WorkIsCapped
  <2>4. BudgetLeft'
    <3> SUFFICES ASSUME NEW p \in Objective
                 PROVE  objective'[p].attempts + Ahead(p)' <= MaxAttempts + excused[p] + Cardinality(Recorders(p)')
      BY <1>s DEF BudgetLeft
    <3>1. Cardinality(Recorders(p)') = Cardinality(Recorders(p)) + (IF IsRecorder(next, p) THEN 1 ELSE 0)
      BY <1>s, <2>2
    <3>2. objective'[p].status = objective[p].status /\ Ahead(p)' = Ahead(p)
      BY <1>s, <2>1 DEF Ahead
    <3>3. CASE objective'[p].attempts = objective[p].attempts
      BY <1>0, <1>b, <2>2, <3>1, <3>2, <3>3
    <3>4. CASE objective'[p].attempts # objective[p].attempts
      <4>1. p = o
        BY <2>1, <3>4
      <4>2. CASE changed.attempts = objective[o].attempts + 1 /\ changed.attempts < MaxAttempts
        BY <1>0, <1>b, <2>1, <2>2, <3>2, <4>1, <4>2
      <4>3. CASE changed.attempts = objective[o].attempts + 1 /\ IsRecorder(next, o)
        BY <1>0, <1>b, <2>1, <2>2, <3>1, <3>2, <4>1, <4>3
      <4>4. QED BY <1>s, <2>1, <3>4, <4>1, <4>2, <4>3
    <3>5. QED BY <3>3, <3>4
  <2>5. QED BY <1>0, <1>s, <2>1, <2>3, <2>4 DEF ObjectivesInv, Objectives!TypeOK
<1>1. ASSUME NEW w \in Worker, NEW o \in Objective, Objectives!Attempt(w, o) PROVE ObjectivesInv'
  <2>1. \E c \in Objectives!Working : /\ working' = [working EXCEPT ![w] = c]
                                      /\ c.op = "attempt" /\ c.of = o /\ c.at = "save" /\ c.current
    <3> DEFINE c == [Objectives!Free EXCEPT !.op = "attempt", !.of = o, !.at = "save", !.current = TRUE]
    <3>1. c \in Objectives!Working /\ c.op = "attempt" /\ c.of = o /\ c.at = "save" /\ c.current
      BY <1>f DEF Objectives!Working
    <3>2. working' = [working EXCEPT ![w] = c]
      BY <1>1 DEF Objectives!Attempt
    <3> HIDE DEF c
    <3>3. QED BY <3>1, <3>2
  <2>2. PICK c \in Objectives!Working : /\ working' = [working EXCEPT ![w] = c]
                                        /\ c.op = "attempt" /\ c.of = o /\ c.at = "save" /\ c.current
    BY <2>1
  <2>3. /\ objective[o].status = "RUNNING" /\ working[w] = Objectives!Free
        /\ UNCHANGED <<objective, excused, raced, workCrashes>> /\ workCalls' \in 0 .. MaxWorkCalls
    BY <1>0, <1>1 DEF Objectives!Attempt, Objectives!Counted
  <2>4. \A p \in Objective : ~IsRecorder(c, p) /\ ~IsRecorder(working[w], p)
    BY <1>f, <2>2, <2>3 DEF IsRecorder
  <2>5. QED BY <1>0, <1>r, <2>2, <2>3, <2>4
<1>2. ASSUME NEW w \in Worker, NEW token \in StateToken, NEW evidence \in BOOLEAN, NEW blocked \in BOOLEAN,
             Objectives!SaveAttempt(w, token, evidence, blocked)
      PROVE  ObjectivesInv'
  <2> DEFINE o == working[w].of
             was == objective[o]
             meaningful == was.token \notin {None, token} /\ evidence
             idle == IF was.token = None \/ meaningful THEN 0 ELSE was.idle + 1
             target == IF blocked \/ Objectives!Spent(was.attempts + 1) THEN "BLOCKED"
                       ELSE IF idle >= StallAfter THEN "STALLED"
                       ELSE "RUNNING"
             changed == [was EXCEPT !.attempts = @ + 1, !.idle = idle, !.token = token]
             next == IF target = "RUNNING" THEN Objectives!Free
                     ELSE [working[w] EXCEPT !.at = "load", !.target = target, !.current = FALSE]
  <2>1. /\ working[w].op = "attempt" /\ working[w].at = "save" /\ working[w].current
        /\ Objectives!Saved(w, o, changed, next)
        /\ UNCHANGED <<excused, raced, workCalls, workCrashes>>
    BY <1>2 DEF Objectives!SaveAttempt
  <2>2. o \in Objective /\ was.status = "RUNNING"
    BY <2>1 DEF ObjectivesInv, CallsFitObjectives, SavesAreDue
  <2>3. was \in Objectives!Objectives /\ Judged(was.criteria)
    BY <1>0, <2>2 DEF ObjectivesInv, CriteriaAreJudged
  <2>4. /\ changed \in Objectives!Objectives /\ changed.status = "RUNNING" /\ changed.criteria = was.criteria
        /\ changed.attempts = was.attempts + 1
    <3>1. was.idle \in Nat /\ was.attempts \in Nat
      BY <2>3 DEF Objectives!Objectives
    <3>2. idle \in Nat /\ was.attempts + 1 \in Nat
      BY <3>1
    <3>3. token \in StateToken \cup {None}
      OBVIOUS
    <3> DEFINE n == was.attempts + 1
    <3>4. changed = [was EXCEPT !.attempts = n, !.idle = idle, !.token = token] /\ n \in Nat
      BY <3>1
    <3>5. was \in Objectives!Objectives /\ was.status = "RUNNING" /\ changed.attempts = n /\ n = was.attempts + 1
      BY <2>2, <2>3 DEF Objectives!Objectives
    <3> HIDE DEF changed, idle, was, n
    <3>6. QED BY <3>2, <3>3, <3>4, <3>5 DEF Objectives!Objectives
  <2>5. /\ next \in Objectives!Working /\ ~next.current /\ next.at \in {"idle", "load"}
        /\ target = "RUNNING" => was.attempts + 1 < MaxAttempts
        /\ next.at # "idle" => next.of = o
        /\ next.op = "attempt" /\ next.at = "load" => next.target \in {"BLOCKED", "STALLED"}
        /\ target # "RUNNING" => IsRecorder(next, o)
    <3>1. target \in {"BLOCKED", "STALLED", "RUNNING"} /\ working[w] \in Objectives!Working
      BY <1>0
    <3>2. target = "RUNNING" => was.attempts + 1 < MaxAttempts
      <4>1. target = "RUNNING" => ~(was.attempts + 1 >= MaxAttempts)
        BY DEF Objectives!Spent
      <4>2. was.attempts \in Nat
        BY <2>3 DEF Objectives!Objectives
      <4> HIDE DEF target, was
      <4>3. QED BY <1>0, <4>1, <4>2
    <3>3. target \in Objectives!Status
      <4> HIDE DEF target
      <4> QED BY <3>1 DEF Objectives!Status, Objectives!Moves
    <3>4. CASE target = "RUNNING"
      <4> HIDE DEF target
      <4> QED BY <1>f, <3>2, <3>4
    <3>5. CASE target # "RUNNING"
      <4> DEFINE c == [working[w] EXCEPT !.at = "load", !.target = target, !.current = FALSE]
      <4>1. next = c
        BY <3>5
      <4> HIDE DEF target, next
      <4>2. /\ c \in Objectives!Working /\ c.at = "load" /\ c.target = target /\ c.current = FALSE
            /\ c.op = "attempt" /\ c.of = working[w].of
        BY <2>1, <3>1, <3>3 DEF Objectives!Working
      <4> HIDE DEF c
      <4>3. QED BY <3>1, <3>5, <4>1, <4>2 DEF IsRecorder
    <3> HIDE DEF next, target, was
    <3>6. QED BY <3>4, <3>5
  <2>6. \A p \in Objective : ~IsRecorder(working[w], p)
    BY <2>1 DEF IsRecorder
  <2> HIDE DEF next, changed, target
  <2>7. QED BY <1>s, <2>1, <2>2, <2>3, <2>4, <2>5, <2>6
<1>3. ASSUME NEW w \in Worker, NEW o \in Objective, Objectives!Evaluate(w, o) PROVE ObjectivesInv'
  <2>1. \E c \in Objectives!Working : /\ working' = [working EXCEPT ![w] = c]
                                      /\ c.op = "evaluate" /\ c.of = o /\ c.at = "save" /\ c.current
    <3> DEFINE c == [Objectives!Free EXCEPT !.op = "evaluate", !.of = o, !.at = "save", !.current = TRUE]
    <3>1. c \in Objectives!Working /\ c.op = "evaluate" /\ c.of = o /\ c.at = "save" /\ c.current
      BY <1>f DEF Objectives!Working
    <3>2. working' = [working EXCEPT ![w] = c]
      BY <1>3 DEF Objectives!Evaluate
    <3> HIDE DEF c
    <3>3. QED BY <3>1, <3>2
  <2>2. PICK c \in Objectives!Working : /\ working' = [working EXCEPT ![w] = c]
                                        /\ c.op = "evaluate" /\ c.of = o /\ c.at = "save" /\ c.current
    BY <2>1
  <2>3. /\ objective[o].status = "VERIFYING" /\ working[w] = Objectives!Free
        /\ UNCHANGED <<objective, excused, raced, workCrashes>> /\ workCalls' \in 0 .. MaxWorkCalls
    BY <1>0, <1>3 DEF Objectives!Evaluate, Objectives!Counted
  <2>4. \A p \in Objective : ~IsRecorder(c, p) /\ ~IsRecorder(working[w], p)
    BY <1>f, <2>2, <2>3 DEF IsRecorder
  <2>5. QED BY <1>0, <1>r, <2>2, <2>3, <2>4
<1>4. ASSUME NEW w \in Worker, NEW e \in Evaluations, Objectives!SaveVerdict(w, e) PROVE ObjectivesInv'
  <2> DEFINE o == working[w].of
             criteria == Objectives!Materialized(e)
             changed == [objective[o] EXCEPT !.criteria = criteria]
             next == [working[w] EXCEPT !.at = "load", !.target = Objectives!Conclusion(criteria), !.current = FALSE]
  <2>1. /\ working[w].op = "evaluate" /\ working[w].at = "save" /\ working[w].current
        /\ Objectives!Valid(e) /\ e.level >= Floor
        /\ Objectives!Saved(w, o, changed, next)
        /\ UNCHANGED <<excused, raced, workCalls, workCrashes>>
    BY <1>4 DEF Objectives!SaveVerdict
  <2>2. o \in Objective /\ objective[o].status = "VERIFYING" /\ objective[o] \in Objectives!Objectives
    BY <1>0, <2>1 DEF ObjectivesInv, CallsFitObjectives, SavesAreDue
  <2>3. e \in Objectives!Evaluation /\ e.verdicts \in [Crit -> Objectives!Verdict] /\ e.level \in 0 .. 3
    BY <1>0 DEF Objectives!Evaluation
  <2>4. criteria \in [Crit -> Objectives!Verdict]
    <3>1. Objectives!Unverified \in Objectives!Verdict
      BY DEF Objectives!Unverified, Objectives!Verdict, Objectives!Basis
    <3>2. QED BY <2>3, <3>1 DEF Objectives!Materialized
  <2>5. Judged(criteria)
    <3> SUFFICES ASSUME NEW k \in Crit, criteria[k].status = "passed" PROVE Objectives!Suffices(criteria[k].basis, Floor)
      BY DEF Judged
    <3>1. criteria[k] = e.verdicts[k] /\ e.verdicts[k].status = "passed"
      BY DEF Objectives!Materialized, Objectives!Unverified
    <3>2. Objectives!Suffices(e.verdicts[k].basis, e.level)
      BY <2>1, <3>1 DEF Objectives!Valid
    <3>3. QED BY <1>0, <2>1, <2>3, <3>1, <3>2, SufficesBelow
  <2>6. /\ changed \in Objectives!Objectives /\ changed.status = objective[o].status /\ changed.criteria = criteria
        /\ changed.attempts = objective[o].attempts
    <3> HIDE DEF criteria
    <3> QED BY <2>2, <2>4 DEF Objectives!Objectives
  <2>7. next \in Objectives!Working /\ ~next.current /\ next.at = "load" /\ next.of = o /\ next.op = "evaluate"
    <3>1. Objectives!Conclusion(criteria) \in Objectives!Status
      BY DEF Objectives!Conclusion, Objectives!Status, Objectives!Moves
    <3> HIDE DEF criteria
    <3>2. QED BY <1>0, <2>1, <3>1 DEF Objectives!Working
  <2>8. \A p \in Objective : ~IsRecorder(working[w], p)
    BY <2>1 DEF IsRecorder
  <2> HIDE DEF next, changed, criteria
  <2>9. QED BY <1>s, <2>1, <2>2, <2>5, <2>6, <2>7, <2>8
<1>5. ASSUME NEW w \in Worker, NEW o \in Objective, NEW target \in Objectives!Status, Objectives!MoveByHand(w, o, target)
      PROVE  ObjectivesInv'
  <2>1. \E c \in Objectives!Working : /\ working' = [working EXCEPT ![w] = c]
                                      /\ c.op = "move" /\ c.of = o /\ c.at = "load"
    <3> DEFINE c == [Objectives!Free EXCEPT !.op = "move", !.of = o, !.at = "load", !.target = target]
    <3>1. c \in Objectives!Working /\ c.op = "move" /\ c.of = o /\ c.at = "load"
      BY <1>f DEF Objectives!Working
    <3>2. working' = [working EXCEPT ![w] = c]
      BY <1>5 DEF Objectives!MoveByHand
    <3> HIDE DEF c
    <3>3. QED BY <3>1, <3>2
  <2>2. PICK c \in Objectives!Working : /\ working' = [working EXCEPT ![w] = c]
                                        /\ c.op = "move" /\ c.of = o /\ c.at = "load"
    BY <2>1
  <2>3. /\ working[w] = Objectives!Free
        /\ UNCHANGED <<objective, excused, raced, workCrashes>> /\ workCalls' \in 0 .. MaxWorkCalls
    BY <1>0, <1>5 DEF Objectives!MoveByHand, Objectives!Counted
  <2>4. \A p \in Objective : ~IsRecorder(c, p) /\ ~IsRecorder(working[w], p)
    BY <1>f, <2>2, <2>3 DEF IsRecorder
  <2>5. QED BY <1>0, <1>r, <2>2, <2>3, <2>4
<1>6. ASSUME NEW w \in Worker, Objectives!Load(w) PROVE ObjectivesInv'
  <2>1. \E c \in Objectives!Working : /\ working' = [working EXCEPT ![w] = c]
                                      /\ c.op = working[w].op /\ c.of = working[w].of /\ c.at = "move"
                                      /\ c.target = working[w].target
    <3> DEFINE c == [working[w] EXCEPT !.at = "move", !.current = TRUE, !.overlapped = FALSE]
    <3>1. c \in Objectives!Working /\ c.op = working[w].op /\ c.of = working[w].of /\ c.at = "move" /\ c.target = working[w].target
      BY <1>0 DEF Objectives!Working
    <3>2. working' = [working EXCEPT ![w] = c]
      BY <1>0, <1>6 DEF Objectives!Load, Objectives!Working
    <3> HIDE DEF c
    <3>3. QED BY <3>1, <3>2
  <2>2. PICK c \in Objectives!Working : /\ working' = [working EXCEPT ![w] = c]
                                        /\ c.op = working[w].op /\ c.of = working[w].of /\ c.at = "move"
                                        /\ c.target = working[w].target
    BY <2>1
  <2>3. /\ working[w].at = "load" /\ Objectives!MayMove(working[w].of, working[w].target)
        /\ UNCHANGED <<objective, excused, raced, workCalls, workCrashes>>
    BY <1>6 DEF Objectives!Load
  <2>4. /\ working[w].of \in Objective
        /\ working[w].op = "attempt" => working[w].target \in {"BLOCKED", "STALLED"}
    BY <2>3 DEF ObjectivesInv, CallsFitObjectives
  <2>5. Due(c)
    BY <2>2, <2>3 DEF Due, Objectives!MayMove
  <2>6. \A p \in Objective : IsRecorder(c, p) <=> IsRecorder(working[w], p)
    BY <2>2, <2>3 DEF IsRecorder
  <2>7. QED BY <1>0, <1>r, <2>2, <2>3, <2>4, <2>5, <2>6
<1>7. ASSUME NEW w \in Worker, Objectives!Move(w) PROVE ObjectivesInv'
  <2> DEFINE o == working[w].of
             target == working[w].target
             changed == [objective[o] EXCEPT !.status = target]
  <2>1. /\ working[w].at = "move" /\ working[w].current
        /\ Objectives!Saved(w, o, changed, Objectives!Free)
        /\ excused' = IF target = "RUNNING" /\ Objectives!Exhausted(o) THEN [excused EXCEPT ![o] = @ + 1] ELSE excused
        /\ raced' = IF target = "READY" /\ working[w].overlapped THEN raced + 1 ELSE raced
        /\ UNCHANGED <<workCalls, workCrashes>>
    BY <1>7 DEF Objectives!Move
  <2>2. /\ o \in Objective /\ Due(working[w]) /\ objective[o] \in Objectives!Objectives
        /\ objective[o].status \in Objectives!Status /\ target \in Objectives!Status
    BY <1>0, <2>1 DEF ObjectivesInv, CallsFitObjectives, TransitionsAreDue, Objectives!Working,
       Objectives!Objectives
  <2>3. /\ target \in Objectives!Moves[objective[o].status]
        /\ target = "PASSED" => Objectives!Passable(objective[o].criteria)
        /\ target = "READY" /\ ~working[w].overlapped /\ objective[o].status \notin Objectives!ActiveStates => Objectives!HasRoom(o)
    BY <2>2 DEF Due
  <2>4. /\ changed \in Objectives!Objectives /\ changed.status = target /\ changed.criteria = objective[o].criteria
        /\ changed.attempts = objective[o].attempts
    <3> HIDE DEF target
    <3> QED BY <2>2 DEF Objectives!Objectives
  <2>5. Judged(changed.criteria) /\ (changed.status = "PASSED" => Objectives!Conclusion(changed.criteria) = "PASSED")
    BY <2>2, <2>3, <2>4, PassableIsPassed DEF ObjectivesInv, CriteriaAreJudged
  <2>6. /\ objective' \in [Objective -> Objectives!Objectives] /\ objective'[o] = changed
        /\ \A p \in Objective \ {o} : objective'[p] = objective[p]
        /\ working' \in [Worker -> Objectives!Working] /\ working'[w] = Objectives!Free
        /\ \A v \in Worker \ {w} : /\ working'[v].op = working[v].op /\ working'[v].of = working[v].of
                                   /\ working'[v].at = working[v].at
        /\ CallsFitObjectives' /\ SavesAreDue' /\ TransitionsAreDue'
        /\ CriteriaAreJudged' /\ PassedIsConcluded'
    <3> HIDE DEF changed
    <3> QED BY <1>f, <2>1, <2>2, <2>3, <2>4, <2>5, ObjectiveSaved
  <2>7. excused' \in [Objective -> Nat] /\ raced' \in Nat
    BY <1>0, <2>1, <2>2
  <2>8. BudgetLeft'
    <3> SUFFICES ASSUME NEW p \in Objective
                 PROVE  objective'[p].attempts + Ahead(p)' <= MaxAttempts + excused'[p] + Cardinality(Recorders(p)')
      BY DEF BudgetLeft
    <3>1. /\ Cardinality(Recorders(p)) \in Nat /\ Cardinality(Recorders(p)') \in Nat
          /\ Cardinality(Recorders(p)') = Cardinality(Recorders(p)) - (IF IsRecorder(working[w], p) THEN 1 ELSE 0)
      <4>1. ~IsRecorder(working'[w], p)
        BY <1>f, <2>6 DEF IsRecorder
      <4>2. /\ Cardinality(Recorders(p)) \in Nat /\ Cardinality(Recorders(p)') \in Nat
            /\ Cardinality(Recorders(p)') =
                 Cardinality(Recorders(p)) + (IF IsRecorder(working'[w], p) THEN 1 ELSE 0)
                                           - (IF IsRecorder(working[w], p) THEN 1 ELSE 0)
        BY <2>6, RecordersChange
      <4>3. QED BY <4>1, <4>2
    <3>2. objective'[p].attempts = objective[p].attempts
      BY <2>4, <2>6
    <3>3. CASE p # o
      <4>1. ~IsRecorder(working[w], p)
        BY <3>3 DEF IsRecorder
      <4>2. Ahead(p)' = Ahead(p) /\ excused'[p] = excused[p]
        BY <1>0, <2>1, <2>2, <2>6, <3>3 DEF Ahead
      <4>3. QED BY <1>0, <1>b, <3>1, <3>2, <4>1, <4>2
    <3>4. CASE p = o
      <4>0. Ahead(p)' = IF target \in {"RUNNING", "WAITING"} THEN 1 ELSE 0
        BY <2>4, <2>6, <3>4 DEF Ahead
      <4>1. excused'[p] = IF target = "RUNNING" /\ objective[p].attempts >= MaxAttempts THEN excused[p] + 1 ELSE excused[p]
        BY <1>0, <2>1, <2>2, <3>4 DEF Objectives!Exhausted
      <4>2. CASE IsRecorder(working[w], p)
        <5>1. target \in {"BLOCKED", "STALLED"}
          BY <2>1, <4>2 DEF IsRecorder, ObjectivesInv, CallsFitObjectives
        <5>2. objective[o].status \in {"RUNNING", "WAITING"}
          BY <2>2, <2>3, <5>1, OnlyReadyIsCounted
        <5>3. Ahead(p) = 1 /\ Ahead(p)' = 0 /\ excused'[p] = excused[p]
          BY <3>4, <4>0, <4>1, <5>1, <5>2 DEF Ahead
        <5>4. QED BY <1>0, <1>b, <3>1, <3>2, <4>2, <5>3
      <4>3. CASE ~IsRecorder(working[w], p)
        <5>1. Cardinality(Recorders(p)') = Cardinality(Recorders(p))
          BY <3>1, <4>3
        <5>2. CASE target = "RUNNING"
          <6>1. Ahead(p)' = 1
            BY <4>0, <5>2
          <6> HIDE DEF target
          <6>2. QED BY <1>0, <1>b, <3>1, <3>2, <4>1, <5>1, <5>2, <6>1
        <5>3. CASE target = "WAITING"
          <6>1. Ahead(p) = 1 /\ Ahead(p)' = 1 /\ excused'[p] = excused[p]
            BY <2>2, <2>3, <3>4, <4>0, <4>1, <5>3, OnlyReadyIsCounted DEF Ahead
          <6>2. QED BY <1>0, <1>b, <3>1, <3>2, <5>1, <6>1
        <5>4. CASE target \notin {"RUNNING", "WAITING"}
          <6>1. Ahead(p)' = 0 /\ excused'[p] = excused[p]
            BY <4>0, <4>1, <5>4
          <6>2. QED BY <1>0, <1>b, <3>1, <3>2, <5>1, <6>1
        <5>5. QED BY <5>2, <5>3, <5>4
      <4>4. QED BY <4>2, <4>3
    <3>5. QED BY <3>3, <3>4
  <2>9. Objectives!WorkIsCapped'
    <3>1. /\ Objectives!AtWork(objective) = Objectives!Active(objective) /\ Objectives!AtWork(objective') = Objectives!Active(objective')
      <4>1. \A p \in Objective : objective[p].status \in Objectives!Status /\ objective'[p].status \in Objectives!Status
        BY <1>0, <2>6 DEF Objectives!Objectives
      <4>2. QED BY <4>1, OnlyReadyIsCounted DEF Objectives!AtWork, Objectives!Active
    <3>2. Objectives!Active(objective) \in SUBSET Objective
      BY DEF Objectives!Active
    <3>3. /\ Cardinality(Objectives!Active(objective)) \in Nat
          /\ Cardinality(Objectives!Active(objective) \cup {o}) =
               IF o \in Objectives!Active(objective) THEN Cardinality(Objectives!Active(objective)) ELSE Cardinality(Objectives!Active(objective)) + 1
          /\ Cardinality(Objectives!Active(objective) \ {o}) =
               IF o \in Objectives!Active(objective) THEN Cardinality(Objectives!Active(objective)) - 1 ELSE Cardinality(Objectives!Active(objective))
          /\ IsFiniteSet(Objectives!Active(objective))
      BY <1>0, <3>2, OneMoreOrLess
    <3>4. Cardinality(Objectives!Active(objective)) <= Cap + raced
      BY ObjectivesCounts, <3>1 DEF ObjectivesInv, Objectives!WorkIsCapped
    <3>5. \A p \in Objective \ {o} : p \in Objectives!Active(objective') <=> p \in Objectives!Active(objective)
      BY <2>6 DEF Objectives!Active
    <3>6. CASE o \in Objectives!Active(objective) \/ o \notin Objectives!Active(objective')
      <4>1. Objectives!Active(objective') \in SUBSET Objectives!Active(objective)
        BY <2>2, <3>5, <3>6 DEF Objectives!Active
      <4>2. Cardinality(Objectives!Active(objective')) <= Cardinality(Objectives!Active(objective)) /\ Cardinality(Objectives!Active(objective')) \in Nat
        BY <3>3, <4>1, FS_Subset, FS_CardinalityType
      <4>3. raced <= raced'
        BY <1>0, <2>1
      <4>4. QED BY ObjectivesCounts, <1>0, <2>7, <3>1, <3>3, <3>4, <4>2, <4>3 DEF Objectives!WorkIsCapped
    <3>7. CASE o \notin Objectives!Active(objective) /\ o \in Objectives!Active(objective')
      <4>1. objective[o].status \notin Objectives!ActiveStates /\ target \in Objectives!ActiveStates
        BY <2>2, <2>4, <2>6, <3>7 DEF Objectives!Active
      <4>2. target = "READY"
        BY <2>2, <2>3, <4>1, OnlyReadyIsCounted
      <4>3. Objectives!Active(objective') = Objectives!Active(objective) \cup {o}
        BY <2>2, <3>5, <3>7 DEF Objectives!Active
      <4>4. Cardinality(Objectives!Active(objective')) = Cardinality(Objectives!Active(objective)) + 1
        BY <3>3, <3>7, <4>3
      <4>5. CASE working[w].overlapped
        <5>1. raced' = raced + 1
          BY <2>1, <4>2, <4>5
        <5>2. QED BY ObjectivesCounts, <1>0, <3>1, <3>3, <3>4, <4>4, <5>1 DEF Objectives!WorkIsCapped
      <4>6. CASE ~working[w].overlapped
        <5>1. Cardinality(Objectives!Active(objective) \ {o}) < Cap
          BY ObjectivesCounts, <2>3, <4>1, <4>2, <4>6 DEF Objectives!HasRoom
        <5>2. Cardinality(Objectives!Active(objective)) < Cap /\ raced' = raced
          BY <2>1, <3>3, <3>7, <4>6, <5>1
        <5>3. QED BY ObjectivesCounts, <1>0, <3>1, <3>3, <4>4, <5>2 DEF Objectives!WorkIsCapped
      <4>7. QED BY <4>5, <4>6
    <3>8. QED BY <3>6, <3>7
  <2>10. QED BY <1>0, <2>1, <2>6, <2>7, <2>8, <2>9 DEF ObjectivesInv, Objectives!TypeOK
<1>8. ASSUME NEW w \in Worker, Objectives!Refuse(w) PROVE ObjectivesInv'
  <2>1. Objectives!LeftRunning(w) /\ working' = [working EXCEPT ![w] = Objectives!Free] /\ UNCHANGED <<objective, raced, workCalls, workCrashes>>
    BY <1>8 DEF Objectives!Refuse, Objectives!Done
  <2>2. PICK c \in Objectives!Working : c = Objectives!Free
    BY <1>f
  <2>3. QED BY <1>0, <1>f, <1>r, <2>1, <2>2
<1>9. ASSUME NEW w \in Worker, Objectives!Die(w) PROVE ObjectivesInv'
  <2>1. Objectives!LeftRunning(w) /\ working' = [working EXCEPT ![w] = Objectives!Free] /\ UNCHANGED <<objective, raced, workCalls>>
    BY <1>9 DEF Objectives!Die, Objectives!Done
  <2>2. workCrashes' \in 0 .. MaxWorkCrashes
    BY <1>0, <1>9 DEF Objectives!Die
  <2>3. PICK c \in Objectives!Working : c = Objectives!Free
    BY <1>f
  <2>4. QED BY <1>0, <1>f, <1>r, <2>1, <2>2, <2>3
<1>10. CASE UNCHANGED Objectives!vars
  <2>1. UNCHANGED <<objective, working, excused, raced, workCalls, workCrashes>>
    BY <1>10 DEF Objectives!vars
  <2>2. TransitionsAreDue'
    <3>1. ASSUME NEW c PROVE Due(c) => Due(c)'
      BY ObjectivesCounts, <2>1 DEF Due, Objectives!HasRoom, Objectives!Active
    <3>2. ASSUME NEW w \in Worker, working'[w].at = "move", working'[w].current PROVE Due(working[w])'
      <4>1. PICK c : c = working[w]
        OBVIOUS
      <4>2. Due(c)
        BY <2>1, <3>2, <4>1 DEF ObjectivesInv, TransitionsAreDue
      <4>3. Due(c)'
        BY <3>1, <4>2
      <4>4. QED BY ObjectivesCounts, <2>1, <4>1, <4>3 DEF Due, Objectives!HasRoom, Objectives!Active
    <3>3. QED BY <3>2 DEF TransitionsAreDue
  <2>3. BudgetLeft' /\ Objectives!WorkIsCapped'
    BY ObjectivesCounts, <2>1 DEF ObjectivesInv, BudgetLeft, Ahead, Recorders, IsRecorder,
       Objectives!WorkIsCapped, Objectives!AtWork
  <2>4. QED
    BY <2>1, <2>2, <2>3 DEF ObjectivesInv, Objectives!TypeOK, CallsFitObjectives, SavesAreDue,
       CriteriaAreJudged, PassedIsConcluded
<1>11. QED
  BY <1>1, <1>2, <1>3, <1>4, <1>5, <1>6, <1>7, <1>8, <1>9, <1>10 DEF Objectives!Next, Objectives!Step

(***************************************************************************)
(* Initiatives. Who holds the lock of the fingerprint knows what is in     *)
(* play: nothing when it creates an opportunity, and beyond what it turns  *)
(* into an initiative only what calls that were cut short left behind.     *)
(***************************************************************************)

\* The cardinality that the part's module extends is this one.
LEMMA InitiativesCounts == \A S : Initiatives!Cardinality(S) = Cardinality(S)
  BY DEF Initiatives!Cardinality, Cardinality

\* Every item has a status of its kind.
StatusesFit ==
  /\ \A o \in Opportunity : status[o] \in DOMAIN Initiatives!OpportunityMoves
  /\ \A n \in Initiative : status[n] \in DOMAIN Initiatives!InitiativeMoves
  /\ status[Gap] \in DOMAIN Initiatives!GapMoves

\* What a call at its stage is about.
Consuming(c) == c.op = "initiative" /\ c.at \in {"load", "move"}
CallFits(c) ==
  /\ c.at \in {"load", "move"} => c.on \in Initiatives!Item /\ c.op \in {"initiative", "move"}
  /\ c.op = "opportunity" => c.at \in {"check", "create"}
  /\ c.op \in {"opportunity", "initiative"} => c.opportunity \in Opportunity
  /\ c.initiative # None => Consuming(c)
  /\ Consuming(c) => /\ c.initiative \in Initiatives!Made
                     /\ \/ c.on = c.initiative /\ c.target \in {"PROPOSED", "DEFERRED"}
                        \/ c.on = c.opportunity /\ c.target = "PROPOSED_INITIATIVE"
CallsFitItems == \A w \in Worker : CallFits(proposing[w])

\* Creating, and consuming what an initiative is made of, is done in the lock of the fingerprint.
Fenced(c) == (c.op = "opportunity" /\ c.at = "create") \/ (c.op = "initiative" /\ c.at \in {"create", "load", "move"})
FenceIsHeld == \A w \in Worker : Fenced(proposing[w]) => fence = w

\* A transition about to be saved may still be made; of the cap that is known as long as
\* nothing else came into play.
MoveIsDue(c) ==
  /\ c.target \in Initiatives!Moves(c.on)
  /\ Initiatives!EntersPlay(c.on, c.target) /\ ~c.overtaken => Cardinality(Initiatives!Working(c.on)) < WipCap
MovesAreDue == \A w \in Worker : proposing[w].at = "move" /\ proposing[w].current => MoveIsDue(proposing[w])

\* Who holds the lock of the fingerprint knows what is in play: nothing when it is about to
\* create an opportunity, and beyond what it turns into an initiative only what calls that
\* were cut short left.
PlayIsKnown(c) ==
  /\ c.op = "opportunity" /\ c.at = "create" => Initiatives!InPlay = {}
  /\ c.op = "initiative" /\ c.at \in {"create", "load", "move"} =>
       /\ Cardinality(Initiatives!InPlay \ {c.opportunity, c.initiative}) <= cutShort
       /\ status[c.opportunity] \notin {"none", "DETECTED", "WATCHING"}
  /\ /\ Consuming(c)
     /\ (c.on = c.opportunity /\ c.at = "move" /\ ~c.current) \/ (c.on = c.initiative /\ c.target = "DEFERRED")
     => c.opportunity \notin Initiatives!InPlay
OneInPlay ==
  /\ \A w \in Worker : PlayIsKnown(proposing[w])
  /\ (\A w \in Worker : ~Consuming(proposing[w])) => Cardinality(Initiatives!InPlay) <= 1 + cutShort

InitiativesInv ==
  /\ Initiatives!TypeOK
  /\ StatusesFit /\ CallsFitItems
  /\ FenceIsHeld
  /\ MovesAreDue
  /\ OneInPlay
  /\ Initiatives!WipIsCapped

-----------------------------------------------------------------------------

\* A set with at most one, or two, elements that another one has not.
LEMMA FewMore ==
  ASSUME NEW B, IsFiniteSet(B), NEW x, NEW y
  PROVE  /\ Cardinality(B) \in Nat
         /\ \A A \in SUBSET B : IsFiniteSet(A) /\ Cardinality(A) \in Nat /\ Cardinality(A) <= Cardinality(B)
         /\ \A A \in SUBSET (B \cup {x}) : Cardinality(A) \in Nat /\ Cardinality(A) <= Cardinality(B) + 1
         /\ \A A \in SUBSET (B \cup {x, y}) : Cardinality(A) \in Nat /\ Cardinality(A) <= Cardinality(B) + 2
<1>1. Cardinality(B) \in Nat
  BY FS_CardinalityType
<1>2. \A A \in SUBSET B : IsFiniteSet(A) /\ Cardinality(A) \in Nat /\ Cardinality(A) <= Cardinality(B)
  BY FS_Subset, FS_CardinalityType
<1>3. /\ IsFiniteSet(B \cup {x}) /\ Cardinality(B \cup {x}) \in Nat
      /\ Cardinality(B \cup {x}) <= Cardinality(B) + 1
  BY <1>1, FS_AddElement, FS_CardinalityType
<1>4. /\ IsFiniteSet((B \cup {x}) \cup {y}) /\ Cardinality((B \cup {x}) \cup {y}) \in Nat
      /\ Cardinality((B \cup {x}) \cup {y}) <= Cardinality(B) + 2
  <2> DEFINE C == B \cup {x}
  <2>1. IsFiniteSet(C) /\ Cardinality(C) \in Nat /\ Cardinality(C) <= Cardinality(B) + 1
    BY <1>3
  <2> HIDE DEF C
  <2>2. IsFiniteSet(C \cup {y}) /\ Cardinality(C \cup {y}) \in Nat /\ Cardinality(C \cup {y}) <= Cardinality(C) + 1
    <3>1. /\ IsFiniteSet(C \cup {y})
          /\ Cardinality(C \cup {y}) = IF y \in C THEN Cardinality(C) ELSE Cardinality(C) + 1
      BY <2>1, FS_AddElement
    <3>2. QED BY <2>1, <3>1
  <2>3. IsFiniteSet(C \cup {y}) /\ Cardinality(C \cup {y}) \in Nat /\ Cardinality(C \cup {y}) <= Cardinality(B) + 2
    BY <1>1, <2>1, <2>2
  <2>4. QED BY <2>3 DEF C
<1>5. \A A \in SUBSET (B \cup {x}) : Cardinality(A) \in Nat /\ Cardinality(A) <= Cardinality(B) + 1
  <2> TAKE A \in SUBSET (B \cup {x})
  <2>1. Cardinality(A) \in Nat /\ Cardinality(A) <= Cardinality(B \cup {x})
    BY <1>3, FS_Subset, FS_CardinalityType
  <2>2. QED BY <1>1, <1>3, <2>1
<1>6. \A A \in SUBSET (B \cup {x, y}) : Cardinality(A) \in Nat /\ Cardinality(A) <= Cardinality(B) + 2
  <2> TAKE A \in SUBSET (B \cup {x, y})
  <2>1. A \in SUBSET ((B \cup {x}) \cup {y})
    OBVIOUS
  <2>2. Cardinality(A) \in Nat /\ Cardinality(A) <= Cardinality((B \cup {x}) \cup {y})
    BY <1>4, <2>1, FS_Subset, FS_CardinalityType
  <2>3. QED BY <1>1, <1>4, <2>2
<1>7. QED BY <1>1, <1>2, <1>5, <1>6

\* Transitions lead neither back into play nor, but for two targets, to work.
LEMMA MovesLeavePlay ==
  /\ \A s \in DOMAIN Initiatives!OpportunityMoves : \A target \in Initiatives!OpportunityMoves[s] :
       /\ target \in DOMAIN Initiatives!OpportunityMoves
       /\ target \in Initiatives!DuplicateOpportunity => s \in Initiatives!DuplicateOpportunity
       /\ s \notin {"none", "DETECTED", "WATCHING"} => target \notin {"none", "DETECTED", "WATCHING"} \cup Initiatives!DuplicateOpportunity
  /\ \A s \in DOMAIN Initiatives!OpportunityMoves :
       /\ "PROPOSED_INITIATIVE" \in Initiatives!OpportunityMoves[s] <=> s = "QUALIFIED"
       /\ s \notin {"none", "DETECTED", "WATCHING", "QUALIFIED"} => s \notin Initiatives!DuplicateOpportunity
  /\ \A s \in DOMAIN Initiatives!InitiativeMoves : \A target \in Initiatives!InitiativeMoves[s] :
       /\ target \in DOMAIN Initiatives!InitiativeMoves
       /\ target \in Initiatives!DuplicateInitiative => s \in Initiatives!DuplicateInitiative
       /\ target \in Initiatives!ActiveInitiative /\ s \notin Initiatives!ActiveInitiative => target \in {"ACCEPTED", "ACTIVE"}
  /\ \A s \in DOMAIN Initiatives!InitiativeMoves :
       s \in Initiatives!ActiveInitiative <=> s \notin Initiatives!Closed \cup {"none", "DISCOVERED", "PROPOSED", "DEFERRED", "PAUSED"}
  /\ \A s \in DOMAIN Initiatives!GapMoves : Initiatives!GapMoves[s] \subseteq DOMAIN Initiatives!GapMoves
  /\ Initiatives!DuplicateOpportunity \subseteq DOMAIN Initiatives!OpportunityMoves
BY DEF Initiatives!OpportunityMoves, Initiatives!InitiativeMoves, Initiatives!GapMoves,
   Initiatives!DuplicateOpportunity, Initiatives!DuplicateInitiative, Initiatives!ActiveInitiative,
   Initiatives!Closed

LEMMA ItemsApart ==
  /\ Gap \in Initiatives!Item /\ Gap \notin Opportunity /\ Gap \notin Initiative
  /\ Opportunity \subseteq Initiatives!Item /\ Initiative \subseteq Initiatives!Item /\ Initiatives!Made \subseteq Initiative
  /\ \A o \in Opportunity : o \notin Initiative /\ o # Gap /\ o # None
  /\ \A n \in Initiative : n \notin Opportunity /\ n # Gap /\ n # None
  /\ \A i \in Initiatives!Item : i \in Opportunity \/ i \in Initiative \/ i = Gap
BY ServicesAssumption DEF Initiatives!Item, Initiatives!Made

LEMMA PlayIsFinite == IsFiniteSet(Initiatives!InPlay) /\ \A x : IsFiniteSet(Initiatives!InPlay \ x)
<1>1. IsFiniteSet(Opportunity \cup Initiative)
  BY ServicesAssumption, FS_Union
<1>2. Initiatives!InPlay \in SUBSET (Opportunity \cup Initiative) /\ \A x : Initiatives!InPlay \ x \in SUBSET (Opportunity \cup Initiative)
  BY ItemsApart DEF Initiatives!InPlay
<1>3. QED BY <1>1, <1>2, FS_Subset

LEMMA WorkIsFinite == \A i : IsFiniteSet(Initiatives!Working(i))
<1>1. \A i : Initiatives!Working(i) \in SUBSET Initiative
  BY DEF Initiatives!Working
<1>2. QED BY <1>1, ServicesAssumption, FS_Subset

-----------------------------------------------------------------------------

\* What becomes of the calls of others when a call gives an item another status.
OthersGoOn(w, i, new) ==
  \A v \in Worker \ {w} :
    /\ proposing'[v].op = proposing[v].op /\ proposing'[v].at = proposing[v].at
    /\ proposing'[v].opportunity = proposing[v].opportunity
    /\ proposing'[v].initiative = proposing[v].initiative
    /\ proposing'[v].on = proposing[v].on /\ proposing'[v].target = proposing[v].target
    /\ proposing'[v].current => proposing[v].current /\ (proposing[v].on # i \/ Initiatives!Moves(i) = {})
    /\ ~proposing'[v].overtaken => ~proposing[v].overtaken
    /\ proposing'[v].at = "move" /\ ~proposing'[v].overtaken =>
         ~(i \in Initiative /\ new \in Initiatives!ActiveInitiative /\ status[i] \notin Initiatives!ActiveInitiative)

\* An item gets another status, in a call that was entitled to it.
LEMMA ItemChanges ==
  ASSUME InitiativesInv, NEW w \in Worker, NEW i \in Initiatives!Item, NEW new \in Initiatives!Status, NEW next \in Initiatives!Proposing,
         status' = [status EXCEPT ![i] = new],
         proposing' \in [Worker -> Initiatives!Proposing], proposing'[w] = next,
         OthersGoOn(w, i, new),
         i \in Opportunity => new \in DOMAIN Initiatives!OpportunityMoves,
         i \in Initiative => new \in DOMAIN Initiatives!InitiativeMoves,
         i = Gap => new \in DOMAIN Initiatives!GapMoves,
         CallFits(next), ~(next.at = "move" /\ next.current)
  PROVE  status' \in [Initiatives!Item -> Initiatives!Status] /\ StatusesFit' /\ CallsFitItems' /\ MovesAreDue'
<1>0. status \in [Initiatives!Item -> Initiatives!Status] /\ proposing \in [Worker -> Initiatives!Proposing]
  BY DEF InitiativesInv, Initiatives!TypeOK
<1> USE DEF OthersGoOn
<1>1. /\ status' \in [Initiatives!Item -> Initiatives!Status] /\ status'[i] = new
      /\ \A j \in Initiatives!Item \ {i} : status'[j] = status[j]
  BY <1>0
<1>2. StatusesFit'
  BY <1>1, ItemsApart DEF InitiativesInv, StatusesFit
<1>3. CallsFitItems'
  BY DEF InitiativesInv, CallsFitItems, CallFits, Consuming
<1>4. MovesAreDue'
  <2> SUFFICES ASSUME NEW v \in Worker, proposing'[v].at = "move", proposing'[v].current
               PROVE  MoveIsDue(proposing[v])'
    BY DEF MovesAreDue
  <2>1. v # w
    OBVIOUS
  <2>2. proposing[v].on \in Initiatives!Item /\ proposing[v].at = "move" /\ proposing[v].current
    BY <2>1 DEF InitiativesInv, CallsFitItems, CallFits
  <2>3. MoveIsDue(proposing[v])
    BY <2>2 DEF InitiativesInv, MovesAreDue
  <2>4. PICK j, target : j \in Initiatives!Item /\ j = proposing[v].on /\ target = proposing[v].target
    BY <2>2
  <2>5. j # i /\ target \in Initiatives!Moves(j) /\ proposing'[v].on = j /\ proposing'[v].target = target
    BY InitiativesCounts, <2>1, <2>3, <2>4 DEF MoveIsDue
  <2>6. Initiatives!Moves(j)' = Initiatives!Moves(j) /\ (Initiatives!EntersPlay(j, target)' <=> Initiatives!EntersPlay(j, target))
    BY <1>1, <2>5 DEF Initiatives!Moves, Initiatives!EntersPlay
  <2>7. ASSUME Initiatives!EntersPlay(j, target), ~proposing'[v].overtaken PROVE Cardinality(Initiatives!Working(j)') < WipCap
    <3>1. Cardinality(Initiatives!Working(j)) < WipCap
      BY InitiativesCounts, <2>1, <2>3, <2>4, <2>7 DEF MoveIsDue
    <3>2. Initiatives!Working(j)' \in SUBSET Initiatives!Working(j)
      <4>1. \A n \in Initiative : status'[n] \in Initiatives!ActiveInitiative => status[n] \in Initiatives!ActiveInitiative
        BY <1>1, <2>1, <2>7, ItemsApart
      <4>2. QED BY <4>1 DEF Initiatives!Working
    <3>3. /\ Cardinality(Initiatives!Working(j)') <= Cardinality(Initiatives!Working(j)) /\ Cardinality(Initiatives!Working(j)) \in Nat
          /\ Cardinality(Initiatives!Working(j)') \in Nat
      BY <3>2, WorkIsFinite, FewMore
    <3>4. QED BY <3>1, <3>3, ServicesAssumption
  <2>8. QED BY InitiativesCounts, <2>5, <2>6, <2>7 DEF MoveIsDue
<1>5. QED BY <1>1, <1>2, <1>3, <1>4

\* A step of one call, while every item stays as it is.
LEMMA CallGoes ==
  ASSUME InitiativesInv, NEW w \in Worker, NEW c \in Initiatives!Proposing, Initiatives!Goes(w, c), UNCHANGED <<status, overtaken>>,
         CallFits(c), c.at = "move" /\ c.current => MoveIsDue(c),
         fence' \in Worker \cup {None}, fence' = fence \/ fence = None \/ fence = w,
         Fenced(c) => fence' = w,
         cutShort' \in Nat, cutShort <= cutShort', PlayIsKnown(c),
         Consuming(proposing[w]) /\ ~Consuming(c) => Cardinality(Initiatives!InPlay) <= 1 + cutShort'
  PROVE  /\ proposing' \in [Worker -> Initiatives!Proposing]
         /\ StatusesFit' /\ CallsFitItems' /\ FenceIsHeld' /\ MovesAreDue' /\ OneInPlay' /\ Initiatives!WipIsCapped'
<1>0. proposing \in [Worker -> Initiatives!Proposing] /\ cutShort \in Nat
  BY DEF InitiativesInv, Initiatives!TypeOK
<1>1. proposing' \in [Worker -> Initiatives!Proposing] /\ proposing'[w] = c /\ \A v \in Worker \ {w} : proposing'[v] = proposing[v]
  BY <1>0 DEF Initiatives!Goes
<1>2. StatusesFit' /\ CallsFitItems' /\ Initiatives!WipIsCapped'
  BY InitiativesCounts, <1>1 DEF InitiativesInv, StatusesFit, CallsFitItems, CallFits, Consuming,
     Initiatives!WipIsCapped
<1>3. FenceIsHeld'
  <2> SUFFICES ASSUME NEW v \in Worker, Fenced(proposing'[v]) PROVE fence' = v
    BY DEF FenceIsHeld, Fenced
  <2>1. CASE v = w
    BY <1>1, <2>1
  <2>2. CASE v # w
    <3>1. fence = v
      BY <1>1, <2>2 DEF InitiativesInv, FenceIsHeld
    <3>2. QED BY <2>2, <3>1, ServicesAssumption
  <2>3. QED BY <2>1, <2>2
<1>4. MovesAreDue'
  <2> SUFFICES ASSUME NEW v \in Worker, proposing'[v].at = "move", proposing'[v].current
               PROVE  MoveIsDue(proposing[v])'
    BY DEF MovesAreDue
  <2>1. PICK d : d = proposing'[v]
    OBVIOUS
  <2>2. MoveIsDue(d)
    BY <1>1, <2>1 DEF InitiativesInv, MovesAreDue
  <2>3. QED BY InitiativesCounts, <2>1, <2>2 DEF MoveIsDue, Initiatives!Moves,
      Initiatives!EntersPlay, Initiatives!Working
<1>5. OneInPlay'
  <2>0. Initiatives!InPlay' = Initiatives!InPlay
    BY DEF Initiatives!InPlay
  <2>1. ASSUME NEW v \in Worker PROVE PlayIsKnown(proposing[v])'
    <3>1. PICK d : d = proposing'[v]
      OBVIOUS
    <3>2. PlayIsKnown(d)
      BY <1>1, <3>1 DEF InitiativesInv, OneInPlay
    <3>3. Cardinality(Initiatives!InPlay \ {d.opportunity, d.initiative}) \in Nat
      BY PlayIsFinite, FS_CardinalityType
    <3>4. QED BY <1>0, <2>0, <3>1, <3>2, <3>3 DEF PlayIsKnown, Consuming
  <2>2. ASSUME \A v \in Worker : ~Consuming(proposing'[v]) PROVE Cardinality(Initiatives!InPlay) <= 1 + cutShort'
    <3>1. CASE Consuming(proposing[w])
      BY <1>1, <2>2, <3>1
    <3>2. CASE ~Consuming(proposing[w])
      <4>1. \A v \in Worker : ~Consuming(proposing[v])
        BY <1>1, <2>2, <3>2
      <4>2. Cardinality(Initiatives!InPlay) <= 1 + cutShort
        BY <4>1 DEF InitiativesInv, OneInPlay
      <4>3. Cardinality(Initiatives!InPlay) \in Nat
        BY PlayIsFinite, FS_CardinalityType
      <4>4. QED BY <1>0, <4>2, <4>3
    <3>3. QED BY <3>1, <3>2
  <2>3. QED BY <2>0, <2>1, <2>2 DEF OneInPlay, Consuming
<1>6. QED BY <1>1, <1>2, <1>3, <1>4, <1>5

LEMMA InitiativesStart == ASSUME Initiatives!Init PROVE InitiativesInv
<1>0. /\ None \notin Worker /\ WipCap \in Nat \ {0} /\ LastCooldownDay \in Nat
      /\ MaxProposalCalls \in Nat /\ MaxProposalCrashes \in Nat /\ Elder \in Initiative
  BY ServicesAssumption
<1>1. PICK elder \in {"PAUSED", "ACTIVE"}, early \in {{}} \cup {{o} : o \in Opportunity} :
        /\ status = [i \in Initiatives!Item |-> CASE i = Gap -> "ACTIVE" [] i = Elder -> elder
                                      [] i \in early -> "QUALIFIED" [] OTHER -> "none"]
        /\ eligible = early
  BY DEF Initiatives!Init
<1>2. /\ source = [n \in Initiative |-> None] /\ settled = [i \in Initiatives!Item |-> 0] /\ day = 0
      /\ proposing = [w \in Worker |-> Initiatives!Free] /\ fence = None
      /\ overtaken = 0 /\ cutShort = 0 /\ proposalCalls = 0 /\ proposalCrashes = 0
  BY DEF Initiatives!Init
<1>3. early \subseteq Opportunity /\ \A x, y \in early : x = y
  OBVIOUS
<1>4. ASSUME NEW i \in Initiatives!Item
      PROVE  /\ i = Gap => status[i] = "ACTIVE"
             /\ i \in Opportunity => status[i] = IF i \in early THEN "QUALIFIED" ELSE "none"
             /\ i \in Initiative => status[i] = IF i = Elder THEN elder ELSE "none"
  <2>1. status[i] = CASE i = Gap -> "ACTIVE" [] i = Elder -> elder [] i \in early -> "QUALIFIED" [] OTHER -> "none"
    BY <1>1
  <2>2. CASE i = Gap
    <3>1. i \notin Opportunity /\ i \notin Initiative /\ i # Elder /\ i \notin early
      BY <1>0, <1>3, <2>2, ItemsApart
    <3>2. QED BY <2>1, <2>2, <3>1
  <2>3. CASE i \in Opportunity
    <3>1. i # Gap /\ i # Elder /\ i \notin Initiative
      BY <1>0, <2>3, ItemsApart
    <3>2. QED BY <2>1, <3>1
  <2>4. CASE i \in Initiative
    <3>1. i # Gap /\ i \notin early /\ i \notin Opportunity
      BY <1>3, <2>4, ItemsApart
    <3>2. QED BY <2>1, <3>1
  <2>5. QED BY <2>2, <2>3, <2>4, ItemsApart
<1>5. StatusesFit
  BY <1>4, ItemsApart DEF StatusesFit, Initiatives!OpportunityMoves, Initiatives!InitiativeMoves,
     Initiatives!GapMoves
<1>6. /\ Initiatives!Free \in Initiatives!Proposing /\ Initiatives!Free.at = "idle" /\ Initiatives!Free.op = "none" /\ Initiatives!Free.initiative = None
  BY DEF Initiatives!Free, Initiatives!Proposing, Initiatives!Status, Initiatives!OpportunityMoves
<1>7. Initiatives!TypeOK
  <2>1. status \in [Initiatives!Item -> Initiatives!Status]
    <3>1. \A i \in Initiatives!Item : status[i] \in Initiatives!Status
      BY <1>5, ItemsApart DEF StatusesFit, Initiatives!Status
    <3>2. QED BY <1>1, <3>1
  <2>2. 0 \in 0 .. LastCooldownDay /\ 0 \in 0 .. MaxProposalCalls /\ 0 \in 0 .. MaxProposalCrashes
    BY <1>0
  <2>3. eligible \subseteq Opportunity
    BY <1>1, <1>3
  <2>4. QED BY <1>2, <1>6, <2>1, <2>2, <2>3 DEF Initiatives!TypeOK
<1>8. CallsFitItems /\ FenceIsHeld /\ MovesAreDue
  BY <1>2, <1>6 DEF CallsFitItems, CallFits, Consuming, FenceIsHeld, Fenced, MovesAreDue
<1>9. OneInPlay
  <2>1. Initiatives!InPlay \in SUBSET early
    <3>1. \A n \in Initiatives!Made : status[n] = "none"
      BY <1>4, ItemsApart DEF Initiatives!Made
    <3>2. \A o \in Opportunity : o \notin early => status[o] = "none"
      BY <1>4, ItemsApart
    <3>3. QED BY <3>1, <3>2 DEF Initiatives!InPlay, Initiatives!DuplicateOpportunity,
        Initiatives!DuplicateInitiative, Initiatives!ActiveInitiative
  <2>2. Cardinality(Initiatives!InPlay) <= 1
    <3>1. CASE early = {}
      <4>1. Initiatives!InPlay = {}
        BY <2>1, <3>1
      <4>2. QED BY <4>1, FS_EmptySet
    <3>2. CASE early # {}
      <4>1. PICK o : Initiatives!InPlay \in SUBSET ({} \cup {o})
        BY <2>1, <3>2
      <4>2. IsFiniteSet({}) /\ Cardinality({}) = 0
        BY FS_EmptySet
      <4>3. Cardinality(Initiatives!InPlay) <= 0 + 1
        BY <4>1, <4>2, FewMore
      <4>4. QED BY <4>3, PlayIsFinite, FS_CardinalityType
    <3>3. QED BY <3>1, <3>2
  <2>3. Cardinality(Initiatives!InPlay) \in Nat
    BY PlayIsFinite, FS_CardinalityType
  <2>4. QED BY <1>2, <1>6, <2>2, <2>3 DEF OneInPlay, PlayIsKnown, Consuming
<1>10. Initiatives!WipIsCapped
  <2> DEFINE A == {n \in Initiative : status[n] \notin Initiatives!Closed \cup {"none", "DISCOVERED", "PROPOSED", "DEFERRED", "PAUSED"}}
  <2>1. A \in SUBSET ({} \cup {Elder})
    BY <1>4, ItemsApart
  <2>2. IsFiniteSet({}) /\ Cardinality({}) = 0
    BY FS_EmptySet
  <2>3. Cardinality(A) \in Nat /\ Cardinality(A) <= 0 + 1
    <3> HIDE DEF A
    <3> QED BY <2>1, <2>2, FewMore
  <2>4. QED BY InitiativesCounts, <1>0, <1>2, <2>3 DEF Initiatives!WipIsCapped
<1>11. QED BY <1>5, <1>7, <1>8, <1>9, <1>10 DEF InitiativesInv

LEMMA InitiativesKept == ASSUME InitiativesInv, [Initiatives!Next]_Initiatives!vars PROVE InitiativesInv'
<1>0. /\ status \in [Initiatives!Item -> Initiatives!Status] /\ source \in [Initiative -> Opportunity \cup {None}]
      /\ eligible \subseteq Opportunity /\ settled \in [Initiatives!Item -> 0 .. LastCooldownDay] /\ day \in 0 .. LastCooldownDay
      /\ proposing \in [Worker -> Initiatives!Proposing] /\ fence \in Worker \cup {None}
      /\ overtaken \in Nat /\ cutShort \in Nat
      /\ proposalCalls \in 0 .. MaxProposalCalls /\ proposalCrashes \in 0 .. MaxProposalCrashes
      /\ MaxProposalCalls \in Nat /\ MaxProposalCrashes \in Nat /\ LastCooldownDay \in Nat /\ WipCap \in Nat
      /\ None \notin Worker
  BY ServicesAssumption DEF InitiativesInv, Initiatives!TypeOK
<1>f. /\ Initiatives!Free \in Initiatives!Proposing /\ Initiatives!Free.at = "idle" /\ Initiatives!Free.op = "none" /\ Initiatives!Free.initiative = None
      /\ CallFits(Initiatives!Free) /\ ~Fenced(Initiatives!Free) /\ ~Consuming(Initiatives!Free) /\ Initiatives!Free.current = FALSE
  BY DEF Initiatives!Free, Initiatives!Proposing, Initiatives!Status, Initiatives!OpportunityMoves,
     CallFits, Fenced, Consuming
<1>p. \A c : ~Fenced(c) => PlayIsKnown(c)
  BY DEF Fenced, PlayIsKnown, Consuming
<1>n. /\ Cardinality(Initiatives!InPlay) \in Nat /\ \A x : Cardinality(Initiatives!InPlay \ x) \in Nat
  BY PlayIsFinite, FS_CardinalityType
<1>i. ASSUME NEW w \in Worker, ~Consuming(proposing[w]) PROVE proposing[w].initiative = None
  BY <1>i DEF InitiativesInv, CallsFitItems, CallFits
\* what asking for a transition amounts to
<1>q. ASSUME NEW c \in Initiatives!Proposing, NEW i \in Initiatives!Item, NEW target \in Initiatives!Status
      PROVE  /\ Initiatives!Asking(c, i, target) \in Initiatives!Proposing
             /\ Initiatives!Asking(c, i, target).op = c.op /\ Initiatives!Asking(c, i, target).at = "load"
             /\ Initiatives!Asking(c, i, target).opportunity = c.opportunity /\ Initiatives!Asking(c, i, target).initiative = c.initiative
             /\ Initiatives!Asking(c, i, target).on = i /\ Initiatives!Asking(c, i, target).target = target
             /\ Initiatives!Asking(c, i, target) # Initiatives!Free
  <2>1. \A d : d = Initiatives!Free => d.at = "idle"
    BY <1>f
  <2>2. Initiatives!Asking(c, i, target).at = "load"
    BY DEF Initiatives!Asking, Initiatives!Proposing
  <2>3. QED BY <2>1, <2>2 DEF Initiatives!Asking, Initiatives!Proposing
\* a call goes on, begins or ends
<1>r. ASSUME NEW w \in Worker, NEW c \in Initiatives!Proposing, Initiatives!Goes(w, c), UNCHANGED <<status, source, settled, day, overtaken>>,
             CallFits(c), c.at = "move" /\ c.current => MoveIsDue(c),
             fence' \in Worker \cup {None}, fence' = fence \/ fence = None \/ fence = w,
             Fenced(c) => fence' = w,
             cutShort' \in Nat, cutShort <= cutShort', PlayIsKnown(c),
             Consuming(proposing[w]) /\ ~Consuming(c) => Cardinality(Initiatives!InPlay) <= 1 + cutShort',
             eligible' \subseteq Opportunity,
             proposalCalls' \in 0 .. MaxProposalCalls, proposalCrashes' \in 0 .. MaxProposalCrashes
      PROVE  InitiativesInv'
  <2>1. /\ proposing' \in [Worker -> Initiatives!Proposing]
        /\ StatusesFit' /\ CallsFitItems' /\ FenceIsHeld' /\ MovesAreDue' /\ OneInPlay' /\ Initiatives!WipIsCapped'
    BY <1>r, CallGoes
  <2>2. Initiatives!TypeOK'
    BY <1>0, <1>r, <2>1 DEF Initiatives!TypeOK
  <2>3. QED BY <2>1, <2>2 DEF InitiativesInv
\* a call that asks for one transition of its own
<1>a. ASSUME NEW w \in Worker, NEW i \in Initiatives!Item, NEW target \in Initiatives!Status, proposing[w] = Initiatives!Free,
             Initiatives!Goes(w, Initiatives!Asking([Initiatives!Free EXCEPT !.op = "move"], i, target)),
             UNCHANGED <<status, source, eligible, settled, day, fence, overtaken, cutShort, proposalCrashes>>,
             proposalCalls' \in 0 .. MaxProposalCalls
      PROVE  InitiativesInv'
  <2>1. \E c \in Initiatives!Proposing : Initiatives!Goes(w, c) /\ c.op = "move" /\ c.at = "load" /\ c.on = i /\ c.initiative = None
    <3> DEFINE b == [Initiatives!Free EXCEPT !.op = "move"]
    <3>1. b \in Initiatives!Proposing /\ b.op = "move" /\ b.initiative = None
      BY <1>f DEF Initiatives!Proposing
    <3>2. Initiatives!Goes(w, Initiatives!Asking(b, i, target))
      BY <1>a
    <3> HIDE DEF b
    <3>3. QED BY <1>q, <3>1, <3>2
  <2>2. PICK c \in Initiatives!Proposing : Initiatives!Goes(w, c) /\ c.op = "move" /\ c.at = "load" /\ c.on = i /\ c.initiative = None
    BY <2>1
  <2>3. CallFits(c) /\ ~Fenced(c) /\ ~Consuming(proposing[w])
    BY <1>a, <1>f, <2>2 DEF CallFits, Consuming, Fenced
  <2>4. QED BY <1>0, <1>a, <1>p, <1>r, <2>2, <2>3
\* a call ends: what it does not leave in play, or is counted for
<1>e. ASSUME NEW w \in Worker, Initiatives!Goes(w, Initiatives!Free), Initiatives!Released(w),
             UNCHANGED <<status, source, eligible, settled, day, overtaken, proposalCalls>>,
             proposalCrashes' \in 0 .. MaxProposalCrashes,
             cutShort' \in {cutShort, cutShort + 1}, Consuming(proposing[w]) => cutShort' = cutShort + 1
      PROVE  InitiativesInv'
  <2>1. fence' \in Worker \cup {None} /\ (fence' = fence \/ fence = w)
    BY <1>0, <1>e DEF Initiatives!Released
  <2>2. Consuming(proposing[w]) => Cardinality(Initiatives!InPlay) <= 1 + cutShort'
    <3> SUFFICES ASSUME Consuming(proposing[w]) PROVE Cardinality(Initiatives!InPlay) <= 1 + cutShort'
      OBVIOUS
    <3> DEFINE o == proposing[w].opportunity
               n == proposing[w].initiative
               B == Initiatives!InPlay \ {o, n}
    <3>1. Cardinality(B) <= cutShort
      BY DEF Consuming, InitiativesInv, OneInPlay, PlayIsKnown
    <3>2. Initiatives!InPlay \in SUBSET (B \cup {o, n}) /\ IsFiniteSet(B)
      BY PlayIsFinite
    <3>3. Cardinality(Initiatives!InPlay) <= Cardinality(B) + 2 /\ Cardinality(B) \in Nat
      <4> HIDE DEF B, o, n
      <4> QED BY <3>2, FewMore
    <3>4. QED BY <1>0, <1>e, <1>n, <3>1, <3>3
  <2>3. PICK c \in Initiatives!Proposing : c = Initiatives!Free
    BY <1>f
  <2>4. QED BY <1>0, <1>e, <1>f, <1>p, <1>r, <2>1, <2>2, <2>3
<1>1. ASSUME NEW w \in Worker, NEW o \in Opportunity, NEW fit \in BOOLEAN, Initiatives!Begin(w, o, fit) PROVE InitiativesInv'
  <2>1. \E c \in Initiatives!Proposing : Initiatives!Goes(w, c) /\ c.op = "opportunity" /\ c.at = "check" /\ c.opportunity = o /\ c.initiative = None
    <3> DEFINE c == [Initiatives!Free EXCEPT !.op = "opportunity", !.opportunity = o, !.at = "check"]
    <3>1. c \in Initiatives!Proposing /\ c.op = "opportunity" /\ c.at = "check" /\ c.opportunity = o /\ c.initiative = None
      BY <1>f DEF Initiatives!Proposing
    <3>2. Initiatives!Goes(w, c)
      BY <1>1 DEF Initiatives!Begin
    <3> HIDE DEF c
    <3>3. QED BY <3>1, <3>2
  <2>2. PICK c \in Initiatives!Proposing : Initiatives!Goes(w, c) /\ c.op = "opportunity" /\ c.at = "check" /\ c.opportunity = o /\ c.initiative = None
    BY <2>1
  <2>3. /\ UNCHANGED <<status, source, settled, day, fence, overtaken, cutShort, proposalCrashes>>
        /\ eligible' \subseteq Opportunity /\ proposing[w] = Initiatives!Free
    BY <1>0, <1>1 DEF Initiatives!Begin
  <2>4. proposalCalls' \in 0 .. MaxProposalCalls
    BY <1>0, <1>1 DEF Initiatives!Begin, Initiatives!Counted
  <2>5. CallFits(c) /\ ~Fenced(c) /\ ~Consuming(proposing[w])
    BY <1>f, <2>2, <2>3 DEF CallFits, Consuming, Fenced
  <2>6. QED BY <1>0, <1>p, <1>r, <2>2, <2>3, <2>4, <2>5
<1>2. ASSUME NEW w \in Worker, NEW o \in Opportunity, Initiatives!BeginInitiative(w, o) PROVE InitiativesInv'
  <2>1. \E c \in Initiatives!Proposing : Initiatives!Goes(w, c) /\ c.op = "initiative" /\ c.at = "check" /\ c.opportunity = o /\ c.initiative = None
    <3> DEFINE c == [Initiatives!Free EXCEPT !.op = "initiative", !.opportunity = o, !.at = "check"]
    <3>1. c \in Initiatives!Proposing /\ c.op = "initiative" /\ c.at = "check" /\ c.opportunity = o /\ c.initiative = None
      BY <1>f DEF Initiatives!Proposing
    <3>2. Initiatives!Goes(w, c)
      BY <1>2 DEF Initiatives!BeginInitiative
    <3> HIDE DEF c
    <3>3. QED BY <3>1, <3>2
  <2>2. PICK c \in Initiatives!Proposing : Initiatives!Goes(w, c) /\ c.op = "initiative" /\ c.at = "check" /\ c.opportunity = o /\ c.initiative = None
    BY <2>1
  <2>3. /\ UNCHANGED <<status, source, eligible, settled, day, fence, overtaken, cutShort, proposalCrashes>>
        /\ proposing[w] = Initiatives!Free
    BY <1>2 DEF Initiatives!BeginInitiative
  <2>4. proposalCalls' \in 0 .. MaxProposalCalls
    BY <1>0, <1>2 DEF Initiatives!BeginInitiative, Initiatives!Counted
  <2>5. CallFits(c) /\ ~Fenced(c) /\ ~Consuming(proposing[w])
    BY <1>f, <2>2, <2>3 DEF CallFits, Consuming, Fenced
  <2>6. QED BY <1>0, <1>p, <1>r, <2>2, <2>3, <2>4, <2>5
<1>3. ASSUME NEW w \in Worker, NEW i \in Initiatives!Item, NEW target \in Initiatives!Status, Initiatives!MoveByHand(w, i, target) PROVE InitiativesInv'
  <2>1. proposalCalls' \in 0 .. MaxProposalCalls
    BY <1>0, <1>3 DEF Initiatives!MoveByHand, Initiatives!Counted
  <2>2. QED BY <1>3, <1>a, <2>1 DEF Initiatives!MoveByHand
<1>4. ASSUME NEW w \in Worker, NEW o \in Opportunity, Initiatives!Qualify(w, o) PROVE InitiativesInv'
  <2>1. proposalCalls' \in 0 .. MaxProposalCalls
    BY <1>0, <1>4 DEF Initiatives!Qualify, Initiatives!Counted
  <2>2. "QUALIFIED" \in Initiatives!Status /\ o \in Initiatives!Item
    BY ItemsApart DEF Initiatives!Status, Initiatives!OpportunityMoves
  <2>3. QED BY <1>4, <1>a, <2>1, <2>2 DEF Initiatives!Qualify
<1>5. ASSUME NEW w \in Worker, Initiatives!Check(w) PROVE InitiativesInv'
  <2>1. /\ proposing[w].at = "check" /\ proposing[w].op = "opportunity"
        /\ UNCHANGED <<status, source, eligible, settled, day, overtaken, cutShort, proposalCalls, proposalCrashes>>
    BY <1>5 DEF Initiatives!Check
  <2>2. ~Consuming(proposing[w])
    BY <2>1 DEF Consuming
  <2>3. CASE fence # None \/ Initiatives!Duplicate
    <3>1. Initiatives!Goes(w, Initiatives!Free) /\ fence' = fence
      BY <1>5, <2>3 DEF Initiatives!Check
    <3>2. PICK c \in Initiatives!Proposing : c = Initiatives!Free
      BY <1>f
    <3>3. QED BY <1>0, <1>f, <1>p, <1>r, <2>1, <2>2, <3>1, <3>2
  <2>4. CASE ~(fence # None \/ Initiatives!Duplicate)
    <3> DEFINE d == [proposing[w] EXCEPT !.at = "create"]
    <3>1. Initiatives!Goes(w, d) /\ fence' = w /\ fence = None
      BY <1>5, <2>4 DEF Initiatives!Check
    <3>2. d \in Initiatives!Proposing /\ d.op = "opportunity" /\ d.at = "create" /\ d.opportunity = proposing[w].opportunity /\ d.initiative = None
      BY <1>0, <1>i, <2>1, <2>2 DEF Initiatives!Proposing
    <3> HIDE DEF d
    <3>3. PICK c \in Initiatives!Proposing : c = d
      BY <3>2
    <3>4. Initiatives!InPlay = {}
      BY <2>4 DEF Initiatives!Duplicate, Initiatives!InPlay
    <3>5. CallFits(c) /\ PlayIsKnown(c)
      BY <2>1, <3>2, <3>3, <3>4 DEF CallFits, PlayIsKnown, Consuming, InitiativesInv, CallsFitItems
    <3>6. Initiatives!Goes(w, c) /\ c.at # "move"
      BY <3>1, <3>2, <3>3
    <3>7. QED BY <1>0, <1>r, <2>1, <2>2, <3>1, <3>5, <3>6
  <2>5. QED BY <2>3, <2>4
<1>6. ASSUME NEW w \in Worker, Initiatives!Recheck(w) PROVE InitiativesInv'
  <2>1. /\ proposing[w].at = "check" /\ proposing[w].op = "initiative"
        /\ UNCHANGED <<status, source, eligible, settled, day, overtaken, cutShort, proposalCalls, proposalCrashes>>
    BY <1>6 DEF Initiatives!Recheck
  <2>2. ~Consuming(proposing[w])
    BY <2>1 DEF Consuming
  <2> DEFINE o == proposing[w].opportunity
  <2>3. CASE ~(fence = None /\ Initiatives!Unconsumed(o))
    <3>1. Initiatives!Goes(w, Initiatives!Free) /\ fence' = fence
      BY <1>6, <2>3 DEF Initiatives!Recheck
    <3>2. PICK c \in Initiatives!Proposing : c = Initiatives!Free
      BY <1>f
    <3>3. QED BY <1>0, <1>f, <1>p, <1>r, <2>1, <2>2, <3>1, <3>2
  <2>4. CASE fence = None /\ Initiatives!Unconsumed(o)
    <3> DEFINE d == [proposing[w] EXCEPT !.at = "create"]
    <3>1. Initiatives!Goes(w, d) /\ fence' = w
      BY <1>6, <2>4 DEF Initiatives!Recheck
    <3>2. /\ d \in Initiatives!Proposing /\ d.op = "initiative" /\ d.at = "create"
          /\ d.opportunity = o /\ d.initiative = None
      BY <1>0, <1>i, <2>1, <2>2 DEF Initiatives!Proposing
    <3>3. o \in Opportunity /\ status[o] = "QUALIFIED"
      BY <2>1, <2>4 DEF InitiativesInv, CallsFitItems, CallFits, Initiatives!Unconsumed
    <3>4. \A v \in Worker : ~Consuming(proposing[v])
      BY <1>0, <2>4 DEF InitiativesInv, FenceIsHeld, Fenced, Consuming
    <3>5. Cardinality(Initiatives!InPlay) <= 1 + cutShort
      BY <3>4 DEF InitiativesInv, OneInPlay
    <3>6. Cardinality(Initiatives!InPlay \ {o, None}) <= cutShort
      <4>1. o \in Initiatives!InPlay
        BY <3>3 DEF Initiatives!InPlay, Initiatives!DuplicateOpportunity
      <4>2. Cardinality(Initiatives!InPlay \ {o}) = Cardinality(Initiatives!InPlay) - 1
        BY <4>1, PlayIsFinite, FS_RemoveElement
      <4>3. Initiatives!InPlay \ {o, None} \in SUBSET (Initiatives!InPlay \ {o}) /\ IsFiniteSet(Initiatives!InPlay \ {o})
        BY PlayIsFinite
      <4>4. Cardinality(Initiatives!InPlay \ {o, None}) <= Cardinality(Initiatives!InPlay \ {o})
        BY <4>3, FewMore
      <4>5. Cardinality(Initiatives!InPlay \ {o}) <= cutShort
        BY <1>0, <1>n, <3>5, <4>2
      <4>6. Cardinality(Initiatives!InPlay \ {o, None}) \in Nat /\ Cardinality(Initiatives!InPlay \ {o}) \in Nat
        BY <1>n
      <4>7. QED BY <1>0, <4>4, <4>5, <4>6
    <3> HIDE DEF d, o
    <3>7. PICK c \in Initiatives!Proposing : c = d
      BY <3>2
    <3>8. CallFits(c)
      BY <3>2, <3>3, <3>7 DEF CallFits, Consuming
    <3>9. PlayIsKnown(c)
      BY <3>2, <3>3, <3>6, <3>7 DEF PlayIsKnown, Consuming
    <3>10. Initiatives!Goes(w, c) /\ c.at # "move" /\ fence = None
      BY <2>4, <3>1, <3>2, <3>7
    <3>11. QED BY <1>0, <1>r, <2>1, <2>2, <3>1, <3>8, <3>9, <3>10
  <2>5. QED BY <2>3, <2>4
<1>7. ASSUME NEW w \in Worker, Initiatives!CreateOpportunity(w) PROVE InitiativesInv'
  <2> DEFINE o == proposing[w].opportunity
             after == IF o \in eligible /\ status[Gap] = "ACTIVE"
                     THEN Initiatives!Asking([proposing[w] EXCEPT !.op = "move"], o, "QUALIFIED") ELSE Initiatives!Free
  <2>1. /\ proposing[w].at = "create" /\ proposing[w].op = "opportunity" /\ status[o] = "none"
        /\ status' = [status EXCEPT ![o] = "DETECTED"] /\ settled' = [settled EXCEPT ![o] = day]
        /\ Initiatives!Goes(w, after) /\ Initiatives!Released(w)
        /\ UNCHANGED <<source, eligible, day, overtaken, cutShort, proposalCalls, proposalCrashes>>
    BY <1>7 DEF Initiatives!CreateOpportunity
  <2>2. o \in Opportunity /\ o \in Initiatives!Item /\ o \notin Initiative /\ proposing[w].initiative = None
    BY <1>i, <2>1, ItemsApart DEF InitiativesInv, CallsFitItems, CallFits, Consuming
  <2>3. /\ after \in Initiatives!Proposing /\ after.op \in {"none", "move"} /\ after.at \in {"idle", "load"}
        /\ after.initiative = None
        /\ after.at = "load" => after.on = o /\ after.op = "move"
    <3> DEFINE b == [proposing[w] EXCEPT !.op = "move"]
    <3>1. b \in Initiatives!Proposing /\ b.op = "move" /\ b.initiative = None
      BY <1>0, <2>2 DEF Initiatives!Proposing
    <3>2. "QUALIFIED" \in Initiatives!Status
      BY DEF Initiatives!Status, Initiatives!OpportunityMoves
    <3> HIDE DEF b
    <3>3. CASE after = Initiatives!Asking(b, o, "QUALIFIED")
      BY <1>q, <2>2, <3>1, <3>2, <3>3
    <3>4. CASE after = Initiatives!Free
      BY <1>f, <3>4
    <3>5. QED BY <3>3, <3>4 DEF b
  <2>4. "DETECTED" \in DOMAIN Initiatives!OpportunityMoves /\ "DETECTED" \in Initiatives!Status /\ Initiatives!Moves(o) = {}
    BY <2>1, <2>2 DEF Initiatives!Status, Initiatives!OpportunityMoves, Initiatives!Moves
  <2> HIDE DEF after, o
  <2>5. PICK c \in Initiatives!Proposing : c = after
    BY <2>3
  <2>6. CallFits(c) /\ ~Fenced(c) /\ ~Consuming(c) /\ c.at # "move"
    BY <2>2, <2>3, <2>5 DEF CallFits, Consuming, Fenced
  <2>7. /\ proposing' \in [Worker -> Initiatives!Proposing] /\ proposing'[w] = c
        /\ \A v \in Worker \ {w} : proposing'[v] = proposing[v]
    BY <1>0, <2>1, <2>5 DEF Initiatives!Goes
  <2>8. status' \in [Initiatives!Item -> Initiatives!Status] /\ StatusesFit' /\ CallsFitItems' /\ MovesAreDue'
    <3>1. PICK x \in Initiatives!Item : x = o
      BY <2>2
    <3>2. OthersGoOn(w, x, "DETECTED")
      BY <2>2, <2>4, <2>7, <3>1 DEF OthersGoOn
    <3>3. /\ status' = [status EXCEPT ![x] = "DETECTED"] /\ "DETECTED" \in Initiatives!Status
          /\ "DETECTED" \in DOMAIN Initiatives!OpportunityMoves /\ x # Gap /\ x \notin Initiative
      BY <2>1, <2>2, <2>4, <3>1, ItemsApart
    <3>4. /\ x \in Opportunity => "DETECTED" \in DOMAIN Initiatives!OpportunityMoves
          /\ x \in Initiative => "DETECTED" \in DOMAIN Initiatives!InitiativeMoves
          /\ x = Gap => "DETECTED" \in DOMAIN Initiatives!GapMoves
      BY <3>3
    <3>5. CallFits(c) /\ ~(c.at = "move" /\ c.current)
      BY <2>6
    <3>6. /\ status' = [status EXCEPT ![x] = "DETECTED"] /\ "DETECTED" \in Initiatives!Status
          /\ proposing' \in [Worker -> Initiatives!Proposing] /\ proposing'[w] = c
      BY <2>7, <3>3
    <3>7. QED BY <3>2, <3>4, <3>5, <3>6, ItemChanges
  <2>9. fence = w /\ \A v \in Worker \ {w} : ~Fenced(proposing[v])
    BY <1>0, <2>1 DEF InitiativesInv, FenceIsHeld, Fenced
  <2>10. \A v \in Worker : ~Fenced(proposing'[v])
    BY <2>6, <2>7, <2>9
  <2>11. Initiatives!InPlay' \in SUBSET ({} \cup {o})
    <3>1. Initiatives!InPlay = {}
      BY <2>1 DEF InitiativesInv, OneInPlay, PlayIsKnown
    <3>2. \A i \in Initiatives!Item \ {o} : status'[i] = status[i]
      BY <1>0, <2>1
    <3>3. QED BY <2>2, <3>1, <3>2, ItemsApart DEF Initiatives!InPlay
  <2>12. Cardinality(Initiatives!InPlay') <= 1 + cutShort
    <3>1. IsFiniteSet({}) /\ Cardinality({}) = 0
      BY FS_EmptySet
    <3>2. Cardinality(Initiatives!InPlay') \in Nat /\ Cardinality(Initiatives!InPlay') <= 0 + 1
      BY <2>11, <3>1, FewMore
    <3>3. QED BY <1>0, <3>2
  <2>13. OneInPlay' /\ FenceIsHeld'
    BY <2>1, <2>10, <2>12 DEF OneInPlay, PlayIsKnown, Fenced, Consuming, FenceIsHeld
  <2>14. Initiatives!WipIsCapped'
    <3>1. \A n \in Initiative : status'[n] = status[n]
      BY <1>0, <2>1, <2>2, ItemsApart
    <3>2. QED BY InitiativesCounts, <2>1, <3>1 DEF InitiativesInv, Initiatives!WipIsCapped
  <2>15. Initiatives!TypeOK'
    <3>1. fence' \in Worker \cup {None} /\ settled' \in [Initiatives!Item -> 0 .. LastCooldownDay]
      BY <1>0, <2>1 DEF Initiatives!Released
    <3>2. QED BY <1>0, <2>1, <2>7, <2>8, <3>1 DEF Initiatives!TypeOK
  <2>16. QED BY <2>8, <2>13, <2>14, <2>15 DEF InitiativesInv
<1>8. ASSUME NEW w \in Worker, NEW n \in Initiatives!Made, Initiatives!CreateInitiative(w, n) PROVE InitiativesInv'
  <2> DEFINE o == proposing[w].opportunity
             b == [proposing[w] EXCEPT !.initiative = n]
  <2>1. /\ proposing[w].at = "create" /\ proposing[w].op = "initiative" /\ status[n] = "none"
        /\ status' = [status EXCEPT ![n] = "DISCOVERED"] /\ source' = [source EXCEPT ![n] = o]
        /\ Initiatives!Goes(w, Initiatives!Asking(b, n, "PROPOSED"))
        /\ UNCHANGED <<eligible, settled, day, fence, overtaken, cutShort, proposalCalls, proposalCrashes>>
    BY <1>8 DEF Initiatives!CreateInitiative
  <2>2. /\ o \in Opportunity /\ n \in Initiatives!Item /\ n \in Initiative /\ n \notin Opportunity /\ n # o /\ n # Gap /\ n # None
        /\ n \notin Initiatives!InPlay
    <3>1. o \in Opportunity
      BY <2>1 DEF InitiativesInv, CallsFitItems, CallFits
    <3>2. n \in Initiatives!Item /\ n \in Initiative /\ n \notin Opportunity /\ n # o /\ n # Gap /\ n # None
      BY <3>1, ItemsApart
    <3>3. n \notin Initiatives!InPlay
      BY <2>1, <3>2 DEF Initiatives!InPlay, Initiatives!DuplicateInitiative, Initiatives!ActiveInitiative
    <3>4. QED BY <3>1, <3>2, <3>3
  <2>3. b \in Initiatives!Proposing /\ b.op = "initiative" /\ b.opportunity = o /\ b.initiative = n
    BY <1>0, <2>1 DEF Initiatives!Proposing
  <2>4. /\ "DISCOVERED" \in DOMAIN Initiatives!InitiativeMoves /\ "DISCOVERED" \in Initiatives!Status /\ "PROPOSED" \in Initiatives!Status
        /\ Initiatives!Moves(n) = {}
    BY <2>1, <2>2 DEF Initiatives!Status, Initiatives!InitiativeMoves, Initiatives!Moves
  <2> HIDE DEF b, o
  <2>5. PICK c \in Initiatives!Proposing : c = Initiatives!Asking(b, n, "PROPOSED")
    BY <1>q, <2>2, <2>3, <2>4
  <2>6. /\ c.op = "initiative" /\ c.at = "load" /\ c.on = n /\ c.initiative = n /\ c.opportunity = o
        /\ c.target = "PROPOSED"
    BY <1>q, <2>2, <2>3, <2>4, <2>5
  <2>7. CallFits(c) /\ Fenced(c) /\ Consuming(c)
    BY <2>2, <2>6 DEF CallFits, Consuming, Fenced
  <2>8. /\ proposing' \in [Worker -> Initiatives!Proposing] /\ proposing'[w] = c
        /\ \A v \in Worker \ {w} : proposing'[v] = proposing[v]
    BY <1>0, <2>1, <2>5 DEF Initiatives!Goes
  <2>9. status' \in [Initiatives!Item -> Initiatives!Status] /\ StatusesFit' /\ CallsFitItems' /\ MovesAreDue'
    <3>1. "DISCOVERED" \notin Initiatives!ActiveInitiative
      BY DEF Initiatives!ActiveInitiative
    <3>2. OthersGoOn(w, n, "DISCOVERED")
      BY <2>4, <2>8, <3>1 DEF OthersGoOn
    <3>3. QED BY <2>1, <2>2, <2>4, <2>6, <2>7, <2>8, <3>2, ItemChanges
  <2>10. fence = w /\ \A v \in Worker \ {w} : ~Fenced(proposing[v])
    BY <1>0, <2>1 DEF InitiativesInv, FenceIsHeld, Fenced
  <2>11. FenceIsHeld'
    BY <2>1, <2>8, <2>10 DEF FenceIsHeld, Fenced
  <2>12. /\ \A i \in Initiatives!Item \ {n} : status'[i] = status[i]
         /\ status'[n] = "DISCOVERED"
    BY <1>0, <2>1, <2>2
  <2>13. OneInPlay'
    <3>1. Initiatives!InPlay' \ {o, n} \in SUBSET (Initiatives!InPlay \ {o, None})
      <4>1. Initiatives!InPlay' \in SUBSET (Initiatives!InPlay \cup {n})
        BY <2>2, <2>12, ItemsApart DEF Initiatives!InPlay
      <4>2. None \notin Initiatives!InPlay'
        BY ItemsApart DEF Initiatives!InPlay
      <4>3. QED BY <4>1, <4>2
    <3>2. Cardinality(Initiatives!InPlay \ {o, None}) <= cutShort
      <4>1. proposing[w].initiative = None
        BY <1>i, <2>1 DEF Consuming
      <4>2. QED BY <2>1, <4>1 DEF InitiativesInv, OneInPlay, PlayIsKnown, o
    <3>3. Cardinality(Initiatives!InPlay' \ {o, n}) \in Nat /\ Cardinality(Initiatives!InPlay' \ {o, n}) <= cutShort
      <4> DEFINE A == Initiatives!InPlay' \ {o, n}
                 B == Initiatives!InPlay \ {o, None}
      <4>1. IsFiniteSet(B) /\ A \in SUBSET B /\ Cardinality(B) <= cutShort
        BY <3>1, <3>2, PlayIsFinite
      <4>2. Cardinality(A) \in Nat /\ Cardinality(B) \in Nat /\ Cardinality(A) <= cutShort
        <5> HIDE DEF A, B
        <5>1. Cardinality(A) \in Nat /\ Cardinality(B) \in Nat /\ Cardinality(A) <= Cardinality(B)
          BY <4>1, FewMore
        <5>2. QED BY <1>0, <4>1, <5>1
      <4>3. QED BY <4>2
    <3>4. status'[o] \notin {"none", "DETECTED", "WATCHING"}
      <4>1. status'[o] = status[o]
        BY <2>2, <2>12, ItemsApart
      <4>2. QED BY <2>1, <4>1 DEF InitiativesInv, OneInPlay, PlayIsKnown, o
    <3>5. PlayIsKnown(proposing[w])'
      BY <2>1, <2>2, <2>6, <2>8, <3>3, <3>4 DEF PlayIsKnown, Consuming
    <3>6. \A v \in Worker \ {w} : PlayIsKnown(proposing[v])'
      BY <2>8, <2>10 DEF PlayIsKnown, Fenced, Consuming
    <3>7. Consuming(proposing'[w])
      BY <2>7, <2>8
    <3>8. QED BY <3>5, <3>6, <3>7 DEF OneInPlay, Consuming
  <2>14. Initiatives!WipIsCapped'
    <3> DEFINE A == {m \in Initiative : status[m] \notin Initiatives!Closed \cup {"none", "DISCOVERED", "PROPOSED", "DEFERRED", "PAUSED"}}
    <3>1. A' = A
      BY <2>1, <2>12, ItemsApart
    <3>2. QED BY InitiativesCounts, <2>1, <3>1 DEF InitiativesInv, Initiatives!WipIsCapped
  <2>15. Initiatives!TypeOK'
    <3>1. source' \in [Initiative -> Opportunity \cup {None}]
      BY <1>0, <2>1, <2>2
    <3>2. QED BY <1>0, <2>1, <2>8, <2>9, <3>1 DEF Initiatives!TypeOK
  <2>16. QED BY <2>9, <2>11, <2>13, <2>14, <2>15 DEF InitiativesInv
<1>9. ASSUME NEW w \in Worker, Initiatives!Load(w) PROVE InitiativesInv'
  <2> DEFINE c == proposing[w]
             d == [c EXCEPT !.at = "move", !.current = TRUE, !.overtaken = FALSE]
  <2>1. /\ c.at = "load" /\ Initiatives!MayMove(c.on, c.target) /\ Initiatives!Goes(w, d)
        /\ UNCHANGED <<status, source, eligible, settled, day, fence, overtaken, cutShort, proposalCalls, proposalCrashes>>
    BY <1>9 DEF Initiatives!Load
  <2>2. /\ d \in Initiatives!Proposing /\ d.at = "move" /\ d.current /\ d.op = c.op /\ d.opportunity = c.opportunity
        /\ d.initiative = c.initiative /\ d.on = c.on /\ d.target = c.target
    <3>1. PICK p \in Initiatives!Proposing : p = c
      BY <1>0
    <3>2. PICK q : q = [p EXCEPT !.at = "move", !.current = TRUE, !.overtaken = FALSE]
      OBVIOUS
    <3>3. /\ q \in Initiatives!Proposing /\ q.at = "move" /\ q.current /\ q.op = p.op /\ q.opportunity = p.opportunity
          /\ q.initiative = p.initiative /\ q.on = p.on /\ q.target = p.target
      BY <3>2 DEF Initiatives!Proposing
    <3>4. QED BY <3>1, <3>2, <3>3
  <2>3. CallFits(c) /\ PlayIsKnown(c) /\ (Fenced(c) => fence = w)
    BY DEF InitiativesInv, CallsFitItems, OneInPlay, FenceIsHeld
  <2>4. Consuming(proposing[w]) <=> Consuming(c)
    OBVIOUS
  <2> HIDE DEF d, c
  <2>5. PICK b \in Initiatives!Proposing : b = d
    BY <2>2
  <2>6. CallFits(b)
    BY <2>1, <2>2, <2>3, <2>5 DEF CallFits, Consuming
  <2>7. PlayIsKnown(b)
    BY <2>1, <2>2, <2>3, <2>5 DEF PlayIsKnown, Consuming
  <2>8. (Fenced(b) => fence = w) /\ (Consuming(c) => Consuming(b))
    BY <2>1, <2>2, <2>3, <2>5 DEF Fenced, Consuming
  <2>9. MoveIsDue(b)
    BY InitiativesCounts, <2>1, <2>2, <2>5 DEF MoveIsDue, Initiatives!MayMove
  <2>10. Initiatives!Goes(w, b)
    BY <2>1, <2>5
  <2>11. QED BY <1>0, <1>r, <2>1, <2>4, <2>6, <2>7, <2>8, <2>9, <2>10
<1>10. ASSUME NEW w \in Worker, Initiatives!Refuse(w) PROVE InitiativesInv'
  <2> DEFINE c == proposing[w]
             after == IF c.op = "initiative" /\ c.on = c.opportunity THEN Initiatives!Asking(c, c.initiative, "DEFERRED") ELSE Initiatives!Free
  <2>1. /\ \/ c.at = "load" /\ ~Initiatives!MayMove(c.on, c.target)
           \/ c.at = "move" /\ ~c.current
        /\ Initiatives!Goes(w, after) /\ IF after = Initiatives!Free THEN Initiatives!Released(w) ELSE UNCHANGED fence
        /\ cutShort' = IF c.op = "initiative" /\ after = Initiatives!Free THEN cutShort + 1 ELSE cutShort
        /\ UNCHANGED <<status, source, eligible, settled, day, overtaken, proposalCalls, proposalCrashes>>
    BY <1>10 DEF Initiatives!Refuse
  <2>2. c \in Initiatives!Proposing /\ CallFits(c) /\ PlayIsKnown(c) /\ (Fenced(c) => fence = w)
    BY <1>0 DEF InitiativesInv, CallsFitItems, OneInPlay, FenceIsHeld
  <2>3. CASE after = Initiatives!Free
    <3>1. Consuming(c) => cutShort' = cutShort + 1
      BY <2>1, <2>3 DEF Consuming
    <3>2. Initiatives!Goes(w, Initiatives!Free) /\ Initiatives!Released(w) /\ cutShort' \in {cutShort, cutShort + 1}
      BY <2>1, <2>3
    <3> HIDE DEF after
    <3>3. QED BY <1>0, <1>e, <2>1, <3>1, <3>2
  <2>4. CASE after # Initiatives!Free
    <3>1. c.op = "initiative" /\ c.on = c.opportunity /\ after = Initiatives!Asking(c, c.initiative, "DEFERRED")
      BY <2>4
    <3>2. Consuming(c) /\ Fenced(c)
      BY <2>1, <3>1 DEF Consuming, Fenced
    <3>3. /\ c.opportunity \in Opportunity /\ c.initiative \in Initiatives!Made /\ c.initiative \in Initiatives!Item
          /\ c.target = "PROPOSED_INITIATIVE" /\ c.opportunity \notin Initiative /\ c.opportunity # c.initiative
      BY <2>2, <3>1, <3>2, ItemsApart DEF CallFits
    <3>4. "DEFERRED" \in Initiatives!Status
      BY DEF Initiatives!Status, Initiatives!InitiativeMoves
    <3>5. c.opportunity \notin Initiatives!InPlay
      <4>1. CASE c.at = "load" /\ ~Initiatives!MayMove(c.on, c.target)
        <5>1. c.target \notin Initiatives!Moves(c.on)
          BY InitiativesCounts, <3>1, <3>3, <4>1 DEF Initiatives!MayMove, Initiatives!EntersPlay
        <5>2. /\ status[c.opportunity] \in DOMAIN Initiatives!OpportunityMoves
              /\ "PROPOSED_INITIATIVE" \notin Initiatives!OpportunityMoves[status[c.opportunity]]
          BY <3>1, <3>3, <5>1 DEF InitiativesInv, StatusesFit, Initiatives!Moves
        <5>3. status[c.opportunity] \notin {"none", "DETECTED", "WATCHING", "QUALIFIED"}
          BY <2>2, <3>1, <4>1, <5>2, MovesLeavePlay DEF PlayIsKnown
        <5>4. status[c.opportunity] \notin Initiatives!DuplicateOpportunity
          BY <5>2, <5>3, MovesLeavePlay
        <5>5. c.opportunity \notin Initiatives!Made
          BY <3>3, ItemsApart
        <5>6. QED BY <5>4, <5>5 DEF Initiatives!InPlay
      <4>2. CASE c.at = "move" /\ ~c.current
        BY <2>2, <3>1, <3>2, <4>2 DEF PlayIsKnown
      <4>3. QED BY <2>1, <4>1, <4>2
    <3> HIDE DEF c
    <3>6. PICK b \in Initiatives!Proposing : b = Initiatives!Asking(c, c.initiative, "DEFERRED")
      BY <1>q, <2>2, <3>3, <3>4
    <3>7. /\ b.op = "initiative" /\ b.at = "load" /\ b.opportunity = c.opportunity /\ b.initiative = c.initiative
          /\ b.on = c.initiative /\ b.target = "DEFERRED"
      BY <1>q, <2>2, <3>1, <3>3, <3>4, <3>6
    <3>8. CallFits(b) /\ Consuming(b)
      BY <3>3, <3>7 DEF CallFits, Consuming
    <3>9. PlayIsKnown(b)
      BY <2>1, <2>2, <3>1, <3>2, <3>5, <3>7 DEF PlayIsKnown, Consuming
    <3>10. Initiatives!Goes(w, b) /\ UNCHANGED <<fence, cutShort>> /\ fence = w
      BY <2>1, <2>2, <2>4, <3>1, <3>2, <3>6
    <3>11. QED BY <1>0, <1>r, <2>1, <3>7, <3>8, <3>9, <3>10
  <2>5. QED BY <2>3, <2>4
<1>11. ASSUME NEW w \in Worker, Initiatives!Die(w) PROVE InitiativesInv'
  <2>1. /\ Initiatives!Goes(w, Initiatives!Free) /\ Initiatives!Released(w) /\ proposalCrashes' \in 0 .. MaxProposalCrashes
        /\ cutShort' = IF proposing[w].initiative # None THEN cutShort + 1 ELSE cutShort
        /\ UNCHANGED <<status, source, eligible, settled, day, overtaken, proposalCalls>>
    BY <1>0, <1>11 DEF Initiatives!Die
  <2>2. Consuming(proposing[w]) => proposing[w].initiative # None
    BY ItemsApart DEF InitiativesInv, CallsFitItems, CallFits
  <2>3. QED BY <1>0, <1>e, <2>1, <2>2
<1>12. ASSUME NEW w \in Worker, Initiatives!Save(w) PROVE InitiativesInv'
  <2>1. PICK c \in Initiatives!Proposing : c = proposing[w]
    BY <1>0
  <2>2. PICK enters \in BOOLEAN : enters = Initiatives!EntersPlay(c.on, c.target)
    BY DEF Initiatives!EntersPlay
  <2>3. /\ c.at = "move" /\ c.current
        /\ status' = [status EXCEPT ![c.on] = c.target] /\ settled' = [settled EXCEPT ![c.on] = day]
        /\ proposing' = [v \in Worker |-> IF v = w THEN Initiatives!Then(c) ELSE Initiatives!Outdated(proposing[v], c.on, enters)]
        /\ IF Initiatives!Then(c) = Initiatives!Free THEN Initiatives!Released(w) ELSE UNCHANGED fence
        /\ overtaken' = IF enters /\ c.overtaken THEN overtaken + 1 ELSE overtaken
        /\ UNCHANGED <<source, eligible, day, cutShort, proposalCalls, proposalCrashes>>
    BY <1>12, <2>1, <2>2 DEF Initiatives!Save
  <2>4. /\ CallFits(c) /\ PlayIsKnown(c) /\ MoveIsDue(c) /\ (Fenced(c) => fence = w)
        /\ c.on \in Initiatives!Item /\ c.target \in Initiatives!Status
    <3>1. CallFits(c) /\ c.on \in Initiatives!Item
      BY <2>1, <2>3 DEF InitiativesInv, CallsFitItems, CallFits
    <3>2. PlayIsKnown(c)
      BY <2>1 DEF InitiativesInv, OneInPlay
    <3>3. MoveIsDue(c)
      BY <2>1, <2>3 DEF InitiativesInv, MovesAreDue
    <3>4. Fenced(c) => fence = w
      BY <2>1 DEF InitiativesInv, FenceIsHeld
    <3>5. QED BY <3>1, <3>2, <3>3, <3>4 DEF Initiatives!Proposing
  \* the item, its status and the one it gets
  <2>5. PICK i \in Initiatives!Item, new \in Initiatives!Status : i = c.on /\ new = c.target
    BY <2>4
  <2>6. /\ status'[i] = new /\ \A j \in Initiatives!Item \ {i} : status'[j] = status[j]
        /\ new \in Initiatives!Moves(i)
    BY InitiativesCounts, <1>0, <2>3, <2>4, <2>5 DEF MoveIsDue
  <2>7. /\ i \in Opportunity => new \in DOMAIN Initiatives!OpportunityMoves /\ new \in Initiatives!OpportunityMoves[status[i]] /\ status[i] \in DOMAIN Initiatives!OpportunityMoves
        /\ i \in Initiative => new \in DOMAIN Initiatives!InitiativeMoves
        /\ i = Gap => new \in DOMAIN Initiatives!GapMoves
        /\ i \in Opportunity /\ new \in Initiatives!DuplicateOpportunity => status[i] \in Initiatives!DuplicateOpportunity
        /\ i \in Initiative /\ new \in Initiatives!DuplicateInitiative => status[i] \in Initiatives!DuplicateInitiative
        /\ i \in Initiative /\ new \in Initiatives!ActiveInitiative /\ status[i] \notin Initiatives!ActiveInitiative => enters
    <3>1. CASE i \in Opportunity
      <4>1. i \notin Initiative /\ i # Gap
        BY <3>1, ItemsApart
      <4>2. status[i] \in DOMAIN Initiatives!OpportunityMoves /\ new \in Initiatives!OpportunityMoves[status[i]]
        BY <2>6, <3>1, <4>1 DEF InitiativesInv, StatusesFit, Initiatives!Moves
      <4>3. QED BY <4>1, <4>2, MovesLeavePlay
    <3>2. CASE i \in Initiative
      <4>1. i \notin Opportunity /\ i # Gap
        BY <3>2, ItemsApart
      <4>2. status[i] \in DOMAIN Initiatives!InitiativeMoves /\ new \in Initiatives!InitiativeMoves[status[i]]
        BY <2>6, <3>2, <4>1 DEF InitiativesInv, StatusesFit, Initiatives!Moves
      <4>3. new \in Initiatives!ActiveInitiative /\ status[i] \notin Initiatives!ActiveInitiative => enters
        BY <2>2, <2>5, <3>2, <4>2, MovesLeavePlay DEF Initiatives!EntersPlay
      <4>4. QED BY <4>1, <4>2, <4>3, MovesLeavePlay
    <3>3. CASE i = Gap
      <4>1. i \notin Opportunity /\ i \notin Initiative
        BY <3>3, ItemsApart
      <4>2. status[i] \in DOMAIN Initiatives!GapMoves /\ new \in Initiatives!GapMoves[status[i]]
        BY <2>6, <3>3, <4>1 DEF InitiativesInv, StatusesFit, Initiatives!Moves
      <4>3. QED BY <4>1, <4>2, MovesLeavePlay
    <3>4. QED BY <3>1, <3>2, <3>3, ItemsApart
  \* what becomes of this call
  <2>8. \/ /\ c.op = "initiative" /\ c.on = c.initiative /\ c.target = "PROPOSED"
           /\ Initiatives!Then(c) = Initiatives!Asking(c, c.opportunity, "PROPOSED_INITIATIVE")
        \/ /\ ~(c.op = "initiative" /\ c.on = c.initiative /\ c.target = "PROPOSED")
           /\ Initiatives!Then(c) = Initiatives!Free
    BY DEF Initiatives!Then
  <2>9. PICK d \in Initiatives!Proposing : d = Initiatives!Then(c)
    <3>1. "PROPOSED_INITIATIVE" \in Initiatives!Status
      BY DEF Initiatives!Status, Initiatives!OpportunityMoves
    <3>2. c.op = "initiative" => c.opportunity \in Initiatives!Item
      BY <2>4, ItemsApart DEF CallFits
    <3>3. QED BY <1>f, <1>q, <2>8, <3>1, <3>2
  <2>10. \/ /\ c.op = "initiative" /\ c.on = c.initiative /\ d # Initiatives!Free /\ Consuming(c) /\ Fenced(c)
            /\ c.opportunity \in Opportunity /\ c.initiative \in Initiatives!Made /\ c.opportunity # i
            /\ c.opportunity # c.initiative
            /\ d.op = c.op /\ d.at = "load" /\ d.opportunity = c.opportunity /\ d.initiative = c.initiative
            /\ d.on = c.opportunity /\ d.target = "PROPOSED_INITIATIVE"
         \/ /\ d = Initiatives!Free
            /\ Consuming(c) => \/ c.on = c.opportunity /\ c.target = "PROPOSED_INITIATIVE"
                               \/ c.on = c.initiative /\ c.target = "DEFERRED"
    <3>1. CASE c.op = "initiative" /\ c.on = c.initiative /\ c.target = "PROPOSED"
      <4>1. Consuming(c) /\ Fenced(c)
        BY <2>3, <3>1 DEF Consuming, Fenced
      <4>2. c.opportunity \in Opportunity /\ c.initiative \in Initiatives!Made /\ c.opportunity \in Initiatives!Item
        BY <2>4, <3>1, <4>1, ItemsApart DEF CallFits
      <4>3. c.opportunity # c.initiative
        BY <4>2, ItemsApart
      <4>4. "PROPOSED_INITIATIVE" \in Initiatives!Status
        BY DEF Initiatives!Status, Initiatives!OpportunityMoves
      <4>5. d = Initiatives!Asking(c, c.opportunity, "PROPOSED_INITIATIVE")
        BY <2>8, <2>9, <3>1
      <4>6. QED BY <1>q, <2>5, <3>1, <4>1, <4>2, <4>3, <4>4, <4>5
    <3>2. CASE ~(c.op = "initiative" /\ c.on = c.initiative /\ c.target = "PROPOSED")
      <4>1. d = Initiatives!Free
        BY <2>8, <2>9, <3>2
      <4>2. ASSUME Consuming(c)
            PROVE  \/ c.on = c.opportunity /\ c.target = "PROPOSED_INITIATIVE"
                   \/ c.on = c.initiative /\ c.target = "DEFERRED"
        BY <2>4, <3>2, <4>2 DEF CallFits, Consuming
      <4>3. Consuming(c) => \/ c.on = c.opportunity /\ c.target = "PROPOSED_INITIATIVE"
                            \/ c.on = c.initiative /\ c.target = "DEFERRED"
        BY <4>2
      <4>4. QED BY <4>1, <4>3
    <3>3. QED BY <3>1, <3>2
  <2>11. CallFits(d) /\ d.at # "move" /\ (Fenced(d) => fence = w /\ fence' = fence)
    <3>1. CASE d = Initiatives!Free
      BY <1>f, <3>1
    <3>2. CASE d # Initiatives!Free
      <4>1. fence' = fence /\ fence = w
        BY <2>3, <2>4, <2>9, <2>10, <3>2
      <4>2. c.opportunity \in Initiatives!Item
        BY <2>10, <3>2, ItemsApart
      <4>3. QED BY <2>4, <2>10, <3>2, <4>1, <4>2 DEF CallFits, Consuming
    <3>3. QED BY <3>1, <3>2
  \* what becomes of the calls of others
  <2>12. ASSUME NEW v \in Worker \ {w}
         PROVE  /\ proposing'[v] \in Initiatives!Proposing
                /\ proposing'[v].op = proposing[v].op /\ proposing'[v].at = proposing[v].at
                /\ proposing'[v].opportunity = proposing[v].opportunity
                /\ proposing'[v].initiative = proposing[v].initiative
                /\ proposing'[v].on = proposing[v].on /\ proposing'[v].target = proposing[v].target
                /\ proposing'[v].current <=> proposing[v].current /\ proposing[v].on # i
                /\ proposing'[v].overtaken <=> proposing[v].overtaken \/ (enters /\ proposing[v].at = "move")
    <3>1. PICK b \in Initiatives!Proposing : b = proposing[v]
      BY <1>0
    <3>2. proposing'[v] = Initiatives!Outdated(b, i, enters)
      BY <2>3, <2>5, <3>1
    <3>3. QED BY <3>1, <3>2 DEF Initiatives!Outdated, Initiatives!Proposing
  <2>13. proposing' \in [Worker -> Initiatives!Proposing] /\ proposing'[w] = d
    <3>1. \A v \in Worker : (IF v = w THEN Initiatives!Then(c) ELSE Initiatives!Outdated(proposing[v], c.on, enters)) \in Initiatives!Proposing
      <4> TAKE v \in Worker
      <4>1. CASE v = w
        BY <2>9, <4>1
      <4>2. CASE v # w
        <5>1. proposing'[v] \in Initiatives!Proposing /\ proposing'[v] = Initiatives!Outdated(proposing[v], c.on, enters)
          BY <2>3, <2>12, <4>2
        <5>2. QED BY <4>2, <5>1
      <4>3. QED BY <4>1, <4>2
    <3>2. QED BY <2>3, <2>9, <3>1
  <2>14. OthersGoOn(w, i, new)
    <3>1. i \in Initiative /\ new \in Initiatives!ActiveInitiative /\ status[i] \notin Initiatives!ActiveInitiative => enters
      BY <2>7
    <3>2. QED BY <2>12, <3>1 DEF OthersGoOn
  <2>15. status' \in [Initiatives!Item -> Initiatives!Status] /\ StatusesFit' /\ CallsFitItems' /\ MovesAreDue'
    <3>1. /\ status' = [status EXCEPT ![i] = new]
          /\ i \in Opportunity => new \in DOMAIN Initiatives!OpportunityMoves
          /\ i \in Initiative => new \in DOMAIN Initiatives!InitiativeMoves
          /\ i = Gap => new \in DOMAIN Initiatives!GapMoves
          /\ CallFits(d) /\ ~(d.at = "move" /\ d.current)
      BY <2>3, <2>5, <2>7, <2>11
    <3>2. QED BY <2>13, <2>14, <3>1, ItemChanges
  <2>16. FenceIsHeld'
    <3> SUFFICES ASSUME NEW v \in Worker, Fenced(proposing'[v]) PROVE fence' = v
      BY DEF FenceIsHeld, Fenced
    <3>1. CASE v = w
      BY <2>11, <2>13, <3>1
    <3>2. CASE v # w
      <4>1. fence = v
        BY <2>12, <3>2 DEF InitiativesInv, FenceIsHeld, Fenced
      <4>2. QED BY <2>3, <3>2, <4>1 DEF Initiatives!Released
    <3>3. QED BY <3>1, <3>2
  \* nothing comes into play
  <2>17. Initiatives!InPlay' \in SUBSET Initiatives!InPlay
    <3>1. \A o \in Opportunity : status'[o] \in Initiatives!DuplicateOpportunity => status[o] \in Initiatives!DuplicateOpportunity
      BY <2>6, <2>7, ItemsApart
    <3>2. \A n \in Initiatives!Made : status'[n] \in Initiatives!DuplicateInitiative => status[n] \in Initiatives!DuplicateInitiative
      BY <2>6, <2>7, ItemsApart
    <3>3. QED BY <3>1, <3>2 DEF Initiatives!InPlay
  <2>18. \A x : Cardinality(Initiatives!InPlay' \ x) \in Nat /\ Cardinality(Initiatives!InPlay' \ x) <= Cardinality(Initiatives!InPlay \ x)
    <3> TAKE x
    <3>1. Initiatives!InPlay' \ x \in SUBSET (Initiatives!InPlay \ x) /\ IsFiniteSet(Initiatives!InPlay \ x)
      BY <2>17, PlayIsFinite
    <3>2. QED BY <3>1, FewMore
  <2>19. ASSUME NEW o \in Opportunity, status[o] \notin {"none", "DETECTED", "WATCHING"}
         PROVE  /\ status'[o] \notin {"none", "DETECTED", "WATCHING"}
                /\ o = i => o \notin Initiatives!InPlay'
    <3>1. o \in Initiatives!Item /\ o \notin Initiatives!Made
      BY ItemsApart
    <3>2. CASE o = i
      <4>1. status'[o] \notin {"none", "DETECTED", "WATCHING"} \cup Initiatives!DuplicateOpportunity
        BY <2>6, <2>7, <2>19, <3>2, MovesLeavePlay
      <4>2. QED BY <3>1, <4>1 DEF Initiatives!InPlay
    <3>3. CASE o # i
      BY <2>6, <2>19, <3>1, <3>3
    <3>4. QED BY <3>2, <3>3
  <2>20. ASSUME NEW v \in Worker \ {w} PROVE PlayIsKnown(proposing[v])'
    <3>1. PICK p \in Initiatives!Proposing : p = proposing[v]
      BY <1>0
    <3>2. PICK q \in Initiatives!Proposing : q = proposing'[v]
      BY <2>12
    <3>3. /\ q.op = p.op /\ q.at = p.at /\ q.opportunity = p.opportunity /\ q.initiative = p.initiative
          /\ q.on = p.on /\ q.target = p.target /\ (q.current <=> p.current /\ p.on # i)
      BY <2>12, <3>1, <3>2
    <3>4. PlayIsKnown(p) /\ CallFits(p)
      BY <3>1 DEF InitiativesInv, OneInPlay, CallsFitItems
    <3>5. q.op = "opportunity" /\ q.at = "create" => Initiatives!InPlay' = {}
      BY <2>17, <3>3, <3>4 DEF PlayIsKnown
    <3>6. ASSUME p.op = "initiative", p.at \in {"create", "load", "move"}
          PROVE  /\ Cardinality(Initiatives!InPlay' \ {p.opportunity, p.initiative}) <= cutShort'
                 /\ status'[p.opportunity] \notin {"none", "DETECTED", "WATCHING"}
                 /\ p.opportunity = i => p.opportunity \notin Initiatives!InPlay'
      <4>1. /\ Cardinality(Initiatives!InPlay \ {p.opportunity, p.initiative}) <= cutShort
            /\ status[p.opportunity] \notin {"none", "DETECTED", "WATCHING"} /\ p.opportunity \in Opportunity
        BY <3>4, <3>6 DEF PlayIsKnown, CallFits
      <4>2. /\ Cardinality(Initiatives!InPlay' \ {p.opportunity, p.initiative}) \in Nat
            /\ Cardinality(Initiatives!InPlay \ {p.opportunity, p.initiative}) \in Nat
            /\ Cardinality(Initiatives!InPlay' \ {p.opportunity, p.initiative}) <= Cardinality(Initiatives!InPlay \ {p.opportunity, p.initiative})
        BY <1>n, <2>18
      <4>3. Cardinality(Initiatives!InPlay' \ {p.opportunity, p.initiative}) <= cutShort'
        BY <1>0, <2>3, <4>1, <4>2
      <4>4. QED BY <2>19, <4>1, <4>3
    <3>7. ASSUME Consuming(p), (p.on = p.opportunity /\ p.at = "move" /\ ~q.current) \/ (p.on = p.initiative /\ p.target = "DEFERRED")
          PROVE  p.opportunity \notin Initiatives!InPlay'
      <4>1. p.opportunity = i \/ p.opportunity \notin Initiatives!InPlay
        BY <3>3, <3>4, <3>7 DEF PlayIsKnown
      <4>2. QED BY <2>17, <3>6, <3>7, <4>1 DEF Consuming
    <3>8. QED BY <3>2, <3>3, <3>5, <3>6, <3>7 DEF PlayIsKnown, Consuming
  <2>21. PlayIsKnown(proposing[w])'
    <3>1. CASE d = Initiatives!Free
      BY <1>f, <2>13, <3>1 DEF PlayIsKnown, Fenced, Consuming
    <3>2. CASE d # Initiatives!Free
      <4>1. /\ Cardinality(Initiatives!InPlay \ {c.opportunity, c.initiative}) <= cutShort
            /\ status[c.opportunity] \notin {"none", "DETECTED", "WATCHING"} /\ c.opportunity \in Opportunity
        BY <2>3, <2>4, <2>10, <3>2 DEF PlayIsKnown
      <4>2. /\ Cardinality(Initiatives!InPlay' \ {c.opportunity, c.initiative}) \in Nat
            /\ Cardinality(Initiatives!InPlay \ {c.opportunity, c.initiative}) \in Nat
            /\ Cardinality(Initiatives!InPlay' \ {c.opportunity, c.initiative}) <= Cardinality(Initiatives!InPlay \ {c.opportunity, c.initiative})
        BY <1>n, <2>18
      <4>3. Cardinality(Initiatives!InPlay' \ {c.opportunity, c.initiative}) <= cutShort'
        BY <1>0, <2>3, <4>1, <4>2
      <4>4. status'[c.opportunity] \notin {"none", "DETECTED", "WATCHING"}
        BY <2>19, <4>1
      <4>5. QED BY <2>10, <2>13, <3>2, <4>3, <4>4 DEF PlayIsKnown, Consuming
    <3>3. QED BY <3>1, <3>2
  <2>22. (\A v \in Worker : ~Consuming(proposing'[v])) => Cardinality(Initiatives!InPlay') <= 1 + cutShort'
    <3> SUFFICES ASSUME \A v \in Worker : ~Consuming(proposing'[v]) PROVE Cardinality(Initiatives!InPlay') <= 1 + cutShort
      BY <2>3
    <3>0. Cardinality(Initiatives!InPlay') \in Nat /\ Cardinality(Initiatives!InPlay') <= Cardinality(Initiatives!InPlay)
      BY <2>17, PlayIsFinite, FewMore
    <3>1. CASE ~Consuming(c)
      <4>1. \A v \in Worker : ~Consuming(proposing[v])
        BY <2>1, <2>12, <3>1 DEF Consuming
      <4>2. Cardinality(Initiatives!InPlay) <= 1 + cutShort
        BY <4>1 DEF InitiativesInv, OneInPlay
      <4>3. QED BY <1>0, <1>n, <3>0, <4>2
    <3>2. CASE Consuming(c)
      <4>1. d = Initiatives!Free
        BY <2>10, <2>13 DEF Consuming
      <4>2. \/ c.on = c.opportunity /\ c.target = "PROPOSED_INITIATIVE"
            \/ c.on = c.initiative /\ c.target = "DEFERRED"
        BY <2>10, <3>2, <4>1
      <4>3. /\ Cardinality(Initiatives!InPlay \ {c.opportunity, c.initiative}) <= cutShort
            /\ status[c.opportunity] \notin {"none", "DETECTED", "WATCHING"} /\ c.opportunity \in Opportunity
        BY <2>4, <3>2 DEF PlayIsKnown, CallFits, Consuming
      <4>4. c.opportunity \notin Initiatives!InPlay'
        <5>1. CASE c.on = c.opportunity
          BY <2>5, <2>19, <4>3, <5>1
        <5>2. CASE c.on = c.initiative /\ c.target = "DEFERRED"
          BY <2>4, <2>17, <3>2, <5>2 DEF PlayIsKnown
        <5>3. QED BY <4>2, <5>1, <5>2
      <4> DEFINE B == Initiatives!InPlay \ {c.opportunity, c.initiative}
                 n == c.initiative
      <4>5. Initiatives!InPlay' \in SUBSET (B \cup {n}) /\ IsFiniteSet(B) /\ Cardinality(B) \in Nat /\ Cardinality(B) <= cutShort
        BY <1>n, <2>17, <4>3, <4>4, PlayIsFinite
      <4> HIDE DEF B, n
      <4>6. Cardinality(Initiatives!InPlay') <= Cardinality(B) + 1
        BY <4>5, FewMore
      <4>7. QED BY <1>0, <3>0, <4>5, <4>6
    <3>3. QED BY <3>1, <3>2
  <2>23. OneInPlay'
    BY <2>20, <2>21, <2>22 DEF OneInPlay, Consuming
  <2>24. Initiatives!WipIsCapped'
    <3> DEFINE A == {m \in Initiative : status[m] \in Initiatives!ActiveInitiative}
               B == {m \in Initiative : status'[m] \in Initiatives!ActiveInitiative}
    <3>1. /\ {m \in Initiative : status[m] \notin Initiatives!Closed \cup {"none", "DISCOVERED", "PROPOSED", "DEFERRED", "PAUSED"}} = A
          /\ {m \in Initiative : status'[m] \notin Initiatives!Closed \cup {"none", "DISCOVERED", "PROPOSED", "DEFERRED", "PAUSED"}} = B
      <4>1. \A m \in Initiative : status[m] \in DOMAIN Initiatives!InitiativeMoves /\ status'[m] \in DOMAIN Initiatives!InitiativeMoves
        BY <2>15 DEF InitiativesInv, StatusesFit
      <4>2. QED BY <4>1, MovesLeavePlay
    <3>2. A \in SUBSET Initiative /\ B \in SUBSET Initiative /\ IsFiniteSet(Initiative)
      BY ServicesAssumption
    <3>3. IsFiniteSet(A) /\ Cardinality(A) \in Nat /\ Cardinality(B) \in Nat
      BY <3>2, FS_Subset, FS_CardinalityType
    <3>4. Cardinality(A) <= WipCap + overtaken
      BY InitiativesCounts, <3>1 DEF InitiativesInv, Initiatives!WipIsCapped
    <3>5. overtaken' \in Nat /\ overtaken <= overtaken'
      BY <1>0, <2>3
    <3>6. Cardinality(B) <= WipCap + overtaken'
      <4>1. CASE ~enters
        <5>1. B \in SUBSET A
          BY <2>6, <2>7, <4>1, ItemsApart
        <5> HIDE DEF A, B
        <5>2. Cardinality(B) <= Cardinality(A)
          BY <3>3, <5>1, FewMore
        <5>3. QED BY <1>0, <3>3, <3>4, <3>5, <5>2
      <4>2. CASE enters /\ c.overtaken
        <5>1. B \in SUBSET (A \cup {i}) /\ overtaken' = overtaken + 1
          BY <2>3, <2>6, <4>2, ItemsApart
        <5> HIDE DEF A, B
        <5>2. Cardinality(B) <= Cardinality(A) + 1
          BY <3>3, <5>1, FewMore
        <5>3. QED BY <1>0, <3>3, <3>4, <5>1, <5>2
      <4>3. CASE enters /\ ~c.overtaken
        <5> DEFINE W == Initiatives!Working(i)
        <5>1. Cardinality(W) < WipCap
          BY InitiativesCounts, <2>2, <2>4, <2>5, <4>3 DEF MoveIsDue
        <5>2. B \in SUBSET (W \cup {i})
          BY <2>6, ItemsApart DEF Initiatives!Working
        <5>3. IsFiniteSet(W) /\ Cardinality(W) \in Nat
          BY WorkIsFinite, FS_CardinalityType
        <5> HIDE DEF W, B
        <5>4. Cardinality(B) <= Cardinality(W) + 1
          BY <5>2, <5>3, FewMore
        <5>5. QED BY <1>0, <3>3, <3>5, <5>1, <5>3, <5>4
      <4>4. QED BY <4>1, <4>2, <4>3
    <3>7. QED BY InitiativesCounts, <3>1, <3>6 DEF Initiatives!WipIsCapped
  <2>25. Initiatives!TypeOK'
    <3>1. overtaken' \in Nat /\ settled' \in [Initiatives!Item -> 0 .. LastCooldownDay]
      BY <1>0, <2>3, <2>4
    <3>2. fence' \in Worker \cup {None}
      BY <1>0, <2>3 DEF Initiatives!Released
    <3>3. QED BY <1>0, <2>3, <2>13, <2>15, <3>1, <3>2 DEF Initiatives!TypeOK
  <2>26. QED BY <2>15, <2>16, <2>23, <2>24, <2>25 DEF InitiativesInv
<1>13. ASSUME Initiatives!PassDay PROVE InitiativesInv'
  <2>1. /\ day' \in 0 .. LastCooldownDay
        /\ UNCHANGED <<status, source, eligible, settled, proposing, fence, overtaken, cutShort, proposalCalls, proposalCrashes>>
    BY <1>0, <1>13 DEF Initiatives!PassDay
  <2>2. /\ StatusesFit' /\ CallsFitItems' /\ FenceIsHeld' /\ Initiatives!WipIsCapped' /\ Initiatives!InPlay' = Initiatives!InPlay
    BY InitiativesCounts, <2>1 DEF InitiativesInv, StatusesFit, CallsFitItems, FenceIsHeld,
       Initiatives!WipIsCapped, Initiatives!InPlay, CallFits, Fenced, Consuming
  <2>3. MovesAreDue' /\ OneInPlay'
    BY InitiativesCounts, <2>1, <2>2 DEF InitiativesInv, MovesAreDue, MoveIsDue, Initiatives!Moves,
       Initiatives!EntersPlay, Initiatives!Working, OneInPlay, PlayIsKnown, Consuming
  <2>4. Initiatives!TypeOK'
    BY <1>0, <2>1 DEF Initiatives!TypeOK
  <2>5. QED BY <2>2, <2>3, <2>4 DEF InitiativesInv
<1>14. ASSUME UNCHANGED Initiatives!vars PROVE InitiativesInv'
  <2>1. UNCHANGED <<status, source, eligible, settled, day, proposing, fence, overtaken, cutShort, proposalCalls, proposalCrashes>>
    BY <1>14 DEF Initiatives!vars
  <2>2. /\ StatusesFit' /\ CallsFitItems' /\ FenceIsHeld' /\ Initiatives!WipIsCapped' /\ Initiatives!InPlay' = Initiatives!InPlay
    BY InitiativesCounts, <2>1 DEF InitiativesInv, StatusesFit, CallsFitItems, FenceIsHeld,
       Initiatives!WipIsCapped, Initiatives!InPlay, CallFits, Fenced, Consuming
  <2>3. MovesAreDue' /\ OneInPlay'
    BY InitiativesCounts, <2>1, <2>2 DEF InitiativesInv, MovesAreDue, MoveIsDue, Initiatives!Moves,
       Initiatives!EntersPlay, Initiatives!Working, OneInPlay, PlayIsKnown, Consuming
  <2>4. Initiatives!TypeOK'
    BY <1>0, <2>1 DEF Initiatives!TypeOK
  <2>5. QED BY <2>2, <2>3, <2>4 DEF InitiativesInv
<1>15. QED BY <1>1, <1>2, <1>3, <1>4, <1>5, <1>6, <1>7, <1>8, <1>9, <1>10, <1>11, <1>12, <1>13,
    <1>14 DEF Initiatives!Next

\* What holds the lock of the fingerprint, and the calls on the way, bound what is in play.
LEMMA InitiativesBounded == ASSUME InitiativesInv PROVE Initiatives!ProposedOnce
<1>1. cutShort \in Nat /\ Cardinality(Initiatives!InPlay) \in Nat
  BY PlayIsFinite, FS_CardinalityType DEF InitiativesInv, Initiatives!TypeOK
<1>2. IsFiniteSet(Initiatives!Turning) /\ Cardinality(Initiatives!Turning) \in Nat
  <2>1. Initiatives!Turning \in SUBSET Worker
    BY DEF Initiatives!Turning
  <2>2. QED BY <2>1, ServicesAssumption, FS_Subset, FS_CardinalityType
<1>3. CASE \A w \in Worker : ~Consuming(proposing[w])
  <2>1. Cardinality(Initiatives!InPlay) <= 1 + cutShort
    BY <1>3 DEF InitiativesInv, OneInPlay
  <2>2. QED BY InitiativesCounts, <1>1, <1>2, <2>1 DEF Initiatives!ProposedOnce
<1>4. ASSUME NEW w \in Worker, Consuming(proposing[w]) PROVE Initiatives!ProposedOnce
  <2> DEFINE o == proposing[w].opportunity
             n == proposing[w].initiative
             B == Initiatives!InPlay \ {o, n}
  <2>1. Cardinality(B) <= cutShort
    BY <1>4 DEF InitiativesInv, OneInPlay, PlayIsKnown, Consuming
  <2>2. Initiatives!InPlay \in SUBSET (B \cup {o, n}) /\ IsFiniteSet(B)
    BY PlayIsFinite
  <2> HIDE DEF o, n, B
  <2>3. Cardinality(Initiatives!InPlay) <= Cardinality(B) + 2 /\ Cardinality(B) \in Nat
    BY <2>2, FewMore
  <2>4. Cardinality(Initiatives!Turning) >= 1
    <3>1. w \in Initiatives!Turning
      BY <1>4 DEF Initiatives!Turning, Consuming
    <3>2. Cardinality(Initiatives!Turning) # 0
      BY <1>2, <3>1, FS_EmptySet
    <3>3. QED BY <1>2, <3>2
  <2>5. QED BY InitiativesCounts, <1>1, <1>2, <2>1, <2>3, <2>4 DEF Initiatives!ProposedOnce
<1>5. QED BY <1>3, <1>4

(***************************************************************************)
(* Proposals. A call that was not crossed is the only one to write what it *)
(* writes; what is there was written by such a call, or is counted as      *)
(* crossed or as left unmarked.                                            *)
(***************************************************************************)

\* The cardinality that the part's module extends is this one.
LEMMA ProposalsCounts == \A S : Proposals!Cardinality(S) = Cardinality(S)
  BY DEF Proposals!Cardinality, Cardinality

\* The objects are of the proposal's kind; what is not a learning is marked as it is created.
Statuses == [gap |-> {"ACTIVE", "RESOLVED"}, objective |-> {"QUEUED", "RUNNING", "CANCELLED"},
             model_belief |-> {"ACTIVE", "CONTRADICTED", "RETIRED"},
             learning |-> {"OBSERVATION", "PATTERN", "REJECTED"}]
CopiesFit ==
  /\ kind \in Proposals!Candidates => \A x \in Copy : copy[x].status = "none"
  /\ kind \notin Proposals!Candidates => \A x \in Copy : copy[x].status \in {"none"} \cup Statuses[kind]
  /\ kind # "learning" => \A x \in Copy : copy[x].status # "none" => copy[x].marked
  /\ candidate = "none" <=> kind \notin Proposals!Candidates

\* What a call at its stage is about; until a candidate is routed nothing outdates a copy of it.
CallServes(c) ==
  /\ c.at \in {"create", "mark"} => kind \notin Proposals!Candidates
  /\ c.at = "mark" => kind = "learning" /\ c.on \in Copy
  /\ c.at \in {"send", "note"} => kind = "learning_candidate"
  /\ c.at = "retire" => kind = "transient"
  /\ c.at \in {"send", "note", "retire"} => (candidate = "CANDIDATE" => c.current)
CallsServe == \A w \in Worker : CallServes(applying[w])

\* A call that was not crossed is the only one to write what it writes.
LiveMarked == {x \in Copy : Proposals!Same(x)}
OverlapIsKnown(w) ==
  ~applying[w].crossed =>
    /\ applying[w].at = "create" => Proposals!Underway = {} /\ LiveMarked = {}
    /\ applying[w].at = "mark" =>
         /\ Cardinality(LiveMarked) <= crossed
         /\ \A v \in Worker \ {w} : applying[v].at \in {"create", "mark"} => applying[v].crossed
    /\ applying[w].at = "send" => Proposals!Underway = {} /\ candidate = "CANDIDATE"
OverlapsAreKnown == \A w \in Worker : OverlapIsKnown(w)

\* What is there, by the calls that were crossed or cut short and the beliefs refreshed too late.
Abandoned == {x \in Proposals!Live \ LiveMarked : \A w \in Worker : applying[w].at = "mark" => applying[w].on # x}
CopiesAreCounted ==
  /\ Cardinality(LiveMarked) <= 1 + crossed + revived
  /\ Cardinality(Abandoned) <= unmarked
DeliveriesAreCounted ==
  /\ deliveries <= 1 + crossed + unmarked
  /\ kind # "learning_candidate" => deliveries = 0
  /\ candidate = "CANDIDATE" => deliveries <= unmarked + Cardinality(Proposals!Underway)

ProposalsInv ==
  /\ Proposals!TypeOK /\ CopiesFit /\ CallsServe
  /\ OverlapsAreKnown
  /\ CopiesAreCounted /\ DeliveriesAreCounted

-----------------------------------------------------------------------------


\* Of the sets that are counted.
LEMMA ProposalsFinite ==
  /\ \A S \in SUBSET Copy : IsFiniteSet(S) /\ Cardinality(S) \in Nat
  /\ \A S \in SUBSET Worker : IsFiniteSet(S) /\ Cardinality(S) \in Nat
  /\ LiveMarked \in SUBSET Copy /\ Abandoned \in SUBSET Copy /\ Proposals!Live \in SUBSET Copy /\ Proposals!Underway \in SUBSET Worker
  /\ Cardinality(LiveMarked) \in Nat /\ Cardinality(Abandoned) \in Nat /\ Cardinality(Proposals!Underway) \in Nat
<1>1. /\ \A S \in SUBSET Copy : IsFiniteSet(S) /\ Cardinality(S) \in Nat
      /\ \A S \in SUBSET Worker : IsFiniteSet(S) /\ Cardinality(S) \in Nat
  BY ServicesAssumption, FS_Subset, FS_CardinalityType
<1>2. LiveMarked \in SUBSET Copy /\ Abandoned \in SUBSET Copy /\ Proposals!Live \in SUBSET Copy /\ Proposals!Underway \in SUBSET Worker
  BY DEF LiveMarked, Abandoned, Proposals!Live, Proposals!Underway
<1>3. QED BY <1>1, <1>2

\* What is live is what a call would find the same, once it is marked.
LEMMA LiveIsComparable ==
  ASSUME Proposals!TypeOK, CopiesFit, NEW x \in Copy
  PROVE  /\ x \in LiveMarked <=> x \in Proposals!Live /\ copy[x].marked
         /\ kind \in Proposals!Candidates => x \notin Proposals!Live
         /\ kind # "learning" /\ x \in Proposals!Live => copy[x].marked
         /\ x \in Proposals!Live => copy[x].status # "none"
<1>1. x \in LiveMarked <=> x \in Proposals!Live /\ copy[x].marked
  BY DEF LiveMarked, Proposals!Same, Proposals!Live
<1>2. ASSUME x \in Proposals!Live PROVE copy[x].status # "none"
  BY <1>2 DEF Proposals!Live, Proposals!Comparable
<1>3. kind \in Proposals!Candidates => x \notin Proposals!Live
  BY <1>2 DEF CopiesFit
<1>4. kind # "learning" /\ x \in Proposals!Live => copy[x].marked
  BY <1>2 DEF CopiesFit
<1>5. QED BY <1>1, <1>2, <1>3, <1>4

\* One call goes on, begins or ends without having written anything.
LEMMA ApplierGoes ==
  ASSUME ProposalsInv, NEW w \in Worker, NEW c \in Proposals!Applying, applying' = [applying EXCEPT ![w] = c],
         UNCHANGED <<kind, copy, candidate, deliveries, crossed, revived>>,
         c.at \notin {"mark", "note"}, CallServes(c),
         c.at = "create" /\ ~c.crossed => Proposals!Underway = {} /\ LiveMarked = {},
         c.at = "send" /\ ~c.crossed => Proposals!Underway = {} /\ candidate = "CANDIDATE",
         unmarked' = IF applying[w].at \in {"mark", "note"} THEN unmarked + 1 ELSE unmarked
  PROVE  /\ applying' \in [Worker -> Proposals!Applying] /\ unmarked' \in Nat
         /\ CopiesFit' /\ CallsServe' /\ OverlapsAreKnown' /\ CopiesAreCounted' /\ DeliveriesAreCounted'
<1>0. applying \in [Worker -> Proposals!Applying] /\ unmarked \in Nat /\ crossed \in Nat /\ deliveries \in Nat /\ revived \in Nat
  BY ServicesAssumption DEF ProposalsInv, Proposals!TypeOK
<1>1. /\ applying' \in [Worker -> Proposals!Applying] /\ applying'[w] = c /\ unmarked' \in Nat /\ unmarked <= unmarked'
      /\ \A v \in Worker \ {w} : applying'[v] = applying[v]
  BY <1>0
<1>2. CopiesFit' /\ LiveMarked' = LiveMarked /\ Proposals!Live' = Proposals!Live
  BY DEF ProposalsInv, CopiesFit, LiveMarked, Proposals!Same, Proposals!Comparable, Proposals!Live
<1>3. CallsServe'
  BY <1>1 DEF ProposalsInv, CallsServe, CallServes
<1>4. Proposals!Underway' = Proposals!Underway \ {w}
  BY <1>1 DEF Proposals!Underway
<1>5. OverlapsAreKnown'
  <2> SUFFICES ASSUME NEW v \in Worker PROVE OverlapIsKnown(v)'
    BY DEF OverlapsAreKnown
  <2>1. CASE v = w
    BY <1>1, <1>2, <1>4, <2>1 DEF OverlapIsKnown
  <2>2. CASE v # w
    <3>1. applying'[v] = applying[v] /\ OverlapIsKnown(v)
      BY <1>1, <2>2 DEF ProposalsInv, OverlapsAreKnown
    <3>2. ASSUME ~applying[v].crossed, applying[v].at = "mark", NEW u \in Worker \ {v}, applying'[u].at \in {"create", "mark"}
          PROVE  applying'[u].crossed
      <4>1. CASE u = w
        <5>1. Proposals!Underway # {}
          BY <3>2 DEF Proposals!Underway
        <5>2. QED BY <1>1, <3>2, <4>1, <5>1
      <4>2. CASE u # w
        BY <1>1, <3>1, <3>2, <4>2 DEF OverlapIsKnown
      <4>3. QED BY <4>1, <4>2
    <3>3. QED BY <1>2, <1>4, <3>1, <3>2 DEF OverlapIsKnown
  <2>3. QED BY <2>1, <2>2
<1>6. CopiesAreCounted'
  <2>1. CASE applying[w].at = "mark"
    <3>1. Abandoned' \in SUBSET (Abandoned \cup {applying[w].on}) /\ unmarked' = unmarked + 1
      BY <1>1, <1>2, <2>1 DEF Abandoned
    <3>2. /\ Cardinality(Abandoned') \in Nat /\ Cardinality(Abandoned') <= Cardinality(Abandoned) + 1
          /\ Cardinality(Abandoned) \in Nat
      BY <3>1, ProposalsFinite, FewMore
    <3>3. Cardinality(Abandoned) <= unmarked
      BY DEF ProposalsInv, CopiesAreCounted
    <3>4. Cardinality(Abandoned') <= unmarked'
      BY <1>0, <3>1, <3>2, <3>3
    <3>5. QED BY <1>2, <3>4 DEF ProposalsInv, CopiesAreCounted
  <2>2. CASE applying[w].at # "mark"
    <3>1. Abandoned' = Abandoned
      BY <1>1, <1>2, <2>2 DEF Abandoned
    <3>2. Cardinality(Abandoned) <= unmarked /\ Cardinality(Abandoned) \in Nat
      BY ProposalsFinite DEF ProposalsInv, CopiesAreCounted
    <3>3. Cardinality(Abandoned') <= unmarked'
      BY <1>0, <1>1, <3>1, <3>2
    <3>4. QED BY <1>2, <3>3 DEF ProposalsInv, CopiesAreCounted
  <2>3. QED BY <2>1, <2>2
<1>7. DeliveriesAreCounted'
  <2>1. deliveries <= 1 + crossed + unmarked'
    BY <1>0, <1>1 DEF ProposalsInv, DeliveriesAreCounted
  <2>2. ASSUME candidate = "CANDIDATE" PROVE deliveries <= unmarked' + Cardinality(Proposals!Underway')
    <3>1. deliveries <= unmarked + Cardinality(Proposals!Underway) /\ Cardinality(Proposals!Underway) \in Nat /\ IsFiniteSet(Proposals!Underway)
      BY <2>2, ProposalsFinite DEF ProposalsInv, DeliveriesAreCounted
    <3>2. CASE w \in Proposals!Underway
      <4>1. Cardinality(Proposals!Underway') = Cardinality(Proposals!Underway) - 1
        BY <1>4, <3>1, <3>2, FS_RemoveElement
      <4>2. unmarked' = unmarked + 1
        BY <3>2 DEF Proposals!Underway
      <4>3. QED BY <1>0, <3>1, <4>1, <4>2
    <3>3. CASE w \notin Proposals!Underway
      <4>1. Proposals!Underway' = Proposals!Underway /\ unmarked' = unmarked
        BY <1>4, <3>3 DEF Proposals!Underway
      <4>2. QED BY <3>1, <4>1
    <3>4. QED BY <3>2, <3>3
  <2>3. QED BY <2>1, <2>2 DEF ProposalsInv, DeliveriesAreCounted
<1>8. QED BY <1>1, <1>2, <1>3, <1>5, <1>6, <1>7

LEMMA ProposalsStart == ASSUME Proposals!Init PROVE ProposalsInv
<1>1. /\ kind \in Proposals!Kind /\ copy = [x \in Copy |-> Proposals!Nothing]
      /\ grounds = TRUE /\ applying = [w \in Worker |-> Proposals!Free]
      /\ candidate = IF kind \in Proposals!Candidates THEN "CANDIDATE" ELSE "none"
      /\ deliveries = 0 /\ crossed = 0 /\ unmarked = 0 /\ revived = 0 /\ applyCalls = 0 /\ applyCrashes = 0
  BY DEF Proposals!Init
<1>2. /\ Proposals!Free \in Proposals!Applying /\ Proposals!Free.at = "idle"
  BY DEF Proposals!Free, Proposals!Applying
<1>3. Proposals!TypeOK
  <2>1. 0 \in 0 .. MaxApplyCalls /\ 0 \in 0 .. MaxApplyCrashes /\ 0 \in 0 .. MaxRevivals
    BY ServicesAssumption
  <2>2. Proposals!Nothing \in Proposals!CopyState
    BY DEF Proposals!CopyStatus, Proposals!CopyState, Proposals!Nothing
  <2>3. QED BY <1>1, <1>2, <2>1, <2>2 DEF Proposals!TypeOK
<1>4. CopiesFit /\ CallsServe /\ OverlapsAreKnown
  BY <1>1, <1>2 DEF CopiesFit, CallsServe, CallServes, OverlapsAreKnown, OverlapIsKnown,
     Proposals!Kind, Proposals!Candidates, Proposals!Nothing
<1>5. LiveMarked = {} /\ Proposals!Live = {} /\ Abandoned = {} /\ Proposals!Underway = {}
  <2>1. Proposals!Live = {} /\ Proposals!Underway = {}
    BY <1>1, <1>2 DEF Proposals!Live, Proposals!Underway, Proposals!Comparable, Proposals!Nothing
  <2>2. LiveMarked = {}
    BY <1>3, <1>4, <2>1, LiveIsComparable, ProposalsFinite
  <2>3. QED BY <2>1, <2>2 DEF Abandoned
<1>6. CopiesAreCounted /\ DeliveriesAreCounted
  BY <1>1, <1>5, FS_EmptySet DEF CopiesAreCounted, DeliveriesAreCounted
<1>7. QED BY <1>3, <1>4, <1>6 DEF ProposalsInv

LEMMA ProposalsKept == ASSUME ProposalsInv, [Proposals!Next]_Proposals!vars PROVE ProposalsInv'
<1>0. /\ kind \in Proposals!Kind /\ copy \in [Copy -> Proposals!CopyState] /\ grounds \in BOOLEAN
      /\ applying \in [Worker -> Proposals!Applying] /\ candidate \in {"none", "CANDIDATE", "ROUTED", "RETIRED"}
      /\ deliveries \in Nat /\ crossed \in Nat /\ unmarked \in Nat /\ revived \in 0 .. MaxRevivals /\ revived \in Nat
      /\ applyCalls \in 0 .. MaxApplyCalls /\ applyCrashes \in 0 .. MaxApplyCrashes
      /\ MaxApplyCalls \in Nat /\ MaxApplyCrashes \in Nat /\ MaxRevivals \in Nat
      /\ Proposals!TypeOK /\ CopiesFit
  BY ServicesAssumption DEF ProposalsInv, Proposals!TypeOK
<1>c. ASSUME NEW w \in Worker PROVE CallServes(applying[w]) /\ OverlapIsKnown(w)
  BY DEF ProposalsInv, CallsServe, OverlapsAreKnown
<1>n. /\ Cardinality(LiveMarked) \in Nat /\ Cardinality(Abandoned) \in Nat /\ Cardinality(Proposals!Underway) \in Nat
      /\ IsFiniteSet(LiveMarked) /\ IsFiniteSet(Abandoned) /\ IsFiniteSet(Proposals!Underway)
      /\ Cardinality(LiveMarked) <= 1 + crossed + revived /\ Cardinality(Abandoned) <= unmarked
  BY ProposalsFinite DEF ProposalsInv, CopiesAreCounted
<1>f. Proposals!Free \in Proposals!Applying /\ Proposals!Free.at = "idle" /\ Proposals!Free.current = FALSE /\ Proposals!Free.crossed = FALSE /\ CallServes(Proposals!Free)
  BY DEF Proposals!Free, Proposals!Applying, CallServes
\* what others know of a write that crosses theirs
<1>o. ASSUME NEW w \in Worker, NEW c \in Proposals!Applying, NEW stage, applying' = Proposals!Overlapping(w, c, stage)
      PROVE  /\ applying' \in [Worker -> Proposals!Applying] /\ applying'[w] = c
             /\ \A v \in Worker \ {w} :
                  /\ applying'[v].at = applying[v].at /\ applying'[v].on = applying[v].on
                  /\ applying'[v].current = applying[v].current
                  /\ applying[v].at = stage \/ applying[v].crossed => applying'[v].crossed
                  /\ applying[v].at # stage => applying'[v].crossed = applying[v].crossed
  <2>1. \A v \in Worker \ {w} : [applying[v] EXCEPT !.crossed = @ \/ applying[v].at = stage] \in Proposals!Applying
    BY <1>0 DEF Proposals!Applying
  <2>2. applying' \in [Worker -> Proposals!Applying] /\ applying'[w] = c
    BY <1>o, <2>1 DEF Proposals!Overlapping
  <2>3. ASSUME NEW v \in Worker \ {w}
        PROVE  /\ applying'[v].at = applying[v].at /\ applying'[v].on = applying[v].on
               /\ applying'[v].current = applying[v].current
               /\ applying[v].at = stage \/ applying[v].crossed => applying'[v].crossed
               /\ applying[v].at # stage => applying'[v].crossed = applying[v].crossed
    <3>1. applying'[v] = [applying[v] EXCEPT !.crossed = @ \/ applying[v].at = stage]
      BY <1>o DEF Proposals!Overlapping
    <3>2. PICK b \in Proposals!Applying : b = applying[v]
      BY <1>0
    <3>3. applying'[v] = [b EXCEPT !.crossed = @ \/ b.at = stage]
      BY <3>1, <3>2
    <3>4. QED BY <3>2, <3>3 DEF Proposals!Applying
  <2>4. QED BY <2>2, <2>3
<1>1. ASSUME NEW w \in Worker, Proposals!Scan(w) PROVE ProposalsInv'
  <2>1. /\ applying[w] = Proposals!Free /\ kind \notin Proposals!Candidates
        /\ applyCalls' \in 0 .. MaxApplyCalls
        /\ UNCHANGED <<kind, copy, grounds, candidate, deliveries, crossed, unmarked, revived, applyCrashes>>
    BY <1>0, <1>1 DEF Proposals!Scan, Proposals!Counted
  <2>2. PICK c \in Proposals!Applying : /\ applying' = [applying EXCEPT ![w] = c]
                                        /\ c = Proposals!Free \/ (c.at = "create" /\ (~c.crossed => Proposals!Underway = {} /\ LiveMarked = {}))
    <3>1. CASE \E x \in Copy : Proposals!Same(x)
      <4>1. applying' = [applying EXCEPT ![w] = Proposals!Free]
        BY <1>0, <1>1, <2>1, <3>1 DEF Proposals!Scan
      <4>2. QED BY <1>f, <4>1
    <3>2. CASE ~\E x \in Copy : Proposals!Same(x)
      <4> DEFINE d == [Proposals!Free EXCEPT !.at = "create", !.crossed = Proposals!Underway # {}]
      <4>1. applying' = [applying EXCEPT ![w] = d]
        BY <1>1, <3>2 DEF Proposals!Scan
      <4>2. d \in Proposals!Applying /\ d.at = "create" /\ d.crossed = (Proposals!Underway # {})
        BY <1>f DEF Proposals!Applying
      <4>3. LiveMarked = {}
        BY <3>2 DEF LiveMarked
      <4> HIDE DEF d
      <4>4. QED BY <4>1, <4>2, <4>3
    <3>3. QED BY <3>1, <3>2
  <2>3. CallServes(c) /\ c.at \notin {"mark", "note", "send"}
    BY <1>f, <2>1, <2>2 DEF CallServes
  <2>4. /\ applying' \in [Worker -> Proposals!Applying] /\ unmarked' \in Nat
        /\ CopiesFit' /\ CallsServe' /\ OverlapsAreKnown' /\ CopiesAreCounted' /\ DeliveriesAreCounted'
    <3>1. /\ c.at = "create" /\ ~c.crossed => Proposals!Underway = {} /\ LiveMarked = {}
          /\ unmarked' = IF applying[w].at \in {"mark", "note"} THEN unmarked + 1 ELSE unmarked
      BY <1>f, <2>1, <2>2
    <3>2. applying' = [applying EXCEPT ![w] = c]
      BY <2>2
    <3>3. c.at \notin {"mark", "note"}
      BY <2>3
    <3>4. c.at = "send" /\ ~c.crossed => Proposals!Underway = {} /\ candidate = "CANDIDATE"
      BY <2>3
    <3>5. QED BY <2>1, <2>3, <3>1, <3>2, <3>3, <3>4, ApplierGoes
  <2>5. QED BY <1>0, <2>1, <2>4 DEF ProposalsInv, Proposals!TypeOK
<1>2. ASSUME NEW w \in Worker, Proposals!Route(w) PROVE ProposalsInv'
  <2> DEFINE d == [Proposals!Free EXCEPT !.at = IF kind = "transient" THEN "retire" ELSE "send", !.current = TRUE, !.crossed = Proposals!Underway # {}]
  <2>1. /\ applying[w] = Proposals!Free /\ candidate = "CANDIDATE" /\ applying' = [applying EXCEPT ![w] = d]
        /\ applyCalls' \in 0 .. MaxApplyCalls
        /\ UNCHANGED <<kind, copy, grounds, candidate, deliveries, crossed, unmarked, revived, applyCrashes>>
    BY <1>0, <1>2 DEF Proposals!Route, Proposals!Counted
  <2>2. d \in Proposals!Applying /\ d.at = (IF kind = "transient" THEN "retire" ELSE "send") /\ d.current = TRUE /\ d.crossed = (Proposals!Underway # {})
    BY <1>f DEF Proposals!Applying
  <2> HIDE DEF d
  <2>3. PICK c \in Proposals!Applying : c = d
    BY <2>2
  <2>4. CallServes(c) /\ c.at \in {"send", "retire"} /\ (~c.crossed => Proposals!Underway = {})
    BY <1>0, <2>1, <2>2, <2>3 DEF CallServes, CopiesFit, Proposals!Candidates
  <2>5. /\ applying' \in [Worker -> Proposals!Applying] /\ unmarked' \in Nat
        /\ CopiesFit' /\ CallsServe' /\ OverlapsAreKnown' /\ CopiesAreCounted' /\ DeliveriesAreCounted'
    <3>1. /\ applying' = [applying EXCEPT ![w] = c] /\ c.at \notin {"mark", "note", "create"}
          /\ c.at = "send" /\ ~c.crossed => Proposals!Underway = {} /\ candidate = "CANDIDATE"
          /\ unmarked' = IF applying[w].at \in {"mark", "note"} THEN unmarked + 1 ELSE unmarked
      BY <1>f, <2>1, <2>3, <2>4
    <3>2. QED BY <2>1, <2>4, <3>1, ApplierGoes
  <2>6. QED BY <1>0, <2>1, <2>5 DEF ProposalsInv, Proposals!TypeOK
<1>3. ASSUME NEW w \in Worker, Proposals!Die(w) PROVE ProposalsInv'
  <2>1. /\ applying' = [applying EXCEPT ![w] = Proposals!Free] /\ applyCrashes' \in 0 .. MaxApplyCrashes
        /\ unmarked' = IF applying[w].at \in {"mark", "note"} THEN unmarked + 1 ELSE unmarked
        /\ UNCHANGED <<kind, copy, grounds, candidate, deliveries, crossed, revived, applyCalls>>
    BY <1>0, <1>3 DEF Proposals!Die
  <2>2. PICK c \in Proposals!Applying : c = Proposals!Free
    BY <1>f
  <2>3. /\ applying' \in [Worker -> Proposals!Applying] /\ unmarked' \in Nat
        /\ CopiesFit' /\ CallsServe' /\ OverlapsAreKnown' /\ CopiesAreCounted' /\ DeliveriesAreCounted'
    BY <1>f, <2>1, <2>2, ApplierGoes
  <2>4. QED BY <1>0, <2>1, <2>3 DEF ProposalsInv, Proposals!TypeOK
<1>4. ASSUME NEW w \in Worker, Proposals!Send(w, FALSE) PROVE ProposalsInv'
  <2>1. /\ applying' = [applying EXCEPT ![w] = Proposals!Free] /\ applying[w].at = "send"
        /\ UNCHANGED <<kind, copy, grounds, candidate, deliveries, crossed, unmarked, revived, applyCalls, applyCrashes>>
    BY <1>0, <1>4 DEF Proposals!Send
  <2>2. PICK c \in Proposals!Applying : c = Proposals!Free
    BY <1>f
  <2>3. /\ applying' \in [Worker -> Proposals!Applying] /\ unmarked' \in Nat
        /\ CopiesFit' /\ CallsServe' /\ OverlapsAreKnown' /\ CopiesAreCounted' /\ DeliveriesAreCounted'
    BY <1>f, <2>1, <2>2, ApplierGoes
  <2>4. QED BY <1>0, <2>1, <2>3 DEF ProposalsInv, Proposals!TypeOK
<1>5. ASSUME NEW w \in Worker, Proposals!Send(w, TRUE) PROVE ProposalsInv'
  <2> DEFINE d == [applying[w] EXCEPT !.at = "note"]
  <2>1. /\ applying[w].at = "send" /\ deliveries' = deliveries + 1 /\ applying' = Proposals!Overlapping(w, d, "send")
        /\ crossed' = IF applying[w].crossed THEN crossed + 1 ELSE crossed
        /\ UNCHANGED <<kind, copy, grounds, candidate, unmarked, revived, applyCalls, applyCrashes>>
    BY <1>5 DEF Proposals!Send, Proposals!Cross
  <2>2. d \in Proposals!Applying /\ d.at = "note" /\ d.current = applying[w].current
    BY <1>0 DEF Proposals!Applying
  <2> HIDE DEF d
  <2>3. /\ applying' \in [Worker -> Proposals!Applying] /\ applying'[w] = d
        /\ \A v \in Worker \ {w} :
             /\ applying'[v].at = applying[v].at /\ applying'[v].on = applying[v].on
             /\ applying'[v].current = applying[v].current
             /\ applying[v].at = "send" \/ applying[v].crossed => applying'[v].crossed
    BY <1>o, <2>1, <2>2
  <2>4. kind = "learning_candidate" /\ (candidate = "CANDIDATE" => applying[w].current)
    BY <1>c, <2>1 DEF CallServes
  <2>5. CopiesFit' /\ LiveMarked' = LiveMarked /\ Proposals!Live' = Proposals!Live /\ Proposals!Live = {}
    <3>1. Proposals!Live = {}
      BY <1>0, <2>4, LiveIsComparable, ProposalsFinite DEF Proposals!Candidates
    <3>2. QED BY <2>1, <3>1 DEF ProposalsInv, CopiesFit, LiveMarked, Proposals!Same,
        Proposals!Comparable, Proposals!Live
  <2>6. CallsServe'
    <3> SUFFICES ASSUME NEW v \in Worker PROVE CallServes(applying[v])'
      BY DEF CallsServe
    <3>1. CASE v = w
      BY <2>1, <2>2, <2>3, <2>4, <3>1 DEF CallServes
    <3>2. CASE v # w
      <4>1. CallServes(applying[v])
        BY <1>c
      <4>2. QED BY <2>1, <2>3, <3>2, <4>1 DEF CallServes
    <3>3. QED BY <3>1, <3>2
  <2>7. OverlapsAreKnown'
    <3> SUFFICES ASSUME NEW v \in Worker, ~applying'[v].crossed PROVE applying'[v].at \notin {"create", "mark", "send"}
      BY DEF OverlapsAreKnown, OverlapIsKnown
    <3>1. CASE v = w
      BY <2>2, <2>3, <3>1
    <3>2. CASE v # w
      BY <1>c, <2>3, <2>4, <3>2 DEF CallServes, Proposals!Candidates
    <3>3. QED BY <3>1, <3>2
  <2>8. Abandoned' = {} /\ LiveMarked' = {}
    BY <2>5 DEF Abandoned, LiveMarked, Proposals!Same, Proposals!Live
  <2>9. CopiesAreCounted'
    BY <1>0, <2>1, <2>8, FS_EmptySet DEF CopiesAreCounted
  <2>10. DeliveriesAreCounted'
    <3>1. deliveries' <= 1 + crossed' + unmarked'
      <4>1. CASE applying[w].crossed
        BY <1>0, <2>1, <4>1 DEF ProposalsInv, DeliveriesAreCounted
      <4>2. CASE ~applying[w].crossed
        <5>1. Proposals!Underway = {} /\ candidate = "CANDIDATE"
          BY <1>c, <2>1, <4>2 DEF OverlapIsKnown
        <5>2. deliveries <= unmarked + 0
          BY <5>1, FS_EmptySet DEF ProposalsInv, DeliveriesAreCounted
        <5>3. QED BY <1>0, <2>1, <4>2, <5>2
      <4>3. QED BY <4>1, <4>2
    <3>2. Proposals!Underway' = Proposals!Underway \cup {w} /\ w \notin Proposals!Underway
      BY <2>1, <2>2, <2>3 DEF Proposals!Underway
    <3>3. Cardinality(Proposals!Underway') = Cardinality(Proposals!Underway) + 1
      BY <1>n, <3>2, FS_AddElement
    <3>4. QED BY <1>0, <1>n, <2>1, <2>4, <3>1, <3>3 DEF ProposalsInv, DeliveriesAreCounted
  <2>11. Proposals!TypeOK'
    BY <1>0, <2>1, <2>3 DEF Proposals!TypeOK
  <2>12. QED BY <2>5, <2>6, <2>7, <2>9, <2>10, <2>11 DEF ProposalsInv
<1>6. ASSUME NEW w \in Worker, Proposals!NoteRouted(w) PROVE ProposalsInv'
  <2>1. /\ applying[w].at \in {"note", "retire"}
        /\ candidate' = IF ~applying[w].current THEN candidate
                        ELSE IF applying[w].at = "note" THEN "ROUTED" ELSE "RETIRED"
        /\ applying' = [v \in Worker |-> IF v = w THEN Proposals!Free ELSE [applying[v] EXCEPT !.current = FALSE]]
        /\ UNCHANGED <<kind, copy, grounds, deliveries, crossed, unmarked, revived, applyCalls, applyCrashes>>
    BY <1>6 DEF Proposals!NoteRouted
  <2>2. kind \in Proposals!Candidates /\ (kind = "learning_candidate" => w \in Proposals!Underway)
    BY <1>c, <2>1 DEF CallServes, Proposals!Underway, Proposals!Candidates
  <2>3. candidate' \in {"CANDIDATE", "ROUTED", "RETIRED"} /\ candidate' # "CANDIDATE"
    BY <1>0, <1>c, <2>1, <2>2 DEF CallServes, CopiesFit
  <2>4. /\ applying' \in [Worker -> Proposals!Applying] /\ applying'[w] = Proposals!Free
        /\ \A v \in Worker \ {w} : applying'[v].at = applying[v].at /\ applying'[v].crossed = applying[v].crossed
    <3>1. \A v \in Worker \ {w} : [applying[v] EXCEPT !.current = FALSE] \in Proposals!Applying
      BY <1>0 DEF Proposals!Applying
    <3>2. applying' \in [Worker -> Proposals!Applying] /\ applying'[w] = Proposals!Free
      BY <1>f, <2>1, <3>1
    <3>3. ASSUME NEW v \in Worker \ {w}
          PROVE  applying'[v].at = applying[v].at /\ applying'[v].crossed = applying[v].crossed
      <4>1. applying'[v] = [applying[v] EXCEPT !.current = FALSE]
        BY <2>1
      <4>2. QED BY <1>0, <4>1 DEF Proposals!Applying
    <3>4. QED BY <3>2, <3>3
  <2>5. CopiesFit' /\ LiveMarked' = LiveMarked /\ Proposals!Live' = Proposals!Live /\ Proposals!Live = {}
    <3>1. Proposals!Live = {}
      BY <1>0, <2>2, LiveIsComparable, ProposalsFinite
    <3>2. QED BY <2>1, <2>2, <2>3, <3>1 DEF ProposalsInv, CopiesFit, LiveMarked, Proposals!Same,
        Proposals!Comparable, Proposals!Live
  <2>6. CallsServe'
    <3> SUFFICES ASSUME NEW v \in Worker PROVE CallServes(applying[v])'
      BY DEF CallsServe
    <3>1. CallServes(applying[v]) /\ (v = w => CallServes(Proposals!Free))
      BY <1>c, <1>f
    <3>2. applying'[v].at = IF v = w THEN "idle" ELSE applying[v].at
      BY <1>f, <2>4
    <3>3. QED BY <2>1, <2>2, <2>3, <3>1, <3>2 DEF CallServes
  <2>7. OverlapsAreKnown'
    <3> SUFFICES ASSUME NEW v \in Worker, ~applying'[v].crossed PROVE applying'[v].at \notin {"create", "mark", "send"}
      BY DEF OverlapsAreKnown, OverlapIsKnown
    <3>1. CASE v = w
      BY <1>f, <2>4, <3>1
    <3>2. CASE v # w
      BY <1>c, <2>2, <2>4, <3>2 DEF CallServes, OverlapIsKnown
    <3>3. QED BY <3>1, <3>2
  <2>8. Abandoned' = {} /\ LiveMarked' = {}
    BY <2>5 DEF Abandoned, LiveMarked, Proposals!Same, Proposals!Live
  <2>9. CopiesAreCounted' /\ DeliveriesAreCounted'
    BY <1>0, <2>1, <2>2, <2>3, <2>8, FS_EmptySet DEF ProposalsInv, CopiesAreCounted, DeliveriesAreCounted
  <2>10. Proposals!TypeOK'
    BY <1>0, <2>1, <2>3, <2>4 DEF Proposals!TypeOK
  <2>11. QED BY <2>5, <2>6, <2>7, <2>9, <2>10 DEF ProposalsInv
<1>7. ASSUME NEW w \in Worker, NEW x \in Copy, Proposals!Create(w, x), kind # "learning" PROVE ProposalsInv'
  <2>1. /\ applying[w].at = "create" /\ copy[x].status = "none"
        /\ copy' = [copy EXCEPT ![x] = [status |-> Proposals!Opening[kind], marked |-> TRUE, doubted |-> FALSE]]
        /\ applying' = Proposals!Overlapping(w, Proposals!Free, "create")
        /\ crossed' = IF applying[w].crossed THEN crossed + 1 ELSE crossed
        /\ UNCHANGED <<kind, grounds, candidate, deliveries, unmarked, revived, applyCalls, applyCrashes>>
    BY <1>7 DEF Proposals!Create, Proposals!Cross
  <2>2. kind \in {"gap", "objective", "model_belief"}
    BY <1>0, <1>7, <1>c, <2>1 DEF CallServes, Proposals!Kind
  <2>n. kind \notin Proposals!Candidates
    BY <2>2 DEF Proposals!Candidates
  <2>3. /\ applying' \in [Worker -> Proposals!Applying] /\ applying'[w] = Proposals!Free
        /\ \A v \in Worker \ {w} :
             /\ applying'[v].at = applying[v].at
             /\ applying[v].at = "create" \/ applying[v].crossed => applying'[v].crossed
    BY <1>f, <1>o, <2>1
  <2>4. Proposals!Opening[kind] \in Proposals!CopyStatus /\ Proposals!Opening[kind] # "none" /\ Proposals!Opening[kind] \in Statuses[kind]
    BY <2>2 DEF Proposals!CopyStatus, Proposals!Opening, Statuses
  <2>5. copy' \in [Copy -> Proposals!CopyState] /\ copy'[x].status = Proposals!Opening[kind] /\ copy'[x].marked
        /\ \A y \in Copy \ {x} : copy'[y] = copy[y]
    <3> DEFINE b == [status |-> Proposals!Opening[kind], marked |-> TRUE, doubted |-> FALSE]
    <3>1. b \in Proposals!CopyState /\ b.status = Proposals!Opening[kind] /\ b.marked
      BY <2>4 DEF Proposals!CopyState
    <3> HIDE DEF b
    <3>2. QED BY <1>0, <2>1, <3>1 DEF b
  <2>6. CopiesFit'
    <3>1. ASSUME NEW y \in Copy
          PROVE  /\ copy'[y].status \in {"none"} \cup Statuses[kind]
                 /\ copy'[y].status # "none" => copy'[y].marked
      <4>1. CASE y = x
        BY <2>4, <2>5, <4>1
      <4>2. CASE y # x
        BY <1>0, <1>7, <2>n, <2>5, <4>2 DEF CopiesFit
      <4>3. QED BY <4>1, <4>2
    <3>2. kind' = kind /\ kind \notin Proposals!Candidates /\ candidate' = candidate
      BY <2>1, <2>n
    <3>3. QED BY <1>0, <3>1, <3>2 DEF CopiesFit
  <2>7. Proposals!TypeOK'
    BY <1>0, <2>1, <2>3, <2>5 DEF Proposals!TypeOK
  <2>8. \A v \in Worker : applying'[v].at \notin {"mark", "send", "note", "retire"} /\ applying[v].at \notin {"mark", "send", "note", "retire"}
    BY <1>c, <1>f, <2>2, <2>3 DEF CallServes
  <2>9. CallsServe' /\ OverlapsAreKnown'
    BY <1>f, <2>1, <2>n, <2>3, <2>8 DEF CallsServe, CallServes, OverlapsAreKnown, OverlapIsKnown
  <2>10. CopiesAreCounted'
    <3>1. LiveMarked' \in SUBSET (LiveMarked \cup {x})
      BY <2>1, <2>5 DEF LiveMarked, Proposals!Same, Proposals!Comparable
    <3>2. Cardinality(LiveMarked') \in Nat /\ Cardinality(LiveMarked') <= Cardinality(LiveMarked) + 1
      BY <1>n, <3>1, FewMore
    <3>3. Cardinality(LiveMarked') <= 1 + crossed' + revived'
      <4>1. CASE applying[w].crossed
        BY <1>0, <1>n, <2>1, <3>2, <4>1
      <4>2. CASE ~applying[w].crossed
        <5>1. LiveMarked = {}
          BY <1>c, <2>1, <4>2 DEF OverlapIsKnown
        <5>2. Cardinality(LiveMarked) = 0
          BY <5>1, FS_EmptySet
        <5>3. QED BY <1>0, <2>1, <3>2, <4>2, <5>2
      <4>3. QED BY <4>1, <4>2
    <3>4. Abandoned' = {}
      <4>1. \A y \in Copy : y \in Proposals!Live' => y \in LiveMarked'
        <5> TAKE y \in Copy
        <5>1. y \in Proposals!Live' => copy'[y].status # "none"
          BY DEF Proposals!Live, Proposals!Comparable
        <5>2. y \in Proposals!Live' => copy'[y].marked
          BY <1>7, <2>1, <2>6, <5>1 DEF CopiesFit
        <5>3. QED BY <5>2 DEF LiveMarked, Proposals!Same, Proposals!Live
      <4>2. QED BY <4>1 DEF Abandoned, Proposals!Live
    <3>5. QED BY <1>0, <2>1, <3>3, <3>4, FS_EmptySet DEF CopiesAreCounted
  <2>11. DeliveriesAreCounted'
    <3>1. crossed' \in Nat /\ crossed <= crossed'
      BY <1>0, <2>1
    <3>2. kind # "learning_candidate" /\ candidate # "CANDIDATE"
      BY <1>0, <2>n DEF Proposals!Candidates, CopiesFit
    <3>3. deliveries' = 0
      BY <2>1, <3>2 DEF ProposalsInv, DeliveriesAreCounted
    <3>4. QED BY <1>0, <2>1, <3>1, <3>2, <3>3 DEF DeliveriesAreCounted
  <2>12. QED BY <2>6, <2>7, <2>9, <2>10, <2>11 DEF ProposalsInv
<1>8. ASSUME NEW w \in Worker, NEW x \in Copy, Proposals!Create(w, x), kind = "learning" PROVE ProposalsInv'
  <2> DEFINE d == [applying[w] EXCEPT !.at = "mark", !.on = x, !.current = TRUE]
  <2>1. /\ applying[w].at = "create" /\ copy[x].status = "none"
        /\ copy' = [copy EXCEPT ![x] = [status |-> "OBSERVATION", marked |-> FALSE, doubted |-> FALSE]]
        /\ applying' = Proposals!Overlapping(w, d, "create")
        /\ UNCHANGED <<kind, grounds, candidate, deliveries, crossed, unmarked, revived, applyCalls, applyCrashes>>
    <3>1. Proposals!Opening["learning"] = "OBSERVATION"
      BY DEF Proposals!Opening
    <3>2. QED BY <1>8, <3>1 DEF Proposals!Create
  <2>2. d \in Proposals!Applying /\ d.at = "mark" /\ d.on = x /\ d.crossed = applying[w].crossed
    BY <1>0 DEF Proposals!Applying
  <2> HIDE DEF d
  <2>3. /\ applying' \in [Worker -> Proposals!Applying] /\ applying'[w] = d
        /\ \A v \in Worker \ {w} :
             /\ applying'[v].at = applying[v].at /\ applying'[v].on = applying[v].on
             /\ applying[v].at = "create" \/ applying[v].crossed => applying'[v].crossed
    BY <1>o, <2>1, <2>2
  <2>4. copy' \in [Copy -> Proposals!CopyState]
    <3>1. [status |-> "OBSERVATION", marked |-> FALSE, doubted |-> FALSE] \in Proposals!CopyState
      BY DEF Proposals!CopyStatus, Proposals!CopyState
    <3>2. QED BY <1>0, <2>1, <3>1
  <2>5. CopiesFit'
    <3>1. Proposals!Opening["learning"] = "OBSERVATION" /\ kind' = "learning" /\ candidate' = candidate
      BY <1>8, <2>1 DEF Proposals!Opening
    <3>2. ASSUME NEW y \in Copy
          PROVE  copy'[y].status \in {"none"} \cup Statuses["learning"]
      <4>1. CASE y = x
        BY <1>0, <2>1, <4>1 DEF Statuses
      <4>2. CASE y # x
        BY <1>0, <1>8, <2>1, <4>2 DEF CopiesFit, Proposals!Candidates
      <4>3. QED BY <4>1, <4>2
    <3>3. candidate = "none" /\ "learning" \notin Proposals!Candidates
      BY <1>0, <1>8 DEF CopiesFit, Proposals!Candidates
    <3>4. QED BY <3>1, <3>2, <3>3 DEF CopiesFit
  <2>6. Proposals!TypeOK'
    BY <1>0, <2>1, <2>3, <2>4 DEF Proposals!TypeOK
  <2>7. \A v \in Worker : applying'[v].at \notin {"send", "note", "retire"}
    BY <1>8, <1>c, <2>2, <2>3 DEF CallServes
  <2>8. CallsServe'
    <3> SUFFICES ASSUME NEW v \in Worker PROVE applying'[v].at = "mark" => applying'[v].on \in Copy
      BY <1>8, <2>1, <2>7 DEF CallsServe, CallServes, Proposals!Candidates
    <3>1. QED BY <1>c, <2>2, <2>3 DEF CallServes
  <2>9. LiveMarked' = LiveMarked
    <3>1. ASSUME NEW y \in Copy PROVE Proposals!Same(y)' <=> Proposals!Same(y)
      <4>1. CASE y = x
        <5>1. ~copy'[x].marked /\ ~Proposals!Comparable(copy[x])
          BY <1>0, <2>1 DEF Proposals!Comparable
        <5>2. QED BY <4>1, <5>1 DEF Proposals!Same
      <4>2. CASE y # x
        BY <1>0, <2>1, <4>2 DEF Proposals!Same, Proposals!Comparable
      <4>3. QED BY <4>1, <4>2
    <3>2. QED BY <3>1 DEF LiveMarked
  <2>10. CopiesAreCounted'
    <3>1. Abandoned' \in SUBSET Abandoned
      <4>1. ASSUME NEW y \in Abandoned' PROVE y \in Abandoned
        <5>1. y \in Proposals!Live' /\ y \in Copy /\ y \notin LiveMarked /\ \A v \in Worker : applying'[v].at = "mark" => applying'[v].on # y
          BY <2>9 DEF Abandoned, Proposals!Live
        <5>2. y # x
          BY <2>2, <2>3, <5>1
        <5>3. y \in Proposals!Live
          BY <1>0, <2>1, <5>1, <5>2 DEF Proposals!Live, Proposals!Comparable
        <5>4. \A v \in Worker : applying[v].at = "mark" => applying[v].on # y
          BY <2>1, <2>3, <5>1
        <5>5. QED BY <5>1, <5>3, <5>4 DEF Abandoned
      <4>2. QED BY <4>1
    <3>2. Cardinality(Abandoned') \in Nat /\ Cardinality(Abandoned') <= Cardinality(Abandoned)
      BY <1>n, <3>1, FewMore
    <3>3. QED BY <1>0, <1>n, <2>1, <2>9, <3>2 DEF CopiesAreCounted
  <2>11. OverlapsAreKnown'
    <3> SUFFICES ASSUME NEW v \in Worker, ~applying'[v].crossed PROVE OverlapIsKnown(v)'
      BY DEF OverlapsAreKnown, OverlapIsKnown
    <3>1. CASE v = w
      <4>1. ~applying[w].crossed /\ Proposals!Underway = {} /\ LiveMarked = {}
        BY <1>c, <2>1, <2>2, <2>3, <3>1 DEF OverlapIsKnown
      <4>2. Cardinality(LiveMarked') <= crossed'
        BY <1>0, <2>1, <2>9, <4>1, FS_EmptySet
      <4>3. ASSUME NEW u \in Worker \ {w}, applying'[u].at \in {"create", "mark"} PROVE applying'[u].crossed
        <5>1. u \notin Proposals!Underway
          BY <4>1
        <5>2. QED BY <2>3, <4>3, <5>1 DEF Proposals!Underway
      <4>4. QED BY <2>2, <2>3, <3>1, <4>2, <4>3 DEF OverlapIsKnown
    <3>2. CASE v # w
      <4>1. applying'[v].at = applying[v].at /\ applying[v].at # "create" /\ ~applying[v].crossed
        BY <2>3, <3>2
      <4>2. CASE applying[v].at = "mark"
        <5>1. /\ Cardinality(LiveMarked) <= crossed
              /\ \A u \in Worker \ {v} : applying[u].at \in {"create", "mark"} => applying[u].crossed
          BY <1>c, <4>1, <4>2 DEF OverlapIsKnown
        <5>2. ASSUME NEW u \in Worker \ {v}, applying'[u].at \in {"create", "mark"} PROVE applying'[u].crossed
          <6>1. CASE u = w
            BY <2>1, <2>2, <2>3, <5>1, <6>1
          <6>2. CASE u # w
            BY <2>3, <5>1, <5>2, <6>2
          <6>3. QED BY <6>1, <6>2
        <5>3. QED BY <2>1, <2>9, <4>1, <4>2, <5>1, <5>2 DEF OverlapIsKnown
      <4>3. CASE applying[v].at # "mark"
        BY <2>7, <4>1, <4>3 DEF OverlapIsKnown
      <4>4. QED BY <4>2, <4>3
    <3>3. QED BY <3>1, <3>2
  <2>12. DeliveriesAreCounted'
    <3>1. candidate' # "CANDIDATE" /\ deliveries' = 0
      BY <1>0, <1>8, <2>1 DEF ProposalsInv, DeliveriesAreCounted, CopiesFit, Proposals!Candidates
    <3>2. QED BY <1>0, <2>1, <3>1 DEF DeliveriesAreCounted
  <2>13. QED BY <2>5, <2>6, <2>8, <2>10, <2>11, <2>12 DEF ProposalsInv
<1>9. ASSUME NEW w \in Worker, Proposals!Mark(w) PROVE ProposalsInv'
  <2> DEFINE x == applying[w].on
  <2>1. /\ applying[w].at = "mark" /\ applying' = Proposals!Overlapping(w, Proposals!Free, "create")
        /\ IF applying[w].current
           THEN /\ copy' = [copy EXCEPT ![x].marked = TRUE] /\ UNCHANGED unmarked
                /\ crossed' = IF applying[w].crossed THEN crossed + 1 ELSE crossed
           ELSE unmarked' = unmarked + 1 /\ UNCHANGED <<copy, crossed>>
        /\ UNCHANGED <<kind, grounds, candidate, deliveries, revived, applyCalls, applyCrashes>>
    BY <1>9 DEF Proposals!Mark, Proposals!Cross
  <2>2. kind = "learning" /\ x \in Copy
    BY <1>c, <2>1 DEF CallServes
  <2>3. /\ applying' \in [Worker -> Proposals!Applying] /\ applying'[w] = Proposals!Free
        /\ \A v \in Worker \ {w} :
             /\ applying'[v].at = applying[v].at /\ applying'[v].on = applying[v].on
             /\ applying[v].at = "create" \/ applying[v].crossed => applying'[v].crossed
    BY <1>f, <1>o, <2>1
  <2> HIDE DEF x
  <2>4. /\ copy' \in [Copy -> Proposals!CopyState]
        /\ \A y \in Copy : copy'[y].status = copy[y].status
        /\ \A y \in Copy \ {x} : copy'[y] = copy[y]
        /\ applying[w].current => copy'[x].marked
    <3>1. CASE ~applying[w].current
      BY <1>0, <2>1, <2>2, <3>1
    <3>2. CASE applying[w].current
      <4> DEFINE b == [copy[x] EXCEPT !.marked = TRUE]
      <4>1. copy' = [copy EXCEPT ![x] = b]
        BY <2>1, <3>2
      <4>2. b \in Proposals!CopyState /\ b.status = copy[x].status /\ b.marked
        <5>1. PICK c \in Proposals!CopyState : c = copy[x]
          BY <1>0, <2>2
        <5>2. b = [c EXCEPT !.marked = TRUE]
          BY <5>1
        <5>3. QED BY <5>1, <5>2 DEF Proposals!CopyState
      <4> HIDE DEF b
      <4>3. QED BY <1>0, <2>2, <4>1, <4>2
    <3>3. QED BY <3>1, <3>2
  <2>5. crossed' \in Nat /\ crossed <= crossed' /\ unmarked' \in Nat /\ unmarked <= unmarked'
    BY <1>0, <2>1
  <2>6. CopiesFit'
    BY <2>1, <2>2, <2>4 DEF ProposalsInv, CopiesFit
  <2>7. Proposals!TypeOK'
    BY <1>0, <2>1, <2>3, <2>4, <2>5 DEF Proposals!TypeOK
  <2>8. \A v \in Worker : applying'[v].at \notin {"send", "note", "retire"}
    BY <1>c, <1>f, <2>2, <2>3 DEF CallServes
  <2>9. CallsServe'
    <3> SUFFICES ASSUME NEW v \in Worker PROVE applying'[v].at = "mark" => applying'[v].on \in Copy
      BY <2>1, <2>2, <2>8 DEF CallsServe, CallServes, Proposals!Candidates
    <3>1. QED BY <1>c, <1>f, <2>3 DEF CallServes
  <2>10. /\ Proposals!Live' = Proposals!Live
         /\ \A y \in Copy : y \in LiveMarked' <=> y \in Proposals!Live /\ copy'[y].marked
         /\ ~applying[w].current => LiveMarked' = LiveMarked
         /\ LiveMarked' \in SUBSET (LiveMarked \cup {x})
    <3>1. \A y \in Copy : y \in Proposals!Live' <=> y \in Proposals!Live
      BY <2>1, <2>2, <2>4 DEF Proposals!Live, Proposals!Comparable
    <3>2. /\ \A y \in Copy : y \in LiveMarked' <=> y \in Proposals!Live' /\ copy'[y].marked
          /\ \A y \in Copy : y \in LiveMarked <=> y \in Proposals!Live /\ copy[y].marked
      BY DEF LiveMarked, Proposals!Same, Proposals!Live
    <3>3. Proposals!Live' \in SUBSET Copy /\ Proposals!Live \in SUBSET Copy /\ LiveMarked' \in SUBSET Copy /\ LiveMarked \in SUBSET Copy
      BY DEF Proposals!Live, LiveMarked
    <3>4. Proposals!Live' = Proposals!Live
      BY <3>1, <3>3
    <3>5. LiveMarked' \in SUBSET (LiveMarked \cup {x})
      BY <2>4, <3>1, <3>2, <3>3
    <3>6. ~applying[w].current => LiveMarked' = LiveMarked
      BY <2>1, <3>1, <3>2, <3>3
    <3>7. QED BY <3>2, <3>4, <3>5, <3>6
  <2>11. Cardinality(LiveMarked') \in Nat /\ Cardinality(LiveMarked') <= Cardinality(LiveMarked) + 1
    BY <1>n, <2>10, FewMore
  <2>12. Cardinality(LiveMarked') <= 1 + crossed' + revived'
    <3>1. CASE ~applying[w].current
      BY <1>0, <1>n, <2>1, <2>10, <3>1
    <3>2. CASE applying[w].crossed /\ applying[w].current
      BY <1>0, <1>n, <2>1, <2>11, <3>2
    <3>3. CASE ~applying[w].crossed /\ applying[w].current
      <4>1. Cardinality(LiveMarked) <= crossed
        BY <1>c, <2>1, <3>3 DEF OverlapIsKnown
      <4>2. QED BY <1>0, <1>n, <2>1, <2>11, <3>3, <4>1
    <3>4. QED BY <3>1, <3>2, <3>3
  <2>13. Cardinality(Abandoned') <= unmarked'
    <3>1. ASSUME NEW y \in Abandoned', y # x PROVE y \in Abandoned
      <4>1. y \in Proposals!Live' /\ y \in Copy /\ y \notin LiveMarked' /\ \A v \in Worker : applying'[v].at = "mark" => applying'[v].on # y
        BY DEF Abandoned, Proposals!Live
      <4>2. copy'[y] = copy[y]
        BY <2>4, <3>1, <4>1
      <4>3. y \in Proposals!Live /\ y \notin LiveMarked
        BY <2>10, <4>1, <4>2, LiveIsComparable, <1>0
      <4>4. \A v \in Worker : applying[v].at = "mark" => applying[v].on # y
        BY <2>3, <3>1, <4>1 DEF x
      <4>5. QED BY <4>3, <4>4 DEF Abandoned
    <3>2. CASE applying[w].current
      <4>1. x \notin Abandoned'
        <5>1. x \in Proposals!Live' => x \in LiveMarked'
          BY <2>2, <2>4, <2>10, <3>2
        <5>2. QED BY <5>1 DEF Abandoned
      <4>2. Abandoned' \in SUBSET Abandoned /\ unmarked' = unmarked
        BY <2>1, <3>1, <3>2, <4>1
      <4>3. Cardinality(Abandoned') <= Cardinality(Abandoned) /\ Cardinality(Abandoned') \in Nat
        BY <1>n, <4>2, FewMore
      <4>4. QED BY <1>0, <1>n, <4>2, <4>3
    <3>3. CASE ~applying[w].current
      <4>1. Abandoned' \in SUBSET (Abandoned \cup {x}) /\ unmarked' = unmarked + 1
        BY <2>1, <3>1, <3>3
      <4>2. Cardinality(Abandoned') <= Cardinality(Abandoned) + 1 /\ Cardinality(Abandoned') \in Nat
        BY <1>n, <4>1, FewMore
      <4>3. QED BY <1>0, <1>n, <4>1, <4>2
    <3>4. QED BY <3>2, <3>3
  <2>14. OverlapsAreKnown'
    <3> SUFFICES ASSUME NEW v \in Worker, ~applying'[v].crossed PROVE OverlapIsKnown(v)'
      BY DEF OverlapsAreKnown, OverlapIsKnown
    <3>1. CASE v = w
      BY <1>f, <2>3, <3>1 DEF OverlapIsKnown
    <3>2. CASE v # w
      <4>1. applying'[v].at = applying[v].at /\ applying[v].at # "create" /\ ~applying[v].crossed
        BY <2>3, <3>2
      <4>2. CASE applying[v].at = "mark"
        <5>1. /\ Cardinality(LiveMarked) <= crossed
              /\ \A u \in Worker \ {v} : applying[u].at \in {"create", "mark"} => applying[u].crossed
          BY <1>c, <4>1, <4>2 DEF OverlapIsKnown
        <5>2. applying[w].crossed
          BY <2>1, <3>2, <5>1
        <5>3. Cardinality(LiveMarked') <= crossed'
          <6>1. CASE applying[w].current
            BY <1>0, <1>n, <2>1, <2>11, <5>1, <5>2, <6>1
          <6>2. CASE ~applying[w].current
            BY <2>1, <2>10, <5>1, <6>2
          <6>3. QED BY <6>1, <6>2
        <5>4. ASSUME NEW u \in Worker \ {v}, applying'[u].at \in {"create", "mark"} PROVE applying'[u].crossed
          <6>1. u # w
            BY <1>f, <2>3, <5>4
          <6>2. QED BY <2>3, <5>1, <5>4, <6>1
        <5>5. QED BY <4>1, <4>2, <5>3, <5>4 DEF OverlapIsKnown
      <4>3. CASE applying[v].at # "mark"
        BY <2>8, <4>1, <4>3 DEF OverlapIsKnown
      <4>4. QED BY <4>2, <4>3
    <3>3. QED BY <3>1, <3>2
  <2>15. DeliveriesAreCounted'
    <3>1. candidate' # "CANDIDATE" /\ deliveries' = 0
      BY <1>0, <2>1, <2>2 DEF ProposalsInv, DeliveriesAreCounted, CopiesFit, Proposals!Candidates
    <3>2. crossed' \in Nat /\ unmarked' \in Nat
      BY <2>5 DEF Proposals!TypeOK
    <3>3. \A a, b \in Nat : 0 <= 1 + a + b
      OBVIOUS
    <3>4. deliveries' <= 1 + crossed' + unmarked'
      BY <3>1, <3>2, <3>3
    <3>5. QED BY <3>1, <3>4 DEF DeliveriesAreCounted
  <2>16. QED BY <2>6, <2>7, <2>9, <2>12, <2>13, <2>14, <2>15 DEF ProposalsInv, CopiesAreCounted
<1>10. ASSUME NEW x \in Copy, NEW c \in Proposals!CopyState, Proposals!Changed(x, c), kind \notin Proposals!Candidates,
              copy[x].status # "none", c.status \in Statuses[kind], c.marked = copy[x].marked,
              kind # "model_belief" => (Proposals!Comparable(c) => Proposals!Comparable(copy[x]))
       PROVE  ProposalsInv'
  <2> DEFINE back == Proposals!Returns(x, c)
  <2>1. /\ copy' = [copy EXCEPT ![x] = c]
        /\ applying' = [w \in Worker |-> Proposals!Outdated(applying[w], x, back)]
        /\ IF back /\ Proposals!Live # {} THEN revived < MaxRevivals /\ revived' = revived + 1 ELSE revived' = revived
        /\ UNCHANGED <<kind, grounds, candidate, deliveries, crossed, unmarked, applyCalls, applyCrashes>>
    BY Zenon, <1>10 DEF Proposals!Changed
  <2>2. kind \in {"gap", "objective", "model_belief", "learning"} /\ back \in BOOLEAN
        /\ (back => kind = "model_belief")
    BY <1>0, <1>10 DEF Proposals!Kind, Proposals!Returns, Proposals!Candidates
  <2>3. /\ applying' \in [Worker -> Proposals!Applying]
        /\ \A v \in Worker : /\ applying'[v].at = applying[v].at /\ applying'[v].on = applying[v].on
                             /\ applying'[v].crossed = (applying[v].crossed \/ (back /\ applying[v].at = "create"))
    <3> HIDE DEF back
    <3>1. ASSUME NEW v \in Worker
          PROVE  /\ applying'[v] \in Proposals!Applying
                 /\ applying'[v].at = applying[v].at /\ applying'[v].on = applying[v].on
                 /\ applying'[v].crossed = (applying[v].crossed \/ (back /\ applying[v].at = "create"))
      <4>1. PICK b \in Proposals!Applying : b = applying[v]
        BY <1>0
      <4>2. PICK p \in BOOLEAN, q \in BOOLEAN : p = (b.current /\ b.on # x) /\ q = (b.crossed \/ (back /\ b.at = "create"))
        BY <2>2, <4>1 DEF Proposals!Applying
      <4>3. applying'[v] = Proposals!Outdated(b, x, back)
        BY <2>1, <4>1
      <4>4. Proposals!Outdated(b, x, back) = [[b EXCEPT !.current = p] EXCEPT !.crossed = q]
        BY Zenon, <4>2 DEF Proposals!Outdated
      <4> DEFINE e == [b EXCEPT !.current = p]
      <4>5. e \in Proposals!Applying
        BY <4>1, <4>2 DEF Proposals!Applying
      <4>6. e.at = b.at /\ e.on = b.on /\ e.crossed = b.crossed
        BY <4>1 DEF Proposals!Applying
      <4> HIDE DEF e
      <4>7. PICK d \in Proposals!Applying : d = e /\ d.at = b.at /\ d.on = b.on /\ d.crossed = b.crossed
        BY <4>5, <4>6
      <4> USE DEF e
      <4>8. applying'[v] = [d EXCEPT !.crossed = q]
        BY <4>3, <4>4, <4>7
      <4>9. QED BY <4>1, <4>2, <4>7, <4>8 DEF Proposals!Applying
    <3>2. applying' = [v \in Worker |-> applying'[v]]
      BY <2>1
    <3>3. applying' \in [Worker -> Proposals!Applying]
      BY <3>1, <3>2
    <3>4. QED BY <3>1, <3>3
  <2>4. /\ copy' \in [Copy -> Proposals!CopyState]
        /\ copy'[x] = c /\ \A y \in Copy : copy'[y].marked = copy[y].marked
        /\ \A y \in Copy \ {x} : copy'[y] = copy[y]
    BY <1>0, <1>10, <2>1
  <2>5. CopiesFit'
    <3>1. ASSUME NEW y \in Copy
          PROVE  /\ copy'[y].status \in {"none"} \cup Statuses[kind]
                 /\ kind # "learning" /\ copy'[y].status # "none" => copy'[y].marked
      <4>1. CASE y = x
        BY <1>0, <1>10, <2>4, <4>1 DEF CopiesFit
      <4>2. CASE y # x
        BY <1>0, <1>10, <2>4, <4>2 DEF CopiesFit
      <4>3. QED BY <4>1, <4>2
    <3>2. kind \notin Proposals!Candidates /\ kind' = kind /\ candidate' = candidate
      BY <1>10, <2>1
    <3>3. QED BY <1>0, <3>1, <3>2 DEF CopiesFit
  <2>6. Proposals!TypeOK'
    <3>1. revived' \in 0 .. MaxRevivals
      BY <1>0, <2>1
    <3>2. QED BY <1>0, <2>1, <2>3, <2>4, <3>1 DEF Proposals!TypeOK
  <2>7. \A v \in Worker : applying'[v].at \notin {"send", "note", "retire"} /\ applying[v].at \notin {"send", "note", "retire"}
    BY <1>c, <2>2, <2>3 DEF CallServes
  <2>8. CallsServe'
    <3> SUFFICES ASSUME NEW v \in Worker PROVE CallServes(applying[v])'
      BY DEF CallsServe
    <3>1. CallServes(applying[v])
      BY <1>c
    <3>2. QED BY <2>1, <2>2, <2>3, <2>7, <3>1 DEF CallServes
  \* only a belief that is back is live again
  <2>9. /\ x \in Proposals!Live' <=> Proposals!Comparable(c)
        /\ \A y \in Copy \ {x} : y \in Proposals!Live' <=> y \in Proposals!Live
        /\ ~back => Proposals!Live' \in SUBSET Proposals!Live
    <3>2. \A y \in Copy : y \in Proposals!Live' <=> Proposals!Comparable(copy'[y])
      BY <2>1 DEF Proposals!Live, Proposals!Comparable
    <3>3. \A y \in Copy : y \in Proposals!Live <=> Proposals!Comparable(copy[y])
      BY DEF Proposals!Live
    <3>4. Proposals!Live' \in SUBSET Copy
      BY DEF Proposals!Live
    <3>5. QED BY <2>4, <3>2, <3>3, <3>4 DEF Proposals!Returns
  <2> HIDE DEF back
  <2>10. /\ \A y \in Copy : y \in LiveMarked' <=> y \in Proposals!Live' /\ copy[y].marked
         /\ \A y \in Copy : y \in LiveMarked <=> y \in Proposals!Live /\ copy[y].marked
         /\ LiveMarked' \in SUBSET (LiveMarked \cup {x})
         /\ ~back => LiveMarked' \in SUBSET LiveMarked
    <3>1. \A y \in Copy : y \in LiveMarked' <=> y \in Proposals!Live' /\ copy'[y].marked
      BY DEF LiveMarked, Proposals!Same, Proposals!Live
    <3>2. \A y \in Copy : y \in LiveMarked <=> y \in Proposals!Live /\ copy[y].marked
      BY DEF LiveMarked, Proposals!Same, Proposals!Live
    <3>3. LiveMarked' \in SUBSET Copy
      BY DEF LiveMarked
    <3>4. QED BY <2>4, <2>9, <3>1, <3>2, <3>3
  <2>11. Abandoned' \in SUBSET Abandoned
    <3> SUFFICES ASSUME NEW y \in Abandoned' PROVE y \in Abandoned
      OBVIOUS
    <3>1. y \in Proposals!Live' /\ y \in Copy /\ y \notin LiveMarked' /\ \A v \in Worker : applying'[v].at = "mark" => applying'[v].on # y
      BY DEF Abandoned, Proposals!Live
    <3>2. \A v \in Worker : applying[v].at = "mark" => applying[v].on # y
      BY <2>3, <3>1
    <3>3. ~copy[y].marked /\ copy'[y].status # "none"
      BY <2>10, <3>1 DEF Proposals!Live, Proposals!Comparable
    <3>4. kind = "learning"
      BY <2>1, <2>4, <2>5, <3>1, <3>3 DEF CopiesFit
    <3>5. y \in Proposals!Live /\ y \notin LiveMarked
      BY <2>2, <2>9, <2>10, <3>1, <3>3, <3>4
    <3>6. QED BY <3>2, <3>5 DEF Abandoned
  <2>12. /\ Cardinality(LiveMarked') \in Nat /\ Cardinality(LiveMarked') <= Cardinality(LiveMarked) + 1
         /\ ~back => Cardinality(LiveMarked') <= Cardinality(LiveMarked)
         /\ Cardinality(Abandoned') \in Nat /\ Cardinality(Abandoned') <= Cardinality(Abandoned)
    BY <1>n, <2>10, <2>11, FewMore
  <2>13. CopiesAreCounted'
    <3>1. Cardinality(LiveMarked') <= 1 + crossed + revived'
      <4>1. CASE ~back
        BY <1>0, <1>n, <2>1, <2>12, <4>1
      <4>2. CASE back /\ Proposals!Live # {}
        BY <1>0, <1>n, <2>1, <2>12, <4>2
      <4>3. CASE Proposals!Live = {}
        <5>1. LiveMarked = {}
          BY <4>3 DEF LiveMarked, Proposals!Same, Proposals!Live
        <5>2. Cardinality(LiveMarked) = 0
          BY <5>1, FS_EmptySet
        <5>3. QED BY <1>0, <2>1, <2>12, <4>3, <5>2
      <4>4. QED BY <4>1, <4>2, <4>3
    <3>2. QED BY <1>0, <1>n, <2>1, <2>12, <3>1 DEF CopiesAreCounted
  <2>14. Proposals!Underway' = Proposals!Underway
    BY <2>3 DEF Proposals!Underway
  <2>15. OverlapsAreKnown'
    <3> SUFFICES ASSUME NEW v \in Worker, ~applying'[v].crossed PROVE OverlapIsKnown(v)'
      BY DEF OverlapsAreKnown, OverlapIsKnown
    <3>1. /\ OverlapIsKnown(v) /\ ~applying[v].crossed
          /\ applying'[v].at = applying[v].at /\ (applying[v].at = "create" => ~back)
      BY <1>c, <2>3
    <3>2. applying[v].at = "mark" => ~back
      BY <1>c, <2>2 DEF CallServes
    <3>3. applying[v].at = "mark" => Cardinality(LiveMarked') <= crossed'
      BY <1>0, <1>n, <2>1, <2>12, <3>1, <3>2 DEF OverlapIsKnown
    <3>4. applying[v].at = "create" => Proposals!Underway = {} /\ LiveMarked' = {}
      BY <2>10, <3>1 DEF OverlapIsKnown
    <3>5. ASSUME applying[v].at = "mark", NEW u \in Worker \ {v}, applying'[u].at \in {"create", "mark"}
          PROVE  applying'[u].crossed
      BY <2>3, <3>1, <3>5 DEF OverlapIsKnown
    <3>6. QED BY <2>7, <2>14, <3>1, <3>3, <3>4, <3>5 DEF OverlapIsKnown
  <2>16. DeliveriesAreCounted'
    BY <2>1, <2>14 DEF ProposalsInv, DeliveriesAreCounted
  <2>17. QED BY <2>5, <2>6, <2>8, <2>13, <2>15, <2>16 DEF ProposalsInv
<1>11. ASSUME NEW x \in Copy, NEW new \in Proposals!CopyStatus, Proposals!MoveOn(x, new) PROVE ProposalsInv'
  <2> DEFINE d == [copy[x] EXCEPT !.status = new]
  <2>1. <<kind, copy[x].status, new>> \in Proposals!Onward /\ Proposals!Changed(x, d)
    BY <1>11 DEF Proposals!MoveOn
  <2>2. PICK b \in Proposals!CopyState : b = copy[x]
    BY <1>0
  <2>3. d = [b EXCEPT !.status = new]
    BY <2>2
  <2>4. d \in Proposals!CopyState
    BY <1>11, <2>2, <2>3 DEF Proposals!CopyState
  <2>5. d.status = new /\ d.marked = b.marked /\ d.doubted = b.doubted
    BY <2>2, <2>3 DEF Proposals!CopyState
  <2>6. PICK c \in Proposals!CopyState : c = d /\ c.status = new /\ c.marked = b.marked /\ c.doubted = b.doubted
    BY <2>4, <2>5
  <2> HIDE DEF d
  <2>7. /\ kind \notin Proposals!Candidates /\ b.status # "none" /\ new \in Statuses[kind]
        /\ kind # "model_belief" => (Proposals!Comparable(c) => Proposals!Comparable(b))
    BY <2>1, <2>2, <2>6 DEF Proposals!Onward, Proposals!Candidates, Statuses, Proposals!Comparable
  <2>8. QED BY <1>10, <2>1, <2>2, <2>6, <2>7
<1>12. ASSUME NEW x \in Copy, NEW t \in BOOLEAN, Proposals!Held(x), Proposals!Changed(x, [copy[x] EXCEPT !.doubted = t]) PROVE ProposalsInv'
  <2> DEFINE d == [copy[x] EXCEPT !.doubted = t]
  <2>1. kind = "model_belief" /\ copy[x].status # "none" /\ Proposals!Changed(x, d)
    BY <1>12 DEF Proposals!Held
  <2>2. PICK b \in Proposals!CopyState : b = copy[x]
    BY <1>0
  <2>3. d = [b EXCEPT !.doubted = t]
    BY <2>2
  <2>4. d \in Proposals!CopyState
    BY <2>2, <2>3 DEF Proposals!CopyState
  <2>5. d.status = b.status /\ d.marked = b.marked
    BY <2>2, <2>3 DEF Proposals!CopyState
  <2>6. PICK c \in Proposals!CopyState : c = d /\ c.status = b.status /\ c.marked = b.marked
    BY <2>4, <2>5
  <2> HIDE DEF d
  <2>7. kind \notin Proposals!Candidates /\ c.status \in Statuses[kind]
    <3>1. kind \notin Proposals!Candidates
      BY <2>1 DEF Proposals!Candidates
    <3>2. QED BY <1>0, <2>1, <2>2, <2>6, <3>1 DEF CopiesFit
  <2>8. QED BY <1>10, <2>1, <2>2, <2>6, <2>7
<1>13. ASSUME UNCHANGED <<kind, copy, applying, candidate, deliveries, crossed, unmarked, revived, applyCalls, applyCrashes>>,
              grounds' \in BOOLEAN
       PROVE  ProposalsInv'
  <2>1. LiveMarked' = LiveMarked /\ Proposals!Live' = Proposals!Live /\ Proposals!Underway' = Proposals!Underway
    BY <1>13 DEF LiveMarked, Proposals!Same, Proposals!Comparable, Proposals!Live, Proposals!Underway
  <2>2. Abandoned' = Abandoned
    BY <1>13, <2>1 DEF Abandoned
  <2>3. Proposals!TypeOK'
    BY <1>0, <1>13 DEF Proposals!TypeOK
  <2>4. CopiesFit' /\ CallsServe'
    BY <1>13 DEF ProposalsInv, CopiesFit, CallsServe, CallServes
  <2>5. OverlapsAreKnown' /\ CopiesAreCounted' /\ DeliveriesAreCounted'
    BY <1>13, <2>1, <2>2 DEF ProposalsInv, OverlapsAreKnown, OverlapIsKnown, CopiesAreCounted,
       DeliveriesAreCounted
  <2>6. QED BY <2>3, <2>4, <2>5 DEF ProposalsInv
<1>14. CASE Proposals!ChangeGrounds
  BY <1>0, <1>13, <1>14 DEF Proposals!ChangeGrounds
<1>15. CASE UNCHANGED Proposals!vars
  BY <1>0, <1>13, <1>15 DEF Proposals!vars
<1>16. QED
  <2>1. ASSUME NEW w \in Worker, NEW x \in Copy, Proposals!Create(w, x) PROVE ProposalsInv'
    BY <1>7, <1>8, <2>1
  <2>2. ASSUME NEW w \in Worker, NEW accepted \in BOOLEAN, Proposals!Send(w, accepted) PROVE ProposalsInv'
    BY <1>4, <1>5, <2>2
  <2>3. ASSUME NEW x \in Copy, Proposals!Doubt(x) \/ Proposals!Refresh(x) PROVE ProposalsInv'
    BY <1>12, <2>3 DEF Proposals!Doubt, Proposals!Refresh
  <2>4. QED BY <1>1, <1>2, <1>3, <1>6, <1>9, <1>14, <1>15, <1>11, <2>1, <2>2, <2>3 DEF Proposals!Next

\* What is live is marked, or a call is about to mark it, or one was cut short before it did.
LEMMA ProposalsBounded == ASSUME ProposalsInv PROVE Proposals!AppliedOnce
<1> DEFINE M == {w \in Worker : applying[w].at = "mark"}
           f == [w \in M |-> applying[w].on]
           H == {applying[w].on : w \in M}
<1>0. crossed \in Nat /\ revived \in Nat /\ unmarked \in Nat /\ deliveries \in Nat /\ Proposals!TypeOK /\ CopiesFit
  BY ServicesAssumption DEF ProposalsInv, Proposals!TypeOK
<1>1. /\ Cardinality(LiveMarked) \in Nat /\ Cardinality(Abandoned) \in Nat /\ Cardinality(Proposals!Underway) \in Nat
      /\ IsFiniteSet(LiveMarked) /\ IsFiniteSet(Abandoned) /\ IsFiniteSet(Proposals!Underway)
      /\ Cardinality(Proposals!Live) \in Nat
      /\ Cardinality(LiveMarked) <= 1 + crossed + revived /\ Cardinality(Abandoned) <= unmarked
  BY ProposalsFinite DEF ProposalsInv, CopiesAreCounted
<1>2. CASE kind = "learning_candidate"
  <2>1. Proposals!Live = {}
    BY <1>0, <1>2, LiveIsComparable, ProposalsFinite DEF Proposals!Candidates
  <2>2. Cardinality(Proposals!Live) = 0
    BY <2>1, FS_EmptySet
  <2>3. deliveries <= 1 + crossed + unmarked
    BY DEF ProposalsInv, DeliveriesAreCounted
  <2>4. QED BY ProposalsCounts, <1>0, <1>1, <2>2, <2>3 DEF Proposals!AppliedOnce
<1>3. CASE kind # "learning_candidate"
  <2>1. M \in SUBSET Proposals!Underway /\ IsFiniteSet(M) /\ Cardinality(M) \in Nat /\ Cardinality(M) <= Cardinality(Proposals!Underway)
    <3>1. M \in SUBSET Proposals!Underway
      BY DEF Proposals!Underway
    <3> HIDE DEF M
    <3>2. QED BY <1>1, <3>1, FewMore
  <2>2. f \in Surjection(M, H)
    BY DEF Surjection
  <2>3. IsFiniteSet(H) /\ Cardinality(H) <= Cardinality(M) /\ Cardinality(H) \in Nat
    <3> HIDE DEF M, H, f
    <3>1. QED BY <2>1, <2>2, FS_Surjection, FS_CardinalityType
  <2>4. Proposals!Live \in SUBSET ((LiveMarked \cup Abandoned) \cup H)
    BY DEF Abandoned, Proposals!Live
  <2> HIDE DEF M, H, f
  <2> DEFINE B == LiveMarked \cup Abandoned
  <2>5. IsFiniteSet(B) /\ Cardinality(B) \in Nat /\ Cardinality(B) <= Cardinality(LiveMarked) + Cardinality(Abandoned)
    <3>1. /\ IsFiniteSet(B) /\ Cardinality(B) \in Nat
          /\ Cardinality(B) = Cardinality(LiveMarked) + Cardinality(Abandoned) - Cardinality(LiveMarked \cap Abandoned)
          /\ Cardinality(LiveMarked \cap Abandoned) \in Nat
      BY <1>1, FS_Union, FS_Intersection, FS_CardinalityType
    <3> HIDE DEF B
    <3>2. QED BY <1>1, <3>1
  <2>6. Proposals!Live \in SUBSET (B \cup H)
    BY <2>4
  <2> HIDE DEF B
  <2>7. /\ IsFiniteSet(B \cup H) /\ Cardinality(B \cup H) \in Nat
        /\ Cardinality(B \cup H) <= Cardinality(B) + Cardinality(H)
    <3>1. /\ IsFiniteSet(B \cup H) /\ Cardinality(B \cup H) \in Nat
          /\ Cardinality(B \cup H) = Cardinality(B) + Cardinality(H) - Cardinality(B \cap H)
          /\ Cardinality(B \cap H) \in Nat
      BY <2>3, <2>5, FS_Union, FS_Intersection, FS_CardinalityType
    <3>2. QED BY <2>3, <2>5, <3>1
  <2>8. Cardinality(Proposals!Live) <= Cardinality(B \cup H)
    BY <2>6, <2>7, FS_Subset
  <2>9. deliveries = 0
    BY <1>3 DEF ProposalsInv, DeliveriesAreCounted
  <2>10. QED BY ProposalsCounts, <1>0, <1>1, <2>1, <2>3, <2>5, <2>7, <2>8, <2>9 DEF Proposals!AppliedOnce
<1>4. QED BY <1>2, <1>3

(***************************************************************************)
(* Learning. The counts that a rung is judged by are founded on the        *)
(* references on file, but for entries that name one reference twice, and  *)
(* a promotion about to be saved was judged on the content that is on      *)
(* disk.                                                                   *)
(***************************************************************************)

\* The cardinality that the part's module extends is this one.
LEMMA LearningCounts == \A S : Learning!Cardinality(S) = Cardinality(S)
  BY DEF Learning!Cardinality, Cardinality

\* What is counted on the learning is among its references.
CountsAreFounded ==
  /\ learning.controlled >= 1 => Learning!OfClass(learning.refs, {"controlled"}) # {}
  /\ learning.confirmed => Learning!OfClass(learning.refs, {"confirmation"}) # {}
  /\ ~doubled => learning.observations <= Cardinality(Learning!OfClass(learning.refs, Learning!Observational))

\* A transition about to be saved may still be made, as long as its copy is the one on disk.
MovesAreJudged ==
  \A w \in Worker : tending[w].at = "move" /\ Learning!Untouched(w) => Learning!MayMove(tending[w].target)

LearningInv ==
  /\ Learning!TypeOK
  /\ CountsAreFounded
  /\ MovesAreJudged
  /\ Learning!ValidationIsEarned
  /\ ~overruled

-----------------------------------------------------------------------------

\* References of some classes are finitely many, and more references more of them.
LEMMA OfClassFinite ==
  ASSUME NEW refs \in SUBSET Ref, NEW more \in SUBSET Ref, NEW classes, refs \subseteq more
  PROVE  /\ IsFiniteSet(Learning!OfClass(refs, classes))
         /\ Learning!OfClass(refs, classes) \subseteq Learning!OfClass(more, classes)
         /\ Cardinality(Learning!OfClass(refs, classes)) \in Nat
         /\ Cardinality(Learning!OfClass(refs, classes)) <= Cardinality(Learning!OfClass(more, classes))
<1>1. IsFiniteSet(Ref)
  BY ServicesAssumption
<1>2. Learning!OfClass(refs, classes) \in SUBSET Ref /\ Learning!OfClass(more, classes) \in SUBSET Ref
  BY DEF Learning!OfClass
<1>3. Learning!OfClass(refs, classes) \in SUBSET Learning!OfClass(more, classes)
  BY DEF Learning!OfClass
<1>4. IsFiniteSet(Learning!OfClass(refs, classes)) /\ IsFiniteSet(Learning!OfClass(more, classes))
  BY <1>1, <1>2, FS_Subset
<1>5. QED
  BY <1>3, <1>4, FS_Subset, FS_CardinalityType

\* A batch has as many entries of a class as it names references of it, when it names
\* none of them twice.
LEMMA EntriesCounted ==
  ASSUME NEW batch \in Batches, NEW new \in SUBSET Learning!Named(batch), NEW classes
  PROVE  /\ Learning!Entries(batch, new, classes) \in Nat
         /\ Learning!OfClass(new, classes) = {} => Learning!Entries(batch, new, classes) = 0
         /\ (\A r \in new : ~(batch[r] > 1)) =>
              Learning!Entries(batch, new, classes) <= Cardinality(Learning!OfClass(new, classes))
<1> DEFINE S == Learning!OfClass(new, classes)
           E == UNION {{r} \X (1 .. batch[r]) : r \in S}
<1>1. batch \in [Ref -> Nat] /\ new \in SUBSET Ref
  BY ServicesAssumption DEF Learning!Named
<1>2. IsFiniteSet(S) /\ S \subseteq Ref
  BY <1>1, OfClassFinite DEF Learning!OfClass
<1>3. IsFiniteSet(E)
  <2> DEFINE f == [r \in S |-> {r} \X (1 .. batch[r])]
             T == {{r} \X (1 .. batch[r]) : r \in S}
  <2>1. f \in Surjection(S, T)
    BY DEF Surjection
  <2>2. IsFiniteSet(T)
    <3> HIDE DEF f, T
    <3> QED BY <1>2, <2>1, FS_Surjection
  <2>3. ASSUME NEW r \in S PROVE IsFiniteSet({r} \X (1 .. batch[r]))
    <3>1. batch[r] \in Int /\ 1 \in Int
      BY <1>1, <1>2
    <3>2. IsFiniteSet(1 .. batch[r]) /\ IsFiniteSet({r})
      BY <3>1, FS_Interval, FS_Singleton
    <3>3. QED BY <3>2, FS_Product
  <2>4. \A U \in T : IsFiniteSet(U)
    BY <2>3
  <2>5. QED
    <3> HIDE DEF T
    <3>1. IsFiniteSet(UNION T)
      BY <2>2, <2>4, FS_UNION
    <3>2. QED BY <3>1 DEF T
<1>4. Learning!Entries(batch, new, classes) = Cardinality(E)
  BY LearningCounts DEF Learning!Entries
<1>5. Cardinality(E) \in Nat
  <2> HIDE DEF E
  <2> QED BY <1>3, FS_CardinalityType
<1>6. S = {} => Cardinality(E) = 0
  <2>1. S = {} => E = {}
    OBVIOUS
  <2> HIDE DEF E
  <2> QED BY <2>1, FS_EmptySet
<1>7. ASSUME \A r \in new : ~(batch[r] > 1)
      PROVE  Cardinality(E) <= Cardinality(S)
  <2> DEFINE f == [r \in S |-> <<r, 1>>]
  <2>1. ASSUME NEW r \in S PROVE 1 .. batch[r] = {1}
    <3>1. r \in new /\ r \in Ref /\ batch[r] > 0
      BY DEF Learning!OfClass, Learning!Named
    <3>2. batch[r] = 1
      BY <1>1, <1>7, <3>1
    <3>3. QED BY <3>2
  <2>2. E = {<<r, 1>> : r \in S}
    BY <2>1
  <2>3. f \in Surjection(S, E)
    BY <2>2 DEF Surjection
  <2>4. QED
    <3> HIDE DEF f, E
    <3> QED BY <1>2, <2>3, FS_Surjection
<1>8. QED
  BY <1>4, <1>5, <1>6, <1>7

-----------------------------------------------------------------------------

\* A save puts a learning in place and outdates everybody else's copy.
LEMMA LearningSaved ==
  ASSUME LearningInv, NEW w \in Worker, NEW l, NEW c \in Learning!Tending, Learning!Saved(w, l, c),
         ~(c.at = "move" /\ c.current)
  PROVE  learning' = l /\ tending' \in [Worker -> Learning!Tending] /\ MovesAreJudged'
<1>1. tending \in [Worker -> Learning!Tending]
  BY DEF LearningInv, Learning!TypeOK
<1>2. tending' \in [Worker -> Learning!Tending] /\ learning' = l
  BY <1>1 DEF Learning!Saved, Learning!Tending
<1>3. ASSUME NEW v \in Worker
      PROVE  tending'[v] = c \/ ~tending'[v].current
  BY <1>1 DEF Learning!Saved, Learning!Tending
<1>4. MovesAreJudged'
  BY <1>3 DEF MovesAreJudged, Learning!Untouched
<1>5. QED BY <1>2, <1>4

\* A step of one worker that leaves the learning alone.
LEMMA LearningRests ==
  ASSUME LearningInv, NEW w \in Worker, NEW c \in Learning!Tending, Learning!Goes(w, c), UNCHANGED learning,
         c.at = "move" /\ c.current => Learning!MayMove(c.target)
  PROVE  tending' \in [Worker -> Learning!Tending] /\ MovesAreJudged'
<1>1. tending \in [Worker -> Learning!Tending]
  BY DEF LearningInv, Learning!TypeOK
<1>2. tending' \in [Worker -> Learning!Tending]
  BY <1>1 DEF Learning!Goes
<1>3. ASSUME NEW v \in Worker PROVE tending'[v] = IF v = w THEN c ELSE tending[v]
  BY <1>1 DEF Learning!Goes
<1>4. ASSUME NEW target PROVE Learning!MayMove(target)' <=> Learning!MayMove(target)
  BY DEF Learning!MayMove
<1>5. MovesAreJudged'
  BY <1>3, <1>4 DEF LearningInv, MovesAreJudged, Learning!Untouched
<1>6. QED BY <1>2, <1>5

\* What a learning was validated for stays on record when evidence is added.
LEMMA EvidenceKeeps ==
  ASSUME LearningInv, NEW w \in Worker, NEW batch \in Batches, NEW contradicts \in BOOLEAN,
         Learning!SaveEvidence(w, batch, contradicts), Learning!Named(batch) \ learning.refs # {}
  PROVE  learning' \in Learning!Learnings /\ CountsAreFounded' /\ Learning!ValidationIsEarned'
<1> DEFINE new == Learning!Named(batch) \ learning.refs
           refs == learning.refs \cup new
           seen == Learning!Entries(batch, new, Learning!Observational)
<1>0. /\ learning \in Learning!Learnings /\ doubled \in BOOLEAN
      /\ learning.refs \in SUBSET Ref /\ new \in SUBSET Ref /\ refs \in SUBSET Ref
      /\ learning.refs \subseteq refs /\ new \subseteq refs /\ new \in SUBSET Learning!Named(batch)
  BY DEF LearningInv, Learning!TypeOK, Learning!Learnings, Learning!Named
<1>1. learning' = [learning EXCEPT
        !.refs = @ \cup new,
        !.observations = @ + Learning!Entries(batch, new, Learning!Observational),
        !.controlled = @ + Learning!Entries(batch, new, {"controlled"}),
        !.contradictions = IF contradicts THEN @ + Learning!Entries(batch, new, Learning!Classes) ELSE @,
        !.confirmed = @ \/ Learning!OfClass(new, {"confirmation"}) # {}]
  BY DEF Learning!SaveEvidence, Learning!Saved
<1>2. doubled' = (doubled \/ \E r \in new : batch[r] > 1)
  BY DEF Learning!SaveEvidence
<1>3. \A classes : /\ Learning!Entries(batch, new, classes) \in Nat
                   /\ Learning!OfClass(new, classes) = {} => Learning!Entries(batch, new, classes) = 0
                   /\ (\A r \in new : ~(batch[r] > 1)) =>
                        Learning!Entries(batch, new, classes) <= Cardinality(Learning!OfClass(new, classes))
  <2> HIDE DEF new
  <2> QED BY <1>0, EntriesCounted
<1>4. /\ learning'.refs = refs /\ learning'.status = learning.status
      /\ learning'.observations = learning.observations + seen
      /\ learning'.controlled = learning.controlled + Learning!Entries(batch, new, {"controlled"})
      /\ learning'.confirmed = (learning.confirmed \/ Learning!OfClass(new, {"confirmation"}) # {})
  <2> HIDE DEF new
  <2> QED BY <1>0, <1>1 DEF Learning!Learnings
<1>5. learning' \in Learning!Learnings
  <2> DEFINE controlled == learning.controlled + Learning!Entries(batch, new, {"controlled"})
             contradictions == IF contradicts THEN learning.contradictions + Learning!Entries(batch, new, Learning!Classes)
                               ELSE learning.contradictions
             confirmed == learning.confirmed \/ Learning!OfClass(new, {"confirmation"}) # {}
  <2>1. /\ learning.observations + seen \in Nat /\ controlled \in Nat /\ contradictions \in Nat
        /\ confirmed \in BOOLEAN
    <3>1. /\ learning.observations \in Nat /\ learning.controlled \in Nat
          /\ learning.contradictions \in Nat /\ learning.confirmed \in BOOLEAN
      BY <1>0 DEF Learning!Learnings
    <3>2. seen \in Nat /\ Learning!Entries(batch, new, {"controlled"}) \in Nat /\ Learning!Entries(batch, new, Learning!Classes) \in Nat
      BY <1>3
    <3> HIDE DEF new
    <3>3. confirmed \in BOOLEAN
      BY <3>1
    <3>4. QED BY <3>1, <3>2, <3>3
  <2>2. learning' = [learning EXCEPT !.refs = refs, !.observations = learning.observations + seen,
                       !.controlled = controlled, !.contradictions = contradictions, !.confirmed = confirmed]
    BY <1>0, <1>1 DEF Learning!Learnings
  <2>3. QED
    <3> HIDE DEF refs, seen, controlled, contradictions, confirmed
    <3> QED BY <1>0, <2>1, <2>2 DEF Learning!Learnings
<1>6. \A classes : /\ Learning!OfClass(learning.refs, classes) \subseteq Learning!OfClass(refs, classes)
                   /\ Learning!OfClass(new, classes) \subseteq Learning!OfClass(refs, classes)
                   /\ Cardinality(Learning!OfClass(learning.refs, classes)) <= Cardinality(Learning!OfClass(refs, classes))
                   /\ Cardinality(Learning!OfClass(learning.refs, classes)) \in Nat
                   /\ Cardinality(Learning!OfClass(refs, classes)) \in Nat
  <2> HIDE DEF new, refs
  <2> QED BY <1>0, OfClassFinite
<1>7. Cardinality(Learning!OfClass(refs, Learning!Observational)) =
        Cardinality(Learning!OfClass(learning.refs, Learning!Observational)) + Cardinality(Learning!OfClass(new, Learning!Observational))
  <2> DEFINE A == Learning!OfClass(learning.refs, Learning!Observational)
             B == Learning!OfClass(new, Learning!Observational)
  <2>1. Learning!OfClass(refs, Learning!Observational) = A \cup B /\ A \cap B = {}
    BY DEF Learning!OfClass
  <2>2. IsFiniteSet(A) /\ IsFiniteSet(B)
    <3> HIDE DEF new
    <3> QED BY <1>0, OfClassFinite
  <2>3. Cardinality(A) \in Nat /\ Cardinality(B) \in Nat
    <3> HIDE DEF A, B
    <3> QED BY <2>2, FS_CardinalityType
  <2>4. Cardinality(A \cup B) = Cardinality(A) + Cardinality(B) - Cardinality(A \cap B)
    <3> HIDE DEF A, B
    <3> QED BY <2>2, FS_Union
  <2>5. Cardinality(A \cap B) = 0
    BY <2>1, FS_EmptySet
  <2>6. Cardinality(Learning!OfClass(refs, Learning!Observational)) = Cardinality(A \cup B)
    BY <2>1
  <2>7. QED
    <3> HIDE DEF A, B, refs
    <3>1. Cardinality(Learning!OfClass(refs, Learning!Observational)) = Cardinality(A) + Cardinality(B)
      BY <2>3, <2>4, <2>5, <2>6
    <3>2. QED BY <3>1 DEF A, B
<1>8. CountsAreFounded'
  <2>1. CountsAreFounded
    BY DEF LearningInv
  <2>2. learning.controlled \in Nat /\ learning.observations \in Nat
    BY <1>0 DEF Learning!Learnings
  <2> HIDE DEF new, refs, seen
  <2>3. learning'.controlled >= 1 => Learning!OfClass(refs, {"controlled"}) # {}
    <3>1. learning.controlled >= 1 \/ Learning!OfClass(new, {"controlled"}) # {} \/ ~(learning'.controlled >= 1)
      BY <1>3, <1>4, <2>2
    <3>2. QED BY <1>6, <2>1, <3>1 DEF CountsAreFounded
  <2>4. learning'.confirmed => Learning!OfClass(refs, {"confirmation"}) # {}
    BY <1>4, <1>6, <2>1 DEF CountsAreFounded
  <2>5. ~doubled' => learning'.observations <= Cardinality(Learning!OfClass(refs, Learning!Observational))
    <3> SUFFICES ASSUME ~doubled' PROVE learning'.observations <= Cardinality(Learning!OfClass(refs, Learning!Observational))
      OBVIOUS
    <3>1. ~doubled /\ seen <= Cardinality(Learning!OfClass(new, Learning!Observational))
      BY <1>2, <1>3 DEF seen
    <3>2. learning.observations <= Cardinality(Learning!OfClass(learning.refs, Learning!Observational))
      BY <2>1, <3>1 DEF CountsAreFounded
    <3>3. Cardinality(Learning!OfClass(new, Learning!Observational)) \in Nat /\ seen \in Nat
      BY <1>0, <1>3, OfClassFinite DEF seen
    <3>4. QED BY <1>4, <1>6, <1>7, <2>2, <3>1, <3>2, <3>3
  <2>6. QED BY <1>4, <2>3, <2>4, <2>5 DEF CountsAreFounded
<1>9. Learning!ValidationIsEarned'
  <2> HIDE DEF new, refs
  <2>1. Learning!ValidationIsEarned
    BY DEF LearningInv
  <2>2. /\ Learning!OfClass(learning.refs, {"controlled", "confirmation"}) \subseteq Learning!OfClass(refs, {"controlled", "confirmation"})
        /\ Cardinality(Learning!OfClass(learning.refs, Learning!Observational)) >= 3 => Cardinality(Learning!OfClass(refs, Learning!Observational)) >= 3
        /\ doubled => doubled'
    <3>1. doubled => doubled'
      BY <1>0, <1>2
    <3>2. Learning!OfClass(learning.refs, {"controlled", "confirmation"}) \subseteq Learning!OfClass(refs, {"controlled", "confirmation"})
      BY <1>6
    <3>3. Cardinality(Learning!OfClass(learning.refs, Learning!Observational)) >= 3 => Cardinality(Learning!OfClass(refs, Learning!Observational)) >= 3
      BY <1>6
    <3>4. QED BY <3>1, <3>2, <3>3
  <2>3. learning'.refs = refs /\ learning'.status = learning.status
    BY <1>4
  <2>4. QED BY LearningCounts, <2>1, <2>2, <2>3 DEF Learning!ValidationIsEarned
<1>10. QED BY <1>5, <1>8, <1>9

-----------------------------------------------------------------------------

LEMMA LearningStarts == ASSUME Learning!Init PROVE LearningInv
<1>1. PICK batch \in Batches : learning = Learning!Recorded(Learning!Named(batch))
  BY DEF Learning!Init
<1> DEFINE refs == Learning!Named(batch)
<1>2. refs \in SUBSET Ref
  BY DEF Learning!Named
<1>3. \A classes : IsFiniteSet(Learning!OfClass(refs, classes)) /\ Cardinality(Learning!OfClass(refs, classes)) \in Nat
  <2> HIDE DEF refs
  <2> QED BY <1>2, OfClassFinite
<1>4. learning \in Learning!Learnings
  <2> HIDE DEF refs
  <2> QED BY LearningCounts, <1>1, <1>2, <1>3 DEF Learning!Recorded, Learning!Learnings, Learning!Moves, refs
<1>5. CountsAreFounded
  <2>1. /\ learning.controlled = Cardinality(Learning!OfClass(refs, {"controlled"})) /\ learning.refs = refs
        /\ learning.confirmed = (Learning!OfClass(refs, {"confirmation"}) # {})
        /\ learning.observations = Cardinality(Learning!OfClass(refs, Learning!Observational))
    BY LearningCounts, <1>1 DEF Learning!Recorded
  <2> HIDE DEF refs
  <2>2. Learning!OfClass(refs, {"controlled"}) = {} => ~(Cardinality(Learning!OfClass(refs, {"controlled"})) >= 1)
    BY FS_EmptySet
  <2>3. /\ learning.controlled >= 1 => Learning!OfClass(learning.refs, {"controlled"}) # {}
        /\ learning.confirmed => Learning!OfClass(learning.refs, {"confirmation"}) # {}
    BY <2>1, <2>2
  <2>4. learning.observations <= Cardinality(Learning!OfClass(learning.refs, Learning!Observational))
    BY <1>3, <2>1
  <2>5. QED BY <2>3, <2>4 DEF CountsAreFounded
<1>6. /\ draft = [d \in Draft |-> "none"] /\ tending = [w \in Worker |-> Learning!Free]
      /\ overruled = FALSE /\ doubled = FALSE /\ crowded = FALSE /\ learningCalls = 0 /\ learningCrashes = 0
  BY DEF Learning!Init
<1>7. Learning!Free \in Learning!Tending /\ Learning!Free.at = "idle"
  BY DEF Learning!Free, Learning!Tending, Learning!Stages, Learning!Moves
<1>8. Learning!TypeOK
  <2>1. learningCalls \in 0 .. MaxLearningCalls /\ learningCrashes \in 0 .. MaxLearningCrashes
    BY <1>6, ServicesAssumption
  <2>2. draft \in [Draft -> {"none", "CANDIDATE", "REJECTED"}] /\ tending \in [Worker -> Learning!Tending]
    BY <1>6, <1>7
  <2>3. {overruled, doubled, crowded} \subseteq BOOLEAN
    BY <1>6
  <2>4. QED BY <1>4, <2>1, <2>2, <2>3 DEF Learning!TypeOK
<1>9. MovesAreJudged
  BY <1>6, <1>7 DEF MovesAreJudged
<1>10. Learning!ValidationIsEarned
  BY LearningCounts, <1>1 DEF Learning!ValidationIsEarned, Learning!Recorded
<1>11. QED BY <1>5, <1>6, <1>8, <1>9, <1>10 DEF LearningInv

LEMMA LearningKept == ASSUME LearningInv, [Learning!Next]_Learning!vars PROVE LearningInv'
<1>0. /\ learning \in Learning!Learnings /\ draft \in [Draft -> {"none", "CANDIDATE", "REJECTED"}]
      /\ tending \in [Worker -> Learning!Tending]
      /\ overruled = FALSE /\ doubled \in BOOLEAN /\ crowded \in BOOLEAN
      /\ learningCalls \in 0 .. MaxLearningCalls /\ learningCrashes \in 0 .. MaxLearningCrashes
      /\ MaxLearningCalls \in Nat /\ MaxLearningCrashes \in Nat
  BY ServicesAssumption DEF LearningInv, Learning!TypeOK
<1>f. Learning!Free \in Learning!Tending /\ Learning!Free.at = "idle"
  BY DEF Learning!Free, Learning!Tending, Learning!Stages, Learning!Moves
<1>r. ASSUME NEW w \in Worker, NEW c \in Learning!Tending, Learning!Goes(w, c), UNCHANGED <<learning, overruled, doubled>>,
             c.at = "move" /\ c.current => Learning!MayMove(c.target),
             draft' \in [Draft -> {"none", "CANDIDATE", "REJECTED"}], crowded' \in BOOLEAN,
             learningCalls' \in 0 .. MaxLearningCalls, learningCrashes' \in 0 .. MaxLearningCrashes
      PROVE  LearningInv'
  <2>1. tending' \in [Worker -> Learning!Tending] /\ MovesAreJudged'
    BY <1>r, LearningRests
  <2>2. CountsAreFounded' /\ Learning!ValidationIsEarned'
    BY LearningCounts, <1>r DEF LearningInv, CountsAreFounded, Learning!ValidationIsEarned
  <2>3. Learning!TypeOK'
    BY <1>0, <1>r, <2>1 DEF Learning!TypeOK
  <2>4. QED BY <1>0, <1>r, <2>1, <2>2, <2>3 DEF LearningInv
<1>1. ASSUME NEW w \in Worker, Learning!BeginEvidence(w) PROVE LearningInv'
  <2>1. [Learning!Free EXCEPT !.at = "evidence", !.current = TRUE] \in Learning!Tending
    BY DEF Learning!Free, Learning!Tending, Learning!Stages, Learning!Moves
  <2>2. [Learning!Free EXCEPT !.at = "evidence", !.current = TRUE].at = "evidence"
    BY DEF Learning!Free
  <2>3. learningCalls' \in 0 .. MaxLearningCalls
    BY <1>0, <1>1 DEF Learning!BeginEvidence, Learning!Counted
  <2>4. QED BY <1>0, <1>r, <1>1, <2>1, <2>2, <2>3 DEF Learning!BeginEvidence
<1>2. ASSUME NEW w \in Worker, NEW batch \in Batches, NEW contradicts \in BOOLEAN,
             Learning!SaveEvidence(w, batch, contradicts)
      PROVE  LearningInv'
  <2> DEFINE new == Learning!Named(batch) \ learning.refs
  <2>1. /\ UNCHANGED <<draft, overruled, crowded, learningCalls, learningCrashes>>
        /\ doubled' = (doubled \/ \E r \in new : batch[r] > 1)
    BY <1>2 DEF Learning!SaveEvidence
  <2>2. CASE new = {}
    <3>1. Learning!Goes(w, Learning!Free) /\ UNCHANGED learning
      BY <1>2, <2>2 DEF Learning!SaveEvidence
    <3>2. doubled' = doubled
      BY <1>0, <2>1, <2>2
    <3>3. QED BY <1>0, <1>f, <1>r, <2>1, <3>1, <3>2
  <2>3. CASE new # {}
    <3>1. PICK l : Learning!Saved(w, l, Learning!Free)
      BY <1>2, <2>3 DEF Learning!SaveEvidence
    <3>2. tending' \in [Worker -> Learning!Tending] /\ MovesAreJudged'
      BY <1>f, <3>1, LearningSaved
    <3>3. learning' \in Learning!Learnings /\ CountsAreFounded' /\ Learning!ValidationIsEarned'
      BY <1>2, <2>3, EvidenceKeeps
    <3>4. doubled' \in BOOLEAN
      <4> HIDE DEF new
      <4> QED BY <1>0, <2>1
    <3>5. QED BY <1>0, <2>1, <3>2, <3>3, <3>4 DEF LearningInv, Learning!TypeOK
  <2>4. QED BY <2>2, <2>3
<1>3. ASSUME NEW w \in Worker, NEW target \in DOMAIN Learning!Moves, Learning!MoveByHand(w, target) PROVE LearningInv'
  <2> DEFINE c == [Learning!Free EXCEPT !.at = "move", !.target = target, !.current = TRUE]
  <2>1. c \in Learning!Tending /\ c.target = target
    BY DEF Learning!Free, Learning!Tending, Learning!Stages
  <2>2. crowded' \in BOOLEAN
    BY <1>0, <1>3 DEF Learning!MoveByHand
  <2>3. Learning!Goes(w, c) /\ Learning!MayMove(target) /\ UNCHANGED <<learning, draft, overruled, doubled, learningCalls, learningCrashes>>
    BY <1>3 DEF Learning!MoveByHand
  <2> HIDE DEF c
  <2>4. QED BY <1>0, <1>r, <2>1, <2>2, <2>3
<1>4. ASSUME NEW w \in Worker, Learning!LoadToMove(w) PROVE LearningInv'
  <2> DEFINE c == [tending[w] EXCEPT !.at = "move", !.current = TRUE]
  <2>1. c \in Learning!Tending /\ c.target = tending[w].target
    BY <1>0 DEF Learning!Tending, Learning!Stages
  <2>2. Learning!Goes(w, c) /\ Learning!MayMove(tending[w].target) /\ UNCHANGED <<learning, draft, overruled, doubled, crowded, learningCalls, learningCrashes>>
    BY <1>4 DEF Learning!LoadToMove
  <2> HIDE DEF c
  <2>3. QED BY <1>0, <1>r, <2>1, <2>2
<1>5. ASSUME NEW w \in Worker, Learning!Move(w) PROVE LearningInv'
  <2> DEFINE target == tending[w].target
             l == [learning EXCEPT !.status = target]
  <2>1. target \in DOMAIN Learning!Moves /\ Learning!MayMove(target)
    BY <1>0, <1>5 DEF Learning!Move, LearningInv, MovesAreJudged, Learning!Tending
  <2>2. Learning!Saved(w, l, Learning!Free)
    BY <1>5 DEF Learning!Move
  <2>3. /\ l \in Learning!Learnings /\ l.status = target /\ l.refs = learning.refs
        /\ l.controlled = learning.controlled /\ l.confirmed = learning.confirmed
        /\ l.observations = learning.observations
    <3> HIDE DEF target
    <3> QED BY <1>0, <2>1 DEF Learning!Learnings
  <2>4. learning' = l /\ tending' \in [Worker -> Learning!Tending] /\ MovesAreJudged'
    <3> HIDE DEF l
    <3> QED BY <1>f, <2>2, LearningSaved
  <2>5. /\ UNCHANGED <<draft, doubled, crowded, learningCalls, learningCrashes>>
        /\ overruled' = (overruled \/ (target = "VALIDATED_LEARNING" /\ learning.contradictions > 0))
    BY <1>5 DEF Learning!Move
  <2>6. overruled' = FALSE
    <3>1. target = "VALIDATED_LEARNING" => learning.contradictions = 0
      BY <2>1 DEF Learning!MayMove
    <3>2. ~(target = "VALIDATED_LEARNING" /\ learning.contradictions > 0)
      BY <3>1
    <3> HIDE DEF target
    <3>3. QED BY <1>0, <2>5, <3>2
  <2>7. CountsAreFounded'
    <3> HIDE DEF l
    <3> QED BY <2>3, <2>4, <2>5 DEF LearningInv, CountsAreFounded
  <2>8. Learning!ValidationIsEarned'
    <3> DEFINE Earned == \/ Learning!OfClass(learning.refs, {"controlled", "confirmation"}) # {}
                         \/ Cardinality(Learning!OfClass(learning.refs, Learning!Observational)) >= 3
                         \/ doubled
    <3> SUFFICES ASSUME target \in {"VALIDATED_LEARNING", "STRATEGY_CANDIDATE", "PROMOTED"} PROVE Earned
      BY LearningCounts, <2>3, <2>4, <2>5 DEF Learning!ValidationIsEarned
    <3>1. CASE target = "VALIDATED_LEARNING"
      <4>1. learning.controlled >= 1 \/ learning.observations >= 3 \/ learning.confirmed
        BY <2>1, <3>1 DEF Learning!MayMove
      <4>2. Learning!OfClass(learning.refs, {"controlled"}) \subseteq Learning!OfClass(learning.refs, {"controlled", "confirmation"})
        BY DEF Learning!OfClass
      <4>3. Learning!OfClass(learning.refs, {"confirmation"}) \subseteq Learning!OfClass(learning.refs, {"controlled", "confirmation"})
        BY DEF Learning!OfClass
      <4>4. learning.observations \in Nat /\ Cardinality(Learning!OfClass(learning.refs, Learning!Observational)) \in Nat
        BY <1>0, OfClassFinite DEF Learning!Learnings
      <4>5. QED BY <4>1, <4>2, <4>3, <4>4 DEF LearningInv, CountsAreFounded
    <3>2. CASE target \in {"STRATEGY_CANDIDATE", "PROMOTED"}
      <4>1. target \in Learning!Moves[learning.status] /\ learning.status \in DOMAIN Learning!Moves
        BY <1>0, <2>1 DEF Learning!MayMove, Learning!Learnings
      <4>2. learning.status \in {"VALIDATED_LEARNING", "STRATEGY_CANDIDATE", "PROMOTED"}
        <5> HIDE DEF target
        <5> QED BY <3>2, <4>1 DEF Learning!Moves
      <4>3. QED BY LearningCounts, <4>2 DEF LearningInv, Learning!ValidationIsEarned
    <3>3. QED BY <3>1, <3>2
  <2>9. QED
    <3> HIDE DEF l
    <3> QED BY <1>0, <2>3, <2>4, <2>5, <2>6, <2>7, <2>8 DEF LearningInv, Learning!TypeOK
<1>6. ASSUME NEW w \in Worker, Learning!Derive(w) PROVE LearningInv'
  <2> DEFINE c == [Learning!Free EXCEPT !.at = "derive", !.current = TRUE]
  <2>1. c \in Learning!Tending /\ c.at = "derive"
    BY DEF Learning!Free, Learning!Tending, Learning!Stages, Learning!Moves
  <2>2. learningCalls' \in 0 .. MaxLearningCalls
    BY <1>0, <1>6 DEF Learning!Derive, Learning!Counted
  <2>3. crowded' \in BOOLEAN
    BY <1>0, <1>6 DEF Learning!Derive
  <2>4. QED BY <1>0, <1>r, <1>6, <2>1, <2>2, <2>3 DEF Learning!Derive
<1>7. ASSUME NEW w \in Worker, NEW d \in Draft, Learning!CreateDraft(w, d) PROVE LearningInv'
  <2> DEFINE c == [tending[w] EXCEPT !.at = "name", !.draft = d]
  <2>1. c \in Learning!Tending /\ c.at = "name"
    BY <1>0 DEF Learning!Tending, Learning!Stages
  <2>2. Learning!Goes(w, c) /\ UNCHANGED <<learning, overruled, doubled, crowded, learningCalls, learningCrashes>>
    BY <1>7 DEF Learning!CreateDraft
  <2>3. draft' \in [Draft -> {"none", "CANDIDATE", "REJECTED"}]
    BY <1>0, <1>7 DEF Learning!CreateDraft
  <2> HIDE DEF c
  <2>4. QED BY <1>0, <1>r, <2>1, <2>2, <2>3
<1>8. ASSUME NEW w \in Worker, Learning!NameDraft(w) PROVE LearningInv'
  <2> DEFINE c == [tending[w] EXCEPT !.at = "load", !.target = "STRATEGY_CANDIDATE", !.current = FALSE]
             l == [learning EXCEPT !.strategy = tending[w].draft]
  <2>1. c \in Learning!Tending /\ c.at = "load"
    BY <1>0 DEF Learning!Tending, Learning!Stages, Learning!Moves
  <2>2. Learning!Saved(w, l, c) /\ UNCHANGED <<draft, overruled, doubled, crowded, learningCalls, learningCrashes>>
    BY <1>8 DEF Learning!NameDraft
  <2>3. /\ l \in Learning!Learnings /\ l.status = learning.status /\ l.refs = learning.refs
        /\ l.controlled = learning.controlled /\ l.confirmed = learning.confirmed
        /\ l.observations = learning.observations
    <3>1. tending[w].draft \in Draft \cup {None}
      BY <1>0 DEF Learning!Tending
    <3>2. QED BY <1>0, <3>1 DEF Learning!Learnings
  <2> HIDE DEF c, l
  <2>4. learning' = l /\ tending' \in [Worker -> Learning!Tending] /\ MovesAreJudged'
    BY <2>1, <2>2, LearningSaved
  <2>5. CountsAreFounded' /\ Learning!ValidationIsEarned'
    BY LearningCounts, <2>2, <2>3, <2>4 DEF LearningInv, CountsAreFounded, Learning!ValidationIsEarned
  <2>6. QED BY <1>0, <2>2, <2>3, <2>4, <2>5 DEF LearningInv, Learning!TypeOK
<1>9. ASSUME NEW w \in Worker, Learning!RejectDraft(w) PROVE LearningInv'
  <2>1. draft' \in [Draft -> {"none", "CANDIDATE", "REJECTED"}]
    BY <1>0, <1>9 DEF Learning!RejectDraft
  <2>2. QED BY <1>0, <1>f, <1>r, <1>9, <2>1 DEF Learning!RejectDraft
<1>10. ASSUME NEW w \in Worker, Learning!Refuse(w) PROVE LearningInv'
  <2> DEFINE c == IF tending[w].at \in {"load", "move"} /\ tending[w].draft # None
                  THEN [tending[w] EXCEPT !.at = "reject"] ELSE Learning!Free
  <2>1. c \in Learning!Tending /\ c.at # "move"
    BY <1>0, <1>f DEF Learning!Tending, Learning!Stages
  <2>2. Learning!Goes(w, c) /\ UNCHANGED <<learning, draft, overruled, doubled, crowded, learningCalls, learningCrashes>>
    BY <1>10 DEF Learning!Refuse
  <2> HIDE DEF c
  <2>3. QED BY <1>0, <1>r, <2>1, <2>2
<1>11. ASSUME NEW w \in Worker, Learning!Die(w) PROVE LearningInv'
  <2>1. learningCrashes' \in 0 .. MaxLearningCrashes
    BY <1>0, <1>11 DEF Learning!Die
  <2>2. QED BY <1>0, <1>f, <1>r, <1>11, <2>1 DEF Learning!Die
<1>12. CASE UNCHANGED Learning!vars
  <2>1. UNCHANGED <<learning, draft, tending, overruled, doubled, crowded, learningCalls, learningCrashes>>
    BY <1>12 DEF Learning!vars
  <2>2. \A target : Learning!MayMove(target)' <=> Learning!MayMove(target)
    BY <2>1 DEF Learning!MayMove
  <2>3. QED
    BY LearningCounts, <2>1, <2>2 DEF LearningInv, Learning!TypeOK, CountsAreFounded,
       MovesAreJudged, Learning!Untouched, Learning!ValidationIsEarned
<1>13. QED
  BY <1>1, <1>2, <1>3, <1>4, <1>5, <1>6, <1>7, <1>8, <1>9, <1>10, <1>11, <1>12 DEF Learning!Next

-----------------------------------------------------------------------------

\* Who derives does so alone, has made the strategy it is about to name, and has
\* named it when it asks for the last move; while the learning is a strategy
\* candidate nobody derives.
DerivationInv == ~crowded =>
  /\ \A v, w \in Learning!Deriving : v = w
  /\ \A w \in Worker :
       /\ tending[w].at \in {"name", "load"} => tending[w].draft # None
       /\ tending[w].at = "move" /\ tending[w].target = "STRATEGY_CANDIDATE" => tending[w].draft # None
       /\ tending[w].at \in {"name", "load", "move"} /\ tending[w].draft # None =>
            draft[tending[w].draft] = "CANDIDATE"
       /\ tending[w].at \in {"load", "move"} /\ tending[w].draft # None =>
            learning.strategy = tending[w].draft
  /\ learning.status = "STRATEGY_CANDIDATE" =>
       Learning!Deriving = {} /\ learning.strategy # None /\ draft[learning.strategy] = "CANDIDATE"

\* A step of one worker leaves the others where they are.
LEMMA OneTends ==
  ASSUME LearningInv, NEW w \in Worker, NEW c \in Learning!Tending,
         Learning!Goes(w, c) \/ \E l : Learning!Saved(w, l, c)
  PROVE  /\ tending'[w] = c
         /\ \A v \in Worker : v # w =>
              /\ tending'[v].at = tending[v].at /\ tending'[v].target = tending[v].target
              /\ tending'[v].draft = tending[v].draft
<1>1. tending \in [Worker -> Learning!Tending]
  BY DEF LearningInv, Learning!TypeOK
<1>2. CASE Learning!Goes(w, c)
  BY <1>1, <1>2 DEF Learning!Goes
<1>3. CASE \E l : Learning!Saved(w, l, c)
  <2>1. \A v \in Worker : tending'[v] = IF v = w THEN c ELSE [tending[v] EXCEPT !.current = FALSE]
    BY <1>3 DEF Learning!Saved
  <2>2. ASSUME NEW v \in Worker, v # w
        PROVE  /\ tending'[v].at = tending[v].at /\ tending'[v].target = tending[v].target
               /\ tending'[v].draft = tending[v].draft
    <3>1. PICK t \in Learning!Tending : t = tending[v]
      BY <1>1
    <3>2. tending'[v] = [t EXCEPT !.current = FALSE]
      BY <2>1, <2>2, <3>1
    <3>3. QED BY <3>1, <3>2 DEF Learning!Tending
  <2>3. QED BY <2>1, <2>2
<1>4. QED BY <1>2, <1>3

LEMMA DerivationStarts == Learning!Init => DerivationInv
<1> SUFFICES ASSUME Learning!Init PROVE DerivationInv
  OBVIOUS
<1>1. \A w \in Worker : tending[w].at = "idle" /\ tending[w].draft = None
  BY DEF Learning!Init, Learning!Free
<1>2. Learning!Deriving = {} /\ learning.status = "OBSERVATION"
  BY LearningCounts, <1>1 DEF Learning!Deriving, Learning!Init, Learning!Recorded
<1>3. QED BY <1>1, <1>2 DEF DerivationInv

LEMMA DerivationKept ==
  ASSUME LearningInv, DerivationInv, [Learning!Next]_Learning!vars PROVE DerivationInv'
<1>0. /\ learning \in Learning!Learnings /\ draft \in [Draft -> {"none", "CANDIDATE", "REJECTED"}]
      /\ tending \in [Worker -> Learning!Tending] /\ crowded \in BOOLEAN
  BY DEF LearningInv, Learning!TypeOK
<1>f. Learning!Free \in Learning!Tending /\ Learning!Free.at = "idle" /\ Learning!Free.draft = None
  BY DEF Learning!Free, Learning!Tending, Learning!Stages, Learning!Moves
<1>n. None \notin Draft
  BY ServicesAssumption
<1>s. SUFFICES ASSUME ~crowded' PROVE DerivationInv'
  BY DEF DerivationInv
\* A step of w that derives nothing.
<1>r. ASSUME NEW w \in Worker, NEW c \in Learning!Tending, Learning!Goes(w, c) \/ \E l : Learning!Saved(w, l, c), ~crowded,
             c.draft = None, c.at \in {"idle", "evidence", "move"},
             c.at = "move" => c.target # "STRATEGY_CANDIDATE",
             UNCHANGED draft, learning'.strategy = learning.strategy,
             learning'.status = "STRATEGY_CANDIDATE" => learning.status = "STRATEGY_CANDIDATE"
      PROVE  DerivationInv'
  <2>1. /\ tending'[w] = c
        /\ \A v \in Worker : v # w =>
              /\ tending'[v].at = tending[v].at /\ tending'[v].target = tending[v].target
              /\ tending'[v].draft = tending[v].draft
    BY <1>r, OneTends
  <2>2. Learning!Deriving' \subseteq Learning!Deriving
    BY <1>r, <2>1 DEF Learning!Deriving
  <2>3. QED BY <1>r, <2>1, <2>2 DEF DerivationInv
\* A step of w that derives, alone.
<1>d. ASSUME NEW w \in Worker, NEW c \in Learning!Tending, Learning!Goes(w, c) \/ \E l : Learning!Saved(w, l, c), ~crowded,
             Learning!Deriving \subseteq {w}, c.at \in {"derive", "name", "load", "move", "reject"},
             c.at \in {"name", "load", "move"} => c.draft # None /\ draft'[c.draft] = "CANDIDATE",
             c.at \in {"load", "move"} => learning'.strategy = c.draft,
             learning'.status # "STRATEGY_CANDIDATE"
      PROVE  DerivationInv'
  <2>1. /\ tending'[w] = c
        /\ \A v \in Worker : v # w =>
              /\ tending'[v].at = tending[v].at /\ tending'[v].target = tending[v].target
              /\ tending'[v].draft = tending[v].draft
    BY <1>d, OneTends
  <2>2. \A v \in Worker : v # w => v \notin Learning!Deriving
    BY <1>d
  <2>3. Learning!Deriving' \subseteq {w}
    BY <2>1, <2>2 DEF Learning!Deriving
  <2>4. \A v \in Worker : v # w => tending'[v].draft = None /\ tending'[v].at # "name"
    BY <2>1, <2>2 DEF Learning!Deriving
  <2>5. \A v \in Worker : v # w =>
          /\ tending'[v].at # "load"
          /\ ~(tending'[v].at = "move" /\ tending'[v].target = "STRATEGY_CANDIDATE")
    BY <1>d, <2>1, <2>4 DEF DerivationInv
  <2>6. QED BY <1>d, <2>1, <2>3, <2>4, <2>5 DEF DerivationInv
\* Who derives is the only one, and the learning is no candidate yet.
<1>a. ASSUME NEW w \in Worker, w \in Learning!Deriving, ~crowded
      PROVE  Learning!Deriving \subseteq {w} /\ learning.status # "STRATEGY_CANDIDATE"
  BY <1>a DEF DerivationInv
<1>1. ASSUME NEW w \in Worker, Learning!BeginEvidence(w) PROVE DerivationInv'
  <2> DEFINE c == [Learning!Free EXCEPT !.at = "evidence", !.current = TRUE]
  <2>1. c \in Learning!Tending /\ c.at = "evidence" /\ c.draft = None
    BY DEF Learning!Free, Learning!Tending, Learning!Stages, Learning!Moves
  <2>2. Learning!Goes(w, c) /\ UNCHANGED <<learning, draft, crowded>>
    BY <1>1 DEF Learning!BeginEvidence
  <2> HIDE DEF c
  <2>3. QED BY <1>r, <1>s, <2>1, <2>2
<1>2. ASSUME NEW w \in Worker, NEW batch \in Batches, NEW contradicts \in BOOLEAN,
             Learning!SaveEvidence(w, batch, contradicts)
      PROVE  DerivationInv'
  <2>1. /\ Learning!Goes(w, Learning!Free) \/ \E l : Learning!Saved(w, l, Learning!Free)
        /\ UNCHANGED <<draft, crowded>>
    BY <1>2 DEF Learning!SaveEvidence
  <2>2. learning'.strategy = learning.strategy /\ learning'.status = learning.status
    <3> DEFINE new == Learning!Named(batch) \ learning.refs
               a == learning.refs \cup new
               b == learning.observations + Learning!Entries(batch, new, Learning!Observational)
               e == learning.controlled + Learning!Entries(batch, new, {"controlled"})
               f == IF contradicts THEN learning.contradictions + Learning!Entries(batch, new, Learning!Classes) ELSE learning.contradictions
               g == learning.confirmed \/ Learning!OfClass(new, {"confirmation"}) # {}
               changed == [learning EXCEPT !.refs = @ \cup new,
                             !.observations = @ + Learning!Entries(batch, new, Learning!Observational),
                             !.controlled = @ + Learning!Entries(batch, new, {"controlled"}),
                             !.contradictions = IF contradicts THEN @ + Learning!Entries(batch, new, Learning!Classes) ELSE @,
                             !.confirmed = @ \/ Learning!OfClass(new, {"confirmation"}) # {}]
    <3>1. learning' = learning \/ learning' = changed
      <4> HIDE DEF changed
      <4> QED BY <1>2 DEF Learning!SaveEvidence, Learning!Saved, changed
    <3>2. changed = [learning EXCEPT !.refs = a, !.observations = b, !.controlled = e,
                                     !.contradictions = f, !.confirmed = g]
      BY <1>0 DEF Learning!Learnings
    <3>3. changed.strategy = learning.strategy /\ changed.status = learning.status
      <4> HIDE DEF new, a, b, e, f, g
      <4>1. [learning EXCEPT !.refs = a, !.observations = b, !.controlled = e,
                             !.contradictions = f, !.confirmed = g].strategy = learning.strategy
        BY <1>0 DEF Learning!Learnings
      <4>2. [learning EXCEPT !.refs = a, !.observations = b, !.controlled = e,
                             !.contradictions = f, !.confirmed = g].status = learning.status
        BY <1>0 DEF Learning!Learnings
      <4> HIDE DEF changed
      <4>3. QED BY <3>2, <4>1, <4>2
    <3> HIDE DEF changed
    <3>4. QED BY <3>1, <3>3
  <2>3. QED BY <1>f, <1>r, <1>s, <2>1, <2>2
<1>3. ASSUME NEW w \in Worker, NEW target \in DOMAIN Learning!Moves, Learning!MoveByHand(w, target) PROVE DerivationInv'
  <2> DEFINE c == [Learning!Free EXCEPT !.at = "move", !.target = target, !.current = TRUE]
  <2>1. c \in Learning!Tending /\ c.at = "move" /\ c.draft = None /\ c.target = target
    BY DEF Learning!Free, Learning!Tending, Learning!Stages
  <2>2. Learning!Goes(w, c) /\ UNCHANGED <<learning, draft>>
    BY <1>3 DEF Learning!MoveByHand
  <2>3. ~crowded /\ target # "STRATEGY_CANDIDATE"
    BY <1>3, <1>s, <1>0 DEF Learning!MoveByHand
  <2> HIDE DEF c
  <2>4. QED BY <1>r, <2>1, <2>2, <2>3
<1>4. ASSUME NEW w \in Worker, Learning!LoadToMove(w) PROVE DerivationInv'
  <2> DEFINE c == [tending[w] EXCEPT !.at = "move", !.current = TRUE]
  <2>1. c \in Learning!Tending /\ c.at = "move" /\ c.draft = tending[w].draft
    BY <1>0 DEF Learning!Tending, Learning!Stages
  <2>2. Learning!Goes(w, c) /\ UNCHANGED <<learning, draft, crowded>> /\ tending[w].at = "load"
    BY <1>4 DEF Learning!LoadToMove
  <2>3. ~crowded /\ tending[w].draft # None /\ draft[tending[w].draft] = "CANDIDATE" /\ learning.strategy = tending[w].draft
    BY <1>s, <2>2 DEF DerivationInv
  <2>4. w \in Learning!Deriving
    BY <2>3 DEF Learning!Deriving
  <2> HIDE DEF c
  <2>5. QED BY <1>a, <1>d, <2>1, <2>2, <2>3, <2>4
<1>5. ASSUME NEW w \in Worker, Learning!Move(w) PROVE DerivationInv'
  <2>1. /\ tending[w].at = "move" /\ Learning!Saved(w, [learning EXCEPT !.status = tending[w].target], Learning!Free)
        /\ UNCHANGED <<draft, crowded>>
    BY <1>5 DEF Learning!Move
  <2>2. learning'.strategy = learning.strategy /\ learning'.status = tending[w].target
    BY <1>0, <2>1 DEF Learning!Saved, Learning!Learnings
  <2>3. CASE tending[w].target # "STRATEGY_CANDIDATE"
    BY <1>f, <1>r, <1>s, <2>1, <2>2, <2>3
  <2>4. CASE tending[w].target = "STRATEGY_CANDIDATE"
    <3>1. /\ ~crowded /\ tending[w].draft # None /\ draft[tending[w].draft] = "CANDIDATE"
          /\ learning.strategy = tending[w].draft
      BY <1>s, <2>1, <2>4 DEF DerivationInv
    <3>2. w \in Learning!Deriving /\ Learning!Deriving \subseteq {w}
      BY <1>a, <3>1 DEF Learning!Deriving
    <3>3. /\ tending'[w] = Learning!Free
          /\ \A v \in Worker : v # w =>
                /\ tending'[v].at = tending[v].at /\ tending'[v].target = tending[v].target
                /\ tending'[v].draft = tending[v].draft
      BY <1>f, <2>1, OneTends
    <3>4. Learning!Deriving' = {}
      BY <1>f, <3>2, <3>3 DEF Learning!Deriving
    <3>5. \A v \in Worker : v # w => v \notin Learning!Deriving
      BY <3>2
    <3>6. \A v \in Worker : /\ tending'[v].draft = None /\ tending'[v].at \notin {"name", "load"}
                            /\ ~(tending'[v].at = "move" /\ tending'[v].target = "STRATEGY_CANDIDATE")
      BY <1>f, <3>1, <3>3, <3>5 DEF Learning!Deriving, DerivationInv
    <3>7. QED BY <2>1, <2>2, <3>1, <3>4, <3>6 DEF DerivationInv
  <2>5. QED BY <2>3, <2>4
<1>6. ASSUME NEW w \in Worker, Learning!Derive(w) PROVE DerivationInv'
  <2> DEFINE c == [Learning!Free EXCEPT !.at = "derive", !.current = TRUE]
  <2>1. c \in Learning!Tending /\ c.at = "derive"
    BY DEF Learning!Free, Learning!Tending, Learning!Stages, Learning!Moves
  <2>2. Learning!Goes(w, c) /\ UNCHANGED <<learning, draft>> /\ learning.status = "VALIDATED_LEARNING"
    BY <1>6 DEF Learning!Derive
  <2>3. ~crowded /\ Learning!Deriving = {}
    BY <1>6, <1>s, <1>0 DEF Learning!Derive
  <2> HIDE DEF c
  <2>4. QED BY <1>d, <2>1, <2>2, <2>3
<1>7. ASSUME NEW w \in Worker, NEW d \in Draft, Learning!CreateDraft(w, d) PROVE DerivationInv'
  <2> DEFINE c == [tending[w] EXCEPT !.at = "name", !.draft = d]
  <2>1. c \in Learning!Tending /\ c.at = "name" /\ c.draft = d
    BY <1>0 DEF Learning!Tending, Learning!Stages
  <2>2. Learning!Goes(w, c) /\ UNCHANGED <<learning, crowded>> /\ draft' = [draft EXCEPT ![d] = "CANDIDATE"] /\ w \in Learning!Deriving
    BY <1>7 DEF Learning!CreateDraft, Learning!Deriving
  <2>3. draft'[d] = "CANDIDATE" /\ d # None
    BY <1>0, <1>n, <2>2
  <2> HIDE DEF c
  <2>4. QED BY <1>a, <1>d, <1>s, <2>1, <2>2, <2>3
<1>8. ASSUME NEW w \in Worker, Learning!NameDraft(w) PROVE DerivationInv'
  <2> DEFINE c == [tending[w] EXCEPT !.at = "load", !.target = "STRATEGY_CANDIDATE", !.current = FALSE]
             l == [learning EXCEPT !.strategy = tending[w].draft]
  <2>1. c \in Learning!Tending /\ c.at = "load" /\ c.draft = tending[w].draft
    BY <1>0 DEF Learning!Tending, Learning!Stages, Learning!Moves
  <2>2. l.strategy = tending[w].draft /\ l.status = learning.status
    BY <1>0 DEF Learning!Learnings
  <2>3. Learning!Saved(w, l, c) /\ UNCHANGED <<draft, crowded>> /\ tending[w].at = "name" /\ w \in Learning!Deriving
    BY <1>8 DEF Learning!NameDraft, Learning!Deriving
  <2>4. learning' = l
    BY <2>3 DEF Learning!Saved
  <2>5. ~crowded /\ tending[w].draft # None /\ draft[tending[w].draft] = "CANDIDATE"
    BY <1>s, <2>3 DEF DerivationInv
  <2> HIDE DEF c, l
  <2>6. QED BY <1>a, <1>d, <2>1, <2>2, <2>3, <2>4, <2>5
<1>9. ASSUME NEW w \in Worker, Learning!RejectDraft(w) PROVE DerivationInv'
  <2>1. /\ Learning!Goes(w, Learning!Free) /\ UNCHANGED <<learning, crowded>> /\ w \in Learning!Deriving
        /\ draft' = [draft EXCEPT ![tending[w].draft] = "REJECTED"]
    BY <1>9 DEF Learning!RejectDraft, Learning!Deriving
  <2>2. ~crowded /\ Learning!Deriving \subseteq {w} /\ learning.status # "STRATEGY_CANDIDATE"
    BY <1>a, <1>s, <2>1
  <2>3. /\ tending'[w] = Learning!Free
        /\ \A v \in Worker : v # w =>
              /\ tending'[v].at = tending[v].at /\ tending'[v].target = tending[v].target
              /\ tending'[v].draft = tending[v].draft
    BY <1>f, <2>1, OneTends
  <2>4. \A v \in Worker : v # w => v \notin Learning!Deriving
    BY <2>2
  <2>5. \A v \in Worker : /\ tending'[v].draft = None /\ tending'[v].at \notin {"name", "load"}
                          /\ ~(tending'[v].at = "move" /\ tending'[v].target = "STRATEGY_CANDIDATE")
    BY <1>f, <2>2, <2>3, <2>4 DEF Learning!Deriving, DerivationInv
  <2>6. Learning!Deriving' = {}
    BY <1>f, <2>2, <2>3, <2>4 DEF Learning!Deriving
  <2>7. QED BY <2>1, <2>2, <2>5, <2>6 DEF DerivationInv
<1>10. ASSUME NEW w \in Worker, Learning!Refuse(w) PROVE DerivationInv'
  <2>1. UNCHANGED <<learning, draft, crowded>>
    BY <1>10 DEF Learning!Refuse
  <2>2. CASE Learning!Goes(w, Learning!Free)
    BY <1>f, <1>r, <1>s, <2>1, <2>2
  <2>3. CASE ~Learning!Goes(w, Learning!Free)
    <3> DEFINE c == [tending[w] EXCEPT !.at = "reject"]
    <3>1. Learning!Goes(w, c) /\ tending[w].draft # None
      BY <1>10, <2>3 DEF Learning!Refuse
    <3>2. c \in Learning!Tending /\ c.at = "reject"
      BY <1>0 DEF Learning!Tending, Learning!Stages
    <3>3. w \in Learning!Deriving
      BY <3>1 DEF Learning!Deriving
    <3> HIDE DEF c
    <3>4. QED BY <1>a, <1>d, <1>s, <2>1, <3>1, <3>2, <3>3
  <2>4. QED BY <2>2, <2>3
<1>11. ASSUME NEW w \in Worker, Learning!Die(w) PROVE DerivationInv'
  <2>1. Learning!Goes(w, Learning!Free) /\ UNCHANGED <<learning, draft, crowded>>
    BY <1>11 DEF Learning!Die
  <2>2. QED BY <1>f, <1>r, <1>s, <2>1
<1>12. CASE UNCHANGED Learning!vars
  BY <1>12, <1>s DEF Learning!vars, DerivationInv, Learning!Deriving
<1>13. QED
  BY <1>1, <1>2, <1>3, <1>4, <1>5, <1>6, <1>7, <1>8, <1>9, <1>10, <1>11, <1>12 DEF Learning!Next

LEMMA DerivationShows == DerivationInv => Learning!NamesItsStrategy
  BY DEF DerivationInv, Learning!NamesItsStrategy

(***************************************************************************)
(* Lifecycle. Who changes the registry holds its lock and has read the     *)
(* entry it replaces; while a handover or a command that takes Brain away  *)
(* runs, the other side is as it was when it began.                        *)
(***************************************************************************)

\* Whoever changes the registry holds its lock, and Brain's entry is the one it has read;
\* nobody has read edits that were not made.
ChangesAreLocked ==
  /\ \A w \in Worker : command[w].at \in {"compare", "replace"} =>
       lockFile = w /\ registry.brain = command[w].read.brain
  /\ \A w \in Worker : command[w].at = "release" => lockFile = w
  /\ \A w \in Worker : command[w].read.os <= edits
  /\ registry.os <= edits

\* Handovers and commands that take Brain away do not meet, but for those that were
\* flagged: while one of either kind runs, the other side is as it was when it began.
SidesAreApart ==
  /\ \A w \in Worker : command[w].at = "transfer" => command[w].op = "handover"
  /\ ~overlapped =>
       /\ \A w, v \in Worker : ~(command[w].op = "handover" /\ command[v].op \in {"disable", "uninstall"})
       /\ \A w \in Worker : command[w].op \in {"disable", "uninstall"} => owner = "os"
       /\ \A w \in Worker : command[w].op = "handover" => registry.brain = "enabled"

LifecycleInv ==
  /\ Lifecycle!TypeOK
  /\ ChangesAreLocked
  /\ SidesAreApart
  /\ Lifecycle!OwnerStaysEnabled /\ Lifecycle!NeverSilentlyEnabled /\ Lifecycle!OthersAreKept
  /\ Lifecycle!OneIdentity /\ (marker = Lifecycle!NoMarker => identities = 0)

-----------------------------------------------------------------------------

\* A command that goes on, begins or ends, while the registry and the owner rest.
LEMMA CommandGoes ==
  ASSUME LifecycleInv, NEW w \in Worker, NEW c \in Lifecycle!Command,
         command' = [command EXCEPT ![w] = c],
         UNCHANGED <<registry, edits, owner, silently, squeezed>>,
         lockFile' \in Worker \cup {None},
         \A v \in Worker \ {w} : command[v].at \in {"compare", "replace", "release"} => lockFile' = lockFile,
         c.at \in {"compare", "replace"} => lockFile' = w /\ registry.brain = c.read.brain,
         c.at = "release" => lockFile' = w,
         c.read.os <= edits,
         c.at = "transfer" => c.op = "handover",
         overlapped' \in BOOLEAN, overlapped => overlapped',
         \/ c.op = command[w].op
         \/ c.op \notin {"handover", "disable", "uninstall"}
         \/ /\ c.op = "handover" /\ registry.brain = "enabled"
            /\ ~overlapped' => \A v \in Worker : command[v].op \notin {"disable", "uninstall"}
         \/ /\ c.op \in {"disable", "uninstall"} /\ owner = "os"
            /\ ~overlapped' => \A v \in Worker : command[v].op # "handover"
  PROVE  /\ command' \in [Worker -> Lifecycle!Command]
         /\ ChangesAreLocked' /\ SidesAreApart'
         /\ Lifecycle!OwnerStaysEnabled' /\ Lifecycle!NeverSilentlyEnabled' /\ Lifecycle!OthersAreKept'
<1>0. command \in [Worker -> Lifecycle!Command] /\ overlapped \in BOOLEAN
  BY DEF LifecycleInv, Lifecycle!TypeOK
<1>1. \A v \in Worker : command'[v] = IF v = w THEN c ELSE command[v]
  BY <1>0
<1>2. command' \in [Worker -> Lifecycle!Command]
  BY <1>0
<1>3. ChangesAreLocked'
  BY <1>1 DEF LifecycleInv, ChangesAreLocked
<1>4. SidesAreApart'
  <2>1. \A v \in Worker : command'[v].at = "transfer" => command'[v].op = "handover"
    BY <1>1 DEF LifecycleInv, SidesAreApart
  <2>2. ASSUME ~overlapped'
        PROVE  /\ \A u, v \in Worker : ~(command'[u].op = "handover" /\ command'[v].op \in {"disable", "uninstall"})
               /\ \A v \in Worker : command'[v].op \in {"disable", "uninstall"} => owner = "os"
               /\ \A v \in Worker : command'[v].op = "handover" => registry.brain = "enabled"
    <3>1. ~overlapped
      BY <2>2
    <3>2. /\ \A u, v \in Worker : ~(command[u].op = "handover" /\ command[v].op \in {"disable", "uninstall"})
          /\ \A v \in Worker : command[v].op \in {"disable", "uninstall"} => owner = "os"
          /\ \A v \in Worker : command[v].op = "handover" => registry.brain = "enabled"
      BY <3>1 DEF LifecycleInv, SidesAreApart
    <3>3. QED BY <1>1, <2>2, <3>2
  <2>3. QED BY <2>1, <2>2 DEF SidesAreApart
<1>5. Lifecycle!OwnerStaysEnabled' /\ Lifecycle!NeverSilentlyEnabled' /\ Lifecycle!OthersAreKept'
  BY DEF LifecycleInv, Lifecycle!OwnerStaysEnabled, Lifecycle!NeverSilentlyEnabled,
     Lifecycle!OthersAreKept
<1>6. QED BY <1>2, <1>3, <1>4, <1>5

LEMMA LifecycleStarts == ASSUME Lifecycle!Init PROVE LifecycleInv
<1>0. MaxCommands \in Nat /\ MaxCommandCrashes \in Nat /\ MaxEdits \in Nat
  BY ServicesAssumption
<1>1. PICK old \in BOOLEAN :
        /\ registry = [brain |-> IF old THEN "enabled" ELSE "absent", os |-> 0]
        /\ marker = IF old THEN [id |-> 1, package |-> "old"] ELSE Lifecycle!NoMarker
        /\ identities = IF old THEN 1 ELSE 0
  BY DEF Lifecycle!Init
<1>2. /\ edits = 0 /\ lockFile = None /\ owner = "os" /\ command = [w \in Worker |-> Lifecycle!Free]
      /\ overlapped = FALSE /\ silently = FALSE /\ squeezed = FALSE /\ unseen = 0
      /\ commands = 0 /\ commandCrashes = 0
  BY DEF Lifecycle!Init
<1>3. 0 \in 0 .. MaxEdits /\ 0 \in 0 .. MaxCommands /\ 0 \in 0 .. MaxCommandCrashes
  BY <1>0
<1>4. Lifecycle!Free \in Lifecycle!Command /\ Lifecycle!Free.at = "idle" /\ Lifecycle!Free.op = "none" /\ Lifecycle!Free.read.os = 0
  BY <1>3 DEF Lifecycle!Free, Lifecycle!Command, Lifecycle!Registry, Lifecycle!Attachment
<1>5. registry \in Lifecycle!Registry /\ registry.os = 0
  BY <1>1, <1>3 DEF Lifecycle!Registry, Lifecycle!Attachment
<1>6. marker \in [id : Nat, package : {"none", "old", "current"}] /\ identities \in Nat
  BY <1>1 DEF Lifecycle!NoMarker
<1>7. Lifecycle!TypeOK
  <2>1. command \in [Worker -> Lifecycle!Command] /\ {overlapped, silently, squeezed} \subseteq BOOLEAN
    BY <1>2, <1>4
  <2>2. QED BY <1>2, <1>3, <1>5, <1>6, <2>1 DEF Lifecycle!TypeOK
<1>8. ChangesAreLocked /\ SidesAreApart
  BY <1>2, <1>4, <1>5 DEF ChangesAreLocked, SidesAreApart
<1>9. Lifecycle!OneIdentity /\ (marker = Lifecycle!NoMarker => identities = 0)
  BY <1>1, <1>2 DEF Lifecycle!OneIdentity, Lifecycle!NoMarker
<1>10. Lifecycle!OwnerStaysEnabled /\ Lifecycle!NeverSilentlyEnabled /\ Lifecycle!OthersAreKept
  BY <1>2, <1>5 DEF Lifecycle!OwnerStaysEnabled, Lifecycle!NeverSilentlyEnabled, Lifecycle!OthersAreKept
<1>11. QED BY <1>7, <1>8, <1>9, <1>10 DEF LifecycleInv

LEMMA LifecycleKept == ASSUME LifecycleInv, [Lifecycle!Next]_Lifecycle!vars PROVE LifecycleInv'
<1>0. /\ registry \in Lifecycle!Registry /\ edits \in 0 .. MaxEdits /\ lockFile \in Worker \cup {None}
      /\ marker \in [id : Nat, package : {"none", "old", "current"}] /\ identities \in Nat
      /\ owner \in {"os", "brain"} /\ command \in [Worker -> Lifecycle!Command]
      /\ overlapped \in BOOLEAN /\ silently = FALSE /\ squeezed \in BOOLEAN /\ unseen \in Nat
      /\ commands \in 0 .. MaxCommands /\ commandCrashes \in 0 .. MaxCommandCrashes
      /\ MaxCommands \in Nat /\ MaxCommandCrashes \in Nat /\ MaxEdits \in Nat
      /\ None \notin Worker
  BY ServicesAssumption DEF LifecycleInv, Lifecycle!TypeOK, Lifecycle!NeverSilentlyEnabled
<1>f. Lifecycle!Free \in Lifecycle!Command /\ Lifecycle!Free.at = "idle" /\ Lifecycle!Free.op = "none" /\ Lifecycle!Free.read.os = 0
  BY <1>0 DEF Lifecycle!Free, Lifecycle!Command, Lifecycle!Registry, Lifecycle!Attachment
<1>r. ASSUME NEW w \in Worker, NEW c \in Lifecycle!Command,
             command' = [command EXCEPT ![w] = c],
             UNCHANGED <<registry, edits, owner, silently, squeezed>>,
             lockFile' \in Worker \cup {None},
             \A v \in Worker \ {w} : command[v].at \in {"compare", "replace", "release"} => lockFile' = lockFile,
             c.at \in {"compare", "replace"} => lockFile' = w /\ registry.brain = c.read.brain,
             c.at = "release" => lockFile' = w,
             c.read.os <= edits,
             c.at = "transfer" => c.op = "handover",
             overlapped' \in BOOLEAN, overlapped => overlapped',
             \/ c.op = command[w].op
             \/ c.op \notin {"handover", "disable", "uninstall"}
             \/ /\ c.op = "handover" /\ registry.brain = "enabled"
                /\ ~overlapped' => \A v \in Worker : command[v].op \notin {"disable", "uninstall"}
             \/ /\ c.op \in {"disable", "uninstall"} /\ owner = "os"
                /\ ~overlapped' => \A v \in Worker : command[v].op # "handover",
             marker' \in [id : Nat, package : {"none", "old", "current"}] /\ identities' \in Nat,
             unseen' \in Nat, identities' <= 1 + unseen', marker' = Lifecycle!NoMarker => identities' = 0,
             commands' \in 0 .. MaxCommands, commandCrashes' \in 0 .. MaxCommandCrashes
      PROVE  LifecycleInv'
  <2>1. /\ command' \in [Worker -> Lifecycle!Command]
        /\ ChangesAreLocked' /\ SidesAreApart'
        /\ Lifecycle!OwnerStaysEnabled' /\ Lifecycle!NeverSilentlyEnabled' /\ Lifecycle!OthersAreKept'
    BY <1>r, CommandGoes
  <2>2. Lifecycle!TypeOK'
    BY <1>0, <1>r, <2>1 DEF Lifecycle!TypeOK
  <2>3. QED BY <1>r, <2>1, <2>2 DEF LifecycleInv, Lifecycle!OneIdentity
\* the same for commands that leave the lock and the marker alone too
<1>s. ASSUME NEW w \in Worker, NEW c \in Lifecycle!Command,
             command' = [command EXCEPT ![w] = c],
             UNCHANGED <<registry, edits, lockFile, marker, identities, owner, silently, squeezed, unseen>>,
             c.at \in {"compare", "replace"} => lockFile = w /\ registry.brain = c.read.brain,
             c.at = "release" => lockFile = w,
             c.read.os <= edits,
             c.at = "transfer" => c.op = "handover",
             overlapped' \in BOOLEAN, overlapped => overlapped',
             \/ c.op = command[w].op
             \/ c.op \notin {"handover", "disable", "uninstall"}
             \/ /\ c.op = "handover" /\ registry.brain = "enabled"
                /\ ~overlapped' => \A v \in Worker : command[v].op \notin {"disable", "uninstall"}
             \/ /\ c.op \in {"disable", "uninstall"} /\ owner = "os"
                /\ ~overlapped' => \A v \in Worker : command[v].op # "handover",
             commands' \in 0 .. MaxCommands, commandCrashes' \in 0 .. MaxCommandCrashes
      PROVE  LifecycleInv'
  <2>1. identities <= 1 + unseen /\ (marker = Lifecycle!NoMarker => identities = 0)
    BY DEF LifecycleInv, Lifecycle!OneIdentity
  <2>2. QED BY <1>0, <1>r, <1>s, <2>1
<1>e. \A w \in Worker : command[w].read.os <= edits /\ command[w] \in Lifecycle!Command
  BY <1>0 DEF LifecycleInv, ChangesAreLocked
\* a new command at its first stage
<1>b. ASSUME NEW w \in Worker, NEW op \in Lifecycle!Op, NEW stage \in {"attach", "initialize", "refresh", "transfer"},
             Lifecycle!Begins(w, op, stage)
      PROVE  /\ commands' \in 0 .. MaxCommands
             /\ \E c \in Lifecycle!Command : /\ command' = [command EXCEPT ![w] = c]
                                  /\ c.op = op /\ c.at = stage /\ c.read.os <= edits
  <2>1. commands' \in 0 .. MaxCommands
    BY <1>0, <1>b DEF Lifecycle!Begins
  <2>2. [Lifecycle!Free EXCEPT !.op = op, !.at = stage] \in Lifecycle!Command
    BY <1>f DEF Lifecycle!Command, Lifecycle!Op
  <2>3. [Lifecycle!Free EXCEPT !.op = op, !.at = stage].read.os <= edits
    BY <1>0 DEF Lifecycle!Free
  <2>4. [Lifecycle!Free EXCEPT !.op = op, !.at = stage].op = op /\ [Lifecycle!Free EXCEPT !.op = op, !.at = stage].at = stage
    BY DEF Lifecycle!Free
  <2>5. command' = [command EXCEPT ![w] = [Lifecycle!Free EXCEPT !.op = op, !.at = stage]]
    BY <1>b DEF Lifecycle!Begins
  <2>6. QED BY <2>1, <2>2, <2>3, <2>4, <2>5
\* a command that goes on
<1>g. ASSUME NEW w \in Worker, NEW stage \in {"attach", "compare", "replace", "release", "initialize", "mark", "refresh", "transfer"},
             Lifecycle!Goes(w, stage)
      PROVE  \E c \in Lifecycle!Command : /\ command' = [command EXCEPT ![w] = c]
                               /\ c.op = command[w].op /\ c.at = stage /\ c.read = command[w].read
  <2>1. [command[w] EXCEPT !.at = stage] \in Lifecycle!Command
    BY <1>0 DEF Lifecycle!Command
  <2>2. /\ [command[w] EXCEPT !.at = stage].op = command[w].op
        /\ [command[w] EXCEPT !.at = stage].at = stage
        /\ [command[w] EXCEPT !.at = stage].read = command[w].read
    BY <1>0 DEF Lifecycle!Command
  <2>3. command' = [command EXCEPT ![w] = [command[w] EXCEPT !.at = stage]]
    BY <1>0, <1>g DEF Lifecycle!Goes
  <2>4. QED BY <2>1, <2>2, <2>3
<1>i. ASSUME NEW w \in Worker, Lifecycle!Goes(w, "idle")
      PROVE  command' = [command EXCEPT ![w] = Lifecycle!Free]
  BY <1>i DEF Lifecycle!Goes
<1>1. ASSUME NEW w \in Worker, Lifecycle!Setup(w) PROVE LifecycleInv'
  <2> DEFINE stage == IF registry.brain = "absent" THEN "attach" ELSE "initialize"
  <2>1. Lifecycle!Begins(w, "setup", stage) /\ stage \in {"attach", "initialize"} /\ "setup" \in Lifecycle!Op
    BY <1>1 DEF Lifecycle!Setup, Lifecycle!Op
  <2>2. UNCHANGED <<registry, edits, lockFile, marker, identities, owner, overlapped, silently, squeezed, unseen, commandCrashes>>
    BY <1>1 DEF Lifecycle!Setup
  <2> HIDE DEF stage
  <2>p. PICK c \in Lifecycle!Command : /\ command' = [command EXCEPT ![w] = c]
                            /\ c.op = "setup" /\ c.at = stage /\ c.read.os <= edits
    BY <1>b, <2>1
  <2>3. commands' \in 0 .. MaxCommands
    BY <1>b, <2>1
  <2>4. QED BY <1>0, <1>s, <2>1, <2>2, <2>3, <2>p
<1>2. ASSUME NEW w \in Worker, Lifecycle!Enable(w) PROVE LifecycleInv'
  <2>1. Lifecycle!Begins(w, "enable", "attach") /\ "enable" \in Lifecycle!Op
    BY <1>2 DEF Lifecycle!Enable, Lifecycle!Op
  <2>p. PICK c \in Lifecycle!Command : /\ command' = [command EXCEPT ![w] = c]
                            /\ c.op = "enable" /\ c.at = "attach" /\ c.read.os <= edits
    BY <1>b, <2>1
  <2>2. UNCHANGED <<registry, edits, lockFile, marker, identities, owner, overlapped, silently, squeezed, unseen, commandCrashes>>
    BY <1>2 DEF Lifecycle!Enable
  <2>3. commands' \in 0 .. MaxCommands
    BY <1>b, <2>1
  <2>4. QED BY <1>0, <1>s, <2>1, <2>2, <2>3, <2>p
<1>3. ASSUME NEW w \in Worker, Lifecycle!Update(w) PROVE LifecycleInv'
  <2> DEFINE stage == IF marker.package = "old" THEN "refresh" ELSE "attach"
  <2>1. Lifecycle!Begins(w, "update", stage) /\ stage \in {"attach", "refresh"} /\ "update" \in Lifecycle!Op
    BY <1>3 DEF Lifecycle!Update, Lifecycle!Op
  <2>2. UNCHANGED <<registry, edits, lockFile, marker, identities, owner, overlapped, silently, squeezed, unseen, commandCrashes>>
    BY <1>3 DEF Lifecycle!Update
  <2> HIDE DEF stage
  <2>p. PICK c \in Lifecycle!Command : /\ command' = [command EXCEPT ![w] = c]
                            /\ c.op = "update" /\ c.at = stage /\ c.read.os <= edits
    BY <1>b, <2>1
  <2>3. commands' \in 0 .. MaxCommands
    BY <1>b, <2>1
  <2>4. QED BY <1>0, <1>s, <2>1, <2>2, <2>3, <2>p
<1>4. ASSUME NEW w \in Worker, NEW op \in {"disable", "uninstall"}, Lifecycle!TakeAway(w, op) PROVE LifecycleInv'
  <2>1. Lifecycle!Begins(w, op, "attach") /\ op \in Lifecycle!Op /\ owner = "os"
    BY <1>4 DEF Lifecycle!TakeAway, Lifecycle!Op, Lifecycle!OwnsNothing
  <2>2. overlapped' = (overlapped \/ \E v \in Worker : command[v].op = "handover")
    BY <1>4 DEF Lifecycle!TakeAway
  <2>3. UNCHANGED <<registry, edits, lockFile, marker, identities, owner, silently, squeezed, unseen, commandCrashes>>
    BY <1>4 DEF Lifecycle!TakeAway
  <2>4. /\ overlapped' \in BOOLEAN /\ (overlapped => overlapped')
        /\ ~overlapped' => \A v \in Worker : command[v].op # "handover"
    BY <1>0, <2>2
  <2>p. PICK c \in Lifecycle!Command : /\ command' = [command EXCEPT ![w] = c]
                            /\ c.op = op /\ c.at = "attach" /\ c.read.os <= edits
    BY <1>b, <2>1
  <2>5. commands' \in 0 .. MaxCommands
    BY <1>b, <2>1
  <2>6. QED BY <1>0, <1>s, <2>1, <2>3, <2>4, <2>5, <2>p
<1>5. ASSUME NEW w \in Worker, Lifecycle!Attach(w) PROVE LifecycleInv'
  <2>1. UNCHANGED <<registry, edits, marker, identities, owner, overlapped, silently, squeezed, unseen, commands, commandCrashes>>
    BY <1>5 DEF Lifecycle!Attach
  <2>2. CASE Lifecycle!Goes(w, "idle") /\ UNCHANGED lockFile
    BY <1>0, <1>f, <1>i, <1>s, <2>1, <2>2
  <2>3. CASE /\ command' = [command EXCEPT ![w].at = "compare", ![w].read = registry]
             /\ lockFile' = w /\ lockFile = None
    <3> DEFINE c == [command[w] EXCEPT !.at = "compare", !.read = registry]
    <3>1. command' = [command EXCEPT ![w] = c]
      BY <1>0, <2>3 DEF Lifecycle!Command
    <3>2. c \in Lifecycle!Command /\ c.at = "compare" /\ c.read = registry /\ c.op = command[w].op
      BY <1>0 DEF Lifecycle!Command
    <3>3. \A v \in Worker \ {w} : command[v].at \notin {"compare", "replace", "release"}
      BY <1>0, <2>3 DEF LifecycleInv, ChangesAreLocked
    <3>4. registry.os <= edits
      BY DEF LifecycleInv, ChangesAreLocked
    <3>5. identities <= 1 + unseen /\ (marker = Lifecycle!NoMarker => identities = 0)
      BY DEF LifecycleInv, Lifecycle!OneIdentity
    <3> HIDE DEF c
    <3>6. QED BY <1>0, <1>r, <2>1, <2>3, <3>1, <3>2, <3>3, <3>4, <3>5
  <2>4. QED BY <1>5, <2>2, <2>3 DEF Lifecycle!Attach
<1>6. ASSUME NEW w \in Worker, Lifecycle!Compare(w) PROVE LifecycleInv'
  <2>1. UNCHANGED <<registry, edits, marker, identities, owner, overlapped, silently, squeezed, unseen, commands, commandCrashes>>
    BY <1>6 DEF Lifecycle!Compare
  <2>2. /\ command[w].at = "compare" /\ lockFile = w /\ registry.brain = command[w].read.brain
        /\ \A v \in Worker \ {w} : command[v].at \notin {"compare", "replace", "release"}
    BY <1>6 DEF Lifecycle!Compare, LifecycleInv, ChangesAreLocked
  <2>3. CASE Lifecycle!Goes(w, "replace") /\ UNCHANGED lockFile
    <3>p. PICK c \in Lifecycle!Command : /\ command' = [command EXCEPT ![w] = c]
                              /\ c.op = command[w].op /\ c.at = "replace" /\ c.read = command[w].read
      BY <1>g, <2>3
    <3> QED BY <1>0, <1>e, <1>s, <2>1, <2>2, <2>3, <3>p
  <2>4. CASE Lifecycle!Goes(w, "idle") /\ lockFile' = None
    <3>1. identities <= 1 + unseen /\ (marker = Lifecycle!NoMarker => identities = 0)
      BY DEF LifecycleInv, Lifecycle!OneIdentity
    <3>2. QED BY <1>0, <1>f, <1>i, <1>r, <2>1, <2>2, <2>4, <3>1
  <2>5. QED BY <1>6, <2>3, <2>4 DEF Lifecycle!Compare
<1>7. ASSUME NEW w \in Worker, Lifecycle!Replace(w) PROVE LifecycleInv'
  <2> DEFINE read == command[w].read
             entry == Lifecycle!Entry(command[w])
  <2>1. UNCHANGED <<edits, lockFile, marker, identities, owner, overlapped, unseen, commands, commandCrashes>>
    BY <1>7 DEF Lifecycle!Replace
  <2>2. /\ command[w].at = "replace" /\ lockFile = w /\ registry.brain = read.brain
        /\ \A v \in Worker \ {w} : command[v].at \notin {"compare", "replace", "release"}
    BY <1>7 DEF Lifecycle!Replace, LifecycleInv, ChangesAreLocked
  <2>3. PICK c \in Lifecycle!Command : /\ command' = [command EXCEPT ![w] = c]
                                       /\ c.op = command[w].op /\ c.at = "release" /\ c.read = command[w].read
    BY <1>7, <1>g DEF Lifecycle!Replace
  <2>4. read \in Lifecycle!Registry /\ entry \in Lifecycle!Attachment
    BY <1>0 DEF Lifecycle!Command, Lifecycle!Registry, Lifecycle!Entry, Lifecycle!Attachment
  <2>5. registry' = [read EXCEPT !.brain = entry]
    BY <1>7 DEF Lifecycle!Replace
  <2>6. registry' \in Lifecycle!Registry /\ registry'.brain = entry /\ registry'.os = read.os
    <3> HIDE DEF read, entry
    <3> QED BY <2>4, <2>5 DEF Lifecycle!Registry
  <2>7. squeezed' = (squeezed \/ registry # read)
    BY <1>7 DEF Lifecycle!Replace
  <2>8. silently' = FALSE
    <3>1. silently' = (silently \/ (registry.brain = "disabled" /\ registry'.brain = "enabled"
                                      /\ command[w].op # "enable"))
      BY <1>7 DEF Lifecycle!Replace
    <3>2. ~(registry.brain = "disabled" /\ registry'.brain = "enabled" /\ command[w].op # "enable")
      BY <2>2, <2>6 DEF Lifecycle!Entry
    <3> HIDE DEF read, entry
    <3>3. QED BY <1>0, <3>1, <3>2
  <2>9. \A v \in Worker : command'[v] = IF v = w THEN c ELSE command[v]
    BY <1>0, <2>3
  <2>10. ChangesAreLocked'
    <3>1. \A v \in Worker : /\ command'[v].at \notin {"compare", "replace"}
                            /\ command'[v].at = "release" => lockFile' = v
      BY <2>1, <2>2, <2>3, <2>9
    <3>2. read.os <= edits
      BY <1>e
    <3> HIDE DEF read, entry
    <3>3. QED BY <1>e, <2>1, <2>3, <2>6, <2>9, <3>1, <3>2 DEF ChangesAreLocked
  <2>11. ~overlapped /\ command[w].op \notin {"disable", "uninstall"} /\ registry.brain = "enabled"
           => registry'.brain = "enabled"
    BY <2>2, <2>6 DEF Lifecycle!Entry
  <2>12. SidesAreApart' /\ Lifecycle!OwnerStaysEnabled'
    <3> HIDE DEF read, entry
    <3>1. ~overlapped =>
            /\ \A u, v \in Worker : ~(command[u].op = "handover" /\ command[v].op \in {"disable", "uninstall"})
            /\ \A v \in Worker : command[v].op \in {"disable", "uninstall"} => owner = "os"
            /\ \A v \in Worker : command[v].op = "handover" => registry.brain = "enabled"
      BY DEF LifecycleInv, SidesAreApart
    <3>2. \A v \in Worker : command'[v].at = "transfer" => command'[v].op = "handover"
      BY <2>3, <2>9 DEF LifecycleInv, SidesAreApart
    <3>3. SidesAreApart'
      BY <2>1, <2>3, <2>9, <2>11, <3>1, <3>2 DEF SidesAreApart
    <3>4. Lifecycle!OwnerStaysEnabled'
      BY <2>1, <2>11, <3>1 DEF LifecycleInv, Lifecycle!OwnerStaysEnabled
    <3>5. QED BY <3>3, <3>4
  <2>13. Lifecycle!OthersAreKept'
    <3>1. squeezed' \/ read.os = edits
      BY <2>7, <1>0 DEF LifecycleInv, Lifecycle!OthersAreKept
    <3>2. QED BY <2>1, <2>6, <3>1 DEF Lifecycle!OthersAreKept
  <2>14. Lifecycle!TypeOK'
    <3>1. command' \in [Worker -> Lifecycle!Command] /\ squeezed' \in BOOLEAN
      <4> HIDE DEF read
      <4> QED BY <1>0, <2>3, <2>7
    <3> HIDE DEF read, entry
    <3>2. QED BY <1>0, <2>1, <2>6, <2>7, <2>8, <3>1 DEF Lifecycle!TypeOK
  <2>15. Lifecycle!OneIdentity' /\ (marker' = Lifecycle!NoMarker => identities' = 0)
    BY <2>1 DEF LifecycleInv, Lifecycle!OneIdentity
  <2>16. QED BY <2>8, <2>10, <2>12, <2>13, <2>14, <2>15 DEF LifecycleInv, Lifecycle!NeverSilentlyEnabled
<1>18. ASSUME NEW w \in Worker, Lifecycle!Release(w) PROVE LifecycleInv'
  <2>1. UNCHANGED <<registry, edits, marker, identities, owner, overlapped, silently, squeezed, unseen, commands,
                    commandCrashes>>
    BY <1>18 DEF Lifecycle!Release
  <2>2. /\ lockFile' = None
        /\ \A v \in Worker \ {w} : command[v].at \notin {"compare", "replace", "release"}
    BY <1>18 DEF Lifecycle!Release, LifecycleInv, ChangesAreLocked
  <2>3. identities <= 1 + unseen /\ (marker = Lifecycle!NoMarker => identities = 0)
    BY DEF LifecycleInv, Lifecycle!OneIdentity
  <2>4. CASE Lifecycle!Goes(w, "idle")
    BY <1>0, <1>f, <1>i, <1>r, <2>1, <2>2, <2>3, <2>4
  <2>5. CASE Lifecycle!Goes(w, "initialize")
    <3>p. PICK c \in Lifecycle!Command : /\ command' = [command EXCEPT ![w] = c]
                              /\ c.op = command[w].op /\ c.at = "initialize" /\ c.read = command[w].read
      BY <1>g, <2>5
    <3> QED BY <1>0, <1>e, <1>r, <2>1, <2>2, <2>3, <3>p
  <2>6. QED BY <1>18, <2>4, <2>5 DEF Lifecycle!Release
<1>8. ASSUME NEW w \in Worker, Lifecycle!Initialize(w) PROVE LifecycleInv'
  <2> DEFINE stage == CASE registry.brain = "absent" -> "attach"
                        [] Lifecycle!WriteReady(TRUE) /\ marker = Lifecycle!NoMarker -> "mark"
                        [] OTHER -> "idle"
  <2>1. Lifecycle!Goes(w, stage) /\ stage \in {"attach", "mark", "idle"}
    BY <1>8 DEF Lifecycle!Initialize, Lifecycle!WriteReady
  <2>2. UNCHANGED <<registry, edits, lockFile, marker, identities, owner, overlapped, silently, squeezed, unseen, commands, commandCrashes>>
    BY <1>8 DEF Lifecycle!Initialize
  <2> HIDE DEF stage
  <2>3. CASE stage = "idle"
    BY <1>0, <1>f, <1>i, <1>s, <2>1, <2>2, <2>3
  <2>4. CASE stage \in {"attach", "mark"}
    <3>p. PICK c \in Lifecycle!Command : /\ command' = [command EXCEPT ![w] = c]
                              /\ c.op = command[w].op /\ c.at = stage /\ c.read = command[w].read
      BY <1>g, <2>1, <2>4
    <3> QED BY <1>0, <1>e, <1>s, <2>1, <2>2, <2>4, <3>p
  <2>5. QED BY <2>1, <2>3, <2>4
<1>9. ASSUME NEW w \in Worker, Lifecycle!WriteMarker(w) PROVE LifecycleInv'
  <2>1. UNCHANGED <<registry, edits, lockFile, owner, overlapped, silently, squeezed, commands, commandCrashes>>
    BY <1>9 DEF Lifecycle!WriteMarker
  <2>2. command' = [command EXCEPT ![w] = Lifecycle!Free]
    BY <1>9, <1>i DEF Lifecycle!WriteMarker
  <2>3. marker' = [id |-> identities + 1, package |-> "current"] /\ identities' = identities + 1
    BY <1>9 DEF Lifecycle!WriteMarker
  <2>4. unseen' = IF marker = Lifecycle!NoMarker THEN unseen ELSE unseen + 1
    BY <1>9 DEF Lifecycle!WriteMarker
  <2>5. /\ marker' \in [id : Nat, package : {"none", "old", "current"}] /\ marker' # Lifecycle!NoMarker
        /\ identities' \in Nat /\ unseen' \in Nat
    BY <1>0, <2>3, <2>4 DEF Lifecycle!NoMarker
  <2>6. identities' <= 1 + unseen'
    BY <1>0, <2>3, <2>4 DEF LifecycleInv, Lifecycle!OneIdentity
  <2>7. marker' = Lifecycle!NoMarker => identities' = 0
    BY <2>5
  <2> HIDE DEF Lifecycle!NoMarker
  <2>8. UNCHANGED <<registry, edits, owner, silently, squeezed>> /\ lockFile' = lockFile
        /\ overlapped' = overlapped /\ commands' = commands /\ commandCrashes' = commandCrashes
    BY <2>1
  <2>p. PICK c \in Lifecycle!Command : /\ command' = [command EXCEPT ![w] = c]
                            /\ c.op = "none" /\ c.at = "idle" /\ c.read.os <= edits
    <3>1. Lifecycle!Free.read.os <= edits
      BY <1>0, <1>f
    <3>2. QED BY <1>f, <2>2, <3>1
  <2>9. QED BY <1>0, <1>r, <2>5, <2>6, <2>7, <2>8, <2>p
<1>10. ASSUME NEW w \in Worker, Lifecycle!Refresh(w) PROVE LifecycleInv'
  <2>1. UNCHANGED <<registry, edits, lockFile, identities, owner, overlapped, silently, squeezed, unseen, commands, commandCrashes>>
    BY <1>10 DEF Lifecycle!Refresh
  <2>2. identities <= 1 + unseen /\ (marker = Lifecycle!NoMarker => identities = 0)
    BY DEF LifecycleInv, Lifecycle!OneIdentity
  <2>3. CASE Lifecycle!Goes(w, "idle") /\ UNCHANGED marker
    BY <1>0, <1>f, <1>i, <1>s, <2>1, <2>3
  <2>4. CASE Lifecycle!Goes(w, "attach") /\ marker' = [marker EXCEPT !.package = "current"]
    <3>1. marker' \in [id : Nat, package : {"none", "old", "current"}] /\ marker' # Lifecycle!NoMarker
      BY <1>0, <2>4 DEF Lifecycle!NoMarker
    <3>p. PICK c \in Lifecycle!Command : /\ command' = [command EXCEPT ![w] = c]
                              /\ c.op = command[w].op /\ c.at = "attach" /\ c.read = command[w].read
      BY <1>g, <2>4
    <3>2. QED BY <1>0, <1>e, <1>r, <2>1, <2>2, <2>4, <3>1, <3>p
  <2>5. QED BY <1>10, <2>3, <2>4 DEF Lifecycle!Refresh
<1>11. ASSUME NEW w \in Worker, Lifecycle!BeginHandover(w) PROVE LifecycleInv'
  <2>1. Lifecycle!Begins(w, "handover", "transfer") /\ "handover" \in Lifecycle!Op /\ registry.brain = "enabled"
    BY <1>11 DEF Lifecycle!BeginHandover, Lifecycle!Op, Lifecycle!WriteReady
  <2>2. overlapped' = (overlapped \/ \E v \in Worker : command[v].op \in {"disable", "uninstall"})
    BY <1>11 DEF Lifecycle!BeginHandover
  <2>3. UNCHANGED <<registry, edits, lockFile, marker, identities, owner, silently, squeezed, unseen, commandCrashes>>
    BY <1>11 DEF Lifecycle!BeginHandover
  <2>4. /\ overlapped' \in BOOLEAN /\ (overlapped => overlapped')
        /\ ~overlapped' => \A v \in Worker : command[v].op \notin {"disable", "uninstall"}
    BY <1>0, <2>2
  <2>p. PICK c \in Lifecycle!Command : /\ command' = [command EXCEPT ![w] = c]
                            /\ c.op = "handover" /\ c.at = "transfer" /\ c.read.os <= edits
    BY <1>b, <2>1
  <2>5. commands' \in 0 .. MaxCommands
    BY <1>b, <2>1
  <2>6. QED BY <1>0, <1>s, <2>1, <2>3, <2>4, <2>5, <2>p
<1>12. ASSUME NEW w \in Worker, Lifecycle!RecordOwner(w) PROVE LifecycleInv'
  <2>1. UNCHANGED <<registry, edits, lockFile, marker, identities, overlapped, silently, squeezed, unseen, commands, commandCrashes>>
    BY <1>12 DEF Lifecycle!RecordOwner
  <2>2. command[w].op = "handover" /\ owner' = "brain" /\ command' = [command EXCEPT ![w] = Lifecycle!Free]
    BY <1>12, <1>i DEF Lifecycle!RecordOwner, LifecycleInv, SidesAreApart
  <2>3. \A v \in Worker : command'[v] = IF v = w THEN Lifecycle!Free ELSE command[v]
    BY <1>0, <2>2
  <2>4. command' \in [Worker -> Lifecycle!Command]
    BY <1>0, <1>f, <2>2
  <2>5. ChangesAreLocked'
    BY <1>0, <1>f, <2>1, <2>3 DEF LifecycleInv, ChangesAreLocked
  <2>6. ~overlapped => /\ \A v \in Worker : command[v].op \notin {"disable", "uninstall"}
                       /\ registry.brain = "enabled"
    BY <2>2 DEF LifecycleInv, SidesAreApart
  <2>7. SidesAreApart' /\ Lifecycle!OwnerStaysEnabled'
    BY <1>f, <2>1, <2>2, <2>3, <2>6 DEF LifecycleInv, SidesAreApart, Lifecycle!OwnerStaysEnabled
  <2>8. QED
    BY <1>0, <2>1, <2>2, <2>4, <2>5, <2>7
    DEF LifecycleInv, Lifecycle!TypeOK, Lifecycle!NeverSilentlyEnabled, Lifecycle!OthersAreKept, Lifecycle!OneIdentity
<1>13. ASSUME NEW w \in Worker, Lifecycle!Die(w) PROVE LifecycleInv'
  <2>1. commandCrashes' \in 0 .. MaxCommandCrashes
    BY <1>0, <1>13 DEF Lifecycle!Die
  <2>2. command' = [command EXCEPT ![w] = Lifecycle!Free]
    BY <1>13, <1>i DEF Lifecycle!Die
  <2>3. UNCHANGED <<registry, edits, lockFile, marker, identities, owner, overlapped, silently, squeezed, unseen, commands>>
    BY <1>13 DEF Lifecycle!Die
  <2>p. PICK c \in Lifecycle!Command : /\ command' = [command EXCEPT ![w] = c]
                            /\ c.op = "none" /\ c.at = "idle" /\ c.read.os <= edits
    <3>1. Lifecycle!Free.read.os <= edits
      BY <1>0, <1>f
    <3>2. QED BY <1>f, <2>2, <3>1
  <2>4. QED BY <1>0, <1>s, <2>1, <2>3, <2>p
<1>14. CASE Lifecycle!OsEdits
  <2>1. /\ edits < MaxEdits /\ edits' = edits + 1 /\ registry' = [registry EXCEPT !.os = @ + 1]
        /\ UNCHANGED <<lockFile, marker, identities, owner, command, overlapped, silently, squeezed, unseen, commands, commandCrashes>>
    BY <1>14 DEF Lifecycle!OsEdits
  <2>2. registry.os \in 0 .. MaxEdits /\ registry.os <= edits /\ registry.brain \in Lifecycle!Attachment
    BY <1>0 DEF Lifecycle!Registry, LifecycleInv, ChangesAreLocked
  <2>3. registry' = [brain |-> registry.brain, os |-> registry.os + 1]
    BY <1>0, <2>1 DEF Lifecycle!Registry
  <2>4. registry' \in Lifecycle!Registry /\ edits' \in 0 .. MaxEdits /\ registry'.os <= edits'
    BY <1>0, <2>1, <2>2, <2>3 DEF Lifecycle!Registry
  <2>5. \A v \in Worker : command[v].read.os \in 0 .. MaxEdits
    BY <1>0 DEF Lifecycle!Command, Lifecycle!Registry
  <2>6. ChangesAreLocked'
    BY <1>0, <2>1, <2>3, <2>4, <2>5 DEF LifecycleInv, ChangesAreLocked
  <2>7. SidesAreApart' /\ Lifecycle!OwnerStaysEnabled'
    BY <2>1, <2>3 DEF LifecycleInv, SidesAreApart, Lifecycle!OwnerStaysEnabled
  <2>8. Lifecycle!OthersAreKept'
    BY <1>0, <2>1, <2>3 DEF LifecycleInv, Lifecycle!OthersAreKept
  <2>9. Lifecycle!TypeOK'
    BY <1>0, <2>1, <2>4 DEF Lifecycle!TypeOK
  <2>10. QED BY <2>1, <2>6, <2>7, <2>8, <2>9 DEF LifecycleInv, Lifecycle!NeverSilentlyEnabled,
      Lifecycle!OneIdentity
<1>15. CASE Lifecycle!Handback
  BY <1>0, <1>15 DEF Lifecycle!Handback, LifecycleInv, Lifecycle!TypeOK, ChangesAreLocked, SidesAreApart,
     Lifecycle!OwnerStaysEnabled, Lifecycle!NeverSilentlyEnabled, Lifecycle!OthersAreKept, Lifecycle!OneIdentity
<1>16. CASE UNCHANGED Lifecycle!vars
  BY <1>16 DEF Lifecycle!vars, LifecycleInv, Lifecycle!TypeOK, ChangesAreLocked, SidesAreApart,
     Lifecycle!OwnerStaysEnabled, Lifecycle!NeverSilentlyEnabled, Lifecycle!OthersAreKept, Lifecycle!OneIdentity
<1>17. QED
  BY <1>18, <1>1, <1>2, <1>3, <1>4, <1>5, <1>6, <1>7, <1>8, <1>9, <1>10, <1>11, <1>12, <1>13, <1>14,
     <1>15, <1>16 DEF Lifecycle!Next

(***************************************************************************)
(* The parts together                                                      *)
(***************************************************************************)

ServicesInv ==
  /\ StrategiesInv /\ ChainInv /\ BeliefInv /\ ObjectivesInv /\ InitiativesInv /\ ProposalsInv
  /\ LearningInv /\ DerivationInv /\ LifecycleInv

\* A step of the services is one of each part, or leaves it as it is.
LEMMA PartsStep ==
  ASSUME [ServicesNext]_serviceVars
  PROVE  /\ [Next]_vars
         /\ [Strategies!Next]_Strategies!vars /\ [Beliefs!Next]_Beliefs!vars
         /\ [Objectives!Next]_Objectives!vars /\ [Initiatives!Next]_Initiatives!vars
         /\ [Proposals!Next]_Proposals!vars /\ [Learning!Next]_Learning!vars
         /\ [Lifecycle!Next]_Lifecycle!vars
<1>1. [Next]_vars
  BY DEF ServicesNext, serviceVars
<1>2. [Strategies!Next]_Strategies!vars
  BY DEF ServicesNext, serviceVars, strategyVars, Strategies!vars
<1>3. [Beliefs!Next]_Beliefs!vars
  BY DEF ServicesNext, serviceVars, beliefVars, Beliefs!vars
<1>4. [Objectives!Next]_Objectives!vars
  BY DEF ServicesNext, serviceVars, objectiveVars, Objectives!vars
<1>5. [Initiatives!Next]_Initiatives!vars
  BY DEF ServicesNext, serviceVars, initiativeVars, Initiatives!vars
<1>6. [Proposals!Next]_Proposals!vars
  BY DEF ServicesNext, serviceVars, proposalVars, Proposals!vars
<1>7. [Learning!Next]_Learning!vars
  BY DEF ServicesNext, serviceVars, learningVars, Learning!vars
<1>8. [Lifecycle!Next]_Lifecycle!vars
  BY DEF ServicesNext, serviceVars, lifecycleVars, Lifecycle!vars
<1>9. QED BY <1>1, <1>2, <1>3, <1>4, <1>5, <1>6, <1>7, <1>8

\* What every part may rely on, in every state of the services.
LEMMA PartsInvariant == ServicesSpec => []ServicesInv
<1>1. ServicesInit => ServicesInv
  BY StrategiesStart, ChainStarts, BeliefStarts, ObjectivesStart, InitiativesStart, ProposalsStart,
     LearningStarts, DerivationStarts, LifecycleStarts DEF ServicesInit, ServicesInv
<1>2. ServicesInv /\ [ServicesNext]_serviceVars => ServicesInv'
  BY PartsStep, StrategiesKept, ChainKept, BeliefKept, ObjectivesKept, InitiativesKept, ProposalsKept,
     LearningKept, DerivationKept, LifecycleKept DEF ServicesInv
<1>3. QED
  BY <1>1, <1>2, PTL DEF ServicesSpec

\* The part that is running keeps its variables in their types (all of the services of
\* strategy_revision.py, freshness.py, progress.py, direction.py, proposal_apply.py,
\* learning.py and lifecycle.py, and the lock of runtime_lock.py).
THEOREM ServicesTypesStand == ServicesSpec => []ServicesTypeOK
<1>1. ServicesSpec => Spec
  <2>1. ServicesInit => Init
    BY DEF ServicesInit
  <2>2. [ServicesNext]_serviceVars => [Next]_vars
    BY PartsStep
  <2>3. QED
    BY <2>1, <2>2, PTL DEF ServicesSpec, Spec
<1>2. ServicesInv /\ TypeOK => ServicesTypeOK
  BY DEF ServicesInv, StrategiesInv, BeliefInv, ObjectivesInv, InitiativesInv, ProposalsInv,
         LearningInv, LifecycleInv, ServicesTypeOK
<1>3. QED
  BY <1>1, <1>2, PartsInvariant, TypeCorrect, PTL

\* Whatever promotions and rollbacks are refused, cut short or cross each other, a chain that
\* had a strategy in force has one, but for a reconciliation that met a promotion about to
\* retire what it restores (strategy_revision.py:80, 140), and a learning that is a strategy candidate names the strategy
\* made of it, but for two that derived at once (learning.py:566).
THEOREM StrategiesStand == ServicesSpec => []StrategiesHold
<1>1. ServicesInv => StrategiesHold
  BY ChainShows, DerivationShows DEF ServicesInv, StrategiesHold
<1>2. QED
  BY <1>1, PartsInvariant, PTL

\* Contradicting evidence is not undone by a slower call that looked before it came
\* (freshness.py:136, learning.py:397): a belief that was challenged is not taken for known
\* until it is refreshed, and a learning that was contradicted is not promoted.
THEOREM ContradictionStands == ServicesSpec => []ContradictionSticks
<1>1. ServicesInv => ContradictionSticks
  BY DEF ServicesInv, BeliefInv, LearningInv, ContradictionSticks, Beliefs!ContradictionSticks,
         Beliefs!Assessment, Learning!NeverOverruled
<1>2. QED
  BY <1>1, PartsInvariant, PTL

\* What passed was verified at its level, whichever evaluator, late transition or hand
\* moved it (evaluator.py, controller.py:148), and what counts as learned rests on the
\* evidence its rung asks for (learning.py:389).
THEOREM VerdictsStand == ServicesSpec => []VerdictsAreEarned
<1>1. ServicesInv => Objectives!PassedIsVerified
  BY DEF ServicesInv, ObjectivesInv, PassedIsConcluded, CriteriaAreJudged, Judged,
     Objectives!PassedIsVerified
<1>2. ServicesInv => Learning!ValidationIsEarned
  BY DEF ServicesInv, LearningInv
<1>3. QED
  BY <1>1, <1>2, PartsInvariant, PTL DEF VerdictsAreEarned

\* Objectives and initiatives at work stay within the caps of the policy but for counts that
\* another one outdated (controller.py:148), and an objective takes no attempt past its
\* budget but for those that somebody else's transition gave it (progress.py:97).
THEOREM LimitsStand == ServicesSpec => []LimitsHold
<1>1. ServicesInv => Objectives!WorkIsCapped /\ Initiatives!WipIsCapped
  BY DEF ServicesInv, ObjectivesInv, InitiativesInv
<1>2. ServicesInv => Objectives!AttemptsAreBounded
  <2> SUFFICES ASSUME ServicesInv, NEW o \in Objective
               PROVE  objective[o].attempts <= MaxAttempts + excused[o] + Cardinality(Recorders(o))
    BY ObjectivesCounts DEF Objectives!AttemptsAreBounded, Recorders, IsRecorder
  <2>1. /\ objective[o].attempts \in Nat /\ excused[o] \in Nat
        /\ objective[o].attempts + Ahead(o) <= MaxAttempts + excused[o] + Cardinality(Recorders(o))
    BY DEF ServicesInv, ObjectivesInv, BudgetLeft, Objectives!TypeOK, Objectives!Objectives
  <2>2. Ahead(o) \in {0, 1}
    BY DEF Ahead
  <2>3. MaxAttempts \in Nat /\ Cardinality(Recorders(o)) \in Nat
    <3>1. Recorders(o) \in SUBSET Worker
      BY DEF Recorders
    <3>2. QED BY <3>1, ServicesAssumption, FS_Subset, FS_CardinalityType
  <2>4. QED BY <2>1, <2>2, <2>3
<1>3. QED
  BY <1>1, <1>2, PartsInvariant, PTL DEF LimitsHold

\* However many callers propose the same thing or apply the same proposal, and wherever they
\* die: one thing of a fingerprint is in play, and a proposal makes one thing, but for calls
\* that crossed another one or were cut short between two saves (direction.py,
\* proposal_apply.py:93).
THEOREM OneOfAKind == ServicesSpec => []AppliedOnce
<1>1. ServicesInv => AppliedOnce
  BY InitiativesBounded, ProposalsBounded DEF ServicesInv, AppliedOnce
<1>2. QED
  BY <1>1, PartsInvariant, PTL

\* Brain stays enabled while it owns direction, is never enabled against the user's word, the
\* entries of others survive, and the installation has one identity, but for the races each
\* of the four names (lifecycle.py, extension_registry.py).
THEOREM AttachmentStands == ServicesSpec => []AttachmentIsHonest
<1>1. ServicesInv => AttachmentIsHonest
  BY DEF ServicesInv, LifecycleInv, AttachmentIsHonest
<1>2. QED
  BY <1>1, PartsInvariant, PTL
=============================================================================
