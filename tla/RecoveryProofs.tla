---------------------------- MODULE RecoveryProofs ----------------------------
(***************************************************************************)
(* For every set of operations, and of workers, and every number of        *)
(* crashes: of the corrections of one intent one is in force, and a        *)
(* standalone state is never lost, nor writable next to a native one, nor  *)
(* recorded as adopted before the whole of it is in place, unless two      *)
(* adopters met.  The lock's theorems are in KeyLockProofs.                *)
(***************************************************************************)
EXTENDS Recovery, TLAPS, FiniteSetTheorems

(***************************************************************************)
(* Intents. Whoever makes a correction the one in force holds the prior    *)
(* intent, and it is retired: what is retired stays so, and a resumed      *)
(* correction goes on only when no other one is in force.                  *)
(***************************************************************************)

\* The cardinality that the part's module extends is this one.
LEMMA IntentsCounts == \A S : Intents!Cardinality(S) = Cardinality(S)
  BY DEF Intents!Cardinality, Cardinality

\* A correction is the user's own word on another intent, and takes effect when that is retired.
Effective(o) == intent[o].status \in Intents!Current
CorrectionsFollow ==
  \A o \in Operation : Intents!Prior(o) # None =>
    /\ request[o].explicit /\ Intents!Prior(o) # o
    /\ Effective(o) => intent[Intents!Prior(o)].status = "SUPERSEDED"

\* The call in the lock is one of an operation, its copy is judged on what is on disk, and
\* when it is to confirm a correction then no other one has taken the place.
CallIsJudged ==
  /\ capturing.at # "idle" => capturing.op \in Operation
  /\ capturing.at = "supersede" => Intents!Prior(capturing.op) # None
  /\ capturing.at \in DOMAIN Intents!Ask /\ capturing.held = Intents!Object(capturing) =>
       Intents!Ask[capturing.at] \in Intents!Onward[intent[capturing.held].status]
  /\ capturing.at = "confirm" /\ Intents!Prior(capturing.op) # None =>
       intent[Intents!Prior(capturing.op)].status = "SUPERSEDED" /\ Intents!Rivals(capturing.op, Intents!Prior(capturing.op)) = {}

\* Of the corrections of one intent one is in effect.
OneInEffect ==
  \A o, q \in Operation : Intents!Prior(o) = Intents!Prior(q) /\ Intents!Prior(o) # None /\ Effective(o) /\ Effective(q) => o = q

IntentsInv ==
  /\ Intents!TypeOK
  /\ CorrectionsFollow /\ CallIsJudged
  /\ OneInEffect

-----------------------------------------------------------------------------

LEMMA IntentsStart == Intents!Init => IntentsInv
<1> SUFFICES ASSUME Intents!Init PROVE IntentsInv
  OBVIOUS
<1>1. /\ \A i \in Intents!Intent : intent[i] \in [status : Intents!IntentStatus, revision : Nat, linked : BOOLEAN]
      /\ \A o \in Operation : intent[o].status = "none" /\ request[o] = Intents!Unsent /\ Intents!Prior(o) = None
  BY RecoveryAssumption DEF Intents!Init, Intents!IntentStatus, Intents!Current, Intents!Intent,
     Intents!Unsent, Intents!Prior
<1>2. intent \in [Intents!Intent -> [status : Intents!IntentStatus, revision : Nat, linked : BOOLEAN]]
  BY <1>1 DEF Intents!Init
<1>3. Intents!NoCall \in Intents!Call /\ Intents!NoCall.at = "idle"
  BY DEF Intents!NoCall, Intents!Call
<1>4. request \in [Operation -> [corrects : Intents!Intent \cup {None}, expected : Nat, explicit : BOOLEAN]]
  BY DEF Intents!Init, Intents!Unsent
<1>5. captureCrashes \in 0 .. MaxCaptureCrashes
  BY RecoveryAssumption DEF Intents!Init
<1>6. Intents!TypeOK
  BY <1>2, <1>3, <1>4, <1>5 DEF Intents!Init, Intents!TypeOK
<1>7. CorrectionsFollow /\ OneInEffect
  BY <1>1 DEF CorrectionsFollow, OneInEffect
<1>8. CallIsJudged
  BY <1>3 DEF Intents!Init, CallIsJudged, Intents!Ask
<1>9. QED BY <1>6, <1>7, <1>8 DEF IntentsInv

\* What is settled stays settled, and only a proposal comes into effect.
LEMMA OnwardFacts ==
  ASSUME NEW s \in Intents!IntentStatus, NEW target \in Intents!Onward[s]
  PROVE  /\ target \in Intents!IntentStatus /\ s # "SUPERSEDED"
         /\ target \in Intents!Current => s \in Intents!Current \/ (s = "PROPOSED" /\ target = "CONFIRMED")
  BY DEF Intents!Onward, Intents!IntentStatus, Intents!Current

LEMMA CallTyped ==
  ASSUME Intents!TypeOK
  PROVE  /\ capturing.op \in Operation \cup {None} /\ capturing.held \in Intents!Intent \cup {None, "outdated"}
         /\ capturing.at \in {"idle", "supersede", "confirm", "activate", "link"}
         /\ capturing.links \in BOOLEAN
  BY DEF Intents!TypeOK, Intents!Call

\* One intent moves on: what that leaves of the corrections, when it comes into effect as a
\* correction only after the one before it is out of the way.
LEMMA IntentMoves ==
  ASSUME Intents!TypeOK, CorrectionsFollow, OneInEffect,
         NEW i \in Intents!Intent, NEW target \in Intents!Onward[intent[i].status],
         intent' \in [Intents!Intent -> [status : Intents!IntentStatus, revision : Nat, linked : BOOLEAN]],
         intent'[i].status = target,
         \A j \in Intents!Intent \ {i} : intent'[j].status = intent[j].status,
         request' = request,
         i \in Operation /\ intent[i].status \notin Intents!Current /\ target \in Intents!Current /\ Intents!Prior(i) # None =>
           intent[Intents!Prior(i)].status = "SUPERSEDED" /\ Intents!Rivals(i, Intents!Prior(i)) = {}
  PROVE  /\ CorrectionsFollow' /\ OneInEffect'
         /\ \A o \in Operation : Intents!Prior(o)' = Intents!Prior(o)
         /\ \A j \in Intents!Intent : intent[j].status = "SUPERSEDED" => intent'[j].status = "SUPERSEDED"
<1>1. /\ \A j \in Intents!Intent : intent[j].status \in Intents!IntentStatus
      /\ \A o \in Operation : Intents!Prior(o) \in Intents!Intent \cup {None} /\ o \in Intents!Intent
  BY DEF Intents!TypeOK, Intents!Prior, Intents!Intent
<1>2. /\ target \in Intents!IntentStatus /\ intent[i].status # "SUPERSEDED"
      /\ target \in Intents!Current => intent[i].status \in Intents!Current \/ (intent[i].status = "PROPOSED" /\ target = "CONFIRMED")
  BY <1>1, OnwardFacts
<1>3. \A j \in Intents!Intent : intent[j].status = "SUPERSEDED" => intent'[j].status = "SUPERSEDED"
  BY <1>2
<1>4. \A o \in Operation : Intents!Prior(o)' = Intents!Prior(o) /\ request'[o].explicit = request[o].explicit
  BY DEF Intents!Prior
<1>5. \A o \in Operation : Effective(o)' => Effective(o) \/ (o = i /\ target \in Intents!Current /\ intent[i].status \notin Intents!Current)
  BY <1>1 DEF Effective
<1>6. CorrectionsFollow'
  <2> SUFFICES ASSUME NEW o \in Operation, Intents!Prior(o) # None
               PROVE  /\ request'[o].explicit /\ Intents!Prior(o) # o
                      /\ Effective(o)' => intent'[Intents!Prior(o)].status = "SUPERSEDED"
    BY <1>4 DEF CorrectionsFollow
  <2>1. request[o].explicit /\ Intents!Prior(o) # o /\ Intents!Prior(o) \in Intents!Intent
    BY <1>1 DEF CorrectionsFollow
  <2>2. Effective(o)' => intent[Intents!Prior(o)].status = "SUPERSEDED"
    BY <1>5 DEF CorrectionsFollow
  <2>3. QED BY <1>3, <1>4, <2>1, <2>2
<1>7. OneInEffect'
  <2> SUFFICES ASSUME NEW o \in Operation, NEW q \in Operation, Intents!Prior(o) = Intents!Prior(q), Intents!Prior(o) # None,
                      Effective(o)', Effective(q)', o # q
               PROVE  FALSE
    BY <1>4 DEF OneInEffect
  <2>1. CASE Effective(o) /\ Effective(q)
    BY <2>1 DEF OneInEffect
  <2>2. CASE ~Effective(o)
    <3>1. o = i /\ Intents!Rivals(i, Intents!Prior(i)) = {} /\ Effective(q)
      BY <1>5, <2>2
    <3>2. q \in Intents!Rivals(i, Intents!Prior(i))
      BY <3>1 DEF Intents!Rivals, Effective
    <3>3. QED BY <3>1, <3>2
  <2>3. CASE ~Effective(q)
    <3>1. q = i /\ Intents!Rivals(i, Intents!Prior(i)) = {} /\ Effective(o)
      BY <1>5, <2>3
    <3>2. o \in Intents!Rivals(i, Intents!Prior(i))
      BY <3>1 DEF Intents!Rivals, Effective
    <3>3. QED BY <3>1, <3>2
  <2>4. QED BY <2>1, <2>2, <2>3
<1>8. QED BY <1>3, <1>4, <1>6, <1>7

\* Every step of a capture, of the user or of a crash keeps the intents' invariant.
LEMMA IntentsKept == IntentsInv /\ [Intents!Next]_Intents!vars => IntentsInv'
<1> SUFFICES ASSUME IntentsInv, [Intents!Next]_Intents!vars PROVE IntentsInv'
  OBVIOUS
<1> DEFINE Record == [status : Intents!IntentStatus, revision : Nat, linked : BOOLEAN]
<1>0. /\ intent \in [Intents!Intent -> Record]
      /\ request \in [Operation -> [corrects : Intents!Intent \cup {None}, expected : Nat, explicit : BOOLEAN]]
      /\ capturing \in Intents!Call /\ captureCrashes \in 0 .. MaxCaptureCrashes
      /\ Intents!TypeOK /\ CorrectionsFollow /\ CallIsJudged /\ OneInEffect
  BY DEF IntentsInv, Intents!TypeOK
<1>c. /\ capturing.op \in Operation \cup {None} /\ capturing.held \in Intents!Intent \cup {None, "outdated"}
      /\ capturing.at \in {"idle", "supersede", "confirm", "activate", "link"} /\ capturing.links \in BOOLEAN
  BY <1>0, CallTyped
<1>n. Intents!NoCall \in Intents!Call /\ Intents!NoCall.at = "idle" /\ Intents!NoCall.held = None
  BY DEF Intents!NoCall, Intents!Call
<1>a. /\ None \notin Intents!Intent /\ "outdated" \notin Intents!Intent /\ Operation \subseteq Intents!Intent /\ Origin \notin Operation
  BY RecoveryAssumption DEF Intents!Intent
<1>p. \A o \in Operation : Intents!Prior(o) \in Intents!Intent \cup {None}
  BY <1>0 DEF Intents!Prior
\* a call that enters at a stage
<1>e. ASSUME NEW o \in Operation, NEW at \in {"idle", "supersede", "confirm", "activate", "link"},
             NEW links \in BOOLEAN
      PROVE  /\ Intents!Enter(o, at, links) \in Intents!Call /\ Intents!Enter(o, at, links).at = at
             /\ at # "idle" => Intents!Enter(o, at, links).op = o
             /\ at # "link" => Intents!Enter(o, at, links).held = None
  BY <1>n, <1>a DEF Intents!Enter, Intents!Call
\* the corrections as they are when nothing but the call changes
<1>u. ASSUME UNCHANGED <<intent, request>>
      PROVE  /\ CorrectionsFollow' /\ OneInEffect'
             /\ \A o \in Operation : Intents!Prior(o)' = Intents!Prior(o)
             /\ \A o \in Operation, p \in Intents!Intent : Intents!Rivals(o, p)' = Intents!Rivals(o, p)
  BY <1>0, <1>u DEF CorrectionsFollow, OneInEffect, Intents!Prior, Effective, Intents!Rivals
<1>x. ASSUME UNCHANGED <<intent, request>>, capturing' = Intents!NoCall, captureCrashes' \in 0 .. MaxCaptureCrashes
      PROVE  IntentsInv'
  <2>1. Intents!TypeOK'
    BY <1>0, <1>n, <1>x DEF Intents!TypeOK
  <2>2. CallIsJudged'
    BY <1>n, <1>x DEF CallIsJudged, Intents!Ask
  <2>3. QED BY <1>u, <1>x, <2>1, <2>2 DEF IntentsInv
<1> HIDE DEF Record
<1>1. ASSUME NEW o \in Operation, NEW p \in Intents!Intent \cup {None}, NEW explicit \in BOOLEAN,
             Intents!Capture(o, p, explicit)
      PROVE  IntentsInv'
  <2>1. /\ intent[o].status = "none" /\ (p # None => explicit /\ p \in Intents!Intent /\ intent[p].status \in Intents!Current)
        /\ intent' = [intent EXCEPT ![o] = [status |-> "PROPOSED", revision |-> 1, linked |-> FALSE]]
        /\ UNCHANGED captureCrashes
    BY <1>1 DEF Intents!Capture
  <2>2. intent' \in [Intents!Intent -> Record]
    BY <1>0, <1>a, <2>1 DEF Record, Intents!IntentStatus
  <2>3. PICK r : r = [corrects |-> p, expected |-> IF p = None THEN 0 ELSE intent[p].revision, explicit |-> explicit]
    OBVIOUS
  <2>4. r \in [corrects : Intents!Intent \cup {None}, expected : Nat, explicit : BOOLEAN] /\ r.corrects = p /\ r.explicit = explicit
    BY <1>0, <2>1, <2>3 DEF Record
  <2>5. request' = [request EXCEPT ![o] = r]
    BY <1>1, <2>3 DEF Intents!Capture
  <2>6. /\ request' \in [Operation -> [corrects : Intents!Intent \cup {None}, expected : Nat, explicit : BOOLEAN]]
        /\ Intents!Prior(o)' = p /\ request'[o].explicit = explicit
        /\ \A q \in Operation \ {o} : Intents!Prior(q)' = Intents!Prior(q) /\ request'[q].explicit = request[q].explicit
    BY <1>0, <2>4, <2>5 DEF Intents!Prior
  <2>7. p # o
    BY <1>0, <1>a, <2>1 DEF Intents!Current
  <2>8. /\ ~Effective(o)' /\ \A q \in Operation \ {o} : Effective(q)' <=> Effective(q)
        /\ \A j \in Intents!Intent \ {o} : intent'[j].status = intent[j].status
    BY <1>0, <1>a, <2>1 DEF Effective, Intents!Current
  <2>9. PICK links \in BOOLEAN : links = IF p = None THEN FALSE ELSE intent[p].linked
    BY <1>0, <2>1 DEF Record
  <2>10. capturing' = IF ~explicit THEN Intents!NoCall
                      ELSE IF p = None THEN Intents!Enter(o, "confirm", FALSE) ELSE Intents!Enter(o, "supersede", links)
    BY <1>1, <2>9 DEF Intents!Capture
  <2>11. /\ capturing' \in Intents!Call /\ capturing'.at \in {"idle", "supersede", "confirm"}
         /\ capturing'.held = None
         /\ capturing'.at # "idle" => capturing'.op = o
         /\ capturing'.at = "supersede" => p # None
         /\ capturing'.at = "confirm" => p = None
    <3>1. CASE ~explicit
      BY <1>n, <2>10, <3>1
    <3>2. CASE explicit /\ p = None
      <4>1. capturing' = Intents!Enter(o, "confirm", FALSE)
        BY <2>10, <3>2
      <4>2. QED BY <1>e, <3>2, <4>1
    <3>3. CASE explicit /\ p # None
      <4>1. links \in BOOLEAN /\ capturing' = Intents!Enter(o, "supersede", links)
        BY <2>10, <3>3
      <4>2. QED BY <1>e, <3>3, <4>1
    <3>4. QED BY <3>1, <3>2, <3>3
  <2>12. Intents!TypeOK'
    BY <1>0, <2>1, <2>2, <2>6, <2>11 DEF Intents!TypeOK, Record
  <2>13. CorrectionsFollow'
    <3> SUFFICES ASSUME NEW q \in Operation, Intents!Prior(q)' # None
                 PROVE  /\ request'[q].explicit /\ Intents!Prior(q)' # q
                        /\ Effective(q)' => intent'[Intents!Prior(q)'].status = "SUPERSEDED"
      BY DEF CorrectionsFollow, Intents!Prior
    <3>1. CASE q = o
      BY <2>1, <2>6, <2>7, <2>8, <3>1
    <3>2. CASE q # o
      <4>1. /\ Intents!Prior(q)' = Intents!Prior(q) /\ request[q].explicit /\ Intents!Prior(q) # q /\ request'[q].explicit
            /\ Effective(q)' => intent[Intents!Prior(q)].status = "SUPERSEDED"
        BY <1>0, <2>6, <2>8, <3>2 DEF CorrectionsFollow
      <4>2. Intents!Prior(q) \in Intents!Intent
        BY <1>p, <4>1
      <4>3. intent[Intents!Prior(q)].status = "SUPERSEDED" => Intents!Prior(q) # o
        BY <2>1
      <4>4. QED BY <2>8, <4>1, <4>2, <4>3
    <3>3. QED BY <3>1, <3>2
  <2>14. OneInEffect'
    BY <1>0, <2>6, <2>8 DEF OneInEffect
  <2>15. CallIsJudged'
    <3>1. capturing'.at # "idle" => Intents!Object(capturing)' \in Intents!Intent
      BY <1>a, <2>6, <2>11 DEF Intents!Object
    <3>2. capturing'.at = "idle" => capturing'.at \notin DOMAIN Intents!Ask
      BY DEF Intents!Ask
    <3>3. capturing'.at # "idle" => Intents!Prior(capturing.op)' = p
      BY <2>6, <2>11 DEF Intents!Prior
    <3>4. QED BY <1>a, <2>11, <3>1, <3>2, <3>3 DEF CallIsJudged
  <2>16. QED BY <2>12, <2>13, <2>14, <2>15 DEF IntentsInv
<1>2. ASSUME NEW o \in Operation, Intents!Resume(o) PROVE IntentsInv'
  <2>1. UNCHANGED <<intent, request, captureCrashes>>
    BY <1>2 DEF Intents!Resume
  <2>2. PICK p \in Intents!Intent \cup {None} : p = Intents!Prior(o)
    BY <1>p
  <2>3. \/ p = None /\ capturing' = Intents!Enter(o, "confirm", FALSE)
        \/ /\ p # None /\ intent[p].status = "SUPERSEDED" /\ Intents!Rivals(o, p) = {}
           /\ capturing' = Intents!Enter(o, Intents!Entry(intent[o].status, intent[p].linked), intent[p].linked)
        \/ p # None /\ capturing' = Intents!Enter(o, "supersede", intent[p].linked)
    BY <1>2, <2>2 DEF Intents!Resume
  <2>4. PICK links \in BOOLEAN : links = IF p = None THEN FALSE ELSE intent[p].linked
    BY <1>0, <2>2 DEF Record
  <2>5. PICK at \in {"idle", "supersede", "confirm", "activate", "link"} :
          /\ capturing' = Intents!Enter(o, at, links)
          /\ at = "supersede" => p # None
          /\ at = "confirm" /\ p # None => intent[p].status = "SUPERSEDED" /\ Intents!Rivals(o, p) = {}
    <3>1. Intents!Entry(intent[o].status, links) \in {"idle", "confirm", "activate", "link"}
      BY DEF Intents!Entry
    <3>2. QED BY <2>3, <2>4, <3>1
  <2>6. /\ capturing' \in Intents!Call /\ capturing'.at = at /\ (at # "idle" => capturing'.op = o)
        /\ (at # "link" => capturing'.held = None)
    BY <1>e, <2>5
  <2>7. Intents!TypeOK'
    BY <1>0, <2>1, <2>6 DEF Intents!TypeOK
  <2>8. CallIsJudged'
    <3>1. /\ \A q \in Operation : Intents!Prior(q)' = Intents!Prior(q)
          /\ \A q \in Operation, j \in Intents!Intent : Intents!Rivals(q, j)' = Intents!Rivals(q, j)
      BY <1>u, <2>1
    <3>2. at \in DOMAIN Intents!Ask => Intents!Object(capturing)' \in Intents!Intent /\ capturing'.held = None
      BY <1>a, <2>2, <2>5, <2>6, <3>1 DEF Intents!Object, Intents!Ask
    <3>3. at # "idle" => Intents!Prior(capturing.op)' = p /\ capturing'.op = o
      BY <2>2, <2>6, <3>1 DEF Intents!Prior
    <3>4. at = "confirm" /\ p # None => Intents!Rivals(capturing.op, Intents!Prior(capturing.op))' = {}
      BY <2>1, <2>2, <2>5, <2>6, <3>1, <3>3 DEF Intents!Rivals, Intents!Prior
    <3>5. QED BY <1>a, <2>1, <2>2, <2>5, <2>6, <3>2, <3>3, <3>4 DEF CallIsJudged
  <2>9. QED BY <1>u, <2>1, <2>7, <2>8 DEF IntentsInv
<1>3. ASSUME Intents!LoadIntent PROVE IntentsInv'
  <2>1. /\ capturing.at \in DOMAIN Intents!Ask /\ Intents!Ask[capturing.at] \in Intents!Onward[intent[Intents!Object(capturing)].status]
        /\ UNCHANGED <<intent, request, captureCrashes>>
    BY <1>3 DEF Intents!LoadIntent
  <2>2. capturing.op \in Operation /\ Intents!Object(capturing) \in Intents!Intent /\ capturing.at # "idle"
    BY <1>0, <1>a, <1>p, <2>1 DEF CallIsJudged, Intents!Object, Intents!Ask
  <2>3. PICK c \in Intents!Call : c = capturing
    BY <1>0
  <2>4. PICK obj \in Intents!Intent : obj = Intents!Object(capturing)
    BY <2>2
  <2>5. PICK d : d = [c EXCEPT !.held = obj]
    OBVIOUS
  <2>6. d \in Intents!Call /\ d.op = c.op /\ d.at = c.at /\ d.held = obj
    BY <2>3, <2>5 DEF Intents!Call
  <2>7. capturing' = d
    BY <1>3, <2>3, <2>4, <2>5 DEF Intents!LoadIntent
  <2>8. Intents!TypeOK'
    BY <1>0, <2>1, <2>6, <2>7 DEF Intents!TypeOK
  <2>9. CallIsJudged'
    <3>1. \A q \in Operation, j \in Intents!Intent : Intents!Rivals(q, j)' = Intents!Rivals(q, j)
      BY <1>u, <2>1
    <3>2. capturing'.op = capturing.op /\ capturing'.at = capturing.at /\ capturing'.held = obj /\ Intents!Prior(capturing.op)' = Intents!Prior(capturing.op)
      BY <2>1, <2>3, <2>6, <2>7 DEF Intents!Prior
    <3>3. Intents!Rivals(capturing.op, Intents!Prior(capturing.op))' = Intents!Rivals(capturing.op, Intents!Prior(capturing.op))
      BY <2>1, <3>2 DEF Intents!Rivals, Intents!Prior
    <3>4. QED BY <1>0, <2>1, <2>4, <3>2, <3>3 DEF CallIsJudged
  <2>10. QED BY <1>u, <2>1, <2>8, <2>9 DEF IntentsInv
<1>4. ASSUME Intents!SaveIntent PROVE IntentsInv'
  <2>1. /\ capturing.at \in DOMAIN Intents!Ask /\ capturing.held = Intents!Object(capturing)
        /\ UNCHANGED <<request, captureCrashes>>
    BY <1>4 DEF Intents!SaveIntent
  <2>2. PICK o \in Operation : o = capturing.op
    BY <1>0, <2>1 DEF CallIsJudged, Intents!Ask
  <2>3. capturing.at \in {"supersede", "confirm", "activate"} /\ Intents!Object(capturing) \in Intents!Intent
    BY <1>0, <1>a, <1>p, <2>1, <2>2 DEF CallIsJudged, Intents!Object, Intents!Ask
  <2>4. PICK i \in Intents!Intent : i = Intents!Object(capturing) /\ i = capturing.held
    BY <2>1, <2>3
  <2>5. PICK target \in Intents!Onward[intent[i].status] : target = Intents!Ask[capturing.at]
    BY <1>0, <2>1, <2>4 DEF CallIsJudged
  <2>6. intent[i].status \in Intents!IntentStatus /\ target \in Intents!IntentStatus
    BY <1>0, <2>5, OnwardFacts DEF Record
  <2>7. PICK old \in Record : old = intent[i]
    BY <1>0
  <2>8. PICK new : new = [[old EXCEPT !.revision = @ + 1] EXCEPT !.status = target]
    OBVIOUS
  <2>9. new \in Record /\ new.status = target
    <3>1. old.status \in Intents!IntentStatus /\ old.revision + 1 \in Nat /\ old.linked \in BOOLEAN
      BY DEF Record
    <3>2. PICK mid : mid = [old EXCEPT !.revision = @ + 1]
      OBVIOUS
    <3>3. mid \in Record /\ mid.status = old.status /\ mid.linked = old.linked
      BY <3>1, <3>2 DEF Record
    <3>4. new = [mid EXCEPT !.status = target]
      BY <2>8, <3>2
    <3>5. QED BY <2>6, <2>8, <3>1, <3>3, <3>4 DEF Record
  <2>10. intent' = [intent EXCEPT ![i] = new]
    BY <1>4, <2>4, <2>5, <2>7, <2>8 DEF Intents!SaveIntent, Intents!Bumped
  <2>11. /\ intent' \in [Intents!Intent -> Record] /\ intent'[i].status = target
         /\ \A j \in Intents!Intent \ {i} : intent'[j].status = intent[j].status
    BY <1>0, <2>9, <2>10
  <2>12. i \in Operation /\ intent[i].status \notin Intents!Current /\ target \in Intents!Current /\ Intents!Prior(i) # None =>
           intent[Intents!Prior(i)].status = "SUPERSEDED" /\ Intents!Rivals(i, Intents!Prior(i)) = {}
    <3> SUFFICES ASSUME intent[i].status \notin Intents!Current, target \in Intents!Current, Intents!Prior(i) # None
                 PROVE  intent[Intents!Prior(i)].status = "SUPERSEDED" /\ Intents!Rivals(i, Intents!Prior(i)) = {}
      OBVIOUS
    <3>1. target = "CONFIRMED"
      BY <2>5, <2>6, OnwardFacts
    <3>2. capturing.at = "confirm" /\ i = o
      BY <2>2, <2>3, <2>4, <2>5, <3>1 DEF Intents!Ask, Intents!Object
    <3>3. QED BY <1>0, <2>2, <3>2 DEF CallIsJudged
  <2>13. /\ CorrectionsFollow' /\ OneInEffect' /\ \A q \in Operation : Intents!Prior(q)' = Intents!Prior(q)
         /\ \A j \in Intents!Intent : intent[j].status = "SUPERSEDED" => intent'[j].status = "SUPERSEDED"
    BY <1>0, <2>1, <2>5, <2>11, <2>12, IntentMoves DEF Record
  <2>14. PICK at \in {"idle", "confirm", "activate", "link"} :
           /\ capturing' = Intents!Enter(o, at, capturing.links)
           /\ at = "confirm" => capturing.at = "supersede"
    <3>1. \A s : Intents!Entry(s, capturing.links) \in {"idle", "confirm", "activate", "link"}
      BY DEF Intents!Entry
    <3>2. /\ capturing.at = "supersede" => capturing' = Intents!Enter(o, Intents!Entry(intent[o].status, capturing.links), capturing.links)
          /\ capturing.at = "confirm" => capturing' = Intents!Enter(o, "activate", capturing.links)
          /\ capturing.at = "activate" => capturing' = Intents!Enter(o, IF capturing.links THEN "link" ELSE "idle", capturing.links)
      BY <1>4, <2>2 DEF Intents!SaveIntent
    <3>3. QED BY <2>3, <3>1, <3>2
  <2>15. /\ capturing' \in Intents!Call /\ capturing'.at = at /\ (at # "idle" => capturing'.op = o)
         /\ (at # "link" => capturing'.held = None)
    BY <1>c, <1>e, <2>14
  <2>16. Intents!TypeOK'
    BY <1>0, <2>1, <2>11, <2>15 DEF Intents!TypeOK, Record
  <2>17. CallIsJudged'
    <3>1. at \in DOMAIN Intents!Ask => Intents!Object(capturing)' \in Intents!Intent /\ capturing'.held = None
      BY <1>a, <2>14, <2>15 DEF Intents!Object, Intents!Ask
    <3>2. at # "idle" => Intents!Prior(capturing.op)' = Intents!Prior(o)
      BY <2>1, <2>15 DEF Intents!Prior
    <3>3. ASSUME at = "confirm" PROVE Intents!Prior(o) # None /\ intent'[Intents!Prior(o)].status = "SUPERSEDED" /\ Intents!Rivals(o,
                 Intents!Prior(o))' = {}
      <4>1. capturing.at = "supersede" /\ i = Intents!Prior(o) /\ Intents!Prior(o) # None /\ target = "SUPERSEDED"
        BY <1>0, <2>2, <2>4, <2>5, <2>14, <3>3 DEF CallIsJudged, Intents!Object, Intents!Ask
      <4>2. intent[i].status # "SUPERSEDED"
        BY <2>5, <2>6, OnwardFacts
      <4>3. ASSUME NEW q \in Operation, Intents!Prior(q) = i PROVE ~Effective(q) /\ q # i
        BY <1>0, <1>a, <4>2, <4>3 DEF CorrectionsFollow
      <4>4. ASSUME NEW q \in Operation,
                   Intents!Prior(q) = i PROVE intent'[q].status \notin Intents!Current
        BY <1>a, <2>11, <4>3, <4>4 DEF Effective
      <4>5. Intents!Rivals(o, Intents!Prior(o))' = {}
        BY <2>13, <4>1, <4>4 DEF Intents!Rivals
      <4>6. QED BY <2>11, <4>1, <4>5
    <3>4. at = "confirm" => Intents!Rivals(capturing.op, Intents!Prior(capturing.op))' = {}
      BY <2>1, <2>15, <3>2, <3>3 DEF Intents!Rivals, Intents!Prior
    <3>5. QED BY <1>a, <2>14, <2>15, <3>1, <3>2, <3>3, <3>4 DEF CallIsJudged
  <2>18. QED BY <2>13, <2>16, <2>17 DEF IntentsInv
<1>o. ASSUME NEW i \in Intents!Intent, NEW new \in Record,
             NEW target \in Intents!IntentStatus, new.status = target,
             target = intent[i].status \/ target \in Intents!Onward[intent[i].status],
             i \in Operation /\ target \in Intents!Current /\ intent[i].status \notin Intents!Current => Intents!Prior(i) = None,
             intent' = [intent EXCEPT ![i] = new], capturing' = Intents!Noticed(i, capturing),
             UNCHANGED <<request, captureCrashes>>
      PROVE  IntentsInv'
  <2>1. /\ intent' \in [Intents!Intent -> Record] /\ intent'[i].status = target
        /\ \A j \in Intents!Intent \ {i} : intent'[j].status = intent[j].status
    BY <1>0, <1>o
  <2>2. /\ CorrectionsFollow' /\ OneInEffect' /\ \A q \in Operation : Intents!Prior(q)' = Intents!Prior(q)
        /\ \A j \in Intents!Intent : intent[j].status = "SUPERSEDED" => intent'[j].status = "SUPERSEDED"
    <3>1. CASE target = intent[i].status
      <4>1. \A j \in Intents!Intent : intent'[j].status = intent[j].status
        BY <2>1, <3>1
      <4>2. \A q \in Operation : Intents!Prior(q)' = Intents!Prior(q) /\ request'[q] = request[q] /\ (Effective(q)' <=> Effective(q))
        BY <1>a, <1>o, <4>1 DEF Intents!Prior, Effective
      <4>3. \A q \in Operation : Intents!Prior(q) # None => intent'[Intents!Prior(q)].status = intent[Intents!Prior(q)].status
        BY <1>p, <4>1
      <4>4. CorrectionsFollow'
        BY <1>0, <4>2, <4>3 DEF CorrectionsFollow
      <4>5. OneInEffect'
        BY <1>0, <4>2 DEF OneInEffect
      <4>6. QED BY <4>1, <4>2, <4>4, <4>5
    <3>2. CASE target \in Intents!Onward[intent[i].status]
      BY <1>0, <1>o, <2>1, <3>2, IntentMoves DEF Record
    <3>3. QED BY <1>o, <3>1, <3>2
  <2>3. PICK c \in Intents!Call : c = capturing
    BY <1>0
  <2>4. PICK d : d = [c EXCEPT !.held = "outdated"]
    OBVIOUS
  <2>5. d \in Intents!Call /\ d.op = c.op /\ d.at = c.at /\ d.held = "outdated"
    BY <2>3, <2>4 DEF Intents!Call
  <2>6. capturing' = IF c.held = i THEN d ELSE c
    BY <1>o, <2>3, <2>4 DEF Intents!Noticed
  <2>7. /\ capturing' \in Intents!Call /\ capturing'.op = capturing.op /\ capturing'.at = capturing.at
        /\ capturing'.held \in Intents!Intent => capturing'.held = capturing.held /\ capturing.held # i
    BY <1>a, <2>3, <2>5, <2>6
  <2>8. Intents!TypeOK'
    BY <1>0, <1>o, <2>1, <2>7 DEF Intents!TypeOK, Record
  <2>9. CallIsJudged'
    <3>1. capturing.at # "idle" => capturing.op \in Operation /\ Intents!Prior(capturing.op)' = Intents!Prior(capturing.op)
      BY <1>0, <1>o, <2>7 DEF CallIsJudged, Intents!Prior
    <3>2. capturing.at \in DOMAIN Intents!Ask => Intents!Object(capturing)' = Intents!Object(capturing) /\ Intents!Object(capturing) \in Intents!Intent
      BY <1>0, <1>a, <1>p, <2>7, <3>1 DEF CallIsJudged, Intents!Object, Intents!Ask
    <3>3. capturing'.at \in DOMAIN Intents!Ask /\ capturing'.held = Intents!Object(capturing)' =>
            Intents!Ask[capturing'.at] \in Intents!Onward[intent'[capturing'.held].status]
      BY <1>0, <2>1, <2>7, <3>2 DEF CallIsJudged
    <3>4. ASSUME capturing.at = "confirm", Intents!Prior(capturing.op) # None
          PROVE  intent'[Intents!Prior(capturing.op)].status = "SUPERSEDED" /\ Intents!Rivals(capturing.op, Intents!Prior(capturing.op))' = {}
      <4>1. PICK o \in Operation : o = capturing.op
        BY <3>1, <3>4
      <4>2. PICK p \in Intents!Intent : p = Intents!Prior(o)
        BY <1>p, <3>4, <4>1
      <4>3. intent[p].status = "SUPERSEDED" /\ Intents!Rivals(o, p) = {}
        BY <1>0, <3>4, <4>1, <4>2 DEF CallIsJudged
      <4>4. ASSUME NEW q \in Operation \ {o},
                   Intents!Prior(q) = p PROVE intent'[q].status \notin Intents!Current
        <5>1. intent[q].status \notin Intents!Current
          BY <4>3, <4>4 DEF Intents!Rivals
        <5>2. q = i => target \notin Intents!Current
          BY <1>a, <1>o, <4>2, <4>4, <5>1
        <5>3. QED BY <1>a, <2>1, <5>1, <5>2
      <4>5. {q \in Operation \ {o} : intent'[q].status \in Intents!Current /\ Intents!Prior(q)' = p} = {}
        BY <2>2, <4>4
      <4>6. capturing'.op = o /\ Intents!Prior(capturing.op)' = p
        BY <2>7, <3>1, <3>4, <4>1, <4>2
      <4>7. Intents!Rivals(capturing.op, Intents!Prior(capturing.op))' = {}
        BY <4>5, <4>6 DEF Intents!Rivals, Intents!Prior
      <4>8. QED BY <2>2, <4>1, <4>2, <4>3, <4>7
    <3>5. QED BY <1>0, <2>7, <3>1, <3>3, <3>4 DEF CallIsJudged
  <2>10. QED BY <2>2, <2>8, <2>9 DEF IntentsInv
<1>5. ASSUME Intents!Relink PROVE IntentsInv'
  <2>1. /\ capturing.at = "link" /\ capturing' = Intents!NoCall /\ UNCHANGED <<request, captureCrashes>>
        /\ intent[capturing.op].status \in Intents!Current
    BY <1>5 DEF Intents!Relink
  <2>2. PICK o \in Operation : o = capturing.op
    BY <1>0, <2>1 DEF CallIsJudged
  <2>3. PICK old \in Record : old = intent[o]
    BY <1>0, <1>a
  <2>4. PICK new : new = [[old EXCEPT !.revision = @ + 1] EXCEPT !.linked = TRUE]
    OBVIOUS
  <2>5. new \in Record /\ new.status = old.status
    <3>1. old.status \in Intents!IntentStatus /\ old.revision + 1 \in Nat /\ old.linked \in BOOLEAN
      BY DEF Record
    <3>2. PICK mid : mid = [old EXCEPT !.revision = @ + 1]
      OBVIOUS
    <3>3. mid \in Record /\ mid.status = old.status /\ mid.linked = old.linked
      BY <3>1, <3>2 DEF Record
    <3>4. new = [mid EXCEPT !.linked = TRUE]
      BY <2>4, <3>2
    <3>5. QED BY <2>4, <3>1, <3>3, <3>4 DEF Record
  <2>6. intent' = intent \/ intent' = [intent EXCEPT ![o] = new]
    BY <1>5, <2>2, <2>3, <2>4 DEF Intents!Relink, Intents!Bumped
  <2>7. intent' \in [Intents!Intent -> Record] /\ \A j \in Intents!Intent : intent'[j].status = intent[j].status
    BY <1>0, <1>a, <2>3, <2>5, <2>6
  <2>8. Intents!TypeOK'
    BY <1>0, <1>n, <2>1, <2>7 DEF Intents!TypeOK, Record
  <2>9. \A q \in Operation : Intents!Prior(q)' = Intents!Prior(q) /\ request'[q] = request[q] /\ (Effective(q)' <=> Effective(q))
    BY <1>a, <2>1, <2>7 DEF Intents!Prior, Effective
  <2>10. \A q \in Operation : Intents!Prior(q) # None => intent'[Intents!Prior(q)].status = intent[Intents!Prior(q)].status
    BY <1>p, <2>7
  <2>11. CorrectionsFollow'
    BY <1>0, <2>9, <2>10 DEF CorrectionsFollow
  <2>12. OneInEffect'
    BY <1>0, <2>9 DEF OneInEffect
  <2>13. CallIsJudged'
    BY <1>n, <2>1 DEF CallIsJudged, Intents!Ask
  <2>14. QED BY <2>8, <2>11, <2>12, <2>13 DEF IntentsInv
<1>6. ASSUME Intents!RefuseCapture PROVE IntentsInv'
  BY <1>0, <1>x, <1>6 DEF Intents!RefuseCapture
<1>7. ASSUME Intents!CaptureCrash PROVE IntentsInv'
  <2>1. captureCrashes' \in 0 .. MaxCaptureCrashes
    BY <1>0, <1>7, RecoveryAssumption DEF Intents!CaptureCrash
  <2>2. QED BY <1>x, <1>7, <2>1 DEF Intents!CaptureCrash
<1>8. ASSUME NEW i \in Intents!Intent, NEW target \in Intents!IntentStatus,
             Intents!ChangeStatus(i, target) PROVE IntentsInv'
  <2>1. /\ target \in Intents!Onward[intent[i].status] /\ (target = "CONFIRMED" => ~request[i].explicit)
        /\ capturing' = Intents!Noticed(i, capturing) /\ UNCHANGED <<request, captureCrashes>>
    BY <1>8 DEF Intents!ChangeStatus
  <2>2. PICK old \in Record : old = intent[i]
    BY <1>0
  <2>3. PICK new : new = [[old EXCEPT !.revision = @ + 1] EXCEPT !.status = target]
    OBVIOUS
  <2>4. new \in Record /\ new.status = target
    <3>1. old.status \in Intents!IntentStatus /\ old.revision + 1 \in Nat /\ old.linked \in BOOLEAN
      BY DEF Record
    <3>2. PICK mid : mid = [old EXCEPT !.revision = @ + 1]
      OBVIOUS
    <3>3. mid \in Record /\ mid.status = old.status /\ mid.linked = old.linked
      BY <3>1, <3>2 DEF Record
    <3>4. new = [mid EXCEPT !.status = target]
      BY <2>3, <3>2
    <3>5. QED BY <2>3, <3>1, <3>3, <3>4 DEF Record
  <2>5. intent' = [intent EXCEPT ![i] = new]
    BY <1>8, <2>2, <2>3 DEF Intents!ChangeStatus, Intents!Bumped
  <2>6. i \in Operation /\ target \in Intents!Current /\ intent[i].status \notin Intents!Current => Intents!Prior(i) = None
    <3>1. intent[i].status \in Intents!IntentStatus
      BY <1>0 DEF Record
    <3>2. target \in Intents!Current /\ intent[i].status \notin Intents!Current => target = "CONFIRMED"
      BY <2>1, <3>1, OnwardFacts
    <3>3. QED BY <1>0, <2>1, <3>2 DEF CorrectionsFollow
  <2>7. QED BY <1>o, <2>1, <2>4, <2>5, <2>6
<1>9. ASSUME NEW i \in Intents!Intent, Intents!ChangeLink(i) PROVE IntentsInv'
  <2>1. capturing' = Intents!Noticed(i, capturing) /\ UNCHANGED <<request, captureCrashes>>
    BY <1>9 DEF Intents!ChangeLink
  <2>2. PICK old \in Record : old = intent[i]
    BY <1>0
  <2>3. PICK new : new = [[old EXCEPT !.revision = @ + 1] EXCEPT !.linked = ~@]
    OBVIOUS
  <2>4. new \in Record /\ new.status = old.status /\ old.status \in Intents!IntentStatus
    <3>1. old.status \in Intents!IntentStatus /\ old.revision + 1 \in Nat /\ old.linked \in BOOLEAN
      BY DEF Record
    <3>2. PICK mid : mid = [old EXCEPT !.revision = @ + 1]
      OBVIOUS
    <3>3. mid \in Record /\ mid.status = old.status /\ mid.linked = old.linked
      BY <3>1, <3>2 DEF Record
    <3>4. new = [mid EXCEPT !.linked = ~@]
      BY <2>3, <3>2
    <3>5. QED BY <2>3, <3>1, <3>3, <3>4 DEF Record
  <2>5. intent' = [intent EXCEPT ![i] = new]
    BY <1>9, <2>2, <2>3 DEF Intents!ChangeLink, Intents!Bumped
  <2>6. QED BY <1>o, <2>1, <2>2, <2>4, <2>5
<1>10. CASE UNCHANGED Intents!vars
  <2>1. UNCHANGED <<intent, request, capturing, captureCrashes>>
    BY <1>10 DEF Intents!vars
  <2>2. Intents!TypeOK'
    BY <1>0, <2>1 DEF Intents!TypeOK, Record
  <2>3. CallIsJudged'
    BY <1>0, <2>1 DEF CallIsJudged, Intents!Object, Intents!Prior, Intents!Rivals
  <2>4. QED BY <1>u, <2>1, <2>2, <2>3 DEF IntentsInv
<1>11. QED
  BY <1>1, <1>2, <1>3, <1>4, <1>5, <1>6, <1>7, <1>8, <1>9, <1>10 DEF Intents!Next, Intents!CaptureStep

\* At most one in effect is a set of at most one.
LEMMA IntentsBounded == ASSUME IntentsInv PROVE Intents!OneSuccessor
<1> SUFFICES ASSUME NEW p \in Intents!Intent
             PROVE  Cardinality({o \in Operation : Intents!Prior(o) = p /\ intent[o].status \in Intents!Current}) <= 1
  BY IntentsCounts DEF Intents!OneSuccessor
<1> DEFINE S == {o \in Operation : Intents!Prior(o) = p /\ intent[o].status \in Intents!Current}
<1>1. p # None
  BY RecoveryAssumption DEF Intents!Intent
<1>2. \A o, q \in S : o = q
  BY <1>1 DEF IntentsInv, OneInEffect, Effective
<1> HIDE DEF S
<1>3. CASE S = {}
  BY <1>3, FS_EmptySet DEF S
<1>4. CASE S # {}
  <2>1. PICK o \in S : TRUE
    BY <1>4
  <2>2. S = {o}
    BY <1>2, <2>1
  <2>3. Cardinality(S) = 1
    BY <2>2, FS_Singleton
  <2>4. QED BY <2>3 DEF S
<1>5. QED BY <1>3, <1>4

(***************************************************************************)
(* Adoption. The state moves one way, aside, then copied, then put in      *)
(* place; while no two adopters met, the one that adopts has the           *)
(* transaction record on disk.                                             *)
(***************************************************************************)

\* Whoever is past the creation of a transaction record has the id of one.
IdsAreKnown ==
  /\ tx.state = "none" \/ tx.id \in Worker
  /\ \A w \in Worker : adopting[w].at \in {"idle", "create"} \/ Adoption!Id(w) \in Worker

\* The state moves one way: aside, then copied, then put in place.
MovesOneWay ==
  /\ \A w \in Worker : retired[w] = "whole" => standalone = "gone"
  /\ \A w \in Worker : staging[w] # "none" => retired[w] = "whole"
  /\ looked => standalone = "gone"

\* While no two of them met, the one that adopts has the record on disk, at the stage that
\* it says, and what is about to be recorded as staged or as in place is.
Stages == [retire |-> "prepared", noteRetired |-> "prepared", stage |-> "source_retired", copy |-> "source_retired",
           noteStaged |-> "source_retired", activate |-> "staged", noteComplete |-> "staged"]
Ordered ==
  /\ \A w, v \in Worker : adopting[w].at # "idle" /\ adopting[v].at # "idle" => w = v
  /\ \A w \in Worker :
       /\ adopting[w].at \in DOMAIN Stages => adopting[w].tx = tx /\ tx.state = Stages[adopting[w].at]
       /\ adopting[w].at = "create" => tx.state = "none"
       /\ adopting[w].at = "noteStaged" => staging[Adoption!Id(w)] = "whole"
       /\ adopting[w].at = "noteComplete" => native = "whole"
  /\ tx.state = "staged" => staging[tx.id] # "partial"
  /\ tx.state = "complete" => native = "whole"

AdoptionInv ==
  /\ Adoption!TypeOK
  /\ Adoption!StateIsKept /\ Adoption!OneTruth
  /\ IdsAreKnown /\ MovesOneWay
  /\ ~met => Ordered

-----------------------------------------------------------------------------

LEMMA AdoptionStart == Adoption!Init => AdoptionInv
<1> SUFFICES ASSUME Adoption!Init PROVE AdoptionInv
  OBVIOUS
<1>1. Adoption!NoTx \in Adoption!Tx /\ Adoption!Free \in Adoption!Adopting /\ Adoption!Free.at = "idle" /\ Adoption!NoTx.state = "none"
  BY DEF Adoption!NoTx, Adoption!Tx, Adoption!TxState, Adoption!Free, Adoption!Adopting
<1>2. Adoption!TypeOK
  <2>1. adoptionDeaths = 0 /\ looked = FALSE /\ met = FALSE /\ unnoted = FALSE
    BY DEF Adoption!Init
  <2>2. adoptionDeaths \in 0 .. MaxAdoptionDeaths
    BY <2>1, RecoveryAssumption
  <2>3. {looked, met, unnoted} \subseteq BOOLEAN
    BY <2>1
  <2>4. QED BY <1>1, <2>2, <2>3 DEF Adoption!Init, Adoption!TypeOK
<1>3. Adoption!StateIsKept /\ Adoption!OneTruth /\ IdsAreKnown /\ MovesOneWay
  BY <1>1 DEF Adoption!Init, Adoption!StateIsKept, Adoption!OneTruth, IdsAreKnown, MovesOneWay
<1>4. Ordered
  BY <1>1 DEF Adoption!Init, Ordered, Stages, Adoption!NoTx
<1>5. QED BY <1>2, <1>3, <1>4 DEF AdoptionInv

\* What an adopter does next, as far as the invariant is concerned.
LEMMA AdopterGoes ==
  ASSUME NEW w \in Worker, NEW c \in Adoption!Adopting,
         Adoption!TypeOK, adopting' = [adopting EXCEPT ![w] = c]
  PROVE  /\ adopting' \in [Worker -> Adoption!Adopting] /\ adopting'[w] = c
         /\ \A v \in Worker \ {w} : adopting'[v] = adopting[v]
  BY DEF Adoption!TypeOK

LEMMA AdoptionKept == AdoptionInv /\ [Adoption!Next]_Adoption!vars => AdoptionInv'
<1> SUFFICES ASSUME AdoptionInv, [Adoption!Next]_Adoption!vars PROVE AdoptionInv'
  OBVIOUS
<1>0. /\ standalone \in {"whole", "gone"} /\ retired \in [Worker -> {"none", "whole"}]
      /\ staging \in [Worker -> {"none", "partial", "whole"}] /\ native \in {"empty", "partial", "whole", "fresh"}
      /\ tx \in Adoption!Tx /\ adopting \in [Worker -> Adoption!Adopting] /\ looked \in BOOLEAN /\ met \in BOOLEAN /\ unnoted \in BOOLEAN
      /\ adoptionDeaths \in 0 .. MaxAdoptionDeaths
      /\ Adoption!TypeOK /\ Adoption!StateIsKept /\ Adoption!OneTruth /\ IdsAreKnown /\ MovesOneWay /\ (~met => Ordered)
  BY DEF AdoptionInv, Adoption!TypeOK
<1>i. Adoption!Free \in Adoption!Adopting /\ Adoption!Free.at = "idle" /\ Adoption!NoTx \in Adoption!Tx /\ Adoption!NoTx.state = "none"
  BY DEF Adoption!Free, Adoption!Adopting, Adoption!NoTx, Adoption!Tx, Adoption!TxState
\* the adopter goes on with the same record, or ends
<1>g. ASSUME NEW w \in Worker,
             NEW stage \in {"idle", "create", "retire", "noteRetired", "stage", "copy", "noteStaged", "activate", "noteComplete"},
             Adoption!Goes(w, stage)
      PROVE  /\ adopting' \in [Worker -> Adoption!Adopting] /\ adopting'[w].at = stage /\ adopting'[w].tx = adopting[w].tx
             /\ \A v \in Worker \ {w} : adopting'[v] = adopting[v]
  <2>1. PICK a \in Adoption!Adopting : a = adopting[w]
    BY <1>0
  <2>2. PICK b : b = [a EXCEPT !.at = stage]
    OBVIOUS
  <2>3. b \in Adoption!Adopting /\ b.at = stage /\ b.tx = a.tx
    BY <2>2 DEF Adoption!Adopting
  <2>4. adopting' = [adopting EXCEPT ![w] = b]
    BY <1>g, <2>1, <2>2 DEF Adoption!Goes
  <2>5. QED BY <1>0, <2>1, <2>3, <2>4, AdopterGoes
<1>e. ASSUME NEW w \in Worker, Adoption!Ends(w)
      PROVE  /\ adopting' \in [Worker -> Adoption!Adopting] /\ adopting'[w].at = "idle"
             /\ \A v \in Worker \ {w} : adopting'[v] = adopting[v]
  BY <1>0, <1>i, <1>e, AdopterGoes DEF Adoption!Ends
\* the adopter is told of the record it writes
<1>n. ASSUME NEW w \in Worker, NEW state \in Adoption!TxState, Adoption!Id(w) \in Worker,
             NEW stage \in {"stage", "activate"}, Adoption!Note(w, state, stage)
      PROVE  /\ tx' \in Adoption!Tx /\ tx'.id = Adoption!Id(w) /\ tx'.state = state
             /\ adopting' \in [Worker -> Adoption!Adopting] /\ adopting'[w].at = stage /\ adopting'[w].tx = tx'
             /\ \A v \in Worker \ {w} : adopting'[v] = adopting[v]
  <2>1. tx' = [id |-> Adoption!Id(w), state |-> state] /\ tx' \in Adoption!Tx
    BY <1>n DEF Adoption!Note, Adoption!Tx
  <2>2. PICK b : b = [at |-> stage, tx |-> tx']
    OBVIOUS
  <2>3. b \in Adoption!Adopting /\ b.at = stage /\ b.tx = tx'
    BY <2>1, <2>2 DEF Adoption!Adopting
  <2>4. adopting' = [adopting EXCEPT ![w] = b]
    BY <1>n, <2>2 DEF Adoption!Note
  <2>5. QED BY <1>0, <2>1, <2>3, <2>4, AdopterGoes
<1>a. ASSUME NEW w \in Worker, adopting[w].at \in DOMAIN Stages
      PROVE  /\ Adoption!Id(w) \in Worker /\ Adoption!Id(w) = adopting[w].tx.id
             /\ ~met => /\ adopting[w].tx = tx /\ tx.state = Stages[adopting[w].at] /\ tx.id = Adoption!Id(w)
                        /\ \A v \in Worker \ {w} : adopting[v].at = "idle"
  BY <1>0, <1>a DEF IdsAreKnown, Ordered, Adoption!Id, Stages
<1> USE DEF Stages
<1>1. ASSUME NEW w \in Worker, Adoption!Begin(w) PROVE AdoptionInv'
  <2>1. /\ tx.state # "complete" /\ (met' <=> met \/ \E v \in Worker : adopting[v] # Adoption!Free)
        /\ adopting[w] = Adoption!Free
        /\ UNCHANGED <<standalone, retired, staging, native, tx, looked, unnoted, adoptionDeaths>>
    BY <1>1 DEF Adoption!Begin
  <2>2. PICK s \in Adoption!TxState \ {"complete"} : s = tx.state
    BY <1>0, <2>1 DEF Adoption!Tx
  <2>3. PICK b : b = [at |-> Adoption!Entry(s), tx |-> tx]
    OBVIOUS
  <2>4. Adoption!Entry(s) \in {"create", "retire", "stage", "activate"}
    BY <2>2 DEF Adoption!Entry, Adoption!TxState
  <2>5. /\ b \in Adoption!Adopting /\ b.tx = tx /\ b.at = Adoption!Entry(s)
        /\ b.at = "create" => s = "none"
        /\ b.at \in DOMAIN Stages => s = Stages[b.at]
    BY <1>0, <2>2, <2>3, <2>4 DEF Adoption!Adopting, Adoption!Entry, Adoption!TxState
  <2>6. adopting' = [adopting EXCEPT ![w] = b]
    BY <1>1, <2>2, <2>3 DEF Adoption!Begin
  <2>7. /\ adopting' \in [Worker -> Adoption!Adopting] /\ adopting'[w] = b
        /\ \A v \in Worker \ {w} : adopting'[v] = adopting[v]
    BY <1>0, <2>5, <2>6, AdopterGoes
  <2>8. met' \in BOOLEAN
    BY <1>1 DEF Adoption!Begin
  <2>9. Adoption!TypeOK'
    BY <1>0, <2>1, <2>7, <2>8 DEF Adoption!TypeOK
  <2>10. Adoption!StateIsKept' /\ Adoption!OneTruth' /\ MovesOneWay'
    BY <1>0, <2>1 DEF Adoption!StateIsKept, Adoption!OneTruth, MovesOneWay
  <2>11. IdsAreKnown'
    BY <1>0, <2>1, <2>2, <2>4, <2>5, <2>7 DEF IdsAreKnown, Adoption!Id
  <2>12. ASSUME ~met' PROVE Ordered'
    <3>1. ~met /\ \A v \in Worker : adopting[v].at = "idle"
      BY <1>i, <2>1, <2>12
    <3>2. b.at \notin {"noteStaged", "noteComplete"}
      BY <2>4, <2>5
    <3>3. QED BY <1>0, <2>1, <2>2, <2>5, <2>7, <3>1, <3>2 DEF Ordered, Adoption!Id
  <2>13. QED BY <2>9, <2>10, <2>11, <2>12 DEF AdoptionInv
<1>2. ASSUME NEW w \in Worker, Adoption!Create(w) PROVE AdoptionInv'
  <2>1. /\ adopting[w].at = "create" /\ tx' = [id |-> w, state |-> "prepared"]
        /\ UNCHANGED <<standalone, retired, staging, native, looked, met, unnoted, adoptionDeaths>>
    BY <1>2 DEF Adoption!Create
  <2>2. tx' \in Adoption!Tx /\ tx'.id = w /\ tx'.state = "prepared"
    BY <2>1 DEF Adoption!Tx, Adoption!TxState
  <2>3. PICK b : b = [at |-> "retire", tx |-> tx']
    OBVIOUS
  <2>4. b \in Adoption!Adopting /\ b.at = "retire" /\ b.tx = tx'
    BY <2>2, <2>3 DEF Adoption!Adopting
  <2>5. adopting' = [adopting EXCEPT ![w] = b]
    BY <1>2, <2>3 DEF Adoption!Create
  <2>6. /\ adopting' \in [Worker -> Adoption!Adopting] /\ adopting'[w] = b
        /\ \A v \in Worker \ {w} : adopting'[v] = adopting[v]
    BY <1>0, <2>4, <2>5, AdopterGoes
  <2>7. Adoption!TypeOK'
    BY <1>0, <2>1, <2>2, <2>6 DEF Adoption!TypeOK
  <2>8. Adoption!StateIsKept' /\ Adoption!OneTruth' /\ MovesOneWay'
    BY <1>0, <2>1 DEF Adoption!StateIsKept, Adoption!OneTruth, MovesOneWay
  <2>9. IdsAreKnown'
    BY <1>0, <2>2, <2>4, <2>6 DEF IdsAreKnown, Adoption!Id
  <2>10. ASSUME ~met' PROVE Ordered'
    <3>1. ~met /\ \A v \in Worker \ {w} : adopting[v].at = "idle"
      BY <1>0, <2>1, <2>10 DEF Ordered
    <3>2. QED BY <2>1, <2>2, <2>4, <2>6, <3>1 DEF Ordered
  <2>11. QED BY <2>7, <2>8, <2>9, <2>10 DEF AdoptionInv
<1>3. ASSUME NEW w \in Worker, Adoption!Retire(w) PROVE AdoptionInv'
  <2>1. /\ adopting[w].at = "retire" /\ UNCHANGED <<staging, native, tx, looked, met, unnoted, adoptionDeaths>>
        /\ \/ /\ standalone = "whole" /\ standalone' = "gone" /\ retired' = [retired EXCEPT ![Adoption!Id(w)] = "whole"]
              /\ Adoption!Goes(w, "noteRetired")
           \/ /\ Adoption!Goes(w, "noteRetired") \/ Adoption!Ends(w)
              /\ UNCHANGED <<standalone, retired>>
    BY <1>3 DEF Adoption!Retire
  <2>2. /\ adopting' \in [Worker -> Adoption!Adopting] /\ adopting'[w].at \in {"noteRetired", "idle"}
        /\ adopting'[w].at = "noteRetired" => adopting'[w].tx = adopting[w].tx
        /\ \A v \in Worker \ {w} : adopting'[v] = adopting[v]
    BY <1>e, <1>g, <2>1
  <2>3. Adoption!Id(w) \in Worker /\ retired' \in [Worker -> {"none", "whole"}] /\ standalone' \in {"whole", "gone"}
    BY <1>0, <1>a, <2>1
  <2>4. Adoption!TypeOK'
    BY <1>0, <2>1, <2>2, <2>3 DEF Adoption!TypeOK
  <2>5. Adoption!StateIsKept' /\ Adoption!OneTruth'
    BY <1>0, <2>1, <2>3 DEF Adoption!StateIsKept, Adoption!OneTruth
  <2>6. MovesOneWay'
    BY <1>0, <2>1, <2>3 DEF MovesOneWay
  <2>7. IdsAreKnown'
    BY <1>0, <1>a, <2>1, <2>2 DEF IdsAreKnown, Adoption!Id
  <2>8. ASSUME ~met' PROVE Ordered'
    <3>1. ~met /\ Ordered /\ adopting[w].tx = tx /\ tx.state = "prepared" /\ \A v \in Worker \ {w} : adopting[v].at = "idle"
      BY <1>0, <1>a, <2>1, <2>8
    <3>2. QED BY <2>1, <2>2, <3>1 DEF Ordered
  <2>9. QED BY <2>4, <2>5, <2>6, <2>7, <2>8 DEF AdoptionInv
<1>4. ASSUME NEW w \in Worker, Adoption!NoteRetired(w) PROVE AdoptionInv'
  <2>1. /\ adopting[w].at = "noteRetired" /\ Adoption!Note(w, "source_retired", "stage")
        /\ UNCHANGED <<standalone, retired, staging, native, looked, met, unnoted, adoptionDeaths>>
    BY <1>4 DEF Adoption!NoteRetired
  <2>2. /\ Adoption!Id(w) \in Worker /\ tx' \in Adoption!Tx /\ tx'.id = Adoption!Id(w) /\ tx'.state = "source_retired"
        /\ adopting' \in [Worker -> Adoption!Adopting] /\ adopting'[w].at = "stage" /\ adopting'[w].tx = tx'
        /\ \A v \in Worker \ {w} : adopting'[v] = adopting[v]
    BY <1>a, <1>n, <2>1 DEF Adoption!TxState
  <2>3. Adoption!TypeOK'
    BY <1>0, <2>1, <2>2 DEF Adoption!TypeOK
  <2>4. Adoption!StateIsKept' /\ Adoption!OneTruth' /\ MovesOneWay' /\ IdsAreKnown'
    BY <1>0, <2>1, <2>2 DEF Adoption!StateIsKept, Adoption!OneTruth, MovesOneWay, IdsAreKnown,
       Adoption!Id
  <2>5. ASSUME ~met' PROVE Ordered'
    <3>1. ~met /\ \A v \in Worker \ {w} : adopting[v].at = "idle"
      BY <1>a, <2>1, <2>5
    <3>2. QED BY <2>1, <2>2, <3>1 DEF Ordered
  <2>6. QED BY <2>3, <2>4, <2>5 DEF AdoptionInv
<1>5. ASSUME NEW w \in Worker, Adoption!Stage(w) PROVE AdoptionInv'
  <2>1. /\ adopting[w].at = "stage" /\ UNCHANGED <<standalone, retired, native, tx, looked, met, unnoted, adoptionDeaths>>
        /\ \/ retired[Adoption!Id(w)] = "whole" /\ staging' = [staging EXCEPT ![Adoption!Id(w)] = "partial"] /\ Adoption!Goes(w, "copy")
           \/ Adoption!Ends(w) /\ UNCHANGED staging
    BY <1>5 DEF Adoption!Stage
  <2>2. /\ adopting' \in [Worker -> Adoption!Adopting] /\ adopting'[w].at \in {"copy", "idle"}
        /\ adopting'[w].at = "copy" => adopting'[w].tx = adopting[w].tx
        /\ \A v \in Worker \ {w} : adopting'[v] = adopting[v]
    BY <1>e, <1>g, <2>1
  <2>3. Adoption!Id(w) \in Worker /\ staging' \in [Worker -> {"none", "partial", "whole"}]
    BY <1>0, <1>a, <2>1
  <2>4. Adoption!TypeOK'
    BY <1>0, <2>1, <2>2, <2>3 DEF Adoption!TypeOK
  <2>5. Adoption!StateIsKept' /\ Adoption!OneTruth' /\ MovesOneWay'
    BY <1>0, <2>1, <2>3 DEF Adoption!StateIsKept, Adoption!OneTruth, MovesOneWay
  <2>6. IdsAreKnown'
    BY <1>0, <1>a, <2>1, <2>2 DEF IdsAreKnown, Adoption!Id
  <2>7. ASSUME ~met' PROVE Ordered'
    <3>1. /\ ~met /\ Ordered /\ adopting[w].tx = tx /\ tx.state = "source_retired"
          /\ \A v \in Worker \ {w} : adopting[v].at = "idle"
      BY <1>0, <1>a, <2>1, <2>7
    <3>2. QED BY <2>1, <2>2, <3>1 DEF Ordered
  <2>8. QED BY <2>4, <2>5, <2>6, <2>7 DEF AdoptionInv
<1>6. ASSUME NEW w \in Worker, Adoption!Copy(w) PROVE AdoptionInv'
  <2>1. /\ adopting[w].at = "copy" /\ UNCHANGED <<standalone, retired, native, tx, looked, met, unnoted, adoptionDeaths>>
        /\ \/ Adoption!Ends(w) /\ UNCHANGED staging
           \/ staging[Adoption!Id(w)] # "none" /\ staging' = [staging EXCEPT ![Adoption!Id(w)] = "whole"] /\ Adoption!Goes(w, "noteStaged")
    BY <1>6 DEF Adoption!Copy
  <2>2. /\ adopting' \in [Worker -> Adoption!Adopting] /\ adopting'[w].at \in {"noteStaged", "idle"}
        /\ adopting'[w].at = "noteStaged" => adopting'[w].tx = adopting[w].tx /\ staging'[Adoption!Id(w)] = "whole"
        /\ \A v \in Worker \ {w} : adopting'[v] = adopting[v]
    BY <1>0, <1>a, <1>e, <1>g, <2>1
  <2>3. Adoption!Id(w) \in Worker /\ staging' \in [Worker -> {"none", "partial", "whole"}]
    BY <1>0, <1>a, <2>1
  <2>4. Adoption!TypeOK'
    BY <1>0, <2>1, <2>2, <2>3 DEF Adoption!TypeOK
  <2>5. Adoption!StateIsKept' /\ Adoption!OneTruth' /\ MovesOneWay'
    BY <1>0, <2>1, <2>3 DEF Adoption!StateIsKept, Adoption!OneTruth, MovesOneWay
  <2>6. IdsAreKnown'
    BY <1>0, <1>a, <2>1, <2>2 DEF IdsAreKnown, Adoption!Id
  <2>7. ASSUME ~met' PROVE Ordered'
    <3>1. /\ ~met /\ Ordered /\ adopting[w].tx = tx /\ tx.state = "source_retired" /\ Adoption!Id(w) = adopting[w].tx.id
          /\ \A v \in Worker \ {w} : adopting[v].at = "idle"
      BY <1>0, <1>a, <2>1, <2>7
    <3>2. QED BY <2>1, <2>2, <3>1 DEF Ordered, Adoption!Id
  <2>8. QED BY <2>4, <2>5, <2>6, <2>7 DEF AdoptionInv
<1>7. ASSUME NEW w \in Worker, Adoption!NoteStaged(w) PROVE AdoptionInv'
  <2>1. /\ adopting[w].at = "noteStaged" /\ Adoption!Note(w, "staged", "activate")
        /\ UNCHANGED <<standalone, retired, staging, native, looked, met, unnoted, adoptionDeaths>>
    BY <1>7 DEF Adoption!NoteStaged
  <2>2. /\ Adoption!Id(w) \in Worker /\ tx' \in Adoption!Tx /\ tx'.id = Adoption!Id(w) /\ tx'.state = "staged"
        /\ adopting' \in [Worker -> Adoption!Adopting] /\ adopting'[w].at = "activate" /\ adopting'[w].tx = tx'
        /\ \A v \in Worker \ {w} : adopting'[v] = adopting[v]
    BY <1>a, <1>n, <2>1 DEF Adoption!TxState
  <2>3. Adoption!TypeOK'
    BY <1>0, <2>1, <2>2 DEF Adoption!TypeOK
  <2>4. Adoption!StateIsKept' /\ Adoption!OneTruth' /\ MovesOneWay' /\ IdsAreKnown'
    BY <1>0, <2>1, <2>2 DEF Adoption!StateIsKept, Adoption!OneTruth, MovesOneWay, IdsAreKnown,
       Adoption!Id
  <2>5. ASSUME ~met' PROVE Ordered'
    <3>1. ~met /\ staging[Adoption!Id(w)] = "whole" /\ \A v \in Worker \ {w} : adopting[v].at = "idle"
      BY <1>0, <1>a, <2>1, <2>5 DEF Ordered
    <3>2. QED BY <2>1, <2>2, <3>1 DEF Ordered
  <2>6. QED BY <2>3, <2>4, <2>5 DEF AdoptionInv
<1>8. ASSUME NEW w \in Worker, Adoption!Activate(w) PROVE AdoptionInv'
  <2>1. /\ adopting[w].at = "activate" /\ UNCHANGED <<standalone, retired, tx, looked, met, unnoted, adoptionDeaths>>
        /\ \/ /\ staging[Adoption!Id(w)] # "none" /\ native = "empty" /\ native' = staging[Adoption!Id(w)]
              /\ staging' = [staging EXCEPT ![Adoption!Id(w)] = "none"] /\ Adoption!Goes(w, "noteComplete")
           \/ Adoption!Ends(w) /\ UNCHANGED <<native, staging>>
    BY <1>8 DEF Adoption!Activate
  <2>2. /\ adopting' \in [Worker -> Adoption!Adopting] /\ adopting'[w].at \in {"noteComplete", "idle"}
        /\ adopting'[w].at = "noteComplete" => adopting'[w].tx = adopting[w].tx /\ native' = staging[Adoption!Id(w)]
        /\ \A v \in Worker \ {w} : adopting'[v] = adopting[v]
    BY <1>e, <1>g, <2>1
  <2>3. /\ Adoption!Id(w) \in Worker /\ staging' \in [Worker -> {"none", "partial", "whole"}]
        /\ native' \in {"empty", "partial", "whole", "fresh"}
    BY <1>0, <1>a, <2>1
  <2>4. Adoption!TypeOK'
    BY <1>0, <2>1, <2>2, <2>3 DEF Adoption!TypeOK
  <2>5. Adoption!StateIsKept' /\ MovesOneWay'
    BY <1>0, <2>1, <2>3 DEF Adoption!StateIsKept, MovesOneWay
  <2>6. Adoption!OneTruth'
    BY <1>0, <2>1, <2>3 DEF Adoption!OneTruth, MovesOneWay
  <2>7. IdsAreKnown'
    BY <1>0, <1>a, <2>1, <2>2 DEF IdsAreKnown, Adoption!Id
  <2>8. ASSUME ~met' PROVE Ordered'
    <3>1. /\ ~met /\ Ordered /\ adopting[w].tx = tx /\ tx.state = "staged" /\ Adoption!Id(w) = tx.id
          /\ \A v \in Worker \ {w} : adopting[v].at = "idle"
      BY <1>0, <1>a, <2>1, <2>8
    <3>2. staging[Adoption!Id(w)] \in {"none", "whole"}
      BY <1>0, <2>3, <3>1 DEF Ordered
    <3>3. staging'[tx.id] # "partial" /\ (adopting'[w].at = "noteComplete" => native' = "whole")
      BY <1>e, <1>0, <2>1, <2>2, <2>3, <3>1, <3>2
    <3>4. QED BY <2>1, <2>2, <3>1, <3>3 DEF Ordered
  <2>9. QED BY <2>4, <2>5, <2>6, <2>7, <2>8 DEF AdoptionInv
<1>9. ASSUME NEW w \in Worker, Adoption!NoteComplete(w) PROVE AdoptionInv'
  <2>1. /\ adopting[w].at = "noteComplete" /\ Adoption!Ends(w)
        /\ UNCHANGED <<standalone, retired, staging, native, looked, met, unnoted, adoptionDeaths>>
    BY <1>9 DEF Adoption!NoteComplete
  <2>2. tx' \in Adoption!Tx /\ tx'.id = Adoption!Id(w) /\ tx'.state = "complete" /\ Adoption!Id(w) \in Worker
    <3>1. PICK t \in Adoption!Tx : t = adopting[w].tx
      BY <1>0 DEF Adoption!Adopting
    <3>2. tx' = [t EXCEPT !.state = "complete"]
      BY <1>9, <3>1 DEF Adoption!NoteComplete
    <3>3. tx' \in Adoption!Tx /\ tx'.id = t.id /\ tx'.state = "complete"
      BY <3>2 DEF Adoption!Tx, Adoption!TxState
    <3>4. QED BY <1>a, <2>1, <3>1, <3>3
  <2>3. /\ adopting' \in [Worker -> Adoption!Adopting] /\ adopting'[w].at = "idle"
        /\ \A v \in Worker \ {w} : adopting'[v] = adopting[v]
    BY <1>e, <2>1
  <2>4. Adoption!TypeOK'
    BY <1>0, <2>1, <2>2, <2>3 DEF Adoption!TypeOK
  <2>5. Adoption!StateIsKept' /\ Adoption!OneTruth' /\ MovesOneWay' /\ IdsAreKnown'
    BY <1>0, <2>1, <2>2, <2>3 DEF Adoption!StateIsKept, Adoption!OneTruth, MovesOneWay, IdsAreKnown,
       Adoption!Id
  <2>6. ASSUME ~met' PROVE Ordered'
    <3>1. ~met /\ native = "whole" /\ \A v \in Worker \ {w} : adopting[v].at = "idle"
      BY <1>0, <1>a, <2>1, <2>6 DEF Ordered
    <3>2. QED BY <2>1, <2>2, <2>3, <3>1 DEF Ordered
  <2>7. QED BY <2>4, <2>5, <2>6 DEF AdoptionInv
<1>10. ASSUME Adoption!InitializeNative PROVE AdoptionInv'
  <2>1. /\ native' = (IF native = "empty" THEN "fresh" ELSE native) /\ looked' \in BOOLEAN
        /\ UNCHANGED <<standalone, retired, staging, tx, adopting, met, unnoted, adoptionDeaths>>
    BY <1>10 DEF Adoption!InitializeNative
  <2>2. native' \in {"empty", "partial", "whole", "fresh"} /\ (native = "whole" => native' = "whole")
    BY <1>0, <2>1
  <2>3. standalone = "whole" => native' = "empty"
    BY <1>10, <1>0 DEF Adoption!InitializeNative, MovesOneWay
  <2>4. Adoption!TypeOK' /\ Adoption!StateIsKept' /\ Adoption!OneTruth' /\ MovesOneWay' /\ IdsAreKnown'
    BY <1>0, <2>1, <2>2, <2>3 DEF Adoption!TypeOK, Adoption!StateIsKept, Adoption!OneTruth,
       MovesOneWay, IdsAreKnown, Adoption!Id
  <2>5. ~met' => Ordered'
    BY <1>0, <2>1, <2>2 DEF Ordered, Adoption!Id
  <2>6. QED BY <2>4, <2>5 DEF AdoptionInv
<1>14. ASSUME Adoption!LookForNative PROVE AdoptionInv'
  <2>1. /\ looked' \in BOOLEAN /\ standalone = "gone"
        /\ UNCHANGED <<standalone, retired, staging, native, tx, adopting, met, unnoted, adoptionDeaths>>
    BY <1>14 DEF Adoption!LookForNative
  <2>2. Adoption!TypeOK' /\ Adoption!StateIsKept' /\ Adoption!OneTruth' /\ MovesOneWay' /\ IdsAreKnown'
    BY <1>0, <2>1 DEF Adoption!TypeOK, Adoption!StateIsKept, Adoption!OneTruth, MovesOneWay,
       IdsAreKnown, Adoption!Id
  <2>3. ~met' => Ordered'
    BY <1>0, <2>1 DEF Ordered, Adoption!Id
  <2>4. QED BY <2>2, <2>3 DEF AdoptionInv
<1>11. ASSUME NEW w \in Worker, Adoption!Die(w) PROVE AdoptionInv'
  <2>1. /\ Adoption!Ends(w) /\ UNCHANGED <<standalone, retired, staging, native, tx, looked, met>>
        /\ adoptionDeaths' \in 0 .. MaxAdoptionDeaths /\ unnoted' \in BOOLEAN
    BY <1>0, <1>11, RecoveryAssumption DEF Adoption!Die
  <2>2. /\ adopting' \in [Worker -> Adoption!Adopting] /\ adopting'[w].at = "idle"
        /\ \A v \in Worker \ {w} : adopting'[v] = adopting[v]
    BY <1>e, <2>1
  <2>3. Adoption!TypeOK'
    BY <1>0, <2>1, <2>2 DEF Adoption!TypeOK
  <2>4. Adoption!StateIsKept' /\ Adoption!OneTruth' /\ MovesOneWay' /\ IdsAreKnown'
    BY <1>0, <2>1, <2>2 DEF Adoption!StateIsKept, Adoption!OneTruth, MovesOneWay, IdsAreKnown,
       Adoption!Id
  <2>5. ~met' => Ordered'
    BY <1>0, <2>1, <2>2 DEF Ordered, Adoption!Id
  <2>6. QED BY <2>3, <2>4, <2>5 DEF AdoptionInv
<1>12. CASE UNCHANGED Adoption!vars
  BY <1>0, <1>12 DEF Adoption!vars, AdoptionInv, Adoption!TypeOK, Adoption!StateIsKept,
     Adoption!OneTruth, MovesOneWay, IdsAreKnown, Ordered, Adoption!Id
<1>13. QED
  BY <1>14, <1>1, <1>2, <1>3, <1>4, <1>5, <1>6, <1>7, <1>8, <1>9, <1>10, <1>11, <1>12
     DEF Adoption!Next, Adoption!Step

(***************************************************************************)
(* The parts together                                                      *)
(***************************************************************************)

\* The steps of either part, or none of its.
LEMMA RecoveryInvariant == RecoverySteps => [](IntentsInv /\ AdoptionInv)
<1>1. RecoveryInit => IntentsInv /\ AdoptionInv
  BY IntentsStart, AdoptionStart DEF RecoveryInit
<1>2. [RecoveryNext]_recoveryVars => [Intents!Next]_Intents!vars /\ [Adoption!Next]_Adoption!vars
  BY DEF RecoveryNext, recoveryVars, intentVars, adoptionVars, Intents!vars, Adoption!vars
<1>3. IntentsInv /\ AdoptionInv /\ [RecoveryNext]_recoveryVars => (IntentsInv /\ AdoptionInv)'
  BY <1>2, IntentsKept, AdoptionKept
<1>4. QED
  BY <1>1, <1>3, PTL DEF RecoverySteps

\* intent_owner.py:51: at most one current intent takes the place of another, however many
\* operations correct it at once, wherever their calls are cut short and sent again, and
\* whatever other writers do to the intents meanwhile.
THEOREM OneSuccessorStands == RecoverySpec => []OneSuccessor
<1>1. IntentsInv => OneSuccessor
  BY IntentsBounded DEF IntentsInv, OneSuccessor
<1>2. QED
  BY <1>1, RecoveryInvariant, PTL DEF RecoverySpec

\* adoption.py:169: wherever an adoption is cut short, the standalone state is somewhere whole;
\* it is never writable next to a native one, and what is recorded as adopted is the whole of
\* it, but for two adopters that met.
THEOREM AdoptionStands == RecoverySpec => []AdoptionIsSafe
<1>1. AdoptionInv => AdoptionIsSafe
  BY DEF AdoptionInv, Ordered, AdoptionIsSafe, Adoption!AdoptedIsWhole
<1>2. QED
  BY <1>1, RecoveryInvariant, PTL DEF RecoverySpec
=============================================================================
