------------------------------- MODULE Intents -------------------------------
(***************************************************************************)
(* Capture and correction of strategic intents in one scope                *)
(* (IntentOwnerService in intent_owner.py), and the other writers of an    *)
(* intent, BrainController's transition and workspace links, which do not  *)
(* take the service's lock.                                                *)
(*                                                                         *)
(* An operation creates at most one intent, its candidate, so candidates   *)
(* bear the name of their operation; Origin is a current intent from       *)
(* before.  The scope lock lets one call in at a time: capturing is that   *)
(* call, and callers that wait are not modelled.  A call whose process     *)
(* died leaves the lock to expire; then the next call gets in.  A request  *)
(* that is refused before it wrote anything is not a step.                 *)
(***************************************************************************)
EXTENDS Naturals, FiniteSets

CONSTANTS Operation,   \* operation ids of capture requests
          Origin, None,
          MaxRevision, \* bound on the edits of an intent by others
          MaxCaptureCrashes

VARIABLES intent,    \* status, revision, and whether it is linked to a workspace
          request,   \* per operation: what it corrects, at which revision, and whose word it is
          capturing, \* the call in the scope lock
          captureCrashes

vars == <<intent, request, capturing, captureCrashes>>

Intent == Operation \cup {Origin}
Current == {"CONFIRMED", "ACTIVE", "PAUSED"}
IntentStatus == Current \cup {"none", "PROPOSED", "ACHIEVED", "ABANDONED", "SUPERSEDED"}

\* the rows of _TRANSITIONS for intent
Onward == [s \in IntentStatus |->
  CASE s = "PROPOSED" -> {"CONFIRMED", "ABANDONED"}
    [] s = "CONFIRMED" -> {"ACTIVE", "ABANDONED", "SUPERSEDED"}
    [] s = "ACTIVE" -> {"PAUSED", "ACHIEVED", "ABANDONED", "SUPERSEDED"}
    [] s = "PAUSED" -> {"ACTIVE", "ABANDONED", "SUPERSEDED"}
    [] OTHER -> {}]

NoCall == [op |-> None, at |-> "idle", held |-> None, links |-> FALSE]
Call == [op : Operation \cup {None}, at : {"idle", "supersede", "confirm", "activate", "link"},
         held : Intent \cup {None, "outdated"}, links : BOOLEAN]

Unsent == [corrects |-> None, expected |-> 0, explicit |-> FALSE]

Init ==
  /\ intent = [i \in Intent |->
       IF i = Origin THEN [status |-> "ACTIVE", revision |-> 1, linked |-> FALSE]
                     ELSE [status |-> "none", revision |-> 0, linked |-> FALSE]]
  /\ request = [o \in Operation |-> Unsent]
  /\ capturing = NoCall
  /\ captureCrashes = 0

Prior(o) == request[o].corrects

\* Saving i makes the copy a call holds of it outdated.
Noticed(i, c) == IF c.held = i THEN [c EXCEPT !.held = "outdated"] ELSE c

Bumped(i) == [intent[i] EXCEPT !.revision = @ + 1]

-----------------------------------------------------------------------------
\* capture

\* Mutant: a candidate that is still a proposal is taken for a finished one.
EntryFinished(s, links) ==
  CASE s = "CONFIRMED" -> "activate"
    [] OTHER -> IF links THEN "link" ELSE "idle"

\* Where _activate begins, by the candidate's status s.
Entry(s, links) ==
  CASE s = "PROPOSED" -> "confirm"
    [] s = "CONFIRMED" -> "activate"
    [] OTHER -> IF links THEN "link" ELSE "idle"

Enter(o, at, links) ==
  IF at = "idle" THEN NoCall
  ELSE [op |-> o, at |-> at, held |-> IF at = "link" THEN o ELSE None, links |-> links]

\* A declaration, or a correction of a current intent p whose revision the
\* caller has read; a word of the user's own, or a host's inference, which
\* stays a proposal and corrects nothing.
Capture(o, p, explicit) ==
  /\ capturing = NoCall /\ intent[o].status = "none"
  /\ p # None => explicit /\ intent[p].status \in Current
  /\ request' = [request EXCEPT ![o] =
       [corrects |-> p, expected |-> IF p = None THEN 0 ELSE intent[p].revision, explicit |-> explicit]]
  /\ intent' = [intent EXCEPT ![o] = [status |-> "PROPOSED", revision |-> 1, linked |-> FALSE]]
  /\ capturing' = IF ~explicit THEN NoCall
                  ELSE IF p = None THEN Enter(o, "confirm", FALSE)
                  ELSE Enter(o, "supersede", intent[p].linked)
  /\ UNCHANGED captureCrashes

\* Mutant: only active intents count as having taken the place.
ActiveRivals(o, p) == {q \in Operation \ {o} : intent[q].status = "ACTIVE" /\ Prior(q) = p}

\* other current intents that took the place of p
Rivals(o, p) == {q \in Operation \ {o} : intent[q].status \in Current /\ Prior(q) = p}

\* _resume_or_return: the same request again
Resume(o) ==
  /\ capturing = NoCall
  /\ request[o].explicit
  /\ LET p == Prior(o)
     IN  \/ /\ p = None /\ intent[o].status = "PROPOSED"
            /\ capturing' = Enter(o, "confirm", FALSE)
         \/ /\ p # None /\ intent[p].status = "SUPERSEDED" /\ Rivals(o, p) = {}
            /\ capturing' = Enter(o, Entry(intent[o].status, intent[p].linked), intent[p].linked)
         \/ /\ p # None /\ intent[p].status # "SUPERSEDED" /\ intent[p].revision = request[o].expected
            /\ capturing' = Enter(o, "supersede", intent[p].linked)
  /\ UNCHANGED <<intent, request, captureCrashes>>

\* The transitions of _activate load, judge and save the object afresh.
Ask == [supersede |-> "SUPERSEDED", confirm |-> "CONFIRMED", activate |-> "ACTIVE"]
Object(c) == IF c.at = "supersede" THEN Prior(c.op) ELSE c.op

LoadIntent ==
  /\ capturing.at \in DOMAIN Ask /\ capturing.held = None
  /\ Ask[capturing.at] \in Onward[intent[Object(capturing)].status]
  /\ capturing' = [capturing EXCEPT !.held = Object(capturing)]
  /\ UNCHANGED <<intent, request, captureCrashes>>

SaveIntent ==
  /\ capturing.at \in DOMAIN Ask /\ capturing.held = Object(capturing)
  /\ intent' = [intent EXCEPT ![capturing.held] = [Bumped(capturing.held) EXCEPT !.status = Ask[capturing.at]]]
  /\ capturing' = LET o == capturing.op
                  IN  CASE capturing.at = "supersede" -> Enter(o, Entry(intent[o].status, capturing.links), capturing.links)
                        [] capturing.at = "confirm" -> Enter(o, "activate", capturing.links)
                        [] OTHER -> Enter(o, IF capturing.links THEN "link" ELSE "idle", capturing.links)
  /\ UNCHANGED <<request, captureCrashes>>

\* The prior's workspace link is given to the candidate, at the revision the
\* call knows.
Relink ==
  /\ capturing.at = "link" /\ capturing.held = capturing.op
  /\ intent[capturing.op].status \in Current
  /\ intent' = IF intent[capturing.op].linked THEN intent
               ELSE [intent EXCEPT ![capturing.op] = [Bumped(capturing.op) EXCEPT !.linked = TRUE]]
  /\ capturing' = NoCall
  /\ UNCHANGED <<request, captureCrashes>>

\* an exception: a transition that is not allowed, or another revision
RefuseCapture ==
  /\ \/ capturing.held = "outdated"
     \/ /\ capturing.at \in DOMAIN Ask /\ capturing.held = None
        /\ Ask[capturing.at] \notin Onward[intent[Object(capturing)].status]
     \/ capturing.at = "link" /\ intent[capturing.op].status \notin Current
  /\ capturing' = NoCall
  /\ UNCHANGED <<intent, request, captureCrashes>>

CaptureCrash ==
  /\ capturing # NoCall
  /\ captureCrashes < MaxCaptureCrashes /\ captureCrashes' = captureCrashes + 1
  /\ capturing' = NoCall
  /\ UNCHANGED <<intent, request>>

-----------------------------------------------------------------------------
\* Other writers

\* BrainController.transition, by the user's hand: a host's inference is
\* confirmed here, the user's own words are confirmed by the service.
ChangeStatus(i, target) ==
  /\ target \in Onward[intent[i].status] \ {"SUPERSEDED"}
  /\ target = "CONFIRMED" => ~request[i].explicit
  /\ intent[i].revision < MaxRevision
  /\ intent' = [intent EXCEPT ![i] = [Bumped(i) EXCEPT !.status = target]]
  /\ capturing' = Noticed(i, capturing)
  /\ UNCHANGED <<request, captureCrashes>>

\* link_workspace_intent and unlink_workspace_intent
ChangeLink(i) ==
  /\ intent[i].status \in Current
  /\ intent[i].revision < MaxRevision
  /\ intent' = [intent EXCEPT ![i] = [Bumped(i) EXCEPT !.linked = ~@]]
  /\ capturing' = Noticed(i, capturing)
  /\ UNCHANGED <<request, captureCrashes>>

CaptureStep == LoadIntent \/ SaveIntent \/ Relink \/ RefuseCapture

Next ==
  \/ \E o \in Operation :
       \/ \E p \in Intent \cup {None}, explicit \in BOOLEAN : Capture(o, p, explicit)
       \/ Resume(o)
  \/ CaptureStep \/ CaptureCrash
  \/ \E i \in Intent : ChangeLink(i) \/ \E target \in IntentStatus : ChangeStatus(i, target)

Spec == Init /\ [][Next]_vars

\* The process goes on, and a user whose correction was cut short sends it again.
Fairness ==
  /\ WF_vars(CaptureStep)
  /\ \A o \in Operation : SF_vars(Resume(o))

-----------------------------------------------------------------------------

TypeOK ==
  /\ intent \in [Intent -> [status : IntentStatus, revision : Nat, linked : BOOLEAN]]
  /\ request \in [Operation -> [corrects : Intent \cup {None}, expected : Nat, explicit : BOOLEAN]]
  /\ capturing \in Call
  /\ captureCrashes \in 0 .. MaxCaptureCrashes

\* intent_owner.py:51: competing operation ids cannot both supersede the
\* same intent, however their calls are cut short and resent.
OneSuccessor ==
  \A p \in Intent : Cardinality({o \in Operation : Prior(o) = p /\ intent[o].status \in Current}) <= 1

\* A correction that retired its intent and was then cut short ends when it
\* is sent again, unless another one took its place or it was abandoned.
CorrectionEnds ==
  \A o \in Operation :
    (Prior(o) # None /\ intent[o].status = "PROPOSED" /\ intent[Prior(o)].status = "SUPERSEDED")
      ~> (intent[o].status # "PROPOSED" \/ Rivals(o, Prior(o)) # {})

\* README.md:205: stale corrections fail closed.  A correction that takes
\* effect is then one of an intent that nobody else has corrected: no two
\* current intents go back to one.
Roots[i \in Intent] == IF i = Origin \/ Prior(i) = None THEN i ELSE Roots[Prior(i)]
StaleCorrectionsFail ==
  \A i, j \in Intent :
    intent[i].status \in Current /\ intent[j].status \in Current /\ Roots[i] = Roots[j] => i = j
=============================================================================
