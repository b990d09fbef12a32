------------------------------- MODULE Proposals -------------------------------
(***************************************************************************)
(* Applying what a model proposes (ProposalApplier in proposal_apply.py)   *)
(* and routing an improvement candidate to its owner (improvement.py).     *)
(* One proposal, of the kind Init picks, is applied again and again: a     *)
(* trigger that is retried, two sessions with the same finding.  Applying  *)
(* looks for an object that says the same and creates one if there is      *)
(* none, in two steps and without a lock; a learning is then saved a       *)
(* second time with the references it is recognised by.  A belief is       *)
(* looked at with its content, which freshness.py doubts and refreshes:    *)
(* one in doubt is passed over, and made again.  Opportunities and         *)
(* initiatives have a lock of their own (Initiatives).  A candidate whose  *)
(* owner is the Brain itself is not sent anywhere and not modelled.        *)
(***************************************************************************)
EXTENDS Naturals, FiniteSets

CONSTANTS Copy,     \* ids of the objects that are created
          Worker, None, MaxApplyCalls, MaxApplyCrashes,
          MaxRevivals \* bound on the beliefs that come back in force next to another

VARIABLES kind,       \* of the proposal
          copy,       \* status of each object, whether its source_refs are the proposal's, and
                      \* whether its epistemic_state is one of doubt: stale or contradicted
          grounds,    \* the references of the proposal resolve
          applying,   \* what each worker is doing
          candidate,  \* status of the improvement candidate
          deliveries, \* writes of the candidate that its owner has accepted
          crossed,    \* objects created, or candidates delivered, next to another call's
          unmarked,   \* learnings, or deliveries, whose second save never came
          revived,    \* beliefs that came back in force next to one made in their absence
          applyCalls, applyCrashes

vars == <<kind, copy, grounds, applying, candidate, deliveries, crossed, unmarked, revived,
          applyCalls, applyCrashes>>

\* a transient candidate has no owner
Candidates == {"learning_candidate", "transient"}
Kind == {"gap", "objective", "model_belief", "learning"} \cup Candidates
Opening == [gap |-> "ACTIVE", objective |-> "QUEUED", model_belief |-> "ACTIVE", learning |-> "OBSERVATION"]

\* Where the rest of the system takes such an object.  RUNNING and PATTERN stand for what
\* follows the opening status and is still the same to a look, RESOLVED, CANCELLED and
\* REJECTED for what is not and leads nowhere.
Onward == {<<"gap", "ACTIVE", "RESOLVED">>,
           <<"objective", "QUEUED", "RUNNING">>, <<"objective", "QUEUED", "CANCELLED">>,
           <<"objective", "RUNNING", "CANCELLED">>,
           <<"model_belief", "ACTIVE", "CONTRADICTED">>, <<"model_belief", "CONTRADICTED", "ACTIVE">>,
           <<"model_belief", "ACTIVE", "RETIRED">>, <<"model_belief", "CONTRADICTED", "RETIRED">>,
           <<"learning", "OBSERVATION", "PATTERN">>, <<"learning", "PATTERN", "REJECTED">>}
CopyStatus == {"none", "ACTIVE", "RESOLVED", "QUEUED", "RUNNING", "CANCELLED", "CONTRADICTED", "RETIRED",
               "OBSERVATION", "PATTERN", "REJECTED"}
CopyState == [status : CopyStatus, marked : BOOLEAN, doubted : BOOLEAN]
Nothing == [status |-> "none", marked |-> FALSE, doubted |-> FALSE]

\* the objects that a look takes for the same
Comparable(c) ==
  CASE kind = "objective" -> c.status \notin {"none", "PASSED", "CANCELLED", "SUPERSEDED"}
    [] kind = "learning" -> c.status \notin {"none", "REJECTED", "PROMOTED"}
    [] OTHER -> c.status = "ACTIVE" /\ ~c.doubted

Free == [at |-> "idle", on |-> None, current |-> FALSE, crossed |-> FALSE]
Applying == [at : {"idle", "create", "mark", "send", "note", "retire"}, on : Copy \cup {None},
             current : BOOLEAN, crossed : BOOLEAN]

Init ==
  /\ kind \in Kind
  /\ copy = [x \in Copy |-> Nothing]
  /\ grounds = TRUE
  /\ applying = [w \in Worker |-> Free]
  /\ candidate = IF kind \in Candidates THEN "CANDIDATE" ELSE "none"
  /\ deliveries = 0 /\ crossed = 0 /\ unmarked = 0 /\ revived = 0
  /\ applyCalls = 0 /\ applyCrashes = 0

Counted == applyCalls < MaxApplyCalls /\ applyCalls' = applyCalls + 1

\* Something was created or delivered that the calls between their look and
\* their own write have not seen.
Overlapping(w, next, stage) ==
  [v \in Worker |-> IF v = w THEN next
                    ELSE [applying[v] EXCEPT !.crossed = @ \/ applying[v].at = stage]]
\* calls that have written what only their second save lets others see
Underway == {w \in Worker : applying[w].at \in {"mark", "note"}}
Cross(w) == crossed' = IF applying[w].crossed THEN crossed + 1 ELSE crossed
\* what applies to the proposal, marked or not
Live == {x \in Copy : Comparable(copy[x])}

-----------------------------------------------------------------------------
\* apply

\* Mutant: only an object that nobody has moved on counts as the same.
SameUnstarted(x) == copy[x].status = Opening[kind] /\ ~copy[x].doubted /\ copy[x].marked

Same(x) == Comparable(copy[x]) /\ copy[x].marked

\* _existing_exact, after the references resolved; a duplicate is answered
\* with the object that is there.
Scan(w) ==
  /\ applying[w] = Free /\ Counted
  /\ kind \notin Candidates
  /\ kind \in {"gap", "objective"} => grounds
  /\ applying' = IF \E x \in Copy : Same(x) THEN applying
                 ELSE [applying EXCEPT ![w] = [Free EXCEPT !.at = "create", !.crossed = Underway # {}]]
  /\ UNCHANGED <<kind, copy, grounds, candidate, deliveries, crossed, unmarked, revived, applyCrashes>>

Create(w, x) ==
  /\ applying[w].at = "create" /\ copy[x].status = "none"
  /\ copy' = [copy EXCEPT ![x] = [status |-> Opening[kind], marked |-> kind # "learning", doubted |-> FALSE]]
  /\ applying' = Overlapping(w, IF kind = "learning"
                                THEN [applying[w] EXCEPT !.at = "mark", !.on = x, !.current = TRUE] ELSE Free, "create")
  /\ IF kind = "learning" THEN UNCHANGED crossed ELSE Cross(w)
  /\ UNCHANGED <<kind, grounds, candidate, deliveries, unmarked, revived, applyCalls, applyCrashes>>

\* the second save of a learning, at the revision it was created with
Mark(w) ==
  /\ applying[w].at = "mark"
  /\ IF applying[w].current
     THEN copy' = [copy EXCEPT ![applying[w].on].marked = TRUE] /\ Cross(w) /\ UNCHANGED unmarked
     ELSE unmarked' = unmarked + 1 /\ UNCHANGED <<copy, crossed>>
  /\ applying' = Overlapping(w, Free, "create")
  /\ UNCHANGED <<kind, grounds, candidate, deliveries, revived, applyCalls, applyCrashes>>

-----------------------------------------------------------------------------
\* ImprovementCandidateService.route

Route(w) ==
  /\ applying[w] = Free /\ Counted
  /\ candidate = "CANDIDATE"
  /\ applying' = [applying EXCEPT ![w] =
       [Free EXCEPT !.at = IF kind = "transient" THEN "retire" ELSE "send", !.current = TRUE, !.crossed = Underway # {}]]
  /\ UNCHANGED <<kind, copy, grounds, candidate, deliveries, crossed, unmarked, revived, applyCrashes>>

\* write_route: the owner accepts, or the host raises
Send(w, accepted) ==
  /\ applying[w].at = "send"
  /\ deliveries' = IF accepted THEN deliveries + 1 ELSE deliveries
  /\ applying' = IF accepted THEN Overlapping(w, [applying[w] EXCEPT !.at = "note"], "send")
                             ELSE [applying EXCEPT ![w] = Free]
  /\ IF accepted THEN Cross(w) ELSE UNCHANGED crossed
  /\ UNCHANGED <<kind, copy, grounds, candidate, unmarked, revived, applyCalls, applyCrashes>>

NoteRouted(w) ==
  /\ applying[w].at \in {"note", "retire"}
  /\ candidate' = IF ~applying[w].current THEN candidate
                  ELSE IF applying[w].at = "note" THEN "ROUTED" ELSE "RETIRED"
  /\ applying' = [v \in Worker |-> IF v = w THEN Free ELSE [applying[v] EXCEPT !.current = FALSE]]
  /\ UNCHANGED <<kind, copy, grounds, deliveries, crossed, unmarked, revived, applyCalls, applyCrashes>>

-----------------------------------------------------------------------------
\* The rest of the system

\* A save of an object makes the copy held of it outdated.  A belief that is in force again
\* is one that a call between its look and its own write has not seen.
Outdated(a, x, back) == [a EXCEPT !.current = @ /\ a.on # x, !.crossed = @ \/ (back /\ a.at = "create")]
Returns(x, c) == Comparable(c) /\ ~Comparable(copy[x])
Changed(x, c) ==
  /\ copy' = [copy EXCEPT ![x] = c]
  /\ applying' = [w \in Worker |-> Outdated(applying[w], x, Returns(x, c))]
  /\ IF Returns(x, c) /\ Live # {} THEN revived < MaxRevivals /\ revived' = revived + 1 ELSE UNCHANGED revived
  /\ UNCHANGED <<kind, grounds, candidate, deliveries, crossed, unmarked, applyCalls, applyCrashes>>

\* a transition, contradiction and refresh of a belief with theirs, and add_evidence of a learning
MoveOn(x, status) ==
  /\ <<kind, copy[x].status, status>> \in Onward
  /\ Changed(x, [copy[x] EXCEPT !.status = status])

Held(x) == kind = "model_belief" /\ copy[x].status \notin {"none", "RETIRED"}

\* review finds a belief stale, or mark_contradicted saves what speaks against it; the status
\* stays, or follows in a transition of its own
Doubt(x) == Held(x) /\ Changed(x, [copy[x] EXCEPT !.doubted = TRUE])

\* refresh saves the new evidence; a contradicted one then becomes ACTIVE in a transition
Refresh(x) == Held(x) /\ Changed(x, [copy[x] EXCEPT !.doubted = FALSE])

\* the intent, belief or initiative behind the proposal leaves play, or comes back
ChangeGrounds ==
  /\ kind \in {"gap", "objective"}
  /\ grounds' = ~grounds
  /\ UNCHANGED <<kind, copy, applying, candidate, deliveries, crossed, unmarked, revived, applyCalls, applyCrashes>>

Die(w) ==
  /\ applying[w] # Free
  /\ applyCrashes < MaxApplyCrashes /\ applyCrashes' = applyCrashes + 1
  /\ applying' = [applying EXCEPT ![w] = Free]
  /\ unmarked' = IF applying[w].at \in {"mark", "note"} THEN unmarked + 1 ELSE unmarked
  /\ UNCHANGED <<kind, copy, grounds, candidate, deliveries, crossed, revived, applyCalls>>

Next ==
  \/ \E w \in Worker :
       \/ Scan(w) \/ Mark(w) \/ Route(w) \/ NoteRouted(w) \/ Die(w)
       \/ \E x \in Copy : Create(w, x)
       \/ \E accepted \in BOOLEAN : Send(w, accepted)
  \/ \E x \in Copy : Doubt(x) \/ Refresh(x) \/ \E status \in CopyStatus : MoveOn(x, status)
  \/ ChangeGrounds

Spec == Init /\ [][Next]_vars

-----------------------------------------------------------------------------

TypeOK ==
  /\ kind \in Kind
  /\ copy \in [Copy -> CopyState]
  /\ grounds \in BOOLEAN
  /\ applying \in [Worker -> Applying]
  /\ candidate \in {"none", "CANDIDATE", "ROUTED", "RETIRED"}
  /\ deliveries \in Nat /\ crossed \in Nat /\ unmarked \in Nat /\ revived \in 0 .. MaxRevivals
  /\ applyCalls \in 0 .. MaxApplyCalls /\ applyCrashes \in 0 .. MaxApplyCrashes

\* However often a proposal is applied, one object in force says what it says
\* and one write of a candidate reaches its owner.  There is one more for each
\* call that looked before another one had written or a refresh had saved, for
\* each that was cut short before the save by which the next one would have
\* known, and for each belief that a refresh puts back in force after its place
\* was taken: in doubt it is passed over, and the proposal makes another.
AppliedOnce ==
  Cardinality(Live) + deliveries <= 1 + crossed + unmarked + revived + Cardinality(Underway)
=============================================================================
