------------------------------ MODULE Initiatives ------------------------------
(***************************************************************************)
(* From a gap to an initiative (DirectionService in direction.py): an      *)
(* opportunity is proposed once per fingerprint, qualified, and consumed   *)
(* by the initiative that is made of it; initiatives take places under the *)
(* attention policy (controller.py).  One gap, and opportunities of one    *)
(* fingerprint; Elder is an initiative made of something else.             *)
(*                                                                         *)
(* Proposing holds the lock of the fingerprint, qualifying and moving by   *)
(* hand do not.  A transition is a step that loads and judges and a step   *)
(* that saves; a caller's process can die between any two of its steps,    *)
(* and its lock is left to expire.                                         *)
(***************************************************************************)
EXTENDS Naturals, FiniteSets

CONSTANTS Opportunity, Initiative, Gap, Elder,
          Worker, None,
          WipCap,      \* attention.max_active_initiatives
          Cooldown,    \* attention.dismissal_cooldown_hours, in days
          LastDay, MaxProposalCalls, MaxProposalCrashes

Made == Initiative \ {Elder}
Item == Opportunity \cup Initiative \cup {Gap}

VARIABLES status,     \* of each item; "none" until it is created
          source,     \* the opportunity an initiative was made of
          eligible,   \* opportunities whose ranking passed every gate
          settled,    \* the day an item got its status
          day,
          proposing,  \* what each worker is doing
          fence,      \* who holds the lock of the fingerprint
          overtaken,  \* initiatives activated on a count that another one outdated
          cutShort,   \* calls that ended between making an initiative and consuming its opportunity
          proposalCalls, proposalCrashes

vars == <<status, source, eligible, settled, day, proposing, fence, overtaken,
          cutShort, proposalCalls, proposalCrashes>>

Closed == {"REJECTED", "ABANDONED", "SUPERSEDED", "COMPLETED"}

\* _TRANSITIONS.  COMPLETED is missing from REVIEW: it asks for evaluation_refs,
\* and nothing in the code ever gives an initiative any.
OpportunityMoves ==
  [none |-> {},
   DETECTED |-> {"DISMISSED", "EXPIRED", "WATCHING", "QUALIFIED"},
   WATCHING |-> {"DISMISSED", "EXPIRED", "QUALIFIED"},
   QUALIFIED |-> {"PROPOSED_INITIATIVE", "DISMISSED", "EXPIRED"},
   PROPOSED_INITIATIVE |-> {}, DISMISSED |-> {}, EXPIRED |-> {}]
InitiativeMoves ==
  [none |-> {}, DISCOVERED |-> {"PROPOSED"},
   PROPOSED |-> {"REJECTED", "DEFERRED", "ACCEPTED"},
   DEFERRED |-> {"PROPOSED", "REJECTED"},
   ACCEPTED |-> {"ACTIVE", "PAUSED", "ABANDONED"},
   ACTIVE |-> {"WAITING", "BLOCKED", "STALLED", "PAUSED", "REVIEW"},
   WAITING |-> {"ACTIVE", "BLOCKED", "PAUSED", "REVIEW"},
   BLOCKED |-> {"ACTIVE", "PAUSED", "ABANDONED", "REVIEW"},
   STALLED |-> {"ACTIVE", "PAUSED", "ABANDONED", "REVIEW"},
   PAUSED |-> {"ACTIVE", "ABANDONED", "SUPERSEDED"},
   REVIEW |-> {"ACTIVE", "ABANDONED", "SUPERSEDED"},
   REJECTED |-> {}, ABANDONED |-> {}, SUPERSEDED |-> {}]
GapMoves == [ACTIVE |-> {"RESOLVED", "INVALIDATED"}, RESOLVED |-> {}, INVALIDATED |-> {}]

Moves(i) == CASE i \in Opportunity -> OpportunityMoves[status[i]]
              [] i \in Initiative -> InitiativeMoves[status[i]]
              [] OTHER -> GapMoves[status[i]]

Status == UNION {DOMAIN OpportunityMoves, DOMAIN InitiativeMoves, DOMAIN GapMoves}

\* ACTIVE_INITIATIVE_STATES, and the two sets a duplicate is looked for in
ActiveInitiative == {"ACCEPTED", "ACTIVE", "WAITING", "BLOCKED", "STALLED", "REVIEW"}
DuplicateOpportunity == {"DETECTED", "WATCHING", "QUALIFIED"}
DuplicateInitiative == {"DISCOVERED", "PROPOSED", "DEFERRED", "PAUSED"} \cup ActiveInitiative

Free == [op |-> "none", at |-> "idle", opportunity |-> None, initiative |-> None, on |-> None,
         target |-> "none", current |-> FALSE, overtaken |-> FALSE]
Proposing == [op : {"none", "opportunity", "initiative", "move"},
              at : {"idle", "check", "create", "load", "move"},
              opportunity : Opportunity \cup {None}, initiative : Made \cup {None},
              on : Item \cup {None}, target : Status, current : BOOLEAN, overtaken : BOOLEAN]

Init ==
  /\ \E elder \in {"PAUSED", "ACTIVE"}, early \in {{}} \cup {{o} : o \in Opportunity} :
       /\ status = [i \in Item |-> CASE i = Gap -> "ACTIVE" [] i = Elder -> elder
                                     [] i \in early -> "QUALIFIED" [] OTHER -> "none"]
       /\ eligible = early
  /\ source = [n \in Initiative |-> None]
  /\ settled = [i \in Item |-> 0]
  /\ day = 0
  /\ proposing = [w \in Worker |-> Free]
  /\ fence = None
  /\ overtaken = 0 /\ cutShort = 0 /\ proposalCalls = 0 /\ proposalCrashes = 0

Counted == proposalCalls < MaxProposalCalls /\ proposalCalls' = proposalCalls + 1
Goes(w, c) == proposing' = [proposing EXCEPT ![w] = c]
Released(w) == fence' = IF fence = w THEN None ELSE fence

\* Ask for a transition of i, as the step after this one.
Asking(c, i, target) == [c EXCEPT !.at = "load", !.on = i, !.target = target, !.current = FALSE]

-----------------------------------------------------------------------------
\* propose_opportunity, followed by qualify_opportunity for an eligible one

Begin(w, o, fit) ==
  /\ proposing[w] = Free /\ Counted
  /\ status[o] = "none" /\ status[Gap] = "ACTIVE"
  /\ eligible' = IF fit THEN eligible \cup {o} ELSE eligible \ {o}
  /\ Goes(w, [Free EXCEPT !.op = "opportunity", !.opportunity = o, !.at = "check"])
  /\ UNCHANGED <<status, source, settled, day, fence, overtaken, cutShort, proposalCrashes>>

CoolingDown(i) == day - settled[i] < Cooldown

\* _check_duplicate_or_cooldown, in the lock of the fingerprint
Duplicate ==
  \/ \E o \in Opportunity : status[o] \in DuplicateOpportunity
  \/ \E o \in Opportunity : status[o] = "DISMISSED" /\ CoolingDown(o)
  \/ \E n \in Made : status[n] \in DuplicateInitiative
  \/ \E n \in Made : status[n] \in {"REJECTED", "ABANDONED"} /\ CoolingDown(n)

Check(w) ==
  /\ proposing[w].at = "check" /\ proposing[w].op = "opportunity"
  /\ IF fence # None \/ Duplicate
     THEN Goes(w, Free) /\ UNCHANGED fence
     ELSE Goes(w, [proposing[w] EXCEPT !.at = "create"]) /\ fence' = w
  /\ UNCHANGED <<status, source, eligible, settled, day, overtaken, cutShort, proposalCalls, proposalCrashes>>

CreateOpportunity(w) ==
  LET o == proposing[w].opportunity IN
  /\ proposing[w].at = "create" /\ proposing[w].op = "opportunity" /\ status[o] = "none"
  /\ status' = [status EXCEPT ![o] = "DETECTED"]
  /\ Goes(w, IF o \in eligible /\ status[Gap] = "ACTIVE"
             THEN Asking([proposing[w] EXCEPT !.op = "move"], o, "QUALIFIED") ELSE Free)
  /\ Released(w)
  /\ settled' = [settled EXCEPT ![o] = day]
  /\ UNCHANGED <<source, eligible, day, overtaken, cutShort, proposalCalls, proposalCrashes>>

-----------------------------------------------------------------------------
\* propose_initiative

BeginInitiative(w, o) ==
  /\ proposing[w] = Free /\ Counted
  /\ status[o] = "QUALIFIED" /\ status[Gap] = "ACTIVE"
  /\ Goes(w, [Free EXCEPT !.op = "initiative", !.opportunity = o, !.at = "check"])
  /\ UNCHANGED <<status, source, eligible, settled, day, fence, overtaken, cutShort, proposalCrashes>>

Unconsumed(o) == status[o] = "QUALIFIED"

Recheck(w) ==
  /\ proposing[w].at = "check" /\ proposing[w].op = "initiative"
  /\ IF fence = None /\ Unconsumed(proposing[w].opportunity)
     THEN Goes(w, [proposing[w] EXCEPT !.at = "create"]) /\ fence' = w
     ELSE Goes(w, Free) /\ UNCHANGED fence
  /\ UNCHANGED <<status, source, eligible, settled, day, overtaken, cutShort, proposalCalls, proposalCrashes>>

CreateInitiative(w, n) ==
  /\ proposing[w].at = "create" /\ proposing[w].op = "initiative" /\ status[n] = "none"
  /\ status' = [status EXCEPT ![n] = "DISCOVERED"]
  /\ source' = [source EXCEPT ![n] = proposing[w].opportunity]
  /\ Goes(w, Asking([proposing[w] EXCEPT !.initiative = n], n, "PROPOSED"))
  /\ UNCHANGED <<eligible, settled, day, fence, overtaken, cutShort, proposalCalls, proposalCrashes>>

-----------------------------------------------------------------------------
\* transition

MoveByHand(w, i, target) ==
  /\ proposing[w] = Free /\ Counted
  /\ target \in Moves(i) \ {"PROPOSED_INITIATIVE", "QUALIFIED"}
  /\ Goes(w, Asking([Free EXCEPT !.op = "move"], i, target))
  /\ UNCHANGED <<status, source, eligible, settled, day, fence, overtaken, cutShort, proposalCrashes>>

\* qualify_opportunity of an opportunity that was proposed before
Qualify(w, o) ==
  /\ proposing[w] = Free /\ Counted
  /\ status[o] \in {"DETECTED", "WATCHING"} /\ status[Gap] = "ACTIVE" /\ o \in eligible
  /\ Goes(w, Asking([Free EXCEPT !.op = "move"], o, "QUALIFIED"))
  /\ UNCHANGED <<status, source, eligible, settled, day, fence, overtaken, cutShort, proposalCrashes>>

Working(i) == {n \in Initiative \ {i} : status[n] \in ActiveInitiative}

EntersPlay(i, target) ==
  i \in Initiative /\ target \in {"ACCEPTED", "ACTIVE"} /\ status[i] \notin ActiveInitiative

MayMove(i, target) ==
  /\ target \in Moves(i)
  /\ EntersPlay(i, target) => Cardinality(Working(i)) < WipCap

Load(w) ==
  /\ proposing[w].at = "load" /\ MayMove(proposing[w].on, proposing[w].target)
  /\ Goes(w, [proposing[w] EXCEPT !.at = "move", !.current = TRUE, !.overtaken = FALSE])
  /\ UNCHANGED <<status, source, eligible, settled, day, fence, overtaken, cutShort, proposalCalls, proposalCrashes>>

\* what a call does after one of its transitions
Then(c) ==
  CASE c.op = "initiative" /\ c.on = c.initiative /\ c.target = "PROPOSED" ->
         Asking(c, c.opportunity, "PROPOSED_INITIATIVE")
    [] OTHER -> Free

\* A save outdates the copies of the item that others hold and, when it puts an
\* initiative in play, the counts they took.
Outdated(c, i, enters) ==
  [c EXCEPT !.current = @ /\ c.on # i, !.overtaken = @ \/ (enters /\ c.at = "move")]

Save(w) ==
  LET c == proposing[w] IN
  /\ c.at = "move" /\ c.current
  /\ status' = [status EXCEPT ![c.on] = c.target]
  /\ settled' = [settled EXCEPT ![c.on] = day]
  /\ proposing' = [v \in Worker |->
       IF v = w THEN Then(c) ELSE Outdated(proposing[v], c.on, EntersPlay(c.on, c.target))]
  /\ IF Then(c) = Free THEN Released(w) ELSE UNCHANGED fence
  /\ overtaken' = IF EntersPlay(c.on, c.target) /\ c.overtaken THEN overtaken + 1 ELSE overtaken
  /\ UNCHANGED <<source, eligible, day, cutShort, proposalCalls, proposalCrashes>>

\* A transition that raises; if it was to consume the opportunity, the initiative
\* is deferred.
Refuse(w) ==
  LET c == proposing[w]
      next == IF c.op = "initiative" /\ c.on = c.opportunity THEN Asking(c, c.initiative, "DEFERRED") ELSE Free
  IN /\ \/ c.at = "load" /\ ~MayMove(c.on, c.target)
        \/ c.at = "move" /\ ~c.current
     /\ Goes(w, next)
     /\ IF next = Free THEN Released(w) ELSE UNCHANGED fence
     /\ cutShort' = IF c.op = "initiative" /\ next = Free THEN cutShort + 1 ELSE cutShort
     /\ UNCHANGED <<status, source, eligible, settled, day, overtaken, proposalCalls, proposalCrashes>>

Die(w) ==
  /\ proposing[w] # Free
  /\ proposalCrashes < MaxProposalCrashes /\ proposalCrashes' = proposalCrashes + 1
  /\ Goes(w, Free) /\ Released(w)
  /\ cutShort' = IF proposing[w].initiative # None THEN cutShort + 1 ELSE cutShort
  /\ UNCHANGED <<status, source, eligible, settled, day, overtaken, proposalCalls>>

PassDay ==
  /\ day < LastDay /\ day' = day + 1
  /\ UNCHANGED <<status, source, eligible, settled, proposing, fence, overtaken, cutShort, proposalCalls, proposalCrashes>>

Next ==
  \/ \E w \in Worker :
       \/ \E o \in Opportunity :
            BeginInitiative(w, o) \/ Qualify(w, o) \/ \E fit \in BOOLEAN : Begin(w, o, fit)
       \/ \E n \in Made : CreateInitiative(w, n)
       \/ \E i \in Item, target \in Status : MoveByHand(w, i, target)
       \/ Check(w) \/ CreateOpportunity(w) \/ Recheck(w)
       \/ Load(w) \/ Save(w) \/ Refuse(w) \/ Die(w)
  \/ PassDay

Spec == Init /\ [][Next]_vars

-----------------------------------------------------------------------------

TypeOK ==
  /\ status \in [Item -> Status]
  /\ source \in [Initiative -> Opportunity \cup {None}]
  /\ eligible \subseteq Opportunity
  /\ settled \in [Item -> 0 .. LastDay] /\ day \in 0 .. LastDay
  /\ proposing \in [Worker -> Proposing]
  /\ fence \in Worker \cup {None}
  /\ overtaken \in Nat /\ cutShort \in Nat
  /\ proposalCalls \in 0 .. MaxProposalCalls /\ proposalCrashes \in 0 .. MaxProposalCrashes

\* One thing of a fingerprint is in play at a time: an opportunity or the
\* initiative made of it, both only while a call is turning the one into the
\* other.  Each call that died or was refused on the way may leave one more.
InPlay == {o \in Opportunity : status[o] \in DuplicateOpportunity}
          \cup {n \in Made : status[n] \in DuplicateInitiative}
Turning == {w \in Worker : proposing[w].op = "initiative" /\ proposing[w].at \in {"load", "move"}}
ProposedOnce == Cardinality(InPlay) <= 1 + Cardinality(Turning) + cutShort

\* Initiatives at work stay within the cap, but for those activated on a count
\* that another one outdated.
WipIsCapped ==
  Cardinality({n \in Initiative : status[n] \notin Closed \cup {"none", "DISCOVERED", "PROPOSED", "DEFERRED", "PAUSED"}}) <= WipCap + overtaken
=============================================================================
