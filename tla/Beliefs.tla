------------------------------- MODULE Beliefs -------------------------------
(***************************************************************************)
(* One model belief and its freshness (FreshnessService in freshness.py):  *)
(* reviews mark it stale, evidence contradicts or refreshes it, and the    *)
(* user may retire it.  Contradiction and refresh save the content first   *)
(* and then, as a transition of their own, the status; a process can die   *)
(* between the two.  Every load and every save is a step.                  *)
(***************************************************************************)
EXTENDS Naturals

CONSTANTS Worker,
          Never,       \* no expiry
          MaxAge,      \* max_age_seconds of the belief
          LastDay, MaxBeliefCalls, MaxBeliefCrashes

VARIABLES belief,
          today,
          handling,    \* what each worker is doing with the belief
          challenged,  \* contradicted, and not refreshed since
          beliefCalls, beliefCrashes

vars == <<belief, today, handling, challenged, beliefCalls, beliefCrashes>>

Day == 0 .. LastDay
Expiry == Day \cup {Never}
Reached(expiry) == expiry # Never /\ today >= expiry

\* The evidence expires when its last reference does.
Belief == [status : {"ACTIVE", "CONTRADICTED", "RETIRED"},
           state : {"known", "inferred", "stale", "contradicted"},
           observed : Day, expires : Expiry, evidence : Expiry]

\* The rows of _TRANSITIONS for model_belief.
Moves == [ACTIVE |-> {"CONTRADICTED", "RETIRED"}, CONTRADICTED |-> {"ACTIVE", "RETIRED"}, RETIRED |-> {}]

Stages == {"idle", "load", "save", "reload", "move"}
Free == [op |-> "none", at |-> "idle", current |-> FALSE, expires |-> Never, evidence |-> Never]
Handling == [op : {"none", "review", "contradict", "refresh", "retire"}, at : Stages,
             current : BOOLEAN, expires : Expiry, evidence : Expiry]

\* create_belief, without an observation before today
Init ==
  /\ \E expires, evidence \in {LastDay, Never} :
       belief = [status |-> "ACTIVE", state |-> "inferred", observed |-> 0,
                 expires |-> expires, evidence |-> evidence]
  /\ today = 0
  /\ handling = [w \in Worker |-> Free]
  /\ challenged = FALSE
  /\ beliefCalls = 0 /\ beliefCrashes = 0

\* assess_freshness
Assessment(b) ==
  IF b.status = "CONTRADICTED" \/ b.state = "contradicted" THEN "contradicted"
  ELSE IF \/ b.state = "stale"
          \/ Reached(b.expires)
          \/ today - b.observed >= MaxAge
          \/ Reached(b.evidence) THEN "stale"
  ELSE "current"

Target(op) == CASE op = "contradict" -> "CONTRADICTED"
                [] op = "refresh" -> "ACTIVE"
                [] OTHER -> "RETIRED"

Call(w, op, expires, evidence) ==
  /\ handling[w] = Free
  /\ op = "review" => expires = Never
  /\ op # "refresh" => expires = Never
  /\ op \in {"review", "retire"} => evidence = Never
  /\ beliefCalls < MaxBeliefCalls /\ beliefCalls' = beliefCalls + 1
  /\ handling' = [handling EXCEPT ![w] =
       [op |-> op, at |-> IF op = "retire" THEN "reload" ELSE "load", current |-> FALSE,
        expires |-> expires, evidence |-> evidence]]
  /\ UNCHANGED <<belief, today, challenged, beliefCrashes>>

Done(w) == handling' = [handling EXCEPT ![w] = Free]
Go(w, stage) == [handling EXCEPT ![w].at = stage, ![w].current = TRUE]

Load(w) ==
  /\ handling[w].at = "load"
  /\ \/ /\ \/ handling[w].op = "review" /\ Assessment(belief) = "stale" /\ belief.state # "stale"
           \/ handling[w].op \in {"contradict", "refresh"} /\ belief.status # "RETIRED"
        /\ handling' = Go(w, "save")
     \/ /\ \/ handling[w].op = "review" /\ (Assessment(belief) # "stale" \/ belief.state = "stale")
           \/ handling[w].op \in {"contradict", "refresh"} /\ belief.status = "RETIRED"
        /\ Done(w)
  /\ UNCHANGED <<belief, today, challenged, beliefCalls, beliefCrashes>>

\* Mutant: the save is made whatever the revision is.
AnyCopy(w) == TRUE

\* The revision is still the one that was loaded.
Untouched(w) == handling[w].current

\* A save makes the copies that others have loaded outdated.
Saved(w, b, next) ==
  /\ belief' = b
  /\ handling' = [v \in Worker |-> IF v = w THEN next ELSE [handling[v] EXCEPT !.current = FALSE]]

Later(expiry, other) == IF Never \in {expiry, other} THEN Never ELSE IF expiry > other THEN expiry ELSE other

Content(c) ==
  CASE c.op = "review" -> [belief EXCEPT !.state = "stale"]
    [] c.op = "contradict" ->
         [belief EXCEPT !.state = "contradicted", !.evidence = Later(@, c.evidence)]
    [] c.op = "refresh" ->
         [belief EXCEPT !.state = "known", !.observed = today,
                        !.expires = IF c.expires = Never THEN @ ELSE c.expires,
                        !.evidence = Later(@, c.evidence)]

\* the status the saved content calls for, if it is another
ThenMoves(c) == \/ c.op = "contradict" /\ belief.status = "ACTIVE"
                \/ c.op = "refresh" /\ belief.status = "CONTRADICTED"

Save(w) ==
  /\ handling[w].at = "save" /\ Untouched(w)
  /\ Saved(w, Content(handling[w]),
           IF ThenMoves(handling[w]) THEN [handling[w] EXCEPT !.at = "reload", !.current = FALSE] ELSE Free)
  /\ challenged' = CASE handling[w].op = "contradict" -> TRUE
                     [] handling[w].op = "refresh" -> FALSE
                     [] OTHER -> challenged
  /\ UNCHANGED <<today, beliefCalls, beliefCrashes>>

\* BrainController.transition
Reload(w) ==
  /\ handling[w].at = "reload"
  /\ IF Target(handling[w].op) \in Moves[belief.status] THEN handling' = Go(w, "move") ELSE Done(w)
  /\ UNCHANGED <<belief, today, challenged, beliefCalls, beliefCrashes>>

Move(w) ==
  /\ handling[w].at = "move" /\ Untouched(w)
  /\ Saved(w, [belief EXCEPT !.status = Target(handling[w].op)], Free)
  /\ UNCHANGED <<today, challenged, beliefCalls, beliefCrashes>>

Conflict(w) ==
  /\ handling[w].at \in {"save", "move"} /\ ~Untouched(w)
  /\ Done(w)
  /\ UNCHANGED <<belief, today, challenged, beliefCalls, beliefCrashes>>

Die(w) ==
  /\ handling[w] # Free
  /\ beliefCrashes < MaxBeliefCrashes /\ beliefCrashes' = beliefCrashes + 1
  /\ Done(w)
  /\ UNCHANGED <<belief, today, challenged, beliefCalls>>

PassDay ==
  /\ today < LastDay /\ today' = today + 1
  /\ UNCHANGED <<belief, handling, challenged, beliefCalls, beliefCrashes>>

Step(w) == Load(w) \/ Save(w) \/ Reload(w) \/ Move(w) \/ Conflict(w) \/ Die(w)

Next ==
  \/ \E w \in Worker :
       \/ \E op \in {"review", "contradict", "refresh", "retire"}, expires, evidence \in {LastDay, Never} :
            Call(w, op, expires, evidence)
       \/ Step(w)
  \/ PassDay

Spec == Init /\ [][Next]_vars

-----------------------------------------------------------------------------

TypeOK ==
  /\ belief \in Belief
  /\ today \in Day
  /\ handling \in [Worker -> Handling]
  /\ challenged \in BOOLEAN
  /\ beliefCalls \in 0 .. MaxBeliefCalls
  /\ beliefCrashes \in 0 .. MaxBeliefCrashes

\* A contradiction that was recorded and not answered by a refresh stands: no
\* review, late transition or crash between the two saves lets the belief be
\* assessed as current, or as merely stale, again.
ContradictionSticks == challenged => Assessment(belief) = "contradicted"
=============================================================================
