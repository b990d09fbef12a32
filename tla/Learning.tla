-------------------------------- MODULE Learning --------------------------------
(***************************************************************************)
(* One learning from its first observation to a strategy candidate         *)
(* (LearningService in learning.py): evidence is added for and against it, *)
(* the user moves it on through BrainController.transition, and a strategy *)
(* is derived from it by three saves of two objects.  Every load and every *)
(* save is a step; a caller's process can die between any two.             *)
(***************************************************************************)
EXTENDS Naturals, FiniteSets

CONSTANTS Ref,      \* references that evidence may name
          Class,    \* their evidence classes
          Batches,  \* how often each reference is named in what is handed in
          Draft,    \* ids of the strategies derived
          Worker, None, MaxLearningCalls, MaxLearningCrashes

VARIABLES learning,
          draft,     \* status of each strategy derived
          tending,   \* what each worker is doing
          overruled, \* it was validated when contradictions were on record
          doubled,   \* a batch named a new reference twice
          crowded,   \* two derivations met, or the move to candidate was the user's
          learningCalls, learningCrashes

vars == <<learning, draft, tending, overruled, doubled, crowded, learningCalls, learningCrashes>>

Moves == [OBSERVATION |-> {"HYPOTHESIS"}, HYPOTHESIS |-> {"PATTERN", "REJECTED"},
          PATTERN |-> {"REFLECTION", "REJECTED"}, REFLECTION |-> {"VALIDATED_LEARNING", "REJECTED"},
          VALIDATED_LEARNING |-> {"STRATEGY_CANDIDATE"}, STRATEGY_CANDIDATE |-> {"PROMOTED", "REJECTED"},
          PROMOTED |-> {}, REJECTED |-> {}]

Classes == {"observed", "controlled", "confirmation", "model"}
\* An independent evaluation is an observation too.
Observational == {"observed", "controlled"}

Learnings == [status : DOMAIN Moves, refs : SUBSET Ref, observations : Nat, controlled : Nat,
              contradictions : Nat, confirmed : BOOLEAN, strategy : Draft \cup {None}]

Stages == {"idle", "evidence", "load", "move", "derive", "name", "reject"}
Free == [at |-> "idle", target |-> "REJECTED", draft |-> None, current |-> FALSE]
Tending == [at : Stages, target : DOMAIN Moves, draft : Draft \cup {None}, current : BOOLEAN]

Named(batch) == {r \in Ref : batch[r] > 0}
OfClass(refs, classes) == {r \in refs : Class[r] \in classes}
\* entries of a batch with new references of some classes
Entries(batch, new, classes) == Cardinality(UNION {{r} \X (1 .. batch[r]) : r \in OfClass(new, classes)})

\* record_observation counts a reference once.
Recorded(refs) ==
  [status |-> "OBSERVATION", refs |-> refs,
   observations |-> Cardinality(OfClass(refs, Observational)),
   controlled |-> Cardinality(OfClass(refs, {"controlled"})),
   contradictions |-> 0, confirmed |-> OfClass(refs, {"confirmation"}) # {}, strategy |-> None]

Init ==
  /\ \E batch \in Batches : learning = Recorded(Named(batch))
  /\ draft = [d \in Draft |-> "none"]
  /\ tending = [w \in Worker |-> Free]
  /\ overruled = FALSE /\ doubled = FALSE /\ crowded = FALSE
  /\ learningCalls = 0 /\ learningCrashes = 0

Counted == learningCalls < MaxLearningCalls /\ learningCalls' = learningCalls + 1
Goes(w, c) == tending' = [tending EXCEPT ![w] = c]

\* The revision is still the one that was loaded.
Untouched(w) == tending[w].current

Saved(w, l, c) ==
  /\ learning' = l
  /\ tending' = [v \in Worker |-> IF v = w THEN c ELSE [tending[v] EXCEPT !.current = FALSE]]

-----------------------------------------------------------------------------
\* add_evidence

BeginEvidence(w) ==
  /\ tending[w] = Free /\ Counted
  /\ Goes(w, [Free EXCEPT !.at = "evidence", !.current = TRUE])
  /\ UNCHANGED <<learning, draft, overruled, doubled, crowded, learningCrashes>>

\* A confirmation is the user's own; only references that are new count.
SaveEvidence(w, batch, contradicts) ==
  LET new == Named(batch) \ learning.refs
      changed == [learning EXCEPT
        !.refs = @ \cup new,
        !.observations = @ + Entries(batch, new, Observational),
        !.controlled = @ + Entries(batch, new, {"controlled"}),
        !.contradictions = IF contradicts THEN @ + Entries(batch, new, Classes) ELSE @,
        !.confirmed = @ \/ OfClass(new, {"confirmation"}) # {}]
  IN /\ tending[w].at = "evidence" /\ Untouched(w)
     /\ IF new = {} THEN Goes(w, Free) /\ UNCHANGED learning ELSE Saved(w, changed, Free)
     /\ doubled' = (doubled \/ \E r \in new : batch[r] > 1)
     /\ UNCHANGED <<draft, overruled, crowded, learningCalls, learningCrashes>>

-----------------------------------------------------------------------------
\* BrainController.transition with assert_learning_transition

MayMove(target) ==
  /\ target \in Moves[learning.status]
  /\ target = "PATTERN" => learning.observations >= 2 \/ learning.confirmed
  /\ target = "VALIDATED_LEARNING" =>
       /\ learning.contradictions = 0
       /\ learning.controlled >= 1 \/ learning.observations >= 3 \/ learning.confirmed
  /\ target = "PROMOTED" => learning.strategy # None /\ OfClass(learning.refs, {"controlled"}) # {}

MoveByHand(w, target) ==
  /\ tending[w] = Free
  /\ MayMove(target)
  /\ crowded' = (crowded \/ target = "STRATEGY_CANDIDATE")
  /\ Goes(w, [Free EXCEPT !.at = "move", !.target = target, !.current = TRUE])
  /\ UNCHANGED <<learning, draft, overruled, doubled, learningCalls, learningCrashes>>

LoadToMove(w) ==
  /\ tending[w].at = "load" /\ MayMove(tending[w].target)
  /\ Goes(w, [tending[w] EXCEPT !.at = "move", !.current = TRUE])
  /\ UNCHANGED <<learning, draft, overruled, doubled, crowded, learningCalls, learningCrashes>>

Move(w) ==
  /\ tending[w].at = "move" /\ Untouched(w)
  /\ Saved(w, [learning EXCEPT !.status = tending[w].target], Free)
  /\ overruled' = (overruled \/ (tending[w].target = "VALIDATED_LEARNING" /\ learning.contradictions > 0))
  /\ UNCHANGED <<draft, doubled, crowded, learningCalls, learningCrashes>>

-----------------------------------------------------------------------------
\* create_strategy_candidate

Deriving == {w \in Worker : tending[w].at \in {"derive", "name", "reject"} \/ tending[w].draft # None}

Derive(w) ==
  /\ tending[w] = Free /\ Counted
  /\ learning.status = "VALIDATED_LEARNING"
  /\ Goes(w, [Free EXCEPT !.at = "derive", !.current = TRUE])
  /\ crowded' = (crowded \/ Deriving # {})
  /\ UNCHANGED <<learning, draft, overruled, doubled, learningCrashes>>

CreateDraft(w, d) ==
  /\ tending[w].at = "derive" /\ draft[d] = "none"
  /\ draft' = [draft EXCEPT ![d] = "CANDIDATE"]
  /\ Goes(w, [tending[w] EXCEPT !.at = "name", !.draft = d])
  /\ UNCHANGED <<learning, overruled, doubled, crowded, learningCalls, learningCrashes>>

\* the learning is given the strategy's id, at the revision loaded first
NameDraft(w) ==
  /\ tending[w].at = "name" /\ Untouched(w)
  /\ Saved(w, [learning EXCEPT !.strategy = tending[w].draft],
           [tending[w] EXCEPT !.at = "load", !.target = "STRATEGY_CANDIDATE", !.current = FALSE])
  /\ UNCHANGED <<draft, overruled, doubled, crowded, learningCalls, learningCrashes>>

RejectDraft(w) ==
  /\ tending[w].at = "reject"
  /\ draft' = [draft EXCEPT ![tending[w].draft] = "REJECTED"]
  /\ Goes(w, Free)
  /\ UNCHANGED <<learning, overruled, doubled, crowded, learningCalls, learningCrashes>>

\* A save that finds another revision, or a transition that is not allowed: the
\* strategy is rejected if it is the transition to STRATEGY_CANDIDATE that fails.
Refuse(w) ==
  /\ \/ tending[w].at \in {"evidence", "move", "name"} /\ ~Untouched(w)
     \/ tending[w].at = "load" /\ ~MayMove(tending[w].target)
  /\ Goes(w, IF tending[w].at \in {"load", "move"} /\ tending[w].draft # None
             THEN [tending[w] EXCEPT !.at = "reject"] ELSE Free)
  /\ UNCHANGED <<learning, draft, overruled, doubled, crowded, learningCalls, learningCrashes>>

Die(w) ==
  /\ tending[w] # Free
  /\ learningCrashes < MaxLearningCrashes /\ learningCrashes' = learningCrashes + 1
  /\ Goes(w, Free)
  /\ UNCHANGED <<learning, draft, overruled, doubled, crowded, learningCalls>>

Next ==
  \E w \in Worker :
    \/ BeginEvidence(w) \/ \E batch \in Batches, contradicts \in BOOLEAN : SaveEvidence(w, batch, contradicts)
    \/ \E target \in DOMAIN Moves : MoveByHand(w, target)
    \/ LoadToMove(w) \/ Move(w)
    \/ Derive(w) \/ NameDraft(w) \/ RejectDraft(w) \/ \E d \in Draft : CreateDraft(w, d)
    \/ Refuse(w) \/ Die(w)

Spec == Init /\ [][Next]_vars

-----------------------------------------------------------------------------

TypeOK ==
  /\ learning \in Learnings
  /\ draft \in [Draft -> {"none", "CANDIDATE", "REJECTED"}]
  /\ tending \in [Worker -> Tending]
  /\ {overruled, doubled, crowded} \subseteq BOOLEAN
  /\ learningCalls \in 0 .. MaxLearningCalls /\ learningCrashes \in 0 .. MaxLearningCrashes

\* learning.py:397: contradicted learning cannot be validated, not even by a
\* transition that was judged before the contradiction was saved.
NeverOverruled == ~overruled

\* A learning that was validated rests on a controlled evaluation, on the user's
\* word or on three references, whatever evidence raced with its transitions; a
\* batch that names a new reference twice counts it twice.
ValidationIsEarned ==
  learning.status \in {"VALIDATED_LEARNING", "STRATEGY_CANDIDATE", "PROMOTED"} =>
    \/ OfClass(learning.refs, {"controlled", "confirmation"}) # {}
    \/ Cardinality(OfClass(learning.refs, Observational)) >= 3
    \/ doubled

\* A learning that became a strategy candidate names a strategy that is one,
\* unless two derivations met or the user made the move without one.
NamesItsStrategy ==
  learning.status = "STRATEGY_CANDIDATE" /\ ~crowded =>
    learning.strategy # None /\ draft[learning.strategy] = "CANDIDATE"
=============================================================================
