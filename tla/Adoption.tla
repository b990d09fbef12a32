-------------------------------- MODULE Adoption --------------------------------
(***************************************************************************)
(* A standalone Brain becomes the Brain of an AI-Verse OS                  *)
(* (apply_standalone_adoption in adoption.py): the standalone state is     *)
(* moved aside, copied to a staging directory, and the copy becomes the    *)
(* native state, with a transaction record between any two of the moves.   *)
(* A call that finds the record of an earlier one goes on from there.      *)
(* No lock is taken: two set-ups may adopt at once.  A caller's process    *)
(* can die between any two steps, also while it copies.                    *)
(***************************************************************************)
EXTENDS Naturals

CONSTANTS Worker, None, MaxAdoptionDeaths

VARIABLES standalone, \* .ai-verse-brain
          retired,  \* retired-<transaction id>, by the worker that made the transaction
          staging,  \* staging-<transaction id>
          native,   \* operator/brain
          tx,       \* transaction.json
          adopting, \* what each worker is doing, with its copy of the record
          looked, \* an initialisation of a native Brain found none
          met,  \* two adoptions met
          unnoted,  \* the native state was put in place and not recorded
          adoptionDeaths

vars == <<standalone, retired, staging, native, tx, adopting, looked, met, unnoted, adoptionDeaths>>

TxState == {"none", "prepared", "source_retired", "staged", "complete"}
Tx == [id : Worker \cup {None}, state : TxState]
NoTx == [id |-> None, state |-> "none"]

Free == [at |-> "idle", tx |-> NoTx]
Adopting == [at : {"idle", "create", "retire", "noteRetired", "stage", "copy", "noteStaged", "activate", "noteComplete"},
             tx : Tx]

Init ==
  /\ standalone = "whole"
  /\ retired = [w \in Worker |-> "none"]
  /\ staging = [w \in Worker |-> "none"]
  /\ native = "empty"
  /\ tx = NoTx
  /\ adopting = [w \in Worker |-> Free]
  /\ looked = FALSE /\ met = FALSE /\ unnoted = FALSE
  /\ adoptionDeaths = 0

Goes(w, stage) == adopting' = [adopting EXCEPT ![w].at = stage]
Ends(w) == adopting' = [adopting EXCEPT ![w] = Free]
Id(w) == adopting[w].tx.id

-----------------------------------------------------------------------------

\* plan_standalone_adoption: the record of an adoption that is not complete is
\* gone on with; without one, there must be something to adopt and nothing that
\* it would compete with.
Entry(state) ==
  CASE state = "none" -> "create"
    [] state = "prepared" -> "retire"
    [] state = "source_retired" -> "stage"
    [] state = "staged" -> "activate"

Begin(w) ==
  /\ adopting[w] = Free
  /\ tx.state # "complete"
  /\ tx = NoTx => standalone = "whole" /\ native = "empty"
  /\ adopting' = [adopting EXCEPT ![w] = [at |-> Entry(tx.state), tx |-> tx]]
  /\ met' = (met \/ \E v \in Worker : adopting[v] # Free)
  /\ UNCHANGED <<standalone, retired, staging, native, tx, looked, unnoted, adoptionDeaths>>

Create(w) ==
  /\ adopting[w].at = "create"
  /\ tx' = [id |-> w, state |-> "prepared"]
  /\ adopting' = [adopting EXCEPT ![w] = [at |-> "retire", tx |-> tx']]
  /\ UNCHANGED <<standalone, retired, staging, native, met, looked, unnoted, adoptionDeaths>>

\* The source is moved aside, unless an earlier call did it.
Retire(w) ==
  /\ adopting[w].at = "retire"
  /\ \/ /\ standalone = "whole" /\ retired[Id(w)] = "none"
        /\ standalone' = "gone" /\ retired' = [retired EXCEPT ![Id(w)] = "whole"]
        /\ Goes(w, "noteRetired")
     \/ /\ standalone = "gone" /\ retired[Id(w)] = "whole"
        /\ Goes(w, "noteRetired") /\ UNCHANGED <<standalone, retired>>
     \/ /\ (standalone = "whole") = (retired[Id(w)] = "whole")
        /\ Ends(w) /\ UNCHANGED <<standalone, retired>>
  /\ UNCHANGED <<staging, native, tx, met, looked, unnoted, adoptionDeaths>>

\* Mutant: the record says staged before the copy is made.
NoteEarly(w, state, stage) ==
  /\ tx' = [id |-> Id(w), state |-> IF state = "source_retired" THEN "staged" ELSE state]
  /\ adopting' = [adopting EXCEPT ![w] = [at |-> stage, tx |-> tx']]

\* The record is written with the next state, by the caller's copy of it.
Note(w, state, stage) ==
  /\ tx' = [id |-> Id(w), state |-> state]
  /\ adopting' = [adopting EXCEPT ![w] = [at |-> stage, tx |-> tx']]

NoteRetired(w) ==
  /\ adopting[w].at = "noteRetired"
  /\ Note(w, "source_retired", "stage")
  /\ UNCHANGED <<standalone, retired, staging, native, met, looked, unnoted, adoptionDeaths>>

\* _copy_state begins: what an earlier call staged is thrown away.
Stage(w) ==
  /\ adopting[w].at = "stage"
  /\ IF retired[Id(w)] = "whole"
     THEN staging' = [staging EXCEPT ![Id(w)] = "partial"] /\ Goes(w, "copy")
     ELSE Ends(w) /\ UNCHANGED staging
  /\ UNCHANGED <<standalone, retired, native, tx, met, looked, unnoted, adoptionDeaths>>

\* It ends, unless another call moved the directory away.
Copy(w) ==
  /\ adopting[w].at = "copy"
  /\ IF staging[Id(w)] = "none" THEN Ends(w) /\ UNCHANGED staging
     ELSE staging' = [staging EXCEPT ![Id(w)] = "whole"] /\ Goes(w, "noteStaged")
  /\ UNCHANGED <<standalone, retired, native, tx, met, looked, unnoted, adoptionDeaths>>

NoteStaged(w) ==
  /\ adopting[w].at = "noteStaged"
  /\ Note(w, "staged", "activate")
  /\ UNCHANGED <<standalone, retired, staging, native, met, looked, unnoted, adoptionDeaths>>

\* The staged directory becomes the native one; it must be there, and the native
\* one empty.
Activate(w) ==
  /\ adopting[w].at = "activate"
  /\ IF staging[Id(w)] # "none" /\ native = "empty"
     THEN /\ native' = staging[Id(w)] /\ staging' = [staging EXCEPT ![Id(w)] = "none"]
          /\ Goes(w, "noteComplete")
     ELSE Ends(w) /\ UNCHANGED <<native, staging>>
  /\ UNCHANGED <<standalone, retired, tx, met, looked, unnoted, adoptionDeaths>>

NoteComplete(w) ==
  /\ adopting[w].at = "noteComplete"
  /\ tx' = [adopting[w].tx EXCEPT !.state = "complete"]
  /\ Ends(w)
  /\ UNCHANGED <<standalone, retired, staging, native, met, looked, unnoted, adoptionDeaths>>

\* init --apply asks for a standalone store, which is gone once it is retired,
\* and not for an adoption that is under way; then it looks for a marker.
LookForNative ==
  /\ standalone = "gone" /\ native = "empty"
  /\ looked' = TRUE
  /\ UNCHANGED <<standalone, retired, staging, native, tx, adopting, met, unnoted, adoptionDeaths>>

\* The marker is written, also when a state was put in place meanwhile.
InitializeNative ==
  /\ looked /\ looked' = FALSE
  /\ native' = IF native = "empty" THEN "fresh" ELSE native
  /\ UNCHANGED <<standalone, retired, staging, tx, adopting, met, unnoted, adoptionDeaths>>

Die(w) ==
  /\ adopting[w].at # "idle"
  /\ adoptionDeaths < MaxAdoptionDeaths /\ adoptionDeaths' = adoptionDeaths + 1
  /\ unnoted' = (unnoted \/ adopting[w].at = "noteComplete")
  /\ Ends(w)
  /\ UNCHANGED <<standalone, retired, staging, native, tx, looked, met>>

Step(w) == Create(w) \/ Retire(w) \/ NoteRetired(w) \/ Stage(w) \/ Copy(w)
           \/ NoteStaged(w) \/ Activate(w) \/ NoteComplete(w)

Next ==
  \/ \E w \in Worker : Begin(w) \/ Step(w) \/ Die(w)
  \/ LookForNative \/ InitializeNative

Spec == Init /\ [][Next]_vars

\* The process goes on, and a set-up that left an adoption under way is run again.
Fairness == \A w \in Worker : WF_vars(Step(w)) /\ SF_vars(tx # NoTx /\ Begin(w))

-----------------------------------------------------------------------------

TypeOK ==
  /\ standalone \in {"whole", "gone"}
  /\ retired \in [Worker -> {"none", "whole"}]
  /\ staging \in [Worker -> {"none", "partial", "whole"}]
  /\ native \in {"empty", "partial", "whole", "fresh"}
  /\ tx \in Tx
  /\ adopting \in [Worker -> Adopting]
  /\ {looked, met, unnoted} \subseteq BOOLEAN
  /\ adoptionDeaths \in 0 .. MaxAdoptionDeaths

\* The state a standalone Brain had is never lost: it is where it was or moved
\* aside whole, whoever dies and whoever adopts at the same time.
StateIsKept == standalone = "whole" \/ \E w \in Worker : retired[w] = "whole"

\* adoption.py:169: there are no competing truths; no native state while the
\* standalone one is still writable.
OneTruth == standalone = "whole" => native = "empty"

\* What is in place when an adoption is recorded as complete is the whole of the
\* state, unless two of them copied to one directory.
AdoptedIsWhole == tx.state = "complete" => native = "whole" \/ met

\* An adoption that was begun ends when set-up is run again, unless the native
\* state was put in place and not recorded, somebody initialised a native state
\* meanwhile, or two of them met.
AdoptionEnds == tx # NoTx ~> (tx.state = "complete" \/ unnoted \/ native = "fresh" \/ met)
=============================================================================
