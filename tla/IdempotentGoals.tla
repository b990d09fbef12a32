--------------------------- MODULE IdempotentGoals ---------------------------
(***************************************************************************)
(* What the Goal service promises of its mutations, "optimistic            *)
(* concurrency, idempotent operations" (README.md): the history of each    *)
(* goal grows by requests made against its current version, success is     *)
(* reported only for what took effect, and an operation id takes effect at *)
(* most once over all goals.  The last holds until a caller is interrupted *)
(* between the goal and its receipt; from then on only the version a       *)
(* request was made against keeps it from being applied a second time.     *)
(***************************************************************************)
EXTENDS Naturals, Sequences

CONSTANTS Goal, Requests

VARIABLES history, reported, interrupted

TookEffect(r) == \E i \in DOMAIN history[r.goal] : history[r.goal][i] = r
OperationUsed(op) ==
  \E g \in Goal : \E i \in DOMAIN history[g] : history[g][i].op = op

Init ==
  /\ history = [g \in Goal |-> <<>>]
  /\ reported = {}
  /\ interrupted = FALSE

Apply(r) ==
  /\ r.expected = Len(history[r.goal])
  /\ ~OperationUsed(r.op) \/ interrupted
  /\ history' = [history EXCEPT ![r.goal] = Append(@, r)]
  /\ UNCHANGED <<reported, interrupted>>

Report(r) ==
  /\ TookEffect(r)
  /\ reported' = reported \cup {r}
  /\ UNCHANGED <<history, interrupted>>

Interrupt ==
  /\ interrupted' = TRUE
  /\ UNCHANGED <<history, reported>>

Next == (\E r \in Requests : Apply(r) \/ Report(r)) \/ Interrupt

Spec == Init /\ [][Next]_<<history, reported, interrupted>>
=============================================================================
