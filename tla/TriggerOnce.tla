----------------------------- MODULE TriggerOnce -----------------------------
(***************************************************************************)
(* What the trigger ledger promises: the tick of an idempotency key runs   *)
(* once.  A tick that dies or fails leaves its key lost, nobody replays it *)
(* by itself, and only an explicit recovery lets it run again.  Tick       *)
(* implements this under the timing its recovery assumes.                  *)
(***************************************************************************)
CONSTANT Key

VARIABLE tick

Init == tick = [k \in Key |-> "new"]

Move(k, from, to) ==
  /\ tick[k] = from
  /\ tick' = [tick EXCEPT ![k] = to]

Begin(k) == Move(k, "new", "running")
Complete(k) == Move(k, "running", "done")
Lose(k) == Move(k, "running", "lost")
Recover(k) == Move(k, "lost", "new")

Next == \E k \in Key : Begin(k) \/ Complete(k) \/ Lose(k) \/ Recover(k)

Spec == Init /\ [][Next]_tick
=============================================================================
