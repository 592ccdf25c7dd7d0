---------------------------- MODULE SingleWriter ----------------------------
(***************************************************************************)
(* What the worker's lease promises (worker.py, persistence/models.py): of *)
(* all the processes that may be started, one at a time writes. A process  *)
(* begins only when no other does, and ends before another begins.         *)
(***************************************************************************)
CONSTANT Workers

VARIABLE writers      \* the processes that may reach the broker or the store

Init == writers = {}

Begin(w) == writers = {} /\ writers' = {w}

End(w) == writers = {w} /\ writers' = {}

Next == \E w \in Workers : Begin(w) \/ End(w)

Spec == Init /\ [][Next]_writers
=============================================================================
