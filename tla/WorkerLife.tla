----------------------------- MODULE WorkerLife -----------------------------
(***************************************************************************)
(* The contract between the manager and its workers: what a worker may do, *)
(* as its process sees it, and what may happen to it, as the manager does. *)
(* Several workers may take a step at once.                                *)
(***************************************************************************)
CONSTANT Worker

VARIABLE life   \* the life of each worker

LifeState == {"none", "new", "run", "calling", "exited", "failed", "gone"}

(* A worker is launched, computes, and is blocked while it calls; its      *)
(* final message is the last it does.  It may be destroyed at any time.    *)
After == [none    |-> {"new"},
          new     |-> {"run", "none"},
          run     |-> {"calling", "exited", "failed", "none"},
          calling |-> {"run", "none"},
          exited  |-> {"gone", "none"},
          failed  |-> {"none"},
          gone    |-> {"none"}]

Init == life \in [Worker -> {"none", "new"}]

Next == /\ life' \in [Worker -> LifeState]
        /\ \A w \in Worker : life'[w] = life[w] \/ life'[w] \in After[life[w]]

Spec == Init /\ [][Next]_life
=============================================================================
