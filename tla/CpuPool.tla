------------------------------ MODULE CpuPool ------------------------------
(***************************************************************************)
(* What the registry promises about CPUs: a client that is registered owns *)
(* one CPU alone, until it returns it.  A CPU may get lost while it is     *)
(* owned by a client whose registration fails.                             *)
(***************************************************************************)
CONSTANTS Client, Cpu, NoCpu

VARIABLES owner,   \* the CPU of each client, or NoCpu
          lost     \* CPUs that no client gets any more

Free == {p \in Cpu \ lost : \A c \in Client : owner[c] # p}

Init == owner = [c \in Client |-> NoCpu] /\ lost = {}

(* A client without a CPU gets one that nobody owns.                       *)
Acquire(c) == /\ owner[c] = NoCpu
              /\ \E p \in Free : owner' = [owner EXCEPT ![c] = p]
              /\ UNCHANGED lost

(* A client returns its CPU.                                               *)
Release(c) == /\ owner[c] # NoCpu
              /\ owner' = [owner EXCEPT ![c] = NoCpu]
              /\ UNCHANGED lost

(* A client is sent away and nobody returns its CPU.                       *)
Lose(c) == /\ owner[c] # NoCpu
           /\ lost' = lost \cup {owner[c]}
           /\ owner' = [owner EXCEPT ![c] = NoCpu]

Next == \E c \in Client : Acquire(c) \/ Release(c) \/ Lose(c)

Spec == Init /\ [][Next]_<<owner, lost>>
=============================================================================
