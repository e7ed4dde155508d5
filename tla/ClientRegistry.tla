--------------------------- MODULE ClientRegistry ---------------------------
(***************************************************************************)
(* The registry of the manager and the life of its client threads.         *)
(*                                                                         *)
(* The main thread serves op_register_client one call at a time: it takes  *)
(* a CPU from available_cpus, starts a thread pinned to it and hands the   *)
(* client an IPC gate.  The client thread serves requests until the kernel *)
(* reports, with an interrupt that every deleted gate of the thread        *)
(* raises, that the client's gate is gone; then it gives its CPU back and  *)
(* exits.                                                                  *)
(*                                                                         *)
(* available_cpus is a global std::bitset that the main thread and all     *)
(* client threads update without a lock: a load, a change and a store,     *)
(* which are separate steps here.                                          *)
(***************************************************************************)
EXTENDS Naturals

CONSTANTS Client,   \* those who may be clients, each with one session at a time
          Cpu,      \* the CPUs the manager was given, as bit numbers
          NoClient, NoCpu

ASSUME CpuAssumption == Cpu \subseteq Nat /\ NoCpu \notin Cpu
ASSUME ClientAssumption == NoClient \notin Client

VARIABLES available_cpus,  \* the CPUs whose bit is set
          main,            \* the main thread: where it is and for whom
          session          \* per client: the client, its gate and its thread

vars == <<available_cpus, main, session>>

(***************************************************************************)
(* client: "out" - "asking" (blocked in register_client) - "in" - "gone"   *)
(*         (left or died while its session exists)                         *)
(* gate:   "none" - "kept" (only the manager has it) - "mapped" - "deleted" *)
(* thread: "none" - "wait" (open wait) - "serve" (a request) - "check"     *)
(*         (received an interrupt) - "load", "store" (free_client_cpu) -   *)
(*         "exit"                                                          *)
(***************************************************************************)
Session ==
  [client : {"out", "asking", "in", "gone"},
   gate   : {"none", "kept", "mapped", "deleted"},
   thread : {"none", "wait", "serve", "check", "load", "store", "exit"},
   irq    : BOOLEAN,               \* the deletion interrupt is pending
   cpu    : Cpu \cup {NoCpu},      \* captured by the cleanup function
   seen   : SUBSET Cpu]            \* what free_client_cpu loaded

NoSession == [client |-> "out", gate |-> "none", thread |-> "none",
              irq |-> FALSE, cpu |-> NoCpu, seen |-> {}]

Main ==
  [at   : {"idle", "load", "store", "setup", "reply", "stuck"},
   for  : Client \cup {NoClient},
   cpu  : Cpu \cup {NoCpu},
   seen : SUBSET Cpu]

IdleMain == [at |-> "idle", for |-> NoClient, cpu |-> NoCpu, seen |-> {}]

(* One invariant bundles the types of the variables.                       *)
TypeOK == /\ available_cpus \subseteq Cpu
          /\ main \in Main
          /\ main.at # "idle" => main.for \in Client /\ main.cpu \in Cpu
          /\ session \in [Client -> Session]

(* main() stores the CPUs of its scheduler before it serves.               *)
Init == /\ available_cpus = Cpu
        /\ main = IdleMain
        /\ session = [c \in Client |-> NoSession]

(***************************************************************************)
(* Registration                                                            *)
(***************************************************************************)

RegisterCall(c) ==
  /\ session[c] = NoSession
  /\ session' = [session EXCEPT ![c].client = "asking"]
  /\ UNCHANGED <<available_cpus, main>>

(* The call of a client that died before it was received does not exist.   *)
Pending(c) == main.at = "idle" /\ session[c].client = "asking"

(* Mutant of NoCpuLeft: the call waits until a CPU is given back.          *)
NoCpuWaits(c) ==
  /\ Pending(c)
  /\ available_cpus = {}
  /\ UNCHANGED vars

(* select_client_cpu throws ENOENT.                                        *)
NoCpuLeft(c) ==
  /\ Pending(c)
  /\ available_cpus = {}
  /\ session' = [session EXCEPT ![c].client = "out"]
  /\ UNCHANGED <<available_cpus, main>>

(* ... or takes the lowest bit that is set,                                *)
SelectCpu(c) ==
  /\ Pending(c)
  /\ \E lowest \in available_cpus :
       /\ \A other \in available_cpus : lowest <= other
       /\ main' = [main EXCEPT !.at = "load", !.for = c, !.cpu = lowest]
  /\ UNCHANGED <<available_cpus, session>>

(* and clears it: available_cpus &= ~selected is a load                    *)
SelectLoad ==
  /\ main.at = "load"
  /\ main' = [main EXCEPT !.at = "store", !.seen = available_cpus]
  /\ UNCHANGED <<available_cpus, session>>

(* Mutant of SelectStore: the bit of the selected CPU is not cleared.      *)
SelectKeepsBit ==
  /\ main.at = "store"
  /\ available_cpus' = main.seen
  /\ main' = [main EXCEPT !.at = "setup", !.seen = {}]
  /\ UNCHANGED session

(* and a store.                                                            *)
SelectStore ==
  /\ main.at = "store"
  /\ available_cpus' = main.seen \ {main.cpu}
  /\ main' = [main EXCEPT !.at = "setup", !.seen = {}]
  /\ UNCHANGED session

(* Mutant of SetUp: the cleanup function does not capture the CPU.         *)
SetUpForgetsCpu ==
  /\ main.at = "setup"
  /\ main' = [main EXCEPT !.at = "reply"]
  /\ session' = [session EXCEPT ![main.for].gate = "kept",
                                ![main.for].thread = "wait"]
  /\ UNCHANGED available_cpus

(* The scheduler, the thread pinned to the CPU, the gate (whose reference  *)
(* held by the manager is not counted) and the deletion interrupt exist,   *)
(* and the thread has been started.                                        *)
SetUp ==
  /\ main.at = "setup"
  /\ main' = [main EXCEPT !.at = "reply"]
  /\ session' = [session EXCEPT ![main.for].gate = "kept",
                                ![main.for].thread = "wait",
                                ![main.for].cpu = main.cpu]
  /\ UNCHANGED available_cpus

(* A step of the setup throws; nothing gives the selected CPU back.        *)
SetUpFails ==
  /\ main.at = "setup"
  /\ main' = IdleMain
  /\ session' = [session EXCEPT ![main.for] = NoSession]
  /\ UNCHANGED available_cpus

(* pthread_create fails: this is only logged, and the thread handle that   *)
(* is used next was never written.  Either a later step fails on it, which *)
(* is SetUpFails, or the main thread faults and never runs again.          *)
ThreadCreateFails ==
  /\ main.at = "setup"
  /\ main' = [main EXCEPT !.at = "stuck"]
  /\ UNCHANGED <<available_cpus, session>>

(* The gate is mapped to the caller, if it still exists.                   *)
Reply ==
  /\ main.at = "reply"
  /\ main' = IdleMain
  /\ session' =
       IF session[main.for].client = "asking"
         THEN [session EXCEPT ![main.for].client = "in",
                              ![main.for].gate = "mapped"]
         ELSE session
  /\ UNCHANGED available_cpus

(***************************************************************************)
(* The client                                                              *)
(***************************************************************************)

(* Mutant of Leave: the gate was not registered for deletion interrupts.   *)
LeaveUnnoticed(c) ==
  /\ session[c].client = "in"
  /\ session' = [session EXCEPT ![c].client = "gone", ![c].gate = "deleted"]
  /\ UNCHANGED <<available_cpus, main>>

(* A client drops its gate, or its task ends, also while a request of it   *)
(* is served.  The last mapping of the gate is gone: the kernel deletes it *)
(* and raises the interrupt of the thread it belongs to.                   *)
Leave(c) ==
  /\ session[c].client = "in"
  /\ session' = [session EXCEPT ![c].client = "gone",
                                ![c].gate = "deleted",
                                ![c].irq = TRUE]
  /\ UNCHANGED <<available_cpus, main>>

(* The task of a client ends while it waits for the answer of the registry; *)
(* nothing but the call in progress is left of it.                         *)
DieAsking(c) ==
  /\ session[c].client = "asking"
  /\ session' = IF main.for = c
                  THEN [session EXCEPT ![c].client = "gone"]
                  ELSE [session EXCEPT ![c] = NoSession]
  /\ UNCHANGED <<available_cpus, main>>

(***************************************************************************)
(* The client thread                                                       *)
(***************************************************************************)

Request(c) ==
  /\ session[c].client = "in"
  /\ session[c].thread = "wait"
  /\ session' = [session EXCEPT ![c].thread = "serve"]
  /\ UNCHANGED <<available_cpus, main>>

(* While it serves, the gates of finished workers are deleted; they belong *)
(* to the same thread and raise the same interrupt.                        *)
WorkerGateDeleted(c) ==
  /\ session[c].thread = "serve"
  /\ session' = [session EXCEPT ![c].irq = TRUE]
  /\ UNCHANGED <<available_cpus, main>>

(* Mutant of ServeEnd: the interrupts that came meanwhile are discarded.   *)
ServeEndDropsIrq(c) ==
  /\ session[c].thread = "serve"
  /\ session' = [session EXCEPT ![c].thread = "wait", ![c].irq = FALSE]
  /\ UNCHANGED <<available_cpus, main>>

ServeEnd(c) ==
  /\ session[c].thread = "serve"
  /\ session' = [session EXCEPT ![c].thread = "wait"]
  /\ UNCHANGED <<available_cpus, main>>

(* The open wait receives the interrupt: handle_irq is called.             *)
TakeIrq(c) ==
  /\ session[c].thread = "wait" /\ session[c].irq
  /\ session' = [session EXCEPT ![c].thread = "check", ![c].irq = FALSE]
  /\ UNCHANGED <<available_cpus, main>>

(* Mutant of ClientGateValid: any interrupt ends the session.              *)
AnyGateCounts(c) == session[c].gate = "none"

ClientGateValid(c) == session[c].gate # "deleted"

(* It was the gate of a worker: back to the server loop.  It was the       *)
(* client's: the cleanup deletes the epiface and the server.               *)
CheckGate(c) ==
  /\ session[c].thread = "check"
  /\ session' = [session EXCEPT ![c].thread =
                                  IF ClientGateValid(c) THEN "wait" ELSE "load"]
  /\ UNCHANGED <<available_cpus, main>>

(* free_client_cpu: available_cpus |= free_bitmap is a load                *)
FreeLoad(c) ==
  /\ session[c].thread = "load"
  /\ session' = [session EXCEPT ![c].thread = "store",
                                ![c].seen = available_cpus]
  /\ UNCHANGED <<available_cpus, main>>

(* Mutant of FreeStore: available_cpus = free_bitmap, in place of |=.      *)
FreeOverwrites(c) ==
  /\ session[c].thread = "store"
  /\ available_cpus' = {session[c].cpu}
  /\ session' = [session EXCEPT ![c].thread = "exit", ![c].cpu = NoCpu,
                                ![c].seen = {}]
  /\ UNCHANGED main

(* and a store.                                                            *)
FreeStore(c) ==
  /\ session[c].thread = "store"
  /\ available_cpus' = session[c].seen \cup {session[c].cpu}
  /\ session' = [session EXCEPT ![c].thread = "exit", ![c].cpu = NoCpu,
                                ![c].seen = {}]
  /\ UNCHANGED main

(* pthread_exit of the detached thread.                                    *)
Exit(c) ==
  /\ session[c].thread = "exit"
  /\ session' = [session EXCEPT ![c] = NoSession]
  /\ UNCHANGED <<available_cpus, main>>

(***************************************************************************)
(* The specification                                                       *)
(***************************************************************************)

MainStep(c) == NoCpuLeft(c) \/ SelectCpu(c)

MainRuns == \/ SelectLoad \/ SelectStore \/ SetUp \/ SetUpFails
            \/ ThreadCreateFails \/ Reply

ClientStep(c) == RegisterCall(c) \/ Leave(c) \/ DieAsking(c) \/ Request(c)

ThreadRuns(c) == \/ ServeEnd(c) \/ TakeIrq(c) \/ CheckGate(c)
                 \/ FreeLoad(c) \/ FreeStore(c) \/ Exit(c)

Next == \/ MainRuns
        \/ \E c \in Client : \/ MainStep(c) \/ ClientStep(c)
                             \/ WorkerGateDeleted(c) \/ ThreadRuns(c)

Spec == Init /\ [][Next]_vars

(* No two updates of available_cpus overlap.                               *)
Serial == /\ main.at = "store" => \A c \in Client : session[c].thread # "store"
          /\ \A c, d \in Client :
               session[c].thread = "store" /\ session[d].thread = "store" => c = d

(* The executions in which the updates of available_cpus happen not to     *)
(* overlap: what the registry does apart from its data race.               *)
SerialNext == Next /\ Serial'

SerialSpec == Init /\ [][SerialNext]_vars

(* The threads are scheduled, a served request ends (functions end), and a *)
(* call to the registry is eventually the one it receives (the kernel      *)
(* queues senders).                                                        *)
FairSpec == /\ Spec
            /\ WF_vars(MainRuns)
            /\ \A c \in Client : SF_vars(MainStep(c)) /\ WF_vars(ThreadRuns(c))

-----------------------------------------------------------------------------
(***************************************************************************)
(* Properties                                                              *)
(***************************************************************************)

(* The CPU a client's thread and workers run on: assigned from the moment  *)
(* it is marked until it is given back.                                    *)
AssignedCpu(c) ==
  IF main.at \in {"setup", "reply"} /\ main.for = c THEN main.cpu
                                                    ELSE session[c].cpu

(* Each client has a core of its own: no CPU is assigned to two clients.   *)
DedicatedCpu ==
  \A c, d \in Client :
    c # d /\ AssignedCpu(c) # NoCpu => AssignedCpu(c) # AssignedCpu(d)

(* A CPU that is assigned is not offered to the next client.               *)
AssignedNotAvailable ==
  \A c \in Client : AssignedCpu(c) \notin available_cpus

(* A client thread starts to clean up only after its client's own gate was *)
(* deleted; the deletion of a worker's gate, which raises the same         *)
(* interrupt, does not end the session.                                    *)
NoPrematureTeardown ==
  \A c \in Client :
    session[c].thread \in {"load", "store", "exit"} =>
      session[c].gate = "deleted" /\ session[c].client = "gone"

(* The deletion of the client's gate is never lost: while the thread has   *)
(* not begun to clean up, it is about to look at the gate or its interrupt *)
(* is pending, however the interrupts of worker gates fall together.       *)
NoLostDeletion ==
  \A c \in Client :
    session[c].gate = "deleted" /\ session[c].thread \in {"wait", "serve"}
      => session[c].irq

(* A registration is answered, so that nobody keeps asking, as long as the *)
(* main thread lives.                                                      *)
RegistrationAnswered ==
  \A c \in Client :
    []<>(session[c].client # "asking" \/ main.at = "stuck")

(* The assignment of CPUs is a pool with exclusive owners.  A CPU that is  *)
(* neither available nor assigned is lost to the pool.                     *)
Pool == INSTANCE CpuPool WITH
          owner <- [c \in Client |-> AssignedCpu(c)],
          lost <- {p \in Cpu : /\ p \notin available_cpus
                               /\ \A c \in Client : AssignedCpu(c) # p}

(* Every execution without overlapping updates is one of the pool.         *)
PoolSpec == Pool!Spec

(***************************************************************************)
(* What the documentation promises and the code does not keep              *)
(***************************************************************************)

(* "The threads will end when the client leaves."                          *)
ThreadsEnd ==
  \A c \in Client :
    (session[c].client = "gone") ~> (session[c].thread = "none")

=============================================================================
