------------------------------- MODULE LogSync -------------------------------
(***************************************************************************)
(* liblog: the calls of log() in all threads of the system, which take     *)
(* turns by a semaphore they share under the name "log_sync".              *)
(*                                                                         *)
(* The semaphore is created with the value 0.  Nobody gets through until   *)
(* the main thread of the benchmark client has increased it, the first     *)
(* thing that this thread does.  Workers are not given the semaphore, they *)
(* write at any time.                                                      *)
(*                                                                         *)
(* log() may be called while the message registers of the thread hold a    *)
(* message, of which SemaphoreSync saves the first register.  A message    *)
(* whose level is silenced changes nothing and is not an action.           *)
(***************************************************************************)
EXTENDS Naturals

CONSTANTS Thread,
          Starter,    \* the main thread of the benchmark client
          InClient,   \* the threads of the benchmark client, Starter included
          Synced,     \* the threads of processes that have the semaphore
          Message     \* what a message register may hold

Clobbered == "clobbered"

ASSUME ThreadAssumption == /\ InClient \subseteq Synced /\ Synced \subseteq Thread
                           /\ Starter \in InClient
ASSUME MessageAssumption == Clobbered \notin Message /\ Message # {}

VARIABLES sema,    \* the counter of the semaphore
          at,      \* where each thread is
          mr,      \* the first message register of each thread
          store,   \* SemaphoreSync::store, on the stack of each thread
          meant    \* history: what the thread last put into its register

vars == <<sema, at, mr, store, meant>>

(* A thread that ended did so outside of log ("ended"), or after down and  *)
(* before up ("lost").                                                     *)
Place == {"new", "run", "down", "print", "up", "restore", "ended", "lost"}

(* One invariant bundles the types of the variables.                       *)
TypeOK == /\ sema \in {0, 1}
          /\ at \in [Thread -> Place]
          /\ mr \in [Thread -> Message \cup {Clobbered}]
          /\ store \in [Thread -> Message \cup {Clobbered}]
          /\ meant \in [Thread -> Message]

Init == /\ sema = 0
        /\ at = [t \in Thread |-> IF t \in InClient THEN "new" ELSE "run"]
        /\ \E m \in Message : /\ mr = [t \in Thread |-> m]
                              /\ meant = [t \in Thread |-> m]
                              /\ store = [t \in Thread |-> Clobbered]

Goes(t, from, to) == at[t] = from /\ at' = [at EXCEPT ![t] = to]

(* A system call leaves something else in the first register.              *)
SystemCall(t) == mr' = [mr EXCEPT ![t] = Clobbered]

(***************************************************************************)
(* The processes                                                           *)
(***************************************************************************)

(* The benchmark client starts: its main thread increases the semaphore    *)
(* and then creates the other threads.                                     *)
Begin(t) ==
  /\ Goes(t, "new", "run")
  /\ t # Starter => at[Starter] = "run"
  /\ sema' = IF t = Starter THEN sema + 1 ELSE sema
  /\ UNCHANGED <<mr, store, meant>>

(* A thread receives or builds a message.                                  *)
Prepare(t, m) ==
  /\ at[t] = "run"
  /\ mr' = [mr EXCEPT ![t] = m]
  /\ meant' = [meant EXCEPT ![t] = m]
  /\ UNCHANGED <<sema, at, store>>

InSection(t) == t \in Synced /\ at[t] \in {"print", "up"}

(* The threads in T end with their process, wherever they are.             *)
End(T) ==
  /\ \A t \in T : at[t] \notin {"ended", "lost"}
  /\ at' = [t \in Thread |-> IF t \notin T THEN at[t]
                             ELSE IF InSection(t) THEN "lost" ELSE "ended"]
  /\ UNCHANGED <<sema, mr, store, meant>>

(* main of the benchmark client returns or throws while its threads log;   *)
(* the process of another thread ends.                                     *)
ClientEnds == at[Starter] = "run" /\ End(InClient)
OtherEnds(t) == t \notin InClient /\ End({t})

(***************************************************************************)
(* log()                                                                   *)
(***************************************************************************)

(* Mutant of Start: the register is not saved.                             *)
StartUnsaved(t) ==
  /\ Goes(t, "run", IF t \in Synced THEN "down" ELSE "print")
  /\ UNCHANGED <<sema, mr, store, meant>>

(* SemaphoreSync::start saves the register; without the capability there   *)
(* is nothing to wait for.                                                 *)
Start(t) ==
  /\ Goes(t, "run", IF t \in Synced THEN "down" ELSE "print")
  /\ store' = [store EXCEPT ![t] = mr[t]]
  /\ UNCHANGED <<sema, mr, meant>>

(* Mutant of Down: it does not wait.                                       *)
DownAlways(t) ==
  /\ Goes(t, "down", "print")
  /\ sema' = 0
  /\ SystemCall(t)
  /\ UNCHANGED <<store, meant>>

Down(t) ==
  /\ sema > 0
  /\ Goes(t, "down", "print")
  /\ sema' = sema - 1
  /\ SystemCall(t)
  /\ UNCHANGED <<store, meant>>

(* The message is written with one or more IPCs to the log.                *)
Write(t) ==
  /\ Goes(t, "print", IF t \in Synced THEN "up" ELSE "restore")
  /\ SystemCall(t)
  /\ UNCHANGED <<sema, store, meant>>

(* Mutant of Up: the semaphore is left as it is.                           *)
UpForgotten(t) ==
  /\ Goes(t, "up", "restore")
  /\ SystemCall(t)
  /\ UNCHANGED <<sema, store, meant>>

(* SemaphoreSync::end                                                      *)
Up(t) ==
  /\ Goes(t, "up", "restore")
  /\ sema' = sema + 1
  /\ SystemCall(t)
  /\ UNCHANGED <<store, meant>>

Restore(t) ==
  /\ Goes(t, "restore", "run")
  /\ mr' = [mr EXCEPT ![t] = store[t]]
  /\ UNCHANGED <<sema, store, meant>>

(***************************************************************************)
(* The specification                                                       *)
(***************************************************************************)

Log(t) == Write(t) \/ Up(t) \/ Restore(t)

Next == \/ ClientEnds
        \/ \E t \in Thread : \/ Begin(t) \/ Start(t) \/ Down(t) \/ Log(t)
                             \/ OtherEnds(t)
                             \/ \E m \in Message : Prepare(t, m)

Spec == Init /\ [][Next]_vars

(* The benchmark client is started, threads are scheduled, and the kernel  *)
(* wakes those who wait for the semaphore in turn.                         *)
FairSpec == /\ Spec
            /\ WF_vars(Begin(Starter))
            /\ \A t \in Thread : WF_vars(Log(t)) /\ SF_vars(Down(t))

-----------------------------------------------------------------------------
(***************************************************************************)
(* Properties                                                              *)
(***************************************************************************)

(* Messages of threads that share the semaphore are not interleaved: one   *)
(* of them writes at a time, the semaphore is free only if none does, and  *)
(* if it is not free somebody has it, be it a thread that ended meanwhile. *)
OneWriter ==
  /\ \A t, u \in Thread : InSection(t) /\ InSection(u) => t = u
  /\ sema > 0 => \A t \in Thread : ~InSection(t) /\ at[t] # "lost"
  /\ at[Starter] # "new" /\ sema = 0
       => \E t \in Thread : InSection(t) \/ at[t] = "lost"

(* log() may be called between receiving a message and answering it: when  *)
(* it returns, the first register is what it was, although the semaphore   *)
(* and the output are system calls.                                        *)
RegisterKept == \A t \in Thread : at[t] = "run" => mr[t] = meant[t]

(* A call of log returns, in every process and also if it was made before  *)
(* the benchmark client had started, unless a process ends between down    *)
(* and up.  Then the semaphore is lost and everyone waits for ever.        *)
LogReturns ==
  \/ <>(\E t \in Thread : at[t] = "lost")
  \/ \A t \in Thread : (at[t] = "down") ~> (at[t] # "down")

=============================================================================
