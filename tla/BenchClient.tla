---------------------------- MODULE BenchClient ----------------------------
(***************************************************************************)
(* The benchmark client: the main thread creates the client threads one    *)
(* after the other, each only when its predecessor is registered; a client *)
(* thread that is registered waits at a barrier until all are, and then    *)
(* measures invocations.                                                   *)
(*                                                                         *)
(* Both waits are condition variables with one mutex.  Whoever is in       *)
(* "check" or "arrive" holds the mutex, whoever is in "sleep" waits for a  *)
(* notification.  A sleeper may also wake up without one.                  *)
(***************************************************************************)
EXTENDS Naturals

CONSTANTS THREAD_NUM, ITERATIONS

ASSUME ThreadAssumption == THREAD_NUM \in Nat \ {0}
ASSUME IterationAssumption == ITERATIONS \in Nat

Thread == 0..(THREAD_NUM - 1)

VARIABLES waiting_count,  \* the clients that arrived at the barrier
          main,           \* the main thread and the index of its loop
          client          \* the client threads

vars == <<waiting_count, main, client>>

Main ==
  [at : {"lock", "check", "sleep", "wake", "create", "start", "join",
         "output", "exit"},
   i  : 0..THREAD_NUM]

Client ==
  [at : {"none", "created", "register", "failed", "lock", "arrive", "check",
         "sleep", "wake", "notify", "invoke", "done"},
   i  : 0..ITERATIONS,         \* the index of the measurement loop
   recorded : 0..ITERATIONS]   \* the entries of its Metrics

NoClient == [at |-> "none", i |-> 0, recorded |-> 0]

(* One invariant bundles the types of the variables.                       *)
TypeOK == /\ waiting_count \in 0..THREAD_NUM
          /\ main \in Main
          /\ client \in [Thread -> Client]

Init == /\ waiting_count = 0
        /\ main = [at |-> "lock", i |-> 0]
        /\ client = [t \in Thread |-> NoClient]

MutexFree == /\ main.at # "check"
             /\ \A t \in Thread : client[t].at \notin {"arrive", "check"}

(* The process ends with its main thread.                                  *)
Runs(t, at) == client[t].at = at /\ main.at # "exit"

Goes(t, at) == client' = [client EXCEPT ![t].at = at]

(***************************************************************************)
(* The main thread                                                         *)
(***************************************************************************)

MainLock ==
  /\ main.at \in {"lock", "wake"} /\ MutexFree
  /\ main' = [main EXCEPT !.at = "check"]
  /\ UNCHANGED <<waiting_count, client>>

(* Mutant of MainCheck: the predicate is not evaluated again.              *)
MainWaitsOnce ==
  /\ main.at = "check"
  /\ main' = [main EXCEPT !.at = IF waiting_count <= main.i THEN "create" ELSE "sleep"]
  /\ UNCHANGED <<waiting_count, client>>

(* serialize_clients.wait: the predecessor is registered, or sleep.        *)
MainCheck ==
  /\ main.at = "check"
  /\ main' = [main EXCEPT !.at = IF waiting_count = main.i THEN "create" ELSE "sleep"]
  /\ UNCHANGED <<waiting_count, client>>

MainWakesUp ==
  /\ main.at = "sleep"
  /\ main' = [main EXCEPT !.at = "wake"]
  /\ UNCHANGED <<waiting_count, client>>

(* pthread_create with PTHREAD_L4_ATTR_NO_START                            *)
Create ==
  /\ main.at = "create"
  /\ main' = [main EXCEPT !.at = "start"]
  /\ Goes(main.i, "created")
  /\ UNCHANGED waiting_count

(* Scheduler::run_thread, and on to the next thread or to the joins        *)
Start ==
  /\ main.at = "start"
  /\ Goes(main.i, "register")
  /\ main' = IF main.i + 1 = THREAD_NUM
               THEN [at |-> "join", i |-> 0]
               ELSE [at |-> "lock", i |-> main.i + 1]
  /\ UNCHANGED waiting_count

(* The thread or its scheduler cannot be created: main returns.            *)
MainFails ==
  /\ main.at \in {"create", "start"}
  /\ main' = [main EXCEPT !.at = "exit"]
  /\ UNCHANGED <<waiting_count, client>>

Join ==
  /\ main.at = "join"
  /\ client[main.i].at \in {"failed", "done"}
  /\ main' = IF main.i + 1 = THREAD_NUM THEN [at |-> "output", i |-> 0]
                                        ELSE [main EXCEPT !.i = @ + 1]
  /\ UNCHANGED <<waiting_count, client>>

Output ==
  /\ main.at = "output"
  /\ main' = [main EXCEPT !.at = "exit"]
  /\ UNCHANGED <<waiting_count, client>>

(***************************************************************************)
(* A client thread                                                         *)
(***************************************************************************)

(* getManager and action_create succeed, ...                               *)
Register(t) ==
  /\ Runs(t, "register")
  /\ Goes(t, "lock")
  /\ UNCHANGED <<waiting_count, main>>

(* ... or throw, which ends the thread.                                    *)
RegisterFails(t) ==
  /\ Runs(t, "register")
  /\ Goes(t, "failed")
  /\ UNCHANGED <<waiting_count, main>>

Lock(t) ==
  /\ MutexFree
  /\ \/ Runs(t, "lock") /\ Goes(t, "arrive")
     \/ Runs(t, "wake") /\ Goes(t, "check")
  /\ UNCHANGED <<waiting_count, main>>

(* waiting_count++ and serialize_clients.notify_one: only the main thread  *)
(* can be waiting.                                                         *)
Arrive(t) ==
  /\ Runs(t, "arrive")
  /\ waiting_count' = waiting_count + 1
  /\ main' = IF main.at = "sleep" THEN [main EXCEPT !.at = "wake"] ELSE main
  /\ Goes(t, "check")

(* Mutant of Check: one arrival is counted that was not made.              *)
CheckEarly(t) ==
  /\ Runs(t, "check")
  /\ Goes(t, IF waiting_count + 1 >= THREAD_NUM THEN "notify" ELSE "sleep")
  /\ UNCHANGED <<waiting_count, main>>

(* sync_clients.wait: everybody is here, or sleep; both release the mutex. *)
Check(t) ==
  /\ Runs(t, "check")
  /\ Goes(t, IF waiting_count = THREAD_NUM THEN "notify" ELSE "sleep")
  /\ UNCHANGED <<waiting_count, main>>

WakesUp(t) ==
  /\ Runs(t, "sleep")
  /\ Goes(t, "wake")
  /\ UNCHANGED <<waiting_count, main>>

(* Mutant of Notify: the others are not notified.                          *)
NotifyNobody(t) ==
  /\ Runs(t, "notify")
  /\ Goes(t, "invoke")
  /\ UNCHANGED <<waiting_count, main>>

(* sync_clients.notify_one: whoever passes the barrier wakes one other.    *)
Notify(t) ==
  /\ Runs(t, "notify")
  /\ \/ \E s \in Thread :
          /\ client[s].at = "sleep"
          /\ client' = [client EXCEPT ![t].at = "invoke", ![s].at = "wake"]
     \/ /\ \A s \in Thread : client[s].at # "sleep"
        /\ Goes(t, "invoke")
  /\ UNCHANGED <<waiting_count, main>>

InvokeSucceeds(t) ==
  /\ Runs(t, "invoke") /\ client[t].i < ITERATIONS
  /\ client' = [client EXCEPT ![t].i = @ + 1, ![t].recorded = @ + 1]
  /\ UNCHANGED <<waiting_count, main>>

(* Mutant of InvokeFails: the iteration is not repeated.                   *)
InvokeSkipped(t) ==
  /\ Runs(t, "invoke") /\ client[t].i < ITERATIONS
  /\ client' = [client EXCEPT ![t].i = @ + 1]
  /\ UNCHANGED <<waiting_count, main>>

(* The exception is caught and i-- undoes the i++ of the loop.             *)
InvokeFails(t) ==
  /\ Runs(t, "invoke") /\ client[t].i < ITERATIONS
  /\ UNCHANGED vars

LoopEnds(t) ==
  /\ Runs(t, "invoke") /\ client[t].i = ITERATIONS
  /\ Goes(t, "done")
  /\ UNCHANGED <<waiting_count, main>>

(***************************************************************************)
(* The specification                                                       *)
(***************************************************************************)

MainRuns == MainCheck \/ Create \/ Start \/ MainFails \/ Join \/ Output

ClientRuns(t) == \/ Register(t) \/ RegisterFails(t) \/ Arrive(t) \/ Check(t)
                 \/ Notify(t) \/ LoopEnds(t)

Next == \/ MainRuns \/ MainLock \/ MainWakesUp
        \/ \E t \in Thread : \/ ClientRuns(t) \/ Lock(t) \/ WakesUp(t)
                             \/ InvokeSucceeds(t) \/ InvokeFails(t)

Spec == Init /\ [][Next]_vars

(* Threads are scheduled and nobody is kept from the mutex for ever.       *)
(* Nothing is assumed of wake-ups without a notification.                  *)
FairSpec ==
  /\ Spec
  /\ WF_vars(MainRuns) /\ SF_vars(MainLock)
  /\ \A t \in Thread : WF_vars(ClientRuns(t)) /\ SF_vars(Lock(t))

-----------------------------------------------------------------------------
(***************************************************************************)
(* Properties                                                              *)
(***************************************************************************)

Arrived(t) ==
  client[t].at \in {"check", "sleep", "wake", "notify", "invoke", "done"}

(* Clients register one after the other, in the order of their index,      *)
(* whatever wakes the main thread up.                                      *)
SerialRegistration ==
  \A t, u \in Thread : u < t /\ client[t].at # "none" => Arrived(u)

(* No client begins to measure before all are registered.                  *)
NoEarlyStart ==
  \A t \in Thread :
    client[t].at \in {"notify", "invoke", "done"} => \A u \in Thread : Arrived(u)

(* No wake-up is lost: the main thread never sleeps once the client it     *)
(* waits for has registered, and as long as a client sleeps although all   *)
(* have arrived, another one is on its way to wake it up.                  *)
NoLostWakeUp ==
  /\ main.at = "sleep" => waiting_count # main.i
  /\ waiting_count = THREAD_NUM /\ (\E t \in Thread : client[t].at = "sleep")
       => \E u \in Thread : client[u].at \in {"wake", "check", "notify"}

(* What is printed are the results of all clients and all iterations, also *)
(* if invocations failed; in particular nothing is printed if one of       *)
(* several clients could not register.  (The empty result of a single      *)
(* client that could not register is printed.)                             *)
MetricsComplete ==
  main.at = "output" /\ THREAD_NUM > 1
    => \A t \in Thread : client[t].recorded = ITERATIONS

(* If every client can register and an invocation that is repeated         *)
(* succeeds at last, the chain of notifications lets every client pass the *)
(* barrier and the benchmark ends.                                         *)
BenchmarkEnds ==
  /\ [](\A t \in Thread : client[t].at # "failed")
  /\ \A t \in Thread : WF_vars(InvokeSucceeds(t))
  => <>(main.at = "exit")

=============================================================================
