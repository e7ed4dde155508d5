------------------------- MODULE BenchClientProofs -------------------------
(***************************************************************************)
(* Proofs about BenchClient, for any number of threads and iterations.     *)
(***************************************************************************)
EXTENDS BenchClient, TLAPS

(* The clients that arrived are those with the lowest indices, so that the *)
(* counter names the next one.                                             *)
InOrder ==
  /\ \A t \in Thread : Arrived(t) <=> t < waiting_count
  /\ \A t \in Thread : client[t].at # "none" => t <= waiting_count

(* Who exists, by the place of the main thread in its two loops.           *)
Created ==
  /\ main.at \in {"lock", "check", "sleep", "wake", "create", "start", "join"}
       => main.i \in Thread
  /\ main.at \in {"lock", "check", "sleep", "wake", "create"}
       => \A t \in Thread : main.i <= t => client[t].at = "none"
  /\ main.at = "start" => \A t \in Thread : main.i < t => client[t].at = "none"
  /\ main.at = "start" => client[main.i].at = "created"
  /\ main.at \in {"create", "start"} => waiting_count = main.i
  /\ main.at = "join"
       => \A t \in Thread : t < main.i => client[t].at \in {"failed", "done"}
  /\ main.at = "output" => \A t \in Thread : client[t].at \in {"failed", "done"}

(* The measurements of one client.                                         *)
Measured ==
  \A t \in Thread : /\ client[t].recorded = client[t].i
                    /\ client[t].at = "done" => client[t].i = ITERATIONS

BInv == TypeOK /\ InOrder /\ Created /\ Measured /\ NoEarlyStart

(* The invariant holds at the start.                                       *)
LEMMA InitBInv == Init => BInv
BY ThreadAssumption, IterationAssumption
   DEF Init, BInv, TypeOK, InOrder, Created, Measured, NoEarlyStart, Arrived,
       Main, Client, NoClient, Thread

(* What a step of a client thread other than its arrival makes of a client *)
(* b: it stays on its side of the barrier, and passes the second half of   *)
(* it only when everybody has arrived.                                     *)
Behind == {"check", "sleep", "wake", "notify", "invoke", "done"}

Advance(b, c) ==
  /\ b.at \notin {"none", "created", "failed", "done"}
  /\ c.at \notin {"none", "created"}
  /\ b.at \in Behind <=> c.at \in Behind
  /\ c.at \in {"notify", "invoke", "done"} => \A u \in Thread : Arrived(u)
  /\ c.recorded = c.i
  /\ c.at = "done" => c.i = ITERATIONS

(* Such steps preserve the invariant.                                      *)
LEMMA ClientStep ==
  ASSUME BInv, client' \in [Thread -> Client], UNCHANGED <<waiting_count, main>>,
         \A t \in Thread : client'[t] = client[t] \/ Advance(client[t], client'[t])
  PROVE  BInv'
<1>1. TypeOK'
  BY DEF BInv, TypeOK
<1>2. \A t \in Thread : Arrived(t)' <=> Arrived(t)
  BY DEF Arrived, Advance, Behind
<1>3. \A t \in Thread : client'[t].at # "none" => client[t].at # "none"
  BY DEF Advance
<1>4. \A t \in Thread : client'[t].at = "none" <=> client[t].at = "none"
  BY <1>3 DEF Advance
<1>5. InOrder'
  BY <1>2, <1>3 DEF BInv, InOrder
<1>6. Created'
  BY <1>4 DEF BInv, TypeOK, Created, Advance, Thread, Main
<1>7. Measured'
  BY DEF BInv, Measured, Advance
<1>8. NoEarlyStart'
  BY <1>2 DEF BInv, NoEarlyStart, Advance
<1> QED
  BY <1>1, <1>5, <1>6, <1>7, <1>8 DEF BInv

(* Every step preserves the invariant.                                     *)
LEMMA NextBInv == BInv /\ [Next]_vars => BInv'
<1> SUFFICES ASSUME BInv, [Next]_vars PROVE BInv'
  OBVIOUS
<1> USE ThreadAssumption, IterationAssumption
<1> USE DEF Thread
<1>type. TypeOK /\ waiting_count \in Nat /\ main \in Main /\ client \in [Thread -> Client]
  BY DEF BInv, TypeOK
<1>same. ASSUME UNCHANGED <<waiting_count, client>>, main' \in Main, Created' PROVE BInv'
  BY <1>same, <1>type DEF BInv, TypeOK, InOrder, Measured, NoEarlyStart, Arrived
<1>1. CASE MainLock \/ MainCheck \/ MainWakesUp \/ MainFails \/ Output
  <2>1. UNCHANGED <<waiting_count, client>> /\ main' \in Main
    BY <1>1, <1>type DEF MainLock, MainCheck, MainWakesUp, MainFails, Output, Main
  <2>2. Created'
    BY <1>1, <2>1, <1>type
       DEF MainLock, MainCheck, MainWakesUp, MainFails, Output, BInv, Created, Main
  <2> QED
    BY <2>1, <2>2, <1>same
<1>2. CASE Join
  <2>1. main.i \in Thread
    BY <1>2 DEF Join, BInv, Created
  <2>2. UNCHANGED <<waiting_count, client>> /\ main' \in Main
    BY <1>2, <2>1, <1>type DEF Join, Main
  <2>3. Created'
    BY <1>2, <2>1, <2>2, <1>type DEF Join, BInv, Created, Main
  <2> QED
    BY <2>2, <2>3, <1>same
<1>3. ASSUME NEW i \in Thread, i = main.i, client[i].at \in {"none", "created"},
             NEW at \in {"created", "register"},
             client' = [client EXCEPT ![i].at = at], UNCHANGED waiting_count,
             waiting_count = i, main' \in Main, Created'
      PROVE  BInv'
  <2>1. TypeOK'
    BY <1>3, <1>type DEF BInv, TypeOK, Client
  <2>2. \A t \in Thread : t # i => client'[t] = client[t]
    BY <1>3, <1>type
  <2>3. client'[i] = [client[i] EXCEPT !.at = at]
    BY <1>3, <1>type
  <2>4. /\ client'[i].at = at
        /\ client'[i].i = client[i].i
        /\ client'[i].recorded = client[i].recorded
    BY <2>3, <1>3, <1>type DEF Client
  <2>5. ~Arrived(i) /\ ~Arrived(i)'
    BY <2>4, <1>3 DEF Arrived
  <2>6. \A t \in Thread : Arrived(t)' <=> Arrived(t)
    BY <2>2, <2>5 DEF Arrived
  <2>7. InOrder'
    BY <2>2, <2>6, <1>3 DEF BInv, InOrder
  <2>8. Measured'
    BY <2>2, <2>4, <1>3 DEF BInv, Measured
  <2>9. NoEarlyStart'
    BY <2>2, <2>4, <2>6, <1>3 DEF BInv, NoEarlyStart
  <2> QED
    BY <1>3, <2>1, <2>7, <2>8, <2>9 DEF BInv
<1>4. CASE Create
  <2>1. main.i \in Thread /\ waiting_count = main.i /\ client[main.i].at = "none"
    BY <1>4 DEF Create, BInv, Created
  <2>2. main' \in Main /\ main'.at = "start" /\ main'.i = main.i
    BY <1>4, <1>type DEF Create, Main
  <2>3. client' = [client EXCEPT ![main.i].at = "created"] /\ UNCHANGED waiting_count
    BY <1>4 DEF Create, Goes
  <2>4. Created'
    BY <1>4, <2>1, <2>2, <2>3, <1>type DEF Create, BInv, Created, Client
  <2> QED
    BY <2>1, <2>2, <2>3, <2>4, <1>3
<1>5. CASE Start
  <2>1. main.i \in Thread /\ waiting_count = main.i /\ client[main.i].at = "created"
    BY <1>5 DEF Start, BInv, Created
  <2>2. client' = [client EXCEPT ![main.i].at = "register"] /\ UNCHANGED waiting_count
    BY <1>5 DEF Start, Goes
  <2>3. main' \in Main
    BY <1>5, <2>1, <1>type DEF Start, Main
  <2>4. Created'
    <3>1. CASE main.i + 1 = THREAD_NUM
      BY <1>5, <3>1, <2>1, <2>2, <1>type DEF Start, BInv, Created
    <3>2. CASE main.i + 1 # THREAD_NUM
      <4>1. main' = [at |-> "lock", i |-> main.i + 1] /\ main.i + 1 \in Thread
        BY <1>5, <3>2, <2>1 DEF Start
      <4>2. \A t \in Thread : main.i + 1 <= t => client'[t].at = "none"
        BY <1>5, <2>1, <2>2, <1>type DEF Start, BInv, Created
      <4> QED
        BY <4>1, <4>2 DEF Created
    <3> QED
      BY <3>1, <3>2
  <2> QED
    BY <2>1, <2>2, <2>3, <2>4, <1>3
<1>6. ASSUME NEW t \in Thread, NEW c \in Client, client' = [client EXCEPT ![t] = c],
             UNCHANGED <<waiting_count, main>>, Advance(client[t], c)
      PROVE  BInv'
  <2>1. client' \in [Thread -> Client]
    BY <1>6, <1>type
  <2>2. \A u \in Thread : client'[u] = client[u] \/ Advance(client[u], client'[u])
    BY <1>6, <1>type
  <2> QED
    BY <1>6, <2>1, <2>2, ClientStep
<1>7. ASSUME NEW t \in Thread,
             Register(t) \/ RegisterFails(t) \/ WakesUp(t) \/ Lock(t) \/ Check(t)
               \/ InvokeSucceeds(t) \/ LoopEnds(t)
      PROVE  BInv'
  <2>1. UNCHANGED <<waiting_count, main>>
    BY <1>7 DEF Register, RegisterFails, WakesUp, Lock, Check, InvokeSucceeds, LoopEnds
  <2>2. client[t] \in Client /\ client[t].recorded = client[t].i
    BY <1>type DEF BInv, Measured
  <2>3. \A a : a \in {"failed", "lock", "arrive", "check", "sleep", "wake", "notify", "done"}
          => LET c == [client[t] EXCEPT !.at = a]
             IN  c \in Client /\ c.at = a /\ c.recorded = c.i /\ c.i = client[t].i
    BY <2>2 DEF Client
  <2>4. CASE Register(t) \/ RegisterFails(t) \/ WakesUp(t) \/ Lock(t)
    <3>1. PICK a \in {"failed", "lock", "arrive", "check", "wake"} :
            /\ client' = [client EXCEPT ![t] = [client[t] EXCEPT !.at = a]]
            /\ client[t].at \in {"register", "sleep", "lock", "wake"}
            /\ client[t].at \in Behind <=> a \in Behind
      BY <2>4, <1>type DEF Register, RegisterFails, WakesUp, Lock, Runs, Goes, Behind
    <3> QED
      BY <3>1, <2>1, <2>3, <1>6 DEF Advance
  <2>5. CASE Check(t)
    <3>1. CASE waiting_count = THREAD_NUM
      <4>1. \A u \in Thread : Arrived(u)
        BY <3>1 DEF BInv, InOrder
      <4> QED
        BY <2>5, <3>1, <4>1, <2>1, <2>3, <1>6, <1>type DEF Check, Runs, Goes, Advance, Behind
    <3>2. CASE waiting_count # THREAD_NUM
      BY <2>5, <3>2, <2>1, <2>3, <1>6, <1>type DEF Check, Runs, Goes, Advance, Behind
    <3> QED
      BY <3>1, <3>2
  <2>6. CASE InvokeSucceeds(t)
    <3> DEFINE c == [client[t] EXCEPT !.i = @ + 1, !.recorded = @ + 1]
    <3>1. client' = [client EXCEPT ![t] = c] /\ client[t].at = "invoke"
      BY <2>6, <1>type DEF InvokeSucceeds, Runs
    <3>2. client[t].i + 1 \in 0..ITERATIONS /\ client[t].recorded + 1 \in 0..ITERATIONS
      BY <2>6, <2>2 DEF InvokeSucceeds, Client
    <3>3. c \in Client
      <4>1. \A n, m \in 0..ITERATIONS :
              [[client[t] EXCEPT !.i = n] EXCEPT !.recorded = m] \in Client
        BY <2>2 DEF Client
      <4>2. c = [[client[t] EXCEPT !.i = client[t].i + 1]
                   EXCEPT !.recorded = client[t].recorded + 1]
        BY <2>2 DEF Client
      <4> QED
        BY <3>2, <4>1, <4>2
    <3>4. c.at = "invoke" /\ c.recorded = c.i
      BY <2>2, <3>1 DEF Client
    <3>5. Advance(client[t], c)
      BY <3>1, <3>4 DEF Advance, Behind, BInv, NoEarlyStart
    <3> HIDE DEF c
    <3> QED
      BY <3>1, <3>3, <3>5, <2>1, <1>6
  <2>7. CASE LoopEnds(t)
    <3>1. \A u \in Thread : Arrived(u)
      BY <2>7 DEF LoopEnds, Runs, BInv, NoEarlyStart
    <3> QED
      BY <2>7, <3>1, <2>1, <2>3, <1>6, <1>type DEF LoopEnds, Runs, Goes, Advance, Behind
  <2> QED
    BY <1>7, <2>4, <2>5, <2>6, <2>7
<1>8. ASSUME NEW t \in Thread, Notify(t) PROVE BInv'
  <2>1. UNCHANGED <<waiting_count, main>> /\ client[t].at = "notify"
    BY <1>8 DEF Notify, Runs
  <2>2. client' \in [Thread -> Client]
    BY <1>8, <1>type DEF Notify, Goes, Client
  <2>3. \A u \in Thread : Arrived(u)
    BY <2>1 DEF BInv, NoEarlyStart
  <2>4. \A u \in Thread :
          \/ client'[u] = client[u]
          \/ /\ client[u].at \in {"notify", "sleep"}
             /\ client'[u] \in {[client[u] EXCEPT !.at = "invoke"],
                                [client[u] EXCEPT !.at = "wake"]}
    BY <1>8, <2>1, <1>type DEF Notify, Goes
  <2>5. \A u \in Thread : client'[u] = client[u] \/ Advance(client[u], client'[u])
    BY <2>3, <2>4, <1>type DEF Advance, Behind, BInv, Measured, Client
  <2> QED
    BY <2>1, <2>2, <2>5, ClientStep
<1>9. ASSUME NEW t \in Thread, Arrive(t) PROVE BInv'
  <2>1. client[t].at = "arrive" /\ waiting_count = t
    BY <1>9, <1>type DEF Arrive, Runs, BInv, InOrder, Arrived
  <2>2. waiting_count' = waiting_count + 1 /\ waiting_count' \in 0..THREAD_NUM
    BY <1>9, <2>1 DEF Arrive
  <2>3. client' = [client EXCEPT ![t] = [client[t] EXCEPT !.at = "check"]]
    BY <1>9, <1>type DEF Arrive, Goes
  <2>4. /\ client' \in [Thread -> Client]
        /\ \A u \in Thread : u # t => client'[u] = client[u]
        /\ client'[t].at = "check" /\ client'[t].i = client[t].i
        /\ client'[t].recorded = client[t].recorded
    BY <2>3, <1>type DEF Client
  <2>5. /\ main' \in Main /\ main'.i = main.i
        /\ main'.at = main.at \/ (main.at = "sleep" /\ main'.at = "wake")
    BY <1>9, <1>type DEF Arrive, Main
  <2>6. TypeOK'
    BY <2>2, <2>4, <2>5 DEF TypeOK
  <2>7. InOrder'
    BY <2>1, <2>2, <2>4, <1>type DEF BInv, InOrder, Arrived
  <2>8. Created'
    BY <2>1, <2>2, <2>4, <2>5, <1>type DEF BInv, Created, Main
  <2>9. Measured'
    BY <2>4 DEF BInv, Measured
  <2>10. NoEarlyStart'
    BY <2>1, <2>4 DEF BInv, NoEarlyStart, Arrived
  <2> QED
    BY <2>6, <2>7, <2>8, <2>9, <2>10 DEF BInv
<1>10. CASE UNCHANGED vars
  BY <1>10 DEF vars, BInv, TypeOK, InOrder, Created, Measured, NoEarlyStart, Arrived
<1> QED
  BY <1>1, <1>2, <1>4, <1>5, <1>7, <1>8, <1>9, <1>10
     DEF Next, MainRuns, ClientRuns, InvokeFails

(* The inductive invariant of the benchmark client.                        *)
THEOREM Inductive == Spec => []BInv
BY InitBInv, NextBInv, PTL DEF Spec

(* The variables keep their types; no thread records more than ITERATIONS. *)
THEOREM TypeCorrect == Spec => []TypeOK
<1>1. BInv => TypeOK
  BY DEF BInv
<1> QED
  BY <1>1, Inductive, PTL

(* Clients register one after the other, in order, for any number of them. *)
THEOREM Serialized == Spec => []SerialRegistration
<1>1. BInv => SerialRegistration
  BY DEF BInv, TypeOK, InOrder, SerialRegistration, Thread
<1> QED
  BY <1>1, Inductive, PTL

(* No client begins to measure before all are registered.                  *)
THEOREM StartTogether == Spec => []NoEarlyStart
<1>1. BInv => NoEarlyStart
  BY DEF BInv
<1> QED
  BY <1>1, Inductive, PTL

(* Who sleeps at the barrier when all have arrived has somebody on the way *)
(* to wake it up; each of the steps that could break the chain passes it   *)
(* on.                                                                     *)
LEMMA NextNoLostWakeUp == BInv /\ NoLostWakeUp /\ [Next]_vars => NoLostWakeUp'
<1> SUFFICES ASSUME BInv, NoLostWakeUp, [Next]_vars PROVE NoLostWakeUp'
  OBVIOUS
<1> USE ThreadAssumption
<1> DEFINE Carrier(t) == client[t].at \in {"wake", "check", "notify"}
<1>type. /\ TypeOK /\ waiting_count \in Nat /\ main \in Main
         /\ client \in [Thread -> Client]
  BY DEF BInv, TypeOK
<1>1. CASE MainRuns \/ MainLock \/ MainWakesUp \/ UNCHANGED vars
  <2>1. main'.at = "sleep" => waiting_count' # main'.i
    BY <1>1, <1>type
       DEF MainRuns, MainLock, MainWakesUp, MainCheck, Create, Start, MainFails, Join,
           Output, vars, NoLostWakeUp, Main
  <2>2. CASE Create \/ Start
    <3>1. /\ main.i \in Thread /\ waiting_count = main.i /\ UNCHANGED waiting_count
      BY <2>2 DEF Create, Start, BInv, Created
    <3>2. waiting_count' # THREAD_NUM
      BY <3>1 DEF Thread
    <3> QED
      BY <2>1, <3>2 DEF NoLostWakeUp
  <2>3. CASE UNCHANGED <<waiting_count, client>>
    BY <2>1, <2>3 DEF NoLostWakeUp
  <2> QED
    BY <1>1, <2>2, <2>3
       DEF MainRuns, MainLock, MainWakesUp, MainCheck, MainFails, Join, Output, vars
<1>2. ASSUME NEW t \in Thread, Arrive(t) PROVE NoLostWakeUp'
  <2>1. main'.at # "sleep"
    BY <1>2, <1>type DEF Arrive, Main
  <2>2. client'[t].at = "check"
    BY <1>2, <1>type DEF Arrive, Goes, Client
  <2> QED
    BY <2>1, <2>2 DEF NoLostWakeUp
<1>3. ASSUME UNCHANGED <<waiting_count, main>>,
             waiting_count = THREAD_NUM =>
               \/ \A u \in Thread : client'[u].at # "sleep"
               \/ \E u \in Thread : client'[u].at \in {"wake", "check", "notify"}
      PROVE  NoLostWakeUp'
  BY <1>3 DEF NoLostWakeUp
<1>4. ASSUME NEW t \in Thread, NEW from, NEW to, from # "sleep", to # "sleep",
             from \notin {"wake", "check", "notify"} \/ to \in {"wake", "check", "notify"},
             client[t].at = from, client' \in [Thread -> Client], client'[t].at = to,
             \A u \in Thread : u # t => client'[u] = client[u],
             UNCHANGED <<waiting_count, main>>
      PROVE  NoLostWakeUp'
  <2>1. \A u \in Thread : client'[u].at = "sleep" => client[u].at = "sleep"
    BY <1>4
  <2>2. \A u \in Thread : Carrier(u) => client'[u].at \in {"wake", "check", "notify"}
    BY <1>4
  <2> QED
    BY <1>4, <2>1, <2>2 DEF NoLostWakeUp
<1>5. ASSUME NEW t \in Thread, Register(t) \/ RegisterFails(t) \/ LoopEnds(t) \/ Lock(t)
      PROVE  NoLostWakeUp'
  <2>1. PICK to \in {"lock", "failed", "done", "arrive", "check"} :
          /\ Goes(t, to)
          /\ \/ client[t].at \in {"register", "invoke", "lock"}
             \/ client[t].at = "wake" /\ to = "check"
    BY <1>5 DEF Register, RegisterFails, LoopEnds, Lock, Runs
  <2>2. UNCHANGED <<waiting_count, main>>
    BY <1>5 DEF Register, RegisterFails, LoopEnds, Lock
  <2>3. /\ client' \in [Thread -> Client] /\ client'[t].at = to
        /\ \A u \in Thread : u # t => client'[u] = client[u]
    BY <2>1, <1>type DEF Goes, Client
  <2> QED
    BY <2>1, <2>2, <2>3, <1>4
<1>6. ASSUME NEW t \in Thread, Check(t) \/ WakesUp(t) \/ Notify(t) PROVE NoLostWakeUp'
  <2>1. UNCHANGED <<waiting_count, main>>
    BY <1>6 DEF Check, WakesUp, Notify
  <2>2. CASE Check(t)
    <3>1. waiting_count = THREAD_NUM => client'[t].at = "notify"
      BY <2>2, <1>type DEF Check, Goes, Client
    <3> QED
      BY <2>1, <3>1, <1>3
  <2>3. CASE WakesUp(t)
    <3>1. client'[t].at = "wake"
      BY <2>3, <1>type DEF WakesUp, Goes, Client
    <3> QED
      BY <2>1, <3>1, <1>3
  <2>4. CASE Notify(t)
    <3>1. CASE \E s \in Thread :
                 /\ client[s].at = "sleep"
                 /\ client' = [client EXCEPT ![t].at = "invoke", ![s].at = "wake"]
      <4>1. PICK s \in Thread :
              /\ client[s].at = "sleep"
              /\ client' = [client EXCEPT ![t].at = "invoke", ![s].at = "wake"]
        BY <3>1
      <4>2. s # t
        BY <4>1, <2>4 DEF Notify, Runs
      <4>3. client'[s].at = "wake"
        BY <4>1, <4>2, <1>type DEF Client
      <4> QED
        BY <2>1, <4>3, <1>3
    <3>2. CASE (\A s \in Thread : client[s].at # "sleep") /\ Goes(t, "invoke")
      <4>1. \A u \in Thread : client'[u].at # "sleep"
        BY <3>2, <1>type DEF Goes, Client
      <4> QED
        BY <2>1, <4>1, <1>3
    <3> QED
      BY <2>4, <3>1, <3>2 DEF Notify
  <2> QED
    BY <1>6, <2>2, <2>3, <2>4
<1>7. ASSUME NEW t \in Thread, InvokeSucceeds(t) PROVE NoLostWakeUp'
  <2>1. /\ UNCHANGED <<waiting_count, main>> /\ client[t].at = "invoke"
        /\ client' = [client EXCEPT ![t].i = @ + 1, ![t].recorded = @ + 1]
    BY <1>7 DEF InvokeSucceeds, Runs
  <2>2. \A u \in Thread : client'[u].at = client[u].at
    BY <2>1, <1>type DEF Client
  <2> QED
    BY <2>1, <2>2 DEF NoLostWakeUp
<1> QED
  BY <1>1, <1>2, <1>5, <1>6, <1>7 DEF Next, ClientRuns, InvokeFails

(* No wake-up is lost, for any number of threads and whatever wakes them   *)
(* besides: the condition variables are notified by whoever changes what   *)
(* others wait for, and a thread that sleeps at the barrier after the last *)
(* arrival is the next link of a chain that is not broken.                 *)
THEOREM WakeUpsArrive == Spec => []NoLostWakeUp
<1>1. Init => NoLostWakeUp
  BY DEF Init, NoLostWakeUp, NoClient
<1> QED
  BY <1>1, Inductive, NextNoLostWakeUp, PTL DEF Spec

(* Of several clients, all complete results are printed or none.           *)
THEOREM PrintedComplete == Spec => []MetricsComplete
<1>1. BInv => MetricsComplete
  <2> SUFFICES ASSUME BInv, main.at = "output", THREAD_NUM > 1, NEW t \in Thread
               PROVE client[t].recorded = ITERATIONS
    BY DEF MetricsComplete
  <2>1. 0 \in Thread /\ 1 \in Thread
    BY ThreadAssumption DEF Thread
  <2>2. \A u \in Thread : client[u].at \in {"failed", "done"}
    BY DEF BInv, Created
  <2>3. client[0].at = "done"
    BY <2>1, <2>2 DEF BInv, InOrder, Arrived, TypeOK
  <2>4. Arrived(t)
    BY <2>1, <2>3 DEF BInv, NoEarlyStart
  <2>5. client[t].at = "done"
    BY <2>2, <2>4 DEF Arrived
  <2> QED
    BY <2>5 DEF BInv, Measured
<1> QED
  BY <1>1, Inductive, PTL

=============================================================================
