------------------------ MODULE ClientRegistryProofs ------------------------
(***************************************************************************)
(* Proofs about ClientRegistry, for any set of clients and of CPUs.        *)
(***************************************************************************)
EXTENDS ClientRegistry, TLAPS

(***************************************************************************)
(* The life of a session, whatever the data race does to available_cpus    *)
(***************************************************************************)

Blank(s) == s.gate = "none" /\ s.thread = "none" /\ s.cpu = NoCpu /\ ~s.irq

(* What the fields of the session s of client c and the state m of the     *)
(* main thread have to do with each other.                                 *)
Life(m, c, s) ==
  /\ m.for = c =>
       /\ s.client \in {"asking", "gone"}
       /\ m.at # "reply" => Blank(s)
       /\ m.at = "reply" => s.gate = "kept" /\ s.cpu = m.cpu
  /\ m.for # c =>
       /\ s.client \in {"out", "asking"} => Blank(s)
       /\ s.client = "gone" => s.gate \in {"kept", "deleted"}
  /\ s.client = "in" =>
       s.gate = "mapped" /\ s.thread \in {"wait", "serve", "check"}
  /\ s.gate = "kept" => s.thread = "wait" /\ ~s.irq
  /\ s.gate = "deleted" =>
       /\ s.client = "gone"
       /\ s.thread \in {"wait", "serve"} => s.irq
  /\ s.thread \in {"load", "store", "exit"} => s.gate = "deleted"
  /\ s.cpu = NoCpu <=> s.thread \in {"none", "exit"}

LInv == /\ TypeOK
        /\ main.at = "idle" => main.for = NoClient
        /\ \A c \in Client : Life(main, c, session[c])

(* The initial state satisfies the invariant.                              *)
LEMMA InitLInv == Init => LInv
BY ClientAssumption
DEF Init, LInv, TypeOK, Life, Blank, Session, NoSession, Main, IdleMain

(* A step changes at most one session, and the main thread on behalf of    *)
(* that client only, so the invariant has to be shown for it alone.        *)
LEMMA OneSession ==
  ASSUME LInv, NEW c \in Client, NEW s \in Session,
         session' = [session EXCEPT ![c] = s],
         available_cpus' \subseteq Cpu,
         main' \in Main,
         main'.at # "idle" => main'.for \in Client /\ main'.cpu \in Cpu,
         main'.at = "idle" => main'.for = NoClient,
         main' = main \/ (main.for \in {c, NoClient} /\ main'.for \in {c, NoClient}),
         Life(main', c, s)
  PROVE  LInv'
<1>1. TypeOK'
  BY DEF LInv, TypeOK
<1>2. session'[c] = s
  BY DEF LInv, TypeOK
<1>3. ASSUME NEW d \in Client, d # c PROVE Life(main', d, session'[d])
  <2>1. session'[d] = session[d] /\ Life(main, d, session[d])
    BY <1>3 DEF LInv, TypeOK
  <2>2. CASE main' = main
    BY <2>1, <2>2
  <2>3. CASE main.for # d /\ main'.for # d
    BY <2>1, <2>3 DEF Life
  <2> QED BY <1>3, <2>2, <2>3, ClientAssumption
<1> QED BY <1>1, <1>2, <1>3 DEF LInv

(* The same for a step of a client or of its thread, which does not touch  *)
(* the main thread.                                                        *)
LEMMA ThreadStep ==
  ASSUME LInv, NEW c \in Client, NEW s \in Session,
         session' = [session EXCEPT ![c] = s],
         available_cpus' \subseteq Cpu,
         main' = main,
         Life(main, c, s)
  PROVE  LInv'
BY OneSession DEF LInv, TypeOK

(* What a step may rely on.                                                *)
LEMMA FromLInv ==
  ASSUME LInv, NEW c \in Client
  PROVE  /\ session[c] \in Session
         /\ session \in [Client -> Session]
         /\ Life(main, c, session[c])
         /\ main \in Main /\ available_cpus \subseteq Cpu
         /\ main.at # "idle" => main.for \in Client /\ main.cpu \in Cpu
         /\ main.at = "idle" => main.for = NoClient
BY DEF LInv, TypeOK

(* The steps of the main thread on behalf of the client it registers.      *)
LEMMA MainRunsLInv == LInv /\ MainRuns => LInv'
<1> SUFFICES ASSUME LInv, MainRuns PROVE LInv'
    OBVIOUS
<1> USE ClientAssumption
<1>1. main.for \in Client
  BY DEF LInv, TypeOK, MainRuns, SelectLoad, SelectStore, SetUp, SetUpFails,
         ThreadCreateFails, Reply
<1>2. PICK c \in Client : c = main.for
  BY <1>1
<1> DEFINE r == session[c]
<1>3. /\ r \in Session
      /\ session \in [Client -> Session]
      /\ Life(main, c, r)
      /\ main \in Main /\ available_cpus \subseteq Cpu
      /\ main.at # "idle" /\ main.cpu \in Cpu
  BY <1>1, <1>2, FromLInv
<1>4. session = [session EXCEPT ![c] = r]
  BY <1>3
<1>5. CASE SelectLoad \/ SelectStore \/ ThreadCreateFails
  <2>1. /\ main.at \in {"load", "store", "setup"}
        /\ main'.at \in {"store", "setup", "stuck"}
        /\ main' \in Main /\ main'.for = c /\ main'.cpu = main.cpu
        /\ available_cpus' \subseteq Cpu
        /\ session' = session
    BY <1>2, <1>3, <1>5
    DEF SelectLoad, SelectStore, ThreadCreateFails, Main
  <2>2. Life(main', c, r)
    BY <1>2, <1>3, <2>1 DEF Life
  <2> HIDE DEF r
  <2> QED BY <1>2, <1>3, <1>4, <2>1, <2>2, OneSession
<1>6. CASE SetUp
  <2> DEFINE s == [r EXCEPT !.gate = "kept", !.thread = "wait",
                            !.cpu = main.cpu]
  <2>1. session' = [session EXCEPT ![c] = s] /\ s \in Session
    BY <1>2, <1>3, <1>6 DEF SetUp, Session
  <2>2. /\ main' \in Main /\ main'.at = "reply" /\ main.at = "setup"
        /\ main'.for = c /\ main'.cpu = main.cpu
        /\ available_cpus' \subseteq Cpu
    BY <1>2, <1>3, <1>6 DEF SetUp, Main
  <2>3. Life(main', c, s)
    BY <1>2, <1>3, <2>2, CpuAssumption DEF Life, Blank, Session
  <2> HIDE DEF s
  <2> QED BY <1>2, <1>3, <2>1, <2>2, <2>3, OneSession
<1>7. CASE SetUpFails
  <2>1. /\ main' \in Main /\ main'.at = "idle" /\ main'.for = NoClient
        /\ session' = [session EXCEPT ![c] = NoSession]
        /\ NoSession \in Session
        /\ available_cpus' \subseteq Cpu
    BY <1>2, <1>3, <1>7
    DEF SetUpFails, IdleMain, Main, NoSession, Session
  <2>2. Life(main', c, NoSession)
    BY <2>1 DEF Life, Blank, NoSession
  <2> QED BY <1>2, <2>1, <2>2, OneSession
<1>8. CASE Reply
  <2>1. /\ main' \in Main /\ main'.at = "idle" /\ main'.for = NoClient
        /\ main.at = "reply"
        /\ available_cpus' \subseteq Cpu
    BY <1>3, <1>8 DEF Reply, IdleMain, Main
  <2>2. CASE r.client = "asking"
    <3> DEFINE s == [r EXCEPT !.client = "in", !.gate = "mapped"]
    <3>1. s \in Session /\ session' = [session EXCEPT ![c] = s]
      BY <1>2, <1>3, <1>8, <2>2 DEF Reply, Session
    <3>2. Life(main', c, s)
      BY <1>2, <1>3, <2>1, <2>2 DEF Life, Blank, Session
    <3> HIDE DEF s
    <3> QED BY <1>2, <2>1, <3>1, <3>2, OneSession
  <2>3. CASE r.client # "asking"
    <3>1. session' = session
      BY <1>2, <1>8, <2>3 DEF Reply
    <3>2. Life(main', c, r)
      BY <1>2, <1>3, <2>1, <2>3 DEF Life, Blank
    <3> HIDE DEF r
    <3> QED BY <1>2, <1>3, <1>4, <2>1, <3>1, <3>2, OneSession
  <2> QED BY <2>2, <2>3
<1> QED BY <1>5, <1>6, <1>7, <1>8 DEF MainRuns

(* The steps of a client, of its thread, and of the main thread when it    *)
(* receives the client's call.                                             *)
LEMMA SessionLInv ==
  ASSUME LInv, NEW c \in Client,
         \/ MainStep(c) \/ ClientStep(c)
         \/ WorkerGateDeleted(c) \/ ThreadRuns(c)
  PROVE  LInv'
<1> DEFINE r == session[c]
<1>1. /\ r \in Session
      /\ session \in [Client -> Session]
      /\ Life(main, c, r)
      /\ main \in Main /\ available_cpus \subseteq Cpu
      /\ main.at # "idle" => main.for \in Client /\ main.cpu \in Cpu
      /\ main.at = "idle" => main.for = NoClient
  BY FromLInv
<1>2. session = [session EXCEPT ![c] = r]
  BY <1>1
<1> USE ClientAssumption, CpuAssumption
<1>3. CASE NoCpuLeft(c)
  <2> DEFINE s == [r EXCEPT !.client = "out"]
  <2>1. /\ s \in Session /\ session' = [session EXCEPT ![c] = s]
        /\ main' = main /\ available_cpus' \subseteq Cpu
    BY <1>1, <1>3 DEF NoCpuLeft, Session
  <2>2. Life(main, c, s)
    BY <1>1, <1>3 DEF NoCpuLeft, Pending, Life, Blank, Session
  <2> HIDE DEF s
  <2> QED BY <2>1, <2>2, ThreadStep
<1>4. CASE SelectCpu(c)
  <2>1. /\ main' \in Main /\ main'.at = "load" /\ main'.for = c
        /\ main'.cpu \in Cpu /\ main.for = NoClient
        /\ r.client = "asking"
        /\ available_cpus' \subseteq Cpu
        /\ session' = session
    BY <1>1, <1>4 DEF SelectCpu, Pending, Main
  <2>2. Life(main', c, r)
    BY <1>1, <2>1 DEF Life, Blank
  <2> HIDE DEF r
  <2> QED BY <1>1, <1>2, <2>1, <2>2, OneSession
<1>5. CASE RegisterCall(c)
  <2> DEFINE s == [r EXCEPT !.client = "asking"]
  <2>1. /\ s \in Session /\ session' = [session EXCEPT ![c] = s]
        /\ main' = main /\ available_cpus' \subseteq Cpu
    BY <1>1, <1>5 DEF RegisterCall, Session
  <2>2. Life(main, c, s)
    BY <1>1, <1>5 DEF RegisterCall, NoSession, Life, Blank, Session
  <2> HIDE DEF s
  <2> QED BY <2>1, <2>2, ThreadStep
<1>6. CASE Leave(c)
  <2> DEFINE s == [r EXCEPT !.client = "gone", !.gate = "deleted", !.irq = TRUE]
  <2>1. /\ s \in Session /\ session' = [session EXCEPT ![c] = s]
        /\ main' = main /\ available_cpus' \subseteq Cpu
    BY <1>1, <1>6 DEF Leave, Session
  <2>2. Life(main, c, s)
    BY <1>1, <1>6 DEF Leave, Life, Blank, Session
  <2> HIDE DEF s
  <2> QED BY <2>1, <2>2, ThreadStep
<1>7. CASE DieAsking(c)
  <2> DEFINE s == IF main.for = c THEN [r EXCEPT !.client = "gone"]
                                  ELSE NoSession
  <2>1. /\ s \in Session /\ session' = [session EXCEPT ![c] = s]
        /\ main' = main /\ available_cpus' \subseteq Cpu
    BY <1>1, <1>7 DEF DieAsking, Session, NoSession
  <2>2. Life(main, c, s)
    BY <1>1, <1>7 DEF DieAsking, Life, Blank, Session, NoSession
  <2> HIDE DEF s
  <2> QED BY <2>1, <2>2, ThreadStep
<1>8. CASE Request(c)
  <2> DEFINE s == [r EXCEPT !.thread = "serve"]
  <2>1. /\ s \in Session /\ session' = [session EXCEPT ![c] = s]
        /\ main' = main /\ available_cpus' \subseteq Cpu
    BY <1>1, <1>8 DEF Request, Session
  <2>2. Life(main, c, s)
    BY <1>1, <1>8 DEF Request, Life, Blank, Session
  <2> HIDE DEF s
  <2> QED BY <2>1, <2>2, ThreadStep
<1>9. CASE WorkerGateDeleted(c)
  <2> DEFINE s == [r EXCEPT !.irq = TRUE]
  <2>1. /\ s \in Session /\ session' = [session EXCEPT ![c] = s]
        /\ main' = main /\ available_cpus' \subseteq Cpu
    BY <1>1, <1>9 DEF WorkerGateDeleted, Session
  <2>2. Life(main, c, s)
    BY <1>1, <1>9 DEF WorkerGateDeleted, Life, Blank, Session
  <2> HIDE DEF s
  <2> QED BY <2>1, <2>2, ThreadStep
<1>10. CASE ServeEnd(c)
  <2> DEFINE s == [r EXCEPT !.thread = "wait"]
  <2>1. /\ s \in Session /\ session' = [session EXCEPT ![c] = s]
        /\ main' = main /\ available_cpus' \subseteq Cpu
    BY <1>1, <1>10 DEF ServeEnd, Session
  <2>2. Life(main, c, s)
    BY <1>1, <1>10 DEF ServeEnd, Life, Blank, Session
  <2> HIDE DEF s
  <2> QED BY <2>1, <2>2, ThreadStep
<1>11. CASE TakeIrq(c)
  <2> DEFINE s == [r EXCEPT !.thread = "check", !.irq = FALSE]
  <2>1. /\ s \in Session /\ session' = [session EXCEPT ![c] = s]
        /\ main' = main /\ available_cpus' \subseteq Cpu
    BY <1>1, <1>11 DEF TakeIrq, Session
  <2>2. Life(main, c, s)
    BY <1>1, <1>11 DEF TakeIrq, Life, Blank, Session
  <2> HIDE DEF s
  <2> QED BY <2>1, <2>2, ThreadStep
<1>12. CASE CheckGate(c)
  <2> DEFINE s == [r EXCEPT !.thread = IF r.gate # "deleted" THEN "wait"
                                                             ELSE "load"]
  <2>1. /\ s \in Session /\ session' = [session EXCEPT ![c] = s]
        /\ main' = main /\ available_cpus' \subseteq Cpu
    BY <1>1, <1>12 DEF CheckGate, ClientGateValid, Session
  <2>2. Life(main, c, s)
    BY <1>1, <1>12 DEF CheckGate, Life, Blank, Session
  <2> HIDE DEF s
  <2> QED BY <2>1, <2>2, ThreadStep
<1>13. CASE FreeLoad(c)
  <2> DEFINE s == [r EXCEPT !.thread = "store", !.seen = available_cpus]
  <2>1. /\ s \in Session /\ session' = [session EXCEPT ![c] = s]
        /\ main' = main /\ available_cpus' \subseteq Cpu
    BY <1>1, <1>13 DEF FreeLoad, Session
  <2>2. Life(main, c, s)
    BY <1>1, <1>13 DEF FreeLoad, Life, Blank, Session
  <2> HIDE DEF s
  <2> QED BY <2>1, <2>2, ThreadStep
<1>14. CASE FreeStore(c)
  <2> DEFINE s == [r EXCEPT !.thread = "exit", !.cpu = NoCpu, !.seen = {}]
  <2>1. /\ s \in Session /\ session' = [session EXCEPT ![c] = s]
        /\ main' = main
    BY <1>1, <1>14 DEF FreeStore, Session
  <2>2. available_cpus' \subseteq Cpu
    BY <1>1, <1>14 DEF FreeStore, Session, Life
  <2>3. Life(main, c, s)
    BY <1>1, <1>14 DEF FreeStore, Life, Blank, Session
  <2> HIDE DEF s
  <2> QED BY <2>1, <2>2, <2>3, ThreadStep
<1>15. CASE Exit(c)
  <2>1. /\ NoSession \in Session
        /\ session' = [session EXCEPT ![c] = NoSession]
        /\ main' = main /\ available_cpus' \subseteq Cpu
    BY <1>1, <1>15 DEF Exit, Session, NoSession
  <2>2. Life(main, c, NoSession)
    BY <1>1, <1>15 DEF Exit, Life, Blank, Session, NoSession
  <2> QED BY <2>1, <2>2, ThreadStep
<1> QED
  BY <1>3, <1>4, <1>5, <1>6, <1>7, <1>8, <1>9, <1>10, <1>11, <1>12, <1>13,
     <1>14, <1>15
  DEF MainStep, ClientStep, ThreadRuns

(* The inductive step.                                                     *)
LEMMA NextLInv == LInv /\ [Next]_vars => LInv'
<1>1. LInv /\ UNCHANGED vars => LInv'
  BY DEF vars, LInv, TypeOK
<1> QED BY <1>1, MainRunsLInv, SessionLInv DEF Next

(* Every reachable state satisfies the invariant, races included.          *)
THEOREM LifeCycle == Spec => []LInv
BY InitLInv, NextLInv, PTL DEF Spec

(* The variables have their types, whatever the data race does.            *)
THEOREM TypeCorrect == Spec => []TypeOK
<1>1. LInv => TypeOK
  BY DEF LInv
<1> QED BY <1>1, LifeCycle, PTL

(* No session is torn down before its client has left.                     *)
THEOREM TeardownOnlyAfterLeave == Spec => []NoPrematureTeardown
<1>1. LInv => NoPrematureTeardown
  BY DEF LInv, Life, NoPrematureTeardown
<1> QED BY <1>1, LifeCycle, PTL

(* The deletion of a client's gate is not lost among those of workers.     *)
THEOREM DeletionNotLost == Spec => []NoLostDeletion
<1>1. LInv => NoLostDeletion
  BY DEF LInv, Life, NoLostDeletion
<1> QED BY <1>1, LifeCycle, PTL

-----------------------------------------------------------------------------
(***************************************************************************)
(* While updates of available_cpus do not overlap, the registry assigns    *)
(* every CPU to one client at most, and implements CpuPool.                *)
(***************************************************************************)

(* What a thread loaded is still true when it stores, and the CPU that is  *)
(* about to be marked is still available.                                  *)
SInv ==
  /\ Serial
  /\ main.at \in {"load", "store"} => main.cpu \in available_cpus
  /\ main.at = "store" => main.seen = available_cpus
  /\ \A c \in Client :
       session[c].thread = "store" => session[c].seen = available_cpus
  /\ AssignedNotAvailable
  /\ DedicatedCpu

PInv == LInv /\ SInv

(* The effect of a step on the assignment: c's becomes p, the others stay. *)
Assigns(c, p) ==
  /\ AssignedCpu(c)' = p
  /\ \A d \in Client : d # c => AssignedCpu(d)' = AssignedCpu(d)

SameAssignment == \A d \in Client : AssignedCpu(d)' = AssignedCpu(d)

Marked(c) == /\ AssignedCpu(c) = NoCpu
             /\ main.cpu \in available_cpus
             /\ Assigns(c, main.cpu)
             /\ available_cpus' = available_cpus \ {main.cpu}

Returned(c) == /\ AssignedCpu(c) \in Cpu
               /\ Assigns(c, NoCpu)
               /\ available_cpus' = available_cpus \cup {AssignedCpu(c)}

Leaked(c) == /\ AssignedCpu(c) \in Cpu
             /\ Assigns(c, NoCpu)
             /\ available_cpus' = available_cpus

(* Every assignment is of a CPU the manager was given.                     *)
LEMMA AssignedType ==
  ASSUME LInv, NEW c \in Client
  PROVE  AssignedCpu(c) \in Cpu \cup {NoCpu}
BY FromLInv DEF AssignedCpu, Session

(* The steps of the main thread mark a CPU, leak one or keep the           *)
(* assignment.                                                             *)
LEMMA MainEffect ==
  ASSUME PInv, MainRuns
  PROVE  \/ SameAssignment /\ available_cpus' = available_cpus
         \/ \E c \in Client : Marked(c) \/ Leaked(c)
<1> USE ClientAssumption, CpuAssumption
<1>1. main.for \in Client
  BY DEF PInv, LInv, TypeOK, MainRuns, SelectLoad, SelectStore, SetUp,
         SetUpFails, ThreadCreateFails, Reply
<1>2. PICK c \in Client : c = main.for
  BY <1>1
<1>3. /\ session[c] \in Session
      /\ session \in [Client -> Session]
      /\ Life(main, c, session[c])
      /\ main \in Main
      /\ main.cpu \in Cpu
  BY <1>1, <1>2, FromLInv DEF PInv
<1>4. \A d \in Client : d # c => AssignedCpu(d) = session[d].cpu
  BY <1>2 DEF AssignedCpu
<1>5. CASE SelectLoad
  BY <1>3, <1>5 DEF SelectLoad, SameAssignment, AssignedCpu, Main
<1>6. CASE SelectStore
  <2>1. /\ main.at = "store" /\ main'.at = "setup" /\ main'.for = c
        /\ main'.cpu = main.cpu /\ session' = session
        /\ main.seen = available_cpus /\ main.cpu \in available_cpus
        /\ available_cpus' = available_cpus \ {main.cpu}
    BY <1>2, <1>3, <1>6 DEF SelectStore, Main, PInv, SInv
  <2>2. AssignedCpu(c) = NoCpu
    BY <1>2, <1>3, <2>1 DEF AssignedCpu, Life, Blank
  <2>3. Assigns(c, main.cpu)
    BY <1>2, <1>4, <2>1 DEF Assigns, AssignedCpu
  <2> QED BY <2>1, <2>2, <2>3 DEF Marked
<1>7. CASE SetUp
  <2>1. /\ main.at = "setup" /\ main'.at = "reply" /\ main'.for = c
        /\ main'.cpu = main.cpu /\ available_cpus' = available_cpus
        /\ \A d \in Client : d # c => session'[d] = session[d]
    BY <1>2, <1>3, <1>7 DEF SetUp, Main
  <2> QED BY <1>2, <1>4, <2>1 DEF SameAssignment, AssignedCpu
<1>8. CASE SetUpFails
  <2>1. /\ main.at = "setup" /\ main' = IdleMain
        /\ available_cpus' = available_cpus
        /\ session'[c] = NoSession
        /\ \A d \in Client : d # c => session'[d] = session[d]
    BY <1>2, <1>3, <1>8 DEF SetUpFails
  <2>2. AssignedCpu(c) = main.cpu
    BY <1>2, <2>1 DEF AssignedCpu
  <2>3. Assigns(c, NoCpu)
    BY <1>4, <2>1 DEF Assigns, AssignedCpu, IdleMain, NoSession
  <2> QED BY <1>3, <2>1, <2>2, <2>3 DEF Leaked
<1>9. CASE ThreadCreateFails
  <2>1. /\ main.at = "setup" /\ main'.at = "stuck"
        /\ available_cpus' = available_cpus
        /\ session' = session
    BY <1>3, <1>9 DEF ThreadCreateFails, Main
  <2>2. AssignedCpu(c) = main.cpu /\ session[c].cpu = NoCpu
    BY <1>2, <1>3, <2>1 DEF AssignedCpu, Life, Blank
  <2>3. Assigns(c, NoCpu)
    BY <1>4, <2>1, <2>2 DEF Assigns, AssignedCpu
  <2> QED BY <1>3, <2>1, <2>2, <2>3 DEF Leaked
<1>10. CASE Reply
  <2>1. /\ main.at = "reply" /\ main' = IdleMain
        /\ available_cpus' = available_cpus
        /\ \A d \in Client : session'[d].cpu = session[d].cpu
    BY <1>2, <1>3, <1>10 DEF Reply
  <2>2. session[c].cpu = main.cpu
    BY <1>2, <1>3, <2>1 DEF Life
  <2>3. \A d \in Client : AssignedCpu(d)' = session[d].cpu
    BY <2>1 DEF AssignedCpu, IdleMain
  <2> QED BY <1>2, <1>4, <2>1, <2>2, <2>3 DEF SameAssignment, AssignedCpu
<1> QED BY <1>5, <1>6, <1>7, <1>8, <1>9, <1>10 DEF MainRuns

(* The steps for one session return a CPU or keep the assignment.          *)
LEMMA SessionEffect ==
  ASSUME PInv, NEW c \in Client,
         \/ MainStep(c) \/ ClientStep(c)
         \/ WorkerGateDeleted(c) \/ ThreadRuns(c)
  PROVE  \/ SameAssignment /\ available_cpus' = available_cpus
         \/ Returned(c)
<1> USE ClientAssumption, CpuAssumption
<1>1. /\ session[c] \in Session
      /\ session \in [Client -> Session]
      /\ Life(main, c, session[c])
      /\ main \in Main
      /\ main.at = "idle" => main.for = NoClient
  BY FromLInv DEF PInv
<1>2. CASE SelectCpu(c)
  <2>1. main.at = "idle" /\ main'.at = "load" /\ session' = session
    BY <1>1, <1>2 DEF SelectCpu, Pending, Main
  <2>2. available_cpus' = available_cpus
    BY <1>2 DEF SelectCpu
  <2> QED BY <2>1, <2>2 DEF SameAssignment, AssignedCpu
<1>3. CASE FreeStore(c)
  <2>1. /\ session[c].thread = "store"
        /\ session[c].seen = available_cpus
        /\ main' = main
        /\ available_cpus' = available_cpus \cup {session[c].cpu}
        /\ session'[c].cpu = NoCpu
        /\ \A d \in Client : d # c => session'[d] = session[d]
    BY <1>1, <1>3 DEF FreeStore, PInv, SInv, Session
  <2>2. main.for # c /\ session[c].cpu \in Cpu
    BY <1>1, <2>1 DEF Life, Blank, Session
  <2>3. AssignedCpu(c) = session[c].cpu
    BY <2>2 DEF AssignedCpu
  <2>4. Assigns(c, NoCpu)
    BY <2>1, <2>2 DEF Assigns, AssignedCpu
  <2> QED BY <2>1, <2>2, <2>3, <2>4 DEF Returned
<1>4. CASE \/ NoCpuLeft(c) \/ RegisterCall(c) \/ Leave(c) \/ DieAsking(c)
           \/ Request(c) \/ WorkerGateDeleted(c) \/ ServeEnd(c) \/ TakeIrq(c)
           \/ CheckGate(c) \/ FreeLoad(c) \/ Exit(c)
  <2>1. main' = main /\ available_cpus' = available_cpus
    BY <1>4 DEF NoCpuLeft, RegisterCall, Leave, DieAsking, Request,
                WorkerGateDeleted, ServeEnd, TakeIrq, CheckGate, FreeLoad, Exit
  <2>2. \A d \in Client : session'[d].cpu = session[d].cpu
    <3>1. CASE Exit(c)
      BY <1>1, <3>1 DEF Exit, Life, NoSession
    <3>2. CASE DieAsking(c)
      <4>1. main.for # c => session[c].cpu = NoCpu
        BY <1>1, <3>2 DEF DieAsking, Life, Blank
      <4> QED BY <1>1, <3>2, <4>1 DEF DieAsking, NoSession
    <3>3. CASE NoCpuLeft(c) \/ RegisterCall(c) \/ Leave(c)
      BY <1>1, <3>3 DEF NoCpuLeft, RegisterCall, Leave, Session
    <3>4. CASE Request(c) \/ WorkerGateDeleted(c) \/ ServeEnd(c)
      BY <1>1, <3>4 DEF Request, WorkerGateDeleted, ServeEnd, Session
    <3>5. CASE TakeIrq(c) \/ CheckGate(c) \/ FreeLoad(c)
      BY <1>1, <3>5 DEF TakeIrq, CheckGate, FreeLoad, Session
    <3> QED BY <1>4, <3>1, <3>2, <3>3, <3>4, <3>5
  <2> QED BY <2>1, <2>2 DEF SameAssignment, AssignedCpu
<1> QED BY <1>2, <1>3, <1>4 DEF MainStep, ClientStep, ThreadRuns

(* All steps together.                                                     *)
LEMMA Effect ==
  ASSUME PInv, SerialNext
  PROVE  \/ SameAssignment /\ available_cpus' = available_cpus
         \/ \E c \in Client : Marked(c) \/ Leaked(c) \/ Returned(c)
BY MainEffect, SessionEffect DEF SerialNext, Next

(* What was loaded stays true until it is stored, because nobody else      *)
(* stores in between.                                                      *)
Loaded ==
  /\ main.at \in {"load", "store"} => main.cpu \in available_cpus
  /\ main.at = "store" => main.seen = available_cpus
  /\ \A c \in Client :
       session[c].thread = "store" => session[c].seen = available_cpus

(* Whatever step is taken, Loaded holds after it.                          *)
LEMMA LoadedStays == PInv /\ SerialNext => Loaded'
<1> SUFFICES ASSUME PInv, SerialNext PROVE Loaded'
    OBVIOUS
<1>0. /\ session \in [Client -> Session] /\ main \in Main
      /\ main.at # "idle" => main.for \in Client
      /\ Serial /\ Loaded
      /\ \A c \in Client : Life(main, c, session[c])
  BY DEF PInv, LInv, TypeOK, SInv, Loaded
<1>1. CASE MainRuns
  <2>1. \A c \in Client :
          session'[c].thread = "store" => session'[c] = session[c]
    BY <1>0, <1>1 DEF MainRuns, SelectLoad, SelectStore, SetUp, SetUpFails,
       ThreadCreateFails, Reply, NoSession, Life, Blank, Session
  <2>2. CASE SelectStore
    BY <1>0, <2>1, <2>2 DEF SelectStore, Loaded, Serial, Main
  <2>3. CASE SelectLoad
    BY <1>0, <2>1, <2>3 DEF SelectLoad, Loaded, Main
  <2>4. CASE SetUp \/ SetUpFails \/ ThreadCreateFails \/ Reply
    <3>1. available_cpus' = available_cpus /\ main'.at \notin {"load", "store"}
      BY <1>0, <2>4
      DEF SetUp, SetUpFails, ThreadCreateFails, Reply, IdleMain, Main
    <3> QED BY <1>0, <2>1, <3>1 DEF Loaded
  <2> QED BY <1>1, <2>2, <2>3, <2>4 DEF MainRuns
<1>2. ASSUME NEW c \in Client, FreeStore(c) PROVE Loaded'
  <2>1. /\ main' = main /\ main.at # "store"
        /\ available_cpus \subseteq available_cpus'
        /\ \A d \in Client : session'[d].thread # "store"
    <3>1. session[c].thread = "store" /\ session'[c].thread = "exit"
      BY <1>0, <1>2 DEF FreeStore, Session
    <3>2. \A d \in Client : d # c => session'[d] = session[d]
      BY <1>0, <1>2 DEF FreeStore
    <3>3. /\ main' = main
          /\ available_cpus' = available_cpus \cup {session[c].cpu}
      BY <1>0, <1>2, <3>1 DEF FreeStore, Loaded
    <3> QED BY <1>0, <3>1, <3>2, <3>3 DEF Serial
  <2> QED BY <1>0, <2>1 DEF Loaded
<1>3. ASSUME NEW c \in Client, SelectCpu(c) PROVE Loaded'
  BY <1>0, <1>3 DEF SelectCpu, Loaded, Main
<1>4. ASSUME NEW c \in Client,
             \/ NoCpuLeft(c) \/ ClientStep(c) \/ WorkerGateDeleted(c)
             \/ ServeEnd(c) \/ TakeIrq(c) \/ CheckGate(c) \/ FreeLoad(c)
             \/ Exit(c)
      PROVE  Loaded'
  <2>1. main' = main /\ available_cpus' = available_cpus
    BY <1>4 DEF NoCpuLeft, ClientStep, RegisterCall, Leave, DieAsking, Request,
                WorkerGateDeleted, ServeEnd, TakeIrq, CheckGate, FreeLoad, Exit
  <2>2. \A d \in Client : session'[d].thread = "store" =>
          \/ session'[d].seen = available_cpus
          \/ session[d].thread = "store" /\ session'[d].seen = session[d].seen
    <3>1. CASE FreeLoad(c)
      BY <1>0, <3>1 DEF FreeLoad, Session
    <3>2. CASE NoCpuLeft(c) \/ RegisterCall(c) \/ Leave(c) \/ WorkerGateDeleted(c)
      BY <1>0, <3>2
      DEF NoCpuLeft, RegisterCall, Leave, WorkerGateDeleted, Session
    <3>3. CASE DieAsking(c) \/ Exit(c)
      BY <1>0, <3>3 DEF DieAsking, Exit, NoSession, Session
    <3>4. CASE Request(c) \/ ServeEnd(c) \/ TakeIrq(c) \/ CheckGate(c)
      BY <1>0, <3>4 DEF Request, ServeEnd, TakeIrq, CheckGate, Session
    <3> QED BY <1>4, <3>1, <3>2, <3>3, <3>4 DEF ClientStep
  <2> QED BY <1>0, <2>1, <2>2 DEF Loaded
<1> QED BY <1>1, <1>2, <1>3, <1>4
        DEF SerialNext, Next, MainStep, ThreadRuns

(* The initial state satisfies the invariant.                              *)
LEMMA InitPInv == Init => PInv
<1> SUFFICES ASSUME Init PROVE PInv
    OBVIOUS
<1>1. LInv
  BY InitLInv
<1>2. SInv
  BY CpuAssumption
  DEF Init, SInv, Serial, AssignedNotAvailable, DedicatedCpu, AssignedCpu,
      IdleMain, NoSession
<1> QED BY <1>1, <1>2 DEF PInv

(* The inductive step: exclusiveness follows from the effect of the step.  *)
LEMMA NextPInv == PInv /\ [SerialNext]_vars => PInv'
<1>1. ASSUME PInv, UNCHANGED vars PROVE PInv'
  <2>1. LInv'
    BY <1>1, NextLInv DEF PInv
  <2>2. SInv'
    BY <1>1 DEF PInv, SInv, vars, Serial, AssignedNotAvailable, DedicatedCpu,
                AssignedCpu
  <2> QED BY <2>1, <2>2 DEF PInv
<1>2. ASSUME PInv, SerialNext PROVE PInv'
  <2>1. LInv'
    BY <1>2, NextLInv DEF PInv, SerialNext
  <2>2. Serial' /\ Loaded'
    BY <1>2, LoadedStays DEF SerialNext
  <2>3. AssignedNotAvailable' /\ DedicatedCpu'
    <3>1. AssignedNotAvailable /\ DedicatedCpu
      BY <1>2 DEF PInv, SInv
    <3>2. NoCpu \notin available_cpus /\ available_cpus \subseteq Cpu
      BY <1>2, CpuAssumption DEF PInv, LInv, TypeOK
    <3>3. CASE SameAssignment /\ available_cpus' = available_cpus
      BY <3>1, <3>3 DEF SameAssignment, AssignedNotAvailable, DedicatedCpu
    <3>4. ASSUME NEW c \in Client, Marked(c)
          PROVE  AssignedNotAvailable' /\ DedicatedCpu'
      BY <3>1, <3>2, <3>4
      DEF Marked, Assigns, AssignedNotAvailable, DedicatedCpu
    <3>5. ASSUME NEW c \in Client, Leaked(c) \/ Returned(c)
          PROVE  AssignedNotAvailable' /\ DedicatedCpu'
      BY <3>1, <3>2, <3>5, CpuAssumption
      DEF Leaked, Returned, Assigns, AssignedNotAvailable, DedicatedCpu
    <3> QED BY <1>2, <3>3, <3>4, <3>5, Effect
  <2> QED BY <2>1, <2>2, <2>3 DEF PInv, SInv, Loaded
<1> QED BY <1>1, <1>2

(* The invariant holds in every execution without overlapping updates.     *)
THEOREM SerialInvariant == SerialSpec => []PInv
BY InitPInv, NextPInv, PTL DEF SerialSpec

(* No CPU is assigned to two clients.                                      *)
THEOREM Dedicated == SerialSpec => []DedicatedCpu
<1>1. PInv => DedicatedCpu
  BY DEF PInv, SInv
<1> QED BY <1>1, SerialInvariant, PTL

(* No CPU that is assigned is offered again.                               *)
THEOREM NotOffered == SerialSpec => []AssignedNotAvailable
<1>1. PInv => AssignedNotAvailable
  BY DEF PInv, SInv
<1> QED BY <1>1, SerialInvariant, PTL

(***************************************************************************)
(* The refinement                                                          *)
(***************************************************************************)

Owner == [c \in Client |-> AssignedCpu(c)]

Lost == {p \in Cpu : /\ p \notin available_cpus
                     /\ \A c \in Client : AssignedCpu(c) # p}

(* A step of the registry is a step of the pool or changes nothing of it.  *)
LEMMA PoolStep ==
  ASSUME PInv, SerialNext
  PROVE  Pool!Next \/ UNCHANGED <<Owner, Lost>>
<1>1. /\ AssignedNotAvailable /\ DedicatedCpu
      /\ available_cpus \subseteq Cpu /\ NoCpu \notin Cpu
      /\ \A c \in Client : AssignedCpu(c) \in Cpu \cup {NoCpu}
  BY CpuAssumption, AssignedType DEF PInv, SInv, LInv, TypeOK
<1>2. CASE SameAssignment /\ available_cpus' = available_cpus
  BY <1>2 DEF SameAssignment, Owner, Lost
<1>3. ASSUME NEW c \in Client, Marked(c) PROVE Pool!Acquire(c)
  <2>1. Owner[c] = NoCpu /\ main.cpu \in Pool!Free
    BY <1>1, <1>3 DEF Marked, AssignedNotAvailable, Owner, Pool!Free
  <2>2. Owner' = [Owner EXCEPT ![c] = main.cpu]
    BY <1>3 DEF Marked, Assigns, Owner
  <2>3. Lost' = Lost
    BY <1>1, <1>3 DEF Marked, Assigns, Lost
  <2> QED BY <2>1, <2>2, <2>3 DEF Pool!Acquire, Owner, Lost
<1>4. ASSUME NEW c \in Client, Returned(c) PROVE Pool!Release(c)
  <2>1. Owner[c] # NoCpu
    BY <1>1, <1>4 DEF Returned, Owner
  <2>2. Owner' = [Owner EXCEPT ![c] = NoCpu]
    BY <1>4 DEF Returned, Assigns, Owner
  <2>3. Lost' = Lost
    BY <1>1, <1>4 DEF Returned, Assigns, Lost
  <2> QED BY <2>1, <2>2, <2>3 DEF Pool!Release, Owner, Lost
<1>5. ASSUME NEW c \in Client, Leaked(c) PROVE Pool!Lose(c)
  <2>1. Owner[c] # NoCpu
    BY <1>1, <1>5 DEF Leaked, Owner
  <2>2. Owner' = [Owner EXCEPT ![c] = NoCpu]
    BY <1>5 DEF Leaked, Assigns, Owner
  <2>3. Lost' = Lost \cup {Owner[c]}
    <3>1. \A d \in Client : d # c => AssignedCpu(d) # AssignedCpu(c)
      BY <1>1, <1>5 DEF Leaked, DedicatedCpu
    <3>2. AssignedCpu(c) \in Cpu \ available_cpus
      BY <1>1, <1>5 DEF Leaked, AssignedNotAvailable
    <3> QED BY <1>1, <1>5, <3>1, <3>2 DEF Leaked, Assigns, Lost, Owner
  <2> QED BY <2>1, <2>2, <2>3 DEF Pool!Lose, Owner, Lost
<1> QED BY <1>2, <1>3, <1>4, <1>5, Effect DEF Pool!Next

(* The registry implements the pool.                                       *)
THEOREM ImplementsPool == SerialSpec => PoolSpec
<1>1. Init => Pool!Init
  <2> SUFFICES ASSUME Init PROVE Pool!Init
      OBVIOUS
  <2>1. \A c \in Client : AssignedCpu(c) = NoCpu
    BY DEF Init, AssignedCpu, IdleMain, NoSession
  <2> QED BY <2>1 DEF Pool!Init, Init
<1>2. PInv /\ [SerialNext]_vars => [Pool!Next]_<<Owner, Lost>>
  <2>1. UNCHANGED vars => UNCHANGED <<Owner, Lost>>
    BY DEF vars, Owner, Lost, AssignedCpu
  <2> QED BY <2>1, PoolStep
<1> QED BY <1>1, <1>2, SerialInvariant, PTL
        DEF SerialSpec, PoolSpec, Pool!Spec, Owner, Lost
=============================================================================
