--------------------------- MODULE MettEagleProofs ---------------------------
(***************************************************************************)
(* Proofs about MettEagle, the registry and the engine together: what was  *)
(* proved of either alone holds in the composition, and what only the      *)
(* composition can say, that workers exist only while they are served.     *)
(*                                                                         *)
(* The theorems about the engine are those of ActionInvokeProofs, which is *)
(* instantiated with the variables of the composition.                     *)
(***************************************************************************)
EXTENDS MettEagle, ClientRegistryProofs

EngineProofs == INSTANCE ActionInvokeProofs

(***************************************************************************)
(* The two instances of the engine are the same                            *)
(***************************************************************************)

(* What ActionInvokeProofs assumes of the constants is assumed here.       *)
LEMMA EngineConstants ==
  /\ MaxDepth \in Nat \ {0}
  /\ Long \subseteq Value
  /\ Value \cap (EngineProofs!Error \cup EngineProofs!Residue \cup {"none"}) = {}
BY EngineAssumption
DEF EngineProofs!Error, EngineProofs!Residue, Engine!Error, Engine!Residue

LEMMA SameInit == Engine!Init <=> EngineProofs!Init
BY DEF Engine!Init, EngineProofs!Init, Engine!Levels, EngineProofs!Levels,
       Engine!NoInvocation, EngineProofs!NoInvocation

LEMMA SameNext == Engine!Next <=> EngineProofs!Next
BY Zenon
   DEF Engine!Next, EngineProofs!Next, Engine!ManagerStep,
       EngineProofs!ManagerStep, Engine!WorkerStep, EngineProofs!WorkerStep,
       Engine!ClientStep, EngineProofs!ClientStep, Engine!Environment,
       EngineProofs!Environment, Engine!Launch, EngineProofs!Launch,
       Engine!LaunchFails, EngineProofs!LaunchFails, Engine!FirstReceive,
       EngineProofs!FirstReceive, Engine!ReplyAndReceive,
       EngineProofs!ReplyAndReceive, Engine!ReceiveTimesOut,
       EngineProofs!ReceiveTimesOut, Engine!Collect, EngineProofs!Collect,
       Engine!ScopeEnd, EngineProofs!ScopeEnd, Engine!Return,
       EngineProofs!Return, Engine!ClientReply, EngineProofs!ClientReply,
       Engine!Unwind, EngineProofs!Unwind, Engine!ErrorReply,
       EngineProofs!ErrorReply, Engine!WorkerExit, EngineProofs!WorkerExit,
       Engine!WorkerFails, EngineProofs!WorkerFails, Engine!WorkerSignal,
       EngineProofs!WorkerSignal, Engine!WorkerInvoke,
       EngineProofs!WorkerInvoke, Engine!ActionCreate,
       EngineProofs!ActionCreate, Engine!ActionDelete,
       EngineProofs!ActionDelete, Engine!ClientInvoke,
       EngineProofs!ClientInvoke, Engine!Revoke, EngineProofs!Revoke,
       Engine!Elapse, EngineProofs!Elapse, Engine!Levels,
       EngineProofs!Levels, Engine!Received, EngineProofs!Received,
       Engine!Enter, EngineProofs!Enter, Engine!Startable,
       EngineProofs!Startable, Engine!NewInvocation,
       EngineProofs!NewInvocation, Engine!Throw, EngineProofs!Throw,
       Engine!Overdue, EngineProofs!Overdue, Engine!TimedReceive,
       EngineProofs!TimedReceive, Engine!Perceived, EngineProofs!Perceived,
       Engine!NoInvocation, EngineProofs!NoInvocation

(***************************************************************************)
(* The registry in the composition                                         *)
(***************************************************************************)

(* Every step of the system is one of the registry, or none.               *)
LEMMA RegistryStep == SystemNext => [Next]_vars
<1> SUFFICES ASSUME SystemNext PROVE [Next]_vars
    OBVIOUS
<1> USE OneAssumption
<1>1. CASE Proceed \/ WorkerActs
  BY <1>1 DEF Proceed, WorkerActs, registryVars
<1>2. CASE LeaveInvocation
  BY <1>2 DEF LeaveInvocation, registryVars, Next
<1>3. CASE AnswerRequest
  BY <1>3 DEF AnswerRequest, Next, ThreadRuns
<1>4. CASE EndOrGoOn
  BY <1>4 DEF EndOrGoOn, Next, ThreadRuns
<1>5. CASE OneRuns
  BY <1>5 DEF OneRuns, Next, ThreadRuns
<1>6. CASE Dispatch \/ OneCalls
  BY <1>6 DEF Dispatch, OneCalls, Next, ClientStep
<1>7. CASE Engine!Environment /\ UNCHANGED registryVars
  BY <1>7 DEF registryVars
<1>8. CASE RegistryRuns \/ \E c \in Client : Registers(c)
  BY <1>8 DEF RegistryRuns, Registers, Next
<1>9. CASE \E c \in Client \ {One} : OtherRuns(c) \/ OtherCalls(c)
  BY <1>9 DEF OtherRuns, OtherCalls, Next
<1> QED
  BY <1>1, <1>2, <1>3, <1>4, <1>5, <1>6, <1>7, <1>8, <1>9
  DEF SystemNext, OneThread

(* What the system does is, to the registry, an execution of the registry: *)
(* the engine only decides when the interrupts of worker gates come and    *)
(* when requests end.                                                      *)
THEOREM RegistryInside == SystemSpec => Spec
<1>1. SystemInit => Init
  BY DEF SystemInit
<1>2. [SystemNext]_systemVars => [Next]_vars
  BY RegistryStep DEF systemVars, registryVars
<1> QED BY <1>1, <1>2, PTL DEF SystemSpec, Spec

(* The session of a client is torn down only after the client has left,    *)
(* also with the interrupts of all the gates of its workers.               *)
THEOREM SystemTeardown == SystemSpec => []NoPrematureTeardown
BY RegistryInside, TeardownOnlyAfterLeave, PTL

(* The deletion of a client's gate is noticed, whatever the engine was     *)
(* doing for the client when it came.                                      *)
THEOREM SystemDeletion == SystemSpec => []NoLostDeletion
BY RegistryInside, DeletionNotLost, PTL

(* As long as no two updates of available_cpus overlap, the CPUs of the    *)
(* system have one owner each, and are a pool to its clients.              *)
THEOREM SystemPool ==
  SystemSpec /\ [][Serial']_systemVars => []DedicatedCpu /\ PoolSpec
<1>1. SystemInit => Init
  BY DEF SystemInit
<1>2. [SystemNext]_systemVars /\ [Serial']_systemVars => [SerialNext]_vars
  BY RegistryStep DEF systemVars, registryVars, SerialNext
<1>3. SystemSpec /\ [][Serial']_systemVars => SerialSpec
  BY <1>1, <1>2, PTL DEF SystemSpec, SerialSpec
<1> QED BY <1>3, Dedicated, ImplementsPool, PTL

(***************************************************************************)
(* The engine in the composition                                           *)
(***************************************************************************)

(* The end of a session: all actions are deleted at once.                  *)
SessionEnds == /\ actions' = [a \in Name |-> "absent"]
               /\ UNCHANGED <<pc, depth, frames, err, utcb, lastExit>>

(* Every step of the system is one of the engine, the end of a session,    *)
(* or none.                                                                *)
LEMMA EngineStep == SystemNext => [Engine!Next]_engineVars \/ SessionEnds
<1> SUFFICES ASSUME SystemNext
             PROVE  Engine!Next \/ UNCHANGED engineVars \/ SessionEnds
    OBVIOUS
<1>1. CASE Proceed \/ LeaveInvocation \/ AnswerRequest
  BY <1>1 DEF Proceed, LeaveInvocation, AnswerRequest, Engine!Next,
              Engine!ManagerStep
<1>2. CASE EndOrGoOn
  BY <1>2 DEF EndOrGoOn, SessionEnds
<1>3. CASE WorkerActs \/ Dispatch \/ (Engine!Environment /\ UNCHANGED registryVars)
  BY <1>3 DEF WorkerActs, Dispatch, Engine!Next
<1>4. CASE OneRuns \/ OneCalls \/ RegistryRuns
  BY <1>4 DEF OneRuns, OneCalls, RegistryRuns
<1>5. CASE \/ \E c \in Client : Registers(c)
           \/ \E c \in Client \ {One} : OtherRuns(c) \/ OtherCalls(c)
  BY <1>5 DEF Registers, OtherRuns, OtherCalls
<1> QED
  BY <1>1, <1>2, <1>3, <1>4, <1>5 DEF SystemNext, OneThread

(* The inductive invariant of the engine is one of the system.             *)
LEMMA EngineIInv ==
  EngineProofs!IInv /\ [SystemNext]_systemVars => EngineProofs!IInv'
<1> SUFFICES ASSUME EngineProofs!IInv, [SystemNext]_systemVars
             PROVE  EngineProofs!IInv'
    OBVIOUS
<1>1. [EngineProofs!Next]_(EngineProofs!vars) \/ SessionEnds
  BY EngineStep, SameNext DEF systemVars, engineVars, EngineProofs!vars
<1>2. CASE [EngineProofs!Next]_(EngineProofs!vars)
  BY <1>2, EngineConstants, EngineProofs!NextIInv
<1>3. CASE SessionEnds
  BY <1>3
  DEF SessionEnds, EngineProofs!IInv, EngineProofs!TypeOK,
      EngineProofs!CallChain, EngineProofs!ValueFlow, EngineProofs!ReplyIntact
<1> QED BY <1>1, <1>2, <1>3

(* Every reachable state of the system is one in which the engine's        *)
(* invariant holds.                                                        *)
THEOREM EngineInvariant == SystemSpec => []EngineProofs!IInv
<1>1. SystemInit => EngineProofs!IInv
  BY SameInit, EngineConstants, EngineProofs!InitIInv DEF SystemInit
<1> QED BY <1>1, EngineIInv, PTL DEF SystemSpec

(* The callers of nested invocations are blocked, and a reply carries what *)
(* op_exit got, also across the sessions of a client that comes and goes.  *)
THEOREM SystemEngine ==
  SystemSpec => [](/\ Engine!TypeOK
                   /\ Engine!CallChain
                   /\ Engine!ReplyIntact
                   /\ Engine!NoOrphanWorkers)
<1>1. EngineProofs!IInv => EngineProofs!NoOrphanWorkers
  BY EngineConstants
  DEF EngineProofs!IInv, EngineProofs!TypeOK, EngineProofs!CallChain,
      EngineProofs!NoOrphanWorkers, EngineProofs!Levels
<1>2. /\ EngineProofs!TypeOK <=> Engine!TypeOK
      /\ EngineProofs!CallChain <=> Engine!CallChain
      /\ EngineProofs!ReplyIntact <=> Engine!ReplyIntact
      /\ EngineProofs!NoOrphanWorkers <=> Engine!NoOrphanWorkers
  BY Zenon
  DEF EngineProofs!TypeOK, Engine!TypeOK, EngineProofs!PcState, Engine!PcState,
      EngineProofs!Levels, Engine!Levels, EngineProofs!Invocation,
      Engine!Invocation, EngineProofs!NoInvocation, Engine!NoInvocation,
      EngineProofs!Error, Engine!Error, EngineProofs!Residue, Engine!Residue,
      EngineProofs!WorkerState, Engine!WorkerState,
      EngineProofs!CallChain, Engine!CallChain,
      EngineProofs!ReplyIntact, Engine!ReplyIntact,
      EngineProofs!NoOrphanWorkers, Engine!NoOrphanWorkers
<1>3. EngineProofs!IInv => /\ Engine!TypeOK /\ Engine!CallChain
                           /\ Engine!ReplyIntact /\ Engine!NoOrphanWorkers
  BY <1>1, <1>2 DEF EngineProofs!IInv
<1> QED BY <1>3, EngineInvariant, PTL

(***************************************************************************)
(* Workers exist only while they are served                                *)
(***************************************************************************)

NoActions == \A a \in Name : actions[a] = "absent"

Ended == {"none", "load", "store", "exit"}

(* The thread is in the engine only while it serves; and it has no actions *)
(* when it does not exist yet, or ends.                                    *)
Served == /\ pc # "wait" => Serving
          /\ session[One].thread \in Ended => NoActions

SysInv == LInv /\ EngineProofs!IInv /\ Served

(* A step in which the thread of One stays where it is, or is started.     *)
LEMMA StaysServed ==
  ASSUME SysInv, UNCHANGED engineVars,
         \/ session'[One].thread = session[One].thread
         \/ session[One].thread = "none" /\ session'[One].thread = "wait"
         \/ /\ session[One].thread \in Ended
            /\ session'[One].thread \in Ended
  PROVE  Served'
BY DEF SysInv, Served, Serving, engineVars, NoActions, Ended

(* What the steps of the registry that are not of the thread of One do to  *)
(* that thread.                                                            *)
LEMMA OtherThreads ==
  ASSUME LInv,
         \/ RegistryRuns \/ \E c \in Client : Registers(c)
         \/ \E c \in Client \ {One} : OtherRuns(c) \/ OtherCalls(c)
  PROVE  \/ session'[One].thread = session[One].thread
         \/ session[One].thread = "none" /\ session'[One].thread = "wait"
<1> USE OneAssumption, ClientAssumption
<1>0. /\ session \in [Client -> Session] /\ session[One] \in Session
      /\ Life(main, One, session[One])
      /\ main.at # "idle" => main.for \in Client
  BY FromLInv
<1>1. CASE SelectLoad \/ SelectStore \/ ThreadCreateFails
  BY <1>1 DEF SelectLoad, SelectStore, ThreadCreateFails
<1>2. CASE SetUp
  <2>1. CASE main.for = One
    BY <1>0, <1>2, <2>1 DEF SetUp, Life, Blank, Session
  <2>2. CASE main.for # One
    BY <1>0, <1>2, <2>2 DEF SetUp
  <2> QED BY <2>1, <2>2
<1>3. CASE SetUpFails
  <2>1. CASE main.for = One
    BY <1>0, <1>3, <2>1 DEF SetUpFails, Life, Blank, NoSession
  <2>2. CASE main.for # One
    BY <1>0, <1>3, <2>2 DEF SetUpFails
  <2> QED BY <2>1, <2>2
<1>4. CASE Reply
  BY <1>0, <1>4 DEF Reply, Session
<1>5. ASSUME NEW c \in Client, Registers(c)
      PROVE  session'[One].thread = session[One].thread
  <2>1. session' = session \/ session' = [session EXCEPT ![c].client = "out"]
    BY <1>5 DEF Registers, MainStep, NoCpuLeft, SelectCpu
  <2> QED BY <1>0, <2>1 DEF Session
<1>6. ASSUME NEW c \in Client \ {One}, OtherRuns(c) \/ OtherCalls(c)
      PROVE  session'[One] = session[One]
  BY <1>0, <1>6
  DEF OtherRuns, OtherCalls, ThreadRuns, ClientStep, ServeEnd, TakeIrq,
      CheckGate, FreeLoad, FreeStore, Exit, RegisterCall, Leave, DieAsking,
      Request, WorkerGateDeleted
<1> QED
  BY <1>1, <1>2, <1>3, <1>4, <1>5, <1>6 DEF RegistryRuns, MainRuns

(* Served is preserved: one step of the proof per action of the system.    *)
LEMMA NextServed == SysInv /\ SystemNext => Served'
<1> SUFFICES ASSUME SysInv, SystemNext PROVE Served'
    OBVIOUS
<1> USE OneAssumption
<1>0. /\ LInv /\ Served
      /\ session \in [Client -> Session] /\ session[One] \in Session
      /\ Life(main, One, session[One])
  BY FromLInv DEF SysInv
<1>1. CASE Proceed \/ WorkerActs
  BY <1>0, <1>1 DEF Proceed, WorkerActs, registryVars, vars, Served, Serving,
                    Ended
<1>2. CASE LeaveInvocation
  <2>1. session'[One].thread = "serve"
    BY <1>0, <1>2 DEF LeaveInvocation, WorkerGateDeleted, Serving,
                      registryVars, vars, Session
  <2> QED BY <2>1 DEF Served, Serving, Ended
<1>3. CASE Dispatch
  <2>1. session'[One].thread = "serve"
    BY <1>0, <1>3 DEF Dispatch, Request, Session
  <2> QED BY <2>1 DEF Served, Serving, Ended
<1>4. CASE AnswerRequest
  <2>1. session'[One].thread = "wait"
    BY <1>0, <1>4 DEF AnswerRequest, ServeEnd, Session
  <2>2. pc' = "wait"
    BY <1>4 DEF AnswerRequest, Engine!ClientReply, engineVars
  <2> QED BY <2>1, <2>2 DEF Served, Ended
<1>5. CASE EndOrGoOn
  <2>1. session[One].thread = "check" /\ pc = "wait"
    BY <1>0, <1>5 DEF EndOrGoOn, CheckGate, Served, Serving
  <2>2. pc' = "wait"
    BY <1>5, <2>1 DEF EndOrGoOn, engineVars
  <2>3. CASE ClientGateValid(One)
    <3>1. session'[One].thread = "wait"
      BY <1>0, <1>5, <2>3 DEF EndOrGoOn, CheckGate, Session
    <3> QED BY <2>2, <3>1 DEF Served, Ended
  <2>4. CASE ~ClientGateValid(One)
    <3>1. NoActions'
      BY <1>5, <2>4 DEF EndOrGoOn, NoActions
    <3> QED BY <2>2, <3>1 DEF Served
  <2> QED BY <2>3, <2>4
<1>6. CASE OneRuns
  <2>1. CASE TakeIrq(One)
    <3>1. /\ session[One].thread = "wait"
          /\ session'[One].thread = "check" /\ pc' = pc
      BY <1>0, <1>6, <2>1 DEF OneRuns, TakeIrq, engineVars, Session
    <3> QED BY <1>0, <3>1 DEF Served, Serving, Ended
  <2>2. CASE FreeLoad(One) \/ FreeStore(One) \/ Exit(One)
    <3>1. session[One].thread \in Ended /\ session'[One].thread \in Ended
      BY <1>0, <2>2 DEF FreeLoad, FreeStore, Exit, Session, NoSession, Ended
    <3> QED BY <1>6, <3>1, StaysServed DEF OneRuns
  <2> QED BY <1>6, <2>1, <2>2 DEF OneRuns
<1>7. CASE OneCalls
  <2>1. session'[One].thread = session[One].thread
    BY <1>0, <1>7 DEF OneCalls, RegisterCall, Leave, DieAsking, Session,
                      NoSession, Life, Blank
  <2> QED BY <1>7, <2>1, StaysServed DEF OneCalls
<1>8. CASE Engine!Environment /\ UNCHANGED registryVars
  <2>1. pc' = pc /\ session' = session
    BY <1>8 DEF Engine!Environment, Engine!Revoke, Engine!Elapse,
                registryVars, vars
  <2>2. NoActions => NoActions'
    BY <1>8 DEF Engine!Environment, Engine!Revoke, Engine!Elapse, NoActions
  <2> QED BY <1>0, <2>1, <2>2 DEF Served, Serving
<1>9. CASE \/ RegistryRuns \/ \E c \in Client : Registers(c)
           \/ \E c \in Client \ {One} : OtherRuns(c) \/ OtherCalls(c)
  <2>1. UNCHANGED engineVars
    BY <1>9 DEF RegistryRuns, Registers, OtherRuns, OtherCalls
  <2> QED BY <1>0, <1>9, <2>1, OtherThreads, StaysServed
<1> QED
  BY <1>1, <1>2, <1>3, <1>4, <1>5, <1>6, <1>7, <1>8, <1>9
  DEF SystemNext, OneThread

(* The invariant of the system.                                            *)
THEOREM SystemInvariant == SystemSpec => []SysInv
<1>1. SystemInit => Served
  BY OneAssumption
  DEF SystemInit, Init, Engine!Init, NoSession, Served, Serving, NoActions
<1>2. SysInv /\ UNCHANGED systemVars => Served'
  BY DEF SysInv, Served, Serving, systemVars, registryVars, vars, engineVars,
         NoActions
<1>3. SysInv /\ [SystemNext]_systemVars => Served'
  BY <1>2, NextServed
<1> QED
  BY <1>1, <1>3, RegistryInside, LifeCycle, EngineInvariant, PTL
  DEF SystemSpec, SysInv

(* Workers of a client exist only while its thread serves a request of it  *)
(* on a CPU of its own, and a session that ends leaves no action behind.   *)
THEOREM WorkersServed == SystemSpec => []WorkersAreServed
<1>1. SysInv => WorkersAreServed
  <2> SUFFICES ASSUME SysInv PROVE WorkersAreServed
      OBVIOUS
  <2>1. /\ depth \in Nat
        /\ pc = "wait" => depth = 0
    BY EngineConstants
    DEF SysInv, EngineProofs!IInv, EngineProofs!TypeOK, EngineProofs!CallChain
  <2>2. Serving => session[One].cpu # NoCpu
    BY OneAssumption, FromLInv DEF SysInv, Life, Serving
  <2>3. depth > 0 => Serving
    BY <2>1 DEF SysInv, Served
  <2>4. session[One].thread \in Ended => depth = 0 /\ NoActions
    BY <2>1 DEF SysInv, Served, Serving, Ended
  <2> QED BY <2>2, <2>3, <2>4 DEF WorkersAreServed, Ended, NoActions
<1> QED BY <1>1, SystemInvariant, PTL

(***************************************************************************)
(* The stack of calls in the composition                                   *)
(***************************************************************************)

(* The end of a session is nothing to the stack: no call is under way that *)
(* it could end.                                                           *)
LEMMA StackKept ==
  ASSUME SessionEnds, EngineProofs!StackInv
  PROVE  EngineProofs!StackStep
<1>1. UNCHANGED <<EngineProofs!Calls, EngineProofs!Answering>>
  BY DEF SessionEnds, EngineProofs!Calls, EngineProofs!Answering
<1>2. UNCHANGED <<depth, err, frames, pc>>
  BY DEF SessionEnds
<1>3. EngineProofs!StackInv'
  BY <1>2 DEF EngineProofs!StackInv, EngineProofs!ThrowAgrees,
              EngineProofs!NoValueYet
<1> QED
  BY <1>1, <1>2, <1>3 DEF EngineProofs!StackStep, EngineProofs!Stack!vars

(* The two instances of the engine are instances of the same stack.        *)
LEMMA SameStack ==
  /\ EngineProofs!Stack!Init => Engine!Stack!Init
  /\ [EngineProofs!Stack!Next]_(EngineProofs!Stack!vars)
       => [Engine!Stack!Next]_(Engine!Stack!vars)
<1>1. EngineProofs!Stack!Init => Engine!Stack!Init
  BY Zenon
  DEF EngineProofs!Stack!Init, Engine!Stack!Init,
      EngineProofs!Stack!NoCall, Engine!Stack!NoCall,
      EngineProofs!Calls, Engine!Calls,
      EngineProofs!Answering, Engine!Answering,
      EngineProofs!Levels, Engine!Levels
<1>2. /\ EngineProofs!Stack!Next <=> Engine!Stack!Next
      /\ EngineProofs!Stack!vars = Engine!Stack!vars
  BY Zenon
  DEF EngineProofs!Stack!Next, Engine!Stack!Next,
      EngineProofs!Stack!vars, Engine!Stack!vars,
      EngineProofs!Stack!Call, Engine!Stack!Call,
      EngineProofs!Stack!Exit, Engine!Stack!Exit,
      EngineProofs!Stack!Fail, Engine!Stack!Fail,
      EngineProofs!Stack!Complete, Engine!Stack!Complete,
      EngineProofs!Stack!Acknowledge, Engine!Stack!Acknowledge,
      EngineProofs!Stack!Send, Engine!Stack!Send,
      EngineProofs!Stack!Unwind, Engine!Stack!Unwind,
      EngineProofs!Stack!Report, Engine!Stack!Report,
      EngineProofs!Stack!Computes, Engine!Stack!Computes,
      EngineProofs!Stack!NoCall, Engine!Stack!NoCall,
      EngineProofs!Error, Engine!Error,
      EngineProofs!Calls, Engine!Calls,
      EngineProofs!Answering, Engine!Answering,
      EngineProofs!Levels, Engine!Levels
<1>3. /\ EngineProofs!Stack!vars = Engine!Stack!vars
      /\ EngineProofs!Stack!vars' = Engine!Stack!vars'
  BY Zenon
  DEF EngineProofs!Stack!vars, Engine!Stack!vars,
      EngineProofs!Calls, Engine!Calls,
      EngineProofs!Answering, Engine!Answering,
      EngineProofs!Levels, Engine!Levels
<1> QED BY <1>1, <1>2, <1>3

(* To its callers, the manager as a whole is a stack of calls, through all *)
(* the sessions of the client.                                             *)
THEOREM SystemImplementsStack == SystemSpec => Engine!CallStackSpec
<1>1. SystemInit => EngineProofs!StackInv /\ EngineProofs!Stack!Init
  BY SameInit, EngineConstants, EngineProofs!InitStack DEF SystemInit
<1>2. EngineProofs!IInv /\ EngineProofs!StackInv /\ [SystemNext]_systemVars
        => EngineProofs!StackStep
  <2> SUFFICES ASSUME EngineProofs!IInv, EngineProofs!StackInv,
                      [SystemNext]_systemVars
               PROVE  EngineProofs!StackStep
      OBVIOUS
  <2>1. [EngineProofs!Next]_(EngineProofs!vars) \/ SessionEnds
    BY EngineStep, SameNext DEF systemVars, engineVars, EngineProofs!vars
  <2> QED BY <2>1, StackKept, EngineConstants, EngineProofs!NextStackStep
<1>3. EngineProofs!IInv /\ EngineProofs!StackInv /\ [SystemNext]_systemVars
        => /\ EngineProofs!StackInv'
           /\ [EngineProofs!Stack!Next]_(EngineProofs!Stack!vars)
  BY <1>2 DEF EngineProofs!StackStep
<1>4. EngineProofs!IInv /\ EngineProofs!StackInv /\ [SystemNext]_systemVars
        => /\ EngineProofs!StackInv'
           /\ [Engine!Stack!Next]_(Engine!Stack!vars)
  BY <1>3, SameStack
<1>5. SystemInit => EngineProofs!StackInv /\ Engine!Stack!Init
  BY <1>1, SameStack
<1> QED
  BY <1>4, <1>5, EngineInvariant, PTL
  DEF SystemSpec, Engine!CallStackSpec, Engine!Stack!Spec

(***************************************************************************)
(* The contracts in the composition                                        *)
(***************************************************************************)

(* A step of the system that is one of the engine, or leaves all the       *)
(* engine has but its actions.                                             *)
LEMMA StepOrEnd ==
  [SystemNext]_systemVars
    => [EngineProofs!Next]_(EngineProofs!vars) \/ SessionEnds
BY EngineStep, SameNext DEF systemVars, engineVars, EngineProofs!vars

(* A worker of the system whose limit passed while it was blocked never    *)
(* computes again, also if its client leaves meanwhile.                    *)
THEOREM SystemExpired == SystemSpec => Engine!ExpiredNeverResumes
<1>1. EngineProofs!IInv /\ [SystemNext]_systemVars
        => [EngineProofs!ExpiredStays]_(EngineProofs!vars)
  <2>1. SessionEnds => EngineProofs!ExpiredStays
    BY DEF SessionEnds, EngineProofs!ExpiredStays
  <2> QED BY <2>1, StepOrEnd, EngineConstants, EngineProofs!NextExpired
<1>2. /\ EngineProofs!ExpiredStays => Engine!ExpiredStays
      /\ UNCHANGED EngineProofs!vars => UNCHANGED Engine!vars
  BY Zenon
  DEF EngineProofs!ExpiredStays, Engine!ExpiredStays, EngineProofs!Overdue,
      Engine!Overdue, EngineProofs!Levels, Engine!Levels,
      EngineProofs!NoInvocation, Engine!NoInvocation, EngineProofs!vars,
      Engine!vars
<1>3. EngineProofs!IInv /\ [SystemNext]_systemVars
        => [Engine!ExpiredStays]_(Engine!vars)
  BY <1>1, <1>2
<1> QED BY <1>3, EngineInvariant, PTL DEF SystemSpec, Engine!ExpiredNeverResumes

(* The two instances of the engine have the same workers.                  *)
LEMMA SameWorkers ==
  /\ EngineProofs!Workers!Init => Engine!Workers!Init
  /\ EngineProofs!WorkersStep
       => [Engine!Workers!Next]_[i \in Engine!Levels |-> frames[i].worker]
BY Zenon
DEF EngineProofs!Workers!Init, Engine!Workers!Init,
    EngineProofs!WorkersStep, EngineProofs!Workers!Next, Engine!Workers!Next,
    EngineProofs!Workers!LifeState, Engine!Workers!LifeState,
    EngineProofs!Workers!After, Engine!Workers!After,
    EngineProofs!Levels, Engine!Levels

(* The manager as a whole keeps its contract with all workers of a client, *)
(* through all the sessions of the client.                                 *)
THEOREM SystemContract == SystemSpec => Engine!WorkersSpec
<1> DEFINE workers == [i \in Engine!Levels |-> frames[i].worker]
           Step == [Engine!Workers!Next]_workers
<1>1. SystemInit => Engine!Workers!Init
  BY SameInit, SameWorkers, EngineConstants, EngineProofs!InitWorkers
  DEF SystemInit
<1>2. EngineProofs!IInv /\ [SystemNext]_systemVars => EngineProofs!WorkersStep
  <2>1. SessionEnds => EngineProofs!WorkersStep
    BY DEF SessionEnds, EngineProofs!WorkersStep
  <2> QED BY <2>1, StepOrEnd, EngineIInv, EngineConstants,
             EngineProofs!NextWorkersStep
<1>3. EngineProofs!IInv /\ [SystemNext]_systemVars => Step
  BY <1>2, SameWorkers
<1> QED
  BY <1>1, <1>3, EngineInvariant, PTL
  DEF SystemSpec, Engine!WorkersSpec, Engine!Workers!Spec

(* The two instances of the engine have the same table of actions.         *)
LEMMA SameTable ==
  EngineProofs!Table!Next <=> Engine!Table!Next
BY Zenon
DEF EngineProofs!Table!Next, Engine!Table!Next,
    EngineProofs!Table!After, Engine!Table!After

(* The end of a session deletes every action, as their owner could.        *)
LEMMA EndTable ==
  ASSUME EngineProofs!TypeOK, SessionEnds
  PROVE  EngineProofs!Table!Next
<1>1. /\ "absent" \in EngineProofs!Table!After["valid"]
      /\ "absent" \in EngineProofs!Table!After["stale"]
  BY DEF EngineProofs!Table!After
<1>2. \A a \in Name : /\ actions[a] \in {"absent", "valid", "stale"}
                      /\ actions'[a] = "absent"
  BY DEF EngineProofs!TypeOK, SessionEnds
<1> QED BY <1>1, <1>2 DEF EngineProofs!Table!Next, SessionEnds

(* The actions of a client are a table of actions, through all the         *)
(* sessions of the client.                                                 *)
THEOREM SystemTable == SystemSpec => Engine!TableSpec
<1>1. SystemInit => Engine!Table!Init
  BY DEF SystemInit, Engine!Init, Engine!Table!Init
<1>2. EngineProofs!IInv /\ [SystemNext]_systemVars
        => [EngineProofs!Table!Next]_actions
  BY StepOrEnd, EndTable, EngineConstants, EngineProofs!NextTable
  DEF EngineProofs!IInv
<1>3. EngineProofs!IInv /\ [SystemNext]_systemVars => [Engine!Table!Next]_actions
  BY <1>2, SameTable
<1> QED
  BY <1>1, <1>3, EngineInvariant, PTL
  DEF SystemSpec, Engine!TableSpec, Engine!Table!Spec

=============================================================================
