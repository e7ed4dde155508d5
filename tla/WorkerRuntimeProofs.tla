------------------------ MODULE WorkerRuntimeProofs ------------------------
(* Theorems about WorkerRuntime, for any strings, any bound of the message *)
(* and any number of invocations.                                          *)
EXTENDS WorkerRuntime, TLAPS

(* What is known of a C++ worker at each place it can be at                *)
CppProgress ==
  lang = "cpp" =>
    /\ pc \in {"start", "function", "functionCalls"} => result = "none"
    /\ pc \notin {"script", "scriptCalls", "release"}
    /\ pc = "returned" => result \in Value
    /\ pc = "exit" => answer = result /\ result \in Value
    /\ pc \in {"catch", "ending"} => result \in {"none", "raised"} \cup Long

(* A worker calls exit with the answer it got from its function.           *)
AnswerReady ==
  /\ pc = "returned" => result # "none"
  /\ pc \in {"release", "exit"} => answer # "none"

IInv == TypeOK /\ OneFinalMessage /\ AnswerReady /\ CppProgress /\ CppReportTrue

(* An invocation leads from the script or the function and back to it.     *)
LEMMA InvokeSteps ==
  /\ Invoke => \/ pc = "script" /\ pc' = "scriptCalls"
               \/ pc = "function" /\ pc' = "functionCalls"
  /\ InvokeReturns => \/ pc = "scriptCalls" /\ pc' = "script"
                      \/ pc = "functionCalls" /\ pc' = "function"
<1>1. DOMAIN Calling = {"script", "function"} BY DEF Calling
<1>2. Calling["script"] = "scriptCalls" /\ Calling["function"] = "functionCalls"
  BY DEF Calling
<1> QED BY <1>1, <1>2 DEF Invoke, InvokeReturns, Goes

(* The messages of a worker that ends                                      *)
LEMMA FinalMessages ==
  /\ Signal \in Final
  /\ \A v \in Value \cup {"freed"} : ExitMessage(v) \in Final
BY Zenon DEF Final

LEMMA AppendType ==
  ASSUME NEW S, NEW s \in Seq(S), NEW e \in S
  PROVE  Append(s, e) \in Seq(S)
OBVIOUS

LEMMA OneMore ==
  ASSUME NEW M \in Nat, NEW n \in 0..M, n < M
  PROVE  n + 1 \in 0..M
OBVIOUS

(* What was received before the last message is nothing.                   *)
LEMMA OnlyMessage ==
  ASSUME IInv, pc # "blocked"
  PROVE  received = <<>>
BY DEF IInv, OneFinalMessage

LEMMA InitIInv == Init => IInv
<1> SUFFICES ASSUME Init PROVE IInv OBVIOUS
<1>1. received = <<>> /\ received \in Seq(Final)
  BY DEF Init
<1>2. TypeOK
  BY <1>1, MaxCallsAssumption DEF Init, TypeOK, Location
<1>3. OneFinalMessage /\ CppReportTrue
  BY <1>1 DEF OneFinalMessage, CppReportTrue
<1>4. AnswerReady /\ CppProgress
  BY DEF Init, AnswerReady, CppProgress
<1> QED BY <1>2, <1>3, <1>4 DEF IInv

(* The steps that send nothing                                             *)
Silent ==
  \/ Start \/ FindMain \/ MainMissing \/ Convert \/ Release \/ ExitFails
  \/ Catch \/ Invoke \/ InvokeReturns \/ InvokeThrows \/ FunctionDone \/ Crash

LEMMA TypeKept ==
  ASSUME IInv, [Next]_vars
  PROVE  TypeOK'
<1> USE ValueAssumption, MaxCallsAssumption DEF IInv, TypeOK, Location
<1>1. CASE Start BY <1>1 DEF Start, Goes
<1>2. CASE FindMain BY <1>2 DEF FindMain, Goes
<1>3. CASE MainMissing BY <1>3 DEF MainMissing, Goes
<1>4. CASE Convert BY <1>4 DEF Convert, Goes
<1>5. CASE Release BY <1>5 DEF Release, Goes
<1>6. CASE SendExit
  <2>1. pc = "exit" /\ answer # "none" /\ answer # "null"
    BY <1>6 DEF SendExit, AnswerReady
  <2>2. ExitMessage(answer) \in Final
    BY <2>1, FinalMessages
  <2>3. received' \in Seq(Final)
    BY <1>6, <2>2, AppendType DEF SendExit
  <2> QED BY <1>6, <2>3 DEF SendExit
<1>7. CASE ExitFails BY <1>7 DEF ExitFails
<1>8. CASE Catch BY <1>8 DEF Catch, Goes
<1>9. CASE SendSignal
  <2>1. Signal \in Final BY FinalMessages
  <2>2. received' \in Seq(Final)
    BY <1>9, <2>1, AppendType DEF SendSignal
  <2> QED BY <1>9, <2>2 DEF SendSignal, Goes
<1>10. CASE Invoke
  <2>0. calls \in 0..MaxCalls /\ calls < MaxCalls /\ calls' = calls + 1
    BY <1>10 DEF Invoke
  <2>1. calls' \in 0..MaxCalls BY <2>0, OneMore
  <2>2. pc' \in Location BY <1>10, InvokeSteps
  <2> QED BY <1>10, <2>1, <2>2 DEF Invoke
<1>11. CASE InvokeReturns BY <1>11, InvokeSteps DEF InvokeReturns
<1>12. CASE InvokeThrows BY <1>12 DEF InvokeThrows
<1>13. CASE FunctionThrows BY <1>13 DEF FunctionThrows, Goes
<1>14. CASE FunctionEnds BY <1>14 DEF FunctionEnds
<1>15. ASSUME NEW v \in Value \cup {"object"}, FunctionReturns(v) PROVE TypeOK'
  BY <1>15 DEF FunctionReturns, Goes
<1>16. CASE Crash BY <1>16 DEF Crash
<1>17. CASE UNCHANGED vars BY <1>17 DEF vars
<1> QED BY <1>1, <1>2, <1>3, <1>4, <1>5, <1>6, <1>7, <1>8, <1>9, <1>10, <1>11,
           <1>12, <1>13, <1>14, <1>15, <1>16, <1>17
        DEF Next, Runtime, FunctionDone

LEMMA ProgressKept ==
  ASSUME IInv, [Next]_vars
  PROVE  CppProgress' /\ AnswerReady'
<1> USE ValueAssumption DEF IInv, TypeOK, AnswerReady, CppProgress, Other
<1>1. CASE Start BY <1>1 DEF Start, Goes
<1>2. CASE FindMain BY <1>2 DEF FindMain, Goes
<1>3. CASE MainMissing BY <1>3 DEF MainMissing, Goes
<1>4. CASE Convert BY <1>4 DEF Convert, Goes
<1>5. CASE Release BY <1>5 DEF Release, Goes
<1>6. CASE SendExit BY <1>6 DEF SendExit
<1>7. CASE ExitFails BY <1>7 DEF ExitFails
<1>8. CASE Catch BY <1>8 DEF Catch, Goes
<1>9. CASE SendSignal BY <1>9 DEF SendSignal, Goes
<1>10. CASE Invoke BY <1>10, InvokeSteps DEF Invoke
<1>11. CASE InvokeReturns BY <1>11, InvokeSteps DEF InvokeReturns
<1>12. CASE InvokeThrows BY <1>12 DEF InvokeThrows
<1>13. CASE FunctionThrows BY <1>13 DEF FunctionThrows, Goes
<1>14. CASE FunctionEnds BY <1>14 DEF FunctionEnds
<1>15. ASSUME NEW v \in Value \cup {"object"}, FunctionReturns(v)
       PROVE  CppProgress' /\ AnswerReady'
  BY <1>15 DEF FunctionReturns, Goes
<1>16. CASE Crash BY <1>16 DEF Crash
<1>17. CASE UNCHANGED vars BY <1>17 DEF vars
<1> QED BY <1>1, <1>2, <1>3, <1>4, <1>5, <1>6, <1>7, <1>8, <1>9, <1>10, <1>11,
           <1>12, <1>13, <1>14, <1>15, <1>16, <1>17
        DEF Next, Runtime, FunctionDone

(* A step that sends nothing is taken before the message, and leaves that  *)
(* there is none.                                                          *)
LEMMA SilentSteps ==
  ASSUME IInv, Silent
  PROVE  received = <<>> /\ received' = <<>>
<1>1. pc # "blocked"
  BY InvokeSteps
     DEF Silent, FunctionDone, Start, FindMain, MainMissing, Convert, Release,
         ExitFails, Catch, InvokeThrows, FunctionReturns, FunctionThrows,
         FunctionEnds, Crash, Goes
<1>2. received' = received
  BY DEF Silent, FunctionDone, Start, FindMain, MainMissing, Convert, Release,
         ExitFails, Catch, Invoke, InvokeReturns, InvokeThrows, FunctionReturns,
         FunctionThrows, FunctionEnds, Crash
<1> QED BY <1>1, <1>2, OnlyMessage

LEMMA ReportKept ==
  ASSUME IInv, [Next]_vars
  PROVE  OneFinalMessage' /\ CppReportTrue'
<1>1. CASE Silent
  BY <1>1, SilentSteps DEF OneFinalMessage, CppReportTrue
<1>2. CASE SendExit
  <2>1. /\ received' = <<ExitMessage(answer)>> /\ pc' = "blocked"
        /\ lang' = lang /\ result' = result
    BY <1>2, OnlyMessage DEF SendExit
  <2>2. lang = "cpp" => answer = result
    BY <1>2 DEF IInv, CppProgress, SendExit
  <2>3. ExitMessage(answer) # Signal
    BY DEF ExitMessage, Signal
  <2> QED BY <2>1, <2>2, <2>3 DEF OneFinalMessage, CppReportTrue, ExitMessage
<1>3. CASE SendSignal
  <2>1. /\ received' = <<Signal>> /\ pc' = "blocked"
        /\ lang' = lang /\ result' = result
    BY <1>3, OnlyMessage DEF SendSignal, Goes
  <2>2. lang = "cpp" => result \in {"none", "raised"} \cup Long
    BY <1>3 DEF IInv, CppProgress, SendSignal, Goes
  <2> QED BY <2>1, <2>2 DEF OneFinalMessage, CppReportTrue
<1>4. CASE UNCHANGED vars
  BY <1>4 DEF vars, IInv, OneFinalMessage, CppReportTrue
<1> QED BY <1>1, <1>2, <1>3, <1>4 DEF Next, Runtime, Silent

LEMMA IInvInductive == IInv /\ [Next]_vars => IInv'
BY TypeKept, ProgressKept, ReportKept DEF IInv

THEOREM Inductive == Spec => []IInv
BY InitIInv, IInvInductive, PTL DEF Spec

(* The variables of a worker's runtime keep their types.                   *)
THEOREM TypeCorrect == Spec => []TypeOK
<1>1. IInv => TypeOK BY DEF IInv
<1> QED BY <1>1, Inductive, PTL

(* The manager receives one final message of a worker, which never runs    *)
(* again after it.                                                         *)
THEOREM FinalOnce == Spec => []OneFinalMessage
<1>1. IInv => OneFinalMessage BY DEF IInv
<1> QED BY <1>1, Inductive, PTL

(* What a C++ worker reports is what happened to its function.             *)
THEOREM ReportsTrue == Spec => []CppReportTrue
<1>1. IInv => CppReportTrue BY DEF IInv
<1> QED BY <1>1, Inductive, PTL

(***************************************************************************)
(* The worker keeps its contract with the manager                          *)
(***************************************************************************)

(* What the manager knows of a worker that has sent nothing yet, and of    *)
(* one that has.                                                           *)
LEMMA KnownBefore ==
  ASSUME received = <<>>
  PROVE  /\ pc = "start" => Known = "new"
         /\ pc \in {"scriptCalls", "functionCalls"} => Known = "calling"
         /\ pc \notin {"start", "scriptCalls", "functionCalls"} => Known = "run"
BY DEF Known

LEMMA KnownBeforeNext ==
  ASSUME received' = <<>>
  PROVE  /\ pc' = "start" => Known' = "new"
         /\ pc' \in {"scriptCalls", "functionCalls"} => Known' = "calling"
         /\ pc' \notin {"start", "scriptCalls", "functionCalls"} => Known' = "run"
BY DEF Known

(* What becomes known of the worker by one step is what the contract lets  *)
(* it do.                                                                  *)
LifeStep == Known' = Known \/ Known' \in Life!After[Known]

LEMMA AfterStates ==
  /\ Life!After["new"] = {"run", "none"}
  /\ Life!After["run"] = {"calling", "exited", "failed", "none"}
  /\ Life!After["calling"] = {"run", "none"}
BY DEF Life!After

LEMMA NextLife ==
  ASSUME IInv, [Next]_vars
  PROVE  LifeStep
<1>1. CASE Silent
  <2>0. received = <<>> /\ received' = <<>>
    BY <1>1, SilentSteps
  <2>1. CASE Start
    <3>1. pc = "start" /\ pc' \in {"function", "script"}
      BY <2>1 DEF Start, Goes
    <3> QED BY <2>0, <3>1, KnownBefore, KnownBeforeNext, AfterStates DEF LifeStep
  <2>2. CASE Invoke
    <3>1. pc \in {"script", "function"} /\ pc' \in {"scriptCalls", "functionCalls"}
      BY <2>2, InvokeSteps
    <3> QED BY <2>0, <3>1, KnownBefore, KnownBeforeNext, AfterStates DEF LifeStep
  <2>3. CASE InvokeReturns \/ InvokeThrows
    <3>1. /\ pc \in {"scriptCalls", "functionCalls"}
          /\ pc' \in {"script", "function", "catch", "ending"}
      BY <2>3, InvokeSteps DEF InvokeThrows
    <3> QED BY <2>0, <3>1, KnownBefore, KnownBeforeNext, AfterStates DEF LifeStep
  <2>4. CASE \/ FindMain \/ MainMissing \/ Convert \/ Release \/ ExitFails
             \/ Catch \/ FunctionDone \/ Crash
    <3>1. /\ pc \notin {"start", "scriptCalls", "functionCalls"}
          /\ pc' \notin {"start", "scriptCalls", "functionCalls"}
      BY <2>4
      DEF FindMain, MainMissing, Convert, Release, ExitFails, Catch, Crash,
          FunctionDone, FunctionReturns, FunctionThrows, FunctionEnds, Goes
    <3> QED BY <2>0, <3>1, KnownBefore, KnownBeforeNext DEF LifeStep
  <2> QED BY <1>1, <2>1, <2>2, <2>3, <2>4 DEF Silent
<1>2. CASE SendExit \/ SendSignal
  <2>1. pc \in {"exit", "ending"} /\ received = <<>> /\ Known = "run"
    BY <1>2, OnlyMessage, KnownBefore DEF SendExit, SendSignal, Goes
  <2>2. PICK m : received' = <<m>>
    BY <1>2, <2>1 DEF SendExit, SendSignal
  <2>3. Known' \in {"exited", "failed"}
    <3>1. received' # <<>>
      BY <2>2
    <3> QED BY <3>1 DEF Known
  <2> QED BY <2>1, <2>3, AfterStates DEF LifeStep
<1>3. CASE UNCHANGED vars
  BY <1>3 DEF vars, LifeStep, Known
<1> QED BY <1>1, <1>2, <1>3 DEF Next, Runtime, Silent

(* A worker's process keeps its part of the contract with the manager: it  *)
(* is blocked while it invokes, and after its final message it does        *)
(* nothing any more.                                                       *)
THEOREM ContractKept == Spec => LifeSpec
<1> DEFINE life == [w \in {1} |-> Known]
           Step == [Life!Next]_life
<1>1. Init => Life!Init
  BY DEF Init, Known, Life!Init
<1>2. IInv /\ [Next]_vars => Step
  <2>1. Known' \in Life!LifeState
    BY DEF Known, Life!LifeState
  <2> QED BY <2>1, NextLife DEF LifeStep, Life!Next
<1> QED BY <1>1, <1>2, Inductive, PTL DEF Spec, LifeSpec, Life!Spec

=============================================================================
