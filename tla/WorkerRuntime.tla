--------------------------- MODULE WorkerRuntime ---------------------------
(***************************************************************************)
(* What runs in a worker process: the main function of libfaas around a    *)
(* C++ function, or the Python 2.7 runtime around a script, from the start *)
(* of the process to its last message, and how the manager treats that     *)
(* message.                                                                *)
(*                                                                         *)
(* The function itself is arbitrary: it computes, invokes other functions, *)
(* and returns, throws, ends the process or crashes.                       *)
(***************************************************************************)
EXTENDS Naturals, Sequences

CONSTANTS Value,    \* the strings a function may return
          Long,     \* those that do not fit the message of the exit RPC
          MaxCalls  \* bound: how many functions one function invokes

(* What a local variable may hold in place of a string: nothing yet, what  *)
(* is no string in Python, an exception, a null pointer, freed memory.     *)
Other == {"none", "object", "raised", "null", "freed"}

ASSUME ValueAssumption == /\ "" \in Value \ Long
                          /\ Long \subseteq Value /\ Value \cap Other = {}
ASSUME MaxCallsAssumption == MaxCalls \in Nat

VARIABLES lang,      \* the runtime
          pc,        \* where the process is
          calls,     \* how many functions it has invoked
          result,    \* what the function returned, or "raised"
          answer,    \* the variable that is passed to exit
          received   \* the final messages the manager received from it

vars == <<lang, pc, calls, result, answer, received>>

Signal == [kind |-> "signal"]
ExitMessage(v) == [kind |-> "exit", value |-> v]
Final == {Signal} \cup {ExitMessage(v) : v \in Value \cup {"freed"}}

(* While the script or the function is blocked in an invocation            *)
Calling == [script |-> "scriptCalls", function |-> "functionCalls"]

Location == {"start", "script", "scriptCalls", "function", "functionCalls",
             "returned", "release", "exit", "catch", "ending", "blocked",
             "crashed"}

(* One invariant bundles the types of the variables.                       *)
TypeOK == /\ lang \in {"cpp", "python"}
          /\ pc \in Location
          /\ calls \in 0..MaxCalls
          /\ result \in Value \cup {"none", "object", "raised"}
          /\ answer \in Value \cup {"none", "null", "freed"}
          /\ received \in Seq(Final)

Init == /\ lang \in {"cpp", "python"}
        /\ pc = "start"
        /\ calls = 0
        /\ result = "none"
        /\ answer = "none"
        /\ received = <<>>

Goes(from, to) == pc = from /\ pc' = to

(***************************************************************************)
(* Up to the call of the function                                          *)
(***************************************************************************)

(* The manager passes one argument and the capability of a script, so that *)
(* the checks of main succeed.                                             *)
Start ==
  /\ Goes("start", IF lang = "cpp" THEN "function" ELSE "script")
  /\ UNCHANGED <<lang, calls, result, answer, received>>

(* The script has been run, also if it failed, and defines main, ...       *)
FindMain ==
  /\ Goes("script", "function")
  /\ UNCHANGED <<lang, calls, result, answer, received>>

(* ... or it does not, which throws.                                       *)
MainMissing ==
  /\ Goes("script", "catch")
  /\ UNCHANGED <<lang, calls, result, answer, received>>

(***************************************************************************)
(* The function                                                            *)
(***************************************************************************)

(* L4Re::Faas::invoke, also by faas.action_invoke in Python                *)
Invoke ==
  /\ calls < MaxCalls
  /\ \E p \in DOMAIN Calling : Goes(p, Calling[p])
  /\ calls' = calls + 1
  /\ UNCHANGED <<lang, result, answer, received>>

InvokeReturns ==
  /\ \E p \in DOMAIN Calling : Goes(Calling[p], p)
  /\ UNCHANGED <<lang, calls, result, answer, received>>

(* It throws.  A C++ function may catch that and go on.  The interpreter,  *)
(* which is C, is left by an exception it knows nothing of: it reaches     *)
(* main, or ends the process.                                              *)
InvokeThrows ==
  /\ pc \in {"scriptCalls", "functionCalls"}
  /\ pc' \in IF lang = "cpp" THEN {"function", "catch"} ELSE {"catch", "ending"}
  /\ UNCHANGED <<lang, calls, result, answer, received>>

FunctionReturns(v) ==
  /\ Goes("function", "returned")
  /\ v = "object" => lang = "python"
  /\ result' = v
  /\ UNCHANGED <<lang, calls, answer, received>>

(* An exception of a C++ function is caught in main.  One of a Python      *)
(* function stays in the interpreter, which returns NULL.                  *)
FunctionThrows ==
  /\ Goes("function", IF lang = "cpp" THEN "catch" ELSE "returned")
  /\ result' = "raised"
  /\ UNCHANGED <<lang, calls, answer, received>>

(* exit in C++, sys.exit in the global code of a script, os._exit anywhere  *)
FunctionEnds ==
  /\ pc \in {"script", "function"}
  /\ pc' = "ending"
  /\ UNCHANGED <<lang, calls, result, answer, received>>

(* A fault nobody handles: the process never runs again.                   *)
Crash ==
  /\ pc \in {"script", "function"}
  /\ pc' = "crashed"
  /\ UNCHANGED <<lang, calls, result, answer, received>>

(***************************************************************************)
(* After the function                                                      *)
(***************************************************************************)

(* Mutant of Convert: every function is taken to have returned nothing.    *)
ConvertNothing ==
  /\ Goes("returned", IF lang = "cpp" THEN "exit" ELSE "release")
  /\ answer' = ""
  /\ UNCHANGED <<lang, calls, result, received>>

(* The C++ string is kept in main.  In Python NULL becomes the empty       *)
(* string, and PyString_AsString is NULL for what is no string.            *)
Convert ==
  /\ Goes("returned", IF lang = "cpp" THEN "exit" ELSE "release")
  /\ answer' = CASE result = "raised" -> ""
                 [] result = "object" -> "null"
                 [] OTHER -> result
  /\ UNCHANGED <<lang, calls, result, received>>

(* The references to the string and to the module are dropped: the string  *)
(* the answer points to is freed, unless something else refers to it, and  *)
(* its memory may hold anything when it is read.                           *)
Release ==
  /\ Goes("release", "exit")
  /\ answer' \in IF result \in Value THEN {answer, "freed"} ELSE {answer}
  /\ UNCHANGED <<lang, calls, result, received>>

(* Mutant of SendExit: the manager answers, which main takes as an error.  *)
SendExitAnswered ==
  /\ pc = "exit" /\ answer \notin Long \cup {"null"}
  /\ received' = Append(received, ExitMessage(answer))
  /\ pc' = "catch"
  /\ UNCHANGED <<lang, calls, result, answer>>

(* The manager receives the value and does not answer.                     *)
SendExit ==
  /\ pc = "exit" /\ answer \notin Long \cup {"null"}
  /\ received' = Append(received, ExitMessage(answer))
  /\ pc' = "blocked"
  /\ UNCHANGED <<lang, calls, result, answer>>

(* Mutant of ExitFails: the error of the RPC is not looked at.             *)
ExitFailsSilently ==
  /\ pc = "exit"
  /\ \/ answer \in Long \cup {"freed"} /\ pc' = "blocked"
     \/ answer \in {"null", "freed"} /\ pc' = "crashed"
  /\ UNCHANGED <<lang, calls, result, answer, received>>

(* A value that is too long is not sent: chksys throws.  Reading a null    *)
(* pointer is a fault.  Freed memory may be either.                        *)
ExitFails ==
  /\ pc = "exit"
  /\ \/ answer \in Long \cup {"freed"} /\ pc' = "catch"
     \/ answer \in {"null", "freed"} /\ pc' = "crashed"
  /\ UNCHANGED <<lang, calls, result, answer, received>>

(* main logs the exception and returns its code.                           *)
Catch ==
  /\ Goes("catch", "ending")
  /\ UNCHANGED <<lang, calls, result, answer, received>>

(* The process ends with signal 0, which the manager does not answer.      *)
SendSignal ==
  /\ Goes("ending", "blocked")
  /\ received' = Append(received, Signal)
  /\ UNCHANGED <<lang, calls, result, answer>>

(***************************************************************************)
(* The specification                                                       *)
(***************************************************************************)

Runtime == \/ Start \/ FindMain \/ MainMissing \/ Convert \/ Release
           \/ SendExit \/ ExitFails \/ Catch \/ SendSignal

FunctionDone == \/ FunctionThrows \/ FunctionEnds
                \/ \E v \in Value \cup {"object"} : FunctionReturns(v)

Next == Runtime \/ Invoke \/ InvokeReturns \/ InvokeThrows \/ FunctionDone \/ Crash

Spec == Init /\ [][Next]_vars

(* The process is scheduled; nothing is assumed of functions.              *)
FairSpec == Spec /\ WF_vars(Runtime)

-----------------------------------------------------------------------------
(***************************************************************************)
(* The worker as the manager knows it: by the messages it sends            *)
(***************************************************************************)
Known ==
  IF received # <<>> THEN IF received[1] = Signal THEN "failed" ELSE "exited"
  ELSE IF pc = "start" THEN "new"
  ELSE IF pc \in {"scriptCalls", "functionCalls"} THEN "calling"
  ELSE "run"

Life == INSTANCE WorkerLife WITH Worker <- {1}, life <- [w \in {1} |-> Known]

(* The process keeps its part of the contract: it is blocked while it      *)
(* calls, and its final message is the last it sends.                      *)
LifeSpec == Life!Spec

(***************************************************************************)
(* Properties                                                              *)
(***************************************************************************)

(* The manager receives at most one final message from a worker, which     *)
(* does not run after it: what the server loop of an invocation relies on  *)
(* when it destroys a worker that is still there.                          *)
OneFinalMessage ==
  Len(received) <= 1 /\ (received # <<>> => pc = "blocked")

(* What a C++ worker reports is true: an exit message carries what its     *)
(* function returned, and a failure means that it did not return, or       *)
(* returned what does not fit a message.                                   *)
CppReportTrue ==
  \A i \in DOMAIN received :
    lang = "cpp" => IF received[i] = Signal
                      THEN result \in {"none", "raised"} \cup Long
                      ELSE received[i].value = result

(* A function that returned a string or threw is reported to the manager,  *)
(* unless the string of a Python function was freed.                       *)
FunctionReported ==
  (result \in Value \cup {"raised"})
    ~> (received # <<>> \/ answer = "freed")

=============================================================================
