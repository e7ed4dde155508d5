------------------------------ MODULE MettEagle ------------------------------
(***************************************************************************)
(* The manager: the registry with its clients, and for the client One the  *)
(* invocations its thread works on.                                        *)
(*                                                                         *)
(* A request of One is served by the invocation engine, and the request    *)
(* ends when the engine answers.  The gates of the workers belong to the   *)
(* client's thread, so the end of an invocation raises the interrupt that  *)
(* the registry waits for; and the end of the session deletes the actions. *)
(* Of the other clients only what the registry sees is in the model.       *)
(***************************************************************************)
EXTENDS ClientRegistry

CONSTANTS One,                           \* a client
          Name, Value, Long, MaxDepth    \* those of ActionInvoke

ASSUME OneAssumption == One \in Client

VARIABLES actions, pc, depth, frames, err, utcb, lastExit

Engine == INSTANCE ActionInvoke

(* What the engine assumes of its constants.                               *)
ASSUME EngineAssumption ==
  /\ MaxDepth \in Nat \ {0}
  /\ Long \subseteq Value
  /\ Value \cap (Engine!Error \cup Engine!Residue \cup {"none"}) = {}

registryVars == vars
engineVars == <<actions, pc, depth, frames, err, utcb, lastExit>>

SystemInit == Init /\ Engine!Init

(***************************************************************************)
(* The thread of One                                                       *)
(***************************************************************************)

Serving == session[One].thread = "serve"

(* A request is received and dispatched; one that is refused changes       *)
(* nothing.                                                                *)
Dispatch ==
  /\ Request(One)
  /\ Engine!ClientStep \/ UNCHANGED engineVars

(* The engine and the workers of One go on.                                *)
Proceed ==
  /\ Serving
  /\ \/ Engine!Launch \/ Engine!LaunchFails \/ Engine!FirstReceive
     \/ Engine!ReplyAndReceive \/ Engine!ReceiveTimesOut \/ Engine!Collect
     \/ Engine!Return \/ Engine!ErrorReply
  /\ UNCHANGED registryVars

WorkerActs == Serving /\ Engine!WorkerStep /\ UNCHANGED registryVars

(* An invocation that is left deletes the gate of its worker, if it got as *)
(* far as creating it.                                                     *)
LeaveInvocation ==
  /\ Engine!ScopeEnd \/ Engine!Unwind
  /\ \/ WorkerGateDeleted(One)
     \/ Serving /\ frames[depth].worker = "new" /\ UNCHANGED registryVars

(* The request is answered: the thread is in the open wait again.          *)
AnswerRequest ==
  /\ ServeEnd(One)
  /\ Engine!ClientReply \/ (pc = "wait" /\ UNCHANGED engineVars)

(* Mutant of EndOrGoOn: the actions outlive the session.                   *)
EndKeepsActions == CheckGate(One) /\ UNCHANGED engineVars

(* handle_irq: the end of the session deletes its actions.                 *)
EndOrGoOn ==
  /\ CheckGate(One)
  /\ IF ClientGateValid(One)
       THEN UNCHANGED engineVars
       ELSE /\ actions' = [a \in Name |-> "absent"]
            /\ UNCHANGED <<pc, depth, frames, err, utcb, lastExit>>

(***************************************************************************)
(* The specification                                                       *)
(***************************************************************************)

(* What the registry does with One apart from serving it, ...              *)
OneRuns == (TakeIrq(One) \/ FreeLoad(One) \/ FreeStore(One) \/ Exit(One))
              /\ UNCHANGED engineVars
OneCalls == (RegisterCall(One) \/ Leave(One) \/ DieAsking(One))
              /\ UNCHANGED engineVars

(* ... and with everyone else.                                             *)
OtherRuns(c) == ThreadRuns(c) /\ UNCHANGED engineVars
OtherCalls(c) == (ClientStep(c) \/ WorkerGateDeleted(c)) /\ UNCHANGED engineVars
RegistryRuns == MainRuns /\ UNCHANGED engineVars
Registers(c) == MainStep(c) /\ UNCHANGED engineVars

(* The thread of One is scheduled.                                         *)
OneThread == Proceed \/ LeaveInvocation \/ AnswerRequest \/ EndOrGoOn \/ OneRuns

SystemNext ==
  \/ OneThread \/ Dispatch \/ WorkerActs \/ OneCalls
  \/ Engine!Environment /\ UNCHANGED registryVars
  \/ RegistryRuns
  \/ \E c \in Client : Registers(c)
  \/ \E c \in Client \ {One} : OtherRuns(c) \/ OtherCalls(c)

systemVars == <<registryVars, engineVars>>

SystemSpec == SystemInit /\ [][SystemNext]_systemVars

(* Every thread of the manager is scheduled, and the requests of the other *)
(* clients end.  Nothing is assumed of the functions of One.               *)
SystemFairSpec ==
  /\ SystemSpec
  /\ WF_systemVars(OneThread)
  /\ WF_systemVars(RegistryRuns)
  /\ \A c \in Client : SF_systemVars(Registers(c))
  /\ \A c \in Client \ {One} : WF_systemVars(OtherRuns(c))

-----------------------------------------------------------------------------
(***************************************************************************)
(* Properties                                                              *)
(***************************************************************************)

(* Workers of a client exist only while its thread serves a request of it: *)
(* not when it waits for the next one, nor when it looks at an interrupt,  *)
(* nor after it has given its CPU back; and a client that returns finds    *)
(* nothing of its earlier session.                                         *)
WorkersAreServed ==
  /\ depth > 0 => Serving /\ session[One].cpu # NoCpu
  /\ session[One].thread \in {"none", "load", "store", "exit"}
       => depth = 0 /\ \A a \in Name : actions[a] = "absent"

(* A client that leaves, also in the middle of nested invocations, is      *)
(* cleaned up: no session stays behind its deleted gate, if the functions  *)
(* end, and for the other clients not even that has to be assumed.         *)
LeaversCleanedUp ==
  /\ \A c \in Client \ {One} : []<>(session[c].gate # "deleted")
  /\ Engine!FunctionsEnd => []<>(session[One].gate # "deleted")

=============================================================================
