---------------------------- MODULE ActionInvoke ----------------------------
(***************************************************************************)
(* The invocation engine of the manager: what one client thread does       *)
(* between two open waits of its server loop.                              *)
(*                                                                         *)
(* Manager_Base_Epiface::op_action_invoke starts a worker process for an   *)
(* action and then serves that worker alone (a closed wait on its thread)  *)
(* until the worker exits.  A worker may itself invoke an action, which    *)
(* the same thread handles by a nested call of op_action_invoke from       *)
(* inside the dispatch: the chain of invocations is the C++ call stack,    *)
(* here frames[1..depth].  Nothing between a nested op_action_invoke and   *)
(* the dispatcher of the outermost server loop catches an exception, so an *)
(* error at any level unwinds the whole chain.                             *)
(*                                                                         *)
(* Abstracted: names, arguments and results are members of small sets, a   *)
(* result is in Long when it does not fit the caller's message buffer, the *)
(* UTCB is the one value that a reply carries, and time is one bit per     *)
(* invocation: its limit has passed or not.                                *)
(***************************************************************************)
EXTENDS Naturals

CONSTANTS Name,      \* the names of actions
          Value,     \* the strings a worker can pass to op_exit
          Long,      \* those that do not fit the message buffer of the caller
          MaxDepth   \* bound: how deep invocations nest

(* The codes of the exceptions thrown on the way of an invocation.         *)
Error == {"EINVAL", "ENOMEM", "EFAULT", "EMSGTOOLONG", "EIPC_TIMEOUT"}

(* What the UTCB holds when it is neither a result nor an error: the empty *)
(* answer to a signal, or whatever a system call left in it.               *)
Residue == {"EOK", "clobbered"}

ASSUME MaxDepthAssumption == MaxDepth \in Nat \ {0}
ASSUME ValueAssumption == /\ Long \subseteq Value
                          /\ Value \cap (Error \cup Residue \cup {"none"}) = {}

VARIABLES actions,   \* _actions: the actions of the client and their dataspaces
          pc,        \* where the client thread of the manager is
          depth,     \* how many invocations are under way
          frames,    \* the invocations under way, the client's at 1
          err,       \* the code of the exception in flight
          utcb,      \* what the next reply would carry to its receiver
          lastExit   \* history: the value of the latest op_exit of this call

vars == <<actions, pc, depth, frames, err, utcb, lastExit>>

(***************************************************************************)
(* A worker is "new" until its thread is launched, "run" while it computes *)
(* or is about to send an RPC, "calling" while it is blocked in an RPC the *)
(* manager has not answered, "exited" or "failed" when its last RPC was    *)
(* received, and "gone" when its task has been destroyed.  "spoke" says    *)
(* that the manager received an RPC from it.                               *)
(***************************************************************************)
WorkerState == {"new", "run", "calling", "exited", "failed", "gone"}

Invocation == [action : Name, worker : WorkerState, limited : BOOLEAN,
               expired : BOOLEAN, spoke : BOOLEAN, value : Value \cup {"none"}]

NoInvocation == [worker |-> "none"]

Levels == 1..MaxDepth

PcState == {"wait", "setup", "first", "closed", "again", "collect",
            "scope_end", "return", "reply", "throw"}

(* One invariant bundles the types of the variables.                       *)
TypeOK ==
  /\ actions \in [Name -> {"absent", "valid", "stale"}]
  /\ pc \in PcState
  /\ depth \in 0..MaxDepth
  /\ frames \in [Levels -> Invocation \cup {NoInvocation}]
  /\ \A i \in Levels : frames[i] = NoInvocation <=> i > depth
  /\ err \in Error \cup {"none"}
  /\ utcb \in Value \cup Error \cup Residue
  /\ lastExit \in Value \cup {"none"}

Init ==
  /\ actions = [a \in Name |-> "absent"]
  /\ pc = "wait"
  /\ depth = 0
  /\ frames = [i \in Levels |-> NoInvocation]
  /\ err = "none"
  /\ utcb = "clobbered"
  /\ lastExit = "none"

(***************************************************************************)
(* The dataspaces behind the actions                                       *)
(***************************************************************************)

(* op_action_create: the checks and the insertion.  A refused request, and *)
(* the receive slot that is allocated afterwards, change nothing here.     *)
ActionCreate(a) ==
  /\ pc = "wait"
  /\ actions[a] = "absent"
  /\ actions' = [actions EXCEPT ![a] = "valid"]
  /\ UNCHANGED <<pc, depth, frames, err, utcb, lastExit>>

ActionDelete(a) ==
  /\ pc = "wait"
  /\ actions[a] # "absent"
  /\ actions' = [actions EXCEPT ![a] = "absent"]
  /\ UNCHANGED <<pc, depth, frames, err, utcb, lastExit>>

(* The owner of a dataspace takes it back, at any moment ("cap can be      *)
(* unmapped anytime").                                                     *)
Revoke(a) ==
  /\ actions[a] = "valid"
  /\ actions' = [actions EXCEPT ![a] = "stale"]
  /\ UNCHANGED <<pc, depth, frames, err, utcb, lastExit>>

(***************************************************************************)
(* Starting an invocation                                                  *)
(***************************************************************************)

Throw(e) == pc' = "throw" /\ err' = e

(* The existence check is made before the dataspace is validated; both     *)
(* fail with the same code.                                                *)
Startable(a) == actions[a] = "valid"

NewInvocation(a, lim) ==
  [action |-> a, worker |-> "new", limited |-> lim, expired |-> FALSE,
   spoke |-> FALSE, value |-> "none"]

(* The head of op_action_invoke, called by the server loop for the client  *)
(* and by the dispatch for a worker; fs is frames as the caller leaves it. *)
Enter(fs, a, lim) ==
  IF Startable(a)
    THEN /\ depth < MaxDepth
         /\ depth' = depth + 1
         /\ frames' = [fs EXCEPT ![depth + 1] = NewInvocation(a, lim)]
         /\ pc' = "setup"
         /\ UNCHANGED err
    ELSE /\ Throw("EINVAL")
         /\ frames' = fs
         /\ UNCHANGED depth

ClientInvoke(a, lim) ==
  /\ pc = "wait"
  /\ Enter(frames, a, lim)
  /\ UNCHANGED <<actions, utcb, lastExit>>

(* Setting the worker up and launching it.  The system calls on the way    *)
(* leave the UTCB in an arbitrary state.                                   *)
Launch ==
  /\ pc = "setup"
  /\ pc' = "first"
  /\ frames' = [frames EXCEPT ![depth].worker = "run"]
  /\ utcb' = "clobbered"
  /\ UNCHANGED <<actions, depth, err, lastExit>>

(* A capability, the memory for the process or its files cannot be had;    *)
(* a dataspace that was revoked after its validation ends here as well.    *)
LaunchFails ==
  /\ pc = "setup"
  /\ \E e \in {"ENOMEM", "EINVAL"} : Throw(e)
  /\ utcb' = "clobbered"
  /\ UNCHANGED <<actions, depth, frames, lastExit>>

(***************************************************************************)
(* The server loop for one worker                                          *)
(***************************************************************************)

(* Time passes: the limit of a started invocation is exceeded.             *)
Elapse(i) ==
  /\ i <= depth
  /\ frames[i].limited /\ ~frames[i].expired
  /\ frames[i].worker # "new"
  /\ frames' = [frames EXCEPT ![i].expired = TRUE]
  /\ UNCHANGED <<actions, pc, depth, err, utcb, lastExit>>

(* check_timeout: the limit of invocation i has passed.                    *)
Overdue(i) == frames[i].limited /\ frames[i].expired

(* Mutant of TimedReceive: the first receive is the one without a timeout. *)
TimedReceiveSwapped(i) == frames[i].limited /\ frames[i].spoke

(* Whether the receive that the manager blocks in has a timeout: the first *)
(* one (l4_ipc_receive) is given the remaining time, the ones that follow  *)
(* (l4_ipc_call) are given L4_IPC_NEVER.                                   *)
TimedReceive(i) == frames[i].limited /\ ~frames[i].spoke

(* The first closed wait for the worker, unless it is overdue already.     *)
FirstReceive ==
  /\ pc = "first"
  /\ IF Overdue(depth) THEN Throw("EFAULT") ELSE pc' = "closed" /\ UNCHANGED err
  /\ UNCHANGED <<actions, depth, frames, utcb, lastExit>>

(* Mutant of ReplyAndReceive: the limit is not checked again.              *)
ReplyUnchecked ==
  /\ pc = "again"
  /\ pc' = "closed"
  /\ frames' = [frames EXCEPT ![depth].worker = "run"]
  /\ UNCHANGED <<actions, depth, err, utcb, lastExit>>

(* The worker is still alive after the dispatch: answer its RPC with what  *)
(* the dispatch left in the UTCB and wait for the next one.                *)
ReplyAndReceive ==
  /\ pc = "again"
  /\ IF Overdue(depth)
       THEN Throw("EFAULT") /\ UNCHANGED frames
       ELSE /\ pc' = "closed"
            /\ frames' = [frames EXCEPT ![depth].worker = "run"]
            /\ UNCHANGED err
  /\ UNCHANGED <<actions, depth, utcb, lastExit>>

(* The receive fails with a timeout: chkipc throws.                        *)
ReceiveTimesOut ==
  /\ pc = "closed"
  /\ TimedReceive(depth) /\ frames[depth].expired
  /\ Throw("EIPC_TIMEOUT")
  /\ UNCHANGED <<actions, depth, frames, utcb, lastExit>>

(* The manager receives an RPC of the worker it waits for; w is the state  *)
(* this leaves the worker in.  The message overwrites the UTCB.            *)
Received(w) ==
  [frames EXCEPT ![depth].worker = w, ![depth].spoke = TRUE]

(* op_exit: the worker stays blocked, its value is kept.                   *)
WorkerExit(v) ==
  /\ pc = "closed"
  /\ pc' = "collect"
  /\ frames' = [Received("exited") EXCEPT ![depth].value = v]
  /\ lastExit' = v
  /\ utcb' = "clobbered"
  /\ UNCHANGED <<actions, depth, err>>

(* Mutant of WorkerFails: op_signal answers and forgets worker->exit.      *)
FailureForgotten ==
  /\ pc = "closed"
  /\ pc' = "again"
  /\ frames' = Received("calling")
  /\ utcb' = "EOK"
  /\ UNCHANGED <<actions, depth, err, lastExit>>

(* op_signal with signal 0: the function threw or the runtime ended.       *)
WorkerFails ==
  /\ pc = "closed"
  /\ pc' = "collect"
  /\ frames' = Received("failed")
  /\ utcb' = "clobbered"
  /\ UNCHANGED <<actions, depth, err, lastExit>>

(* op_signal with another signal, or an RPC the dispatch does not know:    *)
(* nothing happens, and the worker gets an answer without a value.         *)
WorkerSignal ==
  /\ pc = "closed"
  /\ pc' = "again"
  /\ frames' = Received("calling")
  /\ utcb' = "EOK"
  /\ UNCHANGED <<actions, depth, err, lastExit>>

(* Mutant of WorkerInvoke: the calling worker is answered first.           *)
InvokeUnblocked(a, lim) ==
  /\ pc = "closed"
  /\ Enter(Received("run"), a, lim)
  /\ utcb' = "clobbered"
  /\ UNCHANGED <<actions, lastExit>>

(* The worker invokes an action: a nested op_action_invoke.                *)
WorkerInvoke(a, lim) ==
  /\ pc = "closed"
  /\ Enter(Received("calling"), a, lim)
  /\ utcb' = "clobbered"
  /\ UNCHANGED <<actions, lastExit>>

(***************************************************************************)
(* Ending an invocation                                                    *)
(***************************************************************************)

(* The loop was left because the worker is not alive any more.             *)
Collect ==
  /\ pc = "collect"
  /\ CASE frames[depth].worker = "failed" -> Throw("EFAULT")
       [] frames[depth].worker # "failed" /\ frames[depth].value \in Long
            -> Throw("EMSGTOOLONG")
       [] OTHER -> pc' = "scope_end" /\ UNCHANGED err
  /\ UNCHANGED <<actions, depth, frames, utcb, lastExit>>

(* The end of the inner scope destroys the worker, its capabilities and    *)
(* the IPC gate.  Each unmap is a system call that overwrites the UTCB.    *)
ScopeEnd ==
  /\ pc = "scope_end"
  /\ pc' = "return"
  /\ frames' = [frames EXCEPT ![depth].worker = "gone"]
  /\ utcb' = "clobbered"
  /\ UNCHANGED <<actions, depth, err, lastExit>>

(* Mutant of Return: the result was written before the end of the scope.   *)
ReturnClobbered ==
  /\ pc = "return"
  /\ depth' = depth - 1
  /\ frames' = [frames EXCEPT ![depth] = NoInvocation]
  /\ pc' = IF depth = 1 THEN "reply" ELSE "again"
  /\ UNCHANGED <<actions, err, utcb, lastExit>>

(* The result is written into the UTCB and op_action_invoke returns, to    *)
(* the loop of the calling worker or to the server loop of the client.     *)
Return ==
  /\ pc = "return"
  /\ utcb' = frames[depth].value
  /\ depth' = depth - 1
  /\ frames' = [frames EXCEPT ![depth] = NoInvocation]
  /\ pc' = IF depth = 1 THEN "reply" ELSE "again"
  /\ UNCHANGED <<actions, err, lastExit>>

(* The server loop replies to the client, with what is in the UTCB, and    *)
(* waits for its next request.                                             *)
ClientReply ==
  /\ pc = "reply"
  /\ pc' = "wait"
  /\ utcb' = "clobbered" /\ lastExit' = "none"
  /\ UNCHANGED <<actions, depth, frames, err>>

(* Mutant of Unwind: the caller is told, and goes on.                      *)
UnwindToCaller ==
  /\ pc = "throw" /\ depth > 0
  /\ depth' = depth - 1
  /\ frames' = [frames EXCEPT ![depth] = NoInvocation]
  /\ utcb' = "EOK"
  /\ IF depth > 1 THEN pc' = "again" /\ err' = "none" ELSE UNCHANGED <<pc, err>>
  /\ UNCHANGED <<actions, lastExit>>

(* Mutant of Unwind: the worker of the level that is left is not removed.  *)
UnwindLeaks ==
  /\ pc = "throw" /\ depth > 0
  /\ depth' = depth - 1
  /\ utcb' = "clobbered"
  /\ UNCHANGED <<actions, pc, frames, err, lastExit>>

(* An exception leaves one more level of op_action_invoke, whose worker,   *)
(* capabilities and gate its destructors remove.                           *)
Unwind ==
  /\ pc = "throw" /\ depth > 0
  /\ depth' = depth - 1
  /\ frames' = [frames EXCEPT ![depth] = NoInvocation]
  /\ utcb' = "clobbered"
  /\ UNCHANGED <<actions, pc, err, lastExit>>

(* What the client makes of an error: the wrapper of action_invoke for     *)
(* std::string judges the last byte of its buffer, which the failed call   *)
(* did not write, and may take the reply for a truncated one.              *)
Perceived(e) == {e, "EMSGTOOLONG"}

(* Mutant of ErrorReply: the exception is answered at any level.           *)
ErrorReplyEarly ==
  /\ pc = "throw"
  /\ pc' = "reply"
  /\ utcb' \in Perceived(err)
  /\ err' = "none"
  /\ UNCHANGED <<actions, depth, frames, lastExit>>

(* Exc_log_dispatch turns the exception into an answer to the client.      *)
ErrorReply ==
  /\ pc = "throw" /\ depth = 0
  /\ pc' = "reply"
  /\ utcb' \in Perceived(err)
  /\ err' = "none"
  /\ UNCHANGED <<actions, depth, frames, lastExit>>

(***************************************************************************)
(* The specification                                                       *)
(***************************************************************************)

ManagerStep == \/ Launch \/ LaunchFails \/ FirstReceive \/ ReplyAndReceive
               \/ ReceiveTimesOut \/ Collect \/ ScopeEnd \/ Return
               \/ ClientReply \/ Unwind \/ ErrorReply

WorkerStep == \/ \E v \in Value : WorkerExit(v)
              \/ WorkerFails
              \/ WorkerSignal
              \/ \E a \in Name, lim \in BOOLEAN : WorkerInvoke(a, lim)

ClientStep == \E a \in Name : \/ ActionCreate(a)
                              \/ ActionDelete(a)
                              \/ \E lim \in BOOLEAN : ClientInvoke(a, lim)

Environment == \/ \E a \in Name : Revoke(a)
               \/ \E i \in Levels : Elapse(i)

Next == ManagerStep \/ WorkerStep \/ ClientStep \/ Environment

Spec == Init /\ [][Next]_vars

(* The manager thread is scheduled and time passes; nothing is assumed of  *)
(* clients and workers.                                                    *)
FairSpec == /\ Spec
            /\ WF_vars(ManagerStep)
            /\ \A i \in Levels : WF_vars(Elapse(i))

(* Every worker that keeps being waited for ends, with a value or with an  *)
(* error, as libfaas makes a function do that returns or throws.           *)
Ends(i) == depth = i /\ (WorkerFails \/ \E v \in Value : WorkerExit(v))

FunctionsEnd == \A i \in Levels : SF_vars(Ends(i))

-----------------------------------------------------------------------------
(***************************************************************************)
(* The abstract specification: what is under way, what it exited with, and *)
(* what the thread is about to answer.                                     *)
(***************************************************************************)
Calls ==
  [i \in Levels |->
     IF i <= depth
       THEN [action |-> frames[i].action, value |-> frames[i].value]
       ELSE [value |-> "none"]]

Answering == IF pc \in {"again", "reply"} THEN utcb ELSE "none"

Stack == INSTANCE CallStack
  WITH height <- depth, calls <- Calls, failing <- err, reply <- Answering

(* Invocations nest like calls: the innermost ends first, its caller gets  *)
(* the value it exited with and nothing else, and after an error nobody is *)
(* resumed before the client is told.                                      *)
CallStackSpec == Stack!Spec

(* The workers, one at each level, as the manager sees them.               *)
Workers == INSTANCE WorkerLife
  WITH Worker <- Levels, life <- [i \in Levels |-> frames[i].worker]

(* The manager keeps its part of the contract: it resumes only a worker    *)
(* that is blocked, and none that has sent its final message.              *)
WorkersSpec == Workers!Spec

(* The actions as invocations find them.                                   *)
Table == INSTANCE ActionTable WITH status <- actions

TableSpec == Table!Spec

(***************************************************************************)
(* Properties                                                              *)
(***************************************************************************)

(* The chain of invocations is a stack of blocked callers: below the       *)
(* innermost invocation every worker is blocked in its own invoke RPC, and *)
(* the manager's program counter agrees with the state of the innermost    *)
(* worker - a worker computes only while the manager waits for it.         *)
CallChain ==
  /\ \A i \in Levels : i < depth => frames[i].worker = "calling"
  /\ pc \in {"wait", "reply"} => depth = 0
  /\ pc \notin {"wait", "reply", "throw"} => depth > 0
  /\ pc = "setup" => frames[depth].worker = "new"
  /\ pc \in {"first", "closed"} => frames[depth].worker = "run"
  /\ pc = "again" => frames[depth].worker = "calling"
  /\ pc = "collect" => frames[depth].worker \in {"exited", "failed"}
  /\ pc = "scope_end" => frames[depth].worker = "exited"
  /\ pc = "return" => frames[depth].worker = "gone"

(* The client is answered, with a result or an error, only after every     *)
(* worker started on its behalf has been destroyed, also when an exception *)
(* crossed several levels.                                                 *)
NoOrphanWorkers ==
  pc \in {"wait", "reply"} => \A i \in Levels : frames[i] = NoInvocation

(* The answer about to be sent for a finished invocation is what its       *)
(* worker passed to op_exit, whatever system calls the destructors made in *)
(* between, and it fits the caller's buffer; else the client gets an error *)
(* and a worker the empty answer to a signal, never the residue of a call. *)
ReplyIntact ==
  pc \in {"again", "reply"} =>
    \/ utcb = lastExit /\ utcb \in Value \ Long
    \/ IF pc = "reply" THEN utcb \in Error ELSE utcb = "EOK"

(* A worker whose limit passed while it was blocked in an RPC never        *)
(* computes again: it is destroyed when the RPC would be answered.         *)
ExpiredStays ==
  \A i \in Levels :
    (i <= depth /\ frames[i].worker = "calling" /\ Overdue(i))
      => frames'[i] = NoInvocation \/ frames'[i].worker = "calling"

(* The same of every step: an overdue blocked worker is never resumed.     *)
ExpiredNeverResumes == [][ExpiredStays]_vars

(* A worker with a time limit that never sends an RPC is not waited for    *)
(* forever (needs only that the manager runs and time passes).             *)
SilentWorkerEnds ==
  \A i \in Levels :
    (i <= depth /\ frames[i].limited /\ ~frames[i].spoke)
      ~> (i > depth \/ frames[i].spoke)

(* If functions end, every invocation of the client is answered.           *)
CallAnswered == FunctionsEnd => ((pc # "wait") ~> (pc = "wait"))

(***************************************************************************)
(* What the documentation promises and the code does not keep              *)
(***************************************************************************)

(* "if this limit is reached the process will be killed": a worker whose   *)
(* limit has passed is destroyed.                                          *)
DeadlineEnforced ==
  \A i \in Levels :
    (i <= depth /\ Overdue(i)) ~> (i > depth \/ ~Overdue(i))

=============================================================================
