------------------------- MODULE ActionInvokeProofs -------------------------
(***************************************************************************)
(* Proofs about ActionInvoke, for any sets of names and values and for any *)
(* nesting bound.                                                          *)
(***************************************************************************)
EXTENDS ActionInvoke, TLAPS

(* CallChain says where the manager is; ValueFlow says where the value of  *)
(* the innermost worker is on its way from op_exit to the reply, which     *)
(* ReplyIntact alone does not say of the states before the reply.          *)
ValueFlow ==
  /\ pc = "throw" => err \in Error
  /\ (pc = "collect" /\ frames[depth].worker = "exited") =>
        /\ frames[depth].value = lastExit
        /\ lastExit \in Value
  /\ pc \in {"scope_end", "return"} =>
        /\ frames[depth].value = lastExit
        /\ lastExit \in Value \ Long

IInv == TypeOK /\ CallChain /\ ValueFlow /\ ReplyIntact

(* What the innermost frame is when there is one.                          *)
LEMMA TopFrame ==
  ASSUME TypeOK, depth > 0
  PROVE  /\ depth \in Levels
         /\ frames[depth] \in Invocation
         /\ depth - 1 \in 0..MaxDepth
BY MaxDepthAssumption DEF TypeOK, Levels

(* The initial state satisfies the inductive invariant.                    *)
LEMMA InitIInv == Init => IInv
<1> SUFFICES ASSUME Init PROVE IInv
    OBVIOUS
<1>1. TypeOK
  BY MaxDepthAssumption
  DEF Init, TypeOK, PcState, Levels, Residue, NoInvocation
<1>2. CallChain
  BY MaxDepthAssumption DEF Init, CallChain, Levels
<1>3. ValueFlow /\ ReplyIntact
  BY DEF Init, ValueFlow, ReplyIntact
<1> QED BY <1>1, <1>2, <1>3 DEF IInv

(* Entering op_action_invoke, from the server loop of the client or from   *)
(* the dispatch of a worker's RPC: fs is frames with the caller's frame    *)
(* marked as blocked, and all earlier callers are blocked as well.         *)
LEMMA EnterIInv ==
  ASSUME IInv, NEW a \in Name, NEW lim \in BOOLEAN, NEW fs,
         fs \in [Levels -> Invocation \cup {NoInvocation}],
         \A i \in Levels : fs[i] = NoInvocation <=> i > depth,
         \A i \in Levels : i <= depth => fs[i].worker = "calling",
         Enter(fs, a, lim), utcb' \in {utcb, "clobbered"},
         UNCHANGED <<actions, lastExit>>
  PROVE  IInv'
<1> USE MaxDepthAssumption
<1>1. CASE Startable(a)
  <2> DEFINE f == NewInvocation(a, lim)
  <2>1. /\ depth < MaxDepth
        /\ depth' = depth + 1
        /\ frames' = [fs EXCEPT ![depth + 1] = f]
        /\ pc' = "setup"
        /\ err' = err
    BY <1>1 DEF Enter
  <2>2. f \in Invocation /\ f.worker = "new" /\ f # NoInvocation
    BY DEF NewInvocation, Invocation, WorkerState, NoInvocation
  <2>3. depth + 1 \in Levels /\ depth \in 0..MaxDepth
    BY <2>1 DEF IInv, TypeOK, Levels
  <2> HIDE DEF f
  <2>4. TypeOK'
    BY <2>1, <2>2, <2>3 DEF IInv, TypeOK, Levels, PcState, Residue
  <2>5. CallChain'
    BY <2>1, <2>2, <2>3 DEF CallChain, Levels
  <2>6. ValueFlow' /\ ReplyIntact'
    BY <2>1 DEF ValueFlow, ReplyIntact
  <2> QED BY <2>4, <2>5, <2>6 DEF IInv
<1>2. CASE ~Startable(a)
  <2>1. pc' = "throw" /\ err' = "EINVAL" /\ frames' = fs /\ depth' = depth
    BY <1>2 DEF Enter, Throw
  <2>2. TypeOK'
    BY <2>1 DEF IInv, TypeOK, PcState, Error, Residue
  <2>3. CallChain'
    BY <2>1 DEF IInv, TypeOK, CallChain, Levels
  <2>4. ValueFlow' /\ ReplyIntact'
    BY <2>1 DEF ValueFlow, ReplyIntact, Error
  <2> QED BY <2>2, <2>3, <2>4 DEF IInv
<1> QED BY <1>1, <1>2

(* An exception that leaves the frames as they are.                        *)
LEMMA ThrowIInv ==
  ASSUME IInv, NEW e \in Error, Throw(e), depth > 0,
         UNCHANGED <<actions, depth, frames, lastExit>>,
         utcb' \in {utcb, "clobbered"}
  PROVE  IInv'
<1>1. pc' = "throw" /\ err' = e
  BY DEF Throw
<1>2. TypeOK'
  BY <1>1 DEF IInv, TypeOK, PcState, Residue
<1>3. CallChain'
  BY <1>1 DEF IInv, CallChain
<1>4. ValueFlow' /\ ReplyIntact'
  BY <1>1 DEF ValueFlow, ReplyIntact
<1> QED BY <1>2, <1>3, <1>4 DEF IInv

(* Replacing the innermost frame by one of a started worker.               *)
LEMMA TopUpdate ==
  ASSUME TypeOK, CallChain, depth > 0, NEW f \in Invocation,
         frames' = [frames EXCEPT ![depth] = f], depth' = depth
  PROVE  /\ frames' \in [Levels -> Invocation \cup {NoInvocation}]
         /\ \A i \in Levels : frames'[i] = NoInvocation <=> i > depth'
         /\ frames'[depth'] = f
         /\ \A i \in Levels : i < depth' => frames'[i].worker = "calling"
<1>1. depth \in Levels
  BY TopFrame
<1>2. f # NoInvocation
  BY DEF Invocation, NoInvocation, WorkerState
<1> QED BY <1>1, <1>2 DEF TypeOK, CallChain, Levels

(* The inductive step: one step of the proof per action.                   *)
LEMMA NextIInv == IInv /\ [Next]_vars => IInv'
<1> SUFFICES ASSUME IInv, [Next]_vars PROVE IInv'
    OBVIOUS
<1> USE MaxDepthAssumption
<1>0. TypeOK /\ CallChain /\ ValueFlow /\ ReplyIntact
  BY DEF IInv
<1>1. CASE \E a \in Name : ActionCreate(a) \/ ActionDelete(a) \/ Revoke(a)
  <2> SUFFICES ASSUME NEW a \in Name,
                      ActionCreate(a) \/ ActionDelete(a) \/ Revoke(a)
               PROVE  IInv'
      BY <1>1
  <2>1. /\ actions' \in [Name -> {"absent", "valid", "stale"}]
        /\ UNCHANGED <<pc, depth, frames, err, utcb, lastExit>>
    BY <1>0 DEF ActionCreate, ActionDelete, Revoke, TypeOK
  <2> QED BY <1>0, <2>1 DEF IInv, TypeOK, CallChain, ValueFlow, ReplyIntact
<1>2. ASSUME NEW a \in Name, NEW lim \in BOOLEAN, ClientInvoke(a, lim)
      PROVE  IInv'
  <2>1. depth = 0
    BY <1>0, <1>2 DEF ClientInvoke, CallChain
  <2> QED BY <1>0, <1>2, <2>1, EnterIInv DEF ClientInvoke, TypeOK, Levels
<1>3. CASE Launch
  <2> DEFINE f == [frames[depth] EXCEPT !.worker = "run"]
  <2>1. depth > 0 /\ frames' = [frames EXCEPT ![depth] = f] /\ depth' = depth
    BY <1>0, <1>3, TopFrame DEF Launch, CallChain
  <2>2. f \in Invocation /\ f.worker = "run"
    BY <1>0, <2>1, TopFrame DEF Invocation, WorkerState
  <2> HIDE DEF f
  <2>3. /\ frames' \in [Levels -> Invocation \cup {NoInvocation}]
        /\ \A i \in Levels : frames'[i] = NoInvocation <=> i > depth'
        /\ frames'[depth'] = f
        /\ \A i \in Levels : i < depth' => frames'[i].worker = "calling"
    BY <1>0, <2>1, <2>2, TopUpdate
  <2> QED BY <1>0, <1>3, <2>1, <2>2, <2>3
          DEF Launch, IInv, TypeOK, CallChain, ValueFlow, ReplyIntact,
              PcState, Residue
<1>4. CASE LaunchFails
  <2>1. depth > 0
    BY <1>0, <1>4 DEF LaunchFails, CallChain
  <2>2. PICK e \in {"ENOMEM", "EINVAL"} : Throw(e)
    BY <1>4 DEF LaunchFails
  <2>3. e \in Error
    BY DEF Error
  <2> QED BY <1>4, <2>1, <2>2, <2>3, ThrowIInv DEF LaunchFails
<1>5. CASE FirstReceive
  <2>1. depth > 0
    BY <1>0, <1>5 DEF FirstReceive, CallChain
  <2>2. CASE Overdue(depth)
    BY <1>5, <2>1, <2>2, ThrowIInv DEF FirstReceive, Error
  <2>3. CASE ~Overdue(depth)
    BY <1>0, <1>5, <2>3
    DEF FirstReceive, IInv, TypeOK, CallChain, ValueFlow, ReplyIntact, PcState
  <2> QED BY <2>2, <2>3
<1>6. CASE ReplyAndReceive
  <2> DEFINE f == [frames[depth] EXCEPT !.worker = "run"]
  <2>1. depth > 0
    BY <1>0, <1>6 DEF ReplyAndReceive, CallChain
  <2>2. CASE Overdue(depth)
    BY <1>6, <2>1, <2>2, ThrowIInv DEF ReplyAndReceive, Error
  <2>3. CASE ~Overdue(depth)
    <3>1. frames' = [frames EXCEPT ![depth] = f] /\ depth' = depth
      BY <1>0, <1>6, <2>1, <2>3, TopFrame DEF ReplyAndReceive
    <3>2. f \in Invocation /\ f.worker = "run"
      BY <1>0, <2>1, TopFrame DEF Invocation, WorkerState
    <3> HIDE DEF f
    <3>3. /\ frames' \in [Levels -> Invocation \cup {NoInvocation}]
          /\ \A i \in Levels : frames'[i] = NoInvocation <=> i > depth'
          /\ frames'[depth'] = f
          /\ \A i \in Levels : i < depth' => frames'[i].worker = "calling"
      BY <1>0, <2>1, <3>1, <3>2, TopUpdate
    <3> QED BY <1>0, <1>6, <2>1, <2>3, <3>1, <3>2, <3>3
            DEF ReplyAndReceive, IInv, TypeOK, CallChain, ValueFlow,
                ReplyIntact, PcState
  <2> QED BY <2>2, <2>3
<1>7. CASE ReceiveTimesOut
  <2>1. depth > 0
    BY <1>0, <1>7 DEF ReceiveTimesOut, CallChain
  <2> QED BY <1>7, <2>1, ThrowIInv DEF ReceiveTimesOut, Error
<1>8. ASSUME NEW v \in Value, WorkerExit(v) PROVE IInv'
  <2> DEFINE f == [frames[depth] EXCEPT !.worker = "exited", !.spoke = TRUE,
                                        !.value = v]
  <2>1. depth > 0
    BY <1>0, <1>8 DEF WorkerExit, CallChain
  <2>2. frames' = [frames EXCEPT ![depth] = f] /\ depth' = depth
    BY <1>0, <1>8, <2>1, TopFrame DEF WorkerExit, Received, TypeOK, Levels
  <2>3. f \in Invocation /\ f.worker = "exited" /\ f.value = v
    BY <1>0, <2>1, TopFrame DEF Invocation, WorkerState
  <2> HIDE DEF f
  <2>4. /\ frames' \in [Levels -> Invocation \cup {NoInvocation}]
        /\ \A i \in Levels : frames'[i] = NoInvocation <=> i > depth'
        /\ frames'[depth'] = f
        /\ \A i \in Levels : i < depth' => frames'[i].worker = "calling"
    BY <1>0, <2>1, <2>2, <2>3, TopUpdate
  <2> QED BY <1>0, <1>8, <2>1, <2>2, <2>3, <2>4
          DEF WorkerExit, IInv, TypeOK, CallChain, ValueFlow, ReplyIntact,
              PcState, Residue
<1>9. CASE WorkerFails \/ WorkerSignal
  <2> DEFINE f(w) == [frames[depth] EXCEPT !.worker = w, !.spoke = TRUE]
  <2>1. depth > 0
    BY <1>0, <1>9 DEF WorkerFails, WorkerSignal, CallChain
  <2>2. PICK w \in {"failed", "calling"} :
          /\ frames' = [frames EXCEPT ![depth] = f(w)]
          /\ depth' = depth
          /\ w = "failed" <=> pc' = "collect"
          /\ w = "calling" <=> pc' = "again"
    BY <1>0, <1>9, <2>1, TopFrame
    DEF WorkerFails, WorkerSignal, Received, TypeOK, Levels
  <2>3. f(w) \in Invocation /\ f(w).worker = w
    BY <1>0, <2>1, TopFrame DEF Invocation, WorkerState
  <2> HIDE DEF f
  <2>4. /\ frames' \in [Levels -> Invocation \cup {NoInvocation}]
        /\ \A i \in Levels : frames'[i] = NoInvocation <=> i > depth'
        /\ frames'[depth'] = f(w)
        /\ \A i \in Levels : i < depth' => frames'[i].worker = "calling"
    BY <1>0, <2>1, <2>2, <2>3, TopUpdate
  <2> QED BY <1>0, <1>9, <2>1, <2>2, <2>3, <2>4
          DEF WorkerFails, WorkerSignal, IInv, TypeOK, CallChain, ValueFlow,
              ReplyIntact, PcState, Residue
<1>10. ASSUME NEW a \in Name, NEW lim \in BOOLEAN, WorkerInvoke(a, lim)
       PROVE  IInv'
  <2> DEFINE f == [frames[depth] EXCEPT !.worker = "calling", !.spoke = TRUE]
             fs == [frames EXCEPT ![depth] = f]
  <2>1. depth > 0
    BY <1>0, <1>10 DEF WorkerInvoke, CallChain
  <2>2. Received("calling") = fs
    BY <1>0, <2>1, TopFrame DEF Received, TypeOK, Levels
  <2>3. f \in Invocation /\ f.worker = "calling" /\ f # NoInvocation
    BY <1>0, <2>1, TopFrame DEF Invocation, WorkerState, NoInvocation
  <2> HIDE DEF f
  <2>4. /\ fs \in [Levels -> Invocation \cup {NoInvocation}]
        /\ \A i \in Levels : fs[i] = NoInvocation <=> i > depth
        /\ \A i \in Levels : i <= depth => fs[i].worker = "calling"
    BY <1>0, <2>1, <2>3 DEF TypeOK, CallChain, Levels
  <2> HIDE DEF fs
  <2> QED BY <1>10, <2>2, <2>4, EnterIInv DEF WorkerInvoke
<1>11. CASE Collect
  <2>1. depth > 0
    BY <1>0, <1>11 DEF Collect, CallChain
  <2>2. CASE Throw("EFAULT") \/ Throw("EMSGTOOLONG")
    BY <1>11, <2>1, <2>2, ThrowIInv DEF Collect, Error
  <2>3. CASE /\ frames[depth].worker # "failed"
             /\ frames[depth].value \notin Long
             /\ pc' = "scope_end" /\ err' = err
    BY <1>0, <1>11, <2>1, <2>3
    DEF Collect, IInv, TypeOK, CallChain, ValueFlow, ReplyIntact, PcState
  <2> QED BY <1>11, <2>2, <2>3 DEF Collect
<1>12. CASE ScopeEnd
  <2> DEFINE f == [frames[depth] EXCEPT !.worker = "gone"]
  <2>1. depth > 0 /\ frames' = [frames EXCEPT ![depth] = f] /\ depth' = depth
    BY <1>0, <1>12, TopFrame DEF ScopeEnd, CallChain
  <2>2. f \in Invocation /\ f.worker = "gone" /\ f.value = frames[depth].value
    BY <1>0, <2>1, TopFrame DEF Invocation, WorkerState
  <2> HIDE DEF f
  <2>3. /\ frames' \in [Levels -> Invocation \cup {NoInvocation}]
        /\ \A i \in Levels : frames'[i] = NoInvocation <=> i > depth'
        /\ frames'[depth'] = f
        /\ \A i \in Levels : i < depth' => frames'[i].worker = "calling"
    BY <1>0, <2>1, <2>2, TopUpdate
  <2> QED BY <1>0, <1>12, <2>1, <2>2, <2>3
          DEF ScopeEnd, IInv, TypeOK, CallChain, ValueFlow, ReplyIntact,
              PcState, Residue
<1>13. CASE Return
  <2>1. depth > 0
    BY <1>0, <1>13 DEF Return, CallChain
  <2>2. /\ depth' = depth - 1 /\ depth' \in 0..MaxDepth
        /\ frames' = [frames EXCEPT ![depth] = NoInvocation]
    BY <1>0, <1>13, <2>1, TopFrame DEF Return
  <2>3. TypeOK'
    BY <1>0, <1>13, <2>1, <2>2 DEF Return, TypeOK, ValueFlow, Levels, PcState
  <2>4. CallChain'
    BY <1>0, <1>13, <2>1, <2>2 DEF Return, TypeOK, CallChain, Levels
  <2>5. ValueFlow' /\ ReplyIntact'
    BY <1>0, <1>13 DEF Return, ValueFlow, ReplyIntact
  <2> QED BY <2>3, <2>4, <2>5 DEF IInv
<1>14. CASE ClientReply
  BY <1>0, <1>14
  DEF ClientReply, IInv, TypeOK, CallChain, ValueFlow, ReplyIntact, PcState,
      Residue
<1>15. CASE Unwind
  <2>1. /\ depth > 0 /\ depth' = depth - 1 /\ depth' \in 0..MaxDepth
        /\ frames' = [frames EXCEPT ![depth] = NoInvocation]
    BY <1>0, <1>15, TopFrame DEF Unwind
  <2>2. TypeOK'
    BY <1>0, <1>15, <2>1 DEF Unwind, TypeOK, Levels, Residue
  <2>3. CallChain'
    BY <1>0, <1>15, <2>1 DEF Unwind, TypeOK, CallChain, Levels
  <2>4. ValueFlow' /\ ReplyIntact'
    BY <1>0, <1>15 DEF Unwind, ValueFlow, ReplyIntact
  <2> QED BY <2>2, <2>3, <2>4 DEF IInv
<1>16. CASE ErrorReply
  BY <1>0, <1>16
  DEF ErrorReply, Perceived, Error, IInv, TypeOK, CallChain, ValueFlow,
      ReplyIntact, PcState
<1>17. ASSUME NEW i \in Levels, Elapse(i) PROVE IInv'
  <2> DEFINE f == [frames[i] EXCEPT !.expired = TRUE]
  <2>1. frames[i] \in Invocation /\ frames[i] # NoInvocation
    BY <1>0, <1>17 DEF Elapse, TypeOK, Levels
  <2>2. frames' = [frames EXCEPT ![i] = f]
    BY <1>17, <2>1 DEF Elapse
  <2>3. /\ f \in Invocation /\ f # NoInvocation
        /\ f.worker = frames[i].worker /\ f.value = frames[i].value
    BY <2>1 DEF Invocation, NoInvocation, WorkerState
  <2> HIDE DEF f
  <2>4. \A j \in Levels : /\ frames'[j].worker = frames[j].worker
                          /\ frames'[j].value = frames[j].value
    BY <1>0, <2>2, <2>3 DEF TypeOK
  <2>5. UNCHANGED <<actions, pc, depth, err, utcb, lastExit>>
    BY <1>17 DEF Elapse
  <2>6. TypeOK'
    <3>1. /\ frames' \in [Levels -> Invocation \cup {NoInvocation}]
          /\ \A j \in Levels : frames'[j] = NoInvocation <=> frames[j] = NoInvocation
      BY <1>0, <2>1, <2>2, <2>3 DEF TypeOK
    <3> QED BY <1>0, <2>5, <3>1 DEF TypeOK
  <2>7. CallChain'
    BY <1>0, <2>4, <2>5 DEF TypeOK, CallChain, Levels
  <2>8. ValueFlow' /\ ReplyIntact'
    <3>1. pc \in {"collect", "scope_end", "return"} => depth \in Levels
      BY <1>0, TopFrame DEF CallChain
    <3> QED BY <1>0, <2>4, <2>5, <3>1 DEF ValueFlow, ReplyIntact
  <2> QED BY <2>6, <2>7, <2>8 DEF IInv
<1>18. CASE UNCHANGED vars
  BY <1>0, <1>18
  DEF vars, IInv, TypeOK, CallChain, ValueFlow, ReplyIntact
<1> QED
  BY <1>1, <1>2, <1>3, <1>4, <1>5, <1>6, <1>7, <1>8, <1>9, <1>10, <1>11,
     <1>12, <1>13, <1>14, <1>15, <1>16, <1>17, <1>18
  DEF Next, ManagerStep, WorkerStep, ClientStep, Environment

(* Every reachable state satisfies the inductive invariant.                *)
THEOREM Inductive == Spec => []IInv
BY InitIInv, NextIInv, PTL DEF Spec

(* The variables have their types in every state, in particular the frames *)
(* in use are exactly those up to the nesting depth.                       *)
THEOREM TypeCorrect == Spec => []TypeOK
<1>1. IInv => TypeOK
  BY DEF IInv
<1> QED BY <1>1, Inductive, PTL

(* The callers of a nested invocation are all blocked, however deep the    *)
(* nesting is, so the manager never serves two workers at a time.          *)
THEOREM CallersBlocked == Spec => []CallChain
<1>1. IInv => CallChain
  BY DEF IInv
<1> QED BY <1>1, Inductive, PTL

(* A reply carries what the worker it is about passed to op_exit.          *)
THEOREM ReplyCorrect == Spec => []ReplyIntact
<1>1. IInv => ReplyIntact
  BY DEF IInv
<1> QED BY <1>1, Inductive, PTL

(* No worker outlives the request of the client it was started for.        *)
THEOREM NoOrphans == Spec => []NoOrphanWorkers
<1>1. IInv => NoOrphanWorkers
  BY DEF IInv, TypeOK, CallChain, NoOrphanWorkers, Levels
<1> QED BY <1>1, Inductive, PTL

(* The frames that a step changes are the innermost one and, when time     *)
(* passes, one whose worker stays as it is.                                *)
LEMMA NextExpired == IInv /\ [Next]_vars => [ExpiredStays]_vars
<1> SUFFICES ASSUME IInv, Next, NEW i \in Levels, i <= depth,
                    frames[i].worker = "calling", Overdue(i)
             PROVE  \/ frames'[i] = NoInvocation
                    \/ frames'[i].worker = "calling"
    BY DEF ExpiredStays
<1>0. /\ TypeOK /\ CallChain
      /\ frames[i] \in Invocation
      /\ i \in Nat /\ depth \in Nat /\ depth > 0
  BY MaxDepthAssumption DEF IInv, TypeOK, Levels
<1>1. CASE frames' = frames
  BY <1>1
<1>2. ASSUME NEW j \in Levels, Elapse(j)
      PROVE  frames'[i].worker = "calling"
  <2>1. frames'[i] = frames[i]
           \/ frames'[i] = [frames[i] EXCEPT !.expired = TRUE]
    BY <1>0, <1>2 DEF Elapse, TypeOK
  <2> QED BY <1>0, <2>1 DEF Invocation
<1>3. CASE ReplyAndReceive
  <2>1. CASE Overdue(depth)
    BY <1>1, <1>3, <2>1 DEF ReplyAndReceive
  <2>2. CASE ~Overdue(depth)
    <3>1. i # depth
      BY <2>2
    <3> QED BY <1>0, <1>3, <2>2, <3>1 DEF ReplyAndReceive, TypeOK
  <2> QED BY <2>1, <2>2
<1>4. CASE Launch \/ ScopeEnd
  <2>1. i # depth
    BY <1>0, <1>4 DEF Launch, ScopeEnd, CallChain
  <2> QED BY <1>0, <1>4, <2>1 DEF Launch, ScopeEnd, TypeOK
<1>5. CASE Return \/ Unwind
  BY <1>0, <1>5 DEF Return, Unwind, TypeOK
<1>6. CASE pc = "closed" /\ WorkerStep
  <2>1. i # depth
    BY <1>0, <1>6 DEF CallChain
  <2>2. \A w : /\ Received(w)[i] = frames[i]
               /\ DOMAIN Received(w) = Levels
    BY <1>0, <2>1 DEF Received, TypeOK
  <2>3. CASE \E v \in Value : WorkerExit(v)
    BY <1>0, <2>1, <2>2, <2>3 DEF WorkerExit
  <2>4. CASE WorkerFails \/ WorkerSignal
    BY <2>2, <2>4 DEF WorkerFails, WorkerSignal
  <2>5. ASSUME NEW a \in Name, NEW lim \in BOOLEAN, WorkerInvoke(a, lim)
        PROVE  frames'[i].worker = "calling"
    <3> DEFINE fs == Received("calling")
    <3>1. i # depth + 1
      BY <1>0
    <3>2. fs[i] = frames[i] /\ DOMAIN fs = Levels
      BY <2>2
    <3> HIDE DEF fs
    <3>3. frames' = fs
            \/ frames' = [fs EXCEPT ![depth + 1] = NewInvocation(a, lim)]
      BY <2>5 DEF WorkerInvoke, Enter, fs
    <3> QED BY <3>1, <3>2, <3>3
  <2> QED BY <1>6, <2>3, <2>4, <2>5 DEF WorkerStep
<1>7. WorkerStep => pc = "closed"
  BY DEF WorkerStep, WorkerExit, WorkerFails, WorkerSignal, WorkerInvoke
<1>8. CASE ClientStep
  BY <1>0, <1>1, <1>8
  DEF ClientStep, ClientInvoke, ActionCreate, ActionDelete, CallChain
<1>9. CASE \E a \in Name : Revoke(a)
  BY <1>1, <1>9 DEF Revoke
<1>10. CASE \/ LaunchFails \/ FirstReceive \/ ReceiveTimesOut \/ Collect
            \/ ClientReply \/ ErrorReply
  BY <1>1, <1>10 DEF LaunchFails, FirstReceive, ReceiveTimesOut, Collect,
                     ClientReply, ErrorReply
<1> QED
  BY <1>2, <1>3, <1>4, <1>5, <1>6, <1>7, <1>8, <1>9, <1>10
  DEF Next, ManagerStep, Environment

(* A worker whose limit passed while it was blocked is never resumed.      *)
THEOREM ExpiredStops == Spec => ExpiredNeverResumes
BY NextExpired, Inductive, PTL DEF Spec, ExpiredNeverResumes

-----------------------------------------------------------------------------
(***************************************************************************)
(* The engine keeps the contract with its workers, and its actions are a   *)
(* table of actions                                                        *)
(***************************************************************************)

(* The state of a worker changes as the contract allows.                   *)
LifeStep(i) == \/ frames'[i].worker = frames[i].worker
               \/ frames'[i].worker \in Workers!After[frames[i].worker]

(* What may come after each state.                                         *)
LEMMA AfterStates ==
  /\ Workers!After["none"] = {"new"}
  /\ Workers!After["new"] = {"run", "none"}
  /\ Workers!After["run"] = {"calling", "exited", "failed", "none"}
  /\ Workers!After["calling"] = {"run", "none"}
  /\ Workers!After["exited"] = {"gone", "none"}
  /\ Workers!After["failed"] = {"none"}
  /\ Workers!After["gone"] = {"none"}
BY DEF Workers!After

(* The workers of all levels have a state of the contract.                 *)
LEMMA LifeType ==
  ASSUME TypeOK
  PROVE  \A i \in Levels : frames[i].worker \in Workers!LifeState
BY DEF TypeOK, Invocation, WorkerState, NoInvocation, Workers!LifeState

(* A worker may be destroyed in any state.                                 *)
LEMMA MayBeDestroyed ==
  ASSUME TypeOK, NEW i \in Levels, frames'[i] = NoInvocation
  PROVE  LifeStep(i)
<1>1. frames[i].worker \in Workers!LifeState
  BY LifeType
<1>2. frames'[i].worker = "none"
  BY DEF NoInvocation
<1> QED BY <1>1, <1>2, AfterStates DEF LifeStep, Workers!LifeState

(* A step that changes the innermost worker only.                          *)
LEMMA TopLife ==
  ASSUME TypeOK, depth \in Levels, NEW f,
         frames' = [frames EXCEPT ![depth] = f],
         \/ f.worker = frames[depth].worker
         \/ f.worker \in Workers!After[frames[depth].worker],
         NEW i \in Levels
  PROVE  LifeStep(i)
BY DEF TypeOK, LifeStep

(* Every step of the engine keeps the contract with all its workers.       *)
LEMMA NextLife ==
  ASSUME IInv, Next, NEW i \in Levels
  PROVE  LifeStep(i)
<1>0. /\ TypeOK /\ CallChain /\ depth \in Nat /\ i \in Nat
      /\ DOMAIN frames = Levels
      /\ depth > 0 => depth \in Levels /\ frames[depth] \in Invocation
  BY TopFrame, MaxDepthAssumption DEF IInv, TypeOK, Levels
<1>1. CASE frames' = frames
  BY <1>1 DEF LifeStep
<1>2. ASSUME NEW j \in Levels, Elapse(j)
      PROVE  LifeStep(i)
  <2>1. frames[j] \in Invocation
    BY <1>0, <1>2 DEF Elapse, TypeOK, Levels
  <2>2. frames' = [frames EXCEPT ![j].expired = TRUE]
    BY <1>2 DEF Elapse
  <2>3. frames'[i].worker = frames[i].worker
    BY <1>0, <2>1, <2>2 DEF Invocation
  <2> QED BY <2>3 DEF LifeStep
<1>3. CASE Launch \/ ScopeEnd \/ ReplyAndReceive
  <2>1. CASE frames' = frames
    BY <1>1, <2>1
  <2>2. CASE frames' # frames
    <3>1. depth > 0
      BY <1>0, <1>3 DEF Launch, ScopeEnd, ReplyAndReceive, CallChain
    <3>2. PICK w \in WorkerState :
            /\ frames' = [frames EXCEPT ![depth].worker = w]
            /\ \/ frames[depth].worker = "new" /\ w = "run"
               \/ frames[depth].worker = "exited" /\ w = "gone"
               \/ frames[depth].worker = "calling" /\ w = "run"
      BY <1>0, <1>3, <2>2
      DEF Launch, ScopeEnd, ReplyAndReceive, CallChain, WorkerState
    <3> DEFINE f == [frames[depth] EXCEPT !.worker = w]
    <3>3. frames' = [frames EXCEPT ![depth] = f] /\ f.worker = w
      BY <1>0, <3>1, <3>2 DEF Invocation
    <3> HIDE DEF f
    <3> QED BY <1>0, <3>1, <3>2, <3>3, TopLife, AfterStates
  <2> QED BY <2>1, <2>2
<1>4. CASE Return \/ Unwind
  <2>1. depth \in Levels /\ frames' = [frames EXCEPT ![depth] = NoInvocation]
    BY <1>0, <1>4 DEF Return, Unwind, CallChain
  <2>2. CASE i = depth
    BY <1>0, <2>1, <2>2, MayBeDestroyed
  <2>3. CASE i # depth
    BY <1>0, <2>1, <2>3 DEF LifeStep
  <2> QED BY <2>2, <2>3
<1>5. CASE pc = "closed" /\ WorkerStep
  <2>1. depth \in Levels /\ frames[depth].worker = "run"
    BY <1>0, <1>5 DEF CallChain
  <2>2. \A w : /\ DOMAIN Received(w) = Levels
              /\ Received(w)[depth].worker = w
              /\ \A k \in Levels : k # depth => Received(w)[k] = frames[k]
    BY <1>0, <2>1 DEF Received, Invocation
  <2>3. ASSUME NEW v \in Value, WorkerExit(v) PROVE LifeStep(i)
    <3> DEFINE r == Received("exited")
    <3>1. frames' = [r EXCEPT ![depth].value = v]
      BY <2>3 DEF WorkerExit
    <3>2. /\ r[depth].worker = "exited" /\ DOMAIN r = Levels
          /\ \A k \in Levels : k # depth => r[k] = frames[k]
      BY <2>2
    <3>3. /\ r = [frames EXCEPT ![depth].worker = "exited", ![depth].spoke = TRUE]
          /\ r[depth] = [frames[depth] EXCEPT !.worker = "exited", !.spoke = TRUE]
      BY <1>0, <2>1 DEF Received
    <3> HIDE DEF r
    <3>5. i = depth => frames'[i].worker = "exited"
      <4> DEFINE g == r[depth]
      <4>1. frames[depth] \in Invocation
        BY <1>0, <2>1, MaxDepthAssumption DEF Levels
      <4>2. /\ DOMAIN g = DOMAIN frames[depth]
            /\ "worker" \in DOMAIN frames[depth]
        BY <3>3, <4>1 DEF Invocation
      <4>3. frames'[depth] = [g EXCEPT !.value = v]
        BY <2>1, <3>1, <3>2
      <4> HIDE DEF g
      <4>4. [g EXCEPT !.value = v].worker = g.worker
        BY <4>2
      <4> QED BY <3>2, <4>3, <4>4 DEF g
    <3>6. i # depth => frames'[i] = frames[i]
      BY <3>1, <3>2
    <3> QED BY <2>1, <3>5, <3>6, AfterStates DEF LifeStep
  <2>4. CASE WorkerFails \/ WorkerSignal
    <3>1. PICK w \in {"failed", "calling"} : frames' = Received(w)
      BY <2>4 DEF WorkerFails, WorkerSignal
    <3> QED BY <2>1, <2>2, <3>1, AfterStates DEF LifeStep
  <2>5. ASSUME NEW a \in Name, NEW lim \in BOOLEAN, WorkerInvoke(a, lim)
        PROVE  LifeStep(i)
    <3> DEFINE fs == Received("calling")
    <3>1. /\ fs[depth].worker = "calling" /\ DOMAIN fs = Levels
          /\ \A k \in Levels : k # depth => fs[k] = frames[k]
      BY <2>2
    <3> HIDE DEF fs
    <3>2. frames' = fs
            \/ frames' = [fs EXCEPT ![depth + 1] = NewInvocation(a, lim)]
      BY <2>5 DEF WorkerInvoke, Enter, fs
    <3>3. i = depth + 1 => frames[i].worker = "none"
      BY <1>0 DEF TypeOK, NoInvocation
    <3>4. NewInvocation(a, lim).worker = "new"
      BY DEF NewInvocation
    <3> QED BY <1>0, <2>1, <3>1, <3>2, <3>3, <3>4, AfterStates DEF LifeStep
  <2> QED BY <1>5, <2>3, <2>4, <2>5 DEF WorkerStep
<1>6. WorkerStep => pc = "closed"
  BY DEF WorkerStep, WorkerExit, WorkerFails, WorkerSignal, WorkerInvoke
<1>7. ASSUME NEW a \in Name, NEW lim \in BOOLEAN, ClientInvoke(a, lim)
      PROVE  LifeStep(i)
  <2>1. frames' = frames
          \/ frames' = [frames EXCEPT ![depth + 1] = NewInvocation(a, lim)]
    BY <1>7 DEF ClientInvoke, Enter
  <2>2. i = depth + 1 => frames[i].worker = "none"
    BY <1>0 DEF TypeOK, NoInvocation
  <2>3. NewInvocation(a, lim).worker = "new"
    BY DEF NewInvocation
  <2> QED BY <1>0, <2>1, <2>2, <2>3, AfterStates DEF LifeStep
<1>8. CASE \E a \in Name : ActionCreate(a) \/ ActionDelete(a) \/ Revoke(a)
  BY <1>1, <1>8 DEF ActionCreate, ActionDelete, Revoke
<1>9. CASE \/ LaunchFails \/ FirstReceive \/ ReceiveTimesOut \/ Collect
           \/ ClientReply \/ ErrorReply
  BY <1>1, <1>9 DEF LaunchFails, FirstReceive, ReceiveTimesOut, Collect,
                    ClientReply, ErrorReply
<1> QED
  BY <1>2, <1>3, <1>4, <1>5, <1>6, <1>7, <1>8, <1>9
  DEF Next, ManagerStep, ClientStep, Environment

(* What WorkersSpec says of one step.                                      *)
WorkersStep == [Workers!Next]_[i \in Levels |-> frames[i].worker]

LEMMA NextWorkersStep == IInv /\ IInv' /\ [Next]_vars => WorkersStep
<1> SUFFICES ASSUME IInv, IInv', [Next]_vars PROVE WorkersStep
    OBVIOUS
<1>1. CASE Next
  <2>1. \A i \in Levels : frames'[i].worker \in Workers!LifeState
    BY DEF IInv, TypeOK, Invocation, WorkerState, NoInvocation,
           Workers!LifeState
  <2>2. \A i \in Levels : LifeStep(i)
    BY <1>1, NextLife
  <2> QED BY <2>1, <2>2 DEF WorkersStep, Workers!Next, LifeStep
<1>2. CASE UNCHANGED vars
  BY <1>2 DEF vars, WorkersStep
<1> QED BY <1>1, <1>2

LEMMA InitWorkers == Init => Workers!Init
BY DEF Init, Workers!Init, NoInvocation

(* The manager keeps its part of the contract with every worker: it starts *)
(* each once, resumes only one that is blocked, and never one that has     *)
(* sent its final message.                                                 *)
THEOREM ContractKept == Spec => WorkersSpec
BY InitWorkers, NextWorkersStep, Inductive, PTL
DEF Spec, WorkersSpec, Workers!Spec, WorkersStep

(* The actions change as those of a table of actions.                      *)
LEMMA NextTable ==
  ASSUME TypeOK, [Next]_vars
  PROVE  [Table!Next]_actions
<1>1. /\ Table!After["absent"] = {"valid"}
      /\ Table!After["valid"] = {"stale", "absent"}
      /\ Table!After["stale"] = {"absent"}
  BY DEF Table!After
<1>2. CASE \E a \in Name : ActionCreate(a) \/ ActionDelete(a) \/ Revoke(a)
  <2> PICK a \in Name : ActionCreate(a) \/ ActionDelete(a) \/ Revoke(a)
    BY <1>2
  <2>1. PICK s \in {"absent", "valid", "stale"} :
          /\ actions' = [actions EXCEPT ![a] = s]
          /\ s \in Table!After[actions[a]]
    BY <1>1 DEF ActionCreate, ActionDelete, Revoke, TypeOK
  <2> QED BY <2>1 DEF TypeOK, Table!Next
<1>3. CASE UNCHANGED actions
  BY <1>3
<1> QED
  BY <1>2, <1>3
  DEF Next, vars, ManagerStep, WorkerStep, ClientStep, Environment, Launch,
      LaunchFails, FirstReceive, ReplyAndReceive, ReceiveTimesOut, Collect,
      ScopeEnd, Return, ClientReply, Unwind, ErrorReply, WorkerExit,
      WorkerFails, WorkerSignal, WorkerInvoke, ClientInvoke, Elapse

(* To the engine, its actions are a table of actions, in which a revoked   *)
(* dataspace stays revoked.                                                *)
THEOREM ImplementsTable == Spec => TableSpec
<1>1. Init => Table!Init
  BY DEF Init, Table!Init
<1>2. TypeOK /\ [Next]_vars => [Table!Next]_actions
  BY NextTable
<1> QED BY <1>1, <1>2, TypeCorrect, PTL DEF Spec, TableSpec, Table!Spec

-----------------------------------------------------------------------------
(***************************************************************************)
(* The engine implements the stack of calls                                *)
(***************************************************************************)

(* An exception is under way exactly when the program counter says so, and *)
(* a worker that can still compute has not exited with anything.           *)
ThrowAgrees == err = "none" <=> pc # "throw"

NoValueYet ==
  \A i \in Levels :
    (i <= depth /\ frames[i].worker \in {"new", "run", "calling"})
      => frames[i].value = "none"

StackInv == ThrowAgrees /\ NoValueYet

(* The entry of the stack for one invocation.                              *)
Entry(i) == [action |-> frames[i].action, value |-> frames[i].value]

(* Calls, entry by entry, and how it is compared.                          *)
LEMMA CallsEntries ==
  /\ DOMAIN Calls = Levels
  /\ \A i \in Levels : i <= depth => Calls[i] = Entry(i)
  /\ \A i \in Levels : ~(i <= depth) => Calls[i] = Stack!NoCall
BY DEF Calls, Entry, Stack!NoCall

LEMMA CallsEntriesNext ==
  /\ \A i \in Levels : i <= depth' => Calls[i]' = Entry(i)'
  /\ \A i \in Levels : ~(i <= depth') => Calls[i]' = Stack!NoCall
BY DEF Calls, Entry, Stack!NoCall

LEMMA CallsEqual ==
  ASSUME NEW g, DOMAIN g = Levels, g = [i \in DOMAIN g |-> g[i]],
         \A i \in Levels : Calls[i]' = g[i]
  PROVE  Calls' = g
<1>1. Calls' = [i \in Levels |-> Calls[i]']
  BY DEF Calls
<1> QED BY <1>1

(* A step that leaves what the frames are about as it is.                  *)
LEMMA CallsKept ==
  ASSUME depth' = depth,
         \A i \in Levels : i <= depth => Entry(i)' = Entry(i)
  PROVE  Calls' = Calls
<1>1. Calls' = [i \in Levels |-> IF i <= depth' THEN Entry(i)'
                                               ELSE [value |-> "none"]]
  BY DEF Calls, Entry
<1>2. Calls = [i \in Levels |-> IF i <= depth THEN Entry(i)
                                              ELSE [value |-> "none"]]
  BY DEF Calls, Entry
<1> QED BY <1>1, <1>2

(* A new invocation on top of the others.                                  *)
LEMMA CallsPush ==
  ASSUME depth \in 0..MaxDepth, depth < MaxDepth, depth' = depth + 1, NEW a,
         NEW k \in Levels, k = depth + 1,
         Entry(k)' = [action |-> a, value |-> "none"],
         \A i \in Levels : i <= depth => Entry(i)' = Entry(i)
  PROVE  Calls' = [Calls EXCEPT ![k] = [action |-> a, value |-> "none"]]
<1> DEFINE r == [action |-> a, value |-> "none"]
           g == [Calls EXCEPT ![k] = r]
<1>1. DOMAIN g = Levels /\ g = [i \in DOMAIN g |-> g[i]]
  BY CallsEntries
<1>2. ASSUME NEW i \in Levels PROVE Calls[i]' = g[i]
  <2> HIDE DEF r
  <2>0. i \in Nat /\ depth \in Nat
    BY MaxDepthAssumption DEF Levels
  <2>1. CASE i <= depth
    BY <2>0, <2>1, CallsEntries, CallsEntriesNext
  <2>2. CASE i = k
    BY <2>0, <2>2, CallsEntries, CallsEntriesNext DEF r
  <2>3. CASE i > k
    BY <2>0, <2>3, CallsEntries, CallsEntriesNext
  <2> QED BY <2>0, <2>1, <2>2, <2>3
<1> QED BY <1>1, <1>2, CallsEqual

(* The innermost invocation is left.                                       *)
LEMMA CallsPop ==
  ASSUME depth \in Levels, depth' = depth - 1,
         \A i \in Levels : i < depth => Entry(i)' = Entry(i)
  PROVE  Calls' = [Calls EXCEPT ![depth] = Stack!NoCall]
<1> DEFINE g == [Calls EXCEPT ![depth] = Stack!NoCall]
<1>1. DOMAIN g = Levels /\ g = [i \in DOMAIN g |-> g[i]]
  BY CallsEntries
<1>2. ASSUME NEW i \in Levels PROVE Calls[i]' = g[i]
  <2>0. i \in Nat /\ depth \in Nat
    BY MaxDepthAssumption DEF Levels
  <2>1. CASE i < depth
    BY <2>0, <2>1, CallsEntries, CallsEntriesNext
  <2>2. CASE i = depth
    BY <2>0, <2>2, CallsEntries, CallsEntriesNext
  <2>3. CASE i > depth
    BY <2>0, <2>3, CallsEntries, CallsEntriesNext
  <2> QED BY <2>0, <2>1, <2>2, <2>3
<1> QED BY <1>1, <1>2, CallsEqual

(* The innermost invocation gets its value.                                *)
LEMMA CallsValue ==
  ASSUME depth \in Levels, depth' = depth, NEW v,
         Entry(depth)' = [action |-> frames[depth].action, value |-> v],
         \A i \in Levels : i < depth => Entry(i)' = Entry(i)
  PROVE  Calls' = [Calls EXCEPT ![depth].value = v]
<1> DEFINE r == [action |-> frames[depth].action, value |-> v]
           g == [Calls EXCEPT ![depth] = r]
<1>1. DOMAIN g = Levels /\ g = [i \in DOMAIN g |-> g[i]]
  BY CallsEntries
<1>2. ASSUME NEW i \in Levels PROVE Calls[i]' = g[i]
  <2> HIDE DEF r
  <2>0. i \in Nat /\ depth \in Nat
    BY MaxDepthAssumption DEF Levels
  <2>1. CASE i < depth
    BY <2>0, <2>1, CallsEntries, CallsEntriesNext
  <2>2. CASE i = depth
    BY <2>0, <2>2, CallsEntries, CallsEntriesNext DEF r
  <2>3. CASE i > depth
    BY <2>0, <2>3, CallsEntries, CallsEntriesNext
  <2> QED BY <2>0, <2>1, <2>2, <2>3
<1>3. Calls' = g
  BY <1>1, <1>2, CallsEqual
<1>4. Calls[depth] = Entry(depth)
  BY MaxDepthAssumption, CallsEntries DEF Levels
<1>5. [Entry(depth) EXCEPT !.value = v] = r
  BY DEF Entry
<1> QED BY <1>3, <1>4, <1>5

(* The innermost entry.                                                    *)
LEMMA CallsTop ==
  ASSUME depth \in Levels
  PROVE  /\ Calls[depth].value = frames[depth].value
         /\ Calls[depth].action = frames[depth].action
<1>1. Calls[depth] = Entry(depth)
  BY MaxDepthAssumption, CallsEntries DEF Levels
<1> QED BY <1>1 DEF Entry

(* Steps that change only the innermost frame, and not what it is for.     *)
LEMMA TopStep ==
  ASSUME TypeOK, NoValueYet, depth > 0, NEW f \in Invocation,
         frames' = [frames EXCEPT ![depth] = f], depth' = depth,
         f.action = frames[depth].action,
         f.worker \in {"new", "run", "calling"} => f.value = "none"
  PROVE  /\ NoValueYet'
         /\ f.value = frames[depth].value => Calls' = Calls
         /\ Calls' = [Calls EXCEPT ![depth].value = f.value]
<1>1. depth \in Levels
  BY TopFrame
<1>2. frames'[depth] = f /\ \A i \in Levels : i # depth => frames'[i] = frames[i]
  BY <1>1 DEF TypeOK
<1>3. NoValueYet'
  BY <1>2 DEF NoValueYet
<1>4. \A i \in Levels : i # depth => Entry(i)' = Entry(i)
  BY <1>2 DEF Entry
<1>5. Entry(depth)' = [action |-> frames[depth].action, value |-> f.value]
  BY <1>2 DEF Entry
<1>6. ASSUME f.value = frames[depth].value PROVE Calls' = Calls
  <2>1. Entry(depth)' = Entry(depth)
    BY <1>5, <1>6 DEF Entry
  <2>2. \A i \in Levels : i <= depth => Entry(i)' = Entry(i)
    BY <1>4, <2>1
  <2> QED BY <2>2, CallsKept
<1>7. Calls' = [Calls EXCEPT ![depth].value = f.value]
  <2>1. \A i \in Levels : i < depth => Entry(i)' = Entry(i)
    BY <1>1, <1>4, MaxDepthAssumption DEF Levels
  <2> QED BY <1>1, <1>5, <2>1, CallsValue
<1> QED BY <1>3, <1>6, <1>7

(* Steps that leave the frames and the nesting as they are.                *)
LEMMA FramesKept ==
  ASSUME NoValueYet, frames' = frames, depth' = depth
  PROVE  NoValueYet' /\ Calls' = Calls
<1>1. NoValueYet'
  BY DEF NoValueYet
<1>2. \A i \in Levels : Entry(i)' = Entry(i)
  BY DEF Entry
<1> QED BY <1>1, <1>2, CallsKept

(* A level is left, by returning from it or by an exception.               *)
LEMMA TopLeft ==
  ASSUME TypeOK, NoValueYet, depth > 0, depth' = depth - 1,
         frames' = [frames EXCEPT ![depth] = NoInvocation]
  PROVE  NoValueYet' /\ Calls' = [Calls EXCEPT ![depth] = Stack!NoCall]
<1>1. depth \in Levels
  BY TopFrame
<1>2. \A i \in Levels : i < depth => frames'[i] = frames[i]
  BY <1>1 DEF TypeOK
<1>3. NoValueYet'
  BY <1>1, <1>2, MaxDepthAssumption DEF NoValueYet, Levels
<1>4. \A i \in Levels : i < depth => Entry(i)' = Entry(i)
  BY <1>2 DEF Entry
<1> QED BY <1>1, <1>3, <1>4, CallsPop

(* The innermost call computes in these positions of the manager.          *)
LEMMA TopComputes ==
  ASSUME IInv, StackInv, pc \in {"setup", "first", "closed", "again"}
  PROVE  Stack!Computes
<1>1. depth \in Levels /\ frames[depth].worker \in {"new", "run", "calling"}
  BY TopFrame DEF IInv, CallChain
<1>2. frames[depth].value = "none" /\ err = "none"
  BY <1>1, MaxDepthAssumption DEF StackInv, NoValueYet, ThrowAgrees, Levels
<1> QED BY <1>1, <1>2, CallsTop, MaxDepthAssumption DEF Stack!Computes, Levels

(* The step of the stack for one step of the engine.                       *)
StackStep == StackInv' /\ [Stack!Next]_(Stack!vars)

(* Steps that the stack does not see.                                      *)
LEMMA Unseen ==
  ASSUME ThrowAgrees, ThrowAgrees', NoValueYet',
         UNCHANGED <<depth, Calls, err, Answering>>
  PROVE  StackStep
BY DEF StackStep, StackInv, Stack!vars

(* An exception is raised.                                                 *)
LEMMA FailStep ==
  ASSUME StackInv, pc # "throw", NEW e \in Error, Throw(e),
         frames' = frames, depth' = depth
  PROVE  StackStep
<1>1. NoValueYet' /\ Calls' = Calls
  BY FramesKept DEF StackInv
<1>2. e # "none"
  BY DEF Error
<1>3. ThrowAgrees' /\ Answering' = "none" /\ err = "none"
  BY <1>2 DEF Throw, ThrowAgrees, StackInv, Answering
<1>4. Stack!Fail(e)
  BY <1>1, <1>3 DEF Stack!Fail, Throw
<1> QED BY <1>1, <1>3, <1>4 DEF StackStep, StackInv, Stack!Next

(* An invocation is started, by the client or by the innermost worker; fs  *)
(* differs from frames only in the state of the caller.                    *)
LEMMA EnterStep ==
  ASSUME IInv, StackInv, NEW a \in Name, NEW lim \in BOOLEAN, NEW fs,
         (pc = "wait" /\ depth = 0) \/ pc = "closed",
         DOMAIN fs = Levels,
         \A i \in Levels : i <= depth =>
            /\ fs[i].action = frames[i].action
            /\ fs[i].value = frames[i].value
            /\ fs[i].worker \in {"new", "run", "calling"}
                 => fs[i].value = "none",
         Enter(fs, a, lim)
  PROVE  StackStep
<1> USE MaxDepthAssumption
<1>0. depth \in 0..MaxDepth /\ depth \in Nat
  BY DEF IInv, TypeOK
<1>1. err = "none"
  BY DEF StackInv, ThrowAgrees
<1>2. (depth = 0 /\ Answering = "none") \/ Stack!Computes
  BY TopComputes DEF Answering
<1>3. CASE Startable(a)
  <2> DEFINE f == NewInvocation(a, lim)
  <2>1. /\ depth < MaxDepth /\ depth' = depth + 1
        /\ frames' = [fs EXCEPT ![depth + 1] = f]
        /\ pc' = "setup" /\ err' = err
    BY <1>3 DEF Enter
  <2>2. f.action = a /\ f.value = "none"
    BY DEF NewInvocation
  <2> HIDE DEF f
  <2>3. PICK k \in Levels : k = depth + 1
    BY <1>0, <2>1 DEF Levels
  <2>4. /\ frames'[k] = f
        /\ \A i \in Levels : i <= depth => i # k /\ frames'[i] = fs[i]
    BY <1>0, <2>1, <2>3
  <2>5. Entry(k)' = [action |-> a, value |-> "none"]
    BY <2>2, <2>4 DEF Entry
  <2>6. \A i \in Levels : i <= depth => Entry(i)' = Entry(i)
    BY <2>4 DEF Entry
  <2>7. Calls' = [Calls EXCEPT ![depth + 1] = [action |-> a, value |-> "none"]]
    BY <1>0, <2>1, <2>3, <2>5, <2>6, CallsPush
  <2>8. NoValueYet'
    <3>1. \A i \in Levels : i <= depth' => i <= depth \/ i = k
      BY <1>0, <2>1, <2>3 DEF Levels
    <3> QED BY <2>2, <2>4, <3>1 DEF NoValueYet
  <2>9. Answering' = "none" /\ ThrowAgrees'
    BY <1>1, <2>1 DEF Answering, ThrowAgrees
  <2>10. Stack!Call(a)
    BY <1>2, <2>1, <2>7, <2>9 DEF Stack!Call
  <2> QED BY <2>8, <2>9, <2>10 DEF StackStep, StackInv, Stack!Next
<1>4. CASE ~Startable(a)
  <2>1. pc' = "throw" /\ err' = "EINVAL" /\ frames' = fs /\ depth' = depth
    BY <1>4 DEF Enter, Throw
  <2>2. \A i \in Levels : i <= depth => Entry(i)' = Entry(i)
    BY <2>1 DEF Entry
  <2>3. Calls' = Calls
    BY <2>1, <2>2, CallsKept
  <2>4. NoValueYet' /\ ThrowAgrees' /\ Answering' = "none"
    BY <2>1 DEF NoValueYet, ThrowAgrees, Answering
  <2>5. Stack!Fail("EINVAL")
    BY <1>1, <2>1, <2>3, <2>4 DEF Stack!Fail
  <2> QED BY <2>4, <2>5 DEF StackStep, StackInv, Stack!Next, Error
<1> QED BY <1>3, <1>4

(* Every step of the engine is a step of the stack or none.                *)
LEMMA NextStackStep == IInv /\ StackInv /\ [Next]_vars => StackStep
<1> SUFFICES ASSUME IInv, StackInv, [Next]_vars PROVE StackStep
    OBVIOUS
<1>0. TypeOK /\ CallChain /\ ValueFlow /\ ReplyIntact /\ ThrowAgrees /\ NoValueYet
  BY DEF IInv, StackInv
<1>1. CASE UNCHANGED <<pc, depth, frames, err, utcb>>
  <2>1. NoValueYet' /\ Calls' = Calls
    BY <1>0, <1>1, FramesKept
  <2>2. ThrowAgrees' /\ Answering' = Answering
    BY <1>0, <1>1 DEF ThrowAgrees, Answering
  <2> QED BY <1>0, <1>1, <2>1, <2>2, Unseen
<1>2. ASSUME NEW a \in Name, NEW lim \in BOOLEAN, ClientInvoke(a, lim)
      PROVE  StackStep
  <2>1. depth = 0 /\ DOMAIN frames = Levels
    BY <1>0, <1>2 DEF ClientInvoke, CallChain, TypeOK
  <2>2. \A i \in Levels : ~(i <= depth)
    BY <2>1, MaxDepthAssumption DEF Levels
  <2> QED BY <1>2, <2>1, <2>2, EnterStep DEF ClientInvoke
<1>3. ASSUME NEW a \in Name, NEW lim \in BOOLEAN, WorkerInvoke(a, lim)
      PROVE  StackStep
  <2> DEFINE f == [frames[depth] EXCEPT !.worker = "calling", !.spoke = TRUE]
             fs == [frames EXCEPT ![depth] = f]
  <2>1. pc = "closed" /\ depth > 0 /\ frames[depth].worker = "run"
    BY <1>0, <1>3 DEF WorkerInvoke, CallChain
  <2>2. Received("calling") = fs
    BY <1>0, <2>1, TopFrame DEF Received, TypeOK
  <2>3. /\ f.action = frames[depth].action /\ f.value = frames[depth].value
        /\ frames[depth].value = "none"
    BY <1>0, <2>1, TopFrame, MaxDepthAssumption
    DEF Invocation, NoValueYet, Levels
  <2> HIDE DEF f
  <2>4. /\ DOMAIN fs = Levels
        /\ \A i \in Levels : i <= depth =>
             /\ fs[i].action = frames[i].action
             /\ fs[i].value = frames[i].value
             /\ fs[i].worker \in {"new", "run", "calling"}
                  => fs[i].value = "none"
    BY <1>0, <2>1, <2>3 DEF TypeOK, NoValueYet
  <2> HIDE DEF fs
  <2> QED BY <1>3, <2>1, <2>2, <2>4, EnterStep DEF WorkerInvoke
<1>4. CASE Launch
  <2> DEFINE f == [frames[depth] EXCEPT !.worker = "run"]
  <2>1. /\ depth > 0 /\ frames' = [frames EXCEPT ![depth] = f]
        /\ depth' = depth /\ frames[depth].worker = "new"
    BY <1>0, <1>4 DEF Launch, CallChain
  <2>2. /\ f \in Invocation /\ f.action = frames[depth].action
        /\ f.value = frames[depth].value /\ f.value = "none"
    BY <1>0, <2>1, TopFrame, MaxDepthAssumption
    DEF Invocation, WorkerState, NoValueYet, Levels
  <2> HIDE DEF f
  <2>3. NoValueYet' /\ Calls' = Calls
    BY <1>0, <2>1, <2>2, TopStep
  <2>4. ThrowAgrees' /\ Answering' = Answering /\ err' = err
    BY <1>0, <1>4 DEF Launch, ThrowAgrees, Answering
  <2> QED BY <1>0, <2>1, <2>3, <2>4, Unseen
<1>5. CASE LaunchFails
  <2>1. PICK e \in Error : Throw(e)
    BY <1>5 DEF LaunchFails, Error
  <2> QED BY <1>5, <2>1, FailStep DEF LaunchFails
<1>6. CASE FirstReceive
  <2>1. CASE Overdue(depth)
    BY <1>6, <2>1, FailStep DEF FirstReceive, Error
  <2>2. CASE ~Overdue(depth)
    <3>1. NoValueYet' /\ Calls' = Calls
      BY <1>0, <1>6, FramesKept DEF FirstReceive
    <3>2. ThrowAgrees' /\ Answering' = Answering /\ err' = err
      BY <1>0, <1>6, <2>2 DEF FirstReceive, ThrowAgrees, Answering
    <3> QED BY <1>0, <1>6, <3>1, <3>2, Unseen DEF FirstReceive
  <2> QED BY <2>1, <2>2
<1>7. CASE ReplyAndReceive
  <2>1. CASE Overdue(depth)
    BY <1>7, <2>1, FailStep DEF ReplyAndReceive, Error
  <2>2. CASE ~Overdue(depth)
    <3> DEFINE f == [frames[depth] EXCEPT !.worker = "run"]
    <3>1. /\ depth > 0 /\ depth' = depth /\ frames[depth].worker = "calling"
          /\ frames' = [frames EXCEPT ![depth] = f]
      BY <1>0, <1>7, <2>2 DEF ReplyAndReceive, CallChain
    <3>2. /\ f \in Invocation /\ f.action = frames[depth].action
          /\ f.value = frames[depth].value /\ f.value = "none"
      BY <1>0, <3>1, TopFrame, MaxDepthAssumption
      DEF Invocation, WorkerState, NoValueYet, Levels
    <3> HIDE DEF f
    <3>3. NoValueYet' /\ Calls' = Calls
      BY <1>0, <3>1, <3>2, TopStep
    <3>4. ThrowAgrees' /\ Answering' = "none" /\ err' = err
      BY <1>0, <1>7, <2>2 DEF ReplyAndReceive, ThrowAgrees, Answering
    <3>5. Stack!Computes
      BY <1>7, TopComputes DEF ReplyAndReceive
    <3>6. Stack!Send
      BY <3>1, <3>3, <3>4, <3>5 DEF Stack!Send
    <3> QED BY <3>3, <3>4, <3>6 DEF StackStep, StackInv, Stack!Next
  <2> QED BY <2>1, <2>2
<1>8. CASE ReceiveTimesOut
  BY <1>8, FailStep DEF ReceiveTimesOut, Error
<1>9. ASSUME NEW v \in Value, WorkerExit(v) PROVE StackStep
  <2> DEFINE f == [frames[depth] EXCEPT !.worker = "exited", !.spoke = TRUE,
                                        !.value = v]
  <2>1. pc = "closed" /\ depth > 0 /\ depth' = depth
    BY <1>0, <1>9 DEF WorkerExit, CallChain
  <2>2. frames' = [frames EXCEPT ![depth] = f]
    BY <1>0, <1>9, <2>1, TopFrame DEF WorkerExit, Received, TypeOK
  <2>3. /\ f \in Invocation /\ f.action = frames[depth].action
        /\ f.value = v /\ f.worker = "exited"
    BY <1>0, <2>1, TopFrame DEF Invocation, WorkerState
  <2> HIDE DEF f
  <2>4. NoValueYet' /\ Calls' = [Calls EXCEPT ![depth].value = v]
    BY <1>0, <2>1, <2>2, <2>3, TopStep
  <2>5. ThrowAgrees' /\ Answering' = Answering /\ err' = err
    BY <1>0, <1>9 DEF WorkerExit, ThrowAgrees, Answering
  <2>6. Stack!Exit(v)
    BY <2>1, <2>4, <2>5, TopComputes DEF Stack!Exit
  <2> QED BY <2>4, <2>5, <2>6 DEF StackStep, StackInv, Stack!Next
<1>10. CASE WorkerFails
  <2> DEFINE f == [frames[depth] EXCEPT !.worker = "failed", !.spoke = TRUE]
  <2>1. pc = "closed" /\ depth > 0 /\ depth' = depth
    BY <1>0, <1>10 DEF WorkerFails, CallChain
  <2>2. frames' = [frames EXCEPT ![depth] = f]
    BY <1>0, <1>10, <2>1, TopFrame DEF WorkerFails, Received, TypeOK
  <2>3. /\ f \in Invocation /\ f.action = frames[depth].action
        /\ f.value = frames[depth].value /\ f.worker = "failed"
    BY <1>0, <2>1, TopFrame DEF Invocation, WorkerState
  <2> HIDE DEF f
  <2>4. NoValueYet' /\ Calls' = Calls
    BY <1>0, <2>1, <2>2, <2>3, TopStep
  <2>5. ThrowAgrees' /\ Answering' = Answering /\ err' = err
    BY <1>0, <1>10 DEF WorkerFails, ThrowAgrees, Answering
  <2> QED BY <1>0, <2>1, <2>4, <2>5, Unseen
<1>11. CASE WorkerSignal
  <2> DEFINE f == [frames[depth] EXCEPT !.worker = "calling", !.spoke = TRUE]
  <2>1. /\ pc = "closed" /\ depth > 0 /\ depth' = depth
        /\ frames[depth].worker = "run"
    BY <1>0, <1>11 DEF WorkerSignal, CallChain
  <2>2. frames' = [frames EXCEPT ![depth] = f]
    BY <1>0, <1>11, <2>1, TopFrame DEF WorkerSignal, Received, TypeOK
  <2>3. /\ f \in Invocation /\ f.action = frames[depth].action
        /\ f.value = frames[depth].value /\ f.value = "none"
    <3>1. depth \in Levels /\ depth <= depth /\ frames[depth] \in Invocation
      BY <1>0, <2>1, TopFrame, MaxDepthAssumption DEF Levels
    <3>2. frames[depth].value = "none"
      BY <1>0, <2>1, <3>1 DEF NoValueYet
    <3>3. f \in Invocation
      BY <3>1 DEF Invocation, WorkerState
    <3> QED BY <3>1, <3>2, <3>3 DEF Invocation
  <2> HIDE DEF f
  <2>4. NoValueYet' /\ Calls' = Calls
    BY <1>0, <2>1, <2>2, <2>3, TopStep
  <2>5. ThrowAgrees' /\ Answering' = "EOK" /\ err' = err
    BY <1>0, <1>11 DEF WorkerSignal, ThrowAgrees, Answering
  <2>6. Stack!Acknowledge
    BY <2>1, <2>4, <2>5, TopComputes DEF Stack!Acknowledge
  <2> QED BY <2>4, <2>5, <2>6 DEF StackStep, StackInv, Stack!Next
<1>12. CASE Collect
  <2>1. CASE Throw("EFAULT") \/ Throw("EMSGTOOLONG")
    BY <1>12, <2>1, FailStep DEF Collect, Error
  <2>2. CASE pc' = "scope_end" /\ err' = err
    <3>1. NoValueYet' /\ Calls' = Calls
      BY <1>0, <1>12, FramesKept DEF Collect
    <3>2. ThrowAgrees' /\ Answering' = Answering
      BY <1>0, <1>12, <2>2 DEF Collect, ThrowAgrees, Answering
    <3> QED BY <1>0, <1>12, <2>2, <3>1, <3>2, Unseen DEF Collect
  <2> QED BY <1>12, <2>1, <2>2 DEF Collect
<1>13. CASE ScopeEnd
  <2> DEFINE f == [frames[depth] EXCEPT !.worker = "gone"]
  <2>1. depth > 0 /\ frames' = [frames EXCEPT ![depth] = f] /\ depth' = depth
    BY <1>0, <1>13 DEF ScopeEnd, CallChain
  <2>2. /\ f \in Invocation /\ f.action = frames[depth].action
        /\ f.value = frames[depth].value /\ f.worker = "gone"
    BY <1>0, <2>1, TopFrame DEF Invocation, WorkerState
  <2> HIDE DEF f
  <2>3. NoValueYet' /\ Calls' = Calls
    BY <1>0, <2>1, <2>2, TopStep
  <2>4. ThrowAgrees' /\ Answering' = Answering /\ err' = err
    BY <1>0, <1>13 DEF ScopeEnd, ThrowAgrees, Answering
  <2> QED BY <1>0, <2>1, <2>3, <2>4, Unseen
<1>14. CASE Return
  <2>1. depth > 0 /\ depth' = depth - 1 /\ err' = err
    BY <1>0, <1>14 DEF Return, CallChain
  <2>2. NoValueYet' /\ Calls' = [Calls EXCEPT ![depth] = Stack!NoCall]
    BY <1>0, <1>14, <2>1, TopLeft DEF Return
  <2>3. Calls[depth].value = frames[depth].value
    BY <1>0, <2>1, TopFrame, CallsTop
  <2>4. frames[depth].value \in Value \ Long
    BY <1>0, <1>14 DEF Return, ValueFlow
  <2>5. ThrowAgrees' /\ Answering' = frames[depth].value
    BY <1>0, <1>14 DEF Return, ThrowAgrees, Answering
  <2>6. Stack!Complete
    BY <2>1, <2>2, <2>3, <2>4, <2>5 DEF Stack!Complete
  <2> QED BY <2>2, <2>5, <2>6 DEF StackStep, StackInv, Stack!Next
<1>15. CASE ClientReply
  <2>1. NoValueYet' /\ Calls' = Calls
    BY <1>0, <1>15, FramesKept DEF ClientReply
  <2>2. ThrowAgrees' /\ Answering' = "none" /\ depth = 0
    BY <1>0, <1>15 DEF ClientReply, ThrowAgrees, Answering, CallChain
  <2>3. Stack!Send
    BY <1>15, <2>1, <2>2 DEF Stack!Send, ClientReply
  <2> QED BY <2>1, <2>2, <2>3 DEF StackStep, StackInv, Stack!Next
<1>16. CASE Unwind
  <2>1. depth > 0 /\ depth' = depth - 1 /\ err' = err /\ err # "none"
    BY <1>0, <1>16 DEF Unwind, ThrowAgrees
  <2>2. NoValueYet' /\ Calls' = [Calls EXCEPT ![depth] = Stack!NoCall]
    BY <1>0, <1>16, <2>1, TopLeft DEF Unwind
  <2>3. ThrowAgrees' /\ Answering' = Answering
    BY <1>0, <1>16 DEF Unwind, ThrowAgrees, Answering
  <2>4. Stack!Unwind
    BY <2>1, <2>2, <2>3 DEF Stack!Unwind
  <2> QED BY <2>2, <2>3, <2>4 DEF StackStep, StackInv, Stack!Next
<1>17. CASE ErrorReply
  <2>1. NoValueYet' /\ Calls' = Calls
    BY <1>0, <1>17, FramesKept DEF ErrorReply
  <2>2. ThrowAgrees' /\ Answering' \in {err, "EMSGTOOLONG"} /\ err # "none"
    BY <1>0, <1>17 DEF ErrorReply, Perceived, ThrowAgrees, Answering
  <2>3. Stack!Report
    BY <1>17, <2>1, <2>2 DEF Stack!Report, ErrorReply
  <2> QED BY <2>1, <2>2, <2>3 DEF StackStep, StackInv, Stack!Next
<1>18. ASSUME NEW i \in Levels, Elapse(i) PROVE StackStep
  <2> DEFINE f == [frames[i] EXCEPT !.expired = TRUE]
  <2>1. frames[i] \in Invocation
    BY <1>0, <1>18 DEF Elapse, TypeOK, Levels
  <2>2. /\ f.worker = frames[i].worker /\ f.value = frames[i].value
        /\ f.action = frames[i].action
    BY <2>1 DEF Invocation
  <2>3. frames' = [frames EXCEPT ![i] = f] /\ depth' = depth
    BY <1>18 DEF Elapse
  <2> HIDE DEF f
  <2>4. \A j \in Levels : /\ frames'[j].worker = frames[j].worker
                          /\ frames'[j].value = frames[j].value
                          /\ frames'[j].action = frames[j].action
    BY <1>0, <2>2, <2>3 DEF TypeOK
  <2>5. NoValueYet'
    BY <1>0, <2>3, <2>4 DEF NoValueYet
  <2>6. \A j \in Levels : Entry(j)' = Entry(j)
    BY <2>4 DEF Entry
  <2>7. Calls' = Calls
    BY <2>3, <2>6, CallsKept
  <2>8. ThrowAgrees' /\ Answering' = Answering /\ err' = err
    BY <1>0, <1>18 DEF Elapse, ThrowAgrees, Answering
  <2> QED BY <1>0, <2>3, <2>5, <2>7, <2>8, Unseen
<1>19. CASE \E a \in Name : ActionCreate(a) \/ ActionDelete(a) \/ Revoke(a)
  BY <1>1, <1>19 DEF ActionCreate, ActionDelete, Revoke
<1>20. CASE UNCHANGED vars
  BY <1>1, <1>20 DEF vars
<1> QED
  BY <1>2, <1>3, <1>4, <1>5, <1>6, <1>7, <1>8, <1>9, <1>10, <1>11, <1>12,
     <1>13, <1>14, <1>15, <1>16, <1>17, <1>18, <1>19, <1>20
  DEF Next, ManagerStep, WorkerStep, ClientStep, Environment

(* The initial states are those of the stack.                              *)
LEMMA InitStack == Init => StackInv /\ Stack!Init
<1> SUFFICES ASSUME Init PROVE StackInv /\ Stack!Init
    OBVIOUS
<1>1. \A i \in Levels : ~(i <= depth)
  BY MaxDepthAssumption DEF Init, Levels
<1>2. Calls = [i \in 1..MaxDepth |-> Stack!NoCall]
  BY <1>1 DEF Calls, Levels, Stack!NoCall
<1>3. StackInv
  BY <1>1 DEF Init, StackInv, ThrowAgrees, NoValueYet
<1> QED BY <1>2, <1>3 DEF Init, Stack!Init, Answering

(* The engine implements the stack of calls: to its callers, nesting is    *)
(* that of function calls, and an error ends everything before it is told. *)
THEOREM ImplementsStack == Spec => CallStackSpec
<1>1. IInv /\ StackInv /\ [Next]_vars
        => StackInv' /\ [Stack!Next]_(Stack!vars)
  BY NextStackStep DEF StackStep
<1> QED
  BY <1>1, InitStack, Inductive, PTL DEF Spec, CallStackSpec, Stack!Spec
=============================================================================
