--------------------------- MODULE CapAllocProofs ---------------------------
(***************************************************************************)
(* Proofs about CapAlloc, for any number of threads, handles and slots, as *)
(* long as the counter can count the handles.                              *)
(***************************************************************************)
EXTENDS CapAlloc, FiniteSetTheorems, TLAPS

(* No counter overflows.                                                   *)
FewHandles == Cardinality(Handle) <= MaxCount

Emptying(o) == o.at \in {"unmap", "clear"}

(* What operation o of a thread may rely on.                               *)
OpOK(o) ==
  /\ o.at \in {"idle", "unmap", "clear"} => o.handle = NoHandle
  /\ o.at # "take" => o.source = NoHandle
  /\ o.at \in {"alloc", "take"} =>
       o.handle \in Handle /\ held[o.handle] = NoSlot
  /\ o.at \in {"set_last", "release", "free"} =>
       o.handle \in Handle /\ held[o.handle] = o.slot
  /\ o.at = "take" => o.source \in Handle /\ held[o.source] = o.slot
  /\ o.at \in {"release", "free"} => ~NothingToRelease(o.current)
  /\ o.at = "free" => \A g \in Handle : held[g] = o.slot => g = o.handle
  /\ Emptying(o) => items[o.slot] = BusyItem
  /\ o.at = "clear" => o.slot \notin filled

(* Threads work on different handles, and nobody gives a handle up that    *)
(* another one copies.                                                     *)
Apart(o, p) == /\ o.handle # NoHandle => p.handle # o.handle /\ p.source # o.handle
               /\ p.handle # NoHandle => o.source # p.handle
               /\ Emptying(o) /\ Emptying(p) => o.slot # p.slot

CInv ==
  /\ TypeOK
  /\ \A t \in Thread : OpOK(thread[t])
  /\ \A t, u \in Thread : t # u => Apart(thread[t], thread[u])
  /\ RefCounted
  /\ \A s \in Slot : items[s].count > 0 => items[s].used
  /\ FreeIsEmpty

(* The initial state satisfies the invariant.                              *)
LEMMA InitCInv == Init => CInv
<1> SUFFICES ASSUME Init PROVE CInv
    OBVIOUS
<1> USE CapacityAssumption, MaxCountAssumption, HandleAssumption
<1>1. 0 \in Slot
  BY DEF Slot
<1>2. TypeOK
  BY <1>1 DEF Init, TypeOK, Item, FreeItem, Op, Idle
<1>3. RefCounted
  <2>1. \A s \in Slot : Holders(s) = {}
    BY DEF Init, Holders
  <2> QED BY <2>1, FS_EmptySet DEF Init, RefCounted, FreeItem
<1>4. /\ \A t \in Thread : OpOK(thread[t])
      /\ \A t, u \in Thread : t # u => Apart(thread[t], thread[u])
  BY DEF Init, OpOK, Apart, Emptying, Idle
<1>5. \A s \in Slot : items[s].count > 0 => items[s].used
  BY DEF Init, FreeItem
<1>6. FreeIsEmpty
  BY DEF Init, FreeIsEmpty
<1> QED BY <1>2, <1>3, <1>4, <1>5, <1>6 DEF CInv

(* The counter of a slot that is referred to is positive, and the other    *)
(* way round.                                                              *)
LEMMA Counted ==
  ASSUME TypeOK, RefCounted, NEW s \in Slot
  PROVE  /\ items[s].count > 0 <=> \E h \in Handle : held[h] = s
         /\ IsFiniteSet(Holders(s))
         /\ Cardinality(Holders(s)) \in Nat
<1>1. IsFiniteSet(Holders(s))
  BY HandleAssumption, FS_Subset DEF Holders
<1>2. Cardinality(Holders(s)) \in Nat
  BY <1>1, FS_CardinalityType
<1>3. Cardinality(Holders(s)) = 0 <=> Holders(s) = {}
  BY <1>1, FS_EmptySet
<1> QED BY <1>1, <1>2, <1>3 DEF RefCounted, Holders

(* A step of one thread that leaves the items, the handles and the kernel  *)
(* alone.                                                                  *)
LEMMA PrivateStep ==
  ASSUME CInv, NEW t \in Thread, NEW o \in Op,
         UNCHANGED <<items, held, filled>>,
         thread' = [thread EXCEPT ![t] = o],
         last' \in Slot,
         freeSince' \in [Thread -> SUBSET Slot],
         OpOK(o),
         \A u \in Thread : u # t => Apart(thread[u], o),
         o.at \in {"alloc", "set_last", "take", "release", "free"}
           => o.handle \in Handle
  PROVE  CInv'
<1>1. /\ TypeOK /\ thread \in [Thread -> Op]
      /\ \A u \in Thread : OpOK(thread[u])
      /\ \A u, v \in Thread : u # v => Apart(thread[u], thread[v])
  BY DEF CInv, TypeOK
<1>2. /\ thread'[t] = o
      /\ \A u \in Thread : u # t => thread'[u] = thread[u]
  BY <1>1
<1>3. TypeOK'
  BY <1>1, <1>2 DEF TypeOK
<1>4. \A u \in Thread : OpOK(thread[u])'
  BY <1>1, <1>2 DEF OpOK
<1>5. \A u, v \in Thread : u # v => Apart(thread[u], thread[v])'
  BY <1>1, <1>2 DEF Apart
<1>6. RefCounted' /\ FreeIsEmpty'
      /\ \A s \in Slot : items'[s].count > 0 => items'[s].used
  BY DEF CInv, RefCounted, Holders, FreeIsEmpty
<1> QED BY <1>3, <1>4, <1>5, <1>6 DEF CInv

(* No other thread is about to free slot s without counting.               *)
NobodyFrees(t, s) ==
  \A u \in Thread : u # t /\ thread[u].at = "free" => thread[u].slot # s

(* Operation o is over, or has only _last to set.                          *)
Gained(o, h, s) ==
  /\ o.at \in {"idle", "set_last"} /\ o.source = NoHandle
  /\ o.at = "idle" => o.handle = NoHandle
  /\ o.at = "set_last" => o.handle = h /\ o.slot = s

(* A handle comes to refer to slot s, whose counter is incremented.        *)
LEMMA GainStep ==
  ASSUME CInv, NEW t \in Thread, NEW s \in Slot, NEW v \in Item, NEW o \in Op,
         NEW h \in Handle, h = thread[t].handle, held[h] = NoSlot,
         items' = [items EXCEPT ![s] = v],
         held' = [held EXCEPT ![h] = s],
         thread' = [thread EXCEPT ![t] = o],
         UNCHANGED <<last, filled>>,
         freeSince' \in [Thread -> SUBSET Slot],
         v.used, v.count = items[s].count + 1,
         items[s] # BusyItem,
         NobodyFrees(t, s), Gained(o, h, s)
  PROVE  CInv'
<1> USE CapacityAssumption, HandleAssumption
<1>1. /\ TypeOK /\ thread \in [Thread -> Op]
      /\ held \in [Handle -> Slot \cup {NoSlot}]
      /\ items \in [Slot -> Item]
      /\ \A u \in Thread : OpOK(thread[u])
      /\ \A u, w \in Thread : u # w => Apart(thread[u], thread[w])
      /\ RefCounted
  BY DEF CInv, TypeOK
<1>2. /\ thread'[t] = o
      /\ \A u \in Thread : u # t => thread'[u] = thread[u]
      /\ held'[h] = s
      /\ \A g \in Handle : g # h => held'[g] = held[g]
      /\ items'[s] = v
      /\ \A r \in Slot : r # s => items'[r] = items[r]
  BY <1>1
<1>3. TypeOK'
  BY <1>1, <1>2 DEF TypeOK, Gained
<1>4. ASSUME NEW u \in Thread PROVE OpOK(thread[u])'
  <2>1. CASE u = t
    BY <1>2, <2>1 DEF OpOK, Gained, Emptying
  <2>2. CASE u # t
    <3>1. /\ OpOK(thread[u]) /\ thread'[u] = thread[u]
          /\ thread[u].handle # h /\ thread[u].source # h
          /\ thread[u].handle \in Handle \cup {NoHandle}
          /\ thread[u].slot \in Slot
      BY <1>1, <1>2, <2>2 DEF Apart, Op
    <3>2. Emptying(thread[u]) => thread[u].slot # s
      BY <3>1 DEF OpOK
    <3> QED BY <1>2, <2>2, <3>1, <3>2 DEF OpOK, NobodyFrees
  <2> QED BY <2>1, <2>2
<1>5. \A u, w \in Thread : u # w => Apart(thread[u], thread[w])'
  BY <1>1, <1>2 DEF Apart, Emptying, Gained
<1>6. RefCounted'
  <2>1. ASSUME NEW r \in Slot, r # s PROVE items'[r].count = Cardinality(Holders(r)')
    <3>1. Holders(r)' = Holders(r)
      BY <1>2, <2>1 DEF Holders
    <3> QED BY <1>1, <1>2, <2>1, <3>1 DEF RefCounted
  <2>2. items'[s].count = Cardinality(Holders(s)')
    <3>1. Holders(s)' = Holders(s) \cup {h} /\ h \notin Holders(s)
      BY <1>2 DEF Holders
    <3>2. IsFiniteSet(Holders(s))
      BY <1>1, Counted
    <3>3. Cardinality(Holders(s) \cup {h}) = Cardinality(Holders(s)) + 1
      BY ONLY <3>1, <3>2, FS_AddElement
    <3> QED BY <1>1, <1>2, <3>1, <3>3 DEF RefCounted
  <2> QED BY <2>1, <2>2 DEF RefCounted
<1>7. /\ \A r \in Slot : items'[r].count > 0 => items'[r].used
      /\ FreeIsEmpty'
  BY <1>2 DEF CInv, FreeIsEmpty, FreeItem
<1> QED BY <1>3, <1>4, <1>5, <1>6, <1>7 DEF CInv

(* A handle is given up, and the counter of its slot is decremented; the   *)
(* thread empties the slot if and only if this was the last handle.        *)
LEMMA DropStep ==
  ASSUME CInv, NEW t \in Thread, NEW s \in Slot, NEW v \in Item, NEW o \in Op,
         NEW h \in Handle, h = thread[t].handle, held[h] = s,
         items' = [items EXCEPT ![s] = v],
         held' = [held EXCEPT ![h] = NoSlot],
         thread' = [thread EXCEPT ![t] = o],
         UNCHANGED <<last, filled>>,
         freeSince' \in [Thread -> SUBSET Slot],
         v.used, v.count = items[s].count - 1,
         o.handle = NoHandle, o.source = NoHandle, o.slot = s,
         o.at = IF v.count = 0 THEN "unmap" ELSE "idle"
  PROVE  CInv'
<1> USE CapacityAssumption, HandleAssumption
<1>1. /\ TypeOK /\ thread \in [Thread -> Op]
      /\ held \in [Handle -> Slot \cup {NoSlot}]
      /\ items \in [Slot -> Item]
      /\ \A u \in Thread : OpOK(thread[u])
      /\ \A u, w \in Thread : u # w => Apart(thread[u], thread[w])
      /\ RefCounted
  BY DEF CInv, TypeOK
<1>2. /\ thread'[t] = o
      /\ \A u \in Thread : u # t => thread'[u] = thread[u]
      /\ held'[h] = NoSlot
      /\ \A g \in Handle : g # h => held'[g] = held[g]
      /\ items'[s] = v
      /\ \A r \in Slot : r # s => items'[r] = items[r]
  BY <1>1
<1>3. TypeOK'
  BY <1>1, <1>2 DEF TypeOK
<1>4. items[s].count > 0
  BY <1>1, Counted
<1>5. \A u \in Thread : Emptying(thread[u]) => thread[u].slot # s
  BY <1>1, <1>4 DEF OpOK, BusyItem
<1>6. ASSUME NEW u \in Thread PROVE OpOK(thread[u])'
  <2>1. CASE u = t
    BY <1>2, <2>1 DEF OpOK, Emptying, BusyItem, Item
  <2>2. CASE u # t
    <3>1. /\ OpOK(thread[u]) /\ thread'[u] = thread[u]
          /\ thread[u].handle # h /\ thread[u].source # h
          /\ thread[u].handle \in Handle \cup {NoHandle}
          /\ thread[u].slot \in Slot
      BY <1>1, <1>2, <2>2 DEF Apart, Op
    <3> QED BY <1>2, <1>5, <2>2, <3>1 DEF OpOK
  <2> QED BY <2>1, <2>2
<1>7. \A u, w \in Thread : u # w => Apart(thread[u], thread[w])'
  BY <1>1, <1>2, <1>5 DEF Apart, Emptying
<1>8. RefCounted'
  <2>1. ASSUME NEW r \in Slot, r # s PROVE items'[r].count = Cardinality(Holders(r)')
    <3>1. Holders(r)' = Holders(r)
      BY <1>2, <2>1 DEF Holders
    <3> QED BY <1>1, <1>2, <2>1, <3>1 DEF RefCounted
  <2>2. items'[s].count = Cardinality(Holders(s)')
    <3>1. Holders(s)' = Holders(s) \ {h} /\ h \in Holders(s)
      BY <1>2 DEF Holders
    <3>2. IsFiniteSet(Holders(s))
      BY <1>1, Counted
    <3>3. Cardinality(Holders(s) \ {h}) = Cardinality(Holders(s)) - 1
      BY ONLY <3>1, <3>2, FS_RemoveElement
    <3> QED BY <1>1, <1>2, <3>1, <3>3 DEF RefCounted
  <2> QED BY <2>1, <2>2 DEF RefCounted
<1>9. /\ \A r \in Slot : items'[r].count > 0 => items'[r].used
      /\ FreeIsEmpty'
  BY <1>2 DEF CInv, FreeIsEmpty, FreeItem
<1> QED BY <1>3, <1>6, <1>7, <1>8, <1>9 DEF CInv

(* The operations that begin.                                              *)
LEMMA BeginCInv ==
  ASSUME CInv, NEW t \in Thread, NEW h \in Handle, Begin(t, h)
  PROVE  CInv'
<1> USE CapacityAssumption, HandleAssumption
<1>0. /\ TypeOK /\ RefCounted
      /\ thread \in [Thread -> Op] /\ thread[t] \in Op
      /\ \A u \in Thread : OpOK(thread[u]) /\ thread[u] \in Op
      /\ \A u, w \in Thread : u # w => Apart(thread[u], thread[w])
      /\ items \in [Slot -> Item] /\ last \in Slot
      /\ freeSince \in [Thread -> SUBSET Slot]
      /\ held \in [Handle -> Slot \cup {NoSlot}]
      /\ Idle \in Op /\ 0 \in Slot
  <2>1. 0 \in Slot
    BY DEF Slot
  <2>2. Idle \in Op
    BY <2>1, MaxCountAssumption DEF Idle, Op, Item, FreeItem
  <2> QED BY <2>1, <2>2 DEF CInv, TypeOK
<1>1. CASE AllocBegin(t, h)
  <2> DEFINE o == [Idle EXCEPT !.at = "alloc", !.handle = h, !.start = last,
                               !.slot = (last + 1) % Capacity]
  <2>1. (last + 1) % Capacity \in Slot
    BY <1>0 DEF Slot
  <2>2. o \in Op /\ o.at = "alloc" /\ o.handle = h /\ o.source = NoHandle
    BY <1>0, <2>1 DEF Idle, Op
  <2>3. /\ thread' = [thread EXCEPT ![t] = o]
        /\ UNCHANGED <<items, held, filled, last>>
        /\ freeSince' \in [Thread -> SUBSET Slot]
        /\ held[h] = NoSlot /\ Ready(h)
    BY <1>0, <1>1 DEF AllocBegin
  <2> HIDE DEF o
  <2>4. OpOK(o)
    BY <2>2, <2>3 DEF OpOK, Emptying
  <2>5. \A u \in Thread : u # t => Apart(thread[u], o)
    BY <1>0, <2>2, <2>3 DEF Apart, Ready, Emptying
  <2> QED BY <1>0, <2>2, <2>3, <2>4, <2>5, PrivateStep
<1>2. ASSUME NEW g \in Handle, TakeBegin(t, h, g) PROVE CInv'
  <2> DEFINE o == [Idle EXCEPT !.at = "take", !.handle = h, !.source = g,
                               !.slot = held[g], !.current = items[held[g]]]
  <2>1. held[g] \in Slot /\ g # h
    BY <1>0, <1>2 DEF TakeBegin
  <2>2. /\ o \in Op /\ o.at = "take" /\ o.handle = h /\ o.source = g
        /\ o.slot = held[g]
    BY <1>0, <2>1 DEF Idle, Op
  <2>3. /\ thread' = [thread EXCEPT ![t] = o]
        /\ UNCHANGED <<items, held, filled, last, freeSince>>
        /\ held[h] = NoSlot /\ Ready(h)
        /\ \A u \in Thread : thread[u].handle # g
    BY <1>2 DEF TakeBegin
  <2> HIDE DEF o
  <2>4. OpOK(o)
    BY <2>1, <2>2, <2>3 DEF OpOK, Emptying
  <2>5. \A u \in Thread : u # t => Apart(thread[u], o)
    BY <1>0, <2>2, <2>3 DEF Apart, Ready, Emptying
  <2> QED BY <1>0, <2>2, <2>3, <2>4, <2>5, PrivateStep
<1>3. CASE ReleaseBegin(t, h) \/ FreeBegin(t, h)
  <2>1. PICK op \in {"release", "free"} :
          /\ GiveUp(t, h, op)
          /\ op = "free" => \A g \in Handle \ {h} : held[g] # held[h]
    BY <1>3 DEF ReleaseBegin, FreeBegin
  <2> DEFINE o == [Idle EXCEPT !.at = op, !.handle = h, !.slot = held[h],
                               !.current = items[held[h]]]
  <2>2. held[h] \in Slot
    BY <1>0, <2>1 DEF GiveUp
  <2>3. /\ o \in Op /\ o.at = op /\ o.handle = h /\ o.source = NoHandle
        /\ o.slot = held[h] /\ o.current = items[held[h]]
    BY <1>0, <2>2 DEF Idle, Op
  <2>4. /\ thread' = [thread EXCEPT ![t] = o]
        /\ UNCHANGED <<items, held, filled, last, freeSince>>
        /\ Ready(h)
    BY <2>1 DEF GiveUp
  <2> HIDE DEF o
  <2>5. ~NothingToRelease(items[held[h]])
    <3>1. items[held[h]].count > 0
      BY <1>0, <2>2, Counted
    <3> QED BY <2>2, <3>1 DEF NothingToRelease, CInv
  <2>6. OpOK(o)
    BY <2>1, <2>2, <2>3, <2>5 DEF OpOK, Emptying
  <2>7. \A u \in Thread : u # t => Apart(thread[u], o)
    BY <1>0, <2>3, <2>4 DEF Apart, Ready, Emptying
  <2> QED BY <1>0, <2>3, <2>4, <2>6, <2>7, PrivateStep
<1> QED BY <1>1, <1>2, <1>3 DEF Begin

(* A thread goes on with its operation.                                    *)
LEMMA ContinueCInv ==
  ASSUME CInv, FewHandles, NEW t \in Thread, Continue(t)
  PROVE  CInv'
<1> USE CapacityAssumption, HandleAssumption
<1> DEFINE o == thread[t]
<1> DEFINE s == o.slot
<1>0. /\ TypeOK /\ RefCounted /\ FreeIsEmpty
      /\ thread \in [Thread -> Op] /\ o \in Op
      /\ \A u \in Thread : OpOK(thread[u]) /\ thread[u] \in Op
      /\ \A u, w \in Thread : u # w => Apart(thread[u], thread[w])
      /\ items \in [Slot -> Item] /\ last \in Slot /\ s \in Slot
      /\ items[s] \in Item /\ o.current \in Item /\ MaxCount \in Nat
      /\ freeSince \in [Thread -> SUBSET Slot]
      /\ held \in [Handle -> Slot \cup {NoSlot}]
      /\ \A r \in Slot : items[r].count > 0 => items[r].used
  BY MaxCountAssumption DEF CInv, TypeOK, Op
<1>i. Idle \in Op
  BY <1>0, MaxCountAssumption DEF Idle, Op, Item, FreeItem, Slot
<1>idle. ASSUME NEW p \in Op, p.at = "idle", p.handle = NoHandle,
                p.source = NoHandle
         PROVE  OpOK(p) /\ \A u \in Thread : Apart(thread[u], p)
  BY <1>idle DEF OpOK, Apart, Emptying
<1>h. o.at \in {"alloc", "set_last", "take", "release", "free"}
        => /\ o.handle \in Handle
           /\ \A u \in Thread : u # t => thread[u].handle # o.handle
  BY <1>0 DEF OpOK, Apart
<1>few. ASSUME NEW h \in Handle, held[h] # s
        PROVE  items[s].count < MaxCount
  <2>1. IsFiniteSet(Holders(s)) /\ Cardinality(Holders(s)) \in Nat
    BY <1>0, Counted
  <2>2. h \notin Holders(s) /\ Holders(s) \cup {h} \subseteq Handle
    BY <1>few DEF Holders
  <2>3. Cardinality(Holders(s) \cup {h}) = Cardinality(Holders(s)) + 1
    BY ONLY <2>1, <2>2, FS_AddElement
  <2>4. /\ Cardinality(Holders(s) \cup {h}) <= Cardinality(Handle)
        /\ Cardinality(Handle) \in Nat
    BY <2>2, FS_Subset, FS_CardinalityType
  <2> QED BY <1>0, <2>1, <2>3, <2>4 DEF FewHandles, RefCounted
<1>1. CASE AllocTake(t)
  <2> DEFINE h == o.handle
  <2> DEFINE p == [o EXCEPT !.at = "set_last"]
  <2>1. /\ o.at = "alloc" /\ items[s] = FreeItem
        /\ items' = [items EXCEPT ![s] = NewItem]
        /\ held' = [held EXCEPT ![h] = s]
        /\ thread' = [thread EXCEPT ![t] = p]
        /\ UNCHANGED <<last, filled>>
    BY <1>0, <1>1 DEF AllocTake, SetItem
  <2>2. freeSince' \in [Thread -> SUBSET Slot]
    BY <1>0, <1>1 DEF AllocTake, SetItem
  <2>3. h \in Handle /\ held[h] = NoSlot /\ o.source = NoHandle
    BY <1>0, <2>1 DEF OpOK
  <2>4. /\ p \in Op /\ p.at = "set_last" /\ p.handle = h /\ p.slot = s
        /\ p.source = NoHandle
    BY <1>0, <2>3 DEF Op
  <2>5. /\ NewItem \in Item /\ NewItem.used /\ NewItem.count = items[s].count + 1
        /\ items[s] # BusyItem
    BY <2>1, MaxCountAssumption DEF NewItem, FreeItem, BusyItem, Item
  <2>6. NobodyFrees(t, s)
    <3> SUFFICES ASSUME NEW u \in Thread, thread[u].at = "free", thread[u].slot = s
                 PROVE  FALSE
        BY DEF NobodyFrees
    <3>1. \E g \in Handle : held[g] = s
      BY <1>0 DEF OpOK
    <3> QED BY <1>0, <2>1, <3>1, Counted DEF FreeItem
  <2>7. h = thread[t].handle
    OBVIOUS
  <2>8. Gained(p, h, s)
    BY <2>4 DEF Gained
  <2> HIDE DEF p, h, s, o
  <2> QED BY <1>0, <2>8, <2>1, <2>2, <2>3, <2>4, <2>5, <2>6, <2>7, GainStep
<1>2. CASE AllocSkip(t)
  <2> DEFINE p == [o EXCEPT !.slot = (s + 1) % Capacity]
  <2>1. /\ o.at = "alloc" /\ thread' = [thread EXCEPT ![t] = p]
        /\ UNCHANGED <<items, last, held, filled, freeSince>>
    BY <1>0, <1>2 DEF AllocSkip
  <2>2. (s + 1) % Capacity \in Slot
    BY <1>0 DEF Slot
  <2>3. /\ p \in Op /\ p.at = "alloc" /\ p.handle = o.handle
        /\ p.source = o.source
    BY <1>0, <2>1, <2>2 DEF Op
  <2>4. OpOK(p)
    BY <1>0, <2>1, <2>3 DEF OpOK, Emptying
  <2>5. \A u \in Thread : u # t => Apart(thread[u], p)
    BY <1>0, <2>1, <2>3 DEF Apart, Emptying
  <2> HIDE DEF p
  <2> QED BY <1>0, <1>h, <2>1, <2>3, <2>4, <2>5, PrivateStep
<1>3. CASE AllocSetLast(t) \/ AllocFails(t)
  <2>1. /\ thread' = [thread EXCEPT ![t] = Idle] /\ last' \in Slot
        /\ UNCHANGED <<items, held, filled, freeSince>>
    BY <1>0, <1>3 DEF AllocSetLast, AllocFails
  <2>2. OpOK(Idle) /\ \A u \in Thread : Apart(thread[u], Idle)
    BY <1>i, <1>idle DEF Idle
  <2> QED BY <1>0, <1>i, <2>1, <2>2, PrivateStep DEF Idle
<1>4. CASE TakeCas(t)
  <2> DEFINE h == o.handle
  <2>1. /\ o.at = "take" /\ items[s] = o.current
        /\ items' = [items EXCEPT ![s] = Incremented(items[s])]
        /\ held' = [held EXCEPT ![h] = s]
        /\ thread' = [thread EXCEPT ![t] = Idle]
        /\ UNCHANGED <<last, filled>>
    BY <1>0, <1>4 DEF TakeCas, SetItem, Matches
  <2>2. freeSince' \in [Thread -> SUBSET Slot]
    BY <1>0, <1>4 DEF TakeCas, SetItem
  <2>3. /\ h \in Handle /\ held[h] = NoSlot
        /\ o.source \in Handle /\ held[o.source] = s
    BY <1>0, <2>1 DEF OpOK
  <2>4. items[s].count > 0 /\ items[s].count < MaxCount
    BY <1>0, <1>few, <2>3, Counted
  <2>5. /\ Incremented(items[s]) \in Item /\ Incremented(items[s]).used
        /\ Incremented(items[s]).count = items[s].count + 1
        /\ items[s] # BusyItem
    BY <1>0, <2>4 DEF Incremented, Item, BusyItem
  <2>6. NobodyFrees(t, s)
    BY <1>0, <2>3 DEF OpOK, Apart, NobodyFrees
  <2>7. h = thread[t].handle /\ s \in Slot
    BY <1>0
  <2>8. items[s] # BusyItem
    BY <2>5
  <2> DEFINE v == Incremented(items[s])
  <2>9. /\ v \in Item /\ v.used /\ v.count = items[s].count + 1
        /\ items' = [items EXCEPT ![s] = v]
    BY <2>1, <2>5
  <2>10. Gained(Idle, h, s)
    BY DEF Idle, Gained
  <2> HIDE DEF v, h, s, o
  <2> QED BY <1>i, <2>10, <2>1, <2>2, <2>3, <2>6, <2>7, <2>8, <2>9, GainStep
<1>5. CASE CasFails(t)
  <2> DEFINE p == [o EXCEPT !.current = items[s]]
  <2>1. /\ o.at \in {"take", "release", "free"}
        /\ thread' = [thread EXCEPT ![t] = p]
        /\ UNCHANGED <<items, last, held, filled, freeSince>>
    BY <1>0, <1>5 DEF CasFails
  <2>2. /\ p \in Op /\ p.at = o.at /\ p.handle = o.handle
        /\ p.source = o.source /\ p.slot = s /\ p.current = items[s]
    BY <1>0 DEF Op
  <2>3. o.at \in {"release", "free"} => ~NothingToRelease(items[s])
    <3> HAVE o.at \in {"release", "free"}
    <3>1. items[s].count > 0
      BY <1>0, Counted DEF OpOK
    <3> QED BY <1>0, <3>1 DEF NothingToRelease
  <2>4. OpOK(p)
    BY <1>0, <2>1, <2>2, <2>3 DEF OpOK, Emptying
  <2>5. \A u \in Thread : u # t => Apart(thread[u], p)
    BY <1>0, <2>1, <2>2 DEF Apart, Emptying
  <2> HIDE DEF p
  <2> QED BY <1>0, <1>h, <2>1, <2>2, <2>4, <2>5, PrivateStep
<1>6. CASE ReleaseCas(t) \/ FreeCas(t)
  <2> DEFINE h == o.handle
  <2> DEFINE v == Decremented(items[s])
  <2> DEFINE p == [Idle EXCEPT !.at = IF v.count = 0 THEN "unmap" ELSE "idle",
                               !.slot = s]
  <2>1. /\ o.at \in {"release", "free"} /\ items[s] = o.current
        /\ items[s].used /\ items[s].count \in Nat \ {0}
    BY <1>0, <1>6 DEF Item, ReleaseCas, FreeCas, Matches, NothingToRelease
  <2>2. h \in Handle /\ held[h] = s
    BY <1>0, <2>1 DEF OpOK
  <2>3. v \in Item /\ v.used /\ v.count = items[s].count - 1
    BY <1>0, <2>1 DEF Item, Decremented
  <2>4. FreeCas(t) => items[s].count = 1
    <3> HAVE FreeCas(t)
    <3>1. Holders(s) = {h}
      BY <1>0, <2>2 DEF FreeCas, OpOK, Holders
    <3> QED BY <1>0, <3>1, FS_Singleton DEF RefCounted
  <2>5. /\ held' = [held EXCEPT ![h] = NoSlot]
        /\ UNCHANGED <<last, filled>>
    BY <1>6 DEF ReleaseCas, FreeCas, GivenUp
  <2>6. items' = [items EXCEPT ![s] = v]
    <3>1. CASE ReleaseCas(t)
      <4>1. Decremented(items[s]) = v
        BY <2>1 DEF Decremented
      <4> QED BY <2>1, <3>1, <4>1 DEF ReleaseCas, SetItem
    <3>2. CASE FreeCas(t)
      <4>1. items[s].count - 1 = 0
        BY <2>4, <3>2
      <4>3. v = BusyItem
        BY <2>1, <4>1 DEF BusyItem, Decremented
      <4>2. items' = [items EXCEPT ![s] = BusyItem]
        BY <3>2 DEF FreeCas, SetItem
      <4> QED BY <4>2, <4>3
    <3> QED BY <1>6, <3>1, <3>2
  <2>7. freeSince' \in [Thread -> SUBSET Slot]
    BY <1>0, <1>6 DEF ReleaseCas, FreeCas, SetItem
  <2>8. thread' = [thread EXCEPT ![t] = p]
    <3>1. v.count = 0 <=> items[s].count = 1
      BY <2>1 DEF Decremented
    <3> QED BY <1>6, <2>1, <2>4, <3>1 DEF ReleaseCas, FreeCas, GivenUp
  <2>9. /\ p \in Op /\ p.handle = NoHandle /\ p.source = NoHandle
        /\ p.slot = s /\ p.at = IF v.count = 0 THEN "unmap" ELSE "idle"
    BY <1>0, <1>i DEF Idle, Op
  <2> HIDE DEF o, v, p
  <2> QED BY <1>0, <2>2, <2>3, <2>5, <2>6, <2>7, <2>8, <2>9, DropStep DEF o
<1>7. CASE Unmap(t)
  <2> DEFINE p == [o EXCEPT !.at = "clear"]
  <2>1. /\ o.at = "unmap" /\ filled' = filled \ {s}
        /\ thread' = [thread EXCEPT ![t] = p]
        /\ UNCHANGED <<items, last, held, freeSince>>
    BY <1>0, <1>7 DEF Unmap
  <2>2. /\ p \in Op /\ p.at = "clear" /\ p.handle = o.handle
        /\ p.source = o.source /\ p.slot = s
    BY <1>0 DEF Op
  <2> HIDE DEF o, p
  <2>3. /\ thread'[t] = p
        /\ \A u \in Thread : u # t => thread'[u] = thread[u]
    BY <1>0, <2>1
  <2>4. TypeOK'
    BY <1>0, <2>1, <2>2, <2>3 DEF TypeOK
  <2>5. \A u \in Thread : OpOK(thread[u])'
    BY <1>0, <2>1, <2>2, <2>3 DEF OpOK, Emptying, o
  <2>6. \A u, w \in Thread : u # w => Apart(thread[u], thread[w])'
    BY <1>0, <2>1, <2>2, <2>3 DEF Apart, Emptying, o
  <2>7. RefCounted' /\ FreeIsEmpty'
    BY <1>0, <2>1 DEF RefCounted, Holders, FreeIsEmpty
  <2> QED BY <1>0, <2>1, <2>4, <2>5, <2>6, <2>7 DEF CInv
<1>8. CASE Clear(t)
  <2>1. /\ o.at = "clear" /\ items' = [items EXCEPT ![s] = FreeItem]
        /\ thread' = [thread EXCEPT ![t] = Idle]
        /\ UNCHANGED <<last, held, filled>>
    BY <1>0, <1>8 DEF Clear, SetItem
  <2>2. freeSince' \in [Thread -> SUBSET Slot]
    BY <1>0, <1>8 DEF Clear, SetItem
  <2>3. items[s] = BusyItem /\ s \notin filled
    BY <1>0, <2>1 DEF OpOK, Emptying
  <2> HIDE DEF o
  <2>4. /\ thread'[t] = Idle /\ items'[s] = FreeItem
        /\ \A u \in Thread : u # t => thread'[u] = thread[u]
        /\ \A r \in Slot : r # s => items'[r] = items[r]
    BY <1>0, <2>1
  <2>5. TypeOK'
    <3>1. FreeItem \in Item
      BY MaxCountAssumption DEF FreeItem, Item
    <3> QED BY <1>0, <1>i, <2>1, <2>2, <3>1 DEF TypeOK, Idle
  <2>6. ASSUME NEW u \in Thread PROVE OpOK(thread[u])'
    <3>1. CASE u = t
      BY <2>4, <3>1 DEF OpOK, Emptying, Idle
    <3>2. CASE u # t
      <4>1. /\ OpOK(thread[u]) /\ thread'[u] = thread[u] /\ thread[u].slot \in Slot
            /\ Emptying(thread[u]) => thread[u].slot # s
        BY <1>0, <2>1, <2>4, <3>2 DEF Apart, Emptying, o, Op
      <4> QED BY <2>1, <2>4, <4>1 DEF OpOK
    <3> QED BY <3>1, <3>2
  <2>7. \A u, w \in Thread : u # w => Apart(thread[u], thread[w])'
    BY <1>0, <2>4 DEF Apart, Emptying, Idle
  <2>8. RefCounted'
    BY <1>0, <2>1, <2>3, <2>4 DEF RefCounted, Holders, FreeItem, BusyItem
  <2>9. /\ \A r \in Slot : items'[r].count > 0 => items'[r].used
        /\ FreeIsEmpty'
    BY <1>0, <2>1, <2>3, <2>4 DEF FreeItem, FreeIsEmpty
  <2> QED BY <2>5, <2>6, <2>7, <2>8, <2>9 DEF CInv
<1> QED BY <1>1, <1>2, <1>3, <1>4, <1>5, <1>6, <1>7, <1>8 DEF Continue

(* A capability is put into a slot that is referred to.                    *)
LEMMA FillCInv ==
  ASSUME CInv, NEW h \in Handle, Fill(h)
  PROVE  CInv'
<1> USE CapacityAssumption, HandleAssumption
<1> DEFINE s == held[h]
<1>0. /\ TypeOK /\ RefCounted
      /\ thread \in [Thread -> Op] /\ items \in [Slot -> Item]
      /\ \A u \in Thread : OpOK(thread[u])
      /\ s \in Slot /\ filled' = filled \cup {s}
      /\ UNCHANGED <<items, last, held, thread, freeSince>>
  BY DEF CInv, TypeOK, Fill
<1>1. items[s].count > 0
  BY <1>0, Counted
<1>2. \A u \in Thread : Emptying(thread[u]) => thread[u].slot # s
  BY <1>0, <1>1 DEF OpOK, BusyItem
<1>3. TypeOK'
  BY <1>0 DEF TypeOK
<1>4. \A u \in Thread : OpOK(thread[u])'
  BY <1>0, <1>2 DEF OpOK, Emptying
<1>5. RefCounted'
  BY <1>0 DEF RefCounted, Holders
<1>6. FreeIsEmpty'
  BY <1>0, <1>1 DEF CInv, FreeIsEmpty, FreeItem
<1> QED BY <1>0, <1>3, <1>4, <1>5, <1>6 DEF CInv, Apart

(* CInv is inductive.                                                      *)
LEMMA NextCInv ==
  ASSUME FewHandles, CInv, [Next]_vars
  PROVE  CInv'
<1>1. CASE Next
  BY <1>1, ContinueCInv, BeginCInv, FillCInv DEF Next
<1>2. CASE UNCHANGED vars
  <2>1. UNCHANGED <<items, last, held, filled, thread, freeSince>>
    BY <1>2 DEF vars
  <2> QED BY <2>1 DEF CInv, TypeOK, OpOK, Apart, RefCounted, Holders, FreeIsEmpty
<1> QED BY <1>1, <1>2

(* As long as no counter can overflow, the invariant holds always.         *)
THEOREM Inductive ==
  ASSUME FewHandles
  PROVE  Spec => []CInv
<1>1. FewHandles /\ CInv /\ [Next]_vars => CInv'
  BY NextCInv
<1> QED BY InitCInv, <1>1, PTL DEF Spec

(***************************************************************************)
(* The scan of alloc.  Nothing here depends on the counters: it holds also *)
(* if they overflow.                                                       *)
(***************************************************************************)

(* How far the scan that started behind slot a has come when it is at s.   *)
Rank(a, s) == IF s > a THEN s - a ELSE s - a + Capacity

(* A slot that has been free ever since the scan began is still ahead.     *)
Ahead(t) == thread[t].at = "alloc" =>
              \A s \in freeSince[t] :
                Rank(thread[t].start, thread[t].slot) <= Rank(thread[t].start, s)

ScanInv == /\ TypeOK
           /\ \A t \in Thread : \A s \in freeSince[t] : items[s] = FreeItem
           /\ \A t \in Thread : Ahead(t)

(* The index wraps around at the number of slots.                          *)
LEMMA NextIndex ==
  ASSUME NEW s \in Slot
  PROVE  (s + 1) % Capacity = IF s + 1 = Capacity THEN 0 ELSE s + 1
<1>1. s \in Nat /\ s < Capacity /\ Capacity \in Nat \ {0}
  BY CapacityAssumption DEF Slot
<1>2. ASSUME NEW c \in Nat \ {0}, s + 1 < c PROVE (s + 1) % c = s + 1
  BY <1>1, <1>2, Z3
<1>3. ASSUME NEW c \in Nat \ {0} PROVE c % c = 0
  BY <1>3, Z3
<1> QED BY <1>1, <1>2, <1>3

(* The scan goes from the slot behind its start, at rank 1, through all    *)
(* the others to its start, at rank Capacity.                              *)
LEMMA Ranks ==
  ASSUME NEW a \in Slot, NEW s \in Slot, NEW r \in Slot
  PROVE  /\ Rank(a, s) \in 1..Capacity
         /\ Rank(a, s) = Rank(a, r) => s = r
         /\ Rank(a, a) = Capacity
         /\ Rank(a, (a + 1) % Capacity) = 1
         /\ s # a => Rank(a, (s + 1) % Capacity) = Rank(a, s) + 1
         /\ (s + 1) % Capacity \in Slot
<1>1. /\ a \in Nat /\ a < Capacity /\ s \in Nat /\ s < Capacity
      /\ r \in Nat /\ r < Capacity /\ Capacity \in Nat \ {0}
  BY CapacityAssumption DEF Slot
<1>2. /\ Rank(a, s) \in 1..Capacity
      /\ Rank(a, s) = Rank(a, r) => s = r
      /\ Rank(a, a) = Capacity
  BY <1>1 DEF Rank
<1>3. Rank(a, (a + 1) % Capacity) = 1
  BY <1>1, NextIndex DEF Rank
<1>4. s # a => Rank(a, (s + 1) % Capacity) = Rank(a, s) + 1
  BY <1>1, NextIndex DEF Rank
<1>5. (s + 1) % Capacity \in Slot
  BY <1>1, NextIndex DEF Slot
<1> QED BY <1>2, <1>3, <1>4, <1>5

(* What a step makes of the item of one slot, and of the history.          *)
LEMMA ItemStep ==
  ASSUME ScanInv, NEW s \in Slot, NEW v \in Item, SetItem(s, v)
  PROVE  /\ items' \in [Slot -> Item]
         /\ freeSince' \in [Thread -> SUBSET Slot]
         /\ \A t \in Thread : /\ freeSince'[t] \subseteq freeSince[t]
                              /\ \A r \in freeSince'[t] : items'[r] = FreeItem
BY DEF ScanInv, TypeOK, SetItem

(* A step of thread t to operation p, which keeps the slots that are not   *)
(* free any more out of the history.                                       *)
LEMMA ThreadScan ==
  ASSUME ScanInv, NEW t \in Thread, NEW p \in Op,
         thread' = [thread EXCEPT ![t] = p],
         p.at \in {"alloc", "set_last", "take", "release", "free"}
           => p.handle \in Handle,
         items' \in [Slot -> Item], last' \in Slot,
         held' \in [Handle -> Slot \cup {NoSlot}], filled' \subseteq Slot,
         freeSince' \in [Thread -> SUBSET Slot],
         \A u \in Thread : \A r \in freeSince'[u] : items'[r] = FreeItem,
         \A u \in Thread : u # t => freeSince'[u] \subseteq freeSince[u],
         p.at = "alloc" => \A r \in freeSince'[t] :
                             Rank(p.start, p.slot) <= Rank(p.start, r)
  PROVE  ScanInv'
<1>1. /\ thread' \in [Thread -> Op] /\ thread'[t] = p
      /\ \A u \in Thread : u # t => thread'[u] = thread[u]
  BY DEF ScanInv, TypeOK
<1>2. TypeOK'
  BY <1>1 DEF ScanInv, TypeOK
<1>3. \A u \in Thread : Ahead(u)'
  BY <1>1 DEF ScanInv, Ahead
<1> QED BY <1>2, <1>3 DEF ScanInv

(* The steps within an operation.                                          *)
LEMMA ContinueScan ==
  ASSUME ScanInv, NEW t \in Thread, Continue(t)
  PROVE  ScanInv'
<1> USE CapacityAssumption, HandleAssumption
<1> DEFINE o == thread[t]
<1> DEFINE s == o.slot
<1>0. /\ TypeOK
      /\ thread \in [Thread -> Op] /\ o \in Op
      /\ items \in [Slot -> Item] /\ last \in Slot /\ filled \subseteq Slot
      /\ s \in Slot /\ o.start \in Slot
      /\ items[s] \in Item /\ o.current \in Item
      /\ held \in [Handle -> Slot \cup {NoSlot}]
      /\ freeSince \in [Thread -> SUBSET Slot]
      /\ \A u \in Thread : \A r \in freeSince[u] : items[r] = FreeItem
      /\ o.at \in {"alloc", "set_last", "take", "release", "free"}
           => o.handle \in Handle
      /\ Ahead(t)
  BY DEF ScanInv, TypeOK, Op
<1>v. /\ FreeItem \in Item /\ BusyItem \in Item /\ NewItem \in Item
      /\ \A v \in Item : Incremented(v) \in Item
      /\ \A v \in Item : ~NothingToRelease(v) => Decremented(v) \in Item
  BY MaxCountAssumption
  DEF Item, FreeItem, BusyItem, NewItem, Incremented, Decremented,
      NothingToRelease
<1>i. Idle \in Op
  BY <1>v DEF Idle, Op, Slot
<1>1. CASE AllocTake(t)
  <2> DEFINE p == [o EXCEPT !.at = "set_last"]
  <2>1. /\ SetItem(s, NewItem) /\ o.at = "alloc"
        /\ held' = [held EXCEPT ![o.handle] = s]
        /\ thread' = [thread EXCEPT ![t] = p] /\ UNCHANGED <<last, filled>>
    BY <1>0, <1>1 DEF AllocTake
  <2>2. p \in Op /\ p.at = "set_last" /\ p.handle \in Handle
    BY <1>0, <2>1 DEF Op
  <2>3. held' \in [Handle -> Slot \cup {NoSlot}]
    BY <1>0, <2>1
  <2> HIDE DEF p
  <2> QED BY <1>0, <1>v, <2>1, <2>2, <2>3, ItemStep, ThreadScan
<1>2. CASE AllocSkip(t)
  <2> DEFINE p == [o EXCEPT !.slot = (s + 1) % Capacity]
  <2>1. /\ o.at = "alloc" /\ s # o.start /\ items[s] # FreeItem
        /\ thread' = [thread EXCEPT ![t] = p]
        /\ UNCHANGED <<items, last, held, filled, freeSince>>
    BY <1>0, <1>2 DEF AllocSkip, ScanEnds
  <2>2. (s + 1) % Capacity \in Slot
    BY <1>0, Ranks
  <2>3. /\ p \in Op /\ p.at = "alloc" /\ p.handle \in Handle
        /\ p.start = o.start /\ p.slot = (s + 1) % Capacity
    BY <1>0, <2>1, <2>2 DEF Op
  <2>4. ASSUME NEW r \in freeSince[t]
        PROVE  Rank(p.start, p.slot) <= Rank(p.start, r)
    <3>1. r \in Slot /\ r # s
      BY <1>0, <2>1
    <3>2. Rank(o.start, s) <= Rank(o.start, r)
      BY <1>0, <2>1 DEF Ahead
    <3>3. /\ Rank(o.start, s) # Rank(o.start, r)
          /\ Rank(o.start, s) \in 1..Capacity /\ Rank(o.start, r) \in 1..Capacity
      BY <1>0, <3>1, Ranks
    <3>4. Rank(o.start, (s + 1) % Capacity) = Rank(o.start, s) + 1
      BY <1>0, <2>1, Ranks
    <3> QED BY <2>3, <3>2, <3>3, <3>4
  <2> HIDE DEF p
  <2> QED BY <1>0, <2>1, <2>3, <2>4, ThreadScan
<1>3. CASE AllocSetLast(t) \/ AllocFails(t)
  <2>1. /\ thread' = [thread EXCEPT ![t] = Idle]
        /\ last' \in Slot /\ UNCHANGED <<items, held, filled, freeSince>>
    BY <1>0, <1>3 DEF AllocSetLast, AllocFails
  <2> QED BY <1>0, <1>i, <2>1, ThreadScan DEF Idle
<1>4. CASE TakeCas(t)
  <2>1. /\ SetItem(s, Incremented(o.current)) /\ o.at = "take"
        /\ held' = [held EXCEPT ![o.handle] = s]
        /\ thread' = [thread EXCEPT ![t] = Idle] /\ UNCHANGED <<last, filled>>
    BY <1>0, <1>4 DEF TakeCas
  <2>2. held' \in [Handle -> Slot \cup {NoSlot}]
    BY <1>0, <2>1
  <2>3. Incremented(o.current) \in Item
    BY <1>0, <1>v
  <2> QED BY <1>0, <1>i, <2>1, <2>2, <2>3, ItemStep, ThreadScan DEF Idle
<1>5. CASE CasFails(t)
  <2> DEFINE p == [o EXCEPT !.current = items[s]]
  <2>1. /\ o.at \in {"take", "release", "free"}
        /\ thread' = [thread EXCEPT ![t] = p]
        /\ UNCHANGED <<items, last, held, filled, freeSince>>
    BY <1>0, <1>5 DEF CasFails
  <2>2. p \in Op /\ p.at = o.at /\ p.handle \in Handle
    BY <1>0, <2>1 DEF Op
  <2> HIDE DEF p
  <2> QED BY <1>0, <2>1, <2>2, ThreadScan
<1>6. CASE ReleaseCas(t) \/ FreeCas(t)
  <2>1. PICK next \in {"unmap", "idle"}, v \in Item :
          /\ SetItem(s, v)
          /\ GivenUp(t, next) /\ o.at \in {"release", "free"}
    BY <1>0, <1>6, <1>v DEF ReleaseCas, FreeCas
  <2> DEFINE p == [Idle EXCEPT !.at = next, !.slot = s]
  <2>2. /\ thread' = [thread EXCEPT ![t] = p]
        /\ held' = [held EXCEPT ![o.handle] = NoSlot]
        /\ UNCHANGED <<last, filled>>
    BY <2>1 DEF GivenUp
  <2>3. p \in Op /\ p.at = next
    BY <1>0, <1>i DEF Op, Idle
  <2>4. held' \in [Handle -> Slot \cup {NoSlot}]
    BY <1>0, <2>2
  <2> HIDE DEF p
  <2> QED BY <1>0, <2>1, <2>2, <2>3, <2>4, ItemStep, ThreadScan
<1>7. CASE Unmap(t)
  <2> DEFINE p == [o EXCEPT !.at = "clear"]
  <2>1. /\ thread' = [thread EXCEPT ![t] = p] /\ filled' \subseteq Slot
        /\ UNCHANGED <<items, last, held, freeSince>>
    BY <1>0, <1>7 DEF Unmap
  <2>2. p \in Op /\ p.at = "clear"
    BY <1>0 DEF Op
  <2> HIDE DEF p
  <2> QED BY <1>0, <2>1, <2>2, ThreadScan
<1>8. CASE Clear(t)
  <2>1. /\ SetItem(s, FreeItem) /\ thread' = [thread EXCEPT ![t] = Idle]
        /\ UNCHANGED <<last, held, filled>>
    BY <1>0, <1>8 DEF Clear
  <2> QED BY <1>0, <1>i, <1>v, <2>1, ItemStep, ThreadScan DEF Idle
<1> QED
  BY <1>1, <1>2, <1>3, <1>4, <1>5, <1>6, <1>7, <1>8 DEF Continue

(* The beginning of an operation: a scan begins behind its start.          *)
LEMMA BeginScan ==
  ASSUME ScanInv, NEW t \in Thread, NEW h \in Handle, Begin(t, h)
  PROVE  ScanInv'
<1> USE CapacityAssumption, HandleAssumption
<1>0. /\ items \in [Slot -> Item] /\ last \in Slot /\ filled \subseteq Slot
      /\ held \in [Handle -> Slot \cup {NoSlot}]
      /\ freeSince \in [Thread -> SUBSET Slot]
      /\ \A u \in Thread : \A r \in freeSince[u] : items[r] = FreeItem
  BY DEF ScanInv, TypeOK
<1>i. /\ FreeItem \in Item /\ 0 \in Slot
      /\ Idle \in Op
  BY MaxCountAssumption DEF Idle, Op, Slot, Item, FreeItem
<1>1. CASE AllocBegin(t, h)
  <2> DEFINE n == (last + 1) % Capacity
  <2> DEFINE p == [Idle EXCEPT !.at = "alloc", !.handle = h, !.start = last,
                               !.slot = n]
  <2>1. /\ thread' = [thread EXCEPT ![t] = p]
        /\ freeSince' = [freeSince EXCEPT ![t] = {s \in Slot : items[s] = FreeItem}]
        /\ UNCHANGED <<items, last, held, filled>>
    BY <1>1 DEF AllocBegin
  <2>2. n \in Slot /\ Rank(last, n) = 1
    BY <1>0, Ranks
  <2> HIDE DEF n
  <2>3. p \in Op /\ p.handle = h /\ p.start = last /\ p.slot = n
    BY <1>0, <1>i, <2>2 DEF Op, Idle
  <2> HIDE DEF p
  <2>4. /\ freeSince' \in [Thread -> SUBSET Slot]
        /\ \A u \in Thread : \A r \in freeSince'[u] : items'[r] = FreeItem
        /\ \A u \in Thread : u # t => freeSince'[u] = freeSince[u]
    BY <1>0, <2>1
  <2>5. \A r \in freeSince'[t] : Rank(p.start, p.slot) <= Rank(p.start, r)
    BY <1>0, <2>2, <2>3, <2>4, Ranks
  <2> QED BY <1>0, <2>1, <2>3, <2>4, <2>5, ThreadScan
<1>2. CASE \/ ReleaseBegin(t, h) \/ FreeBegin(t, h)
           \/ \E g \in Handle : TakeBegin(t, h, g)
  <2>1. PICK p \in Op :
          /\ thread' = [thread EXCEPT ![t] = p]
          /\ p.at \in {"take", "release", "free"} /\ p.handle = h
          /\ UNCHANGED <<items, last, held, filled, freeSince>>
    <3>1. ASSUME NEW g \in Handle, TakeBegin(t, h, g)
          PROVE  /\ held[g] \in Slot
                 /\ [Idle EXCEPT !.at = "take", !.handle = h, !.source = g,
                                 !.slot = held[g], !.current = items[held[g]]]
                      \in Op
      <4>1. held[g] \in Slot
        BY <1>0, <3>1 DEF TakeBegin
      <4> QED BY <1>0, <1>i, <4>1 DEF Op, Idle
    <3>2. ASSUME NEW op \in {"release", "free"}, GiveUp(t, h, op)
          PROVE  /\ held[h] \in Slot
                 /\ [Idle EXCEPT !.at = op, !.handle = h, !.slot = held[h],
                                 !.current = items[held[h]]] \in Op
      <4>1. held[h] \in Slot
        BY <1>0, <3>2 DEF GiveUp
      <4> QED BY <1>0, <1>i, <4>1 DEF Op, Idle
    <3>3. CASE \E g \in Handle : TakeBegin(t, h, g)
      BY <3>1, <3>3 DEF TakeBegin, Idle
    <3>4. CASE ReleaseBegin(t, h) \/ FreeBegin(t, h)
      BY <3>2, <3>4 DEF ReleaseBegin, FreeBegin, GiveUp, Idle
    <3> QED BY <1>2, <3>3, <3>4
  <2> QED BY <1>0, <2>1, ThreadScan
<1> QED BY <1>1, <1>2 DEF Begin

(* ScanInv is inductive.                                                   *)
LEMMA NextScan == ScanInv /\ [Next]_vars => ScanInv'
<1> SUFFICES ASSUME ScanInv, [Next]_vars PROVE ScanInv'
    OBVIOUS
<1>1. ASSUME NEW h \in Handle, Fill(h) PROVE ScanInv'
  BY <1>1 DEF Fill, ScanInv, TypeOK, Ahead
<1>2. CASE UNCHANGED vars
  BY <1>2 DEF vars, ScanInv, TypeOK, Ahead
<1> QED BY <1>1, <1>2, ContinueScan, BeginScan DEF Next

(* The scans of all threads do what they should, in every state.           *)
THEOREM ScanInvariant == Spec => []ScanInv
<1>1. Init => ScanInv
  <2> SUFFICES ASSUME Init PROVE ScanInv
      OBVIOUS
  <2>1. 0 \in Slot /\ FreeItem \in Item
    BY CapacityAssumption, MaxCountAssumption DEF Slot, FreeItem, Item
  <2> QED BY <2>1 DEF Init, ScanInv, TypeOK, Ahead, Op, Idle
<1> QED BY <1>1, NextScan, PTL DEF Spec

(* The variables keep their types, also if counters overflow.              *)
THEOREM TypeCorrect == Spec => []TypeOK
<1>1. ScanInv => TypeOK
  BY DEF ScanInv
<1> QED BY <1>1, ScanInvariant, PTL

(* A scan that fails has met every slot but the one it started behind in   *)
(* use, for any number of slots and of threads.                            *)
THEOREM ScanIsComplete == Spec => []ScanMissesOnlyLast
<1>1. ScanInv => ScanMissesOnlyLast
  <2> SUFFICES ASSUME ScanInv, NEW t \in Thread, thread[t].at = "alloc",
                      ScanEnds(t), NEW r \in freeSince[t]
               PROVE  r = thread[t].start
      BY DEF ScanMissesOnlyLast
  <2> DEFINE a == thread[t].start
  <2>1. a \in Slot /\ r \in Slot
    BY DEF ScanInv, TypeOK, Op
  <2>2. Rank(a, a) <= Rank(a, r)
    BY DEF ScanInv, Ahead, ScanEnds
  <2> HIDE DEF a
  <2>3. Rank(a, a) = Capacity /\ Rank(a, r) \in 1..Capacity
    BY <2>1, Ranks
  <2>4. Rank(a, r) = Rank(a, a)
    BY <2>2, <2>3, CapacityAssumption
  <2>5. r = a
    BY <2>1, <2>4, Ranks
  <2> QED BY <2>5 DEF a
<1> QED BY <1>1, ScanInvariant, PTL

(* The counter of every slot is the number of the handles that refer to    *)
(* it, however the compare-and-exchange loops of the threads interleave.   *)
THEOREM CountsAreExact ==
  ASSUME FewHandles
  PROVE  Spec => []RefCounted
<1>1. CInv => RefCounted
  BY DEF CInv
<1> QED BY Inductive, <1>1, PTL

(* No slot is emptied or given out again while a handle refers to it.      *)
THEOREM HeldSlotsAreSafe ==
  ASSUME FewHandles
  PROVE  Spec => []HeldIsUsed
<1>1. CInv => HeldIsUsed
  <2> SUFFICES ASSUME CInv, NEW h \in Handle, held[h] # NoSlot
               PROVE  /\ items[held[h]].used
                      /\ \A t \in Thread : thread[t].at \in {"unmap", "clear"}
                                             => thread[t].slot # held[h]
      BY DEF HeldIsUsed
  <2>1. held[h] \in Slot
    BY DEF CInv, TypeOK
  <2>2. items[held[h]].count > 0
    BY <2>1, Counted DEF CInv
  <2> QED BY <2>1, <2>2 DEF CInv, OpOK, Emptying, BusyItem
<1> QED BY Inductive, <1>1, PTL

(* A slot that alloc can return is empty.                                  *)
THEOREM FreeSlotsAreEmpty ==
  ASSUME FewHandles
  PROVE  Spec => []FreeIsEmpty
<1>1. CInv => FreeIsEmpty
  BY DEF CInv
<1> QED BY Inductive, <1>1, PTL

(* No capability is unmapped while a handle keeps referring to its slot.   *)
THEOREM CapabilitiesStay ==
  ASSUME FewHandles
  PROVE  Spec => HeldStaysFilled
<1> DEFINE Stays == \A h \in Handle :
      held[h] \in filled /\ held'[h] = held[h] => held[h] \in filled'
<1>1. CInv /\ [Next]_vars => [Stays]_vars
  <2> SUFFICES ASSUME CInv, Next PROVE Stays
      OBVIOUS
  <2>1. ASSUME NEW t \in Thread, Unmap(t) PROVE Stays
    <3> SUFFICES ASSUME NEW h \in Handle, held[h] \in filled
                 PROVE  held[h] # thread[t].slot
        BY <2>1 DEF Unmap
    <3>1. held[h] \in Slot
      BY DEF CInv, TypeOK
    <3>2. items[held[h]].count > 0
      BY <3>1, Counted DEF CInv
    <3> QED BY <2>1, <3>2 DEF CInv, OpOK, Emptying, BusyItem, Unmap
  <2>2. ASSUME NEW t \in Thread, Continue(t), ~Unmap(t) PROVE Stays
    BY <2>2 DEF Continue, AllocTake, AllocSkip, AllocSetLast, AllocFails, TakeCas,
                CasFails, ReleaseCas, FreeCas, GivenUp, Clear
  <2>3. ASSUME NEW t \in Thread, NEW h \in Handle, Begin(t, h) PROVE Stays
    BY <2>3 DEF Begin, AllocBegin, TakeBegin, ReleaseBegin, FreeBegin,
                GiveUp
  <2>4. ASSUME NEW h \in Handle, Fill(h) PROVE Stays
    BY <2>4 DEF Fill
  <2> QED BY <2>1, <2>2, <2>3, <2>4 DEF Next
<1> QED BY Inductive, <1>1, PTL DEF Spec, HeldStaysFilled

-----------------------------------------------------------------------------

(* The counter of the slot of a handle is 1 for the only handle.           *)
LEMMA LastHandle ==
  ASSUME TypeOK, RefCounted, NEW h \in Handle, held[h] \in Slot
  PROVE  items[held[h]].count = 1 <=> \A g \in Handle \ {h} : held[g] # held[h]
<1> DEFINE S == Holders(held[h])
<1>1. IsFiniteSet(S) /\ h \in S
  BY Counted DEF Holders
<1> HIDE DEF S
<1>2. Cardinality(S) = 1 <=> S = {h}
  BY <1>1, FS_Singleton
<1>3. S = {h} <=> \A g \in Handle \ {h} : held[g] # held[h]
  BY DEF S, Holders
<1> QED BY <1>2, <1>3 DEF RefCounted, S

Retiring == {s \in Slot : items[s] = BusyItem}

(* A step that leaves the handles alone and turns no item into BusyItem or *)
(* from it maps to a stutter.                                              *)
LEMMA RefsStutter ==
  ASSUME held' = held,
         \A s \in Slot : items'[s] = BusyItem <=> items[s] = BusyItem
  PROVE  UNCHANGED <<held, Retiring>>
BY DEF Retiring

(* What a thread does in the course of an operation maps to a step of the  *)
(* abstract allocator, or to a stutter.                                    *)
LEMMA ContinueRefs ==
  ASSUME CInv, FewHandles, NEW t \in Thread, Continue(t)
  PROVE  [Refs!Next]_<<held, Retiring>>
<1> DEFINE h == thread[t].handle
<1> DEFINE s == thread[t].slot
<1>0. /\ TypeOK /\ RefCounted /\ OpOK(thread[t]) /\ thread[t] \in Op
      /\ items \in [Slot -> Item] /\ s \in Slot
      /\ held \in [Handle -> Slot \cup {NoSlot}] /\ NoSlot \notin Slot
  BY CapacityAssumption DEF CInv, TypeOK, Op
<1>1. CASE AllocTake(t)
  <2>1. /\ items[s] = FreeItem /\ items' = [items EXCEPT ![s] = NewItem]
        /\ held' = [held EXCEPT ![h] = s]
        /\ h \in Handle /\ held[h] = NoSlot
    BY <1>0, <1>1 DEF AllocTake, SetItem, OpOK
  <2>2. FreeItem # BusyItem /\ NewItem # BusyItem
    BY DEF FreeItem, BusyItem, NewItem
  <2>3. s \in Slot \ Retiring /\ Retiring' = Retiring
    BY <1>0, <2>1, <2>2 DEF Retiring
  <2>4. \A g \in Handle : held[g] # s
    BY <1>0, <2>1, Counted DEF FreeItem
  <2>5. Refs!Allocate(h)
    BY <2>1, <2>3, <2>4 DEF Refs!Allocate, Refs!Unreferenced, Retiring
  <2> QED BY <2>1, <2>5 DEF Refs!Next
<1>2. CASE TakeCas(t)
  <2>1. /\ items' = [items EXCEPT ![s] = Incremented(items[s])]
        /\ held' = [held EXCEPT ![h] = s]
        /\ h \in Handle /\ held[h] = NoSlot
        /\ thread[t].source \in Handle /\ held[thread[t].source] = s
    BY <1>0, <1>2 DEF TakeCas, Matches, SetItem, OpOK
  <2>2. items[s] # BusyItem
    BY <1>0, <2>1, Counted DEF BusyItem
  <2>3. Incremented(items[s]) # BusyItem
    BY <1>0 DEF Incremented, BusyItem, FreeItem, Item
  <2>4. Retiring' = Retiring
    BY <1>0, <2>1, <2>2, <2>3 DEF Retiring
  <2>5. Refs!Share(h)
    BY <1>0, <2>1, <2>4 DEF Refs!Share, Retiring
  <2> QED BY <2>1, <2>5 DEF Refs!Next
<1>3. CASE ReleaseCas(t) \/ FreeCas(t)
  <2>1. /\ h \in Handle /\ held[h] = s /\ held[h] # NoSlot
        /\ held' = [held EXCEPT ![h] = NoSlot]
        /\ items[s].used /\ items[s].used \in BOOLEAN
        /\ items[s].count \in Nat \ {0}
    BY <1>0, <1>3 DEF ReleaseCas, FreeCas, GivenUp, OpOK, Matches,
                      NothingToRelease, Item
  <2> DEFINE v == IF ReleaseCas(t) THEN Decremented(items[s]) ELSE BusyItem
  <2>2. items' = [items EXCEPT ![s] = v]
    BY <1>3 DEF ReleaseCas, FreeCas, SetItem, Matches
  <2>3. items[s].count = 1 <=> \A g \in Handle \ {h} : held[g] # held[h]
    BY <1>0, <2>1, LastHandle
  <2>4. FreeCas(t) => items[s].count = 1
    BY <1>0, <2>1, <2>3 DEF FreeCas, OpOK
  <2>5. v = BusyItem <=> items[s].count = 1
    <3>1. items[s].count - 1 = 0 <=> items[s].count = 1
      BY <2>1
    <3>2. CASE ReleaseCas(t)
      <4>1. v = [used |-> TRUE, count |-> items[s].count - 1]
        BY <2>1, <3>2 DEF Decremented
      <4> HIDE DEF v
      <4> QED BY <3>1, <4>1 DEF BusyItem
    <3>3. CASE FreeCas(t)
      <4>1. v = Decremented(items[s]) \/ v = BusyItem
        OBVIOUS
      <4>2. Decremented(items[s]) = [used |-> TRUE, count |-> 0]
        <5>1. items[s].count - 1 = 0 /\ items[s].used = TRUE
          BY <2>1, <2>4, <3>1, <3>3
        <5> HIDE DEF s
        <5> QED BY <5>1, Zenon DEF Decremented
      <4> HIDE DEF v
      <4> QED BY <2>4, <3>3, <4>1, <4>2 DEF BusyItem
    <3> QED BY <1>3, <3>2, <3>3
  <2> HIDE DEF v
  <2>6. items[s] # BusyItem
    BY <2>1 DEF BusyItem
  <2>7. Retiring' = IF \E g \in Handle \ {h} : held[g] = held[h]
                      THEN Retiring ELSE Retiring \cup {held[h]}
    <3>1. \A r \in Slot : items'[r] = BusyItem
                            <=> (items[r] = BusyItem \/ (r = s /\ v = BusyItem))
      BY <1>0, <2>2, <2>6
    <3> QED BY <1>0, <2>1, <2>3, <2>5, <3>1 DEF Retiring
  <2>8. PICK g \in Handle : g = h
    BY <2>1
  <2>9. Refs!Drop(g)
    BY <2>1, <2>7, <2>8 DEF Refs!Drop, Retiring
  <2> QED BY <2>9 DEF Refs!Next
<1>4. CASE Clear(t)
  <2>1. /\ items' = [items EXCEPT ![s] = FreeItem] /\ held' = held
        /\ items[s] = BusyItem
    BY <1>0, <1>4 DEF Clear, SetItem, OpOK, Emptying
  <2>2. FreeItem # BusyItem
    BY DEF FreeItem, BusyItem
  <2>3. s \in Retiring /\ Retiring' = Retiring \ {s}
    BY <1>0, <2>1, <2>2 DEF Retiring
  <2>4. PICK r \in Slot : r = s
    BY <1>0
  <2>5. Refs!Recycle(r)
    BY <2>1, <2>3, <2>4 DEF Refs!Recycle, Retiring
  <2> QED BY <2>5 DEF Refs!Next
<1>5. CASE AllocSkip(t) \/ AllocSetLast(t) \/ AllocFails(t) \/ CasFails(t) \/ Unmap(t)
  <2>1. held' = held /\ items' = items
    BY <1>5 DEF AllocSkip, AllocSetLast, AllocFails, CasFails, Unmap
  <2> QED BY <2>1, RefsStutter
<1> QED BY <1>1, <1>2, <1>3, <1>4, <1>5 DEF Continue

(* Every execution of the allocator is one of the abstract allocator, in   *)
(* which a slot is given out only when no handle refers to it, and goes    *)
(* back with the last handle.                                              *)
THEOREM ImplementsRefs ==
  ASSUME FewHandles
  PROVE  Spec => RefsSpec
<1>1. Init => Refs!Init
  BY DEF Init, Refs!Init, FreeItem, BusyItem
<1>2. CInv /\ [Next]_vars => [Refs!Next]_<<held, Retiring>>
  <2> SUFFICES ASSUME CInv, [Next]_vars
               PROVE  [Refs!Next]_<<held, Retiring>>
      OBVIOUS
  <2>1. ASSUME NEW t \in Thread, Continue(t)
        PROVE  [Refs!Next]_<<held, Retiring>>
    BY <2>1, ContinueRefs
  <2>2. CASE \/ \E t \in Thread, h \in Handle : Begin(t, h)
             \/ \E h \in Handle : Fill(h)
             \/ UNCHANGED vars
    <3>1. held' = held /\ items' = items
      BY <2>2 DEF Begin, AllocBegin, TakeBegin, ReleaseBegin, FreeBegin,
                  GiveUp, Fill, vars
    <3> QED BY <3>1, RefsStutter
  <2> QED BY <2>1, <2>2 DEF Next
<1>3. CInv /\ [Next]_vars
        => [Refs!Next]_<<held, {s \in Slot : items[s] = BusyItem}>>
  BY <1>2, Zenon DEF Retiring
<1> QED BY Inductive, <1>1, <1>3, PTL DEF Spec, RefsSpec, Refs!Spec
=============================================================================
