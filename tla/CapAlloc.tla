------------------------------ MODULE CapAlloc ------------------------------
(***************************************************************************)
(* Safe_counting_cap_alloc, the lock-free allocator of capability slots    *)
(* all threads of the manager share, with the smart capabilities that use  *)
(* it.                                                                     *)
(*                                                                         *)
(* Every slot has one atomic item: a "used" flag and a reference counter.  *)
(* Each atomic operation on an item (a load, a compare-and-exchange, a     *)
(* store) and each unmap is a step of its own.  A handle is one smart      *)
(* capability object, which refers to one slot or to none; a thread works  *)
(* on one handle at a time, and two threads never work on the same handle  *)
(* (the objects themselves are not thread safe).                           *)
(***************************************************************************)
EXTENDS Naturals, FiniteSets

CONSTANTS Thread,
          Handle,    \* smart capability objects
          Capacity,  \* CAPACITY, the number of slots
          MaxCount,  \* the largest value of the counter: 127 for unsigned char
          NoSlot, NoHandle

Slot == 0..(Capacity - 1)

ASSUME CapacityAssumption == Capacity \in Nat \ {0} /\ NoSlot \notin Slot
ASSUME MaxCountAssumption == MaxCount \in Nat \ {0}
ASSUME HandleAssumption == IsFiniteSet(Handle) /\ NoHandle \notin Handle

VARIABLES items,      \* _items
          last,       \* _last
          held,       \* the slot each handle refers to
          filled,     \* the slots with a capability in them (kernel state)
          thread,     \* the operation each thread is in
          freeSince   \* history: slots free ever since the thread's alloc began

vars == <<items, last, held, filled, thread, freeSince>>

Item == [used : BOOLEAN, count : 0..MaxCount]

FreeItem == [used |-> FALSE, count |-> 0]
BusyItem == [used |-> TRUE, count |-> 0]   \* being freed
NewItem == [used |-> TRUE, count |-> 1]

Op == [at     : {"idle", "alloc", "set_last", "take", "release", "free",
                 "unmap", "clear"},
       handle : Handle \cup {NoHandle},    \* the handle it works for
       source : Handle \cup {NoHandle},    \* take: the handle it copies
       slot   : Slot,                      \* i or c
       start  : Slot,                      \* alloc: start_end
       current : Item]                     \* current_value

Idle == [at |-> "idle", handle |-> NoHandle, source |-> NoHandle,
         slot |-> 0, start |-> 0, current |-> FreeItem]

(* One invariant bundles the types of the variables.                       *)
TypeOK ==
  /\ items \in [Slot -> Item]
  /\ last \in Slot
  /\ held \in [Handle -> Slot \cup {NoSlot}]
  /\ filled \subseteq Slot
  /\ thread \in [Thread -> Op]
  /\ \A t \in Thread :
       thread[t].at \in {"alloc", "set_last", "take", "release", "free"}
         => thread[t].handle \in Handle
  /\ freeSince \in [Thread -> SUBSET Slot]

Init ==
  /\ items = [s \in Slot |-> FreeItem]
  /\ last = 0
  /\ held = [h \in Handle |-> NoSlot]
  /\ filled = {}
  /\ thread = [t \in Thread |-> Idle]
  /\ freeSince = [t \in Thread |-> {}]

(***************************************************************************)
(* Helpers                                                                 *)
(***************************************************************************)

Holders(s) == {h \in Handle : held[h] = s}

(* No thread works for handle h or copies it.                              *)
Ready(h) == \A t \in Thread : thread[t].handle # h /\ thread[t].source # h

(* Item s becomes v; a slot that is not free now was not free all along.   *)
SetItem(s, v) ==
  /\ items' = [items EXCEPT ![s] = v]
  /\ freeSince' = [t \in Thread |-> IF v = FreeItem THEN freeSince[t]
                                                   ELSE freeSince[t] \ {s}]

(* (current_value | F_USED) + 1, in the width of the item.                 *)
Incremented(v) ==
  IF v.count = MaxCount THEN FreeItem
                        ELSE [used |-> TRUE, count |-> v.count + 1]

Decremented(v) == [used |-> v.used, count |-> v.count - 1]

(* Not in use, or another thread has taken the counter to 0 already: the   *)
(* operation returns.  It never does so for a slot its handle refers to;   *)
(* if it could, the thread would be stuck here.                            *)
NothingToRelease(v) == ~v.used \/ v.count = 0

(***************************************************************************)
(* alloc                                                                   *)
(***************************************************************************)

(* Mutant of AllocBegin: the scan starts one slot too late.                *)
ScanStartsLate(t, h) ==
  /\ thread[t].at = "idle"
  /\ held[h] = NoSlot /\ Ready(h)
  /\ thread' = [thread EXCEPT ![t] =
                  [Idle EXCEPT !.at = "alloc", !.handle = h, !.start = last,
                               !.slot = (last + 2) % Capacity]]
  /\ freeSince' = [freeSince EXCEPT ![t] = {s \in Slot : items[s] = FreeItem}]
  /\ UNCHANGED <<items, last, held, filled>>

(* The scan starts behind the slot that was allocated last.                *)
AllocBegin(t, h) ==
  /\ thread[t].at = "idle"
  /\ held[h] = NoSlot /\ Ready(h)
  /\ thread' = [thread EXCEPT ![t] =
                  [Idle EXCEPT !.at = "alloc", !.handle = h, !.start = last,
                               !.slot = (last + 1) % Capacity]]
  /\ freeSince' = [freeSince EXCEPT ![t] = {s \in Slot : items[s] = FreeItem}]
  /\ UNCHANGED <<items, last, held, filled>>

(* The loop ends before it comes to the slot it started behind.            *)
ScanEnds(t) == thread[t].slot = thread[t].start

(* Mutant of AllocTake: only the counter is looked at.                     *)
AllocUncounted(t) ==
  /\ thread[t].at = "alloc" /\ ~ScanEnds(t)
  /\ items[thread[t].slot].count = 0
  /\ SetItem(thread[t].slot, NewItem)
  /\ held' = [held EXCEPT ![thread[t].handle] = thread[t].slot]
  /\ thread' = [thread EXCEPT ![t].at = "set_last"]
  /\ UNCHANGED <<last, filled>>

(* compare_exchange_strong of a free item: the slot is the caller's, ...   *)
AllocTake(t) ==
  /\ thread[t].at = "alloc" /\ ~ScanEnds(t)
  /\ items[thread[t].slot] = FreeItem
  /\ SetItem(thread[t].slot, NewItem)
  /\ held' = [held EXCEPT ![thread[t].handle] = thread[t].slot]
  /\ thread' = [thread EXCEPT ![t].at = "set_last"]
  /\ UNCHANGED <<last, filled>>

(* ... or it fails and the scan goes on.                                   *)
AllocSkip(t) ==
  /\ thread[t].at = "alloc" /\ ~ScanEnds(t)
  /\ items[thread[t].slot] # FreeItem
  /\ thread' = [thread EXCEPT ![t].slot = (thread[t].slot + 1) % Capacity]
  /\ UNCHANGED <<items, last, held, filled, freeSince>>

AllocSetLast(t) ==
  /\ thread[t].at = "set_last"
  /\ last' = thread[t].slot
  /\ thread' = [thread EXCEPT ![t] = Idle]
  /\ UNCHANGED <<items, held, filled, freeSince>>

(* Cap::Invalid is returned.                                               *)
AllocFails(t) ==
  /\ thread[t].at = "alloc" /\ ScanEnds(t)
  /\ thread' = [thread EXCEPT ![t] = Idle]
  /\ UNCHANGED <<items, last, held, filled, freeSince>>

(***************************************************************************)
(* take                                                                    *)
(***************************************************************************)

(* A handle is copied from another one, which no thread gives up meanwhile. *)
TakeBegin(t, h, g) ==
  /\ thread[t].at = "idle"
  /\ held[h] = NoSlot /\ Ready(h)
  /\ g # h /\ held[g] # NoSlot
  /\ \A u \in Thread : thread[u].handle # g
  /\ thread' = [thread EXCEPT ![t] =
                  [Idle EXCEPT !.at = "take", !.handle = h, !.source = g,
                               !.slot = held[g], !.current = items[held[g]]]]
  /\ UNCHANGED <<items, last, held, filled, freeSince>>

Matches(t) == items[thread[t].slot] = thread[t].current

(* Mutant of TakeCas: a load and a store in place of the exchange.         *)
TakeStores(t) ==
  /\ thread[t].at = "take"
  /\ SetItem(thread[t].slot, Incremented(thread[t].current))
  /\ held' = [held EXCEPT ![thread[t].handle] = thread[t].slot]
  /\ thread' = [thread EXCEPT ![t] = Idle]
  /\ UNCHANGED <<last, filled>>

TakeCas(t) ==
  /\ thread[t].at = "take" /\ Matches(t)
  /\ SetItem(thread[t].slot, Incremented(thread[t].current))
  /\ held' = [held EXCEPT ![thread[t].handle] = thread[t].slot]
  /\ thread' = [thread EXCEPT ![t] = Idle]
  /\ UNCHANGED <<last, filled>>

(* A failed exchange loads the item; every loop of the allocator retries.  *)
CasFails(t) ==
  /\ thread[t].at \in {"take", "release", "free"} /\ ~Matches(t)
  /\ thread' = [thread EXCEPT ![t].current = items[thread[t].slot]]
  /\ UNCHANGED <<items, last, held, filled, freeSince>>

(***************************************************************************)
(* release and free                                                        *)
(***************************************************************************)

GiveUp(t, h, op) ==
  /\ thread[t].at = "idle"
  /\ held[h] # NoSlot /\ Ready(h)
  /\ thread' = [thread EXCEPT ![t] =
                  [Idle EXCEPT !.at = op, !.handle = h, !.slot = held[h],
                               !.current = items[held[h]]]]
  /\ UNCHANGED <<items, last, held, filled, freeSince>>

(* A counted handle is destroyed or overwritten.                           *)
ReleaseBegin(t, h) == GiveUp(t, h, "release")

(* A handle that was never copied (Unique_cap) frees its slot.             *)
FreeBegin(t, h) ==
  /\ \A g \in Handle \ {h} : held[g] # held[h]
  /\ GiveUp(t, h, "free")

(* The thread has given its handle up, and does at next with the slot.     *)
GivenUp(t, next) ==
  /\ held' = [held EXCEPT ![thread[t].handle] = NoSlot]
  /\ thread' = [thread EXCEPT ![t] = [Idle EXCEPT !.at = next,
                                                  !.slot = thread[t].slot]]
  /\ UNCHANGED <<last, filled>>

(* Mutants of ReleaseCas: the last but one handle empties the slot; ...    *)
ReleaseTooEarly(t) ==
  /\ thread[t].at = "release" /\ Matches(t)
  /\ ~NothingToRelease(thread[t].current)
  /\ SetItem(thread[t].slot, Decremented(thread[t].current))
  /\ GivenUp(t, IF thread[t].current.count <= 2 THEN "unmap" ELSE "idle")

(* ... the slot is marked as free before it is empty.                      *)
ReleaseThenEmpty(t) ==
  /\ thread[t].at = "release" /\ Matches(t)
  /\ ~NothingToRelease(thread[t].current)
  /\ SetItem(thread[t].slot, IF thread[t].current.count = 1
                               THEN FreeItem ELSE Decremented(thread[t].current))
  /\ GivenUp(t, IF thread[t].current.count = 1 THEN "unmap" ELSE "idle")

(* The counter is decremented; at 0 the slot remains marked as used until  *)
(* it has been emptied.                                                    *)
ReleaseCas(t) ==
  /\ thread[t].at = "release" /\ Matches(t)
  /\ ~NothingToRelease(thread[t].current)
  /\ SetItem(thread[t].slot, Decremented(thread[t].current))
  /\ GivenUp(t, IF thread[t].current.count = 1 THEN "unmap" ELSE "idle")

(* Mutant of FreeCas: the capability is left in the slot.                  *)
FreeUnemptied(t) ==
  /\ thread[t].at = "free" /\ Matches(t)
  /\ ~NothingToRelease(thread[t].current)
  /\ SetItem(thread[t].slot, BusyItem)
  /\ GivenUp(t, "clear")

FreeCas(t) ==
  /\ thread[t].at = "free" /\ Matches(t)
  /\ ~NothingToRelease(thread[t].current)
  /\ SetItem(thread[t].slot, BusyItem)
  /\ GivenUp(t, "unmap")

(* Mutant of Unmap: the item is never cleared.                             *)
UnmapOnly(t) ==
  /\ thread[t].at = "unmap"
  /\ filled' = filled \ {thread[t].slot}
  /\ thread' = [thread EXCEPT ![t] = Idle]
  /\ UNCHANGED <<items, last, held, freeSince>>

(* l4_task_unmap                                                           *)
Unmap(t) ==
  /\ thread[t].at = "unmap"
  /\ filled' = filled \ {thread[t].slot}
  /\ thread' = [thread EXCEPT ![t].at = "clear"]
  /\ UNCHANGED <<items, last, held, freeSince>>

(* The item is stored, not exchanged.                                      *)
Clear(t) ==
  /\ thread[t].at = "clear"
  /\ SetItem(thread[t].slot, FreeItem)
  /\ thread' = [thread EXCEPT ![t] = Idle]
  /\ UNCHANGED <<last, held, filled>>

(* The holder of a slot receives or creates a capability in it.            *)
Fill(h) ==
  /\ held[h] # NoSlot /\ Ready(h)
  /\ filled' = filled \cup {held[h]}
  /\ UNCHANGED <<items, last, held, thread, freeSince>>

(***************************************************************************)
(* The specification                                                       *)
(***************************************************************************)

Continue(t) == \/ AllocTake(t) \/ AllocSkip(t) \/ AllocSetLast(t)
               \/ AllocFails(t) \/ TakeCas(t) \/ CasFails(t)
               \/ ReleaseCas(t) \/ FreeCas(t) \/ Unmap(t) \/ Clear(t)

Begin(t, h) == \/ AllocBegin(t, h)
               \/ \E g \in Handle : TakeBegin(t, h, g)
               \/ ReleaseBegin(t, h) \/ FreeBegin(t, h)

Next == \/ \E t \in Thread : Continue(t) \/ \E h \in Handle : Begin(t, h)
        \/ \E h \in Handle : Fill(h)

Spec == Init /\ [][Next]_vars

(* A thread that is in an operation goes on.                               *)
FairSpec == Spec /\ \A t \in Thread : WF_vars(Continue(t))

-----------------------------------------------------------------------------
(***************************************************************************)
(* Properties                                                              *)
(***************************************************************************)

(* The counter of a slot is the number of handles that refer to it, across *)
(* all interleavings of the compare-and-exchange loops.                    *)
RefCounted == \A s \in Slot : items[s].count = Cardinality(Holders(s))

(* A slot that a handle refers to is marked as used, so alloc does not     *)
(* return it again, and nobody is about to empty it.                       *)
HeldIsUsed ==
  \A h \in Handle :
    held[h] # NoSlot =>
      /\ items[held[h]].used
      /\ \A t \in Thread : thread[t].at \in {"unmap", "clear"}
                             => thread[t].slot # held[h]

(* alloc returns an empty slot: no capability of an earlier user is in it. *)
FreeIsEmpty == \A s \in Slot : items[s] = FreeItem => s \notin filled

(* A capability is never unmapped while a handle refers to its slot.       *)
HeldStaysFilled ==
  [][\A h \in Handle :
       held[h] \in filled /\ held'[h] = held[h] => held[h] \in filled']_vars

(* When the scan of alloc fails, every slot but the one it started behind  *)
(* was in use at some moment of the scan.                                  *)
ScanMissesOnlyLast ==
  \A t \in Thread :
    thread[t].at = "alloc" /\ ScanEnds(t) => freeSince[t] \subseteq {thread[t].start}

(* A slot whose counter went to 0 is given back.                           *)
SlotComesBack ==
  \A s \in Slot : (items[s] = BusyItem) ~> (items[s] # BusyItem)

(* The handles and the slots being emptied behave like reference counted   *)
(* slots should.                                                           *)
Refs == INSTANCE SlotRefs WITH
          retiring <- {s \in Slot : items[s] = BusyItem}

(* Every execution is one of the abstract allocator.                       *)
RefsSpec == Refs!Spec

=============================================================================
