------------------------------ MODULE SlotRefs ------------------------------
(***************************************************************************)
(* What a reference counting slot allocator promises: a slot is given out  *)
(* only when nobody refers to it, it goes back only with its last          *)
(* reference, and an emptied slot is given out again.                      *)
(***************************************************************************)
CONSTANTS Handle, Slot, NoSlot

VARIABLES held,      \* the slot each handle refers to, or NoSlot
          retiring   \* slots that nobody refers to and that are being emptied

Unreferenced(s) == \A h \in Handle : held[h] # s

Init == held = [h \in Handle |-> NoSlot] /\ retiring = {}

(* A new slot for an empty handle.                                         *)
Allocate(h) ==
  /\ held[h] = NoSlot
  /\ \E s \in Slot \ retiring :
       Unreferenced(s) /\ held' = [held EXCEPT ![h] = s]
  /\ UNCHANGED retiring

(* A second handle for a slot in use.                                      *)
Share(h) ==
  /\ held[h] = NoSlot
  /\ \E g \in Handle : /\ held[g] # NoSlot
                       /\ held' = [held EXCEPT ![h] = held[g]]
  /\ UNCHANGED retiring

(* A handle is given up; with the last one the slot retires.               *)
Drop(h) ==
  /\ held[h] # NoSlot
  /\ held' = [held EXCEPT ![h] = NoSlot]
  /\ retiring' = IF \E g \in Handle \ {h} : held[g] = held[h]
                   THEN retiring ELSE retiring \cup {held[h]}

Recycle(s) ==
  /\ s \in retiring
  /\ retiring' = retiring \ {s}
  /\ UNCHANGED held

Next == \/ \E h \in Handle : Allocate(h) \/ Share(h) \/ Drop(h)
        \/ \E s \in Slot : Recycle(s)

Spec == Init /\ [][Next]_<<held, retiring>>
=============================================================================
