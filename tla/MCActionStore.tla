---------------------------- MODULE MCActionStore ----------------------------
(* ActionStore with a few names, dataspaces and slots, which are all alike. *)
EXTENDS ActionStore, TLC

Alike == Permutations(Name) \cup Permutations(Dataspace) \cup Permutations(Slot)

(* Nothing is said of what follows when the receive slot could not be       *)
(* replaced, so it is not explored.                                         *)
Replaced == ~aliased
=============================================================================
