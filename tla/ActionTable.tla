---------------------------- MODULE ActionTable ----------------------------
(***************************************************************************)
(* The actions of one client as an invocation finds them: there is none of *)
(* the name, there is one that can be started, or there is one whose       *)
(* dataspace was revoked, which nothing but its deletion changes.          *)
(***************************************************************************)
CONSTANT Name

VARIABLE status

After == [absent |-> {"valid"},
          valid  |-> {"stale", "absent"},
          stale  |-> {"absent"}]

Init == status = [a \in Name |-> "absent"]

Next == /\ status' \in [Name -> {"absent", "valid", "stale"}]
        /\ \A a \in Name : status'[a] = status[a] \/ status'[a] \in After[status[a]]

Spec == Init /\ [][Next]_status
=============================================================================
