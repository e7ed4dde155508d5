------------------------------ MODULE CallStack ------------------------------
(***************************************************************************)
(* What the invocation engine promises its callers: calls nest like those  *)
(* of a program.  The call made last ends first, its caller gets what it   *)
(* exited with, and an error ends all calls before the client hears of it. *)
(***************************************************************************)
EXTENDS Naturals

CONSTANTS Name, Value, Long, Error, MaxDepth

VARIABLES height,   \* how many calls are under way
          calls,    \* which, and the value a call has exited with
          failing,  \* the error on its way to the client
          reply     \* what the caller in charge is answered

vars == <<height, calls, failing, reply>>

NoCall == [value |-> "none"]

Init ==
  /\ height = 0
  /\ calls = [i \in 1..MaxDepth |-> NoCall]
  /\ failing = "none"
  /\ reply = "none"

(* The function of the innermost call computes.                            *)
Computes ==
  height > 0 /\ failing = "none" /\ calls[height].value = "none"

Call(a) ==
  /\ (height = 0 /\ reply = "none") \/ Computes
  /\ height < MaxDepth
  /\ height' = height + 1
  /\ calls' = [calls EXCEPT ![height + 1] = [action |-> a, value |-> "none"]]
  /\ reply' = "none"
  /\ UNCHANGED failing

Exit(v) ==
  /\ Computes
  /\ calls' = [calls EXCEPT ![height].value = v]
  /\ UNCHANGED <<height, failing, reply>>

(* The caller, a function or the client, gets the value of its call.       *)
Complete ==
  /\ height > 0
  /\ calls[height].value \in Value \ Long
  /\ reply' = calls[height].value
  /\ height' = height - 1
  /\ calls' = [calls EXCEPT ![height] = NoCall]
  /\ UNCHANGED failing

(* The other messages of a function are answered without a value.          *)
Acknowledge ==
  /\ Computes
  /\ reply' = "EOK"
  /\ UNCHANGED <<height, calls, failing>>

(* The answer is sent, to a function, which goes on, or to the client.     *)
Send ==
  /\ height > 0 => Computes
  /\ reply' = "none"
  /\ UNCHANGED <<height, calls, failing>>

Fail(e) ==
  /\ failing = "none"
  /\ failing' = e
  /\ reply' = "none"
  /\ UNCHANGED <<height, calls>>

(* No caller learns of the error before the calls it made have ended.      *)
Unwind ==
  /\ failing # "none" /\ height > 0
  /\ height' = height - 1
  /\ calls' = [calls EXCEPT ![height] = NoCall]
  /\ UNCHANGED <<failing, reply>>

Report ==
  /\ failing # "none" /\ height = 0
  /\ reply' \in {failing, "EMSGTOOLONG"}
  /\ failing' = "none"
  /\ UNCHANGED <<height, calls>>

Next == \/ \E a \in Name : Call(a)
        \/ \E v \in Value : Exit(v)
        \/ \E e \in Error : Fail(e)
        \/ Complete \/ Acknowledge \/ Send \/ Unwind \/ Report

Spec == Init /\ [][Next]_vars
=============================================================================
