----------------------------- MODULE ActionStore -----------------------------
(***************************************************************************)
(* The capabilities behind the actions of one client session.              *)
(*                                                                         *)
(* The server of the session owns a receive slot.  op_action_create finds  *)
(* the dataspace of the client there, moves the slot into _actions and     *)
(* gives the server another one.  Invocations copy the smart capability of *)
(* their action, nested ones again, and every copy is counted by the       *)
(* allocator in 7 bits.  The slots are those of the whole manager: other   *)
(* sessions take and give them at any time.                                *)
(*                                                                         *)
(* Abstracted: an operation of the allocator is one step (CapAlloc has     *)
(* those), and invocations end in any order (ActionInvoke has theirs).     *)
(***************************************************************************)
EXTENDS Naturals

CONSTANTS Name, Dataspace, Slot,
          MaxCount,      \* the largest value of a counter: 127
          MaxNesting,    \* bound: invocations of one slot's action at a time
          MaxTransient,  \* copies a start makes and destroys again, at most
          NoSlot, Nothing

ASSUME SlotAssumption == NoSlot \notin Slot
ASSUME DataspaceAssumption == {Nothing, "other"} \cap Dataspace = {}
ASSUME NumbersAssumption ==
         MaxCount \in Nat \ {0} /\ MaxNesting \in Nat /\ MaxTransient \in Nat

VARIABLES phase,    \* of the session
          actions,  \* _actions: slot and language of each action
          rcv,      \* the receive slot of the server
          count,    \* the counter of each slot, 0 if it is free
          content,  \* the capability in each slot (kernel state)
          binary,   \* invocations under way of the action in each slot, ...
          python,   \* ... by the language they were started for
          others,   \* slots owned by other sessions
          sent,     \* history: the dataspace the client sent for each name
          strays,   \* history: slots that got a capability no action holds
          aliased   \* history: the receive slot could not be replaced once

vars == <<phase, actions, rcv, count, content, binary, python, others, sent,
          strays, aliased>>
session == <<phase, actions, rcv, sent, aliased>>
running == <<binary, python>>

Language == {"BINARY", "PYTHON"}
NoAction == [slot |-> NoSlot, lang |-> "BINARY"]

(* One invariant bundles the types of the variables.                       *)
TypeOK ==
  /\ phase \in {"closed", "open", "closing"}
  /\ actions \in [Name -> [slot : Slot \cup {NoSlot}, lang : Language]]
  /\ rcv \in Slot \cup {NoSlot}
  /\ count \in [Slot -> 0..MaxCount]
  /\ content \in [Slot -> Dataspace \cup {Nothing, "other"}]
  /\ binary \in [Slot -> Nat] /\ python \in [Slot -> Nat]
  /\ others \subseteq Slot /\ strays \subseteq Slot
  /\ sent \in [Name -> Dataspace \cup {Nothing}]
  /\ aliased \in BOOLEAN

Init ==
  /\ phase = "closed"
  /\ actions = [a \in Name |-> NoAction]
  /\ rcv = NoSlot
  /\ count = [s \in Slot |-> 0]
  /\ content = [s \in Slot |-> Nothing]
  /\ binary = [s \in Slot |-> 0] /\ python = [s \in Slot |-> 0]
  /\ others = {} /\ strays = {}
  /\ sent = [a \in Name |-> Nothing]
  /\ aliased = FALSE

(***************************************************************************)
(* The allocator                                                           *)
(***************************************************************************)

Free(s) == count[s] = 0

(* alloc may miss one free slot, the one it gave out last.                 *)
AllocMayFail == \A s, u \in Slot : Free(s) /\ Free(u) => s = u

(* A counter after k calls of take: the last value carries into "used".    *)
Taken(n, k) == (n + k) % (MaxCount + 1)

(* ... and after k calls of release, which do nothing on a free slot; one  *)
(* of them may be the one that empties the slot.                           *)
Released(n, k) == IF k < n THEN n - k ELSE 0
Empties(n, k) == 0 < n /\ n <= k

(* Mutant of Counted: the last release does not empty the slot.            *)
CountedKeeps(s, t, r) ==
  /\ count' = [count EXCEPT ![s] = Released(Taken(count[s], t), r)]
  /\ UNCHANGED content

(* Slot s is taken t times and released r times.                           *)
Counted(s, t, r) ==
  LET n == Taken(count[s], t)
  IN /\ count' = [count EXCEPT ![s] = Released(n, r)]
     /\ content' = IF Empties(n, r) THEN [content EXCEPT ![s] = Nothing]
                                    ELSE content

(***************************************************************************)
(* The session                                                             *)
(***************************************************************************)

(* The thread of the session is in the open wait: nothing of it runs.      *)
AtRest == phase = "open" /\ \A s \in Slot : binary[s] = 0 /\ python[s] = 0

(* The client is registered, its server has a receive slot.                *)
Open(s) ==
  /\ phase = "closed" /\ Free(s)
  /\ phase' = "open"
  /\ rcv' = s
  /\ count' = [count EXCEPT ![s] = 1]
  /\ UNCHANGED <<actions, content, running, others, sent, strays, aliased>>

(* Mutant of Create: the server goes on with the slot it has.              *)
CreateKeepsSlot(a, d, lang, s) ==
  /\ AtRest /\ actions[a] = NoAction /\ Free(s)
  /\ content' = [content EXCEPT ![rcv] = d]
  /\ actions' = [actions EXCEPT ![a] = [slot |-> rcv, lang |-> lang]]
  /\ sent' = [sent EXCEPT ![a] = d]
  /\ strays' = strays \ {rcv}
  /\ UNCHANGED <<phase, rcv, count, running, others, aliased>>

(* op_action_create: the dataspace was received in rcv, which becomes the  *)
(* slot of the action, and the server gets the slot s.                     *)
Create(a, d, lang, s) ==
  /\ AtRest /\ actions[a] = NoAction /\ Free(s)
  /\ content' = [content EXCEPT ![rcv] = d]
  /\ actions' = [actions EXCEPT ![a] = [slot |-> rcv, lang |-> lang]]
  /\ sent' = [sent EXCEPT ![a] = d]
  /\ strays' = strays \ {rcv}
  /\ rcv' = s
  /\ count' = [count EXCEPT ![s] = 1]
  /\ UNCHANGED <<phase, running, others, aliased>>

(* realloc_rcv_cap fails: the request is answered with an error, but the   *)
(* action exists, and its slot remains the receive slot of the server.     *)
CreateFails(a, d, lang) ==
  /\ AtRest /\ actions[a] = NoAction /\ AllocMayFail
  /\ content' = [content EXCEPT ![rcv] = d]
  /\ actions' = [actions EXCEPT ![a] = [slot |-> rcv, lang |-> lang]]
  /\ sent' = [sent EXCEPT ![a] = d]
  /\ strays' = strays \ {rcv}
  /\ aliased' = TRUE
  /\ UNCHANGED <<phase, rcv, count, running, others>>

(* The request is refused after c was received: a dataspace, if the name   *)
(* exists, or nothing, if the dataspace was revoked before it was looked   *)
(* at.  It stays in the receive slot until something else is received.     *)
CreateRefused(a, c) ==
  /\ AtRest /\ (c = Nothing \/ actions[a] # NoAction)
  /\ content' = [content EXCEPT ![rcv] = c]
  /\ strays' = IF c = Nothing THEN strays \ {rcv} ELSE strays \cup {rcv}
  /\ UNCHANGED <<session, count, running, others>>

(* op_action_delete                                                        *)
Delete(a) ==
  /\ AtRest /\ actions[a] # NoAction
  /\ Counted(actions[a].slot, 0, 1)
  /\ actions' = [actions EXCEPT ![a] = NoAction]
  /\ sent' = [sent EXCEPT ![a] = Nothing]
  /\ UNCHANGED <<phase, rcv, running, others, strays, aliased>>

(* The dataspace is checked by its kernel object.                          *)
Startable(a) ==
  LET s == actions[a].slot
  IN /\ phase = "open" /\ actions[a] # NoAction
     /\ content[s] # Nothing
     /\ binary[s] + python[s] < MaxNesting

(* The references of an invocation: the copy of the Action, and for a      *)
(* binary worker_ds and Worker::_bin.                                      *)
Refs(lang) == IF lang = "BINARY" THEN 3 ELSE 1

(* The client or a worker invokes action a; a worker is set up with k more *)
(* copies for a moment.                                                    *)
Start(a, k) ==
  LET s == actions[a].slot
  IN /\ Startable(a)
     /\ Counted(s, Refs(actions[a].lang) + k, k)
     /\ IF actions[a].lang = "BINARY"
          THEN binary' = [binary EXCEPT ![s] = @ + 1] /\ UNCHANGED python
          ELSE python' = [python EXCEPT ![s] = @ + 1] /\ UNCHANGED binary
     /\ UNCHANGED <<session, others, strays>>

(* Mutant of StartFails: a copy is released twice.                         *)
StartFailsTwice(a, k) ==
  /\ Startable(a)
  /\ Counted(actions[a].slot, k, k + 1)
  /\ UNCHANGED <<session, running, others, strays>>

(* The setup fails when k copies exist.                                    *)
StartFails(a, k) ==
  /\ Startable(a)
  /\ Counted(actions[a].slot, k, k)
  /\ UNCHANGED <<session, running, others, strays>>

(* Mutant of EndBinary: Worker::_bin is not released.                      *)
EndKeepsBin(s) ==
  /\ binary[s] > 0
  /\ binary' = [binary EXCEPT ![s] = @ - 1]
  /\ Counted(s, 0, 2)
  /\ UNCHANGED <<session, python, others, strays>>

(* An invocation ends, by its result or by an exception.                   *)
EndBinary(s) ==
  /\ binary[s] > 0
  /\ binary' = [binary EXCEPT ![s] = @ - 1]
  /\ Counted(s, 0, Refs("BINARY"))
  /\ UNCHANGED <<session, python, others, strays>>

EndPython(s) ==
  /\ python[s] > 0
  /\ python' = [python EXCEPT ![s] = @ - 1]
  /\ Counted(s, 0, Refs("PYTHON"))
  /\ UNCHANGED <<session, binary, others, strays>>

(* The client has left: the cleanup deletes the epiface with its actions   *)
(* one by one, ...                                                         *)
Close ==
  /\ AtRest
  /\ phase' = "closing"
  /\ UNCHANGED <<actions, rcv, count, content, running, others, sent, strays,
                aliased>>

CloseAction(a) ==
  /\ phase = "closing" /\ actions[a] # NoAction
  /\ Counted(actions[a].slot, 0, 1)
  /\ actions' = [actions EXCEPT ![a] = NoAction]
  /\ sent' = [sent EXCEPT ![a] = Nothing]
  /\ UNCHANGED <<phase, rcv, running, others, strays, aliased>>

(* ... and then the server, which frees its receive slot.  Like every free *)
(* without a task this leaves the slot as full as it was.                  *)
CloseServer ==
  /\ phase = "closing" /\ \A a \in Name : actions[a] = NoAction
  /\ phase' = "closed" /\ rcv' = NoSlot
  /\ count' = [count EXCEPT ![rcv] = 0]
  /\ UNCHANGED <<actions, content, running, others, sent, strays, aliased>>

(***************************************************************************)
(* Others                                                                  *)
(***************************************************************************)

(* The owner of a dataspace takes it back.                                 *)
Revoke(d) ==
  /\ content' = [s \in Slot |-> IF content[s] = d THEN Nothing ELSE content[s]]
  /\ strays' = {s \in strays : content[s] # d}
  /\ UNCHANGED <<session, count, running, others>>

(* Another session allocates slot s and uses it for a capability, ...      *)
OtherTakes(s) ==
  /\ Free(s)
  /\ count' = [count EXCEPT ![s] = 1]
  /\ content' = [content EXCEPT ![s] = "other"]
  /\ others' = others \cup {s}
  /\ strays' = strays \ {s}
  /\ UNCHANGED <<session, running>>

(* ... releases it, ...                                                    *)
OtherGives(s) ==
  /\ s \in others
  /\ Counted(s, 0, 1)
  /\ others' = others \ {s}
  /\ UNCHANGED <<session, running, strays>>

(* ... or ends, when it was the receive slot of its server.                *)
OtherServerEnds(s) ==
  /\ s \in others
  /\ count' = [count EXCEPT ![s] = 0]
  /\ others' = others \ {s}
  /\ strays' = strays \cup {s}
  /\ UNCHANGED <<session, running, content>>

(***************************************************************************)
(* The specification                                                       *)
(***************************************************************************)

Store(a) == \/ \E d \in Dataspace, lang \in Language :
                 \/ CreateFails(a, d, lang)
                 \/ \E s \in Slot : Create(a, d, lang, s)
            \/ \E c \in Dataspace \cup {Nothing} : CreateRefused(a, c)
            \/ Delete(a)
            \/ CloseAction(a)

Invoke(a) == \/ \E k \in 0..MaxTransient : Start(a, k)
             \/ \E k \in 1..(3 + MaxTransient) : StartFails(a, k)

Next == \/ \E a \in Name : Store(a) \/ Invoke(a)
        \/ \E s \in Slot : \/ Open(s) \/ EndBinary(s) \/ EndPython(s)
                           \/ OtherTakes(s) \/ OtherGives(s)
                           \/ OtherServerEnds(s)
        \/ Close \/ CloseServer
        \/ \E d \in Dataspace : Revoke(d)

Spec == Init /\ [][Next]_vars

-----------------------------------------------------------------------------
(***************************************************************************)
(* Properties                                                              *)
(***************************************************************************)

(* Nested invocations of one action do not overflow the counter of its     *)
(* slot.  The code neither checks nor guarantees this.                     *)
FewReferences == 1 + 3 * MaxNesting + MaxTransient <= MaxCount

ActionIn(s) == \E a \in Name : actions[a].slot = s
Owned(s) == rcv = s \/ s \in others \/ ActionIn(s)

(* Every slot has one owner at most: an action, the server or another      *)
(* session, unless the receive slot could not be replaced.                 *)
OneOwner ==
  ~aliased =>
    /\ \A a, b \in Name : actions[a].slot = actions[b].slot
                            => a = b \/ actions[a] = NoAction
    /\ \A s \in Slot : (rcv = s \/ ActionIn(s)) => s \notin others
    /\ \A a \in Name : actions[a] # NoAction => rcv # actions[a].slot

(* The counter of a slot is what its owner and the invocations refer to,   *)
(* through nested calls, failed starts, refused requests and other         *)
(* sessions; so the slot is freed when the last of them is done.           *)
RefsExact ==
  ~aliased =>
    \A s \in Slot : count[s] = (IF Owned(s) THEN 1 ELSE 0)
                                 + 3 * binary[s] + python[s]

(* An action holds the dataspace its client sent for it, or nothing once   *)
(* that was revoked: no other request, session or action replaces it.      *)
ActionKeepsDataspace ==
  ~aliased =>
    \A a \in Name : actions[a] # NoAction =>
                      content[actions[a].slot] \in {sent[a], Nothing}

(* An action as an invocation finds it.                                    *)
Status(a) == IF actions[a] = NoAction THEN "absent"
             ELSE IF content[actions[a].slot] = Nothing THEN "stale"
             ELSE "valid"

Table == INSTANCE ActionTable WITH status <- [a \in Name |-> Status(a)]

(* The capabilities behind the actions are what the table of actions says  *)
(* of them: no step gives an action whose dataspace was revoked another    *)
(* one, and none but its deletion and the end of the session removes it.   *)
KeepsTable == [][~aliased' => [Table!Next]_[a \in Name |-> Status(a)]]_vars

(* A session that has ended leaves no slot in use behind, whatever         *)
(* requests were refused, failed or withdrawn, and no capability of an     *)
(* action.  What may stay in a slot is what came last with a refused       *)
(* request of this or another session, since nothing empties a receive     *)
(* slot: the server frees it without a task to unmap it from.              *)
OnlyStraysLeft ==
  phase = "closed" /\ ~aliased =>
    \A s \in Slot \ others :
      Free(s) /\ (content[s] = Nothing \/ s \in strays)

(* The slot of an action that runs is in use, so it is neither emptied nor *)
(* given to another session before the invocation ends ("automatically     *)
(* frees the slot ... when the reference count goes down to zero").        *)
RunningIsUsed ==
  ~aliased => \A s \in Slot : binary[s] + python[s] > 0 => ~Free(s)

=============================================================================
