--------------------------- MODULE ActionStoreProofs ---------------------------
(***************************************************************************)
(* Theorems about ActionStore, for any names, dataspaces and slots.  What  *)
(* they say of the counters assumes FewReferences: without it a counter    *)
(* overflows, and the slot of an action that runs becomes free.            *)
(***************************************************************************)
EXTENDS ActionStore, TLAPS

Content == Dataspace \cup {Nothing, "other"}

(* What the phase of the session says about its variables.                 *)
Phases ==
  /\ phase # "closed" <=> rcv \in Slot
  /\ phase = "closed" => \A a \in Name : actions[a] = NoAction
  /\ phase # "open" => \A s \in Slot : binary[s] = 0 /\ python[s] = 0
  /\ \A s \in Slot : binary[s] + python[s] <= MaxNesting
  /\ \A a \in Name : actions[a].slot = NoSlot <=> actions[a] = NoAction

(* The slot of an action that runs belongs to it.                          *)
RunsInAction == \A s \in Slot : binary[s] + python[s] > 0 => ActionIn(s)

(* The properties as long as every receive slot could be replaced.         *)
Distinct ==
  /\ \A a, b \in Name : actions[a].slot = actions[b].slot
                          => a = b \/ actions[a] = NoAction
  /\ \A s \in Slot : (rcv = s \/ ActionIn(s)) => s \notin others
  /\ \A a \in Name : actions[a] # NoAction => rcv # actions[a].slot

Exact == \A s \in Slot : count[s] = (IF Owned(s) THEN 1 ELSE 0)
                                      + 3 * binary[s] + python[s]

Kept == \A a \in Name : actions[a] # NoAction =>
                          content[actions[a].slot] \in {sent[a], Nothing}

(* A slot without an action is empty, or what it holds came to stay.  The  *)
(* receive slot is free when the server ends, as full as it was.           *)
Clean == \A s \in Slot : Free(s) \/ rcv = s => content[s] = Nothing \/ s \in strays

Good == Distinct /\ Exact /\ Kept /\ Clean

IInv == TypeOK /\ Phases /\ RunsInAction /\ (~aliased => Good)

-----------------------------------------------------------------------------

(* The remainder is a number below the divisor, and the number itself if   *)
(* that is below the divisor already.                                      *)
LEMMA Remainder ==
  ASSUME NEW n \in Nat, NEW m \in Nat
  PROVE  /\ n % (m + 1) \in 0..m
         /\ n <= m => n % (m + 1) = n
<1>1. n % (m + 1) \in 0..m
  BY Z3
<1>2. n <= m => n % (m + 1) = n
  BY Z3
<1> QED
  BY <1>1, <1>2

(* Whatever is taken and released, the counters are counters.              *)
LEMMA CountedType ==
  ASSUME TypeOK, NEW s \in Slot, NEW t \in Nat, NEW r \in Nat, Counted(s, t, r)
  PROVE  count' \in [Slot -> 0..MaxCount] /\ content' \in [Slot -> Content]
<1> DEFINE n == Taken(count[s], t)
<1>1. count[s] + t \in Nat /\ MaxCount \in Nat
  BY NumbersAssumption DEF TypeOK
<1>2. n \in 0..MaxCount
  BY <1>1, Remainder DEF Taken
<1>3. Released(n, r) \in 0..MaxCount
  BY <1>1, <1>2 DEF Released
<1> QED
  BY <1>3 DEF TypeOK, Counted, Content

(* As long as the counter does not overflow it counts.                     *)
LEMMA CountedExact ==
  ASSUME TypeOK, NEW s \in Slot, NEW t \in Nat, NEW r \in Nat,
         Counted(s, t, r), count[s] + t <= MaxCount, r <= count[s] + t
  PROVE  /\ \A u \in Slot : u # s => count'[u] = count[u]
         /\ \A u \in Slot : u # s => content'[u] = content[u]
         /\ count'[s] = count[s] + t - r
         /\ content'[s] = IF count'[s] = 0 /\ r > 0 THEN Nothing ELSE content[s]
<1> DEFINE n == Taken(count[s], t)
           m == count[s] + t - r
<1>1. count[s] + t \in Nat /\ MaxCount \in Nat /\ count[s] \in Nat
  BY NumbersAssumption DEF TypeOK
<1>2. n = count[s] + t
  BY <1>1, Remainder DEF Taken
<1>3. Released(n, r) = m
  BY <1>1, <1>2 DEF Released
<1>4. Empties(n, r) <=> m = 0 /\ r > 0
  BY <1>1, <1>2 DEF Empties
<1>5. /\ count' = [count EXCEPT ![s] = m]
      /\ content' = IF m = 0 /\ r > 0 THEN [content EXCEPT ![s] = Nothing]
                                          ELSE content
  BY <1>3, <1>4 DEF Counted
<1> HIDE DEF m
<1>6. \A u \in Slot : u # s => count'[u] = count[u]
  BY <1>5 DEF TypeOK
<1>7. count'[s] = m
  BY <1>5 DEF TypeOK
<1>8. \A u \in Slot : u # s => content'[u] = content[u]
  BY <1>5 DEF TypeOK
<1>9. content'[s] = IF m = 0 /\ r > 0 THEN Nothing ELSE content[s]
  BY <1>5 DEF TypeOK
<1> QED
  BY <1>6, <1>7, <1>8, <1>9 DEF m

(* The slot of an action is a slot.                                        *)
LEMMA ActionSlot ==
  ASSUME TypeOK, Phases, NEW a \in Name, actions[a] # NoAction
  PROVE  actions[a].slot \in Slot
BY SlotAssumption DEF TypeOK, Phases

-----------------------------------------------------------------------------

LEMMA TypeInit == Init => TypeOK /\ Phases
<1> SUFFICES ASSUME Init PROVE TypeOK /\ Phases
  OBVIOUS
<1>1. NoAction \in [slot : Slot \cup {NoSlot}, lang : Language]
  BY DEF NoAction, Language
<1>2. actions \in [Name -> [slot : Slot \cup {NoSlot}, lang : Language]]
  BY <1>1 DEF Init
<1>3. count \in [Slot -> 0..MaxCount]
  BY NumbersAssumption DEF Init
<1>4. TypeOK
  BY <1>2, <1>3 DEF Init, TypeOK
<1>5. Phases
  BY SlotAssumption, NumbersAssumption DEF Init, Phases, NoAction
<1> QED
  BY <1>4, <1>5

LEMMA GoodInit == Init => Good
<1> SUFFICES ASSUME Init PROVE Good
  OBVIOUS
<1>0. \A a \in Name : actions[a].slot = NoSlot
  BY DEF Init, NoAction
<1>1. \A s \in Slot : ~Owned(s) /\ ~ActionIn(s)
  BY <1>0, SlotAssumption DEF Init, Owned, ActionIn
<1>2. Distinct
  BY <1>1, SlotAssumption DEF Init, Distinct, NoAction
<1>3. Exact
  BY <1>1 DEF Init, Exact
<1>4. Kept /\ Clean
  BY DEF Init, Kept, Clean
<1> QED
  BY <1>2, <1>3, <1>4 DEF Good

(* The steps of one name, and of one slot, in one disjunction.             *)
LEMMA Steps ==
  ASSUME Next, NEW P,
         \A a \in Name, d \in Dataspace, lang \in Language :
           /\ CreateFails(a, d, lang) => P
           /\ \A s \in Slot : Create(a, d, lang, s) => P,
         \A a \in Name, c \in Dataspace \cup {Nothing} : CreateRefused(a, c) => P,
         \A a \in Name : Delete(a) \/ CloseAction(a) => P,
         \A a \in Name, k \in Nat :
           /\ k <= MaxTransient /\ Start(a, k) => P
           /\ k <= 3 + MaxTransient /\ StartFails(a, k) => P,
         \A s \in Slot : /\ Open(s) \/ OtherTakes(s) \/ OtherGives(s) => P
                         /\ OtherServerEnds(s) => P
                         /\ EndBinary(s) \/ EndPython(s) => P,
         Close \/ CloseServer => P,
         \A d \in Dataspace : Revoke(d) => P
  PROVE  P
<1>1. /\ \A k \in 0..MaxTransient : k \in Nat /\ k <= MaxTransient
      /\ \A k \in 1..(3 + MaxTransient) : k \in Nat /\ k <= 3 + MaxTransient
  BY NumbersAssumption
<1>2. Language # {}
  BY DEF Language
<1>3. ASSUME NEW a \in Name, Store(a) PROVE P
  BY <1>2, <1>3 DEF Store
<1>4. ASSUME NEW a \in Name, Invoke(a) PROVE P
  BY <1>1, <1>4 DEF Invoke
<1> QED
  BY <1>3, <1>4 DEF Next

LEMMA TypeNext == TypeOK /\ Phases /\ [Next]_vars => TypeOK' /\ Phases'
<1> SUFFICES ASSUME TypeOK, Phases, [Next]_vars PROVE TypeOK' /\ Phases'
  OBVIOUS
<1> USE SlotAssumption, NumbersAssumption
<1>a. \A a \in Name, lang \in Language, s \in Slot :
        [slot |-> s, lang |-> lang] \in [slot : Slot \cup {NoSlot}, lang : Language]
  OBVIOUS
<1>n. NoAction \in [slot : Slot \cup {NoSlot}, lang : Language]
  BY DEF NoAction, Language
<1>1. ASSUME NEW a \in Name, NEW d \in Dataspace, NEW lang \in Language,
             CreateFails(a, d, lang)
      PROVE  TypeOK' /\ Phases'
  <2>1. rcv \in Slot
    BY <1>1 DEF CreateFails, AtRest, Phases
  <2>2. TypeOK'
    BY <1>1, <1>a, <2>1
       DEF TypeOK, CreateFails, AtRest, running
  <2>3. Phases'
    BY <1>1, <2>1 DEF TypeOK, Phases, CreateFails, AtRest, running, NoAction
  <2> QED
    BY <2>2, <2>3
<1>2. ASSUME NEW a \in Name, NEW d \in Dataspace, NEW lang \in Language,
             NEW s \in Slot, Create(a, d, lang, s)
      PROVE  TypeOK' /\ Phases'
  <2>1. rcv \in Slot
    BY <1>2 DEF Create, AtRest, Phases
  <2>2. TypeOK'
    BY <1>2, <1>a, <2>1
       DEF TypeOK, Create, AtRest, running
  <2>3. Phases'
    BY <1>2, <2>1 DEF TypeOK, Phases, Create, AtRest, running, NoAction
  <2> QED
    BY <2>2, <2>3
<1>3. ASSUME NEW a \in Name, NEW c \in Dataspace \cup {Nothing},
             CreateRefused(a, c)
      PROVE  TypeOK' /\ Phases'
  BY <1>3 DEF TypeOK, Phases, CreateRefused, AtRest, session, running
<1>4. ASSUME NEW a \in Name, Delete(a) \/ CloseAction(a)
      PROVE  TypeOK' /\ Phases'
  <2>1. /\ Counted(actions[a].slot, 0, 1)
        /\ actions[a] # NoAction
        /\ actions' = [actions EXCEPT ![a] = NoAction]
        /\ sent' = [sent EXCEPT ![a] = Nothing]
        /\ UNCHANGED <<phase, rcv, binary, python, others, strays, aliased>>
        /\ phase # "closed"
    BY <1>4 DEF Delete, CloseAction, running, AtRest
  <2>2. count' \in [Slot -> 0..MaxCount] /\ content' \in [Slot -> Content]
    BY <2>1, ActionSlot, CountedType
  <2>3. TypeOK'
    BY <1>n, <2>1, <2>2 DEF TypeOK, Content
  <2>4. Phases'
    BY <2>1 DEF TypeOK, Phases, NoAction
  <2> QED
    BY <2>3, <2>4
<1>5. ASSUME NEW a \in Name, NEW k \in Nat, Start(a, k) \/ StartFails(a, k)
      PROVE  TypeOK' /\ Phases'
  <2> DEFINE s == actions[a].slot
  <2>1. s \in Slot /\ phase = "open" /\ binary[s] + python[s] < MaxNesting
    BY <1>5, ActionSlot DEF Start, StartFails, Startable
  <2>2. count' \in [Slot -> 0..MaxCount] /\ content' \in [Slot -> Content]
    <3>1. Refs(actions[a].lang) + k \in Nat
      BY DEF Refs
    <3> QED
      BY <1>5, <2>1, <3>1, CountedType DEF Start, StartFails
  <2>3. /\ UNCHANGED <<phase, actions, rcv, sent, aliased, others, strays>>
        /\ \/ UNCHANGED <<binary, python>>
           \/ binary' = [binary EXCEPT ![s] = @ + 1] /\ UNCHANGED python
           \/ python' = [python EXCEPT ![s] = @ + 1] /\ UNCHANGED binary
    BY <1>5 DEF Start, StartFails, session, running
  <2> HIDE DEF s
  <2>4. TypeOK'
    BY <2>1, <2>2, <2>3 DEF TypeOK, Content
  <2>5. Phases'
    BY <2>1, <2>3 DEF TypeOK, Phases
  <2> QED
    BY <2>4, <2>5
<1>6. ASSUME NEW s \in Slot, EndBinary(s) \/ EndPython(s)
      PROVE  TypeOK' /\ Phases'
  <2>1. count' \in [Slot -> 0..MaxCount] /\ content' \in [Slot -> Content]
    BY <1>6, CountedType DEF EndBinary, EndPython, Refs
  <2>2. /\ UNCHANGED <<phase, actions, rcv, sent, aliased, others, strays>>
        /\ \/ /\ binary[s] > 0 /\ binary' = [binary EXCEPT ![s] = @ - 1]
              /\ UNCHANGED python
           \/ /\ python[s] > 0 /\ python' = [python EXCEPT ![s] = @ - 1]
              /\ UNCHANGED binary
    BY <1>6 DEF EndBinary, EndPython, session
  <2>3. TypeOK'
    BY <2>1, <2>2 DEF TypeOK, Content
  <2>4. Phases'
    BY <2>2 DEF TypeOK, Phases
  <2> QED
    BY <2>3, <2>4
<1>7. ASSUME NEW s \in Slot, Open(s) \/ OtherTakes(s)
      PROVE  TypeOK' /\ Phases'
  <2>1. 1 \in 0..MaxCount
    OBVIOUS
  <2>2. CASE Open(s)
    <3>1. TypeOK'
      BY <2>1, <2>2 DEF TypeOK, Open, running
    <3>2. Phases'
      BY <2>2 DEF TypeOK, Phases, Open, running
    <3> QED
      BY <3>1, <3>2
  <2>3. CASE OtherTakes(s)
    <3>1. TypeOK'
      BY <2>1, <2>3 DEF TypeOK, OtherTakes, session, running
    <3>2. Phases'
      BY <2>3 DEF Phases, OtherTakes, session, running
    <3> QED
      BY <3>1, <3>2
  <2> QED
    BY <1>7, <2>2, <2>3
<1>8. ASSUME NEW s \in Slot, OtherGives(s)
      PROVE  TypeOK' /\ Phases'
  <2>1. count' \in [Slot -> 0..MaxCount] /\ content' \in [Slot -> Content]
    BY <1>8, CountedType DEF OtherGives
  <2> QED
    BY <1>8, <2>1 DEF TypeOK, Phases, Content, OtherGives, session, running
<1>9. ASSUME Close \/ CloseServer
      PROVE  TypeOK' /\ Phases'
  BY <1>9 DEF TypeOK, Phases, Close, CloseServer, AtRest, running
<1>s. ASSUME NEW s \in Slot, OtherServerEnds(s)
      PROVE  TypeOK' /\ Phases'
  BY <1>s DEF TypeOK, Phases, OtherServerEnds, session, running
<1>10. ASSUME NEW d \in Dataspace, Revoke(d)
       PROVE  TypeOK' /\ Phases'
  BY <1>10 DEF TypeOK, Phases, Revoke, session, running
<1>11. CASE UNCHANGED vars
  BY <1>11 DEF TypeOK, Phases, vars, running
<1>12. CASE Next
  BY <1>1, <1>2, <1>3, <1>4, <1>5, <1>6, <1>7, <1>8, <1>9, <1>10, <1>12, <1>s,
     Steps
<1> QED
  BY <1>11, <1>12

LEMMA RunsInActionNext ==
  TypeOK /\ Phases /\ RunsInAction /\ [Next]_vars => RunsInAction'
<1> SUFFICES ASSUME TypeOK, Phases, RunsInAction, [Next]_vars, NEW u \in Slot,
                    binary'[u] + python'[u] > 0
             PROVE  ActionIn(u)'
  BY DEF RunsInAction
<1>1. ASSUME UNCHANGED <<actions, binary, python>> PROVE ActionIn(u)'
  BY <1>1 DEF RunsInAction, ActionIn
<1>2. ASSUME NEW a \in Name, NEW k \in Nat, Start(a, k) PROVE ActionIn(u)'
  <2>1. /\ actions[a].slot # u => binary'[u] = binary[u] /\ python'[u] = python[u]
        /\ actions' = actions
    BY <1>2 DEF Start, session, TypeOK
  <2> QED
    BY <2>1 DEF RunsInAction, ActionIn
<1>3. ASSUME NEW s \in Slot, EndBinary(s) \/ EndPython(s) PROVE ActionIn(u)'
  <2>1. binary[u] + python[u] > 0 /\ actions' = actions
    BY <1>3 DEF EndBinary, EndPython, session, TypeOK
  <2> QED
    BY <2>1 DEF RunsInAction, ActionIn
<1>4. ASSUME NEW a \in Name, Delete(a) \/ CloseAction(a) PROVE FALSE
  BY <1>4 DEF Delete, CloseAction, AtRest, Phases, running
<1>5. ASSUME NEW a \in Name, NEW d \in Dataspace, NEW lang \in Language,
             \/ CreateFails(a, d, lang)
             \/ \E s \in Slot : Create(a, d, lang, s)
      PROVE  FALSE
  BY <1>5 DEF CreateFails, Create, AtRest, running
<1>6. CASE UNCHANGED vars
  BY <1>1, <1>6 DEF vars, running
<1>7. CASE Next
  BY <1>1, <1>2, <1>3, <1>4, <1>5, <1>7, Steps
     DEF CreateRefused, StartFails, Open, OtherTakes, OtherGives,
         OtherServerEnds, Close, CloseServer, Revoke, session, running
<1> QED
  BY <1>6, <1>7

(* The counter of a slot in use has room for one more invocation.          *)
LEMMA Room ==
  ASSUME FewReferences, TypeOK, Exact, NEW s \in Slot
  PROVE  /\ count[s] \in Nat
         /\ Owned(s) => count[s] > 0
         /\ count[s] = 0 => ~Owned(s) /\ binary[s] = 0 /\ python[s] = 0
         /\ binary[s] + python[s] < MaxNesting
              => count[s] + 3 + MaxTransient <= MaxCount
<1>1. binary[s] \in Nat /\ python[s] \in Nat /\ count[s] \in Nat
  BY DEF TypeOK
<1>2. count[s] = (IF Owned(s) THEN 1 ELSE 0) + 3 * binary[s] + python[s]
  BY DEF Exact
<1>3. binary[s] + python[s] < MaxNesting
        => 3 * binary[s] + python[s] + 3 <= 3 * MaxNesting
  BY <1>1, NumbersAssumption
<1> QED
  BY <1>1, <1>2, <1>3, NumbersAssumption DEF FewReferences

(* What owns a slot after the slot of an action has been given up.         *)
LEMMA GoodGivesUp ==
  ASSUME FewReferences, TypeOK, Phases, Good, NEW a \in Name,
         actions[a] # NoAction, Counted(actions[a].slot, 0, 1),
         \A s \in Slot : binary[s] = 0 /\ python[s] = 0,
         actions' = [actions EXCEPT ![a] = NoAction],
         sent' = [sent EXCEPT ![a] = Nothing],
         UNCHANGED <<rcv, binary, python, others, strays>>
  PROVE  Good'
<1> DEFINE s == actions[a].slot
<1>1. s \in Slot /\ Owned(s)
  BY ActionSlot DEF Owned, ActionIn
<1>2. count[s] = 1
  BY <1>1 DEF Good, Exact
<1>3. /\ \A u \in Slot : u # s => count'[u] = count[u] /\ content'[u] = content[u]
      /\ count'[s] = 0 /\ content'[s] = Nothing
  <2>1. count[s] + 0 <= MaxCount /\ 1 <= count[s] + 0 /\ count[s] + 0 - 1 = 0
    BY <1>2, NumbersAssumption
  <2> QED
    BY <1>1, <2>1, CountedExact
<1>4. \A u \in Slot : ActionIn(u)' <=> ActionIn(u) /\ u # s
  BY SlotAssumption DEF ActionIn, TypeOK, Good, Distinct, NoAction
<1>5. rcv # s /\ s \notin others
  BY <1>1 DEF Good, Distinct, ActionIn
<1>6. Distinct'
  <2>1. /\ actions'[a] = NoAction /\ NoAction.slot = NoSlot
        /\ \A b \in Name : b # a => actions'[b] = actions[b]
    BY DEF TypeOK, NoAction
  <2>2. \A b \in Name : actions[b].slot = NoSlot => actions[b] = NoAction
    BY DEF Phases
  <2> QED
    BY <1>4, <2>1, <2>2 DEF Good, Distinct
<1>7. Exact'
  BY <1>1, <1>3, <1>4, <1>5 DEF Good, Exact, Owned
<1>8. Kept'
  BY <1>3, ActionSlot DEF Good, Kept, Distinct, TypeOK
<1>9. Clean'
  BY <1>3, <1>5 DEF Good, Clean, Free
<1> QED
  BY <1>6, <1>7, <1>8, <1>9 DEF Good

LEMMA GoodNext ==
  ASSUME FewReferences, TypeOK, Phases, RunsInAction, Good, ~aliased',
         [Next]_vars
  PROVE  Good'
<1> USE SlotAssumption, NumbersAssumption
<1>r. Distinct /\ Exact /\ Kept /\ Clean
  BY DEF Good
<1>1. ASSUME NEW a \in Name, NEW d \in Dataspace, NEW lang \in Language,
             CreateFails(a, d, lang)
      PROVE  Good'
  BY <1>1 DEF CreateFails
<1>2. ASSUME NEW a \in Name, NEW d \in Dataspace, NEW lang \in Language,
             NEW s \in Slot, Create(a, d, lang, s)
      PROVE  Good'
  <2>1. /\ rcv \in Slot /\ actions[a].slot = NoSlot
        /\ actions'[a] = [slot |-> rcv, lang |-> lang] /\ sent'[a] = d
        /\ \A b \in Name : b # a => actions'[b] = actions[b] /\ sent'[b] = sent[b]
        /\ content'[rcv] = d /\ count'[s] = 1 /\ rcv' = s
        /\ \A u \in Slot : u # rcv => content'[u] = content[u]
        /\ \A u \in Slot : u # s => count'[u] = count[u]
        /\ count[s] = 0 /\ strays' = strays \ {rcv}
        /\ UNCHANGED <<binary, python, others>>
    BY <1>2 DEF Create, AtRest, Phases, TypeOK, running, Free
  <2>2. ~Owned(s) /\ binary[s] = 0 /\ python[s] = 0
    BY <1>2, <1>r, Room DEF Create, Free
  <2>3. \A u \in Slot : ActionIn(u)' <=> ActionIn(u) \/ u = rcv
    BY <2>1 DEF ActionIn
  <2>4. s # rcv /\ count[rcv] > 0 /\ rcv \notin others /\ ~ActionIn(rcv)
    BY <1>r, <2>1, <2>2, Room DEF Owned, Distinct, ActionIn, TypeOK, Phases
  <2>5. Distinct'
    <3>1. \A b \in Name : actions'[b] = NoAction <=> b # a /\ actions[b] = NoAction
      BY <2>1 DEF NoAction
    <3>2. \A b \in Name : b # a => actions[b].slot # rcv /\ actions[b].slot # s
      BY <2>2, <2>4 DEF ActionIn, Owned
    <3> QED
      BY <1>r, <2>1, <2>2, <2>3, <2>4, <3>1, <3>2 DEF Distinct, Owned
  <2>6. Exact'
    BY <1>r, <2>1, <2>2, <2>3, <2>4 DEF Exact, Owned
  <2>7. Kept'
    <3>1. \A b \in Name : b # a => actions[b].slot # rcv
      BY <2>4 DEF ActionIn
    <3> QED
      BY <1>r, <2>1, <3>1, ActionSlot DEF Kept
  <2>8. Clean'
    BY <1>r, <2>1, <2>4 DEF Clean, Free
  <2> QED
    BY <2>5, <2>6, <2>7, <2>8 DEF Good
<1>3. ASSUME NEW a \in Name, NEW c \in Dataspace \cup {Nothing},
             CreateRefused(a, c)
      PROVE  Good'
  <2>1. /\ rcv \in Slot /\ content'[rcv] = c
        /\ \A u \in Slot : u # rcv => content'[u] = content[u]
        /\ strays' = IF c = Nothing THEN strays \ {rcv} ELSE strays \cup {rcv}
        /\ UNCHANGED <<actions, rcv, sent, count, binary, python, others>>
    BY <1>3 DEF CreateRefused, AtRest, Phases, TypeOK, session, running
  <2>2. count[rcv] > 0
    BY <1>r, <2>1, Room DEF Owned
  <2>3. Distinct' /\ Exact'
    BY <1>r, <2>1 DEF Distinct, Exact, Owned, ActionIn
  <2>4. Kept'
    BY <1>r, <2>1, ActionSlot DEF Kept, Distinct
  <2>5. Clean'
    BY <1>r, <2>1, <2>2 DEF Clean, Free
  <2> QED
    BY <2>3, <2>4, <2>5 DEF Good
<1>4. ASSUME NEW a \in Name, Delete(a) \/ CloseAction(a)
      PROVE  Good'
  BY <1>4, GoodGivesUp DEF Delete, CloseAction, AtRest, Phases, running
<1>5. ASSUME NEW a \in Name, NEW k \in Nat,
             \/ k <= MaxTransient /\ Start(a, k)
             \/ k <= 3 + MaxTransient /\ StartFails(a, k)
      PROVE  Good'
  <2> DEFINE s == actions[a].slot
  <2>1. s \in Slot /\ binary[s] + python[s] < MaxNesting /\ Owned(s)
    BY <1>5, ActionSlot DEF Start, StartFails, Startable, Owned, ActionIn
  <2>2. /\ count[s] \in Nat /\ count[s] > 0
        /\ count[s] + 3 + MaxTransient <= MaxCount
    BY <1>r, <2>1, Room
  <2>3. UNCHANGED <<actions, rcv, sent, others, strays>>
    BY <1>5 DEF Start, StartFails, session
  <2>4. /\ \A u \in Slot : u # s => count'[u] = count[u]
        /\ \A u \in Slot : content'[u] = content[u]
        /\ \A u \in Slot : u # s => binary'[u] = binary[u] /\ python'[u] = python[u]
        /\ count'[s] - 3 * binary'[s] - python'[s]
             = count[s] - 3 * binary[s] - python[s]
        /\ count'[s] > 0
    <3>1. CASE k <= MaxTransient /\ Start(a, k)
      <4> DEFINE r == Refs(actions[a].lang)
      <4>1. r \in {1, 3} /\ (r = 3 <=> actions[a].lang = "BINARY")
        BY DEF Refs
      <4>2. Counted(s, r + k, k)
        BY <3>1 DEF Start
      <4> HIDE DEF r
      <4>3. r + k \in Nat /\ count[s] + (r + k) <= MaxCount /\ k <= count[s] + (r + k)
        BY <2>2, <3>1, <4>1
      <4>4. /\ \A u \in Slot : u # s => count'[u] = count[u]
            /\ \A u \in Slot : u # s => content'[u] = content[u]
            /\ count'[s] = count[s] + (r + k) - k
            /\ content'[s] = IF count'[s] = 0 /\ k > 0 THEN Nothing ELSE content[s]
        BY <2>1, <4>2, <4>3, CountedExact
      <4>5. count'[s] = count[s] + r
        BY <2>2, <4>1, <4>4
      <4>6. \/ r = 3 /\ binary' = [binary EXCEPT ![s] = @ + 1] /\ UNCHANGED python
            \/ r = 1 /\ python' = [python EXCEPT ![s] = @ + 1] /\ UNCHANGED binary
        BY <3>1, <4>1 DEF Start
      <4>7. \/ r = 3 /\ binary'[s] = binary[s] + 1 /\ python'[s] = python[s]
            \/ r = 1 /\ python'[s] = python[s] + 1 /\ binary'[s] = binary[s]
        BY <2>1, <4>6 DEF TypeOK
      <4>8. \A u \in Slot : u # s => binary'[u] = binary[u] /\ python'[u] = python[u]
        BY <4>6 DEF TypeOK
      <4>9. binary[s] \in Nat /\ python[s] \in Nat
        BY <2>1 DEF TypeOK
      <4>10. count'[s] - 3 * binary'[s] - python'[s]
               = count[s] - 3 * binary[s] - python[s]
        BY <2>2, <4>5, <4>7, <4>9
      <4> QED
        BY <2>2, <4>1, <4>4, <4>5, <4>8, <4>10
    <3>2. CASE k <= 3 + MaxTransient /\ StartFails(a, k)
      <4>1. Counted(s, k, k) /\ UNCHANGED <<binary, python>>
        BY <3>2 DEF StartFails, running
      <4>2. count[s] + k <= MaxCount /\ k <= count[s] + k /\ count[s] + k - k = count[s]
        BY <2>2, <3>2
      <4> QED
        BY <2>1, <2>2, <4>1, <4>2, CountedExact
    <3> QED
      BY <1>5, <3>1, <3>2
  <2> HIDE DEF s
  <2>5. Distinct' /\ \A u \in Slot : Owned(u)' <=> Owned(u)
    BY <1>r, <2>3 DEF Distinct, Owned, ActionIn
  <2>6. Exact'
    <3>1. ASSUME NEW u \in Slot
          PROVE  count'[u] = (IF Owned(u) THEN 1 ELSE 0) + 3 * binary'[u] + python'[u]
      <4>1. count[u] = (IF Owned(u) THEN 1 ELSE 0) + 3 * binary[u] + python[u]
        BY <1>r DEF Exact
      <4>2. /\ count[u] \in Nat /\ binary[u] \in Nat /\ python[u] \in Nat
            /\ count'[u] \in Nat /\ binary'[u] \in Nat /\ python'[u] \in Nat
        BY TypeNext DEF TypeOK
      <4>3. CASE u = s
        BY <2>4, <4>1, <4>2, <4>3
      <4>4. CASE u # s
        BY <2>4, <4>1, <4>4
      <4> QED
        BY <4>3, <4>4
    <3> QED
      BY <2>5, <3>1 DEF Exact
  <2>7. Kept'
    BY <1>r, <2>3, <2>4, ActionSlot DEF Kept
  <2>8. Clean'
    BY <1>r, <2>1, <2>3, <2>4 DEF Clean, Free
  <2> QED
    BY <2>5, <2>6, <2>7, <2>8 DEF Good
<1>6. ASSUME NEW s \in Slot, EndBinary(s) \/ EndPython(s)
      PROVE  Good'
  <2> DEFINE r == IF EndBinary(s) THEN 3 ELSE 1
  <2>1. /\ Counted(s, 0, r)
        /\ \/ r = 3 /\ binary[s] > 0 /\ UNCHANGED python
              /\ binary' = [binary EXCEPT ![s] = @ - 1]
           \/ r = 1 /\ python[s] > 0 /\ UNCHANGED binary
              /\ python' = [python EXCEPT ![s] = @ - 1]
        /\ UNCHANGED <<actions, rcv, sent, others, strays>>
    BY <1>6 DEF EndBinary, EndPython, session, Refs
  <2> HIDE DEF r
  <2>2. binary[s] \in Nat /\ python[s] \in Nat /\ count[s] \in Nat /\ r \in Nat
    BY <2>1 DEF TypeOK
  <2>3. count[s] = (IF Owned(s) THEN 1 ELSE 0) + 3 * binary[s] + python[s]
    BY <1>r DEF Exact
  <2>4. r > 0 /\ count[s] + 0 <= MaxCount /\ r <= count[s] + 0
    BY <2>1, <2>2, <2>3 DEF TypeOK
  <2>5. /\ \A u \in Slot : u # s => count'[u] = count[u] /\ content'[u] = content[u]
        /\ count'[s] = count[s] - r
        /\ content'[s] \in {content[s], Nothing}
        /\ count'[s] = 0 => content'[s] = Nothing
    BY <2>1, <2>2, <2>4, CountedExact
  <2>6. /\ 3 * binary'[s] + python'[s] = 3 * binary[s] + python[s] - r
        /\ \A u \in Slot : u # s => binary'[u] = binary[u] /\ python'[u] = python[u]
    BY <2>1, <2>2 DEF TypeOK
  <2>7. Distinct' /\ \A u \in Slot : Owned(u)' <=> Owned(u)
    BY <1>r, <2>1 DEF Distinct, Owned, ActionIn
  <2>8. Exact'
    <3>1. ASSUME NEW u \in Slot
          PROVE  count'[u] = (IF Owned(u) THEN 1 ELSE 0) + 3 * binary'[u] + python'[u]
      <4>1. count[u] = (IF Owned(u) THEN 1 ELSE 0) + 3 * binary[u] + python[u]
        BY <1>r DEF Exact
      <4>2. /\ count[u] \in Nat /\ binary[u] \in Nat /\ python[u] \in Nat
            /\ count'[u] \in Nat /\ binary'[u] \in Nat /\ python'[u] \in Nat
        BY TypeNext DEF TypeOK
      <4>3. CASE u = s
        BY <2>2, <2>5, <2>6, <4>1, <4>2, <4>3
      <4>4. CASE u # s
        BY <2>5, <2>6, <4>1, <4>4
      <4> QED
        BY <4>3, <4>4
    <3> QED
      BY <2>7, <3>1 DEF Exact
  <2>9. Kept'
    BY <1>r, <2>1, <2>5, ActionSlot DEF Kept
  <2>10. Clean'
    BY <1>r, <2>1, <2>5 DEF Clean, Free
  <2> QED
    BY <2>7, <2>8, <2>9, <2>10 DEF Good
<1>7. ASSUME NEW s \in Slot, Open(s)
      PROVE  Good'
  <2>1. /\ count'[s] = 1 /\ rcv' = s /\ rcv \notin Slot
        /\ \A u \in Slot : u # s => count'[u] = count[u]
        /\ UNCHANGED <<actions, sent, content, binary, python, others, strays>>
        /\ count[s] = 0
        /\ \A a \in Name : actions[a] = NoAction
    BY <1>7 DEF Open, Phases, TypeOK, running, Free
  <2>2. ~Owned(s) /\ binary[s] = 0 /\ python[s] = 0
    BY <1>7, <1>r, Room DEF Open, Free
  <2>3. Distinct'
    BY <1>r, <2>1, <2>2 DEF Distinct, Owned, ActionIn
  <2>4. Exact'
    BY <1>r, <2>1, <2>2 DEF Exact, Owned, ActionIn
  <2>5. Kept' /\ Clean'
    BY <1>r, <2>1 DEF Kept, Clean, Free
  <2> QED
    BY <2>3, <2>4, <2>5 DEF Good
<1>8. ASSUME NEW s \in Slot, OtherTakes(s)
      PROVE  Good'
  <2>1. /\ count'[s] = 1
        /\ \A u \in Slot : u # s => count'[u] = count[u] /\ content'[u] = content[u]
        /\ UNCHANGED <<actions, rcv, sent, binary, python>>
        /\ others' = others \cup {s} /\ strays' = strays \ {s} /\ count[s] = 0
    BY <1>8 DEF OtherTakes, session, running, TypeOK, Free
  <2>2. ~Owned(s) /\ binary[s] = 0 /\ python[s] = 0
    BY <1>8, <1>r, Room DEF OtherTakes, Free
  <2>3. Distinct'
    BY <1>r, <2>1, <2>2 DEF Distinct, Owned, ActionIn
  <2>4. Exact'
    BY <1>r, <2>1, <2>2 DEF Exact, Owned, ActionIn
  <2>5. Kept'
    BY <1>r, <2>1, <2>2, ActionSlot DEF Kept, Owned, ActionIn
  <2>6. Clean'
    BY <1>r, <2>1, <2>2 DEF Clean, Free, Owned
  <2> QED
    BY <2>3, <2>4, <2>5, <2>6 DEF Good
<1>9. ASSUME NEW s \in Slot, OtherGives(s)
      PROVE  Good'
  <2>1. /\ Counted(s, 0, 1) /\ s \in others /\ others' = others \ {s}
        /\ UNCHANGED <<actions, rcv, sent, binary, python, strays>>
    BY <1>9 DEF OtherGives, session, running
  <2>2. Owned(s) /\ rcv # s /\ ~ActionIn(s)
    BY <1>r, <2>1 DEF Owned, Distinct
  <2>3. count[s] \in Nat /\ count[s] > 0 /\ count[s] <= MaxCount
    BY <1>r, <2>2, Room DEF TypeOK
  <2>4. /\ \A u \in Slot : u # s => count'[u] = count[u] /\ content'[u] = content[u]
        /\ count'[s] = count[s] - 1
        /\ content'[s] \in {content[s], Nothing}
        /\ count'[s] = 0 => content'[s] = Nothing
    BY <2>1, <2>3, CountedExact
  <2>5. Distinct'
    BY <1>r, <2>1 DEF Distinct, ActionIn
  <2>6. Exact'
    BY <1>r, <2>1, <2>2, <2>3, <2>4 DEF Exact, Owned, ActionIn, TypeOK
  <2>7. Kept'
    BY <1>r, <2>1, <2>4, ActionSlot DEF Kept
  <2>8. Clean'
    BY <1>r, <2>1, <2>4 DEF Clean, Free
  <2> QED
    BY <2>5, <2>6, <2>7, <2>8 DEF Good
<1>10. CASE Close
  BY <1>r, <1>10 DEF Close, running, Good, Distinct, Exact, Kept, Clean, Free,
                     Owned, ActionIn
<1>11. CASE CloseServer
  <2>1. /\ rcv \in Slot /\ rcv' = NoSlot
        /\ binary[rcv] = 0 /\ python[rcv] = 0
        /\ \A a \in Name : actions[a] = NoAction
        /\ UNCHANGED <<actions, sent, content, binary, python, others, strays>>
    BY <1>11 DEF CloseServer, Phases, running
  <2>2. /\ Owned(rcv) /\ rcv \notin others /\ ~ActionIn(rcv)
        /\ count[rcv] > 0
    BY <1>r, <2>1, Room DEF Owned, Distinct, ActionIn, NoAction
  <2>3. /\ count'[rcv] = 0
        /\ \A u \in Slot : u # rcv => count'[u] = count[u]
    BY <1>11, <2>1, <2>2 DEF CloseServer, TypeOK
  <2>4. Distinct'
    BY <1>r, <2>1 DEF Distinct, ActionIn
  <2>5. Exact'
    BY <1>r, <2>1, <2>2, <2>3 DEF Exact, Owned, ActionIn
  <2>6. Kept' /\ Clean'
    BY <1>r, <2>1, <2>3 DEF Kept, Clean, Free
  <2> QED
    BY <2>4, <2>5, <2>6 DEF Good
<1>12. ASSUME NEW d \in Dataspace, Revoke(d)
       PROVE  Good'
  <2>1. /\ \A u \in Slot : content'[u] \in {content[u], Nothing}
        /\ \A u \in strays : u \in strays' \/ content'[u] = Nothing
        /\ UNCHANGED <<actions, rcv, sent, count, binary, python, others>>
    BY <1>12 DEF Revoke, session, running, TypeOK
  <2>2. Distinct' /\ Exact'
    BY <1>r, <2>1 DEF Distinct, Exact, Owned, ActionIn
  <2>3. Kept' /\ Clean'
    BY <1>r, <2>1, ActionSlot DEF Kept, Clean, Free
  <2> QED
    BY <2>2, <2>3 DEF Good
<1>s. ASSUME NEW s \in Slot, OtherServerEnds(s)
      PROVE  Good'
  <2>1. /\ s \in others /\ others' = others \ {s} /\ strays' = strays \cup {s}
        /\ count'[s] = 0
        /\ \A u \in Slot : u # s => count'[u] = count[u]
        /\ UNCHANGED <<actions, rcv, sent, content, binary, python>>
    BY <1>s DEF OtherServerEnds, session, running, TypeOK
  <2>2. Owned(s) /\ rcv # s /\ ~ActionIn(s)
    BY <1>r, <2>1 DEF Owned, Distinct
  <2>3. binary[s] = 0 /\ python[s] = 0
    <3>1. binary[s] \in Nat /\ python[s] \in Nat
      BY DEF TypeOK
    <3>2. ~(binary[s] + python[s] > 0)
      BY <2>2 DEF RunsInAction
    <3> QED
      BY <3>1, <3>2
  <2>4. Distinct'
    BY <1>r, <2>1 DEF Distinct, ActionIn
  <2>5. Exact'
    BY <1>r, <2>1, <2>2, <2>3 DEF Exact, Owned, ActionIn
  <2>6. Kept' /\ Clean'
    BY <1>r, <2>1 DEF Kept, Clean, Free
  <2> QED
    BY <2>4, <2>5, <2>6 DEF Good
<1>13. CASE UNCHANGED vars
  BY <1>r, <1>13 DEF vars, running, Good, Distinct, Exact, Kept, Clean, Free,
                     Owned, ActionIn
<1>14. CASE Next
  BY <1>1, <1>2, <1>3, <1>4, <1>5, <1>6, <1>7, <1>8, <1>9, <1>10, <1>11, <1>12,
     <1>14, <1>s, Steps
<1> QED
  BY <1>13, <1>14

-----------------------------------------------------------------------------

(* The types, and what the phases say, need no assumption on the number of *)
(* references: an overflow goes unnoticed.                                 *)
LEMMA Typed == Spec => [](TypeOK /\ Phases)
BY TypeInit, TypeNext, PTL DEF Spec

(* That a receive slot could not be replaced is not forgotten.             *)
LEMMA AliasStays == TypeOK /\ [Next]_vars => (aliased => aliased')
<1> SUFFICES ASSUME TypeOK, [Next]_vars, aliased PROVE aliased'
  OBVIOUS
<1>1. CASE UNCHANGED vars
  BY <1>1 DEF vars
<1>2. CASE Next
  BY <1>2, Steps
     DEF CreateFails, Create, CreateRefused, Delete, CloseAction, Start,
         StartFails, Open, EndBinary, EndPython, OtherTakes, OtherGives,
         OtherServerEnds, Close, CloseServer, Revoke, session
<1> QED
  BY <1>1, <1>2

LEMMA Invariance == FewReferences => (Spec => []IInv)
<1> SUFFICES ASSUME FewReferences PROVE Spec => []IInv
  OBVIOUS
<1>1. Init => IInv
  BY TypeInit, GoodInit DEF IInv, RunsInAction, Init
<1>2. IInv /\ [Next]_vars => IInv'
  <2> SUFFICES ASSUME IInv, [Next]_vars PROVE IInv'
    OBVIOUS
  <2>1. TypeOK' /\ Phases' /\ RunsInAction'
    BY TypeNext, RunsInActionNext DEF IInv
  <2>2. ~aliased' => Good'
    BY AliasStays, GoodNext DEF IInv
  <2> QED
    BY <2>1, <2>2 DEF IInv
<1> QED
  BY <1>1, <1>2, PTL DEF Spec

(* The variables keep their types, whatever overflows.                     *)
THEOREM TypeCorrect == Spec => []TypeOK
BY Typed, PTL

(* No slot has two owners, through any sequence of requests of the client  *)
(* and of other sessions.                                                  *)
THEOREM SlotsHaveOneOwner == FewReferences => (Spec => []OneOwner)
<1>1. IInv => OneOwner
  BY DEF IInv, Good, Distinct, OneOwner
<1> QED
  BY <1>1, Invariance, PTL

(* The counters count the owners and the invocations exactly.              *)
THEOREM CountersExact == FewReferences => (Spec => []RefsExact)
<1>1. IInv => RefsExact
  BY DEF IInv, Good, Exact, RefsExact
<1> QED
  BY <1>1, Invariance, PTL

(* An action keeps the dataspace its client sent.                          *)
THEOREM DataspacesKept == FewReferences => (Spec => []ActionKeepsDataspace)
<1>1. IInv => ActionKeepsDataspace
  BY DEF IInv, Good, Kept, ActionKeepsDataspace
<1> QED
  BY <1>1, Invariance, PTL

(* A session that has ended leaves no slot in use and no capability of an  *)
(* action; only what came last with a refused request may stay in a slot.  *)
THEOREM SessionsLeaveOnlyStrays == FewReferences => (Spec => []OnlyStraysLeft)
<1>1. IInv => OnlyStraysLeft
  <2> SUFFICES ASSUME IInv, phase = "closed", ~aliased, NEW s \in Slot,
                      s \notin others
               PROVE  Free(s) /\ (content[s] = Nothing \/ s \in strays)
    BY DEF OnlyStraysLeft
  <2>1. ~Owned(s)
    BY SlotAssumption DEF IInv, Phases, Owned, ActionIn, NoAction
  <2>2. count[s] = 0
    BY <2>1 DEF IInv, Phases, Good, Exact
  <2> QED
    BY <2>2 DEF IInv, Good, Clean, Free
<1> QED
  BY <1>1, Invariance, PTL

(* With few enough references the slot of an action that runs is in use:   *)
(* the violation of RunningIsUsed comes from the overflow alone.           *)
THEOREM RunningSlotsAreUsed == FewReferences => (Spec => []RunningIsUsed)
<1>1. IInv => RunningIsUsed
  <2> SUFFICES ASSUME IInv, ~aliased, NEW s \in Slot, binary[s] + python[s] > 0
               PROVE  ~Free(s)
    BY DEF RunningIsUsed
  <2>1. count[s] = (IF Owned(s) THEN 1 ELSE 0) + 3 * binary[s] + python[s]
    BY DEF IInv, Good, Exact
  <2>2. binary[s] \in Nat /\ python[s] \in Nat
    BY DEF IInv, TypeOK
  <2> QED
    BY <2>1, <2>2 DEF Free
<1> QED
  BY <1>1, Invariance, PTL

(***************************************************************************)
(* The capabilities implement the table of actions                         *)
(***************************************************************************)

Statuses == {"absent", "valid", "stale"}

(* What a step may do to action a, seen as an entry of the table           *)
StatusStep(a) == \/ Status(a)' = Status(a)
                 \/ Status(a)' \in Table!After[Status(a)]

LEMMA AfterStatus ==
  /\ Table!After["absent"] = {"valid"}
  /\ Table!After["valid"] = {"stale", "absent"}
  /\ Table!After["stale"] = {"absent"}
BY DEF Table!After

(* An action that is deleted, whatever its slot held.                      *)
LEMMA StatusGone ==
  ASSUME NEW a \in Name, actions'[a] = NoAction
  PROVE  StatusStep(a)
<1>1. Status(a)' = "absent"
  BY DEF Status
<1>2. Status(a) \in Statuses
  BY DEF Status, Statuses
<1> QED BY <1>1, <1>2, AfterStatus DEF StatusStep, Statuses

(* An action that stays, and whose dataspace stays or is taken away.       *)
LEMMA StatusFades ==
  ASSUME NEW a \in Name, actions'[a] = actions[a],
         actions[a] # NoAction =>
           content'[actions[a].slot] \in {content[actions[a].slot], Nothing}
  PROVE  StatusStep(a)
<1>1. CASE actions[a] = NoAction
  BY <1>1 DEF StatusStep, Status
<1>2. CASE /\ actions[a] # NoAction
           /\ content'[actions[a].slot] = content[actions[a].slot]
  BY <1>2 DEF StatusStep, Status
<1>3. CASE actions[a] # NoAction /\ content'[actions[a].slot] = Nothing
  <2>1. Status(a)' = "stale" /\ Status(a) \in {"valid", "stale"}
    BY <1>3 DEF Status
  <2> QED BY <2>1, AfterStatus DEF StatusStep
<1> QED BY <1>1, <1>2, <1>3

(* Every step treats every action as the table allows.                     *)
LEMMA NextStatus ==
  ASSUME FewReferences, TypeOK, Phases, Good, ~aliased', [Next]_vars,
         NEW b \in Name
  PROVE  StatusStep(b)
<1> USE SlotAssumption, NumbersAssumption
<1>r. Distinct /\ Exact /\ Kept /\ Clean
  BY DEF Good
<1>b. actions[b] # NoAction => /\ actions[b].slot \in Slot
                              /\ rcv # actions[b].slot
                              /\ actions[b].slot \notin others
                              /\ count[actions[b].slot] > 0
  BY <1>r, ActionSlot, Room DEF Distinct, ActionIn, Owned
<1>1. ASSUME NEW a \in Name, NEW d \in Dataspace, NEW lang \in Language,
             CreateFails(a, d, lang)
      PROVE  StatusStep(b)
  BY <1>1 DEF CreateFails
<1>2. ASSUME NEW a \in Name, NEW d \in Dataspace, NEW lang \in Language,
             NEW s \in Slot, Create(a, d, lang, s)
      PROVE  StatusStep(b)
  <2>1. /\ rcv \in Slot /\ actions[a] = NoAction
        /\ actions'[a] = [slot |-> rcv, lang |-> lang]
        /\ content'[rcv] = d
        /\ \A u \in Slot : u # rcv => content'[u] = content[u]
        /\ b # a => actions'[b] = actions[b]
    BY <1>2 DEF Create, AtRest, Phases, TypeOK
  <2>2. CASE b = a
    <3>1. Status(b)' = "valid" /\ Status(b) = "absent"
      BY <2>1, <2>2, DataspaceAssumption DEF Status, NoAction
    <3> QED BY <3>1, AfterStatus DEF StatusStep
  <2>3. CASE b # a
    BY <1>b, <2>1, <2>3, StatusFades
  <2> QED BY <2>2, <2>3
<1>3. ASSUME NEW a \in Name, NEW c \in Dataspace \cup {Nothing},
             CreateRefused(a, c)
      PROVE  StatusStep(b)
  <2>1. /\ actions' = actions
        /\ \A u \in Slot : u # rcv => content'[u] = content[u]
    BY <1>3 DEF CreateRefused, session, TypeOK
  <2> QED BY <1>b, <2>1, StatusFades
<1>4. ASSUME NEW a \in Name, Delete(a) \/ CloseAction(a)
      PROVE  StatusStep(b)
  <2>1. /\ actions[a] # NoAction /\ Counted(actions[a].slot, 0, 1)
        /\ actions' = [actions EXCEPT ![a] = NoAction]
    BY <1>4 DEF Delete, CloseAction
  <2>2. CASE b = a
    BY <2>1, <2>2, StatusGone DEF TypeOK
  <2>3. CASE b # a
    <3>1. /\ actions[a].slot \in Slot
          /\ actions[b] # NoAction => actions[b].slot # actions[a].slot
      BY <1>r, <2>1, <2>3, ActionSlot DEF Distinct
    <3>2. count[actions[a].slot] > 0 /\ count[actions[a].slot] <= MaxCount
      BY <1>r, <2>1, <3>1, Room DEF Owned, ActionIn, TypeOK
    <3>3. \A u \in Slot : u # actions[a].slot => content'[u] = content[u]
      <4>1. count[actions[a].slot] + 0 <= MaxCount /\ 1 <= count[actions[a].slot] + 0
        BY <3>1, <3>2 DEF TypeOK
      <4> QED BY <2>1, <3>1, <4>1, CountedExact
    <3> QED BY <1>b, <2>1, <2>3, <3>1, <3>3, StatusFades DEF TypeOK
  <2> QED BY <2>2, <2>3
<1>5. ASSUME NEW s \in Slot, NEW t \in Nat, NEW k \in Nat, Counted(s, t, k),
             actions' = actions
      PROVE  StatusStep(b)
  <2>1. \A u \in Slot : content'[u] \in {content[u], Nothing}
    BY <1>5 DEF Counted, TypeOK
  <2> QED BY <1>5, <1>b, <2>1, StatusFades
<1>6. ASSUME NEW a \in Name, NEW k \in Nat, Start(a, k) \/ StartFails(a, k)
      PROVE  StatusStep(b)
  <2>1. actions[a].slot \in Slot /\ actions' = actions
    BY <1>6, ActionSlot DEF Start, StartFails, Startable, session
  <2>2. \E t \in Nat : Counted(actions[a].slot, t, k)
    <3>1. Refs(actions[a].lang) + k \in Nat
      BY DEF Refs
    <3> QED BY <1>6, <3>1 DEF Start, StartFails
  <2> QED BY <1>5, <2>1, <2>2
<1>7. ASSUME NEW s \in Slot, EndBinary(s) \/ EndPython(s) \/ OtherGives(s)
      PROVE  StatusStep(b)
  <2>1. actions' = actions /\ \E k \in Nat : Counted(s, 0, k)
    BY <1>7 DEF EndBinary, EndPython, OtherGives, session, Refs
  <2> QED BY <1>5, <2>1
<1>8. ASSUME NEW s \in Slot, Open(s) \/ OtherTakes(s) \/ OtherServerEnds(s)
      PROVE  StatusStep(b)
  <2>1. /\ actions' = actions /\ (count[s] = 0 \/ s \in others)
        /\ \A u \in Slot : u # s => content'[u] = content[u]
    BY <1>8 DEF Open, OtherTakes, OtherServerEnds, Free, session, TypeOK
  <2> QED BY <1>b, <2>1, StatusFades
<1>9. CASE Close \/ UNCHANGED vars
  BY <1>9, StatusFades DEF Close, vars
<1>10. CASE CloseServer
  <2>1. actions' = actions /\ content' = content
    BY <1>10 DEF CloseServer
  <2> QED BY <1>b, <2>1, StatusFades
<1>11. ASSUME NEW d \in Dataspace, Revoke(d)
       PROVE  StatusStep(b)
  <2>1. /\ actions' = actions
        /\ \A u \in Slot : content'[u] \in {content[u], Nothing}
    BY <1>11 DEF Revoke, session
  <2> QED BY <1>b, <2>1, StatusFades
<1>12. CASE Next
  BY <1>1, <1>2, <1>3, <1>4, <1>6, <1>7, <1>8, <1>9, <1>10, <1>11, <1>12, Steps
<1> QED BY <1>9, <1>12

(* Through all sessions, invocations and revocations, the capabilities     *)
(* behind the actions behave as the table of actions that the engine of    *)
(* invocations works with.                                                 *)
THEOREM TableKept == FewReferences => (Spec => KeepsTable)
<1> SUFFICES ASSUME FewReferences PROVE Spec => KeepsTable
    OBVIOUS
<1> DEFINE table == [a \in Name |-> Status(a)]
           Step == ~aliased' => [Table!Next]_table
<1>0. Spec => []IInv
  BY Invariance
<1>1. IInv /\ [Next]_vars => Step
  <2> SUFFICES ASSUME IInv, [Next]_vars, ~aliased' PROVE Table!Next
      OBVIOUS
  <2>1. TypeOK /\ Phases /\ Good
    BY AliasStays DEF IInv
  <2>2. \A a \in Name : StatusStep(a)
    BY <2>1, NextStatus
  <2>3. \A a \in Name : Status(a)' \in Statuses
    BY DEF Status, Statuses
  <2> QED BY <2>2, <2>3 DEF StatusStep, Table!Next, Statuses
<1> QED BY <1>0, <1>1, PTL DEF Spec, KeepsTable

=============================================================================
