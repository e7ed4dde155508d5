---------------------------- MODULE LogSyncProofs ----------------------------
(***************************************************************************)
(* Theorems about LogSync, for any set of threads and of messages: log     *)
(* never lets two synchronised threads write at a time, and it leaves the  *)
(* message register as it found it.                                        *)
(***************************************************************************)
EXTENDS LogSync, TLAPS

(* The semaphore is a token that exists once the benchmark client has      *)
(* started: it is in exactly one of three places, the semaphore, the one   *)
(* thread in the section, or the thread that ended there.                  *)
OneToken ==
  /\ OneWriter
  /\ \A t \in Thread : at[t] \in {"down", "up"} => t \in Synced
  /\ \A t \in Thread : at[t] = "lost" => \A u \in Thread : ~InSection(u)
  /\ at[Starter] = "new" =>
       /\ sema = 0
       /\ \A t \in Thread : ~InSection(t) /\ at[t] # "lost"

(* From its start to its end log has the register in store.                *)
Saved ==
  \A t \in Thread :
    /\ at[t] \in {"new", "run"} => mr[t] = meant[t]
    /\ at[t] \in {"down", "print", "up", "restore"} => store[t] = meant[t]

IInv == TypeOK /\ OneToken /\ Saved

LEMMA IInvInit == Init => IInv
<1> SUFFICES ASSUME Init PROVE IInv
  OBVIOUS
<1> USE ThreadAssumption, MessageAssumption
<1>1. TypeOK
  BY DEF Init, TypeOK, Place
<1>2. OneToken
  BY DEF Init, OneToken, OneWriter, InSection
<1>3. Saved
  BY DEF Init, Saved
<1> QED
  BY <1>1, <1>2, <1>3 DEF IInv

(* The places of the threads after a step of thread t.                     *)
LEMMA GoesPlaces ==
  ASSUME TypeOK, NEW t \in Thread, NEW from, NEW to \in Place,
         Goes(t, from, to)
  PROVE  /\ at' \in [Thread -> Place]
         /\ at[t] = from /\ at'[t] = to
         /\ \A u \in Thread : u # t => at'[u] = at[u]
BY DEF TypeOK, Goes

LEMMA IInvNext == IInv /\ [Next]_vars => IInv'
<1> SUFFICES ASSUME IInv, [Next]_vars PROVE IInv'
  OBVIOUS
<1> USE ThreadAssumption, MessageAssumption
<1>t. TypeOK /\ OneToken /\ Saved
  BY DEF IInv
<1>1. ASSUME NEW t \in Thread, Begin(t) PROVE IInv'
  <2>1. TypeOK'
    BY <1>t, <1>1 DEF TypeOK, OneToken, Begin, Goes, Place
  <2>2. OneToken'
    BY <1>t, <1>1 DEF TypeOK, OneToken, OneWriter, InSection, Begin, Goes
  <2>3. Saved'
    BY <1>t, <1>1 DEF TypeOK, Saved, Begin, Goes
  <2> QED
    BY <2>1, <2>2, <2>3 DEF IInv
<1>2. ASSUME NEW t \in Thread, NEW m \in Message, Prepare(t, m) PROVE IInv'
  <2>1. TypeOK'
    BY <1>t, <1>2 DEF TypeOK, Prepare
  <2>2. OneToken'
    BY <1>t, <1>2 DEF OneToken, OneWriter, InSection, Prepare
  <2>3. Saved'
    BY <1>t, <1>2 DEF TypeOK, Saved, Prepare
  <2> QED
    BY <2>1, <2>2, <2>3 DEF IInv
<1>3. ASSUME NEW T \in SUBSET Thread, End(T), Starter \in T => at[Starter] = "run"
      PROVE  IInv'
  <2>1. /\ at' \in [Thread -> Place]
        /\ \A t \in Thread : IF t \notin T THEN at'[t] = at[t]
                             ELSE at'[t] = IF InSection(t) THEN "lost" ELSE "ended"
    BY <1>t, <1>3 DEF TypeOK, End, Place
  <2>2. TypeOK'
    BY <1>t, <1>3, <2>1 DEF TypeOK, End
  <2>3. \A t \in Thread : /\ InSection(t)' => InSection(t)
                          /\ at'[t] = "lost" => InSection(t) \/ at[t] = "lost"
                          /\ at'[t] = "lost" => ~InSection(t)'
                          /\ at'[t] \in Place \ {"lost", "ended"} => at'[t] = at[t]
    BY <2>1 DEF InSection, Place
  <2>4. \A t \in Thread : InSection(t) => InSection(t)' \/ at'[t] = "lost"
    BY <2>1 DEF InSection
  <2>5. UNCHANGED <<sema, mr, store, meant>>
    BY <1>3 DEF End
  <2>6. OneWriter'
    <3>1. \A t \in Thread : at[t] = "lost" => at'[t] = "lost"
      BY <1>3, <2>1 DEF End
    <3>2. at'[Starter] # "new" => at[Starter] # "new"
      BY <1>3, <2>1
    <3> QED
      BY <1>t, <2>3, <2>4, <2>5, <3>1, <3>2 DEF OneToken, OneWriter
  <2>7. at'[Starter] = "new" => at[Starter] = "new"
    BY <2>3 DEF Place
  <2>8. \A t \in Thread : at'[t] = "lost" => \A u \in Thread : ~InSection(u)'
    BY <1>t, <2>3 DEF OneToken, OneWriter
  <2>9. OneToken'
    BY <1>t, <2>1, <2>3, <2>5, <2>6, <2>7, <2>8 DEF OneToken, Place
  <2>10. Saved'
    BY <1>t, <2>3, <2>5 DEF Saved, Place
  <2> QED
    BY <2>2, <2>9, <2>10 DEF IInv
<1>4. ASSUME NEW t \in Thread, Start(t) PROVE IInv'
  <2>0. PICK to \in {"down", "print"} :
          /\ Goes(t, "run", to)
          /\ to = "down" <=> t \in Synced
    BY <1>4 DEF Start
  <2>1. TypeOK'
    BY <1>t, <1>4, <2>0, GoesPlaces DEF TypeOK, Start, Place
  <2>2. OneToken'
    BY <1>t, <1>4, <2>0, GoesPlaces DEF OneToken, OneWriter, InSection, Start, Place
  <2>3. Saved'
    BY <1>t, <1>4, <2>0, GoesPlaces DEF TypeOK, Saved, Start, Place
  <2> QED
    BY <2>1, <2>2, <2>3 DEF IInv
<1>5. ASSUME NEW t \in Thread, Down(t) PROVE IInv'
  <2>1. TypeOK'
    BY <1>t, <1>5, GoesPlaces DEF TypeOK, Down, SystemCall, Place
  <2>2. OneToken'
    BY <1>t, <1>5, GoesPlaces
       DEF TypeOK, OneToken, OneWriter, InSection, Down, Place
  <2>3. Saved'
    BY <1>t, <1>5, GoesPlaces DEF TypeOK, Saved, Down, SystemCall, Place
  <2> QED
    BY <2>1, <2>2, <2>3 DEF IInv
<1>6. ASSUME NEW t \in Thread, Write(t) PROVE IInv'
  <2>0. PICK to \in {"up", "restore"} :
          /\ Goes(t, "print", to)
          /\ to = "up" <=> t \in Synced
    BY <1>6 DEF Write
  <2>1. TypeOK'
    BY <1>t, <1>6, <2>0, GoesPlaces DEF TypeOK, Write, SystemCall, Place
  <2>2. OneToken'
    BY <1>t, <1>6, <2>0, GoesPlaces
       DEF OneToken, OneWriter, InSection, Write, Place
  <2>3. Saved'
    BY <1>t, <1>6, <2>0, GoesPlaces DEF TypeOK, Saved, Write, SystemCall, Place
  <2> QED
    BY <2>1, <2>2, <2>3 DEF IInv
<1>7. ASSUME NEW t \in Thread, Up(t) PROVE IInv'
  <2>0. sema = 0 /\ InSection(t)
    BY <1>t, <1>7, GoesPlaces
       DEF TypeOK, OneToken, OneWriter, InSection, Up, Place
  <2>1. TypeOK'
    BY <1>t, <1>7, <2>0, GoesPlaces DEF TypeOK, Up, SystemCall, Place
  <2>2. OneToken'
    BY <1>t, <1>7, <2>0, GoesPlaces
       DEF OneToken, OneWriter, InSection, Up, Place
  <2>3. Saved'
    BY <1>t, <1>7, GoesPlaces DEF TypeOK, Saved, Up, SystemCall, Place
  <2> QED
    BY <2>1, <2>2, <2>3 DEF IInv
<1>8. ASSUME NEW t \in Thread, Restore(t) PROVE IInv'
  <2>1. TypeOK'
    BY <1>t, <1>8, GoesPlaces DEF TypeOK, Restore, Place
  <2>2. OneToken'
    BY <1>t, <1>8, GoesPlaces DEF OneToken, OneWriter, InSection, Restore, Place
  <2>3. Saved'
    BY <1>t, <1>8, GoesPlaces DEF TypeOK, Saved, Restore, Place
  <2> QED
    BY <2>1, <2>2, <2>3 DEF IInv
<1>9. CASE UNCHANGED vars
  BY <1>t, <1>9 DEF vars, IInv, TypeOK, OneToken, OneWriter, InSection, Saved
<1>10. CASE Next
  BY <1>1, <1>2, <1>3, <1>4, <1>5, <1>6, <1>7, <1>8, <1>10
     DEF Next, Log, ClientEnds, OtherEnds
<1> QED
  BY <1>9, <1>10

(* The inductive invariant holds in every reachable state.                 *)
LEMMA Invariance == Spec => []IInv
BY IInvInit, IInvNext, PTL DEF Spec

(* The variables keep their types; above all the semaphore is 0 or 1,      *)
(* although it is created with 0 and increased from two places.            *)
THEOREM TypeCorrect == Spec => []TypeOK
<1>1. IInv => TypeOK
  BY DEF IInv
<1> QED
  BY <1>1, Invariance, PTL

(* Messages of threads that share the semaphore are never interleaved.     *)
THEOREM WritersTakeTurns == Spec => []OneWriter
<1>1. IInv => OneWriter
  BY DEF IInv, OneToken
<1> QED
  BY <1>1, Invariance, PTL

(* A call of log leaves the message its thread holds as it was.            *)
THEOREM MessageSurvives == Spec => []RegisterKept
<1>1. IInv => RegisterKept
  BY DEF IInv, Saved, RegisterKept
<1> QED
  BY <1>1, Invariance, PTL

=============================================================================
