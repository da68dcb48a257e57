--------------------------- MODULE RubyRequireProofs ---------------------------
(***************************************************************************)
(* What require promises, for any number of threads, files and barriers,   *)
(* whatever files require and whichever fail, and whoever is interrupted.  *)
(***************************************************************************)
EXTENDS RubyRequire, SequenceTheorems, TLAPS

USE DEF tableVars, waitVars

-----------------------------------------------------------------------------
(***************************************************************************)
(* Types.                                                                  *)
(***************************************************************************)
WaitsForFile == \A t \in Threads : Waits(t) => wanted[t] \in Files
TypeInv == TypeOK /\ WaitsForFile

LEMMA InitType == Init => TypeInv
BY BudgetAssumption DEF Init, TypeOK, TypeInv, WaitsForFile, Waits

LEMMA NewBarrierUnused ==
    ASSUME \E b \in Barriers : Unused(b)
    PROVE  NewBarrier \in Barriers /\ Unused(NewBarrier)
BY DEF NewBarrier

LEMMA PushType ==
    ASSUME TypeOK, NEW t \in Threads, NEW f \in Files, Push(t, f)
    PROVE  stack' \in [Threads -> Seq(Files)]
<1>1. Append(stack[t], f) \in Seq(Files)
    BY DEF TypeOK
<1> QED
    BY <1>1 DEF TypeOK, Push

LEMMA PopType ==
    ASSUME TypeOK, NEW t \in Threads, stack[t] # <<>>, Pop(t)
    PROVE  stack' \in [Threads -> Seq(Files)]
<1>1. stack[t] \in Seq(Files)
    BY DEF TypeOK
<1>2. SubSeq(stack[t], 1, Len(stack[t]) - 1) \in Seq(Files)
    BY <1>1
<1> QED
    BY <1>2 DEF TypeOK, Pop

LEMMA LastFile ==
    ASSUME TypeOK, NEW t \in Threads, stack[t] # <<>>
    PROVE  Last(stack[t]) \in Files
<1>1. stack[t] \in Seq(Files)
    BY DEF TypeOK
<1> QED
    BY <1>1 DEF Last

LEMMA BeginType ==
    ASSUME TypeOK, NEW t \in Threads, NEW op, Begin(t, op)
    PROVE  ops' \in [Threads -> Nat]
<1>1. ops[t] \in Nat /\ ops[t] > 0
    BY DEF TypeOK, Begin
<1>2. ops[t] - 1 \in Nat
    BY <1>1
<1> QED
    BY <1>2 DEF TypeOK, Begin

LEMMA LockType ==
    ASSUME TypeOK, NEW t \in Threads, NEW f \in Files, LoadLock(t, f)
    PROVE  /\ loading_table' \in [Files -> Barriers \cup {NoBarrier}]
           /\ features' \subseteq Files
           /\ holder' \in [Barriers -> Threads \cup {NoThread}]
           /\ destroyed' \subseteq Barriers
           /\ stack' \in [Threads -> Seq(Files)]
           /\ wanted' \in [Threads -> Files \cup {NoFile}]
           /\ barrier' \in [Threads -> Barriers \cup {NoBarrier}]
<1>1. CASE LoadFirst(t, f)
    <2>1. NewBarrier \in Barriers
        BY <1>1, NewBarrierUnused DEF LoadFirst
    <2>2. stack' \in [Threads -> Seq(Files)]
        BY <1>1, PushType DEF LoadFirst
    <2>3. holder' \in [Barriers -> Threads \cup {NoThread}]
        BY <1>1, <2>1 DEF LoadFirst, TypeOK
    <2>4. loading_table' \in [Files -> Barriers \cup {NoBarrier}]
        BY <1>1, <2>1 DEF LoadFirst, TypeOK
    <2> QED
        BY <1>1, <2>2, <2>3, <2>4 DEF LoadFirst, TypeOK
<1>2. CASE LoadAgain(t, f)
    BY <1>2 DEF LoadAgain, TypeOK
<1>3. CASE LoadWait(t, f)
    BY <1>3 DEF LoadWait, TypeOK
<1> QED
    BY <1>1, <1>2, <1>3 DEF LoadLock

LEMMA UnlockType ==
    ASSUME TypeOK, NEW t \in Threads, NEW f \in Files, NEW done \in BOOLEAN,
           LoadUnlock(t, f, done)
    PROVE  /\ loading_table' \in [Files -> Barriers \cup {NoBarrier}]
           /\ holder' \in [Barriers -> Threads \cup {NoThread}]
           /\ destroyed' \subseteq Barriers
<1>1. loading_table' = [loading_table EXCEPT ![f] = NoBarrier]
    BY DEF LoadUnlock
<1>2. \A c \in Barriers : holder'[c] \in {holder[c], NoThread}
    BY DEF LoadUnlock
<1>3. holder' = [c \in Barriers |-> holder'[c]]
    BY DEF LoadUnlock
<1>4. holder' \in [Barriers -> Threads \cup {NoThread}]
    BY <1>2, <1>3 DEF TypeOK
<1>5. destroyed' \subseteq Barriers
    BY DEF LoadUnlock, TypeOK
<1> QED
    BY <1>1, <1>4, <1>5 DEF TypeOK

LEMMA ReturnType ==
    ASSUME TypeOK, NEW t \in Threads, Return(t)
    PROVE  /\ wanted' \in [Threads -> Files \cup {NoFile}]
           /\ barrier' \in [Threads -> Barriers \cup {NoBarrier}]
BY DEF TypeOK, Return

LEMMA RequireTypes ==
    ASSUME TypeInv, NEW t \in Threads, NEW f \in Files, Require(t, f)
    PROVE  TypeInv'
<1>0. TypeOK /\ WaitsForFile
    BY DEF TypeInv
<1>1. ops' \in [Threads -> Nat]
    BY <1>0, BeginType DEF Require
<1>2. UNCHANGED <<pending, alive, abandoned>>
    BY DEF Require
<1>3. CASE Provided(f)
    BY <1>0, <1>1, <1>2, <1>3 DEF Provided, TypeInv, TypeOK, WaitsForFile, Waits
<1>4. CASE LoadLock(t, f)
    <2>1. TypeOK'
        BY <1>0, <1>1, <1>2, <1>4, LockType DEF TypeOK
    <2>2. \/ UNCHANGED waitVars
          \/ /\ wanted' = [wanted EXCEPT ![t] = f]
             /\ barrier' = [barrier EXCEPT ![t] = loading_table[f]]
        BY <1>4 DEF LoadLock, LoadFirst, LoadAgain, LoadWait
    <2>3. WaitsForFile'
        BY <1>0, <2>2 DEF TypeOK, WaitsForFile, Waits
    <2> QED
        BY <2>1, <2>3 DEF TypeInv
<1> QED
    BY <1>3, <1>4 DEF Require

LEMMA WaitTypes ==
    ASSUME TypeInv, NEW t \in Threads, TakeOver(t) \/ Loaded(t) \/ Interrupted(t)
    PROVE  TypeInv'
<1>0. TypeOK /\ WaitsForFile
    BY DEF TypeInv
<1>1. Return(t) /\ Waits(t)
    BY DEF TakeOver, Loaded, Interrupted
<1>2. /\ wanted' \in [Threads -> Files \cup {NoFile}]
      /\ barrier' \in [Threads -> Barriers \cup {NoBarrier}]
    BY <1>0, <1>1, ReturnType
<1>3. WaitsForFile'
    BY <1>0, <1>1 DEF TypeOK, WaitsForFile, Waits, Return
<1>4. CASE TakeOver(t)
    <2>1. wanted[t] \in Files
        BY <1>0, <1>1 DEF WaitsForFile
    <2>2. stack' \in [Threads -> Seq(Files)]
        BY <1>0, <1>4, <2>1, PushType DEF TakeOver
    <2>3. holder' \in [Barriers -> Threads \cup {NoThread}]
        BY <1>0, <1>4 DEF TakeOver, TypeOK
    <2> QED
        BY <1>0, <1>2, <1>3, <1>4, <2>2, <2>3 DEF TakeOver, TypeInv, TypeOK
<1>5. CASE Loaded(t) \/ Interrupted(t)
    BY <1>0, <1>2, <1>3, <1>5 DEF Loaded, Interrupted, TypeInv, TypeOK
<1> QED
    BY <1>4, <1>5

LEMMA EndTypes ==
    ASSUME TypeInv, NEW t \in Threads, LoadDone(t) \/ LoadFail(t)
    PROVE  TypeInv'
<1>0. TypeOK /\ WaitsForFile
    BY DEF TypeInv
<1> DEFINE f == Last(stack[t])
<1>1. stack[t] # <<>> /\ Pop(t)
    BY DEF LoadDone, LoadFail, Loading
<1>2. f \in Files
    BY <1>0, <1>1, LastFile
<1>3. stack' \in [Threads -> Seq(Files)]
    BY <1>0, <1>1, PopType
<1>4. LoadUnlock(t, f, TRUE) \/ LoadUnlock(t, f, FALSE)
    BY DEF LoadDone, LoadFail
<1>5. /\ loading_table' \in [Files -> Barriers \cup {NoBarrier}]
      /\ holder' \in [Barriers -> Threads \cup {NoThread}]
      /\ destroyed' \subseteq Barriers
    BY <1>0, <1>2, <1>4, UnlockType
<1>6. UNCHANGED <<waitVars, alive, ops>>
    BY DEF LoadDone, LoadFail
<1>7. pending' \in [Threads -> Exceptions \cup {NoException}]
    BY <1>0 DEF LoadDone, LoadFail, TypeOK, Exceptions
<1>8. features' \subseteq Files /\ abandoned' \subseteq Files
    BY <1>0, <1>2 DEF LoadDone, LoadFail, TypeOK
<1>9. WaitsForFile'
    BY <1>0, <1>6 DEF WaitsForFile, Waits
<1> QED
    BY <1>0, <1>3, <1>5, <1>6, <1>7, <1>8, <1>9 DEF TypeInv, TypeOK

\* The steps that leave the files, the barriers and the waiting threads alone.
LEMMA QuietTypes ==
    ASSUME TypeInv, NEW t \in Threads,
           (\E u \in Threads : Interrupt(t, u)) \/ Rescue(t)
    PROVE  TypeInv'
<1>0. TypeOK /\ WaitsForFile
    BY DEF TypeInv
<1>1. UNCHANGED <<tableVars, stack, waitVars, alive, abandoned>>
    BY DEF Interrupt, Rescue
<1>2. ops' \in [Threads -> Nat]
    BY <1>0, BeginType DEF Interrupt, Rescue, TypeOK
<1>3. pending' \in [Threads -> Exceptions \cup {NoException}]
    BY <1>0 DEF Interrupt, Rescue, TypeOK, Exceptions
<1>4. TypeOK'
    BY <1>0, <1>1, <1>2, <1>3 DEF TypeOK
<1> QED
    BY <1>0, <1>1, <1>4 DEF TypeInv, WaitsForFile, Waits

LEMMA FinishTypes ==
    ASSUME TypeInv, NEW t \in Threads, Finish(t)
    PROVE  TypeInv'
<1>0. TypeOK /\ WaitsForFile
    BY DEF TypeInv
<1>1. holder' \in [Barriers -> Threads \cup {NoThread}]
    BY <1>0 DEF Finish, TypeOK
<1>2. \A u \in Threads : pending'[u] \in Exceptions \cup {NoException}
    BY <1>0 DEF Finish, TypeOK, Exceptions
<1>3. pending' \in [Threads -> Exceptions \cup {NoException}]
    BY <1>2 DEF Finish
<1>4. TypeOK'
    BY <1>0, <1>1, <1>3 DEF Finish, TypeOK
<1> QED
    BY <1>0, <1>4 DEF Finish, TypeInv, WaitsForFile, Waits

LEMMA DeadlockTypes == TypeInv /\ Deadlock => TypeInv'
<1> SUFFICES ASSUME TypeInv, Deadlock PROVE TypeInv'
    OBVIOUS
<1>1. pending' \in [Threads -> Exceptions \cup {NoException}]
    BY DEF Deadlock, TypeInv, TypeOK, Exceptions
<1> QED
    BY <1>1 DEF Deadlock, TypeInv, TypeOK, WaitsForFile, Waits

LEMMA TypeStep == TypeInv /\ [Next]_vars => TypeInv'
<1> SUFFICES ASSUME TypeInv, [Next]_vars PROVE TypeInv'
    OBVIOUS
<1>1. ASSUME NEW t \in Threads, Step(t) PROVE TypeInv'
    BY <1>1, RequireTypes, WaitTypes, EndTypes, QuietTypes, FinishTypes
       DEF Step, Progress
<1>2. CASE UNCHANGED vars
    BY <1>2 DEF vars, TypeInv, TypeOK, WaitsForFile, Waits
<1> QED
    BY <1>1, <1>2, DeadlockTypes DEF Next, Terminated

\* The variables of require keep their types.
THEOREM TypeCorrect == Spec => []TypeOK
<1>1. TypeInv => TypeOK
    BY DEF TypeInv
<1> QED
    BY <1>1, InitType, TypeStep, PTL DEF Spec

-----------------------------------------------------------------------------
(***************************************************************************)
(* Stacks of files.                                                        *)
(***************************************************************************)
LoadedOnceBy(t, f) ==
    \A i, j \in DOMAIN stack[t] : stack[t][i] = f /\ stack[t][j] = f => i = j

LEMMA PushLoads ==
    ASSUME TypeOK, NEW t \in Threads, NEW f \in Files, Push(t, f),
           NEW u \in Threads, NEW g \in Files
    PROVE  /\ LoadedBy(u, g)' <=> LoadedBy(u, g) \/ (u = t /\ g = f)
           /\ LoadedOnceBy(u, g) /\ (u = t /\ g = f => ~ LoadedBy(u, g))
                => LoadedOnceBy(u, g)'
<1> DEFINE s == stack[t]
<1>1. s \in Seq(Files) /\ stack'[t] = Append(s, f)
    BY DEF TypeOK, Push
<1>2. u # t => stack'[u] = stack[u]
    BY DEF TypeOK, Push
<1>3. CASE u # t
    BY <1>2, <1>3 DEF LoadedBy, LoadedOnceBy
<1>4. CASE u = t
    <2>1. /\ DOMAIN s = 1..Len(s) /\ Len(s) \in Nat
          /\ DOMAIN Append(s, f) = 1..(Len(s) + 1)
          /\ Append(s, f)[Len(s) + 1] = f
          /\ \A i \in 1..Len(s) : Append(s, f)[i] = s[i]
        BY <1>1, AppendProperties, LenProperties
    <2>2. LoadedBy(u, g)' <=> LoadedBy(u, g) \/ (u = t /\ g = f)
        BY <1>1, <1>4, <2>1 DEF LoadedBy
    <2>3. ASSUME LoadedOnceBy(u, g), g = f => ~ LoadedBy(u, g)
          PROVE  LoadedOnceBy(u, g)'
        <3>1. SUFFICES ASSUME NEW i \in 1..(Len(s) + 1), NEW j \in 1..(Len(s) + 1),
                              Append(s, f)[i] = g, Append(s, f)[j] = g
                       PROVE  i = j
            <4>1. stack'[u] = Append(s, f) /\ DOMAIN stack'[u] = 1..(Len(s) + 1)
                BY <1>1, <1>4, <2>1
            <4> QED
                BY <4>1 DEF LoadedOnceBy
        <3>2. CASE i = Len(s) + 1 \/ j = Len(s) + 1
            BY <1>4, <2>1, <2>3, <3>1, <3>2 DEF LoadedBy
        <3>3. CASE i # Len(s) + 1 /\ j # Len(s) + 1
            <4>1. i \in 1..Len(s) /\ j \in 1..Len(s)
                BY <2>1, <3>3
            <4> QED
                BY <1>4, <2>1, <2>3, <3>1, <4>1 DEF LoadedOnceBy
        <3> QED
            BY <3>2, <3>3
    <2> QED
        BY <1>4, <2>2, <2>3
<1> QED
    BY <1>3, <1>4

LEMMA PopLoads ==
    ASSUME TypeOK, NEW t \in Threads, stack[t] # <<>>, Pop(t),
           NEW u \in Threads, NEW g \in Files
    PROVE  /\ LoadedBy(u, g)' => LoadedBy(u, g)
           /\ (u # t \/ g # Last(stack[t])) /\ LoadedBy(u, g) => LoadedBy(u, g)'
           /\ LoadedOnceBy(u, g) => LoadedOnceBy(u, g)'
           /\ u = t /\ g = Last(stack[t]) /\ LoadedOnceBy(u, g) => ~ LoadedBy(u, g)'
           /\ LoadedBy(t, Last(stack[t]))
<1> DEFINE s == stack[t]
           r == SubSeq(s, 1, Len(s) - 1)
<1>1. s \in Seq(Files) /\ stack'[t] = r
    BY DEF TypeOK, Pop
<1>2. u # t => stack'[u] = stack[u]
    BY DEF TypeOK, Pop
<1>3. Len(s) \in Nat /\ Len(s) # 0 /\ DOMAIN s = 1..Len(s)
    BY <1>1
<1>4. /\ DOMAIN r = 1..(Len(s) - 1)
      /\ \A i \in 1..(Len(s) - 1) : r[i] = s[i]
    <2>1. \A i \in 1..(Len(s) - 1) : s[i] \in Files
        BY <1>1, <1>3
    <2>2. r \in Seq(Files) /\ Len(r) = Len(s) - 1
        BY <1>3, <2>1, SubSeqProperties
    <2>3. \A i \in 1..(Len(s) - 1) : r[i] = s[i]
        BY <1>3, <2>1, SubSeqProperties
    <2> QED
        BY <2>2, <2>3, LenProperties
<1>5. 1..(Len(s) - 1) \subseteq 1..Len(s) /\ Len(s) \in 1..Len(s)
    BY <1>3
<1>6. \A i \in 1..Len(s) : i # Len(s) => i \in 1..(Len(s) - 1)
    BY <1>3
<1>7. LoadedBy(t, Last(s))
    BY <1>3, <1>5 DEF LoadedBy, Last
<1>8. ASSUME u = t, g = Last(s), LoadedOnceBy(u, g)
      PROVE  ~ LoadedBy(u, g)'
    <2> SUFFICES ASSUME NEW i \in 1..(Len(s) - 1), r[i] = g
                 PROVE  FALSE
        BY <1>1, <1>4, <1>8 DEF LoadedBy
    <2>1. s[i] = g /\ i \in DOMAIN s /\ Len(s) \in DOMAIN s
        BY <1>3, <1>4, <1>5
    <2>2. s[Len(s)] = g
        BY <1>8 DEF Last
    <2>3. i = Len(s)
        BY <1>8, <2>1, <2>2 DEF LoadedOnceBy
    <2> QED
        BY <1>3, <2>3
<1>9. CASE u # t
    BY <1>2, <1>7, <1>8, <1>9 DEF LoadedBy, LoadedOnceBy
<1>10. CASE u = t
    <2>1. LoadedBy(u, g)' => LoadedBy(u, g)
        BY <1>1, <1>3, <1>4, <1>5, <1>10 DEF LoadedBy
    <2>2. g # Last(s) /\ LoadedBy(u, g) => LoadedBy(u, g)'
        BY <1>1, <1>3, <1>4, <1>6, <1>10 DEF LoadedBy, Last
    <2>3. LoadedOnceBy(u, g) => LoadedOnceBy(u, g)'
        <3> SUFFICES ASSUME LoadedOnceBy(u, g),
                            NEW i \in DOMAIN stack'[u], NEW j \in DOMAIN stack'[u],
                            stack'[u][i] = g, stack'[u][j] = g
                     PROVE  i = j
            BY DEF LoadedOnceBy
        <3>1. i \in 1..(Len(s) - 1) /\ j \in 1..(Len(s) - 1)
            BY <1>1, <1>4, <1>10
        <3>2. s[i] = g /\ s[j] = g
            BY <1>1, <1>4, <1>10, <3>1
        <3>3. i \in DOMAIN stack[u] /\ j \in DOMAIN stack[u]
            BY <1>3, <1>5, <1>10, <3>1
        <3> QED
            BY <1>10, <3>2, <3>3 DEF LoadedOnceBy
    <2> QED
        BY <1>7, <1>8, <1>10, <2>1, <2>2, <2>3
<1> QED
    BY <1>9, <1>10

-----------------------------------------------------------------------------
(***************************************************************************)
(* The inductive invariant.  For a file of which no load was abandoned, the*)
(* entry in the table, the holder of its barrier, the stack of the holder  *)
(* and those who wait stay together; the last four parts, on barriers, hold*)
(* for every file, since a step for an abandoned file may not reach the    *)
(* barrier of another one.                                                 *)
(***************************************************************************)
Sound == Files \ abandoned

HolderLoads ==
    \A f \in Sound : loading_table[f] # NoBarrier =>
        \E t \in Threads : holder[loading_table[f]] = t /\ LoadedBy(t, f)
LoaderHolds ==
    \A f \in Sound, t \in Threads : LoadedBy(t, f) =>
        /\ loading_table[f] # NoBarrier
        /\ holder[loading_table[f]] = t
        /\ LoadedOnceBy(t, f)
LoadedHasNoEntry ==
    \A f \in Sound : f \in features => loading_table[f] = NoBarrier
WaitEnds ==
    \A t \in Threads : Waits(t) /\ wanted[t] \in Sound =>
        \/ loading_table[wanted[t]] = barrier[t]
        \/ barrier[t] \in destroyed /\ holder[barrier[t]] = NoThread
OwnBarrier ==
    \A f, g \in Files :
        loading_table[f] = loading_table[g] /\ loading_table[f] # NoBarrier => f = g
OwnWait ==
    \A t \in Threads, f \in Files :
        Waits(t) /\ loading_table[f] = barrier[t] => wanted[t] = f
DestroyedLoaded ==
    \A t \in Threads :
        Waits(t) /\ barrier[t] \in destroyed => wanted[t] \in features
EntryIntact == \A f \in Files : loading_table[f] \notin destroyed

Barring == OwnBarrier /\ OwnWait /\ DestroyedLoaded /\ EntryIntact
Serial == HolderLoads /\ LoaderHolds /\ LoadedHasNoEntry /\ WaitEnds
Inv == TypeInv /\ Barring /\ Serial

LEMMA InitInv == Init => Inv
<1> SUFFICES ASSUME Init PROVE Inv
    OBVIOUS
<1>1. TypeInv
    BY InitType
<1>2. \A t \in Threads : ~ Waits(t) /\ DOMAIN stack[t] = {}
    <2>1. \A t \in Threads : stack[t] = <<>>
        BY DEF Init
    <2>2. DOMAIN <<>> = {}
        OBVIOUS
    <2> QED
        BY <2>1, <2>2 DEF Init, Waits
<1>3. Barring
    BY <1>2 DEF Init, Barring, OwnBarrier, OwnWait, DestroyedLoaded, EntryIntact
<1>4. Serial
    BY <1>2 DEF Init, Serial, HolderLoads, LoaderHolds, LoadedHasNoEntry,
                WaitEnds, LoadedBy, Sound
<1> QED
    BY <1>1, <1>3, <1>4 DEF Inv

LEMMA QuietInv ==
    ASSUME Inv, UNCHANGED <<tableVars, stack, waitVars, abandoned>>
    PROVE  Barring' /\ Serial'
<1>1. Barring'
    BY DEF Inv, Barring, OwnBarrier, OwnWait, DestroyedLoaded, EntryIntact, Waits
<1>2. Serial'
    BY DEF Inv, Serial, HolderLoads, LoaderHolds, LoadedHasNoEntry,
           WaitEnds, LoadedBy, LoadedOnceBy, Sound, Waits
<1> QED
    BY <1>1, <1>2

LEMMA FirstInv ==
    ASSUME Inv, NEW t \in Threads, NEW f \in Files, LoadFirst(t, f),
           f \notin features, UNCHANGED abandoned
    PROVE  Barring' /\ Serial'
<1> DEFINE b == NewBarrier
<1>0. TypeOK
    BY DEF Inv, TypeInv
<1>1. b \in Barriers /\ Unused(b) /\ b # NoBarrier
    BY NewBarrierUnused, BarriersAssumption DEF LoadFirst
<1>2. /\ loading_table[f] = NoBarrier
      /\ loading_table' = [loading_table EXCEPT ![f] = b]
      /\ holder' = [holder EXCEPT ![b] = t]
      /\ destroyed' = destroyed \ {b}
      /\ UNCHANGED <<features, waitVars>>
      /\ Push(t, f)
    BY DEF LoadFirst
<1> HIDE DEF b
<1>3. /\ \A g \in Files : loading_table[g] # b
      /\ \A u \in Threads : barrier[u] # b
      /\ holder[b] = NoThread
    BY <1>1 DEF Unused
<1>4. /\ loading_table'[f] = b
      /\ \A g \in Files \ {f} : loading_table'[g] = loading_table[g]
      /\ holder'[b] = t
      /\ \A c \in Barriers \ {b} : holder'[c] = holder[c]
    BY <1>0, <1>1, <1>2 DEF TypeOK
<1>5. \A u \in Threads : (Waits(u)' <=> Waits(u)) /\ wanted'[u] = wanted[u]
                           /\ barrier'[u] = barrier[u]
    BY <1>2 DEF Waits
<1>6. \A u \in Threads, g \in Files :
         /\ LoadedBy(u, g)' <=> LoadedBy(u, g) \/ (u = t /\ g = f)
         /\ LoadedOnceBy(u, g) /\ (u = t /\ g = f => ~ LoadedBy(u, g))
              => LoadedOnceBy(u, g)'
    BY <1>0, <1>2, PushLoads
<1>7. Sound' = Sound
    BY DEF Sound
<1>8. Barring'
    <2>1. OwnBarrier'
        BY <1>3, <1>4 DEF Inv, Barring, OwnBarrier
    <2>2. OwnWait'
        BY <1>3, <1>4, <1>5 DEF Inv, Barring, OwnWait
    <2>3. DestroyedLoaded'
        BY <1>2, <1>5 DEF Inv, Barring, DestroyedLoaded
    <2>4. EntryIntact'
        BY <1>2, <1>4 DEF Inv, Barring, EntryIntact
    <2> QED
        BY <2>1, <2>2, <2>3, <2>4 DEF Barring
<1>9. \A u \in Threads : f \in Sound => ~ LoadedBy(u, f)
    BY <1>2 DEF Inv, Serial, LoaderHolds
<1>10. \A g \in Files : loading_table[g] # NoBarrier
                           => loading_table[g] \in Barriers \ {b}
    BY <1>0, <1>3 DEF TypeOK
<1>11. HolderLoads'
    <2> SUFFICES ASSUME NEW g \in Sound, loading_table'[g] # NoBarrier
                 PROVE  \E u \in Threads :
                            holder'[loading_table'[g]] = u /\ LoadedBy(u, g)'
        BY <1>7 DEF HolderLoads
    <2>1. g \in Files
        BY DEF Sound
    <2>2. CASE g = f
        BY <1>4, <1>6, <2>1, <2>2
    <2>3. CASE g # f
        <3>1. PICK u \in Threads : holder[loading_table[g]] = u /\ LoadedBy(u, g)
            BY <1>4, <2>1, <2>3 DEF Inv, Serial, HolderLoads
        <3> QED
            BY <1>4, <1>6, <1>10, <2>1, <2>3, <3>1
    <2> QED
        BY <2>2, <2>3
<1>12. LoaderHolds'
    <2> SUFFICES ASSUME NEW g \in Sound, NEW u \in Threads, LoadedBy(u, g)'
                 PROVE  /\ loading_table'[g] # NoBarrier
                        /\ holder'[loading_table'[g]] = u
                        /\ LoadedOnceBy(u, g)'
        BY <1>7 DEF LoaderHolds
    <2>1. g \in Files
        BY DEF Sound
    <2>2. CASE g = f
        <3>1. u = t /\ ~ LoadedBy(u, g)
            BY <1>6, <1>9, <2>1, <2>2
        <3>2. LoadedOnceBy(u, g)
            BY <3>1 DEF LoadedBy, LoadedOnceBy
        <3> QED
            BY <1>1, <1>4, <1>6, <2>1, <2>2, <3>1, <3>2
    <2>3. CASE g # f
        <3>1. LoadedBy(u, g)
            BY <1>6, <2>1, <2>3
        <3>2. /\ loading_table[g] # NoBarrier
              /\ holder[loading_table[g]] = u
              /\ LoadedOnceBy(u, g)
            BY <3>1 DEF Inv, Serial, LoaderHolds
        <3> QED
            BY <1>4, <1>6, <1>10, <2>1, <2>3, <3>2
    <2> QED
        BY <2>2, <2>3
<1>13. LoadedHasNoEntry'
    BY <1>2, <1>4, <1>7 DEF Inv, Serial, LoadedHasNoEntry, Sound
<1>14. WaitEnds'
    <2> SUFFICES ASSUME NEW u \in Threads, Waits(u), wanted[u] \in Sound
                 PROVE  \/ loading_table'[wanted[u]] = barrier[u]
                        \/ barrier[u] \in destroyed' /\ holder'[barrier[u]] = NoThread
        BY <1>5, <1>7 DEF WaitEnds
    <2>1. barrier[u] \in Barriers \ {b} /\ wanted[u] \in Files
        BY <1>0, <1>3 DEF TypeOK, Waits, Sound
    <2>2. CASE loading_table[wanted[u]] = barrier[u]
        BY <1>2, <1>4, <2>1, <2>2 DEF Waits
    <2>3. CASE barrier[u] \in destroyed /\ holder[barrier[u]] = NoThread
        BY <1>2, <1>4, <2>1, <2>3
    <2> QED
        BY <2>2, <2>3 DEF Inv, Serial, WaitEnds
<1> QED
    BY <1>8, <1>11, <1>12, <1>13, <1>14 DEF Serial

LEMMA WaitInv ==
    ASSUME Inv, NEW t \in Threads, NEW f \in Files, LoadWait(t, f),
           UNCHANGED abandoned
    PROVE  Barring' /\ Serial'
<1>0. TypeOK
    BY DEF Inv, TypeInv
<1>1. /\ loading_table[f] # NoBarrier
      /\ UNCHANGED <<tableVars, stack>>
      /\ wanted' = [wanted EXCEPT ![t] = f]
      /\ barrier' = [barrier EXCEPT ![t] = loading_table[f]]
    BY DEF LoadWait
<1>2. \A u \in Threads :
         \/ u = t /\ wanted'[u] = f /\ barrier'[u] = loading_table[f]
         \/ u # t /\ wanted'[u] = wanted[u] /\ barrier'[u] = barrier[u]
    BY <1>0, <1>1 DEF TypeOK
<1>3. OwnBarrier' /\ EntryIntact'
    BY <1>1 DEF Inv, Barring, OwnBarrier, EntryIntact
<1>4. OwnWait'
    BY <1>1, <1>2 DEF Inv, Barring, OwnBarrier, OwnWait, Waits
<1>5. DestroyedLoaded'
    BY <1>1, <1>2 DEF Inv, Barring, EntryIntact, DestroyedLoaded, Waits
<1>6. HolderLoads' /\ LoaderHolds' /\ LoadedHasNoEntry'
    BY <1>1 DEF Inv, Serial, HolderLoads, LoaderHolds, LoadedHasNoEntry,
                LoadedBy, LoadedOnceBy, Sound
<1>7. WaitEnds'
    BY <1>1, <1>2 DEF Inv, Serial, WaitEnds, Waits, Sound
<1> QED
    BY <1>3, <1>4, <1>5, <1>6, <1>7 DEF Barring, Serial

\* A thread stops waiting.
LEMMA LeaveInv ==
    ASSUME Inv, NEW t \in Threads, Loaded(t) \/ Interrupted(t)
    PROVE  Barring' /\ Serial'
<1>0. TypeOK
    BY DEF Inv, TypeInv
<1>1. Return(t) /\ UNCHANGED <<tableVars, stack, abandoned>>
    BY DEF Loaded, Interrupted
<1>2. \A u \in Threads : Waits(u)' =>
         Waits(u) /\ wanted'[u] = wanted[u] /\ barrier'[u] = barrier[u]
    BY <1>0, <1>1 DEF TypeOK, Return, Waits
<1>3. OwnBarrier' /\ EntryIntact'
    BY <1>1 DEF Inv, Barring, OwnBarrier, EntryIntact
<1>4. OwnWait' /\ DestroyedLoaded'
    BY <1>1, <1>2 DEF Inv, Barring, OwnWait, DestroyedLoaded
<1>5. HolderLoads' /\ LoaderHolds' /\ LoadedHasNoEntry'
    BY <1>1 DEF Inv, Serial, HolderLoads, LoaderHolds, LoadedHasNoEntry,
                LoadedBy, LoadedOnceBy, Sound
<1>6. WaitEnds'
    BY <1>1, <1>2 DEF Inv, Serial, WaitEnds, Sound
<1> QED
    BY <1>3, <1>4, <1>5, <1>6 DEF Barring, Serial

\* Only the load of an abandoned file is taken over.
LEMMA TakeOverInv ==
    ASSUME Inv, NEW t \in Threads, TakeOver(t)
    PROVE  Barring' /\ Serial'
<1> DEFINE g == wanted[t]
           c == barrier[t]
<1>0. TypeOK
    BY DEF Inv, TypeInv
<1>1. /\ Waits(t) /\ holder[c] = NoThread /\ c \notin destroyed
      /\ holder' = [holder EXCEPT ![c] = t]
      /\ Push(t, g)
      /\ Return(t)
      /\ UNCHANGED <<loading_table, features, destroyed, abandoned>>
    BY DEF TakeOver
<1>2. g \in Files /\ c \in Barriers
    BY <1>0, <1>1 DEF Inv, TypeInv, WaitsForFile, TypeOK, Waits
<1> HIDE DEF g, c
<1>3. \A u \in Threads : Waits(u)' =>
         Waits(u) /\ wanted'[u] = wanted[u] /\ barrier'[u] = barrier[u]
    BY <1>0, <1>1 DEF TypeOK, Return, Waits
<1>4. g \notin Sound
    <2> SUFFICES ASSUME g \in Sound PROVE FALSE
        OBVIOUS
    <2>1. loading_table[g] = c /\ c # NoBarrier
        BY <1>1 DEF Inv, Serial, WaitEnds, g, c, Waits
    <2>2. \E u \in Threads : holder[c] = u
        BY <2>1 DEF Inv, Serial, HolderLoads
    <2> QED
        BY <1>1, <2>2, ThreadsAssumption
<1>5. \A f \in Sound : loading_table[f] # c
    BY <1>1, <1>4 DEF Inv, Barring, OwnWait, Sound, g, c
<1>6. \A d \in Barriers \ {c} : holder'[d] = holder[d]
    BY <1>0, <1>1 DEF TypeOK
<1>7. \A f \in Sound : loading_table[f] # NoBarrier
                          => holder'[loading_table[f]] = holder[loading_table[f]]
    BY <1>0, <1>5, <1>6 DEF TypeOK, Sound
<1>8. \A u \in Threads, f \in Sound :
         /\ LoadedBy(u, f)' <=> LoadedBy(u, f)
         /\ LoadedOnceBy(u, f) => LoadedOnceBy(u, f)'
    BY <1>0, <1>1, <1>2, <1>4, PushLoads DEF Sound
<1>9. Sound' = Sound
    BY <1>1 DEF Sound
<1>10. Barring'
    BY <1>1, <1>3 DEF Inv, Barring, OwnBarrier, OwnWait, DestroyedLoaded, EntryIntact
<1>11. HolderLoads'
    BY <1>1, <1>7, <1>8, <1>9 DEF Inv, Serial, HolderLoads
<1>12. LoaderHolds'
    BY <1>1, <1>7, <1>8, <1>9 DEF Inv, Serial, LoaderHolds
<1>13. LoadedHasNoEntry'
    BY <1>1, <1>9 DEF Inv, Serial, LoadedHasNoEntry
<1>14. WaitEnds'
    <2> SUFFICES ASSUME NEW u \in Threads, Waits(u), wanted[u] \in Sound
                 PROVE  \/ loading_table[wanted[u]] = barrier[u]
                        \/ barrier[u] \in destroyed /\ holder'[barrier[u]] = NoThread
        BY <1>1, <1>3, <1>9 DEF WaitEnds
    <2>1. barrier[u] \in Barriers
        BY <1>0 DEF TypeOK, Waits
    <2> QED
        BY <1>1, <1>6, <2>1 DEF Inv, Serial, WaitEnds
<1> QED
    BY <1>10, <1>11, <1>12, <1>13, <1>14 DEF Serial

LEMMA FinishInv ==
    ASSUME Inv, NEW t \in Threads, Finish(t)
    PROVE  Barring' /\ Serial'
<1>0. TypeOK
    BY DEF Inv, TypeInv
<1>1. /\ stack[t] = <<>>
      /\ holder' = [b \in Barriers |-> IF holder[b] = t THEN NoThread ELSE holder[b]]
      /\ UNCHANGED <<loading_table, features, destroyed, stack, waitVars, abandoned>>
    BY DEF Finish
<1>2. \A f \in Files : ~ LoadedBy(t, f)
    <2>1. DOMAIN <<>> = {}
        OBVIOUS
    <2> QED
        BY <1>1, <2>1 DEF LoadedBy
<1>3. \A u \in Threads, f \in Files : LoadedBy(u, f) /\ loading_table[f] # NoBarrier
            /\ holder[loading_table[f]] = u => holder'[loading_table[f]] = u
    BY <1>0, <1>1, <1>2 DEF TypeOK
<1>4. Barring'
    BY <1>1 DEF Inv, Barring, OwnBarrier, OwnWait, DestroyedLoaded, EntryIntact, Waits
<1>10. \A u \in Threads, f \in Files :
         /\ LoadedBy(u, f)' <=> LoadedBy(u, f)
         /\ LoadedOnceBy(u, f)' <=> LoadedOnceBy(u, f)
    BY <1>1 DEF LoadedBy, LoadedOnceBy
<1>11. Sound' = Sound /\ Sound \subseteq Files
    BY <1>1 DEF Sound
<1>12. HolderLoads'
    BY <1>1, <1>3, <1>10, <1>11 DEF Inv, Serial, HolderLoads
<1>13. LoaderHolds'
    BY <1>1, <1>3, <1>10, <1>11 DEF Inv, Serial, LoaderHolds
<1>6. LoadedHasNoEntry'
    BY <1>1 DEF Inv, Serial, LoadedHasNoEntry, Sound
<1>7. \A b \in Barriers : holder[b] = NoThread => holder'[b] = NoThread
    BY <1>1
<1>8. \A u \in Threads : Waits(u) => barrier[u] \in Barriers
    BY <1>0 DEF TypeOK, Waits
<1>9. WaitEnds'
    BY <1>1, <1>7, <1>8 DEF Inv, Serial, WaitEnds, Waits, Sound
<1> QED
    BY <1>4, <1>6, <1>9, <1>12, <1>13 DEF Serial

LEMMA EndInv ==
    ASSUME Inv, NEW t \in Threads, LoadDone(t) \/ LoadFail(t)
    PROVE  Barring' /\ Serial'
<1> DEFINE f == Last(stack[t])
           c == loading_table[f]
<1>0. TypeOK
    BY DEF Inv, TypeInv
<1>1. stack[t] # <<>> /\ Pop(t) /\ UNCHANGED waitVars
    BY DEF LoadDone, LoadFail, Loading
<1>2. f \in Files
    BY <1>0, <1>1, LastFile
<1>3. /\ loading_table' = [loading_table EXCEPT ![f] = NoBarrier]
      /\ holder' = [d \in Barriers |->
                     IF d = c /\ holder[d] = t THEN NoThread ELSE holder[d]]
    BY DEF LoadDone, LoadFail, LoadUnlock
<1>4. \/ /\ features' = features \cup {f}
         /\ destroyed' = destroyed \cup ({c} \cap Barriers)
         /\ abandoned' = abandoned
      \/ /\ features' = features
         /\ destroyed' = destroyed
         /\ abandoned' = IF Awaited(f) THEN abandoned \cup {f} ELSE abandoned
    BY DEF LoadDone, LoadFail, LoadUnlock
<1>5. \A u \in Threads, g \in Files :
         /\ LoadedBy(u, g)' => LoadedBy(u, g)
         /\ (u # t \/ g # f) /\ LoadedBy(u, g) => LoadedBy(u, g)'
         /\ LoadedOnceBy(u, g) => LoadedOnceBy(u, g)'
         /\ u = t /\ g = f /\ LoadedOnceBy(u, g) => ~ LoadedBy(u, g)'
    BY <1>0, <1>1, PopLoads
<1>6. LoadedBy(t, f)
    BY <1>0, <1>1, <1>2, PopLoads
<1> HIDE DEF f
<1>7. \A g \in Files \ {f} : loading_table'[g] = loading_table[g]
    BY <1>0, <1>3 DEF TypeOK
<1>8. loading_table'[f] = NoBarrier
    BY <1>0, <1>2, <1>3 DEF TypeOK
<1>9. \A g \in Files \ {f} : loading_table[g] # NoBarrier =>
         /\ loading_table[g] # c
         /\ holder'[loading_table[g]] = holder[loading_table[g]]
    <2>1. \A g \in Files \ {f} : loading_table[g] # NoBarrier => loading_table[g] # c
        BY <1>2 DEF Inv, Barring, OwnBarrier
    <2> QED
        BY <1>0, <1>3, <2>1 DEF TypeOK
<1>10. Sound' \subseteq Sound /\ Sound \subseteq Files
    BY <1>4 DEF Sound
<1>11. \A u \in Threads : (Waits(u)' <=> Waits(u)) /\ wanted'[u] = wanted[u]
                            /\ barrier'[u] = barrier[u]
    BY <1>1 DEF Waits
<1>12. Barring'
    <2>1. OwnBarrier'
        BY <1>7, <1>8 DEF Inv, Barring, OwnBarrier
    <2>2. OwnWait'
        BY <1>7, <1>8, <1>11 DEF Inv, Barring, OwnWait, Waits
    <2>3. DestroyedLoaded'
        <3> SUFFICES ASSUME NEW u \in Threads, Waits(u), barrier[u] \in destroyed'
                     PROVE  wanted[u] \in features'
            BY <1>11 DEF DestroyedLoaded
        <3>1. CASE barrier[u] \in destroyed
            BY <1>4, <3>1 DEF Inv, Barring, DestroyedLoaded
        <3>2. CASE barrier[u] \notin destroyed
            BY <1>2, <1>4, <3>2 DEF Inv, Barring, OwnWait
        <3> QED
            BY <3>1, <3>2
    <2>4. EntryIntact'
        <3>1. NoBarrier \notin destroyed'
            BY <1>0, <1>4, BarriersAssumption DEF TypeOK
        <3>2. \A g \in Files \ {f} : loading_table[g] \notin destroyed'
            BY <1>0, <1>4, <1>9, BarriersAssumption
               DEF Inv, Barring, EntryIntact, TypeOK
        <3> QED
            BY <1>7, <1>8, <3>1, <3>2 DEF EntryIntact
    <2> QED
        BY <2>1, <2>2, <2>3, <2>4 DEF Barring
<1>13. HolderLoads'
    <2> SUFFICES ASSUME NEW g \in Sound', loading_table'[g] # NoBarrier
                 PROVE  \E u \in Threads :
                            holder'[loading_table'[g]] = u /\ LoadedBy(u, g)'
        BY DEF HolderLoads
    <2>1. g \in Sound /\ g \in Files \ {f}
        BY <1>8, <1>10
    <2>2. PICK u \in Threads : holder[loading_table[g]] = u /\ LoadedBy(u, g)
        BY <1>7, <2>1 DEF Inv, Serial, HolderLoads
    <2> QED
        BY <1>5, <1>7, <1>9, <2>1, <2>2
<1>14. f \in Sound => /\ c # NoBarrier /\ holder[c] = t /\ LoadedOnceBy(t, f)
                      /\ \A u \in Threads : LoadedBy(u, f) => u = t
    BY <1>6 DEF Inv, Serial, LoaderHolds
<1>15. LoaderHolds'
    <2> SUFFICES ASSUME NEW g \in Sound', NEW u \in Threads, LoadedBy(u, g)'
                 PROVE  /\ loading_table'[g] # NoBarrier
                        /\ holder'[loading_table'[g]] = u
                        /\ LoadedOnceBy(u, g)'
        BY DEF LoaderHolds
    <2>1. g \in Sound /\ g \in Files
        BY <1>10
    <2>2. LoadedBy(u, g)
        BY <1>5, <2>1
    <2>3. g # f
        BY <1>5, <1>14, <2>1, <2>2
    <2>4. /\ loading_table[g] # NoBarrier
          /\ holder[loading_table[g]] = u
          /\ LoadedOnceBy(u, g)
        BY <2>1, <2>2 DEF Inv, Serial, LoaderHolds
    <2> QED
        BY <1>5, <1>7, <1>9, <2>1, <2>3, <2>4
<1>16. LoadedHasNoEntry'
    BY <1>4, <1>7, <1>8, <1>10 DEF Inv, Serial, LoadedHasNoEntry
<1>17. WaitEnds'
    <2> SUFFICES ASSUME NEW u \in Threads, Waits(u), wanted[u] \in Sound'
                 PROVE  \/ loading_table'[wanted[u]] = barrier[u]
                        \/ barrier[u] \in destroyed' /\ holder'[barrier[u]] = NoThread
        BY <1>11 DEF WaitEnds
    <2>1. barrier[u] \in Barriers /\ wanted[u] \in Sound /\ wanted[u] \in Files
        BY <1>0, <1>10 DEF TypeOK, Waits
    <2>2. CASE barrier[u] \in destroyed /\ holder[barrier[u]] = NoThread
        BY <1>3, <1>4, <2>1, <2>2
    <2>3. CASE loading_table[wanted[u]] = barrier[u] /\ wanted[u] # f
        BY <1>7, <2>1, <2>3
    <2>4. CASE loading_table[wanted[u]] = barrier[u] /\ wanted[u] = f
        <3>1. Awaited(f)
            BY <2>4 DEF Awaited
        <3>2. f \notin abandoned'
            BY <2>4 DEF Sound
        <3>3. destroyed' = destroyed \cup ({c} \cap Barriers)
            BY <1>4, <3>1, <3>2
        <3>4. holder'[barrier[u]] = NoThread
            BY <1>3, <1>14, <2>1, <2>4
        <3> QED
            BY <2>1, <2>4, <3>3, <3>4
    <2> QED
        BY <2>1, <2>2, <2>3, <2>4 DEF Inv, Serial, WaitEnds
<1> QED
    BY <1>12, <1>13, <1>15, <1>16, <1>17 DEF Serial

LEMMA InvStep == Inv /\ [Next]_vars => Inv'
<1> SUFFICES ASSUME Inv, [Next]_vars PROVE Inv'
    OBVIOUS
<1>1. TypeInv'
    BY TypeStep DEF Inv
<1>2. ASSUME NEW t \in Threads, NEW f \in Files, Require(t, f)
      PROVE  Barring' /\ Serial'
    <2>1. UNCHANGED abandoned
        BY <1>2 DEF Require
    <2>2. CASE Provided(f) \/ LoadAgain(t, f)
        BY <2>1, <2>2, QuietInv DEF Provided, LoadAgain
    <2>3. CASE LoadFirst(t, f) /\ f \notin features
        BY <2>1, <2>3, FirstInv
    <2>4. CASE LoadWait(t, f)
        BY <2>1, <2>4, WaitInv
    <2> QED
        BY <1>2, <2>2, <2>3, <2>4 DEF Require, LoadLock
<1>3. ASSUME NEW t \in Threads, (\E u \in Threads : Interrupt(t, u)) \/ Rescue(t)
      PROVE  Barring' /\ Serial'
    BY <1>3, QuietInv DEF Interrupt, Rescue
<1>4. ASSUME NEW t \in Threads, Step(t) PROVE Barring' /\ Serial'
    BY <1>2, <1>3, <1>4, FinishInv, TakeOverInv, LeaveInv, EndInv
       DEF Step, Progress
<1>5. ASSUME Deadlock \/ UNCHANGED vars PROVE Barring' /\ Serial'
    BY <1>5, QuietInv DEF Deadlock, vars
<1> QED
    BY <1>1, <1>4, <1>5 DEF Next, Terminated, Inv

-----------------------------------------------------------------------------
LEMMA InvImplies == Inv => LoadsSerialized /\ LoadedOnce /\ WaitedIsLoading
<1> SUFFICES ASSUME Inv PROVE LoadsSerialized /\ LoadedOnce /\ WaitedIsLoading
    OBVIOUS
<1>0. TypeOK
    BY DEF Inv, TypeInv
<1>1. LoadsSerialized
    <2> SUFFICES ASSUME NEW t \in Threads, NEW u \in Threads,
                        NEW i \in DOMAIN stack[t], NEW j \in DOMAIN stack[u],
                        stack[t][i] = stack[u][j], stack[t][i] \notin abandoned
                 PROVE  t = u /\ i = j
        BY DEF LoadsSerialized
    <2> DEFINE f == stack[t][i]
    <2>1. stack[t] \in Seq(Files)
        BY <1>0 DEF TypeOK
    <2>2. f \in Files
        BY <2>1
    <2>3. f \in Sound /\ LoadedBy(t, f) /\ LoadedBy(u, f)
        BY <2>2 DEF Sound, LoadedBy
    <2>4. t = u /\ LoadedOnceBy(t, f)
        BY <2>3 DEF Inv, Serial, LoaderHolds
    <2> QED
        BY <2>4 DEF LoadedOnceBy
<1>2. LoadedOnce
    BY <1>0 DEF LoadedOnce, Inv, Serial, LoaderHolds, LoadedHasNoEntry, Sound, TypeOK
<1>3. WaitedIsLoading
    <2> SUFFICES ASSUME NEW t \in Threads, Waits(t), wanted[t] \notin abandoned,
                        holder[barrier[t]] # NoThread
                 PROVE  /\ loading_table[wanted[t]] = barrier[t]
                        /\ LoadedBy(holder[barrier[t]], wanted[t])
        BY DEF WaitedIsLoading
    <2>1. wanted[t] \in Sound
        BY DEF Inv, TypeInv, WaitsForFile, Sound
    <2>2. loading_table[wanted[t]] = barrier[t]
        BY <2>1 DEF Inv, Serial, WaitEnds
    <2> QED
        BY <2>1, <2>2 DEF Inv, Serial, HolderLoads, Waits
<1> QED
    BY <1>1, <1>2, <1>3

LEMMA RequireInvariant == Spec => []Inv
<1> QED
    BY InitInv, InvStep, PTL DEF Spec

(***************************************************************************)
(* As long as no load of a file has been abandoned:                        *)
(***************************************************************************)
\* One thread at a time loads it, and not within its own load.
THEOREM RequireSerial == Spec => []LoadsSerialized
<1> QED
    BY RequireInvariant, InvImplies, PTL

\* It is not loaded again once it has been loaded.
THEOREM FilesLoadedOnce == Spec => []LoadedOnce
<1> QED
    BY RequireInvariant, InvImplies, PTL

\* Those who wait for it wait for the thread that loads it, at the barrier that
\* the table has for it.
THEOREM WaitsForLoader == Spec => []WaitedIsLoading
<1> QED
    BY RequireInvariant, InvImplies, PTL

LEMMA ReturnStep ==
    ASSUME Inv, [Next]_vars, NEW t \in Threads,
           Waits(t), ~ Waits(t)', pending[t] = NoException, stack'[t] = stack[t]
    PROVE  wanted[t] \in features
<1>0. TypeOK
    BY DEF Inv, TypeInv
<1>1. CASE Loaded(t)
    BY <1>1 DEF Inv, Barring, DestroyedLoaded, Loaded
<1>2. CASE TakeOver(t)
    <2>1. stack'[t] = Append(stack[t], wanted[t]) /\ stack[t] \in Seq(Files)
        BY <1>0, <1>2 DEF TakeOver, Push, TypeOK
    <2>2. wanted[t] \in Files
        BY DEF Inv, TypeInv, WaitsForFile
    <2>3. Len(stack'[t]) = Len(stack[t]) + 1 /\ Len(stack[t]) \in Nat
        BY <2>1, <2>2, AppendProperties, LenProperties
    <2> QED
        BY <2>3
<1>3. CASE Interrupted(t)
    BY <1>3 DEF Interrupted
<1>4. CASE UNCHANGED barrier
    BY <1>4 DEF Waits
<1>5. ASSUME NEW u \in Threads, u # t, TakeOver(u) \/ Loaded(u) \/ Interrupted(u)
      PROVE  FALSE
    BY <1>0, <1>5 DEF TakeOver, Loaded, Interrupted, Return, Waits, TypeOK
<1>6. ASSUME NEW u \in Threads, NEW f \in Files, Require(u, f)
      PROVE  FALSE
    <2>1. u # t
        BY <1>6 DEF Require, Begin, Running
    <2>2. \/ barrier' = barrier
          \/ barrier' = [barrier EXCEPT ![u] = loading_table[f]]
        BY <1>6 DEF Require, Provided, LoadLock, LoadFirst, LoadAgain, LoadWait
    <2>3. barrier'[t] = barrier[t]
        BY <1>0, <2>1, <2>2 DEF TypeOK
    <2> QED
        BY <2>3 DEF Waits
<1>7. ASSUME NEW u \in Threads, Step(u)
      PROVE  \/ UNCHANGED barrier
             \/ TakeOver(u) \/ Loaded(u) \/ Interrupted(u)
    BY <1>6, <1>7 DEF Step, Progress, Interrupt, Rescue, Finish, LoadDone, LoadFail
<1>8. [Next]_vars => UNCHANGED barrier \/ \E u \in Threads : Step(u)
    BY DEF Next, Deadlock, Terminated, vars
<1> QED
    BY <1>1, <1>2, <1>3, <1>4, <1>5, <1>7, <1>8

\* Whatever has failed before: a require that has waited and returns false finds
\* the file loaded.
THEOREM ReturnsLoaded == Spec => WaitReturnsLoaded
<1>1. Inv /\ [Next]_vars =>
        [\A t \in Threads :
           Waits(t) /\ ~ Waits(t)' /\ pending[t] = NoException /\ stack'[t] = stack[t]
              => wanted[t] \in features]_vars
    BY ReturnStep
<1> QED
    BY <1>1, InitInv, InvStep, PTL DEF Spec, WaitReturnsLoaded
=============================================================================
