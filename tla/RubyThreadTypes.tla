--------------------------- MODULE RubyThreadTypes ---------------------------
(***************************************************************************)
(* Type correctness of RubyThread, for every set of threads and mutexes    *)
(* and every program.                                                      *)
(***************************************************************************)
EXTENDS RubyThread, TLAPS, FiniteSetTheorems

\* The points at which a thread is in rb_mutex_lock.
LockingPoints ==
    LockPoints \cup {"mutex_lock", "lock_loop", "lock_check", "lock_exit"}

\* The argument of the call a thread is in is of the kind the call takes.
ArgOK ==
    \A t \in Threads :
        /\ call[t] \in MutexSleepCalls \cup LockCalls => arg[t] \in Mutexes
        /\ call[t] \in JoinCalls => arg[t] \in Threads
        /\ pc[t] \in LockingPoints => call[t] \in LockCalls

TypeInv == TypeOK /\ ArgOK

USE DEF threadVars, mutexVars, condVars, signalVars, listVars

LEMMA PointsLemma ==
    /\ LockPoints \subseteq Points
    /\ SleepPoints \subseteq Points
    /\ GVLPoints \subseteq Points
BY DEF Points

LEMMA LockInterruptType ==
    ASSUME TypeOK, NEW S \in SUBSET Threads, LockInterrupt(S)
    PROVE  /\ cond_waiting' \in [Mutexes -> Nat]
           /\ cond_notified' \in [Mutexes -> Int]
BY DEF TypeOK, LockInterrupt

LEMMA AwakenedType ==
    ASSUME TypeOK, NEW S, NEW p \in [Threads -> Points]
    PROVE  /\ Awakened(S, p) \in [Threads -> Points]
           /\ \A u \in Threads : Awakened(S, p)[u] \in LockingPoints =>
                  p[u] \in LockingPoints \/ pc[u] \in LockingPoints
BY DEF TypeOK, Awakened, Points, LockPoints, SleepPoints, LockingPoints

LEMMA NotifyType ==
    ASSUME TypeOK, NEW m \in Mutexes, NEW W \in Signalled(m),
           NEW p \in [Threads -> Points]
    PROVE  /\ Notify(W, p) \in [Threads -> Points]
           /\ \A u \in Threads : Notify(W, p)[u] \in LockingPoints =>
                  p[u] \in LockingPoints \/ pc[u] \in LockingPoints
BY DEF TypeOK, Notify, Signalled, Waiters, Points, LockPoints, LockingPoints

LEMMA LockTypes ==
    ASSUME TypeInv, NEW t \in Threads, NEW m \in Mutexes,
           Lock(t, m) \/ TryLock(t, m)
    PROVE  TypeInv'
<1>1. CASE Lock(t, m)
  BY <1>1 DEF TypeInv, TypeOK, ArgOK, Lock, Ready, Running, Spend, Points,
          LockingPoints, LockPoints, LockCalls, GVLPoints, JoinCalls, MutexSleepCalls,
          SleepCalls
<1>2. CASE TryLock(t, m)
  BY <1>2 DEF TypeInv, TypeOK, ArgOK, TryLock, Take, Ready, Running, Spend
<1> QED BY <1>1, <1>2

LEMMA ReleaseType ==
    ASSUME TypeOK, NEW t \in Threads, NEW m \in Mutexes,
           NEW p \in [Threads -> Points], Release(t, m, p)
    PROVE  /\ pc' \in [Threads -> Points]
           /\ \A u \in Threads : pc'[u] \in LockingPoints =>
                  p[u] \in LockingPoints \/ pc[u] \in LockingPoints
           /\ owner' \in [Mutexes -> Threads \cup {NoThread}]
           /\ keeping' \in [Threads -> SUBSET Mutexes]
           /\ cond_waiting' \in [Mutexes -> Nat]
           /\ cond_notified' \in [Mutexes -> Int]
<1>1. PICK W \in Signalled(m) : pc' = Notify(W, p)
  BY DEF Release
<1>2. /\ owner' \in [Mutexes -> Threads \cup {NoThread}]
      /\ keeping' \in [Threads -> SUBSET Mutexes]
      /\ cond_waiting' \in [Mutexes -> Nat]
      /\ cond_notified' \in [Mutexes -> Int]
  BY DEF TypeOK, Release
<1> QED BY <1>1, <1>2, NotifyType

LEMMA UnlockType ==
    ASSUME TypeInv, NEW t \in Threads, NEW m \in Mutexes, Unlock(t, m)
    PROVE  TypeInv'
<1>1. CASE owner[m] = t
  <2>1. Release(t, m, pc)
    BY <1>1 DEF Unlock
  <2>2. ops' \in [Threads -> Nat]
    BY DEF TypeInv, TypeOK, Unlock, Ready, Spend
  <2>3. UNCHANGED <<gvl, pending, call, arg, status, signalVars, listVars, living, sleeper>>
    BY <1>1 DEF Unlock
  <2> QED BY <2>1, <2>2, <2>3, ReleaseType DEF TypeInv, TypeOK, ArgOK
<1>2. CASE owner[m] # t
  BY <1>2 DEF TypeInv, TypeOK, ArgOK, Unlock, Fail, Ready, Running, Spend, Points,
          LockingPoints, LockPoints, GVLPoints, Exceptions
<1> QED BY <1>1, <1>2

LEMMA InterruptType ==
    ASSUME TypeOK, NEW S \in SUBSET Threads, NEW p \in [Threads -> Points],
           Interrupt(S, p)
    PROVE  /\ interrupt_flag' \in [Threads -> BOOLEAN]
           /\ pc' \in [Threads -> Points]
           /\ \A u \in Threads : pc'[u] \in LockingPoints =>
                  p[u] \in LockingPoints \/ pc[u] \in LockingPoints
           /\ cond_waiting' \in [Mutexes -> Nat]
           /\ cond_notified' \in [Mutexes -> Int]
<1>1. interrupt_flag' \in [Threads -> BOOLEAN]
  BY DEF TypeOK, Interrupt, Flagged
<1>2. pc' = Awakened(S, p)
  BY DEF Interrupt
<1>3. LockInterrupt(S)
  BY DEF Interrupt
<1> QED BY <1>1, <1>2, <1>3, AwakenedType, LockInterruptType

LEMMA ThrowType ==
    ASSUME TypeInv, NEW t \in Threads, Raised(t), Throw(t), UNCHANGED sleeper
    PROVE  TypeInv'
BY DEF TypeInv, TypeOK, ArgOK, Throw, Raised, Points, GVLPoints, LockingPoints,
       LockPoints, Statuses, Exceptions

LEMMA OutcomesType ==
    ASSUME NEW e
    PROVE  Outcomes(e) \subseteq {"run", "end"}
BY DEF Outcomes

LEMMA ReturnType ==
    ASSUME TypeInv, NEW t \in Threads, Return(t)
    PROVE  /\ gvl' \in Threads \cup {NoThread}
           /\ pc' \in [Threads -> Points]
           /\ call' \in [Threads -> SleepCalls \cup LockCalls \cup {"none"}]
           /\ arg' \in [Threads -> Threads \cup Mutexes \cup {NoArg}]
           /\ pending' \in [Threads -> Exceptions \cup {NoException}]
           /\ ArgOK'
<1>1. PICK q \in {"run", "end"} : pc' = [pc EXCEPT ![t] = q]
  BY OutcomesType DEF Return
<1>2. ArgOK'
  BY <1>1 DEF Return, TypeInv, TypeOK, ArgOK, LockingPoints, LockPoints,
              MutexSleepCalls, JoinCalls, LockCalls
<1> QED BY <1>1, <1>2 DEF Return, GoOn, TypeInv, TypeOK, Points

LEMMA MutexLockType ==
    ASSUME TypeInv, NEW t \in Threads, MutexLock(t)
    PROVE  TypeInv'
<1>1. arg[t] \in Mutexes
  BY DEF MutexLock, TypeInv, ArgOK, LockingPoints
<1>2. UNCHANGED <<status, signalVars, listVars, condVars, living, sleeper, ops>>
  BY DEF MutexLock
<1>3. CASE Take(t, arg[t]) /\ Return(t)
  <2>1. /\ owner' \in [Mutexes -> Threads \cup {NoThread}]
        /\ keeping' \in [Threads -> SUBSET Mutexes]
    BY <1>1, <1>3 DEF Take, TypeInv, TypeOK
  <2> QED BY <1>2, <1>3, <2>1, ReturnType DEF TypeInv, TypeOK
<1>4. CASE Fail(t) /\ UNCHANGED <<mutexVars, call, arg>> /\ pc[t] = "mutex_lock"
  BY <1>2, <1>4 DEF Fail, TypeInv, TypeOK, ArgOK, Points, GVLPoints,
                    LockingPoints, LockPoints, Exceptions
<1>5. CASE /\ pc' = [pc EXCEPT ![t] = "lock_loop"]
           /\ GoOn(t, interrupt_flag[t])
           /\ UNCHANGED <<mutexVars, threadVars>>
           /\ pc[t] = "mutex_lock"
  BY <1>2, <1>5 DEF GoOn, TypeInv, TypeOK, ArgOK, Points, LockingPoints, LockPoints
<1> QED BY <1>3, <1>4, <1>5 DEF MutexLock

LEMMA LockLoopType ==
    ASSUME TypeInv, NEW t \in Threads, LockLoop(t)
    PROVE  TypeInv'
<1>1. CASE Raised(t)
  BY <1>1, ThrowType DEF LockLoop
<1>2. CASE ~ Raised(t)
  <2>1. PICK q \in {"lock", "lock_last"} : pc' = [pc EXCEPT ![t] = q]
    BY <1>2 DEF LockLoop
  <2>2. ArgOK'
    BY <1>2, <2>1 DEF LockLoop, TypeInv, TypeOK, ArgOK, LockingPoints
  <2>3. /\ gvl' = NoThread
        /\ UNCHANGED <<threadVars, thrown, listVars, mutexVars, condVars, living, ops>>
    BY <1>2 DEF LockLoop
  <2>4. interrupt_flag' \in [Threads -> BOOLEAN]
    BY <1>2 DEF LockLoop, ClearInterrupt, TypeInv, TypeOK
  <2>5. status' \in [Threads -> Statuses]
    BY <1>2 DEF LockLoop, TypeInv, TypeOK, Statuses
  <2>6. sleeper' \in Int
    BY <1>2 DEF LockLoop, TypeInv, TypeOK
  <2> QED BY <2>1, <2>2, <2>3, <2>4, <2>5, <2>6 DEF TypeInv, TypeOK, Points, LockPoints
<1> QED BY <1>1, <1>2

LEMMA LockTestType ==
    ASSUME TypeInv, NEW t \in Threads, pc[t] \in LockPoints, LockTest(t, arg[t])
    PROVE  /\ pc' \in [Threads -> Points]
           /\ \A u \in Threads : pc'[u] \in LockingPoints => pc[u] \in LockingPoints
           /\ owner' \in [Mutexes -> Threads \cup {NoThread}]
           /\ cond_waiting' \in [Mutexes -> Nat]
BY DEF TypeInv, TypeOK, ArgOK, LockTest, Points, LockPoints, LockingPoints

LEMMA LockFuncType ==
    ASSUME TypeInv, NEW t \in Threads, LockFunc(t) \/ LockWoken(t)
    PROVE  TypeInv'
<1>1. /\ pc[t] \in LockPoints
      /\ UNCHANGED <<gvl, threadVars, status, signalVars, listVars, keeping,
                     living, sleeper, ops>>
      /\ cond_notified' \in [Mutexes -> Int]
  BY DEF TypeInv, TypeOK, LockFunc, LockWoken, LockPoints
<1>2. CASE LockTest(t, arg[t])
  BY <1>1, <1>2, LockTestType DEF TypeInv, TypeOK, ArgOK
<1>3. CASE /\ pc' = [pc EXCEPT ![t] = "interrupted"]
           /\ UNCHANGED <<owner, cond_waiting>>
  BY <1>1, <1>3 DEF TypeInv, TypeOK, ArgOK, Points, LockPoints, LockingPoints
<1> QED BY <1>2, <1>3 DEF LockFunc, LockWoken

LEMMA LockAcquiredType ==
    ASSUME TypeInv, NEW t \in Threads, LockAcquired(t)
    PROVE  TypeInv'
<1>1. arg[t] \in Mutexes
  BY DEF LockAcquired, TypeInv, ArgOK, LockingPoints, LockPoints
<1>2. status' \in [Threads -> Statuses]
  BY DEF LockAcquired, Restored, TypeInv, TypeOK, Statuses
<1>3. /\ Return(t)
      /\ UNCHANGED <<signalVars, listVars, owner, condVars, living, ops>>
  BY DEF LockAcquired
<1>4. keeping' \in [Threads -> SUBSET Mutexes]
  BY <1>1 DEF LockAcquired, TypeInv, TypeOK
<1>5. sleeper' \in Int
  BY DEF LockAcquired, TypeInv, TypeOK
<1> QED BY <1>2, <1>3, <1>4, <1>5, ReturnType DEF TypeInv, TypeOK

LEMMA LockBackType ==
    ASSUME TypeInv, NEW t \in Threads, LockBack(t)
    PROVE  TypeInv'
<1>1. PICK q \in {"lock_check", "lock_exit"} : pc' = [pc EXCEPT ![t] = q]
  BY DEF LockBack
<1> QED BY <1>1 DEF LockBack, TypeInv, TypeOK, ArgOK, Points, GVLPoints,
                    LockPoints, LockingPoints

LEMMA LockExitType ==
    ASSUME TypeInv, NEW t \in Threads, LockExit(t)
    PROVE  TypeInv'
<1>0. sleeper' \in Int
  BY DEF LockExit, TypeInv, TypeOK
<1>1. CASE Raised(t)
  <2>1. Throw(t)
    BY <1>1 DEF LockExit
  <2>2. /\ interrupt_flag' \in [Threads -> BOOLEAN]
        /\ thrown' \in [Threads -> Exceptions \cup {NoException}]
        /\ pending' \in [Threads -> Exceptions \cup {NoException}]
        /\ status' \in [Threads -> Statuses]
    BY <2>1 DEF Throw, TypeInv, TypeOK, Statuses
  <2>3. /\ pc' = [pc EXCEPT ![t] = "unwind"]
        /\ gvl' = t
        /\ UNCHANGED <<call, arg, listVars, mutexVars, condVars, living, ops>>
    BY <2>1 DEF Throw
  <2>4. pc' \in [Threads -> Points]
    BY <2>3 DEF TypeInv, TypeOK, Points, GVLPoints
  <2>5. ArgOK'
    BY <2>3 DEF TypeInv, TypeOK, ArgOK, LockingPoints, LockPoints
  <2> QED BY <1>0, <2>2, <2>3, <2>4, <2>5 DEF TypeInv, TypeOK
<1>2. CASE ~ Raised(t)
  BY <1>0, <1>2 DEF LockExit, Restored, ClearInterrupt, TypeInv, TypeOK, ArgOK,
       Points, LockingPoints, Statuses
<1> QED BY <1>1, <1>2
-----------------------------------------------------------------------------
LEMMA FallAsleepType ==
    ASSUME TypeOK, NEW t \in Threads, NEW c, FallAsleep(t, c)
    PROVE  /\ status' \in [Threads -> Statuses]
           /\ sleeper' \in Int
           /\ gvl' \in Threads \cup {NoThread}
BY DEF TypeOK, FallAsleep, SleepStatus, Statuses

LEMMA SleepPointType ==
    ASSUME NEW c
    PROVE  SleepPoint(c) \in Points \ LockingPoints
BY DEF SleepPoint, Points, SleepPoints, LockingPoints, LockPoints

\* What a thread that enters a sleep leaves behind.
LEMMA EnterCallType ==
    ASSUME TypeInv, NEW t \in Threads, NEW c \in SleepCalls,
           NEW a \in Threads \cup Mutexes \cup {NoArg},
           c \in MutexSleepCalls => a \in Mutexes,
           c \in JoinCalls => a \in Threads,
           EnterCall(t, c, a),
           pc'[t] \notin LockingPoints,
           \A u \in Threads \ {t} : pc'[u] \in LockingPoints => pc[u] \in LockingPoints
    PROVE  /\ call' \in [Threads -> SleepCalls \cup LockCalls \cup {"none"}]
           /\ arg' \in [Threads -> Threads \cup Mutexes \cup {NoArg}]
           /\ ArgOK'
BY DEF TypeInv, TypeOK, ArgOK, EnterCall, SleepCalls, LockCalls, MutexSleepCalls,
       JoinCalls, Deadlockable, Timed

LEMMA SpendType ==
    ASSUME TypeOK, NEW t \in Threads, Ready(t), Spend(t)
    PROVE  ops' \in [Threads -> Nat]
BY DEF TypeOK, Ready, Spend

LEMMA FailType ==
    ASSUME TypeInv, NEW t \in Threads, Fail(t), UNCHANGED <<call, arg>>
    PROVE  /\ gvl' \in Threads \cup {NoThread}
           /\ pc' \in [Threads -> Points]
           /\ pending' \in [Threads -> Exceptions \cup {NoException}]
           /\ ArgOK'
BY DEF Fail, TypeInv, TypeOK, ArgOK, Points, GVLPoints, LockingPoints,
       LockPoints, Exceptions

LEMMA SleepType ==
    ASSUME TypeInv, NEW t \in Threads, NEW c, Sleep(t, c)
    PROVE  TypeInv'
<1>1. /\ ops' \in [Threads -> Nat]
      /\ UNCHANGED <<signalVars, listVars, mutexVars, condVars, living>>
      /\ c \in {"stop", "sleep", "nap"}
  BY SpendType DEF TypeInv, Sleep
<1>2. CASE Fail(t) /\ UNCHANGED <<call, arg, status, sleeper>>
  BY <1>1, <1>2, FailType DEF TypeInv, TypeOK
<1>3. CASE /\ EnterCall(t, c, NoArg)
           /\ pc' = [pc EXCEPT ![t] = SleepPoint(c)]
           /\ FallAsleep(t, c)
           /\ UNCHANGED pending
  <2>1. c \in SleepCalls \ (MutexSleepCalls \cup JoinCalls)
    BY <1>1 DEF SleepCalls, MutexSleepCalls, JoinCalls, Deadlockable, Timed
  <2>2. /\ pc' \in [Threads -> Points]
        /\ pc'[t] \notin LockingPoints
        /\ \A u \in Threads \ {t} : pc'[u] = pc[u]
    BY <1>3, SleepPointType DEF TypeInv, TypeOK
  <2>3. /\ call' \in [Threads -> SleepCalls \cup LockCalls \cup {"none"}]
        /\ arg' \in [Threads -> Threads \cup Mutexes \cup {NoArg}]
        /\ ArgOK'
    BY <1>3, <2>1, <2>2, EnterCallType
  <2> QED BY <1>1, <1>3, <2>2, <2>3, FallAsleepType DEF TypeInv, TypeOK
<1> QED BY <1>2, <1>3 DEF Sleep

LEMMA MutexSleepType ==
    ASSUME TypeInv, NEW t \in Threads, NEW m \in Mutexes, NEW c, MutexSleep(t, m, c)
    PROVE  TypeInv'
<1>1. /\ ops' \in [Threads -> Nat]
      /\ UNCHANGED <<signalVars, listVars, living>>
      /\ c \in MutexSleepCalls
  BY SpendType DEF TypeInv, MutexSleep
<1>2. CASE Fail(t) /\ UNCHANGED <<call, arg, status, sleeper, mutexVars, condVars>>
  BY <1>1, <1>2, FailType DEF TypeInv, TypeOK
<1>3. CASE /\ EnterCall(t, c, m)
           /\ Release(t, m, [pc EXCEPT ![t] = SleepPoint(c)])
           /\ FallAsleep(t, c)
           /\ UNCHANGED pending
  <2>1. c \in SleepCalls \ JoinCalls
    BY <1>1 DEF SleepCalls, MutexSleepCalls, JoinCalls, Deadlockable, Timed
  <2> DEFINE p == [pc EXCEPT ![t] = SleepPoint(c)]
  <2>2. /\ p \in [Threads -> Points]
        /\ p[t] \notin LockingPoints
        /\ \A u \in Threads \ {t} : p[u] = pc[u]
    BY SleepPointType DEF TypeInv, TypeOK
  <2>3. pc'[t] \notin LockingPoints
    <3>1. PICK W \in Signalled(m) : pc' = Notify(W, p)
      BY <1>3 DEF Release
    <3>2. t \notin W
      BY <3>1 DEF MutexSleep, Ready, Running, Signalled, Waiters
    <3> QED BY <2>2, <3>1, <3>2 DEF Notify
  <2>4. \A u \in Threads \ {t} : pc'[u] \in LockingPoints => pc[u] \in LockingPoints
    BY <1>3, <2>2, ReleaseType DEF TypeInv
  <2>5. /\ call' \in [Threads -> SleepCalls \cup LockCalls \cup {"none"}]
        /\ arg' \in [Threads -> Threads \cup Mutexes \cup {NoArg}]
        /\ ArgOK'
    BY <1>3, <2>1, <2>3, <2>4, EnterCallType
  <2> QED BY <1>1, <1>3, <2>2, <2>5, FallAsleepType, ReleaseType DEF TypeInv, TypeOK
<1> QED BY <1>2, <1>3 DEF MutexSleep

LEMMA JoinType ==
    ASSUME TypeInv, NEW t \in Threads, NEW u \in Threads, NEW c, Join(t, u, c)
    PROVE  TypeInv'
<1>1. /\ ops' \in [Threads -> Nat]
      /\ UNCHANGED <<pending, signalVars, terminated, mutexVars, condVars, living>>
      /\ c \in JoinCalls
  BY SpendType DEF TypeInv, Join
<1>2. CASE /\ \E q \in {"run", "end"} :
                 /\ pc' = [pc EXCEPT ![t] = q]
                 /\ GoOn(t, q = "run" /\ interrupt_flag[t])
           /\ UNCHANGED <<call, arg, status, sleeper, join_list>>
  <2>1. PICK q \in {"run", "end"} :
            /\ pc' = [pc EXCEPT ![t] = q]
            /\ GoOn(t, q = "run" /\ interrupt_flag[t])
    BY <1>2
  <2>2. /\ pc' \in [Threads -> Points]
        /\ ArgOK'
    BY <1>2, <2>1 DEF TypeInv, TypeOK, ArgOK, Points, LockingPoints, LockPoints
  <2>3. gvl' \in Threads \cup {NoThread}
    BY <2>1 DEF GoOn
  <2> QED BY <1>1, <1>2, <2>2, <2>3 DEF TypeInv, TypeOK
<1>3. CASE /\ join_list' = [join_list EXCEPT ![u] = @ \cup {t}]
           /\ EnterCall(t, c, u)
           /\ pc' = [pc EXCEPT ![t] = SleepPoint(c)]
           /\ FallAsleep(t, c)
  <2>1. c \in SleepCalls \ MutexSleepCalls
    BY <1>1 DEF SleepCalls, MutexSleepCalls, JoinCalls, Deadlockable, Timed
  <2>2. /\ pc' \in [Threads -> Points]
        /\ pc'[t] \notin LockingPoints
        /\ \A v \in Threads \ {t} : pc'[v] = pc[v]
    BY <1>3, SleepPointType DEF TypeInv, TypeOK
  <2>3. /\ call' \in [Threads -> SleepCalls \cup LockCalls \cup {"none"}]
        /\ arg' \in [Threads -> Threads \cup Mutexes \cup {NoArg}]
        /\ ArgOK'
    BY <1>3, <2>1, <2>2, EnterCallType
  <2>4. join_list' \in [Threads -> SUBSET Threads]
    BY <1>3 DEF TypeInv, TypeOK
  <2> QED BY <1>1, <1>3, <2>2, <2>3, <2>4, FallAsleepType DEF TypeInv, TypeOK
<1> QED BY <1>2, <1>3 DEF Join

\* A step of t that changes its control point, outside rb_mutex_lock, and
\* neither call nor argument of any thread.
LEMMA MoveType ==
    ASSUME TypeInv, NEW t \in Threads, NEW q \in Points \ LockingPoints,
           pc' = [pc EXCEPT ![t] = q], UNCHANGED <<call, arg>>
    PROVE  pc' \in [Threads -> Points] /\ ArgOK'
BY DEF TypeInv, TypeOK, ArgOK

LEMMA NativeType ==
    ASSUME TypeInv, NEW t \in Threads,
           NativeSleep(t) \/ TimeOut(t) \/ Awake(t) \/ SleepThrow(t)
    PROVE  TypeInv'
<1>1. CASE NativeSleep(t) \/ TimeOut(t)
  <2>1. PICK q \in {"awake", "asleep"} : pc' = [pc EXCEPT ![t] = q]
    BY <1>1 DEF NativeSleep, TimeOut
  <2>2. UNCHANGED <<gvl, threadVars, status, signalVars, listVars, mutexVars,
                    condVars, living, sleeper, ops>>
    BY <1>1 DEF NativeSleep, TimeOut
  <2>3. q \in Points \ LockingPoints
    BY DEF Points, SleepPoints, LockingPoints, LockPoints
  <2> QED BY <2>1, <2>2, <2>3, MoveType DEF TypeInv, TypeOK
<1>2. CASE Awake(t)
  <2>1. /\ pc' = [pc EXCEPT ![t] = "check_ints"]
        /\ UNCHANGED <<gvl, threadVars, status, signalVars, listVars, mutexVars,
                       condVars, living, ops>>
    BY <1>2 DEF Awake
  <2>2. sleeper' \in Int
    BY <1>2 DEF Awake, TypeInv, TypeOK
  <2>3. "check_ints" \in Points \ LockingPoints
    BY DEF Points, LockingPoints, LockPoints
  <2> QED BY <2>1, <2>2, <2>3, MoveType DEF TypeInv, TypeOK
<1>3. CASE SleepThrow(t)
  BY <1>3, ThrowType DEF SleepThrow
<1> QED BY <1>1, <1>2, <1>3

LEMMA SleepOnType ==
    ASSUME TypeInv, NEW t \in Threads, SleepOn(t) \/ SleepDone(t)
    PROVE  TypeInv'
<1>1. interrupt_flag' \in [Threads -> BOOLEAN]
  BY DEF SleepOn, SleepDone, ClearInterrupt, TypeInv, TypeOK
<1>2. UNCHANGED <<threadVars, thrown, listVars, mutexVars, condVars, living, ops>>
  BY DEF SleepOn, SleepDone
<1>3. CASE SleepOn(t)
  <2>1. FallAsleep(t, call[t]) /\ pc' = [pc EXCEPT ![t] = SleepPoint(call[t])]
    BY <1>3 DEF SleepOn
  <2> QED BY <1>1, <1>2, <2>1, FallAsleepType, SleepPointType, MoveType
          DEF TypeInv, TypeOK
<1>4. CASE SleepDone(t)
  <2>1. /\ pc' = [pc EXCEPT ![t] = "slept"]
        /\ gvl' = t
        /\ UNCHANGED sleeper
    BY <1>4 DEF SleepDone
  <2>2. status' \in [Threads -> Statuses]
    BY <1>4 DEF SleepDone, TypeInv, TypeOK, Statuses
  <2>3. "slept" \in Points \ LockingPoints
    BY DEF Points, GVLPoints, LockingPoints, LockPoints
  <2> QED BY <1>1, <1>2, <2>1, <2>2, <2>3, MoveType DEF TypeInv, TypeOK
<1> QED BY <1>3, <1>4

LEMMA RelockType ==
    ASSUME TypeInv, NEW t \in Threads, call[t] \in MutexSleepCalls, Relock(t)
    PROVE  /\ pc' \in [Threads -> Points]
           /\ call' \in [Threads -> SleepCalls \cup LockCalls \cup {"none"}]
           /\ ArgOK'
BY DEF Relock, TypeInv, TypeOK, ArgOK, Points, GVLPoints, LockCalls, JoinCalls,
       MutexSleepCalls

LEMMA UnlinkType ==
    ASSUME TypeOK, NEW t \in Threads, NEW u \in Threads, Unlink(t, u)
    PROVE  join_list' \in [Threads -> SUBSET Threads]
BY DEF TypeOK, Unlink

LEMMA SleptType ==
    ASSUME TypeInv, NEW t \in Threads,
           SleptStop(t) \/ SleptMutex(t) \/ JoinAgain(t) \/ Joined(t)
    PROVE  TypeInv'
<1>1. CASE SleptStop(t)
  BY <1>1, ReturnType DEF SleptStop, TypeInv, TypeOK
<1>2. CASE SleptMutex(t)
  <2>1. /\ call[t] \in MutexSleepCalls
        /\ Relock(t)
        /\ UNCHANGED <<gvl, arg, pending, status, sleeper, signalVars, listVars,
                       mutexVars, condVars, living, ops>>
    BY <1>2 DEF SleptMutex, Relock
  <2> QED BY <2>1, RelockType DEF TypeInv, TypeOK
<1>3. CASE JoinAgain(t)
  <2>1. /\ pc' = [pc EXCEPT ![t] = SleepPoint(call[t])]
        /\ FallAsleep(t, call[t])
        /\ UNCHANGED <<threadVars, signalVars, listVars, mutexVars, condVars,
                       living, ops>>
    BY <1>3 DEF JoinAgain
  <2> QED BY <2>1, FallAsleepType, SleepPointType, MoveType DEF TypeInv, TypeOK
<1>4. CASE Joined(t)
  <2>1. PICK q \in {"run", "end"} : pc' = [pc EXCEPT ![t] = q]
    BY <1>4 DEF Joined
  <2>2. arg[t] \in Threads /\ Unlink(t, arg[t])
    BY <1>4 DEF Joined, TypeInv, ArgOK
  <2>3. /\ gvl' = NoThread
        /\ call' = [call EXCEPT ![t] = "none"]
        /\ arg' = [arg EXCEPT ![t] = NoArg]
        /\ UNCHANGED <<pending, status, sleeper, signalVars, terminated, mutexVars,
                       condVars, living, ops>>
    BY <1>4 DEF Joined
  <2>4. /\ pc' \in [Threads -> Points]
        /\ ArgOK'
    BY <2>1, <2>3 DEF TypeInv, TypeOK, ArgOK, Points, LockingPoints, LockPoints,
                      MutexSleepCalls, LockCalls, JoinCalls
  <2> QED BY <2>2, <2>3, <2>4, UnlinkType DEF TypeInv, TypeOK
<1> QED BY <1>1, <1>2, <1>3, <1>4

LEMMA UnwindType ==
    ASSUME TypeInv, NEW t \in Threads, Unwind(t)
    PROVE  TypeInv'
<1>1. UNCHANGED <<status, sleeper, signalVars, terminated, mutexVars, condVars,
                  living, ops>>
  BY DEF Unwind
<1>2. CASE call[t] \in MutexSleepCalls /\ Relock(t) /\ UNCHANGED join_list
  <2>1. UNCHANGED <<gvl, arg, pending>>
    BY <1>2 DEF Relock
  <2> QED BY <1>1, <1>2, <2>1, RelockType DEF TypeInv, TypeOK
<1>3. CASE call[t] \in JoinCalls /\ Return(t) /\ Unlink(t, arg[t])
  <2>1. arg[t] \in Threads
    BY <1>3 DEF TypeInv, ArgOK
  <2> QED BY <1>1, <1>3, <2>1, ReturnType, UnlinkType DEF TypeInv, TypeOK
<1>4. CASE Return(t) /\ UNCHANGED join_list
  BY <1>1, <1>4, ReturnType DEF TypeInv, TypeOK
<1> QED BY <1>2, <1>3, <1>4 DEF Unwind

-----------------------------------------------------------------------------
LEMMA CreateType ==
    ASSUME TypeInv, NEW t \in Threads, NEW u \in Threads, Create(t, u)
    PROVE  TypeInv'
<1>1. /\ pc' = [pc EXCEPT ![u] = "start"]
      /\ UNCHANGED <<gvl, threadVars, status, signalVars, listVars, mutexVars,
                     condVars, sleeper, ops>>
  BY DEF Create
<1>2. "start" \in Points \ LockingPoints
  BY DEF Points, LockingPoints, LockPoints
<1>3. living' \in SUBSET Threads
  BY DEF Create, TypeInv, TypeOK
<1> QED BY <1>1, <1>2, <1>3, MoveType DEF TypeInv, TypeOK

LEMMA CreateFailsType ==
    ASSUME TypeInv, NEW t \in Threads, CreateFails(t)
    PROVE  TypeInv'
<1>1. /\ ops' \in [Threads -> Nat]
      /\ Fail(t)
      /\ UNCHANGED <<call, arg, status, signalVars, listVars, mutexVars, condVars,
                     living, sleeper>>
  BY SpendType DEF TypeInv, CreateFails
<1> QED BY <1>1, FailType DEF TypeInv, TypeOK

\* The steps that only move a thread to a point outside rb_mutex_lock.
LEMMA PlainType ==
    ASSUME TypeInv, NEW t \in Threads,
           Start(t) \/ Finish(t) \/ MainEnd(t) \/ UnlockedAll(t)
           \/ TerminateDone(t) \/ Exit(t)
    PROVE  TypeInv'
<1>1. PICK q \in {"run", "end", "cleanup", "terminate", "end_check", "exit",
                   "dead"} :
          pc' = [pc EXCEPT ![t] = q]
  BY DEF Start, Finish, MainEnd, UnlockedAll, TerminateDone, Exit
<1>2. q \in Points \ LockingPoints
  BY DEF Points, GVLPoints, LockingPoints, LockPoints
<1>3. UNCHANGED <<threadVars, status, signalVars, listVars, mutexVars,
                  condVars, living, sleeper, ops>>
  BY DEF Start, Finish, MainEnd, UnlockedAll, TerminateDone, Exit
<1>4. gvl' \in Threads \cup {NoThread}
  BY DEF Start, Finish, MainEnd, UnlockedAll, TerminateDone, Exit, GoOn, TypeInv, TypeOK
<1> QED BY <1>1, <1>2, <1>3, <1>4, MoveType DEF TypeInv, TypeOK

LEMMA RunInterruptsType ==
    ASSUME TypeInv, NEW t \in Threads, RunInterrupts(t)
    PROVE  TypeInv'
<1>1. CASE Raised(t)
  BY <1>1, ThrowType DEF RunInterrupts
<1>2. CASE ~ Raised(t)
  <2>1. /\ gvl' = NoThread
        /\ UNCHANGED <<pc, threadVars, status, thrown, listVars, mutexVars,
                       condVars, living, ops, sleeper>>
    BY <1>2 DEF RunInterrupts
  <2>2. interrupt_flag' \in [Threads -> BOOLEAN]
    BY <1>2 DEF RunInterrupts, ClearInterrupt, TypeInv, TypeOK
  <2> QED BY <2>1, <2>2 DEF TypeInv, TypeOK, ArgOK
<1> QED BY <1>1, <1>2

\* Interrupting threads, from a point p of the interrupting one that is not
\* in rb_mutex_lock any more than it was.
LEMMA SendType ==
    ASSUME TypeInv, NEW S \in SUBSET Threads, NEW p \in [Threads -> Points],
           Interrupt(S, p), UNCHANGED <<call, arg>>,
           \A v \in Threads : p[v] \in LockingPoints => pc[v] \in LockingPoints
    PROVE  /\ interrupt_flag' \in [Threads -> BOOLEAN]
           /\ pc' \in [Threads -> Points]
           /\ cond_waiting' \in [Mutexes -> Nat]
           /\ cond_notified' \in [Mutexes -> Int]
           /\ ArgOK'
<1>1. \A u \in Threads : pc'[u] \in LockingPoints => pc[u] \in LockingPoints
  BY InterruptType DEF TypeInv
<1>2. ArgOK'
  BY <1>1 DEF TypeInv, ArgOK
<1> QED BY <1>2, InterruptType DEF TypeInv

LEMMA WakeupType ==
    ASSUME TypeInv, NEW t \in Threads, NEW u \in Threads, Wakeup(t, u)
    PROVE  TypeInv'
<1>1. /\ ops' \in [Threads -> Nat]
      /\ UNCHANGED <<call, arg, thrown, listVars, mutexVars, living, sleeper>>
  BY SpendType DEF TypeInv, Wakeup
<1>2. CASE Fail(t) /\ UNCHANGED <<status, interrupt_flag, condVars>>
  BY <1>1, <1>2, FailType DEF TypeInv, TypeOK
<1>3. CASE /\ Interrupt({u}, pc)
           /\ status' = [status EXCEPT ![u] = IF @ = "TO_KILL" THEN @ ELSE "RUNNABLE"]
           /\ GoOn(t, interrupt_flag[t] \/ u = t)
           /\ UNCHANGED pending
  <2>1. status' \in [Threads -> Statuses]
    BY <1>3 DEF TypeInv, TypeOK, Statuses
  <2>2. gvl' \in Threads \cup {NoThread}
    BY <1>3 DEF GoOn
  <2>3. pc \in [Threads -> Points]
    BY DEF TypeInv, TypeOK
  <2>4. /\ interrupt_flag' \in [Threads -> BOOLEAN]
        /\ pc' \in [Threads -> Points]
        /\ cond_waiting' \in [Mutexes -> Nat]
        /\ cond_notified' \in [Mutexes -> Int]
        /\ ArgOK'
    BY <1>1, <1>3, <2>3, SendType
  <2> QED BY <1>1, <1>3, <2>1, <2>2, <2>4 DEF TypeInv, TypeOK
<1> QED BY <1>2, <1>3 DEF Wakeup

LEMMA KillType ==
    ASSUME TypeInv, NEW t \in Threads, NEW u \in Threads, Kill(t, u)
    PROVE  TypeInv'
<1>1. /\ ops' \in [Threads -> Nat]
      /\ UNCHANGED <<threadVars, listVars, mutexVars, living, sleeper>>
  BY SpendType DEF TypeInv, Kill
<1>2. CASE UNCHANGED <<gvl, pc, status, signalVars, condVars>>
  BY <1>1, <1>2 DEF TypeInv, TypeOK, ArgOK
<1>3. CASE /\ Interrupt({u}, pc)
           /\ GoOn(t, interrupt_flag[t] \/ u = t)
           /\ thrown' = [thrown EXCEPT ![u] = "kill"]
           /\ status' = [status EXCEPT ![u] = "TO_KILL"]
  <2>1. status' \in [Threads -> Statuses]
    BY <1>3 DEF TypeInv, TypeOK, Statuses
  <2>2. thrown' \in [Threads -> Exceptions \cup {NoException}]
    BY <1>3 DEF TypeInv, TypeOK, Exceptions
  <2>3. /\ gvl' \in Threads \cup {NoThread}
        /\ pc \in [Threads -> Points]
    BY <1>3 DEF GoOn, TypeInv, TypeOK
  <2>4. /\ interrupt_flag' \in [Threads -> BOOLEAN]
        /\ pc' \in [Threads -> Points]
        /\ cond_waiting' \in [Mutexes -> Nat]
        /\ cond_notified' \in [Mutexes -> Int]
        /\ ArgOK'
    BY <1>1, <1>3, <2>3, SendType
  <2> QED BY <1>1, <2>1, <2>2, <2>3, <2>4 DEF TypeInv, TypeOK
<1> QED BY <1>2, <1>3 DEF Kill

LEMMA RaiseType ==
    ASSUME TypeInv, NEW t \in Threads, NEW u \in Threads, Raise(t, u)
    PROVE  TypeInv'
<1>1. /\ ops' \in [Threads -> Nat]
      /\ UNCHANGED <<threadVars, status, listVars, mutexVars, living, sleeper>>
  BY SpendType DEF TypeInv, Raise
<1>2. CASE UNCHANGED <<gvl, pc, signalVars, condVars>>
  BY <1>1, <1>2 DEF TypeInv, TypeOK, ArgOK
<1>3. CASE /\ Interrupt({u}, pc)
           /\ GoOn(t, interrupt_flag[t] \/ u = t)
           /\ thrown' = [thrown EXCEPT ![u] = "error"]
  <2>1. /\ thrown' \in [Threads -> Exceptions \cup {NoException}]
        /\ gvl' \in Threads \cup {NoThread}
        /\ pc \in [Threads -> Points]
    BY <1>3 DEF GoOn, TypeInv, TypeOK, Exceptions
  <2>2. /\ interrupt_flag' \in [Threads -> BOOLEAN]
        /\ pc' \in [Threads -> Points]
        /\ cond_waiting' \in [Mutexes -> Nat]
        /\ cond_notified' \in [Mutexes -> Int]
        /\ ArgOK'
    BY <1>1, <1>3, <2>1, SendType
  <2> QED BY <1>1, <2>1, <2>2 DEF TypeInv, TypeOK
<1> QED BY <1>2, <1>3 DEF Raise

LEMMA EndType ==
    ASSUME TypeInv, NEW t \in Threads, ThreadEnd(t)
    PROVE  TypeInv'
<1> DEFINE p == [pc EXCEPT ![t] = "cleanup"]
<1>1. /\ p \in [Threads -> Points]
      /\ \A v \in Threads : p[v] \in LockingPoints => pc[v] \in LockingPoints
  BY DEF TypeInv, TypeOK, Points, GVLPoints, LockingPoints, LockPoints
<1>2. /\ Interrupt(join_list[t], p)
      /\ UNCHANGED <<threadVars, thrown, listVars, mutexVars, sleeper, ops>>
      /\ gvl' = t
  BY DEF ThreadEnd
<1>3. join_list[t] \in SUBSET Threads
  BY DEF TypeInv, TypeOK
<1>4. status' \in [Threads -> Statuses]
  BY DEF ThreadEnd, TypeInv, TypeOK, Statuses
<1>5. living' \in SUBSET Threads
  BY DEF ThreadEnd, TypeInv, TypeOK
<1> QED BY <1>1, <1>2, <1>3, <1>4, <1>5, SendType DEF TypeInv, TypeOK

LEMMA UnlockAllType ==
    ASSUME TypeInv, NEW t \in Threads, UnlockAll(t)
    PROVE  TypeInv'
<1>1. PICK m \in Mutexes : Release(t, m, pc)
  BY DEF UnlockAll, TypeInv, TypeOK
<1>2. UNCHANGED <<gvl, threadVars, status, signalVars, listVars, living,
                  sleeper, ops>>
  BY DEF UnlockAll
<1> QED BY <1>1, <1>2, ReleaseType DEF TypeInv, TypeOK, ArgOK

LEMMA TerminateType ==
    ASSUME TypeInv, NEW t \in Threads, NEW u \in Threads, Terminate(t, u)
    PROVE  TypeInv'
<1>1. /\ Interrupt({u}, pc)
      /\ UNCHANGED <<gvl, threadVars, join_list, mutexVars, living, sleeper, ops>>
      /\ pc \in [Threads -> Points]
  BY DEF Terminate, TypeInv, TypeOK
<1>2. status' \in [Threads -> Statuses]
  BY DEF Terminate, TypeInv, TypeOK, Statuses
<1>3. thrown' \in [Threads -> Exceptions \cup {NoException}]
  BY DEF Terminate, TypeInv, TypeOK, Exceptions
<1>4. terminated' \in SUBSET Threads
  BY DEF Terminate, TypeInv, TypeOK
<1> QED BY <1>1, <1>2, <1>3, <1>4, SendType DEF TypeInv, TypeOK

LEMMA IgnoreInterruptType ==
    ASSUME TypeInv, NEW t \in Threads, IgnoreInterrupt(t)
    PROVE  TypeInv'
<1>1. UNCHANGED <<gvl, pc, threadVars, status, listVars, mutexVars, condVars,
                  living, sleeper, ops>>
  BY DEF IgnoreInterrupt
<1>2. interrupt_flag' \in [Threads -> BOOLEAN]
  BY DEF IgnoreInterrupt, ClearInterrupt, TypeInv, TypeOK
<1>3. thrown' \in [Threads -> Exceptions \cup {NoException}]
  BY DEF IgnoreInterrupt, TypeInv, TypeOK
<1> QED BY <1>1, <1>2, <1>3 DEF TypeInv, TypeOK, ArgOK

LEMMA CheckDeadlockType ==
    ASSUME TypeInv, NEW t \in Threads, CheckDeadlock(t)
    PROVE  TypeInv'
<1> DEFINE p == [pc EXCEPT ![t] = AfterCheck(@)]
<1>0. \/ pc[t] = "sleep_check" /\ AfterCheck(pc[t]) = "sleep"
      \/ pc[t] = "lock_check" /\ AfterCheck(pc[t]) = "lock_exit"
      \/ pc[t] = "end_check" /\ AfterCheck(pc[t]) = "dead"
  BY DEF CheckDeadlock, AfterCheck
<1>1. /\ p \in [Threads -> Points]
      /\ \A v \in Threads : p[v] \in LockingPoints => pc[v] \in LockingPoints
  BY <1>0 DEF TypeInv, TypeOK, Points, SleepPoints, GVLPoints, LockingPoints,
              LockPoints
<1>2. UNCHANGED <<threadVars, status, listVars, mutexVars, living, sleeper, ops>>
  BY DEF CheckDeadlock
<1>3. gvl' \in Threads \cup {NoThread}
  BY DEF CheckDeadlock
<1>4. CASE Deadlocked
  <2>1. Interrupt({Main}, p) /\ thrown' = [thrown EXCEPT ![Main] = "fatal"]
    BY <1>4 DEF CheckDeadlock
  <2>2. thrown' \in [Threads -> Exceptions \cup {NoException}]
    BY <2>1 DEF TypeInv, TypeOK, Exceptions
  <2>3. /\ interrupt_flag' \in [Threads -> BOOLEAN]
        /\ pc' \in [Threads -> Points]
        /\ cond_waiting' \in [Mutexes -> Nat]
        /\ cond_notified' \in [Mutexes -> Int]
        /\ ArgOK'
    BY <1>1, <1>2, <2>1, MainAssumption, SendType
  <2> QED BY <1>2, <1>3, <2>2, <2>3 DEF TypeInv, TypeOK
<1>5. CASE ~ Deadlocked
  <2>1. pc' = p /\ UNCHANGED <<signalVars, condVars>>
    BY <1>5 DEF CheckDeadlock
  <2> QED BY <1>1, <1>2, <1>3, <2>1 DEF TypeInv, TypeOK, ArgOK
<1> QED BY <1>4, <1>5

-----------------------------------------------------------------------------
LEMMA StepType ==
    ASSUME TypeInv, NEW t \in Threads, Step(t)
    PROVE  TypeInv'
<1>1. CASE Operation(t)
  BY <1>1, LockTypes, UnlockType, MutexSleepType, SleepType, JoinType, WakeupType,
     KillType, RaiseType, CreateType, CreateFailsType, PlainType,
      RunInterruptsType DEF Operation
<1>2. CASE Locking(t)
  BY <1>2, MutexLockType, LockLoopType, LockFuncType, LockAcquiredType,
     LockBackType, LockExitType DEF Locking
<1>3. CASE InSleep(t)
  BY <1>3, NativeType, SleepOnType, SleptType DEF InSleep
<1>4. CASE Ending(t)
  BY <1>4, PlainType, EndType, UnlockAllType, TerminateType,
     IgnoreInterruptType DEF Ending
<1>5. CASE Unwind(t)
  BY <1>5, UnwindType
<1>6. CASE CheckDeadlock(t)
  BY <1>6, CheckDeadlockType
<1> QED BY <1>1, <1>2, <1>3, <1>4, <1>5, <1>6 DEF Step

LEMMA InitType == Init => TypeInv
BY MainAssumption, BudgetAssumption
   DEF Init, TypeInv, TypeOK, ArgOK, Points, SleepPoints, LockPoints, GVLPoints,
       LockingPoints, Statuses, MutexSleepCalls, JoinCalls, LockCalls

\* Every reachable state is well typed, and what a thread waits for is of the
\* kind its call waits for.
THEOREM TypeInvariant == Spec => []TypeInv
<1>1. TypeInv /\ [Next]_vars => TypeInv'
  <2> SUFFICES ASSUME TypeInv, [Next]_vars PROVE TypeInv'
    OBVIOUS
  <2>1. CASE UNCHANGED vars
    BY <2>1 DEF vars, TypeInv, TypeOK, ArgOK
  <2>2. ASSUME NEW t \in Threads, Step(t) PROVE TypeInv'
    BY <2>2, StepType
  <2> QED BY <2>1, <2>2 DEF Next, Terminated
<1> QED BY <1>1, InitType, PTL DEF Spec

\* The type invariant that the runs check.
THEOREM TypeCorrect == Spec => []TypeOK
<1>1. TypeInv => TypeOK
  BY DEF TypeInv
<1> QED BY <1>1, TypeInvariant, PTL
=============================================================================
