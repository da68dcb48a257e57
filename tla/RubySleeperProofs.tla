-------------------------- MODULE RubySleeperProofs --------------------------
(***************************************************************************)
(* vm->sleeper is exact, for every set of threads and mutexes and every    *)
(* program: rb_check_deadlock compares it with the number of living        *)
(* threads, and would call rb_bug if it were larger.                       *)
(***************************************************************************)
EXTENDS RubyThreadProofs

USE DEF threadVars, mutexVars, condVars, signalVars, listVars

\* The points of a thread that need not be in vm->living_threads.
Away == {"unborn", "cleanup", "terminate", "exit", "end_check", "dead"}

Present == \A t \in Threads : pc[t] \notin Away => t \in living

\* A step of t changes vm->sleeper by what it changes in Sleeping(t).
Counted(t) ==
    \/ sleeper' = sleeper /\ (Sleeping(t)' <=> Sleeping(t))
    \/ sleeper' = sleeper + 1 /\ ~ Sleeping(t) /\ Sleeping(t)'
    \/ sleeper' = sleeper - 1 /\ Sleeping(t) /\ ~ Sleeping(t)'

\* It removes no thread from living_threads but t when t ends.
Listed(t) ==
    /\ living \ {t} \subseteq living'
    /\ pc'[t] \notin Away => pc[t] \notin Away /\ (t \in living => t \in living')

CountStep(t) == Counted(t) /\ Listed(t)

LEMMA AwakePoint ==
    ASSUME NEW t \in Threads, pc[t] \notin LockPoints \cup SleepPoints,
           pc[t] \notin {"lock_check", "lock_exit"}
    PROVE  ~ Sleeping(t)
BY DEF Sleeping

LEMMA FallAsleepCounted ==
    ASSUME NEW t \in Threads, NEW c, ~ Sleeping(t),
           pc'[t] = SleepPoint(c), call'[t] = c, FallAsleep(t, c)
    PROVE  Counted(t) /\ pc'[t] \notin Away
<1>1. CASE c \in Deadlockable
  BY <1>1 DEF FallAsleep, SleepPoint, Counted, Sleeping, SleepPoints, Away
<1>2. CASE c \notin Deadlockable
  BY <1>2 DEF FallAsleep, SleepPoint, Counted, Sleeping, SleepPoints, LockPoints, Away
<1> QED BY <1>1, <1>2

\* A thread that does not sleep goes to a point where it does not sleep.
LEMMA StayAwake ==
    ASSUME NEW t \in Threads, ~ Sleeping(t), UNCHANGED sleeper,
           pc'[t] \notin LockPoints \cup SleepPoints \cup {"lock_check", "lock_exit"}
    PROVE  Counted(t)
BY DEF Counted, Sleeping

LEMMA OperationCount ==
    ASSUME TypeInv, NEW t \in Threads, Operation(t)
    PROVE  CountStep(t)
<1>0. pc[t] = "run"
  BY DEF Operation, Lock, TryLock, Unlock, MutexSleep, Sleep, Wakeup, Kill, Raise,
         Join, Create, CreateFails, Finish, RunInterrupts, Ready, Running
<1>1. ~ Sleeping(t) /\ pc[t] \notin Away
  BY <1>0 DEF Sleeping, LockPoints, SleepPoints, Away
<1>2. ASSUME UNCHANGED <<sleeper, living>>,
             pc'[t] \in {"run", "end", "unwind", "mutex_lock"}
      PROVE  CountStep(t)
  BY <1>1, <1>2, StayAwake DEF CountStep, Listed, LockPoints, SleepPoints, Away
<1>3. ASSUME NEW c, pc'[t] = SleepPoint(c), EnterCall(t, c, arg'[t]), FallAsleep(t, c),
             UNCHANGED living
      PROVE  CountStep(t)
  BY <1>1, <1>3, FallAsleepCounted DEF CountStep, Listed, EnterCall, TypeInv, TypeOK
<1>4. ASSUME NEW m \in Mutexes, Lock(t, m) \/ TryLock(t, m) PROVE CountStep(t)
  <2>1. pc'[t] \in {"run", "mutex_lock"}
    BY <1>0, <1>4 DEF Lock, TryLock, TypeInv, TypeOK
  <2> QED BY <1>2, <1>4, <2>1 DEF Lock, TryLock
<1>5. ASSUME NEW m \in Mutexes, Unlock(t, m) PROVE CountStep(t)
  <2>1. UNCHANGED <<sleeper, living, call, arg>>
    BY <1>5 DEF Unlock
  <2>2. CASE Release(t, m, pc)
    <3>1. [pc EXCEPT ![t] = "run"] = pc
      BY <1>0 DEF TypeInv, TypeOK
    <3>2. pc'[t] = "run"
      BY <1>0, <2>1, <2>2, <3>1, ReleaseOthers DEF Points
    <3> QED BY <1>2, <2>1, <3>2
  <2>3. CASE Fail(t)
    BY <1>2, <2>1, <2>3, FailOthers
  <2> QED BY <1>5, <2>2, <2>3 DEF Unlock
<1>6. ASSUME NEW m \in Mutexes, NEW c, MutexSleep(t, m, c) PROVE CountStep(t)
  <2>1. CASE owner[m] = t
    <3>1. /\ Release(t, m, [pc EXCEPT ![t] = SleepPoint(c)])
          /\ EnterCall(t, c, m)
          /\ FallAsleep(t, c)
          /\ UNCHANGED living
      BY <1>6, <2>1 DEF MutexSleep
    <3>2. pc'[t] = SleepPoint(c)
      BY <1>0, <3>1, ReleaseOthers, SleepPointType DEF EnterCall, TypeInv, TypeOK
    <3>3. arg'[t] = m
      BY <3>1 DEF EnterCall, TypeInv, TypeOK
    <3> QED BY <1>3, <3>1, <3>2, <3>3
  <2>2. CASE owner[m] # t
    BY <1>2, <1>6, <2>2, FailOthers DEF MutexSleep
  <2> QED BY <2>1, <2>2
<1>7. ASSUME NEW c, Sleep(t, c) PROVE CountStep(t)
  <2>1. CASE Fail(t) /\ UNCHANGED <<call, arg, sleeper>>
    BY <1>2, <1>7, <2>1, FailOthers DEF Sleep
  <2>2. CASE /\ EnterCall(t, c, NoArg)
             /\ pc' = [pc EXCEPT ![t] = SleepPoint(c)]
             /\ FallAsleep(t, c)
    <3>1. pc'[t] = SleepPoint(c) /\ arg'[t] = NoArg
      BY <2>2 DEF EnterCall, TypeInv, TypeOK
    <3> QED BY <1>3, <1>7, <2>2, <3>1 DEF Sleep
  <2> QED BY <1>7, <2>1, <2>2 DEF Sleep
<1>8. ASSUME NEW u \in Threads, NEW c, Join(t, u, c) PROVE CountStep(t)
  <2>1. CASE /\ \E q \in {"run", "end"} : pc' = [pc EXCEPT ![t] = q]
             /\ UNCHANGED sleeper
    <3>1. pc'[t] \in {"run", "end"}
      BY <2>1 DEF TypeInv, TypeOK
    <3> QED BY <1>2, <1>8, <2>1, <3>1 DEF Join
  <2>2. CASE /\ EnterCall(t, c, u)
             /\ pc' = [pc EXCEPT ![t] = SleepPoint(c)]
             /\ FallAsleep(t, c)
    <3>1. pc'[t] = SleepPoint(c) /\ arg'[t] = u
      BY <2>2 DEF EnterCall, TypeInv, TypeOK
    <3> QED BY <1>3, <1>8, <2>2, <3>1 DEF Join
  <2> QED BY <1>8, <2>1, <2>2 DEF Join
<1>9. ASSUME NEW u \in Threads, Wakeup(t, u) \/ Kill(t, u) \/ Raise(t, u)
      PROVE  CountStep(t)
  <2>1. UNCHANGED <<sleeper, living, call, arg>>
    BY <1>9 DEF Wakeup, Kill, Raise
  <2>2. CASE Fail(t)
    BY <1>2, <2>1, <2>2, FailOthers
  <2>3. CASE Interrupt({u}, pc)
    <3>1. [pc EXCEPT ![t] = "run"] = pc
      BY <1>0 DEF TypeInv, TypeOK
    <3>2. pc'[t] = "run"
      BY <1>0, <2>1, <2>3, <3>1, InterruptOthers DEF Points
    <3> QED BY <1>2, <2>1, <3>2
  <2>4. CASE UNCHANGED pc
    BY <1>0, <1>2, <2>1, <2>4
  <2> QED BY <1>9, <2>2, <2>3, <2>4 DEF Wakeup, Kill, Raise
<1>10. ASSUME NEW u \in Threads, Create(t, u) PROVE CountStep(t)
  <2>1. pc'[t] = "run"
    BY <1>0, <1>10 DEF Create, TypeInv, TypeOK
  <2>2. Counted(t)
    BY <1>1, <1>10, <2>1, StayAwake DEF Create, LockPoints, SleepPoints
  <2>3. Listed(t)
    BY <1>1, <1>10 DEF Create, Listed
  <2> QED BY <2>2, <2>3 DEF CountStep
<1>11. CASE Finish(t)
  BY <1>2, <1>11 DEF Finish, TypeInv, TypeOK
<1>12. CASE RunInterrupts(t)
  <2>1. CASE Throw(t)
    BY <1>2, <1>12, <2>1, ThrowOthers DEF RunInterrupts, Throw
  <2>2. CASE UNCHANGED <<pc, living>>
    BY <1>0, <1>2, <1>12, <2>2 DEF RunInterrupts
  <2> QED BY <1>12, <2>1, <2>2 DEF RunInterrupts
<1>13. CASE CreateFails(t)
  BY <1>2, <1>13, FailOthers DEF CreateFails
<1> QED BY <1>4, <1>5, <1>6, <1>7, <1>8, <1>9, <1>10, <1>11, <1>12, <1>13 DEF Operation

\* A step within the calls that leaves living_threads alone.
LEMMA WithinCount ==
    ASSUME NEW t \in Threads, Counted(t), UNCHANGED living,
           pc[t] \notin Away
    PROVE  CountStep(t)
BY DEF CountStep, Listed

LEMMA LockingCount ==
    ASSUME TypeInv, NEW t \in Threads, Locking(t)
    PROVE  CountStep(t)
<1>0. pc[t] \notin Away /\ UNCHANGED living
  BY DEF Locking, MutexLock, LockLoop, LockFunc, LockWoken, LockAcquired, LockBack,
         LockExit, Throw, Away
<1>1. SUFFICES Counted(t)
  BY <1>0, WithinCount
<1>2. CASE MutexLock(t)
  <2>1. ~ Sleeping(t) /\ UNCHANGED sleeper
    BY <1>2, AwakePoint DEF MutexLock, LockPoints, SleepPoints
  <2>2. CASE Return(t)
    BY <2>1, <2>2, ReturnOthers, StayAwake DEF LockPoints, SleepPoints
  <2>3. CASE Fail(t) /\ UNCHANGED <<call, arg>>
    BY <2>1, <2>3, FailOthers, StayAwake DEF LockPoints, SleepPoints
  <2>4. CASE pc' = [pc EXCEPT ![t] = "lock_loop"]
    <3>1. pc'[t] = "lock_loop"
      BY <2>4 DEF TypeInv, TypeOK
    <3> QED BY <2>1, <3>1, StayAwake DEF LockPoints, SleepPoints
  <2> QED BY <1>2, <2>2, <2>3, <2>4 DEF MutexLock
<1>3. CASE LockLoop(t)
  <2>1. ~ Sleeping(t)
    BY <1>3, AwakePoint DEF LockLoop, LockPoints, SleepPoints
  <2>2. CASE Raised(t)
    BY <1>3, <2>1, <2>2, ThrowOthers, StayAwake DEF LockLoop, LockPoints, SleepPoints
  <2>3. CASE ~ Raised(t)
    <3>1. sleeper' = sleeper + 1
      BY <1>3, <2>3 DEF LockLoop
    <3>2. pc'[t] \in {"lock", "lock_last"}
      BY <1>3, <2>3 DEF LockLoop, TypeInv, TypeOK
    <3>3. Sleeping(t)'
      BY <3>2 DEF Sleeping, LockPoints
    <3> QED BY <2>1, <3>1, <3>3 DEF Counted
  <2> QED BY <2>2, <2>3
<1>4. ASSUME UNCHANGED sleeper, pc[t] \in LockPoints,
             pc'[t] \in LockPoints \cup {"lock_check", "lock_exit"}
      PROVE  Counted(t)
  BY <1>4 DEF Counted, Sleeping
<1>5. ASSUME pc[t] \in LockPoints, LockTest(t, arg[t]) PROVE pc'[t] \in LockPoints
  BY <1>5 DEF LockTest, LockPoints, TypeInv, TypeOK
<1>6. CASE LockFunc(t)
  BY <1>4, <1>5, <1>6 DEF LockFunc, LockPoints
<1>7. CASE LockWoken(t)
  <2>1. pc[t] \in LockPoints /\ UNCHANGED sleeper
    BY <1>7 DEF LockWoken, LockPoints
  <2>2. CASE pc' = [pc EXCEPT ![t] = "interrupted"]
    BY <1>4, <2>1, <2>2 DEF LockPoints, TypeInv, TypeOK
  <2>3. CASE LockTest(t, arg[t])
    BY <1>4, <1>5, <2>1, <2>3
  <2> QED BY <1>7, <2>2, <2>3 DEF LockWoken
<1>8. CASE LockAcquired(t)
  <2>1. Sleeping(t) /\ sleeper' = sleeper - 1 /\ Return(t)
    BY <1>8 DEF LockAcquired, Sleeping, LockPoints
  <2>2. pc'[t] \in {"run", "end"}
    BY <2>1, ReturnOthers
  <2>3. ~ Sleeping(t)'
    BY <2>2 DEF Sleeping, LockPoints, SleepPoints
  <2> QED BY <2>1, <2>3 DEF Counted
<1>9. CASE LockBack(t)
  <2>1. PICK q \in {"lock_check", "lock_exit"} : pc' = [pc EXCEPT ![t] = q]
    BY <1>9 DEF LockBack
  <2> QED BY <1>4, <1>9, <2>1 DEF LockBack, LockPoints, TypeInv, TypeOK
<1>10. CASE LockExit(t)
  <2>1. Sleeping(t) /\ sleeper' = sleeper - 1
    BY <1>10 DEF LockExit, Sleeping
  <2>2. CASE Throw(t)
    <3>1. pc'[t] = "unwind"
      BY <2>2, ThrowOthers
    <3>2. ~ Sleeping(t)'
      BY <3>1 DEF Sleeping, LockPoints, SleepPoints
    <3> QED BY <2>1, <3>2 DEF Counted
  <2>3. CASE pc' = [pc EXCEPT ![t] = "lock_loop"]
    <3>1. pc'[t] = "lock_loop"
      BY <2>3 DEF TypeInv, TypeOK
    <3>2. ~ Sleeping(t)'
      BY <3>1 DEF Sleeping, LockPoints, SleepPoints
    <3> QED BY <2>1, <3>2 DEF Counted
  <2> QED BY <1>10, <2>2, <2>3 DEF LockExit
<1> QED BY <1>2, <1>3, <1>6, <1>7, <1>8, <1>9, <1>10 DEF Locking

LEMMA InSleepCount ==
    ASSUME TypeInv, NEW t \in Threads, InSleep(t)
    PROVE  CountStep(t)
<1>0. pc[t] \notin Away /\ UNCHANGED living
  BY DEF InSleep, NativeSleep, TimeOut, Awake, SleepThrow, SleepOn, SleepDone,
         SleptStop, SleptMutex, Joined, JoinAgain, Throw, Away
<1>1. SUFFICES Counted(t)
  BY <1>0, WithinCount
<1>2. ASSUME UNCHANGED <<sleeper, call>>, pc[t] \in SleepPoints, pc'[t] \in SleepPoints
      PROVE  Counted(t)
  BY <1>2 DEF Counted, Sleeping, SleepPoints, LockPoints
<1>3. ASSUME pc[t] \in {"check_ints", "slept"} PROVE ~ Sleeping(t)
  BY <1>3, AwakePoint DEF LockPoints, SleepPoints
<1>4. ASSUME pc[t] \in {"check_ints", "slept"}, UNCHANGED sleeper,
             pc'[t] \in {"slept", "unwind", "run", "end", "mutex_lock"}
      PROVE  Counted(t)
  BY <1>3, <1>4, StayAwake DEF LockPoints, SleepPoints
<1>5. CASE NativeSleep(t) \/ TimeOut(t)
  <2>1. PICK q \in {"awake", "asleep"} : pc' = [pc EXCEPT ![t] = q]
    BY <1>5 DEF NativeSleep, TimeOut
  <2>2. /\ pc[t] \in {"sleep", "asleep"}
        /\ UNCHANGED <<sleeper, call>>
    BY <1>5 DEF NativeSleep, TimeOut
  <2> QED BY <1>2, <2>1, <2>2 DEF SleepPoints, TypeInv, TypeOK
<1>6. CASE Awake(t)
  <2>1. pc[t] = "awake" /\ pc'[t] = "check_ints" /\ call'[t] = call[t]
    BY <1>6 DEF Awake, TypeInv, TypeOK
  <2>2. ~ Sleeping(t)'
    BY <2>1 DEF Sleeping, LockPoints, SleepPoints
  <2>3. Sleeping(t) <=> call[t] \in Deadlockable
    BY <2>1 DEF Sleeping, LockPoints, SleepPoints
  <2> QED BY <1>6, <2>2, <2>3 DEF Awake, Counted
<1>7. CASE SleepThrow(t)
  BY <1>4, <1>7, ThrowOthers DEF SleepThrow
<1>8. CASE SleepOn(t) \/ JoinAgain(t)
  <2>1. /\ pc[t] \in {"check_ints", "slept"}
        /\ pc'[t] = SleepPoint(call[t])
        /\ call'[t] = call[t]
        /\ FallAsleep(t, call[t])
    BY <1>8 DEF SleepOn, JoinAgain, TypeInv, TypeOK
  <2> QED BY <1>3, <2>1, FallAsleepCounted
<1>9. CASE SleepDone(t)
  BY <1>4, <1>9 DEF SleepDone, TypeInv, TypeOK
<1>10. CASE SleptStop(t)
  BY <1>4, <1>10, ReturnOthers DEF SleptStop
<1>11. CASE SleptMutex(t)
  BY <1>4, <1>11 DEF SleptMutex, Relock, TypeInv, TypeOK
<1>12. CASE Joined(t)
  <2>1. PICK q \in {"run", "end"} : pc' = [pc EXCEPT ![t] = q]
    BY <1>12 DEF Joined
  <2> QED BY <1>4, <1>12, <2>1 DEF Joined, TypeInv, TypeOK
<1> QED BY <1>5, <1>6, <1>7, <1>8, <1>9, <1>10, <1>11, <1>12 DEF InSleep

LEMMA EndingCount ==
    ASSUME TypeInv, NEW t \in Threads,
           Ending(t) \/ Unwind(t) \/ CheckDeadlock(t)
    PROVE  CountStep(t)
<1>0. ASSUME ~ Sleeping(t), UNCHANGED sleeper,
             pc'[t] \in {"run", "end", "mutex_lock"} \cup Away
      PROVE  Counted(t)
  BY <1>0, StayAwake DEF LockPoints, SleepPoints, Away
<1>1. ASSUME pc[t] \in {"start", "end", "unwind"} \cup Away PROVE ~ Sleeping(t)
  BY <1>1, AwakePoint DEF LockPoints, SleepPoints, Away
<1>2. CASE Start(t)
  <2>1. pc[t] = "start" /\ pc'[t] = "run" /\ UNCHANGED <<sleeper, living>>
    BY <1>2 DEF Start, TypeInv, TypeOK
  <2> QED BY <1>0, <1>1, <2>1, WithinCount DEF Away
<1>3. CASE MainEnd(t) \/ UnlockedAll(t) \/ TerminateDone(t) \/ Exit(t)
  <2>1. PICK q \in Away : pc' = [pc EXCEPT ![t] = q]
    BY <1>3 DEF MainEnd, UnlockedAll, TerminateDone, Exit, Away
  <2>2. /\ pc'[t] = q
        /\ UNCHANGED <<sleeper, living>>
        /\ pc[t] \in {"end", "cleanup", "terminate", "exit"}
    BY <1>3, <2>1 DEF MainEnd, UnlockedAll, TerminateDone, Exit, TypeInv, TypeOK
  <2>3. Counted(t)
    BY <1>0, <1>1, <2>2 DEF Away
  <2> QED BY <2>2, <2>3 DEF CountStep, Listed
<1>4. CASE ThreadEnd(t)
  <2>1. join_list[t] \in SUBSET Threads
    BY DEF TypeInv, TypeOK
  <2>2. /\ pc[t] = "end"
        /\ Interrupt(join_list[t], [pc EXCEPT ![t] = "cleanup"])
        /\ UNCHANGED <<call, arg, sleeper>>
        /\ living' = living \ {t}
    BY <1>4 DEF ThreadEnd
  <2>3. pc'[t] = "cleanup"
    BY <2>1, <2>2, InterruptOthers DEF Points, GVLPoints
  <2>4. Counted(t)
    BY <1>0, <1>1, <2>2, <2>3 DEF Away
  <2> QED BY <2>2, <2>3, <2>4 DEF CountStep, Listed, Away
<1>5. CASE UnlockAll(t)
  <2>1. PICK m \in Mutexes : Release(t, m, pc)
    BY <1>5 DEF UnlockAll, TypeInv, TypeOK
  <2>2. pc[t] = "cleanup" /\ UNCHANGED <<call, arg, sleeper, living>>
    BY <1>5 DEF UnlockAll
  <2>3. [pc EXCEPT ![t] = "cleanup"] = pc
    BY <2>2 DEF TypeInv, TypeOK
  <2>4. pc'[t] = "cleanup"
    BY <2>1, <2>2, <2>3, ReleaseOthers DEF Points, GVLPoints
  <2>5. Counted(t)
    BY <1>0, <1>1, <2>2, <2>4 DEF Away
  <2> QED BY <2>2, <2>4, <2>5 DEF CountStep, Listed, Away
<1>6. ASSUME NEW u \in Threads, Terminate(t, u) PROVE CountStep(t)
  <2>1. /\ pc[t] = "terminate"
        /\ Interrupt({u}, pc)
        /\ UNCHANGED <<call, arg, sleeper, living>>
    BY <1>6 DEF Terminate
  <2>2. [pc EXCEPT ![t] = "terminate"] = pc
    BY <2>1 DEF TypeInv, TypeOK
  <2>3. pc'[t] = "terminate"
    BY <2>1, <2>2, InterruptOthers DEF Points, GVLPoints
  <2>4. Counted(t)
    BY <1>0, <1>1, <2>1, <2>3 DEF Away
  <2> QED BY <2>1, <2>3, <2>4 DEF CountStep, Listed, Away
<1>7. CASE IgnoreInterrupt(t)
  BY <1>0, <1>1, <1>7 DEF IgnoreInterrupt, CountStep, Listed, Away
<1>8. CASE Unwind(t)
  <2>1. pc'[t] \in {"run", "end", "mutex_lock"}
    BY <1>8, ReturnOthers DEF Unwind, Relock, TypeInv, TypeOK
  <2>2. pc[t] = "unwind" /\ UNCHANGED <<sleeper, living>>
    BY <1>8 DEF Unwind
  <2> QED BY <1>0, <1>1, <2>1, <2>2, WithinCount DEF Away
<1>9. CASE CheckDeadlock(t)
  <2>1. PICK q \in {"sleep", "lock_exit", "dead"} :
           /\ AfterCheck(pc[t]) = q
           /\ q = "dead" <=> pc[t] = "end_check"
           /\ q = "sleep" <=> pc[t] = "sleep_check"
    BY <1>9 DEF CheckDeadlock, AfterCheck
  <2>2. /\ pc[t] \in {"sleep_check", "lock_check", "end_check"}
        /\ UNCHANGED <<call, arg, sleeper, living>>
    BY <1>9 DEF CheckDeadlock
  <2>3. pc'[t] = q
    <3>1. CASE Interrupt({Main}, [pc EXCEPT ![t] = q])
      BY <2>2, <3>1, InterruptOthers, MainAssumption
         DEF Points, SleepPoints, GVLPoints
    <3>2. CASE pc' = [pc EXCEPT ![t] = q]
      BY <2>2, <3>2, MoveOthers
    <3> QED BY <1>9, <2>1, <3>1, <3>2 DEF CheckDeadlock
  <2>4. Sleeping(t)' <=> Sleeping(t)
    BY <2>1, <2>2, <2>3 DEF Sleeping, SleepPoints, LockPoints
  <2> QED BY <2>1, <2>2, <2>3, <2>4 DEF CountStep, Counted, Listed, Away
<1> QED BY <1>2, <1>3, <1>4, <1>5, <1>6, <1>7, <1>8, <1>9 DEF Ending

-----------------------------------------------------------------------------
Sleepers == {t \in Threads : Sleeping(t)}

SleeperInv == TypeInv /\ Present /\ sleeper = Cardinality(Sleepers)

LEMMA StepCount ==
    ASSUME SleeperInv, NEW t \in Threads, Step(t)
    PROVE  Present' /\ sleeper' = Cardinality(Sleepers')
<1>1. CountStep(t)
  BY OperationCount, LockingCount, InSleepCount, EndingCount DEF Step, SleeperInv
<1>2. Others(t)
  BY StepMutex DEF SleeperInv, MutexStep
<1>3. \A u \in Threads \ {t} : Sleeping(u)' <=> Sleeping(u)
  BY <1>2 DEF Others, Other, Sleeping, LockPoints, SleepPoints
<1>4. Present'
  BY <1>1, <1>2 DEF SleeperInv, Present, CountStep, Listed, Others, Other, Away
<1>5. IsFiniteSet(Sleepers)
  BY ThreadsAssumption, FS_Subset DEF Sleepers
<1>6. sleeper' = Cardinality(Sleepers')
  <2>1. CASE sleeper' = sleeper /\ (Sleeping(t)' <=> Sleeping(t))
    BY <1>3, <2>1 DEF SleeperInv, Sleepers
  <2>2. CASE sleeper' = sleeper + 1 /\ ~ Sleeping(t) /\ Sleeping(t)'
    <3>1. Sleepers' = Sleepers \cup {t} /\ t \notin Sleepers
      BY <1>3, <2>2 DEF Sleepers
    <3> QED BY <1>5, <2>2, <3>1, FS_AddElement DEF SleeperInv
  <2>3. CASE sleeper' = sleeper - 1 /\ Sleeping(t) /\ ~ Sleeping(t)'
    <3>1. Sleepers' = Sleepers \ {t} /\ t \in Sleepers
      BY <1>3, <2>3 DEF Sleepers
    <3> QED BY <1>5, <2>3, <3>1, FS_RemoveElement DEF SleeperInv
  <2> QED BY <1>1, <2>1, <2>2, <2>3 DEF CountStep, Counted
<1> QED BY <1>4, <1>6

LEMMA SleeperInit == Init => SleeperInv
<1> SUFFICES ASSUME Init PROVE SleeperInv
  OBVIOUS
<1>1. Sleepers = {}
  BY DEF Init, Sleepers, Sleeping, LockPoints, SleepPoints
<1>2. Present
  BY DEF Init, Present, Away
<1> QED BY <1>1, <1>2, InitType, FS_EmptySet DEF Init, SleeperInv

LEMMA SleeperNext == SleeperInv /\ [Next]_vars => SleeperInv'
<1> SUFFICES ASSUME SleeperInv, [Next]_vars PROVE SleeperInv'
  OBVIOUS
<1>1. CASE UNCHANGED vars
  <2>1. TypeInv'
    BY <1>1 DEF vars, SleeperInv, TypeInv, TypeOK, ArgOK
  <2>2. Sleepers' = Sleepers
    BY <1>1 DEF vars, Sleepers, Sleeping
  <2> QED BY <1>1, <2>1, <2>2 DEF vars, SleeperInv, Present
<1>2. ASSUME NEW t \in Threads, Step(t) PROVE SleeperInv'
  BY <1>2, StepType, StepCount DEF SleeperInv
<1> QED BY <1>1, <1>2 DEF Next, Terminated

\* vm->sleeper is the number of threads that sleep for good, and they are all
\* in living_threads.
THEOREM SleeperCorrect == Spec => []SleeperExact
<1>1. SleeperInv => SleeperExact
  BY DEF SleeperInv, SleeperExact, Sleepers, Present, Sleeping, Away, LockPoints,
         SleepPoints
<1> QED BY <1>1, SleeperInit, SleeperNext, PTL DEF Spec
=============================================================================
