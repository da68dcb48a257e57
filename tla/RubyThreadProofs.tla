--------------------------- MODULE RubyThreadProofs ---------------------------
(***************************************************************************)
(* Theorems about RubyThread, for every set of threads and mutexes and     *)
(* every program: which mutexes a thread keeps, and that class Mutex       *)
(* implements AbstractMutex.                                               *)
(***************************************************************************)
EXTENDS RubyThreadTypes

USE DEF threadVars, mutexVars, condVars, signalVars, listVars

\* What a step of t does to another thread u: nothing but to end its sleep or
\* its wait, or to start it.
Other(u) ==
    /\ \/ pc'[u] = pc[u]
       \/ pc[u] = "asleep" /\ pc'[u] = "awake"
       \/ pc[u] = "waiting" /\ pc'[u] = "notified"
       \/ pc[u] = "unborn" /\ pc'[u] = "start" /\ u \in living'
    /\ call'[u] = call[u]
    /\ arg'[u] = arg[u]

Others(t) == \A u \in Threads \ {t} : Other(u)

\* Interrupting threads and signalling a waiter leave the acting thread where
\* it goes, if it is not itself in native_sleep or native_cond_wait.
LEMMA InterruptOthers ==
    ASSUME TypeInv, NEW t \in Threads, NEW S \in SUBSET Threads, NEW q \in Points,
           pc[t] \notin {"asleep", "waiting"},
           Interrupt(S, [pc EXCEPT ![t] = q]), UNCHANGED <<call, arg>>
    PROVE  Others(t) /\ pc'[t] = q
BY DEF TypeInv, TypeOK, Interrupt, Awakened, Others, Other

LEMMA ReleaseOthers ==
    ASSUME TypeInv, NEW t \in Threads, NEW m \in Mutexes, NEW q \in Points,
           pc[t] \notin {"asleep", "waiting"},
           Release(t, m, [pc EXCEPT ![t] = q]),
           \A u \in Threads \ {t} : call'[u] = call[u] /\ arg'[u] = arg[u]
    PROVE  Others(t) /\ pc'[t] = q
<1>1. PICK W \in Signalled(m) : pc' = Notify(W, [pc EXCEPT ![t] = q])
  BY DEF Release
<1>2. \A u \in W : pc[u] = "waiting"
  BY <1>1 DEF Signalled, Waiters
<1> QED BY <1>1, <1>2 DEF TypeInv, TypeOK, Notify, Others, Other

-----------------------------------------------------------------------------
(***************************************************************************)
(* What a step of t does to mutex->th and th->keeping_mutexes: nothing,    *)
(* take a mutex (rb_mutex_trylock), give one back (mutex_unlock), take the *)
(* lock word alone (lock_func), or enlist a mutex taken that way.          *)
(***************************************************************************)
Ended == {"end_check", "terminate", "exit", "dead"}

Quiet(t) ==
    /\ UNCHANGED <<owner, keeping>>
    /\ pc[t] \notin {"acquired", "dead"} /\ pc'[t] # "acquired"
    /\ pc'[t] \in Ended => pc[t] \in Ended \/ keeping[t] = {}

Busy(t) == pc[t] \notin Ended /\ pc'[t] \notin Ended

Took(t, m) ==
    /\ owner[m] = NoThread
    /\ Take(t, m)
    /\ pc[t] # "acquired" /\ pc'[t] # "acquired"
    /\ Busy(t)

Gave(t, m) ==
    /\ m \in keeping[t] \/ owner[m] = t
    /\ owner' = [owner EXCEPT ![m] = NoThread]
    /\ keeping' = [keeping EXCEPT ![t] = @ \ {m}]
    /\ pc[t] # "acquired" /\ pc'[t] # "acquired"
    /\ Busy(t)

Seized(t) ==
    /\ arg[t] \in Mutexes /\ owner[arg[t]] = NoThread
    /\ owner' = [owner EXCEPT ![arg[t]] = t]
    /\ UNCHANGED <<keeping, arg>>
    /\ pc[t] # "acquired" /\ pc'[t] = "acquired"
    /\ Busy(t)

Enlisted(t) ==
    /\ pc[t] = "acquired" /\ pc'[t] # "acquired"
    /\ arg[t] \in Mutexes
    /\ keeping' = [keeping EXCEPT ![t] = @ \cup {arg[t]}]
    /\ UNCHANGED owner
    /\ Busy(t)

MutexStep(t) ==
    /\ Others(t)
    /\ \/ Quiet(t)
       \/ \E m \in Mutexes : Took(t, m) \/ Gave(t, m)
       \/ Seized(t)
       \/ Enlisted(t)

LEMMA ReturnOthers ==
    ASSUME TypeInv, NEW t \in Threads, Return(t)
    PROVE  Others(t) /\ pc'[t] \in {"run", "end"}
<1>1. PICK q \in {"run", "end"} : pc' = [pc EXCEPT ![t] = q]
  BY OutcomesType DEF Return
<1> QED BY <1>1 DEF Others, Other, Return, TypeInv, TypeOK

LEMMA FailOthers ==
    ASSUME TypeInv, NEW t \in Threads, Fail(t), UNCHANGED <<call, arg>>
    PROVE  Others(t) /\ pc'[t] = "unwind"
BY DEF Fail, Others, Other, TypeInv, TypeOK

LEMMA ThrowOthers ==
    ASSUME TypeInv, NEW t \in Threads, Throw(t)
    PROVE  Others(t) /\ pc'[t] = "unwind" /\ UNCHANGED <<owner, keeping>>
BY DEF Throw, Others, Other, TypeInv, TypeOK

\* A step of t alone from one point to another.
LEMMA MoveOthers ==
    ASSUME TypeInv, NEW t \in Threads, NEW q,
           pc' = [pc EXCEPT ![t] = q],
           \A u \in Threads \ {t} : call'[u] = call[u] /\ arg'[u] = arg[u]
    PROVE  Others(t) /\ pc'[t] = q
BY DEF Others, Other, TypeInv, TypeOK

-----------------------------------------------------------------------------
LEMMA OperationMutex ==
    ASSUME TypeInv, NEW t \in Threads, Operation(t)
    PROVE  MutexStep(t)
<1>0. pc[t] = "run"
  BY DEF Operation, Lock, TryLock, Unlock, MutexSleep, Sleep, Wakeup, Kill, Raise,
         Join, Create, CreateFails, Finish, RunInterrupts, Ready, Running
<1>1. ASSUME NEW m \in Mutexes, Lock(t, m) PROVE MutexStep(t)
  <2>1. Others(t) /\ pc'[t] = "mutex_lock"
    BY <1>1 DEF Lock, Others, Other, TypeInv, TypeOK
  <2> QED BY <1>0, <1>1, <2>1 DEF Lock, MutexStep, Quiet, Ended
<1>2. ASSUME NEW m \in Mutexes, TryLock(t, m) PROVE MutexStep(t)
  <2>1. Others(t) /\ pc'[t] = "run"
    BY <1>0, <1>2 DEF TryLock, Others, Other
  <2>2. CASE owner[m] = NoThread
    BY <1>0, <1>2, <2>1, <2>2 DEF TryLock, MutexStep, Took, Busy, Ended
  <2>3. CASE owner[m] # NoThread
    BY <1>0, <1>2, <2>1, <2>3 DEF TryLock, MutexStep, Quiet, Ended
  <2> QED BY <2>2, <2>3
<1>3. ASSUME NEW m \in Mutexes, Unlock(t, m) PROVE MutexStep(t)
  <2>1. CASE owner[m] = t
    <3>1. Release(t, m, pc) /\ UNCHANGED <<call, arg>>
      BY <1>3, <2>1 DEF Unlock
    <3>2. [pc EXCEPT ![t] = "run"] = pc
      BY <1>0 DEF TypeInv, TypeOK
    <3>3. Others(t) /\ pc'[t] = "run"
      BY <1>0, <3>1, <3>2, ReleaseOthers DEF Points
    <3> QED BY <1>0, <2>1, <3>1, <3>3 DEF Release, MutexStep, Gave, Busy, Ended
  <2>2. CASE owner[m] # t
    BY <1>0, <1>3, <2>2, FailOthers DEF Unlock, MutexStep, Quiet, Ended
  <2> QED BY <2>1, <2>2
<1>4. ASSUME NEW m \in Mutexes, NEW c, MutexSleep(t, m, c) PROVE MutexStep(t)
  <2>1. CASE owner[m] = t
    <3>1. /\ Release(t, m, [pc EXCEPT ![t] = SleepPoint(c)])
          /\ EnterCall(t, c, m)
      BY <1>4, <2>1 DEF MutexSleep
    <3>2. SleepPoint(c) \in {"sleep_check", "sleep"}
      BY DEF SleepPoint
    <3>3. Others(t) /\ pc'[t] = SleepPoint(c)
      BY <1>0, <3>1, ReleaseOthers, SleepPointType DEF EnterCall, TypeInv, TypeOK
    <3> QED BY <1>0, <2>1, <3>1, <3>2, <3>3 DEF Release, MutexStep, Gave, Busy, Ended
  <2>2. CASE owner[m] # t
    BY <1>0, <1>4, <2>2, FailOthers DEF MutexSleep, MutexStep, Quiet, Ended
  <2> QED BY <2>1, <2>2
<1>5. ASSUME NEW c, Sleep(t, c) PROVE MutexStep(t)
  <2>1. UNCHANGED <<owner, keeping>>
    BY <1>5 DEF Sleep
  <2>2. CASE Fail(t) /\ UNCHANGED <<call, arg>>
    BY <1>0, <2>1, <2>2, FailOthers DEF MutexStep, Quiet, Ended
  <2>3. CASE EnterCall(t, c, NoArg) /\ pc' = [pc EXCEPT ![t] = SleepPoint(c)]
    <3>1. SleepPoint(c) \in {"sleep_check", "sleep"}
      BY DEF SleepPoint
    <3>2. Others(t) /\ pc'[t] = SleepPoint(c)
      BY <2>3, MoveOthers DEF EnterCall, TypeInv, TypeOK
    <3> QED BY <1>0, <2>1, <3>1, <3>2 DEF MutexStep, Quiet, Ended
  <2> QED BY <1>5, <2>2, <2>3 DEF Sleep
<1>6. ASSUME NEW u \in Threads, NEW c, Join(t, u, c) PROVE MutexStep(t)
  <2>1. UNCHANGED <<owner, keeping>>
    BY <1>6 DEF Join
  <2>2. CASE \E q \in {"run", "end"} : pc' = [pc EXCEPT ![t] = q] /\ UNCHANGED <<call, arg>>
    BY <1>0, <2>1, <2>2, MoveOthers DEF MutexStep, Quiet, Ended
  <2>3. CASE EnterCall(t, c, u) /\ pc' = [pc EXCEPT ![t] = SleepPoint(c)]
    <3>1. SleepPoint(c) \in {"sleep_check", "sleep"}
      BY DEF SleepPoint
    <3>2. Others(t) /\ pc'[t] = SleepPoint(c)
      BY <2>3, MoveOthers DEF EnterCall, TypeInv, TypeOK
    <3> QED BY <1>0, <2>1, <3>1, <3>2 DEF MutexStep, Quiet, Ended
  <2> QED BY <1>6, <2>2, <2>3 DEF Join
<1>7. ASSUME NEW u \in Threads, Wakeup(t, u) \/ Kill(t, u) \/ Raise(t, u)
      PROVE  MutexStep(t)
  <2>1. UNCHANGED <<owner, keeping, call, arg>>
    BY <1>7 DEF Wakeup, Kill, Raise
  <2>2. CASE Fail(t)
    BY <1>0, <2>1, <2>2, FailOthers DEF MutexStep, Quiet, Ended
  <2>3. CASE Interrupt({u}, pc)
    <3>1. [pc EXCEPT ![t] = "run"] = pc
      BY <1>0 DEF TypeInv, TypeOK
    <3>2. Others(t) /\ pc'[t] = "run"
      BY <1>0, <2>1, <2>3, <3>1, InterruptOthers DEF Points
    <3> QED BY <1>0, <2>1, <3>2 DEF MutexStep, Quiet, Ended
  <2>4. CASE UNCHANGED pc
    BY <1>0, <2>1, <2>4 DEF MutexStep, Quiet, Others, Other, Ended
  <2> QED BY <1>7, <2>2, <2>3, <2>4 DEF Wakeup, Kill, Raise
<1>8. ASSUME NEW u \in Threads, Create(t, u) PROVE MutexStep(t)
  <2>1. Others(t) /\ pc'[t] = "run"
    BY <1>0, <1>8 DEF Create, Others, Other, TypeInv, TypeOK
  <2> QED BY <1>0, <1>8, <2>1 DEF Create, MutexStep, Quiet, Ended
<1>9. CASE Finish(t)
  <2>1. Others(t) /\ pc'[t] = "end"
    BY <1>9, MoveOthers DEF Finish
  <2> QED BY <1>0, <1>9, <2>1 DEF Finish, MutexStep, Quiet, Ended
<1>10. CASE RunInterrupts(t)
  <2>1. CASE Throw(t)
    BY <1>0, <2>1, ThrowOthers DEF MutexStep, Quiet, Ended
  <2>2. CASE UNCHANGED <<pc, call, arg, owner, keeping>>
    BY <1>0, <2>2 DEF MutexStep, Quiet, Others, Other, Ended
  <2> QED BY <1>10, <2>1, <2>2 DEF RunInterrupts
<1>11. CASE CreateFails(t)
  BY <1>0, <1>11, FailOthers DEF CreateFails, MutexStep, Quiet, Ended
<1> QED BY <1>1, <1>2, <1>3, <1>4, <1>5, <1>6, <1>7, <1>8, <1>9, <1>10, <1>11 DEF Operation

LEMMA LockingMutex ==
    ASSUME TypeInv, NEW t \in Threads, Locking(t)
    PROVE  MutexStep(t)
<1>0. pc[t] \in LockingPoints => arg[t] \in Mutexes
  BY DEF TypeInv, ArgOK
<1>1. CASE MutexLock(t)
  <2>1. arg[t] \in Mutexes
    BY <1>0, <1>1 DEF MutexLock, LockingPoints
  <2>2. CASE owner[arg[t]] = NoThread /\ Take(t, arg[t]) /\ Return(t)
    BY <1>1, <2>1, <2>2, ReturnOthers DEF MutexLock, MutexStep, Took, Busy, Ended
  <2>3. CASE Fail(t) /\ UNCHANGED <<mutexVars, call, arg>>
    BY <1>1, <2>3, FailOthers DEF MutexLock, MutexStep, Quiet, Ended
  <2>4. CASE pc' = [pc EXCEPT ![t] = "lock_loop"] /\ UNCHANGED <<mutexVars, threadVars>>
    <3>1. Others(t) /\ pc'[t] = "lock_loop"
      BY <2>4 DEF Others, Other, TypeInv, TypeOK
    <3> QED BY <1>1, <2>4, <3>1 DEF MutexLock, MutexStep, Quiet, Ended
  <2> QED BY <1>1, <2>2, <2>3, <2>4 DEF MutexLock
<1>2. CASE LockLoop(t)
  <2>1. CASE Throw(t)
    BY <1>2, <2>1, ThrowOthers DEF LockLoop, MutexStep, Quiet, Ended
  <2>2. CASE ~ Raised(t)
    <3>1. PICK q \in {"lock", "lock_last"} : pc' = [pc EXCEPT ![t] = q]
      BY <1>2, <2>2 DEF LockLoop
    <3>2. UNCHANGED <<call, arg, owner, keeping>>
      BY <1>2, <2>2 DEF LockLoop
    <3> QED BY <1>2, <3>1, <3>2, MoveOthers DEF LockLoop, MutexStep, Quiet, Ended
  <2> QED BY <1>2, <2>1, <2>2 DEF LockLoop
<1>3. ASSUME pc[t] \in {"lock", "lock_last", "notified"}, LockTest(t, arg[t]),
             UNCHANGED <<call, arg, keeping>>
      PROVE  MutexStep(t)
  <2>1. arg[t] \in Mutexes
    BY <1>0, <1>3 DEF LockingPoints, LockPoints
  <2>2. CASE owner[arg[t]] = NoThread
    <3>1. pc' = [pc EXCEPT ![t] = "acquired"] /\ owner' = [owner EXCEPT ![arg[t]] = t]
      BY <1>3, <2>2 DEF LockTest
    <3>2. Others(t) /\ pc'[t] = "acquired"
      BY <1>3, <3>1, MoveOthers
    <3> QED BY <1>3, <2>1, <2>2, <3>1, <3>2 DEF MutexStep, Seized, Busy, Ended
  <2>3. CASE owner[arg[t]] # NoThread
    <3>1. PICK q \in {"refused", "waiting"} : pc' = [pc EXCEPT ![t] = q]
      BY <1>3, <2>3 DEF LockTest
    <3>2. UNCHANGED owner
      BY <1>3, <2>3 DEF LockTest
    <3>3. Others(t) /\ pc'[t] = q
      BY <1>3, <3>1, MoveOthers
    <3> QED BY <1>3, <3>2, <3>3 DEF MutexStep, Quiet, Ended
  <2> QED BY <2>2, <2>3
<1>4. CASE LockFunc(t)
  BY <1>3, <1>4 DEF LockFunc
<1>5. CASE LockWoken(t)
  <2>1. CASE pc' = [pc EXCEPT ![t] = "interrupted"] /\ UNCHANGED <<owner, keeping, call, arg>>
    BY <1>5, <2>1, MoveOthers DEF LockWoken, MutexStep, Quiet, Ended
  <2>2. CASE LockTest(t, arg[t])
    BY <1>3, <1>5, <2>2 DEF LockWoken
  <2> QED BY <1>5, <2>1, <2>2 DEF LockWoken
<1>6. CASE LockAcquired(t)
  <2>1. arg[t] \in Mutexes
    BY <1>0, <1>6 DEF LockAcquired, LockingPoints, LockPoints
  <2> QED BY <1>6, <2>1, ReturnOthers DEF LockAcquired, MutexStep, Enlisted, Busy, Ended
<1>7. CASE LockBack(t)
  <2>1. PICK q \in {"lock_check", "lock_exit"} : pc' = [pc EXCEPT ![t] = q]
    BY <1>7 DEF LockBack
  <2>2. Others(t) /\ pc'[t] = q
    BY <1>7, <2>1, MoveOthers DEF LockBack
  <2> QED BY <1>7, <2>2 DEF LockBack, MutexStep, Quiet, Ended
<1>8. CASE LockExit(t)
  <2>1. CASE Throw(t)
    BY <1>8, <2>1, ThrowOthers DEF LockExit, MutexStep, Quiet, Ended
  <2>2. CASE pc' = [pc EXCEPT ![t] = "lock_loop"] /\ UNCHANGED <<call, arg, owner, keeping>>
    BY <1>8, <2>2, MoveOthers DEF LockExit, MutexStep, Quiet, Ended
  <2> QED BY <1>8, <2>1, <2>2 DEF LockExit
<1> QED BY <1>1, <1>2, <1>4, <1>5, <1>6, <1>7, <1>8 DEF Locking

LEMMA InSleepMutex ==
    ASSUME TypeInv, NEW t \in Threads, InSleep(t)
    PROVE  MutexStep(t)
<1>1. ASSUME pc[t] \in {"sleep", "asleep", "awake", "check_ints", "slept"},
             NEW q \in {"asleep", "awake", "check_ints", "slept", "sleep",
                        "sleep_check", "run", "end", "mutex_lock"},
             pc' = [pc EXCEPT ![t] = q], UNCHANGED <<owner, keeping>>,
             \A u \in Threads \ {t} : call'[u] = call[u] /\ arg'[u] = arg[u]
      PROVE  MutexStep(t)
  BY <1>1, MoveOthers DEF MutexStep, Quiet, Ended
<1>2. \A c : SleepPoint(c) \in {"sleep_check", "sleep"}
  BY DEF SleepPoint
<1>3. CASE NativeSleep(t) \/ TimeOut(t) \/ Awake(t) \/ SleepDone(t)
  <2>1. /\ pc[t] \in {"sleep", "asleep", "awake", "check_ints"}
        /\ UNCHANGED <<owner, keeping, call, arg>>
    BY <1>3 DEF NativeSleep, TimeOut, Awake, SleepDone
  <2>2. PICK q \in {"awake", "asleep", "check_ints", "slept"} : pc' = [pc EXCEPT ![t] = q]
    BY <1>3 DEF NativeSleep, TimeOut, Awake, SleepDone
  <2> QED BY <1>1, <2>1, <2>2
<1>4. CASE SleepThrow(t)
  BY <1>4, ThrowOthers DEF SleepThrow, MutexStep, Quiet, Ended
<1>5. CASE SleepOn(t) \/ JoinAgain(t)
  BY <1>1, <1>2, <1>5 DEF SleepOn, JoinAgain
<1>6. CASE SleptStop(t)
  BY <1>6, ReturnOthers DEF SleptStop, MutexStep, Quiet, Ended
<1>7. CASE SleptMutex(t)
  BY <1>1, <1>7 DEF SleptMutex, Relock, TypeInv, TypeOK
<1>8. CASE Joined(t)
  <2>1. PICK q \in {"run", "end"} : pc' = [pc EXCEPT ![t] = q]
    BY <1>8 DEF Joined
  <2> QED BY <1>1, <1>8, <2>1 DEF Joined, TypeInv, TypeOK
<1> QED BY <1>3, <1>4, <1>5, <1>6, <1>7, <1>8 DEF InSleep

LEMMA EndingMutex ==
    ASSUME TypeInv, NEW t \in Threads,
           Ending(t) \/ Unwind(t) \/ CheckDeadlock(t)
    PROVE  MutexStep(t)
<1>1. CASE Start(t)
  BY <1>1, MoveOthers DEF Start, MutexStep, Quiet, Ended
<1>2. CASE MainEnd(t)
  BY <1>2, MoveOthers DEF MainEnd, MutexStep, Quiet, Ended
<1>3. CASE ThreadEnd(t)
  <2>1. join_list[t] \in SUBSET Threads
    BY DEF TypeInv, TypeOK
  <2>2. /\ pc[t] = "end"
        /\ Interrupt(join_list[t], [pc EXCEPT ![t] = "cleanup"])
        /\ UNCHANGED <<call, arg, owner, keeping>>
    BY <1>3 DEF ThreadEnd
  <2>3. Others(t) /\ pc'[t] = "cleanup"
    BY <2>1, <2>2, InterruptOthers DEF Points, GVLPoints
  <2> QED BY <2>2, <2>3 DEF MutexStep, Quiet, Ended
<1>4. CASE UnlockAll(t)
  <2>1. PICK m \in Mutexes : m \in keeping[t] /\ Release(t, m, pc)
    BY <1>4 DEF UnlockAll, TypeInv, TypeOK
  <2>2. pc[t] = "cleanup" /\ UNCHANGED <<call, arg>>
    BY <1>4 DEF UnlockAll
  <2>3. [pc EXCEPT ![t] = "cleanup"] = pc
    BY <2>2 DEF TypeInv, TypeOK
  <2>4. Others(t) /\ pc'[t] = "cleanup"
    BY <2>1, <2>2, <2>3, ReleaseOthers DEF Points, GVLPoints
  <2> QED BY <2>1, <2>2, <2>4 DEF Release, MutexStep, Gave, Busy, Ended
<1>5. CASE UnlockedAll(t)
  <2>1. PICK q \in {"terminate", "end_check"} : pc' = [pc EXCEPT ![t] = q]
    BY <1>5 DEF UnlockedAll
  <2>2. Others(t) /\ pc'[t] = q
    BY <1>5, <2>1, MoveOthers DEF UnlockedAll
  <2> QED BY <1>5, <2>2 DEF UnlockedAll, MutexStep, Quiet, Ended
<1>6. ASSUME NEW u \in Threads, Terminate(t, u) PROVE MutexStep(t)
  <2>1. /\ pc[t] = "terminate"
        /\ Interrupt({u}, pc)
        /\ UNCHANGED <<call, arg, owner, keeping>>
    BY <1>6 DEF Terminate
  <2>2. [pc EXCEPT ![t] = "terminate"] = pc
    BY <2>1 DEF TypeInv, TypeOK
  <2>3. Others(t) /\ pc'[t] = "terminate"
    BY <2>1, <2>2, InterruptOthers DEF Points, GVLPoints
  <2> QED BY <2>1, <2>3 DEF MutexStep, Quiet, Ended
<1>7. CASE IgnoreInterrupt(t)
  BY <1>7 DEF IgnoreInterrupt, MutexStep, Quiet, Others, Other, Ended
<1>8. CASE TerminateDone(t) \/ Exit(t)
  BY <1>8, MoveOthers DEF TerminateDone, Exit, MutexStep, Quiet, Ended
<1>9. CASE Unwind(t)
  <2>1. CASE Relock(t)
    <3>1. Others(t) /\ pc'[t] = "mutex_lock"
      BY <2>1 DEF Relock, Others, Other, TypeInv, TypeOK
    <3> QED BY <1>9, <3>1 DEF Unwind, MutexStep, Quiet, Ended
  <2>2. CASE Return(t)
    BY <1>9, <2>2, ReturnOthers DEF Unwind, MutexStep, Quiet, Ended
  <2> QED BY <1>9, <2>1, <2>2 DEF Unwind
<1>10. CASE CheckDeadlock(t)
  <2>1. PICK q \in {"sleep", "lock_exit", "dead"} :
           /\ AfterCheck(pc[t]) = q
           /\ q = "dead" => pc[t] = "end_check"
    BY <1>10 DEF CheckDeadlock, AfterCheck
  <2>2. /\ pc[t] \in {"sleep_check", "lock_check", "end_check"}
        /\ UNCHANGED <<call, arg, owner, keeping>>
    BY <1>10 DEF CheckDeadlock
  <2>3. Others(t) /\ pc'[t] = q
    <3>1. CASE Interrupt({Main}, [pc EXCEPT ![t] = q])
      BY <2>2, <3>1, InterruptOthers, MainAssumption
         DEF Points, SleepPoints, GVLPoints
    <3>2. CASE pc' = [pc EXCEPT ![t] = q]
      BY <2>2, <3>2, MoveOthers
    <3> QED BY <1>10, <2>1, <3>1, <3>2 DEF CheckDeadlock
  <2> QED BY <2>1, <2>2, <2>3 DEF MutexStep, Quiet, Ended
<1> QED BY <1>1, <1>2, <1>3, <1>4, <1>5, <1>6, <1>7, <1>8, <1>9, <1>10 DEF Ending

LEMMA StepMutex ==
    ASSUME TypeInv, NEW t \in Threads, Step(t)
    PROVE  MutexStep(t)
BY OperationMutex, LockingMutex, InSleepMutex, EndingMutex DEF Step

-----------------------------------------------------------------------------
\* A thread that is past rb_mutex_unlock_all keeps no mutex.
EndedKeepsNothing == \A t \in Threads : pc[t] \in Ended => keeping[t] = {}

MutexInv == TypeInv /\ KeepingOwned /\ EndedKeepsNothing

LEMMA KeepingStep ==
    ASSUME MutexInv, NEW t \in Threads, MutexStep(t)
    PROVE  KeepingOwned'
<1> USE DEF MutexInv, TypeInv, TypeOK, KeepingOwned
<1>1. \A u \in Threads \ {t} : /\ pc'[u] = "acquired" <=> pc[u] = "acquired"
                               /\ arg'[u] = arg[u]
  BY DEF MutexStep, Others, Other
<1>2. CASE Quiet(t)
  BY <1>1, <1>2 DEF Quiet
<1>3. ASSUME NEW m \in Mutexes, Took(t, m) PROVE KeepingOwned'
  BY <1>1, <1>3, ThreadsAssumption DEF Took, Take
<1>4. ASSUME NEW m \in Mutexes, Gave(t, m) PROVE KeepingOwned'
  BY <1>1, <1>4, ThreadsAssumption DEF Gave
<1>5. CASE Seized(t)
  BY <1>1, <1>5, ThreadsAssumption DEF Seized
<1>6. CASE Enlisted(t)
  BY <1>1, <1>6 DEF Enlisted
<1> QED BY <1>2, <1>3, <1>4, <1>5, <1>6 DEF MutexStep

LEMMA EndedStep ==
    ASSUME MutexInv, NEW t \in Threads, MutexStep(t)
    PROVE  EndedKeepsNothing'
<1> USE DEF MutexInv, TypeInv, TypeOK, EndedKeepsNothing
<1>1. \A u \in Threads \ {t} : pc'[u] \in Ended => pc[u] \in Ended
  BY DEF MutexStep, Others, Other, Ended
<1>2. CASE Quiet(t)
  BY <1>1, <1>2 DEF Quiet
<1>3. CASE \E m \in Mutexes : Took(t, m) \/ Gave(t, m)
  BY <1>1, <1>3 DEF Took, Take, Gave, Busy
<1>4. CASE Seized(t) \/ Enlisted(t)
  BY <1>1, <1>4 DEF Seized, Enlisted, Busy
<1> QED BY <1>2, <1>3, <1>4 DEF MutexStep

LEMMA MutexInvInit == Init => MutexInv
BY InitType, ThreadsAssumption
   DEF Init, MutexInv, KeepingOwned, EndedKeepsNothing, Ended

LEMMA MutexInvNext == MutexInv /\ [Next]_vars => MutexInv'
<1> SUFFICES ASSUME MutexInv, [Next]_vars PROVE MutexInv'
  OBVIOUS
<1>1. CASE UNCHANGED vars
  BY <1>1 DEF vars, MutexInv, TypeInv, TypeOK, ArgOK, KeepingOwned, EndedKeepsNothing
<1>2. ASSUME NEW t \in Threads, Step(t) PROVE MutexInv'
  BY <1>2, StepType, StepMutex, KeepingStep, EndedStep DEF MutexInv
<1> QED BY <1>1, <1>2 DEF Next, Terminated

THEOREM MutexInvariant == Spec => []MutexInv
BY MutexInvInit, MutexInvNext, PTL DEF Spec

\* A thread keeps exactly the mutexes it owns, whatever interrupts it, but for
\* one that lock_func has just taken.
THEOREM KeepingCorrect == Spec => []KeepingOwned
<1>1. MutexInv => KeepingOwned
  BY DEF MutexInv
<1> QED BY <1>1, MutexInvariant, PTL

\* Class Mutex implements AbstractMutex: one owner, given back by nobody else,
\* and none left behind by a thread that is gone.
THEOREM MutexRefinement == Spec => ImplementsMutex
<1>1. Init => Abstract!Init
  BY DEF Init, Abstract!Init
<1>2. MutexInv /\ [Next]_vars => [Abstract!Next]_<<owner, {t \in Threads : pc[t] = "dead"}>>
  <2> SUFFICES ASSUME MutexInv, [Next]_vars
               PROVE  \/ Abstract!Next
                      \/ UNCHANGED <<owner, {t \in Threads : pc[t] = "dead"}>>
    OBVIOUS
  <2>1. CASE UNCHANGED vars
    BY <2>1 DEF vars
  <2>2. ASSUME NEW t \in Threads, Step(t)
        PROVE  \/ Abstract!Next
               \/ UNCHANGED <<owner, {u \in Threads : pc[u] = "dead"}>>
    <3> DEFINE gone == {u \in Threads : pc[u] = "dead"}
    <3>0. MutexStep(t)
      BY <2>2, StepMutex DEF MutexInv
    <3>1. \A u \in Threads \ {t} : pc'[u] = "dead" <=> pc[u] = "dead"
      BY <3>0 DEF MutexStep, Others, Other
    <3>2. CASE Quiet(t) /\ pc'[t] # "dead"
      BY <3>1, <3>2 DEF Quiet
    <3>3. CASE Quiet(t) /\ pc'[t] = "dead"
      <4>1. gone' = gone \cup {t} /\ t \notin gone
        BY <3>1, <3>3 DEF Quiet
      <4>2. keeping[t] = {}
        BY <3>3 DEF Quiet, Ended, MutexInv, EndedKeepsNothing
      <4>3. \A m \in Mutexes : owner[m] # t
        BY <3>3, <4>2 DEF Quiet, MutexInv, KeepingOwned
      <4>4. Abstract!Leave(t)
        BY <3>3, <4>1, <4>3 DEF Abstract!Leave, Quiet
      <4> QED BY <4>4 DEF Abstract!Next
    <3>4. ASSUME Busy(t)
          PROVE  t \notin gone /\ gone' = gone
      BY <3>1, <3>4 DEF Busy, Ended
    <3>5. ASSUME NEW m \in Mutexes, Took(t, m) PROVE Abstract!Next
      <4>1. Abstract!Acquire(t, m)
        BY <3>4, <3>5 DEF Took, Take, Abstract!Acquire
      <4> QED BY <4>1 DEF Abstract!Next
    <3>6. ASSUME NEW m \in Mutexes, Gave(t, m) PROVE Abstract!Next
      <4>1. owner[m] = t
        BY <3>6 DEF Gave, MutexInv, KeepingOwned
      <4>2. Abstract!Release(t, m)
        BY <3>4, <3>6, <4>1 DEF Gave, Abstract!Release
      <4> QED BY <4>2 DEF Abstract!Next
    <3>7. CASE Seized(t)
      <4>1. Abstract!Acquire(t, arg[t])
        BY <3>4, <3>7 DEF Seized, Abstract!Acquire
      <4> QED BY <3>7, <4>1 DEF Seized, Abstract!Next
    <3>8. CASE Enlisted(t)
      BY <3>4, <3>8 DEF Enlisted
    <3> QED BY <3>0, <3>2, <3>3, <3>5, <3>6, <3>7, <3>8 DEF MutexStep
  <2> QED BY <2>1, <2>2 DEF Next, Terminated
<1> QED BY <1>1, <1>2, MutexInvariant, PTL DEF Spec, ImplementsMutex, Abstract!Spec
=============================================================================
