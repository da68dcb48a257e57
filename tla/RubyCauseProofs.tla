---------------------------- MODULE RubyCauseProofs ----------------------------
(***************************************************************************)
(* Three properties that the code does not always keep, and what alone can *)
(* break each, for every set of threads and mutexes and every program.     *)
(*                                                                         *)
(* lock_func waits without a look at the interrupt flag: that alone can    *)
(* leave threads waiting for a mutex that is free.  lock_interrupt assigns *)
(* mutex->cond_notified instead of adding to it: that alone can make       *)
(* rb_check_deadlock report a deadlock where a thread can still run.  And  *)
(* a deadlock can go unseen only where a thread waits with its flag set or *)
(* rb_check_deadlock runs while a thread is between the release of the GVL *)
(* and its wait.                                                           *)
(***************************************************************************)
EXTENDS RubyWaitingProofs, RubySleeperProofs

USE DEF threadVars, mutexVars, condVars, signalVars, listVars

\* No thread begins to wait that was interrupted before.  One that waits and is
\* interrupted stops waiting in the same step.
NoLateWait == \A u \in Threads : pc[u] = "waiting" => ~ interrupt_flag[u]

\* Somebody is on its way to the lock word and will not turn back before it.
Coming(m) ==
    \E u \in Threads : /\ arg[u] = m
                       /\ pc[u] \in {"lock", "lock_last", "notified"}
                       /\ ~ interrupt_flag[u]

Awaited == \A m \in Mutexes : owner[m] = NoThread /\ Waiters(m) # {} => Coming(m)

ForgottenInv == WaitingInv /\ Awaited

-----------------------------------------------------------------------------
(***************************************************************************)
(* A step of t leaves the flags of others alone, or interrupts some.       *)
(***************************************************************************)
Calm(t) == \A u \in Threads \ {t} : interrupt_flag'[u] = interrupt_flag[u]
Sends(t) == Calm(t) \/ \E S \in SUBSET Threads : \E p : Interrupt(S, p)

LEMMA CalmStep ==
    ASSUME TypeInv, NEW t \in Threads,
           \/ UNCHANGED interrupt_flag
           \/ ClearInterrupt(t)
           \/ Throw(t)
    PROVE  Sends(t)
BY DEF Sends, Calm, ClearInterrupt, Throw, TypeInv, TypeOK

LEMMA OperationSends ==
    ASSUME TypeInv, NEW t \in Threads, Operation(t)
    PROVE  Sends(t)
<1>1. ASSUME NEW m \in Mutexes, NEW c,
             \/ Lock(t, m) \/ TryLock(t, m) \/ Unlock(t, m) \/ MutexSleep(t, m, c)
      PROVE  Sends(t)
  BY <1>1, CalmStep DEF Lock, TryLock, Unlock, MutexSleep
<1>2. ASSUME NEW c, Sleep(t, c) PROVE Sends(t)
  BY <1>2, CalmStep DEF Sleep
<1>3. ASSUME NEW u \in Threads, NEW c, Join(t, u, c) PROVE Sends(t)
  BY <1>3, CalmStep DEF Join
<1>4. ASSUME NEW u \in Threads, Wakeup(t, u) \/ Kill(t, u) \/ Raise(t, u)
      PROVE  Sends(t)
  <2>1. UNCHANGED interrupt_flag \/ Interrupt({u}, pc)
    BY <1>4 DEF Wakeup, Kill, Raise
  <2> QED BY <2>1, CalmStep DEF Sends
<1>5. ASSUME NEW u \in Threads, Create(t, u) PROVE Sends(t)
  BY <1>5, CalmStep DEF Create
<1>6. CASE Finish(t)
  BY <1>6, CalmStep DEF Finish
<1>7. CASE RunInterrupts(t)
  BY <1>7, CalmStep DEF RunInterrupts
<1>8. CASE CreateFails(t)
  BY <1>8, CalmStep DEF CreateFails
<1> QED BY <1>1, <1>2, <1>3, <1>4, <1>5, <1>6, <1>7, <1>8 DEF Operation

LEMMA LockingSends ==
    ASSUME TypeInv, NEW t \in Threads, Locking(t)
    PROVE  Sends(t)
<1>1. CASE \/ MutexLock(t) \/ LockFunc(t) \/ LockWoken(t) \/ LockAcquired(t)
           \/ LockBack(t)
  BY <1>1, CalmStep DEF MutexLock, LockFunc, LockWoken, LockAcquired, LockBack
<1>2. CASE LockLoop(t) \/ LockExit(t)
  BY <1>2, CalmStep DEF LockLoop, LockExit
<1> QED BY <1>1, <1>2 DEF Locking

LEMMA InSleepSends ==
    ASSUME TypeInv, NEW t \in Threads, InSleep(t)
    PROVE  Sends(t)
<1>1. CASE \/ NativeSleep(t) \/ TimeOut(t) \/ Awake(t) \/ SleptStop(t)
           \/ SleptMutex(t) \/ Joined(t) \/ JoinAgain(t)
  BY <1>1, CalmStep
     DEF NativeSleep, TimeOut, Awake, SleptStop, SleptMutex, Joined, JoinAgain
<1>2. CASE SleepThrow(t) \/ SleepOn(t) \/ SleepDone(t)
  BY <1>2, CalmStep DEF SleepThrow, SleepOn, SleepDone
<1> QED BY <1>1, <1>2 DEF InSleep

LEMMA EndingSends ==
    ASSUME TypeInv, NEW t \in Threads, Ending(t) \/ Unwind(t) \/ CheckDeadlock(t)
    PROVE  Sends(t)
<1>0. join_list[t] \in SUBSET Threads
  BY DEF TypeInv, TypeOK
<1>1. CASE \/ Start(t) \/ MainEnd(t) \/ UnlockAll(t) \/ UnlockedAll(t)
           \/ TerminateDone(t) \/ Exit(t) \/ Unwind(t)
  BY <1>1, CalmStep
     DEF Start, MainEnd, UnlockAll, UnlockedAll, TerminateDone, Exit, Unwind
<1>2. CASE IgnoreInterrupt(t)
  BY <1>2, CalmStep DEF IgnoreInterrupt
<1>3. CASE ThreadEnd(t)
  BY <1>0, <1>3 DEF ThreadEnd, Sends
<1>4. ASSUME NEW u \in Threads, Terminate(t, u) PROVE Sends(t)
  BY <1>4 DEF Terminate, Sends
<1>5. CASE CheckDeadlock(t)
  <2>1. UNCHANGED interrupt_flag \/ \E p : Interrupt({Main}, p)
    BY <1>5 DEF CheckDeadlock
  <2> QED BY <2>1, CalmStep, MainAssumption DEF Sends
<1> QED BY <1>1, <1>2, <1>3, <1>4, <1>5 DEF Ending

LEMMA StepSends ==
    ASSUME TypeInv, NEW t \in Threads, Step(t)
    PROVE  Sends(t)
BY OperationSends, LockingSends, InSleepSends, EndingSends DEF Step

-----------------------------------------------------------------------------
(***************************************************************************)
(* A mutex becomes free only by mutex_unlock, which flags nobody.          *)
(***************************************************************************)
Keeps(m) == owner'[m] = NoThread => owner[m] = NoThread
Frees(t, m) ==
    /\ \E q \in Points \ {"waiting"} : Release(t, m, [pc EXCEPT ![t] = q])
    /\ UNCHANGED interrupt_flag
    /\ Running(t) \/ pc[t] = "cleanup"

LEMMA ReleaseFrees ==
    ASSUME TypeInv, NEW t \in Threads, NEW n \in Mutexes,
           NEW q \in Points \ {"waiting"},
           Release(t, n, [pc EXCEPT ![t] = q]), UNCHANGED interrupt_flag,
           Running(t) \/ pc[t] = "cleanup",
           NEW m \in Mutexes
    PROVE  Keeps(m) \/ Frees(t, m)
<1>1. CASE m = n
  BY <1>1 DEF Frees
<1>2. CASE m # n
  BY <1>2 DEF Release, Keeps, TypeInv, TypeOK
<1> QED BY <1>1, <1>2

LEMMA TakeKeeps ==
    ASSUME TypeInv, NEW t \in Threads, NEW n \in Mutexes, NEW m \in Mutexes,
           owner' = [owner EXCEPT ![n] = t]
    PROVE  Keeps(m)
BY ThreadsAssumption DEF Keeps, TypeInv, TypeOK

LEMMA OperationFrees ==
    ASSUME TypeInv, NEW t \in Threads, Operation(t), NEW m \in Mutexes
    PROVE  Keeps(m) \/ Frees(t, m)
<1>0. pc[t] = "run" /\ pc = [pc EXCEPT ![t] = "run"] /\ "run" \in Points
  BY DEF Operation, Lock, TryLock, Unlock, MutexSleep, Sleep, Wakeup, Kill, Raise,
         Join, Create, CreateFails, Finish, RunInterrupts, Ready, Running, TypeInv,
         TypeOK, Points
<1>1. CASE UNCHANGED owner
  BY <1>1 DEF Keeps
<1>2. ASSUME NEW n \in Mutexes, TryLock(t, n), ~ UNCHANGED owner
      PROVE  Keeps(m) \/ Frees(t, m)
  BY <1>2, TakeKeeps DEF TryLock, Take
<1>3. ASSUME NEW n \in Mutexes, Unlock(t, n), ~ UNCHANGED owner
      PROVE  Keeps(m) \/ Frees(t, m)
  <2>1. Release(t, n, pc) /\ UNCHANGED interrupt_flag /\ Running(t)
    BY <1>3 DEF Unlock, Ready
  <2> QED BY <1>0, <2>1, ReleaseFrees
<1>4. ASSUME NEW n \in Mutexes, NEW c, MutexSleep(t, n, c), ~ UNCHANGED owner
      PROVE  Keeps(m) \/ Frees(t, m)
  <2>1. /\ Release(t, n, [pc EXCEPT ![t] = SleepPoint(c)])
        /\ UNCHANGED interrupt_flag /\ Running(t)
    BY <1>4 DEF MutexSleep, Ready
  <2>2. SleepPoint(c) \in Points \ {"waiting"}
    BY DEF SleepPoint, Points, SleepPoints
  <2> QED BY <2>1, <2>2, ReleaseFrees
<1>5. \/ UNCHANGED owner
      \/ \E n \in Mutexes : TryLock(t, n) \/ Unlock(t, n) \/ \E c : MutexSleep(t, n, c)
  BY DEF Operation, Lock, Sleep, Wakeup, Kill, Raise, Join, Create, CreateFails, Finish,
         RunInterrupts, Throw
<1> QED BY <1>1, <1>2, <1>3, <1>4, <1>5

LEMMA LockingFrees ==
    ASSUME TypeInv, NEW t \in Threads, Locking(t), NEW m \in Mutexes
    PROVE  Keeps(m)
<1>1. CASE UNCHANGED owner
  BY <1>1 DEF Keeps
<1>2. CASE ~ UNCHANGED owner
  <2>1. /\ pc[t] \in {"mutex_lock"} \cup LockPoints
        /\ owner' = [owner EXCEPT ![arg[t]] = t]
    BY <1>2 DEF Locking, MutexLock, LockLoop, LockFunc, LockWoken, LockAcquired,
                LockBack, LockExit, LockTest, Take, Throw, LockPoints
  <2>2. arg[t] \in Mutexes
    BY <2>1 DEF TypeInv, ArgOK, LockingPoints
  <2> QED BY <2>1, <2>2, TakeKeeps
<1> QED BY <1>1, <1>2

LEMMA EndingFrees ==
    ASSUME TypeInv, NEW t \in Threads, NEW m \in Mutexes,
           InSleep(t) \/ Ending(t) \/ Unwind(t) \/ CheckDeadlock(t)
    PROVE  Keeps(m) \/ Frees(t, m)
<1>1. CASE UNCHANGED owner
  BY <1>1 DEF Keeps
<1>2. CASE UnlockAll(t)
  <2>1. PICK n \in keeping[t] : Release(t, n, pc)
    BY <1>2 DEF UnlockAll
  <2>2. /\ n \in Mutexes /\ pc[t] = "cleanup" /\ pc = [pc EXCEPT ![t] = "cleanup"]
        /\ UNCHANGED interrupt_flag
    BY <1>2, <2>1 DEF UnlockAll, TypeInv, TypeOK
  <2>3. "cleanup" \in Points \ {"waiting"}
    BY DEF Points, GVLPoints
  <2> QED BY <2>1, <2>2, <2>3, ReleaseFrees
<1>3. UNCHANGED owner \/ UnlockAll(t)
  <2>1. InSleep(t) => UNCHANGED owner
    BY DEF InSleep, NativeSleep, TimeOut, Awake, SleepThrow, SleepOn, SleepDone,
           SleptStop, SleptMutex, Joined, JoinAgain, Throw
  <2>2. Unwind(t) \/ CheckDeadlock(t) => UNCHANGED owner
    BY DEF Unwind, CheckDeadlock
  <2>3. Ending(t) => UNCHANGED owner \/ UnlockAll(t)
    BY DEF Ending, Start, ThreadEnd, MainEnd, UnlockedAll, Terminate, TerminateDone,
           IgnoreInterrupt, Exit
  <2> QED BY <2>1, <2>2, <2>3
<1> QED BY <1>1, <1>2, <1>3

LEMMA StepFrees ==
    ASSUME TypeInv, NEW t \in Threads, Step(t), NEW m \in Mutexes
    PROVE  Keeps(m) \/ Frees(t, m)
BY OperationFrees, LockingFrees, EndingFrees DEF Step

-----------------------------------------------------------------------------
(***************************************************************************)
(* Who is at the lock word takes it when it is free; who begins to wait    *)
(* has found it taken.                                                     *)
(***************************************************************************)
LEMMA AtLock ==
    ASSUME TypeInv, NEW t \in Threads, Step(t), ~ interrupt_flag[t],
           pc[t] \in {"lock", "lock_last", "notified"}, owner[arg[t]] = NoThread
    PROVE  owner'[arg[t]] # NoThread
<1>1. arg[t] \in Mutexes
  BY DEF TypeInv, ArgOK, LockingPoints, LockPoints
<1>2. ~ Operation(t)
  BY DEF Operation, Lock, TryLock, Unlock, MutexSleep, Sleep, Wakeup, Kill, Raise,
         Join, Create, CreateFails, Finish, RunInterrupts, Ready, Running
<1>3. ~ InSleep(t)
  BY DEF InSleep, NativeSleep, TimeOut, Awake, SleepThrow, SleepOn, SleepDone,
         SleptStop, SleptMutex, Joined, JoinAgain
<1>4. ~ (Ending(t) \/ Unwind(t) \/ CheckDeadlock(t))
  BY DEF Ending, Start, ThreadEnd, MainEnd, UnlockAll, UnlockedAll, Terminate, TerminateDone,
         IgnoreInterrupt, Exit, Unwind, CheckDeadlock
<1>5. LockFunc(t) \/ LockWoken(t)
  BY <1>2, <1>3, <1>4 DEF Step, Locking, MutexLock, LockLoop, LockAcquired,
                          LockBack, LockExit
<1>6. owner' = [owner EXCEPT ![arg[t]] = t]
  BY <1>5 DEF LockFunc, LockWoken, LockTest
<1> QED BY <1>1, <1>6, ThreadsAssumption DEF TypeInv, TypeOK

LEMMA BeginWait ==
    ASSUME TypeInv, NEW t \in Threads, Step(t), pc'[t] = "waiting"
    PROVE  arg'[t] = arg[t] /\ owner[arg[t]] # NoThread /\ UNCHANGED owner
<1>0. pc \in [Threads -> Points]
  BY DEF TypeInv, TypeOK
<1>1. PICK Q \in {Open, Special, Closing} : Kind(t, Q)
  BY StepKind
<1>2. Q \subseteq Points \ {"waiting"} /\ pc[t] # "waiting"
  BY <1>1 DEF Open, Closing, Special, Points, GVLPoints, SleepPoints, Kind
<1>3. ASSUME NEW q \in Q, Goes(t, q) PROVE FALSE
  BY <1>0, <1>2, <1>3 DEF Goes
<1>4. ASSUME NEW q \in Q, Interrupts(t, q) PROVE FALSE
  BY <1>0, <1>2, <1>4 DEF Interrupts, Interrupt, Awakened
<1>5. ASSUME NEW q \in Q, Releases(t, q) PROVE FALSE
  <2>1. PICK W : pc' = Notify(W, [pc EXCEPT ![t] = q])
    BY <1>5 DEF Releases, Release
  <2> QED BY <1>0, <1>2, <2>1 DEF Notify
<1>6. ASSUME Creates(t) PROVE FALSE
  BY <1>0, <1>2, <1>6 DEF Creates
<1>7. StartsWait(t)
  BY <1>1, <1>3, <1>4, <1>5, <1>6 DEF Kind
<1> QED BY <1>7 DEF StartsWait

LEMMA WaitersStay ==
    ASSUME TypeInv, NEW t \in Threads, Step(t), NEW m \in Mutexes,
           Waiters(m)' # {}, owner'[m] = NoThread
    PROVE  Waiters(m) # {}
<1>1. PICK v \in Threads : pc'[v] = "waiting" /\ arg'[v] = m
  BY DEF Waiters
<1>2. CASE v = t
  BY <1>1, <1>2, BeginWait
<1>3. CASE v # t
  <2>1. pc[v] = "waiting" /\ arg[v] = m
    BY <1>1, <1>3, StepMutex DEF MutexStep, Others, Other
  <2> QED BY <2>1 DEF Waiters
<1> QED BY <1>2, <1>3

LEMMA WaitersCount ==
    ASSUME WaitingInv, NEW m \in Mutexes, Waiters(m) # {}
    PROVE  cond_waiting[m] > 0
<1>1. cond_waiting[m] \in Nat /\ cond_waiting[m] = Cardinality(Waiters(m))
  BY DEF WaitingInv, WaitingCounted, TypeInv, TypeOK
<1>2. IsFiniteSet(Waiters(m))
  BY ThreadsAssumption, FS_Subset DEF Waiters
<1> QED BY <1>1, <1>2, FS_EmptySet

\* A free mutex stays awaited: an interrupt of whoever is coming ends the wait of
\* all others.
LEMMA StillAwaited ==
    ASSUME ForgottenInv, NEW t \in Threads, Step(t), NEW m \in Mutexes,
           owner[m] = NoThread, owner'[m] = NoThread, Waiters(m)' # {}
    PROVE  Coming(m)'
<1>0. TypeInv
  BY DEF ForgottenInv, WaitingInv
<1>1. Waiters(m) # {}
  BY <1>0, WaitersStay
<1>2. PICK u \in Threads : /\ arg[u] = m
                           /\ pc[u] \in {"lock", "lock_last", "notified"}
                           /\ ~ interrupt_flag[u]
  BY <1>1 DEF ForgottenInv, Awaited, Coming
<1>3. u # t
  BY <1>0, <1>2, AtLock
<1>4. pc'[u] = pc[u] /\ arg'[u] = m
  BY <1>0, <1>2, <1>3, StepMutex DEF MutexStep, Others, Other
<1>5. ~ interrupt_flag'[u]
  <2>1. CASE Calm(t)
    BY <1>2, <1>3, <2>1 DEF Calm
  <2>2. ASSUME NEW S \in SUBSET Threads, NEW p, Interrupt(S, p), interrupt_flag'[u]
        PROVE  FALSE
    <3>1. u \in S
      BY <1>2, <2>2 DEF Interrupt, Flagged
    <3>2. m \in Broadcast(S)
      BY <1>1, <1>2, <3>1, WaitersCount DEF ForgottenInv, Broadcast, InLock, LockPoints
    <3>3. PICK v \in Threads : pc'[v] = "waiting" /\ arg'[v] = m
      BY DEF Waiters
    <3>4. v # t
      BY <1>0, <3>3, BeginWait
    <3>5. pc[v] = "waiting" /\ arg[v] = m
      BY <1>0, <3>3, <3>4, StepMutex DEF MutexStep, Others, Other
    <3> QED BY <2>2, <3>2, <3>3, <3>5 DEF Interrupt, Awakened
  <2> QED BY <1>0, <2>1, <2>2, StepSends DEF Sends
<1> QED BY <1>2, <1>4, <1>5 DEF Coming

\* mutex_unlock signals one of those that wait.
LEMMA NewlyAwaited ==
    ASSUME ForgottenInv, NoLateWait, NEW t \in Threads, Step(t), NEW m \in Mutexes,
           Frees(t, m), Waiters(m)' # {}, owner'[m] = NoThread
    PROVE  Coming(m)'
<1>0. TypeInv /\ pc \in [Threads -> Points]
  BY DEF ForgottenInv, WaitingInv, TypeInv, TypeOK
<1>1. cond_waiting[m] > 0
  BY <1>0, WaitersStay, WaitersCount DEF ForgottenInv
<1>2. PICK q \in Points \ {"waiting"}, w \in Waiters(m) :
        pc' = Notify({w}, [pc EXCEPT ![t] = q])
  <2>1. PICK q \in Points \ {"waiting"} : Release(t, m, [pc EXCEPT ![t] = q])
    BY DEF Frees
  <2>2. PICK W \in Signalled(m) : pc' = Notify(W, [pc EXCEPT ![t] = q])
    BY <2>1 DEF Release
  <2>3. PICK w \in Waiters(m) : W = {w}
    BY <1>1, <2>2 DEF Signalled
  <2> QED BY <2>2, <2>3
<1>3. w \in Threads /\ pc[w] = "waiting" /\ arg[w] = m
  BY <1>2 DEF Waiters
<1>4. pc'[w] = "notified"
  BY <1>2, <1>3 DEF Notify
<1>5. w # t
  <2>1. pc[t] # "waiting"
    BY <1>0, StepKind DEF Kind
  <2> QED BY <1>3, <2>1
<1>6. arg'[w] = m
  BY <1>0, <1>3, <1>5, StepMutex DEF MutexStep, Others, Other
<1>7. ~ interrupt_flag'[w]
  BY <1>3 DEF Frees, NoLateWait
<1> QED BY <1>3, <1>4, <1>6, <1>7 DEF Coming

LEMMA ForgottenNext ==
    ForgottenInv /\ NoLateWait /\ [Next]_vars => ForgottenInv'
<1> SUFFICES ASSUME ForgottenInv, NoLateWait, [Next]_vars PROVE ForgottenInv'
  OBVIOUS
<1>1. WaitingInv'
  BY WaitingNext DEF ForgottenInv
<1>2. CASE UNCHANGED vars
  <2>1. \A m \in Mutexes : Waiters(m)' = Waiters(m)
    BY <1>2 DEF vars, Waiters
  <2>2. \A m \in Mutexes : Coming(m) => Coming(m)'
    BY <1>2 DEF vars, Coming
  <2>3. owner' = owner
    BY <1>2 DEF vars
  <2> QED BY <1>1, <2>1, <2>2, <2>3 DEF ForgottenInv, Awaited
<1>3. ASSUME NEW t \in Threads, Step(t) PROVE Awaited'
  <2> SUFFICES ASSUME NEW m \in Mutexes, owner'[m] = NoThread, Waiters(m)' # {}
               PROVE  Coming(m)'
    BY DEF Awaited
  <2>1. TypeInv
    BY DEF ForgottenInv, WaitingInv
  <2>2. CASE owner[m] = NoThread
    BY <1>3, <2>2, StillAwaited
  <2>3. CASE owner[m] # NoThread
    <3>1. Frees(t, m)
      BY <1>3, <2>1, <2>3, StepFrees DEF Keeps
    <3> QED BY <1>3, <3>1, NewlyAwaited
  <2> QED BY <2>2, <2>3
<1> QED BY <1>1, <1>2, <1>3 DEF Next, Terminated, ForgottenInv

LEMMA ForgottenInit == Init => ForgottenInv
<1> SUFFICES ASSUME Init PROVE Awaited
  BY WaitingInit DEF ForgottenInv
<1> QED BY DEF Init, Awaited, Waiters

\* As long as no thread begins to wait that was interrupted after it released
\* the GVL, a free mutex that threads wait for has a thread on its way to it,
\* whatever interrupts, kills, exceptions and ends of threads do.
THEOREM NobodyForgotten == Spec /\ []NoLateWait => []FreeMutexIsTaken
<1>1. ForgottenInv => FreeMutexIsTaken
  BY DEF ForgottenInv, Awaited, Coming, FreeMutexIsTaken
<1> QED BY <1>1, ForgottenInit, ForgottenNext, PTL DEF Spec

-----------------------------------------------------------------------------
(***************************************************************************)
(* The GVL.  A thread is at a GVLPoint only while it has it, so a step of  *)
(* t changes gvl only when nobody else has it.                             *)
(***************************************************************************)
GVLHeld == \A u \in Threads : pc[u] \in GVLPoints => gvl = u

Turn(t) ==
    /\ gvl' # gvl => gvl \in {NoThread, t}
    /\ pc'[t] \in GVLPoints => gvl' = t

LEMMA ReturnTurn ==
    ASSUME TypeInv, NEW t \in Threads, gvl \in {NoThread, t}, Return(t)
    PROVE  Turn(t)
BY ReturnOthers DEF Turn, GVLPoints

LEMMA ThrowTurn ==
    ASSUME NEW t \in Threads, gvl \in {NoThread, t}, Throw(t)
    PROVE  Turn(t)
BY DEF Turn, Throw

LEMMA FailTurn ==
    ASSUME NEW t \in Threads, gvl \in {NoThread, t}, Fail(t)
    PROVE  Turn(t)
BY DEF Turn, Fail

LEMMA RunTurn ==
    ASSUME NEW t \in Threads, gvl \in {NoThread, t}, pc'[t] \notin GVLPoints
    PROVE  Turn(t)
BY DEF Turn

LEMMA SleepTurn ==
    ASSUME NEW t \in Threads, NEW c, gvl \in {NoThread, t},
           pc'[t] = SleepPoint(c), FallAsleep(t, c)
    PROVE  Turn(t)
BY DEF Turn, SleepPoint, FallAsleep, GVLPoints

LEMMA OperationTurn ==
    ASSUME TypeInv, NEW t \in Threads, Operation(t)
    PROVE  Turn(t)
<1>0. /\ pc[t] = "run" /\ [pc EXCEPT ![t] = "run"] = pc
      /\ gvl \in {NoThread, t}
      /\ "run" \in Points \ GVLPoints
  BY DEF Operation, Lock, TryLock, Unlock, MutexSleep, Sleep, Wakeup, Kill, Raise,
         Join, Create, CreateFails, Finish, RunInterrupts, Ready, Running, HasGVL, TypeInv,
         TypeOK, Points, GVLPoints
<1>1. ASSUME NEW m \in Mutexes, Lock(t, m) \/ TryLock(t, m) PROVE Turn(t)
  <2>1. CASE Lock(t, m)
    BY <2>1 DEF Lock, Turn, Ready, Running, HasGVL
  <2>2. CASE TryLock(t, m)
    BY <1>0, <2>2, RunTurn DEF TryLock
  <2> QED BY <1>1, <2>1, <2>2
<1>2. ASSUME NEW m \in Mutexes, Unlock(t, m) PROVE Turn(t)
  <2>1. CASE Release(t, m, pc) /\ UNCHANGED <<call, arg>>
    <3>1. pc'[t] = "run"
      BY <1>0, <2>1, ReleaseOthers
    <3> QED BY <1>0, <3>1, RunTurn
  <2>2. CASE Fail(t)
    BY <1>0, <2>2, FailTurn
  <2> QED BY <1>2, <2>1, <2>2 DEF Unlock
<1>3. ASSUME NEW m \in Mutexes, NEW c, MutexSleep(t, m, c) PROVE Turn(t)
  <2>1. CASE /\ Release(t, m, [pc EXCEPT ![t] = SleepPoint(c)])
             /\ EnterCall(t, c, m) /\ FallAsleep(t, c)
    <3>1. pc'[t] = SleepPoint(c)
      BY <1>0, <2>1, ReleaseOthers, SleepPointType DEF EnterCall, TypeInv, TypeOK
    <3> QED BY <1>0, <2>1, <3>1, SleepTurn
  <2>2. CASE Fail(t)
    BY <1>0, <2>2, FailTurn
  <2> QED BY <1>3, <2>1, <2>2 DEF MutexSleep
<1>4. ASSUME NEW c, Sleep(t, c) PROVE Turn(t)
  <2>1. CASE pc' = [pc EXCEPT ![t] = SleepPoint(c)] /\ FallAsleep(t, c)
    BY <1>0, <2>1, SleepTurn DEF TypeInv, TypeOK
  <2>2. CASE Fail(t)
    BY <1>0, <2>2, FailTurn
  <2> QED BY <1>4, <2>1, <2>2 DEF Sleep
<1>5. ASSUME NEW u \in Threads, NEW c, Join(t, u, c) PROVE Turn(t)
  <2>1. CASE pc' = [pc EXCEPT ![t] = SleepPoint(c)] /\ FallAsleep(t, c)
    BY <1>0, <2>1, SleepTurn DEF TypeInv, TypeOK
  <2>2. ASSUME NEW p \in {"run", "end"}, pc' = [pc EXCEPT ![t] = p] PROVE Turn(t)
    BY <1>0, <2>2, RunTurn DEF TypeInv, TypeOK, GVLPoints
  <2> QED BY <1>5, <2>1, <2>2 DEF Join
<1>6. ASSUME NEW u \in Threads, Wakeup(t, u) \/ Kill(t, u) \/ Raise(t, u)
      PROVE  Turn(t)
  <2>1. CASE Interrupt({u}, pc) /\ UNCHANGED <<call, arg>>
    <3>1. pc'[t] = "run"
      BY <1>0, <2>1, InterruptOthers
    <3> QED BY <1>0, <3>1, RunTurn
  <2>2. CASE Fail(t)
    BY <1>0, <2>2, FailTurn
  <2>3. CASE UNCHANGED pc
    BY <1>0, <2>3, RunTurn
  <2> QED BY <1>6, <2>1, <2>2, <2>3 DEF Wakeup, Kill, Raise
<1>7. ASSUME NEW u \in Threads, Create(t, u) PROVE Turn(t)
  <2>1. pc'[t] = "run"
    BY <1>0, <1>7 DEF Create, TypeInv, TypeOK
  <2> QED BY <1>0, <2>1, RunTurn
<1>8. CASE Finish(t)
  BY <1>0, <1>8, RunTurn DEF Finish, GVLPoints, TypeInv, TypeOK
<1>9. CASE RunInterrupts(t)
  <2>1. CASE Throw(t)
    BY <1>0, <2>1, ThrowTurn
  <2>2. CASE UNCHANGED pc
    BY <1>0, <2>2, RunTurn
  <2> QED BY <1>9, <2>1, <2>2 DEF RunInterrupts
<1>10. CASE CreateFails(t)
  BY <1>0, <1>10, FailTurn DEF CreateFails
<1> QED BY <1>1, <1>2, <1>3, <1>4, <1>5, <1>6, <1>7, <1>8, <1>9, <1>10 DEF Operation

LEMMA LockingTurn ==
    ASSUME TypeInv, GVLHeld, NEW t \in Threads, Locking(t)
    PROVE  Turn(t)
<1>0. pc \in [Threads -> Points]
  BY DEF TypeInv, TypeOK
<1>1. CASE MutexLock(t)
  <2>1. gvl \in {NoThread, t}
    BY <1>1 DEF MutexLock, GVLHeld, GVLPoints
  <2>2. CASE Return(t)
    BY <2>1, <2>2, ReturnTurn
  <2>3. CASE Fail(t)
    BY <2>1, <2>3, FailTurn
  <2>4. CASE pc' = [pc EXCEPT ![t] = "lock_loop"]
    BY <1>0, <2>1, <2>4, RunTurn DEF GVLPoints
  <2> QED BY <1>1, <2>2, <2>3, <2>4 DEF MutexLock
<1>2. CASE LockLoop(t) \/ LockExit(t)
  <2>1. gvl \in {NoThread, t}
    BY <1>2 DEF LockLoop, LockExit, GVLHeld, GVLPoints
  <2>2. CASE Throw(t)
    BY <2>1, <2>2, ThrowTurn
  <2>3. ASSUME NEW q \in {"lock_last", "lock", "lock_loop"}, pc' = [pc EXCEPT ![t] = q]
        PROVE  Turn(t)
    BY <1>0, <2>1, <2>3, RunTurn DEF GVLPoints
  <2> QED BY <1>2, <2>2, <2>3 DEF LockLoop, LockExit
<1>3. CASE LockFunc(t) \/ LockWoken(t)
  <2>1. gvl' = gvl
    BY <1>3 DEF LockFunc, LockWoken
  <2>2. PICK q \in {"acquired", "refused", "waiting", "interrupted"} :
          pc' = [pc EXCEPT ![t] = q]
    BY <1>3 DEF LockFunc, LockWoken, LockTest
  <2> QED BY <1>0, <2>1, <2>2 DEF Turn, GVLPoints
<1>4. CASE LockAcquired(t)
  BY <1>4, ReturnTurn DEF LockAcquired
<1>5. CASE LockBack(t)
  BY <1>5 DEF LockBack, Turn
<1> QED BY <1>1, <1>2, <1>3, <1>4, <1>5 DEF Locking

LEMMA InSleepTurn ==
    ASSUME TypeInv, GVLHeld, NEW t \in Threads, InSleep(t)
    PROVE  Turn(t)
<1>0. pc \in [Threads -> Points]
  BY DEF TypeInv, TypeOK
<1>1. CASE NativeSleep(t) \/ TimeOut(t) \/ Awake(t)
  <2>1. gvl' = gvl
    BY <1>1 DEF NativeSleep, TimeOut, Awake
  <2>2. PICK q \in {"awake", "asleep", "check_ints"} : pc' = [pc EXCEPT ![t] = q]
    BY <1>1 DEF NativeSleep, TimeOut, Awake
  <2> QED BY <1>0, <2>1, <2>2 DEF Turn, GVLPoints
<1>2. CASE SleepThrow(t)
  BY <1>2, ThrowTurn DEF SleepThrow
<1>3. CASE SleepOn(t)
  BY <1>0, <1>3, SleepTurn DEF SleepOn
<1>4. CASE SleepDone(t)
  BY <1>4 DEF SleepDone, Turn
<1>5. ASSUME pc[t] = "slept" PROVE gvl = t
  BY <1>5 DEF GVLHeld, GVLPoints
<1>6. CASE SleptStop(t)
  BY <1>5, <1>6, ReturnTurn DEF SleptStop
<1>7. CASE SleptMutex(t)
  BY <1>5, <1>7 DEF SleptMutex, Relock, Turn
<1>8. CASE Joined(t)
  <2>1. pc'[t] \in {"run", "end"}
    BY <1>0, <1>8 DEF Joined
  <2> QED BY <1>5, <1>8, <2>1, RunTurn DEF Joined, GVLPoints
<1>9. CASE JoinAgain(t)
  BY <1>0, <1>5, <1>9, SleepTurn DEF JoinAgain
<1> QED BY <1>1, <1>2, <1>3, <1>4, <1>6, <1>7, <1>8, <1>9 DEF InSleep

LEMMA EndingTurn ==
    ASSUME TypeInv, GVLHeld, NEW t \in Threads,
           Ending(t) \/ Unwind(t) \/ CheckDeadlock(t)
    PROVE  Turn(t)
<1>0. pc \in [Threads -> Points]
  BY DEF TypeInv, TypeOK
<1>1. ASSUME pc[t] \in GVLPoints PROVE gvl = t
  BY <1>1 DEF GVLHeld
<1>2. CASE Start(t) \/ Exit(t) \/ IgnoreInterrupt(t)
  <2>1. gvl = NoThread /\ pc'[t] \in {"run", "dead", "exit"}
    BY <1>0, <1>2 DEF Start, Exit, IgnoreInterrupt
  <2> QED BY <2>1, RunTurn DEF GVLPoints
<1>3. CASE ThreadEnd(t) \/ MainEnd(t)
  BY <1>3 DEF ThreadEnd, MainEnd, Turn
<1>4. CASE UnlockAll(t) \/ UnlockedAll(t)
  <2>1. gvl = t /\ gvl' = gvl
    BY <1>1, <1>4 DEF UnlockAll, UnlockedAll, GVLPoints
  <2> QED BY <2>1 DEF Turn
<1>5. ASSUME NEW u \in Threads, Terminate(t, u) PROVE Turn(t)
  BY <1>1, <1>5 DEF Terminate, GVLPoints, Turn
<1>8. CASE TerminateDone(t)
  BY <1>0, <1>1, <1>8, RunTurn DEF TerminateDone, GVLPoints
<1>6. CASE Unwind(t)
  <2>1. gvl = t
    BY <1>1, <1>6 DEF Unwind, GVLPoints
  <2>2. CASE Return(t)
    BY <2>1, <2>2, ReturnTurn
  <2>3. CASE Relock(t)
    BY <2>1, <2>3 DEF Relock, Turn
  <2> QED BY <1>6, <2>2, <2>3 DEF Unwind
<1>7. CASE CheckDeadlock(t)
  <2>1. gvl = t /\ gvl' = (IF pc[t] = "lock_check" THEN t ELSE NoThread)
    BY <1>1, <1>7 DEF CheckDeadlock, GVLPoints
  <2>2. pc'[t] = AfterCheck(pc[t])
    BY <1>0, <1>7 DEF CheckDeadlock, Interrupt, Awakened
  <2>3. pc[t] # "lock_check" => AfterCheck(pc[t]) \in {"sleep", "dead"}
    BY <1>7 DEF CheckDeadlock, AfterCheck
  <2> QED BY <2>1, <2>2, <2>3 DEF Turn, GVLPoints
<1> QED BY <1>2, <1>3, <1>4, <1>5, <1>6, <1>7, <1>8 DEF Ending

LEMMA StepTurn ==
    ASSUME TypeInv, GVLHeld, NEW t \in Threads, Step(t)
    PROVE  GVLHeld'
<1>1. Turn(t)
  BY OperationTurn, LockingTurn, InSleepTurn, EndingTurn DEF Step
<1>2. \A u \in Threads \ {t} : pc'[u] \in GVLPoints => pc[u] \in GVLPoints
  BY StepMutex DEF MutexStep, Others, Other, GVLPoints
<1> QED BY <1>1, <1>2, ThreadsAssumption DEF GVLHeld, Turn
-----------------------------------------------------------------------------
(***************************************************************************)
(* The deadlock check.  What makes a thread that MayRun does not speak for *)
(* blocked: at lock_check the mutex was found taken and no GVL section has *)
(* come between; one that sleeps for good wakes only with its flag set.    *)
(***************************************************************************)
CheckOwned == \A u \in Threads : pc[u] = "lock_check" => owner[arg[u]] # NoThread
AwakeFlagged ==
    \A u \in Threads : pc[u] = "awake" /\ call[u] \in Deadlockable => interrupt_flag[u]

\* A notified waiter is counted in cond_notified.
NotifiedCounted == \A m \in Mutexes : Notified(m) # {} => cond_notified[m] # 0

CheckInv == SleeperInv /\ GVLHeld /\ CheckOwned /\ AwakeFlagged

\* A step gets to a special point by the action that is for it.
LEMMA BeginSpecial ==
    ASSUME TypeInv, NEW t \in Threads, Step(t), pc'[t] \in Special
    PROVE  LockBack(t) \/ NativeSleep(t) \/ TimeOut(t)
<1>0. pc \in [Threads -> Points]
  BY DEF TypeInv, TypeOK
<1>1. CASE pc[t] = "asleep"
  <2>1. ~ Operation(t)
    BY <1>1 DEF Operation, Lock, TryLock, Unlock, MutexSleep, Sleep, Wakeup, Kill,
                Raise, Join, Create, CreateFails, Finish, RunInterrupts, Ready, Running
  <2>2. ~ Locking(t)
    BY <1>1 DEF Locking, MutexLock, LockLoop, LockFunc, LockWoken, LockAcquired,
                LockBack, LockExit
  <2>3. ~ (Ending(t) \/ Unwind(t) \/ CheckDeadlock(t))
    BY <1>1 DEF Ending, Start, ThreadEnd, MainEnd, UnlockAll, UnlockedAll,
                Terminate, TerminateDone, IgnoreInterrupt, Exit, Unwind, CheckDeadlock
  <2> QED BY <1>1, <2>1, <2>2, <2>3
          DEF Step, InSleep, NativeSleep, Awake, SleepThrow, SleepOn, SleepDone,
              SleptStop, SleptMutex, Joined, JoinAgain
<1>2. ASSUME NEW Q \in {Open, Closing}, Kind(t, Q), pc[t] # "asleep" PROVE FALSE
  <2>1. Q \cap Special = {} /\ "start" \notin Special /\ "waiting" \notin Special
    BY DEF Open, Closing, Special
  <2>2. pc[t] # "waiting"
    BY <1>2 DEF Kind
  <2>3. ASSUME NEW q \in Q, Goes(t, q) PROVE FALSE
    BY <1>0, <2>1, <2>3 DEF Goes
  <2>4. ASSUME NEW q \in Q, Interrupts(t, q) PROVE FALSE
    <3>1. pc'[t] = q
      BY <1>0, <1>2, <2>2, <2>4 DEF Interrupts, Interrupt, Awakened
    <3> QED BY <2>1, <3>1
  <2>5. ASSUME NEW q \in Q, Releases(t, q) PROVE FALSE
    <3>1. PICK W : pc' = Notify(W, [pc EXCEPT ![t] = q])
      BY <2>5 DEF Releases, Release
    <3>2. pc'[t] \in {q, "notified"}
      BY <1>0, <3>1 DEF Notify
    <3> QED BY <2>1, <3>2 DEF Special
  <2>6. ASSUME Creates(t) \/ StartsWait(t) PROVE FALSE
    BY <1>0, <2>6 DEF Creates, StartsWait, Special
  <2> QED BY <1>2, <2>3, <2>4, <2>5, <2>6 DEF Kind
<1> QED BY <1>1, <1>2, StepKind

LEMMA StepOwned ==
    ASSUME TypeInv, GVLHeld, CheckOwned, NEW t \in Threads, Step(t)
    PROVE  CheckOwned'
<1> SUFFICES ASSUME NEW u \in Threads, pc'[u] = "lock_check"
             PROVE  owner'[arg'[u]] # NoThread
  BY DEF CheckOwned
<1>1. CASE u = t
  <2>1. pc \in [Threads -> Points]
    BY DEF TypeInv, TypeOK
  <2>2. LockBack(t) \/ NativeSleep(t) \/ TimeOut(t)
    BY <1>1, BeginSpecial DEF Special
  <2>3. LockBack(t)
    BY <1>1, <2>1, <2>2 DEF NativeSleep, TimeOut
  <2> QED BY <1>1, <2>1, <2>3 DEF LockBack
<1>2. CASE u # t
  <2>1. pc[u] = "lock_check" /\ arg'[u] = arg[u]
    BY <1>2, StepMutex DEF MutexStep, Others, Other
  <2>2. gvl = u /\ owner[arg[u]] # NoThread /\ arg[u] \in Mutexes
    BY <2>1 DEF GVLHeld, GVLPoints, CheckOwned, TypeInv, ArgOK, LockingPoints
  <2>3. ~ Frees(t, arg[u])
    BY <1>2, <2>2, ThreadsAssumption
       DEF Frees, Running, HasGVL, GVLHeld, GVLPoints
  <2> QED BY <2>1, <2>2, <2>3, StepFrees DEF Keeps
<1> QED BY <1>1, <1>2

LEMMA StepFlagged ==
    ASSUME TypeInv, AwakeFlagged, NEW t \in Threads, Step(t)
    PROVE  AwakeFlagged'
<1> SUFFICES ASSUME NEW u \in Threads, pc'[u] = "awake", call'[u] \in Deadlockable
             PROVE  interrupt_flag'[u]
  BY DEF AwakeFlagged
<1>0. pc \in [Threads -> Points]
  BY DEF TypeInv, TypeOK
<1>1. CASE u = t
  <2>1. LockBack(t) \/ NativeSleep(t) \/ TimeOut(t)
    BY <1>1, BeginSpecial DEF Special
  <2>2. NativeSleep(t)
    BY <1>0, <1>1, <2>1 DEF LockBack, TimeOut, Deadlockable, Timed
  <2> QED BY <1>0, <1>1, <2>2 DEF NativeSleep
<1>2. CASE u # t
  <2>1. call'[u] = call[u] /\ pc[u] \in {"awake", "asleep"}
    BY <1>2, StepMutex DEF MutexStep, Others, Other
  <2>2. CASE pc[u] = "awake"
    <3>1. interrupt_flag[u]
      BY <2>1, <2>2 DEF AwakeFlagged
    <3> QED BY <1>2, <3>1, StepSends DEF Sends, Calm, Interrupt, Flagged
  <2>3. CASE pc[u] = "asleep"
    <3>1. PICK Q \in {Open, Special, Closing} : Kind(t, Q)
      BY StepKind
    <3>2. \A q : [pc EXCEPT ![t] = q][u] = "asleep"
      BY <1>0, <1>2, <2>3
    <3>3. ASSUME NEW q \in Q, Goes(t, q) PROVE FALSE
      BY <3>2, <3>3 DEF Goes
    <3>4. ASSUME NEW q \in Q, Releases(t, q) PROVE FALSE
      <4>1. PICK W : pc' = Notify(W, [pc EXCEPT ![t] = q])
        BY <3>4 DEF Releases, Release
      <4> QED BY <3>2, <4>1 DEF Notify
    <3>5. ASSUME StartsWait(t) \/ Creates(t) PROVE FALSE
      BY <1>0, <2>3, <3>2, <3>5 DEF StartsWait, Creates
    <3>6. PICK q \in Q, S \in SUBSET Threads : Interrupt(S, [pc EXCEPT ![t] = q])
      BY <3>1, <3>3, <3>4, <3>5 DEF Kind, Interrupts
    <3>7. u \in S
      BY <2>3, <3>2, <3>6 DEF Interrupt, Awakened
    <3> QED BY <3>6, <3>7 DEF Interrupt, Flagged
  <2> QED BY <2>1, <2>2, <2>3
<1> QED BY <1>1, <1>2

LEMMA CheckInit == Init => CheckInv
BY SleeperInit DEF Init, CheckInv, GVLHeld, CheckOwned, AwakeFlagged, GVLPoints

LEMMA CheckNext == CheckInv /\ [Next]_vars => CheckInv'
<1> SUFFICES ASSUME CheckInv, [Next]_vars PROVE CheckInv'
  OBVIOUS
<1>1. SleeperInv' /\ TypeInv
  BY SleeperNext DEF CheckInv, SleeperInv
<1>2. CASE UNCHANGED vars
  BY <1>1, <1>2 DEF vars, CheckInv, GVLHeld, CheckOwned, AwakeFlagged
<1>3. ASSUME NEW t \in Threads, Step(t) PROVE CheckInv'
  BY <1>1, <1>3, StepTurn, StepOwned, StepFlagged DEF CheckInv
<1> QED BY <1>2, <1>3 DEF Next, Terminated

-----------------------------------------------------------------------------
\* Only rb_check_deadlock sends the main thread a fatal error.
LEMMA FatalSent ==
    ASSUME TypeInv, NEW t \in Threads, Step(t),
           thrown[Main] # "fatal", thrown'[Main] = "fatal"
    PROVE  CheckDeadlock(t) /\ Deadlocked
<1>0. thrown \in [Threads -> Exceptions \cup {NoException}] /\ Main \in Threads
  BY MainAssumption DEF TypeInv, TypeOK
<1>1. ~ UNCHANGED thrown
  OBVIOUS
<1>2. ASSUME thrown' = [thrown EXCEPT ![t] = NoException] PROVE FALSE
  BY <1>0, <1>2 DEF NoException
<1>3. ~ Operation(t)
  <2>1. ASSUME NEW u \in Threads, Kill(t, u) \/ Raise(t, u) PROVE FALSE
    <3>1. ASSUME NEW e \in {"kill", "error"}, thrown' = [thrown EXCEPT ![u] = e]
          PROVE  FALSE
      BY <1>0, <3>1
    <3> QED BY <1>1, <2>1, <3>1 DEF Kill, Raise
  <2> QED BY <1>1, <1>2, <2>1
          DEF Operation, Lock, TryLock, Unlock, MutexSleep, Sleep, Wakeup, Join,
              Create, CreateFails, Finish, RunInterrupts, Throw
<1>4. ~ Locking(t)
  BY <1>1, <1>2 DEF Locking, MutexLock, LockLoop, LockFunc, LockWoken, LockAcquired,
                    LockBack, LockExit, Throw
<1>5. ~ InSleep(t)
  BY <1>1, <1>2
     DEF InSleep, NativeSleep, TimeOut, Awake, SleepThrow, SleepOn, SleepDone,
         SleptStop, SleptMutex, Joined, JoinAgain, Throw
<1>6. ~ (Ending(t) \/ Unwind(t))
  <2>1. ASSUME NEW u \in Threads, Terminate(t, u) PROVE FALSE
    BY <1>0, <1>1, <2>1 DEF Terminate
  <2> QED BY <1>1, <1>2, <2>1
          DEF Ending, Start, ThreadEnd, MainEnd, UnlockAll, UnlockedAll,
              TerminateDone, IgnoreInterrupt, Exit, Unwind
<1> QED BY <1>1, <1>3, <1>4, <1>5, <1>6 DEF Step, CheckDeadlock

\* With as many sleepers as living threads every living thread sleeps for good.
LEMMA AllSleep ==
    ASSUME SleeperInv, Deadlocked, NEW u \in living
    PROVE  Sleeping(u) /\ ~ MayRun(u)
<1>1. Sleepers \subseteq living
  BY DEF SleeperInv, Sleepers, Present, Sleeping, Away, LockPoints, SleepPoints
<1>2. IsFiniteSet(living)
  BY ThreadsAssumption, FS_Subset DEF SleeperInv, TypeInv, TypeOK
<1>3. Sleepers = living
  BY <1>1, <1>2, FS_Subset DEF SleeperInv, Deadlocked
<1> QED BY <1>3 DEF Sleepers, Deadlocked

LEMMA AllBlocked ==
    ASSUME CheckInv, NotifiedCounted, NEW t \in Threads, CheckDeadlock(t), Deadlocked,
           NEW u \in living
    PROVE  Blocked(u)
<1>0. SleeperInv /\ TypeInv /\ u \in Threads
  BY DEF CheckInv, SleeperInv, TypeInv, TypeOK
<1>1. Sleeping(u) /\ ~ MayRun(u)
  BY <1>0, AllSleep
<1>2. ~ interrupt_flag[u] /\ ~ Transition(u)
  BY <1>1 DEF MayRun
<1>3. pc[u] # "lock_exit"
  <2>1. gvl = t /\ pc[t] # "lock_exit"
    BY DEF CheckDeadlock, CheckInv, GVLHeld, GVLPoints
  <2> QED BY <1>0, <2>1 DEF CheckInv, GVLHeld, GVLPoints
<1>4. CASE pc[u] \in SleepPoints /\ call[u] \in Deadlockable
  BY <1>0, <1>2, <1>4 DEF Blocked, SleepPoints, CheckInv, AwakeFlagged
<1>5. CASE pc[u] \in {"waiting", "lock_check"}
  BY <1>0, <1>5 DEF Blocked, CheckInv, CheckOwned
<1>6. CASE pc[u] = "notified"
  <2>1. arg[u] \in Mutexes /\ u \in Notified(arg[u])
    BY <1>0, <1>6 DEF TypeInv, ArgOK, LockingPoints, LockPoints, Notified
  <2>2. cond_notified[arg[u]] # 0
    BY <2>1 DEF NotifiedCounted
  <2>3. owner[arg[u]] # NoThread
    BY <1>1, <1>6, <2>2 DEF MayRun, InLock, LockPoints
  <2> QED BY <1>6, <2>3 DEF Blocked
<1>7. \/ pc[u] \in SleepPoints /\ call[u] \in Deadlockable
      \/ pc[u] \in {"waiting", "lock_check", "notified"}
  BY <1>1, <1>2, <1>3 DEF Sleeping, Transition, TransitionPoints
<1> QED BY <1>4, <1>5, <1>6, <1>7

LEMMA ReportStep ==
    CheckInv /\ NotifiedCounted /\ [Next]_vars
      => [thrown[Main] # "fatal" /\ thrown'[Main] = "fatal"
              => \A u \in living : Blocked(u)]_vars
<1> SUFFICES ASSUME CheckInv, NotifiedCounted, [Next]_vars,
                    thrown[Main] # "fatal", thrown'[Main] = "fatal"
             PROVE  \A u \in living : Blocked(u)
  OBVIOUS
<1>1. thrown' # thrown
  OBVIOUS
<1>2. PICK t \in Threads : Step(t)
  BY <1>1 DEF Next, Terminated, vars
<1>3. CheckDeadlock(t) /\ Deadlocked
  BY <1>2, FatalSent DEF CheckInv, SleeperInv
<1> QED BY <1>3, AllBlocked

\* As long as every notified waiter is counted in cond_notified, the main thread
\* is sent "deadlock detected" only when no living thread can get going again by
\* itself.
THEOREM ReportsAreReal == Spec /\ []NotifiedCounted => DeadlockIsReal
BY CheckInit, CheckNext, ReportStep, PTL DEF Spec, DeadlockIsReal

-----------------------------------------------------------------------------
(***************************************************************************)
(* Where a step takes its own thread, as far as sleeping is concerned: to  *)
(* a point where it is awake, to sleep, into rb_mutex_lock's blocking      *)
(* region, or on within a sleep by one of the actions that do so.          *)
(***************************************************************************)
AwakePoints == Points \ (LockPoints \cup SleepPoints \cup {"lock_check", "lock_exit"})

WakesUp(t) ==
    /\ pc'[t] \in AwakePoints
    /\ pc'[t] = "lock_loop" =>
          arg'[t] = arg[t] /\ UNCHANGED owner /\ (MutexLock(t) \/ LockExit(t))

GoesToSleep(t) ==
    \/ pc'[t] = "sleep_check" /\ status'[t] = "STOPPED_FOREVER"
    \/ pc'[t] = "sleep" /\ ~ Sleeping(t)'

BlocksOnLock(t) ==
    /\ pc[t] = "lock_loop"
    /\ pc'[t] = IF LastAwake THEN "lock_last" ELSE "lock"
    /\ status'[t] = "STOPPED_FOREVER"
    /\ UNCHANGED <<arg, owner>>

StaysIn(t) ==
    \/ NativeSleep(t) \/ TimeOut(t)
    \/ LockFunc(t) \/ LockWoken(t) \/ LockBack(t)
    \/ CheckDeadlock(t)

Hop(t) == WakesUp(t) \/ GoesToSleep(t) \/ BlocksOnLock(t) \/ StaysIn(t)

LEMMA AwakePointsLemma ==
    {"run", "end", "unwind", "mutex_lock", "check_ints", "slept", "cleanup",
     "end_check", "terminate", "exit", "dead"} \subseteq AwakePoints \ {"lock_loop"}
BY DEF AwakePoints, Points, LockPoints, SleepPoints, GVLPoints

LEMMA FallAsleepHop ==
    ASSUME NEW t \in Threads, NEW c, TypeInv,
           pc'[t] = SleepPoint(c), call'[t] = c, FallAsleep(t, c)
    PROVE  Hop(t)
BY DEF Hop, GoesToSleep, FallAsleep, SleepPoint, SleepStatus, Sleeping, SleepPoints,
       LockPoints, TypeInv, TypeOK

LEMMA WakeHop ==
    ASSUME NEW t \in Threads, pc'[t] \in AwakePoints \ {"lock_loop"}
    PROVE  Hop(t)
BY DEF Hop, WakesUp

LEMMA OperationHop ==
    ASSUME TypeInv, NEW t \in Threads, Operation(t)
    PROVE  Hop(t)
<1>0. /\ pc[t] = "run" /\ [pc EXCEPT ![t] = "run"] = pc
      /\ "run" \in Points
  BY DEF Operation, Lock, TryLock, Unlock, MutexSleep, Sleep, Wakeup, Kill, Raise,
         Join, Create, CreateFails, Finish, RunInterrupts, Ready, Running, TypeInv, TypeOK,
         Points
<1>1. ASSUME pc'[t] \in {"run", "end", "unwind", "mutex_lock"} PROVE Hop(t)
  BY <1>1, AwakePointsLemma, WakeHop
<1>2. ASSUME NEW m \in Mutexes, Lock(t, m) \/ TryLock(t, m) PROVE Hop(t)
  BY <1>0, <1>1, <1>2 DEF Lock, TryLock, TypeInv, TypeOK
<1>3. ASSUME NEW m \in Mutexes, Unlock(t, m) PROVE Hop(t)
  <2>1. CASE Release(t, m, pc) /\ UNCHANGED <<call, arg>>
    BY <1>0, <1>1, <2>1, ReleaseOthers
  <2>2. CASE Fail(t)
    BY <1>1, <2>2 DEF Fail, TypeInv, TypeOK
  <2> QED BY <1>3, <2>1, <2>2 DEF Unlock
<1>4. ASSUME NEW m \in Mutexes, NEW c, MutexSleep(t, m, c) PROVE Hop(t)
  <2>1. CASE /\ Release(t, m, [pc EXCEPT ![t] = SleepPoint(c)])
             /\ EnterCall(t, c, m) /\ FallAsleep(t, c)
    <3>1. pc'[t] = SleepPoint(c)
      BY <1>0, <2>1, ReleaseOthers, SleepPointType DEF EnterCall, TypeInv, TypeOK
    <3> QED BY <2>1, <3>1, FallAsleepHop DEF EnterCall, TypeInv, TypeOK
  <2>2. CASE Fail(t)
    BY <1>1, <2>2 DEF Fail, TypeInv, TypeOK
  <2> QED BY <1>4, <2>1, <2>2 DEF MutexSleep
<1>5. ASSUME NEW c, NEW a,
             pc' = [pc EXCEPT ![t] = SleepPoint(c)], EnterCall(t, c, a), FallAsleep(t, c)
      PROVE  Hop(t)
  BY <1>5, FallAsleepHop DEF EnterCall, TypeInv, TypeOK
<1>6. ASSUME NEW c, Sleep(t, c) PROVE Hop(t)
  <2>1. CASE Fail(t)
    BY <1>1, <2>1 DEF Fail, TypeInv, TypeOK
  <2> QED BY <1>5, <1>6, <2>1 DEF Sleep
<1>7. ASSUME NEW u \in Threads, NEW c, Join(t, u, c) PROVE Hop(t)
  <2>1. CASE \E p \in {"run", "end"} : pc' = [pc EXCEPT ![t] = p]
    BY <1>1, <2>1 DEF TypeInv, TypeOK
  <2> QED BY <1>5, <1>7, <2>1 DEF Join
<1>8. ASSUME NEW u \in Threads, Wakeup(t, u) \/ Kill(t, u) \/ Raise(t, u)
      PROVE  Hop(t)
  <2>1. CASE Interrupt({u}, pc) /\ UNCHANGED <<call, arg>>
    BY <1>0, <1>1, <2>1, InterruptOthers
  <2>2. CASE Fail(t) \/ UNCHANGED pc
    BY <1>0, <1>1, <2>2 DEF Fail, TypeInv, TypeOK
  <2> QED BY <1>8, <2>1, <2>2 DEF Wakeup, Kill, Raise
<1>9. ASSUME NEW u \in Threads, Create(t, u) PROVE Hop(t)
  BY <1>0, <1>1, <1>9 DEF Create, TypeInv, TypeOK
<1>10. CASE Finish(t) \/ RunInterrupts(t)
  BY <1>0, <1>1, <1>10 DEF Finish, RunInterrupts, Throw, TypeInv, TypeOK
<1>11. CASE CreateFails(t)
  BY <1>1, <1>11 DEF CreateFails, Fail, TypeInv, TypeOK
<1> QED BY <1>2, <1>3, <1>4, <1>6, <1>7, <1>8, <1>9, <1>10, <1>11 DEF Operation

LEMMA LockingHop ==
    ASSUME TypeInv, NEW t \in Threads, Locking(t)
    PROVE  Hop(t)
<1>0. pc \in [Threads -> Points]
  BY DEF TypeInv, TypeOK
<1>1. ASSUME Return(t) \/ Fail(t) \/ Throw(t) PROVE Hop(t)
  <2>1. pc'[t] \in {"run", "end", "unwind"}
    BY <1>0, <1>1, ReturnOthers DEF Fail, Throw
  <2> QED BY <2>1, AwakePointsLemma, WakeHop
<1>2. "lock_loop" \in AwakePoints
  BY DEF AwakePoints, Points, LockPoints, SleepPoints
<1>3. CASE MutexLock(t)
  <2>1. CASE /\ pc' = [pc EXCEPT ![t] = "lock_loop"]
             /\ UNCHANGED <<mutexVars, threadVars>>
    BY <1>0, <1>2, <1>3, <2>1 DEF Hop, WakesUp
  <2> QED BY <1>1, <1>3, <2>1 DEF MutexLock
<1>4. CASE LockLoop(t)
  <2>1. CASE ~ Raised(t)
    BY <1>0, <1>4, <2>1 DEF LockLoop, Hop, BlocksOnLock, TypeInv, TypeOK
  <2> QED BY <1>1, <1>4, <2>1 DEF LockLoop
<1>5. CASE LockFunc(t) \/ LockWoken(t) \/ LockBack(t)
  BY <1>5 DEF Hop, StaysIn
<1>6. CASE LockAcquired(t)
  BY <1>1, <1>6 DEF LockAcquired
<1>7. CASE LockExit(t)
  <2>1. CASE ~ Raised(t)
    BY <1>0, <1>2, <1>7, <2>1 DEF LockExit, Hop, WakesUp
  <2> QED BY <1>1, <1>7, <2>1 DEF LockExit
<1> QED BY <1>3, <1>4, <1>5, <1>6, <1>7 DEF Locking

LEMMA InSleepHop ==
    ASSUME TypeInv, NEW t \in Threads, InSleep(t)
    PROVE  Hop(t)
<1>0. pc \in [Threads -> Points]
  BY DEF TypeInv, TypeOK
<1>1. ASSUME pc'[t] \in {"check_ints", "unwind", "slept", "run", "end", "mutex_lock"}
      PROVE  Hop(t)
  BY <1>1, AwakePointsLemma, WakeHop
<1>2. CASE NativeSleep(t) \/ TimeOut(t)
  BY <1>2 DEF Hop, StaysIn
<1>3. CASE Awake(t) \/ SleepThrow(t) \/ SleepDone(t)
  BY <1>0, <1>1, <1>3 DEF Awake, SleepThrow, Throw, SleepDone
<1>4. CASE SleepOn(t) \/ JoinAgain(t)
  BY <1>0, <1>4, FallAsleepHop DEF SleepOn, JoinAgain
<1>5. CASE SleptStop(t)
  BY <1>1, <1>5, ReturnOthers DEF SleptStop
<1>6. CASE SleptMutex(t) \/ Joined(t)
  BY <1>0, <1>1, <1>6 DEF SleptMutex, Relock, Joined
<1> QED BY <1>2, <1>3, <1>4, <1>5, <1>6 DEF InSleep

LEMMA EndingHop ==
    ASSUME TypeInv, NEW t \in Threads, Ending(t) \/ Unwind(t) \/ CheckDeadlock(t)
    PROVE  Hop(t)
<1>0. pc \in [Threads -> Points]
  BY DEF TypeInv, TypeOK
<1>1. ASSUME pc'[t] \in {"run", "end", "mutex_lock", "cleanup", "end_check",
                         "terminate", "exit", "dead"}
      PROVE  Hop(t)
  BY <1>1, AwakePointsLemma, WakeHop
<1>2. CASE \/ Start(t) \/ MainEnd(t) \/ UnlockedAll(t) \/ TerminateDone(t)
           \/ IgnoreInterrupt(t) \/ Exit(t)
  BY <1>0, <1>1, <1>2
     DEF Start, MainEnd, UnlockedAll, TerminateDone, IgnoreInterrupt, Exit
<1>3. CASE ThreadEnd(t) \/ \E u \in Threads : Terminate(t, u)
  BY <1>0, <1>1, <1>3 DEF ThreadEnd, Terminate, Interrupt, Awakened
<1>4. CASE UnlockAll(t)
  <2>1. PICK m, W : pc' = Notify(W, pc) /\ W \in Signalled(m)
    BY <1>4 DEF UnlockAll, Release
  <2>2. t \notin W
    BY <1>4, <2>1 DEF UnlockAll, Signalled, Waiters
  <2> QED BY <1>0, <1>1, <1>4, <2>1, <2>2 DEF UnlockAll, Notify
<1>5. CASE Unwind(t)
  BY <1>0, <1>1, <1>5, ReturnOthers DEF Unwind, Relock
<1>6. CASE CheckDeadlock(t)
  BY <1>6 DEF Hop, StaysIn
<1> QED BY <1>2, <1>3, <1>4, <1>5, <1>6 DEF Ending

LEMMA StepHop ==
    ASSUME TypeInv, NEW t \in Threads, Step(t)
    PROVE  Hop(t)
BY OperationHop, LockingHop, InSleepHop, EndingHop DEF Step

-----------------------------------------------------------------------------
(***************************************************************************)
(* A thread changes the status of another one only when it interrupts it,  *)
(* and goes on awake when it takes a mutex.                                *)
(***************************************************************************)
StatusKept(t) ==
    \A u \in Threads \ {t} : status'[u] = status[u] \/ interrupt_flag'[u]

LEMMA OwnStatus ==
    ASSUME TypeInv, NEW t \in Threads, NEW s,
           status' = [status EXCEPT ![t] = s] \/ UNCHANGED status
    PROVE  StatusKept(t)
BY DEF StatusKept, TypeInv, TypeOK

LEMMA SentStatus ==
    ASSUME TypeInv, NEW t \in Threads, NEW u \in Threads, NEW s,
           \/ UNCHANGED status
           \/ /\ status' = [status EXCEPT ![u] = s]
              /\ interrupt_flag' = Flagged({u}, interrupt_flag)
    PROVE  StatusKept(t)
BY DEF StatusKept, Flagged, TypeInv, TypeOK

LEMMA StepStatus ==
    ASSUME TypeInv, NEW t \in Threads, Step(t)
    PROVE  StatusKept(t)
<1>0. join_list[t] \in SUBSET Threads
  BY DEF TypeInv, TypeOK
<1>1. CASE Operation(t)
  <2>1. ASSUME NEW u \in Threads, Wakeup(t, u) PROVE StatusKept(t)
    BY <2>1, SentStatus DEF Wakeup, Interrupt
  <2>2. ASSUME NEW u \in Threads, Kill(t, u) PROVE StatusKept(t)
    BY <2>2, SentStatus DEF Kill, Interrupt
  <2>3. CASE RunInterrupts(t)
    BY <2>3, OwnStatus DEF RunInterrupts, Throw
  <2>4. ASSUME NEW m \in Mutexes, NEW c, MutexSleep(t, m, c) PROVE StatusKept(t)
    BY <2>4, OwnStatus DEF MutexSleep, FallAsleep
  <2>5. ASSUME NEW c, Sleep(t, c) PROVE StatusKept(t)
    BY <2>5, OwnStatus DEF Sleep, FallAsleep
  <2>6. ASSUME NEW u \in Threads, NEW c, Join(t, u, c) PROVE StatusKept(t)
    BY <2>6, OwnStatus DEF Join, FallAsleep
  <2>7. ASSUME NEW m \in Mutexes, Lock(t, m) \/ TryLock(t, m) \/ Unlock(t, m)
        PROVE  StatusKept(t)
    BY <2>7 DEF Lock, TryLock, Unlock, StatusKept
  <2>8. ASSUME NEW u \in Threads, Raise(t, u) \/ Create(t, u) \/ CreateFails(t)
        PROVE  StatusKept(t)
    BY <2>8 DEF Raise, Create, CreateFails, StatusKept
  <2>9. CASE Finish(t)
    BY <2>9 DEF Finish, StatusKept
  <2> QED BY <1>1, <2>1, <2>2, <2>3, <2>4, <2>5, <2>6, <2>7, <2>8, <2>9
          DEF Operation
<1>2. CASE Locking(t)
  BY <1>2, OwnStatus DEF Locking, MutexLock, LockLoop, LockFunc, LockWoken,
     LockAcquired, LockBack, LockExit, Restored, Throw
<1>3. CASE InSleep(t)
  BY <1>3, OwnStatus DEF InSleep, NativeSleep, TimeOut, Awake, SleepThrow, SleepOn,
     SleepDone, SleptStop, SleptMutex, Joined, JoinAgain, FallAsleep, Throw
<1>4. CASE Ending(t) \/ Unwind(t) \/ CheckDeadlock(t)
  <2>1. CASE ThreadEnd(t)
    BY <1>0, <2>1 DEF ThreadEnd, Interrupt, Flagged, StatusKept, TypeInv, TypeOK
  <2>2. ASSUME NEW u \in Threads, Terminate(t, u) PROVE StatusKept(t)
    BY <2>2, SentStatus DEF Terminate, Interrupt
  <2> QED BY <1>4, <2>1, <2>2 DEF Ending, Start, MainEnd, UnlockAll, UnlockedAll,
             TerminateDone, IgnoreInterrupt, Exit, Unwind, CheckDeadlock, StatusKept
<1> QED BY <1>1, <1>2, <1>3, <1>4 DEF Step

\* Who takes a mutex is awake, or has its turn in rb_mutex_lock still to end.
LEMMA TakesAwake ==
    ASSUME TypeInv, NEW t \in Threads, Step(t), NEW m \in Mutexes,
           owner[m] = NoThread, owner'[m] # NoThread
    PROVE  pc'[t] \in {"run", "end", "acquired"}
<1>0. ~ UNCHANGED owner /\ pc \in [Threads -> Points]
  BY DEF TypeInv, TypeOK
<1>1. ASSUME NEW n, owner' = [owner EXCEPT ![n] = NoThread] PROVE FALSE
  BY <1>1 DEF TypeInv, TypeOK
<1>2. CASE Operation(t)
  <2>1. ASSUME NEW n \in Mutexes, NEW c, Unlock(t, n) \/ MutexSleep(t, n, c)
        PROVE  FALSE
    BY <1>0, <1>1, <2>1 DEF Unlock, MutexSleep, Release
  <2>2. \E n \in Mutexes : TryLock(t, n)
    BY <1>0, <1>2, <2>1 DEF Operation, Lock, Sleep, Wakeup, Kill, Raise, Join,
                            Create, CreateFails, Finish, RunInterrupts, Throw
  <2> QED BY <2>2 DEF TryLock, Ready, Running
<1>3. CASE Locking(t)
  BY <1>0, <1>3, ReturnOthers
     DEF Locking, MutexLock, LockLoop, LockFunc, LockWoken, LockAcquired, LockBack,
         LockExit, LockTest, Throw
<1>4. ~ (InSleep(t) \/ Ending(t) \/ Unwind(t) \/ CheckDeadlock(t))
  <2>1. ~ InSleep(t)
    BY <1>0 DEF InSleep, NativeSleep, TimeOut, Awake, SleepThrow, SleepOn, SleepDone,
                SleptStop, SleptMutex, Joined, JoinAgain, Throw
  <2>2. ~ UnlockAll(t)
    BY <1>1 DEF UnlockAll, Release
  <2> QED BY <1>0, <2>1, <2>2
          DEF Ending, Start, ThreadEnd, MainEnd, UnlockedAll, Terminate, TerminateDone,
              IgnoreInterrupt, Exit, Unwind, CheckDeadlock
<1> QED BY <1>2, <1>3, <1>4 DEF Step

-----------------------------------------------------------------------------
(***************************************************************************)
(* The deadlock that is seen.  A thread that sleeps for good and whose     *)
(* status somebody changed has its flag set; nobody is in native_cond_wait *)
(* of native_sleep with the flag set; nobody waits for its own mutex.      *)
(***************************************************************************)
SleptOn ==
    \A u \in Threads : Sleeping(u) =>
        status[u] = "STOPPED_FOREVER" \/ interrupt_flag[u]

AsleepUnflagged == \A u \in Threads : pc[u] = "asleep" => ~ interrupt_flag[u]

NotOwn ==
    \A u \in Threads :
        pc[u] \in (LockPoints \ {"acquired"}) \cup
                 {"lock_loop", "lock_check", "lock_exit"}
            => owner[arg[u]] # u

RestInv == SleptOn /\ AsleepUnflagged /\ NotOwn /\ Main \in living

\* Inside a sleep a step keeps status and flag.
LEMMA StayStatus ==
    ASSUME TypeInv, NEW t \in Threads, StaysIn(t)
    PROVE  /\ UNCHANGED <<status, arg, call>>
           /\ \A u \in Threads : interrupt_flag[u] => interrupt_flag'[u]
           /\ pc'[t] = "asleep" => NativeSleep(t)
           /\ pc'[t] \in LockPoints => pc[t] \in LockPoints
           /\ pc'[t] # "lock_loop"
           /\ pc'[t] \in {"lock_check", "lock_exit"} =>
                 pc[t] \in {"interrupted", "refused", "lock_check"}
           /\ owner' # owner => pc'[t] = "acquired"
           /\ Sleeping(t)' => Sleeping(t)
<1>0. pc \in [Threads -> Points]
  BY DEF TypeInv, TypeOK
<1>1. CASE NativeSleep(t) \/ TimeOut(t)
  BY <1>0, <1>1 DEF NativeSleep, TimeOut, LockPoints, SleepPoints, Sleeping
<1>2. CASE LockFunc(t) \/ LockWoken(t) \/ LockBack(t)
  BY <1>0, <1>2 DEF LockFunc, LockWoken, LockBack, LockTest, LockPoints, SleepPoints,
                    Sleeping
<1>3. CASE CheckDeadlock(t)
  <2>1. pc'[t] = AfterCheck(pc[t])
    BY <1>0, <1>3 DEF CheckDeadlock, Interrupt, Awakened
  <2>2. \A u \in Threads : interrupt_flag[u] => interrupt_flag'[u]
    BY <1>3 DEF CheckDeadlock, Interrupt, Flagged
  <2> QED BY <1>3, <2>1, <2>2
          DEF CheckDeadlock, AfterCheck, LockPoints, SleepPoints, Sleeping
<1> QED BY <1>1, <1>2, <1>3 DEF StaysIn

LEMMA FlagsStay ==
    ASSUME TypeInv, NEW t \in Threads, Step(t), NEW u \in Threads \ {t},
           interrupt_flag[u]
    PROVE  interrupt_flag'[u]
BY StepSends DEF Sends, Calm, Interrupt, Flagged

LEMMA StepSleptOn ==
    ASSUME TypeInv, SleptOn, NEW t \in Threads, Step(t)
    PROVE  SleptOn'
<1> SUFFICES ASSUME NEW u \in Threads, Sleeping(u)'
             PROVE  status'[u] = "STOPPED_FOREVER" \/ interrupt_flag'[u]
  BY DEF SleptOn
<1>1. CASE u # t
  <2>1. Sleeping(u)
    BY <1>1, StepMutex DEF MutexStep, Others, Other, Sleeping, LockPoints, SleepPoints
  <2> QED BY <1>1, <2>1, StepStatus, FlagsStay DEF SleptOn, StatusKept
<1>2. CASE u = t
  <2>1. ~ WakesUp(t)
    BY <1>2 DEF WakesUp, AwakePoints, Sleeping
  <2>2. CASE StaysIn(t)
    BY <1>2, <2>2, StayStatus DEF SleptOn
  <2> QED BY <1>2, <2>1, <2>2, StepHop DEF Hop, GoesToSleep, BlocksOnLock
<1> QED BY <1>1, <1>2

LEMMA StepAsleep ==
    ASSUME TypeInv, AsleepUnflagged, NEW t \in Threads, Step(t)
    PROVE  AsleepUnflagged'
<1> SUFFICES ASSUME NEW u \in Threads, pc'[u] = "asleep", interrupt_flag'[u]
             PROVE  FALSE
  BY DEF AsleepUnflagged
<1>1. CASE u = t
  <2>1. ~ WakesUp(t)
    BY <1>1 DEF WakesUp, AwakePoints, SleepPoints
  <2>2. NativeSleep(t)
    BY <1>1, <2>1, StepHop, StayStatus DEF Hop, GoesToSleep, BlocksOnLock
  <2> QED BY <1>1, <2>2 DEF NativeSleep, TypeInv, TypeOK
<1>2. CASE u # t
  <2>1. pc[u] = "asleep"
    BY <1>2, StepMutex DEF MutexStep, Others, Other
  <2>2. ~ interrupt_flag[u]
    BY <2>1 DEF AsleepUnflagged
  <2>3. PICK S \in SUBSET Threads : \E p : Interrupt(S, p)
    BY <1>2, <2>2, StepSends DEF Sends, Calm
  <2>4. PICK p : Interrupt(S, p)
    BY <2>3
  <2> QED BY <2>1, <2>2, <2>4 DEF Interrupt, Flagged, Awakened
<1> QED BY <1>1, <1>2

LEMMA StepNotOwn ==
    ASSUME TypeInv, NotOwn, NEW t \in Threads, Step(t)
    PROVE  NotOwn'
<1> DEFINE P == (LockPoints \ {"acquired"}) \cup {"lock_loop", "lock_check", "lock_exit"}
<1> SUFFICES ASSUME NEW u \in Threads, pc'[u] \in P, owner'[arg'[u]] = u
             PROVE  FALSE
  BY DEF NotOwn
<1>0. pc[u] \in P => arg[u] \in Mutexes /\ owner[arg[u]] # u
  BY DEF TypeInv, ArgOK, LockingPoints, NotOwn
<1>1. CASE u # t
  <2>1. pc[u] \in P /\ arg'[u] = arg[u]
    BY <1>1, StepMutex DEF MutexStep, Others, Other, LockPoints
  <2>2. owner'[arg[u]] \in {owner[arg[u]], NoThread, t}
    BY <1>0, <2>1, StepMutex
       DEF MutexStep, Quiet, Took, Gave, Seized, Enlisted, Take, TypeInv, TypeOK
  <2> QED BY <1>0, <1>1, <2>1, <2>2, ThreadsAssumption
<1>2. CASE u = t
  <2>1. CASE WakesUp(t)
    <3>1. pc'[t] = "lock_loop" /\ arg'[t] = arg[t] /\ UNCHANGED owner
      BY <1>2, <2>1 DEF WakesUp, AwakePoints
    <3>2. CASE LockExit(t)
      BY <1>0, <1>2, <3>1, <3>2 DEF LockExit
    <3>3. CASE MutexLock(t)
      <4>1. pc'[t] = "unwind" \/ owner[arg[t]] # t
        BY <3>3, ThreadsAssumption DEF MutexLock, Fail, TypeInv, TypeOK
      <4> QED BY <1>2, <3>1, <4>1
    <3> QED BY <2>1, <3>1, <3>2, <3>3 DEF WakesUp
  <2>2. CASE BlocksOnLock(t)
    BY <1>0, <1>2, <2>2 DEF BlocksOnLock
  <2>3. CASE StaysIn(t)
    <3>1. owner' = owner /\ arg' = arg /\ pc'[t] # "lock_loop"
      BY <1>2, <2>3, StayStatus
    <3>2. pc[t] \in LockPoints \cup {"lock_check"}
      BY <1>2, <2>3, StayStatus DEF LockPoints
    <3>3. CASE pc[t] = "acquired"
      BY <2>3, <3>3 DEF StaysIn, NativeSleep, TimeOut, LockFunc, LockWoken, LockBack,
                        CheckDeadlock
    <3> QED BY <1>0, <1>2, <3>1, <3>2, <3>3
  <2>4. ~ GoesToSleep(t)
    BY <1>2 DEF GoesToSleep, LockPoints
  <2> QED BY <2>1, <2>2, <2>3, <2>4, StepHop DEF Hop
<1> QED BY <1>1, <1>2

LEMMA StepRest ==
    ASSUME TypeInv, RestInv, NEW t \in Threads, Step(t)
    PROVE  RestInv'
<1>1. Main \in living'
  BY DEF RestInv, Step, Operation, Lock, TryLock, Unlock, MutexSleep, Sleep, Join,
         Wakeup, Kill, Raise, Create, CreateFails, Finish, RunInterrupts, Throw,
         Locking, MutexLock, LockLoop, LockFunc, LockWoken, LockAcquired, LockBack,
         LockExit, InSleep, NativeSleep, TimeOut, Awake, SleepThrow, SleepOn,
         SleepDone, SleptStop, SleptMutex, Joined, JoinAgain,
         Ending, Start, ThreadEnd, MainEnd, UnlockAll, UnlockedAll, Terminate, TerminateDone,
         IgnoreInterrupt, Exit, Unwind, CheckDeadlock
<1> QED BY <1>1, StepSleptOn, StepAsleep, StepNotOwn DEF RestInv

-----------------------------------------------------------------------------
(***************************************************************************)
(* Either somebody is about to run rb_check_deadlock, or a living thread   *)
(* goes on by itself.                                                      *)
(***************************************************************************)
Checking(u) == pc[u] \in {"sleep_check", "cleanup", "end_check"}

Lively(u) ==
    /\ u \in living
    /\ \/ ~ Sleeping(u)
       \/ pc[u] \in {"lock_last", "acquired", "interrupted", "refused",
                     "lock_check", "lock_exit"}
       \/ pc[u] \in {"sleep", "awake"} /\ interrupt_flag[u]
       \/ /\ pc[u] \in {"lock", "notified"}
          /\ interrupt_flag[u] \/ owner[arg[u]] = NoThread

Watched == \E u \in Threads : Checking(u) \/ Lively(u)

\* rb_check_deadlock never runs while a thread that has released the GVL is
\* about to find its mutex taken.
Unblind(t) ==
    CheckDeadlock(t) =>
        \A u \in Threads : pc[u] = "lock" =>
            interrupt_flag[u] \/ owner[arg[u]] = NoThread

NoBlindCheck == [][\A t \in Threads : Unblind(t)]_vars

WatchInv == CheckInv /\ ForgottenInv /\ RestInv

LEMMA LivelyOther ==
    ASSUME WatchInv, NEW t \in Threads, Step(t), WatchInv',
           NEW u \in Threads \ {t}, Lively(u)
    PROVE  Watched'
<1>0. /\ TypeInv /\ Other(u) /\ living \ {t} \subseteq living'
      /\ Present' /\ owner \in [Mutexes -> Threads \cup {NoThread}]
  <2>1. TypeInv /\ SleeperInv /\ SleeperInv'
    BY DEF WatchInv, CheckInv, SleeperInv
  <2>2. CountStep(t)
    BY <2>1, OperationCount, LockingCount, InSleepCount, EndingCount DEF Step
  <2> QED BY <2>1, <2>2, StepMutex
          DEF CountStep, Listed, SleeperInv, MutexStep, Others, TypeInv, TypeOK
<1>1. u \in living'
  BY <1>0 DEF Lively
<1>2. CASE ~ Sleeping(u)
  <2>1. ~ Sleeping(u)'
    BY <1>0, <1>2 DEF Other, Sleeping, LockPoints, SleepPoints
  <2> QED BY <1>1, <2>1 DEF Watched, Lively
<1>3. CASE pc[u] \in {"lock_last", "acquired", "interrupted", "refused",
                      "lock_check", "lock_exit"}
  BY <1>0, <1>1, <1>3 DEF Other, Watched, Lively
<1>4. CASE interrupt_flag[u] /\ pc[u] \in {"sleep", "awake", "lock", "notified"}
  <2>1. interrupt_flag'[u] /\ pc'[u] = pc[u]
    BY <1>0, <1>4, FlagsStay DEF Other
  <2> QED BY <1>1, <1>4, <2>1 DEF Watched, Lively
<1>5. CASE pc[u] \in {"lock", "notified"} /\ owner[arg[u]] = NoThread
  <2>1. pc'[u] = pc[u] /\ arg'[u] = arg[u] /\ arg[u] \in Mutexes
    BY <1>0, <1>5 DEF Other, TypeInv, ArgOK, LockingPoints, LockPoints
  <2>2. CASE owner'[arg[u]] = NoThread
    BY <1>1, <1>5, <2>1, <2>2 DEF Watched, Lively
  <2>3. CASE owner'[arg[u]] # NoThread
    <3>1. pc'[t] \in {"run", "end", "acquired"}
      BY <1>0, <1>5, <2>1, <2>3, TakesAwake
    <3>2. t \in living'
      BY <1>0, <3>1 DEF Present, Away
    <3> QED BY <3>1, <3>2 DEF Watched, Lively, Sleeping, LockPoints, SleepPoints
  <2> QED BY <2>2, <2>3
<1> QED BY <1>2, <1>3, <1>4, <1>5 DEF Lively

LEMMA CheckingOther ==
    ASSUME TypeInv, NEW t \in Threads, Step(t), NEW u \in Threads \ {t}, Checking(u)
    PROVE  Watched'
BY StepMutex DEF MutexStep, Others, Other, Checking, Watched

\* The last thread that does not sleep for good finds itself the last one awake.
LEMMA AnotherAwake ==
    ASSUME SleeperInv, Sleepers \subseteq living,
           NEW S \in SUBSET living, Cardinality(living) # Cardinality(Sleepers \cup S)
    PROVE  \E u \in living \ S : ~ Sleeping(u)
<1>1. CASE living \subseteq Sleepers \cup S
  <2>1. living = Sleepers \cup S
    BY <1>1
  <2> QED BY <2>1
<1>2. CASE ~ (living \subseteq Sleepers \cup S)
  BY <1>2 DEF Sleepers, SleeperInv, TypeInv, TypeOK
<1> QED BY <1>1, <1>2

LEMMA SleepersLive == SleeperInv => Sleepers \subseteq living
BY DEF SleeperInv, Sleepers, Present, Sleeping, Away, LockPoints, SleepPoints

LEMMA LivelySelf ==
    ASSUME WatchInv, NEW t \in Threads, Step(t), WatchInv', NoLateWait', Lively(t)
    PROVE  Watched'
<1>0. /\ TypeInv /\ TypeInv' /\ SleeperInv /\ SleeperInv'
      /\ pc \in [Threads -> Points] /\ t \in living
      /\ IsFiniteSet(living)
  BY ThreadsAssumption, FS_Subset
     DEF WatchInv, CheckInv, SleeperInv, Lively, TypeInv, TypeOK
<1>1. ASSUME pc'[t] \in LockPoints \cup SleepPoints
                       \cup {"lock_check", "lock_exit", "lock_loop"}
      PROVE  t \in living'
  BY <1>0, <1>1 DEF SleeperInv, Present, Away, LockPoints, SleepPoints
<1>2. CASE WakesUp(t)
  <2>1. CASE Checking(t)'
    BY <2>1 DEF Watched
  <2>2. CASE ~ Checking(t)'
    <3>1. t \in living'
      <4>1. living' = living \/ ThreadEnd(t) \/ \E u : living' = living \cup {u}
        BY DEF Step, Operation, Lock, TryLock, Unlock, MutexSleep, Sleep, Join,
               Wakeup, Kill, Raise, Create, CreateFails, Finish, RunInterrupts, Throw,
               Locking, MutexLock, LockLoop, LockFunc, LockWoken, LockAcquired,
               LockBack, LockExit, InSleep, NativeSleep, TimeOut, Awake, SleepThrow,
               SleepOn, SleepDone, SleptStop, SleptMutex, Joined, JoinAgain,
               Ending, Start, MainEnd, UnlockAll, UnlockedAll, Terminate, TerminateDone,
               IgnoreInterrupt, Exit, Unwind, CheckDeadlock
      <4>2. ~ ThreadEnd(t)
        BY <1>0, <2>2 DEF ThreadEnd, Interrupt, Awakened, Checking
      <4> QED BY <1>0, <4>1, <4>2
    <3>2. ~ Sleeping(t)'
      BY <1>2 DEF WakesUp, AwakePoints, Sleeping
    <3> QED BY <3>1, <3>2 DEF Watched, Lively
  <2> QED BY <2>1, <2>2
<1>3. CASE GoesToSleep(t)
  <2>1. CASE pc'[t] = "sleep_check"
    BY <2>1 DEF Watched, Checking
  <2>2. CASE pc'[t] = "sleep" /\ ~ Sleeping(t)'
    BY <1>1, <2>2 DEF Watched, Lively, SleepPoints
  <2> QED BY <1>3, <2>1, <2>2 DEF GoesToSleep
<1>4. CASE BlocksOnLock(t)
  <2>1. CASE LastAwake
    BY <1>1, <1>4, <2>1 DEF BlocksOnLock, Watched, Lively, LockPoints
  <2>2. CASE ~ LastAwake
    <3>1. t \notin Sleepers
      BY <1>4 DEF BlocksOnLock, Sleepers, Sleeping, LockPoints, SleepPoints
    <3>2. Sleepers \subseteq living /\ IsFiniteSet(Sleepers)
      BY <1>0, SleepersLive, FS_Subset
    <3>3. Cardinality(Sleepers \cup {t}) = sleeper + 1
      BY <1>0, <3>1, <3>2, FS_AddElement DEF SleeperInv
    <3>4. PICK u \in living \ {t} : ~ Sleeping(u)
      BY <1>0, <2>2, <3>2, <3>3, AnotherAwake DEF LastAwake
    <3>5. u \in Threads \ {t} /\ Lively(u)
      BY <1>0, <3>4 DEF Lively, TypeInv, TypeOK
    <3> QED BY <3>5, LivelyOther
  <2> QED BY <2>1, <2>2
<1>5. CASE StaysIn(t)
  <2>1. CASE NativeSleep(t) \/ TimeOut(t)
    <3>1. /\ pc[t] \in SleepPoints /\ pc'[t] \in SleepPoints
          /\ UNCHANGED <<call, interrupt_flag>>
      BY <1>0, <2>1 DEF NativeSleep, TimeOut, SleepPoints
    <3>2. CASE ~ Sleeping(t)
      BY <1>1, <3>1, <3>2 DEF Watched, Lively, Sleeping, LockPoints, SleepPoints
    <3>3. CASE Sleeping(t)
      <4>1. pc[t] = "sleep" /\ interrupt_flag[t]
        BY <2>1, <3>3 DEF NativeSleep, TimeOut, Lively, Sleeping, LockPoints,
                          Deadlockable, Timed
      <4>2. pc'[t] = "awake"
        BY <1>0, <2>1, <4>1 DEF NativeSleep, TimeOut
      <4> QED BY <1>1, <3>1, <4>1, <4>2 DEF Watched, Lively
    <3> QED BY <3>2, <3>3
  <2>2. CASE LockFunc(t) \/ LockWoken(t)
    <3>1. pc'[t] \in {"acquired", "refused", "interrupted", "waiting"}
      BY <1>0, <2>2 DEF LockFunc, LockWoken, LockTest
    <3>2. pc'[t] # "waiting"
      <4> SUFFICES ASSUME pc'[t] = "waiting" PROVE FALSE
        OBVIOUS
      <4>1. owner[arg[t]] # NoThread /\ pc[t] \in {"lock", "notified"}
        BY <1>0, <2>2 DEF LockFunc, LockWoken, LockTest
      <4>2. interrupt_flag[t]
        BY <4>1 DEF Lively, Sleeping, LockPoints
      <4>3. interrupt_flag'[t]
        BY <2>2, <4>2 DEF LockFunc, LockWoken
      <4> QED BY <4>3 DEF NoLateWait
    <3> QED BY <1>1, <3>1, <3>2 DEF Watched, Lively, LockPoints
  <2>3. CASE LockBack(t)
    BY <1>0, <1>1, <2>3 DEF LockBack, Watched, Lively
  <2>4. CASE CheckDeadlock(t)
    <3>1. pc'[t] = AfterCheck(pc[t])
      BY <1>0, <2>4 DEF CheckDeadlock, Interrupt, Awakened
    <3>2. CASE pc[t] = "lock_check"
      BY <1>1, <3>1, <3>2 DEF AfterCheck, Watched, Lively
    <3>3. CASE pc[t] = "end_check"
      BY <1>0, <2>4, <3>1, <3>3
         DEF AfterCheck, Watched, Lively, CheckDeadlock, Sleeping, LockPoints,
             SleepPoints
    <3>4. CASE pc[t] = "sleep_check"
      BY <1>1, <2>4, <3>1, <3>4
         DEF AfterCheck, Watched, Lively, CheckDeadlock, Sleeping, LockPoints,
             SleepPoints
    <3> QED BY <2>4, <3>2, <3>3, <3>4 DEF CheckDeadlock
  <2> QED BY <1>5, <2>1, <2>2, <2>3, <2>4 DEF StaysIn
<1> QED BY <1>0, <1>2, <1>3, <1>4, <1>5, StepHop DEF Hop

\* A thread that speaks against a deadlock goes on by itself, or is on its way
\* to where another one does.
LEMMA MayRunLively ==
    ASSUME WatchInv, NoLateWait, NEW t \in Threads, CheckDeadlock(t), Unblind(t),
           NEW u \in living, Sleeping(u), MayRun(u), pc[u] # "sleep_check"
    PROVE  \E v \in Threads : Lively(v)
<1>0. TypeInv /\ u \in Threads
  BY DEF WatchInv, CheckInv, SleeperInv, TypeInv, TypeOK
<1>1. status[u] # "STOPPED_FOREVER" => interrupt_flag[u]
  BY <1>0 DEF WatchInv, RestInv, SleptOn
<1>2. CASE interrupt_flag[u]
  BY <1>0, <1>2 DEF WatchInv, RestInv, AsleepUnflagged, NoLateWait, Sleeping,
                    LockPoints, SleepPoints, Lively
<1>3. CASE Transition(u) /\ ~ interrupt_flag[u]
  <2>1. pc[u] = "lock" => owner[arg[u]] = NoThread
    BY <1>0, <1>3 DEF Unblind
  <2> QED BY <1>0, <1>3, <2>1 DEF Transition, TransitionPoints, LockPoints, Lively
<1>4. CASE InLock(u) /\ owner[arg[u]] = u /\ ~ Transition(u)
  BY <1>0, <1>4 DEF WatchInv, RestInv, NotOwn, InLock, Transition, TransitionPoints
<1>5. CASE InLock(u) /\ owner[arg[u]] = NoThread /\ ~ Transition(u)
  <2>1. pc[u] \in {"waiting", "notified"}
    BY <1>5 DEF InLock, Transition, TransitionPoints
  <2>2. CASE pc[u] = "notified"
    BY <1>0, <1>5, <2>2 DEF Lively
  <2>3. CASE pc[u] = "waiting"
    <3>1. arg[u] \in Mutexes /\ u \in Waiters(arg[u])
      BY <1>0, <2>3 DEF TypeInv, ArgOK, LockingPoints, LockPoints, Waiters
    <3>2. PICK v \in Threads : /\ arg[v] = arg[u]
                               /\ pc[v] \in {"lock", "lock_last", "notified"}
      BY <1>5, <3>1 DEF WatchInv, ForgottenInv, Awaited, Coming
    <3>3. v \in living
      BY <3>2 DEF WatchInv, CheckInv, SleeperInv, Present, Away
    <3> QED BY <1>5, <3>2, <3>3 DEF Lively
  <2> QED BY <2>1, <2>2, <2>3
<1> QED BY <1>1, <1>2, <1>3, <1>4, <1>5 DEF MayRun

\* rb_check_deadlock tells the main thread, or finds a thread that goes on.
LEMMA CheckWatches ==
    ASSUME WatchInv, NoLateWait, NEW t \in Threads, CheckDeadlock(t), Unblind(t),
           WatchInv', NoLateWait'
    PROVE  Watched'
<1>0. /\ TypeInv /\ SleeperInv /\ Step(t) /\ Main \in living /\ Main \in living'
      /\ pc \in [Threads -> Points] /\ living \subseteq Threads
      /\ UNCHANGED <<living, call, arg, owner>>
  BY DEF WatchInv, CheckInv, SleeperInv, RestInv, Step, TypeInv, TypeOK, CheckDeadlock
<1>1. Sleepers \subseteq living
  BY <1>0, SleepersLive
<1>2. ASSUME NEW u \in Threads, Lively(u) PROVE Watched'
  BY <1>0, <1>2, LivelyOther, LivelySelf
<1>3. CASE Deadlocked
  <2>1. /\ Interrupt({Main}, [pc EXCEPT ![t] = AfterCheck(@)])
        /\ Main \in Threads
    BY <1>3, MainAssumption DEF CheckDeadlock
  <2>2. interrupt_flag'[Main]
    BY <2>1 DEF Interrupt, Flagged
  <2>3. Sleeping(Main)
    BY <1>0, <1>3, AllSleep
  <2>4. pc'[Main] # "waiting"
    BY <2>1, <2>2 DEF NoLateWait
  <2>5. pc'[Main] # "asleep"
    BY <2>1, <2>2 DEF WatchInv, RestInv, AsleepUnflagged
  <2>6. CASE Sleeping(Main)' /\ pc'[Main] # "sleep_check"
    BY <1>0, <2>1, <2>2, <2>4, <2>5, <2>6
       DEF Watched, Lively, Sleeping, LockPoints, SleepPoints
  <2>7. CASE ~ Sleeping(Main)'
    BY <1>0, <2>1, <2>7 DEF Watched, Lively
  <2>8. CASE pc'[Main] = "sleep_check"
    BY <2>1, <2>8 DEF Watched, Checking
  <2> QED BY <2>6, <2>7, <2>8
<1>4. CASE ~ Deadlocked
  <2>1. pc' = [pc EXCEPT ![t] = AfterCheck(@)] /\ UNCHANGED interrupt_flag
    BY <1>4 DEF CheckDeadlock
  <2>2. CASE Cardinality(living) # sleeper
    <3>1. PICK u \in living : ~ Sleeping(u)
      BY <1>0, <1>1, <2>2, AnotherAwake DEF SleeperInv
    <3> QED BY <1>0, <1>2, <3>1 DEF Lively
  <2>3. ASSUME NEW u \in living, MayRun(u) PROVE Watched'
    <3>1. CASE ~ Sleeping(u)
      BY <1>0, <1>2, <3>1 DEF Lively
    <3>2. CASE Sleeping(u) /\ pc[u] # "sleep_check"
      BY <1>2, <2>3, <3>2, MayRunLively
    <3>3. CASE pc[u] = "sleep_check" /\ u # t
      BY <1>0, <3>3, CheckingOther DEF Checking
    <3>4. CASE Sleeping(u) /\ pc[u] = "sleep_check" /\ u = t
      <4>1. interrupt_flag[u]
        BY <1>0, <2>3, <3>4
           DEF WatchInv, RestInv, SleptOn, MayRun, Transition, TransitionPoints,
               InLock, LockPoints
      <4>2. pc'[u] = "sleep" /\ interrupt_flag'[u]
        BY <1>0, <2>1, <3>4, <4>1 DEF AfterCheck
      <4> QED BY <1>0, <4>2 DEF Watched, Lively
    <3> QED BY <3>1, <3>2, <3>3, <3>4
  <2> QED BY <1>4, <2>2, <2>3 DEF Deadlocked
<1> QED BY <1>3, <1>4

LEMMA StepWatched ==
    ASSUME WatchInv, NoLateWait, Watched, NEW t \in Threads, Step(t), Unblind(t),
           WatchInv', NoLateWait'
    PROVE  Watched'
<1>0. TypeInv /\ pc \in [Threads -> Points]
  BY DEF WatchInv, CheckInv, SleeperInv, TypeInv, TypeOK
<1>1. PICK u \in Threads : Checking(u) \/ Lively(u)
  BY DEF Watched
<1>2. CASE Lively(u)
  BY <1>2, LivelyOther, LivelySelf
<1>3. CASE Checking(u) /\ u # t
  BY <1>0, <1>3, CheckingOther
<1>4. CASE Checking(t)
  <2>1. \/ UnlockAll(t) \/ UnlockedAll(t) \/ CheckDeadlock(t)
    BY <1>4 DEF Checking, Step, Operation, Lock, TryLock, Unlock, MutexSleep, Sleep,
       Join, Wakeup, Kill, Raise, Create, CreateFails, Finish, RunInterrupts, Ready, Running,
       Locking, MutexLock, LockLoop, LockFunc, LockWoken, LockAcquired, LockBack,
       LockExit, InSleep, NativeSleep, TimeOut, Awake, SleepThrow, SleepOn, SleepDone,
       SleptStop, SleptMutex, Joined, JoinAgain, Ending, Start, ThreadEnd, MainEnd,
       Terminate, TerminateDone, IgnoreInterrupt, Exit, Unwind
  <2>2. CASE UnlockAll(t)
    <3>1. PICK m, W : pc' = Notify(W, pc) /\ W \in Signalled(m)
      BY <2>2 DEF UnlockAll, Release
    <3>2. pc'[t] = "cleanup"
      BY <1>0, <2>2, <3>1 DEF UnlockAll, Notify, Signalled, Waiters
    <3> QED BY <3>2 DEF Watched, Checking
  <2>3. CASE UnlockedAll(t)
    <3>1. CASE t = Main
      BY <1>0, <2>3, <3>1 DEF UnlockedAll, Watched, Lively, Sleeping, LockPoints,
                              SleepPoints, WatchInv, RestInv
    <3>2. CASE t # Main
      BY <1>0, <2>3, <3>2 DEF UnlockedAll, Watched, Checking
    <3> QED BY <3>1, <3>2
  <2>4. CASE CheckDeadlock(t)
    BY <2>4, CheckWatches
  <2> QED BY <2>1, <2>2, <2>3, <2>4
<1> QED BY <1>1, <1>2, <1>3, <1>4

LEMMA WatchInit == Init => WatchInv /\ Watched
<1> SUFFICES ASSUME Init PROVE WatchInv /\ Watched
  OBVIOUS
<1>1. RestInv
  BY MainAssumption DEF Init, RestInv, SleptOn, AsleepUnflagged, NotOwn, Sleeping,
     LockPoints, SleepPoints
<1>2. Watched
  BY MainAssumption DEF Init, Watched, Lively, Sleeping, LockPoints, SleepPoints
<1> QED BY <1>1, <1>2, CheckInit, ForgottenInit DEF WatchInv

LEMMA WatchNext ==
    /\ WatchInv /\ Watched /\ NoLateWait /\ NoLateWait'
    /\ [Next]_vars /\ [\A t \in Threads : Unblind(t)]_vars
    => (WatchInv /\ Watched)'
<1> SUFFICES ASSUME WatchInv, Watched, NoLateWait, NoLateWait', [Next]_vars,
                    [\A t \in Threads : Unblind(t)]_vars
             PROVE  WatchInv' /\ Watched'
  OBVIOUS
<1>1. CheckInv' /\ ForgottenInv' /\ TypeInv
  BY CheckNext, ForgottenNext DEF WatchInv, CheckInv, SleeperInv
<1>2. CASE UNCHANGED vars
  BY <1>1, <1>2 DEF vars, WatchInv, RestInv, SleptOn, AsleepUnflagged, NotOwn,
     Watched, Checking, Lively, Sleeping
<1>3. ASSUME NEW t \in Threads, Step(t), ~ UNCHANGED vars PROVE WatchInv' /\ Watched'
  <2>1. WatchInv'
    BY <1>1, <1>3, StepRest DEF WatchInv
  <2> QED BY <1>3, <2>1, StepWatched
<1> QED BY <1>2, <1>3 DEF Next, Terminated

\* As long as no thread begins to wait that was interrupted after it released
\* the GVL, and no deadlock check meets a thread that has released the GVL and
\* does not wait yet, the main thread is told of every deadlock.
THEOREM DeadlocksDetected ==
    Spec /\ []NoLateWait /\ NoBlindCheck => []DeadlockIsDetected
<1>1. WatchInv /\ Watched => DeadlockIsDetected
  <2> SUFFICES ASSUME WatchInv, Watched, gvl = NoThread PROVE DeadlockIsDetected
    BY DEF DeadlockIsDetected
  <2>1. PICK u \in Threads : Checking(u) \/ Lively(u)
    BY DEF Watched
  <2>2. ~ Checking(u)
    BY <2>1, ThreadsAssumption DEF Checking, WatchInv, CheckInv, GVLHeld, GVLPoints
  <2> QED BY <2>1, <2>2 DEF Lively, DeadlockIsDetected, Sleeping, LockPoints,
                            SleepPoints
<1> QED BY <1>1, WatchInit, WatchNext, PTL DEF Spec, NoBlindCheck
===============================================================================
