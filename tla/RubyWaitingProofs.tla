-------------------------- MODULE RubyWaitingProofs --------------------------
(***************************************************************************)
(* Two more invariants of RubyThread for every set of threads and mutexes  *)
(* and every program: cond_waiting is the number of threads that wait, so  *)
(* that no unlock wakes nobody, and a kill is never forgotten before the   *)
(* thread throws it.                                                       *)
(***************************************************************************)
EXTENDS RubyThreadProofs

USE DEF threadVars, mutexVars, condVars, signalVars, listVars

-----------------------------------------------------------------------------
(***************************************************************************)
(* What a step of t, which does not wait for a mutex, does to the points   *)
(* of all threads: t goes to q; or waits, counted; or interrupts threads;  *)
(* or gives a mutex back; or creates a thread.                             *)
(***************************************************************************)
Closing == {"terminate", "exit"}
Special == {"lock_check", "awake"}
Open == Points \ (Closing \cup Special \cup {"waiting"})

Goes(t, q) == pc' = [pc EXCEPT ![t] = q] /\ UNCHANGED cond_waiting
StartsWait(t) ==
    /\ arg[t] \in Mutexes /\ UNCHANGED arg
    /\ owner[arg[t]] # NoThread /\ UNCHANGED owner
    /\ pc' = [pc EXCEPT ![t] = "waiting"]
    /\ cond_waiting' = [cond_waiting EXCEPT ![arg[t]] = @ + 1]
Interrupts(t, q) == \E S \in SUBSET Threads : Interrupt(S, [pc EXCEPT ![t] = q])
Releases(t, q) == \E m \in Mutexes : Release(t, m, [pc EXCEPT ![t] = q])
Creates(t) ==
    /\ pc[t] = "run"
    /\ \E u \in Threads : pc[u] = "unborn" /\ pc' = [pc EXCEPT ![u] = "start"]
    /\ UNCHANGED cond_waiting

Kind(t, Q) ==
    /\ pc[t] # "waiting"
    /\ \/ \E q \in Q : Goes(t, q) \/ Interrupts(t, q) \/ Releases(t, q)
       \/ StartsWait(t)
       \/ Creates(t)

LEMMA OpenPoints ==
    /\ {"run", "end", "unwind", "mutex_lock", "lock_loop", "lock", "lock_last",
        "acquired", "refused", "interrupted", "lock_exit", "asleep",
        "check_ints", "slept", "sleep", "sleep_check",
        "cleanup", "end_check", "dead"} \subseteq Open
    /\ Open \subseteq Points
    /\ \A c : SleepPoint(c) \in Open
BY DEF Open, Closing, Special, Points, LockPoints, SleepPoints, GVLPoints, SleepPoint

LEMMA GoesKind ==
    ASSUME NEW t \in Threads, NEW q \in Open, pc[t] # "waiting", Goes(t, q)
    PROVE  Kind(t, Open)
BY DEF Kind

LEMMA ReturnKind ==
    ASSUME NEW t \in Threads, pc[t] # "waiting", Return(t), UNCHANGED cond_waiting
    PROVE  Kind(t, Open)
<1>1. PICK q \in {"run", "end"} : pc' = [pc EXCEPT ![t] = q]
  BY OutcomesType DEF Return
<1> QED BY <1>1, GoesKind, OpenPoints DEF Goes

LEMMA FailKind ==
    ASSUME NEW t \in Threads, pc[t] # "waiting", Fail(t), UNCHANGED cond_waiting
    PROVE  Kind(t, Open)
BY GoesKind, OpenPoints DEF Goes, Fail

LEMMA ThrowKind ==
    ASSUME NEW t \in Threads, pc[t] # "waiting", Throw(t)
    PROVE  Kind(t, Open)
BY GoesKind, OpenPoints DEF Goes, Throw

LEMMA StayKind ==
    ASSUME TypeInv, NEW t \in Threads, pc[t] \in Open, UNCHANGED <<pc, cond_waiting>>
    PROVE  Kind(t, Open)
<1>1. pc' = [pc EXCEPT ![t] = pc[t]] /\ pc[t] # "waiting"
  BY DEF TypeInv, TypeOK, Open
<1> QED BY <1>1, GoesKind DEF Goes

LEMMA OperationKind ==
    ASSUME TypeInv, NEW t \in Threads, Operation(t)
    PROVE  Kind(t, Open)
<1>0. pc[t] = "run" /\ pc = [pc EXCEPT ![t] = "run"]
  BY DEF Operation, Lock, TryLock, Unlock, MutexSleep, Sleep, Wakeup, Kill, Raise,
         Join, Create, CreateFails, Finish, RunInterrupts, Ready, Running, TypeInv, TypeOK
<1>1. pc[t] # "waiting" /\ pc[t] \in Open
  BY <1>0, OpenPoints
<1>2. ASSUME NEW m \in Mutexes, Lock(t, m) \/ TryLock(t, m) PROVE Kind(t, Open)
  <2>1. CASE Lock(t, m)
    BY <1>1, <2>1, GoesKind, OpenPoints DEF Lock, Goes
  <2>2. CASE TryLock(t, m)
    BY <1>1, <2>2, StayKind DEF TryLock
  <2> QED BY <1>2, <2>1, <2>2
<1>3. ASSUME NEW m \in Mutexes, Unlock(t, m) PROVE Kind(t, Open)
  <2>1. CASE Release(t, m, pc)
    BY <1>0, <1>1, <2>1 DEF Kind, Releases
  <2>2. CASE Fail(t) /\ UNCHANGED condVars
    BY <1>1, <2>2, FailKind
  <2> QED BY <1>3, <2>1, <2>2 DEF Unlock
<1>4. ASSUME NEW m \in Mutexes, NEW c, MutexSleep(t, m, c) PROVE Kind(t, Open)
  <2>1. CASE Release(t, m, [pc EXCEPT ![t] = SleepPoint(c)])
    <3>1. Releases(t, SleepPoint(c))
      BY <2>1 DEF Releases
    <3> QED BY <1>1, <3>1, OpenPoints DEF Kind
  <2>2. CASE Fail(t) /\ UNCHANGED condVars
    BY <1>1, <2>2, FailKind
  <2> QED BY <1>4, <2>1, <2>2 DEF MutexSleep
<1>5. ASSUME NEW c, Sleep(t, c) PROVE Kind(t, Open)
  <2>1. CASE Fail(t)
    BY <1>1, <1>5, <2>1, FailKind DEF Sleep
  <2>2. CASE pc' = [pc EXCEPT ![t] = SleepPoint(c)]
    BY <1>1, <1>5, <2>2, GoesKind, OpenPoints DEF Sleep, Goes
  <2> QED BY <1>5, <2>1, <2>2 DEF Sleep
<1>6. ASSUME NEW u \in Threads, NEW c, Join(t, u, c) PROVE Kind(t, Open)
  <2>1. PICK q \in {"run", "end", SleepPoint(c)} : pc' = [pc EXCEPT ![t] = q]
    BY <1>6 DEF Join
  <2> QED BY <1>1, <1>6, <2>1, GoesKind, OpenPoints DEF Join, Goes
<1>7. ASSUME NEW u \in Threads, Wakeup(t, u) \/ Kill(t, u) \/ Raise(t, u)
      PROVE  Kind(t, Open)
  <2>1. CASE Fail(t) /\ UNCHANGED condVars
    BY <1>1, <2>1, FailKind
  <2>2. CASE Interrupt({u}, pc)
    BY <1>0, <1>1, <2>2 DEF Kind, Interrupts
  <2>3. CASE UNCHANGED <<pc, condVars>>
    BY <1>1, <2>3, StayKind
  <2> QED BY <1>7, <2>1, <2>2, <2>3 DEF Wakeup, Kill, Raise
<1>8. ASSUME NEW u \in Threads, Create(t, u) PROVE Kind(t, Open)
  BY <1>0, <1>1, <1>8 DEF Create, Kind, Creates
<1>9. CASE Finish(t)
  BY <1>1, <1>9, GoesKind, OpenPoints DEF Finish, Goes
<1>10. CASE RunInterrupts(t)
  <2>1. CASE Throw(t)
    BY <1>1, <2>1, ThrowKind
  <2>2. CASE UNCHANGED <<pc, condVars>>
    BY <1>1, <2>2, StayKind
  <2> QED BY <1>10, <2>1, <2>2 DEF RunInterrupts
<1>11. CASE CreateFails(t)
  BY <1>1, <1>11, FailKind DEF CreateFails
<1> QED BY <1>2, <1>3, <1>4, <1>5, <1>6, <1>7, <1>8, <1>9, <1>10, <1>11 DEF Operation

\* Only one action leads to each of the Special points.
LEMMA LockingKind ==
    ASSUME TypeInv, NEW t \in Threads, Locking(t)
    PROVE  \/ Kind(t, Open)
           \/ Kind(t, Special) /\ LockBack(t)
<1>0. pc[t] # "waiting"
  BY DEF Locking, MutexLock, LockLoop, LockFunc, LockWoken, LockAcquired, LockBack,
         LockExit
<1>1. ASSUME MutexLock(t) PROVE Kind(t, Open)
  <2>1. UNCHANGED condVars
    BY <1>1 DEF MutexLock
  <2>2. CASE Return(t) \/ Fail(t)
    BY <1>0, <2>1, <2>2, ReturnKind, FailKind
  <2>3. CASE pc' = [pc EXCEPT ![t] = "lock_loop"]
    BY <1>0, <2>1, <2>3, GoesKind, OpenPoints DEF Goes
  <2> QED BY <1>1, <2>2, <2>3 DEF MutexLock
<1>2. ASSUME LockLoop(t) \/ LockExit(t) PROVE Kind(t, Open)
  <2>1. CASE Throw(t)
    BY <1>0, <2>1, ThrowKind
  <2>2. CASE ~ Throw(t)
    <3>1. PICK q \in {"lock", "lock_last", "lock_loop"} : Goes(t, q)
      BY <1>2, <2>2 DEF LockLoop, LockExit, Goes
    <3> QED BY <1>0, <3>1, GoesKind, OpenPoints
  <2> QED BY <2>1, <2>2
<1>3. ASSUME arg[t] \in Mutexes, LockTest(t, arg[t]), UNCHANGED arg PROVE Kind(t, Open)
  <2>1. \/ StartsWait(t)
        \/ \E q \in {"acquired", "refused"} : Goes(t, q)
    BY <1>3 DEF LockTest, StartsWait, Goes
  <2> QED BY <1>0, <2>1, GoesKind, OpenPoints DEF Kind
<1>4. ASSUME LockFunc(t) \/ LockWoken(t) PROVE Kind(t, Open)
  <2>1. arg[t] \in Mutexes /\ UNCHANGED arg
    BY <1>4 DEF LockFunc, LockWoken, TypeInv, ArgOK, LockingPoints, LockPoints
  <2>2. CASE LockTest(t, arg[t])
    BY <1>3, <2>1, <2>2
  <2>3. CASE Goes(t, "interrupted")
    BY <1>0, <2>3, GoesKind, OpenPoints
  <2> QED BY <1>4, <2>2, <2>3 DEF LockFunc, LockWoken, Goes
<1>5. ASSUME LockAcquired(t) PROVE Kind(t, Open)
  BY <1>0, <1>5, ReturnKind DEF LockAcquired
<1>6. CASE LockBack(t)
  <2>1. PICK q \in {"lock_check", "lock_exit"} : Goes(t, q)
    BY <1>6 DEF LockBack, Goes
  <2>2. CASE q = "lock_check"
    BY <1>0, <1>6, <2>1, <2>2 DEF Kind, Special
  <2>3. CASE q = "lock_exit"
    BY <1>0, <2>1, <2>3, GoesKind, OpenPoints
  <2> QED BY <2>2, <2>3
<1> QED BY <1>1, <1>2, <1>4, <1>5, <1>6 DEF Locking

LEMMA InSleepKind ==
    ASSUME TypeInv, NEW t \in Threads, InSleep(t)
    PROVE  \/ Kind(t, Open)
           \/ Kind(t, Special) /\ (NativeSleep(t) \/ TimeOut(t))
<1>0. pc[t] # "waiting" /\ UNCHANGED cond_waiting
  BY DEF InSleep, NativeSleep, TimeOut, Awake, SleepThrow, SleepOn, SleepDone,
         SleptStop, SleptMutex, Joined, JoinAgain, Throw
<1>1. CASE NativeSleep(t) \/ TimeOut(t)
  <2>1. PICK q \in {"awake", "asleep"} : pc' = [pc EXCEPT ![t] = q]
    BY <1>1 DEF NativeSleep, TimeOut
  <2>2. CASE q = "awake"
    BY <1>0, <1>1, <2>1, <2>2 DEF Goes, Kind, Special
  <2>3. CASE q = "asleep"
    BY <1>0, <2>1, <2>3, GoesKind, OpenPoints DEF Goes
  <2> QED BY <2>2, <2>3
<1>7. ASSUME Awake(t) PROVE Kind(t, Open)
  BY <1>0, <1>7, GoesKind, OpenPoints DEF Awake, Goes
<1>2. ASSUME SleepThrow(t) PROVE Kind(t, Open)
  BY <1>0, <1>2, ThrowKind DEF SleepThrow
<1>3. ASSUME SleepOn(t) \/ JoinAgain(t) PROVE Kind(t, Open)
  BY <1>0, <1>3, GoesKind, OpenPoints DEF SleepOn, JoinAgain, Goes
<1>4. ASSUME SleepDone(t) \/ SleptMutex(t) PROVE Kind(t, Open)
  BY <1>0, <1>4, GoesKind, OpenPoints DEF SleepDone, SleptMutex, Relock, Goes
<1>5. ASSUME SleptStop(t) PROVE Kind(t, Open)
  BY <1>0, <1>5, ReturnKind DEF SleptStop
<1>6. ASSUME Joined(t) PROVE Kind(t, Open)
  <2>1. PICK q \in {"run", "end"} : pc' = [pc EXCEPT ![t] = q]
    BY <1>6 DEF Joined
  <2> QED BY <1>0, <2>1, GoesKind, OpenPoints DEF Goes
<1> QED BY <1>1, <1>2, <1>3, <1>4, <1>5, <1>6, <1>7 DEF InSleep

\* Only the end of the main thread leads to the Closing points.
LEMMA EndingKind ==
    ASSUME TypeInv, NEW t \in Threads, Ending(t) \/ Unwind(t) \/ CheckDeadlock(t)
    PROVE  \/ Kind(t, Open)
           \/ Kind(t, Closing) /\ (t = Main \/ pc[t] \in Closing)
<1>0. pc[t] # "waiting"
  BY DEF Ending, Start, ThreadEnd, MainEnd, UnlockAll, UnlockedAll, Terminate, TerminateDone,
         IgnoreInterrupt, Exit, Unwind, CheckDeadlock
<1>1. CASE Start(t) \/ MainEnd(t) \/ Exit(t)
  BY <1>0, <1>1, GoesKind, OpenPoints DEF Start, MainEnd, Exit, Goes
<1>2. CASE UnlockedAll(t)
  <2>1. CASE t = Main
    BY <1>0, <1>2, <2>1 DEF UnlockedAll, Kind, Goes, Closing
  <2>2. CASE t # Main
    BY <1>0, <1>2, <2>2, GoesKind, OpenPoints DEF UnlockedAll, Goes
  <2> QED BY <2>1, <2>2
<1>3. CASE ThreadEnd(t)
  <2>1. join_list[t] \in SUBSET Threads
    BY DEF TypeInv, TypeOK
  <2>2. Interrupts(t, "cleanup")
    BY <1>3, <2>1 DEF ThreadEnd, Interrupts
  <2> QED BY <1>0, <2>2, OpenPoints DEF Kind
<1>4. CASE UnlockAll(t)
  <2>1. PICK m \in Mutexes : Release(t, m, pc)
    BY <1>4 DEF UnlockAll, TypeInv, TypeOK
  <2>2. [pc EXCEPT ![t] = "cleanup"] = pc
    BY <1>4 DEF UnlockAll, TypeInv, TypeOK
  <2>3. Releases(t, "cleanup")
    BY <2>1, <2>2 DEF Releases
  <2> QED BY <1>0, <2>3, OpenPoints DEF Kind
<1>5. ASSUME NEW u \in Threads, Terminate(t, u)
      PROVE  Kind(t, Closing) /\ pc[t] \in Closing
  <2>1. [pc EXCEPT ![t] = "terminate"] = pc
    BY <1>5 DEF Terminate, TypeInv, TypeOK
  <2>2. Interrupts(t, "terminate") /\ pc[t] = "terminate"
    BY <1>5, <2>1 DEF Terminate, Interrupts
  <2> QED BY <1>0, <2>2 DEF Kind, Closing
<1>6. CASE IgnoreInterrupt(t)
  <2>1. pc' = [pc EXCEPT ![t] = "exit"] /\ UNCHANGED cond_waiting
    BY <1>6 DEF IgnoreInterrupt, TypeInv, TypeOK
  <2> QED BY <1>0, <1>6, <2>1 DEF IgnoreInterrupt, Kind, Goes, Closing
<1>7. CASE Unwind(t)
  <2>1. CASE Return(t)
    BY <1>0, <1>7, <2>1, ReturnKind DEF Unwind
  <2>2. CASE Relock(t)
    BY <1>0, <1>7, <2>2, GoesKind, OpenPoints DEF Unwind, Relock, Goes
  <2> QED BY <1>7, <2>1, <2>2 DEF Unwind
<1>8. CASE CheckDeadlock(t)
  <2>1. PICK q \in {"sleep", "lock_exit", "dead"} : AfterCheck(pc[t]) = q
    BY <1>8 DEF CheckDeadlock, AfterCheck
  <2>2. CASE Interrupt({Main}, [pc EXCEPT ![t] = q])
    <3>1. Interrupts(t, q)
      BY <2>2, MainAssumption DEF Interrupts
    <3> QED BY <1>0, <3>1, OpenPoints DEF Kind
  <2>3. CASE pc' = [pc EXCEPT ![t] = q] /\ UNCHANGED condVars
    BY <1>0, <2>3, GoesKind, OpenPoints DEF Goes
  <2> QED BY <1>8, <2>1, <2>2, <2>3 DEF CheckDeadlock
<1>9. CASE TerminateDone(t)
  BY <1>0, <1>9 DEF TerminateDone, Kind, Goes, Closing
<1> QED BY <1>1, <1>2, <1>3, <1>4, <1>5, <1>6, <1>7, <1>8, <1>9 DEF Ending

LEMMA StepKind ==
    ASSUME TypeInv, NEW t \in Threads, Step(t)
    PROVE  \/ Kind(t, Open)
           \/ Kind(t, Special) /\ (LockBack(t) \/ NativeSleep(t) \/ TimeOut(t))
           \/ Kind(t, Closing) /\ (t = Main \/ pc[t] \in Closing)
BY OperationKind, LockingKind, InSleepKind, EndingKind DEF Step

-----------------------------------------------------------------------------
(***************************************************************************)
(* cond_waiting.  A step leaves the threads that wait for a mutex alone,   *)
(* wakes all of them, wakes one, or adds the thread that takes the step.   *)
(***************************************************************************)
Same(m) == Waiters(m)' = Waiters(m) /\ cond_waiting'[m] = cond_waiting[m]
Emptied(m) == Waiters(m)' = {} /\ cond_waiting'[m] = 0
OneWoken(m) ==
    \E w \in Waiters(m) : /\ Waiters(m)' = Waiters(m) \ {w}
                          /\ cond_waiting'[m] = cond_waiting[m] - 1
OneMore(m) ==
    \E w \in Threads \ Waiters(m) : /\ Waiters(m)' = Waiters(m) \cup {w}
                                    /\ cond_waiting'[m] = cond_waiting[m] + 1

WaitStep == \A m \in Mutexes : Same(m) \/ Emptied(m) \/ OneWoken(m) \/ OneMore(m)

LEMMA GoesWait ==
    ASSUME TypeInv, NEW t \in Threads, NEW q \in Points \ {"waiting"}, pc[t] # "waiting",
           Goes(t, q), \A u \in Threads \ {t} : arg'[u] = arg[u]
    PROVE  WaitStep
<1>1. pc'[t] = q /\ \A u \in Threads \ {t} : pc'[u] = pc[u]
  BY DEF Goes, TypeInv, TypeOK
<1>2. \A m \in Mutexes : Same(m)
  BY <1>1 DEF Goes, Same, Waiters
<1> QED BY <1>2 DEF WaitStep

LEMMA InterruptsWait ==
    ASSUME TypeInv, NEW t \in Threads, NEW q \in Points \ {"waiting"}, pc[t] # "waiting",
           Interrupts(t, q), \A u \in Threads \ {t} : arg'[u] = arg[u]
    PROVE  WaitStep
<1>1. PICK S \in SUBSET Threads : Interrupt(S, [pc EXCEPT ![t] = q])
  BY DEF Interrupts
<1>2. pc' = Awakened(S, [pc EXCEPT ![t] = q])
  BY <1>1 DEF Interrupt
<1>3. pc'[t] # "waiting"
  BY <1>2 DEF Awakened, TypeInv, TypeOK
<1>4. ASSUME NEW u \in Threads \ {t}
      PROVE  pc'[u] = "waiting" <=> pc[u] = "waiting" /\ arg[u] \notin Broadcast(S)
  BY <1>2 DEF Awakened, TypeInv, TypeOK
<1>5. \A m \in Mutexes : cond_waiting'[m] = IF m \in Broadcast(S) THEN 0 ELSE cond_waiting[m]
  BY <1>1 DEF Interrupt, LockInterrupt
<1>6. ASSUME NEW m \in Mutexes PROVE Same(m) \/ Emptied(m)
  <2>1. CASE m \in Broadcast(S)
    BY <1>3, <1>4, <1>5, <2>1 DEF Emptied, Waiters
  <2>2. CASE m \notin Broadcast(S)
    BY <1>3, <1>4, <1>5, <2>2 DEF Same, Waiters
  <2> QED BY <2>1, <2>2
<1> QED BY <1>6 DEF WaitStep

LEMMA ReleasesWait ==
    ASSUME TypeInv, NEW t \in Threads, NEW q \in Points \ {"waiting"}, pc[t] # "waiting",
           Releases(t, q), \A u \in Threads \ {t} : arg'[u] = arg[u]
    PROVE  WaitStep
<1>1. PICK m \in Mutexes : Release(t, m, [pc EXCEPT ![t] = q])
  BY DEF Releases
<1>2. PICK W \in Signalled(m) : pc' = Notify(W, [pc EXCEPT ![t] = q])
  BY <1>1 DEF Release
<1>3. pc'[t] # "waiting"
  BY <1>2 DEF Notify, TypeInv, TypeOK
<1>4. ASSUME NEW u \in Threads \ {t}
      PROVE  pc'[u] = "waiting" <=> pc[u] = "waiting" /\ u \notin W
  BY <1>2 DEF Notify, TypeInv, TypeOK
<1>5. ASSUME NEW n \in Mutexes \ {m} PROVE Same(n)
  <2>1. W \cap Waiters(n) = {}
    BY <1>2, <1>5 DEF Signalled, Waiters
  <2>2. cond_waiting'[n] = cond_waiting[n]
    BY <1>1, <1>5 DEF Release, TypeInv, TypeOK
  <2>3. Waiters(n)' = Waiters(n)
    BY <1>3, <1>4, <2>1 DEF Waiters
  <2> QED BY <2>2, <2>3 DEF Same
<1>6. CASE cond_waiting[m] > 0
  <2>1. PICK w \in Waiters(m) : W = {w}
    BY <1>2, <1>6 DEF Signalled
  <2>2. cond_waiting'[m] = cond_waiting[m] - 1
    BY <1>1, <1>6 DEF Release, TypeInv, TypeOK
  <2>3. Waiters(m)' = Waiters(m) \ {w}
    BY <1>3, <1>4, <2>1 DEF Waiters
  <2> QED BY <1>5, <2>2, <2>3 DEF WaitStep, OneWoken
<1>7. CASE ~ (cond_waiting[m] > 0)
  <2>1. W = {}
    BY <1>2, <1>7 DEF Signalled
  <2>2. cond_waiting' = cond_waiting
    BY <1>1, <1>7 DEF Release
  <2>3. Waiters(m)' = Waiters(m)
    BY <1>3, <1>4, <2>1 DEF Waiters
  <2> QED BY <1>5, <2>2, <2>3 DEF WaitStep, Same
<1> QED BY <1>6, <1>7

LEMMA StartWait ==
    ASSUME TypeInv, NEW t \in Threads, pc[t] # "waiting", StartsWait(t)
    PROVE  WaitStep
<1>1. pc'[t] = "waiting" /\ \A u \in Threads \ {t} : pc'[u] = pc[u]
  BY DEF StartsWait, TypeInv, TypeOK
<1>2. ASSUME NEW m \in Mutexes, m = arg[t] PROVE OneMore(m)
  <2>1. t \notin Waiters(m) /\ Waiters(m)' = Waiters(m) \cup {t}
    BY <1>1, <1>2 DEF StartsWait, Waiters
  <2>2. cond_waiting'[m] = cond_waiting[m] + 1
    BY <1>2 DEF StartsWait, TypeInv, TypeOK
  <2> QED BY <2>1, <2>2 DEF OneMore
<1>3. ASSUME NEW m \in Mutexes, m # arg[t] PROVE Same(m)
  <2>1. Waiters(m)' = Waiters(m)
    BY <1>1, <1>3 DEF StartsWait, Waiters
  <2>2. cond_waiting'[m] = cond_waiting[m]
    BY <1>3 DEF StartsWait, TypeInv, TypeOK
  <2> QED BY <2>1, <2>2 DEF Same
<1> QED BY <1>2, <1>3 DEF WaitStep

LEMMA CreateWait ==
    ASSUME TypeInv, NEW t \in Threads, pc[t] # "waiting", Creates(t),
           \A u \in Threads \ {t} : arg'[u] = arg[u]
    PROVE  WaitStep
<1>1. PICK u \in Threads : pc[u] = "unborn" /\ pc' = [pc EXCEPT ![u] = "start"]
  BY DEF Creates
<1>2. \A w \in Threads : pc'[w] = "waiting" <=> pc[w] = "waiting"
  BY <1>1 DEF TypeInv, TypeOK
<1>3. \A m \in Mutexes : Same(m)
  BY <1>2 DEF Creates, Same, Waiters
<1> QED BY <1>3 DEF WaitStep

LEMMA StepWait ==
    ASSUME TypeInv, NEW t \in Threads, Step(t)
    PROVE  WaitStep
<1>1. PICK Q \in {Open, Special, Closing} : Kind(t, Q)
  BY StepKind
<1>2. Q \subseteq Points \ {"waiting"}
  BY <1>1 DEF Open, Closing, Special, Points, GVLPoints, SleepPoints
<1>3. \A u \in Threads \ {t} : arg'[u] = arg[u]
  BY StepMutex DEF MutexStep, Others, Other
<1>4. pc[t] # "waiting"
  BY <1>1 DEF Kind
<1>5. ASSUME NEW q \in Q, Goes(t, q) \/ Interrupts(t, q) \/ Releases(t, q)
      PROVE  WaitStep
  BY <1>2, <1>3, <1>4, <1>5, GoesWait, InterruptsWait, ReleasesWait
<1>6. CASE StartsWait(t)
  BY <1>4, <1>6, StartWait
<1>7. CASE Creates(t)
  BY <1>3, <1>4, <1>7, CreateWait
<1> QED BY <1>1, <1>5, <1>6, <1>7 DEF Kind

WaitingInv == TypeInv /\ WaitingCounted

LEMMA WaitingStep ==
    ASSUME WaitingInv, WaitStep, NEW m \in Mutexes
    PROVE  cond_waiting'[m] = Cardinality(Waiters(m)')
<1>1. IsFiniteSet(Waiters(m)) /\ Waiters(m) \subseteq Threads
  BY ThreadsAssumption, FS_Subset DEF Waiters
<1>2. cond_waiting[m] = Cardinality(Waiters(m))
  BY DEF WaitingInv, WaitingCounted
<1>3. CASE Same(m)
  BY <1>2, <1>3 DEF Same
<1>4. CASE Emptied(m)
  BY <1>4, FS_EmptySet DEF Emptied
<1>5. CASE OneWoken(m)
  BY <1>1, <1>2, <1>5, FS_RemoveElement DEF OneWoken
<1>6. CASE OneMore(m)
  BY <1>1, <1>2, <1>6, FS_AddElement DEF OneMore
<1> QED BY <1>3, <1>4, <1>5, <1>6 DEF WaitStep

LEMMA WaitingInit == Init => WaitingInv
<1> SUFFICES ASSUME Init PROVE WaitingInv
  OBVIOUS
<1>1. \A m \in Mutexes : Waiters(m) = {}
  BY DEF Init, Waiters
<1> QED BY <1>1, InitType, FS_EmptySet DEF Init, WaitingInv, WaitingCounted

LEMMA WaitingNext == WaitingInv /\ [Next]_vars => WaitingInv'
<1> SUFFICES ASSUME WaitingInv, [Next]_vars PROVE WaitingInv'
  OBVIOUS
<1>1. CASE UNCHANGED vars
  <2>1. TypeInv'
    BY <1>1 DEF vars, WaitingInv, TypeInv, TypeOK, ArgOK
  <2>2. \A m \in Mutexes : Waiters(m)' = Waiters(m)
    BY <1>1 DEF vars, Waiters
  <2> QED BY <1>1, <2>1, <2>2 DEF vars, WaitingInv, WaitingCounted
<1>2. ASSUME NEW t \in Threads, Step(t) PROVE WaitingInv'
  <2>1. WaitStep
    BY <1>2, StepWait DEF WaitingInv
  <2> QED BY <1>2, <2>1, StepType, WaitingStep DEF WaitingInv, WaitingCounted
<1> QED BY <1>1, <1>2 DEF Next, Terminated

\* mutex->cond_waiting is the number of threads in native_cond_wait, so that
\* mutex_unlock wakes somebody whenever somebody waits.
THEOREM WaitingCorrect == Spec => []WaitingCounted
<1>1. WaitingInv => WaitingCounted
  BY DEF WaitingInv
<1> QED BY <1>1, WaitingInit, WaitingNext, PTL DEF Spec

-----------------------------------------------------------------------------
(***************************************************************************)
(* Kills.  The main thread is never to be killed, and only the main thread *)
(* terminates the others.                                                  *)
(***************************************************************************)
KillSent(u) == u # Main /\ interrupt_flag[u] /\ thrown[u] = "kill"
KillSafe == \A u \in Threads : status[u] = "TO_KILL" => KillSent(u)
MainCloses == \A u \in Threads : pc[u] \in Closing => u = Main
KillInv == TypeInv /\ KillSafe /\ MainCloses

\* A step that neither kills a thread nor handles an interrupt.
LEMMA KillKept ==
    ASSUME KillInv,
           \A u \in Threads : status'[u] = "TO_KILL" =>
               /\ status[u] = "TO_KILL"
               /\ interrupt_flag[u] => interrupt_flag'[u]
               /\ thrown'[u] = thrown[u]
    PROVE  KillSafe'
BY DEF KillInv, KillSafe, KillSent

LEMMA FlagsKept ==
    ASSUME NEW S \in SUBSET Threads, NEW p, Interrupt(S, p), NEW u \in Threads,
           interrupt_flag[u]
    PROVE  interrupt_flag'[u]
BY DEF Interrupt, Flagged

\* A thread that throws what it was sent is RUNNABLE.
LEMMA ThrowKill ==
    ASSUME KillInv, NEW t \in Threads, Throw(t)
    PROVE  KillSafe'
BY DEF Throw, KillInv, KillSafe, KillSent, TypeInv, TypeOK

\* A thread that has no exception coming may clear its flag.
LEMMA ClearKill ==
    ASSUME KillInv, NEW t \in Threads, ~ Raised(t), ClearInterrupt(t),
           UNCHANGED thrown, \A u \in Threads \ {t} : status'[u] = status[u],
           status'[t] = "TO_KILL" => status[t] = "TO_KILL"
    PROVE  KillSafe'
<1>1. status[t] # "TO_KILL"
  BY DEF KillInv, KillSafe, KillSent, Raised, NoException
<1>2. \A u \in Threads \ {t} : interrupt_flag'[u] = interrupt_flag[u]
  BY DEF ClearInterrupt, KillInv, TypeInv, TypeOK
<1> QED BY <1>1, <1>2 DEF KillInv, KillSafe, KillSent

LEMMA OperationKill ==
    ASSUME KillInv, NEW t \in Threads, Operation(t)
    PROVE  KillSafe'
<1>0. status \in [Threads -> Statuses] /\ thrown \in [Threads -> Exceptions \cup {NoException}]
  BY DEF KillInv, TypeInv, TypeOK
<1>1. ASSUME NEW m \in Mutexes, NEW c, Lock(t, m) \/ TryLock(t, m) \/ Unlock(t, m)
                 \/ MutexSleep(t, m, c) \/ Sleep(t, c)
      PROVE  KillSafe'
  <2>1. UNCHANGED signalVars
    BY <1>1 DEF Lock, TryLock, Unlock, MutexSleep, Sleep
  <2>2. \A u \in Threads : status'[u] = "TO_KILL" => status[u] = "TO_KILL"
    BY <1>0, <1>1 DEF Lock, TryLock, Unlock, MutexSleep, Sleep, FallAsleep, SleepStatus
  <2> QED BY <2>1, <2>2, KillKept
<1>2. ASSUME NEW c, Sleep(t, c) PROVE KillSafe'
  <2>1. UNCHANGED signalVars
    BY <1>2 DEF Sleep
  <2>2. \A u \in Threads : status'[u] = "TO_KILL" => status[u] = "TO_KILL"
    BY <1>0, <1>2 DEF Sleep, FallAsleep, SleepStatus
  <2> QED BY <2>1, <2>2, KillKept
<1>3. ASSUME NEW u \in Threads, NEW c, Join(t, u, c) PROVE KillSafe'
  <2>1. UNCHANGED signalVars
    BY <1>3 DEF Join
  <2>2. \A v \in Threads : status'[v] = "TO_KILL" => status[v] = "TO_KILL"
    BY <1>0, <1>3 DEF Join, FallAsleep, SleepStatus
  <2> QED BY <2>1, <2>2, KillKept
<1>4. ASSUME NEW u \in Threads, Wakeup(t, u) PROVE KillSafe'
  <2>1. UNCHANGED thrown /\ (UNCHANGED interrupt_flag \/ Interrupt({u}, pc))
    BY <1>4 DEF Wakeup
  <2>2. \A v \in Threads : interrupt_flag[v] => interrupt_flag'[v]
    BY <2>1, FlagsKept
  <2>3. \A v \in Threads : status'[v] = "TO_KILL" => status[v] = "TO_KILL"
    BY <1>0, <1>4 DEF Wakeup
  <2> QED BY <2>1, <2>2, <2>3, KillKept
<1>5. ASSUME NEW u \in Threads, Kill(t, u) PROVE KillSafe'
  <2>1. CASE UNCHANGED <<status, signalVars>>
    BY <2>1, KillKept
  <2>2. CASE /\ Interrupt({u}, pc)
             /\ thrown' = [thrown EXCEPT ![u] = "kill"]
             /\ status' = [status EXCEPT ![u] = "TO_KILL"]
    <3>1. \A v \in Threads : interrupt_flag'[v] <=> v = u \/ interrupt_flag[v]
      BY <2>2 DEF Interrupt, Flagged
    <3> QED BY <1>0, <1>5, <2>2, <3>1 DEF Kill, KillInv, KillSafe, KillSent
  <2> QED BY <1>5, <2>1, <2>2 DEF Kill
<1>6. ASSUME NEW u \in Threads, Raise(t, u) PROVE KillSafe'
  <2>1. CASE UNCHANGED signalVars
    BY <1>6, <2>1, KillKept DEF Raise
  <2>2. CASE /\ thrown[u] = NoException /\ Interrupt({u}, pc)
             /\ thrown' = [thrown EXCEPT ![u] = "error"]
    <3>1. \A v \in Threads : interrupt_flag[v] => interrupt_flag'[v]
      BY <2>2, FlagsKept
    <3>2. status[u] # "TO_KILL" /\ UNCHANGED status
      BY <1>6, <2>2 DEF Raise, KillInv, KillSafe, KillSent, NoException
    <3>3. \A v \in Threads \ {u} : thrown'[v] = thrown[v]
      BY <1>0, <2>2
    <3> QED BY <3>1, <3>2, <3>3, KillKept
  <2> QED BY <1>6, <2>1, <2>2 DEF Raise
<1>7. ASSUME NEW u \in Threads, Create(t, u) PROVE KillSafe'
  BY <1>7, KillKept DEF Create
<1>8. CASE Finish(t)
  BY <1>8, KillKept DEF Finish
<1>9. CASE RunInterrupts(t)
  <2>1. CASE Throw(t)
    BY <2>1, ThrowKill
  <2>2. CASE ~ Raised(t) /\ ClearInterrupt(t) /\ UNCHANGED <<status, thrown>>
    BY <2>2, ClearKill
  <2> QED BY <1>9, <2>1, <2>2 DEF RunInterrupts
<1>10. CASE CreateFails(t)
  BY <1>10, KillKept DEF CreateFails
<1> QED BY <1>1, <1>2, <1>3, <1>4, <1>5, <1>6, <1>7, <1>8, <1>9, <1>10 DEF Operation

LEMMA LockingKill ==
    ASSUME KillInv, NEW t \in Threads, Locking(t)
    PROVE  KillSafe'
<1>0. status \in [Threads -> Statuses]
  BY DEF KillInv, TypeInv, TypeOK
<1>1. CASE MutexLock(t) \/ LockFunc(t) \/ LockWoken(t) \/ LockBack(t)
  <2>1. UNCHANGED <<status, signalVars>>
    BY <1>1 DEF MutexLock, LockFunc, LockWoken, LockBack
  <2> QED BY <2>1, KillKept
<1>2. CASE LockAcquired(t)
  <2>1. \A u \in Threads : status'[u] = "TO_KILL" => status[u] = "TO_KILL"
    BY <1>0, <1>2 DEF LockAcquired, Restored
  <2> QED BY <1>2, <2>1, KillKept DEF LockAcquired
<1>3. CASE LockLoop(t) \/ LockExit(t)
  <2>1. CASE Throw(t)
    BY <2>1, ThrowKill
  <2>2. CASE ~ Throw(t)
    <3>1. ~ Raised(t) /\ ClearInterrupt(t) /\ UNCHANGED thrown
      BY <1>3, <2>2 DEF LockLoop, LockExit
    <3>2. /\ \A u \in Threads \ {t} : status'[u] = status[u]
          /\ status'[t] = "TO_KILL" => status[t] = "TO_KILL"
      BY <1>0, <1>3, <2>2 DEF LockLoop, LockExit, Restored
    <3> QED BY <3>1, <3>2, ClearKill
  <2> QED BY <2>1, <2>2
<1> QED BY <1>1, <1>2, <1>3 DEF Locking

LEMMA InSleepKill ==
    ASSUME KillInv, NEW t \in Threads, InSleep(t)
    PROVE  KillSafe'
<1>0. status \in [Threads -> Statuses]
  BY DEF KillInv, TypeInv, TypeOK
<1>1. CASE \/ NativeSleep(t) \/ TimeOut(t) \/ Awake(t) \/ SleptStop(t)
           \/ SleptMutex(t) \/ Joined(t)
  <2>1. UNCHANGED <<status, signalVars>>
    BY <1>1 DEF NativeSleep, TimeOut, Awake, SleptStop, SleptMutex, Joined
  <2> QED BY <2>1, KillKept
<1>2. CASE JoinAgain(t)
  <2>1. \A u \in Threads : status'[u] = "TO_KILL" => status[u] = "TO_KILL"
    BY <1>0, <1>2 DEF JoinAgain, FallAsleep, SleepStatus
  <2> QED BY <1>2, <2>1, KillKept DEF JoinAgain
<1>3. CASE SleepThrow(t)
  BY <1>3, ThrowKill DEF SleepThrow
<1>4. CASE SleepOn(t) \/ SleepDone(t)
  <2>1. ~ Raised(t) /\ ClearInterrupt(t) /\ UNCHANGED thrown
    BY <1>4 DEF SleepOn, SleepDone
  <2>2. /\ \A u \in Threads \ {t} : status'[u] = status[u]
        /\ status'[t] = "TO_KILL" => status[t] = "TO_KILL"
    BY <1>0, <1>4 DEF SleepOn, SleepDone, FallAsleep, SleepStatus
  <2> QED BY <2>1, <2>2, ClearKill
<1> QED BY <1>1, <1>2, <1>3, <1>4 DEF InSleep

LEMMA EndingKill ==
    ASSUME KillInv, NEW t \in Threads, Ending(t) \/ Unwind(t) \/ CheckDeadlock(t)
    PROVE  KillSafe'
<1>0. /\ status \in [Threads -> Statuses]
      /\ thrown \in [Threads -> Exceptions \cup {NoException}]
      /\ join_list \in [Threads -> SUBSET Threads]
      /\ living \in SUBSET Threads
  BY DEF KillInv, TypeInv, TypeOK
<1>1. CASE \/ Start(t) \/ MainEnd(t) \/ UnlockAll(t) \/ UnlockedAll(t)
           \/ TerminateDone(t) \/ Exit(t) \/ Unwind(t)
  <2>1. UNCHANGED <<status, signalVars>>
    BY <1>1 DEF Start, MainEnd, UnlockAll, UnlockedAll, TerminateDone, Exit, Unwind
  <2> QED BY <2>1, KillKept
<1>2. CASE ThreadEnd(t)
  <2>1. \A u \in Threads : interrupt_flag[u] => interrupt_flag'[u]
    BY <1>0, <1>2, FlagsKept DEF ThreadEnd
  <2>2. \A u \in Threads : status'[u] = "TO_KILL" => status[u] = "TO_KILL"
    BY <1>2 DEF ThreadEnd
  <2> QED BY <1>2, <2>1, <2>2, KillKept DEF ThreadEnd
<1>3. ASSUME NEW u \in Threads, Terminate(t, u) PROVE KillSafe'
  <2>1. u # Main
    BY <1>3 DEF Terminate, KillInv, MainCloses, Closing
  <2>2. \A v \in Threads : interrupt_flag'[v] <=> v = u \/ interrupt_flag[v]
    BY <1>3 DEF Terminate, Interrupt, Flagged
  <2> QED BY <1>0, <1>3, <2>1, <2>2 DEF Terminate, KillSent, KillInv, KillSafe
<1>4. CASE IgnoreInterrupt(t)
  <2>1. t = Main /\ status[t] # "TO_KILL"
    BY <1>4 DEF IgnoreInterrupt, KillInv, MainCloses, Closing, KillSafe, KillSent
  <2>2. \A u \in Threads \ {t} :
            interrupt_flag'[u] = interrupt_flag[u] /\ thrown'[u] = thrown[u]
    BY <1>0, <1>4 DEF IgnoreInterrupt, ClearInterrupt, KillInv, TypeInv, TypeOK
  <2> QED BY <1>4, <2>1, <2>2, KillKept DEF IgnoreInterrupt
<1>5. CASE CheckDeadlock(t)
  <2>1. CASE Deadlocked
    <3>1. PICK p : Interrupt({Main}, p)
      BY <1>5, <2>1 DEF CheckDeadlock
    <3>2. \A u \in Threads : interrupt_flag[u] => interrupt_flag'[u]
      BY <3>1, FlagsKept, MainAssumption
    <3>3. \A u \in Threads \ {Main} : thrown'[u] = thrown[u]
      BY <1>0, <1>5, <2>1 DEF CheckDeadlock
    <3>4. status[Main] # "TO_KILL"
      BY MainAssumption DEF KillInv, KillSafe, KillSent
    <3> QED BY <1>5, <3>2, <3>3, <3>4, KillKept DEF CheckDeadlock
  <2>2. CASE UNCHANGED signalVars
    BY <1>5, <2>2, KillKept DEF CheckDeadlock
  <2> QED BY <1>5, <2>1, <2>2 DEF CheckDeadlock
<1> QED BY <1>1, <1>2, <1>3, <1>4, <1>5 DEF Ending

\* A step goes to the Closing points only in the main thread.
LEMMA StepCloses ==
    ASSUME KillInv, NEW t \in Threads, Step(t)
    PROVE  MainCloses'
<1>1. pc \in [Threads -> Points] /\ TypeInv
  BY DEF KillInv, TypeInv, TypeOK
<1>2. \A u \in Threads \ {t} : pc'[u] \in Closing => pc[u] \in Closing
  BY <1>1, StepMutex DEF MutexStep, Others, Other, Closing
<1>3. CASE t = Main
  BY <1>2, <1>3 DEF KillInv, MainCloses
<1>4. CASE t # Main
  <2>1. PICK Q \in {Open, Special} : Kind(t, Q)
    BY <1>1, <1>4, StepKind DEF KillInv, MainCloses
  <2>8. Q \subseteq Points \ Closing
    BY <2>1 DEF Open, Special, Closing, Points, GVLPoints, SleepPoints
  <2>2. ASSUME NEW q \in Q, Goes(t, q) PROVE pc'[t] \notin Closing
    BY <1>1, <2>2, <2>8 DEF Goes
  <2>3. ASSUME NEW q \in Q, Interrupts(t, q) PROVE pc'[t] \notin Closing
    BY <1>1, <2>3, <2>8 DEF Interrupts, Interrupt, Awakened, Closing
  <2>4. ASSUME NEW q \in Q, Releases(t, q) PROVE pc'[t] \notin Closing
    <3>1. PICK m \in Mutexes, W \in SUBSET Threads : pc' = Notify(W, [pc EXCEPT ![t] = q])
      BY <2>4 DEF Releases, Release, Signalled, Waiters
    <3> QED BY <1>1, <2>8, <3>1 DEF Notify, Closing
  <2>5. ASSUME StartsWait(t) PROVE pc'[t] \notin Closing
    BY <1>1, <2>5 DEF StartsWait, Closing
  <2>6. ASSUME Creates(t) PROVE pc'[t] \notin Closing
    <3>1. PICK u \in Threads : pc' = [pc EXCEPT ![u] = "start"]
      BY <2>6 DEF Creates
    <3>2. pc'[t] \in {"start", pc[t]} /\ pc[t] \notin Closing
      BY <1>1, <1>4, <3>1 DEF KillInv, MainCloses
    <3> QED BY <3>2 DEF Closing
  <2>7. pc'[t] \notin Closing
    BY <2>1, <2>2, <2>3, <2>4, <2>5, <2>6 DEF Kind
  <2> QED BY <1>2, <2>7 DEF KillInv, MainCloses
<1> QED BY <1>3, <1>4

LEMMA KillInit == Init => KillInv
BY InitType DEF Init, KillInv, KillSafe, MainCloses, Closing

LEMMA KillNext == KillInv /\ [Next]_vars => KillInv'
<1> SUFFICES ASSUME KillInv, [Next]_vars PROVE KillInv'
  OBVIOUS
<1>1. CASE UNCHANGED vars
  <2>1. TypeInv'
    BY <1>1 DEF vars, KillInv, TypeInv, TypeOK, ArgOK
  <2> QED BY <1>1, <2>1 DEF vars, KillInv, KillSafe, KillSent, MainCloses
<1>2. ASSUME NEW t \in Threads, Step(t) PROVE KillInv'
  <2>1. KillSafe'
    BY <1>2, OperationKill, LockingKill, InSleepKill, EndingKill DEF Step
  <2> QED BY <1>2, <2>1, StepType, StepCloses DEF KillInv
<1> QED BY <1>1, <1>2 DEF Next, Terminated

\* A thread that is to be killed has its kill still to come: no status put
\* back by a sleep, a lock or an interrupt handler loses it.
THEOREM KillCorrect == Spec => []KillComing
<1>1. KillInv => KillComing
  BY DEF KillInv, KillSafe, KillSent, KillComing
<1> QED BY <1>1, KillInit, KillNext, PTL DEF Spec
=============================================================================
