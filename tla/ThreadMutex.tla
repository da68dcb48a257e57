----------------------------- MODULE ThreadMutex -----------------------------
(***************************************************************************)
(* class Mutex (src/lib/ruby/thread.c, rb_mutex_* and lock_func): a lock   *)
(* word guarded by mutex->lock, a condition variable for those that wait,  *)
(* and two counters that rb_check_deadlock reads.                          *)
(***************************************************************************)
EXTENDS RubyVM

\* rb_mutex_trylock's success: take the lock word and enlist the mutex.
Take(t, m) ==
    /\ owner' = [owner EXCEPT ![m] = t]
    /\ keeping' = [keeping EXCEPT ![t] = @ \cup {m}]

\* Mutants: nobody is woken; the last waiter is not woken.
SignalledNobody(m) == {{}}
SignalledNotLast(m) ==
    IF cond_waiting[m] > 1 THEN {{w} : w \in Waiters(m)} ELSE {{}}

\* The waiter native_cond_signal wakes, as a set; empty if none is counted.
Signalled(m) ==
    IF cond_waiting[m] > 0 THEN {{w} : w \in Waiters(m)} ELSE {{}}

Notify(W, p) == [u \in Threads |-> IF u \in W THEN "notified" ELSE p[u]]

\* Mutant: cond_waiting is decremented whether or not somebody waits.
ReleaseAlwaysCounts(t, m, p) ==
    /\ \E W \in Signalled(m) : pc' = Notify(W, p)
    /\ owner' = [owner EXCEPT ![m] = NoThread]
    /\ keeping' = [keeping EXCEPT ![t] = @ \ {m}]
    /\ cond_waiting' = [cond_waiting EXCEPT ![m] = @ - 1]
    /\ cond_notified' = [cond_notified EXCEPT ![m] = @ + 1]

\* mutex_unlock by its owner; p is pc as the caller leaves it.
Release(t, m, p) ==
    /\ \E W \in Signalled(m) : pc' = Notify(W, p)
    /\ owner' = [owner EXCEPT ![m] = NoThread]
    /\ keeping' = [keeping EXCEPT ![t] = @ \ {m}]
    /\ IF cond_waiting[m] > 0
       THEN /\ cond_waiting' = [cond_waiting EXCEPT ![m] = @ - 1]
            /\ cond_notified' = [cond_notified EXCEPT ![m] = @ + 1]
       ELSE UNCHANGED condVars

\* Return from a blocking call: go on, or go on unwinding.  A kill runs to
\* the end of the thread; any other exception may be rescued.
Outcomes(e) == CASE e = NoException -> {"run"}
                 [] e = "kill" -> {"end"}
                 [] OTHER -> {"run", "end"}

Return(t) ==
    /\ \E p \in Outcomes(pending[t]) :
          /\ pc' = [pc EXCEPT ![t] = p]
          /\ GoOn(t, p = "run" /\ interrupt_flag[t])
    /\ call' = [call EXCEPT ![t] = "none"]
    /\ arg' = [arg EXCEPT ![t] = NoArg]
    /\ pending' = [pending EXCEPT ![t] = NoException]

-----------------------------------------------------------------------------
\* Mutex#lock: enter rb_mutex_lock.
Lock(t, m) ==
    /\ Ready(t)
    /\ Spend(t)
    /\ call' = [call EXCEPT ![t] = "lock"]
    /\ arg' = [arg EXCEPT ![t] = m]
    /\ pc' = [pc EXCEPT ![t] = "mutex_lock"]
    /\ gvl' = t
    /\ UNCHANGED <<pending, status, signalVars, listVars, mutexVars, condVars,
                   living, sleeper>>

\* Mutex#try_lock.
TryLock(t, m) ==
    /\ Ready(t)
    /\ Spend(t)
    /\ IF owner[m] = NoThread THEN Take(t, m) ELSE UNCHANGED mutexVars
    /\ UNCHANGED <<gvl, pc, threadVars, status, signalVars, listVars, condVars,
                   living, sleeper>>

\* Mutex#unlock; a thread that is not the owner gets a ThreadError.
Unlock(t, m) ==
    /\ Ready(t)
    /\ Spend(t)
    /\ IF owner[m] = t
       THEN Release(t, m, pc) /\ UNCHANGED <<gvl, pending>>
       ELSE Fail(t) /\ UNCHANGED <<mutexVars, condVars>>
    /\ UNCHANGED <<call, arg, status, signalVars, listVars, living, sleeper>>

\* The head of rb_mutex_lock: trylock, the recursion check, or into the loop.
MutexLock(t) ==
    LET m == arg[t] IN
    /\ pc[t] = "mutex_lock"
    /\ \/ owner[m] = NoThread /\ Take(t, m) /\ Return(t)
       \/ owner[m] = t /\ Fail(t) /\ UNCHANGED <<mutexVars, call, arg>>
       \/ /\ owner[m] \notin {NoThread, t}
          /\ pc' = [pc EXCEPT ![t] = "lock_loop"]
          /\ GoOn(t, interrupt_flag[t])
          /\ UNCHANGED <<mutexVars, threadVars>>
    /\ UNCHANGED <<status, signalVars, listVars, condVars, living, sleeper, ops>>

\* Mutant: looked at before the thread counts itself.
LastAwakeEarly == Cardinality(living) = sleeper

\* Every other living thread sleeps for good.
LastAwake == Cardinality(living) = sleeper + 1

(***************************************************************************)
(* One turn of rb_mutex_lock's loop up to the release of the GVL.          *)
(* set_unblock_function first handles every pending interrupt.             *)
(***************************************************************************)
LockLoop(t) ==
    /\ pc[t] = "lock_loop" /\ gvl \in {NoThread, t}
    /\ IF Raised(t)
       THEN Throw(t) /\ UNCHANGED sleeper
       ELSE /\ ClearInterrupt(t)
            /\ status' = [status EXCEPT ![t] = "STOPPED_FOREVER"]
            /\ sleeper' = sleeper + 1
            /\ pc' = [pc EXCEPT ![t] = IF LastAwake THEN "lock_last" ELSE "lock"]
            /\ gvl' = NoThread
            /\ UNCHANGED <<threadVars, thrown, listVars, mutexVars,
                           condVars, living, ops>>

\* lock_func's loop test, under mutex->lock and without the GVL: take the lock
\* word, give up if every other thread sleeps, or wait.
LockTest(t, m) ==
    IF owner[m] = NoThread
    THEN /\ owner' = [owner EXCEPT ![m] = t]
         /\ pc' = [pc EXCEPT ![t] = "acquired"]
         /\ UNCHANGED cond_waiting
    ELSE /\ IF pc[t] = "lock_last"
            THEN pc' = [pc EXCEPT ![t] = "refused"] /\ UNCHANGED cond_waiting
            ELSE /\ pc' = [pc EXCEPT ![t] = "waiting"]
                 /\ cond_waiting' = [cond_waiting EXCEPT ![m] = @ + 1]
         /\ UNCHANGED owner

LockFunc(t) ==
    /\ pc[t] \in {"lock", "lock_last"}
    /\ LockTest(t, arg[t])
    /\ UNCHANGED <<gvl, threadVars, status, signalVars, listVars, keeping,
                   cond_notified, living, sleeper, ops>>

\* native_cond_wait returns: an interrupted thread leaves without the lock.
LockWoken(t) ==
    /\ pc[t] = "notified"
    /\ cond_notified' = [cond_notified EXCEPT ![arg[t]] = @ - 1]
    /\ \/ /\ interrupt_flag[t]
          /\ pc' = [pc EXCEPT ![t] = "interrupted"]
          /\ UNCHANGED <<owner, cond_waiting>>
       \/ ~ interrupt_flag[t] /\ LockTest(t, arg[t])
    /\ UNCHANGED <<gvl, threadVars, status, signalVars, listVars, keeping,
                   living, sleeper, ops>>

\* th->status is put back unless somebody has changed it meanwhile.
Restored(t) == [status EXCEPT ![t] = IF @ = "STOPPED_FOREVER" THEN "RUNNABLE" ELSE @]

\* Mutant: the mutex is not enlisted.
LockAcquiredUnlisted(t) ==
    /\ pc[t] = "acquired" /\ gvl = NoThread
    /\ status' = Restored(t)
    /\ sleeper' = sleeper - 1
    /\ Return(t)
    /\ UNCHANGED <<signalVars, listVars, mutexVars, condVars, living, ops>>

\* Back in rb_mutex_lock with the lock: enlist the mutex and return.
LockAcquired(t) ==
    /\ pc[t] = "acquired" /\ gvl = NoThread
    /\ status' = Restored(t)
    /\ sleeper' = sleeper - 1
    /\ keeping' = [keeping EXCEPT ![t] = @ \cup {arg[t]}]
    /\ Return(t)
    /\ UNCHANGED <<signalVars, listVars, owner, condVars, living, ops>>

\* Back in rb_mutex_lock without it; the last thread looks for a deadlock.
LockBack(t) ==
    /\ pc[t] \in {"interrupted", "refused"} /\ gvl = NoThread
    /\ gvl' = t
    /\ pc' = [pc EXCEPT ![t] = IF pc[t] = "refused" /\ owner[arg[t]] # NoThread
                               THEN "lock_check" ELSE "lock_exit"]
    /\ UNCHANGED <<threadVars, status, signalVars, listVars, mutexVars,
                   condVars, living, sleeper, ops>>

\* Mutant: the interrupts are checked before the thread is uncounted.
LockExitThrowsFirst(t) ==
    /\ pc[t] = "lock_exit"
    /\ IF Raised(t)
       THEN Throw(t) /\ UNCHANGED sleeper
       ELSE /\ ClearInterrupt(t)
            /\ sleeper' = sleeper - 1
            /\ status' = Restored(t)
            /\ pc' = [pc EXCEPT ![t] = "lock_loop"]
            /\ gvl' = NoThread
            /\ UNCHANGED <<threadVars, thrown, listVars, mutexVars, condVars,
                           living, ops>>

\* The rest of that turn: uncount the thread, handle interrupts, loop.
LockExit(t) ==
    /\ pc[t] = "lock_exit"
    /\ sleeper' = sleeper - 1
    /\ IF Raised(t)
       THEN Throw(t)
       ELSE /\ ClearInterrupt(t)
            /\ status' = Restored(t)
            /\ pc' = [pc EXCEPT ![t] = "lock_loop"]
            /\ gvl' = NoThread
            /\ UNCHANGED <<threadVars, thrown, listVars, mutexVars, condVars,
                           living, ops>>
=============================================================================
