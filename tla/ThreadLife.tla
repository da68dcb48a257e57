------------------------------ MODULE ThreadLife ------------------------------
(***************************************************************************)
(* The life of a Ruby thread (src/lib/ruby/thread.c): creation, the        *)
(* interrupts threads send to each other, the end of a thread, the exit of *)
(* the main thread, and the deadlock check.                                *)
(***************************************************************************)
EXTENDS ThreadSleep

\* Thread.new: insert into living_threads and start the native thread.
Create(t, u) ==
    /\ Running(t)
    /\ pc[u] = "unborn"
    /\ pc' = [pc EXCEPT ![u] = "start"]
    /\ living' = living \cup {u}
    /\ UNCHANGED <<gvl, threadVars, status, signalVars, listVars, mutexVars,
                   condVars, sleeper, ops>>

\* pthread_create fails: the thread is out of living_threads again before the
\* GVL is given away, and the caller gets a ThreadError.
CreateFails(t) ==
    /\ Ready(t)
    /\ Spend(t)
    /\ Fail(t)
    /\ UNCHANGED <<call, arg, status, signalVars, listVars, mutexVars, condVars,
                   living, sleeper>>

\* thread_start_func_2 gets the GVL and runs the block, no interrupt checked.
Start(t) ==
    /\ pc[t] = "start" /\ gvl = NoThread
    /\ pc' = [pc EXCEPT ![t] = "run"]
    /\ GoOn(t, interrupt_flag[t])
    /\ UNCHANGED <<threadVars, status, signalVars, listVars, mutexVars,
                   condVars, living, sleeper, ops>>

\* Thread#wakeup, and Thread#run up to its rb_thread_schedule.
Wakeup(t, u) ==
    /\ Ready(t)
    /\ Spend(t)
    /\ pc[u] # "unborn"
    /\ IF status[u] = "KILLED"
       THEN Fail(t) /\ UNCHANGED <<status, interrupt_flag, condVars>>
       ELSE /\ Interrupt({u}, pc)
            /\ status' = [status EXCEPT ![u] =
                              IF @ = "TO_KILL" THEN @ ELSE "RUNNABLE"]
            /\ GoOn(t, interrupt_flag[t] \/ u = t)
            /\ UNCHANGED pending
    /\ UNCHANGED <<call, arg, thrown, listVars, mutexVars, living, sleeper>>

\* Thread#kill of a thread other than the main one.
Kill(t, u) ==
    /\ Ready(t)
    /\ Spend(t)
    /\ pc[u] # "unborn" /\ u # Main
    /\ IF status[u] \in {"TO_KILL", "KILLED"}
       THEN UNCHANGED <<gvl, pc, status, signalVars, condVars>>
       ELSE /\ Interrupt({u}, pc)
            /\ GoOn(t, interrupt_flag[t] \/ u = t)
            /\ thrown' = [thrown EXCEPT ![u] = "kill"]
            /\ status' = [status EXCEPT ![u] = "TO_KILL"]
    /\ UNCHANGED <<threadVars, listVars, mutexVars, living, sleeper>>

\* Thread#raise.  While the target has another exception coming the caller
\* reschedules and tries again.
Raise(t, u) ==
    /\ Ready(t)
    /\ Spend(t)
    /\ pc[u] # "unborn"
    /\ IF status[u] = "KILLED"
       THEN UNCHANGED <<gvl, pc, signalVars, condVars>>
       ELSE /\ thrown[u] = NoException
            /\ Interrupt({u}, pc)
            /\ GoOn(t, interrupt_flag[t] \/ u = t)
            /\ thrown' = [thrown EXCEPT ![u] = "error"]
    /\ UNCHANGED <<threadVars, status, listVars, mutexVars, living, sleeper>>

\* RUBY_VM_CHECK_INTS in the thread's own code.
RunInterrupts(t) ==
    /\ pc[t] = "run" /\ gvl \in {NoThread, t}
    /\ interrupt_flag[t]
    /\ IF Raised(t)
       THEN Throw(t)
       ELSE /\ ClearInterrupt(t)
            /\ gvl' = NoThread
            /\ UNCHANGED <<pc, threadVars, status, thrown, listVars,
                           mutexVars, condVars, living, ops>>
    /\ UNCHANGED sleeper

\* The thread's block returns; the leave instruction checks the interrupts.
Finish(t) ==
    /\ Running(t) /\ ~ interrupt_flag[t]
    /\ pc' = [pc EXCEPT ![t] = "end"]
    /\ UNCHANGED <<gvl, threadVars, status, signalVars, listVars, mutexVars,
                   condVars, living, sleeper, ops>>

-----------------------------------------------------------------------------
\* Mutants: the joining threads are interrupted but stay stopped; the thread
\* stays in living_threads.
ThreadEndStopped(t) ==
    /\ pc[t] = "end" /\ gvl = NoThread /\ t # Main
    /\ gvl' = t
    /\ Interrupt(join_list[t], [pc EXCEPT ![t] = "cleanup"])
    /\ status' = [status EXCEPT ![t] = "KILLED"]
    /\ living' = living \ {t}
    /\ UNCHANGED <<threadVars, thrown, listVars, mutexVars, sleeper, ops>>

ThreadEndLives(t) ==
    /\ pc[t] = "end" /\ gvl = NoThread /\ t # Main
    /\ gvl' = t
    /\ Interrupt(join_list[t], [pc EXCEPT ![t] = "cleanup"])
    /\ status' = [u \in Threads |->
           IF u = t THEN "KILLED"
           ELSE IF u \in join_list[t] /\ Stopped(status[u]) THEN "RUNNABLE"
           ELSE status[u]]
    /\ UNCHANGED <<threadVars, thrown, listVars, mutexVars, living, sleeper, ops>>

\* thread_start_func_2 after the block: leave living_threads and wake the
\* threads that joined this one.
ThreadEnd(t) ==
    /\ pc[t] = "end" /\ gvl = NoThread /\ t # Main
    /\ gvl' = t
    /\ Interrupt(join_list[t], [pc EXCEPT ![t] = "cleanup"])
    /\ status' = [u \in Threads |->
           IF u = t THEN "KILLED"
           ELSE IF u \in join_list[t] /\ Stopped(status[u]) THEN "RUNNABLE"
           ELSE status[u]]
    /\ living' = living \ {t}
    /\ UNCHANGED <<threadVars, thrown, listVars, mutexVars, sleeper, ops>>

\* The main thread ends: rb_thread_terminate_all.
MainEnd(t) ==
    /\ pc[t] = "end" /\ gvl = NoThread /\ t = Main
    /\ gvl' = t
    /\ pc' = [pc EXCEPT ![t] = "cleanup"]
    /\ UNCHANGED <<threadVars, status, signalVars, listVars, mutexVars,
                   condVars, living, sleeper, ops>>

\* rb_mutex_unlock_all, one mutex of the list after the other.
UnlockAll(t) ==
    /\ pc[t] = "cleanup"
    /\ \E m \in keeping[t] : Release(t, m, pc)
    /\ UNCHANGED <<gvl, threadVars, status, signalVars, listVars, living,
                   sleeper, ops>>

\* Mutant: a thread ends with mutexes it keeps.
UnlockedSome(t) ==
    /\ pc[t] = "cleanup"
    /\ pc' = [pc EXCEPT ![t] = IF t = Main THEN "terminate" ELSE "end_check"]
    /\ UNCHANGED <<gvl, threadVars, status, signalVars, listVars, mutexVars,
                   condVars, living, sleeper, ops>>

UnlockedAll(t) ==
    /\ pc[t] = "cleanup"
    /\ keeping[t] = {}
    /\ pc' = [pc EXCEPT ![t] = IF t = Main THEN "terminate" ELSE "end_check"]
    /\ UNCHANGED <<gvl, threadVars, status, signalVars, listVars, mutexVars,
                   condVars, living, sleeper, ops>>

\* terminate_i for one more living thread other than the caller: the lock_func
\* and the native_sleep of others run between two of these calls.
Terminate(t, u) ==
    /\ pc[t] = "terminate"
    /\ u \in living \ (terminated \cup {t})
    /\ Interrupt({u}, pc)
    /\ thrown' = [thrown EXCEPT ![u] = "kill"]
    /\ status' = [status EXCEPT ![u] = "TO_KILL"]
    /\ terminated' = terminated \cup {u}
    /\ UNCHANGED <<gvl, threadVars, join_list, mutexVars, living, sleeper, ops>>

\* All are visited: rb_thread_schedule gives the GVL away.
TerminateDone(t) ==
    /\ pc[t] = "terminate"
    /\ living \subseteq terminated \cup {t}
    /\ pc' = [pc EXCEPT ![t] = "exit"]
    /\ gvl' = NoThread
    /\ UNCHANGED <<threadVars, status, signalVars, listVars, mutexVars, condVars,
                   living, sleeper, ops>>

\* Its loop until rb_thread_alone, ignoring every exception.
IgnoreInterrupt(t) ==
    /\ pc[t] = "exit" /\ gvl = NoThread
    /\ interrupt_flag[t]
    /\ ClearInterrupt(t)
    /\ thrown' = [thrown EXCEPT ![t] = NoException]
    /\ UNCHANGED <<gvl, pc, threadVars, status, listVars, mutexVars, condVars,
                   living, sleeper, ops>>

Exit(t) ==
    /\ pc[t] = "exit" /\ gvl = NoThread
    /\ living = {t}
    /\ pc' = [pc EXCEPT ![t] = "dead"]
    /\ UNCHANGED <<gvl, threadVars, status, signalVars, listVars, mutexVars,
                   condVars, living, sleeper, ops>>

-----------------------------------------------------------------------------
\* Mutants: transition_for_lock, the interrupt, the pending notification are
\* not looked at.
MayRunNoTransition(u) ==
    \/ status[u] # "STOPPED_FOREVER"
    \/ interrupt_flag[u]
    \/ InLock(u) /\ owner[arg[u]] = NoThread /\ cond_notified[arg[u]] # 0
MayRunNoInterrupt(u) ==
    \/ status[u] # "STOPPED_FOREVER"
    \/ Transition(u)
    \/ InLock(u) /\ owner[arg[u]] = NoThread /\ cond_notified[arg[u]] # 0
MayRunNoNotified(u) ==
    \/ status[u] # "STOPPED_FOREVER"
    \/ interrupt_flag[u]
    \/ Transition(u)
    \/ InLock(u) /\ owner[arg[u]] = u

\* check_deadlock_i: a thread that speaks against a deadlock.
MayRun(u) ==
    \/ status[u] # "STOPPED_FOREVER"
    \/ interrupt_flag[u]
    \/ Transition(u)
    \/ /\ InLock(u)
       /\ \/ owner[arg[u]] = u
          \/ owner[arg[u]] = NoThread /\ cond_notified[arg[u]] # 0

\* The whole of rb_check_deadlock's condition.
Deadlocked ==
    /\ Cardinality(living) = sleeper
    /\ \A u \in living : ~ MayRun(u)

\* Where each caller of rb_check_deadlock goes on.
AfterCheck(p) == CASE p = "sleep_check" -> "sleep"
                   [] p = "lock_check" -> "lock_exit"
                   [] p = "end_check" -> "dead"

\* rb_check_deadlock.  rb_thread_raise returns at once if the main thread is
\* dead; it cannot have an exception coming, since its interrupt flag would be
\* set.
CheckDeadlock(t) ==
    /\ pc[t] \in {"sleep_check", "lock_check", "end_check"}
    /\ gvl' = IF pc[t] = "lock_check" THEN t ELSE NoThread
    /\ LET p == [pc EXCEPT ![t] = AfterCheck(@)] IN
       IF Deadlocked
       THEN /\ Interrupt({Main}, p)
            /\ thrown' = [thrown EXCEPT ![Main] = "fatal"]
       ELSE pc' = p /\ UNCHANGED <<signalVars, condVars>>
    /\ UNCHANGED <<threadVars, status, listVars, mutexVars, living, sleeper, ops>>
=============================================================================
