----------------------------- MODULE ThreadSleep -----------------------------
(***************************************************************************)
(* The calls that put a Ruby thread to sleep (src/lib/ruby/thread.c and    *)
(* native_sleep of thread_pthread.c): Thread.stop, Kernel#sleep with and   *)
(* without a time, Thread#join with and without a limit, Mutex#sleep, and  *)
(* how each of them returns or unwinds.                                    *)
(***************************************************************************)
EXTENDS ThreadMutex

\* The head of sleep_forever (a deadlockable one counts itself a sleeper and
\* runs rb_check_deadlock next) and of sleep_timeval.
SleepStatus(c) == IF c \in Deadlockable THEN "STOPPED_FOREVER" ELSE "STOPPED"
SleepPoint(c) == IF c \in Deadlockable THEN "sleep_check" ELSE "sleep"

\* Mutant: the sleep is not counted in vm->sleeper.
FallAsleepUncounted(t, c) ==
    /\ status' = [status EXCEPT ![t] = SleepStatus(c)]
    /\ UNCHANGED sleeper
    /\ gvl' = IF c \in Deadlockable THEN t ELSE NoThread

FallAsleep(t, c) ==
    /\ status' = [status EXCEPT ![t] = SleepStatus(c)]
    /\ sleeper' = IF c \in Deadlockable THEN sleeper + 1 ELSE sleeper
    /\ gvl' = IF c \in Deadlockable THEN t ELSE NoThread

EnterCall(t, c, a) ==
    /\ call' = [call EXCEPT ![t] = c]
    /\ arg' = [arg EXCEPT ![t] = a]

\* Thread.stop, Kernel#sleep, Kernel#sleep(n).  rb_thread_stop refuses to stop
\* the only thread (rb_thread_alone).
Sleep(t, c) ==
    /\ c \in {"stop", "sleep", "nap"}
    /\ Ready(t)
    /\ Spend(t)
    /\ IF c = "stop" /\ Cardinality(living) = 1
       THEN Fail(t) /\ UNCHANGED <<call, arg, status, sleeper>>
       ELSE /\ EnterCall(t, c, NoArg)
            /\ pc' = [pc EXCEPT ![t] = SleepPoint(c)]
            /\ FallAsleep(t, c)
            /\ UNCHANGED pending
    /\ UNCHANGED <<signalVars, listVars, mutexVars, condVars, living>>

\* Mutex#sleep: unlock, and sleep before the GVL can change hands.
MutexSleep(t, m, c) ==
    /\ c \in MutexSleepCalls
    /\ Ready(t)
    /\ Spend(t)
    /\ IF owner[m] # t
       THEN Fail(t) /\ UNCHANGED <<call, arg, status, sleeper, mutexVars, condVars>>
       ELSE /\ EnterCall(t, c, m)
            /\ Release(t, m, [pc EXCEPT ![t] = SleepPoint(c)])
            /\ FallAsleep(t, c)
            /\ UNCHANGED pending
    /\ UNCHANGED <<signalVars, listVars, living>>

\* Thread#join of a thread that is not dead: link into its join list and
\* sleep.  A join that returns at once may raise the exception the target died
\* of.
Join(t, u, c) ==
    /\ c \in JoinCalls
    /\ Ready(t)
    /\ Spend(t)
    /\ pc[u] # "unborn"
    /\ IF status[u] = "KILLED"
       THEN /\ \E p \in {"run", "end"} :
                  /\ pc' = [pc EXCEPT ![t] = p]
                  /\ GoOn(t, p = "run" /\ interrupt_flag[t])
            /\ UNCHANGED <<call, arg, status, sleeper, join_list>>
       ELSE /\ join_list' = [join_list EXCEPT ![u] = @ \cup {t}]
            /\ EnterCall(t, c, u)
            /\ pc' = [pc EXCEPT ![t] = SleepPoint(c)]
            /\ FallAsleep(t, c)
    /\ UNCHANGED <<pending, signalVars, terminated, mutexVars, condVars, living>>

-----------------------------------------------------------------------------
\* Mutant: an interrupt before the wait is not noticed.
NativeSleepBlind(t) ==
    /\ pc[t] = "sleep"
    /\ pc' = [pc EXCEPT ![t] = "asleep"]
    /\ UNCHANGED <<gvl, threadVars, status, signalVars, listVars, mutexVars,
                   condVars, living, sleeper, ops>>

\* native_sleep under th->interrupt_lock: wait unless already interrupted.
NativeSleep(t) ==
    /\ pc[t] = "sleep"
    /\ pc' = [pc EXCEPT ![t] = IF interrupt_flag[t] THEN "awake" ELSE "asleep"]
    /\ UNCHANGED <<gvl, threadVars, status, signalVars, listVars, mutexVars,
                   condVars, living, sleeper, ops>>

\* pthread_cond_timedwait times out.
TimeOut(t) ==
    /\ pc[t] = "asleep" /\ call[t] \in Timed
    /\ pc' = [pc EXCEPT ![t] = "awake"]
    /\ UNCHANGED <<gvl, threadVars, status, signalVars, listVars, mutexVars,
                   condVars, living, sleeper, ops>>

\* native_sleep has the GVL back: sleep_forever uncounts the thread.
Awake(t) ==
    /\ pc[t] = "awake" /\ gvl = NoThread
    /\ sleeper' = IF call[t] \in Deadlockable THEN sleeper - 1 ELSE sleeper
    /\ pc' = [pc EXCEPT ![t] = "check_ints"]
    /\ UNCHANGED <<gvl, threadVars, status, signalVars, listVars, mutexVars,
                   condVars, living, ops>>

\* The interrupt check after a sleep: an exception ends the call here.
SleepThrow(t) ==
    /\ pc[t] = "check_ints" /\ gvl = NoThread
    /\ Raised(t)
    /\ Throw(t)
    /\ UNCHANGED sleeper

\* The loop test fails: sleep on.  A timed sleep goes on while its time is not
\* up (the clock is not modelled, so it may) and nobody changed its status.
SleepOn(t) ==
    /\ pc[t] = "check_ints" /\ gvl = NoThread
    /\ ~ Raised(t)
    /\ ClearInterrupt(t)
    /\ \/ call[t] \in Deadlockable /\ status[t] = "STOPPED_FOREVER"
       \/ call[t] \in Timed /\ status[t] = "STOPPED"
    /\ pc' = [pc EXCEPT ![t] = SleepPoint(call[t])]
    /\ FallAsleep(t, call[t])
    /\ UNCHANGED <<threadVars, thrown, listVars, mutexVars, condVars, living, ops>>

\* The loop ends: sleep_forever waits for a changed status (and Kernel#sleep,
\* which is STOPPED, for any interrupt), sleep_timeval also for its time.
SleepDone(t) ==
    /\ pc[t] = "check_ints" /\ gvl = NoThread
    /\ ~ Raised(t)
    /\ ClearInterrupt(t)
    /\ call[t] \in Deadlockable => status[t] # "STOPPED_FOREVER"
    /\ status' = [status EXCEPT ![t] = "RUNNABLE"]
    /\ pc' = [pc EXCEPT ![t] = "slept"]
    /\ gvl' = t
    /\ UNCHANGED <<threadVars, thrown, listVars, mutexVars, condVars, living,
                   sleeper, ops>>

-----------------------------------------------------------------------------
\* rb_mutex_sleep's ensure clause: rb_mutex_lock again, also when unwinding.
Relock(t) ==
    /\ call' = [call EXCEPT ![t] = "relock"]
    /\ pc' = [pc EXCEPT ![t] = "mutex_lock"]
    /\ UNCHANGED <<gvl, arg, pending>>

\* remove_from_join_list, thread_join's ensure clause.
Unlink(t, u) ==
    join_list' = IF status[u] = "KILLED" THEN join_list
                 ELSE [join_list EXCEPT ![u] = @ \ {t}]

\* What each call does when its sleep ends.  Thread#join sleeps again unless
\* its target is dead; with a limit it may also give up.
SleptStop(t) ==
    /\ pc[t] = "slept" /\ call[t] \notin JoinCalls \cup MutexSleepCalls
    /\ Return(t)
    /\ UNCHANGED <<status, sleeper, signalVars, listVars, mutexVars, condVars,
                   living, ops>>

SleptMutex(t) ==
    /\ pc[t] = "slept" /\ call[t] \in MutexSleepCalls
    /\ Relock(t)
    /\ UNCHANGED <<status, sleeper, signalVars, listVars, mutexVars, condVars,
                   living, ops>>

Joined(t) ==
    /\ pc[t] = "slept" /\ call[t] \in JoinCalls
    /\ \/ status[arg[t]] = "KILLED"
       \/ call[t] = "join_limit"
    /\ \E p \in {"run"} \cup (IF status[arg[t]] = "KILLED" THEN {"end"} ELSE {}) :
           pc' = [pc EXCEPT ![t] = p]
    /\ gvl' = NoThread
    /\ Unlink(t, arg[t])
    /\ call' = [call EXCEPT ![t] = "none"]
    /\ arg' = [arg EXCEPT ![t] = NoArg]
    /\ UNCHANGED <<pending, status, sleeper, signalVars, terminated, mutexVars,
                   condVars, living, ops>>

JoinAgain(t) ==
    /\ pc[t] = "slept" /\ call[t] \in JoinCalls
    /\ status[arg[t]] # "KILLED"
    /\ pc' = [pc EXCEPT ![t] = SleepPoint(call[t])]
    /\ FallAsleep(t, call[t])
    /\ UNCHANGED <<threadVars, signalVars, listVars, mutexVars, condVars,
                   living, ops>>

\* An exception leaves the call t is in, through its ensure clause.
Unwind(t) ==
    /\ pc[t] = "unwind"
    /\ \/ call[t] \in MutexSleepCalls /\ Relock(t) /\ UNCHANGED join_list
       \/ call[t] \in JoinCalls /\ Return(t) /\ Unlink(t, arg[t])
       \/ /\ call[t] \notin MutexSleepCalls \cup JoinCalls
          /\ Return(t)
          /\ UNCHANGED join_list
    /\ UNCHANGED <<status, sleeper, signalVars, terminated, mutexVars, condVars,
                   living, ops>>
=============================================================================
