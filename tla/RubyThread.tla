------------------------------ MODULE RubyThread ------------------------------
(***************************************************************************)
(* The Ruby threads of one process: what a program may do, the             *)
(* specification, and its properties.                                      *)
(***************************************************************************)
EXTENDS ThreadLife

CONSTANTS
    Program,    \* for each thread, the operations its program may perform
    Budget      \* for each thread, how many it performs at most

Operations == {"new", "lock", "try_lock", "unlock", "wakeup", "kill", "raise"}
              \cup SleepCalls

ASSUME ProgramAssumption == Program \in [Threads -> SUBSET Operations]
ASSUME BudgetAssumption == Budget \in [Threads -> Nat]

Init ==
    /\ gvl = NoThread
    /\ pc = [t \in Threads |-> IF t = Main THEN "run" ELSE "unborn"]
    /\ call = [t \in Threads |-> "none"]
    /\ arg = [t \in Threads |-> NoArg]
    /\ pending = [t \in Threads |-> NoException]
    /\ status = [t \in Threads |-> "RUNNABLE"]
    /\ interrupt_flag = [t \in Threads |-> FALSE]
    /\ thrown = [t \in Threads |-> NoException]
    /\ join_list = [t \in Threads |-> {}]
    /\ keeping = [t \in Threads |-> {}]
    /\ owner = [m \in Mutexes |-> NoThread]
    /\ cond_waiting = [m \in Mutexes |-> 0]
    /\ cond_notified = [m \in Mutexes |-> 0]
    /\ terminated = {}
    /\ living = {Main}
    /\ sleeper = 0
    /\ ops = Budget

Operation(t) ==
    \/ \E m \in Mutexes :
          \/ "lock" \in Program[t] /\ Lock(t, m)
          \/ "try_lock" \in Program[t] /\ TryLock(t, m)
          \/ "unlock" \in Program[t] /\ Unlock(t, m)
          \/ \E c \in Program[t] : MutexSleep(t, m, c)
    \/ \E c \in Program[t] : Sleep(t, c)
    \/ \E u \in Threads :
          \/ "wakeup" \in Program[t] /\ Wakeup(t, u)
          \/ "kill" \in Program[t] /\ Kill(t, u)
          \/ "raise" \in Program[t] /\ Raise(t, u)
          \/ \E c \in Program[t] : Join(t, u, c)
          \/ "new" \in Program[t] /\ Create(t, u)
    \/ "new" \in Program[t] /\ CreateFails(t)
    \/ Finish(t)
    \/ RunInterrupts(t)

Locking(t) ==
    \/ MutexLock(t) \/ LockLoop(t) \/ LockFunc(t) \/ LockWoken(t)
    \/ LockAcquired(t) \/ LockBack(t) \/ LockExit(t)

InSleep(t) ==
    \/ NativeSleep(t) \/ TimeOut(t) \/ Awake(t)
    \/ SleepThrow(t) \/ SleepOn(t) \/ SleepDone(t)
    \/ SleptStop(t) \/ SleptMutex(t) \/ Joined(t) \/ JoinAgain(t)

Ending(t) ==
    \/ Start(t)
    \/ ThreadEnd(t) \/ MainEnd(t) \/ UnlockAll(t) \/ UnlockedAll(t)
    \/ \E u \in Threads : Terminate(t, u)
    \/ TerminateDone(t) \/ IgnoreInterrupt(t) \/ Exit(t)

Step(t) ==
    Operation(t) \/ Locking(t) \/ InSleep(t) \/ Ending(t)
    \/ Unwind(t) \/ CheckDeadlock(t)

\* The process is over when its main thread is.
Terminated == pc[Main] = "dead" /\ UNCHANGED vars

Next == (\E t \in Threads : Step(t)) \/ Terminated

Spec == Init /\ [][Next]_vars

(***************************************************************************)
(* Fairness: the GVL is a pthread mutex that every thread which goes on    *)
(* asking for gets in the end (the timer makes the others give it up and   *)
(* rb_thread_schedule yields), a thread that can run goes on with its      *)
(* program, and a timed wait times out.                                    *)
(***************************************************************************)
FairSpec == Spec /\ \A t \in Threads : SF_vars(Step(t))

-----------------------------------------------------------------------------
\* class Mutex keeps what AbstractMutex promises, for all its owners do and
\* suffer: waits, interrupts, kills, Mutex#sleep, the end of a thread.
Abstract == INSTANCE AbstractMutex
    WITH holder <- owner, gone <- {t \in Threads : pc[t] = "dead"}
ImplementsMutex == Abstract!Spec

\* vm->sleeper counts the threads between its increment and its decrement,
\* whichever way they left, and only living ones: rb_check_deadlock's rb_bug
\* "sleeper must not be more than vm_living_thread_num" is never reached.
SleeperExact ==
    /\ sleeper = Cardinality({t \in Threads : Sleeping(t)})
    /\ {t \in Threads : Sleeping(t)} \subseteq living

\* A thread keeps exactly the mutexes it owns, but for the one lock_func has
\* just taken without the GVL and rb_mutex_lock has not enlisted yet.  So the
\* rb_bug "invalid keeping_mutexes" is never reached, and unlocking always
\* finds the mutex in the list.
KeepingOwned ==
    \A t \in Threads, m \in Mutexes :
        owner[m] = t <=> \/ m \in keeping[t]
                         \/ pc[t] = "acquired" /\ arg[t] = m

\* mutex->cond_waiting is the number of threads in native_cond_wait: with a
\* smaller one mutex_unlock would wake nobody.
WaitingCounted ==
    \A m \in Mutexes : cond_waiting[m] = Cardinality(Waiters(m))

\* A thread about to die by Thread#kill has the kill still coming, so that no
\* status put back can lose it.
KillComing ==
    \A t \in Threads : status[t] = "TO_KILL" =>
        interrupt_flag[t] /\ thrown[t] = "kill"

\* Nobody waits for a mutex that is free, unless a thread is on its way to
\* take it or to find it taken.
FreeMutexIsTaken ==
    \A m \in Mutexes :
        owner[m] = NoThread /\ Waiters(m) # {} =>
            \E t \in Threads : arg[t] = m /\ pc[t] \in {"lock", "lock_last", "notified"}

-----------------------------------------------------------------------------
\* A thread that only another thread can get going again.
Blocked(u) ==
    \/ /\ pc[u] \in {"sleep_check", "sleep", "asleep"}
       /\ call[u] \in Deadlockable
       /\ ~ interrupt_flag[u]
    \/ pc[u] = "waiting"
    \/ pc[u] \in {"notified", "lock_check"} /\ owner[arg[u]] # NoThread

\* The main thread is sent "deadlock detected" only when no living thread can
\* get going again by itself.
DeadlockIsReal ==
    [][thrown[Main] # "fatal" /\ thrown'[Main] = "fatal"
          => \A u \in living : Blocked(u)]_vars

\* When all living threads sleep for good, the main thread has been told.
DeadlockIsDetected ==
    gvl = NoThread => \E u \in living :
        /\ pc[u] # "waiting"
        /\ ~ (pc[u] = "asleep" /\ call[u] \in Deadlockable)

\* Thread#join returns once its target is dead.
JoinReturns ==
    \A t \in Threads :
        (call[t] = "join" /\ status[arg[t]] = "KILLED") ~> call[t] # "join"

\* A killed thread dies.
KilledDies ==
    \A t \in Threads : status[t] = "TO_KILL" ~> pc[t] = "dead"

\* The process ends once its main thread has.
MainExits == pc[Main] = "exit" ~> pc[Main] = "dead"

\* A thread that asks for a mutex gets it.
LockGranted ==
    \A t \in Threads : call[t] = "lock" ~> call[t] # "lock"
=============================================================================
