------------------------------- MODULE RubyVM -------------------------------
(***************************************************************************)
(* The shared state of the YARV thread layer (src/lib/ruby/thread.c and    *)
(* thread_pthread.c): rb_thread_t, mutex_t and the rb_vm_t fields of the   *)
(* scheduler, with the helpers the other modules build their actions from. *)
(*                                                                         *)
(* Granularity.  One action is one stretch of C code between two points    *)
(* where another native thread can run code that reads or writes the same  *)
(* state: a stretch that runs under the global VM lock (GVL), or one       *)
(* critical section of mutex->lock (lock_func) or of th->interrupt_lock    *)
(* (native_sleep), which run without it.  gvl is the thread in the middle  *)
(* of a longer GVL section.  Between two Ruby-level operations, and where  *)
(* RUBY_VM_CHECK_INTS runs, the timer may make a thread give the GVL away  *)
(* (rb_thread_schedule), so there gvl is NoThread; a thread that gets it   *)
(* back checks its interrupts first.  Only a thread that already had an    *)
(* interrupt when it got the GVL without such a check (it is new, it got a *)
(* mutex, it interrupted itself) runs on with the interrupt pending, and   *)
(* then keeps the GVL until it checks.                                     *)
(*                                                                         *)
(* Fields that the control point determines are operators of pc: the       *)
(* unblock function, locking_mutex and transition_for_lock.                *)
(***************************************************************************)
EXTENDS Naturals, Integers, FiniteSets

CONSTANTS
    Threads,    \* the Ruby threads a run may create
    Main,       \* vm->main_thread
    Mutexes,    \* the Mutex objects
    NoThread,   \* the null rb_thread_t pointer
    NoArg       \* the argument of a thread that is in no blocking call

ASSUME MainAssumption == Main \in Threads
ASSUME ThreadsAssumption == IsFiniteSet(Threads) /\ NoThread \notin Threads
ASSUME ArgAssumption == /\ NoArg \notin Threads \cup Mutexes
                        /\ Threads \cap Mutexes = {}

VARIABLES
    gvl,            \* the thread in the middle of a GVL section
    pc,             \* where each thread is
    call,           \* the blocking call each thread is in
    arg,            \* its receiver or argument: a mutex, or a thread to join
    pending,        \* the exception a thread is unwinding with
    status,         \* th->status
    interrupt_flag, \* bit 0x02 of th->interrupt_flag
    thrown,         \* th->thrown_errinfo
    join_list,      \* th->join_list_head, the threads linked from it
    keeping,        \* th->keeping_mutexes, the mutexes linked from it
    owner,          \* mutex->th
    cond_waiting,   \* mutex->cond_waiting
    cond_notified,  \* mutex->cond_notified
    terminated,     \* the threads rb_thread_terminate_all's st_foreach has visited
    living,         \* the keys of vm->living_threads
    sleeper,        \* vm->sleeper
    ops             \* how many more operations a thread's program performs

threadVars == <<call, arg, pending>>
mutexVars == <<owner, keeping>>
condVars == <<cond_waiting, cond_notified>>
signalVars == <<interrupt_flag, thrown>>
listVars == <<join_list, terminated>>
vars == <<gvl, pc, threadVars, status, signalVars, listVars, mutexVars,
          condVars, living, sleeper, ops>>

-----------------------------------------------------------------------------
Statuses == {"RUNNABLE", "TO_KILL", "STOPPED", "STOPPED_FOREVER", "KILLED"}
Exceptions == {"kill", "fatal", "error"}
NoException == "none"

\* The calls that sleep, by the deadlockable argument of sleep_forever and by
\* whether they go through sleep_timeval.
Deadlockable == {"stop", "join", "mutex_sleep"}
Timed == {"nap", "join_limit", "mutex_nap"}
SleepCalls == Deadlockable \cup Timed \cup {"sleep"}
JoinCalls == {"join", "join_limit"}
MutexSleepCalls == {"mutex_sleep", "mutex_nap"}
LockCalls == {"lock", "relock"}

\* Inside rb_mutex_lock's blocking region, that is while the unblock function
\* is lock_interrupt and th->locking_mutex is set.
LockPoints == {"lock", "lock_last", "waiting", "notified",
               "acquired", "interrupted", "refused"}
\* The part of it in which th->transition_for_lock is 1.
TransitionPoints == LockPoints \ {"waiting", "notified"}
\* From sleep_forever's or sleep_timeval's status change to its last loop test.
SleepPoints == {"sleep_check", "sleep", "asleep", "awake"}
\* The points a thread is at only while it holds the GVL.
GVLPoints == {"mutex_lock", "unwind", "lock_check", "lock_exit",
              "sleep_check", "slept", "cleanup", "end_check", "terminate"}
Points == LockPoints \cup SleepPoints \cup GVLPoints \cup
          {"unborn", "start", "run", "lock_loop", "check_ints",
           "end", "exit", "dead"}

InLock(t) == pc[t] \in LockPoints
Transition(t) == pc[t] \in TransitionPoints
\* A thread that vm->sleeper counts.
Sleeping(t) == \/ pc[t] \in LockPoints \cup {"lock_check", "lock_exit"}
               \/ pc[t] \in SleepPoints /\ call[t] \in Deadlockable
\* The threads inside native_cond_wait on mutex->cond, and those it has woken
\* that still have to take mutex->lock again.
Waiters(m) == {t \in Threads : pc[t] = "waiting" /\ arg[t] = m}
Notified(m) == {t \in Threads : pc[t] = "notified" /\ arg[t] = m}

Stopped(s) == s \in {"STOPPED", "STOPPED_FOREVER"}

-----------------------------------------------------------------------------
(***************************************************************************)
(* rb_thread_interrupt(th): set the flag and call th->unblock, under       *)
(* interrupt_lock.  S is the set of threads interrupted by one stretch of  *)
(* code; p is pc as that stretch leaves it.                                *)
(* ubf_pthread_cond_signal ends native_sleep's wait; lock_interrupt        *)
(* broadcasts on the mutex the thread waits for, if cond_waiting > 0.      *)
(*                                                                         *)
(* The flag and the call are one step.  The caller has the GVL, so only    *)
(* code that runs without it can come between.  native_sleep looks at the  *)
(* flag under interrupt_lock, never between the two.  lock_func looks at   *)
(* it under mutex->lock once native_cond_wait has returned: a waiter that  *)
(* was woken before the flag was set may return between the two, and is    *)
(* interrupted as it is here when it returns after them.  It has then left *)
(* cond_notified before lock_interrupt writes it, here after: a            *)
(* cond_notified greater by one is the only outcome left out.              *)
(***************************************************************************)
Broadcast(S) ==
    {m \in Mutexes : cond_waiting[m] > 0 /\ \E s \in S : InLock(s) /\ arg[s] = m}

Awakened(S, p) ==
    [u \in Threads |->
        IF u \in S /\ pc[u] = "asleep" THEN "awake"
        ELSE IF pc[u] = "waiting" /\ arg[u] \in Broadcast(S) THEN "notified"
        ELSE p[u]]

Flagged(S, f) == [u \in Threads |-> u \in S \/ f[u]]

\* Mutant: cond_waiting is not reset.
LockInterruptKeepsWaiting(S) ==
    /\ cond_notified' = [m \in Mutexes |->
           IF m \in Broadcast(S) THEN cond_waiting[m] ELSE cond_notified[m]]
    /\ UNCHANGED cond_waiting

LockInterrupt(S) ==
    /\ cond_notified' = [m \in Mutexes |->
           IF m \in Broadcast(S) THEN cond_waiting[m] ELSE cond_notified[m]]
    /\ cond_waiting' = [m \in Mutexes |->
           IF m \in Broadcast(S) THEN 0 ELSE cond_waiting[m]]

Interrupt(S, p) ==
    /\ interrupt_flag' = Flagged(S, interrupt_flag)
    /\ pc' = Awakened(S, p)
    /\ LockInterrupt(S)

-----------------------------------------------------------------------------
(***************************************************************************)
(* RUBY_VM_CHECK_INTS / rb_thread_execute_interrupts.  Raised: an          *)
(* exception from another thread is thrown here.  status is RUNNABLE while *)
(* the handlers run and stays so when one throws.  Otherwise the flag is   *)
(* cleared and status put back.                                            *)
(***************************************************************************)
Raised(t) == interrupt_flag[t] /\ thrown[t] # NoException

\* Mutant: status is put back although an exception is thrown.
ThrowKeepsStatus(t) ==
    /\ interrupt_flag' = [interrupt_flag EXCEPT ![t] = FALSE]
    /\ thrown' = [thrown EXCEPT ![t] = NoException]
    /\ pending' = [pending EXCEPT ![t] = thrown[t]]
    /\ pc' = [pc EXCEPT ![t] = "unwind"]
    /\ gvl' = t
    /\ UNCHANGED <<call, arg, status, listVars, mutexVars, condVars, living, ops>>

Throw(t) ==
    /\ interrupt_flag' = [interrupt_flag EXCEPT ![t] = FALSE]
    /\ thrown' = [thrown EXCEPT ![t] = NoException]
    /\ pending' = [pending EXCEPT ![t] = thrown[t]]
    /\ status' = [status EXCEPT ![t] = "RUNNABLE"]
    /\ pc' = [pc EXCEPT ![t] = "unwind"]
    /\ gvl' = t
    /\ UNCHANGED <<call, arg, listVars, mutexVars, condVars, living, ops>>

ClearInterrupt(t) ==
    interrupt_flag' = [interrupt_flag EXCEPT ![t] = FALSE]

\* rb_raise by the thread itself, in an operation that does not block.
Fail(t) ==
    /\ pending' = [pending EXCEPT ![t] = "error"]
    /\ pc' = [pc EXCEPT ![t] = "unwind"]
    /\ gvl' = t

-----------------------------------------------------------------------------
\* A thread that runs its program, and one about to perform an operation of it.
HasGVL(t) == gvl = t \/ (gvl = NoThread /\ ~ interrupt_flag[t])
Running(t) == pc[t] = "run" /\ HasGVL(t)
Ready(t) == Running(t) /\ ops[t] > 0

\* After an operation: with an interrupt pending (i) the thread keeps the GVL.
GoOn(t, i) == gvl' = IF i THEN t ELSE NoThread

Spend(t) == ops' = [ops EXCEPT ![t] = @ - 1]

TypeOK ==
    /\ gvl \in Threads \cup {NoThread}
    /\ pc \in [Threads -> Points]
    /\ call \in [Threads -> SleepCalls \cup LockCalls \cup {"none"}]
    /\ arg \in [Threads -> Threads \cup Mutexes \cup {NoArg}]
    /\ pending \in [Threads -> Exceptions \cup {NoException}]
    /\ status \in [Threads -> Statuses]
    /\ interrupt_flag \in [Threads -> BOOLEAN]
    /\ thrown \in [Threads -> Exceptions \cup {NoException}]
    /\ join_list \in [Threads -> SUBSET Threads]
    /\ keeping \in [Threads -> SUBSET Mutexes]
    /\ owner \in [Mutexes -> Threads \cup {NoThread}]
    /\ cond_waiting \in [Mutexes -> Nat]
    /\ cond_notified \in [Mutexes -> Int]
    /\ terminated \in SUBSET Threads
    /\ living \in SUBSET Threads
    /\ sleeper \in Int
    /\ ops \in [Threads -> Nat]
=============================================================================
