------------------------------ MODULE RubyMonitor ------------------------------
(***************************************************************************)
(* A Monitor of lib/monitor.rb with one condition variable: the methods of *)
(* MonitorMixin and of MonitorMixin::ConditionVariable, and the class      *)
(* ConditionVariable of lib/thread.rb below them.                          *)
(*                                                                         *)
(* Ruby code loses the GVL, and throws what another thread has sent it,    *)
(* when a method written in C returns, where it takes a branch, leaves a   *)
(* method or a block, or blocks.  pc is the last such point that matters,  *)
(* and an action is the code up to the next one: in between nothing is     *)
(* changed that another thread sees or an exception would leave undone.    *)
(* @mon_mutex is a lock with one owner (ImplementsMutex of RubyThread).    *)
(* @waiters_mutex guards stretches that block nowhere, and each of them is *)
(* one action; but an exception that comes as lock returns, before the     *)
(* begin of Mutex#synchronize, leaves it locked until its thread ends.     *)
(***************************************************************************)
EXTENDS Integers, SequencesExt

CONSTANTS
    Threads, NoThread,
    Program,    \* for each thread, the operations its program may perform
    Budget      \* for each thread, how many it performs at most

Operations == {"enter", "try_enter", "wait", "signal", "broadcast",
               "wakeup", "raise", "kill"}

ASSUME ThreadsAssumption == NoThread \notin Threads
ASSUME ProgramAssumption == Program \in [Threads -> SUBSET Operations]
ASSUME BudgetAssumption == Budget \in [Threads -> Nat]

VARIABLES
    holder,     \* the thread that has locked @mon_mutex
    mon_owner,  \* @mon_owner
    mon_count,  \* @mon_count
    waiters,    \* @waiters of the condition variable
    list_holder,    \* the thread that an exception has left with @waiters_mutex
    asleep,     \* the threads that sleep in @mon_mutex.sleep
    pc,         \* where a thread is
    depth,      \* how many synchronize blocks it is in
    count,      \* the local variable of a wait: the count to restore
    called,     \* taken off @waiters by signal or broadcast and not yet run
    sent,       \* th->thrown_errinfo: what another thread has sent
    pending,    \* the exception that unwinds the thread
    ops,        \* how many operations a thread has left
    torn,       \* history: an exception left a method where nothing undoes it
    stray       \* history: a listed thread was woken or thrown out by something else

monVars == <<mon_owner, mon_count>>
condVars == <<waiters, list_holder, asleep>>
callVars == <<depth, count, called>>
excVars == <<sent, pending>>
history == <<torn, stray>>
vars == <<holder, monVars, condVars, pc, callVars, excVars, ops, history>>

Exceptions == {"raise", "kill"}
NoException == "none"

\* The points of a wait, and those where a thread has the mutex and the monitor is
\* nobody's: there, and where mon_enter has locked.
WaitPoints == {"wait_saved", "wait_listed", "sleep", "relock", "restore"}
HandoverPoints == {"wait_saved", "wait_listed", "restore", "enter_locked"}
\* The points of a method of the monitor's owner.
OwnerPoints == {"entered", "exit", "signal_lock", "signal", "broadcast_lock",
                "broadcast"}
Points == {"run", "enter_lock", "dead"} \cup HandoverPoints \cup WaitPoints
              \cup OwnerPoints

TypeOK ==
    /\ holder \in Threads \cup {NoThread}
    /\ mon_owner \in Threads \cup {NoThread}
    /\ mon_count \in Int
    /\ waiters \in Seq(Threads)
    /\ list_holder \in Threads \cup {NoThread}
    /\ asleep \subseteq Threads
    /\ pc \in [Threads -> Points]
    /\ depth \in [Threads -> Nat]
    /\ count \in [Threads -> Int]
    /\ called \in [Threads -> Seq(Threads)]
    /\ sent \in [Threads -> Exceptions \cup {NoException}]
    /\ pending \in [Threads -> Exceptions \cup {NoException}]
    /\ ops \in [Threads -> Nat]
    /\ torn \in BOOLEAN /\ stray \in BOOLEAN

Init ==
    /\ holder = NoThread
    /\ mon_owner = NoThread
    /\ mon_count = 0
    /\ waiters = <<>>
    /\ list_holder = NoThread
    /\ asleep = {}
    /\ pc = [t \in Threads |-> "run"]
    /\ depth = [t \in Threads |-> 0]
    /\ count = [t \in Threads |-> 0]
    /\ called = [t \in Threads |-> <<>>]
    /\ sent = [t \in Threads |-> NoException]
    /\ pending = [t \in Threads |-> NoException]
    /\ ops = Budget
    /\ torn = FALSE /\ stray = FALSE

-----------------------------------------------------------------------------
Goto(t, p) == pc' = [pc EXCEPT ![t] = p]
Dead == {t \in Threads : pc[t] = "dead"}

\* A thread at p goes on: it would have thrown what it has been sent.
At(t, p) == pc[t] = p /\ sent[t] = NoException

Begin(t, op) ==
    /\ At(t, "run")
    /\ pending[t] = NoException
    /\ op \in Program[t]
    /\ ops[t] > 0
    /\ ops' = [ops EXCEPT ![t] = @ - 1]

\* A ThreadError of a call that changes nothing else.
Refuse(t) ==
    /\ pending' = [pending EXCEPT ![t] = "raise"]
    /\ UNCHANGED <<holder, monVars, condVars, pc, callVars>>

-----------------------------------------------------------------------------
(***************************************************************************)
(* mon_enter, mon_try_enter and mon_exit, as the brackets of a block.      *)
(***************************************************************************)
\* The thread is the owner, up to the return from mon_enter.
Entered(t) ==
    /\ mon_owner' = t
    /\ mon_count' = mon_count + 1
    /\ depth' = [depth EXCEPT ![t] = @ + 1]
    /\ Goto(t, "entered")
    /\ UNCHANGED <<condVars, count, called, pending>>

EnterAgain(t) == mon_owner = t /\ Entered(t) /\ UNCHANGED holder

\* Mutex#lock and try_lock return with the mutex.
Locks(t) ==
    /\ holder = NoThread
    /\ holder' = t
    /\ Goto(t, "enter_locked")
    /\ UNCHANGED <<monVars, condVars, callVars, pending>>

EnterFree(t) == mon_owner # t /\ Locks(t)

\* Mutex#lock: another thread has it, or "deadlock; recursive locking".
EnterWait(t) ==
    /\ mon_owner # t
    /\ holder \notin {t, NoThread}
    /\ Goto(t, "enter_lock")
    /\ UNCHANGED <<holder, monVars, condVars, callVars, pending>>

EnterRecursive(t) == mon_owner # t /\ holder = t /\ Refuse(t)

Enter(t) ==
    /\ Begin(t, "enter")
    /\ EnterAgain(t) \/ EnterFree(t) \/ EnterWait(t) \/ EnterRecursive(t)
    /\ UNCHANGED <<sent, history>>

EnterLock(t) ==
    /\ pc[t] = "enter_lock"
    /\ Locks(t)
    /\ UNCHANGED <<sent, ops, history>>

\* "@mon_owner = Thread.current"
Own(t) ==
    /\ At(t, "enter_locked")
    /\ Entered(t)
    /\ UNCHANGED <<holder, sent, ops, history>>

TryEnter(t) ==
    /\ Begin(t, "try_enter")
    /\ \/ EnterAgain(t)
       \/ EnterFree(t)
       \/ /\ mon_owner # t /\ holder # NoThread
          /\ UNCHANGED <<holder, monVars, condVars, pc, callVars, pending>>
    /\ UNCHANGED <<sent, history>>

EnterDone(t) ==
    /\ At(t, "entered")
    /\ Goto(t, "run")
    /\ UNCHANGED <<holder, monVars, condVars, callVars, excVars, ops, history>>

\* The end of a block, or an exception that leaves it: the ensure clause calls
\* mon_exit, which returns from mon_check_owner.
Exit(t) ==
    /\ At(t, "run")
    /\ depth[t] > 0
    /\ IF mon_owner = t
       THEN /\ Goto(t, "exit")
            /\ UNCHANGED <<depth, pending>>
       ELSE /\ depth' = [depth EXCEPT ![t] = @ - 1]
            /\ pending' = [pending EXCEPT ![t] = "raise"]
            /\ UNCHANGED pc
    /\ UNCHANGED <<holder, monVars, condVars, count, called, sent, ops, history>>

\* Mutant: the owner is not cleared.
ExitKeepsOwner(t) ==
    /\ At(t, "exit")
    /\ mon_count' = mon_count - 1
    /\ holder' = IF mon_count = 1 THEN NoThread ELSE holder
    /\ depth' = [depth EXCEPT ![t] = @ - 1]
    /\ Goto(t, "run")
    /\ UNCHANGED <<mon_owner, condVars, count, called, excVars, ops, history>>

\* The rest of mon_exit; Mutex#unlock raises when another thread has the mutex.
ExitDone(t) ==
    /\ At(t, "exit")
    /\ mon_count' = mon_count - 1
    /\ mon_owner' = IF mon_count = 1 THEN NoThread ELSE mon_owner
    /\ holder' = IF mon_count = 1 /\ holder = t THEN NoThread ELSE holder
    /\ pending' = IF mon_count = 1 /\ holder # t
                  THEN [pending EXCEPT ![t] = "raise"] ELSE pending
    /\ depth' = [depth EXCEPT ![t] = @ - 1]
    /\ Goto(t, "run")
    /\ UNCHANGED <<condVars, count, called, sent, ops, history>>

-----------------------------------------------------------------------------
(***************************************************************************)
(* ConditionVariable#wait, of both classes.                                *)
(***************************************************************************)
\* mon_check_owner and mon_exit_for_cond: the monitor is given up, the mutex
\* is not yet.
Wait(t) ==
    /\ Begin(t, "wait")
    /\ \/ mon_owner # t /\ Refuse(t)
       \/ /\ mon_owner = t
          /\ count' = [count EXCEPT ![t] = mon_count]
          /\ mon_owner' = NoThread
          /\ mon_count' = 0
          /\ Goto(t, "wait_saved")
          /\ UNCHANGED <<holder, condVars, depth, called, pending>>
    /\ UNCHANGED <<sent, history>>

\* A thread at p locks @waiters_mutex, and has unlocked it at the next point.
WithList(t, p) == At(t, p) /\ list_holder = NoThread

\* The thread lists itself ...
WaitList(t) ==
    /\ WithList(t, "wait_saved")
    /\ waiters' = Append(waiters, t)
    /\ Goto(t, "wait_listed")
    /\ UNCHANGED <<holder, monVars, list_holder, asleep, callVars, excVars, ops,
                   history>>

\* ... or gets a ThreadError for a lock that it has kept ...
WaitRefused(t) ==
    /\ At(t, "wait_saved")
    /\ list_holder = t
    /\ pending' = [pending EXCEPT ![t] = "raise"]
    /\ Goto(t, "restore")
    /\ UNCHANGED <<holder, monVars, condVars, callVars, sent, ops, history>>

\* ... and sleeps without the mutex, or learns that it is not its own.
WaitSleep(t) ==
    /\ At(t, "wait_listed")
    /\ IF holder = t
       THEN /\ holder' = NoThread
            /\ asleep' = asleep \cup {t}
            /\ Goto(t, "sleep")
            /\ UNCHANGED pending
       ELSE /\ Goto(t, "restore")
            /\ pending' = [pending EXCEPT ![t] = "raise"]
            /\ UNCHANGED <<holder, asleep>>
    /\ UNCHANGED <<monVars, waiters, list_holder, callVars, sent, ops, history>>

\* Mutant: a sleep that returns without the mutex.
AwakeUnlocked(t) ==
    /\ At(t, "sleep")
    /\ t \notin asleep
    /\ Goto(t, "restore")
    /\ UNCHANGED <<holder, monVars, condVars, callVars, excVars, ops, history>>

\* The sleep is over, by a call, a wake-up or an exception ...
Awake(t) ==
    /\ pc[t] = "sleep"
    /\ t \notin asleep
    /\ IF sent[t] = NoException THEN UNCHANGED excVars
       ELSE /\ pending' = [pending EXCEPT ![t] = sent[t]]
            /\ sent' = [sent EXCEPT ![t] = NoException]
    /\ Goto(t, "relock")
    /\ UNCHANGED <<holder, monVars, condVars, callVars, ops, history>>

\* ... and Mutex#sleep locks again, also when an exception is on its way.
Relock(t) ==
    /\ pc[t] = "relock"
    /\ holder = NoThread
    /\ holder' = t
    /\ Goto(t, "restore")
    /\ UNCHANGED <<monVars, condVars, callVars, excVars, ops, history>>

\* Mutant: the monitor is entered once, whatever the count was.
RestoreOnce(t) ==
    /\ At(t, "restore")
    /\ mon_owner' = t
    /\ mon_count' = 1
    /\ Goto(t, "run")
    /\ UNCHANGED <<holder, condVars, callVars, excVars, ops, history>>

\* The ensure clause: mon_enter_for_cond.
Restore(t) ==
    /\ At(t, "restore")
    /\ mon_owner' = t
    /\ mon_count' = count[t]
    /\ Goto(t, "run")
    /\ UNCHANGED <<holder, condVars, callVars, excVars, ops, history>>

-----------------------------------------------------------------------------
(***************************************************************************)
(* signal and broadcast.                                                   *)
(***************************************************************************)
\* mon_check_owner, and the call of the condition variable below.
Call(t, op, p) ==
    /\ Begin(t, op)
    /\ \/ mon_owner # t /\ Refuse(t)
       \/ /\ mon_owner = t
          /\ Goto(t, p)
          /\ UNCHANGED <<holder, monVars, condVars, callVars, pending>>
    /\ UNCHANGED <<sent, history>>

Signal(t) == Call(t, "signal", "signal_lock")
Broadcast(t) == Call(t, "broadcast", "broadcast_lock")

\* Mutant: "t.run" also when there is nobody.
SignalNil(t) ==
    /\ WithList(t, "signal_lock")
    /\ waiters = <<>>
    /\ called' = [called EXCEPT ![t] = <<NoThread>>]
    /\ Goto(t, "signal")
    /\ UNCHANGED <<holder, monVars, condVars, depth, count, excVars, ops, history>>

\* "t = @waiters.shift"; a thread that has kept the lock itself tries again for
\* ever, since the ThreadError is rescued here.
SignalShift(t) ==
    /\ WithList(t, "signal_lock")
    /\ \/ /\ waiters # <<>>
          /\ waiters' = Tail(waiters)
          /\ called' = [called EXCEPT ![t] = <<Head(waiters)>>]
       \/ waiters = <<>> /\ UNCHANGED <<waiters, called>>
    /\ Goto(t, "signal")
    /\ UNCHANGED <<holder, monVars, list_holder, asleep, depth, count, excVars, ops,
                   history>>

\* "rescue ThreadError; retry": the thread is dead.
Retry(t) ==
    /\ At(t, "signal")
    /\ called[t] # <<>>
    /\ Head(called[t]) \in Dead
    /\ called' = [called EXCEPT ![t] = <<>>]
    /\ Goto(t, "signal_lock")
    /\ UNCHANGED <<holder, monVars, condVars, depth, count, excVars, ops, history>>

\* Mutant: the list is not cleared.
BroadcastKeeps(t) ==
    /\ WithList(t, "broadcast_lock")
    /\ called' = [called EXCEPT ![t] = waiters]
    /\ Goto(t, "broadcast")
    /\ UNCHANGED <<holder, monVars, condVars, depth, count, excVars, ops, history>>

\* "waiters0 = @waiters.dup", and the list is cleared ...
BroadcastTake(t) ==
    /\ WithList(t, "broadcast_lock")
    /\ called' = [called EXCEPT ![t] = waiters]
    /\ waiters' = <<>>
    /\ Goto(t, "broadcast")
    /\ UNCHANGED <<holder, monVars, list_holder, asleep, depth, count, excVars, ops,
                   history>>

\* ... or a ThreadError comes out of broadcast.
BroadcastRefused(t) ==
    /\ At(t, "broadcast_lock")
    /\ list_holder = t
    /\ pending' = [pending EXCEPT ![t] = "raise"]
    /\ Goto(t, "run")
    /\ UNCHANGED <<holder, monVars, condVars, callVars, sent, ops, history>>

\* Mutant: broadcast runs the first thread only.
RunOne(t) ==
    /\ At(t, "signal") \/ At(t, "broadcast")
    /\ called[t] # <<>>
    /\ asleep' = asleep \ {Head(called[t])}
    /\ called' = [called EXCEPT ![t] = <<>>]
    /\ UNCHANGED <<holder, monVars, waiters, list_holder, pc, depth, count, excVars, ops,
                   history>>

\* Thread#run of the next thread taken off the list; it does nothing to one that
\* is awake, and broadcast goes on after the ThreadError of a dead one.
Run(t) ==
    /\ called[t] # <<>>
    /\ \/ At(t, "signal") /\ Head(called[t]) \notin Dead
       \/ At(t, "broadcast")
    /\ asleep' = asleep \ {Head(called[t])}
    /\ called' = [called EXCEPT ![t] = Tail(@)]
    /\ UNCHANGED <<holder, monVars, waiters, list_holder, pc, depth, count, excVars, ops,
                   history>>

\* Mutant: a loop that ends before its last thread.
RunDoneEarly(t) ==
    /\ At(t, "signal") \/ At(t, "broadcast")
    /\ Goto(t, "run")
    /\ UNCHANGED <<holder, monVars, condVars, callVars, excVars, ops, history>>

RunDone(t) ==
    /\ At(t, "signal") \/ At(t, "broadcast")
    /\ called[t] = <<>>
    /\ Goto(t, "run")
    /\ UNCHANGED <<holder, monVars, condVars, callVars, excVars, ops, history>>

-----------------------------------------------------------------------------
(***************************************************************************)
(* What others do to a thread, what that does to it, and its end.          *)
(***************************************************************************)
\* Thread#raise waits until an earlier exception has been thrown; Thread#kill
\* takes its place.
Interrupt(t, u) ==
    /\ u \in Threads \ (Dead \cup {t})
    /\ \/ /\ Begin(t, "raise")
          /\ sent[u] = NoException
          /\ sent' = [sent EXCEPT ![u] = "raise"]
       \/ /\ Begin(t, "kill")
          /\ sent' = [sent EXCEPT ![u] = "kill"]
    /\ asleep' = asleep \ {u}
    /\ stray' = (stray \/ u \in asleep)
    /\ UNCHANGED <<holder, monVars, waiters, list_holder, pc, callVars, pending, torn>>

\* Thread#wakeup by somebody who does not use the condition variable.
Wakeup(t, u) ==
    /\ u \in Threads \ (Dead \cup {t})
    /\ Begin(t, "wakeup")
    /\ asleep' = asleep \ {u}
    /\ stray' = (stray \/ u \in asleep)
    /\ UNCHANGED <<holder, monVars, waiters, list_holder, pc, callVars, excVars, torn>>

\* Where an exception that leaves the method leaves something undone: mon_enter has
\* locked or entered and the block has not begun, mon_exit has not left yet, the
\* wait has given up the monitor and its ensure clause is not in force or is itself
\* left, or threads have been taken off the list and not been run.
Tears(t) ==
    \/ pc[t] \in {"enter_locked", "entered", "exit", "wait_saved", "restore"}
    \/ called[t] # <<>>

\* The ensure clause of a wait catches it: the wait restores what it gave up, with
\* the mutex only if it was not locking it.  That clause itself has no other.
Caught(t) ==
    /\ pc[t] \in WaitPoints
    /\ pc[t] = "restore" => pending[t] = NoException
    /\ Goto(t, "restore")
    /\ torn' = (torn \/ pc[t] = "relock")
    /\ UNCHANGED <<depth, list_holder>>

\* It leaves the method.
Left(t) ==
    /\ pc[t] \notin {"wait_listed", "relock"}
    /\ Goto(t, "run")
    /\ depth' = IF pc[t] \in {"entered", "exit"} THEN [depth EXCEPT ![t] = @ - 1]
                ELSE depth
    /\ torn' = (torn \/ Tears(t))
    /\ UNCHANGED list_holder

\* It comes as @waiters_mutex.lock returns.
LeftLocked(t) ==
    /\ pc[t] \in {"wait_saved", "signal_lock", "broadcast_lock"}
    /\ list_holder = NoThread
    /\ list_holder' = t
    /\ Goto(t, IF pc[t] = "wait_saved" THEN "restore" ELSE "run")
    /\ torn' = TRUE
    /\ UNCHANGED depth

\* rb_thread_execute_interrupts.
Throw(t) ==
    /\ pc[t] \notin {"sleep", "dead"}
    /\ sent[t] # NoException
    /\ Caught(t) \/ Left(t) \/ LeftLocked(t)
    /\ pending' = [pending EXCEPT ![t] = sent[t]]
    /\ sent' = [sent EXCEPT ![t] = NoException]
    /\ called' = [called EXCEPT ![t] = <<>>]
    /\ stray' = (stray \/ pc[t] = "wait_listed")
    /\ UNCHANGED <<holder, monVars, waiters, asleep, count, ops>>

\* "self.unlock rescue nil": an exception that comes as @waiters_mutex.unlock returns
\* is lost.  (Also later in a loop of calls, which the model does not tell apart.)
Swallow(t) ==
    /\ pc[t] \in {"wait_listed", "signal", "broadcast"}
    /\ sent[t] = "raise"
    /\ sent' = [sent EXCEPT ![t] = NoException]
    /\ UNCHANGED <<holder, monVars, condVars, pc, callVars, pending, ops, history>>

\* A rescue clause of the program, at any level.
Rescue(t) ==
    /\ At(t, "run")
    /\ pending[t] = "raise"
    /\ pending' = [pending EXCEPT ![t] = NoException]
    /\ UNCHANGED <<holder, monVars, condVars, pc, callVars, sent, ops, history>>

\* A thread ends outside its blocks and gives back the mutexes it has kept.
Finish(t) ==
    /\ At(t, "run")
    /\ depth[t] = 0
    /\ Goto(t, "dead")
    /\ holder' = IF holder = t THEN NoThread ELSE holder
    /\ list_holder' = IF list_holder = t THEN NoThread ELSE list_holder
    /\ UNCHANGED <<monVars, waiters, asleep, callVars, excVars, ops, history>>

\* What a thread does in a method, and that it comes out of its blocks.
Progress(t) ==
    \/ EnterLock(t) \/ Own(t) \/ EnterDone(t) \/ Exit(t) \/ ExitDone(t)
    \/ WaitList(t) \/ WaitRefused(t) \/ WaitSleep(t)
    \/ Awake(t) \/ Relock(t) \/ Restore(t)
    \/ SignalShift(t) \/ Retry(t) \/ BroadcastTake(t) \/ BroadcastRefused(t)
    \/ Run(t) \/ RunDone(t) \/ Throw(t)

Step(t) ==
    \/ Enter(t) \/ TryEnter(t) \/ Wait(t) \/ Signal(t) \/ Broadcast(t)
    \/ \E u \in Threads : Interrupt(t, u) \/ Wakeup(t, u)
    \/ Swallow(t) \/ Rescue(t) \/ Finish(t)
    \/ Progress(t)

Next == \E t \in Threads : Step(t)

Spec == Init /\ [][Next]_vars

\* Fairness as in RubyThread and RubyQueue: a thread that can go on does, and
\* gets the mutex; a block comes to its end.  No program has to signal.
FairSpec == Spec /\ \A t \in Threads : SF_vars(Progress(t))

-----------------------------------------------------------------------------
\* A thread is in the monitor: in a block, or in a method called in it that has
\* not given up the monitor.
Inside(t) == pc[t] \in OwnerPoints \/ (pc[t] = "run" /\ depth[t] > 0)

\* "Enters exclusive section and executes the block": one thread at a time.
MutualExclusion == \A t, u \in Threads : Inside(t) /\ Inside(u) => t = u

(***************************************************************************)
(* As long as no exception has left a method at one of the points of       *)
(* Tears, hit the re-lock of a wait or left @waiters_mutex locked, and     *)
(* whatever exceptions, kills and wake-ups come elsewhere:                 *)
(***************************************************************************)
\* A thread inside has the mutex, is the owner, and @mon_count is the number of
\* its blocks, also after a wait that an exception has ended.
OwnerInside ==
    ~ torn => \A t \in Threads :
                 Inside(t) => holder = t /\ mon_owner = t /\ mon_count = depth[t]

\* "Leaves the exclusive section automatically when the block exits": a thread
\* outside its blocks does not keep the mutex, and who takes a free mutex finds
\* neither an owner nor a count.
BlockLeaves ==
    ~ torn => /\ \A t \in Threads : holder = t /\ pc[t] # "enter_locked" =>
                                       depth[t] > 0 /\ pc[t] # "dead"
              /\ holder = NoThread => mon_owner = NoThread /\ mon_count = 0

\* Each thread's levels as mon_owner and mon_count tell them, and those that a wait
\* has given up and will restore.
levels == [t \in Threads |-> IF mon_owner = t THEN mon_count ELSE 0]
given == [t \in Threads |-> IF pc[t] \in WaitPoints THEN count[t] ELSE 0]

Atomic == INSTANCE AtomicMonitor

\* The owner, the count and the mutex, which change at different points, are a
\* monitor whose enter, exit, wait and return from a wait happen at once, whatever
\* is thrown or woken in between.
ImplementsMonitor == Atomic!Init /\ [][torn' \/ Atomic!Next]_<<levels, given>>

\* A thread that sleeps in wait is on the list, or about to be run by the thread
\* that has taken it off.
WaiterListed ==
    ~ torn => \A t \in asleep :
                 \/ t \in ToSet(waiters)
                 \/ \E u \in Threads : t \in ToSet(called[u])

\* When moreover only signal and broadcast wake waiting threads, every entry is a
\* thread that sleeps or is about to, and listed once: no signal is lost on
\* another one.
EntriesSleep ==
    ~ torn /\ ~ stray =>
        /\ \A i, j \in DOMAIN waiters : waiters[i] = waiters[j] => i = j
        /\ \A i \in DOMAIN waiters : \/ waiters[i] \in asleep
                                     \/ pc[waiters[i]] = "wait_listed"

\* A thread taken off the list by signal or broadcast wakes up.
CalledWakes ==
    \A t \in Threads :
        (t \in asleep /\ \E u \in Threads : t \in ToSet(called[u]))
            ~> (t \notin asleep \/ torn)

=============================================================================
