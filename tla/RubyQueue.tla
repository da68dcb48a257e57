------------------------------- MODULE RubyQueue -------------------------------
(***************************************************************************)
(* Queue and SizedQueue of lib/thread.rb, on top of class Mutex and of     *)
(* Thread#wakeup and Thread#run.                                           *)
(*                                                                         *)
(* Ruby code may lose the GVL, and an exception that was sent comes, when  *)
(* a method written in C returns: after Mutex#lock, Array#shift and        *)
(* Thread#wakeup as well.  The mutex is a lock with one owner, which is    *)
(* what ImplementsMutex of RubyThread shows of class Mutex; Mutex#sleep    *)
(* gives it back and falls asleep in one stretch under the GVL.            *)
(* Mutex#synchronize locks before its begin and unlocks in its ensure: an  *)
(* exception that comes as lock returns leaves the mutex with its thread.  *)
(* A thread that sleeps is woken by anyone who calls run or wakeup; for    *)
(* one that does not, the call changes nothing (sleep_forever sets the     *)
(* status anew before it sleeps).                                          *)
(***************************************************************************)
EXTENDS Integers, SequencesExt

CONSTANTS
    Threads, NoThread,
    Program,    \* for each thread, the operations its program may perform
    Budget,     \* for each thread, how many it performs at most
    Victims,    \* the threads that others may raise in and kill
    Sized,      \* is it a SizedQueue?
    Sizes       \* the sizes that SizedQueue#max= may set

Operations == {"push", "pop", "try_pop", "clear", "set_max", "raise", "kill"}

ASSUME ThreadsAssumption == NoThread \notin Threads
ASSUME ProgramAssumption == Program \in [Threads -> SUBSET Operations]
ASSUME BudgetAssumption == Budget \in [Threads -> Nat]
ASSUME VictimsAssumption == Victims \subseteq Threads
ASSUME SizedAssumption == Sized \in BOOLEAN
ASSUME SizesAssumption == Sizes \subseteq Nat \ {0} /\ Sizes # {}

VARIABLES
    length,         \* of @que: what the items are decides nothing
    max,            \* @max
    waiting,        \* @waiting: the threads that want an item
    queue_wait,     \* @queue_wait: the threads that want room
    owner,          \* the thread that holds @mutex
    asleep,         \* the threads that sleep in @mutex.sleep
    pc,             \* where a thread is in its operation
    next,           \* the local variable t: the thread to wake and run
    extra,          \* how often SizedQueue#max= has still to run a thread
    pending,        \* the exception that another thread has sent
    ops,            \* how many operations a thread has left
    passed,         \* history: those max= ran between their listing and their sleep
    dropped,        \* history: those shifted by a thread that did not call them
    cut             \* history: has a push put its item and not come to its call?

queueVars == <<length, max, waiting, queue_wait>>
threadVars == <<next, extra, pending, ops>>
history == <<passed, dropped, cut>>
vars == <<queueVars, owner, asleep, pc, threadVars, history>>

Exceptions == {"raise", "kill"}
NoException == "none"

\* The points where a thread is to lock @mutex, where Mutex#lock has returned and
\* synchronize has not begun, and where the thread has the mutex.
Locked == [push_lock |-> "push_enter", pop_lock |-> "pop_check",
           try_lock |-> "try_check", popped |-> "pop_enter", set_lock |-> "set_check"]
LockPoints == {"push_lock", "pop_lock", "try_lock", "popped", "set_lock"}
JustLocked == {"push_enter", "pop_check", "try_check", "pop_enter", "set_check"}
Inside == JustLocked \cup {"push_check", "push_item", "push_notify", "push_call",
                           "push_wait", "pop_shift", "pop_notify", "pop_call"}
SleepPoints == {"push_sleep", "pop_sleep"}
\* Mutex#sleep locks again, for the block to go on or for an exception to leave it.
RelockPoints == {"push_relock", "pop_relock", "raise_relock", "kill_relock"}
\* The points that follow an unlock.
Unlocked == {"pop_lock", "popped", "set_max", "run_thread"}

TypeOK ==
    /\ length \in Nat
    /\ max \in Nat
    /\ waiting \in Seq(Threads)
    /\ queue_wait \in Seq(Threads)
    /\ owner \in Threads \cup {NoThread}
    /\ asleep \subseteq Threads
    /\ pc \in [Threads -> LockPoints \cup Inside \cup SleepPoints \cup RelockPoints
                          \cup Unlocked \cup {"run", "dead", "set_call"}]
    /\ next \in [Threads -> Threads \cup {NoThread}]
    /\ extra \in [Threads -> Nat]
    /\ pending \in [Threads -> Exceptions \cup {NoException}]
    /\ ops \in [Threads -> Nat]
    /\ passed \subseteq Threads
    /\ dropped \subseteq Threads
    /\ cut \in BOOLEAN

Init ==
    /\ length = 0
    /\ max \in Sizes
    /\ waiting = <<>>
    /\ queue_wait = <<>>
    /\ owner = NoThread
    /\ asleep = {}
    /\ pc = [t \in Threads |-> "run"]
    /\ next = [t \in Threads |-> NoThread]
    /\ extra = [t \in Threads |-> 0]
    /\ pending = [t \in Threads |-> NoException]
    /\ ops = Budget
    /\ passed = {}
    /\ dropped = {}
    /\ cut = FALSE

-----------------------------------------------------------------------------
Goto(t, p) == pc' = [pc EXCEPT ![t] = p]

Begin(t, op) ==
    /\ pc[t] = "run"
    /\ op \in Program[t]
    /\ ops[t] > 0
    /\ ops' = [ops EXCEPT ![t] = @ - 1]

\* Mutant: a lock that keeps nobody out.
LockAnyway(t) ==
    /\ pc[t] \in LockPoints
    /\ owner' = t
    /\ Goto(t, Locked[pc[t]])
    /\ UNCHANGED <<queueVars, asleep, threadVars, history>>

\* Mutex#lock, up to the point where the thread has it.
Lock(t) ==
    /\ pc[t] \in LockPoints
    /\ owner = NoThread
    /\ owner' = t
    /\ Goto(t, Locked[pc[t]])
    /\ UNCHANGED <<queueVars, asleep, threadVars, history>>

\* What a thread does with the mutex at the end of a block and of its life.
GiveBack(t) == owner' = IF owner = t THEN NoThread ELSE owner

\* Mutex#sleep up to the sleep, which a thread with an interrupt does not begin.
MutexSleep(t, p) ==
    /\ owner' = NoThread
    /\ asleep' = IF pending[t] = NoException THEN asleep \cup {t} ELSE asleep
    /\ Goto(t, p)

Dead == {t \in Threads : pc[t] = "dead"}
\* The producers that are listed and have not begun to sleep.
Listing == {t \in Threads : pc[t] = "push_wait"}

\* "t = q.shift"
First(q) == IF q = <<>> THEN NoThread ELSE Head(q)
Rest(q) == IF q = <<>> THEN <<>> ELSE Tail(q)
Shift(t, q) == next' = [next EXCEPT ![t] = First(q)]

\* A thread lists itself.
Lists(t) == passed' = passed \ {t} /\ dropped' = dropped \ {t} /\ UNCHANGED cut

-----------------------------------------------------------------------------
(***************************************************************************)
(* push, of both classes: only the one of SizedQueue waits for room.       *)
(***************************************************************************)
Push(t) ==
    /\ Begin(t, "push")
    /\ Goto(t, "push_lock")
    /\ UNCHANGED <<queueVars, owner, asleep, next, extra, pending, history>>

Full == Sized /\ length >= max

PushCheck(t) ==
    /\ pc[t] \in {"push_enter", "push_check"}
    /\ ~ Full
    /\ Goto(t, "push_item")
    /\ UNCHANGED <<queueVars, owner, asleep, threadVars, history>>

PushItem(t) ==
    /\ pc[t] = "push_item"
    /\ length' = length + 1
    /\ Goto(t, "push_notify")
    /\ UNCHANGED <<max, waiting, queue_wait, owner, asleep, threadVars, history>>

\* "t = @waiting.shift" ...
PushNotify(t) ==
    /\ pc[t] = "push_notify"
    /\ Shift(t, waiting)
    /\ waiting' = Rest(waiting)
    /\ Goto(t, "push_call")
    /\ UNCHANGED <<length, max, queue_wait, owner, asleep, extra, pending, ops, history>>

\* The thread lists itself ...
PushWait(t) ==
    /\ pc[t] \in {"push_enter", "push_check"}
    /\ Full
    /\ queue_wait' = Append(queue_wait, t)
    /\ Lists(t)
    /\ Goto(t, "push_wait")
    /\ UNCHANGED <<length, max, waiting, owner, asleep, threadVars>>

\* ... sleeps ...
PushSleep(t) ==
    /\ pc[t] = "push_wait"
    /\ MutexSleep(t, "push_sleep")
    /\ UNCHANGED <<queueVars, threadVars, history>>

\* Mutant: there must be room now.
PushWakeUnchecked(t) ==
    /\ pc[t] = "push_relock"
    /\ owner = NoThread
    /\ owner' = t
    /\ Goto(t, "push_notify")
    /\ length' = length + 1
    /\ UNCHANGED <<max, waiting, queue_wait, asleep, threadVars, history>>

\* ... and looks again with the mutex.
PushWake(t) ==
    /\ pc[t] = "push_relock"
    /\ owner = NoThread
    /\ owner' = t
    /\ Goto(t, "push_check")
    /\ UNCHANGED <<queueVars, asleep, threadVars, history>>

(***************************************************************************)
(* pop and pop(true), and what SizedQueue#pop does after it.               *)
(***************************************************************************)
Pop(t) ==
    /\ \/ Begin(t, "pop") /\ Goto(t, "pop_lock")
       \/ Begin(t, "try_pop") /\ Goto(t, "try_lock")
    /\ UNCHANGED <<queueVars, owner, asleep, next, extra, pending, history>>

\* "@que.empty?" is false, and only then "return @que.shift", which is nil when
\* a clear has come in between.
PopCheck(t) ==
    /\ pc[t] \in {"pop_check", "try_check"}
    /\ length > 0
    /\ Goto(t, "pop_shift")
    /\ UNCHANGED <<queueVars, owner, asleep, threadVars, history>>

PopShift(t) ==
    /\ pc[t] = "pop_shift"
    /\ length' = IF length > 0 THEN length - 1 ELSE 0
    /\ owner' = NoThread
    /\ Goto(t, IF Sized THEN "popped" ELSE "run")
    /\ UNCHANGED <<max, waiting, queue_wait, asleep, threadVars, history>>

\* The queue is empty: an exception, or a wait.
PopEmpty(t) ==
    /\ pc[t] = "try_check"
    /\ length = 0
    /\ owner' = NoThread
    /\ Goto(t, "run")
    /\ UNCHANGED <<queueVars, asleep, threadVars, history>>

PopWait(t) ==
    /\ pc[t] = "pop_check"
    /\ length = 0
    /\ waiting' = Append(waiting, t)
    /\ Lists(t)
    /\ MutexSleep(t, "pop_sleep")
    /\ UNCHANGED <<length, max, queue_wait, threadVars>>

\* Mutant: there must be an item now.
PopWakeUnchecked(t) ==
    /\ pc[t] = "pop_relock"
    /\ owner = NoThread
    /\ owner' = t
    /\ Goto(t, "pop_shift")
    /\ UNCHANGED <<queueVars, asleep, threadVars, history>>

\* Mutex#sleep locks again, only for synchronize to unlock before the next try.
PopWake(t) ==
    /\ pc[t] = "pop_relock"
    /\ owner = NoThread
    /\ Goto(t, "pop_lock")
    /\ UNCHANGED <<queueVars, owner, asleep, threadVars, history>>

\* SizedQueue#pop locks once more and looks whether there is room ...
PopRoom(t) ==
    /\ pc[t] = "pop_enter"
    /\ \/ length < max /\ Goto(t, "pop_notify") /\ UNCHANGED owner
       \/ length >= max /\ Goto(t, "run_thread") /\ owner' = NoThread
    /\ UNCHANGED <<queueVars, asleep, threadVars, history>>

\* ... for "t = @queue_wait.shift".
PopNotify(t) ==
    /\ pc[t] = "pop_notify"
    /\ Shift(t, queue_wait)
    /\ queue_wait' = Rest(queue_wait)
    /\ Goto(t, "pop_call")
    /\ UNCHANGED <<length, max, waiting, owner, asleep, extra, pending, ops, history>>

-----------------------------------------------------------------------------
(***************************************************************************)
(* The thread shifted is woken, with the lock in push and pop, and is run  *)
(* once more without it.                                                   *)
(***************************************************************************)
\* Mutant: the thread shifted is not called.
CallSilent(t) ==
    /\ pc[t] \in {"push_call", "pop_call"}
    /\ next[t] \notin Dead
    /\ owner' = NoThread
    /\ next' = [next EXCEPT ![t] = NoThread]
    /\ Goto(t, "run_thread")
    /\ UNCHANGED <<queueVars, asleep, extra, pending, ops, history>>

\* "t.wakeup if t" and the end of the synchronized block.
Call(t) ==
    /\ pc[t] \in {"push_call", "pop_call"}
    /\ next[t] \notin Dead
    /\ asleep' = asleep \ {next[t]}
    /\ owner' = NoThread
    /\ Goto(t, "run_thread")
    /\ UNCHANGED <<queueVars, threadVars, history>>

\* A dead thread raises ThreadError, and the next one is shifted.
Retry(t) ==
    /\ next[t] \in Dead
    /\ \/ pc[t] = "push_call" /\ Goto(t, "push_notify") /\ UNCHANGED extra
       \/ pc[t] = "pop_call" /\ Goto(t, "pop_notify") /\ UNCHANGED extra
       \/ /\ pc[t] = "set_call" /\ Goto(t, "set_max")
          /\ extra' = [extra EXCEPT ![t] = @ + 1]
    /\ UNCHANGED <<queueVars, owner, asleep, next, pending, ops, history>>

\* "t.run if t" after the lock wakes the thread whatever it sleeps for by now.
RunThread(t) ==
    /\ pc[t] = "run_thread"
    /\ asleep' = asleep \ {next[t]}
    /\ next' = [next EXCEPT ![t] = NoThread]
    /\ Goto(t, "run")
    /\ UNCHANGED <<queueVars, owner, extra, pending, ops, history>>

-----------------------------------------------------------------------------
(***************************************************************************)
(* The operations that do not keep to the lock.                            *)
(***************************************************************************)
\* Mutant: the list of waiting threads is cleared, too.
ClearAll(t) ==
    /\ Begin(t, "clear")
    /\ length' = 0
    /\ waiting' = <<>>
    /\ UNCHANGED <<max, queue_wait, owner, asleep, pc, next, extra, pending, history>>

Clear(t) ==
    /\ Begin(t, "clear")
    /\ length' = 0
    /\ UNCHANGED <<max, waiting, queue_wait, owner, asleep, pc, next, extra, pending,
                   history>>

\* SizedQueue#max= locks ...
SetMaxBegin(t) ==
    /\ Sized
    /\ Begin(t, "set_max")
    /\ Goto(t, "set_lock")
    /\ UNCHANGED <<queueVars, owner, asleep, next, extra, pending, history>>

\* Mutant: max= does not ask whether the queue becomes larger.
SetMaxBelow(t, m) ==
    /\ pc[t] = "set_check"
    /\ max' = m
    /\ extra' = [extra EXCEPT ![t] = m - max]
    /\ owner' = NoThread
    /\ Goto(t, "set_max")
    /\ UNCHANGED <<length, waiting, queue_wait, asleep, next, pending, ops, history>>

\* ... sets @max with the lock ...
SetMax(t, m) ==
    /\ pc[t] = "set_check"
    /\ max' = m
    /\ extra' = [extra EXCEPT ![t] = IF m > max THEN m - max ELSE 0]
    /\ owner' = NoThread
    /\ Goto(t, "set_max")
    /\ UNCHANGED <<length, waiting, queue_wait, asleep, next, pending, ops, history>>

\* ... and for each new place shifts a thread without it ...
SetMaxShift(t) ==
    /\ pc[t] = "set_max"
    /\ extra[t] > 0
    /\ Shift(t, queue_wait)
    /\ queue_wait' = Rest(queue_wait)
    /\ extra' = [extra EXCEPT ![t] = @ - 1]
    /\ Goto(t, "set_call")
    /\ UNCHANGED <<length, max, waiting, owner, asleep, pending, ops, history>>

\* ... and runs it.
SetMaxRun(t) ==
    /\ pc[t] = "set_call"
    /\ next[t] \notin Dead
    /\ asleep' = asleep \ {next[t]}
    /\ passed' = passed \cup ({next[t]} \cap Listing)
    /\ next' = [next EXCEPT ![t] = NoThread]
    /\ Goto(t, "set_max")
    /\ UNCHANGED <<queueVars, owner, extra, pending, ops, dropped, cut>>

SetMaxDone(t) ==
    /\ pc[t] = "set_max"
    /\ extra[t] = 0
    /\ Goto(t, "run")
    /\ UNCHANGED <<queueVars, owner, asleep, threadVars, history>>

-----------------------------------------------------------------------------
(***************************************************************************)
(* What others do to a thread, and its end.                                *)
(***************************************************************************)
\* Thread#raise (a timeout, for example) and Thread#kill end a sleep.
Interrupt(t, u) ==
    /\ u \in Victims \ (Dead \cup {t})
    /\ \/ Begin(t, "raise") /\ pending[u] = NoException
          /\ pending' = [pending EXCEPT ![u] = "raise"]
       \/ Begin(t, "kill")
          /\ pending' = [pending EXCEPT ![u] = "kill"]
    /\ asleep' = asleep \ {u}
    /\ UNCHANGED <<queueVars, owner, pc, next, extra, history>>

\* The sleep returns, or throws; Mutex#sleep locks again either way.
Awake(t) ==
    /\ pc[t] \in SleepPoints
    /\ t \notin asleep
    /\ Goto(t, CASE pending[t] = "raise" -> "raise_relock"
                 [] pending[t] = "kill" -> "kill_relock"
                 [] OTHER -> IF pc[t] = "push_sleep" THEN "push_relock"
                                                     ELSE "pop_relock")
    /\ pending' = [pending EXCEPT ![t] = NoException]
    /\ UNCHANGED <<queueVars, owner, asleep, next, extra, ops, history>>

\* With the lock the exception leaves the synchronized block, which gives it back.
Rethrow(t) ==
    /\ owner = NoThread
    /\ \/ pc[t] = "raise_relock" /\ Goto(t, "run") /\ UNCHANGED pending
       \/ /\ pc[t] = "kill_relock" /\ Goto(t, "dead")
          /\ pending' = [pending EXCEPT ![t] = NoException]
    /\ UNCHANGED <<queueVars, owner, asleep, next, extra, ops, history>>

\* An exception comes at any other point, also while the thread locks.  It leaves
\* the synchronized block without the mutex, unless it comes as Mutex#lock returns;
\* no ensure clause takes the thread off the lists or calls the one it has shifted.
Unwind(t) ==
    /\ pending[t] # NoException
    /\ pc[t] \notin SleepPoints
    /\ \/ pending[t] = "kill" /\ Goto(t, "dead") /\ GiveBack(t)
       \/ /\ pending[t] = "raise" /\ Goto(t, "run")
          /\ \/ pc[t] \in Inside /\ GiveBack(t)
             \/ pc[t] \notin Inside \ JustLocked /\ UNCHANGED owner
    /\ pending' = [pending EXCEPT ![t] = NoException]
    /\ next' = [next EXCEPT ![t] = NoThread]
    /\ extra' = [extra EXCEPT ![t] = 0]
    /\ dropped' = IF pc[t] \in {"push_call", "pop_call", "set_call"}
                  THEN dropped \cup ({next[t]} \ {NoThread}) ELSE dropped
    /\ cut' = (cut \/ pc[t] \in {"push_notify", "push_call"})
    /\ UNCHANGED <<queueVars, asleep, ops, passed>>

\* "self.unlock rescue nil": an exception that comes as unlock returns is lost.
\* (Also at the start of a pop and in the loop of max=, which the model does not
\* tell apart.)
Swallow(t) ==
    /\ pc[t] \in Unlocked
    /\ pending[t] = "raise"
    /\ pending' = [pending EXCEPT ![t] = NoException]
    /\ UNCHANGED <<queueVars, owner, asleep, pc, next, extra, ops, history>>

\* A thread that has kept the mutex gets a ThreadError for its next lock ...
LockRefused(t) ==
    /\ pc[t] \in LockPoints
    /\ owner = t
    /\ Goto(t, "run")
    /\ UNCHANGED <<queueVars, owner, asleep, threadVars, history>>

\* Mutant: the end of a thread unlocks nothing.
FinishKeeps(t) ==
    /\ pc[t] = "run"
    /\ Goto(t, "dead")
    /\ pending' = [pending EXCEPT ![t] = NoException]
    /\ UNCHANGED <<queueVars, owner, asleep, next, extra, ops, history>>

\* ... and gives the mutex back with its end.
Finish(t) ==
    /\ pc[t] = "run"
    /\ GiveBack(t)
    /\ Goto(t, "dead")
    /\ pending' = [pending EXCEPT ![t] = NoException]
    /\ UNCHANGED <<queueVars, asleep, next, extra, ops, history>>

Step(t) ==
    \/ Lock(t) \/ Push(t) \/ PushCheck(t) \/ PushItem(t) \/ PushNotify(t)
    \/ PushWait(t) \/ PushSleep(t) \/ PushWake(t)
    \/ Pop(t) \/ PopCheck(t) \/ PopShift(t) \/ PopEmpty(t)
    \/ PopWait(t) \/ PopWake(t) \/ PopRoom(t) \/ PopNotify(t)
    \/ Call(t) \/ Retry(t) \/ RunThread(t)
    \/ Clear(t) \/ SetMaxBegin(t)
    \/ \E m \in Sizes : SetMax(t, m)
    \/ SetMaxShift(t) \/ SetMaxRun(t) \/ SetMaxDone(t)
    \/ \E u \in Threads : Interrupt(t, u)
    \/ Awake(t) \/ Rethrow(t) \/ Unwind(t) \/ Swallow(t) \/ LockRefused(t)
    \/ Finish(t)

Next == \E t \in Threads : Step(t)

Spec == Init /\ [][Next]_vars

\* Fairness as in RubyThread: a thread that can run does, and gets the lock; its
\* program comes to its end.
FairSpec == Spec /\ \A t \in Threads : SF_vars(Step(t))

-----------------------------------------------------------------------------
\* The threads shifted from a list and not yet called, by threads at points P.
Shifted(P) == {next[u] : u \in {v \in Threads : pc[v] \in P}}

\* A thread that sleeps in pop is on @waiting, however it was woken and came back
\* before, so that the next push can find it; or a push is about to call it; or
\* one that was about to has been hit by an exception between shift and wakeup.
SleeperListed ==
    \A t \in asleep : pc[t] = "pop_sleep" =>
        t \in ToSet(waiting) \cup Shifted({"push_call"}) \cup dropped

\* A producer that sleeps for room is on @queue_wait or about to be called.  There
\* are two ways to lose it: max=, which takes threads off the list without the
\* lock, has run it between its listing and its sleep, or an exception has hit
\* the thread that had shifted it.
ProducerListed ==
    \A t \in asleep : pc[t] = "push_sleep" =>
        t \in ToSet(queue_wait) \cup Shifted({"pop_call", "set_call"})
              \cup passed \cup dropped

\* The lock keeps threads apart between the test and the act: an item that pop
\* has seen is not taken by another thread (only clear, which does not lock, can
\* empty the queue) ...
SeenItemKept ==
    [][\A t \in Threads :
          pc[t] = "pop_shift" /\ pc'[t] = "pop_shift" => length' \in {length, 0}]_vars

\* ... and a push that found room still has it, also after a wait, after another
\* producer was quicker, and after max= has made the queue smaller.
PushKeepsBound ==
    [][Sized /\ length' > length => length' <= max]_vars

\* The points from which a thread will look at the queue or call one that does.
ServingPoints == {"pop_lock", "pop_check", "pop_shift", "try_lock", "try_check",
                  "pop_sleep", "pop_relock", "push_notify", "push_call"}

\* "The calling thread is suspended until data is pushed onto the queue": no
\* thread sleeps in pop beside an item, unless another one is awake in pop or a
\* push has still to call it, or a push was cut before its call.
PopServed ==
    length > 0 /\ (\E t \in asleep : pc[t] = "pop_sleep") /\ ~ cut
        => \E u \in Threads \ asleep : pc[u] \in ServingPoints

\* A thread that sleeps in pop beside an item wakes up and gets the mutex, unless
\* a push was cut.
PopWakes ==
    \A t \in Threads :
        (pc[t] = "pop_sleep" /\ length > 0)
            ~> (pc[t] \notin {"pop_sleep", "pop_relock"} \/ cut)

\* The call that a thread at p has not yet done: a push is done with the item in
\* the queue, a pop with the item out of it.
CallAt(p) ==
    CASE p \in {"push_lock", "push_enter", "push_check", "push_item", "push_wait",
                "push_sleep", "push_relock"} -> "push"
      [] p \in {"pop_lock", "pop_check", "pop_sleep", "pop_relock"} -> "pop"
      [] p \in {"try_lock", "try_check"} -> "try"
      [] p = "pop_shift" -> "seen"
      [] OTHER -> "none"

calls == [t \in Threads |-> CallAt(pc[t])]
\* An exception has been sent to these, has not yet left @mutex.sleep, or has left
\* them with the mutex.
raised == {t \in Threads : \/ pending[t] # NoException
                           \/ pc[t] \in {"raise_relock", "kill_relock"}
                           \/ owner = t /\ pc[t] \notin Inside}

Atomic == INSTANCE AtomicQueue

\* Locks, lists, waits, late wakes, failed tests and unwinding are a queue whose
\* calls take effect at once and exactly once: no push puts an item twice or goes
\* without one, and none but an interrupted or cleared pop returns without one.
ImplementsQueue == Atomic!Spec
=============================================================================
