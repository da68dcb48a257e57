------------------------------ MODULE RubyRequire ------------------------------
(***************************************************************************)
(* require: the table of files being loaded, the Barrier of each, and the  *)
(* list of features (load.c), with class Barrier of thread.c.              *)
(*                                                                         *)
(* A Barrier is a mutex that the thread which loads the file holds, and a  *)
(* pointer to it that is cleared when the file has been loaded.  The mutex *)
(* is a lock with one owner, as RubyThread shows; an interrupted wait      *)
(* leaves without it.  Everything between two points where the GVL may     *)
(* pass on is one action: searching a file and locking it is, and so is    *)
(* providing a feature and unlocking it.                                   *)
(***************************************************************************)
EXTENDS Integers, Sequences

CONSTANTS
    Threads, Main, NoThread,
    Files, NoFile,
    Barriers, NoBarrier,
    Requires,   \* for each file, the files that its code may require
    Failing,    \* the files whose code may raise an exception
    Program,    \* for each thread, the operations its program may perform
    Budget      \* for each thread, how many it performs at most

Operations == {"require", "raise", "kill"}

ASSUME ThreadsAssumption == Main \in Threads /\ NoThread \notin Threads
ASSUME FilesAssumption == NoFile \notin Files
ASSUME BarriersAssumption == NoBarrier \notin Barriers
ASSUME RequiresAssumption == Requires \in [Files -> SUBSET Files]
ASSUME FailingAssumption == Failing \subseteq Files
ASSUME ProgramAssumption == Program \in [Threads -> SUBSET Operations]
ASSUME BudgetAssumption == Budget \in [Threads -> Nat]

VARIABLES
    loading_table,  \* the barrier of each file that is being loaded
    features,       \* loaded_features
    holder,         \* the thread that has the mutex of a barrier
    destroyed,      \* the barriers whose pointer has been cleared
    stack,          \* the files that a thread is loading, the innermost last
    wanted,         \* the file a thread waits for ...
    barrier,        \* ... and the barrier it waits at
    pending,        \* the exception a thread has raised or has been sent
    alive,          \* living_threads
    abandoned,      \* history: files whose load failed while threads waited for it
    ops             \* how many operations a thread has left

tableVars == <<loading_table, features, holder, destroyed>>
waitVars == <<wanted, barrier>>
vars == <<tableVars, stack, waitVars, pending, alive, abandoned, ops>>

Exceptions == {"raise", "kill"}
NoException == "none"

TypeOK ==
    /\ loading_table \in [Files -> Barriers \cup {NoBarrier}]
    /\ features \subseteq Files
    /\ holder \in [Barriers -> Threads \cup {NoThread}]
    /\ destroyed \subseteq Barriers
    /\ stack \in [Threads -> Seq(Files)]
    /\ wanted \in [Threads -> Files \cup {NoFile}]
    /\ barrier \in [Threads -> Barriers \cup {NoBarrier}]
    /\ pending \in [Threads -> Exceptions \cup {NoException}]
    /\ alive \subseteq Threads
    /\ abandoned \subseteq Files
    /\ ops \in [Threads -> Nat]

Init ==
    /\ loading_table = [f \in Files |-> NoBarrier]
    /\ features = {}
    /\ holder = [b \in Barriers |-> NoThread]
    /\ destroyed = {}
    /\ stack = [t \in Threads |-> <<>>]
    /\ wanted = [t \in Threads |-> NoFile]
    /\ barrier = [t \in Threads |-> NoBarrier]
    /\ pending = [t \in Threads |-> NoException]
    /\ alive = Threads
    /\ abandoned = {}
    /\ ops = Budget

-----------------------------------------------------------------------------
Waits(t) == barrier[t] # NoBarrier
Running(t) == t \in alive /\ ~ Waits(t)
Last(s) == s[Len(s)]
Loading(t) == Running(t) /\ stack[t] # <<>>

Begin(t, op) ==
    /\ Running(t)
    /\ pending[t] = NoException
    /\ op \in Program[t]
    /\ ops[t] > 0
    /\ ops' = [ops EXCEPT ![t] = @ - 1]

Push(t, f) == stack' = [stack EXCEPT ![t] = Append(@, f)]
Pop(t) == stack' = [stack EXCEPT ![t] = SubSeq(@, 1, Len(@) - 1)]

\* A barrier that rb_barrier_new may return: nobody has a reference to it.
Unused(b) ==
    /\ \A f \in Files : loading_table[f] # b
    /\ \A t \in Threads : barrier[t] # b
    /\ holder[b] = NoThread
NewBarrier == CHOOSE b \in Barriers : Unused(b)

\* Mutant: the file is not entered in the table.
LoadFirstUnlisted(t, f) ==
    /\ loading_table[f] = NoBarrier
    /\ \E b \in Barriers : Unused(b)
    /\ holder' = [holder EXCEPT ![NewBarrier] = t]
    /\ destroyed' = destroyed \ {NewBarrier}
    /\ Push(t, f)
    /\ UNCHANGED <<loading_table, features, waitVars>>

\* load_lock: the first thread makes a barrier and holds it, a thread that
\* loads the file already goes on without it, all others wait.
LoadFirst(t, f) ==
    /\ loading_table[f] = NoBarrier
    /\ \E b \in Barriers : Unused(b)
    /\ loading_table' = [loading_table EXCEPT ![f] = NewBarrier]
    /\ holder' = [holder EXCEPT ![NewBarrier] = t]
    /\ destroyed' = destroyed \ {NewBarrier}
    /\ Push(t, f)
    /\ UNCHANGED <<features, waitVars>>

LoadAgain(t, f) ==
    /\ loading_table[f] # NoBarrier
    /\ holder[loading_table[f]] = t
    /\ UNCHANGED <<tableVars, stack, waitVars>>

LoadWait(t, f) ==
    /\ loading_table[f] # NoBarrier
    /\ holder[loading_table[f]] # t
    /\ wanted' = [wanted EXCEPT ![t] = f]
    /\ barrier' = [barrier EXCEPT ![t] = loading_table[f]]
    /\ UNCHANGED <<tableVars, stack>>

LoadLock(t, f) == LoadFirst(t, f) \/ LoadAgain(t, f) \/ LoadWait(t, f)

Provided(f) == f \in features /\ UNCHANGED <<tableVars, stack, waitVars>>

\* rb_require_safe up to the code of the file, from the program of a thread or
\* from a file that it is loading.
Require(t, f) ==
    /\ Begin(t, "require")
    /\ stack[t] # <<>> => f \in Requires[Last(stack[t])]
    /\ \/ Provided(f)
       \/ f \notin features /\ LoadLock(t, f)
    /\ UNCHANGED <<pending, alive, abandoned>>

Return(t) ==
    /\ wanted' = [wanted EXCEPT ![t] = NoFile]
    /\ barrier' = [barrier EXCEPT ![t] = NoBarrier]

\* rb_barrier_wait has got the mutex.  The pointer is there: the file has not
\* been loaded, and the thread does it, whatever the table and the list of
\* features say by now.
TakeOver(t) ==
    /\ t \in alive /\ Waits(t)
    /\ holder[barrier[t]] = NoThread
    /\ barrier[t] \notin destroyed
    /\ holder' = [holder EXCEPT ![barrier[t]] = t]
    /\ Push(t, wanted[t])
    /\ Return(t)
    /\ UNCHANGED <<loading_table, features, destroyed, pending, alive, abandoned, ops>>

\* The pointer is cleared: require returns false.
Loaded(t) ==
    /\ t \in alive /\ Waits(t)
    /\ holder[barrier[t]] = NoThread
    /\ barrier[t] \in destroyed
    /\ Return(t)
    /\ UNCHANGED <<tableVars, stack, pending, alive, abandoned, ops>>

\* Mutants: a barrier that is not in the table is destroyed; one whose file has
\* been loaded is only released; one whose file has not is destroyed; the mutex is
\* not given back after a failed load, or after a successful one.
LoadUnlockMissing(t, f, done) ==
    LET b == loading_table[f] IN
    /\ loading_table' = [loading_table EXCEPT ![f] = NoBarrier]
    /\ destroyed' = IF done THEN destroyed \cup {b} ELSE destroyed
    /\ holder' = [c \in Barriers |->
                    IF c = b /\ holder[c] = t THEN NoThread ELSE holder[c]]
LoadUnlockReleases(t, f, done) ==
    LET b == loading_table[f] IN
    /\ loading_table' = [loading_table EXCEPT ![f] = NoBarrier]
    /\ holder' = [c \in Barriers |->
                    IF c = b /\ holder[c] = t THEN NoThread ELSE holder[c]]
    /\ UNCHANGED destroyed
LoadUnlockDestroys(t, f, done) ==
    LET b == loading_table[f] IN
    /\ loading_table' = [loading_table EXCEPT ![f] = NoBarrier]
    /\ destroyed' = destroyed \cup ({b} \cap Barriers)
    /\ holder' = [c \in Barriers |->
                    IF c = b /\ holder[c] = t THEN NoThread ELSE holder[c]]
LoadUnlockHolds(t, f, done) ==
    LET b == loading_table[f] IN
    /\ loading_table' = [loading_table EXCEPT ![f] = NoBarrier]
    /\ destroyed' = IF done THEN destroyed \cup ({b} \cap Barriers) ELSE destroyed
    /\ UNCHANGED holder

\* load_unlock: the entry goes, and its mutex is given back.  That is an error
\* when another thread has it, and nothing happens when there is no entry.
LoadUnlock(t, f, done) ==
    LET b == loading_table[f] IN
    /\ loading_table' = [loading_table EXCEPT ![f] = NoBarrier]
    /\ destroyed' = IF done THEN destroyed \cup ({b} \cap Barriers) ELSE destroyed
    /\ holder' = [c \in Barriers |->
                    IF c = b /\ holder[c] = t THEN NoThread ELSE holder[c]]

\* rb_mutex_unlock of a mutex that another thread has.
UnlockError(t, f) ==
    loading_table[f] # NoBarrier /\ holder[loading_table[f]] # t

Awaited(f) == \E u \in Threads : Waits(u) /\ barrier[u] = loading_table[f]

\* The file has been loaded.
LoadDone(t) ==
    /\ Loading(t)
    /\ pending[t] = NoException
    /\ LET f == Last(stack[t]) IN
       /\ features' = features \cup {f}
       /\ LoadUnlock(t, f, TRUE)
       /\ pending' = IF UnlockError(t, f)
                     THEN [pending EXCEPT ![t] = "raise"] ELSE pending
    /\ Pop(t)
    /\ UNCHANGED <<waitVars, alive, abandoned, ops>>

\* An exception leaves the file, its own or one from outside.
LoadFail(t) ==
    /\ Loading(t)
    /\ LET f == Last(stack[t]) IN
       /\ \/ pending[t] # NoException /\ UNCHANGED pending
          \/ /\ pending[t] = NoException
             /\ f \in Failing
             /\ pending' = [pending EXCEPT ![t] = "raise"]
       /\ LoadUnlock(t, f, FALSE)
       /\ abandoned' = IF Awaited(f) THEN abandoned \cup {f} ELSE abandoned
    /\ Pop(t)
    /\ UNCHANGED <<features, waitVars, alive, ops>>

\* A rescue clause, of the program or of the file that required the other one.
Rescue(t) ==
    /\ Running(t)
    /\ pending[t] = "raise"
    /\ pending' = [pending EXCEPT ![t] = NoException]
    /\ UNCHANGED <<tableVars, stack, waitVars, alive, abandoned, ops>>

\* rb_mutex_lock throws: the thread leaves the barrier without it.
Interrupted(t) ==
    /\ t \in alive /\ Waits(t)
    /\ pending[t] # NoException
    /\ Return(t)
    /\ UNCHANGED <<tableVars, stack, pending, alive, abandoned, ops>>

-----------------------------------------------------------------------------
\* Thread#raise and Thread#kill.
Interrupt(t, u) ==
    /\ u \in alive \ {t}
    /\ \/ /\ Begin(t, "raise")
          /\ pending[u] = NoException
          /\ pending' = [pending EXCEPT ![u] = "raise"]
       \/ /\ Begin(t, "kill")
          /\ pending' = [pending EXCEPT ![u] = "kill"]
    /\ UNCHANGED <<tableVars, stack, waitVars, alive, abandoned>>

\* A thread ends and gives its mutexes back; the main thread kills the others.
Finish(t) ==
    /\ Running(t)
    /\ stack[t] = <<>>
    /\ alive' = alive \ {t}
    /\ holder' = [b \in Barriers |-> IF holder[b] = t THEN NoThread ELSE holder[b]]
    /\ pending' = [u \in Threads |-> IF u # t /\ t = Main /\ u \in alive
                                     THEN "kill" ELSE pending[u]]
    /\ UNCHANGED <<loading_table, features, destroyed, stack, waitVars, abandoned, ops>>

\* rb_check_deadlock: all living threads wait, and the main thread dies of it.
Deadlock ==
    /\ Main \in alive
    /\ \A t \in alive : /\ Waits(t)
                        /\ pending[t] = NoException
                        /\ holder[barrier[t]] # NoThread
    /\ pending' = [pending EXCEPT ![Main] = "kill"]
    /\ UNCHANGED <<tableVars, stack, waitVars, alive, abandoned, ops>>

\* What a thread does by itself once it has been asked to.
Progress(t) ==
    \/ TakeOver(t) \/ Loaded(t) \/ Interrupted(t)
    \/ LoadDone(t) \/ LoadFail(t)
    \/ Finish(t) /\ pending[t] = "kill"

Step(t) ==
    \/ \E f \in Files : Require(t, f)
    \/ \E u \in Threads : Interrupt(t, u)
    \/ Rescue(t) \/ Finish(t)
    \/ Progress(t)

Terminated == alive = {} /\ UNCHANGED vars

Next == (\E t \in Threads : Step(t)) \/ Deadlock \/ Terminated

Spec == Init /\ [][Next]_vars

\* Fairness: the code of a file comes to its end, the GVL comes round as in
\* RubyThread, and so does a mutex.  No thread has to require anything or to end.
FairSpec == Spec /\ WF_vars(Deadlock) /\ \A t \in Threads : SF_vars(Progress(t))

-----------------------------------------------------------------------------
LoadedBy(t, f) == \E i \in DOMAIN stack[t] : stack[t][i] = f

(***************************************************************************)
(* When a load fails while threads wait for it, one of them loads the file *)
(* in its turn, without an entry in loading_table.  As long as no load of  *)
(* a file has been abandoned like that, and whatever else fails, is        *)
(* interrupted or killed:                                                  *)
(***************************************************************************)
\* "Loading ruby library should be serialized": no two threads load a file at
\* the same time, and none loads it while it is loading it.
LoadsSerialized ==
    \A t, u \in Threads : \A i \in DOMAIN stack[t], j \in DOMAIN stack[u] :
        stack[t][i] = stack[u][j] /\ stack[t][i] \notin abandoned => t = u /\ i = j

\* A file that has been loaded is not loaded again.
LoadedOnce ==
    \A t \in Threads, f \in features \ abandoned : ~ LoadedBy(t, f)

\* A thread waits for one that loads the file it wants and will find the entry
\* of the barrier in the table when it is through.
WaitedIsLoading ==
    \A t \in Threads :
        LET f == wanted[t]
            b == barrier[t]
        IN  Waits(t) /\ f \notin abandoned /\ holder[b] # NoThread
                => loading_table[f] = b /\ LoadedBy(holder[b], f)

\* A require that has waited and returns false finds the file loaded, even
\* after failed loads.
WaitReturnsLoaded ==
    [][\A t \in Threads :
          Waits(t) /\ ~ Waits(t)' /\ pending[t] = NoException /\ stack'[t] = stack[t]
              => wanted[t] \in features]_vars

=============================================================================
