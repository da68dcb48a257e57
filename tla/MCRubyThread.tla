----------------------------- MODULE MCRubyThread -----------------------------
(***************************************************************************)
(* Instances of RubyThread for TLC.                                        *)
(***************************************************************************)
EXTENDS RubyThread, TLC

CONSTANTS t1, t2, m1, m2

Each(main, worker) == [t \in Threads |-> IF t = Main THEN main ELSE worker]
\* Programs in which only the main thread creates threads.
Programs(main, worker) == Each(main \cup {"new"}, worker)
WorkerSymmetry == Permutations(Threads \ {Main}) \cup Permutations(Mutexes)

\* Two threads, two mutexes, every order of locking.
PairProgram == Programs({"lock", "try_lock", "unlock"}, {"lock", "try_lock", "unlock"})
PairBudget == Each(5, 5)

\* The main thread controls two workers that use a mutex.
ControlProgram ==
    Programs(Operations, {"lock", "mutex_sleep", "mutex_nap", "sleep", "join", "raise"})
ControlBudget == Each(3, 1)

\* Sleeping, joining and killing, no mutex: what every thread waits for comes.
SleepProgram == Programs({"join", "kill"}, {"stop", "nap"})
SleepBudget == Each(2, 1)

\* A mutex that three threads use, without interrupts.
GrantProgram == Programs({"lock", "try_lock", "unlock"}, {"lock", "unlock"})
GrantBudget == Each(3, 2)

\* The main thread wakes threads that wait for its mutex.
WakeProgram == Programs({"lock", "wakeup", "unlock", "join"}, {"lock"})
WakeBudget == Each(5, 1)

\* The main thread kills a thread that waits for its mutex.
KillProgram == Programs({"lock", "kill", "unlock", "join"}, {"lock"})
KillBudget == Each(3, 1)

\* Two threads lock two mutexes in opposite orders, a third one just ends.
InverseProgram == Programs({"lock"}, {"lock"})
InverseBudget == Each(2, 2)
=============================================================================
