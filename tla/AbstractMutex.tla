---------------------------- MODULE AbstractMutex ----------------------------
(***************************************************************************)
(* What class Mutex promises to the threads that use it: a mutex has one   *)
(* owner, only its owner gives it back, and a thread that is gone owns     *)
(* nothing and never will.                                                 *)
(***************************************************************************)
CONSTANTS Threads, Mutexes, NoThread

VARIABLES
    holder,     \* the owner of each mutex
    gone        \* the threads that have ended

Init ==
    /\ holder = [m \in Mutexes |-> NoThread]
    /\ gone = {}

Acquire(t, m) ==
    /\ t \notin gone
    /\ holder[m] = NoThread
    /\ holder' = [holder EXCEPT ![m] = t]
    /\ UNCHANGED gone

Release(t, m) ==
    /\ t \notin gone
    /\ holder[m] = t
    /\ holder' = [holder EXCEPT ![m] = NoThread]
    /\ UNCHANGED gone

Leave(t) ==
    /\ t \notin gone
    /\ \A m \in Mutexes : holder[m] # t
    /\ gone' = gone \cup {t}
    /\ UNCHANGED holder

Next ==
    \E t \in Threads :
        \/ Leave(t)
        \/ \E m \in Mutexes : Acquire(t, m) \/ Release(t, m)

Spec == Init /\ [][Next]_<<holder, gone>>
=============================================================================
