----------------------------- MODULE AtomicMonitor -----------------------------
(***************************************************************************)
(* What a Monitor promises to the threads that use it, without the mutex,  *)
(* the owner and the sleeps below it.  One thread at a time has it, at one *)
(* or more levels; a wait gives up all of them in one step and comes back  *)
(* to as many, when nobody else has any, before the thread does anything   *)
(* else with the monitor.                                                  *)
(***************************************************************************)
EXTENDS Integers

CONSTANT Threads

VARIABLES
    levels,     \* how often each thread has entered and not left
    given       \* the levels that a wait has given up

Init ==
    /\ levels = [t \in Threads |-> 0]
    /\ given = [t \in Threads |-> 0]

FreeFor(t) == \A u \in Threads \ {t} : levels[u] = 0

Enter(t) ==
    /\ FreeFor(t)
    /\ given[t] = 0
    /\ levels' = [levels EXCEPT ![t] = @ + 1]
    /\ UNCHANGED given

Leave(t) ==
    /\ levels[t] > 0
    /\ given[t] = 0
    /\ levels' = [levels EXCEPT ![t] = @ - 1]
    /\ UNCHANGED given

Wait(t) ==
    /\ levels[t] > 0
    /\ given[t] = 0
    /\ given' = [given EXCEPT ![t] = levels[t]]
    /\ levels' = [levels EXCEPT ![t] = 0]

Resume(t) ==
    /\ given[t] > 0
    /\ FreeFor(t)
    /\ levels[t] = 0
    /\ levels' = [levels EXCEPT ![t] = given[t]]
    /\ given' = [given EXCEPT ![t] = 0]

Next == \E t \in Threads : Enter(t) \/ Leave(t) \/ Wait(t) \/ Resume(t)

Spec == Init /\ [][Next]_<<levels, given>>
=============================================================================
