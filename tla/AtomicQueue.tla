------------------------------ MODULE AtomicQueue ------------------------------
(***************************************************************************)
(* What Queue and SizedQueue promise to the threads that use them, without *)
(* locks, lists and sleeps.  A push puts one item in one step, when there  *)
(* is room; a pop sees an item and takes it, and in between nobody else    *)
(* puts, sees or takes one, only clear, which gives it nothing; pop(true)  *)
(* may also find the queue empty.  A call does so once and is over then,   *)
(* and it ends without it only for an exception that another thread sent:  *)
(* to this call, or to an earlier one of the same thread that it left with *)
(* the lock.                                                               *)
(***************************************************************************)
EXTENDS Integers

CONSTANTS
    Threads,
    Sized,      \* is it a SizedQueue?
    Sizes       \* the sizes it may have

VARIABLES
    length,     \* the number of items
    max,        \* the size
    calls,      \* for each thread, the call it has not yet done
    raised      \* the threads that an exception may still hinder

Init ==
    /\ length = 0
    /\ max \in Sizes
    /\ calls = [t \in Threads |-> "none"]
    /\ raised = {}

Becomes(t, call) == calls' = [calls EXCEPT ![t] = call]

NobodySees == \A t \in Threads : calls[t] # "seen"

Begin(t) ==
    /\ calls[t] = "none"
    /\ \E call \in {"push", "pop", "try"} : Becomes(t, call)
    /\ UNCHANGED <<length, max, raised>>

Put(t) ==
    /\ calls[t] = "push"
    /\ NobodySees
    /\ Sized => length < max
    /\ length' = length + 1
    /\ Becomes(t, "none")
    /\ UNCHANGED <<max, raised>>

See(t) ==
    /\ calls[t] \in {"pop", "try"}
    /\ NobodySees
    /\ length > 0
    /\ Becomes(t, "seen")
    /\ UNCHANGED <<length, max, raised>>

Take(t) ==
    /\ calls[t] = "seen"
    /\ length' = IF length > 0 THEN length - 1 ELSE 0
    /\ Becomes(t, "none")
    /\ UNCHANGED <<max, raised>>

Refuse(t) ==
    /\ calls[t] = "try"
    /\ length = 0
    /\ Becomes(t, "none")
    /\ UNCHANGED <<length, max, raised>>

Clear ==
    /\ length' = 0
    /\ UNCHANGED <<max, calls, raised>>

Resize ==
    /\ Sized
    /\ max' \in Sizes
    /\ UNCHANGED <<length, calls, raised>>

Raise(t) ==
    /\ raised' = raised \cup {t}
    /\ UNCHANGED <<length, max, calls>>

Abort(t) ==
    /\ t \in raised
    /\ raised' \in {raised, raised \ {t}}
    /\ Becomes(t, "none")
    /\ UNCHANGED <<length, max>>

Forget(t) ==
    /\ raised' = raised \ {t}
    /\ UNCHANGED <<length, max, calls>>

Next ==
    \/ Clear
    \/ Resize
    \/ \E t \in Threads : \/ Begin(t) \/ Put(t) \/ See(t) \/ Take(t) \/ Refuse(t)
                          \/ Raise(t) \/ Abort(t) \/ Forget(t)

Spec == Init /\ [][Next]_<<length, max, calls, raised>>
=============================================================================
