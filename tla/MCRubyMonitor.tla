----------------------------- MODULE MCRubyMonitor -----------------------------
(***************************************************************************)
(* Instances of RubyMonitor for TLC.                                       *)
(***************************************************************************)
EXTENDS RubyMonitor, TLC

CONSTANTS w1, w2, s

\* One thread waits in nested blocks or broadcasts, one waits or signals, and one
\* broadcasts or disturbs them.
WaitProgram == [t \in Threads |->
    CASE t = w1 -> {"enter", "wait", "broadcast"}
      [] t = w2 -> {"try_enter", "wait", "signal"}
      [] t = s -> {"enter", "broadcast", "wakeup", "raise", "kill"}]
WaitBudget == [t \in Threads |-> IF t = w1 THEN 3 ELSE 2]

\* One thread waits, one signals, and one raises an exception in another.
TimeoutProgram == [t \in Threads |->
    CASE t = w1 -> {"enter", "wait"} [] t = w2 -> {"enter", "signal"} [] t = s -> {"raise"}]
TimeoutBudget == [t \in Threads |-> IF t = s THEN 1 ELSE 2]
=============================================================================
