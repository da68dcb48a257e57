------------------------------ MODULE MCRubyQueue ------------------------------
(***************************************************************************)
(* Instances of RubyQueue for TLC.                                         *)
(***************************************************************************)
EXTENDS RubyQueue

CONSTANTS P, C, K

\* A producer, a consumer, and a thread that resizes and empties the queue and
\* interrupts the other two.
ControlProgram == [t \in Threads |-> CASE t = P -> {"push"}
                                       [] t = C -> {"pop", "try_pop"}
                                       [] OTHER -> {"clear", "set_max", "raise", "kill"}]
ControlBudget == [t \in Threads |-> CASE t = P -> 2 [] t = C -> 3 [] OTHER -> 2]

\* A producer and two consumers.
TwoProgram == [t \in Threads |-> IF t = P THEN {"push"} ELSE {"pop"}]
TwoBudget == [t \in Threads |-> CASE t = P -> 3 [] t = C -> 2 [] OTHER -> 1]
=============================================================================
