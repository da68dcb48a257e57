----------------------------- MODULE MCRubyRequire -----------------------------
(***************************************************************************)
(* Instances of RubyRequire for TLC.                                       *)
(***************************************************************************)
EXTENDS RubyRequire

CONSTANTS t1, t2, app, lib

\* Each file may require itself, and app needs lib.
Chain == [f \in Files |-> IF f = app THEN {app, lib} ELSE {f}]

LoadProgram == [t \in Threads |-> IF t = Main THEN Operations ELSE {"require"}]
LoadBudget == [t \in Threads |-> IF t = t2 THEN 1 ELSE 2]
=============================================================================
