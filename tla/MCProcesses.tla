---------------------------- MODULE MCProcesses ----------------------------
(* An instance of Processes for TLC. *)
EXTENDS Processes

CONSTANTS t1, t2

TwoAndOne == [t \in {t1, t2} |-> IF t = t1 THEN 2 ELSE 1]
=============================================================================
