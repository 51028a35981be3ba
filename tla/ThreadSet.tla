------------------------------ MODULE ThreadSet ------------------------------
(* The threads of a process, as many as there are.                           *)
EXTENDS FiniteSets

CONSTANT Threads

ASSUME ThreadsAssumption == IsFiniteSet(Threads)
=============================================================================
