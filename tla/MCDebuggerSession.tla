-------------------------- MODULE MCDebuggerSession --------------------------
(* Model checking of DebuggerSession: the clients are interchangeable.     *)
EXTENDS DebuggerSession, TLC

Symmetry == Permutations(Handles)
===============================================================================
