----------------------------- MODULE MCRunStop ------------------------------
(***************************************************************************)
(* RunStop with three processes and two names: two modules and a tool that *)
(* stops and runs them, or a module that is started again.                 *)
(***************************************************************************)
EXTENDS RunStop, TLC

Interchangeable == Permutations(Proc) \cup Permutations(Name)
Slots == 1 .. 2
=============================================================================
