------------------------------- MODULE MCPeriod -------------------------------
(***************************************************************************)
(* Two processes of one name, started three times in all; a timer expires  *)
(* up to three times in a process, one more than the counter can hold.     *)
(***************************************************************************)
EXTENDS Period
CONSTANTS a, b
MCProc == {a, b}
=============================================================================
