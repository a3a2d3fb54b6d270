----------------------------- MODULE MCLifecycle -----------------------------
(***************************************************************************)
(* Two setups and a shutdown in any order, one of the three may be killed, *)
(* and a module that starts once at any time.                              *)
(***************************************************************************)
EXTENDS Lifecycle
CONSTANTS s1, s2, q1, a
MCSetup == {s1, s2}
MCShutdown == {q1}
MCModule == {a}
=============================================================================
