---------------------------- MODULE MCPlcMutex ------------------------------
(* PlcMutex on three processes. *)
EXTENDS PlcMutex
=============================================================================
