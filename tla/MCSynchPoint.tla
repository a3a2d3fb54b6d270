---------------------------- MODULE MCSynchPoint ----------------------------
(***************************************************************************)
(* SynchPoint on two places of the configuration and one that              *)
(* plc_synchplace_add made, with shorts of -4 .. 3: every transition the   *)
(* configuration can store with weights up to 2.                           *)
(***************************************************************************)
EXTENDS SynchPoint

ThreePlaces == 0 .. 2
Configured == [wait : [Stored -> {-1, 0, 1, 2}], signal : [Stored -> {-1, 1, 2}]]
SmallWeights == -2 .. 2
=============================================================================
