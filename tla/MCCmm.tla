-------------------------------- MODULE MCCmm -------------------------------
(***************************************************************************)
(* Cmm on a few cells: requests of one cell in room for four blocks and a  *)
(* rest, and requests of one and three cells.                              *)
(***************************************************************************)
EXTENDS Cmm

OneSize == [size |-> 9, reqs |-> {1}]
TwoSizes == [size |-> 7, reqs |-> {1, 3}]
Both == {OneSize, TwoSizes}
OnlyTwoSizes == {TwoSizes}
=============================================================================
