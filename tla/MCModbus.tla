------------------------------- MODULE MCModbus -------------------------------
(***************************************************************************)
(* Two operations with one retry each, two ids before they repeat, three   *)
(* connections, a table of two nodes and two slave addresses of which the  *)
(* TCP slave has one.                                                      *)
(***************************************************************************)
EXTENDS ModbusSlave
MCUnit == {1, 2}
MCAddr == {1, 2}
MCSlaveUnits == {1}
=============================================================================
