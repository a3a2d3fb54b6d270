------------------------------- MODULE MCIsolate -------------------------------
(***************************************************************************)
(* One module and its proxy: calls of up to three batches, six requests of *)
(* updates and those of init and done.                                      *)
(***************************************************************************)
EXTENDS Isolate
=============================================================================
