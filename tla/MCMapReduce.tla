---------------------------- MODULE MCMapReduce ----------------------------
(***************************************************************************)
(* MapReduce for TLC, with what its files hold.                            *)
(***************************************************************************)
EXTENDS MapReduceJob, MapReduceOutput
============================================================================
