------------------------------ MODULE MCRaft ------------------------------
(***************************************************************************)
(* Raft for TLC with interchangeable commands: no action looks into a      *)
(* command, so runs that take commands as model values may permute them.   *)
(***************************************************************************)
EXTENDS RaftRefinements, TLC

Symmetry == Permutations(Command)
===========================================================================
