---------------------------- MODULE MapReduceJob ----------------------------
(***************************************************************************)
(* The master and its workers keep the promise stated in Job.              *)
(***************************************************************************)
EXTENDS MapReduce

\* Reducing starts when all mapping is over and the job ends when all
\* reducing is, although tasks enter the table only when a handler stores
\* them, and finished tasks go back to failed.
Jobs == INSTANCE Job
        WITH MapWork <- Input, ReduceWork <- Item \ Input, phase <- mrPhase
JobIsKept == Jobs!Spec
=============================================================================
