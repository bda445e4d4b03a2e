-------------------------------- MODULE Job --------------------------------
(***************************************************************************)
(* What the master promises about a job.  The map work on every input is   *)
(* done, or its result given up, before the reduce phase starts; reduce    *)
(* work is done in the reduce phase only; and the job is done only when    *)
(* nothing is left.  How often a piece of work is done is not told apart,  *)
(* and neither is who does it.                                             *)
(***************************************************************************)
CONSTANTS MapWork, ReduceWork
VARIABLES phase, ran, lost, done

vars == <<phase, ran, lost, done>>

Open == MapWork \cup (IF phase = "Reduce" THEN ReduceWork ELSE {})

Init ==
    /\ phase = "Map" /\ ran = {} /\ lost = {}
    /\ done = (MapWork = {})

Complete(i) == ran' = ran \cup {i} /\ UNCHANGED <<phase, lost, done>>

Lose(i) == lost' = lost \cup {i} /\ UNCHANGED <<phase, ran, done>>

StartReduce ==
    /\ phase = "Map" /\ MapWork \subseteq ran \cup lost
    /\ phase' = "Reduce"
    /\ UNCHANGED <<ran, lost, done>>

Finish ==
    /\ phase = "Reduce" /\ ReduceWork \subseteq ran \cup lost
    /\ done' = TRUE
    /\ UNCHANGED <<phase, ran, lost>>

Next ==
    \/ \E i \in Open : Complete(i) \/ Lose(i)
    \/ StartReduce \/ Finish

Spec == Init /\ [][Next]_vars
============================================================================
