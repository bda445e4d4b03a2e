----------------------------- MODULE Agreement -----------------------------
(***************************************************************************)
(* What a service built on Raft relies on: the commands that come out of   *)
(* applyCh, taken over all servers, form one log.  It grows by one index   *)
(* at a time, an index has one command, and no command appears twice.      *)
(***************************************************************************)
EXTENDS Naturals, FiniteSets

CONSTANT Command
VARIABLE decided

Init == decided = {}

Decide(c) ==
    /\ \A d \in decided : d.command # c
    /\ decided' = decided \cup
                    {[index |-> Cardinality(decided) + 1, command |-> c]}

Next == \E c \in Command : Decide(c)

Spec == Init /\ [][Next]_decided
===========================================================================
