-------------------------- MODULE RaftRefinements --------------------------
(***************************************************************************)
(* The abstract specifications that Raft implements, and how its state     *)
(* maps to theirs.                                                         *)
(***************************************************************************)
EXTENDS Raft

\* The saved term and vote of a server only move forward: they implement
\* the ballots of stable storage, through crashes, elections that persist at
\* their end only, and the unsynchronized writes of VoteReply.
Ballots == INSTANCE Ballot
           WITH Voter    <- Server,
                NoChoice <- None,
                ballot   <- [i \in Server |-> disk[i].term],
                choice   <- [i \in Server |-> disk[i].votedFor]
DurableBallots == Ballots!Spec

\* The commands that the apply goroutines send on applyCh form one log, without
\* gaps, duplicates or disagreement, when no answer to AppendEntries is lost.
Decisions == INSTANCE Agreement WITH decided <- delivered
AppliedIsOneLog == Decisions!Spec
============================================================================
