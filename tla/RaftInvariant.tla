-------------------------- MODULE RaftInvariant ---------------------------
(***************************************************************************)
(* The inductive invariant of Raft.                                        *)
(***************************************************************************)
EXTENDS Raft

\* Who holds rf.mu, and what of a server's state is already on disk.  During
\* an election memory is ahead of the disk, and campaign is the term the
\* disk has not seen yet.
LockInv ==
    \A i \in Server :
        IF elector[i] = "campaign"
        THEN /\ mu[i] = "elector" /\ nextPeer[i]["elector"] = N
             /\ campaign[i] = disk[i].term + 1 /\ term[i] >= campaign[i]
             /\ logEntries[i] = disk[i].log
        ELSE /\ mu[i] # "free" => nextPeer[i][mu[i]] \in Server
             /\ disk[i].term = term[i] /\ disk[i].votedFor = votedFor[i]
             /\ disk[i].log = logEntries[i]

\* A RequestVote call somebody waits for belongs to a running election.
VoteCallInv ==
    /\ \A m \in voteRequests :
          Live(m) => elector[m.from] = "campaign" /\ m.term = campaign[m.from]
    /\ \A r \in voteReplies :
          elector[r.req.from] = "campaign" /\ r.req.term = campaign[r.req.from]

\* An AppendEntries call somebody waits for belongs to the SendHeartbeat that
\* holds the lock, and it is the only one of that server.
Sending(i) == mu[i] # "free" /\ elector[i] # "campaign"
AppendCallInv ==
    /\ \A m \in appendRequests : Live(m) => Sending(m.from)
    /\ \A r \in appendReplies : Sending(r.req.from)
    /\ \A m, n \in appendRequests :
          Live(m) /\ Live(n) /\ m.from = n.from => m = n
    /\ \A r, q \in appendReplies : r.req.from = q.req.from => r = q
    /\ \A m \in appendRequests, r \in appendReplies :
          Live(m) => m.from # r.req.from

\* A granted vote is on the voter's disk until the disk has a later term.
GrantInv ==
    \A g \in granted :
        LET saved == disk[g.voter]
        IN  g.term <= saved.term
            /\ (g.term = saved.term => saved.votedFor = g.candidate)

\* The loops over rf.peers run only on servers that were elected since they
\* started, so that nextIndex is set.
NextInv ==
    \A i \in Server :
        \/ \A j \in Server : nextIndex[i][j] >= 1
        \/ /\ role[i] # "Leader" /\ elector[i] # "elected"
           /\ \A g \in Routine : nextPeer[i][g] = N

IInv == TypeOK /\ NextInv /\ LockInv /\ VoteCallInv /\ AppendCallInv /\ GrantInv
===========================================================================
