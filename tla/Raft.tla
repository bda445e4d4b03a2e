------------------------------- MODULE Raft -------------------------------
(***************************************************************************)
(* The Raft server of lab2_raft/raft (raft.go, vote.go, entry.go) with its *)
(* Persister and the faults labrpc can inject.                             *)
(*                                                                         *)
(* One rf.mu protects a server.  startElection and SendHeartbeat keep it   *)
(* locked while they wait for RPC answers, so the lock is part of the      *)
(* state: mu[i] names the goroutine that waits inside its critical         *)
(* section, and every other critical section of server i is one step that  *)
(* needs mu[i] = "free".  A critical section that ends saves term,         *)
(* votedFor and logEntries (persist), as the deferred calls do.            *)
(***************************************************************************)
EXTENDS Integers, Sequences, FiniteSets, FiniteSetsExt

CONSTANTS
    N,             \* len(rf.peers)
    Command,       \* commands a client may pass to Start, each at most once
    MaxTerm,       \* bound: no election is started beyond this term
    MaxLate,       \* bound: requests that outlive the caller's RPCTimeout
    MaxLostReply,  \* bound: replies lost, or too late for the caller
    MaxCrash,      \* bound: crashes
    Campaigner,    \* servers whose election timer may fire
    Ticker,        \* servers whose heartbeat goroutine wakes up
    Crasher        \* servers that may crash

Server == 0 .. (N - 1)

ASSUME NAssumption == N \in Nat \ {0}
ASSUME BoundAssumption ==
    /\ MaxTerm \in Nat /\ MaxLate \in Nat
    /\ MaxLostReply \in Nat /\ MaxCrash \in Nat
ASSUME EnvironmentAssumption ==
    Campaigner \subseteq Server /\ Ticker \subseteq Server /\ Crasher \subseteq Server

VARIABLES
    \* the fields of type Raft
    role, term, votedFor, logEntries, commitIndex, lastApplied,
    nextIndex, matchIndex,
    \* the Persister: what readPersist finds after a crash
    disk,
    \* rf.mu, the election goroutine, startElection's args.Term and voteCount,
    \* and how far each of the two loops over rf.peers has come
    mu, elector, campaign, voteCount, nextPeer,
    \* calls of Start between GetState and Lock; commands not yet passed to it
    starts, unissued,
    \* RPCs in flight
    voteRequests, voteReplies, appendRequests, appendReplies,
    \* budgets used
    lates, lostReplies, crashes,
    \* history: votes granted, elections won, and what was sent on applyCh
    granted, won, delivered

leaderVars   == <<nextIndex, matchIndex>>
applyVars    == <<lastApplied, delivered>>
ballotVars   == <<campaign, voteCount>>
routineVars  == <<elector, ballotVars, nextPeer>>
voteHistory  == <<granted, won>>
startVars    == <<starts, unissued>>
voteNet      == <<voteRequests, voteReplies>>
appendNet    == <<appendRequests, appendReplies>>
budgetVars   == <<lates, lostReplies, crashes>>
vars == <<role, term, votedFor, logEntries, commitIndex, disk, mu, voteHistory,
          leaderVars, applyVars, routineVars, startVars, voteNet, appendNet,
          budgetVars>>

None == -1                          \* votedFor when no vote is recorded
Role == {"Follower", "Candidate", "Leader"}
Routine == {"elector", "ticker"}    \* the goroutines that call SendHeartbeat
NoCommand == "no command"           \* Command of the placeholder entry
---------------------------------------------------------------------------
(* Logs.  Slot k of the Go slice is position k + 1 of the sequence, and    *)
(* slot 0 holds a placeholder.  An entry carries its own index, which is   *)
(* what the code reads as the index of the last entry.                     *)

Slot(log, k) == log[k + 1]
Placeholder == [term |-> 0, index |-> 0, command |-> NoCommand]
lastLogTerm(log) == log[Len(log)].term
lastLogIndex(log) == log[Len(log)].index

\* log[:k]
Keep(log, k) == SubSeq(log, 1, k)

\* What SendHeartbeat sends to a peer whose nextIndex is next.
getAppendLogs(log, next) ==
    LET tail == SubSeq(log, next + 1, Len(log))
    IN  IF lastLogIndex(log) < next \/ tail = << >>
        THEN [prevIndex |-> lastLogIndex(log),
              prevTerm  |-> lastLogTerm(log), entries |-> << >>]
        ELSE [prevIndex |-> next - 1,
              prevTerm  |-> Slot(log, next - 1).term, entries |-> tail]

\* Mutant: half of the servers is enough.
AtLeastHalf(n) == n >= N \div 2

Majority(n) == n > N \div 2

\* Mutant: the loop ends before the last slot.
CommitsAllButLast(log, commit, match) ==
    Max({commit} \cup
        {k \in (commit + 1) .. (Len(log) - 2) :
            Majority(Cardinality({j \in Server : match[j] >= k}))})

\* The commit index that the counting loop leaves behind.
commitLog(log, commit, match) ==
    Max({commit} \cup
        {k \in (commit + 1) .. (Len(log) - 1) :
            Majority(Cardinality({j \in Server : match[j] >= k}))})
---------------------------------------------------------------------------
(* Initial state, and the state Make builds from what is on disk.          *)

Blank == [term |-> 0, votedFor |-> None, log |-> <<Placeholder>>]

Init ==
    /\ role = [i \in Server |-> "Follower"]
    /\ term = [i \in Server |-> 0]
    /\ votedFor = [i \in Server |-> None]
    /\ logEntries = [i \in Server |-> <<Placeholder>>]
    /\ commitIndex = [i \in Server |-> 0]
    /\ lastApplied = [i \in Server |-> 0]
    /\ nextIndex = [i \in Server |-> [j \in Server |-> 0]]
    /\ matchIndex = [i \in Server |-> [j \in Server |-> 0]]
    /\ disk = [i \in Server |-> Blank]
    /\ mu = [i \in Server |-> "free"]
    /\ elector = [i \in Server |-> "select"]
    /\ campaign = [i \in Server |-> 0]
    /\ voteCount = [i \in Server |-> 0]
    /\ nextPeer = [i \in Server |-> [g \in Routine |-> N]]
    /\ starts = {} /\ unissued = Command
    /\ voteRequests = {} /\ voteReplies = {}
    /\ appendRequests = {} /\ appendReplies = {}
    /\ lates = 0 /\ lostReplies = 0 /\ crashes = 0
    /\ granted = {} /\ won = {} /\ delivered = {}

\* Mutant: votedFor is not encoded.
SavesNoVote(i) ==
    disk' = [disk EXCEPT ![i].term = term'[i], ![i].log = logEntries'[i]]

\* Mutant: the term is not encoded.
SavesNoTerm(i) ==
    disk' = [disk EXCEPT ![i].votedFor = votedFor'[i], ![i].log = logEntries'[i]]

\* Saves what the step leaves in memory.
persist(i) ==
    disk' = [disk EXCEPT ![i] = [term     |-> term'[i],
                                 votedFor |-> votedFor'[i],
                                 log      |-> logEntries'[i]]]

Live(m) == m.late = 0
VoteCalls(i) == {m \in voteRequests : Live(m) /\ m.from = i}
                  \cup {r.req : r \in {r \in voteReplies : r.req.from = i}}
AppendCalls(i) == {m \in appendRequests : Live(m) /\ m.from = i}
                    \cup {r.req : r \in {r \in appendReplies : r.req.from = i}}
---------------------------------------------------------------------------
(* Elections: the goroutine that waits on electionTimer.                   *)

AtSelect(i) == elector[i] = "select" /\ nextPeer[i]["elector"] = N

\* The timer of a leader fires: startElection returns false at once, and the
\* caller treats that as a lost election.
LeaderTimerFires(i) ==
    /\ AtSelect(i) /\ mu[i] = "free" /\ i \in Campaigner
    /\ role[i] = "Leader"
    /\ elector' = [elector EXCEPT ![i] = "failed"]
    /\ UNCHANGED <<role, term, votedFor, logEntries, commitIndex, mu, voteHistory,
                   leaderVars, applyVars, ballotVars, nextPeer, startVars,
                   voteNet, appendNet, budgetVars>>
    /\ persist(i)

\* startElection up to wg.Wait.  The new term and the vote for itself reach
\* the disk only when the election is over.
startElection(i) ==
    /\ AtSelect(i) /\ mu[i] = "free" /\ i \in Campaigner
    /\ role[i] # "Leader" /\ term[i] < MaxTerm
    /\ role' = [role EXCEPT ![i] = "Candidate"]
    /\ term' = [term EXCEPT ![i] = @ + 1]
    /\ votedFor' = [votedFor EXCEPT ![i] = i]
    /\ campaign' = [campaign EXCEPT ![i] = term[i] + 1]
    /\ voteCount' = [voteCount EXCEPT ![i] = 1]
    /\ voteRequests' = voteRequests \cup
          {[from |-> i, to |-> j, term |-> term[i] + 1,
            lastLogIndex |-> lastLogIndex(logEntries[i]),
            lastLogTerm |-> lastLogTerm(logEntries[i]), late |-> 0] :
               j \in Server \ {i}}
    /\ mu' = [mu EXCEPT ![i] = "elector"]
    /\ elector' = [elector EXCEPT ![i] = "campaign"]
    /\ UNCHANGED <<logEntries, commitIndex, disk, voteHistory, leaderVars,
                   applyVars, nextPeer, startVars, voteReplies, appendNet,
                   budgetVars>>

\* One of startElection's goroutines handles an answer.  The goroutines do
\* not exclude each other: the last higher term written stays.
VoteReply(r) ==
    LET i == r.req.from
        higher == r.term > campaign[i]
    IN  /\ r \in voteReplies
        /\ voteReplies' = voteReplies \ {r}
        /\ term' = [term EXCEPT ![i] = IF higher THEN r.term ELSE @]
        /\ role' = [role EXCEPT ![i] = IF higher THEN "Follower" ELSE @]
        /\ voteCount' = [voteCount EXCEPT ![i] = IF r.granted THEN @ + 1 ELSE @]
        /\ UNCHANGED <<votedFor, logEntries, commitIndex, disk, mu, voteHistory,
                       leaderVars, applyVars, elector, campaign, nextPeer, startVars,
                       voteRequests, appendNet, budgetVars>>

\* startElection returns.
EndElection(i) ==
    /\ mu' = [mu EXCEPT ![i] = "free"]
    /\ campaign' = [campaign EXCEPT ![i] = 0]
    /\ voteCount' = [voteCount EXCEPT ![i] = 0]

\* Mutant: off by one.
NextIndexAtLast(log) == [j \in Server |-> lastLogIndex(log)]

\* nextIndex of a new leader.
FreshNextIndex(log) == [j \in Server |-> lastLogIndex(log) + 1]

\* startElection after wg.Wait.  Only voteCount decides: a role or a term
\* changed by VoteReply is not looked at.
ElectionWon(i) ==
    /\ elector[i] = "campaign" /\ VoteCalls(i) = {}
    /\ Majority(voteCount[i])
    /\ role' = [role EXCEPT ![i] = "Leader"]
    /\ votedFor' = [votedFor EXCEPT ![i] = None]
    /\ nextIndex' = [nextIndex EXCEPT ![i] = FreshNextIndex(logEntries[i])]
    /\ matchIndex' = [matchIndex EXCEPT
          ![i] = [j \in Server |-> IF j = i THEN lastLogIndex(logEntries[i]) ELSE 0]]
    /\ elector' = [elector EXCEPT ![i] = "elected"]
    /\ won' = won \cup {[server |-> i, term |-> campaign[i]]}
    /\ EndElection(i)
    /\ UNCHANGED <<term, logEntries, commitIndex, granted, applyVars, nextPeer,
                   startVars, voteNet, appendNet, budgetVars>>
    /\ persist(i)

ElectionLost(i) ==
    /\ elector[i] = "campaign" /\ VoteCalls(i) = {}
    /\ ~Majority(voteCount[i])
    /\ elector' = [elector EXCEPT ![i] = "failed"]
    /\ EndElection(i)
    /\ UNCHANGED <<role, term, votedFor, logEntries, commitIndex, voteHistory,
                   leaderVars, applyVars, nextPeer, startVars,
                   voteNet, appendNet, budgetVars>>
    /\ persist(i)

\* The goroutine takes the lock again after a lost election.
AfterLost(i) ==
    /\ elector[i] = "failed" /\ mu[i] = "free"
    /\ role' = [role EXCEPT ![i] = "Follower"]
    /\ elector' = [elector EXCEPT ![i] = "select"]
    /\ UNCHANGED <<term, votedFor, logEntries, commitIndex, disk, mu, voteHistory,
                   leaderVars, applyVars, ballotVars, nextPeer, startVars,
                   voteNet, appendNet, budgetVars>>

\* GetState after a won election; a leader starts a loop over rf.peers.
AfterWon(i) ==
    /\ elector[i] = "elected" /\ mu[i] = "free"
    /\ elector' = [elector EXCEPT ![i] = "select"]
    /\ nextPeer' = [nextPeer EXCEPT
                      ![i]["elector"] = IF role[i] = "Leader" THEN 0 ELSE N]
    /\ UNCHANGED <<role, term, votedFor, logEntries, commitIndex, disk, mu,
                   voteHistory, leaderVars, applyVars, ballotVars, startVars,
                   voteNet, appendNet, budgetVars>>
---------------------------------------------------------------------------
(* The RequestVote handler.                                                *)

LogOutdated(m, log) ==
    \/ m.lastLogTerm < lastLogTerm(log)
    \/ m.lastLogTerm = lastLogTerm(log) /\ m.lastLogIndex < lastLogIndex(log)

\* Mutant: every request resets votedFor, not only one with a higher term.
VoteAlwaysReset(i, m) == None

\* votedFor after the handler's term update.
VoteHeld(i, m) == IF m.term > term[i] THEN None ELSE votedFor[i]

\* Mutant: without the check of votedFor.
GrantsAgain(i, m) ==
    /\ m.term >= term[i]
    /\ ~LogOutdated(m, logEntries[i])
    /\ role[i] = "Leader" => m.term > term[i]

Grants(i, m) ==
    /\ m.term >= term[i]
    /\ ~LogOutdated(m, logEntries[i])
    /\ role[i] = "Leader" => m.term > term[i]
    /\ VoteHeld(i, m) \in {None, m.from}

\* The answer carries the term the server had when the request arrived.
RequestVote(m) ==
    LET i == m.to
        grant == Grants(i, m)
        higher == m.term > term[i]
    IN  /\ m \in voteRequests /\ mu[i] = "free"
        /\ term' = [term EXCEPT ![i] = IF higher THEN m.term ELSE @]
        /\ votedFor' = [votedFor EXCEPT
                          ![i] = IF grant THEN m.from ELSE VoteHeld(i, m)]
        /\ role' = [role EXCEPT ![i] = IF higher \/ grant THEN "Follower" ELSE @]
        /\ granted' = IF grant
                      THEN granted \cup {[voter |-> i, term |-> m.term,
                                          candidate |-> m.from]}
                      ELSE granted
        /\ voteRequests' = voteRequests \ {m}
        /\ voteReplies' = IF Live(m)
                          THEN voteReplies \cup
                                 {[req |-> m, term |-> term[i], granted |-> grant]}
                          ELSE voteReplies
        /\ UNCHANGED <<logEntries, commitIndex, mu, won, leaderVars, applyVars,
                       routineVars, startVars, appendNet, budgetVars>>
        /\ persist(i)
---------------------------------------------------------------------------
(* SendHeartbeat, called for every peer in turn by two goroutines.         *)

\* GetState in the heartbeat goroutine.  Leadership is not looked at again
\* before the loop over rf.peers ends.
TickerFires(i) ==
    /\ nextPeer[i]["ticker"] = N /\ mu[i] = "free" /\ i \in Ticker
    /\ role[i] = "Leader"
    /\ nextPeer' = [nextPeer EXCEPT ![i]["ticker"] = 0]
    /\ UNCHANGED <<role, term, votedFor, logEntries, commitIndex, disk, mu,
                   voteHistory, leaderVars, applyVars, elector, ballotVars,
                   startVars, voteNet, appendNet, budgetVars>>

\* The server's own turn in the loop.
HeartbeatSelf(i, g) ==
    /\ nextPeer[i][g] = i /\ mu[i] = "free"
    /\ nextPeer' = [nextPeer EXCEPT ![i][g] = @ + 1]
    /\ UNCHANGED <<role, term, votedFor, logEntries, commitIndex, mu, voteHistory,
                   leaderVars, applyVars, elector, ballotVars, startVars,
                   voteNet, appendNet, budgetVars>>
    /\ persist(i)

SendHeartbeat(i, g) ==
    LET j == nextPeer[i][g]
        out == getAppendLogs(logEntries[i], nextIndex[i][j])
    IN  /\ j \in Server \ {i} /\ mu[i] = "free"
        /\ appendRequests' = appendRequests \cup
              {[from |-> i, to |-> j, term |-> term[i],
                prevLogIndex |-> out.prevIndex, prevLogTerm |-> out.prevTerm,
                entries |-> out.entries, leaderCommit |-> commitIndex[i],
                late |-> 0]}
        /\ mu' = [mu EXCEPT ![i] = g]
        /\ UNCHANGED <<role, term, votedFor, logEntries, commitIndex, disk,
                       voteHistory, leaderVars, applyVars, routineVars, startVars,
                       voteNet, appendReplies, budgetVars>>

\* SendHeartbeat returns and the loop goes on to the next peer.
Return(i) ==
    /\ mu' = [mu EXCEPT ![i] = "free"]
    /\ nextPeer' = [nextPeer EXCEPT ![i][mu[i]] = @ + 1]
    /\ UNCHANGED <<votedFor, logEntries, voteHistory, applyVars, elector,
                   ballotVars, startVars, voteNet, appendRequests>>
    /\ persist(i)

\* The answer has a higher term.
HeartbeatStepDown(r) ==
    LET i == r.req.from
    IN  /\ r \in appendReplies /\ r.term > term[i]
        /\ appendReplies' = appendReplies \ {r}
        /\ term' = [term EXCEPT ![i] = r.term]
        /\ role' = [role EXCEPT ![i] = "Follower"]
        /\ UNCHANGED <<commitIndex, leaderVars, budgetVars>>
        /\ Return(i)

\* Whether an answer makes the sender count matchIndex again.
CountsMatches(r, t) ==
    r.req.entries # << >> /\ r.success /\ r.req.entries[1].term = t

\* Mutant: a NextIndex that the handler did not set is taken for a position.
ReplyWithoutZeroCheck(r) ==
    LET i == r.req.from
    IN  /\ r \in appendReplies /\ r.term <= term[i]
        /\ appendReplies' = appendReplies \ {r}
        /\ nextIndex' = [nextIndex EXCEPT ![i][r.req.to] = r.nextIndex]
        /\ matchIndex' = [matchIndex EXCEPT ![i][r.req.to] = r.nextIndex - 1]
        /\ UNCHANGED <<role, term, commitIndex, budgetVars>>
        /\ Return(i)

\* nextIndex and matchIndex follow the NextIndex of the answer, also when it
\* is a refusal; 0 means that the handler set none.
HeartbeatReply(r) ==
    LET i == r.req.from
        j == r.req.to
        match == IF r.nextIndex = 0 THEN matchIndex[i]
                 ELSE [matchIndex[i] EXCEPT ![j] = r.nextIndex - 1]
    IN  /\ r \in appendReplies /\ r.term <= term[i]
        /\ appendReplies' = appendReplies \ {r}
        /\ nextIndex' = [nextIndex EXCEPT
                           ![i][j] = IF r.nextIndex = 0 THEN @ ELSE r.nextIndex]
        /\ matchIndex' = [matchIndex EXCEPT ![i] = match]
        /\ commitIndex' = [commitIndex EXCEPT
              ![i] = IF CountsMatches(r, term[i])
                     THEN commitLog(logEntries[i], @, match) ELSE @]
        /\ UNCHANGED <<role, term, budgetVars>>
        /\ Return(i)

\* The call fails or times out.  Its result is not looked at, and the reply
\* is still all zero.
HeartbeatNoReply(i) ==
    /\ mu[i] # "free" /\ elector[i] # "campaign" /\ AppendCalls(i) = {}
    /\ UNCHANGED <<role, term, commitIndex, leaderVars, appendReplies, budgetVars>>
    /\ Return(i)

\* The call times out while the answer is being decoded into the reply that
\* the sender then reads: it sees Success but still the old NextIndex.
HeartbeatTornReply(r) ==
    LET i == r.req.from
    IN  /\ r \in appendReplies /\ CountsMatches(r, term[i])
        /\ lostReplies < MaxLostReply
        /\ lostReplies' = lostReplies + 1
        /\ appendReplies' = appendReplies \ {r}
        /\ commitIndex' = [commitIndex EXCEPT
              ![i] = commitLog(logEntries[i], @, matchIndex[i])]
        /\ UNCHANGED <<role, term, leaderVars, lates, crashes>>
        /\ Return(i)
---------------------------------------------------------------------------
(* The AppendEntries handler, one action for each way it can return.       *)

PrevMismatch(m, log) ==
    /\ m.prevLogIndex > 0 /\ m.prevLogIndex <= Len(log) - 1
    /\ Slot(log, m.prevLogIndex).term # m.prevLogTerm

Conflicts(m, log) ==
    {k \in DOMAIN m.entries :
        /\ m.entries[k].index < Len(log)
        /\ Slot(log, m.entries[k].index).term # m.entries[k].term}

\* Mutant: a gap before the new entries is not noticed.
NeverMissing(m, log) == FALSE

PrevMissing(m, log) == m.prevLogIndex > Len(log) - 1

\* What all the returns have in common; the reply's zero fields are spelled
\* out by the caller.
Answer(m, t, ok, next) ==
    /\ m \in appendRequests /\ mu[m.to] = "free"
    /\ appendRequests' = appendRequests \ {m}
    /\ appendReplies' = IF Live(m)
                        THEN appendReplies \cup
                               {[req |-> m, term |-> t, success |-> ok,
                                 nextIndex |-> next]}
                        ELSE appendReplies
    /\ UNCHANGED <<votedFor, mu, voteHistory, leaderVars, applyVars, routineVars,
                   startVars, voteNet, budgetVars>>
    /\ persist(m.to)

\* A higher term is adopted and the entries are refused; votedFor stays.
AppendHigherTerm(m) ==
    /\ m.term > term[m.to]
    /\ term' = [term EXCEPT ![m.to] = m.term]
    /\ role' = [role EXCEPT ![m.to] = "Follower"]
    /\ UNCHANGED <<logEntries, commitIndex>>
    /\ Answer(m, m.term, FALSE, 0)

AppendLowerTerm(m) ==
    /\ m.term < term[m.to]
    /\ UNCHANGED <<role, term, logEntries, commitIndex>>
    /\ Answer(m, term[m.to], FALSE, 0)

\* The handler goes on to the log checks, whatever the receiver's role.
SameTerm(m) == m.term = term[m.to] /\ UNCHANGED <<role, term>>

AppendPrevMismatch(m) ==
    /\ SameTerm(m)
    /\ PrevMismatch(m, logEntries[m.to])
    /\ logEntries' = [logEntries EXCEPT ![m.to] = Keep(@, m.prevLogIndex)]
    /\ UNCHANGED commitIndex
    /\ Answer(m, 0, FALSE, m.prevLogIndex)

AppendConflict(m) ==
    /\ SameTerm(m)
    /\ ~PrevMismatch(m, logEntries[m.to])
    /\ Conflicts(m, logEntries[m.to]) # {}
    /\ LET at == m.entries[Min(Conflicts(m, logEntries[m.to]))].index
       IN  /\ logEntries' = [logEntries EXCEPT ![m.to] = Keep(@, at)]
           /\ UNCHANGED commitIndex
           /\ Answer(m, 0, FALSE, at)

AppendPrevMissing(m) ==
    /\ SameTerm(m)
    /\ Conflicts(m, logEntries[m.to]) = {}
    /\ PrevMissing(m, logEntries[m.to])
    /\ UNCHANGED <<logEntries, commitIndex>>
    /\ Answer(m, 0, FALSE, Len(logEntries[m.to]))

\* Mutant: the leader's commit index is taken over even when it is behind.
FollowBackwards(commit, leaderCommit, last) == Min({leaderCommit, last})

\* The commit index a receiver takes over, given its new last slot.
FollowCommit(commit, leaderCommit, last) ==
    IF leaderCommit > commit
    THEN IF leaderCommit > last THEN last ELSE leaderCommit
    ELSE commit

\* All entries are appended, those the log already holds included.
AppendAccepted(m) ==
    LET log == logEntries[m.to] \o m.entries
    IN  /\ SameTerm(m)
        /\ ~PrevMismatch(m, logEntries[m.to])
        /\ Conflicts(m, logEntries[m.to]) = {}
        /\ ~PrevMissing(m, logEntries[m.to])
        /\ logEntries' = [logEntries EXCEPT ![m.to] = log]
        /\ commitIndex' = [commitIndex EXCEPT
              ![m.to] = FollowCommit(@, m.leaderCommit, Len(log) - 1)]
        /\ Answer(m, 0, TRUE, Len(log))

AppendEntries(m) ==
    \/ AppendHigherTerm(m) \/ AppendLowerTerm(m) \/ AppendPrevMismatch(m)
    \/ AppendConflict(m) \/ AppendPrevMissing(m) \/ AppendAccepted(m)
---------------------------------------------------------------------------
(* Clients and the apply goroutine.                                        *)

\* Start up to the return of GetState.
StartCheck(i, c) ==
    /\ mu[i] = "free" /\ role[i] = "Leader" /\ c \in unissued
    /\ unissued' = unissued \ {c}
    /\ starts' = starts \cup {[server |-> i, command |-> c, term |-> term[i]]}
    /\ UNCHANGED <<role, term, votedFor, logEntries, commitIndex, disk, mu,
                   voteHistory, leaderVars, applyVars, routineVars, voteNet,
                   appendNet, budgetVars>>

\* The rest of Start, after it locked again.
StartAppend(s) ==
    LET i == s.server
        index == lastLogIndex(logEntries[i]) + 1
    IN  /\ s \in starts /\ mu[i] = "free"
        /\ starts' = starts \ {s}
        /\ logEntries' = [logEntries EXCEPT
              ![i] = Append(@, [term |-> term[i], index |-> index,
                                command |-> s.command])]
        /\ matchIndex' = [matchIndex EXCEPT ![i][i] = index]
        /\ UNCHANGED <<role, term, votedFor, commitIndex, mu, voteHistory,
                       nextIndex, applyVars, routineVars, unissued, voteNet,
                       appendNet, budgetVars>>
        /\ persist(i)

\* Mutant: the entry is read before lastApplied moves.
AppliesSlotBefore(i) ==
    /\ mu[i] = "free"
    /\ lastApplied[i] < commitIndex[i]
    /\ lastApplied' = [lastApplied EXCEPT ![i] = @ + 1]
    /\ delivered' = delivered \cup
          {[index |-> lastApplied[i] + 1,
            command |-> Slot(logEntries[i], lastApplied[i]).command]}
    /\ UNCHANGED <<role, term, votedFor, logEntries, commitIndex, disk, mu,
                   voteHistory, leaderVars, routineVars, startVars, voteNet,
                   appendNet, budgetVars>>

\* One round of the apply goroutine.  A round that reads a slot beyond the log
\* ends the process with an index panic and is no step: a behaviour that comes
\* to one is followed up to it.
Apply(i) ==
    /\ mu[i] = "free"
    /\ lastApplied[i] < commitIndex[i] /\ lastApplied[i] + 1 < Len(logEntries[i])
    /\ lastApplied' = [lastApplied EXCEPT ![i] = @ + 1]
    /\ delivered' = delivered \cup
          {[index |-> lastApplied[i] + 1,
            command |-> Slot(logEntries[i], lastApplied[i] + 1).command]}
    /\ UNCHANGED <<role, term, votedFor, logEntries, commitIndex, disk, mu,
                   voteHistory, leaderVars, routineVars, startVars, voteNet,
                   appendNet, budgetVars>>
---------------------------------------------------------------------------
(* Faults.  A call ends at its RPCTimeout at the latest.  The request may  *)
(* be lost, may still wait for the peer's lock and run later without       *)
(* anyone reading the answer, or the answer may be lost or late.           *)

\* Mutant: without RPCTimeout a call lasts as long as its handler waits.
WaitsForHandler(m) ==
    /\ m \in voteRequests /\ Live(m) /\ mu[m.to] = "free"
    /\ voteRequests' = voteRequests \ {m}
    /\ UNCHANGED <<role, term, votedFor, logEntries, commitIndex, disk, mu,
                   voteHistory, leaderVars, applyVars, routineVars, startVars,
                   voteReplies, appendNet, budgetVars>>

LoseVoteRequest(m) ==
    /\ m \in voteRequests /\ Live(m)
    /\ voteRequests' = voteRequests \ {m}
    /\ UNCHANGED <<role, term, votedFor, logEntries, commitIndex, disk, mu,
                   voteHistory, leaderVars, applyVars, routineVars, startVars,
                   voteReplies, appendNet, budgetVars>>

LoseAppendRequest(m) ==
    /\ m \in appendRequests /\ Live(m)
    /\ appendRequests' = appendRequests \ {m}
    /\ UNCHANGED <<role, term, votedFor, logEntries, commitIndex, disk, mu,
                   voteHistory, leaderVars, applyVars, routineVars, startVars,
                   voteNet, appendReplies, budgetVars>>

\* The request outlives the caller's patience.  The tag keeps apart two such
\* requests with the same contents.
Outlive(m) == [m EXCEPT !.late = lates + 1]

VoteTimeout(m) ==
    /\ m \in voteRequests /\ Live(m) /\ lates < MaxLate
    /\ lates' = lates + 1
    /\ voteRequests' = (voteRequests \ {m}) \cup {Outlive(m)}
    /\ UNCHANGED <<role, term, votedFor, logEntries, commitIndex, disk, mu,
                   voteHistory, leaderVars, applyVars, routineVars, startVars,
                   voteReplies, appendNet, lostReplies, crashes>>

AppendTimeout(m) ==
    /\ m \in appendRequests /\ Live(m) /\ lates < MaxLate
    /\ lates' = lates + 1
    /\ appendRequests' = (appendRequests \ {m}) \cup {Outlive(m)}
    /\ UNCHANGED <<role, term, votedFor, logEntries, commitIndex, disk, mu,
                   voteHistory, leaderVars, applyVars, routineVars, startVars,
                   voteNet, appendReplies, lostReplies, crashes>>

LoseVoteReply(r) ==
    /\ r \in voteReplies /\ lostReplies < MaxLostReply
    /\ lostReplies' = lostReplies + 1
    /\ voteReplies' = voteReplies \ {r}
    /\ UNCHANGED <<role, term, votedFor, logEntries, commitIndex, disk, mu,
                   voteHistory, leaderVars, applyVars, routineVars, startVars,
                   voteRequests, appendNet, lates, crashes>>

LoseAppendReply(r) ==
    /\ r \in appendReplies /\ lostReplies < MaxLostReply
    /\ lostReplies' = lostReplies + 1
    /\ appendReplies' = appendReplies \ {r}
    /\ UNCHANGED <<role, term, votedFor, logEntries, commitIndex, disk, mu,
                   voteHistory, leaderVars, applyVars, routineVars, startVars,
                   voteNet, appendRequests, lates, crashes>>

\* What a crash of server i leaves of the requests: those to i are gone,
\* and its own may still reach their receivers.
AfterCrash(requests, i, tag) ==
    {m \in requests : m.to # i /\ (m.from = i => ~Live(m))}
      \cup IF lates < MaxLate
           THEN {[m EXCEPT !.late = tag] :
                    m \in {m \in requests : m.from = i /\ Live(m)}}
           ELSE {}

Uninvolved(replies, i) == {r \in replies : r.req.from # i /\ r.req.to # i}

\* A crash, and Make with readPersist afterwards.  labrpc drops the answers
\* of a deleted server.
Crash(i) ==
    /\ i \in Crasher /\ crashes < MaxCrash
    /\ crashes' = crashes + 1
    /\ role' = [role EXCEPT ![i] = "Follower"]
    /\ term' = [term EXCEPT ![i] = disk[i].term]
    /\ votedFor' = [votedFor EXCEPT ![i] = disk[i].votedFor]
    /\ logEntries' = [logEntries EXCEPT ![i] = disk[i].log]
    /\ commitIndex' = [commitIndex EXCEPT ![i] = 0]
    /\ lastApplied' = [lastApplied EXCEPT ![i] = 0]
    /\ nextIndex' = [nextIndex EXCEPT ![i] = [j \in Server |-> 0]]
    /\ matchIndex' = [matchIndex EXCEPT ![i] = [j \in Server |-> 0]]
    /\ mu' = [mu EXCEPT ![i] = "free"]
    /\ elector' = [elector EXCEPT ![i] = "select"]
    /\ campaign' = [campaign EXCEPT ![i] = 0]
    /\ voteCount' = [voteCount EXCEPT ![i] = 0]
    /\ nextPeer' = [nextPeer EXCEPT ![i] = [g \in Routine |-> N]]
    /\ starts' = {s \in starts : s.server # i}
    /\ voteRequests' = AfterCrash(voteRequests, i, lates + 1)
    /\ appendRequests' = AfterCrash(appendRequests, i, lates + 1)
    /\ voteReplies' = Uninvolved(voteReplies, i)
    /\ appendReplies' = Uninvolved(appendReplies, i)
    /\ lates' = IF lates < MaxLate /\ mu[i] # "free" THEN lates + 1 ELSE lates
    /\ UNCHANGED <<disk, voteHistory, delivered, unissued, lostReplies>>
---------------------------------------------------------------------------
Election(i) ==
    \/ LeaderTimerFires(i) \/ startElection(i) \/ ElectionWon(i)
    \/ ElectionLost(i) \/ AfterLost(i) \/ AfterWon(i)

Heartbeat(i) ==
    \/ TickerFires(i) \/ HeartbeatNoReply(i)
    \/ \E g \in Routine : HeartbeatSelf(i, g) \/ SendHeartbeat(i, g)

VoteNet ==
    \/ \E m \in voteRequests : RequestVote(m) \/ LoseVoteRequest(m) \/ VoteTimeout(m)
    \/ \E r \in voteReplies : VoteReply(r) \/ LoseVoteReply(r)

AppendNet ==
    \/ \E m \in appendRequests :
          AppendEntries(m) \/ LoseAppendRequest(m) \/ AppendTimeout(m)
    \/ \E r \in appendReplies :
          \/ HeartbeatStepDown(r) \/ HeartbeatReply(r)
          \/ HeartbeatTornReply(r) \/ LoseAppendReply(r)

Client ==
    \/ \E i \in Server, c \in Command : StartCheck(i, c)
    \/ \E s \in starts : StartAppend(s)

Next ==
    \/ \E i \in Server : Election(i) \/ Heartbeat(i) \/ Apply(i) \/ Crash(i)
    \/ VoteNet \/ AppendNet \/ Client

Spec == Init /\ [][Next]_vars
---------------------------------------------------------------------------
(* Types.                                                                  *)

\* Index 0 is the placeholder's, and slot 0 of a log is never cut or replaced.
Entry == {e \in [term : Nat, index : Nat, command : Command \cup {NoCommand}] :
             e.index = 0 => e.term = 0}
Log == {log \in Seq(Entry) : Len(log) > 0 /\ log[1].term = 0}
VoteRequest == [from : Server, to : Server, term : Nat, lastLogIndex : Nat,
                lastLogTerm : Nat, late : Nat]
AppendRequest == [from : Server, to : Server, term : Nat, prevLogIndex : Nat,
                  prevLogTerm : Nat, entries : Seq(Entry),
                  leaderCommit : Nat, late : Nat]
VoteAnswer == [req : VoteRequest, term : Nat, granted : BOOLEAN]
AppendAnswer == [req : AppendRequest, term : Nat, success : BOOLEAN,
                 nextIndex : Nat]

\* rf's fields, the Persister, the goroutines, clients, RPCs, and the rest.
FieldsOK ==
    /\ role \in [Server -> Role]
    /\ term \in [Server -> Nat]
    /\ votedFor \in [Server -> Server \cup {None}]
    /\ logEntries \in [Server -> Log]
    /\ commitIndex \in [Server -> Nat]
    /\ lastApplied \in [Server -> Nat]
    /\ nextIndex \in [Server -> [Server -> Nat]]
    /\ matchIndex \in [Server -> [Server -> Nat]]
DiskOK == disk \in [Server -> [term : Nat, votedFor : Server \cup {None}, log : Log]]
RoutinesOK ==
    /\ mu \in [Server -> Routine \cup {"free"}]
    /\ elector \in [Server -> {"select", "campaign", "failed", "elected"}]
    /\ campaign \in [Server -> Nat]
    /\ voteCount \in [Server -> Nat]
    /\ nextPeer \in [Server -> [Routine -> 0 .. N]]
ClientOK ==
    /\ starts \subseteq [server : Server, command : Command, term : Nat]
    /\ unissued \subseteq Command
CallsOK ==
    /\ voteRequests \subseteq VoteRequest
    /\ voteReplies \subseteq VoteAnswer
    /\ appendRequests \subseteq AppendRequest
    /\ appendReplies \subseteq AppendAnswer
BudgetsOK ==
    /\ lates \in 0 .. MaxLate
    /\ lostReplies \in 0 .. MaxLostReply
    /\ crashes \in 0 .. MaxCrash
HistoryOK ==
    /\ granted \subseteq [voter : Server, term : Nat, candidate : Server]
    /\ won \subseteq [server : Server, term : Nat]
    /\ delivered \subseteq [index : Nat, command : Command \cup {NoCommand}]

\* The type of every variable.
TypeOK ==
    /\ FieldsOK /\ DiskOK /\ RoutinesOK /\ ClientOK /\ CallsOK
    /\ BudgetsOK /\ HistoryOK
---------------------------------------------------------------------------
(* Properties of elections and of what is on disk.                         *)

\* A server grants its vote in a term to one candidate at most, whatever is
\* lost, late or crashes: RequestVote saves the vote before it answers, and
\* nothing erases a vote that was given to another server in that term.  What a
\* candidate gives itself is no answer of RequestVote and is not counted.
VoteOncePerTerm ==
    \A g, h \in granted :
        g.voter = h.voter /\ g.term = h.term => g.candidate = h.candidate

\* Two servers win the election of one term only if one of them, a former
\* winner that forgot its own vote (changeRole resets votedFor), then voted
\* for the other.  Servers that only vote never cause it.
WinnersClash ==
    \A w, x \in won :
        w.term = x.term /\ w.server # x.server =>
            \E g \in granted : /\ g.term = w.term
                               /\ {g.voter, g.candidate} = {w.server, x.server}

\* Outside an election a crash loses nothing: term, votedFor and the log in
\* memory are those that readPersist would restore.
DiskIsMemory ==
    \A i \in Server :
        elector[i] # "campaign" =>
            disk[i] = [term |-> term[i], votedFor |-> votedFor[i],
                       log |-> logEntries[i]]

\* At most one leader in a term, which checkOneLeader of the tester demands:
\* what startElection, whose goroutines overwrite rf.term, has to ensure.
OneLeaderPerTerm ==
    \A i, j \in Server :
        role[i] = "Leader" /\ role[j] = "Leader" /\ term[i] = term[j] => i = j
---------------------------------------------------------------------------
(* Properties of replication.                                              *)

\* Two servers never apply different commands at one index, which start1 of
\* the tester checks on every applyCh: what AppendEntries and commitLog have
\* to ensure.
StateMachineSafety ==
    \A d, e \in delivered : d.index = e.index => d.command = e.command

\* What any apply goroutine has sent on applyCh is in that slot on the disks of
\* a majority, so that commitLog counts servers that really saved the entry.
AppliedIsDurable ==
    \A d \in delivered :
        Majority(Cardinality(
            {i \in Server : /\ d.index < Len(disk[i].log)
                            /\ Slot(disk[i].log, d.index).command = d.command}))

\* commitIndex never goes back and never passes the end of the log, so the
\* apply goroutine never reads a slot that is not there.
CommitGrowsInLog ==
    [][\A i \in Server :
          /\ commitIndex'[i] >= commitIndex[i] \/ crashes' # crashes
          /\ commitIndex'[i] < Len(logEntries'[i])]_vars

\* A round of heartbeats never slices the log beyond its end (logEntries[nextIdx:]
\* in getAppendLogs would panic) and always finds the entry before nextIndex,
\* although lost answers make followers append entries twice, so that slots
\* and indexes drift apart, and a round goes on after the sender's log was cut.
SendInRange ==
    \A i \in Server, g \in Routine :
        LET j == nextPeer[i][g]
        IN  j \in Server \ {i} =>
                /\ nextIndex[i][j] >= 1
                /\ lastLogIndex(logEntries[i]) >= nextIndex[i][j] =>
                       nextIndex[i][j] < Len(logEntries[i])

\* Terms in a saved log never exceed the saved term, so a restarted server
\* does not hold entries from the future of its own term.
EntryTermSaved ==
    \A i \in Server : \A k \in DOMAIN disk[i].log :
        disk[i].log[k].term <= disk[i].term

\* What an apply goroutine sends was passed to Start by a client, and is never
\* the placeholder of slot 0, although lost answers, cuts and restarts move
\* entries away from the slot that their Index names.
AppliedWasStarted ==
    \A d \in delivered : d.index >= 1 /\ d.command \in Command \ unissued

\* Only a server that is leader appends a client's command to its log: Start
\* asks GetState, and locks rf.mu again before it appends.
StartByLeader ==
    [][\A s \in starts \ starts' :
          role[s.server] = "Leader" \/ crashes' # crashes]_vars
---------------------------------------------------------------------------
(* Fairness.  A call that waits ends, by an answer or by its RPCTimeout,   *)
(* and a goroutine that holds rf.mu goes on when it can.                   *)

CallsEnd ==
    \A i \in Server :
        /\ WF_vars(\E m \in voteRequests : m.from = i /\ LoseVoteRequest(m))
        /\ WF_vars(\E m \in appendRequests : m.from = i /\ LoseAppendRequest(m))
        /\ WF_vars(\E r \in voteReplies : r.req.from = i /\ VoteReply(r))
        /\ WF_vars(\E r \in appendReplies :
                      r.req.from = i /\ (HeartbeatStepDown(r) \/ HeartbeatReply(r)))
        /\ WF_vars(ElectionWon(i) \/ ElectionLost(i) \/ HeartbeatNoReply(i))

CallSpec == Spec /\ CallsEnd

\* Servers that wait for each other inside their critical sections do not
\* wait for ever: every rf.mu that is kept over an RPC is released.
LocksReleased == \A i \in Server : mu[i] # "free" ~> mu[i] = "free"

(* A goroutine that keeps asking for rf.mu gets it (a Go mutex that was    *)
(* waited for long enough is handed over in order), the heartbeat          *)
(* goroutine of a leader wakes up again and again, and the network does    *)
(* not lose every request of a sender to a receiver.                       *)
Progress ==
    /\ \A i \in Server :
          /\ WF_vars(TickerFires(i)) /\ SF_vars(Apply(i))
          /\ WF_vars(\E g \in Routine : HeartbeatSelf(i, g) \/ SendHeartbeat(i, g))
          /\ SF_vars(\E m \in appendRequests : m.to = i /\ AppendEntries(m))
    /\ \A i \in Campaigner : SF_vars(AfterWon(i) \/ AfterLost(i))
    /\ SF_vars(\E s \in starts : StartAppend(s))

ProgressSpec == CallSpec /\ Progress

Applied(i, c) ==
    \E k \in 1 .. lastApplied[i] : Slot(logEntries[i], k).command = c

\* While a leader stays leader, a command it took through Start is applied by
\* every server: heartbeats carry the entry, the answers make commitLog count
\* it, and later heartbeats carry the commit index to the others.  This holds
\* with one command and one term: with two of each the commit may never come,
\* which is the behaviour that breaks CoveredIsCommitted.
StartedIsApplied ==
    \A i \in Server, c \in Command :
        (\E s \in starts : s.server = i /\ s.command = c)
            ~> (role[i] # "Leader" \/ \A j \in Server : Applied(j, c))

\* Leader Rule 4: an entry of the leader's term that a majority of
\* matchIndex covers gets committed, unless the leader loses its role.
CoveredIsCommitted ==
    \A i \in Server, k \in 1 .. Cardinality(Command) :
        (/\ role[i] = "Leader" /\ k < Len(logEntries[i])
         /\ Slot(logEntries[i], k).term = term[i]
         /\ Majority(Cardinality({j \in Server : matchIndex[i][j] >= k})))
            ~> (role[i] # "Leader" \/ commitIndex[i] >= k)
===========================================================================
