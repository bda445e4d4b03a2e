---------------------------- MODULE RaftLocks -----------------------------
(***************************************************************************)
(* Who holds rf.mu, which calls are waited for, and when nextIndex is set: *)
(* every step keeps these parts of the inductive invariant.                *)
(***************************************************************************)
EXTENDS RaftTypes

USE DEF leaderVars, applyVars, ballotVars, routineVars, voteHistory, startVars,
        voteNet, appendNet, budgetVars
USE ZenonT(25), SMTT(20)

\* What the steps below use of the calls in flight.
LEMMA CallServers ==
    ASSUME IInv
    PROVE  /\ \A m \in voteRequests : /\ m \in VoteRequest /\ m.term \in Nat
                                      /\ m.from \in Server /\ m.to \in Server
           /\ \A r \in voteReplies : /\ r.req.from \in Server /\ r.req.to \in Server
                                     /\ r.req \in VoteRequest /\ r.term \in Nat
           /\ \A m \in appendRequests : /\ m \in AppendRequest /\ m.term \in Nat
                                        /\ m.from \in Server /\ m.to \in Server
           /\ \A r \in appendReplies :
                 /\ r.req.from \in Server /\ r.req.to \in Server
                 /\ r.req \in AppendRequest /\ r.term \in Nat /\ r.nextIndex \in Nat
BY CallFields, VoteRequestFields, AppendRequestFields DEF IInv, TypeOK

\* A server that waits inside SendHeartbeat is in a loop over rf.peers, and
\* its nextIndex is set.
LEMMA SendingLoop ==
    ASSUME IInv, NEW i \in Server, Sending(i)
    PROVE  /\ mu[i] \in Routine /\ nextPeer[i][mu[i]] \in Server
           /\ \A j \in Server : nextIndex[i][j] >= 1
<1>1. mu[i] \in Routine
  BY DEF IInv, TypeOK, RoutinesOK, Sending
<1>2. nextPeer[i][mu[i]] \in Server
  BY DEF IInv, LockInv, Sending
<1>3. nextPeer[i][mu[i]] # N
  BY <1>2, NAssumption DEF Server
<1>4. QED
  BY <1>1, <1>2, <1>3 DEF IInv, NextInv

\* A server with nextIndex set keeps NextInv, whatever else it changes.
LEMMA NextKeeps ==
    ASSUME NextInv, NEW i \in Server, \A j \in Server : nextIndex'[i][j] >= 1,
           \A j \in Server \ {i} : /\ nextIndex'[j] = nextIndex[j] /\ role'[j] = role[j]
                                   /\ elector'[j] = elector[j] /\ nextPeer'[j] = nextPeer[j]
    PROVE  NextInv'
<1>1. ASSUME NEW k \in Server \ {i}
      PROVE  \/ \A j \in Server : nextIndex'[k][j] >= 1
             \/ /\ role'[k] # "Leader" /\ elector'[k] # "elected"
                /\ \A g \in Routine : nextPeer'[k][g] = N
  <2>1. \/ \A j \in Server : nextIndex[k][j] >= 1
        \/ /\ role[k] # "Leader" /\ elector[k] # "elected"
           /\ \A g \in Routine : nextPeer[k][g] = N
    BY DEF NextInv
  <2>2. /\ nextIndex'[k] = nextIndex[k] /\ role'[k] = role[k]
        /\ elector'[k] = elector[k] /\ nextPeer'[k] = nextPeer[k]
    OBVIOUS
  <2>3. QED
    BY <2>1, <2>2
<1>2. QED
  BY <1>1 DEF NextInv

\* Every step keeps NextInv: changeRole sets nextIndex before a loop over
\* rf.peers can start, and only a crash unsets it.
LEMMA NextStep ==
    ASSUME IInv, [Next]_vars
    PROVE  NextInv'
<1>inv. FieldsOK /\ RoutinesOK /\ ClientOK /\ NextInv
  BY DEF IInv, TypeOK
<1>votes. /\ \A m \in voteRequests : m.to \in Server
          /\ \A r \in voteReplies : r.req.from \in Server
          /\ \A m \in appendRequests : m.to \in Server
  BY CallServers
<1>calls. ASSUME NEW r \in appendReplies
          PROVE  /\ r.req.from \in Server /\ r.req.to \in Server /\ r.nextIndex \in Nat
                 /\ \A j \in Server : nextIndex[r.req.from][j] >= 1
  BY CallServers, SendingLoop DEF IInv, AppendCallInv
<1>1. ASSUME NEW i \in Server, Election(i) PROVE NextInv'
  <2>1. CASE LeaderTimerFires(i)
    BY <2>1, <1>inv, <1>votes DEF LeaderTimerFires, persist, NextInv,
       FieldsOK, RoutinesOK, ClientOK
  <2>2. CASE startElection(i)
    BY <2>2, <1>inv, <1>votes DEF startElection, NextInv, FieldsOK,
       RoutinesOK, ClientOK
  <2>3. CASE ElectionWon(i)
    <3>1. lastLogIndex(logEntries[i]) \in Nat
      BY <1>inv, LastEntry DEF FieldsOK
    <3>2. nextIndex'[i] = FreshNextIndex(logEntries[i])
      BY <2>3, <1>inv DEF ElectionWon, FieldsOK
    <3>3. \A j \in Server : nextIndex'[i][j] >= 1
      BY <3>1, <3>2 DEF FreshNextIndex
    <3>4. \A j \in Server \ {i} : /\ nextIndex'[j] = nextIndex[j] /\ role'[j] = role[j]
                                  /\ elector'[j] = elector[j] /\ nextPeer'[j] = nextPeer[j]
      <4>1. /\ nextIndex' = [nextIndex EXCEPT ![i] = FreshNextIndex(logEntries[i])]
            /\ role' = [role EXCEPT ![i] = "Leader"]
            /\ elector' = [elector EXCEPT ![i] = "elected"] /\ nextPeer' = nextPeer
        BY <2>3 DEF ElectionWon
      <4>2. QED
        BY <4>1, <1>inv DEF FieldsOK, RoutinesOK
    <3>5. QED
      BY <1>inv, <3>3, <3>4, NextKeeps
  <2>4. CASE ElectionLost(i)
    BY <2>4, <1>inv, <1>votes DEF ElectionLost, persist, EndElection, NextInv,
       FieldsOK, RoutinesOK, ClientOK
  <2>5. CASE AfterLost(i)
    BY <2>5, <1>inv, <1>votes DEF AfterLost, NextInv, FieldsOK, RoutinesOK,
       ClientOK
  <2>6. CASE AfterWon(i)
    BY <2>6, <1>inv, <1>votes DEF AfterWon, NextInv, FieldsOK, RoutinesOK,
       ClientOK
  <2>7. QED
    BY <1>1, <2>1, <2>2, <2>3, <2>4, <2>5, <2>6 DEF Election
<1>2. ASSUME NEW i \in Server, Heartbeat(i) PROVE NextInv'
  <2>1. CASE TickerFires(i)
    BY <2>1, <1>inv, <1>votes DEF TickerFires, NextInv, FieldsOK, RoutinesOK,
       ClientOK
  <2>2. CASE HeartbeatNoReply(i)
    <3>1. \A j \in Server : nextIndex'[i][j] >= 1
      BY <2>2, SendingLoop DEF HeartbeatNoReply, Sending
    <3>2. QED
      BY <2>2, <1>inv, <3>1 DEF HeartbeatNoReply, Return, NextInv, FieldsOK,
         RoutinesOK
  <2>3. ASSUME NEW g \in Routine, HeartbeatSelf(i, g) PROVE NextInv'
    <3>1. nextPeer[i][g] # N
      BY <2>3, NAssumption DEF HeartbeatSelf, Server
    <3>2. \A j \in Server : nextIndex'[i][j] >= 1
      BY <2>3, <1>inv, <3>1 DEF HeartbeatSelf, NextInv
    <3>3. QED
      BY <2>3, <1>inv, <3>2 DEF HeartbeatSelf, NextInv, FieldsOK, RoutinesOK
  <2>4. ASSUME NEW g \in Routine, SendHeartbeat(i, g) PROVE NextInv'
    BY <2>4, <1>inv, <1>votes DEF SendHeartbeat, NextInv, FieldsOK,
       RoutinesOK, ClientOK
  <2>5. QED
    BY <1>2, <2>1, <2>2, <2>3, <2>4 DEF Heartbeat
<1>3. ASSUME NEW i \in Server, Apply(i) PROVE NextInv'
  BY <1>3, <1>inv, <1>votes DEF Apply, NextInv, FieldsOK, RoutinesOK, ClientOK
<1>4. ASSUME NEW i \in Server, Crash(i) PROVE NextInv'
  BY <1>4, <1>inv, <1>votes DEF Crash, AfterCrash, Uninvolved, NextInv,
     FieldsOK, RoutinesOK, ClientOK
<1>5. CASE VoteNet
  <2>1. ASSUME NEW m \in voteRequests, RequestVote(m) PROVE NextInv'
    BY <2>1, <1>inv, <1>votes DEF RequestVote, persist, VoteHeld, NextInv,
       FieldsOK, RoutinesOK, ClientOK
  <2>2. ASSUME NEW m \in voteRequests, LoseVoteRequest(m) PROVE NextInv'
    BY <2>2, <1>inv, <1>votes DEF LoseVoteRequest, NextInv, FieldsOK,
       RoutinesOK, ClientOK
  <2>3. ASSUME NEW m \in voteRequests, VoteTimeout(m) PROVE NextInv'
    BY <2>3, <1>inv, <1>votes DEF VoteTimeout, Outlive, NextInv, FieldsOK,
       RoutinesOK, ClientOK
  <2>4. ASSUME NEW r \in voteReplies, VoteReply(r) PROVE NextInv'
    BY <2>4, <1>inv, <1>votes DEF VoteReply, NextInv, FieldsOK, RoutinesOK,
       ClientOK
  <2>5. ASSUME NEW r \in voteReplies, LoseVoteReply(r) PROVE NextInv'
    BY <2>5, <1>inv, <1>votes DEF LoseVoteReply, NextInv, FieldsOK,
       RoutinesOK, ClientOK
  <2>6. QED
    BY <1>5, <2>1, <2>2, <2>3, <2>4, <2>5 DEF VoteNet
<1>6. ASSUME NEW m \in appendRequests, AppendEntries(m) PROVE NextInv'
  <2>1. CASE AppendHigherTerm(m)
    BY <2>1, <1>inv, <1>votes DEF AppendHigherTerm, persist, Answer, NextInv,
       FieldsOK, RoutinesOK, ClientOK
  <2>2. CASE AppendLowerTerm(m)
    BY <2>2, <1>inv, <1>votes DEF AppendLowerTerm, persist, Answer, NextInv,
       FieldsOK, RoutinesOK, ClientOK
  <2>3. CASE AppendPrevMismatch(m)
    BY <2>3, <1>inv, <1>votes DEF AppendPrevMismatch, persist, Answer,
       SameTerm, NextInv, FieldsOK, RoutinesOK, ClientOK
  <2>4. CASE AppendConflict(m)
    BY <2>4, <1>inv, <1>votes DEF AppendConflict, persist, Answer, SameTerm,
       NextInv, FieldsOK, RoutinesOK, ClientOK
  <2>5. CASE AppendPrevMissing(m)
    BY <2>5, <1>inv, <1>votes DEF AppendPrevMissing, persist, Answer,
       SameTerm, NextInv, FieldsOK, RoutinesOK, ClientOK
  <2>6. CASE AppendAccepted(m)
    BY <2>6, <1>inv, <1>votes DEF AppendAccepted, persist, Answer, SameTerm,
       NextInv, FieldsOK, RoutinesOK, ClientOK
  <2>7. QED
    BY <1>6, <2>1, <2>2, <2>3, <2>4, <2>5, <2>6 DEF AppendEntries
<1>7. CASE AppendNet
  <2>1. ASSUME NEW m \in appendRequests, LoseAppendRequest(m) PROVE NextInv'
    BY <2>1, <1>inv, <1>votes DEF LoseAppendRequest, NextInv, FieldsOK,
       RoutinesOK, ClientOK
  <2>2. ASSUME NEW m \in appendRequests, AppendTimeout(m) PROVE NextInv'
    BY <2>2, <1>inv, <1>votes DEF AppendTimeout, Outlive, NextInv, FieldsOK,
       RoutinesOK, ClientOK
  <2>3. ASSUME NEW r \in appendReplies, HeartbeatStepDown(r) PROVE NextInv'
    <3>1. \A j \in Server : nextIndex'[r.req.from][j] >= 1
      BY <2>3, <1>calls DEF HeartbeatStepDown
    <3>2. QED
      BY <2>3, <1>calls, <1>inv, <3>1 DEF HeartbeatStepDown, Return, NextInv,
         FieldsOK, RoutinesOK
  <2>4. ASSUME NEW r \in appendReplies, HeartbeatReply(r) PROVE NextInv'
    <3>1. \A j \in Server : nextIndex'[r.req.from][j] >= 1
      <4>1. nextIndex' = [nextIndex EXCEPT
               ![r.req.from][r.req.to] = IF r.nextIndex = 0 THEN @ ELSE r.nextIndex]
        BY <2>4 DEF HeartbeatReply
      <4>2. nextIndex'[r.req.from] = [nextIndex[r.req.from] EXCEPT
               ![r.req.to] = IF r.nextIndex = 0 THEN @ ELSE r.nextIndex]
        BY <4>1, <1>calls, <1>inv DEF FieldsOK
      <4>3. nextIndex[r.req.from] \in [Server -> Nat]
        BY <1>calls, <1>inv DEF FieldsOK
      <4>4. QED
        BY <4>2, <4>3, <1>calls
    <3>2. \A j \in Server \ {r.req.from} :
             /\ nextIndex'[j] = nextIndex[j] /\ role'[j] = role[j]
             /\ elector'[j] = elector[j] /\ nextPeer'[j] = nextPeer[j]
      BY <2>4, <1>inv, <1>calls DEF HeartbeatReply, Return, FieldsOK, RoutinesOK
    <3>3. QED
      BY <1>calls, <1>inv, <3>1, <3>2, NextKeeps
  <2>5. ASSUME NEW r \in appendReplies, HeartbeatTornReply(r) PROVE NextInv'
    <3>1. \A j \in Server : nextIndex'[r.req.from][j] >= 1
      BY <2>5, <1>calls DEF HeartbeatTornReply
    <3>2. QED
      BY <2>5, <1>calls, <1>inv, <3>1 DEF HeartbeatTornReply, Return, NextInv,
         FieldsOK, RoutinesOK
  <2>6. ASSUME NEW r \in appendReplies, LoseAppendReply(r) PROVE NextInv'
    BY <2>6, <1>inv, <1>votes DEF LoseAppendReply, NextInv, FieldsOK,
       RoutinesOK, ClientOK
  <2>7. QED
    BY <1>7, <1>6, <2>1, <2>2, <2>3, <2>4, <2>5, <2>6 DEF AppendNet
<1>8. CASE Client
  <2>1. ASSUME NEW i \in Server, NEW c \in Command, StartCheck(i, c) PROVE NextInv'
    BY <2>1, <1>inv, <1>votes DEF StartCheck, NextInv, FieldsOK, RoutinesOK,
       ClientOK
  <2>2. ASSUME NEW s \in starts, StartAppend(s) PROVE NextInv'
    BY <2>2, <1>inv, <1>votes DEF StartAppend, persist, NextInv, FieldsOK,
       RoutinesOK, ClientOK
  <2>3. QED
    BY <1>8, <2>1, <2>2 DEF Client
<1>9. CASE UNCHANGED vars
  BY <1>9, <1>inv, <1>votes DEF vars, NextInv, FieldsOK, RoutinesOK, ClientOK
<1>10. QED
  BY <1>1, <1>2, <1>3, <1>4, <1>5, <1>7, <1>8, <1>9 DEF Next

\* Only server i's goroutines, and what it saves, may change.
OnlyAt(i) ==
    \A j \in Server \ {i} :
        /\ mu'[j] = mu[j] /\ elector'[j] = elector[j] /\ campaign'[j] = campaign[j]
        /\ nextPeer'[j] = nextPeer[j] /\ disk'[j] = disk[j]
        /\ term'[j] = term[j] /\ votedFor'[j] = votedFor[j]
        /\ logEntries'[j] = logEntries[j]

\* A server that has unlocked, and whose disk is its memory, keeps LockInv.
LEMMA UnlockKeeps ==
    ASSUME LockInv, NEW i \in Server, OnlyAt(i),
           mu'[i] = "free", elector'[i] # "campaign",
           disk'[i].term = term'[i], disk'[i].votedFor = votedFor'[i],
           disk'[i].log = logEntries'[i]
    PROVE  LockInv'
BY DEF LockInv, OnlyAt

\* A critical section that ends with the deferred save keeps LockInv.
LEMMA SaveKeeps ==
    ASSUME LockInv, DiskOK, NEW i \in Server, OnlyAt(i), persist(i),
           mu'[i] = "free", elector'[i] # "campaign"
    PROVE  LockInv'
<1>1. disk'[i] = [term |-> term'[i], votedFor |-> votedFor'[i], log |-> logEntries'[i]]
  BY DEF persist, DiskOK
<1>2. /\ disk'[i].term = term'[i] /\ disk'[i].votedFor = votedFor'[i]
      /\ disk'[i].log = logEntries'[i]
  BY <1>1
<1>3. QED
  BY <1>2, UnlockKeeps

\* Every step keeps LockInv: each critical section saves before it unlocks.
LEMMA LockStep ==
    ASSUME IInv, [Next]_vars
    PROVE  LockInv'
<1>inv. FieldsOK /\ DiskOK /\ RoutinesOK /\ LockInv
  BY DEF IInv, TypeOK
<1>to. /\ \A m \in voteRequests : m.to \in Server /\ m.term \in Nat
       /\ \A m \in appendRequests : m.to \in Server
       /\ \A r \in voteReplies : /\ r.req.from \in Server /\ r.term \in Nat
                                 /\ elector[r.req.from] = "campaign"
       /\ \A r \in appendReplies : r.req.from \in Server /\ Sending(r.req.from)
       /\ \A s \in starts : s.server \in Server
  BY CallServers DEF IInv, TypeOK, ClientOK, VoteCallInv, AppendCallInv
<1>1. ASSUME NEW i \in Server, Election(i) PROVE LockInv'
  <2>1. CASE LeaderTimerFires(i)
    <3>1. OnlyAt(i)
      BY <2>1, <1>inv, <1>to DEF LeaderTimerFires, persist, OnlyAt, FieldsOK, DiskOK, RoutinesOK
    <3>2. persist(i) /\ mu'[i] = "free" /\ elector'[i] # "campaign"
      BY <2>1, <1>inv, <1>to DEF LeaderTimerFires, LockInv, RoutinesOK
    <3>3. QED
      BY <3>1, <3>2, <1>inv, <1>to, SaveKeeps
  <2>2. CASE startElection(i)
    <3>1. /\ elector[i] # "campaign" /\ nextPeer'[i]["elector"] = N
          /\ elector' = [elector EXCEPT ![i] = "campaign"]
          /\ mu' = [mu EXCEPT ![i] = "elector"]
          /\ term' = [term EXCEPT ![i] = @ + 1]
          /\ campaign' = [campaign EXCEPT ![i] = term[i] + 1]
          /\ votedFor' = [votedFor EXCEPT ![i] = i]
          /\ UNCHANGED <<logEntries, disk, nextPeer>>
      BY <2>2 DEF startElection, AtSelect
    <3>2. /\ mu'[i] = "elector" /\ campaign'[i] = disk'[i].term + 1
          /\ term'[i] >= campaign'[i] /\ logEntries'[i] = disk'[i].log
      BY <3>1, <1>inv DEF LockInv, FieldsOK, RoutinesOK
    <3>3. OnlyAt(i) /\ elector'[i] = "campaign"
      BY <3>1, <1>inv DEF OnlyAt, FieldsOK, RoutinesOK
    <3>4. QED
      BY <3>1, <3>2, <3>3, <1>inv DEF LockInv, OnlyAt
  <2>3. CASE ElectionWon(i)
    <3>1. OnlyAt(i)
      BY <2>3, <1>inv, <1>to DEF ElectionWon, EndElection, persist, OnlyAt, FieldsOK, DiskOK, RoutinesOK
    <3>2. persist(i) /\ mu'[i] = "free" /\ elector'[i] # "campaign"
      BY <2>3, <1>inv, <1>to DEF ElectionWon, EndElection, LockInv, RoutinesOK
    <3>3. QED
      BY <3>1, <3>2, <1>inv, <1>to, SaveKeeps
  <2>4. CASE ElectionLost(i)
    <3>1. OnlyAt(i)
      BY <2>4, <1>inv, <1>to DEF ElectionLost, EndElection, persist, OnlyAt, FieldsOK, DiskOK, RoutinesOK
    <3>2. persist(i) /\ mu'[i] = "free" /\ elector'[i] # "campaign"
      BY <2>4, <1>inv, <1>to DEF ElectionLost, EndElection, LockInv, RoutinesOK
    <3>3. QED
      BY <3>1, <3>2, <1>inv, <1>to, SaveKeeps
  <2>5. CASE AfterLost(i)
    BY <2>5, <1>inv, <1>to DEF AfterLost, LockInv, FieldsOK, DiskOK,
       RoutinesOK
  <2>6. CASE AfterWon(i)
    BY <2>6, <1>inv, <1>to DEF AfterWon, LockInv, FieldsOK, DiskOK, RoutinesOK
  <2>7. QED
    BY <1>1, <2>1, <2>2, <2>3, <2>4, <2>5, <2>6 DEF Election
<1>2. ASSUME NEW i \in Server, Heartbeat(i) PROVE LockInv'
  <2>1. CASE TickerFires(i)
    <3>1. /\ nextPeer'[i]["ticker"] \in Server
          /\ \A j \in Server : nextPeer'[j]["elector"] = nextPeer[j]["elector"]
          /\ \A j \in Server \ {i} : nextPeer'[j] = nextPeer[j]
      BY <2>1, <1>inv, NAssumption DEF TickerFires, RoutinesOK, Routine, Server
    <3>2. QED
      BY <2>1, <3>1, <1>inv DEF TickerFires, LockInv, RoutinesOK, Routine
  <2>2. CASE HeartbeatNoReply(i)
    <3>1. OnlyAt(i)
      BY <2>2, <1>inv, <1>to DEF HeartbeatNoReply, Return, persist, OnlyAt, FieldsOK, DiskOK, RoutinesOK
    <3>2. persist(i) /\ mu'[i] = "free" /\ elector'[i] # "campaign"
      BY <2>2, <1>inv, <1>to DEF HeartbeatNoReply, Return, LockInv, RoutinesOK
    <3>3. QED
      BY <3>1, <3>2, <1>inv, <1>to, SaveKeeps
  <2>3. ASSUME NEW g \in Routine, HeartbeatSelf(i, g) PROVE LockInv'
    <3>1. OnlyAt(i)
      BY <2>3, <1>inv, <1>to DEF HeartbeatSelf, persist, OnlyAt, FieldsOK, DiskOK, RoutinesOK
    <3>2. persist(i) /\ mu'[i] = "free" /\ elector'[i] # "campaign"
      BY <2>3, <1>inv, <1>to DEF HeartbeatSelf, LockInv, RoutinesOK
    <3>3. QED
      BY <3>1, <3>2, <1>inv, <1>to, SaveKeeps
  <2>4. ASSUME NEW g \in Routine, SendHeartbeat(i, g) PROVE LockInv'
    <3>1. /\ nextPeer[i][g] \in Server /\ mu[i] = "free" /\ mu' = [mu EXCEPT ![i] = g]
          /\ UNCHANGED <<elector, campaign, nextPeer, term, votedFor, logEntries, disk>>
      BY <2>4 DEF SendHeartbeat
    <3>2. elector[i] # "campaign"
      BY <3>1, <1>inv DEF LockInv
    <3>3. QED
      BY <3>1, <3>2, <1>inv DEF LockInv, RoutinesOK
  <2>5. QED
    BY <1>2, <2>1, <2>2, <2>3, <2>4 DEF Heartbeat
<1>3. ASSUME NEW i \in Server, Apply(i) PROVE LockInv'
  BY <1>3, <1>inv, <1>to DEF Apply, LockInv, FieldsOK, DiskOK, RoutinesOK
<1>4. ASSUME NEW i \in Server, Crash(i) PROVE LockInv'
  <2>1. OnlyAt(i)
    BY <1>4, <1>inv DEF Crash, OnlyAt, FieldsOK, RoutinesOK
  <2>2. /\ mu'[i] = "free" /\ elector'[i] # "campaign" /\ disk'[i] = disk[i]
        /\ term'[i] = disk[i].term /\ votedFor'[i] = disk[i].votedFor
        /\ logEntries'[i] = disk[i].log
    BY <1>4, <1>inv DEF Crash, FieldsOK, RoutinesOK
  <2>3. QED
    BY <2>1, <2>2, <1>inv, UnlockKeeps
<1>5. CASE VoteNet
  <2>1. ASSUME NEW m \in voteRequests, RequestVote(m) PROVE LockInv'
    <3>1. OnlyAt(m.to)
      BY <2>1, <1>inv, <1>to DEF RequestVote, persist, OnlyAt, FieldsOK, DiskOK, RoutinesOK
    <3>2. persist(m.to) /\ mu'[m.to] = "free" /\ elector'[m.to] # "campaign"
      BY <2>1, <1>inv, <1>to DEF RequestVote, LockInv, RoutinesOK
    <3>3. QED
      BY <3>1, <3>2, <1>inv, <1>to, SaveKeeps
  <2>2. ASSUME NEW m \in voteRequests, LoseVoteRequest(m) PROVE LockInv'
    BY <2>2, <1>inv, <1>to DEF LoseVoteRequest, LockInv, FieldsOK, DiskOK,
       RoutinesOK
  <2>3. ASSUME NEW m \in voteRequests, VoteTimeout(m) PROVE LockInv'
    BY <2>3, <1>inv, <1>to DEF VoteTimeout, Outlive, LockInv, FieldsOK,
       DiskOK, RoutinesOK
  <2>4. ASSUME NEW r \in voteReplies, VoteReply(r) PROVE LockInv'
    <3>1. /\ elector[r.req.from] = "campaign" /\ r.req.from \in Server
          /\ campaign[r.req.from] \in Nat /\ term[r.req.from] \in Nat
      BY <1>inv, <1>to DEF VoteCallInv, FieldsOK, RoutinesOK
    <3>2. /\ term' = [term EXCEPT ![r.req.from] =
                        IF r.term > campaign[r.req.from] THEN r.term ELSE @]
          /\ UNCHANGED <<votedFor, logEntries, disk, mu, elector, campaign, nextPeer>>
      BY <2>4 DEF VoteReply
    <3>3. /\ term'[r.req.from] = IF r.term > campaign[r.req.from] THEN r.term
                                 ELSE term[r.req.from]
          /\ \A j \in Server \ {r.req.from} : term'[j] = term[j]
      BY <3>2, <1>inv, <1>to DEF FieldsOK
    <3>4. term[r.req.from] >= campaign[r.req.from]
      BY <3>1, <1>inv DEF LockInv
    <3>5. term'[r.req.from] >= campaign[r.req.from]
      BY <3>1, <3>3, <3>4, <1>to
    <3>6. QED
      BY <3>1, <3>2, <3>3, <3>5, <1>inv DEF LockInv
  <2>5. ASSUME NEW r \in voteReplies, LoseVoteReply(r) PROVE LockInv'
    BY <2>5, <1>inv, <1>to DEF LoseVoteReply, LockInv, FieldsOK, DiskOK,
       RoutinesOK
  <2>6. QED
    BY <1>5, <2>1, <2>2, <2>3, <2>4, <2>5 DEF VoteNet
<1>6. ASSUME NEW m \in appendRequests, AppendEntries(m) PROVE LockInv'
  <2>1. CASE AppendHigherTerm(m)
    BY <2>1, <1>inv, <1>to DEF AppendHigherTerm, persist, Answer, LockInv,
       FieldsOK, DiskOK, RoutinesOK
  <2>2. CASE AppendLowerTerm(m)
    BY <2>2, <1>inv, <1>to DEF AppendLowerTerm, persist, Answer, LockInv,
       FieldsOK, DiskOK, RoutinesOK
  <2>3. CASE AppendPrevMismatch(m)
    BY <2>3, <1>inv, <1>to DEF AppendPrevMismatch, persist, Answer, SameTerm,
       LockInv, FieldsOK, DiskOK, RoutinesOK
  <2>4. CASE AppendConflict(m)
    BY <2>4, <1>inv, <1>to DEF AppendConflict, persist, Answer, SameTerm,
       LockInv, FieldsOK, DiskOK, RoutinesOK
  <2>5. CASE AppendPrevMissing(m)
    BY <2>5, <1>inv, <1>to DEF AppendPrevMissing, persist, Answer, SameTerm,
       LockInv, FieldsOK, DiskOK, RoutinesOK
  <2>6. CASE AppendAccepted(m)
    BY <2>6, <1>inv, <1>to DEF AppendAccepted, persist, Answer, SameTerm,
       LockInv, FieldsOK, DiskOK, RoutinesOK
  <2>7. QED
    BY <1>6, <2>1, <2>2, <2>3, <2>4, <2>5, <2>6 DEF AppendEntries
<1>7. CASE AppendNet
  <2>1. ASSUME NEW m \in appendRequests, LoseAppendRequest(m) PROVE LockInv'
    BY <2>1, <1>inv, <1>to DEF LoseAppendRequest, LockInv, FieldsOK, DiskOK,
       RoutinesOK
  <2>2. ASSUME NEW m \in appendRequests, AppendTimeout(m) PROVE LockInv'
    BY <2>2, <1>inv, <1>to DEF AppendTimeout, Outlive, LockInv, FieldsOK,
       DiskOK, RoutinesOK
  <2>3. ASSUME NEW r \in appendReplies, HeartbeatStepDown(r) PROVE LockInv'
    <3>1. OnlyAt(r.req.from)
      BY <2>3, <1>inv, <1>to DEF HeartbeatStepDown, Return, persist, OnlyAt, FieldsOK, DiskOK, RoutinesOK
    <3>2. persist(r.req.from) /\ mu'[r.req.from] = "free" /\ elector'[r.req.from] # "campaign"
      BY <2>3, <1>inv, <1>to DEF HeartbeatStepDown, Return, LockInv, RoutinesOK, Sending
    <3>3. QED
      BY <3>1, <3>2, <1>inv, <1>to, SaveKeeps
  <2>4. ASSUME NEW r \in appendReplies, HeartbeatReply(r) PROVE LockInv'
    <3>1. OnlyAt(r.req.from)
      BY <2>4, <1>inv, <1>to DEF HeartbeatReply, Return, persist, OnlyAt, FieldsOK, DiskOK, RoutinesOK
    <3>2. persist(r.req.from) /\ mu'[r.req.from] = "free" /\ elector'[r.req.from] # "campaign"
      BY <2>4, <1>inv, <1>to DEF HeartbeatReply, Return, LockInv, RoutinesOK, Sending
    <3>3. QED
      BY <3>1, <3>2, <1>inv, <1>to, SaveKeeps
  <2>5. ASSUME NEW r \in appendReplies, HeartbeatTornReply(r) PROVE LockInv'
    <3>1. OnlyAt(r.req.from)
      BY <2>5, <1>inv, <1>to DEF HeartbeatTornReply, Return, persist, OnlyAt, FieldsOK, DiskOK, RoutinesOK
    <3>2. persist(r.req.from) /\ mu'[r.req.from] = "free" /\ elector'[r.req.from] # "campaign"
      BY <2>5, <1>inv, <1>to DEF HeartbeatTornReply, Return, LockInv, RoutinesOK, Sending
    <3>3. QED
      BY <3>1, <3>2, <1>inv, <1>to, SaveKeeps
  <2>6. ASSUME NEW r \in appendReplies, LoseAppendReply(r) PROVE LockInv'
    BY <2>6, <1>inv, <1>to DEF LoseAppendReply, LockInv, FieldsOK, DiskOK,
       RoutinesOK
  <2>7. QED
    BY <1>7, <1>6, <2>1, <2>2, <2>3, <2>4, <2>5, <2>6 DEF AppendNet
<1>8. CASE Client
  <2>1. ASSUME NEW i \in Server, NEW c \in Command, StartCheck(i, c) PROVE LockInv'
    BY <2>1, <1>inv, <1>to DEF StartCheck, LockInv, FieldsOK, DiskOK,
       RoutinesOK
  <2>2. ASSUME NEW s \in starts, StartAppend(s) PROVE LockInv'
    BY <2>2, <1>inv, <1>to DEF StartAppend, persist, LockInv, FieldsOK,
       DiskOK, RoutinesOK
  <2>3. QED
    BY <1>8, <2>1, <2>2 DEF Client
<1>9. CASE UNCHANGED vars
  BY <1>9, <1>inv, <1>to DEF vars, LockInv, FieldsOK, DiskOK, RoutinesOK
<1>10. QED
  BY <1>1, <1>2, <1>3, <1>4, <1>5, <1>7, <1>8, <1>9 DEF Next

\* Every step keeps VoteCallInv: startElection does not return while one of
\* its calls runs.
LEMMA VoteCallStep ==
    ASSUME IInv, [Next]_vars
    PROVE  VoteCallInv'
<1>inv. FieldsOK /\ RoutinesOK /\ LockInv /\ VoteCallInv
  BY DEF IInv, TypeOK
<1>to. /\ \A m \in voteRequests : m \in VoteRequest /\ m.from \in Server
       /\ \A r \in voteReplies : r.req.from \in Server
       /\ \A m \in appendRequests : m.to \in Server
       /\ \A r \in appendReplies : r.req.from \in Server
  BY CallServers
<1>late. lates \in Nat
  BY BoundAssumption DEF IInv, TypeOK, BudgetsOK
<1>1. ASSUME NEW i \in Server, Election(i) PROVE VoteCallInv'
  <2>1. CASE LeaderTimerFires(i)
    BY <2>1, <1>inv, <1>to DEF LeaderTimerFires, persist, VoteCallInv,
       RoutinesOK, FieldsOK, LockInv, Live, AtSelect
  <2>2. CASE startElection(i)
    <3>1. \A m \in voteRequests : Live(m) => m.from # i
      BY <2>2, <1>inv DEF startElection, AtSelect, VoteCallInv
    <3>2. \A r \in voteReplies : r.req.from # i
      BY <2>2, <1>inv DEF startElection, AtSelect, VoteCallInv
    <3>3. /\ elector' = [elector EXCEPT ![i] = "campaign"]
          /\ campaign' = [campaign EXCEPT ![i] = term[i] + 1]
          /\ voteReplies' = voteReplies
      BY <2>2 DEF startElection
    <3>4. \A m \in voteRequests' : m \in voteRequests \/ (m.from = i /\ m.term = term[i] + 1)
      BY <2>2 DEF startElection
    <3>5. QED
      BY <3>1, <3>2, <3>3, <3>4, <1>inv, <1>to DEF VoteCallInv, RoutinesOK, Live
  <2>3. CASE ElectionWon(i)
    <3>1. /\ \A m \in voteRequests : Live(m) => m.from # i
          /\ \A r \in voteReplies : r.req.from # i
      BY <2>3 DEF ElectionWon, VoteCalls
    <3>2. /\ UNCHANGED <<voteRequests, voteReplies>>
          /\ \A j \in Server \ {i} : elector'[j] = elector[j] /\ campaign'[j] = campaign[j]
      BY <2>3, <1>inv DEF ElectionWon, EndElection, RoutinesOK
    <3>3. QED
      BY <3>1, <3>2, <1>inv, <1>to DEF VoteCallInv, Live
  <2>4. CASE ElectionLost(i)
    <3>1. /\ \A m \in voteRequests : Live(m) => m.from # i
          /\ \A r \in voteReplies : r.req.from # i
      BY <2>4 DEF ElectionLost, VoteCalls
    <3>2. /\ UNCHANGED <<voteRequests, voteReplies>>
          /\ \A j \in Server \ {i} : elector'[j] = elector[j] /\ campaign'[j] = campaign[j]
      BY <2>4, <1>inv DEF ElectionLost, EndElection, RoutinesOK
    <3>3. QED
      BY <3>1, <3>2, <1>inv, <1>to DEF VoteCallInv, Live
  <2>5. CASE AfterLost(i)
    BY <2>5, <1>inv, <1>to DEF AfterLost, VoteCallInv, RoutinesOK, FieldsOK,
       LockInv, Live
  <2>6. CASE AfterWon(i)
    BY <2>6, <1>inv, <1>to DEF AfterWon, VoteCallInv, RoutinesOK, FieldsOK,
       LockInv, Live
  <2>7. QED
    BY <1>1, <2>1, <2>2, <2>3, <2>4, <2>5, <2>6 DEF Election
<1>2. ASSUME NEW i \in Server, Heartbeat(i) PROVE VoteCallInv'
  <2>1. CASE TickerFires(i)
    BY <2>1, <1>inv, <1>to DEF TickerFires, VoteCallInv, RoutinesOK, FieldsOK,
       LockInv, Live
  <2>2. CASE HeartbeatNoReply(i)
    BY <2>2, <1>inv, <1>to DEF HeartbeatNoReply, persist, Return, VoteCallInv,
       RoutinesOK, FieldsOK, LockInv, Live
  <2>3. ASSUME NEW g \in Routine, HeartbeatSelf(i, g) PROVE VoteCallInv'
    BY <2>3, <1>inv, <1>to DEF HeartbeatSelf, persist, VoteCallInv,
       RoutinesOK, FieldsOK, LockInv, Live
  <2>4. ASSUME NEW g \in Routine, SendHeartbeat(i, g) PROVE VoteCallInv'
    BY <2>4, <1>inv, <1>to DEF SendHeartbeat, VoteCallInv, RoutinesOK,
       FieldsOK, LockInv, Live
  <2>5. QED
    BY <1>2, <2>1, <2>2, <2>3, <2>4 DEF Heartbeat
<1>3. ASSUME NEW i \in Server, Apply(i) PROVE VoteCallInv'
  BY <1>3, <1>inv, <1>to DEF Apply, VoteCallInv, RoutinesOK, FieldsOK,
     LockInv, Live
<1>4. ASSUME NEW i \in Server, Crash(i) PROVE VoteCallInv'
  <2>1. \A m \in voteRequests' : Live(m) => m \in voteRequests /\ m.from # i
    <3>1. SUFFICES ASSUME NEW m \in voteRequests, ~ [m EXCEPT !.late = lates + 1].late # 0
                   PROVE  FALSE
      BY <1>4 DEF Crash, AfterCrash, Live
    <3>2. QED
      BY <3>1, <1>to, <1>late DEF VoteRequest
  <2>2. \A r \in voteReplies' : r \in voteReplies /\ r.req.from # i
    BY <1>4 DEF Crash, Uninvolved
  <2>3. /\ elector' = [elector EXCEPT ![i] = "select"]
        /\ campaign' = [campaign EXCEPT ![i] = 0]
    BY <1>4 DEF Crash
  <2>4. QED
    BY <2>1, <2>2, <2>3, <1>inv, <1>to DEF VoteCallInv, RoutinesOK
<1>5. CASE VoteNet
  <2>1. ASSUME NEW m \in voteRequests, RequestVote(m) PROVE VoteCallInv'
    <3> DEFINE answer == [req |-> m, term |-> term[m.to], granted |-> Grants(m.to, m)]
    <3>1. /\ voteRequests' = voteRequests \ {m} /\ UNCHANGED <<elector, campaign>>
          /\ voteReplies' \subseteq voteReplies \cup {answer}
          /\ ~Live(m) => voteReplies' = voteReplies
      BY <2>1 DEF RequestVote
    <3>2. answer.req = m
      OBVIOUS
    <3> HIDE DEF answer
    <3>3. QED
      BY <3>1, <3>2, <1>inv, <1>to DEF VoteCallInv, Live
  <2>2. ASSUME NEW m \in voteRequests, LoseVoteRequest(m) PROVE VoteCallInv'
    BY <2>2, <1>inv, <1>to DEF LoseVoteRequest, VoteCallInv, RoutinesOK,
       FieldsOK, LockInv, Live
  <2>3. ASSUME NEW m \in voteRequests, VoteTimeout(m) PROVE VoteCallInv'
    <3>1. Outlive(m).late # 0
      BY <2>3, <1>to, <1>late DEF Outlive, VoteRequest
    <3>2. QED
      BY <2>3, <1>inv, <3>1 DEF VoteTimeout, VoteCallInv, Live
  <2>4. ASSUME NEW r \in voteReplies, VoteReply(r) PROVE VoteCallInv'
    BY <2>4, <1>inv, <1>to DEF VoteReply, VoteCallInv, RoutinesOK, FieldsOK,
       LockInv, Live
  <2>5. ASSUME NEW r \in voteReplies, LoseVoteReply(r) PROVE VoteCallInv'
    BY <2>5, <1>inv, <1>to DEF LoseVoteReply, VoteCallInv, RoutinesOK,
       FieldsOK, LockInv, Live
  <2>6. QED
    BY <1>5, <2>1, <2>2, <2>3, <2>4, <2>5 DEF VoteNet
<1>6. ASSUME NEW m \in appendRequests, AppendEntries(m) PROVE VoteCallInv'
  <2>1. CASE AppendHigherTerm(m)
    BY <2>1, <1>inv, <1>to DEF AppendHigherTerm, persist, Answer, VoteCallInv,
       RoutinesOK, FieldsOK, LockInv, Live
  <2>2. CASE AppendLowerTerm(m)
    BY <2>2, <1>inv, <1>to DEF AppendLowerTerm, persist, Answer, VoteCallInv,
       RoutinesOK, FieldsOK, LockInv, Live
  <2>3. CASE AppendPrevMismatch(m)
    BY <2>3, <1>inv, <1>to DEF AppendPrevMismatch, persist, Answer, SameTerm,
       VoteCallInv, RoutinesOK, FieldsOK, LockInv, Live
  <2>4. CASE AppendConflict(m)
    BY <2>4, <1>inv, <1>to DEF AppendConflict, persist, Answer, SameTerm,
       VoteCallInv, RoutinesOK, FieldsOK, LockInv, Live
  <2>5. CASE AppendPrevMissing(m)
    BY <2>5, <1>inv, <1>to DEF AppendPrevMissing, persist, Answer, SameTerm,
       VoteCallInv, RoutinesOK, FieldsOK, LockInv, Live
  <2>6. CASE AppendAccepted(m)
    BY <2>6, <1>inv, <1>to DEF AppendAccepted, persist, Answer, SameTerm,
       VoteCallInv, RoutinesOK, FieldsOK, LockInv, Live
  <2>7. QED
    BY <1>6, <2>1, <2>2, <2>3, <2>4, <2>5, <2>6 DEF AppendEntries
<1>7. CASE AppendNet
  <2>1. ASSUME NEW m \in appendRequests, LoseAppendRequest(m) PROVE VoteCallInv'
    BY <2>1, <1>inv, <1>to DEF LoseAppendRequest, VoteCallInv, RoutinesOK,
       FieldsOK, LockInv, Live
  <2>2. ASSUME NEW m \in appendRequests, AppendTimeout(m) PROVE VoteCallInv'
    BY <2>2, <1>inv, <1>to DEF AppendTimeout, Outlive, VoteCallInv,
       RoutinesOK, FieldsOK, LockInv, Live
  <2>3. ASSUME NEW r \in appendReplies, HeartbeatStepDown(r) PROVE VoteCallInv'
    BY <2>3, <1>inv, <1>to DEF HeartbeatStepDown, persist, Return,
       VoteCallInv, RoutinesOK, FieldsOK, LockInv, Live
  <2>4. ASSUME NEW r \in appendReplies, HeartbeatReply(r) PROVE VoteCallInv'
    BY <2>4, <1>inv, <1>to DEF HeartbeatReply, persist, Return, VoteCallInv,
       RoutinesOK, FieldsOK, LockInv, Live
  <2>5. ASSUME NEW r \in appendReplies, HeartbeatTornReply(r) PROVE VoteCallInv'
    BY <2>5, <1>inv, <1>to DEF HeartbeatTornReply, persist, Return,
       VoteCallInv, RoutinesOK, FieldsOK, LockInv, Live
  <2>6. ASSUME NEW r \in appendReplies, LoseAppendReply(r) PROVE VoteCallInv'
    BY <2>6, <1>inv, <1>to DEF LoseAppendReply, VoteCallInv, RoutinesOK,
       FieldsOK, LockInv, Live
  <2>7. QED
    BY <1>7, <1>6, <2>1, <2>2, <2>3, <2>4, <2>5, <2>6 DEF AppendNet
<1>8. CASE Client
  <2>1. ASSUME NEW i \in Server, NEW c \in Command, StartCheck(i, c) PROVE VoteCallInv'
    BY <2>1, <1>inv, <1>to DEF StartCheck, VoteCallInv, RoutinesOK, FieldsOK,
       LockInv, Live
  <2>2. ASSUME NEW s \in starts, StartAppend(s) PROVE VoteCallInv'
    BY <2>2, <1>inv, <1>to DEF StartAppend, persist, VoteCallInv, RoutinesOK,
       FieldsOK, LockInv, Live
  <2>3. QED
    BY <1>8, <2>1, <2>2 DEF Client
<1>9. CASE UNCHANGED vars
  BY <1>9, <1>inv, <1>to DEF vars, VoteCallInv, RoutinesOK, FieldsOK, LockInv,
     Live
<1>10. QED
  BY <1>1, <1>2, <1>3, <1>4, <1>5, <1>7, <1>8, <1>9 DEF Next

\* An answer of the AppendEntries handler takes the place of its request.
LEMMA AnswerCalls ==
    ASSUME IInv, NEW m \in appendRequests, NEW t, NEW ok, NEW next, Answer(m, t, ok, next)
    PROVE  AppendCallInv'
<1>1. AppendCallInv /\ m \in AppendRequest
  BY CallServers DEF IInv
<1>2. UNCHANGED <<mu, elector>> /\ appendRequests' = appendRequests \ {m}
  BY DEF Answer
<1>3. CASE ~Live(m)
  <2>1. appendReplies' = appendReplies
    BY <1>3 DEF Answer
  <2>2. QED
    BY <1>1, <1>2, <2>1 DEF AppendCallInv, Sending, Live
<1>4. CASE Live(m)
  <2> DEFINE answer == [req |-> m, term |-> t, success |-> ok, nextIndex |-> next]
  <2>1. appendReplies' = appendReplies \cup {answer}
    BY <1>4 DEF Answer
  <2>2. answer.req = m
    OBVIOUS
  <2>3. \A r \in appendReplies : r.req.from # m.from
    BY <1>1, <1>4 DEF AppendCallInv
  <2>4. \A n \in appendRequests' : Live(n) => n.from # m.from
    BY <1>1, <1>2, <1>4 DEF AppendCallInv
  <2> HIDE DEF answer
  <2>5. /\ \A n \in appendRequests' : Live(n) => Sending(n.from)'
        /\ \A r \in appendReplies' : Sending(r.req.from)'
    BY <1>1, <1>2, <1>4, <2>1, <2>2 DEF AppendCallInv, Sending
  <2>6. \A n, o \in appendRequests' : Live(n) /\ Live(o) /\ n.from = o.from => n = o
    BY <1>1, <1>2 DEF AppendCallInv
  <2>7. \A r, q \in appendReplies' : r.req.from = q.req.from => r = q
    BY <1>1, <2>1, <2>2, <2>3 DEF AppendCallInv
  <2>8. \A n \in appendRequests', r \in appendReplies' : Live(n) => n.from # r.req.from
    BY <1>1, <1>2, <2>1, <2>2, <2>4 DEF AppendCallInv
  <2>9. QED
    BY <2>5, <2>6, <2>7, <2>8 DEF AppendCallInv, Live
<1>5. QED
  BY <1>3, <1>4

\* The sender that took its call's answer leaves no call of its own behind.
LEMMA ReturnCalls ==
    ASSUME AppendCallInv, RoutinesOK,
           \A m \in appendRequests : m.from \in Server,
           \A q \in appendReplies : q.req.from \in Server,
           NEW r \in appendReplies, appendReplies' = appendReplies \ {r},
           Return(r.req.from)
    PROVE  AppendCallInv'
<1>1. /\ UNCHANGED <<appendRequests, elector>>
      /\ \A k \in Server \ {r.req.from} : mu'[k] = mu[k]
  BY DEF Return, RoutinesOK
<1>2. QED
  BY <1>1 DEF AppendCallInv, Sending, Live

\* Every step keeps AppendCallInv: SendHeartbeat makes one call at a time,
\* and holds rf.mu until it ends.
LEMMA AppendCallStep ==
    ASSUME IInv, [Next]_vars
    PROVE  AppendCallInv'
<1>inv. RoutinesOK /\ LockInv /\ AppendCallInv
  BY DEF IInv, TypeOK
<1>to. /\ \A m \in appendRequests : m \in AppendRequest /\ m.from \in Server
       /\ \A r \in appendReplies : r.req.from \in Server
       /\ \A m \in voteRequests : m.to \in Server
       /\ \A r \in voteReplies : r.req.from \in Server
  BY CallServers
<1>late. lates \in Nat
  BY BoundAssumption DEF IInv, TypeOK, BudgetsOK
<1>1. ASSUME NEW i \in Server, Election(i) PROVE AppendCallInv'
  <2>1. CASE LeaderTimerFires(i)
    BY <2>1, <1>inv, <1>to DEF LeaderTimerFires, persist, AppendCallInv,
       RoutinesOK, LockInv, Sending, Live
  <2>2. CASE startElection(i)
    <3>1. /\ mu[i] = "free" /\ UNCHANGED <<appendRequests, appendReplies>>
          /\ \A j \in Server \ {i} : mu'[j] = mu[j] /\ elector'[j] = elector[j]
      BY <2>2, <1>inv DEF startElection, RoutinesOK
    <3>2. QED
      BY <3>1, <1>inv, <1>to DEF AppendCallInv, Sending, Live
  <2>3. CASE ElectionWon(i)
    <3>1. /\ elector[i] = "campaign" /\ UNCHANGED <<appendRequests, appendReplies>>
          /\ \A j \in Server \ {i} : mu'[j] = mu[j] /\ elector'[j] = elector[j]
      BY <2>3, <1>inv DEF ElectionWon, EndElection, RoutinesOK
    <3>2. QED
      BY <3>1, <1>inv, <1>to DEF AppendCallInv, Sending, Live
  <2>4. CASE ElectionLost(i)
    <3>1. /\ elector[i] = "campaign" /\ UNCHANGED <<appendRequests, appendReplies>>
          /\ \A j \in Server \ {i} : mu'[j] = mu[j] /\ elector'[j] = elector[j]
      BY <2>4, <1>inv DEF ElectionLost, EndElection, RoutinesOK
    <3>2. QED
      BY <3>1, <1>inv, <1>to DEF AppendCallInv, Sending, Live
  <2>5. CASE AfterLost(i)
    BY <2>5, <1>inv, <1>to DEF AfterLost, AppendCallInv, RoutinesOK, LockInv,
       Sending, Live
  <2>6. CASE AfterWon(i)
    BY <2>6, <1>inv, <1>to DEF AfterWon, AppendCallInv, RoutinesOK, LockInv,
       Sending, Live
  <2>7. QED
    BY <1>1, <2>1, <2>2, <2>3, <2>4, <2>5, <2>6 DEF Election
<1>2. ASSUME NEW i \in Server, Heartbeat(i) PROVE AppendCallInv'
  <2>1. CASE TickerFires(i)
    BY <2>1, <1>inv, <1>to DEF TickerFires, AppendCallInv, RoutinesOK,
       LockInv, Sending, Live
  <2>2. CASE HeartbeatNoReply(i)
    <3>1. /\ \A m \in appendRequests : Live(m) => m.from # i
          /\ \A r \in appendReplies : r.req.from # i
      BY <2>2 DEF HeartbeatNoReply, AppendCalls
    <3>2. /\ UNCHANGED <<appendRequests, appendReplies, elector>>
          /\ \A j \in Server \ {i} : mu'[j] = mu[j]
      BY <2>2, <1>inv DEF HeartbeatNoReply, Return, RoutinesOK
    <3>3. QED
      BY <3>1, <3>2, <1>inv, <1>to DEF AppendCallInv, Sending, Live
  <2>3. ASSUME NEW g \in Routine, HeartbeatSelf(i, g) PROVE AppendCallInv'
    BY <2>3, <1>inv, <1>to DEF HeartbeatSelf, persist, AppendCallInv,
       RoutinesOK, LockInv, Sending, Live
  <2>4. ASSUME NEW g \in Routine, SendHeartbeat(i, g) PROVE AppendCallInv'
    <3>1. /\ \A m \in appendRequests : Live(m) => m.from # i
          /\ \A r \in appendReplies : r.req.from # i
      BY <2>4, <1>inv DEF SendHeartbeat, AppendCallInv, Sending
    <3>2. elector[i] # "campaign"
      BY <2>4, <1>inv DEF SendHeartbeat, LockInv
    <3> DEFINE out == getAppendLogs(logEntries[i], nextIndex[i][nextPeer[i][g]])
               m == [from |-> i, to |-> nextPeer[i][g], term |-> term[i],
                     prevLogIndex |-> out.prevIndex, prevLogTerm |-> out.prevTerm,
                     entries |-> out.entries, leaderCommit |-> commitIndex[i],
                     late |-> 0]
    <3>3. appendRequests' = appendRequests \cup {m} /\ m.from = i
      BY <2>4 DEF SendHeartbeat
    <3>4. mu' = [mu EXCEPT ![i] = g] /\ UNCHANGED <<elector, appendReplies>> /\ g # "free"
      BY <2>4 DEF SendHeartbeat, Routine
    <3> HIDE DEF m
    <3>5. QED
      BY <3>1, <3>2, <3>3, <3>4, <1>inv, <1>to DEF AppendCallInv, Sending,
         RoutinesOK
  <2>5. QED
    BY <1>2, <2>1, <2>2, <2>3, <2>4 DEF Heartbeat
<1>3. ASSUME NEW i \in Server, Apply(i) PROVE AppendCallInv'
  BY <1>3, <1>inv, <1>to DEF Apply, AppendCallInv, RoutinesOK, LockInv,
     Sending, Live
<1>4. ASSUME NEW i \in Server, Crash(i) PROVE AppendCallInv'
  <2>1. \A m \in appendRequests' : Live(m) => m \in appendRequests /\ m.from # i
    <3>1. SUFFICES ASSUME NEW m \in appendRequests, ~ [m EXCEPT !.late = lates + 1].late # 0
                   PROVE  FALSE
      BY <1>4 DEF Crash, AfterCrash, Live
    <3>2. QED
      BY <3>1, <1>to, <1>late DEF AppendRequest
  <2>2. \A r \in appendReplies' : r \in appendReplies /\ r.req.from # i
    BY <1>4 DEF Crash, Uninvolved
  <2>3. /\ elector' = [elector EXCEPT ![i] = "select"]
        /\ mu' = [mu EXCEPT ![i] = "free"]
    BY <1>4 DEF Crash
  <2>4. QED
    BY <2>1, <2>2, <2>3, <1>inv, <1>to DEF AppendCallInv, Sending, RoutinesOK
<1>5. CASE VoteNet
  <2>1. ASSUME NEW m \in voteRequests, RequestVote(m) PROVE AppendCallInv'
    BY <2>1, <1>inv, <1>to DEF RequestVote, persist, VoteHeld, AppendCallInv,
       RoutinesOK, LockInv, Sending, Live
  <2>2. ASSUME NEW m \in voteRequests, LoseVoteRequest(m) PROVE AppendCallInv'
    BY <2>2, <1>inv, <1>to DEF LoseVoteRequest, AppendCallInv, RoutinesOK,
       LockInv, Sending, Live
  <2>3. ASSUME NEW m \in voteRequests, VoteTimeout(m) PROVE AppendCallInv'
    BY <2>3, <1>inv, <1>to DEF VoteTimeout, Outlive, AppendCallInv,
       RoutinesOK, LockInv, Sending, Live
  <2>4. ASSUME NEW r \in voteReplies, VoteReply(r) PROVE AppendCallInv'
    BY <2>4, <1>inv, <1>to DEF VoteReply, AppendCallInv, RoutinesOK, LockInv,
       Sending, Live
  <2>5. ASSUME NEW r \in voteReplies, LoseVoteReply(r) PROVE AppendCallInv'
    BY <2>5, <1>inv, <1>to DEF LoseVoteReply, AppendCallInv, RoutinesOK,
       LockInv, Sending, Live
  <2>6. QED
    BY <1>5, <2>1, <2>2, <2>3, <2>4, <2>5 DEF VoteNet
<1>6. ASSUME NEW m \in appendRequests, AppendEntries(m) PROVE AppendCallInv'
  <2>1. CASE AppendHigherTerm(m)
    BY <2>1, AnswerCalls DEF AppendHigherTerm
  <2>2. CASE AppendLowerTerm(m)
    BY <2>2, AnswerCalls DEF AppendLowerTerm
  <2>3. CASE AppendPrevMismatch(m)
    BY <2>3, AnswerCalls DEF AppendPrevMismatch
  <2>4. CASE AppendConflict(m)
    BY <2>4, AnswerCalls DEF AppendConflict
  <2>5. CASE AppendPrevMissing(m)
    BY <2>5, AnswerCalls DEF AppendPrevMissing
  <2>6. CASE AppendAccepted(m)
    BY <2>6, AnswerCalls DEF AppendAccepted
  <2>7. QED
    BY <1>6, <2>1, <2>2, <2>3, <2>4, <2>5, <2>6 DEF AppendEntries
<1>7. CASE AppendNet
  <2>1. ASSUME NEW m \in appendRequests, LoseAppendRequest(m) PROVE AppendCallInv'
    BY <2>1, <1>inv, <1>to DEF LoseAppendRequest, AppendCallInv, RoutinesOK,
       LockInv, Sending, Live
  <2>2. ASSUME NEW m \in appendRequests, AppendTimeout(m) PROVE AppendCallInv'
    <3>1. Outlive(m).late # 0
      BY <2>2, <1>to, <1>late DEF Outlive, AppendRequest
    <3>2. QED
      BY <2>2, <1>inv, <3>1 DEF AppendTimeout, AppendCallInv, Sending, Live
  <2>3. ASSUME NEW r \in appendReplies, HeartbeatStepDown(r) PROVE AppendCallInv'
    BY <2>3, <1>inv, <1>to, ReturnCalls DEF HeartbeatStepDown
  <2>4. ASSUME NEW r \in appendReplies, HeartbeatReply(r) PROVE AppendCallInv'
    BY <2>4, <1>inv, <1>to, ReturnCalls DEF HeartbeatReply
  <2>5. ASSUME NEW r \in appendReplies, HeartbeatTornReply(r) PROVE AppendCallInv'
    BY <2>5, <1>inv, <1>to, ReturnCalls DEF HeartbeatTornReply
  <2>6. ASSUME NEW r \in appendReplies, LoseAppendReply(r) PROVE AppendCallInv'
    BY <2>6, <1>inv, <1>to DEF LoseAppendReply, AppendCallInv, RoutinesOK,
       LockInv, Sending, Live
  <2>7. QED
    BY <1>7, <1>6, <2>1, <2>2, <2>3, <2>4, <2>5, <2>6 DEF AppendNet
<1>8. CASE Client
  <2>1. ASSUME NEW i \in Server, NEW c \in Command, StartCheck(i, c) PROVE AppendCallInv'
    BY <2>1, <1>inv, <1>to DEF StartCheck, AppendCallInv, RoutinesOK, LockInv,
       Sending, Live
  <2>2. ASSUME NEW s \in starts, StartAppend(s) PROVE AppendCallInv'
    BY <2>2, <1>inv, <1>to DEF StartAppend, persist, AppendCallInv,
       RoutinesOK, LockInv, Sending, Live
  <2>3. QED
    BY <1>8, <2>1, <2>2 DEF Client
<1>9. CASE UNCHANGED vars
  BY <1>9, <1>inv, <1>to DEF vars, AppendCallInv, RoutinesOK, LockInv,
     Sending, Live
<1>10. QED
  BY <1>1, <1>2, <1>3, <1>4, <1>5, <1>7, <1>8, <1>9 DEF Next
===========================================================================
