---------------------------- MODULE RaftProofs ----------------------------
(***************************************************************************)
(* Theorems about Raft, for every number of servers, every set of commands *)
(* and every budget of faults.                                             *)
(***************************************************************************)
EXTENDS RaftTypes, RaftReplication, RaftRefinements

USE DEF leaderVars, applyVars, ballotVars, routineVars, voteHistory, startVars,
        voteNet, appendNet, budgetVars
USE ZenonT(10), SMTT(20)

\* What a save may do to the ballot (term and vote) of server i.
Forward(i) ==
    \/ disk'[i].term > disk[i].term
    \/ /\ disk'[i].term = disk[i].term
       /\ disk[i].votedFor \in {None, disk'[i].votedFor}

\* A step saves on one server at most.
SavesForward ==
    \/ disk' = disk
    \/ \E i \in Server : Forward(i) /\ \A j \in Server \ {i} : disk'[j] = disk[j]

\* persist moves the saved ballot forward when memory was on disk or an
\* election is being closed.
LEMMA PersistForward ==
    ASSUME IInv, NEW i \in Server, persist(i), term'[i] \in Nat,
           IF elector[i] = "campaign" THEN term'[i] >= term[i]
           ELSE \/ term'[i] > term[i]
                \/ term'[i] = term[i] /\ votedFor[i] \in {None, votedFor'[i]}
    PROVE  SavesForward
<1>1. /\ disk'[i].term = term'[i] /\ disk'[i].votedFor = votedFor'[i]
      /\ \A j \in Server \ {i} : disk'[j] = disk[j]
  BY DEF persist, IInv, TypeOK, DiskOK
<1>2. term[i] \in Nat /\ disk[i].term \in Nat
  BY DEF IInv, TypeOK, FieldsOK, DiskOK
<1>3. CASE elector[i] = "campaign"
  <2>1. term[i] > disk[i].term
    BY <1>2, <1>3 DEF IInv, LockInv
  <2>2. disk'[i].term > disk[i].term
    BY <1>1, <1>2, <1>3, <2>1
  <2>3. QED
    BY <1>1, <2>2 DEF SavesForward, Forward
<1>4. CASE elector[i] # "campaign"
  <2>1. disk[i].term = term[i] /\ disk[i].votedFor = votedFor[i]
    BY <1>4 DEF IInv, LockInv
  <2>2. QED
    BY <1>1, <1>2, <1>4, <2>1 DEF SavesForward, Forward
<1>5. QED
  BY <1>3, <1>4

\* Every step moves the saved ballots forward, those of one server at most.
LEMMA ForwardStep ==
    ASSUME IInv, [Next]_vars
    PROVE  SavesForward
<1>inv. FieldsOK /\ RoutinesOK
  BY DEF IInv, TypeOK
<1>to. /\ \A m \in voteRequests : m.to \in Server /\ m.term \in Nat
       /\ \A m \in appendRequests : m.to \in Server /\ m.term \in Nat
       /\ \A r \in appendReplies : r.req.from \in Server /\ r.term \in Nat
       /\ \A s \in starts : s.server \in Server
  BY CallServers DEF IInv, TypeOK, ClientOK
<1>free. \A i \in Server : mu[i] = "free" => elector[i] # "campaign"
  BY DEF IInv, LockInv
<1>same. disk' = disk => SavesForward
  BY DEF SavesForward
<1>1. ASSUME NEW i \in Server, Election(i) PROVE SavesForward
  <2>1. CASE LeaderTimerFires(i)
    BY <2>1, <1>inv, <1>to, <1>free, PersistForward DEF LeaderTimerFires, FieldsOK
  <2>2. CASE startElection(i)
    BY <2>2, <1>same DEF startElection
  <2>3. CASE ElectionWon(i)
    BY <2>3, <1>inv, <1>to, <1>free, PersistForward DEF ElectionWon, EndElection,
       FieldsOK
  <2>4. CASE ElectionLost(i)
    BY <2>4, <1>inv, <1>to, <1>free, PersistForward DEF ElectionLost, EndElection,
       FieldsOK
  <2>5. CASE AfterLost(i)
    BY <2>5, <1>same DEF AfterLost
  <2>6. CASE AfterWon(i)
    BY <2>6, <1>same DEF AfterWon
  <2>7. QED
    BY <1>1, <2>1, <2>2, <2>3, <2>4, <2>5, <2>6 DEF Election
<1>2. ASSUME NEW i \in Server, Heartbeat(i) PROVE SavesForward
  <2>1. CASE TickerFires(i)
    BY <2>1, <1>same DEF TickerFires
  <2>2. CASE HeartbeatNoReply(i)
    BY <2>2, <1>inv, <1>to, <1>free, PersistForward DEF HeartbeatNoReply, Return,
       FieldsOK
  <2>3. ASSUME NEW g \in Routine, HeartbeatSelf(i, g) PROVE SavesForward
    BY <2>3, <1>inv, <1>to, <1>free, PersistForward DEF HeartbeatSelf, FieldsOK
  <2>4. ASSUME NEW g \in Routine, SendHeartbeat(i, g) PROVE SavesForward
    BY <2>4, <1>same DEF SendHeartbeat
  <2>5. QED
    BY <1>2, <2>1, <2>2, <2>3, <2>4 DEF Heartbeat
<1>3. ASSUME NEW i \in Server, Apply(i) PROVE SavesForward
  BY <1>3, <1>same DEF Apply
<1>4. ASSUME NEW i \in Server, Crash(i) PROVE SavesForward
  BY <1>4, <1>same DEF Crash
<1>5. CASE VoteNet
  <2>1. ASSUME NEW m \in voteRequests, RequestVote(m) PROVE SavesForward
    <3> DEFINE i == m.to
    <3>0. /\ term' = [term EXCEPT ![i] = IF m.term > term[i] THEN m.term ELSE @]
          /\ votedFor' = [votedFor EXCEPT
                            ![i] = IF Grants(i, m) THEN m.from ELSE VoteHeld(i, m)]
          /\ mu[i] = "free" /\ persist(i)
      BY <2>1 DEF RequestVote
    <3>v. votedFor'[i] = IF Grants(i, m) THEN m.from ELSE VoteHeld(i, m)
      BY <3>0, <1>inv, <1>to DEF FieldsOK
    <3>t. term'[i] = IF m.term > term[i] THEN m.term ELSE term[i]
      BY <3>0, <1>inv, <1>to DEF FieldsOK
    <3>1. m.term <= term[i] => /\ term'[i] = term[i]
                               /\ votedFor[i] \in {None, votedFor'[i]}
      <4>1. term[i] \in Nat /\ m.term \in Nat
        BY <1>inv, <1>to DEF FieldsOK
      <4>2. m.term <= term[i] => VoteHeld(i, m) = votedFor[i]
        BY <4>1 DEF VoteHeld
      <4>3. Grants(i, m) => VoteHeld(i, m) \in {None, m.from}
        BY DEF Grants
      <4>4. m.term <= term[i] => term'[i] = term[i]
        BY <3>t, <4>1
      <4>5. QED
        BY <3>v, <4>2, <4>3, <4>4
    <3>2. m.term > term[i] => term'[i] = m.term
      BY <3>t
    <3>3. term'[i] \in Nat /\ persist(i) /\ elector[i] # "campaign"
      BY <3>0, <3>t, <1>inv, <1>to, <1>free DEF FieldsOK
    <3>4. QED
      BY <1>inv, <1>to, <3>1, <3>2, <3>3, PersistForward DEF FieldsOK
  <2>2. ASSUME NEW m \in voteRequests, LoseVoteRequest(m) PROVE SavesForward
    BY <2>2, <1>same DEF LoseVoteRequest
  <2>3. ASSUME NEW m \in voteRequests, VoteTimeout(m) PROVE SavesForward
    BY <2>3, <1>same DEF VoteTimeout
  <2>4. ASSUME NEW r \in voteReplies, VoteReply(r) PROVE SavesForward
    BY <2>4, <1>same DEF VoteReply
  <2>5. ASSUME NEW r \in voteReplies, LoseVoteReply(r) PROVE SavesForward
    BY <2>5, <1>same DEF LoseVoteReply
  <2>6. QED
    BY <1>5, <2>1, <2>2, <2>3, <2>4, <2>5 DEF VoteNet
<1>6. ASSUME NEW m \in appendRequests, AppendEntries(m) PROVE SavesForward
  <2>1. CASE AppendHigherTerm(m)
    BY <2>1, <1>inv, <1>to, <1>free, PersistForward DEF AppendHigherTerm,
       FieldsOK, Answer
  <2>2. CASE AppendLowerTerm(m)
    BY <2>2, <1>inv, <1>to, <1>free, PersistForward DEF AppendLowerTerm, FieldsOK,
       Answer
  <2>3. CASE AppendPrevMismatch(m)
    BY <2>3, <1>inv, <1>to, <1>free, PersistForward DEF AppendPrevMismatch,
       SameTerm, FieldsOK, Answer
  <2>4. CASE AppendConflict(m)
    BY <2>4, <1>inv, <1>to, <1>free, PersistForward DEF AppendConflict, SameTerm,
       FieldsOK, Answer
  <2>5. CASE AppendPrevMissing(m)
    BY <2>5, <1>inv, <1>to, <1>free, PersistForward DEF AppendPrevMissing,
       SameTerm, FieldsOK, Answer
  <2>6. CASE AppendAccepted(m)
    BY <2>6, <1>inv, <1>to, <1>free, PersistForward DEF AppendAccepted, SameTerm,
       FieldsOK, Answer
  <2>7. QED
    BY <1>6, <2>1, <2>2, <2>3, <2>4, <2>5, <2>6 DEF AppendEntries
<1>7. CASE AppendNet
  <2>1. ASSUME NEW m \in appendRequests, LoseAppendRequest(m) PROVE SavesForward
    BY <2>1, <1>same DEF LoseAppendRequest
  <2>2. ASSUME NEW m \in appendRequests, AppendTimeout(m) PROVE SavesForward
    BY <2>2, <1>same DEF AppendTimeout
  <2>3. ASSUME NEW r \in appendReplies, HeartbeatStepDown(r) PROVE SavesForward
    <3>1. /\ term' = [term EXCEPT ![r.req.from] = r.term] /\ r.term > term[r.req.from]
          /\ votedFor' = votedFor /\ persist(r.req.from)
      BY <2>3 DEF HeartbeatStepDown, Return
    <3>2. /\ term[r.req.from] \in Nat /\ term'[r.req.from] \in Nat
          /\ term'[r.req.from] > term[r.req.from]
      BY <3>1, <1>inv, <1>to DEF FieldsOK
    <3>3. term'[r.req.from] >= term[r.req.from]
      BY <3>2
    <3>4. QED
      BY <3>1, <3>2, <3>3, <1>to, PersistForward
  <2>4. ASSUME NEW r \in appendReplies, HeartbeatReply(r) PROVE SavesForward
    <3>1. /\ term' = term
          /\ votedFor' = votedFor /\ persist(r.req.from)
      BY <2>4 DEF HeartbeatReply, Return
    <3>2. /\ term[r.req.from] \in Nat /\ term'[r.req.from] \in Nat
          /\ term'[r.req.from] = term[r.req.from]
      BY <3>1, <1>inv, <1>to DEF FieldsOK
    <3>3. term'[r.req.from] >= term[r.req.from]
      BY <3>2
    <3>4. QED
      BY <3>1, <3>2, <3>3, <1>to, PersistForward
  <2>5. ASSUME NEW r \in appendReplies, HeartbeatTornReply(r) PROVE SavesForward
    <3>1. /\ term' = term
          /\ votedFor' = votedFor /\ persist(r.req.from)
      BY <2>5 DEF HeartbeatTornReply, Return
    <3>2. /\ term[r.req.from] \in Nat /\ term'[r.req.from] \in Nat
          /\ term'[r.req.from] = term[r.req.from]
      BY <3>1, <1>inv, <1>to DEF FieldsOK
    <3>3. term'[r.req.from] >= term[r.req.from]
      BY <3>2
    <3>4. QED
      BY <3>1, <3>2, <3>3, <1>to, PersistForward
  <2>6. ASSUME NEW r \in appendReplies, LoseAppendReply(r) PROVE SavesForward
    BY <2>6, <1>same DEF LoseAppendReply
  <2>7. QED
    BY <1>7, <1>6, <2>1, <2>2, <2>3, <2>4, <2>5, <2>6 DEF AppendNet
<1>8. CASE Client
  <2>1. ASSUME NEW i \in Server, NEW c \in Command, StartCheck(i, c) PROVE SavesForward
    BY <2>1, <1>same DEF StartCheck
  <2>2. ASSUME NEW s \in starts, StartAppend(s) PROVE SavesForward
    BY <2>2, <1>inv, <1>to, <1>free, PersistForward DEF StartAppend, FieldsOK
  <2>3. QED
    BY <1>8, <2>1, <2>2 DEF Client
<1>9. CASE UNCHANGED vars
  BY <1>9, <1>same DEF vars
<1>10. QED
  BY <1>1, <1>2, <1>3, <1>4, <1>5, <1>7, <1>8, <1>9 DEF Next

\* Only the RequestVote handler grants votes.
LEMMA GrantsByVote ==
    ASSUME [Next]_vars
    PROVE  granted' = granted \/ \E m \in voteRequests : RequestVote(m)
<1>1. ASSUME NEW i \in Server, Election(i) PROVE granted' = granted
  BY <1>1 DEF Election, LeaderTimerFires, startElection, ElectionWon, ElectionLost,
     AfterLost, AfterWon
<1>2. ASSUME NEW i \in Server, Heartbeat(i) PROVE granted' = granted
  BY <1>2 DEF Heartbeat, TickerFires, HeartbeatNoReply, HeartbeatSelf,
     SendHeartbeat, Return
<1>3. ASSUME NEW i \in Server, Apply(i) \/ Crash(i) PROVE granted' = granted
  BY <1>3 DEF Apply, Crash
<1>4. CASE VoteNet
  BY <1>4 DEF VoteNet, LoseVoteRequest, VoteTimeout, VoteReply, LoseVoteReply
<1>5. CASE AppendNet
  <2>1. ASSUME NEW m \in appendRequests, AppendEntries(m) PROVE granted' = granted
    <3>1. CASE AppendHigherTerm(m) \/ AppendLowerTerm(m)
      BY <3>1 DEF AppendHigherTerm, AppendLowerTerm, Answer
    <3>2. CASE AppendPrevMismatch(m) \/ AppendConflict(m)
      BY <3>2 DEF AppendPrevMismatch, AppendConflict, Answer
    <3>3. CASE AppendPrevMissing(m) \/ AppendAccepted(m)
      BY <3>3 DEF AppendPrevMissing, AppendAccepted, Answer
    <3>4. QED
      BY <2>1, <3>1, <3>2, <3>3 DEF AppendEntries
  <2>2. ASSUME NEW m \in appendRequests, LoseAppendRequest(m) \/ AppendTimeout(m)
        PROVE  granted' = granted
    BY <2>2 DEF LoseAppendRequest, AppendTimeout
  <2>3. ASSUME NEW r \in appendReplies, HeartbeatStepDown(r) \/ HeartbeatReply(r)
        PROVE  granted' = granted
    BY <2>3 DEF HeartbeatStepDown, HeartbeatReply, Return
  <2>4. ASSUME NEW r \in appendReplies, HeartbeatTornReply(r) \/ LoseAppendReply(r)
        PROVE  granted' = granted
    BY <2>4 DEF HeartbeatTornReply, LoseAppendReply, Return
  <2>5. QED
    BY <1>5, <2>1, <2>2, <2>3, <2>4 DEF AppendNet
<1>6. CASE Client
  BY <1>6 DEF Client, StartCheck, StartAppend
<1>7. CASE UNCHANGED vars
  BY <1>7 DEF vars
<1>8. QED
  BY <1>1, <1>2, <1>3, <1>4, <1>5, <1>6, <1>7 DEF Next

\* A vote is on disk when the handler has granted it.
LEMMA NewGrant ==
    ASSUME IInv, [Next]_vars, NEW g \in granted', g \notin granted
    PROVE  /\ g.voter \in Server /\ g.term = disk'[g.voter].term
           /\ g.candidate = disk'[g.voter].votedFor
<1>1. PICK m \in voteRequests : RequestVote(m)
  BY GrantsByVote
<1>2. Grants(m.to, m) /\ g = [voter |-> m.to, term |-> m.term, candidate |-> m.from]
  BY <1>1 DEF RequestVote
<1>3. m.to \in Server /\ m.term \in Nat /\ FieldsOK /\ DiskOK
  BY CallServers DEF IInv, TypeOK
<1>4. term'[m.to] = m.term /\ votedFor'[m.to] = m.from
  <2>1. term[m.to] \in Nat /\ m.term >= term[m.to]
    BY <1>2, <1>3 DEF Grants, FieldsOK
  <2>2. /\ term' = [term EXCEPT ![m.to] = IF m.term > term[m.to] THEN m.term ELSE @]
        /\ votedFor' = [votedFor EXCEPT ![m.to] = m.from]
    BY <1>1, <1>2 DEF RequestVote
  <2>3. /\ term'[m.to] = IF m.term > term[m.to] THEN m.term ELSE term[m.to]
        /\ votedFor'[m.to] = m.from
    BY <1>3, <2>2 DEF FieldsOK
  <2>4. QED
    BY <1>3, <2>1, <2>3
<1>5. disk'[m.to].term = term'[m.to] /\ disk'[m.to].votedFor = votedFor'[m.to]
  BY <1>1, <1>3 DEF RequestVote, persist, DiskOK
<1>6. QED
  BY <1>2, <1>3, <1>4, <1>5

\* Every step keeps GrantInv.
LEMMA GrantStep ==
    ASSUME IInv, [Next]_vars
    PROVE  GrantInv'
<1>1. SavesForward
  BY ForwardStep
<1>2. /\ \A i \in Server : disk[i].term \in Nat
      /\ \A g \in granted : g.voter \in Server /\ g.term \in Nat /\ g.candidate \in Server
  BY DEF IInv, TypeOK, DiskOK, HistoryOK
<1>3. \A i \in Server : disk'[i].term \in Nat
  BY TypeStep DEF TypeOK, DiskOK
<1>4. None \notin Server
  BY NAssumption DEF None, Server
<1>5. ASSUME NEW g \in granted
      PROVE  /\ g.term <= disk'[g.voter].term
             /\ g.term = disk'[g.voter].term => disk'[g.voter].votedFor = g.candidate
  <2>1. /\ g.term <= disk[g.voter].term
        /\ g.term = disk[g.voter].term => disk[g.voter].votedFor = g.candidate
    BY DEF IInv, GrantInv
  <2>2. CASE disk'[g.voter] = disk[g.voter]
    BY <2>1, <2>2
  <2>3. CASE Forward(g.voter)
    <3>1. g.voter \in Server /\ g.term \in Nat /\ disk[g.voter].term \in Nat
          /\ disk'[g.voter].term \in Nat
      BY <1>2, <1>3
    <3>2. CASE disk'[g.voter].term > disk[g.voter].term
      BY <2>1, <3>1, <3>2
    <3>3. CASE /\ disk'[g.voter].term = disk[g.voter].term
               /\ disk[g.voter].votedFor \in {None, disk'[g.voter].votedFor}
      BY <1>2, <1>4, <2>1, <3>3
    <3>4. QED
      BY <2>3, <3>2, <3>3 DEF Forward
  <2>4. QED
    BY <1>1, <1>2, <2>2, <2>3 DEF SavesForward
<1>6. QED
  BY <1>3, <1>5, NewGrant DEF GrantInv

\* Every step keeps VoteOncePerTerm.
LEMMA OnceStep ==
    ASSUME IInv, VoteOncePerTerm, [Next]_vars
    PROVE  VoteOncePerTerm'
BY GrantStep, NewGrant DEF GrantInv, VoteOncePerTerm

\* The invariant holds when all servers have been made.
LEMMA InitInv == Init => IInv /\ VoteOncePerTerm
<1> SUFFICES ASSUME Init PROVE IInv /\ VoteOncePerTerm
  OBVIOUS
<1>1. <<Placeholder>> \in Log
  BY DEF Log, Entry, Placeholder
<1>2. FieldsOK
  BY <1>1, NAssumption DEF Init, FieldsOK, Role
<1>3. DiskOK
  BY <1>1, NAssumption DEF Init, DiskOK, Blank
<1>4. RoutinesOK
  BY NAssumption DEF Init, RoutinesOK, Routine
<1>5. ClientOK /\ CallsOK /\ HistoryOK
  BY DEF Init, ClientOK, CallsOK, HistoryOK
<1>6. BudgetsOK
  BY BoundAssumption DEF Init, BudgetsOK
<1>7. NextInv
  BY DEF Init, NextInv
<1>8. LockInv
  BY DEF Init, LockInv, Blank
<1>9. VoteCallInv /\ AppendCallInv /\ GrantInv /\ VoteOncePerTerm
  BY DEF Init, VoteCallInv, AppendCallInv, GrantInv, VoteOncePerTerm
<1>10. QED
  BY <1>2, <1>3, <1>4, <1>5, <1>6, <1>7, <1>8, <1>9 DEF IInv, TypeOK

\* The inductive invariant holds in every reachable state, for every number
\* of servers, every set of commands and every budget of faults.
THEOREM Invariance == Spec => [](IInv /\ VoteOncePerTerm)
<1>1. ASSUME IInv, VoteOncePerTerm, [Next]_vars PROVE IInv' /\ VoteOncePerTerm'
  BY <1>1, TypeStep, NextStep, LockStep, VoteCallStep, AppendCallStep, GrantStep,
     OnceStep
     DEF IInv
<1>2. QED
  BY <1>1, InitInv, PTL DEF Spec

\* Every variable keeps its type (TypeOK): slot 0 of every log survives every
\* cut of AppendEntries, nextIndex and matchIndex never go below 0, and a
\* loop over rf.peers never passes the last peer.
THEOREM TypeCorrect == Spec => []TypeOK
BY Invariance, PTL DEF IInv

\* A server never grants RequestVote to two candidates of one term, whatever is
\* lost, late, reordered or crashes: the handler checks votedFor and saves the
\* vote before it answers.
THEOREM VoteOnce == Spec => []VoteOncePerTerm
BY Invariance, PTL

\* Outside startElection a crash loses nothing (DiskIsMemory): every critical
\* section of raft.go, vote.go and entry.go saves what it changed before it
\* unlocks.
THEOREM CrashLosesNothing == Spec => []DiskIsMemory
<1>1. IInv => DiskIsMemory
  BY DEF IInv, TypeOK, DiskOK, LockInv, DiskIsMemory
<1>2. QED
  BY <1>1, Invariance, PTL

\* The entries of all logs, saved or on their way, stay in order.
THEOREM LogsInOrder == Spec => []LogInv
<1>1. ASSUME IInv, LogInv, [Next]_vars PROVE LogInv'
  BY <1>1, SavedStep, SentStep DEF LogInv
<1>2. QED
  BY <1>1, LogsInit, Invariance, PTL DEF Spec

\* A restarted server holds no entry from a later term than the one it saved
\* (EntryTermSaved): AppendEntries takes entries only in its own term, and a
\* request carries no entry from beyond the term of its sender.
THEOREM SavedTermsBound == Spec => []EntryTermSaved
<1>1. IInv /\ LogInv => EntryTermSaved
  BY OrderSaved
<1>2. QED
  BY <1>1, Invariance, LogsInOrder, PTL

\* getAppendLogs never slices beyond the end of the log and always finds the
\* entry before nextIndex (SendInRange), although AppendEntries appends
\* entries twice and a round goes on after the sender's log was cut.
THEOREM SendsInRange == Spec => []SendInRange
<1>1. IInv /\ LogInv => SendInRange
  BY OrderSends
<1>2. QED
  BY <1>1, Invariance, LogsInOrder, PTL

\* Clients only get their own commands back (AppliedWasStarted): what an apply
\* goroutine sends was passed to Start, and it never sends slot 0, although
\* lost answers, cuts and restarts move entries between slots.
THEOREM AppliesWhatWasStarted == Spec => []AppliedWasStarted
<1>1. ASSUME IInv, IssuedInv, [Next]_vars PROVE IssuedInv'
  BY <1>1, IssuedStep
<1>2. IssuedInv => AppliedWasStarted
  BY DEF IssuedInv
<1>3. QED
  BY <1>1, <1>2, IssuedInit, Invariance, PTL DEF Spec

\* Raft implements Ballot: the saved term of a server never goes back, and
\* within a term a saved vote is never replaced by another, although
\* startElection writes memory long before it saves and its goroutines write
\* the term unsynchronized.
THEOREM BallotsAreDurable == Spec => DurableBallots
<1>1. Init => Ballots!Init
  BY DEF Init, Ballots!Init, Blank
<1> DEFINE saved == <<[i \in Server |-> disk[i].term],
                      [i \in Server |-> disk[i].votedFor]>>
<1>2. ASSUME IInv, [Next]_vars PROVE [Ballots!Next]_saved
  <2>1. CASE disk' = disk
    BY <2>1
  <2>2. ASSUME NEW i \in Server, Forward(i),
               \A j \in Server \ {i} : disk'[j] = disk[j]
        PROVE  [Ballots!Next]_saved
    <3>1. Ballots!OthersStay(i)
      BY <2>2 DEF Ballots!OthersStay
    <3>2. CASE disk'[i].term > disk[i].term
      BY <3>1, <3>2 DEF Ballots!Next, Ballots!Advance
    <3>3. CASE disk'[i].term = disk[i].term /\ disk[i].votedFor = None
      BY <3>1, <3>3 DEF Ballots!Next, Ballots!Choose
    <3>4. CASE /\ disk'[i].term = disk[i].term
               /\ disk[i].votedFor = disk'[i].votedFor
      BY <2>2, <3>4
    <3>5. QED
      BY <2>2, <3>2, <3>3, <3>4 DEF Forward
  <2> HIDE DEF saved
  <2>3. QED
    BY <1>2, <2>1, <2>2, ForwardStep DEF SavesForward
<1>3. QED
  BY <1>1, <1>2, Invariance, PTL DEF Spec, DurableBallots, Ballots!Spec
---------------------------------------------------------------------------
(* Winners of elections.                                                   *)

\* startElection of i waits for j.
Waits(i, j) ==
    \/ \E m \in voteRequests : Live(m) /\ m.from = i /\ m.to = j
    \/ \E r \in voteReplies : r.req.from = i /\ r.req.to = j

\* Those who voted for c in term t, c included, and those of them that the
\* election of i has heard from.
Vote(j, t, c) == [voter |-> j, term |-> t, candidate |-> c]
Voters(t, c) == {j \in Server : j = c \/ Vote(j, t, c) \in granted}
Counted(i) == {j \in Voters(campaign[i], i) : ~Waits(i, j)}

\* An election asks each peer once.
OneVoteCall ==
    /\ \A m \in voteRequests : m.from # m.to
    /\ \A r \in voteReplies : r.req.from # r.req.to
    /\ \A m, n \in voteRequests :
          Live(m) /\ Live(n) /\ m.from = n.from /\ m.to = n.to => m = n
    /\ \A r, q \in voteReplies :
          r.req.from = q.req.from /\ r.req.to = q.req.to => r = q
    /\ \A m \in voteRequests, r \in voteReplies :
          Live(m) /\ m.from = r.req.from => m.to # r.req.to
RepliesGranted ==
    \A r \in voteReplies :
        r.granted => Vote(r.req.to, r.req.term, r.req.from) \in granted

\* voteCount counts voters, none of them twice, so that winners have the
\* votes of a majority.
CountInv ==
    \A i \in Server :
        elector[i] = "campaign" => voteCount[i] <= Cardinality(Counted(i))
WonInv == \A w \in won : Majority(Cardinality(Voters(w.term, w.server)))

VotesInv == OneVoteCall /\ RepliesGranted /\ CountInv /\ WonInv

\* What elections look at.
electionVars == <<voteRequests, voteReplies, granted, won, elector, campaign, voteCount>>

\* The steps of elections.
LEMMA ElectionKinds ==
    ASSUME [Next]_vars
    PROVE  \/ UNCHANGED electionVars \/ VoteNet
           \/ \E i \in Server : Election(i) \/ Crash(i)
<1>1. ASSUME NEW i \in Server, Heartbeat(i) \/ Apply(i) PROVE UNCHANGED electionVars
  BY <1>1 DEF Heartbeat, TickerFires, HeartbeatNoReply, HeartbeatSelf,
     SendHeartbeat, Return, Apply, electionVars
<1>2. CASE AppendNet
  <2>1. ASSUME NEW m \in appendRequests, AppendEntries(m) PROVE UNCHANGED electionVars
    <3>1. PICK t, ok, next : Answer(m, t, ok, next)
      BY <2>1 DEF AppendEntries, AppendHigherTerm, AppendLowerTerm,
         AppendPrevMismatch, AppendConflict, AppendPrevMissing, AppendAccepted
    <3>2. QED
      BY <3>1 DEF Answer, electionVars
  <2>2. ASSUME NEW m \in appendRequests, LoseAppendRequest(m) \/ AppendTimeout(m)
        PROVE  UNCHANGED electionVars
    BY <2>2 DEF LoseAppendRequest, AppendTimeout, electionVars
  <2>3. ASSUME NEW r \in appendReplies, HeartbeatStepDown(r) \/ HeartbeatReply(r)
        PROVE  UNCHANGED electionVars
    BY <2>3 DEF HeartbeatStepDown, HeartbeatReply, Return, electionVars
  <2>4. ASSUME NEW r \in appendReplies, HeartbeatTornReply(r) \/ LoseAppendReply(r)
        PROVE  UNCHANGED electionVars
    BY <2>4 DEF HeartbeatTornReply, LoseAppendReply, Return, electionVars
  <2>5. QED
    BY <1>2, <2>1, <2>2, <2>3, <2>4 DEF AppendNet
<1>3. CASE Client
  BY <1>3 DEF Client, StartCheck, StartAppend, electionVars
<1>4. CASE UNCHANGED vars
  BY <1>4 DEF vars, electionVars
<1>5. QED
  BY <1>1, <1>2, <1>3, <1>4 DEF Next

\* Calls that end, time out or are forgotten leave the rest as it was.
LEMMA CallsEndApart ==
    ASSUME OneVoteCall, voteReplies' \subseteq voteReplies,
           \A m \in voteRequests' :
              m \in voteRequests \/ (~Live(m) /\ m.from # m.to)
    PROVE  OneVoteCall' /\ \A i, j : Waits(i, j)' => Waits(i, j)
<1>1. OneVoteCall'
  BY DEF OneVoteCall, Live
<1>2. ASSUME NEW i, NEW j, Waits(i, j)' PROVE Waits(i, j)
  BY <1>2 DEF Waits, Live
<1>3. QED
  BY <1>1, <1>2

\* Sets of servers are finite.
LEMMA CountedFinite ==
    ASSUME NEW S, S \subseteq Server
    PROVE  IsFiniteSet(S) /\ Cardinality(S) \in Nat
BY ServerCount, FS_Subset, FS_CardinalityType

\* An election that goes on has heard from at least those it had heard from.
LEMMA CountGrows ==
    ASSUME NEW i \in Server, IInv, CountInv, elector[i] = "campaign",
           campaign'[i] = campaign[i], voteCount'[i] = voteCount[i],
           granted \subseteq granted', \A j : Waits(i, j)' => Waits(i, j)
    PROVE  voteCount'[i] <= Cardinality(Counted(i)')
<1>1. Counted(i) \subseteq Counted(i)'
  BY DEF Counted, Voters
<1>2. Counted(i) \subseteq Server /\ Counted(i)' \subseteq Server
  BY DEF Counted, Voters
<1>3. /\ IsFiniteSet(Counted(i)') /\ Cardinality(Counted(i)) \in Nat
      /\ Cardinality(Counted(i)') \in Nat
  BY <1>2, CountedFinite
<1>4. Cardinality(Counted(i)) <= Cardinality(Counted(i)')
  BY <1>1, <1>3, FS_Subset
<1>5. voteCount[i] <= Cardinality(Counted(i)) /\ voteCount[i] \in Nat
  BY DEF CountInv, IInv, TypeOK, RoutinesOK
<1>6. QED
  BY <1>3, <1>4, <1>5

\* A winner keeps its voters.
LEMMA WonStays ==
    ASSUME WonInv, won' = won, granted \subseteq granted'
    PROVE  WonInv'
<1>1. ASSUME NEW w \in won PROVE Majority(Cardinality(Voters(w.term, w.server)'))
  <2>1. /\ Voters(w.term, w.server) \subseteq Voters(w.term, w.server)'
        /\ Voters(w.term, w.server)' \subseteq Server
    BY DEF Voters
  <2>2. QED
    BY <2>1, MajorityGrows DEF WonInv
<1>2. QED
  BY <1>1 DEF WonInv, Majority

\* The steps that count no vote and grant none.
LEMMA VotesStay ==
    ASSUME IInv, VotesInv, voteReplies' \subseteq voteReplies,
           \A m \in voteRequests' :
              m \in voteRequests \/ (~Live(m) /\ m.from # m.to),
           granted' = granted, won' = won,
           \A i \in Server : elector'[i] = "campaign" =>
              /\ elector[i] = "campaign" /\ campaign'[i] = campaign[i]
              /\ voteCount'[i] = voteCount[i]
    PROVE  VotesInv'
<1>1. OneVoteCall' /\ \A i, j : Waits(i, j)' => Waits(i, j)
  BY CallsEndApart DEF VotesInv
<1>2. RepliesGranted'
  BY DEF VotesInv, RepliesGranted, Vote
<1>3. CountInv'
  <2>1. ASSUME NEW i \in Server, elector'[i] = "campaign"
        PROVE  voteCount'[i] <= Cardinality(Counted(i)')
    BY <1>1, <2>1, CountGrows DEF VotesInv
  <2>2. QED
    BY <2>1 DEF CountInv
<1>4. WonInv'
  BY WonStays DEF VotesInv
<1>5. QED
  BY <1>1, <1>2, <1>3, <1>4 DEF VotesInv

\* startElection counts its own vote, and the calls of earlier elections are
\* over.
LEMMA StartVotes ==
    ASSUME IInv, VotesInv, NEW i \in Server, startElection(i)
    PROVE  VotesInv'
<1>1. /\ voteReplies' = voteReplies /\ granted' = granted /\ won' = won
      /\ elector[i] # "campaign"
  BY DEF startElection, AtSelect
<1>2. /\ \A m \in voteRequests : Live(m) => m.from # i
      /\ \A r \in voteReplies : r.req.from # i
  BY <1>1 DEF IInv, VoteCallInv
<1>3. \A m \in voteRequests' :
         m \in voteRequests \/ (Live(m) /\ m.from = i /\ m.to \in Server \ {i})
  BY DEF startElection, Live
<1>4. \A m, n \in voteRequests' :
         Live(m) /\ Live(n) /\ m.from = i /\ n.from = i /\ m.to = n.to => m = n
  BY <1>2 DEF startElection
<1>5. OneVoteCall'
  <2>1. /\ \A m \in voteRequests' : m.from # m.to
        /\ \A r \in voteReplies' : r.req.from # r.req.to
    BY <1>1, <1>3 DEF VotesInv, OneVoteCall
  <2>2. \A m, n \in voteRequests' :
           Live(m) /\ Live(n) /\ m.from = n.from /\ m.to = n.to => m = n
    BY <1>2, <1>3, <1>4 DEF VotesInv, OneVoteCall
  <2>3. \A r, q \in voteReplies' :
           r.req.from = q.req.from /\ r.req.to = q.req.to => r = q
    BY <1>1 DEF VotesInv, OneVoteCall
  <2>4. \A m \in voteRequests', r \in voteReplies' :
           Live(m) /\ m.from = r.req.from => m.to # r.req.to
    BY <1>1, <1>2, <1>3 DEF VotesInv, OneVoteCall
  <2>5. QED
    BY <2>1, <2>2, <2>3, <2>4 DEF OneVoteCall, Live
<1>6. RepliesGranted'
  BY <1>1 DEF VotesInv, RepliesGranted, Vote
<1>7. /\ voteCount'[i] = 1 /\ campaign \in [Server -> Nat]
      /\ \A j \in Server \ {i} : /\ elector'[j] = elector[j] /\ campaign'[j] = campaign[j]
                                 /\ voteCount'[j] = voteCount[j]
  BY DEF startElection, IInv, TypeOK, RoutinesOK
<1>8. voteCount'[i] <= Cardinality(Counted(i)')
  <2>1. ~Waits(i, i)'
    BY <1>5 DEF OneVoteCall, Waits
  <2>2. {i} \subseteq Counted(i)' /\ Counted(i)' \subseteq Server
    BY <2>1 DEF Counted, Voters
  <2>3. IsFiniteSet(Counted(i)') /\ Cardinality(Counted(i)') \in Nat
    BY <2>2, CountedFinite
  <2>4. Cardinality({i}) <= Cardinality(Counted(i)') /\ Cardinality({i}) = 1
    BY <2>2, <2>3, FS_Subset, FS_Singleton
  <2>5. QED
    BY <1>7, <2>3, <2>4
<1>9. CountInv'
  <2>1. ASSUME NEW j \in Server \ {i}, elector'[j] = "campaign"
        PROVE  voteCount'[j] <= Cardinality(Counted(j)')
    <3>1. \A k : Waits(j, k)' => Waits(j, k)
      BY <1>1, <1>3 DEF Waits, Live
    <3>2. QED
      BY <1>1, <1>7, <2>1, <3>1, CountGrows DEF VotesInv
  <2>2. QED
    BY <1>8, <2>1 DEF CountInv
<1>10. WonInv'
  BY <1>1, WonStays DEF VotesInv
<1>11. QED
  BY <1>5, <1>6, <1>9, <1>10 DEF VotesInv

\* An answer is counted once: the peer that sent it is not waited for again.
LEMMA CountVotes ==
    ASSUME IInv, VotesInv, NEW r \in voteReplies, VoteReply(r)
    PROVE  VotesInv'
<1> DEFINE i == r.req.from
           j == r.req.to
<1>1. /\ i \in Server /\ j \in Server /\ r.granted \in BOOLEAN
  BY CallFields, VoteRequestFields DEF IInv, TypeOK
<1>2. /\ voteReplies' = voteReplies \ {r} /\ granted' = granted /\ won' = won
      /\ voteRequests' = voteRequests /\ elector' = elector /\ campaign' = campaign
      /\ voteCount' = [voteCount EXCEPT ![i] = IF r.granted THEN @ + 1 ELSE @]
  BY DEF VoteReply
<1>3. OneVoteCall' /\ \A p, q : Waits(p, q)' => Waits(p, q)
  BY <1>2, CallsEndApart DEF VotesInv
<1>4. RepliesGranted'
  BY <1>2 DEF VotesInv, RepliesGranted, Vote
<1>5. /\ voteCount \in [Server -> Nat] /\ elector[i] = "campaign" /\ r.req.term = campaign[i]
  BY DEF IInv, TypeOK, RoutinesOK, VoteCallInv
<1>6. ASSUME r.granted PROVE voteCount'[i] <= Cardinality(Counted(i)')
  <2>1. Waits(i, j) /\ ~Waits(i, j)'
    BY <1>2 DEF VotesInv, OneVoteCall, Waits
  <2>2. j \in Voters(campaign[i], i)
    BY <1>1, <1>5, <1>6 DEF VotesInv, RepliesGranted, Voters
  <2>3. Voters(campaign[i], i)' = Voters(campaign[i], i)
    BY <1>2 DEF Voters, Vote
  <2>4. /\ Counted(i) \cup {j} \subseteq Counted(i)' /\ j \notin Counted(i)
        /\ Counted(i) \subseteq Server /\ Counted(i)' \subseteq Server
    BY <1>2, <1>3, <2>1, <2>2, <2>3 DEF Counted, Voters
  <2>5. /\ IsFiniteSet(Counted(i)) /\ Cardinality(Counted(i)) \in Nat
        /\ IsFiniteSet(Counted(i)') /\ Cardinality(Counted(i)') \in Nat
    BY <2>4, CountedFinite
  <2>6. Cardinality(Counted(i) \cup {j}) = Cardinality(Counted(i)) + 1
    BY <2>4, <2>5, FS_AddElement
  <2>7. Cardinality(Counted(i)) + 1 <= Cardinality(Counted(i)')
    BY <2>4, <2>5, <2>6, FS_Subset
  <2>8. voteCount[i] <= Cardinality(Counted(i)) /\ voteCount'[i] = voteCount[i] + 1
    BY <1>1, <1>2, <1>5, <1>6 DEF VotesInv, CountInv
  <2>9. voteCount[i] \in Nat
    BY <1>1, <1>5
  <2> HIDE DEF i, j
  <2>10. QED
    BY <2>5, <2>7, <2>8, <2>9
<1>7. ASSUME NEW k \in Server, elector'[k] = "campaign", k # i \/ ~r.granted
      PROVE  voteCount'[k] <= Cardinality(Counted(k)')
  <2>1. voteCount'[k] = voteCount[k]
    BY <1>1, <1>2, <1>5, <1>7
  <2>2. QED
    BY <1>2, <1>3, <1>7, <2>1, CountGrows DEF VotesInv
<1>8. CountInv'
  BY <1>6, <1>7 DEF CountInv
<1>9. WonInv'
  BY <1>2, WonStays DEF VotesInv
<1>10. QED
  BY <1>3, <1>4, <1>8, <1>9 DEF VotesInv

\* The handler grants a vote before it is counted.
LEMMA GrantVotes ==
    ASSUME IInv, VotesInv, NEW m \in voteRequests, RequestVote(m)
    PROVE  VotesInv'
<1> DEFINE grant == Grants(m.to, m)
           r == [req |-> m, term |-> term[m.to], granted |-> grant]
<1>1. /\ voteRequests' = voteRequests \ {m} /\ won' = won
      /\ UNCHANGED <<elector, campaign, voteCount>>
      /\ granted' = IF grant THEN granted \cup {Vote(m.to, m.term, m.from)} ELSE granted
      /\ voteReplies' = IF Live(m) THEN voteReplies \cup {r} ELSE voteReplies
  BY DEF RequestVote, Vote
<1>2. r.req = m /\ r.granted = grant
  OBVIOUS
<1> HIDE DEF grant, r
<1>3. granted \subseteq granted'
  BY <1>1
<1>4. \A q \in voteReplies' : q \in voteReplies \/ (q = r /\ Live(m))
  BY <1>1
<1>5. OneVoteCall'
  <2>1. /\ \A n \in voteRequests' : n.from # n.to
        /\ \A q \in voteReplies' : q.req.from # q.req.to
    BY <1>1, <1>2, <1>4 DEF VotesInv, OneVoteCall
  <2>2. \A n, o \in voteRequests' :
           Live(n) /\ Live(o) /\ n.from = o.from /\ n.to = o.to => n = o
    BY <1>1 DEF VotesInv, OneVoteCall
  <2>3. \A p, q \in voteReplies' :
           p.req.from = q.req.from /\ p.req.to = q.req.to => p = q
    BY <1>2, <1>4 DEF VotesInv, OneVoteCall
  <2>4. \A n \in voteRequests', q \in voteReplies' :
           Live(n) /\ n.from = q.req.from => n.to # q.req.to
    <3>1. \A n \in voteRequests, q \in voteReplies :
             Live(n) /\ n.from = q.req.from => n.to # q.req.to
      BY DEF VotesInv, OneVoteCall
    <3>2. \A n \in voteRequests \ {m} :
             Live(n) /\ Live(m) /\ n.from = m.from => n.to # m.to
      BY DEF VotesInv, OneVoteCall
    <3>3. voteRequests' = voteRequests \ {m}
      BY <1>1
    <3>4. ASSUME NEW n \in voteRequests', NEW q \in voteReplies',
                 Live(n), n.from = q.req.from
          PROVE  n.to # q.req.to
      <4>1. CASE q \in voteReplies
        BY <3>1, <3>3, <3>4, <4>1
      <4>2. CASE q = r /\ Live(m)
        BY <1>2, <3>2, <3>3, <3>4, <4>2
      <4>3. QED
        BY <1>4, <3>4, <4>1, <4>2
    <3>5. QED
      BY <3>4 DEF Live
  <2>5. QED
    BY <2>1, <2>2, <2>3, <2>4 DEF OneVoteCall, Live
<1>6. RepliesGranted'
  <2>1. ASSUME NEW q \in voteReplies', q.granted
        PROVE  Vote(q.req.to, q.req.term, q.req.from) \in granted'
    <3>1. CASE q \in voteReplies
      BY <1>3, <2>1, <3>1 DEF VotesInv, RepliesGranted
    <3>2. CASE q = r
      BY <1>1, <1>2, <2>1, <3>2
    <3>3. QED
      BY <1>4, <3>1, <3>2
  <2>2. QED
    BY <2>1 DEF RepliesGranted, Vote
<1>7. ASSUME NEW i, NEW j, Waits(i, j)' PROVE Waits(i, j)
  <2>1. \/ \E n \in voteRequests' : Live(n) /\ n.from = i /\ n.to = j
        \/ \E q \in voteReplies' : q.req.from = i /\ q.req.to = j
    BY <1>7 DEF Waits, Live
  <2>2. QED
    BY <1>1, <1>2, <1>4, <2>1 DEF Waits
<1>8. CountInv'
  <2>1. ASSUME NEW i \in Server, elector'[i] = "campaign"
        PROVE  voteCount'[i] <= Cardinality(Counted(i)')
    BY <1>1, <1>3, <1>7, <2>1, CountGrows DEF VotesInv
  <2>2. QED
    BY <2>1 DEF CountInv
<1>9. WonInv'
  BY <1>1, <1>3, WonStays DEF VotesInv
<1>10. QED
  BY <1>5, <1>6, <1>8, <1>9 DEF VotesInv

\* Who wins has counted a majority, and waits for nobody any more.
LEMMA WinVotes ==
    ASSUME IInv, VotesInv, NEW i \in Server, ElectionWon(i)
    PROVE  VotesInv'
<1> DEFINE w == [server |-> i, term |-> campaign[i]]
<1>1. /\ elector[i] = "campaign" /\ VoteCalls(i) = {} /\ Majority(voteCount[i])
      /\ won' = won \cup {w} /\ UNCHANGED <<voteRequests, voteReplies, granted>>
  BY DEF ElectionWon
<1>2. /\ elector'[i] # "campaign"
      /\ \A j \in Server \ {i} : /\ elector'[j] = elector[j] /\ campaign'[j] = campaign[j]
                                 /\ voteCount'[j] = voteCount[j]
  BY DEF ElectionWon, EndElection, IInv, TypeOK, RoutinesOK
<1>3. OneVoteCall' /\ RepliesGranted'
  BY <1>1 DEF VotesInv, OneVoteCall, RepliesGranted, Vote, Live
<1>4. \A j, k : Waits(j, k)' => Waits(j, k)
  BY <1>1 DEF Waits, Live
<1>5. CountInv'
  <2>1. ASSUME NEW j \in Server, elector'[j] = "campaign"
        PROVE  voteCount'[j] <= Cardinality(Counted(j)')
    <3>1. /\ elector[j] = "campaign" /\ campaign'[j] = campaign[j]
          /\ voteCount'[j] = voteCount[j] /\ granted \subseteq granted'
      BY <1>1, <1>2, <2>1
    <3>2. QED
      BY <1>4, <3>1, CountGrows DEF VotesInv
  <2>2. QED
    BY <2>1 DEF CountInv
<1>6. Majority(Cardinality(Voters(campaign[i], i)))
  <2>1. \A j : ~Waits(i, j)
    BY <1>1 DEF VoteCalls, Waits
  <2>2. Counted(i) = Voters(campaign[i], i) /\ Counted(i) \subseteq Server
    BY <2>1 DEF Counted, Voters
  <2>3. voteCount[i] <= Cardinality(Counted(i)) /\ voteCount[i] \in Nat
    BY <1>1 DEF VotesInv, CountInv, IInv, TypeOK, RoutinesOK
  <2>4. Cardinality(Counted(i)) \in Nat /\ N \div 2 \in Nat
    BY <2>2, CountedFinite, NAssumption
  <2>5. Cardinality(Counted(i)) > N \div 2
    BY <1>1, <2>3, <2>4 DEF Majority
  <2>6. QED
    BY <2>2, <2>5 DEF Majority
<1>7. WonInv'
  <2>1. w.term = campaign[i] /\ w.server = i
    OBVIOUS
  <2> HIDE DEF w
  <2>2. ASSUME NEW x \in won' PROVE Majority(Cardinality(Voters(x.term, x.server)))
    BY <1>1, <1>6, <2>1 DEF VotesInv, WonInv
  <2>3. QED
    BY <1>1, <2>2 DEF WonInv, Voters, Vote, Majority
<1>8. QED
  BY <1>3, <1>5, <1>7 DEF VotesInv

\* Every step keeps VotesInv.
LEMMA VotesStep ==
    ASSUME IInv, VotesInv, [Next]_vars
    PROVE  VotesInv'
<1>inv. /\ RoutinesOK /\ lates \in Nat /\ \A m \in voteRequests : m \in VoteRequest
  BY BoundAssumption, CallFields DEF IInv, TypeOK, BudgetsOK
<1>own. \A m \in voteRequests : m.from # m.to
  BY DEF VotesInv, OneVoteCall
<1>1. CASE UNCHANGED electionVars
  BY <1>1, VotesStay DEF electionVars
<1>2. ASSUME NEW i \in Server, Election(i) PROVE VotesInv'
  <2>1. CASE startElection(i)
    BY <2>1, StartVotes
  <2>2. CASE ElectionWon(i)
    BY <2>2, WinVotes
  <2>3. CASE LeaderTimerFires(i)
    BY <2>3, <1>inv, VotesStay DEF LeaderTimerFires, RoutinesOK
  <2>4. CASE ElectionLost(i)
    BY <2>4, <1>inv, VotesStay DEF ElectionLost, EndElection, RoutinesOK
  <2>5. CASE AfterLost(i) \/ AfterWon(i)
    BY <2>5, <1>inv, VotesStay DEF AfterLost, AfterWon, RoutinesOK
  <2>6. QED
    BY <1>2, <2>1, <2>2, <2>3, <2>4, <2>5 DEF Election
<1>3. ASSUME NEW i \in Server, Crash(i) PROVE VotesInv'
  <2>1. \A m \in voteRequests : /\ [m EXCEPT !.late = lates + 1].late = lates + 1
                                /\ [m EXCEPT !.late = lates + 1].from = m.from
                                /\ [m EXCEPT !.late = lates + 1].to = m.to
    BY <1>inv DEF VoteRequest
  <2>2. \A m \in AfterCrash(voteRequests, i, lates + 1) :
           m \in voteRequests \/ (m.late # 0 /\ m.from # m.to)
    <3>1. \A m \in AfterCrash(voteRequests, i, lates + 1) :
             \/ m \in voteRequests
             \/ \E n \in voteRequests : m = [n EXCEPT !.late = lates + 1]
      BY DEF AfterCrash
    <3>2. lates + 1 # 0
      BY <1>inv
    <3>3. ASSUME NEW n \in voteRequests, NEW m, m = [n EXCEPT !.late = lates + 1]
          PROVE  m.late # 0 /\ m.from # m.to
      <4>1. m.late = lates + 1 /\ m.from = n.from /\ m.to = n.to
        BY <2>1, <3>3
      <4>2. QED
        BY <1>own, <3>2, <4>1
    <3>4. QED
      BY <3>1, <3>3
  <2>3. /\ voteRequests' = AfterCrash(voteRequests, i, lates + 1)
        /\ voteReplies' \subseteq voteReplies /\ granted' = granted /\ won' = won
    BY <1>3 DEF Crash, Uninvolved
  <2>4. \A j \in Server : elector'[j] = "campaign" =>
           /\ elector[j] = "campaign" /\ campaign'[j] = campaign[j]
           /\ voteCount'[j] = voteCount[j]
    BY <1>3, <1>inv DEF Crash, RoutinesOK
  <2>5. QED
    BY <2>2, <2>3, <2>4, VotesStay DEF Live
<1>4. CASE VoteNet
  <2>1. ASSUME NEW m \in voteRequests, RequestVote(m) PROVE VotesInv'
    BY <2>1, GrantVotes
  <2>2. ASSUME NEW m \in voteRequests, LoseVoteRequest(m) PROVE VotesInv'
    BY <2>2, VotesStay DEF LoseVoteRequest
  <2>3. ASSUME NEW m \in voteRequests, VoteTimeout(m) PROVE VotesInv'
    <3>1. Outlive(m).late # 0 /\ Outlive(m).from # Outlive(m).to
      BY <1>inv, <1>own DEF Outlive, VoteRequest
    <3>2. /\ voteRequests' = (voteRequests \ {m}) \cup {Outlive(m)}
          /\ UNCHANGED <<voteReplies, granted, won, elector, campaign, voteCount>>
      BY <2>3 DEF VoteTimeout
    <3>3. \A n \in voteRequests' :
             n \in voteRequests \/ (~Live(n) /\ n.from # n.to)
      BY <3>1, <3>2 DEF Live
    <3>4. QED
      BY <3>2, <3>3, VotesStay
  <2>4. ASSUME NEW r \in voteReplies, VoteReply(r) PROVE VotesInv'
    BY <2>4, CountVotes
  <2>5. ASSUME NEW r \in voteReplies, LoseVoteReply(r) PROVE VotesInv'
    BY <2>5, VotesStay DEF LoseVoteReply
  <2>6. QED
    BY <1>4, <2>1, <2>2, <2>3, <2>4, <2>5 DEF VoteNet
<1>5. QED
  BY <1>1, <1>2, <1>3, <1>4, ElectionKinds

\* Two majorities of voters have a voter in common, who has not voted twice.
LEMMA WinnersShare ==
    ASSUME IInv, VotesInv, VoteOncePerTerm
    PROVE  WinnersClash
<1>1. SUFFICES ASSUME NEW w \in won, NEW x \in won, w.term = x.term,
                      w.server # x.server
               PROVE  \E g \in granted : /\ g.term = w.term
                                          /\ {g.voter, g.candidate} = {w.server, x.server}
  BY DEF WinnersClash
<1> DEFINE t == w.term
<1>2. /\ Voters(t, w.server) \subseteq Server /\ Voters(t, x.server) \subseteq Server
      /\ Majority(Cardinality(Voters(t, w.server)))
      /\ Majority(Cardinality(Voters(t, x.server)))
  BY <1>1 DEF VotesInv, WonInv, Voters
<1>3. PICK v \in Server : v \in Voters(t, w.server) /\ v \in Voters(t, x.server)
  BY <1>2, MajoritiesMeet
<1>4. \A c : /\ Vote(v, t, c).voter = v /\ Vote(v, t, c).term = t
             /\ Vote(v, t, c).candidate = c
  BY DEF Vote
<1>5. /\ v = w.server \/ Vote(v, t, w.server) \in granted
      /\ v = x.server \/ Vote(v, t, x.server) \in granted
  BY <1>3 DEF Voters
<1>6. ~(Vote(v, t, w.server) \in granted /\ Vote(v, t, x.server) \in granted)
  <2>1. \A g, h \in granted :
           g.voter = h.voter /\ g.term = h.term => g.candidate = h.candidate
    BY DEF VoteOncePerTerm
  <2>2. QED
    BY <1>1, <1>4, <2>1
<1>7. CASE v = w.server
  BY <1>1, <1>4, <1>5, <1>7
<1>8. CASE v = x.server
  BY <1>1, <1>4, <1>5, <1>8
<1>9. QED
  BY <1>5, <1>6, <1>7, <1>8

\* Two servers win the election of one term only if one of them also voted
\* for the other (WinnersClash), for any number of servers and whatever is
\* lost, late or crashes: voteCount counts every voter once, and RequestVote
\* grants one vote in a term.
THEOREM WinnersNeedAVote == Spec => []WinnersClash
<1>1. Init => VotesInv
  BY DEF Init, VotesInv, OneVoteCall, RepliesGranted, CountInv, WonInv
<1>2. ASSUME IInv, VotesInv, [Next]_vars PROVE VotesInv'
  BY <1>2, VotesStep
<1>3. IInv /\ VotesInv /\ VoteOncePerTerm => WinnersClash
  BY WinnersShare
<1>4. QED
  BY <1>1, <1>2, <1>3, Invariance, PTL DEF Spec
---------------------------------------------------------------------------
(* One server that campaigns.                                              *)

\* Whatever is late, lost or crashes, the server that campaigns has on its disk
\* every command that any apply goroutine has sent, and every entry of another
\* log, if not in the same slot: AppendEntries appends only what it was sent.
THEOREM AppliedStaysWithLeader ==
    ASSUME NEW l \in Server, Campaigner \subseteq {l}
    PROVE  Spec => [](/\ \A d \in delivered : HasCommand(disk[l].log, d.command)
                      /\ \A i \in Server : \A k \in 1 .. Len(disk[i].log) :
                            Has(disk[l].log, disk[i].log[k]))
<1>1. Init => SoleSender(l) /\ FromLeader(l)
  BY SoleInit, FromLeaderInit
<1>2. ASSUME IInv, IInv', SoleSender(l), FromLeader(l), [Next]_vars
      PROVE  SoleSender(l)' /\ FromLeader(l)'
  BY <1>2, SoleStep, FromLeaderStep
<1>3. ASSUME IInv, FromLeader(l)
      PROVE  /\ \A d \in delivered : HasCommand(disk[l].log, d.command)
             /\ \A i \in Server : \A k \in 1 .. Len(disk[i].log) :
                   Has(disk[l].log, disk[i].log[k])
  <2>1. \A i \in Server : disk[i].log = logEntries[i]
    BY <1>3 DEF IInv, LockInv
  <2>2. QED
    BY <1>3, <2>1 DEF FromLeader
<1>4. QED
  BY <1>1, <1>2, <1>3, Invariance, PTL DEF Spec
---------------------------------------------------------------------------
(* Replication from one server (see Reliable), for every number of         *)
(* servers, every set of commands, every bound on terms and crashes.       *)

\* The inductive invariant of replication.
THEOREM Replication ==
    ASSUME NEW l \in Server, Reliable(l)
    PROVE  Spec => [](OneSender(l) /\ Replica(l))
<1>1. Init => OneSender(l) /\ Replica(l)
  BY ReplicaInit
<1>2. ASSUME IInv, IInv', OneSender(l), Replica(l), [Next]_vars
      PROVE  OneSender(l)' /\ Replica(l)'
  BY <1>2, SenderStep, ReplicaStep
<1>3. QED
  BY <1>1, <1>2, Invariance, PTL DEF Spec

\* What any apply goroutine has sent on applyCh is on the disks of a majority
\* (AppliedIsDurable), since commitLog counts a server only after
\* AppendEntries has saved the entry there, and no two goroutines send
\* different commands for one index (StateMachineSafety).
THEOREM AppliedSurvives ==
    ASSUME NEW l \in Server, Reliable(l)
    PROVE  Spec => [](AppliedIsDurable /\ StateMachineSafety)
<1>1. IInv /\ Replica(l) => AppliedIsDurable /\ StateMachineSafety
  BY ReplicasDurable
<1>2. QED
  BY <1>1, Invariance, Replication, PTL

\* commitIndex never goes back without a crash and never passes the end of
\* the log (CommitGrowsInLog), whether commitLog or AppendEntries moves it.
THEOREM CommitsGrow ==
    ASSUME NEW l \in Server, Reliable(l)
    PROVE  Spec => CommitGrowsInLog
<1> DEFINE A == \A i \in Server :
                   /\ commitIndex'[i] >= commitIndex[i] \/ crashes' # crashes
                   /\ commitIndex'[i] < Len(logEntries'[i])
<1>1. ASSUME IInv, IInv', OneSender(l), Replica(l), [Next]_vars PROVE A
  <2>1. CommitsForward /\ CommitSaved'
    BY <1>1, ReplicaStep DEF Replica
  <2>2. QED
    BY <2>1 DEF CommitsForward, CommitSaved
<1> HIDE DEF A
<1>2. Spec => [][A]_vars
  BY <1>1, Invariance, Replication, PTL DEF Spec
<1>3. QED
  BY <1>2 DEF A, CommitGrowsInLog

\* Raft implements Agreement (AppliedIsOneLog): what the apply goroutines of
\* all servers send, taken together, grows by one index at a time, with one
\* command for each index and no command twice, although every goroutine
\* starts over from index 1 after a crash.
THEOREM AppliesOneLog ==
    ASSUME NEW l \in Server, Reliable(l)
    PROVE  Spec => AppliedIsOneLog
<1>1. Init => Decisions!Init
  BY DEF Init, Decisions!Init
<1>2. ASSUME IInv, IInv', OneSender(l), Replica(l), [Next]_vars
      PROVE  [Decisions!Next]_delivered
  <2>1. ASSUME NEW n \in Nat, Adds(l, n) PROVE Decisions!Next
    <3> DEFINE log == logEntries[l]
               c == log[n + 2].command
    <3>1. /\ n + 1 < Len(log) /\ delivered = Sent(log, n)
          /\ delivered' = delivered \cup {[index |-> n + 1, command |-> c]}
      BY <2>1 DEF Adds
    <3>2. log \in Log /\ Len(log) \in Nat
      BY LogShape, <1>2 DEF IInv, TypeOK, FieldsOK
    <3>3. /\ \A j, k \in 2 .. Len(log) : log[j].command = log[k].command => j = k
          /\ \A k \in 2 .. Len(log) : log[k].command \in Command
      BY <1>2 DEF Replica, Fresh
    <3>4. n + 2 \in 2 .. Len(log) /\ \A k \in 1 .. n : k + 1 \in 2 .. Len(log) /\ k + 1 # n + 2
      BY <3>1, <3>2
    <3>5. c \in Command
      BY <3>3, <3>4
    <3>6. \A d \in delivered : d.command # c
      <4>1. \A d \in delivered : \E k \in 1 .. n : d.command = log[k + 1].command
        BY <3>1 DEF Sent
      <4>2. \A k \in 1 .. n : log[k + 1].command # c
        BY <3>3, <3>4
      <4>3. QED
        BY <4>1, <4>2
    <3>7. Cardinality(delivered) = n
      BY <3>1, SentCount
    <3> HIDE DEF log, c
    <3>8. Decisions!Decide(c)
      BY <3>1, <3>6, <3>7 DEF Decisions!Decide, Decisions!Cardinality, Cardinality
    <3>9. QED
      BY <3>5, <3>8 DEF Decisions!Next
  <2>2. delivered' = delivered \/ \E n \in Nat : Adds(l, n)
    BY <1>2, ReplicaStep
  <2>3. QED
    BY <2>1, <2>2
<1>3. QED
  BY <1>1, <1>2, Invariance, Replication, PTL
     DEF Spec, AppliedIsOneLog, Decisions!Spec
===========================================================================
