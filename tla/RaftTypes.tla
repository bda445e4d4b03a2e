---------------------------- MODULE RaftTypes -----------------------------
(***************************************************************************)
(* Every step from a state in which the invariant holds keeps the types.   *)
(* The lemmas about Min and Max of FiniteSetsExt, which are CHOOSE         *)
(* expressions, and about the fields of logs and calls come first.         *)
(***************************************************************************)
EXTENDS RaftInvariant, WellFoundedInduction, TLAPS

USE ZenonT(10), SMTT(20)

---------------------------------------------------------------------------
(* Min, Max, and the fields of entries and calls.                          *)

\* A nonempty set of naturals has a least member, which Min names (used for
\* the first conflicting entry in AppendEntries).
LEMMA MinExists ==
    ASSUME NEW S, S \subseteq Nat, S # {}
    PROVE  /\ Min(S) \in S
           /\ \A y \in S : Min(S) <= y
<1> DEFINE R == {p \in Nat \X Nat : p[1] < p[2]}
<1>1. R = OpToRel(<, Nat)
  BY Zenon DEF OpToRel
<1>2. IsWellFoundedOn(R, Nat)
  BY <1>1, NatLessThanWellFounded, Zenon
<1>3. \E x \in S : \A y \in S : ~(<<y, x>> \in R)
  <2> HIDE DEF R
  <2> QED BY <1>2, WFMin, Zenon
<1>4. PICK x \in S : \A y \in S : ~(<<y, x>> \in R)
  BY <1>3
<1>5. ASSUME NEW y \in S PROVE x <= y
  <2>1. x \in Nat /\ y \in Nat
    OBVIOUS
  <2>2. ~(y < x)
    BY <1>4, <2>1
  <2>3. QED
    BY <2>1, <2>2
<1>6. QED
  BY <1>5 DEF Min

\* A nonempty set of naturals with an upper bound has a greatest member,
\* which Max names (used for the commit index that commitLog finds).
LEMMA MaxExists ==
    ASSUME NEW S, S \subseteq Nat, S # {}, NEW n \in Nat, \A x \in S : x <= n
    PROVE  /\ Max(S) \in S
           /\ \A y \in S : y <= Max(S)
<1> DEFINE T == {n - x : x \in S}
<1>1. \A x \in S : x \in Nat /\ n - x \in Nat
  OBVIOUS
<1>2. T \subseteq Nat /\ T # {}
  BY <1>1
<1>3. Min(T) \in T /\ \A y \in T : Min(T) <= y
  BY <1>2, MinExists
<1>4. PICK x \in S : Min(T) = n - x
  BY <1>3
<1>5. ASSUME NEW y \in S PROVE y <= x
  <2>1. n - y \in T
    OBVIOUS
  <2>2. n - x <= n - y
    BY <2>1, <1>3, <1>4
  <2>3. QED
    BY <2>2, <1>1
<1>6. QED
  BY <1>5 DEF Max

\* The fields of a log entry are numbers.
LEMMA EntryFields ==
    ASSUME NEW e \in Entry
    PROVE  e.term \in Nat /\ e.index \in Nat
BY DEF Entry

\* A log has at least slot 0, which no step cuts away.
LEMMA LogShape ==
    ASSUME NEW log \in Log
    PROVE  /\ log \in Seq(Entry) /\ Len(log) \in Nat \ {0} /\ log[1].term = 0
           /\ \A k \in 1 .. Len(log) : log[k] \in Entry
<1>1. log \in Seq(Entry) /\ Len(log) > 0 /\ log[1].term = 0
  BY DEF Log
<1>2. QED
  BY <1>1

\* lastLogTermIndex returns numbers for every log.
LEMMA LastEntry ==
    ASSUME NEW log \in Log
    PROVE  lastLogTerm(log) \in Nat /\ lastLogIndex(log) \in Nat
<1>1. log[Len(log)] \in Entry
  BY LogShape
<1>2. QED
  BY <1>1, EntryFields DEF lastLogTerm, lastLogIndex

\* commitLog leaves commitIndex alone or moves it to a later slot of the log
\* that a majority of matchIndex covers.
LEMMA CommitCounts ==
    ASSUME NEW log \in Log, NEW commit \in Nat, NEW match
    PROVE  LET c == commitLog(log, commit, match)
           IN  /\ c \in Nat /\ c >= commit
               /\ \/ c = commit
                  \/ /\ c < Len(log)
                     /\ Majority(Cardinality({j \in Server : match[j] >= c}))
<1> DEFINE covered == {k \in (commit + 1) .. (Len(log) - 1) :
                          Majority(Cardinality({j \in Server : match[j] >= k}))}
           S == {commit} \cup covered
<1>len. Len(log) \in Nat /\ commit + Len(log) \in Nat
  BY LogShape
<1>1. \A k \in (commit + 1) .. (Len(log) - 1) :
         k \in Nat /\ k <= commit + Len(log) /\ k < Len(log)
  BY <1>len
<1>2. covered \subseteq (commit + 1) .. (Len(log) - 1)
  OBVIOUS
<1>3. /\ S \subseteq Nat /\ S # {} /\ commit \in S
      /\ \A x \in S : x <= commit + Len(log)
  <2> HIDE DEF covered
  <2> QED BY <1>len, <1>1, <1>2
<1>4. Max(S) \in S /\ \A y \in S : y <= Max(S)
  <2> HIDE DEF S
  <2> QED BY <1>len, <1>3, MaxExists
<1>5. /\ Max(S) \in Nat /\ Max(S) >= commit
      /\ Max(S) = commit \/ Max(S) \in covered
  <2> HIDE DEF covered
  <2> QED BY <1>3, <1>4
<1>6. \A c \in covered : /\ c < Len(log)
                         /\ Majority(Cardinality({j \in Server : match[j] >= c}))
  BY <1>1
<1>7. commitLog(log, commit, match) = Max(S)
  BY DEF commitLog
<1> HIDE DEF covered, S
<1>8. QED
  BY <1>5, <1>6, <1>7

\* The fields of a RequestVote call, also after its timeout.
LEMMA VoteRequestFields ==
    ASSUME NEW m \in VoteRequest
    PROVE  /\ m.from \in Server /\ m.to \in Server
           /\ m.term \in Nat /\ m.late \in Nat
           /\ \A t \in Nat : [m EXCEPT !.late = t] \in VoteRequest
BY DEF VoteRequest

\* The fields of an AppendEntries call, also after its timeout.
LEMMA AppendRequestFields ==
    ASSUME NEW m \in AppendRequest
    PROVE  /\ m.from \in Server /\ m.to \in Server
           /\ m.term \in Nat /\ m.late \in Nat /\ m.prevLogIndex \in Nat
           /\ m.leaderCommit \in Nat /\ m.entries \in Seq(Entry)
           /\ \A t \in Nat : [m EXCEPT !.late = t] \in AppendRequest
BY DEF AppendRequest

\* Moving one loop over rf.peers to a position keeps nextPeer a position
\* table.
LEMMA NextPeerUpdate ==
    ASSUME NEW f \in [Server -> [Routine -> 0 .. N]],
           NEW i \in Server, NEW g \in Routine, NEW k \in 0 .. N
    PROVE  [f EXCEPT ![i][g] = k] \in [Server -> [Routine -> 0 .. N]]
OBVIOUS

\* The calls and answers in flight have the fields of their types.
LEMMA CallFields ==
    ASSUME CallsOK
    PROVE  /\ \A m \in voteRequests : m \in VoteRequest
           /\ \A r \in voteReplies : /\ r.req \in VoteRequest /\ r.term \in Nat
                                     /\ r.granted \in BOOLEAN
           /\ \A m \in appendRequests : m \in AppendRequest
           /\ \A r \in appendReplies : /\ r.req \in AppendRequest /\ r.term \in Nat
                                       /\ r.success \in BOOLEAN /\ r.nextIndex \in Nat
BY DEF CallsOK, VoteAnswer, AppendAnswer

\* persist saves a well-typed state when memory is well typed.
LEMMA PersistType ==
    ASSUME DiskOK, FieldsOK', NEW i \in Server, persist(i)
    PROVE  DiskOK'
BY DEF DiskOK, FieldsOK, persist
---------------------------------------------------------------------------
(* Logs.                                                                   *)

\* What makes a sequence of entries a log.
LEMMA LogIntro ==
    ASSUME NEW s \in Seq(Entry), Len(s) > 0, s[1].term = 0
    PROVE  s \in Log
BY DEF Log

\* Cutting a log behind slot 0, as AppendEntries does, leaves a log.
LEMMA KeepLog ==
    ASSUME NEW log \in Log, NEW k \in 1 .. Len(log)
    PROVE  Keep(log, k) \in Log
<1>1. SubSeq(log, 1, k) \in Seq(Entry) /\ Len(SubSeq(log, 1, k)) = k
      /\ SubSeq(log, 1, k)[1] = log[1]
  BY LogShape
<1>2. k > 0 /\ log[1].term = 0
  BY LogShape
<1>3. SubSeq(log, 1, k) \in Log
  BY <1>1, <1>2, LogIntro
<1>4. QED
  BY <1>3 DEF Keep

\* Appending the entries of a request to a log gives a log.
LEMMA ExtendLog ==
    ASSUME NEW log \in Log, NEW entries \in Seq(Entry)
    PROVE  log \o entries \in Log
<1>1. log \o entries \in Seq(Entry) /\ Len(log \o entries) > 0
      /\ (log \o entries)[1] = log[1]
  BY LogShape
<1>2. QED
  BY <1>1, LogShape, LogIntro

\* Appending one entry, as Start does, gives a log.
LEMMA AppendToLog ==
    ASSUME NEW log \in Log, NEW e \in Entry
    PROVE  Append(log, e) \in Log
<1>1. Append(log, e) \in Seq(Entry) /\ Len(Append(log, e)) > 0
      /\ Append(log, e)[1] = log[1]
  BY LogShape
<1>2. QED
  BY <1>1, LogShape, LogIntro

\* getAppendLogs finds all it reads when nextIndex is at least 1.
LEMMA SentLogs ==
    ASSUME NEW log \in Log, NEW next \in Nat, next >= 1
    PROVE  getAppendLogs(log, next) \in
               [prevIndex : Nat, prevTerm : Nat, entries : Seq(Entry)]
<1> DEFINE tail == SubSeq(log, next + 1, Len(log))
<1>1. CASE lastLogIndex(log) < next \/ tail = << >>
  <2>1. << >> \in Seq(Entry)
    OBVIOUS
  <2>2. QED
    BY <1>1, <2>1, LastEntry DEF getAppendLogs
<1>2. CASE ~(lastLogIndex(log) < next \/ tail = << >>)
  <2>1. next + 1 <= Len(log)
    BY <1>2, LogShape
  <2>2. tail \in Seq(Entry)
    BY <2>1, LogShape
  <2>3. Slot(log, next - 1).term \in Nat
    <3>1. log[next] \in Entry
      BY <2>1, LogShape
    <3>2. next - 1 + 1 = next
      OBVIOUS
    <3>3. QED
      BY <3>1, <3>2, EntryFields DEF Slot
  <2>4. QED
    BY <1>2, <2>2, <2>3 DEF getAppendLogs
<1>3. QED
  BY <1>1, <1>2
---------------------------------------------------------------------------
(* Steps.                                                                  *)

\* The steps of the election goroutine keep the types.
LEMMA TypeElection ==
    ASSUME IInv, NEW i \in Server, Election(i)
    PROVE  TypeOK'
<1>types. FieldsOK /\ DiskOK /\ RoutinesOK /\ ClientOK /\ CallsOK /\ BudgetsOK /\ HistoryOK
  BY DEF IInv, TypeOK
<1>1. CASE LeaderTimerFires(i)
  <2>1. (FieldsOK /\ ClientOK /\ CallsOK /\ BudgetsOK /\ HistoryOK)'
    BY <1>1, <1>types DEF LeaderTimerFires, FieldsOK, ClientOK, CallsOK, BudgetsOK,
       HistoryOK, leaderVars, applyVars, startVars, voteNet, appendNet, budgetVars,
       voteHistory
  <2>2. DiskOK'
    BY <1>1, <1>types, <2>1, PersistType DEF LeaderTimerFires
  <2>3. RoutinesOK'
    BY <1>1, <1>types DEF LeaderTimerFires, RoutinesOK, ballotVars
  <2>4. QED
    BY <2>1, <2>2, <2>3 DEF TypeOK
<1>2. CASE startElection(i)
  <2>1. (DiskOK /\ ClientOK /\ BudgetsOK /\ HistoryOK)'
    BY <1>2, <1>types DEF startElection, DiskOK, ClientOK, BudgetsOK, HistoryOK,
       startVars, budgetVars, voteHistory, applyVars
  <2>2. FieldsOK'
    BY <1>2, <1>types DEF startElection, FieldsOK, Role, leaderVars, applyVars
  <2>3. RoutinesOK'
    BY <1>2, <1>types DEF startElection, RoutinesOK, FieldsOK, Routine
  <2>4. CallsOK'
    <3>1. lastLogIndex(logEntries[i]) \in Nat /\ lastLogTerm(logEntries[i]) \in Nat
      BY <1>types, LastEntry DEF FieldsOK
    <3>2. term[i] + 1 \in Nat
      BY <1>types DEF FieldsOK
    <3>3. voteRequests' \subseteq VoteRequest
      BY <1>2, <1>types, <3>1, <3>2 DEF startElection, CallsOK, VoteRequest
    <3>4. QED
      BY <1>2, <1>types, <3>3 DEF startElection, CallsOK, appendNet
  <2>5. QED
    BY <2>1, <2>2, <2>3, <2>4 DEF TypeOK
<1>3. CASE ElectionWon(i)
  <2>1. (ClientOK /\ CallsOK /\ BudgetsOK)'
    BY <1>3, <1>types DEF ElectionWon, ClientOK, CallsOK, BudgetsOK, startVars,
       voteNet, appendNet, budgetVars
  <2>2. FieldsOK'
    <3>1. lastLogIndex(logEntries[i]) \in Nat
      BY <1>types, LastEntry DEF FieldsOK
    <3>2. QED
      BY <1>3, <1>types, <3>1
      DEF ElectionWon, FieldsOK, Role, None, FreshNextIndex, applyVars
  <2>3. DiskOK'
    BY <1>3, <1>types, <2>2, PersistType DEF ElectionWon
  <2>4. RoutinesOK'
    BY <1>3, <1>types DEF ElectionWon, EndElection, RoutinesOK
  <2>5. HistoryOK'
    BY <1>3, <1>types DEF ElectionWon, HistoryOK, RoutinesOK, applyVars
  <2>6. QED
    BY <2>1, <2>2, <2>3, <2>4, <2>5 DEF TypeOK
<1>4. CASE ElectionLost(i)
  <2>1. (FieldsOK /\ ClientOK /\ CallsOK /\ BudgetsOK /\ HistoryOK)'
    BY <1>4, <1>types DEF ElectionLost, FieldsOK, ClientOK, CallsOK, BudgetsOK,
       HistoryOK, leaderVars, applyVars, startVars, voteNet, appendNet, budgetVars,
       voteHistory
  <2>2. DiskOK'
    BY <1>4, <1>types, <2>1, PersistType DEF ElectionLost
  <2>3. RoutinesOK'
    BY <1>4, <1>types DEF ElectionLost, EndElection, RoutinesOK
  <2>4. QED
    BY <2>1, <2>2, <2>3 DEF TypeOK
<1>5. CASE AfterLost(i)
  <2>1. (DiskOK /\ ClientOK /\ CallsOK /\ BudgetsOK /\ HistoryOK)'
    BY <1>5, <1>types DEF AfterLost, DiskOK, ClientOK, CallsOK, BudgetsOK,
       HistoryOK, startVars, voteNet, appendNet, budgetVars, voteHistory, applyVars
  <2>2. FieldsOK'
    BY <1>5, <1>types DEF AfterLost, FieldsOK, Role, leaderVars, applyVars
  <2>3. RoutinesOK'
    BY <1>5, <1>types DEF AfterLost, RoutinesOK, ballotVars
  <2>4. QED
    BY <2>1, <2>2, <2>3 DEF TypeOK
<1>6. CASE AfterWon(i)
  <2>1. (FieldsOK /\ DiskOK /\ ClientOK /\ CallsOK /\ BudgetsOK /\ HistoryOK)'
    BY <1>6, <1>types DEF AfterWon, FieldsOK, DiskOK, ClientOK, CallsOK, BudgetsOK,
       HistoryOK, leaderVars, applyVars, startVars, voteNet, appendNet, budgetVars,
       voteHistory
  <2>2. RoutinesOK'
    <3>1. 0 \in 0 .. N /\ N \in 0 .. N
      BY NAssumption
    <3>2. nextPeer' \in [Server -> [Routine -> 0 .. N]]
      BY <1>6, <1>types, <3>1, NextPeerUpdate DEF AfterWon, RoutinesOK, Routine
    <3>3. QED
      BY <1>6, <1>types, <3>2 DEF AfterWon, RoutinesOK, ballotVars
  <2>3. QED
    BY <2>1, <2>2 DEF TypeOK
<1>7. QED
  BY <1>1, <1>2, <1>3, <1>4, <1>5, <1>6 DEF Election

\* SendHeartbeat returns into its loop, which does not run past the peers.
LEMMA ReturnTypes ==
    ASSUME IInv, NEW i \in Server, Sending(i), Return(i), FieldsOK', BudgetsOK',
           appendReplies' \subseteq appendReplies
    PROVE  TypeOK'
<1>types. FieldsOK /\ DiskOK /\ RoutinesOK /\ ClientOK /\ CallsOK /\ BudgetsOK /\ HistoryOK
  BY DEF IInv, TypeOK
<1>1. (ClientOK /\ CallsOK /\ HistoryOK)'
  BY <1>types DEF Return, ClientOK, CallsOK, HistoryOK, startVars, voteNet,
     voteHistory, applyVars
<1>2. DiskOK'
  BY <1>types, PersistType DEF Return
<1>3. mu[i] \in Routine
  BY <1>types DEF Sending, RoutinesOK
<1>4. nextPeer[i][mu[i]] \in Server
  BY DEF IInv, LockInv, Sending
<1>5. nextPeer[i][mu[i]] + 1 \in 0 .. N
  BY <1>4, NAssumption DEF Server
<1>6. nextPeer' \in [Server -> [Routine -> 0 .. N]]
  BY <1>types, <1>3, <1>5, NextPeerUpdate DEF Return, RoutinesOK
<1>7. RoutinesOK'
  BY <1>types, <1>6 DEF Return, RoutinesOK, ballotVars
<1>8. QED
  BY <1>1, <1>2, <1>7 DEF TypeOK

\* The steps of the loops over rf.peers keep the types.
LEMMA TypeHeartbeat ==
    ASSUME IInv, NEW i \in Server, Heartbeat(i)
    PROVE  TypeOK'
<1>types. FieldsOK /\ DiskOK /\ RoutinesOK /\ ClientOK /\ CallsOK /\ BudgetsOK /\ HistoryOK
  BY DEF IInv, TypeOK
<1>lock. LockInv /\ NextInv
  BY DEF IInv
<1>1. CASE TickerFires(i)
  <2>1. (FieldsOK /\ DiskOK /\ ClientOK /\ CallsOK /\ BudgetsOK /\ HistoryOK)'
    BY <1>1, <1>types DEF TickerFires, FieldsOK, DiskOK, ClientOK, CallsOK,
       BudgetsOK, HistoryOK, leaderVars, applyVars, startVars, voteNet, appendNet,
       budgetVars, voteHistory
  <2>2. RoutinesOK'
    <3>1. 0 \in 0 .. N /\ "ticker" \in Routine
      BY NAssumption DEF Routine
    <3>2. nextPeer' \in [Server -> [Routine -> 0 .. N]]
      BY <1>1, <1>types, <3>1, NextPeerUpdate DEF TickerFires, RoutinesOK
    <3>3. QED
      BY <1>1, <1>types, <3>2 DEF TickerFires, RoutinesOK, ballotVars
  <2>3. QED
    BY <2>1, <2>2 DEF TypeOK
<1>2. CASE HeartbeatNoReply(i)
  <2>1. (FieldsOK /\ BudgetsOK)'
    BY <1>2, <1>types DEF HeartbeatNoReply, Return, FieldsOK, BudgetsOK, leaderVars,
       applyVars, budgetVars
  <2>2. QED
    BY <1>2, <2>1, ReturnTypes DEF HeartbeatNoReply, Sending
<1>3. ASSUME NEW g \in Routine, HeartbeatSelf(i, g) PROVE TypeOK'
  <2>1. (FieldsOK /\ ClientOK /\ CallsOK /\ BudgetsOK /\ HistoryOK)'
    BY <1>3, <1>types DEF HeartbeatSelf, FieldsOK, ClientOK, CallsOK, BudgetsOK,
       HistoryOK, leaderVars, applyVars, startVars, voteNet, appendNet, budgetVars,
       voteHistory
  <2>2. DiskOK'
    BY <1>3, <1>types, <2>1, PersistType DEF HeartbeatSelf
  <2>3. RoutinesOK'
    <3>1. nextPeer[i][g] + 1 \in 0 .. N
      BY <1>3, NAssumption DEF HeartbeatSelf, Server
    <3>2. nextPeer' \in [Server -> [Routine -> 0 .. N]]
      BY <1>3, <1>types, <3>1, NextPeerUpdate DEF HeartbeatSelf, RoutinesOK
    <3>3. QED
      BY <1>3, <1>types, <3>2 DEF HeartbeatSelf, RoutinesOK, ballotVars
  <2>4. QED
    BY <2>1, <2>2, <2>3 DEF TypeOK
<1>4. ASSUME NEW g \in Routine, SendHeartbeat(i, g) PROVE TypeOK'
  <2> DEFINE j == nextPeer[i][g]
             out == getAppendLogs(logEntries[i], nextIndex[i][j])
  <2>1. (FieldsOK /\ DiskOK /\ ClientOK /\ BudgetsOK /\ HistoryOK)'
    BY <1>4, <1>types DEF SendHeartbeat, FieldsOK, DiskOK, ClientOK, BudgetsOK,
       HistoryOK, leaderVars, applyVars, startVars, budgetVars, voteHistory
  <2>2. RoutinesOK'
    BY <1>4, <1>types DEF SendHeartbeat, RoutinesOK, routineVars, ballotVars
  <2>3. j \in Server /\ nextIndex[i][j] \in Nat /\ nextIndex[i][j] >= 1
    <3>1. j \in Server
      BY <1>4 DEF SendHeartbeat
    <3>2. nextPeer[i][g] # N
      BY <3>1, NAssumption DEF Server
    <3>3. \A k \in Server : nextIndex[i][k] >= 1
      BY <3>2, <1>lock DEF NextInv
    <3>4. QED
      BY <3>1, <3>3, <1>types DEF FieldsOK
  <2>4. out \in [prevIndex : Nat, prevTerm : Nat, entries : Seq(Entry)]
    BY <1>types, <2>3, SentLogs DEF FieldsOK
  <2>5. [from |-> i, to |-> j, term |-> term[i],
         prevLogIndex |-> out.prevIndex, prevLogTerm |-> out.prevTerm,
         entries |-> out.entries, leaderCommit |-> commitIndex[i],
         late |-> 0] \in AppendRequest
    <3> HIDE DEF out, j
    <3> QED BY <1>types, <2>3, <2>4 DEF FieldsOK, AppendRequest
  <2>6. CallsOK'
    BY <1>4, <1>types, <2>5 DEF SendHeartbeat, CallsOK, voteNet
  <2>7. QED
    BY <2>1, <2>2, <2>6 DEF TypeOK
<1>5. QED
  BY <1>1, <1>2, <1>3, <1>4 DEF Heartbeat

\* Handling, losing or outliving a RequestVote call keeps the types.
LEMMA TypeVoteRequests ==
    ASSUME IInv, NEW m \in voteRequests, RequestVote(m) \/ LoseVoteRequest(m) \/ VoteTimeout(m)
    PROVE  TypeOK'
<1>types. FieldsOK /\ DiskOK /\ RoutinesOK /\ ClientOK /\ CallsOK /\ BudgetsOK /\ HistoryOK
  BY DEF IInv, TypeOK
<1>m. m \in VoteRequest /\ m.to \in Server /\ m.from \in Server /\ m.term \in Nat
  BY <1>types, CallFields, VoteRequestFields
<1>1. CASE RequestVote(m)
  <2>1. (RoutinesOK /\ ClientOK /\ BudgetsOK)'
    BY <1>1, <1>types DEF RequestVote, RoutinesOK, ClientOK, BudgetsOK, routineVars,
       ballotVars, startVars, budgetVars
  <2>2. FieldsOK'
    BY <1>1, <1>types, <1>m DEF RequestVote, VoteHeld, FieldsOK, Role, None,
       leaderVars, applyVars
  <2>3. DiskOK'
    BY <1>1, <1>types, <1>m, <2>2, PersistType DEF RequestVote
  <2>4. CallsOK'
    <3>1. term[m.to] \in Nat /\ Grants(m.to, m) \in BOOLEAN
      BY <1>types, <1>m DEF FieldsOK, Grants
    <3>2. [req |-> m, term |-> term[m.to], granted |-> Grants(m.to, m)] \in VoteAnswer
      BY <3>1, <1>m DEF VoteAnswer
    <3>3. QED
      BY <1>1, <1>types, <3>2 DEF RequestVote, CallsOK, appendNet
  <2>5. HistoryOK'
    <3> DEFINE vote == [voter |-> m.to, term |-> m.term, candidate |-> m.from]
    <3>1. granted' \subseteq granted \cup {vote} /\ UNCHANGED <<won, delivered>>
      BY <1>1 DEF RequestVote, applyVars
    <3>2. vote \in [voter : Server, term : Nat, candidate : Server]
      BY <1>m
    <3> HIDE DEF vote
    <3>3. QED
      BY <3>1, <3>2, <1>types DEF HistoryOK
  <2>6. QED
    BY <2>1, <2>2, <2>3, <2>4, <2>5 DEF TypeOK
<1>2. CASE LoseVoteRequest(m)
  <2>1. (FieldsOK /\ DiskOK /\ RoutinesOK /\ ClientOK /\ BudgetsOK /\ HistoryOK)'
    BY <1>2, <1>types DEF LoseVoteRequest, FieldsOK, DiskOK, RoutinesOK, ClientOK,
       BudgetsOK, HistoryOK, leaderVars, applyVars, routineVars, ballotVars,
       startVars, budgetVars, voteHistory
  <2>2. CallsOK'
    BY <1>2, <1>types DEF LoseVoteRequest, CallsOK, appendNet
  <2>3. QED
    BY <2>1, <2>2 DEF TypeOK
<1>3. CASE VoteTimeout(m)
  <2>1. (FieldsOK /\ DiskOK /\ RoutinesOK /\ ClientOK /\ HistoryOK)'
    BY <1>3, <1>types DEF VoteTimeout, FieldsOK, DiskOK, RoutinesOK, ClientOK,
       HistoryOK, leaderVars, applyVars, routineVars, ballotVars, startVars,
       voteHistory
  <2>2. CallsOK'
    <3>1. Outlive(m) \in VoteRequest
      BY <1>m, <1>types, VoteRequestFields DEF Outlive, BudgetsOK
    <3>2. QED
      BY <1>3, <1>types, <3>1 DEF VoteTimeout, CallsOK, appendNet
  <2>3. BudgetsOK'
    BY <1>3, <1>types, BoundAssumption DEF VoteTimeout, BudgetsOK
  <2>4. QED
    BY <2>1, <2>2, <2>3 DEF TypeOK
<1>4. QED
  BY <1>1, <1>2, <1>3

\* Handling or losing a vote keeps the types.
LEMMA TypeVoteReplies ==
    ASSUME IInv, NEW r \in voteReplies, VoteReply(r) \/ LoseVoteReply(r)
    PROVE  TypeOK'
<1>types. FieldsOK /\ DiskOK /\ RoutinesOK /\ ClientOK /\ CallsOK /\ BudgetsOK /\ HistoryOK
  BY DEF IInv, TypeOK
<1>r. r.req.from \in Server /\ r.term \in Nat
  BY <1>types, CallFields, VoteRequestFields
<1>1. CASE VoteReply(r)
  <2>1. (DiskOK /\ ClientOK /\ BudgetsOK /\ HistoryOK)'
    BY <1>1, <1>types DEF VoteReply, DiskOK, ClientOK, BudgetsOK, HistoryOK,
       startVars, budgetVars, voteHistory, applyVars
  <2>2. FieldsOK'
    BY <1>1, <1>types, <1>r DEF VoteReply, FieldsOK, Role, leaderVars, applyVars
  <2>3. RoutinesOK'
    <3>1. voteCount' \in [Server -> Nat]
      BY <1>1, <1>types, <1>r DEF VoteReply, RoutinesOK
    <3>2. QED
      BY <1>1, <1>types, <3>1 DEF VoteReply, RoutinesOK
  <2>4. CallsOK'
    BY <1>1, <1>types DEF VoteReply, CallsOK, appendNet
  <2>5. QED
    BY <2>1, <2>2, <2>3, <2>4 DEF TypeOK
<1>2. CASE LoseVoteReply(r)
  <2>1. (FieldsOK /\ DiskOK /\ RoutinesOK /\ ClientOK /\ HistoryOK)'
    BY <1>2, <1>types DEF LoseVoteReply, FieldsOK, DiskOK, RoutinesOK, ClientOK,
       HistoryOK, leaderVars, applyVars, routineVars, ballotVars, startVars,
       voteHistory
  <2>2. CallsOK'
    BY <1>2, <1>types DEF LoseVoteReply, CallsOK, appendNet
  <2>3. BudgetsOK'
    BY <1>2, <1>types, BoundAssumption DEF LoseVoteReply, BudgetsOK
  <2>4. QED
    BY <2>1, <2>2, <2>3 DEF TypeOK
<1>3. QED
  BY <1>1, <1>2

\* Every way the AppendEntries handler returns keeps the types; a cut never
\* reaches slot 0.
LEMMA TypeAppendEntries ==
    ASSUME IInv, NEW m \in appendRequests, AppendEntries(m)
    PROVE  TypeOK'
<1>types. FieldsOK /\ DiskOK /\ RoutinesOK /\ ClientOK /\ CallsOK /\ BudgetsOK /\ HistoryOK
  BY DEF IInv, TypeOK
<1>m. /\ m \in AppendRequest /\ m.to \in Server /\ m.term \in Nat
      /\ m.prevLogIndex \in Nat /\ m.leaderCommit \in Nat /\ m.entries \in Seq(Entry)
  BY <1>types, CallFields, AppendRequestFields
<1>log. /\ logEntries[m.to] \in Log /\ term[m.to] \in Nat /\ commitIndex[m.to] \in Nat
        /\ Len(logEntries[m.to]) \in Nat
  BY <1>m, <1>types, LogShape DEF FieldsOK
<1>answer. ASSUME NEW t \in Nat, NEW ok \in BOOLEAN, NEW next \in Nat, FieldsOK',
                  Answer(m, t, ok, next)
           PROVE  TypeOK'
  <2>1. (RoutinesOK /\ ClientOK /\ BudgetsOK /\ HistoryOK)'
    BY <1>answer, <1>types DEF Answer, RoutinesOK, ClientOK, BudgetsOK, HistoryOK,
       routineVars, ballotVars, startVars, budgetVars, voteHistory, applyVars
  <2>2. [req |-> m, term |-> t, success |-> ok, nextIndex |-> next] \in AppendAnswer
    BY <1>m DEF AppendAnswer
  <2>3. CallsOK'
    BY <1>answer, <1>types, <2>2 DEF Answer, CallsOK, voteNet
  <2>4. DiskOK'
    BY <1>answer, <1>types, <1>m, PersistType DEF Answer
  <2>5. QED
    BY <1>answer, <2>1, <2>3, <2>4 DEF TypeOK
<1>1. CASE AppendHigherTerm(m)
  <2>1. FieldsOK'
    BY <1>1, <1>types, <1>m DEF AppendHigherTerm, Answer, FieldsOK, Role,
       leaderVars, applyVars
  <2>2. QED
    BY <1>1, <1>m, <2>1, <1>answer DEF AppendHigherTerm
<1>2. CASE AppendLowerTerm(m)
  <2>1. FieldsOK'
    BY <1>2, <1>types DEF AppendLowerTerm, Answer, FieldsOK, leaderVars, applyVars
  <2>2. QED
    BY <1>2, <1>log, <2>1, <1>answer DEF AppendLowerTerm
<1>3. CASE AppendPrevMismatch(m)
  <2>1. m.prevLogIndex \in 1 .. Len(logEntries[m.to])
    <3>1. m.prevLogIndex > 0 /\ m.prevLogIndex <= Len(logEntries[m.to]) - 1
      BY <1>3 DEF AppendPrevMismatch, PrevMismatch
    <3>2. QED
      BY <3>1, <1>m, <1>log
  <2>2. Keep(logEntries[m.to], m.prevLogIndex) \in Log
    BY <1>log, <2>1, KeepLog
  <2>3. FieldsOK'
    BY <1>3, <1>types, <1>m, <2>2
    DEF AppendPrevMismatch, SameTerm, Answer, FieldsOK, leaderVars, applyVars
  <2>4. QED
    BY <1>3, <1>m, <2>3, <1>answer DEF AppendPrevMismatch
<1>4. CASE AppendConflict(m)
  <2>dom. DOMAIN m.entries \subseteq Nat
    BY <1>m
  <2> DEFINE S == Conflicts(m, logEntries[m.to])
             at == m.entries[Min(S)].index
  <2>1. S \subseteq Nat /\ S # {}
    BY <2>dom, <1>4 DEF AppendConflict, Conflicts
  <2>2. Min(S) \in S
    BY <2>1, MinExists
  <2>3. /\ m.entries[Min(S)] \in Entry
        /\ at < Len(logEntries[m.to])
        /\ Slot(logEntries[m.to], at).term # m.entries[Min(S)].term
    <3>1. \A k \in S : /\ m.entries[k] \in Entry
                       /\ m.entries[k].index < Len(logEntries[m.to])
                       /\ Slot(logEntries[m.to], m.entries[k].index).term # m.entries[k].term
      BY <1>m DEF Conflicts
    <3>2. QED
      <4> HIDE DEF S
      <4> QED BY <3>1, <2>2
  <2>4. at \in Nat /\ (at = 0 => m.entries[Min(S)].term = 0)
    BY <2>3 DEF Entry
  <2>5. at # 0
    <3>1. SUFFICES ASSUME at = 0 PROVE FALSE
      OBVIOUS
    <3>2. Slot(logEntries[m.to], at).term = 0
      BY <3>1, <1>log, LogShape DEF Slot
    <3>3. QED
      BY <3>1, <3>2, <2>3, <2>4
  <2>6. at \in 1 .. Len(logEntries[m.to])
    <3> HIDE DEF S, at
    <3> QED BY <2>3, <2>4, <2>5, <1>log
  <2>7. Keep(logEntries[m.to], at) \in Log
    BY <1>log, <2>6, KeepLog
  <2>8. FieldsOK'
    BY <1>4, <1>types, <1>m, <2>7
    DEF AppendConflict, SameTerm, Answer, FieldsOK, leaderVars, applyVars
  <2>9. QED
    BY <1>4, <2>4, <2>8, <1>answer DEF AppendConflict
<1>5. CASE AppendPrevMissing(m)
  <2>1. FieldsOK'
    BY <1>5, <1>types DEF AppendPrevMissing, SameTerm, Answer, FieldsOK, leaderVars,
       applyVars
  <2>2. QED
    BY <1>5, <1>log, <2>1, <1>answer DEF AppendPrevMissing
<1>6. CASE AppendAccepted(m)
  <2> DEFINE log == logEntries[m.to] \o m.entries
  <2>1. log \in Log
    BY <1>log, <1>m, ExtendLog
  <2>2. Len(log) \in Nat \ {0}
    BY <2>1, LogShape
  <2>3. FollowCommit(commitIndex[m.to], m.leaderCommit, Len(log) - 1) \in Nat
    <3> HIDE DEF log
    <3> QED BY <1>m, <1>log, <2>2 DEF FollowCommit
  <2>4. FieldsOK'
    BY <1>6, <1>types, <1>m, <2>1, <2>3
    DEF AppendAccepted, SameTerm, Answer, FieldsOK, leaderVars, applyVars
  <2>5. QED
    BY <1>6, <2>2, <2>4, <1>answer DEF AppendAccepted
<1>7. QED
  BY <1>1, <1>2, <1>3, <1>4, <1>5, <1>6 DEF AppendEntries

\* Losing or outliving an AppendEntries call keeps the types.
LEMMA TypeAppendFaults ==
    ASSUME IInv,
           \/ \E m \in appendRequests : LoseAppendRequest(m) \/ AppendTimeout(m)
           \/ \E r \in appendReplies : LoseAppendReply(r)
    PROVE  TypeOK'
<1>types. FieldsOK /\ DiskOK /\ RoutinesOK /\ ClientOK /\ CallsOK /\ BudgetsOK /\ HistoryOK
  BY DEF IInv, TypeOK
<1>1. ASSUME NEW m \in appendRequests, LoseAppendRequest(m) PROVE TypeOK'
  BY <1>1, <1>types DEF LoseAppendRequest, TypeOK, FieldsOK, DiskOK, RoutinesOK,
     ClientOK,
     CallsOK, BudgetsOK, HistoryOK, vars, leaderVars, applyVars, routineVars, ballotVars,
     startVars, voteNet, budgetVars, voteHistory
<1>2. ASSUME NEW m \in appendRequests, AppendTimeout(m) PROVE TypeOK'
  <2>1. Outlive(m) \in AppendRequest
    <3>1. m \in AppendRequest /\ lates + 1 \in Nat
      BY <1>types, CallFields DEF BudgetsOK
    <3>2. QED
      BY <3>1, AppendRequestFields DEF Outlive
  <2>2. (CallsOK /\ BudgetsOK)'
    BY <1>2, <1>types, <2>1, BoundAssumption DEF AppendTimeout, CallsOK, BudgetsOK,
       voteNet
  <2>3. QED
    BY <1>2, <1>types, <2>2 DEF AppendTimeout, TypeOK, FieldsOK, DiskOK, RoutinesOK,
       ClientOK, HistoryOK, leaderVars, applyVars, routineVars, ballotVars, startVars,
       voteHistory
<1>3. ASSUME NEW r \in appendReplies, LoseAppendReply(r) PROVE TypeOK'
  <2>1. (CallsOK /\ BudgetsOK)'
    BY <1>3, <1>types, BoundAssumption DEF LoseAppendReply, CallsOK, BudgetsOK, voteNet
  <2>2. QED
    BY <1>3, <1>types, <2>1 DEF LoseAppendReply, TypeOK, FieldsOK, DiskOK, RoutinesOK,
       ClientOK, HistoryOK, leaderVars, applyVars, routineVars, ballotVars, startVars,
       voteHistory
<1>4. QED
  BY <1>1, <1>2, <1>3

\* Every way SendHeartbeat takes an answer keeps the types.
LEMMA TypeAppendReplies ==
    ASSUME IInv, NEW r \in appendReplies,
           HeartbeatStepDown(r) \/ HeartbeatReply(r) \/ HeartbeatTornReply(r)
    PROVE  TypeOK'
<1> DEFINE i == r.req.from
           j == r.req.to
<1>types. FieldsOK /\ DiskOK /\ RoutinesOK /\ ClientOK /\ CallsOK /\ BudgetsOK /\ HistoryOK
  BY DEF IInv, TypeOK
<1>r. /\ i \in Server /\ j \in Server /\ r.term \in Nat /\ r.nextIndex \in Nat
      /\ Sending(i)
  BY <1>types, CallFields, AppendRequestFields DEF IInv, AppendCallInv
<1>log. ASSUME NEW match PROVE commitLog(logEntries[i], commitIndex[i], match) \in Nat
  BY <1>r, <1>types, CommitCounts DEF FieldsOK
<1>1. CASE HeartbeatStepDown(r)
  <2>1. (FieldsOK /\ BudgetsOK)'
    BY <1>1, <1>r, <1>types DEF HeartbeatStepDown, Return, FieldsOK, BudgetsOK, Role,
       leaderVars, applyVars, budgetVars
  <2>2. Return(i) /\ appendReplies' \subseteq appendReplies
    BY <1>1 DEF HeartbeatStepDown
  <2>3. QED
    BY <1>r, <2>1, <2>2, ReturnTypes
<1>2. CASE HeartbeatReply(r)
  <2>1. nextIndex' \in [Server -> [Server -> Nat]]
    <3>1. PICK next : /\ nextIndex' = [nextIndex EXCEPT ![i][j] = next]
                      /\ next = nextIndex[i][j] \/ next = r.nextIndex
      BY <1>2 DEF HeartbeatReply
    <3>2. nextIndex \in [Server -> [Server -> Nat]]
      BY <1>types DEF FieldsOK
    <3>3. next \in Nat
      BY <1>r, <3>1, <3>2
    <3> HIDE DEF i, j
    <3>4. QED
      BY <1>r, <3>1, <3>2, <3>3
  <2>2. matchIndex' \in [Server -> [Server -> Nat]]
    <3>1. r.nextIndex # 0 => r.nextIndex - 1 \in Nat
      BY <1>r
    <3>2. matchIndex \in [Server -> [Server -> Nat]]
      BY <1>types DEF FieldsOK
    <3>3. PICK match : /\ matchIndex' = [matchIndex EXCEPT ![i] = match]
                       /\ \/ match = matchIndex[i]
                          \/ /\ match = [matchIndex[i] EXCEPT ![j] = r.nextIndex - 1]
                             /\ r.nextIndex # 0
      BY <1>2 DEF HeartbeatReply
    <3> HIDE DEF i, j
    <3>4. match \in [Server -> Nat]
      <4>1. CASE match = matchIndex[i]
        BY <1>r, <3>2, <4>1
      <4>2. CASE /\ match = [matchIndex[i] EXCEPT ![j] = r.nextIndex - 1]
                 /\ r.nextIndex # 0
        <5>1. matchIndex[i] \in [Server -> Nat] /\ r.nextIndex - 1 \in Nat
          BY <1>r, <3>1, <3>2, <4>2
        <5>2. QED
          BY <4>2, <5>1
      <4>3. QED
        BY <3>3, <4>1, <4>2
    <3>5. QED
      BY <1>r, <3>2, <3>3, <3>4
  <2>3. commitIndex' \in [Server -> Nat]
    BY <1>2, <1>r, <1>log, <1>types DEF HeartbeatReply, FieldsOK
  <2>4. (FieldsOK /\ BudgetsOK)'
    BY <1>2, <1>types, <2>1, <2>2, <2>3
    DEF HeartbeatReply, Return, FieldsOK, BudgetsOK, applyVars, budgetVars
  <2>5. Return(i) /\ appendReplies' \subseteq appendReplies
    BY <1>2 DEF HeartbeatReply
  <2>6. QED
    BY <1>r, <2>4, <2>5, ReturnTypes
<1>3. CASE HeartbeatTornReply(r)
  <2>1. commitIndex' \in [Server -> Nat]
    BY <1>3, <1>r, <1>log, <1>types DEF HeartbeatTornReply, FieldsOK
  <2>2. (FieldsOK /\ BudgetsOK)'
    <3>1. /\ UNCHANGED <<role, term, votedFor, logEntries, lastApplied, nextIndex>>
          /\ UNCHANGED <<matchIndex, lates, crashes>>
          /\ lostReplies' = lostReplies + 1 /\ lostReplies < MaxLostReply
      BY <1>3 DEF HeartbeatTornReply, Return, applyVars, leaderVars
    <3>2. FieldsOK'
      BY <1>types, <2>1, <3>1 DEF FieldsOK
    <3>3. BudgetsOK'
      BY <1>types, <3>1, BoundAssumption DEF BudgetsOK
    <3>4. QED
      BY <3>2, <3>3
  <2>3. Return(i) /\ appendReplies' \subseteq appendReplies
    BY <1>3 DEF HeartbeatTornReply
  <2>4. QED
    BY <1>r, <2>2, <2>3, ReturnTypes
<1>4. QED
  BY <1>1, <1>2, <1>3

\* Start and the apply goroutine keep the types.
LEMMA TypeClientAndApply ==
    ASSUME IInv, Client \/ \E i \in Server : Apply(i)
    PROVE  TypeOK'
<1>types. FieldsOK /\ DiskOK /\ RoutinesOK /\ ClientOK /\ CallsOK /\ BudgetsOK /\ HistoryOK
  BY DEF IInv, TypeOK
<1>1. ASSUME NEW i \in Server, NEW c \in Command, StartCheck(i, c) PROVE TypeOK'
  <2>1. ClientOK'
    BY <1>1, <1>types DEF StartCheck, ClientOK, FieldsOK
  <2>2. QED
    BY <1>1, <1>types, <2>1 DEF StartCheck, TypeOK, FieldsOK, DiskOK, RoutinesOK,
       CallsOK,
       BudgetsOK, HistoryOK, leaderVars, applyVars, routineVars, ballotVars, voteNet,
       appendNet, budgetVars, voteHistory
<1>2. ASSUME NEW s \in starts, StartAppend(s) PROVE TypeOK'
  <2> DEFINE i == s.server
             e == [term |-> term[i], index |-> lastLogIndex(logEntries[i]) + 1,
                   command |-> s.command]
  <2>1. i \in Server /\ s.command \in Command
    BY <1>types DEF ClientOK
  <2>2. lastLogIndex(logEntries[i]) \in Nat /\ logEntries[i] \in Log
    BY <2>1, <1>types, LastEntry DEF FieldsOK
  <2>3. e \in Entry
    BY <2>1, <2>2, <1>types DEF Entry, FieldsOK
  <2>4. Append(logEntries[i], e) \in Log
    BY <2>2, <2>3, AppendToLog
  <2>5. FieldsOK'
    <3>1. logEntries' \in [Server -> Log]
      BY <1>2, <1>types, <2>4 DEF StartAppend, FieldsOK
    <3>2. matchIndex' \in [Server -> [Server -> Nat]]
      <4>1. PICK last : /\ matchIndex' = [matchIndex EXCEPT ![i][i] = last]
                        /\ last = lastLogIndex(logEntries[i]) + 1
        BY <1>2 DEF StartAppend
      <4>2. last \in Nat
        BY <2>2, <4>1
      <4>3. matchIndex \in [Server -> [Server -> Nat]]
        BY <1>types DEF FieldsOK
      <4> HIDE DEF i
      <4>4. QED
        BY <2>1, <4>1, <4>2, <4>3
    <3>3. QED
      BY <1>2, <1>types, <3>1, <3>2 DEF StartAppend, FieldsOK, applyVars
  <2>6. DiskOK'
    BY <1>2, <1>types, <2>1, <2>5, PersistType DEF StartAppend
  <2>7. QED
    BY <1>2, <1>types, <2>5, <2>6 DEF StartAppend, TypeOK, RoutinesOK, ClientOK,
       CallsOK,
       BudgetsOK, HistoryOK, applyVars, routineVars, ballotVars, voteNet, appendNet,
       budgetVars, voteHistory
<1>3. ASSUME NEW i \in Server, Apply(i) PROVE TypeOK'
  <2>1. logEntries[i] \in Log /\ lastApplied[i] \in Nat
    BY <1>types DEF FieldsOK
  <2>2. Slot(logEntries[i], lastApplied[i] + 1) \in Entry
    <3>1. lastApplied[i] + 1 < Len(logEntries[i])
      BY <1>3 DEF Apply
    <3>2. QED
      BY <3>1, <2>1, LogShape DEF Slot
  <2>3. Slot(logEntries[i], lastApplied[i] + 1).command \in Command \cup {NoCommand}
    BY <2>2 DEF Entry
  <2>4. HistoryOK'
    <3> DEFINE d == [index |-> lastApplied[i] + 1,
                     command |-> Slot(logEntries[i], lastApplied[i] + 1).command]
    <3>1. delivered' = delivered \cup {d} /\ UNCHANGED <<granted, won>>
      BY <1>3 DEF Apply, voteHistory
    <3>2. lastApplied[i] + 1 \in Nat
      BY <2>1
    <3>3. d \in [index : Nat, command : Command \cup {NoCommand}]
      BY <2>3, <3>2
    <3> HIDE DEF d
    <3>4. QED
      BY <1>types, <3>1, <3>3 DEF HistoryOK
  <2>5. FieldsOK'
    <3>1. /\ lastApplied' = [lastApplied EXCEPT ![i] = lastApplied[i] + 1]
          /\ UNCHANGED <<role, term, votedFor, logEntries, commitIndex, nextIndex>>
          /\ matchIndex' = matchIndex
      BY <1>3 DEF Apply, leaderVars
    <3>2. lastApplied[i] + 1 \in Nat
      BY <2>1
    <3>3. QED
      BY <1>types, <3>1, <3>2 DEF FieldsOK
  <2>6. QED
    BY <1>3, <1>types, <2>4, <2>5 DEF Apply, TypeOK, DiskOK, RoutinesOK, ClientOK,
       CallsOK, BudgetsOK, leaderVars, routineVars, ballotVars, startVars, voteNet,
       appendNet, budgetVars
<1>4. QED
  BY <1>1, <1>2, <1>3 DEF Client

\* A crash with the restart from disk keeps the types.
LEMMA TypeCrash ==
    ASSUME IInv, NEW i \in Server, Crash(i)
    PROVE  TypeOK'
<1>types. FieldsOK /\ DiskOK /\ RoutinesOK /\ ClientOK /\ CallsOK /\ BudgetsOK /\ HistoryOK
  BY DEF IInv, TypeOK
<1>1. FieldsOK'
  BY <1>types DEF Crash, FieldsOK, DiskOK, Role
<1>2. RoutinesOK'
  <2>1. /\ mu' = [mu EXCEPT ![i] = "free"] /\ elector' = [elector EXCEPT ![i] = "select"]
        /\ campaign' = [campaign EXCEPT ![i] = 0]
        /\ voteCount' = [voteCount EXCEPT ![i] = 0]
        /\ nextPeer' = [nextPeer EXCEPT ![i] = [g \in Routine |-> N]]
    BY DEF Crash
  <2>2. N \in 0 .. N /\ 0 \in Nat
    BY NAssumption
  <2>3. [g \in Routine |-> N] \in [Routine -> 0 .. N]
    BY <2>2
  <2>4. QED
    BY <1>types, <2>1, <2>2, <2>3 DEF RoutinesOK
<1>3. CallsOK'
  <2>1. lates + 1 \in Nat
    BY <1>types DEF BudgetsOK
  <2>2. AfterCrash(voteRequests, i, lates + 1) \subseteq VoteRequest
    BY <2>1, <1>types, CallFields, VoteRequestFields DEF AfterCrash
  <2>3. AfterCrash(appendRequests, i, lates + 1) \subseteq AppendRequest
    BY <2>1, <1>types, CallFields, AppendRequestFields DEF AfterCrash
  <2>4. QED
    BY <2>2, <2>3, <1>types DEF Crash, CallsOK, Uninvolved
<1>4. BudgetsOK'
  <2>1. /\ crashes < MaxCrash /\ crashes' = crashes + 1
        /\ lostReplies' = lostReplies
        /\ lates' = lates \/ (lates < MaxLate /\ lates' = lates + 1)
    BY DEF Crash
  <2>2. QED
    BY <1>types, <2>1, BoundAssumption DEF BudgetsOK
<1>5. QED
  BY <1>1, <1>2, <1>3, <1>4, <1>types DEF Crash, TypeOK, DiskOK, ClientOK, HistoryOK,
     voteHistory

\* Every step keeps the types.
LEMMA TypeStep ==
    ASSUME IInv, [Next]_vars
    PROVE  TypeOK'
<1>1. CASE Next
  BY <1>1, TypeElection, TypeHeartbeat, TypeVoteRequests, TypeVoteReplies,
     TypeAppendEntries, TypeAppendFaults, TypeAppendReplies, TypeClientAndApply, TypeCrash
  DEF Next, VoteNet, AppendNet
<1>2. CASE UNCHANGED vars
  BY <1>2 DEF IInv, TypeOK, FieldsOK, DiskOK, RoutinesOK, ClientOK, CallsOK, BudgetsOK,
     HistoryOK, vars, leaderVars, applyVars, routineVars, ballotVars, startVars, voteNet,
     appendNet, budgetVars, voteHistory
<1>3. QED
  BY <1>1, <1>2
===========================================================================
