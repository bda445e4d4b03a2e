-------------------------- MODULE RaftReplication --------------------------
(***************************************************************************)
(* Replication from one server: every step keeps all logs copies of one    *)
(* log, as long as a single server campaigns and no call of it outlives    *)
(* its timeout or loses its answer.                                        *)
(***************************************************************************)
EXTENDS RaftLogs, FiniteSetTheorems

\* Server l alone campaigns and may crash, and every AppendEntries call is
\* either lost on its way or answered in time.  Without the first,
\* CommitGrowsInLog is false; without the second, StateMachineSafety is.
Reliable(l) ==
    /\ Campaigner \subseteq {l} /\ Crasher \subseteq {l}
    /\ MaxLate = 0 /\ MaxLostReply = 0

\* Only l sends, and no request of it has outlived its call.
OneSender(l) == SoleSender(l) /\ \A m \in appendRequests : Live(m)

\* log is a copy of the beginning of the other.
IsCopy(log, other) ==
    /\ Len(log) <= Len(other)
    /\ \A k \in 1 .. Len(log) : log[k] = other[k]

\* Every log is a copy of that of l, in which an entry's Index is its slot.
Copies(l) ==
    /\ \A k \in 1 .. Len(logEntries[l]) : logEntries[l][k].index = k - 1
    /\ \A j \in Server : IsCopy(logEntries[j], logEntries[l])

\* A request carries the end of l's log, none of which its receiver has.
Fits(l, m) ==
    LET log == logEntries[l]
    IN  /\ m.prevLogIndex < Len(log)
        /\ m.prevLogTerm = log[m.prevLogIndex + 1].term
        /\ m.leaderCommit <= commitIndex[l]
        /\ Len(m.entries) > 0 =>
              /\ m.prevLogIndex + 1 >= Len(logEntries[m.to])
              /\ Len(m.entries) = Len(log) - (m.prevLogIndex + 1)
              /\ \A k \in 1 .. Len(m.entries) :
                    m.entries[k] = log[m.prevLogIndex + 1 + k]
RequestsFit(l) == \A m \in appendRequests : Fits(l, m)

\* An answer tells how long its sender's log is, or nothing.
RepliesFit ==
    \A r \in appendReplies :
        \/ r.nextIndex = 0
        \/ r.term = 0 /\ r.nextIndex = Len(logEntries[r.req.to])

\* l sends nobody an entry twice: nextIndex is not below the length of a log,
\* unless the answer that raises it is on its way.
NextCovers(l) ==
    \/ \A j \in Server : nextIndex[l][j] = 0
    \/ \A j \in Server \ {l} :
          \/ nextIndex[l][j] >= Len(logEntries[j])
          \/ \E r \in appendReplies : r.req.to = j /\ r.nextIndex # 0

\* matchIndex counts what was saved.
MatchSaved(l) == \A j \in Server : matchIndex[l][j] < Len(logEntries[j])

\* The servers that have slot k.
Holders(logs, k) == {j \in Server : k < Len(logs[j])}

\* What is committed anywhere is in the logs of a majority.
CommitSaved ==
    \A i \in Server :
        /\ commitIndex[i] < Len(logEntries[i])
        /\ commitIndex[i] > 0 =>
              Majority(Cardinality(Holders(logEntries, commitIndex[i])))

\* What was applied, taken together, is the beginning of l's log.
Sent(log, n) == {[index |-> k, command |-> log[k + 1].command] : k \in 1 .. n}
AppliedUpTo(l, n) ==
    /\ n \in Nat /\ n < Len(logEntries[l])
    /\ n > 0 => Majority(Cardinality(Holders(logEntries, n)))
    /\ \A i \in Server : lastApplied[i] <= n
    /\ delivered = Sent(logEntries[l], n)
Decided(l) == \E n \in Nat : AppliedUpTo(l, n)

\* No command is in l's log twice, or will be.
Fresh(l) ==
    LET log == logEntries[l]
    IN  /\ \A k, n \in 2 .. Len(log) : log[k].command = log[n].command => k = n
        /\ \A k \in 2 .. Len(log) : log[k].command \in Command \ unissued
        /\ \A s \in starts :
              /\ s.command \notin unissued
              /\ \A k \in 2 .. Len(log) : log[k].command # s.command
        /\ \A s, t \in starts : s.command = t.command => s = t

\* All of it.
Replica(l) ==
    /\ Copies(l) /\ RequestsFit(l) /\ RepliesFit /\ NextCovers(l)
    /\ MatchSaved(l) /\ CommitSaved /\ Decided(l) /\ Fresh(l)

USE DEF leaderVars, applyVars, ballotVars, routineVars, voteHistory, startVars,
        voteNet, appendNet, budgetVars
USE ZenonT(10), SMTT(20)
---------------------------------------------------------------------------
(* Majorities.                                                             *)

\* The servers are finitely many, N.
LEMMA ServerCount == IsFiniteSet(Server) /\ Cardinality(Server) = N
<1>1. 0 \in Int /\ N - 1 \in Int /\ ~(0 > N - 1) /\ N - 1 - 0 + 1 = N
  BY NAssumption
<1>2. QED
  BY <1>1, FS_Interval DEF Server

\* A set of servers that contains a majority is one.
LEMMA MajorityGrows ==
    ASSUME NEW S, NEW T, S \subseteq T, T \subseteq Server, Majority(Cardinality(S))
    PROVE  Majority(Cardinality(T))
<1>1. IsFiniteSet(T)
  BY ServerCount, FS_Subset
<1>2. Cardinality(S) <= Cardinality(T)
  BY <1>1, FS_Subset
<1>3. IsFiniteSet(S)
  BY <1>1, FS_Subset
<1>4. Cardinality(S) \in Nat /\ Cardinality(T) \in Nat /\ N \div 2 \in Nat
  BY <1>1, <1>3, FS_CardinalityType, NAssumption
<1>5. QED
  BY <1>2, <1>4 DEF Majority

\* Two majorities have a server in common.
LEMMA MajoritiesMeet ==
    ASSUME NEW S, NEW T, S \subseteq Server, T \subseteq Server,
           Majority(Cardinality(S)), Majority(Cardinality(T))
    PROVE  S \cap T # {}
<1>1. IsFiniteSet(S) /\ IsFiniteSet(T)
  BY ServerCount, FS_Subset
<1>2. Cardinality(S) \in Nat /\ Cardinality(T) \in Nat
  BY <1>1, FS_CardinalityType
<1>3. Cardinality(S) + Cardinality(T) > Cardinality(Server)
  BY <1>2, ServerCount, NAssumption DEF Majority
<1>4. QED
  BY <1>3, ServerCount, FS_MajoritiesIntersect
---------------------------------------------------------------------------
(* Which steps there are.                                                  *)

\* What the replication from l reads and writes.
repVars == <<logEntries, commitIndex, lastApplied, delivered, nextIndex, matchIndex,
             appendRequests, appendReplies, starts, unissued>>

\* Only l sends, and none of its calls outlives its timeout.
LEMMA SenderStep ==
    ASSUME NEW l \in Server, Reliable(l), IInv, OneSender(l), [Next]_vars
    PROVE  OneSender(l)'
<1>1. ~(lates < MaxLate)
  BY DEF IInv, TypeOK, BudgetsOK, Reliable
<1>2. SoleSender(l)' /\ \A m \in appendRequests : Live(m)
  BY SoleStep DEF Reliable, OneSender
<1>3. ASSUME NEW i \in Server, NEW g \in Routine, SendHeartbeat(i, g)
      PROVE  \A m \in appendRequests' : Live(m)
  <2>1. PICK m : appendRequests' = appendRequests \cup {m} /\ m.late = 0
    BY <1>3, SendsOne
  <2>2. QED
    BY <1>2, <2>1 DEF Live
<1>4. ASSUME OnlyOldRequests PROVE \A m \in appendRequests' : Live(m)
  BY <1>1, <1>2, <1>4 DEF OnlyOldRequests
<1>5. \A m \in appendRequests' : Live(m)
  BY <1>3, <1>4, RequestsShrink
<1>6. QED
  BY <1>2, <1>5 DEF OneSender, Live

\* The steps of replication from l.
Replicates(l) ==
    \/ ElectionWon(l) \/ Crash(l)
    \/ \E g \in Routine : SendHeartbeat(l, g)
    \/ \E m \in appendRequests : AppendEntries(m) \/ LoseAppendRequest(m)
    \/ \E r \in appendReplies : HeartbeatReply(r) \/ HeartbeatStepDown(r)
    \/ \E c \in Command : StartCheck(l, c)
    \/ \E s \in starts : StartAppend(s)
    \/ \E i \in Server : Apply(i)

\* No other step changes anything that replication looks at.
LEMMA StepKinds ==
    ASSUME NEW l \in Server, Reliable(l), IInv, OneSender(l), [Next]_vars
    PROVE  UNCHANGED repVars \/ Replicates(l)
<1>inv. lates = 0 /\ lostReplies = 0
  BY DEF IInv, TypeOK, BudgetsOK, Reliable
<1>N. N \notin Server
  BY NAssumption DEF Server
<1>camp. Campaigner \subseteq {l} /\ Crasher \subseteq {l}
  BY DEF Reliable
<1>1. ASSUME NEW i \in Server, Election(i) PROVE UNCHANGED repVars \/ Replicates(l)
  <2>1. CASE LeaderTimerFires(i) \/ startElection(i) \/ ElectionLost(i)
    BY <2>1 DEF LeaderTimerFires, startElection, ElectionLost, repVars
  <2>2. CASE AfterLost(i) \/ AfterWon(i)
    BY <2>2 DEF AfterLost, AfterWon, repVars
  <2>3. CASE ElectionWon(i)
    <3>1. i = l
      BY <2>3 DEF ElectionWon, OneSender, SoleSender
    <3>2. QED
      BY <2>3, <3>1 DEF Replicates
  <2>4. QED
    BY <1>1, <2>1, <2>2, <2>3 DEF Election
<1>2. ASSUME NEW i \in Server, Heartbeat(i) PROVE UNCHANGED repVars \/ Replicates(l)
  <2>1. CASE TickerFires(i)
    BY <2>1 DEF TickerFires, repVars
  <2>2. CASE HeartbeatNoReply(i)
    BY <2>2 DEF HeartbeatNoReply, Return, repVars
  <2>3. ASSUME NEW g \in Routine, HeartbeatSelf(i, g) PROVE UNCHANGED repVars
    BY <2>3 DEF HeartbeatSelf, repVars
  <2>4. ASSUME NEW g \in Routine, SendHeartbeat(i, g) PROVE Replicates(l)
    <3>1. i = l
      BY <2>4, <1>N, SendsOne DEF OneSender, SoleSender
    <3>2. QED
      BY <2>4, <3>1 DEF Replicates
  <2>5. QED
    BY <1>2, <2>1, <2>2, <2>3, <2>4 DEF Heartbeat
<1>3. ASSUME NEW i \in Server, Apply(i) PROVE Replicates(l)
  BY <1>3 DEF Replicates
<1>4. ASSUME NEW i \in Server, Crash(i) PROVE Replicates(l)
  <2>1. i = l
    BY <1>4, <1>camp DEF Crash
  <2>2. QED
    BY <1>4, <2>1 DEF Replicates
<1>5. CASE VoteNet
  <2>1. ASSUME NEW m \in voteRequests, RequestVote(m) PROVE UNCHANGED repVars
    BY <2>1 DEF RequestVote, repVars
  <2>2. ASSUME NEW m \in voteRequests, LoseVoteRequest(m) \/ VoteTimeout(m)
        PROVE  UNCHANGED repVars
    BY <2>2 DEF LoseVoteRequest, VoteTimeout, repVars
  <2>3. ASSUME NEW r \in voteReplies, VoteReply(r) \/ LoseVoteReply(r)
        PROVE  UNCHANGED repVars
    BY <2>3 DEF VoteReply, LoseVoteReply, repVars
  <2>4. QED
    BY <1>5, <2>1, <2>2, <2>3 DEF VoteNet
<1>6. CASE AppendNet
  <2>1. ASSUME NEW m \in appendRequests, AppendTimeout(m) PROVE FALSE
    BY <2>1, <1>inv DEF AppendTimeout, Reliable
  <2>2. ASSUME NEW r \in appendReplies, HeartbeatTornReply(r) \/ LoseAppendReply(r)
        PROVE  FALSE
    <3>1. lostReplies < MaxLostReply
      BY <2>2 DEF HeartbeatTornReply, LoseAppendReply
    <3>2. QED
      BY <3>1, <1>inv DEF Reliable
  <2>3. QED
    BY <1>6, <2>1, <2>2 DEF AppendNet, Replicates
<1>7. CASE Client
  <2>1. ASSUME NEW i \in Server, NEW c \in Command, StartCheck(i, c)
        PROVE  Replicates(l)
    <3>1. i = l
      BY <2>1 DEF StartCheck, OneSender, SoleSender
    <3>2. QED
      BY <2>1, <3>1 DEF Replicates
  <2>2. QED
    BY <1>7, <2>1 DEF Client, Replicates
<1>8. CASE UNCHANGED vars
  BY <1>8 DEF vars, repVars
<1>9. QED
  BY <1>1, <1>2, <1>3, <1>4, <1>5, <1>6, <1>7, <1>8 DEF Next

\* l has one call in flight at most: its request or the answer to it, and
\* none while its lock is free.
LEMMA OneCall ==
    ASSUME NEW l \in Server, IInv, OneSender(l)
    PROVE  /\ \A m \in appendRequests : appendRequests = {m} /\ appendReplies = {}
           /\ \A r \in appendReplies : appendReplies = {r} /\ appendRequests = {}
           /\ mu[l] = "free" => appendRequests = {} /\ appendReplies = {}
           /\ appendReplies # {} => \A j \in Server : nextIndex[l][j] >= 1
<1>call. AppendCallInv
  BY DEF IInv
<1>from. /\ \A m \in appendRequests : Live(m) /\ m.from = l
         /\ \A r \in appendReplies : r.req.from = l
  BY DEF OneSender, SoleSender
<1>one. /\ \A m, n \in appendRequests : m = n
        /\ \A r, q \in appendReplies : r = q
        /\ appendRequests = {} \/ appendReplies = {}
  BY <1>call, <1>from DEF AppendCallInv
<1>1. \A m \in appendRequests : appendRequests = {m} /\ appendReplies = {}
  BY <1>one
<1>2. \A r \in appendReplies : appendReplies = {r} /\ appendRequests = {}
  BY <1>one
<1>3. mu[l] = "free" => appendRequests = {} /\ appendReplies = {}
  BY <1>call, <1>from DEF AppendCallInv, Sending
<1>4. ASSUME appendReplies # {} PROVE \A j \in Server : nextIndex[l][j] >= 1
  <2>1. mu[l] # "free" /\ elector[l] # "campaign"
    BY <1>call, <1>from, <1>4 DEF AppendCallInv, Sending
  <2>2. nextPeer[l][mu[l]] \in Server /\ mu[l] \in Routine
    BY <2>1 DEF IInv, LockInv, TypeOK, RoutinesOK
  <2>3. nextPeer[l][mu[l]] # N
    BY <2>2, NAssumption DEF Server
  <2>4. QED
    BY <2>2, <2>3 DEF IInv, NextInv
<1>5. QED
  BY <1>1, <1>2, <1>3, <1>4
---------------------------------------------------------------------------
(* Copies.                                                                 *)

\* A copy of a copy.
LEMMA CopyTrans ==
    ASSUME NEW a \in Log, NEW b \in Log, NEW c \in Log, IsCopy(a, b), IsCopy(b, c)
    PROVE  IsCopy(a, c)
BY LogShape DEF IsCopy

\* The rest of a log, appended to a copy of its beginning, completes it.
LEMMA AcceptCopy ==
    ASSUME NEW log \in Log, NEW other \in Log, IsCopy(log, other),
           NEW entries \in Seq(Entry), Len(entries) = Len(other) - Len(log),
           \A k \in 1 .. Len(entries) : entries[k] = other[Len(log) + k]
    PROVE  IsCopy(log, log \o entries) /\ IsCopy(log \o entries, other)
<1>1. log \in Seq(Entry) /\ Len(log) \in Nat /\ Len(entries) \in Nat
      /\ Len(other) \in Nat
  BY LogShape
<1>2. Len(log \o entries) = Len(other) /\ Len(log) <= Len(other)
  BY <1>1
<1>3. \A k \in 1 .. Len(log) : (log \o entries)[k] = log[k]
  BY <1>1
<1>4. ASSUME NEW k \in Len(log) + 1 .. Len(other)
      PROVE  (log \o entries)[k] = other[k]
  <2> DEFINE n == k - Len(log)
  <2>1. (log \o entries)[k] = entries[n] /\ n \in 1 .. Len(entries) /\ k = Len(log) + n
    BY <1>1
  <2> HIDE DEF n
  <2>2. QED
    BY <2>1
<1>5. \A k \in 1 .. Len(other) : (log \o entries)[k] = other[k]
  BY <1>1, <1>3, <1>4 DEF IsCopy
<1>6. QED
  BY <1>1, <1>2, <1>3, <1>5 DEF IsCopy

\* Nothing appended.
LEMMA AcceptNothing ==
    ASSUME NEW log \in Log, NEW entries \in Seq(Entry), Len(entries) = 0
    PROVE  log \o entries = log
<1>1. log \in Seq(Entry) /\ Len(log) \in Nat
  BY LogShape
<1>2. entries = << >>
  OBVIOUS
<1>3. QED
  BY <1>1, <1>2

\* A server that has a slot keeps it while the logs grow.
LEMMA HoldersGrow ==
    ASSUME NEW logs \in [Server -> Log], NEW more \in [Server -> Log],
           \A j \in Server : Len(logs[j]) <= Len(more[j]),
           NEW k \in Nat, Majority(Cardinality(Holders(logs, k)))
    PROVE  Majority(Cardinality(Holders(more, k)))
<1>1. \A j \in Server : Len(logs[j]) \in Nat /\ Len(more[j]) \in Nat
  BY LogShape
<1>2. Holders(logs, k) \subseteq Holders(more, k) /\ Holders(more, k) \subseteq Server
  BY <1>1 DEF Holders
<1>3. QED
  BY <1>2, MajorityGrows

\* A server that has a slot has the ones before it.
LEMMA HoldersBefore ==
    ASSUME NEW logs \in [Server -> Log], NEW k \in Nat, NEW n \in Nat, n <= k,
           Majority(Cardinality(Holders(logs, k)))
    PROVE  Majority(Cardinality(Holders(logs, n)))
<1>1. \A j \in Server : Len(logs[j]) \in Nat
  BY LogShape
<1>2. Holders(logs, k) \subseteq Holders(logs, n) /\ Holders(logs, n) \subseteq Server
  BY <1>1 DEF Holders
<1>3. QED
  BY <1>2, MajorityGrows

\* What SendHeartbeat takes from a log whose entries have their slot as Index:
\* the last slot, or all the entries from nextIndex on.
LEMMA SentFits ==
    ASSUME NEW log \in Log, \A k \in 1 .. Len(log) : log[k].index = k - 1,
           NEW next \in Nat, next >= 1
    PROVE  LET out == getAppendLogs(log, next)
           IN  /\ out.prevIndex \in Nat /\ out.prevIndex < Len(log)
               /\ out.prevTerm = log[out.prevIndex + 1].term
               /\ out.entries \in Seq(Entry)
               /\ Len(out.entries) > 0 =>
                     /\ out.prevIndex + 1 = next
                     /\ Len(out.entries) = Len(log) - next
                     /\ \A k \in 1 .. Len(out.entries) :
                           out.entries[k] = log[next + k]
<1> DEFINE tail == SubSeq(log, next + 1, Len(log))
           out == getAppendLogs(log, next)
<1>1. log \in Seq(Entry) /\ Len(log) \in Nat \ {0}
  BY LogShape
<1>2. lastLogIndex(log) = Len(log) - 1
  BY <1>1 DEF lastLogIndex
<1>3. CASE lastLogIndex(log) < next \/ tail = << >>
  <2>1. /\ out.entries = << >> /\ out.prevIndex = lastLogIndex(log)
        /\ out.prevTerm = lastLogTerm(log)
    BY <1>3 DEF getAppendLogs
  <2> HIDE DEF out
  <2>2. lastLogTerm(log) = log[Len(log)].term /\ Len(log) = out.prevIndex + 1
    BY <1>1, <1>2, <2>1 DEF lastLogTerm
  <2>3. QED
    BY <1>1, <1>2, <2>1, <2>2 DEF out
<1>4. CASE ~(lastLogIndex(log) < next \/ tail = << >>)
  <2>1. /\ out.entries = tail /\ out.prevIndex = next - 1
        /\ out.prevTerm = Slot(log, next - 1).term
    BY <1>4 DEF getAppendLogs
  <2>2. next < Len(log) /\ next - 1 + 1 = next
    BY <1>1, <1>2, <1>4
  <2>3. /\ tail \in Seq(Entry) /\ Len(tail) = Len(log) - next
        /\ \A k \in 1 .. Len(tail) : tail[k] = log[next + k]
    BY <1>1, <2>2
  <2>4. Slot(log, next - 1) = log[next]
    BY <2>2 DEF Slot
  <2> HIDE DEF out, tail
  <2>5. /\ out.prevIndex \in Nat /\ out.prevIndex < Len(log)
        /\ out.prevIndex + 1 = next
    BY <1>1, <2>1, <2>2
  <2>6. out.prevTerm = log[out.prevIndex + 1].term
    BY <2>1, <2>4, <2>5
  <2>7. /\ out.entries \in Seq(Entry) /\ Len(out.entries) = Len(log) - next
        /\ \A k \in 1 .. Len(out.entries) : out.entries[k] = log[next + k]
    BY <2>1, <2>3
  <2>8. QED
    BY <2>5, <2>6, <2>7 DEF out
<1>5. QED
  BY <1>3, <1>4
---------------------------------------------------------------------------
(* The AppendEntries handler.                                              *)

\* A request from l finds nothing to refuse in the receiver's log but a gap:
\* the log never disagrees with what the request says.
LEMMA NoConflict ==
    ASSUME NEW l \in Server, IInv, Copies(l), NEW m \in appendRequests, Fits(l, m)
    PROVE  /\ ~PrevMismatch(m, logEntries[m.to])
           /\ Conflicts(m, logEntries[m.to]) = {}
<1> DEFINE log == logEntries[m.to]
           own == logEntries[l]
<1>1. /\ m.to \in Server /\ m.prevLogIndex \in Nat /\ m.entries \in Seq(Entry)
  BY CallFields, AppendRequestFields DEF IInv, TypeOK
<1>2. log \in Log /\ own \in Log
  BY <1>1 DEF IInv, TypeOK, FieldsOK
<1>3. Len(log) \in Nat /\ Len(own) \in Nat
  BY <1>2, LogShape
<1>4. IsCopy(log, own) /\ \A k \in 1 .. Len(own) : own[k].index = k - 1
  BY <1>1 DEF Copies
<1>5. /\ m.prevLogIndex < Len(own) /\ m.prevLogTerm = own[m.prevLogIndex + 1].term
      /\ Len(m.entries) > 0 =>
            /\ Len(m.entries) = Len(own) - (m.prevLogIndex + 1)
            /\ \A k \in 1 .. Len(m.entries) : m.entries[k] = own[m.prevLogIndex + 1 + k]
  BY DEF Fits
<1> HIDE DEF log, own
<1>6. ~PrevMismatch(m, log)
  <2>1. SUFFICES ASSUME m.prevLogIndex <= Len(log) - 1
                 PROVE  log[m.prevLogIndex + 1].term = m.prevLogTerm
    BY DEF PrevMismatch, Slot
  <2>2. m.prevLogIndex + 1 \in 1 .. Len(log)
    BY <1>1, <1>3, <2>1
  <2>3. QED
    BY <1>4, <1>5, <2>2 DEF IsCopy
<1>7. Conflicts(m, log) = {}
  <2>1. DOMAIN m.entries = 1 .. Len(m.entries) /\ Len(m.entries) \in Nat
    BY <1>1
  <2>2. ASSUME NEW k \in 1 .. Len(m.entries), m.entries[k].index < Len(log)
        PROVE  Slot(log, m.entries[k].index).term = m.entries[k].term
    <3> DEFINE p == m.prevLogIndex + 1 + k
    <3>1. /\ Len(m.entries) = Len(own) - (m.prevLogIndex + 1)
          /\ m.entries[k] = own[p]
      BY <1>5, <2>1, <2>2
    <3>2. p \in 1 .. Len(own)
      <4>1. /\ k \in Nat /\ 1 <= k /\ k <= Len(m.entries) /\ Len(m.entries) \in Nat
            /\ Len(m.entries) = Len(own) - (m.prevLogIndex + 1)
        BY <2>1, <3>1
      <4>2. m.prevLogIndex \in Nat /\ Len(own) \in Nat
        BY <1>1, <1>3
      <4>3. QED
        BY <4>1, <4>2
    <3> HIDE DEF p
    <3>3. own[p].index = p - 1
      BY <1>4, <3>2
    <3>4. p \in 1 .. Len(log) /\ m.entries[k].index + 1 = p
      BY <1>3, <2>2, <3>1, <3>2, <3>3
    <3>5. log[p] = own[p]
      BY <1>4, <3>4 DEF IsCopy
    <3>6. QED
      BY <3>1, <3>4, <3>5 DEF Slot
  <2>3. QED
    BY <2>1, <2>2 DEF Conflicts
<1>8. QED
  BY <1>6, <1>7 DEF log

\* What a request from l does to its receiver: the log stays or becomes a
\* copy of all of l's, commitIndex follows that of l, and the answer tells
\* the length of the log if it tells anything.
Handled(l, m) ==
    LET j == m.to
    IN  /\ \A i \in Server \ {j} :
              logEntries'[i] = logEntries[i] /\ commitIndex'[i] = commitIndex[i]
        /\ IsCopy(logEntries[j], logEntries'[j])
        /\ IsCopy(logEntries'[j], logEntries[l])
        /\ \/ commitIndex'[j] = commitIndex[j]
           \/ /\ commitIndex[j] < commitIndex'[j] /\ commitIndex'[j] <= commitIndex[l]
              /\ commitIndex'[j] < Len(logEntries'[j])
        /\ \E r : /\ appendReplies' = {r} /\ r.req = m
                  /\ \/ r.nextIndex = 0 /\ logEntries' = logEntries
                     \/ r.term = 0 /\ r.nextIndex = Len(logEntries'[j])
        /\ appendRequests' = {}
        /\ UNCHANGED <<lastApplied, delivered, nextIndex, matchIndex, starts, unissued>>

\* The answer of the handler is the only call left.
LEMMA AnswersOnce ==
    ASSUME NEW l \in Server, IInv, OneSender(l), NEW m \in appendRequests,
           NEW t, NEW ok, NEW next, Answer(m, t, ok, next)
    PROVE  /\ appendReplies' = {[req |-> m, term |-> t, success |-> ok,
                                 nextIndex |-> next]}
           /\ appendRequests' = {}
           /\ UNCHANGED <<lastApplied, delivered, nextIndex, matchIndex, starts, unissued>>
<1>1. appendRequests = {m} /\ appendReplies = {} /\ Live(m)
  BY OneCall DEF OneSender, SoleSender
<1>2. QED
  BY <1>1 DEF Answer

\* The handler does what Handled says.
LEMMA HandlerCopies ==
    ASSUME NEW l \in Server, IInv, IInv', OneSender(l), Copies(l), CommitSaved,
           NEW m \in appendRequests, Fits(l, m), AppendEntries(m)
    PROVE  Handled(l, m)
<1> DEFINE j == m.to
           log == logEntries[j]
<1>1. /\ j \in Server /\ m.prevLogIndex \in Nat /\ m.entries \in Seq(Entry)
      /\ m.leaderCommit \in Nat
  BY CallFields, AppendRequestFields DEF IInv, TypeOK
<1>2. /\ log \in Log /\ logEntries[l] \in Log /\ logEntries \in [Server -> Log]
      /\ commitIndex \in [Server -> Nat]
  BY <1>1 DEF IInv, TypeOK, FieldsOK
<1>3. Len(log) \in Nat /\ Len(logEntries[l]) \in Nat
  BY <1>2, LogShape
<1>4. IsCopy(log, log) /\ IsCopy(log, logEntries[l])
  <2>1. IsCopy(log, log)
    BY <1>3 DEF IsCopy
  <2>2. IsCopy(log, logEntries[l])
    BY <1>1 DEF Copies
  <2>3. QED
    BY <2>1, <2>2
<1>5. ~PrevMismatch(m, log) /\ Conflicts(m, log) = {}
  BY NoConflict
<1>6. ASSUME NEW t, NEW next, UNCHANGED <<logEntries, commitIndex>>,
             Answer(m, t, FALSE, next), next = 0 \/ (t = 0 /\ next = Len(log))
      PROVE  Handled(l, m)
  <2> DEFINE r == [req |-> m, term |-> t, success |-> FALSE, nextIndex |-> next]
  <2>1. r.req = m /\ r.term = t /\ r.nextIndex = next
    OBVIOUS
  <2>2. /\ appendReplies' = {r} /\ appendRequests' = {}
        /\ UNCHANGED <<lastApplied, delivered, nextIndex, matchIndex, starts, unissued>>
    BY <1>6, AnswersOnce
  <2> HIDE DEF r
  <2>3. QED
    BY <1>4, <1>6, <2>1, <2>2 DEF Handled
<1>7. CASE AppendHigherTerm(m)
  BY <1>6, <1>7 DEF AppendHigherTerm
<1>8. CASE AppendLowerTerm(m)
  BY <1>6, <1>8 DEF AppendLowerTerm
<1>9. CASE AppendPrevMissing(m)
  BY <1>6, <1>9 DEF AppendPrevMissing
<1>10. CASE AppendPrevMismatch(m) \/ AppendConflict(m)
  BY <1>5, <1>10 DEF AppendPrevMismatch, AppendConflict
<1>11. CASE AppendAccepted(m)
  <2> DEFINE new == log \o m.entries
             c == FollowCommit(commitIndex[j], m.leaderCommit, Len(new) - 1)
  <2>1. /\ ~PrevMissing(m, log)
        /\ logEntries' = [logEntries EXCEPT ![j] = new]
        /\ commitIndex' = [commitIndex EXCEPT ![j] = c]
        /\ Answer(m, 0, TRUE, Len(new))
    BY <1>11 DEF AppendAccepted
  <2>2. logEntries'[j] = new /\ commitIndex'[j] = c
    BY <1>1, <1>2, <2>1
  <2>3. new \in Log /\ Len(new) \in Nat \ {0}
    <3>1. logEntries' \in [Server -> Log]
      BY DEF IInv, TypeOK, FieldsOK
    <3>2. new \in Log
      BY <1>1, <2>2, <3>1
    <3>3. QED
      BY <3>2, LogShape
  <2>4. IsCopy(log, new) /\ IsCopy(new, logEntries[l])
    <3>1. CASE Len(m.entries) = 0
      BY <1>1, <1>2, <1>4, <3>1, AcceptNothing
    <3>2. CASE Len(m.entries) # 0
      <4>0. /\ m.prevLogIndex + 1 >= Len(log)
            /\ Len(m.entries) = Len(logEntries[l]) - (m.prevLogIndex + 1)
            /\ \A k \in 1 .. Len(m.entries) :
                  m.entries[k] = logEntries[l][m.prevLogIndex + 1 + k]
        BY <1>1, <3>2 DEF Fits
      <4>1. m.prevLogIndex + 1 = Len(log)
        BY <1>1, <1>3, <2>1, <4>0 DEF PrevMissing
      <4>2. /\ Len(m.entries) = Len(logEntries[l]) - Len(log)
            /\ \A k \in 1 .. Len(m.entries) : m.entries[k] = logEntries[l][Len(log) + k]
        BY <4>0, <4>1, Zenon
      <4> HIDE DEF log
      <4>3. QED
        BY <1>1, <1>2, <1>4, <4>2, AcceptCopy
    <3>3. QED
      BY <3>1, <3>2
  <2>5. m.leaderCommit <= commitIndex[l] /\ commitIndex[l] \in Nat /\ commitIndex[j] \in Nat
    BY <1>1, <1>2 DEF Fits
  <2>last. commitIndex[j] <= Len(new) - 1
    <3>1. commitIndex[j] < Len(log) /\ Len(log) <= Len(new)
      BY <1>1, <2>4 DEF CommitSaved, IsCopy
    <3> HIDE DEF log, new
    <3>2. QED
      BY <1>3, <2>3, <2>5, <3>1
  <2> HIDE DEF new
  <2>6. \/ c = commitIndex[j]
        \/ commitIndex[j] < c /\ c <= commitIndex[l] /\ c < Len(new)
    <3>1. CASE m.leaderCommit > commitIndex[j] /\ m.leaderCommit > Len(new) - 1
                /\ Len(new) - 1 > commitIndex[j]
      BY <1>1, <2>3, <2>5, <3>1 DEF FollowCommit
    <3>2. CASE m.leaderCommit > commitIndex[j] /\ m.leaderCommit > Len(new) - 1
                /\ ~(Len(new) - 1 > commitIndex[j])
      BY <1>1, <2>3, <2>5, <2>last, <3>2 DEF FollowCommit
    <3>3. CASE ~(m.leaderCommit > commitIndex[j] /\ m.leaderCommit > Len(new) - 1)
      BY <1>1, <2>3, <2>5, <3>3 DEF FollowCommit
    <3>4. QED
      BY <3>1, <3>2, <3>3
  <2> DEFINE r == [req |-> m, term |-> 0, success |-> TRUE, nextIndex |-> Len(new)]
  <2>7. r.req = m /\ r.term = 0 /\ r.nextIndex = Len(new)
    OBVIOUS
  <2>8. /\ appendReplies' = {r} /\ appendRequests' = {}
        /\ UNCHANGED <<lastApplied, delivered, nextIndex, matchIndex, starts, unissued>>
    BY <2>1, AnswersOnce
  <2> HIDE DEF r
  <2>9. \A i \in Server \ {j} :
           logEntries'[i] = logEntries[i] /\ commitIndex'[i] = commitIndex[i]
    BY <1>1, <1>2, <2>1
  <2> HIDE DEF c
  <2>10. QED
    BY <2>2, <2>4, <2>6, <2>7, <2>8, <2>9 DEF Handled
<1>12. QED
  BY <1>7, <1>8, <1>9, <1>10, <1>11 DEF AppendEntries
---------------------------------------------------------------------------
(* Steps that leave the logs alone.                                        *)

\* What was decided stays so, whatever happens to the calls.
LEMMA SameLogs ==
    ASSUME NEW l \in Server, Replica(l),
           UNCHANGED <<logEntries, commitIndex, lastApplied, delivered, starts, unissued>>
    PROVE  Copies(l)' /\ CommitSaved' /\ Decided(l)' /\ Fresh(l)'
<1>1. Copies(l)'
  BY DEF Replica, Copies, IsCopy
<1>2. CommitSaved'
  BY DEF Replica, CommitSaved, Holders, Majority
<1>3. Decided(l)'
  <2>1. PICK n \in Nat : AppliedUpTo(l, n)
    BY DEF Replica, Decided
  <2>2. AppliedUpTo(l, n)'
    BY <2>1 DEF AppliedUpTo, Holders, Sent, Majority
  <2>3. QED
    BY <2>1, <2>2 DEF Decided
<1>4. Fresh(l)'
  BY DEF Replica, Fresh
<1>5. QED
  BY <1>1, <1>2, <1>3, <1>4

\* The steps of elections.
LEMMA QuietStep ==
    ASSUME NEW l \in Server, Replica(l), UNCHANGED repVars
    PROVE  Replica(l)'
<1>1. Copies(l)' /\ CommitSaved' /\ Decided(l)' /\ Fresh(l)'
  BY SameLogs DEF repVars
<1>2. RequestsFit(l)'
  BY DEF repVars, Replica, RequestsFit, Fits
<1>3. RepliesFit' /\ NextCovers(l)' /\ MatchSaved(l)'
  BY DEF repVars, Replica, RepliesFit, NextCovers, MatchSaved
<1>4. QED
  BY <1>1, <1>2, <1>3 DEF Replica

\* A new leader assumes that every log is as long as its own, and none is
\* longer.
LEMMA ElectionWonKeeps ==
    ASSUME NEW l \in Server, IInv, Replica(l), ElectionWon(l)
    PROVE  Replica(l)'
<1> DEFINE log == logEntries[l]
<1>1. /\ logEntries \in [Server -> Log] /\ nextIndex \in [Server -> [Server -> Nat]]
      /\ matchIndex \in [Server -> [Server -> Nat]]
  BY DEF IInv, TypeOK, FieldsOK
<1>2. \A j \in Server : Len(logEntries[j]) \in Nat \ {0}
  BY <1>1, LogShape
<1>3. lastLogIndex(log) = Len(log) - 1
  BY <1>2 DEF Replica, Copies, lastLogIndex
<1>4. UNCHANGED <<logEntries, commitIndex, lastApplied, delivered, starts, unissued,
                  appendRequests, appendReplies>>
  BY DEF ElectionWon
<1>5. \A j \in Server :
         /\ nextIndex'[l][j] = lastLogIndex(log) + 1
         /\ matchIndex'[l][j] = IF j = l THEN lastLogIndex(log) ELSE 0
  BY <1>1 DEF ElectionWon, FreshNextIndex
<1>6. Copies(l)' /\ CommitSaved' /\ Decided(l)' /\ Fresh(l)'
  BY <1>4, SameLogs
<1>7. RequestsFit(l)' /\ RepliesFit'
  BY <1>4 DEF Replica, RequestsFit, Fits, RepliesFit
<1>8. NextCovers(l)'
  <2>1. \A j \in Server : Len(logEntries[j]) <= Len(log)
    BY DEF Replica, Copies, IsCopy
  <2>2. \A j \in Server : nextIndex'[l][j] = Len(log)
    BY <1>2, <1>3, <1>5
  <2>3. \A j \in Server : nextIndex'[l][j] >= Len(logEntries'[j])
    BY <1>2, <1>4, <2>1, <2>2
  <2>4. QED
    BY <2>3 DEF NextCovers
<1>9. MatchSaved(l)'
  BY <1>2, <1>3, <1>4, <1>5 DEF MatchSaved
<1>10. QED
  BY <1>6, <1>7, <1>8, <1>9 DEF Replica

\* SendHeartbeat sends what the peer does not have.
LEMMA SendKeeps ==
    ASSUME NEW l \in Server, IInv, OneSender(l), Replica(l),
           NEW g \in Routine, SendHeartbeat(l, g)
    PROVE  Replica(l)'
<1>1. PICK j \in Server \ {l} :
         /\ j = nextPeer[l][g] /\ mu[l] = "free"
         /\ appendRequests' = appendRequests \cup {RequestFor(l, j)}
         /\ RequestFor(l, j).to = j
  BY SendsOne
<1>2. UNCHANGED <<logEntries, commitIndex, lastApplied, delivered, starts, unissued,
                  nextIndex, matchIndex, appendReplies>>
  BY DEF SendHeartbeat
<1>3. appendRequests = {} /\ appendReplies = {}
  BY <1>1, OneCall
<1>4. /\ logEntries[l] \in Log /\ logEntries[j] \in Log /\ commitIndex[l] \in Nat
      /\ nextIndex[l][j] \in Nat
  BY DEF IInv, TypeOK, FieldsOK
<1>5. Len(logEntries[l]) \in Nat /\ Len(logEntries[j]) \in Nat \ {0}
  BY <1>4, LogShape
<1>6. nextIndex[l][j] >= 1
  <2>1. nextPeer[l][g] # N
    BY <1>1, NAssumption DEF Server
  <2>2. QED
    BY <2>1 DEF IInv, NextInv
<1>7. nextIndex[l][j] >= Len(logEntries[j])
  <2>1. ~(\A k \in Server : nextIndex[l][k] = 0)
    BY <1>6
  <2>2. QED
    BY <2>1, <1>3 DEF Replica, NextCovers
<1>8. Fits(l, RequestFor(l, j))
  <2> DEFINE out == getAppendLogs(logEntries[l], nextIndex[l][j])
             m == RequestFor(l, j)
  <2>1. /\ m.prevLogIndex = out.prevIndex /\ m.prevLogTerm = out.prevTerm
        /\ m.entries = out.entries /\ m.leaderCommit = commitIndex[l] /\ m.to = j
    BY DEF RequestFor
  <2>2. \A k \in 1 .. Len(logEntries[l]) : logEntries[l][k].index = k - 1
    BY DEF Replica, Copies
  <2>3. /\ out.prevIndex \in Nat /\ out.prevIndex < Len(logEntries[l])
        /\ out.prevTerm = logEntries[l][out.prevIndex + 1].term
        /\ Len(out.entries) > 0 =>
              /\ out.prevIndex + 1 = nextIndex[l][j]
              /\ Len(out.entries) = Len(logEntries[l]) - nextIndex[l][j]
              /\ \A k \in 1 .. Len(out.entries) :
                    out.entries[k] = logEntries[l][nextIndex[l][j] + k]
    BY <1>4, <1>6, <2>2, SentFits
  <2> HIDE DEF out, m
  <2>4. Fits(l, m)
    <3>1. /\ m.prevLogIndex < Len(logEntries[l])
          /\ m.prevLogTerm = logEntries[l][m.prevLogIndex + 1].term
      BY <2>1, <2>3
    <3>2. m.leaderCommit <= commitIndex[l]
      BY <1>4, <2>1
    <3>3. Len(m.entries) > 0 => m.prevLogIndex + 1 = nextIndex[l][m.to]
      BY <2>1, <2>3
    <3>4. nextIndex[l][m.to] >= Len(logEntries[m.to])
      BY <1>7, <2>1
    <3>5. Len(m.entries) > 0 =>
             /\ Len(m.entries) = Len(logEntries[l]) - nextIndex[l][m.to]
             /\ \A k \in 1 .. Len(m.entries) :
                   m.entries[k] = logEntries[l][nextIndex[l][m.to] + k]
      BY <2>1, <2>3
    <3>6. QED
      BY <3>1, <3>2, <3>3, <3>4, <3>5 DEF Fits
  <2>5. QED
    BY <2>4 DEF m
<1>9. PICK m : m = RequestFor(l, j)
  OBVIOUS
<1>10. RequestsFit(l)'
  <2>1. appendRequests' = {m} /\ Fits(l, m)
    BY <1>1, <1>3, <1>8, <1>9
  <2>2. Fits(l, m)'
    BY <1>2, <2>1 DEF Fits
  <2>3. QED
    BY <2>1, <2>2 DEF RequestsFit
<1>11. Copies(l)' /\ CommitSaved' /\ Decided(l)' /\ Fresh(l)'
  BY <1>2, SameLogs
<1>12. RepliesFit' /\ NextCovers(l)' /\ MatchSaved(l)'
  BY <1>2 DEF Replica, RepliesFit, NextCovers, MatchSaved
<1>13. QED
  BY <1>10, <1>11, <1>12 DEF Replica

\* A lost request: the next round sends the same entries again.
LEMMA LoseRequestKeeps ==
    ASSUME NEW l \in Server, Replica(l),
           NEW m \in appendRequests, LoseAppendRequest(m)
    PROVE  Replica(l)'
<1>1. /\ appendRequests' \subseteq appendRequests
      /\ UNCHANGED <<logEntries, commitIndex, lastApplied, delivered, starts, unissued,
                     nextIndex, matchIndex, appendReplies>>
  BY DEF LoseAppendRequest
<1>2. Copies(l)' /\ CommitSaved' /\ Decided(l)' /\ Fresh(l)'
  BY <1>1, SameLogs
<1>3. RequestsFit(l)'
  BY <1>1 DEF Replica, RequestsFit, Fits
<1>4. RepliesFit' /\ NextCovers(l)' /\ MatchSaved(l)'
  BY <1>1 DEF Replica, RepliesFit, NextCovers, MatchSaved
<1>5. QED
  BY <1>2, <1>3, <1>4 DEF Replica

\* An answer with a higher term tells nothing about the log.
LEMMA StepDownKeeps ==
    ASSUME NEW l \in Server, IInv, OneSender(l), Replica(l),
           NEW r \in appendReplies, HeartbeatStepDown(r)
    PROVE  Replica(l)'
<1>1. /\ r.term > term[l] /\ appendReplies' = appendReplies \ {r}
      /\ UNCHANGED <<logEntries, commitIndex, lastApplied, delivered, starts, unissued,
                     nextIndex, matchIndex, appendRequests>>
  BY DEF HeartbeatStepDown, Return, OneSender, SoleSender
<1>2. r.term # 0
  <2>1. term[l] \in Nat /\ r.term \in Nat
    BY CallFields DEF IInv, TypeOK, FieldsOK
  <2>2. QED
    BY <1>1, <2>1
<1>3. r.nextIndex = 0
  BY <1>2 DEF Replica, RepliesFit
<1>4. Copies(l)' /\ CommitSaved' /\ Decided(l)' /\ Fresh(l)'
  BY <1>1, SameLogs
<1>5. RequestsFit(l)' /\ RepliesFit' /\ MatchSaved(l)'
  BY <1>1 DEF Replica, RequestsFit, Fits, RepliesFit, MatchSaved
<1>6. NextCovers(l)'
  BY <1>1, <1>3 DEF Replica, NextCovers
<1>7. QED
  BY <1>4, <1>5, <1>6 DEF Replica

\* An answer raises nextIndex and matchIndex to what its sender has saved, so
\* what matchIndex lets commitLog commit is saved by a majority.
LEMMA ReplyKeeps ==
    ASSUME NEW l \in Server, IInv, OneSender(l), Replica(l),
           NEW r \in appendReplies, HeartbeatReply(r)
    PROVE  Replica(l)' /\ commitIndex'[l] >= commitIndex[l]
<1> DEFINE j == r.req.to
           match == IF r.nextIndex = 0 THEN matchIndex[l]
                    ELSE [matchIndex[l] EXCEPT ![j] = r.nextIndex - 1]
           c == commitLog(logEntries[l], commitIndex[l], match)
<1>1. /\ r.req.from = l /\ j # l /\ j \in Server /\ r.nextIndex \in Nat
  BY CallFields, AppendRequestFields DEF IInv, TypeOK, OneSender, SoleSender
<1>2. /\ logEntries \in [Server -> Log] /\ nextIndex \in [Server -> [Server -> Nat]]
      /\ matchIndex \in [Server -> [Server -> Nat]] /\ commitIndex \in [Server -> Nat]
  BY DEF IInv, TypeOK, FieldsOK
<1>3. \A i \in Server : Len(logEntries[i]) \in Nat \ {0}
  BY <1>2, LogShape
<1>4. /\ appendReplies' = appendReplies \ {r}
      /\ nextIndex' = [nextIndex EXCEPT
                         ![l][j] = IF r.nextIndex = 0 THEN @ ELSE r.nextIndex]
      /\ matchIndex' = [matchIndex EXCEPT ![l] = match]
      /\ commitIndex' = [commitIndex EXCEPT
                           ![l] = IF CountsMatches(r, term[l]) THEN c ELSE @]
      /\ UNCHANGED <<logEntries, lastApplied, delivered, starts, unissued,
                     appendRequests>>
  BY <1>1 DEF HeartbeatReply, Return
<1>5. /\ appendReplies = {r} /\ appendRequests = {}
      /\ \A k \in Server : nextIndex[l][k] >= 1
  BY OneCall
<1>6. RequestsFit(l)' /\ RepliesFit'
  BY <1>4, <1>5 DEF RequestsFit, RepliesFit
<1>7. r.nextIndex = 0 \/ r.nextIndex = Len(logEntries[j])
  BY DEF Replica, RepliesFit
<1>8. NextCovers(l)'
  <2>1. \A k \in Server \ {l} : \/ nextIndex[l][k] >= Len(logEntries[k])
                                \/ k = j /\ r.nextIndex # 0
    <3>1. ~\A k \in Server : nextIndex[l][k] = 0
      BY <1>5
    <3>2. \A k \in Server \ {l} :
             \/ nextIndex[l][k] >= Len(logEntries[k])
             \/ \E q \in appendReplies : q.req.to = k /\ q.nextIndex # 0
      BY <3>1 DEF Replica, NextCovers
    <3>3. QED
      BY <1>5, <3>2
  <2>2. \A k \in Server : nextIndex'[l][k] = IF k = j /\ r.nextIndex # 0
                                             THEN r.nextIndex ELSE nextIndex[l][k]
    <3>1. nextIndex[l] \in [Server -> Nat]
      BY <1>2
    <3>2. nextIndex'[l] = [nextIndex[l] EXCEPT
                             ![j] = IF r.nextIndex = 0 THEN @ ELSE r.nextIndex]
      BY <1>2, <1>4
    <3> HIDE DEF j
    <3>3. QED
      BY <1>1, <3>1, <3>2
  <2>3. \A k \in Server \ {l} : nextIndex'[l][k] >= Len(logEntries[k])
    BY <1>1, <1>3, <1>7, <2>1, <2>2
  <2>4. QED
    BY <1>4, <2>3 DEF NextCovers
<1>9. match \in [Server -> Nat] /\ \A k \in Server : match[k] < Len(logEntries[k])
  <2>1. \A k \in Server : matchIndex[l][k] < Len(logEntries[k])
    BY DEF Replica, MatchSaved
  <2>2. CASE r.nextIndex = 0
    BY <1>2, <2>1, <2>2
  <2>3. CASE r.nextIndex # 0
    <3>1. r.nextIndex - 1 \in Nat /\ r.nextIndex - 1 < Len(logEntries[j])
      BY <1>1, <1>3, <1>7, <2>3
    <3>2. match = [matchIndex[l] EXCEPT ![j] = r.nextIndex - 1]
      BY <2>3
    <3>3. matchIndex[l] \in [Server -> Nat]
      BY <1>2
    <3> HIDE DEF match
    <3>4. QED
      BY <1>1, <2>1, <3>1, <3>2, <3>3
  <2>4. QED
    BY <2>2, <2>3
<1> HIDE DEF match
<1>10. MatchSaved(l)'
  BY <1>2, <1>4, <1>9 DEF MatchSaved
<1>11. /\ c \in Nat /\ c >= commitIndex[l]
       /\ \/ c = commitIndex[l]
          \/ /\ c < Len(logEntries[l])
             /\ Majority(Cardinality({k \in Server : match[k] >= c}))
  BY <1>2, CommitCounts
<1> HIDE DEF c
<1>12. \/ c = commitIndex[l]
       \/ /\ c < Len(logEntries[l])
          /\ Majority(Cardinality(Holders(logEntries, c)))
  <2>1. {k \in Server : match[k] >= c} \subseteq Holders(logEntries, c)
    BY <1>3, <1>9, <1>11 DEF Holders
  <2>2. Holders(logEntries, c) \subseteq Server
    BY DEF Holders
  <2>3. QED
    BY <1>11, <2>1, <2>2, MajorityGrows
<1>13. /\ commitIndex'[l] = commitIndex[l] \/ commitIndex'[l] = c
       /\ \A i \in Server \ {l} : commitIndex'[i] = commitIndex[i]
  BY <1>2, <1>4
<1>14. CommitSaved'
  <2>1. ASSUME NEW i \in Server
        PROVE  /\ commitIndex'[i] < Len(logEntries[i])
               /\ commitIndex'[i] > 0 =>
                     Majority(Cardinality(Holders(logEntries, commitIndex'[i])))
    <3>1. CASE commitIndex'[i] = commitIndex[i]
      BY <3>1 DEF Replica, CommitSaved
    <3>2. CASE i = l /\ commitIndex'[i] = c /\ c # commitIndex[l]
      BY <1>12, <3>2
    <3>3. QED
      BY <1>13, <3>1, <3>2
  <2>2. QED
    BY <1>4, <2>1 DEF CommitSaved, Holders, Majority
<1>15. Copies(l)' /\ Decided(l)' /\ Fresh(l)'
  <2>1. Copies(l)' /\ Fresh(l)'
    BY <1>4 DEF Replica, Copies, IsCopy, Fresh
  <2>2. PICK n \in Nat : AppliedUpTo(l, n)
    BY DEF Replica, Decided
  <2>3. AppliedUpTo(l, n)'
    BY <1>4, <2>2 DEF AppliedUpTo, Holders, Sent, Majority
  <2>4. QED
    BY <2>1, <2>2, <2>3 DEF Decided
<1>16. commitIndex'[l] >= commitIndex[l]
  BY <1>2, <1>11, <1>13
<1>17. QED
  BY <1>6, <1>8, <1>10, <1>14, <1>15, <1>16 DEF Replica
---------------------------------------------------------------------------
(* Steps that extend a log, apply an entry or crash.                       *)

\* What was decided stays so while the logs grow.
LEMMA DecidedGrows ==
    ASSUME NEW l \in Server, IInv, IInv', Decided(l),
           \A j \in Server : IsCopy(logEntries[j], logEntries'[j]),
           UNCHANGED <<lastApplied, delivered>>
    PROVE  Decided(l)'
<1>1. PICK n \in Nat : AppliedUpTo(l, n)
  BY DEF Decided
<1>2. logEntries \in [Server -> Log] /\ logEntries' \in [Server -> Log]
  BY DEF IInv, TypeOK, FieldsOK
<1>3. \A j \in Server : /\ Len(logEntries[j]) \in Nat /\ Len(logEntries'[j]) \in Nat
                        /\ Len(logEntries[j]) <= Len(logEntries'[j])
  BY <1>2, LogShape DEF IsCopy
<1>4. n < Len(logEntries'[l])
  BY <1>1, <1>3 DEF AppliedUpTo
<1>5. n > 0 => Majority(Cardinality(Holders(logEntries', n)))
  BY <1>1, <1>2, <1>3, HoldersGrow DEF AppliedUpTo
<1>6. \A k \in 1 .. n : logEntries'[l][k + 1] = logEntries[l][k + 1]
  <2>1. \A k \in 1 .. n : k + 1 \in 1 .. Len(logEntries[l])
    BY <1>1, <1>3 DEF AppliedUpTo
  <2>2. QED
    BY <2>1 DEF IsCopy
<1>7. Sent(logEntries'[l], n) = Sent(logEntries[l], n)
  BY <1>6 DEF Sent
<1>8. AppliedUpTo(l, n)'
  <2>1. delivered' = Sent(logEntries'[l], n) /\ \A i \in Server : lastApplied'[i] <= n
    BY <1>1, <1>7 DEF AppliedUpTo
  <2>2. QED
    BY <1>4, <1>5, <2>1 DEF AppliedUpTo, Sent, Holders, Majority
<1>9. QED
  BY <1>8 DEF Decided

\* The AppendEntries handler.
LEMMA HandlerKeeps ==
    ASSUME NEW l \in Server, IInv, IInv', OneSender(l), Replica(l),
           NEW m \in appendRequests, AppendEntries(m)
    PROVE  Replica(l)' /\ \A i \in Server : commitIndex'[i] >= commitIndex[i]
<1> DEFINE j == m.to
<1>1. Fits(l, m) /\ j \in Server /\ j # l
  BY CallFields, AppendRequestFields
     DEF IInv, TypeOK, Replica, RequestsFit, OneSender, SoleSender
<1>2. Handled(l, m)
  BY <1>1, HandlerCopies DEF Replica
<1>3. /\ logEntries \in [Server -> Log] /\ logEntries' \in [Server -> Log]
      /\ commitIndex \in [Server -> Nat] /\ commitIndex' \in [Server -> Nat]
      /\ nextIndex \in [Server -> [Server -> Nat]]
  BY DEF IInv, TypeOK, FieldsOK
<1>4. \A i \in Server : Len(logEntries[i]) \in Nat /\ Len(logEntries'[i]) \in Nat
  BY <1>3, LogShape
<1>5. /\ \A i \in Server \ {j} :
            logEntries'[i] = logEntries[i] /\ commitIndex'[i] = commitIndex[i]
      /\ IsCopy(logEntries[j], logEntries'[j]) /\ IsCopy(logEntries'[j], logEntries[l])
  BY <1>2 DEF Handled
<1>6. \/ commitIndex'[j] = commitIndex[j]
      \/ /\ commitIndex[j] < commitIndex'[j] /\ commitIndex'[j] <= commitIndex[l]
         /\ commitIndex'[j] < Len(logEntries'[j])
  BY <1>2 DEF Handled
<1>7. /\ appendRequests' = {} /\ appendReplies = {}
      /\ UNCHANGED <<lastApplied, delivered, nextIndex, matchIndex, starts, unissued>>
  BY <1>2, OneCall DEF Handled
<1>8. PICK r : /\ appendReplies' = {r} /\ r.req = m
               /\ \/ r.nextIndex = 0 /\ logEntries' = logEntries
                  \/ r.term = 0 /\ r.nextIndex = Len(logEntries'[j])
  BY <1>2 DEF Handled
<1> HIDE DEF j
<1>9. logEntries'[l] = logEntries[l]
  BY <1>1, <1>5
<1>10. \A i \in Server : IsCopy(logEntries[i], logEntries'[i])
  <2>1. \A i \in Server : IsCopy(logEntries[i], logEntries[i])
    BY <1>4 DEF IsCopy
  <2>2. QED
    BY <1>5, <2>1, Zenon
<1>11. \A i \in Server : Len(logEntries[i]) <= Len(logEntries'[i])
  BY <1>10 DEF IsCopy
<1>12. Copies(l)'
  <2>1. \A k \in 1 .. Len(logEntries[l]) : logEntries[l][k].index = k - 1
    BY DEF Replica, Copies
  <2>2. \A i \in Server : IsCopy(logEntries[i], logEntries[l])
    BY DEF Replica, Copies
  <2>3. \A i \in Server : IsCopy(logEntries'[i], logEntries[l])
    BY <1>5, <2>2
  <2>4. \A i \in Server : IsCopy(logEntries'[i], logEntries'[l])
    BY <1>9, <2>3
  <2>5. \A k \in 1 .. Len(logEntries'[l]) : logEntries'[l][k].index = k - 1
    BY <1>9, <2>1
  <2>6. QED
    BY <2>4, <2>5 DEF Copies, IsCopy
<1>13. RequestsFit(l)' /\ RepliesFit'
  BY <1>7, <1>8 DEF RequestsFit, RepliesFit, j
<1>14. NextCovers(l)'
  <2>1. CASE \A k \in Server : nextIndex[l][k] = 0
    BY <1>7, <2>1 DEF NextCovers
  <2>2. CASE \A k \in Server \ {l} : nextIndex[l][k] >= Len(logEntries[k])
    <3>1. \A k \in Server \ {l, j} : nextIndex'[l][k] >= Len(logEntries'[k])
      BY <1>5, <1>7, <2>2
    <3>2. nextIndex'[l][j] >= Len(logEntries'[j]) \/ r.nextIndex # 0
      <4>1. nextIndex'[l][j] >= Len(logEntries[j]) /\ nextIndex'[l][j] \in Nat
        BY <1>1, <1>3, <1>7, <2>2
      <4>2. QED
        BY <1>1, <1>4, <1>8, <4>1
    <3>3. r \in appendReplies' /\ r.req.to = j
      BY <1>8 DEF j
    <3>4. QED
      BY <3>1, <3>2, <3>3 DEF NextCovers
  <2>3. QED
    BY <1>7, <2>1, <2>2 DEF Replica, NextCovers
<1>15. MatchSaved(l)'
  <2>1. \A k \in Server : matchIndex[l][k] < Len(logEntries[k]) /\ matchIndex[l][k] \in Nat
    BY DEF Replica, MatchSaved, IInv, TypeOK, FieldsOK
  <2>2. QED
    BY <1>4, <1>7, <1>11, <2>1 DEF MatchSaved
<1>16. CommitSaved'
  <2>1. ASSUME NEW i \in Server, commitIndex'[i] > 0
        PROVE  Majority(Cardinality(Holders(logEntries', commitIndex'[i])))
    <3>1. PICK k \in Server : commitIndex'[i] <= commitIndex[k]
      <4>1. CASE i = j
        BY <1>1, <1>3, <1>6, <4>1
      <4>2. CASE i # j
        BY <1>3, <1>5, <4>2
      <4>3. QED
        BY <4>1, <4>2
    <3>2. commitIndex[k] \in Nat /\ commitIndex'[i] \in Nat /\ commitIndex[k] > 0
      BY <1>3, <2>1, <3>1
    <3>3. Majority(Cardinality(Holders(logEntries, commitIndex[k])))
      BY <3>2 DEF Replica, CommitSaved
    <3>4. Majority(Cardinality(Holders(logEntries, commitIndex'[i])))
      BY <1>3, <3>1, <3>2, <3>3, HoldersBefore
    <3>5. QED
      BY <1>3, <1>11, <3>2, <3>4, HoldersGrow
  <2>2. ASSUME NEW i \in Server PROVE commitIndex'[i] < Len(logEntries'[i])
    <3>1. commitIndex[i] < Len(logEntries[i]) /\ commitIndex[i] \in Nat
      BY <1>3 DEF Replica, CommitSaved
    <3>2. commitIndex'[i] = commitIndex[i] \/ commitIndex'[i] < Len(logEntries'[i])
      BY <1>1, <1>5, <1>6
    <3>3. QED
      BY <1>4, <1>11, <3>1, <3>2
  <2>3. QED
    BY <2>1, <2>2 DEF CommitSaved, Holders, Majority
<1>17. Decided(l)'
  BY <1>7, <1>10, DecidedGrows DEF Replica
<1>18. Fresh(l)'
  BY <1>7, <1>9 DEF Replica, Fresh
<1>19. ASSUME NEW i \in Server PROVE commitIndex'[i] >= commitIndex[i]
  <2>1. commitIndex'[i] \in Nat /\ commitIndex[i] \in Nat
    BY <1>3
  <2>2. commitIndex'[i] = commitIndex[i] \/ commitIndex[i] < commitIndex'[i]
    BY <1>5, <1>6
  <2>3. QED
    BY <2>1, <2>2
<1>20. QED
  BY <1>12, <1>13, <1>14, <1>15, <1>16, <1>17, <1>18, <1>19 DEF Replica

\* Start takes a command that nobody has given before.
LEMMA StartCheckKeeps ==
    ASSUME NEW l \in Server, Replica(l), NEW c \in Command, StartCheck(l, c)
    PROVE  Replica(l)'
<1> DEFINE s == [server |-> l, command |-> c, term |-> term[l]]
<1>1. /\ c \in unissued /\ unissued' = unissued \ {c} /\ starts' = starts \cup {s}
      /\ UNCHANGED <<logEntries, commitIndex, lastApplied, delivered, nextIndex,
                     matchIndex, appendRequests, appendReplies>>
  BY DEF StartCheck
<1>2. s.command = c
  OBVIOUS
<1> HIDE DEF s
<1>3. Copies(l)' /\ CommitSaved' /\ MatchSaved(l)'
  BY <1>1 DEF Replica, Copies, IsCopy, CommitSaved, Holders, Majority, MatchSaved
<1>4. RequestsFit(l)' /\ RepliesFit' /\ NextCovers(l)'
  BY <1>1 DEF Replica, RequestsFit, Fits, RepliesFit, NextCovers
<1>5. Decided(l)'
  <2>1. PICK n \in Nat : AppliedUpTo(l, n)
    BY DEF Replica, Decided
  <2>2. AppliedUpTo(l, n)'
    BY <1>1, <2>1 DEF AppliedUpTo, Holders, Sent, Majority
  <2>3. QED
    BY <2>1, <2>2 DEF Decided
<1>6. Fresh(l)'
  <2> DEFINE log == logEntries[l]
  <2>1. /\ \A k, n \in 2 .. Len(log) : log[k].command = log[n].command => k = n
        /\ \A k \in 2 .. Len(log) : log[k].command \in Command \ unissued
        /\ \A t \in starts : /\ t.command \notin unissued
                             /\ \A k \in 2 .. Len(log) : log[k].command # t.command
        /\ \A t, u \in starts : t.command = u.command => t = u
    BY DEF Replica, Fresh
  <2>2. log' = log
    BY <1>1
  <2> HIDE DEF log
  <2>3. \A t \in starts' : /\ t.command \notin unissued'
                           /\ \A k \in 2 .. Len(log) : log[k].command # t.command
    BY <1>1, <1>2, <2>1
  <2>4. \A t, u \in starts' : t.command = u.command => t = u
    BY <1>1, <1>2, <2>1
  <2>5. \A k \in 2 .. Len(log) : log[k].command \in Command \ unissued'
    BY <1>1, <2>1
  <2>6. QED
    BY <2>1, <2>2, <2>3, <2>4, <2>5 DEF Fresh, log
<1>7. QED
  BY <1>3, <1>4, <1>5, <1>6 DEF Replica

\* The log of l gets longer; nobody has the new entry, and no call is in
\* flight that was made before.
LEMMA StartAppendKeeps ==
    ASSUME NEW l \in Server, IInv, IInv', OneSender(l), Replica(l),
           NEW s \in starts, StartAppend(s)
    PROVE  Replica(l)'
<1> DEFINE log == logEntries[l]
           e == [term |-> term[l], index |-> lastLogIndex(log) + 1,
                 command |-> s.command]
<1>1. s.server = l /\ s.command \in Command
  BY DEF OneSender, SoleSender, IInv, TypeOK, ClientOK
<1>2. /\ logEntries \in [Server -> Log] /\ logEntries' \in [Server -> Log]
      /\ matchIndex \in [Server -> [Server -> Nat]] /\ log \in Log
      /\ commitIndex \in [Server -> Nat]
  BY DEF IInv, TypeOK, FieldsOK
<1>3. \A i \in Server : Len(logEntries[i]) \in Nat \ {0} /\ Len(logEntries'[i]) \in Nat
  BY <1>2, LogShape
<1>4. /\ mu[l] = "free" /\ starts' = starts \ {s}
      /\ logEntries' = [logEntries EXCEPT ![l] = Append(log, e)]
      /\ matchIndex' = [matchIndex EXCEPT ![l][l] = lastLogIndex(log) + 1]
      /\ UNCHANGED <<commitIndex, lastApplied, delivered, nextIndex, unissued,
                     appendRequests, appendReplies>>
  BY <1>1 DEF StartAppend
<1>5. appendRequests' = {} /\ appendReplies' = {} /\ appendReplies = {}
  BY <1>4, OneCall
<1>6. lastLogIndex(log) = Len(log) - 1
  BY <1>3 DEF Replica, Copies, lastLogIndex
<1>7. e.index = Len(log) /\ e.command = s.command
  BY <1>3, <1>6
<1>8. logEntries'[l] = Append(log, e) /\ \A i \in Server \ {l} : logEntries'[i] = logEntries[i]
  BY <1>2, <1>4
<1> HIDE DEF e
<1>9. /\ Len(logEntries'[l]) = Len(log) + 1
      /\ logEntries'[l][Len(log) + 1] = e
      /\ \A k \in 1 .. Len(log) : logEntries'[l][k] = log[k]
  <2>1. log \in Seq(Entry)
    BY <1>2, LogShape
  <2> HIDE DEF log
  <2>2. QED
    BY <1>8, <2>1
<1>10. \A i \in Server : IsCopy(logEntries[i], logEntries'[i])
  <2>1. IsCopy(logEntries[l], logEntries'[l])
    BY <1>3, <1>9 DEF IsCopy
  <2>2. ASSUME NEW i \in Server \ {l} PROVE IsCopy(logEntries[i], logEntries'[i])
    BY <1>3, <1>8 DEF IsCopy
  <2>3. QED
    BY <2>1, <2>2
<1>11. \A i \in Server : Len(logEntries[i]) <= Len(logEntries'[i])
  BY <1>10 DEF IsCopy
<1>12. Copies(l)'
  <2>1. ASSUME NEW k \in 1 .. Len(logEntries'[l]) PROVE logEntries'[l][k].index = k - 1
    <3>1. CASE k = Len(log) + 1
      BY <1>3, <1>7, <1>9, <3>1
    <3>2. CASE k \in 1 .. Len(log)
      BY <1>9, <3>2 DEF Replica, Copies
    <3>3. QED
      BY <1>3, <1>9, <3>1, <3>2
  <2>2. ASSUME NEW i \in Server PROVE IsCopy(logEntries'[i], logEntries'[l])
    <3>1. CASE i = l
      BY <1>3, <3>1 DEF IsCopy
    <3>2. CASE i # l
      <4>1. IsCopy(logEntries[i], log) /\ IsCopy(log, logEntries'[l])
        BY <1>10 DEF Replica, Copies
      <4>2. IsCopy(logEntries[i], logEntries'[l])
        BY <1>2, <4>1, CopyTrans
      <4>3. QED
        BY <1>8, <3>2, <4>2
    <3>3. QED
      BY <3>1, <3>2
  <2>3. QED
    BY <2>1, <2>2 DEF Copies, IsCopy
<1>13. RequestsFit(l)' /\ RepliesFit'
  BY <1>5 DEF RequestsFit, RepliesFit
<1>14. NextCovers(l)'
  <2>1. \A k \in Server \ {l} : logEntries'[k] = logEntries[k]
    BY <1>8
  <2>2. QED
    BY <1>4, <1>5, <2>1 DEF Replica, NextCovers
<1>15. MatchSaved(l)'
  <2>1. matchIndex'[l] = [matchIndex[l] EXCEPT ![l] = lastLogIndex(log) + 1]
    BY <1>2, <1>4
  <2>2. \A k \in Server : matchIndex[l][k] < Len(logEntries[k]) /\ matchIndex[l][k] \in Nat
    BY <1>2 DEF Replica, MatchSaved
  <2>3. matchIndex[l] \in [Server -> Nat]
    BY <1>2
  <2>4. matchIndex'[l][l] = Len(log)
    BY <1>3, <1>6, <2>1, <2>3
  <2>5. \A k \in Server \ {l} : matchIndex'[l][k] = matchIndex[l][k]
    BY <2>1, <2>3
  <2>6. QED
    BY <1>3, <1>8, <1>9, <2>2, <2>4, <2>5 DEF MatchSaved
<1>16. CommitSaved'
  <2>1. ASSUME NEW i \in Server
        PROVE  /\ commitIndex'[i] < Len(logEntries'[i])
               /\ commitIndex'[i] > 0 =>
                     Majority(Cardinality(Holders(logEntries', commitIndex'[i])))
    <3>1. /\ commitIndex'[i] = commitIndex[i] /\ commitIndex[i] \in Nat
          /\ commitIndex[i] < Len(logEntries[i])
      BY <1>2, <1>4 DEF Replica, CommitSaved
    <3>2. commitIndex[i] > 0 => Majority(Cardinality(Holders(logEntries, commitIndex[i])))
      BY DEF Replica, CommitSaved
    <3>3. commitIndex[i] > 0 => Majority(Cardinality(Holders(logEntries', commitIndex[i])))
      BY <1>2, <1>11, <3>1, <3>2, HoldersGrow
    <3>4. QED
      BY <1>3, <1>11, <3>1, <3>3
  <2>2. QED
    BY <2>1 DEF CommitSaved, Holders, Majority
<1>17. Decided(l)'
  BY <1>4, <1>10, DecidedGrows DEF Replica
<1>18. Fresh(l)'
  <2>1. /\ \A k, n \in 2 .. Len(log) : log[k].command = log[n].command => k = n
        /\ \A k \in 2 .. Len(log) : log[k].command \in Command \ unissued
        /\ \A t \in starts : /\ t.command \notin unissued
                             /\ \A k \in 2 .. Len(log) : log[k].command # t.command
        /\ \A t, u \in starts : t.command = u.command => t = u
    BY DEF Replica, Fresh
  <2>2. \A k \in 2 .. Len(logEntries'[l]) :
           \/ k \in 2 .. Len(log) /\ logEntries'[l][k].command = log[k].command
           \/ k = Len(log) + 1 /\ logEntries'[l][k].command = s.command
    <3>1. Len(log) \in Nat
      BY <1>3
    <3>2. \A k \in 2 .. Len(logEntries'[l]) : k \in 2 .. Len(log) \/ k = Len(log) + 1
      BY <3>1, <1>9
    <3>3. \A k \in 2 .. Len(log) : k \in 1 .. Len(log)
      BY <3>1
    <3>4. QED
      BY <3>2, <3>3, <1>7, <1>9
  <2> HIDE DEF log
  <2>3. \A k, n \in 2 .. Len(logEntries'[l]) :
           logEntries'[l][k].command = logEntries'[l][n].command => k = n
    BY <2>1, <2>2
  <2>4. \A k \in 2 .. Len(logEntries'[l]) :
           logEntries'[l][k].command \in Command \ unissued'
    <3>1. s.command \in Command \ unissued' /\ unissued' = unissued
      BY <1>1, <1>4, <2>1
    <3>2. QED
      BY <3>1, <2>1, <2>2
  <2>5. \A t \in starts' : t.command # s.command /\ t.command \notin unissued'
    BY <1>4, <2>1
  <2>6. \A t \in starts' : \A k \in 2 .. Len(logEntries'[l]) :
           logEntries'[l][k].command # t.command
    BY <1>4, <2>1, <2>2, <2>5
  <2>7. \A t, u \in starts' : t.command = u.command => t = u
    BY <1>4, <2>1
  <2>8. QED
    BY <2>3, <2>4, <2>5, <2>6, <2>7 DEF Fresh
<1>19. QED
  BY <1>12, <1>13, <1>14, <1>15, <1>16, <1>17, <1>18 DEF Replica

\* The entry after the ones that have been applied, if it is in l's log.
Adds(l, n) ==
    /\ n + 1 < Len(logEntries[l]) /\ delivered = Sent(logEntries[l], n)
    /\ delivered' = delivered \cup
          {[index |-> n + 1, command |-> logEntries[l][n + 2].command]}

\* An apply goroutine repeats what another one has sent, or sends the next
\* entry, which a majority has.
LEMMA ApplyKeeps ==
    ASSUME NEW l \in Server, IInv, IInv', Replica(l), NEW i \in Server, Apply(i)
    PROVE  /\ Replica(l)'
           /\ delivered' = delivered \/ \E n \in Nat : Adds(l, n)
<1>k. PICK k : k = lastApplied[i] + 1
  OBVIOUS
<1>d. PICK d : d = [index |-> k, command |-> logEntries[i][k + 1].command]
  OBVIOUS
<1>1. /\ lastApplied[i] < commitIndex[i] /\ k < Len(logEntries[i])
      /\ lastApplied' = [lastApplied EXCEPT ![i] = k]
      /\ delivered' = delivered \cup {d}
      /\ UNCHANGED <<logEntries, commitIndex, nextIndex, matchIndex, starts, unissued,
                     appendRequests, appendReplies>>
  BY <1>k, <1>d DEF Apply, Slot
<1>2. /\ logEntries \in [Server -> Log] /\ commitIndex \in [Server -> Nat]
      /\ lastApplied \in [Server -> Nat]
  BY DEF IInv, TypeOK, FieldsOK
<1>3. Len(logEntries[i]) \in Nat /\ Len(logEntries[l]) \in Nat
  BY <1>2, LogShape
<1>4. k \in Nat \ {0} /\ k <= commitIndex[i] /\ commitIndex[i] \in Nat
  BY <1>k, <1>1, <1>2
<1>5. \A j \in Server : lastApplied'[j] = IF j = i THEN k ELSE lastApplied[j]
  BY <1>1, <1>2
<1>6. k < Len(logEntries[l]) /\ logEntries[i][k + 1] = logEntries[l][k + 1]
  <2>1. IsCopy(logEntries[i], logEntries[l])
    BY DEF Replica, Copies
  <2>2. k + 1 \in 1 .. Len(logEntries[i])
    BY <1>1, <1>3, <1>4
  <2>3. QED
    BY <1>1, <1>3, <1>4, <2>1, <2>2 DEF IsCopy
<1>7. Majority(Cardinality(Holders(logEntries, k)))
  <2>1. Majority(Cardinality(Holders(logEntries, commitIndex[i])))
    BY <1>4 DEF Replica, CommitSaved
  <2>2. QED
    BY <1>2, <1>4, <2>1, HoldersBefore
<1>8. PICK n \in Nat : AppliedUpTo(l, n)
  BY DEF Replica, Decided
<1>9. /\ n < Len(logEntries[l]) /\ \A j \in Server : lastApplied[j] <= n
      /\ delivered = Sent(logEntries[l], n)
      /\ n > 0 => Majority(Cardinality(Holders(logEntries, n)))
  BY <1>8 DEF AppliedUpTo
<1>10. k <= n \/ k = n + 1
  BY <1>k, <1>2, <1>9
<1>11. d = [index |-> k, command |-> logEntries[l][k + 1].command]
  BY <1>d, <1>6
<1>12. ASSUME k <= n PROVE Decided(l)' /\ delivered' = delivered
  <2>1. d \in Sent(logEntries[l], n)
    BY <1>4, <1>11, <1>12 DEF Sent
  <2>2. delivered' = delivered
    BY <1>1, <1>9, <2>1
  <2>3. \A j \in Server : lastApplied'[j] <= n
    BY <1>5, <1>9, <1>12
  <2>4. AppliedUpTo(l, n)'
    <3>1. logEntries' = logEntries /\ delivered' = Sent(logEntries[l], n)
      BY <1>1, <1>9, <2>2
    <3>2. QED
      BY <1>9, <2>3, <3>1 DEF AppliedUpTo, Sent, Holders, Majority
  <2>5. QED
    BY <2>2, <2>4 DEF Decided
<1>13. ASSUME k = n + 1 PROVE Decided(l)' /\ Adds(l, n)
  <2>1. delivered' = Sent(logEntries[l], k)
    <3>1. 1 .. k = (1 .. n) \cup {k}
      BY <1>13
    <3>2. Sent(logEntries[l], k) = Sent(logEntries[l], n) \cup {d}
      BY <1>11, <3>1 DEF Sent
    <3>3. QED
      BY <1>1, <1>9, <3>2
  <2>2. \A j \in Server : lastApplied'[j] <= k
    <3>1. k = n + 1 /\ \A j \in Server : lastApplied[j] \in Nat /\ lastApplied[j] <= n
      BY <1>2, <1>9, <1>13
    <3>2. QED
      BY <3>1, <1>5
  <2>3. AppliedUpTo(l, k)'
    <3>1. logEntries' = logEntries
      BY <1>1
    <3>2. QED
      BY <1>4, <1>6, <1>7, <2>1, <2>2, <3>1 DEF AppliedUpTo, Sent, Holders, Majority
  <2>4. n + 1 < Len(logEntries[l]) /\ k + 1 = n + 2
    BY <1>6, <1>13
  <2>5. Adds(l, n)
    BY <1>1, <1>9, <1>11, <1>13, <2>4 DEF Adds
  <2>6. QED
    BY <1>4, <2>3, <2>5 DEF Decided
<1>14. Decided(l)' /\ (delivered' = delivered \/ \E p \in Nat : Adds(l, p))
  BY <1>10, <1>12, <1>13
<1>15. Copies(l)' /\ CommitSaved' /\ Fresh(l)' /\ MatchSaved(l)'
  <2>1. Copies(l)' /\ MatchSaved(l)'
    BY <1>1 DEF Replica, Copies, IsCopy, MatchSaved
  <2>2. CommitSaved'
    BY <1>1 DEF Replica, CommitSaved, Holders, Majority
  <2>3. Fresh(l)'
    BY <1>1 DEF Replica, Fresh
  <2>4. QED
    BY <2>1, <2>2, <2>3
<1>16. RequestsFit(l)' /\ RepliesFit' /\ NextCovers(l)'
  BY <1>1 DEF Replica, RequestsFit, Fits, RepliesFit, NextCovers
<1>17. QED
  BY <1>14, <1>15, <1>16 DEF Replica

\* A crash of l takes its calls and its indexes along, but not its log.
LEMMA CrashKeeps ==
    ASSUME NEW l \in Server, Reliable(l), IInv, IInv', OneSender(l), Replica(l), Crash(l)
    PROVE  Replica(l)'
<1>1. ~(lates < MaxLate)
  BY DEF IInv, TypeOK, BudgetsOK, Reliable
<1>2. appendRequests' = {} /\ appendReplies' = {}
  BY <1>1 DEF Crash, AfterCrash, Uninvolved, OneSender, SoleSender
<1>3. /\ logEntries \in [Server -> Log] /\ commitIndex \in [Server -> Nat]
      /\ lastApplied \in [Server -> Nat] /\ nextIndex \in [Server -> [Server -> Nat]]
      /\ matchIndex \in [Server -> [Server -> Nat]]
  BY DEF IInv, TypeOK, FieldsOK
<1>4. \A j \in Server : Len(logEntries[j]) \in Nat \ {0}
  BY <1>3, LogShape
<1>5. logEntries' = logEntries
  <2>1. disk[l].log = logEntries[l]
    BY DEF IInv, LockInv
  <2>2. logEntries' = [logEntries EXCEPT ![l] = logEntries[l]]
    BY <2>1 DEF Crash
  <2>3. QED
    BY <1>3, <2>2
<1>6. /\ \A j \in Server : nextIndex'[l][j] = 0 /\ matchIndex'[l][j] = 0
      /\ \A i \in Server :
            /\ commitIndex'[i] = IF i = l THEN 0 ELSE commitIndex[i]
            /\ lastApplied'[i] = IF i = l THEN 0 ELSE lastApplied[i]
      /\ delivered' = delivered /\ unissued' = unissued /\ starts' \subseteq starts
  BY <1>3 DEF Crash
<1>7. Copies(l)' /\ RequestsFit(l)' /\ RepliesFit' /\ NextCovers(l)'
  BY <1>2, <1>5, <1>6 DEF Replica, Copies, IsCopy, RequestsFit, RepliesFit, NextCovers
<1>8. MatchSaved(l)'
  BY <1>4, <1>5, <1>6 DEF MatchSaved
<1>9. CommitSaved'
  <2> SUFFICES ASSUME NEW i \in Server
               PROVE  /\ commitIndex'[i] < Len(logEntries[i])
                      /\ commitIndex'[i] > 0 =>
                            Majority(Cardinality(Holders(logEntries, commitIndex'[i])))
    BY <1>5 DEF CommitSaved
  <2>1. CASE i = l
    BY <1>4, <1>6, <2>1
  <2>2. CASE i # l
    <3>1. commitIndex'[i] = commitIndex[i]
      BY <1>6, <2>2
    <3>2. QED
      BY <3>1 DEF Replica, CommitSaved
  <2>3. QED
    BY <2>1, <2>2
<1>10. Decided(l)'
  <2>1. PICK n \in Nat : AppliedUpTo(l, n)
    BY DEF Replica, Decided
  <2>2. AppliedUpTo(l, n)'
    BY <1>5, <1>6, <2>1 DEF AppliedUpTo, Holders, Sent, Majority
  <2>3. QED
    BY <2>1, <2>2 DEF Decided
<1>11. Fresh(l)'
  BY <1>5, <1>6 DEF Replica, Fresh
<1>12. QED
  BY <1>7, <1>8, <1>9, <1>10, <1>11 DEF Replica
---------------------------------------------------------------------------
(* All steps, and what follows.                                            *)

CommitsForward ==
    \A i \in Server : commitIndex'[i] >= commitIndex[i] \/ crashes' # crashes

\* Every step keeps the replicas, raises commitIndex if anything, and applies
\* the next entry if any.
LEMMA ReplicaStep ==
    ASSUME NEW l \in Server, Reliable(l), IInv, IInv', OneSender(l), Replica(l),
           [Next]_vars
    PROVE  /\ Replica(l)' /\ CommitsForward
           /\ delivered' = delivered \/ \E n \in Nat : Adds(l, n)
<1>nat. commitIndex \in [Server -> Nat] /\ crashes \in Nat
  BY DEF IInv, TypeOK, FieldsOK, BudgetsOK
<1>same. commitIndex' = commitIndex => CommitsForward
  BY <1>nat DEF CommitsForward
<1>1. CASE UNCHANGED repVars
  BY <1>1, <1>same, QuietStep DEF repVars
<1>2. CASE ElectionWon(l)
  BY <1>2, <1>same, ElectionWonKeeps DEF ElectionWon
<1>3. CASE Crash(l)
  <2>1. crashes' # crashes /\ delivered' = delivered
    <3>1. crashes' = crashes + 1 /\ delivered' = delivered
      BY <1>3 DEF Crash
    <3>2. crashes + 1 # crashes
      BY <1>nat
    <3>3. QED
      BY <3>1, <3>2
  <2>2. QED
    BY <1>3, <2>1, CrashKeeps DEF CommitsForward
<1>4. ASSUME NEW g \in Routine, SendHeartbeat(l, g)
      PROVE  Replica(l)' /\ CommitsForward /\ delivered' = delivered
  BY <1>4, <1>same, SendKeeps DEF SendHeartbeat
<1>5. ASSUME NEW m \in appendRequests, AppendEntries(m)
      PROVE  Replica(l)' /\ CommitsForward /\ delivered' = delivered
  <2>1. PICK t, ok, next : Answer(m, t, ok, next)
    BY <1>5 DEF AppendEntries, AppendHigherTerm, AppendLowerTerm,
       AppendPrevMismatch, AppendConflict, AppendPrevMissing, AppendAccepted
  <2>2. delivered' = delivered
    BY <2>1 DEF Answer
  <2>3. QED
    BY <1>5, <2>2, HandlerKeeps DEF CommitsForward
<1>6. ASSUME NEW m \in appendRequests, LoseAppendRequest(m)
      PROVE  Replica(l)' /\ CommitsForward /\ delivered' = delivered
  BY <1>6, <1>same, LoseRequestKeeps DEF LoseAppendRequest
<1>7. ASSUME NEW r \in appendReplies, HeartbeatReply(r)
      PROVE  Replica(l)' /\ CommitsForward /\ delivered' = delivered
  <2>1. Replica(l)' /\ commitIndex'[l] >= commitIndex[l]
    BY <1>7, ReplyKeeps
  <2>2. r.req.from = l
    BY DEF OneSender, SoleSender
  <2>3. \A i \in Server \ {l} : commitIndex'[i] = commitIndex[i]
    BY <1>7, <1>nat, <2>2 DEF HeartbeatReply
  <2>4. delivered' = delivered
    BY <1>7 DEF HeartbeatReply, Return
  <2>5. QED
    BY <1>nat, <2>1, <2>3, <2>4 DEF CommitsForward
<1>8. ASSUME NEW r \in appendReplies, HeartbeatStepDown(r)
      PROVE  Replica(l)' /\ CommitsForward /\ delivered' = delivered
  BY <1>8, <1>same, StepDownKeeps DEF HeartbeatStepDown, Return
<1>9. ASSUME NEW c \in Command, StartCheck(l, c)
      PROVE  Replica(l)' /\ CommitsForward /\ delivered' = delivered
  BY <1>9, <1>same, StartCheckKeeps DEF StartCheck
<1>10. ASSUME NEW s \in starts, StartAppend(s)
       PROVE  Replica(l)' /\ CommitsForward /\ delivered' = delivered
  BY <1>10, <1>same, StartAppendKeeps DEF StartAppend
<1>11. ASSUME NEW i \in Server, Apply(i)
       PROVE  /\ Replica(l)' /\ CommitsForward
              /\ delivered' = delivered \/ \E n \in Nat : Adds(l, n)
  <2>1. commitIndex' = commitIndex
    BY <1>11 DEF Apply
  <2>2. QED
    BY <1>11, <1>same, <2>1, ApplyKeeps
<1>12. UNCHANGED repVars \/ Replicates(l)
  BY StepKinds
<1>13. QED
  BY <1>1, <1>2, <1>3, <1>4, <1>5, <1>6, <1>7, <1>8, <1>9, <1>10, <1>11, <1>12
     DEF Replicates

\* All logs start with the placeholder alone.
LEMMA ReplicaInit ==
    ASSUME NEW l \in Server, Init
    PROVE  OneSender(l) /\ Replica(l)
<1>1. \A i \in Server : /\ logEntries[i] = <<Placeholder>> /\ commitIndex[i] = 0
                        /\ lastApplied[i] = 0
                        /\ \A j \in Server : nextIndex[i][j] = 0 /\ matchIndex[i][j] = 0
  BY DEF Init
<1>2. Len(<<Placeholder>>) = 1 /\ <<Placeholder>>[1].index = 0
  BY DEF Placeholder
<1>3. starts = {} /\ appendRequests = {} /\ appendReplies = {} /\ delivered = {}
  BY DEF Init
<1>4. OneSender(l)
  BY <1>3 DEF Init, OneSender, SoleSender
<1>5. Copies(l) /\ MatchSaved(l) /\ CommitSaved
  <2>1. \A i \in Server : IsCopy(logEntries[i], logEntries[l])
    BY <1>1, <1>2 DEF IsCopy
  <2>2. \A k \in 1 .. Len(logEntries[l]) : logEntries[l][k].index = k - 1
    BY <1>1, <1>2
  <2>3. Copies(l)
    BY <2>1, <2>2 DEF Copies
  <2>4. MatchSaved(l) /\ CommitSaved
    BY <1>1, <1>2 DEF MatchSaved, CommitSaved
  <2>5. QED
    BY <2>3, <2>4
<1>6. RequestsFit(l) /\ RepliesFit /\ NextCovers(l)
  BY <1>1, <1>3 DEF RequestsFit, RepliesFit, NextCovers
<1>7. Decided(l)
  <2>1. Sent(logEntries[l], 0) = {}
    BY DEF Sent
  <2>2. AppliedUpTo(l, 0)
    BY <1>1, <1>2, <1>3, <2>1 DEF AppliedUpTo
  <2>3. QED
    BY <2>2 DEF Decided
<1>8. Fresh(l)
  BY <1>1, <1>2, <1>3 DEF Fresh
<1>9. QED
  BY <1>4, <1>5, <1>6, <1>7, <1>8 DEF Replica

\* What was applied is in l's log, and in the logs of a majority.
LEMMA ReplicasDurable ==
    ASSUME NEW l \in Server, IInv, Replica(l)
    PROVE  AppliedIsDurable /\ StateMachineSafety
<1>1. PICK n \in Nat : AppliedUpTo(l, n)
  BY DEF Replica, Decided
<1>2. /\ n < Len(logEntries[l]) /\ delivered = Sent(logEntries[l], n)
      /\ n > 0 => Majority(Cardinality(Holders(logEntries, n)))
  BY <1>1 DEF AppliedUpTo
<1>3. logEntries \in [Server -> Log] /\ \A i \in Server : Len(logEntries[i]) \in Nat
  BY LogShape DEF IInv, TypeOK, FieldsOK
<1>4. \A d \in delivered : \E k \in 1 .. n :
         d.index = k /\ d.command = logEntries[l][k + 1].command
  BY <1>2 DEF Sent
<1>5. StateMachineSafety
  BY <1>4 DEF StateMachineSafety
<1>6. ASSUME NEW d \in delivered
      PROVE  Majority(Cardinality(
                {i \in Server : /\ d.index < Len(disk[i].log)
                                /\ Slot(disk[i].log, d.index).command = d.command}))
  <2> DEFINE H == {i \in Server : /\ d.index < Len(disk[i].log)
                                  /\ Slot(disk[i].log, d.index).command = d.command}
  <2>1. PICK k \in 1 .. n : d.index = k /\ d.command = logEntries[l][k + 1].command
    BY <1>4
  <2>2. Majority(Cardinality(Holders(logEntries, k)))
    BY <1>2, <1>3, <2>1, HoldersBefore
  <2>3. ASSUME NEW i \in Server, k < Len(logEntries[i]) PROVE i \in H
    <3>1. disk[i].log = logEntries[i]
      BY DEF IInv, LockInv
    <3>2. k + 1 \in 1 .. Len(logEntries[i])
      BY <1>3, <2>3
    <3>3. logEntries[i][k + 1] = logEntries[l][k + 1]
      BY <3>2 DEF Replica, Copies, IsCopy
    <3>4. QED
      BY <2>1, <2>3, <3>1, <3>3 DEF Slot
  <2>4. Holders(logEntries, k) \subseteq H /\ H \subseteq Server
    BY <2>3 DEF Holders
  <2> HIDE DEF H
  <2>5. Majority(Cardinality(H))
    BY <2>2, <2>4, MajorityGrows
  <2>6. QED
    BY <2>5 DEF H
<1>7. QED
  BY <1>5, <1>6 DEF AppliedIsDurable

\* The log that was applied has as many entries as its last index says.
LEMMA SentCount ==
    ASSUME NEW log, NEW n \in Nat
    PROVE  Cardinality(Sent(log, n)) = n
<1> DEFINE f == [k \in 1 .. n |-> [index |-> k, command |-> log[k + 1].command]]
<1>1. f \in [1 .. n -> Sent(log, n)]
  BY DEF Sent
<1>2. \A a, b \in 1 .. n : f[a] = f[b] => a = b
  OBVIOUS
<1>3. \A t \in Sent(log, n) : \E k \in 1 .. n : f[k] = t
  BY DEF Sent
<1>4. f \in Bijection(1 .. n, Sent(log, n))
  BY <1>1, <1>2, <1>3 DEF Bijection, Injection, Surjection, IsInjective
<1>5. QED
  BY <1>4, FS_CountingElements DEF ExistsBijection

============================================================================
