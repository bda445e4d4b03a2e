------------------------------ MODULE RaftLogs ------------------------------
(***************************************************************************)
(* Every step keeps the order of the entries in the logs: no entry has a   *)
(* term beyond that of the log's owner, and none has an Index beyond its   *)
(* slot, although an entry that was appended twice is in a later slot than *)
(* its Index says.  Second, which steps change a log and how, and that the *)
(* commands in logs and requests are those that Start took.  Third, if one *)
(* server campaigns, its log only grows and holds every entry there is,    *)
(* also when calls are late, answers are lost and servers crash.           *)
(***************************************************************************)
EXTENDS RaftLocks

USE DEF leaderVars, applyVars, ballotVars, routineVars, voteHistory, startVars,
        voteNet, appendNet, budgetVars
USE ZenonT(10), SMTT(20)

\* Position k of a log is slot k - 1.
InOrder(log, t) ==
    \A k \in 1 .. Len(log) : log[k].term <= t /\ log[k].index < k
SavedInOrder == \A i \in Server : InOrder(disk[i].log, disk[i].term)

\* The entries of a request go behind slot prevLogIndex.
SentInOrder ==
    \A m \in appendRequests : \A k \in 1 .. Len(m.entries) :
        m.entries[k].term <= m.term /\ m.entries[k].index <= m.prevLogIndex + k

LogInv == SavedInOrder /\ SentInOrder
---------------------------------------------------------------------------
(* Logs.                                                                   *)

\* A log stays in order in a later term.
LEMMA LaterTerm ==
    ASSUME NEW log \in Log, NEW t \in Nat, NEW u \in Nat, t <= u, InOrder(log, t)
    PROVE  InOrder(log, u)
BY LogShape, EntryFields DEF InOrder

\* What AppendEntries leaves of a log after a cut is in order.
LEMMA CutInOrder ==
    ASSUME NEW log \in Log, NEW t \in Nat, InOrder(log, t), NEW k \in 0 .. Len(log)
    PROVE  InOrder(Keep(log, k), t)
<1>1. log \in Seq(Entry) /\ Len(log) \in Nat
  BY LogShape
<1>2. /\ Len(SubSeq(log, 1, k)) = k
      /\ \A n \in 1 .. k : SubSeq(log, 1, k)[n] = log[n]
  BY <1>1
<1>3. QED
  BY <1>1, <1>2 DEF InOrder, Keep

\* Entries that AppendEntries appends behind slot prev, which the log has.
LEMMA ExtendInOrder ==
    ASSUME NEW log \in Log, NEW t \in Nat, InOrder(log, t),
           NEW entries \in Seq(Entry), NEW prev \in Nat, prev < Len(log),
           \A k \in 1 .. Len(entries) : entries[k].term <= t /\ entries[k].index <= prev + k
    PROVE  InOrder(log \o entries, t)
<1>1. log \in Seq(Entry) /\ Len(log) \in Nat /\ Len(entries) \in Nat
  BY LogShape
<1>2. Len(log \o entries) = Len(log) + Len(entries)
  BY <1>1
<1>3. ASSUME NEW k \in 1 .. Len(log)
      PROVE  (log \o entries)[k].term <= t /\ (log \o entries)[k].index < k
  <2>1. (log \o entries)[k] = log[k]
    BY <1>1
  <2>2. QED
    BY <2>1 DEF InOrder
<1>4. ASSUME NEW k \in Len(log) + 1 .. Len(log) + Len(entries)
      PROVE  (log \o entries)[k].term <= t /\ (log \o entries)[k].index < k
  <2> DEFINE n == k - Len(log)
  <2>1. (log \o entries)[k] = entries[n] /\ n \in 1 .. Len(entries) /\ k = Len(log) + n
    BY <1>1
  <2>2. entries[n] \in Entry
    BY <2>1
  <2>3. entries[n].index \in Nat
    BY <2>2, EntryFields
  <2> HIDE DEF n
  <2>4. entries[n].term <= t /\ entries[n].index <= prev + n
    BY <2>1
  <2>5. entries[n].index < k
    BY <1>1, <2>1, <2>3, <2>4
  <2>6. QED
    BY <2>1, <2>4, <2>5
<1>5. QED
  BY <1>1, <1>2, <1>3, <1>4 DEF InOrder

\* The entry that Start appends has the next Index and the server's term.
LEMMA StartInOrder ==
    ASSUME NEW log \in Log, NEW t \in Nat, InOrder(log, t), NEW c
    PROVE  InOrder(Append(log, [term |-> t, index |-> lastLogIndex(log) + 1,
                                command |-> c]), t)
<1> DEFINE e == [term |-> t, index |-> lastLogIndex(log) + 1, command |-> c]
<1>1. log \in Seq(Entry) /\ Len(log) \in Nat \ {0}
  BY LogShape
<1>2. lastLogIndex(log) < Len(log) /\ lastLogIndex(log) \in Nat
  BY <1>1, LastEntry DEF InOrder, lastLogIndex
<1>3. e.term = t /\ e.index = lastLogIndex(log) + 1
  OBVIOUS
<1> HIDE DEF e
<1>4. /\ Len(Append(log, e)) = Len(log) + 1
      /\ Append(log, e)[Len(log) + 1] = e
      /\ \A k \in 1 .. Len(log) : Append(log, e)[k] = log[k]
  BY <1>1
<1>5. e.term <= t /\ e.index < Len(log) + 1
  BY <1>1, <1>2, <1>3
<1>6. InOrder(Append(log, e), t)
  BY <1>1, <1>4, <1>5 DEF InOrder
<1>7. QED
  BY <1>6 DEF e

\* What getAppendLogs takes from a log is in order behind prevIndex.
LEMMA SentTail ==
    ASSUME NEW log \in Log, NEW t \in Nat, InOrder(log, t), NEW next \in Nat, next >= 1
    PROVE  LET out == getAppendLogs(log, next)
           IN  \A k \in 1 .. Len(out.entries) :
                  /\ out.entries[k].term <= t
                  /\ out.entries[k].index <= out.prevIndex + k
<1> DEFINE tail == SubSeq(log, next + 1, Len(log))
           out == getAppendLogs(log, next)
<1>1. log \in Seq(Entry) /\ Len(log) \in Nat
  BY LogShape
<1>2. CASE lastLogIndex(log) < next \/ tail = << >>
  <2>1. out.entries = << >>
    BY <1>2 DEF getAppendLogs
  <2> HIDE DEF out
  <2>2. QED
    BY <2>1 DEF out
<1>3. CASE ~(lastLogIndex(log) < next \/ tail = << >>)
  <2>1. out.entries = tail /\ out.prevIndex = next - 1
    BY <1>3 DEF getAppendLogs
  <2>2. next + 1 <= Len(log)
    BY <1>1, <1>3
  <2>3. /\ Len(tail) = Len(log) - next
        /\ \A k \in 1 .. Len(log) - next : tail[k] = log[next + k]
    BY <1>1, <2>2
  <2> HIDE DEF tail
  <2>4. ASSUME NEW k \in 1 .. Len(tail)
        PROVE  tail[k].term <= t /\ tail[k].index <= next - 1 + k
    <3>1. next + k \in 1 .. Len(log) /\ tail[k] = log[next + k]
      BY <1>1, <2>2, <2>3
    <3>2. log[next + k].term <= t /\ log[next + k].index < next + k
      BY <3>1 DEF InOrder
    <3>3. log[next + k].index \in Nat
      BY <3>1, LogShape, EntryFields
    <3>4. QED
      BY <3>1, <3>2, <3>3
  <2> HIDE DEF out
  <2>5. QED
    BY <2>1, <2>4 DEF out
<1>4. QED
  BY <1>2, <1>3
---------------------------------------------------------------------------
(* Saved logs.                                                             *)

\* The log in memory is in order too: it is the one on disk, and the term of
\* the disk is at most the one in memory.
LEMMA MemoryInOrder ==
    ASSUME IInv, SavedInOrder, NEW i \in Server
    PROVE  /\ logEntries[i] \in Log /\ term[i] \in Nat
           /\ InOrder(logEntries[i], term[i])
<1>1. /\ logEntries[i] \in Log /\ term[i] \in Nat
      /\ disk[i].log \in Log /\ disk[i].term \in Nat
  BY DEF IInv, TypeOK, FieldsOK, DiskOK
<1>2. disk[i].log = logEntries[i] /\ disk[i].term <= term[i]
  BY <1>1 DEF IInv, LockInv
<1>3. InOrder(disk[i].log, disk[i].term)
  BY DEF SavedInOrder
<1>4. QED
  BY <1>1, <1>2, <1>3, LaterTerm

\* persist saves a log in order when the one in memory is.
LEMMA SavesInOrder ==
    ASSUME IInv, SavedInOrder, NEW i \in Server, persist(i),
           InOrder(logEntries'[i], term'[i])
    PROVE  SavedInOrder'
<1>1. /\ disk'[i].log = logEntries'[i] /\ disk'[i].term = term'[i]
      /\ \A j \in Server \ {i} : disk'[j] = disk[j]
  BY DEF persist, IInv, TypeOK, DiskOK
<1>2. InOrder(disk'[i].log, disk'[i].term)
  BY <1>1
<1>3. ASSUME NEW j \in Server \ {i} PROVE InOrder(disk'[j].log, disk'[j].term)
  BY <1>1 DEF SavedInOrder
<1>4. \A j \in Server : InOrder(disk'[j].log, disk'[j].term)
  BY <1>2, <1>3
<1>5. QED
  BY <1>4 DEF SavedInOrder, InOrder

\* persist after a step that left the log alone and did not lower the term.
LEMMA SavesSameLog ==
    ASSUME IInv, SavedInOrder, NEW i \in Server, persist(i),
           logEntries' = logEntries, term'[i] \in Nat, term'[i] >= term[i]
    PROVE  SavedInOrder'
<1>1. /\ logEntries[i] \in Log /\ term[i] \in Nat
      /\ InOrder(logEntries[i], term[i])
  BY MemoryInOrder
<1>2. InOrder(logEntries'[i], term'[i])
  BY <1>1, LaterTerm
<1>3. QED
  BY <1>2, SavesInOrder

\* The AppendEntries handler keeps the saved logs in order.
LEMMA HandlerSaves ==
    ASSUME IInv, LogInv, NEW m \in appendRequests, AppendEntries(m)
    PROVE  SavedInOrder'
<1> DEFINE i == m.to
<1>types. m \in AppendRequest
  BY CallFields DEF IInv, TypeOK
<1>m. /\ i \in Server /\ m.term \in Nat /\ m.prevLogIndex \in Nat
      /\ m.entries \in Seq(Entry)
  BY <1>types, AppendRequestFields
<1>saved. SavedInOrder /\ SentInOrder
  BY DEF LogInv
<1>mem. /\ logEntries[i] \in Log /\ term[i] \in Nat
        /\ InOrder(logEntries[i], term[i])
  BY <1>m, <1>saved, MemoryInOrder
<1>fun. logEntries \in [Server -> Log] /\ term \in [Server -> Nat]
  BY DEF IInv, TypeOK, FieldsOK
<1>len. Len(logEntries[i]) \in Nat
  BY <1>mem, LogShape
<1> HIDE DEF i
<1>1. CASE AppendHigherTerm(m)
  <2>1. persist(i) /\ logEntries' = logEntries /\ term'[i] = m.term /\ m.term > term[i]
    BY <1>1, <1>m, <1>fun DEF AppendHigherTerm, Answer, i
  <2>2. QED
    BY <1>m, <1>mem, <1>saved, <2>1, SavesSameLog
<1>2. CASE AppendLowerTerm(m) \/ AppendPrevMissing(m)
  <2>1. persist(i) /\ logEntries' = logEntries /\ term' = term
    BY <1>2 DEF AppendLowerTerm, AppendPrevMissing, SameTerm, Answer, i
  <2>2. QED
    BY <1>m, <1>mem, <1>saved, <2>1, SavesSameLog
<1>3. CASE AppendPrevMismatch(m)
  <2>1. /\ persist(i) /\ term' = term
        /\ logEntries'[i] = Keep(logEntries[i], m.prevLogIndex)
    BY <1>3, <1>m, <1>fun DEF AppendPrevMismatch, SameTerm, Answer, i
  <2>2. m.prevLogIndex \in 0 .. Len(logEntries[i])
    BY <1>3, <1>m, <1>len DEF AppendPrevMismatch, PrevMismatch, i
  <2>3. InOrder(logEntries'[i], term'[i])
    BY <1>mem, <2>1, <2>2, CutInOrder
  <2>4. QED
    BY <1>m, <1>saved, <2>1, <2>3, SavesInOrder
<1>4. CASE AppendConflict(m)
  <2> DEFINE C == Conflicts(m, logEntries[i])
             at == m.entries[Min(C)].index
  <2>1. /\ persist(i) /\ term' = term
        /\ logEntries'[i] = Keep(logEntries[i], at)
    BY <1>4, <1>m, <1>fun DEF AppendConflict, SameTerm, Answer, i
  <2>2. C # {} /\ \A k \in C : /\ k \in 1 .. Len(m.entries)
                              /\ m.entries[k].index < Len(logEntries[i])
    <3>1. DOMAIN m.entries = 1 .. Len(m.entries)
      BY <1>m
    <3>2. QED
      BY <1>4, <3>1 DEF AppendConflict, Conflicts, i
  <2> HIDE DEF C
  <2>3. at \in Nat /\ at < Len(logEntries[i])
    <3>1. C \subseteq Nat
      BY <2>2
    <3>2. Min(C) \in C
      BY <2>2, <3>1, MinExists
    <3>3. m.entries[Min(C)] \in Entry
      BY <1>m, <2>2, <3>2
    <3>4. QED
      BY <2>2, <3>2, <3>3, EntryFields
  <2> HIDE DEF at
  <2>4. at \in 0 .. Len(logEntries[i])
    BY <1>len, <2>3
  <2>5. InOrder(logEntries'[i], term'[i])
    BY <1>mem, <2>1, <2>4, CutInOrder
  <2>6. QED
    BY <1>m, <1>saved, <2>1, <2>5, SavesInOrder
<1>5. CASE AppendAccepted(m)
  <2>1. /\ persist(i) /\ term' = term /\ m.term = term[i]
        /\ logEntries' = [logEntries EXCEPT ![i] = logEntries[i] \o m.entries]
    BY <1>5 DEF AppendAccepted, SameTerm, Answer, i
  <2>2. logEntries'[i] = logEntries[i] \o m.entries
    BY <2>1, <1>m, <1>fun
  <2>3. m.prevLogIndex < Len(logEntries[i])
    BY <1>5, <1>m, <1>len DEF AppendAccepted, PrevMissing, i
  <2>4. \A k \in 1 .. Len(m.entries) :
           m.entries[k].term <= term[i] /\ m.entries[k].index <= m.prevLogIndex + k
    BY <1>saved, <2>1 DEF SentInOrder
  <2>5. InOrder(logEntries[i] \o m.entries, term[i])
    BY <1>m, <1>mem, <2>3, <2>4, ExtendInOrder
  <2>6. InOrder(logEntries'[i], term'[i])
    BY <2>1, <2>2, <2>5
  <2>7. QED
    BY <1>m, <1>saved, <2>1, <2>6, SavesInOrder
<1>6. QED
  BY <1>1, <1>2, <1>3, <1>4, <1>5 DEF AppendEntries

\* Every step keeps the saved logs in order.
LEMMA SavedStep ==
    ASSUME IInv, LogInv, [Next]_vars
    PROVE  SavedInOrder'
<1>inv. FieldsOK /\ SavedInOrder
  BY DEF IInv, TypeOK, LogInv
<1>term. \A i \in Server : term[i] \in Nat /\ term[i] >= term[i]
  BY <1>inv DEF FieldsOK
<1>vote. \A m \in voteRequests : m.to \in Server /\ m.term \in Nat
  BY CallFields, VoteRequestFields DEF IInv, TypeOK
<1>answer. \A r \in appendReplies : r.req.from \in Server /\ r.term \in Nat
  BY CallFields, AppendRequestFields DEF IInv, TypeOK
<1>same. disk' = disk => SavedInOrder'
  BY <1>inv DEF SavedInOrder, InOrder
<1>save. ASSUME NEW i \in Server, persist(i), logEntries' = logEntries, term' = term
         PROVE  SavedInOrder'
  BY <1>save, <1>inv, <1>term, SavesSameLog
<1>1. ASSUME NEW i \in Server, Election(i) PROVE SavedInOrder'
  <2>1. CASE LeaderTimerFires(i) \/ ElectionLost(i)
    BY <2>1, <1>save DEF LeaderTimerFires, ElectionLost
  <2>2. CASE ElectionWon(i)
    BY <2>2, <1>save DEF ElectionWon
  <2>3. CASE startElection(i) \/ AfterLost(i) \/ AfterWon(i)
    BY <2>3, <1>same DEF startElection, AfterLost, AfterWon
  <2>4. QED
    BY <1>1, <2>1, <2>2, <2>3 DEF Election
<1>2. ASSUME NEW i \in Server, Heartbeat(i) PROVE SavedInOrder'
  <2>1. CASE TickerFires(i) \/ \E g \in Routine : SendHeartbeat(i, g)
    BY <2>1, <1>same DEF TickerFires, SendHeartbeat
  <2>2. CASE HeartbeatNoReply(i) \/ \E g \in Routine : HeartbeatSelf(i, g)
    BY <2>2, <1>save DEF HeartbeatNoReply, HeartbeatSelf, Return
  <2>3. QED
    BY <1>2, <2>1, <2>2 DEF Heartbeat
<1>3. ASSUME NEW i \in Server, Apply(i) \/ Crash(i) PROVE SavedInOrder'
  BY <1>3, <1>same DEF Apply, Crash
<1>4. CASE VoteNet
  <2>1. ASSUME NEW m \in voteRequests, RequestVote(m) PROVE SavedInOrder'
    <3>1. /\ persist(m.to) /\ logEntries' = logEntries
          /\ term' = [term EXCEPT ![m.to] = IF m.term > term[m.to] THEN m.term ELSE @]
      BY <2>1 DEF RequestVote
    <3>2. term'[m.to] \in Nat /\ term'[m.to] >= term[m.to]
      BY <3>1, <1>inv, <1>vote DEF FieldsOK
    <3>3. QED
      BY <1>inv, <1>vote, <3>1, <3>2, SavesSameLog
  <2>2. ASSUME NEW m \in voteRequests, LoseVoteRequest(m) \/ VoteTimeout(m)
        PROVE  SavedInOrder'
    BY <2>2, <1>same DEF LoseVoteRequest, VoteTimeout
  <2>3. ASSUME NEW r \in voteReplies, VoteReply(r) \/ LoseVoteReply(r)
        PROVE  SavedInOrder'
    BY <2>3, <1>same DEF VoteReply, LoseVoteReply
  <2>4. QED
    BY <1>4, <2>1, <2>2, <2>3 DEF VoteNet
<1>5. CASE AppendNet
  <2>1. ASSUME NEW m \in appendRequests, LoseAppendRequest(m) \/ AppendTimeout(m)
        PROVE  SavedInOrder'
    BY <2>1, <1>same DEF LoseAppendRequest, AppendTimeout
  <2>2. ASSUME NEW r \in appendReplies, HeartbeatStepDown(r) PROVE SavedInOrder'
    <3>1. /\ persist(r.req.from) /\ logEntries' = logEntries
          /\ term' = [term EXCEPT ![r.req.from] = r.term]
          /\ r.term > term[r.req.from]
      BY <2>2 DEF HeartbeatStepDown, Return
    <3>2. term'[r.req.from] \in Nat /\ term'[r.req.from] >= term[r.req.from]
      BY <3>1, <1>inv, <1>answer DEF FieldsOK
    <3>3. QED
      BY <1>inv, <1>answer, <3>1, <3>2, SavesSameLog
  <2>3. ASSUME NEW r \in appendReplies, HeartbeatReply(r) \/ HeartbeatTornReply(r)
        PROVE  SavedInOrder'
    <3>1. persist(r.req.from) /\ logEntries' = logEntries /\ term' = term
      BY <2>3 DEF HeartbeatReply, HeartbeatTornReply, Return
    <3>2. QED
      BY <3>1, <1>answer, <1>save
  <2>4. ASSUME NEW r \in appendReplies, LoseAppendReply(r) PROVE SavedInOrder'
    BY <2>4, <1>same DEF LoseAppendReply
  <2>5. QED
    BY <1>5, <2>1, <2>2, <2>3, <2>4, HandlerSaves DEF AppendNet
<1>6. CASE Client
  <2>1. ASSUME NEW i \in Server, NEW c \in Command, StartCheck(i, c)
        PROVE  SavedInOrder'
    BY <2>1, <1>same DEF StartCheck
  <2>2. ASSUME NEW s \in starts, StartAppend(s) PROVE SavedInOrder'
    <3> DEFINE i == s.server
               log == Append(logEntries[i],
                             [term |-> term[i], index |-> lastLogIndex(logEntries[i]) + 1,
                              command |-> s.command])
    <3>1. /\ persist(i) /\ term' = term
          /\ logEntries' = [logEntries EXCEPT ![i] = log]
      BY <2>2 DEF StartAppend
    <3>2. i \in Server
      BY DEF IInv, TypeOK, ClientOK
    <3>3. InOrder(log, term[i])
      BY <1>inv, <3>2, MemoryInOrder, StartInOrder
    <3> HIDE DEF log, i
    <3>4. logEntries'[i] = log
      BY <1>inv, <3>1, <3>2 DEF FieldsOK
    <3>5. InOrder(logEntries'[i], term'[i])
      BY <3>1, <3>3, <3>4
    <3>6. QED
      BY <1>inv, <3>1, <3>2, <3>5, SavesInOrder
  <2>3. QED
    BY <1>6, <2>1, <2>2 DEF Client
<1>7. CASE UNCHANGED vars
  BY <1>7, <1>same DEF vars
<1>8. QED
  BY <1>1, <1>2, <1>3, <1>4, <1>5, <1>6, <1>7 DEF Next
---------------------------------------------------------------------------
(* Entries on their way.                                                   *)

\* No new request: some may be gone, and some late.
OnlyOldRequests ==
    \A m \in appendRequests' :
        \/ m \in appendRequests
        \/ lates < MaxLate /\ \E n \in appendRequests : m = Outlive(n)

\* Only SendHeartbeat makes AppendEntries requests.
LEMMA RequestsShrink ==
    ASSUME [Next]_vars
    PROVE  OnlyOldRequests \/ \E i \in Server, g \in Routine : SendHeartbeat(i, g)
<1>sub. appendRequests' \subseteq appendRequests => OnlyOldRequests
  BY DEF OnlyOldRequests
<1>1. ASSUME NEW i \in Server, Election(i) \/ Apply(i) PROVE OnlyOldRequests
  BY <1>1, <1>sub DEF Election, LeaderTimerFires, startElection, ElectionWon,
     ElectionLost, AfterLost, AfterWon, Apply
<1>2. ASSUME NEW i \in Server,
             \/ TickerFires(i) \/ HeartbeatNoReply(i)
             \/ \E g \in Routine : HeartbeatSelf(i, g)
      PROVE  OnlyOldRequests
  BY <1>2, <1>sub DEF TickerFires, HeartbeatNoReply, HeartbeatSelf, Return
<1>3. ASSUME NEW i \in Server, Crash(i) PROVE OnlyOldRequests
  BY <1>3 DEF Crash, AfterCrash, Outlive, OnlyOldRequests
<1>4. CASE VoteNet
  BY <1>4, <1>sub DEF VoteNet, RequestVote, LoseVoteRequest, VoteTimeout, VoteReply,
     LoseVoteReply
<1>5. CASE AppendNet
  <2>1. ASSUME NEW m \in appendRequests, AppendEntries(m) PROVE OnlyOldRequests
    <3>1. appendRequests' = appendRequests \ {m}
      BY <2>1 DEF AppendEntries, AppendHigherTerm, AppendLowerTerm,
         AppendPrevMismatch, AppendConflict, AppendPrevMissing, AppendAccepted,
         Answer
    <3>2. QED
      BY <1>sub, <3>1
  <2>2. ASSUME NEW m \in appendRequests, LoseAppendRequest(m) PROVE OnlyOldRequests
    BY <2>2, <1>sub DEF LoseAppendRequest
  <2>3. ASSUME NEW m \in appendRequests, AppendTimeout(m) PROVE OnlyOldRequests
    BY <2>3 DEF AppendTimeout, OnlyOldRequests
  <2>4. ASSUME NEW r \in appendReplies,
               \/ HeartbeatStepDown(r) \/ HeartbeatReply(r)
               \/ HeartbeatTornReply(r) \/ LoseAppendReply(r)
        PROVE  OnlyOldRequests
    BY <2>4, <1>sub DEF HeartbeatStepDown, HeartbeatReply, HeartbeatTornReply,
       LoseAppendReply, Return
  <2>5. QED
    BY <1>5, <2>1, <2>2, <2>3, <2>4 DEF AppendNet
<1>6. CASE Client
  BY <1>6, <1>sub DEF Client, StartCheck, StartAppend
<1>7. CASE UNCHANGED vars
  BY <1>7, <1>sub DEF vars
<1>8. QED
  BY <1>1, <1>2, <1>3, <1>4, <1>5, <1>6, <1>7 DEF Next, Heartbeat

\* A loop over rf.peers that has a peer to send to finds nextIndex set.
LEMMA LoopHasNext ==
    ASSUME IInv, NEW i \in Server, NEW g \in Routine, NEW j \in Server,
           nextPeer[i][g] = j
    PROVE  nextIndex[i][j] \in Nat /\ nextIndex[i][j] >= 1
<1>1. nextPeer[i][g] # N
  BY NAssumption DEF Server
<1>2. nextIndex[i][j] >= 1
  BY <1>1 DEF IInv, NextInv
<1>3. QED
  BY <1>2 DEF IInv, TypeOK, FieldsOK

\* Every step keeps the entries that are on their way in order.
LEMMA SentStep ==
    ASSUME IInv, LogInv, [Next]_vars
    PROVE  SentInOrder'
<1> DEFINE Ordered(m) ==
              \A k \in 1 .. Len(m.entries) :
                  m.entries[k].term <= m.term /\ m.entries[k].index <= m.prevLogIndex + k
<1>inv. SavedInOrder /\ \A m \in appendRequests : m \in AppendRequest /\ Ordered(m)
  BY CallFields DEF IInv, TypeOK, LogInv, SentInOrder
<1>1. ASSUME NEW i \in Server, NEW g \in Routine, SendHeartbeat(i, g)
      PROVE  SentInOrder'
  <2> DEFINE j == nextPeer[i][g]
             out == getAppendLogs(logEntries[i], nextIndex[i][j])
             m == [from |-> i, to |-> j, term |-> term[i],
                   prevLogIndex |-> out.prevIndex, prevLogTerm |-> out.prevTerm,
                   entries |-> out.entries, leaderCommit |-> commitIndex[i],
                   late |-> 0]
  <2>1. j \in Server /\ appendRequests' = appendRequests \cup {m}
    BY <1>1 DEF SendHeartbeat
  <2>2. nextIndex[i][j] \in Nat /\ nextIndex[i][j] >= 1
    BY <2>1, LoopHasNext
  <2>3. \A k \in 1 .. Len(out.entries) :
           out.entries[k].term <= term[i] /\ out.entries[k].index <= out.prevIndex + k
    BY <1>inv, <2>2, MemoryInOrder, SentTail
  <2> HIDE DEF out
  <2>4. m.term = term[i] /\ m.entries = out.entries /\ m.prevLogIndex = out.prevIndex
    OBVIOUS
  <2> HIDE DEF m
  <2>5. Ordered(m)
    BY <2>3, <2>4
  <2> HIDE DEF Ordered
  <2>6. \A n \in appendRequests' : Ordered(n)
    BY <1>inv, <2>1, <2>5
  <2>7. QED
    BY <2>6 DEF SentInOrder, Ordered
<1>2. CASE OnlyOldRequests
  <2>1. ASSUME NEW n \in appendRequests PROVE Ordered(Outlive(n))
    <3>1. n \in AppendRequest /\ Ordered(n)
      BY <1>inv
    <3>2. /\ Outlive(n).term = n.term /\ Outlive(n).entries = n.entries
          /\ Outlive(n).prevLogIndex = n.prevLogIndex
      BY <3>1 DEF AppendRequest, Outlive
    <3>3. QED
      BY <3>1, <3>2
  <2> HIDE DEF Ordered
  <2>2. \A m \in appendRequests' : Ordered(m)
    BY <1>2, <1>inv, <2>1 DEF OnlyOldRequests
  <2>3. QED
    BY <2>2 DEF SentInOrder, Ordered
<1>3. QED
  BY <1>1, <1>2, RequestsShrink
---------------------------------------------------------------------------
(* What the order of the logs gives.                                       *)

\* All logs are empty when the servers are made.
LEMMA LogsInit == Init => LogInv
<1>1. /\ Len(<<Placeholder>>) = 1 /\ <<Placeholder>>[1] = Placeholder
      /\ Placeholder.term = 0 /\ Placeholder.index = 0
  BY DEF Placeholder
<1>2. InOrder(<<Placeholder>>, 0)
  BY <1>1 DEF InOrder
<1>3. Blank.log = <<Placeholder>> /\ Blank.term = 0
  BY DEF Blank
<1>4. Init => \A i \in Server : disk[i] = Blank
  BY DEF Init
<1>5. Init => SavedInOrder
  BY <1>2, <1>3, <1>4 DEF SavedInOrder
<1>6. QED
  BY <1>5 DEF Init, LogInv, SentInOrder

\* No saved entry is from a later term than the saved one.
LEMMA OrderSaved ==
    ASSUME IInv, LogInv
    PROVE  EntryTermSaved
<1>1. ASSUME NEW i \in Server PROVE DOMAIN disk[i].log = 1 .. Len(disk[i].log)
  BY LogShape DEF IInv, TypeOK, DiskOK
<1>2. QED
  BY <1>1 DEF LogInv, SavedInOrder, InOrder, EntryTermSaved

\* getAppendLogs slices within the log, because no Index is beyond its slot.
LEMMA OrderSends ==
    ASSUME IInv, LogInv
    PROVE  SendInRange
<1>1. ASSUME NEW i \in Server
      PROVE  /\ lastLogIndex(logEntries[i]) < Len(logEntries[i])
             /\ lastLogIndex(logEntries[i]) \in Nat /\ Len(logEntries[i]) \in Nat
  <2>1. logEntries[i] \in Log /\ InOrder(logEntries[i], term[i])
    BY MemoryInOrder DEF LogInv
  <2>2. QED
    BY <2>1, LogShape, LastEntry DEF InOrder, lastLogIndex
<1>2. QED
  BY <1>1, LoopHasNext DEF SendInRange
---------------------------------------------------------------------------
(* How logs change.                                                        *)

\* The AppendEntries handler cuts the log of its receiver or appends to it;
\* slot 0 is never cut.
HandlerLog(m) ==
    LET log == logEntries[m.to]
    IN  \/ \E k \in 1 .. Len(log) : logEntries' = [logEntries EXCEPT ![m.to] = Keep(log, k)]
        \/ logEntries' = [logEntries EXCEPT ![m.to] = log \o m.entries]

\* What AppendEntries does to the logs, whichever way it returns.
LEMMA HandlerLogs ==
    ASSUME IInv, NEW m \in appendRequests, AppendEntries(m)
    PROVE  logEntries' = logEntries \/ HandlerLog(m)
<1> DEFINE i == m.to
           log == logEntries[i]
<1>types. m \in AppendRequest
  BY CallFields DEF IInv, TypeOK
<1>m. i \in Server /\ m.prevLogIndex \in Nat /\ m.entries \in Seq(Entry)
  BY <1>types, AppendRequestFields
<1>log. log \in Log
  BY <1>m DEF IInv, TypeOK, FieldsOK
<1>len. Len(log) \in Nat
  BY <1>log, LogShape
<1>1. CASE AppendHigherTerm(m) \/ AppendLowerTerm(m) \/ AppendPrevMissing(m)
  BY <1>1 DEF AppendHigherTerm, AppendLowerTerm, AppendPrevMissing
<1>2. CASE AppendPrevMismatch(m)
  <2>1. logEntries' = [logEntries EXCEPT ![i] = Keep(log, m.prevLogIndex)]
    BY <1>2 DEF AppendPrevMismatch
  <2>2. m.prevLogIndex \in 1 .. Len(log)
    BY <1>2, <1>m, <1>len DEF AppendPrevMismatch, PrevMismatch
  <2>3. QED
    BY <2>1, <2>2 DEF HandlerLog
<1>3. CASE AppendConflict(m)
  <2> DEFINE C == Conflicts(m, log)
             at == m.entries[Min(C)].index
  <2>1. C # {} /\ logEntries' = [logEntries EXCEPT ![i] = Keep(log, at)]
    BY <1>3 DEF AppendConflict
  <2>2. \A k \in C : /\ k \in 1 .. Len(m.entries)
                     /\ m.entries[k].index < Len(log)
                     /\ Slot(log, m.entries[k].index).term # m.entries[k].term
    <3>1. DOMAIN m.entries = 1 .. Len(m.entries)
      BY <1>m
    <3>2. QED
      BY <3>1 DEF Conflicts
  <2> HIDE DEF C
  <2>3. Min(C) \in C
    <3>1. C \subseteq Nat
      BY <2>2
    <3>2. QED
      BY <2>1, <3>1, MinExists
  <2> DEFINE e == m.entries[Min(C)]
  <2>4. e \in Entry
    BY <1>m, <2>2, <2>3
  <2>5. e.index \in Nat /\ e.index < Len(log) /\ Slot(log, e.index).term # e.term
    BY <2>2, <2>3, <2>4, EntryFields
  <2> HIDE DEF e
  <2>6. e.index # 0
    <3>1. log[1].term = 0
      BY <1>log DEF Log
    <3>2. e.index = 0 => e.term = 0 /\ Slot(log, e.index) = log[1]
      BY <2>4 DEF Entry, Slot
    <3>3. QED
      BY <2>5, <3>1, <3>2
  <2>7. at = e.index
    BY DEF e
  <2> HIDE DEF at
  <2>8. at \in 1 .. Len(log)
    BY <1>len, <2>5, <2>6, <2>7
  <2>9. QED
    BY <2>1, <2>8 DEF HandlerLog
<1>4. CASE AppendAccepted(m)
  BY <1>4 DEF AppendAccepted, HandlerLog
<1>5. QED
  BY <1>1, <1>2, <1>3, <1>4 DEF AppendEntries

\* Only AppendEntries and Start change a log: a restart restores the log that
\* was in memory.
LEMMA LogKinds ==
    ASSUME IInv, [Next]_vars
    PROVE  \/ logEntries' = logEntries
           \/ \E m \in appendRequests : AppendEntries(m) /\ HandlerLog(m)
           \/ \E s \in starts : StartAppend(s)
<1>1. ASSUME NEW i \in Server, Election(i) \/ Apply(i) PROVE logEntries' = logEntries
  BY <1>1 DEF Election, LeaderTimerFires, startElection, ElectionWon,
     ElectionLost, AfterLost, AfterWon, Apply
<1>2. ASSUME NEW i \in Server, Heartbeat(i) PROVE logEntries' = logEntries
  BY <1>2 DEF Heartbeat, TickerFires, HeartbeatNoReply, HeartbeatSelf, SendHeartbeat,
     Return
<1>3. ASSUME NEW i \in Server, Crash(i) PROVE logEntries' = logEntries
  <2>1. disk[i].log = logEntries[i]
    BY DEF IInv, LockInv
  <2>2. logEntries \in [Server -> Log]
    BY DEF IInv, TypeOK, FieldsOK
  <2>3. logEntries' = [logEntries EXCEPT ![i] = disk[i].log]
    BY <1>3 DEF Crash
  <2>4. QED
    BY <2>1, <2>2, <2>3
<1>4. CASE VoteNet
  BY <1>4 DEF VoteNet, RequestVote, LoseVoteRequest, VoteTimeout, VoteReply,
     LoseVoteReply
<1>5. CASE AppendNet
  <2>1. ASSUME NEW m \in appendRequests, LoseAppendRequest(m) \/ AppendTimeout(m)
        PROVE  logEntries' = logEntries
    BY <2>1 DEF LoseAppendRequest, AppendTimeout
  <2>2. ASSUME NEW r \in appendReplies,
               \/ HeartbeatStepDown(r) \/ HeartbeatReply(r)
               \/ HeartbeatTornReply(r) \/ LoseAppendReply(r)
        PROVE  logEntries' = logEntries
    BY <2>2 DEF HeartbeatStepDown, HeartbeatReply, HeartbeatTornReply,
       LoseAppendReply, Return
  <2>3. QED
    BY <1>5, <2>1, <2>2, HandlerLogs DEF AppendNet
<1>6. CASE Client
  BY <1>6 DEF Client, StartCheck
<1>7. CASE UNCHANGED vars
  BY <1>7 DEF vars
<1>8. QED
  BY <1>1, <1>2, <1>3, <1>4, <1>5, <1>6, <1>7 DEF Next
---------------------------------------------------------------------------
(* Where commands come from.                                               *)

\* A client has passed c to Start.
Issued(c) == c \in Command \ unissued

\* Everything behind the placeholder of a log, everything on its way to a log
\* and everything applied comes from Start.
LogIssued(log) == \A k \in 2 .. Len(log) : Issued(log[k].command)
SentIssued(m) == \A k \in 1 .. Len(m.entries) : Issued(m.entries[k].command)
IssuedInv ==
    /\ \A i \in Server : LogIssued(logEntries[i])
    /\ \A m \in appendRequests : SentIssued(m)
    /\ \A s \in starts : Issued(s.command)
    /\ AppliedWasStarted

\* Only StartCheck takes a command from a client, and only Apply delivers one.
LEMMA ClientKinds ==
    ASSUME [Next]_vars
    PROVE  \/ unissued' = unissued /\ starts' \subseteq starts /\ delivered' = delivered
           \/ \E i \in Server, c \in Command : StartCheck(i, c)
           \/ \E i \in Server : Apply(i)
<1> DEFINE Quiet == unissued' = unissued /\ starts' \subseteq starts /\ delivered' = delivered
<1>1. ASSUME NEW i \in Server, Election(i) \/ Crash(i) PROVE Quiet
  BY <1>1 DEF Election, LeaderTimerFires, startElection, ElectionWon,
     ElectionLost, AfterLost, AfterWon, Crash
<1>2. ASSUME NEW i \in Server, Heartbeat(i) PROVE Quiet
  BY <1>2 DEF Heartbeat, TickerFires, HeartbeatNoReply, HeartbeatSelf, SendHeartbeat,
     Return
<1>3. CASE VoteNet
  BY <1>3 DEF VoteNet, RequestVote, LoseVoteRequest, VoteTimeout, VoteReply,
     LoseVoteReply
<1>4. CASE AppendNet
  <2>1. ASSUME NEW m \in appendRequests, AppendEntries(m) PROVE Quiet
    <3>1. PICK t, ok, next : Answer(m, t, ok, next)
      BY <2>1 DEF AppendEntries, AppendHigherTerm, AppendLowerTerm,
         AppendPrevMismatch, AppendConflict, AppendPrevMissing, AppendAccepted
    <3>2. QED
      BY <3>1 DEF Answer
  <2>2. ASSUME NEW m \in appendRequests, LoseAppendRequest(m) \/ AppendTimeout(m)
        PROVE  Quiet
    BY <2>2 DEF LoseAppendRequest, AppendTimeout
  <2>3. ASSUME NEW r \in appendReplies,
               \/ HeartbeatStepDown(r) \/ HeartbeatReply(r)
               \/ HeartbeatTornReply(r) \/ LoseAppendReply(r)
        PROVE  Quiet
    BY <2>3 DEF HeartbeatStepDown, HeartbeatReply, HeartbeatTornReply,
       LoseAppendReply, Return
  <2>4. QED
    BY <1>4, <2>1, <2>2, <2>3 DEF AppendNet
<1>5. ASSUME NEW s \in starts, StartAppend(s) PROVE Quiet
  BY <1>5 DEF StartAppend
<1>6. CASE UNCHANGED vars
  BY <1>6 DEF vars
<1>7. QED
  BY <1>1, <1>2, <1>3, <1>4, <1>5, <1>6 DEF Next, Client

\* A client takes no command back.
LEMMA IssuesGrow ==
    ASSUME [Next]_vars
    PROVE  unissued' \subseteq unissued
<1>1. ASSUME NEW i \in Server, NEW c \in Command, StartCheck(i, c)
      PROVE  unissued' \subseteq unissued
  BY <1>1 DEF StartCheck
<1>2. ASSUME NEW i \in Server, Apply(i) PROVE unissued' = unissued
  BY <1>2 DEF Apply
<1>3. QED
  BY <1>1, <1>2, ClientKinds

\* An entry of a log that AppendEntries extended was in it or is one of the
\* new ones.
LEMMA Joined ==
    ASSUME NEW log \in Seq(Entry), NEW entries \in Seq(Entry),
           NEW k \in 1 .. Len(log \o entries)
    PROVE  \/ k \in 1 .. Len(log) /\ (log \o entries)[k] = log[k]
           \/ /\ k - Len(log) \in 1 .. Len(entries)
              /\ (log \o entries)[k] = entries[k - Len(log)]
<1>1. /\ Len(log) \in Nat /\ Len(entries) \in Nat
      /\ Len(log \o entries) = Len(log) + Len(entries)
  OBVIOUS
<1>2. CASE k <= Len(log)
  BY <1>1, <1>2
<1>3. CASE k > Len(log)
  <2>1. k - Len(log) \in 1 .. Len(entries)
    BY <1>1, <1>3
  <2>2. (log \o entries)[k] = entries[k - Len(log)]
    BY <1>1, <1>3
  <2>3. QED
    BY <2>1, <2>2
<1>4. QED
  BY <1>1, <1>2, <1>3

\* Logs hold commands from Start: the handler appends what a request carries
\* or cuts, and Start appends the command it was given.
LEMMA LogsIssued ==
    ASSUME IInv, IssuedInv, [Next]_vars
    PROVE  \A i \in Server : \A k \in 2 .. Len(logEntries'[i]) :
              Issued(logEntries'[i][k].command)
<1>fun. logEntries \in [Server -> Log]
  BY DEF IInv, TypeOK, FieldsOK
<1>seq. \A i \in Server : logEntries[i] \in Seq(Entry) /\ Len(logEntries[i]) \in Nat
  BY <1>fun, LogShape
<1>old. \A i \in Server : \A k \in 2 .. Len(logEntries[i]) :
           Issued(logEntries[i][k].command)
  BY DEF IssuedInv, LogIssued
<1>1. CASE logEntries' = logEntries
  BY <1>1, <1>old
<1>2. ASSUME NEW m \in appendRequests, HandlerLog(m)
      PROVE  \A i \in Server : \A k \in 2 .. Len(logEntries'[i]) :
                Issued(logEntries'[i][k].command)
  <2>m. m.to \in Server /\ m.entries \in Seq(Entry)
    BY CallFields, AppendRequestFields DEF IInv, TypeOK
  <2>1. ASSUME NEW n \in 1 .. Len(logEntries[m.to]),
               logEntries' = [logEntries EXCEPT ![m.to] = Keep(logEntries[m.to], n)],
               NEW i \in Server, NEW k \in 2 .. Len(logEntries'[i])
        PROVE  Issued(logEntries'[i][k].command)
    <3>1. CASE i # m.to
      <4>1. logEntries'[i] = logEntries[i]
        BY <3>1, <2>1, <1>fun
      <4>2. QED
        BY <4>1, <1>old
    <3>2. CASE i = m.to
      <4>1. logEntries'[i] = SubSeq(logEntries[i], 1, n)
        BY <3>2, <2>1, <1>fun DEF Keep
      <4>2. k \in 2 .. Len(logEntries[i]) /\ logEntries'[i][k] = logEntries[i][k]
        BY <4>1, <3>2, <1>seq
      <4>3. QED
        BY <4>2, <1>old
    <3>3. QED
      BY <3>1, <3>2
  <2>2. ASSUME logEntries' = [logEntries EXCEPT ![m.to] = logEntries[m.to] \o m.entries],
               NEW i \in Server, NEW k \in 2 .. Len(logEntries'[i])
        PROVE  Issued(logEntries'[i][k].command)
    <3>1. CASE i # m.to
      <4>1. logEntries'[i] = logEntries[i]
        BY <3>1, <2>2, <1>fun
      <4>2. QED
        BY <4>1, <1>old
    <3>2. CASE i = m.to
      <4>1. logEntries'[i] = logEntries[i] \o m.entries
        BY <3>2, <2>2, <1>fun
      <4>2. \/ k \in 2 .. Len(logEntries[i]) /\ logEntries'[i][k] = logEntries[i][k]
            \/ /\ k - Len(logEntries[i]) \in 1 .. Len(m.entries)
               /\ logEntries'[i][k] = m.entries[k - Len(logEntries[i])]
        <5>1. PICK log \in Seq(Entry) : log = logEntries[i]
          BY <1>seq
        <5>2. PICK entries \in Seq(Entry) : entries = m.entries
          BY <2>m
        <5>3. k \in 1 .. Len(log \o entries) /\ k >= 2
          <6>1. k \in 2 .. Len(log \o entries)
            BY <4>1, <5>1, <5>2
          <6>2. Len(log \o entries) \in Nat
            OBVIOUS
          <6>3. QED
            BY <6>1, <6>2
        <5>4. \/ k \in 1 .. Len(log) /\ (log \o entries)[k] = log[k]
              \/ /\ k - Len(log) \in 1 .. Len(entries)
                 /\ (log \o entries)[k] = entries[k - Len(log)]
          BY <5>3, Joined
        <5>5. k \in 1 .. Len(log) => k \in 2 .. Len(log)
          BY <5>3
        <5>6. QED
          BY <4>1, <5>1, <5>2, <5>4, <5>5
      <4>3. \A n \in 1 .. Len(m.entries) : Issued(m.entries[n].command)
        BY DEF IssuedInv, SentIssued
      <4>4. QED
        BY <4>2, <4>3, <1>old
    <3>3. QED
      BY <3>1, <3>2
  <2>3. QED
    BY <1>2, <2>1, <2>2 DEF HandlerLog
<1>3. ASSUME NEW s \in starts, StartAppend(s),
             NEW i \in Server, NEW k \in 2 .. Len(logEntries'[i])
      PROVE  Issued(logEntries'[i][k].command)
  <2>1. s.server \in Server /\ Issued(s.command)
    BY DEF IInv, TypeOK, ClientOK, IssuedInv
  <2>2. PICK e : /\ e.command = s.command
                 /\ logEntries' = [logEntries EXCEPT
                       ![s.server] = Append(logEntries[s.server], e)]
    BY <1>3 DEF StartAppend
  <2>3. CASE i # s.server
    <3>1. logEntries'[i] = logEntries[i]
      BY <2>3, <2>2, <1>fun
    <3>2. QED
      BY <3>1, <1>old
  <2>4. CASE i = s.server
    <3>1. logEntries'[i] = Append(logEntries[i], e)
      BY <2>4, <2>2, <1>fun
    <3>2. \/ k \in 2 .. Len(logEntries[i]) /\ logEntries'[i][k] = logEntries[i][k]
          \/ logEntries'[i][k] = e
      BY <3>1, <1>seq
    <3>3. QED
      BY <3>2, <2>1, <2>2, <1>old
  <2>5. QED
    BY <2>3, <2>4
<1>4. QED
  BY <1>1, <1>2, <1>3, LogKinds

\* What getAppendLogs sends comes from Start: it never sends slot 0.
LEMMA TailIssued ==
    ASSUME NEW log \in Log, LogIssued(log), NEW next \in Nat, next >= 1,
           NEW k \in 1 .. Len(getAppendLogs(log, next).entries)
    PROVE  Issued(getAppendLogs(log, next).entries[k].command)
<1> DEFINE tail == SubSeq(log, next + 1, Len(log))
<1>1. log \in Seq(Entry) /\ Len(log) \in Nat
  BY LogShape
<1>2. \/ getAppendLogs(log, next).entries = << >>
      \/ getAppendLogs(log, next).entries = tail
  BY DEF getAppendLogs
<1>3. getAppendLogs(log, next).entries = tail
  BY <1>2
<1>4. k + next \in 2 .. Len(log) /\ tail[k] = log[k + next]
  <2>1. k \in 1 .. Len(tail)
    BY <1>3
  <2>2. k \in Nat /\ k >= 1 /\ k + next <= Len(log) /\ tail[k] = log[k + next]
    BY <1>1, <2>1
  <2>3. QED
    BY <1>1, <2>2
<1>5. QED
  BY <1>3, <1>4 DEF LogIssued

\* Requests carry commands from Start.
LEMMA RequestsIssued ==
    ASSUME IInv, IssuedInv, [Next]_vars
    PROVE  \A m \in appendRequests' : SentIssued(m)
<1>inv. \A m \in appendRequests : m \in AppendRequest /\ SentIssued(m)
  BY CallFields DEF IInv, TypeOK, IssuedInv
<1>1. ASSUME NEW i \in Server, NEW g \in Routine, SendHeartbeat(i, g)
      PROVE  \A m \in appendRequests' : SentIssued(m)
  <2> DEFINE j == nextPeer[i][g]
             out == getAppendLogs(logEntries[i], nextIndex[i][j])
             m == [from |-> i, to |-> j, term |-> term[i],
                   prevLogIndex |-> out.prevIndex, prevLogTerm |-> out.prevTerm,
                   entries |-> out.entries, leaderCommit |-> commitIndex[i],
                   late |-> 0]
  <2>1. j \in Server /\ appendRequests' = appendRequests \cup {m}
    BY <1>1 DEF SendHeartbeat
  <2>2. nextIndex[i][j] \in Nat /\ nextIndex[i][j] >= 1
    BY <2>1, LoopHasNext
  <2>3. logEntries[i] \in Log /\ LogIssued(logEntries[i])
    BY DEF IInv, TypeOK, FieldsOK, IssuedInv
  <2>4. \A k \in 1 .. Len(out.entries) : Issued(out.entries[k].command)
    BY <2>2, <2>3, TailIssued
  <2> HIDE DEF out
  <2>5. SentIssued(m)
    BY <2>4 DEF SentIssued
  <2> HIDE DEF m
  <2>6. QED
    BY <1>inv, <2>1, <2>5
<1>2. CASE OnlyOldRequests
  <2>1. ASSUME NEW n \in appendRequests PROVE SentIssued(Outlive(n))
    <3>1. n \in AppendRequest /\ SentIssued(n)
      BY <1>inv
    <3>2. Outlive(n).entries = n.entries
      BY <3>1 DEF AppendRequest, Outlive
    <3>3. QED
      BY <3>1, <3>2 DEF SentIssued
  <2>2. QED
    BY <1>2, <1>inv, <2>1 DEF OnlyOldRequests
<1>3. QED
  BY <1>1, <1>2, RequestsShrink

\* Calls of Start in flight: StartCheck adds one, and takes its command.
LEMMA StartsIssued ==
    ASSUME IInv, IssuedInv, [Next]_vars
    PROVE  \A s \in starts' : s.command \in Command \ unissued'
<1>inv. \A s \in starts : s.command \in Command \ unissued
  BY DEF IssuedInv, Issued
<1>1. ASSUME NEW i \in Server, NEW c \in Command, StartCheck(i, c)
      PROVE  \A s \in starts' : s.command \in Command \ unissued'
  BY <1>1, <1>inv DEF StartCheck
<1>2. CASE starts' \subseteq starts
  BY <1>2, <1>inv, IssuesGrow
<1>3. ASSUME NEW i \in Server, Apply(i) PROVE starts' \subseteq starts
  BY <1>3 DEF Apply
<1>4. QED
  BY <1>1, <1>2, <1>3, ClientKinds

\* The apply goroutine delivers slot 1 or a later one, which holds a command
\* from Start.
LEMMA DeliversIssued ==
    ASSUME IInv, IssuedInv, [Next]_vars
    PROVE  \A d \in delivered' : d.index >= 1 /\ d.command \in Command \ unissued'
<1>inv. \A d \in delivered : d.index >= 1 /\ d.command \in Command \ unissued
  BY DEF IssuedInv, AppliedWasStarted
<1>1. ASSUME NEW i \in Server, Apply(i)
      PROVE  \A d \in delivered' : d.index >= 1 /\ d.command \in Command \ unissued'
  <2> DEFINE k == lastApplied[i] + 2
  <2>1. /\ delivered' = delivered \cup {[index |-> lastApplied[i] + 1,
                                         command |-> logEntries[i][lastApplied[i] + 1 + 1].command]}
        /\ unissued' = unissued /\ lastApplied[i] + 1 < Len(logEntries[i])
    BY <1>1 DEF Apply, Slot
  <2>2. lastApplied[i] \in Nat /\ logEntries[i] \in Log
    BY DEF IInv, TypeOK, FieldsOK
  <2>3. Len(logEntries[i]) \in Nat
    BY <2>2, LogShape
  <2>4. k \in 2 .. Len(logEntries[i]) /\ k = lastApplied[i] + 1 + 1 /\ lastApplied[i] + 1 >= 1
    BY <2>1, <2>2, <2>3
  <2>5. logEntries[i][k].command \in Command \ unissued
    BY <2>4 DEF IssuedInv, LogIssued, Issued
  <2>6. QED
    BY <1>inv, <2>1, <2>4, <2>5
<1>2. CASE delivered' = delivered
  BY <1>2, <1>inv, IssuesGrow
<1>3. ASSUME NEW i \in Server, NEW c \in Command, StartCheck(i, c)
      PROVE  delivered' = delivered
  BY <1>3 DEF StartCheck
<1>4. QED
  BY <1>1, <1>2, <1>3, ClientKinds

\* Every step keeps to commands from Start.
LEMMA IssuedStep ==
    ASSUME IInv, IssuedInv, [Next]_vars
    PROVE  IssuedInv'
<1>1. \A c : Issued(c) => Issued(c)'
  BY IssuesGrow DEF Issued
<1>2. \A i \in Server : LogIssued(logEntries[i])'
  BY <1>1, LogsIssued DEF LogIssued, Issued
<1>3. \A m \in appendRequests' : SentIssued(m)'
  BY <1>1, RequestsIssued DEF SentIssued, Issued
<1>4. (\A s \in starts : Issued(s.command))'
  BY StartsIssued DEF Issued
<1>5. AppliedWasStarted'
  BY DeliversIssued DEF AppliedWasStarted
<1>6. QED
  BY <1>2, <1>3, <1>4, <1>5 DEF IssuedInv

\* When the servers are made the logs hold the placeholder only.
LEMMA IssuedInit == Init => IssuedInv
<1>1. Len(<<Placeholder>>) = 1
  OBVIOUS
<1>2. LogIssued(<<Placeholder>>)
  BY <1>1 DEF LogIssued
<1>3. Init => \A i \in Server : LogIssued(logEntries[i])
  BY <1>2 DEF Init
<1>4. QED
  BY <1>3 DEF Init, IssuedInv, AppliedWasStarted

---------------------------------------------------------------------------
(* One server that sends, whatever is late, lost or crashes.               *)

\* Nobody but l leads, sends or takes commands.
SoleSender(l) ==
    /\ \A i \in Server \ {l} :
          /\ role[i] # "Leader" /\ elector[i] = "select"
          /\ \A g \in Routine : nextPeer[i][g] = N
    /\ \A m \in appendRequests : m.from = l /\ m.to # l
    /\ \A r \in appendReplies : r.req.from = l /\ r.req.to # l
    /\ \A s \in starts : s.server = l

\* The request that SendHeartbeat of i makes for peer j.
RequestFor(i, j) ==
    LET out == getAppendLogs(logEntries[i], nextIndex[i][j])
    IN  [from |-> i, to |-> j, term |-> term[i],
         prevLogIndex |-> out.prevIndex, prevLogTerm |-> out.prevTerm,
         entries |-> out.entries, leaderCommit |-> commitIndex[i], late |-> 0]

\* SendHeartbeat adds one request, to the peer whose turn it is.
LEMMA SendsOne ==
    ASSUME NEW i \in Server, NEW g \in Routine, SendHeartbeat(i, g)
    PROVE  \E j \in Server \ {i} :
              /\ j = nextPeer[i][g] /\ mu[i] = "free"
              /\ appendRequests' = appendRequests \cup {RequestFor(i, j)}
              /\ RequestFor(i, j).from = i /\ RequestFor(i, j).to = j
              /\ RequestFor(i, j).late = 0
<1>1. nextPeer[i][g] \in Server \ {i} /\ mu[i] = "free"
  BY DEF SendHeartbeat
<1>2. appendRequests' = appendRequests \cup {RequestFor(i, nextPeer[i][g])}
  BY DEF SendHeartbeat, RequestFor
<1>3. \A j : /\ RequestFor(i, j).from = i /\ RequestFor(i, j).to = j
             /\ RequestFor(i, j).late = 0
  BY DEF RequestFor
<1>4. QED
  BY <1>1, <1>2, <1>3

\* Only l sends: no other server gets to campaign, so none gets to lead,
\* whatever is late, lost or crashes.
LEMMA SoleStep ==
    ASSUME NEW l \in Server, Campaigner \subseteq {l}, IInv, SoleSender(l), [Next]_vars
    PROVE  SoleSender(l)'
<1>inv. FieldsOK /\ RoutinesOK
  BY DEF IInv, TypeOK
<1>calls. /\ \A m \in voteRequests : m.to \in Server
          /\ \A r \in voteReplies : r.req.from \in Server
          /\ \A m \in appendRequests : m \in AppendRequest /\ m.to \in Server
          /\ \A r \in appendReplies : r.req.from \in Server
  BY CallServers
<1>N. N \notin Server
  BY NAssumption DEF Server
<1>req. \A m \in appendRequests' : m.from = l /\ m.to # l
  <2>1. ASSUME NEW i \in Server, NEW g \in Routine, SendHeartbeat(i, g)
        PROVE  \A m \in appendRequests' : m.from = l /\ m.to # l
    <3>1. i = l
      BY <2>1, <1>N DEF SendHeartbeat, SoleSender
    <3>2. PICK m : appendRequests' = appendRequests \cup {m} /\ m.from = l /\ m.to # l
      BY <2>1, <3>1, SendsOne
    <3>3. QED
      BY <3>2 DEF SoleSender
  <2>2. CASE OnlyOldRequests
    <3>1. ASSUME NEW n \in appendRequests
          PROVE  Outlive(n).from = l /\ Outlive(n).to # l
      <4>1. n \in AppendRequest /\ n.from = l /\ n.to # l
        BY <1>calls DEF SoleSender
      <4>2. Outlive(n).from = n.from /\ Outlive(n).to = n.to
        BY <4>1 DEF AppendRequest, Outlive
      <4>3. QED
        BY <4>1, <4>2
    <3>2. QED
      BY <2>2, <3>1 DEF OnlyOldRequests, SoleSender
  <2>3. QED
    BY <2>1, <2>2, RequestsShrink
<1>others. /\ \A j \in Server \ {l} : /\ role'[j] = role[j] /\ elector'[j] = elector[j]
                                        /\ nextPeer'[j] = nextPeer[j]
           /\ UNCHANGED <<appendReplies, starts>>
           => SoleSender(l)'
  BY <1>req DEF SoleSender
<1>back. ASSUME appendReplies' \subseteq appendReplies, UNCHANGED <<elector, starts>>,
                nextPeer' = [nextPeer EXCEPT ![l][mu[l]] = @ + 1],
                \A j \in Server \ {l} : role'[j] = role[j]
         PROVE  SoleSender(l)'
  <2>1. \A j \in Server \ {l} : nextPeer'[j] = nextPeer[j]
    BY <1>back, <1>inv DEF RoutinesOK
  <2>2. QED
    BY <1>back, <1>req, <2>1 DEF SoleSender
<1>1. ASSUME NEW i \in Server, Election(i) PROVE SoleSender(l)'
  <2>1. i = l
    BY <1>1 DEF Election, LeaderTimerFires, startElection, ElectionWon,
       ElectionLost, AfterLost, AfterWon, SoleSender
  <2>2. CASE LeaderTimerFires(i) \/ startElection(i)
    <3>1. /\ UNCHANGED <<nextPeer, appendRequests, appendReplies, starts>>
          /\ role' = role \/ role' = [role EXCEPT ![l] = "Candidate"]
          /\ \/ elector' = [elector EXCEPT ![l] = "failed"]
             \/ elector' = [elector EXCEPT ![l] = "campaign"]
      BY <2>1, <2>2 DEF LeaderTimerFires, startElection
    <3>2. \A j \in Server \ {l} : role'[j] = role[j]
      BY <3>1, <1>inv DEF FieldsOK
    <3>3. \A j \in Server \ {l} : elector'[j] = elector[j]
      BY <3>1, <1>inv DEF RoutinesOK
    <3>4. QED
      BY <3>1, <3>2, <3>3, <1>others
  <2>3. CASE ElectionWon(i) \/ ElectionLost(i)
    <3>1. /\ UNCHANGED <<nextPeer, appendRequests, appendReplies, starts>>
          /\ role' = role \/ role' = [role EXCEPT ![l] = "Leader"]
          /\ \/ elector' = [elector EXCEPT ![l] = "failed"]
             \/ elector' = [elector EXCEPT ![l] = "elected"]
      BY <2>1, <2>3 DEF ElectionWon, ElectionLost
    <3>2. \A j \in Server \ {l} : role'[j] = role[j]
      BY <3>1, <1>inv DEF FieldsOK
    <3>3. \A j \in Server \ {l} : elector'[j] = elector[j]
      BY <3>1, <1>inv DEF RoutinesOK
    <3>4. QED
      BY <3>1, <3>2, <3>3, <1>others
  <2>4. CASE AfterLost(i) \/ AfterWon(i)
    <3>1. /\ UNCHANGED <<appendRequests, appendReplies, starts>>
          /\ elector' = [elector EXCEPT ![l] = "select"]
          /\ role' = role \/ role' = [role EXCEPT ![l] = "Follower"]
          /\ nextPeer' = nextPeer \/ \E p : nextPeer' = [nextPeer EXCEPT ![l] = p]
      BY <2>1, <2>4 DEF AfterLost, AfterWon
    <3>2. \A j \in Server \ {l} : role'[j] = role[j]
      BY <3>1, <1>inv DEF FieldsOK
    <3>3. \A j \in Server \ {l} : elector'[j] = elector[j]
      BY <3>1, <1>inv DEF RoutinesOK
    <3>4. \A j \in Server \ {l} : nextPeer'[j] = nextPeer[j]
      BY <3>1, <1>inv DEF RoutinesOK
    <3>5. QED
      BY <3>1, <3>2, <3>3, <3>4, <1>others
  <2>5. QED
    BY <1>1, <2>2, <2>3, <2>4 DEF Election
<1>2. ASSUME NEW i \in Server, Heartbeat(i) PROVE SoleSender(l)'
  <2>1. CASE TickerFires(i)
    <3>1. /\ role[i] = "Leader" /\ nextPeer' = [nextPeer EXCEPT ![i]["ticker"] = 0]
          /\ UNCHANGED <<role, elector, starts, appendRequests, appendReplies>>
      BY <2>1 DEF TickerFires
    <3>2. i = l
      BY <3>1 DEF SoleSender
    <3>3. \A j \in Server \ {l} : nextPeer'[j] = nextPeer[j]
      BY <3>1, <3>2, <1>inv DEF RoutinesOK
    <3>4. QED
      BY <3>1, <3>3, <1>others
  <2>2. CASE HeartbeatNoReply(i)
    <3>1. i = l
      <4>1. mu[i] # "free" /\ elector[i] # "campaign"
        BY <2>2 DEF HeartbeatNoReply
      <4>2. mu[i] \in Routine /\ nextPeer[i][mu[i]] \in Server
        BY <4>1, <1>inv DEF IInv, LockInv, RoutinesOK
      <4>3. QED
        BY <4>2, <1>N DEF SoleSender
    <3>2. /\ UNCHANGED <<role, elector, starts, appendRequests, appendReplies>>
          /\ nextPeer' = [nextPeer EXCEPT ![l][mu[l]] = @ + 1]
      BY <2>2, <3>1 DEF HeartbeatNoReply, Return
    <3>3. QED
      BY <3>2, <1>back
  <2>3. ASSUME NEW g \in Routine, HeartbeatSelf(i, g) PROVE SoleSender(l)'
    <3>1. i = l
      BY <2>3, <1>N DEF HeartbeatSelf, SoleSender
    <3>2. QED
      BY <2>3, <3>1, <1>inv DEF HeartbeatSelf, SoleSender, RoutinesOK
  <2>4. ASSUME NEW g \in Routine, SendHeartbeat(i, g) PROVE SoleSender(l)'
    <3>1. i = l
      BY <2>4, <1>N DEF SendHeartbeat, SoleSender
    <3>2. UNCHANGED <<role, elector, nextPeer, appendReplies, starts>>
      BY <2>4 DEF SendHeartbeat
    <3>3. QED
      BY <3>2, <1>others
  <2>5. QED
    BY <1>2, <2>1, <2>2, <2>3, <2>4 DEF Heartbeat
<1>3. ASSUME NEW i \in Server, Apply(i) PROVE SoleSender(l)'
  BY <1>3 DEF Apply, SoleSender
<1>4. ASSUME NEW i \in Server, Crash(i) PROVE SoleSender(l)'
  <2>1. appendReplies' \subseteq appendReplies /\ starts' \subseteq starts
    BY <1>4 DEF Crash, Uninvolved
  <2>2. ASSUME NEW j \in Server \ {l}
        PROVE  /\ role'[j] # "Leader" /\ elector'[j] = "select"
               /\ \A g \in Routine : nextPeer'[j][g] = N
    <3>1. CASE j = i
      BY <3>1, <1>4, <1>inv DEF Crash, FieldsOK, RoutinesOK
    <3>2. CASE j # i
      <4>1. role'[j] = role[j] /\ elector'[j] = elector[j] /\ nextPeer'[j] = nextPeer[j]
        BY <3>2, <1>4, <1>inv DEF Crash, FieldsOK, RoutinesOK
      <4>2. QED
        BY <4>1 DEF SoleSender
    <3>3. QED
      BY <3>1, <3>2
  <2>3. QED
    BY <2>1, <2>2, <1>req DEF SoleSender
<1>5. CASE VoteNet
  <2>1. ASSUME NEW m \in voteRequests, RequestVote(m) PROVE SoleSender(l)'
    <3>1. UNCHANGED <<elector, nextPeer, appendReplies, starts>>
      BY <2>1 DEF RequestVote
    <3>2. role' = role \/ role' = [role EXCEPT ![m.to] = "Follower"]
      <4>1. PICK new : /\ role' = [role EXCEPT ![m.to] = new]
                       /\ new = "Follower" \/ new = role[m.to]
        BY <2>1 DEF RequestVote
      <4>2. QED
        BY <4>1, <1>inv DEF FieldsOK
    <3>3. \A j \in Server \ {l} : role'[j] # "Leader"
      BY <3>2, <1>inv, <1>calls DEF SoleSender, FieldsOK
    <3>4. QED
      BY <3>1, <3>3, <1>req DEF SoleSender
  <2>2. ASSUME NEW m \in voteRequests, LoseVoteRequest(m) \/ VoteTimeout(m)
        PROVE  SoleSender(l)'
    BY <2>2 DEF LoseVoteRequest, VoteTimeout, SoleSender
  <2>3. ASSUME NEW r \in voteReplies, VoteReply(r) PROVE SoleSender(l)'
    BY <2>3, <1>inv, <1>calls DEF VoteReply, SoleSender, FieldsOK
  <2>4. ASSUME NEW r \in voteReplies, LoseVoteReply(r) PROVE SoleSender(l)'
    BY <2>4 DEF LoseVoteReply, SoleSender
  <2>5. QED
    BY <1>5, <2>1, <2>2, <2>3, <2>4 DEF VoteNet
<1>6. ASSUME NEW m \in appendRequests, AppendEntries(m) PROVE SoleSender(l)'
  <2>1. /\ appendRequests' = appendRequests \ {m}
        /\ \A r \in appendReplies' : r \in appendReplies \/ r.req = m
        /\ UNCHANGED <<elector, nextPeer, starts>>
    <3>1. PICK t, ok, next : Answer(m, t, ok, next)
      BY <1>6 DEF AppendEntries, AppendHigherTerm, AppendLowerTerm,
         AppendPrevMismatch, AppendConflict, AppendPrevMissing, AppendAccepted
    <3> DEFINE answer == [req |-> m, term |-> t, success |-> ok, nextIndex |-> next]
    <3>2. /\ appendRequests' = appendRequests \ {m}
          /\ appendReplies' = appendReplies \/ appendReplies' = appendReplies \cup {answer}
          /\ UNCHANGED <<elector, nextPeer, starts>>
      BY <3>1 DEF Answer
    <3>3. answer.req = m
      OBVIOUS
    <3> HIDE DEF answer
    <3>4. QED
      BY <3>2, <3>3
  <2>2. role' = role \/ role' = [role EXCEPT ![m.to] = "Follower"]
    BY <1>6 DEF AppendEntries, AppendHigherTerm, AppendLowerTerm, AppendPrevMismatch,
       AppendConflict, AppendPrevMissing, AppendAccepted, SameTerm
  <2>3. \A i \in Server \ {l} : role'[i] # "Leader"
    BY <2>2, <1>inv, <1>calls DEF SoleSender, FieldsOK
  <2>4. QED
    BY <2>1, <2>3, <1>req DEF SoleSender
<1>7. CASE AppendNet
  <2>1. ASSUME NEW m \in appendRequests, LoseAppendRequest(m) PROVE SoleSender(l)'
    BY <2>1 DEF LoseAppendRequest, SoleSender
  <2>2. ASSUME NEW m \in appendRequests, AppendTimeout(m) PROVE SoleSender(l)'
    BY <2>2, <1>others DEF AppendTimeout
  <2>3. ASSUME NEW r \in appendReplies, HeartbeatStepDown(r) PROVE SoleSender(l)'
    <3>1. r.req.from = l
      BY DEF SoleSender
    <3>2. /\ appendReplies' \subseteq appendReplies /\ UNCHANGED <<elector, starts>>
          /\ role' = [role EXCEPT ![l] = "Follower"]
          /\ nextPeer' = [nextPeer EXCEPT ![l][mu[l]] = @ + 1]
      BY <2>3, <3>1 DEF HeartbeatStepDown, Return
    <3>3. QED
      BY <3>2, <1>inv, <1>back DEF FieldsOK
  <2>4. ASSUME NEW r \in appendReplies, HeartbeatReply(r) PROVE SoleSender(l)'
    <3>1. r.req.from = l
      BY DEF SoleSender
    <3>2. /\ appendReplies' \subseteq appendReplies /\ UNCHANGED <<role, elector, starts>>
          /\ nextPeer' = [nextPeer EXCEPT ![l][mu[l]] = @ + 1]
      BY <2>4, <3>1 DEF HeartbeatReply, Return
    <3>3. QED
      BY <3>2, <1>back
  <2>5. ASSUME NEW r \in appendReplies, HeartbeatTornReply(r) PROVE SoleSender(l)'
    <3>1. r.req.from = l
      BY DEF SoleSender
    <3>2. /\ appendReplies' \subseteq appendReplies /\ UNCHANGED <<role, elector, starts>>
          /\ nextPeer' = [nextPeer EXCEPT ![l][mu[l]] = @ + 1]
      BY <2>5, <3>1 DEF HeartbeatTornReply, Return
    <3>3. QED
      BY <3>2, <1>back
  <2>6. ASSUME NEW r \in appendReplies, LoseAppendReply(r) PROVE SoleSender(l)'
    <3>1. appendReplies' \subseteq appendReplies /\ UNCHANGED <<role, elector, nextPeer, starts>>
      BY <2>6 DEF LoseAppendReply
    <3>2. QED
      BY <3>1, <1>req DEF SoleSender
  <2>7. QED
    BY <1>7, <1>6, <2>1, <2>2, <2>3, <2>4, <2>5, <2>6 DEF AppendNet
<1>8. CASE Client
  <2>1. ASSUME NEW i \in Server, NEW c \in Command, StartCheck(i, c)
        PROVE  SoleSender(l)'
    <3> DEFINE start == [server |-> i, command |-> c, term |-> term[i]]
    <3>1. /\ role[i] = "Leader" /\ starts' = starts \cup {start}
          /\ UNCHANGED <<role, elector, nextPeer, appendReplies>>
      BY <2>1 DEF StartCheck
    <3>2. start.server = i
      OBVIOUS
    <3> HIDE DEF start
    <3>3. i = l
      BY <3>1 DEF SoleSender
    <3>4. QED
      BY <3>1, <3>2, <3>3, <1>req DEF SoleSender
  <2>2. ASSUME NEW s \in starts, StartAppend(s) PROVE SoleSender(l)'
    BY <2>2 DEF StartAppend, SoleSender
  <2>3. QED
    BY <1>8, <2>1, <2>2 DEF Client
<1>9. CASE UNCHANGED vars
  BY <1>9, <1>others DEF vars
<1>10. QED
  BY <1>1, <1>2, <1>3, <1>4, <1>5, <1>7, <1>8, <1>9 DEF Next

\* The log of l only grows: AppendEntries is called on the others, and Start
\* appends.
LEMMA LogGrows ==
    ASSUME NEW l \in Server, IInv, SoleSender(l), [Next]_vars
    PROVE  /\ Len(logEntries[l]) <= Len(logEntries'[l])
           /\ \A k \in DOMAIN logEntries[l] : logEntries'[l][k] = logEntries[l][k]
<1>fun. logEntries \in [Server -> Log]
  BY DEF IInv, TypeOK, FieldsOK
<1>seq. logEntries[l] \in Seq(Entry) /\ Len(logEntries[l]) \in Nat
  BY <1>fun, LogShape
<1>same. ASSUME logEntries'[l] = logEntries[l]
         PROVE  /\ Len(logEntries[l]) <= Len(logEntries'[l])
                /\ \A k \in DOMAIN logEntries[l] : logEntries'[l][k] = logEntries[l][k]
  BY <1>same, <1>seq
<1>1. CASE logEntries' = logEntries
  BY <1>1, <1>same
<1>2. ASSUME NEW m \in appendRequests, HandlerLog(m) PROVE logEntries'[l] = logEntries[l]
  <2>1. m.to # l
    BY DEF SoleSender
  <2>2. QED
    BY <1>2, <1>fun, <2>1 DEF HandlerLog
<1>3. ASSUME NEW s \in starts, StartAppend(s)
      PROVE  /\ Len(logEntries[l]) <= Len(logEntries'[l])
             /\ \A k \in DOMAIN logEntries[l] : logEntries'[l][k] = logEntries[l][k]
  <2>1. s.server = l
    BY DEF SoleSender
  <2>2. PICK e : logEntries' = [logEntries EXCEPT ![l] = Append(logEntries[l], e)]
    BY <1>3, <2>1 DEF StartAppend
  <2>3. logEntries'[l] = Append(logEntries[l], e)
    BY <1>fun, <2>2
  <2>4. QED
    BY <1>seq, <2>3
<1>4. QED
  BY <1>1, <1>2, <1>3, <1>same, LogKinds

\* At the start nobody sends.
LEMMA SoleInit ==
    ASSUME NEW l \in Server, Init
    PROVE  SoleSender(l)
BY DEF Init, SoleSender
---------------------------------------------------------------------------
(* Where entries come from, when one server campaigns and anything may be   *)
(* lost, late or crash.                                                     *)

Has(log, e) == \E n \in 1 .. Len(log) : log[n] = e
HasCommand(log, c) == \E n \in 1 .. Len(log) : log[n].command = c

\* Every entry of a log or a request is in the log of l, if not in the same
\* slot, and so is what was applied.
FromLeader(l) ==
    /\ \A i \in Server : \A k \in 1 .. Len(logEntries[i]) :
          Has(logEntries[l], logEntries[i][k])
    /\ \A m \in appendRequests : \A k \in 1 .. Len(m.entries) :
          Has(logEntries[l], m.entries[k])
    /\ \A d \in delivered : HasCommand(logEntries[l], d.command)

\* What is in the log of l stays there.
LEMMA LeaderHas ==
    ASSUME NEW l \in Server, IInv, IInv', SoleSender(l), [Next]_vars
    PROVE  /\ \A e : Has(logEntries[l], e) => Has(logEntries'[l], e)
           /\ \A c : HasCommand(logEntries[l], c) => HasCommand(logEntries'[l], c)
<1>1. logEntries[l] \in Log /\ logEntries'[l] \in Log
  BY DEF IInv, TypeOK, FieldsOK
<1>2. /\ Len(logEntries[l]) \in Nat /\ Len(logEntries'[l]) \in Nat
      /\ DOMAIN logEntries[l] = 1 .. Len(logEntries[l])
  BY <1>1, LogShape
<1>3. \A n \in 1 .. Len(logEntries[l]) :
         n \in 1 .. Len(logEntries'[l]) /\ logEntries'[l][n] = logEntries[l][n]
  BY <1>2, LogGrows
<1>4. QED
  BY <1>3 DEF Has, HasCommand

\* Every log still comes from l after a step.
LEMMA LogsFromLeader ==
    ASSUME NEW l \in Server, IInv, IInv', SoleSender(l), FromLeader(l), [Next]_vars,
           NEW i \in Server, NEW k \in 1 .. Len(logEntries'[i])
    PROVE  Has(logEntries'[l], logEntries'[i][k])
<1>fun. logEntries \in [Server -> Log] /\ logEntries' \in [Server -> Log]
  BY DEF IInv, TypeOK, FieldsOK
<1>seq. \A j \in Server : logEntries[j] \in Seq(Entry) /\ Len(logEntries[j]) \in Nat
  BY <1>fun, LogShape
<1>has. \A e : Has(logEntries[l], e) => Has(logEntries'[l], e)
  BY LeaderHas
<1>old. \A j \in Server : \A n \in 1 .. Len(logEntries[j]) :
           Has(logEntries[l], logEntries[j][n])
  BY DEF FromLeader
<1>self. CASE i = l
  BY <1>self DEF Has
<1>same. CASE logEntries'[i] = logEntries[i]
  BY <1>same, <1>old, <1>has
<1>1. ASSUME NEW m \in appendRequests, HandlerLog(m), i = m.to
      PROVE  Has(logEntries'[l], logEntries'[i][k])
  <2>m. m.entries \in Seq(Entry) /\ \A n \in 1 .. Len(m.entries) :
           Has(logEntries[l], m.entries[n])
    BY CallFields, AppendRequestFields DEF IInv, TypeOK, FromLeader
  <2>1. ASSUME NEW n \in 1 .. Len(logEntries[i]),
               logEntries' = [logEntries EXCEPT ![i] = Keep(logEntries[i], n)]
        PROVE  Has(logEntries'[l], logEntries'[i][k])
    <3>1. logEntries'[i] = SubSeq(logEntries[i], 1, n)
      BY <2>1, <1>fun DEF Keep
    <3>2. k \in 1 .. Len(logEntries[i]) /\ logEntries'[i][k] = logEntries[i][k]
      BY <3>1, <1>seq
    <3>3. QED
      BY <3>2, <1>old, <1>has
  <2>2. ASSUME logEntries' = [logEntries EXCEPT ![i] = logEntries[i] \o m.entries]
        PROVE  Has(logEntries'[l], logEntries'[i][k])
    <3>1. logEntries'[i] = logEntries[i] \o m.entries
      BY <2>2, <1>fun
    <3>2. PICK log \in Seq(Entry) : log = logEntries[i]
      BY <1>seq
    <3>3. PICK entries \in Seq(Entry) : entries = m.entries
      BY <2>m
    <3>4. k \in 1 .. Len(log \o entries)
      BY <3>1, <3>2, <3>3
    <3>5. \/ k \in 1 .. Len(log) /\ (log \o entries)[k] = log[k]
          \/ /\ k - Len(log) \in 1 .. Len(entries)
             /\ (log \o entries)[k] = entries[k - Len(log)]
      BY <3>4, Joined
    <3>6. QED
      BY <3>1, <3>2, <3>3, <3>5, <2>m, <1>old, <1>has
  <2>3. QED
    BY <1>1, <2>1, <2>2 DEF HandlerLog
<1>2. ASSUME NEW m \in appendRequests, HandlerLog(m), i # m.to
      PROVE  logEntries'[i] = logEntries[i]
  BY <1>2, <1>fun DEF HandlerLog
<1>3. ASSUME NEW s \in starts, StartAppend(s), i # l
      PROVE  logEntries'[i] = logEntries[i]
  <2>1. s.server = l
    BY DEF SoleSender
  <2>2. PICK e : logEntries' = [logEntries EXCEPT ![l] = Append(logEntries[l], e)]
    BY <1>3, <2>1 DEF StartAppend
  <2>3. QED
    BY <1>3, <1>fun, <2>2
<1>4. QED
  BY <1>self, <1>same, <1>1, <1>2, <1>3, LogKinds

\* Every request still carries entries of l after a step: getAppendLogs sends a
\* part of its log.
LEMMA RequestsFromLeader ==
    ASSUME NEW l \in Server, IInv, IInv', SoleSender(l), FromLeader(l), [Next]_vars,
           NEW m \in appendRequests', NEW k \in 1 .. Len(m.entries)
    PROVE  Has(logEntries'[l], m.entries[k])
<1>N. N \notin Server
  BY NAssumption DEF Server
<1>has. \A e : Has(logEntries[l], e) => Has(logEntries'[l], e)
  BY LeaderHas
<1>old. \A n \in appendRequests : n \in AppendRequest /\
           \A j \in 1 .. Len(n.entries) : Has(logEntries[l], n.entries[j])
  BY CallFields DEF IInv, TypeOK, FromLeader
<1>1. CASE m \in appendRequests
  BY <1>1, <1>old, <1>has
<1>2. ASSUME NEW n \in appendRequests, m = Outlive(n)
      PROVE  Has(logEntries'[l], m.entries[k])
  <2>1. m.entries = n.entries
    BY <1>2, <1>old DEF AppendRequest, Outlive
  <2>2. QED
    BY <1>old, <1>has, <2>1
<1>3. ASSUME NEW i \in Server, NEW g \in Routine, SendHeartbeat(i, g), m \notin appendRequests
      PROVE  Has(logEntries'[l], m.entries[k])
  <2>1. i = l
    BY <1>3, <1>N DEF SendHeartbeat, SoleSender
  <2>2. PICK j \in Server : j = nextPeer[l][g] /\ m = RequestFor(l, j)
    BY <1>3, <2>1, SendsOne
  <2>3. nextIndex[l][j] \in Nat /\ nextIndex[l][j] >= 1
    BY <2>2, LoopHasNext
  <2>4. PICK next \in Nat : next = nextIndex[l][j]
    BY <2>3
  <2>5. PICK log \in Log : log = logEntries[l]
    BY DEF IInv, TypeOK, FieldsOK
  <2>6. m.entries = getAppendLogs(log, next).entries
    BY <2>2, <2>4, <2>5 DEF RequestFor
  <2>7. m.entries = << >> \/ m.entries = SubSeq(log, next + 1, Len(log))
    BY <2>6 DEF getAppendLogs
  <2>8. log \in Seq(Entry) /\ Len(log) \in Nat
    BY LogShape
  <2>9. m.entries = SubSeq(log, next + 1, Len(log))
    BY <2>7
  <2>10. k + next \in 1 .. Len(log) /\ m.entries[k] = log[k + next]
    <3>1. k \in 1 .. Len(SubSeq(log, next + 1, Len(log)))
      BY <2>9
    <3>2. k + next <= Len(log) /\ k \in Nat /\ k >= 1
      BY <2>8, <3>1
    <3>3. SubSeq(log, next + 1, Len(log))[k] = log[k + next]
      BY <2>8, <3>1
    <3>4. k + next \in 1 .. Len(log)
      BY <2>8, <3>2
    <3>5. QED
      BY <2>9, <3>3, <3>4
  <2>11. QED
    BY <1>has, <2>5, <2>10 DEF Has
<1>4. QED
  BY <1>1, <1>2, <1>3, RequestsShrink DEF OnlyOldRequests

\* What was applied is still in the log of l after a step: Apply takes it from a
\* log whose entries are.
LEMMA AppliedFromLeader ==
    ASSUME NEW l \in Server, IInv, IInv', SoleSender(l), FromLeader(l), [Next]_vars,
           NEW d \in delivered'
    PROVE  HasCommand(logEntries'[l], d.command)
<1>has. \A c : HasCommand(logEntries[l], c) => HasCommand(logEntries'[l], c)
  BY LeaderHas
<1>1. CASE d \in delivered
  BY <1>1, <1>has DEF FromLeader
<1>2. ASSUME NEW i \in Server, Apply(i), d \notin delivered
      PROVE  HasCommand(logEntries'[l], d.command)
  <2> DEFINE k == lastApplied[i] + 1 + 1
  <2>1. d.command = logEntries[i][k].command /\ lastApplied[i] + 1 < Len(logEntries[i])
    BY <1>2 DEF Apply, Slot
  <2>2. lastApplied[i] \in Nat /\ logEntries[i] \in Log
    BY DEF IInv, TypeOK, FieldsOK
  <2>3. Len(logEntries[i]) \in Nat
    BY <2>2, LogShape
  <2>4. k \in 1 .. Len(logEntries[i])
    BY <2>1, <2>2, <2>3
  <2> HIDE DEF k
  <2>5. Has(logEntries[l], logEntries[i][k])
    BY <2>4 DEF FromLeader
  <2>6. HasCommand(logEntries[l], d.command)
    BY <2>1, <2>5 DEF Has, HasCommand
  <2>7. QED
    BY <2>6, <1>has
<1>3. ASSUME NEW i \in Server, NEW c \in Command, StartCheck(i, c) PROVE d \in delivered
  BY <1>3 DEF StartCheck
<1>4. QED
  BY <1>1, <1>2, <1>3, ClientKinds

\* Every step keeps to entries of l.
LEMMA FromLeaderStep ==
    ASSUME NEW l \in Server, IInv, IInv', SoleSender(l), FromLeader(l), [Next]_vars
    PROVE  FromLeader(l)'
<1>1. \A i \in Server : \A k \in 1 .. Len(logEntries'[i]) :
         Has(logEntries'[l], logEntries'[i][k])
  BY LogsFromLeader
<1>2. \A m \in appendRequests' : \A k \in 1 .. Len(m.entries) :
         Has(logEntries'[l], m.entries[k])
  BY RequestsFromLeader
<1>3. \A d \in delivered' : HasCommand(logEntries'[l], d.command)
  BY AppliedFromLeader
<1>4. QED
  BY <1>1, <1>2, <1>3 DEF FromLeader

\* At the start every log is the placeholder.
LEMMA FromLeaderInit ==
    ASSUME NEW l \in Server, Init
    PROVE  FromLeader(l)
<1>1. \A i \in Server : logEntries[i] = <<Placeholder>>
  BY DEF Init
<1>2. appendRequests = {} /\ delivered = {}
  BY DEF Init
<1>3. \A i \in Server : \A k \in 1 .. Len(logEntries[i]) :
         Has(logEntries[l], logEntries[i][k])
  BY <1>1 DEF Has
<1>4. QED
  BY <1>2, <1>3 DEF FromLeader
=============================================================================
