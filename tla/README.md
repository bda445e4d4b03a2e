# Verification of the Raft server and the MapReduce job

This directory models in TLA+ the Raft implementation of `src/lab2_raft/raft` and
the MapReduce master and worker of `src/lab1_mapreduce/mr`. TLC checks both on
small instances. TLAPS proves, for clusters of any size, that a Raft server grants one
`RequestVote` of a term (votes for itself aside), that two servers win a term only if
one of them voted for the other, that no heartbeat reads outside a log, that only
commands from `Start` are applied, that a leader without rivals has every entry that
anyone has, and that one whose calls are lost or answered in time replicates its log.
For jobs of any size it proves that MapReduce keeps its phases
apart, counts no input twice and, if no task was handed out too often, prints what
`mrsequential` does. Paths below are relative to `src/`; `raft.go`, `vote.go` and
`entry.go` are those of `lab2_raft/raft`, `master.go` and `worker.go` those of
`lab1_mapreduce/mr`.

## The system

| Part | Source | State | Operations |
|---|---|---|---|
| Elections | `raft.go`, `vote.go` | role, term, votedFor, electionTimer | election goroutine, `startElection`, its vote goroutines, `RequestVote`, `changeRole` |
| Replication | `raft.go`, `entry.go` | logEntries, commitIndex, lastApplied, nextIndex, matchIndex | `Start`, `SendHeartbeat` (from two goroutines), `getAppendLogs`, `commitLog`, `AppendEntries`, apply goroutine |
| Persistence | `raft.go`, `persister.go` | term, votedFor, log as last saved | `persist`, `readPersist` |
| Network | `lab2_raft/labrpc/labrpc.go` | calls in flight | lost requests and replies, delays, deleted servers |
| Tester | `lab2_raft/raft/config.go` | instances, what was applied | `crash1`, `start1`, the checks on leaders and on applyCh |
| MapReduce master | `lab1_mapreduce/mr/master.go` | mrPhase, done, taskChan, tasks, worker ids | `schedule`, `GetTask`, `SetTaskState`, `WorkerHeartBeat`, `handleHeartbeat` |
| MapReduce worker | `lab1_mapreduce/mr/worker.go` | the task it holds, the files mr-X-Y and mr-out.Y | loop of `Worker`, `doMap`, `doReduce`, timeouts of `call` |
| Word count and its reference | `lab1_mapreduce/mrapps/wc.go`, `lab1_mapreduce/main/mrsequential.go` | none | `Map`, `Reduce`, `main` |

Raft and MapReduce share no code and do not talk to each other.

What makes the Raft half hard:

- One mutex `rf.mu` protects a server, and `startElection` and `SendHeartbeat`
  keep it locked while they wait for RPCs. The handlers of those RPCs need the
  mutex of the peer.
- The vote goroutines write `rf.term` and the role without that mutex.
- Leadership is tested before a loop over the peers, not inside it. `Start`
  tests it in another critical section than the one that appends.
- A call has a timeout of 200 ms, after which its handler may still run. The
  caller of `AppendEntries` does not look at the result of the call and reads a
  reply that may be half decoded.
- An election is saved only when it is over.

What makes the MapReduce half hard:

- The table of tasks is a `sync.Map`: one Load or Store is atomic, and every
  handler that looks at a task and stores it later can overwrite what happened in
  between.
- A task enters the table when the handler of `GetTask` stores it, not when
  `schedule` sends it, so an empty or finished table does not mean that nothing is
  under way.
- A worker that gives up a call does not end it. Its `GetTask` still takes an item
  from the channel, its `SetTaskState` may be handled late.
- Late heartbeats make the master hand out a task that somebody still works on,
  and both workers write files of the same names, in place.
- A panic, a file that does not decode and an output file that cannot be created
  end in Finish.

## Modules

| Module | Contents |
|---|---|
| `Raft` | The server, the Persister and the faults. One action per critical section, or per part of one between two waits. Fairness and properties are at its end. |
| `Ballot` | Abstract: what stable storage promises about terms and votes. |
| `Agreement` | Abstract: what a service expects of all the applyCh together. |
| `RaftRefinements` | The two abstract specifications as properties of `Raft`, with the mapping of its state to theirs. |
| `MCRaft` | `Raft` for TLC, with the symmetry of commands. |
| `MapReduce` | The master, the workers and the files. One action per Load or Store of a handler that can be interleaved, and per file operation of a worker. |
| `Job` | Abstract: what the master promises about the order of the work of a job. |
| `MapReduceJob` | `Job` as a property of `MapReduce`. |
| `WordCount` | What a job computes: word count, split over files by `doMap` and `doReduce`, and `mrsequential`. |
| `MapReduceOutput` | What the files of a job hold, as a property of `MapReduce` and `WordCount` together. |
| `MCMapReduce` | `MapReduce` for TLC: the job, its refinement and its output. |
| `RaftInvariant` | The inductive invariant of `Raft`. |
| `RaftTypes` | Lemmas on logs, calls, `commitLog` and the `Min` and `Max` of the library, and the proof that steps keep types. |
| `RaftLocks` | The proof that steps keep the invariants on locks, calls and nextIndex. |
| `RaftLogs` | How steps change logs: they keep the entries of all logs and requests in order, append only what came from `Start`, and, with one server that campaigns, nothing that it does not have. |
| `RaftReplication` | The invariant of reliable replication from one server, and the proof that steps keep it. |
| `RaftProofs` | The theorems about Raft: vote safety, durability, bounds on logs, the refinement of `Ballot`, the count of votes, and what follows from `RaftLogs` and `RaftReplication`. |
| `MapReduceInvariant` | The inductive invariant of `MapReduce`, and its part about the table, the queue and the handlers. |
| `WordCountProofs` | The proof that `doMap`, `doReduce` and the files between them compute what `mrsequential` does. |
| `MapReduceProofs` | The rest of the invariant, `NoInputTwice`, the refinement of `Job`, and the output of jobs that hand out no task too often. |

### How `Raft` corresponds to the code

`mu[i]` is `"free"` or names the goroutine that waits for an RPC inside its
critical section. A critical section that does not wait is one step that needs
`mu[i] = "free"`. The two that wait are split where they wait:

- `startElection` (up to `wg.Wait`), `VoteReply` (one goroutine with an answer),
  `ElectionWon` and `ElectionLost` (after `wg.Wait`); then `AfterWon` or
  `AfterLost` in the loop of `Make`. `campaign[i]` is `args.Term`, which can
  differ from `term[i]` by then.
- `SendHeartbeat` (up to the call); then `HeartbeatStepDown`, `HeartbeatReply`,
  `HeartbeatNoReply` or `HeartbeatTornReply`. `nextPeer[i][g]` is the position
  of goroutine `g` in its loop over `rf.peers`.

`persist(i)` is part of each of the steps that ends a critical section with the
deferred save, and writes what the step leaves in memory to `disk[i]`.

Log slot `k` of the Go slice is position `k + 1` of the sequence. An entry has an
Index of its own, as in the code, and the model keeps slot and Index apart: the
code uses one or the other, and they can differ after an entry was appended
twice.

A call in flight is a record in `voteRequests` or `appendRequests`. `late` is 0
while its sender waits. `VoteTimeout` and `AppendTimeout` give it a number, after
which the handler may still run and its answer goes nowhere. A reply that can
still be read is in `voteReplies` or `appendReplies`; a lost reply and one that
arrives after the timeout are the same to the sender.

`Crash(i)` is `crash1` followed by `start1`: memory is what `readPersist` finds,
calls to the server fail, and its own calls may still arrive. The tester gives
the new instance fresh end points and a fresh Persister, so the old instance has
no further effect.

What is abstracted:

- Timers: an election timer may fire whenever the goroutine is back at its
  select, and heartbeats come at any time. `Campaigner` and `Ticker` say on which
  servers.
- `labgob`: encoding and decoding give back the same fields.
- `applyCh`: the tester always reads, so a round of the apply goroutine is one
  step. A round that would index past the log ends the process with a panic
  (`raft.go:275`) and is not a step, so behaviours are followed up to it. In the
  setting of `replication` it does not come up (`CommitGrowsInLog`); `committed_cut` ends
  in a state from which it does.
- `reply.NextIndex == -1`: no handler sets it, so that branch of `SendHeartbeat`
  (`entry.go:96`) has no step.
- `Start` on a server that is not leader changes nothing and has no step.
- A deposed server that still serves `Start` returns values; only the append is
  modelled.

### How `MapReduce` corresponds to the code

`Item` is what `schedule` sends on `taskChan`: the files `1 .. NFiles`, then the
patterns `mr-*-Y`, numbered on. `sent` says how far it is. The channel has no
buffer, so `Send` meets a handler that waits: of a worker in stage `"chan"`, or of
one of the `ghosts`, whose worker has exited. The handler then is in `calls` until
`StoreNew` puts its task into `tasks`, the table, whose index is the TaskID.

| Code | Actions |
|---|---|
| `schedule` (`master.go:87`) | `Send`, `StartReduce`, `JobDone`, `GiveUp` |
| `GetTask` (`master.go:276`) | `GetRetry`, or `GetRetryLook` and `StoreRetry`; `GetBlocks`, `Send` and `StoreNew`; `GetNothing` |
| `SetTaskState` (`master.go:338`) | `setTaskState` in the step of the worker, or `LateSetTaskState` |
| `WorkerHeartBeat` (`master.go:237`) | `HeartbeatLoad`, `HeartbeatStore` |
| `handleHeartbeat` (`master.go:203`) | `MonitorFails`, or `MonitorLook` and `MonitorMark` |
| `Worker` (`worker.go:235`) | `Begin`, `Finish`, `Abort`, `GetTimeout`, `Crash` |
| `doMap` (`worker.go:121`) | `MapCreate` and `MapEncode` for each part, `Fail`, `Panic` |
| `doReduce` (`worker.go:172`) | `ReduceGlob`, `ReduceRead` for each file, `ReduceCreate`, `ReducePrint`, `Fail`, `Panic`, `CreateFails` |

`inter[X][Y]` is the file mr-X-Y: absent, empty (created and not yet, or only in
part, written) or full. `out[Y]` is the set of map tasks whose files are in
mr-out.Y, or `Torn`. `todo[w]` and `got[w]` are the parts or files a worker has yet
to visit and those it has read.

What went wrong costs one of `MaxMishaps`: a crash, an error, a panic, a call that
is handled late, a heartbeat or a look of the master that is overtaken. A
`GetTask` that times out costs nothing, because an idle worker meets it every ten
seconds.

In `WordCount` a text is the sequence of its words, and a list of KeyValues or of
lines a function on the finite set of its positions. `append` keeps the positions of
both lists apart, `sort.Sort` numbers them from 1 on, and the loop over runs of equal
keys is described by where its `i` stands: at the positions whose key differs from the
one before.

What is abstracted:

- Clocks: a task's BeatTime is over ten seconds old when no living worker holds the
  task (`MonitorFails`), or when the heartbeats of one come late (`MonitorLook`).
  Heartbeats in time change nothing but BeatTime.
- The sleeps of `schedule` before `isTasksDone` (`master.go:98`, `:124`) are taken to
  be long enough for a handler that has received an item to store it
  (`LastIsStored`). The mutant of `JobIsKept` shows that the order of the phases
  depends on it.
- `SetTaskState` loads and stores, and is one step: it changes nothing but the
  state, and the fields it copies never change (WorkerID aside, which is left out).
- `Range` over the table is one look.
- `waitTaskTimeout` (`master.go:104`, `:130`) counts seconds: `schedule` may give up in
  any round that finds an unfinished task, and need not (`GiveUp`).
- The master handles nothing once the job is done or given up (`Up`): `main` of
  `mrmaster.go` ends it within two seconds of `done`, and `GiveUp` is `os.Exit`. Workers
  go on with their files until their next call fails.
- `Glob` gives the files in the order of their names, the model in the order of
  their TaskIDs. The two differ from ten tasks on, and word count does not depend on
  it.
- `Encode` writes a file at once, and so does the loop that prints an output file. Two
  workers that print different results into one file leave `Torn`.
- The working directory is empty at first, as `test-mr.sh` makes it.

## Runs

The Raft runs use `MCRaft`. Bounds are named constants: `MaxTerm` (elections),
`MaxLate` (requests that outlive their timeout), `MaxLostReply`, `MaxCrash`. They
end every behaviour, so deadlock is not checked.

| Run | Instance | Shows |
|---|---|---|
| `elections` | 3 servers, 2 candidates, 2 terms, 1 late request, 1 crash | `TypeOK`, `VoteOncePerTerm`, `WinnersClash`, `DiskIsMemory` and the refinement `DurableBallots` |
| `locks` | 3 servers, 2 candidates, 2 terms | `LocksReleased`: no two servers wait for each other for ever |
| `replication` | 3 servers, 1 leader, 3 terms, 2 commands, 1 crash | `AppliedIsDurable`, `CommitGrowsInLog` and the refinement `AppliedIsOneLog` |
| `faults` | 2 servers that take turns as leader, 3 terms, 2 commands, 1 lost or torn reply | `SendInRange`, `EntryTermSaved`, `AppliedWasStarted` |
| `progress` | 3 servers, 1 leader, 1 command | `StartedIsApplied` |

Two terms are enough for a vote request of an old term to meet a server of a new
one, and for both candidates to win. Three terms let a leader be re-elected after
a lost election, and let leadership go to the other server and come back. Two
commands are the least for logs to disagree. Three servers are the least where a
majority is not everyone. In `faults` two servers are enough, because its
properties are about one sender and its receiver, and they hold although that run
reaches logs with entries in them twice. `progress` has one command and one term;
with two of each `StartedIsApplied` is false for the reason `rule_four` shows.

| Run | Instance | Shows |
|---|---|---|
| `mapreduce` | 2 files, 2 parts, 2 workers, 1 abandoned call at a time, 1 mishap, texts of up to 2 of 2 words | `TypeOK`, `NoInputTwice`, `CleanOutputIsComplete`, `CleanOutputIsSequential`, the refinement `JobIsKept` and the liveness property `JobEnds` |

Two files and two parts are the least for a task to fail while another of its phase
goes on, for a reduce task to stop at the first of several files, and for a map task
to die between two parts. Two workers are the least for one task to be run twice at
the same time. One mishap is enough for every action and every way to report a state
late. The deadlock check is off because a job that is done or given up stops.
`JobEnds` says that the job is done unless the master gives up, if some worker is
registered again and again. `GiveUp` is not fair, so the property is about jobs that are
given all the time they need.

`CleanOutputIsComplete` says which inputs are in an output file, and
`CleanOutputIsSequential` what the files then say: it compares the output with that of `mrsequential` for all
texts and all hash functions of the instance, when no task was handed out while
somebody worked on it or after it was done (`clean`) and no result was given up
(`lost`). Without `clean` both are false, which is what `crash_output` shows.

`WinnersClash` is weaker than election safety on purpose. A leader resets its
`votedFor` (`raft.go:359`), so it may vote for another server in the term it won
once a lost election or a crash has made it a follower. The property says that
this is the only way to two winners. `replication` has one server that campaigns,
because with two the code does lose committed entries (below).

### Where code and documents disagree

Six runs check what a comment, a document or the tester says, and TLC finds a
behaviour of the code that violates it.

| Run | Property | Said at | What happens |
|---|---|---|---|
| `two_leaders` | `OneLeaderPerTerm` | `config.go:307`, `:327` | A vote reply with a higher term sets `rf.term` (`vote.go:189`), and the candidate still wins with the votes of the older term (`vote.go:202`). |
| `double_append` | `StateMachineSafety` | `entry.go:210`, `config.go:185` | `AppendEntries` appends entries that the log holds already (`entry.go:219`), after one lost reply. |
| `start_race` | `StartByLeader` | `raft.go:132` | `Start` appends although the server was deposed after `GetState` (`raft.go:149`). |
| `committed_cut` | `CommitGrowsInLog` | `lab2_raft/readme.md:210`, `:188`, `lab2_raft/raft算法分享.md:191` | A leader deposed by a request of a newer one between two sends of its round sends the rest in the new term, and the newer leader cuts a committed entry from its own log (`entry.go:202`). |
| `rule_four` | `CoveredIsCommitted` | `entry.go:141` | A batch that starts with an older entry does not run `commitLog` (`entry.go:108`). |
| `crash_output` | `OutputIsSequential` | `lab1_mapreduce/main/test-mr.sh:206`, `lab1_mapreduce/readme.md:91` | A worker whose heartbeats came late creates its map output in place (`worker.go:153`) while a reduce task reads it; the file does not decode, the loop ends (`worker.go:202`) and the job is done without its words. |

Two more of the rules in `raft算法分享.md` do not hold of the code, by the same
behaviours. A leader only adds to its log (`:191`): the last step of `committed_cut`
deletes an entry of a leader's log. Logs that agree on term and index of an entry agree
up to it (`:192`): in the behaviour of `double_append` the slots of leader and follower
hold different entries of one term.

## Fairness

`CallsEnd` is weak fairness of what ends a wait: an answer is taken, a call that
gets none fails at its `RPCTimeout` (`vote.go:148`, `entry.go:50`), and a
goroutine that holds `rf.mu` and has nothing to wait for goes on. The timeouts
are local timers, so this needs nothing of the network.

`Progress` adds what a cluster needs to get anything done: the goroutines go on
with their loops (weak), a goroutine that asks for `rf.mu` again and again gets it
(strong, because other goroutines take the lock in between; a Go mutex hands over
to a waiter that starved), and of infinitely many requests to a server some are
handled (strong; a network that drops all of them makes no progress). `rule_four`
is violated under this fairness, so it is not the network that stops the commit.

`Fairness` of `MapReduce` is weak: the scheduler, the handlers and the monitor go on,
and so does every worker process as long as it runs. That exited workers are started
again is no fairness of the code but the premise of `JobEnds`: the loops of the crash
test start them (`lab1_mapreduce/main/test-mr.sh:178`), and they have to get an id from
the pool, which is not modelled. The premise is needed, because a worker leaves when its
`GetTask` times out or when the channel is closed, and a task can fail after that. The
exit after `waitTaskTimeout` is not fair: it may happen, and `JobEnds` allows for it.
Nothing is assumed of heartbeats in time beyond the bound on mishaps.

## Proofs

Assumptions: `N` is a positive number, the bounds are numbers and the sets of
servers that campaign, send or crash are sets of servers. The theorems hold for
every such cluster and every budget of faults.

| Theorem | States |
|---|---|
| `Invariance` | `Spec => [](IInv /\ VoteOncePerTerm)` for `Raft` |
| `TypeCorrect` | `Spec => []TypeOK` |
| `VoteOnce` | `Spec => []VoteOncePerTerm` |
| `CrashLosesNothing` | `Spec => []DiskIsMemory` |
| `BallotsAreDurable` | `Spec => DurableBallots`, that is `Raft` implements `Ballot` |
| `WinnersNeedAVote` | `Spec => []WinnersClash` |
| `LogsInOrder` | `Spec => []LogInv` |
| `SavedTermsBound` | `Spec => []EntryTermSaved` |
| `SendsInRange` | `Spec => []SendInRange` |
| `AppliesWhatWasStarted` | `Spec => []AppliedWasStarted` |
| `AppliedStaysWithLeader` | what was applied, and every entry of any saved log, is always in the log on the disk of `l`, if `Campaigner \subseteq {l}` |
| `Replication` | `Spec => [](OneSender(l) /\ Replica(l))`, if `Reliable(l)` |
| `AppliedSurvives` | `Spec => [](AppliedIsDurable /\ StateMachineSafety)`, if `Reliable(l)` |
| `CommitsGrow` | `Spec => CommitGrowsInLog`, if `Reliable(l)` |
| `AppliesOneLog` | `Spec => AppliedIsOneLog`, that is `Raft` implements `Agreement`, if `Reliable(l)` |
| `InvariantHolds` | `Spec => []IInv` for `MapReduce` |
| `TypesHold` | `Spec => []TypeOK` for `MapReduce` |
| `InputsOnce` | `Spec => []NoInputTwice` |
| `JobKept` | `Spec => JobIsKept`, that is `MapReduce` implements `Job` |
| `CleanJobs` | `Spec => []CleanInv` |
| `OutputComplete` | `Spec => []CleanOutputIsComplete` |
| `OutputIsMrsequential` | sorted, the lines of `doReduce` on files of `doMap` that hold each input once are those of `mrsequential` |
| `OutputSequential` | `Spec => []CleanOutputIsSequential` |

The theorems about MapReduce hold for every number of files, workers, abandoned calls
and mishaps, every positive number of reduce tasks (`SizeAssumption`), and texts of any
length over any number of words (`TextAssumption`).

The argument for Raft. `TypeOK` alone is not inductive: `getAppendLogs` reads the entry
before `nextIndex`, which exists only if `nextIndex >= 1`, and a reply moves a loop
forward only if there is a loop. So the invariant `IInv` adds

- `NextInv`: a server in a loop over its peers has set its nextIndex, which it does
  when it wins an election and loses only in a crash;
- `LockInv`: who holds `rf.mu`; outside an election disk and memory agree, and
  during one the disk is exactly one term behind `args.Term`;
- `VoteCallInv` and `AppendCallInv`: a call that is waited for belongs to the
  goroutine that holds the lock, and `SendHeartbeat` has one at most;
- `GrantInv`: a granted vote is on the voter's disk until the disk has a later
  term.

`ForwardStep` shows that every step moves what is on disk forward, on one server
at most. The delicate case is `startElection`: it ends with a save of whatever
term its goroutines left in memory, and `LockInv` shows that this is later than
the term on disk. The refinement of `Ballot` and `GrantInv` both follow from it,
and `VoteOncePerTerm` from `GrantInv`: a vote just granted is in the saved term of
its voter, where `GrantInv` ties every vote to the saved `votedFor`.

`SendInRange` and `EntryTermSaved` rest on `LogInv`, which is inductive together with
`IInv`: no entry of a saved log has a term beyond the saved one or an Index beyond its
slot (`SavedInOrder`), and the entries of a request would still be in order behind
slot `prevLogIndex` (`SentInOrder`). Index and slot differ once `AppendEntries` has
appended an entry twice, but only in one direction: the slot is the larger. That is
why a comparison of `nextIndex` with the Index of the last entry, as in
`getAppendLogs`, is enough to slice by slot. The second part is needed because a
request that outlives its sender's term may be appended much later, and the handler
compares no entry with its own term, only the term of the request.

`AppliedWasStarted` holds for every cluster and whatever goes wrong. It rests on
`IssuedInv`: behind its placeholder every log holds commands from `Start`, and so does
every request. `LogKinds` says why: only `AppendEntries` and `Start` change a log, since
a restart restores the log that was in memory, and the handler either appends what a
request carries or cuts, but never below slot 1 (an entry with Index 0 has term 0, so it
is never in conflict with slot 0). A request never carries slot 0, because a loop that
sends has `nextIndex >= 1` (`NextInv`).

When only `l` campaigns, nobody else ever leads, sends or takes commands
(`SoleSender(l)`), also when requests of `l` outlive their calls, answers are lost or
torn and servers crash. So `AppendEntries` is never called on `l`, whose log only grows
(`LogGrows`). Every entry anywhere therefore stays in the log
of `l`, where it came from (`FromLeader`). Its slot may differ: `double_append` shows
that copies are no longer true here, and this is what remains of them.

`WinnersClash` rests on `VotesInv`, which counts. An election asks every peer once
(`OneVoteCall`), so `voteCount` is at most the number of servers that voted for the
candidate, itself included, and whose answer is no longer waited for (`CountInv`). Every
winner therefore had the votes of a majority in its term (`WonInv`), two majorities
share a server (`MajoritiesMeet`), and by `VoteOncePerTerm` that server did not answer
both. So it is one of the winners, which counts itself without a call, and it answered
the other.

Replication. `AppliedIsDurable`, `CommitGrowsInLog` and the refinement of
`Agreement` are not theorems of the code as it is: `committed_cut` and `double_append`
refute what they need. `Reliable(l)` is what these two runs take away, and it is the
setting of the run `replication`: server `l` alone campaigns and crashes, and an
`AppendEntries` call is lost on its way or answered in time. Requests may be lost at any
rate, `l` may lose elections, crash and start over with an empty `nextIndex` at any
point, and both goroutines may send at any time. A follower that crashed would take an
answer with it, which is a lost reply. Under `Reliable(l)`,

- `OneSender(l)`: `SoleSender(l)`, and every request in flight is waited for;
- `Copies(l)`: every log is a copy of the beginning of the log of `l`, and there slot and
  Index agree;
- `RequestsFit(l)`, `RepliesFit`, `NextCovers(l)`: the entries of a request are the end
  of the log of `l`, and its receiver has none of them. This is the point of the
  argument, since `AppendEntries` appends whatever it is sent. It holds because
  `nextIndex` covers the log of the peer or the answer that raises it is in flight, and
  a victory sets `nextIndex` to the length of the log of `l`, which no log exceeds;
- `MatchSaved(l)`, `CommitSaved`: `matchIndex` stays below the length of the log of the
  peer although it follows the NextIndex of refusals too, so what `commitLog` commits is
  in the logs of a majority;
- `Decided(l)`, `Fresh(l)`: what was applied anywhere is the beginning of the log of
  `l`, and no command is in it twice.

`ReplicaStep` has one lemma per action that touches a log, a call or an index; all other
steps leave these alone (`StepKinds`, `QuietStep`).

The argument for MapReduce. That the table fits its type needs that no item is made a
task twice, and for this the items on their way have to be counted too. `IInv` adds

- `QueueOK`: an item that was sent is in the table once or in one call, and its phase
  is that of its half of the list;
- `HandlersOK`: a handler holds a task of the table, with its file and phase;
- `WorkOK`: a worker that does something has a task for it, of the right phase;
- `FinishOK`: Finish is in the table, or on its way there in a heartbeat, a late call
  or a worker, only for work that was completed or given up;
- `FilesOK`: the files mr-X-Y, and what was read and printed of them, are those of
  map tasks.

The table only grows, and tasks keep file and phase (`AlwaysGrows`), which is why a
record stored late does no harm to `FinishOK`: what was over is over. `NoInputTwice`
follows from `FilesOK` and `QueueOK`. For `JobIsKept`, `LastIsStored` and `QueueOK` say
that everything sent is in the table when `isTasksDone` looks at it, and `FinishOK`
that it is over (`FinishedIsOver`).

`CleanOutputIsComplete` needs the second invariant `CleanInv`. Three parts of it hold in
every job: an answer of `GetTask` goes to a worker that waits for it (`CallersOK`), only
`doReduce` holds what was read (`GotOK`), and the reduce phase begins when the map work
is over (`PhaseOK`). The rest, `Clean`, holds as long as no task was handed out too often
and nothing was given up. Workers are at different tasks (`Apart`), and these are not
done, so a task that is done has its files to itself: all of mr-X-Y are written
(`Mapped`) and mr-out.Y is the result of every map task (`Reduced`). The attempts that
ended early are harmless because a later attempt of the task creates every file again
before the task is done, and nobody reads mr-X-Y before all map tasks are.

`CleanOutputIsSequential` adds what the files then say. `CleanInv` gives that each
mr-out.Y was made of one file of every input, and `OutputIsMrsequential` does the rest,
for all lists. Its argument counts: a sort keeps how often an element occurs
(`ByKeySorts`), so a file mr-X-Y has as many pairs of a key as its text has, or none if
the key belongs to another part (`doMapCount`). In a list in order the positions of a
key are one run with one start (`RunIsWhole`, `OneStart`), so a list is printed as one
line for each of its keys, with the number of its pairs (`LinesCount`). A key belongs to
one part, and the pairs of a part are those of all texts (`PartPairsCount`), so both
programs print the same lines. That lists can be sorted at all, without which the
`CHOOSE` of `ByKey` would say nothing, is `OrderExists`. It needs induction over the
length of a list. The library's induction theorems take an operator and cannot be
applied here, but a set of numbers has a least member (`LeastNumber`, from the
well-foundedness of `<`), and induction for a set of numbers (`NumberInduction`)
follows.

The proof modules set `USE ZenonT(10), SMTT(20)`: a leaf is tried with Zenon first
and with SMT when it needs arithmetic (`RaftLocks` gives Zenon 25 seconds).
`RaftReplication`, `RaftProofs` and `MapReduceProofs` take about a quarter of an hour
each from nothing, the others up to eight minutes. They use neither the sequence theorems
of the library nor an INSTANCE where they can do without, because every obligation
carries the whole context.

Only model-checked: the liveness properties `LocksReleased`, `StartedIsApplied` and
`JobEnds`, because the prover has no fairness. All other properties of the passing runs are
theorems. Those of `replication` are proved under `Reliable(l)`; nothing is claimed of
them beyond it.

## Not modelled

- The pool of worker ids (`RegWorker`, `DeRegWorker`, `getWorkerID`, `putWorkerID`):
  an id decides only whether a worker may start, and the model lets every worker
  start. `JobEnds` therefore has a premise: some worker registers again and again. Ids
  that are lost may make it false. What can go wrong there is in the hazards of `PROJECT.json`
  (`master.go:222`, `worker.go:99`).
- `AddReduceTask` and `putReduceTask`: nothing calls the latter. `phaseCond` and
  TaskStateQueue are not used either.
- The indexer and the timing applications, loading plug-ins, the socket of the master.
- `labgob`, the statistics and services of `labrpc`, the test programs: no state
  that a property of Raft depends on.
- The snapshot half of `Persister`: nothing calls it.
- `Kill`: no goroutine looks at it.

## Plan

1. MapReduce: a module for the pool of worker ids, with the ids that leak when a
   worker exits in `getTask` and those the monitor gives back too early.
2. Raft: the liveness properties for more than three servers, once a prover with
   fairness is at hand.
