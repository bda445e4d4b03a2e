----------------------------- MODULE MapReduce -----------------------------
(***************************************************************************)
(* The MapReduce job of lab1_mapreduce/mr: the master (master.go) with its *)
(* scheduler, its heartbeat monitor and one goroutine per RPC, the worker  *)
(* processes (worker.go), and the files that doMap and doReduce leave in   *)
(* the working directory.                                                  *)
(*                                                                         *)
(* sync.Map makes one Load or Store atomic and nothing more, so a handler  *)
(* that looks at a task and stores it later is two steps: calls, beats and *)
(* mon hold what the handler saw in between.  Clocks are abstracted to     *)
(* what they decide: the BeatTime of a task is over 10 seconds old only if *)
(* no living worker sends heartbeats for it, or if they come late.  The    *)
(* pool of worker ids is left out: a worker that starts is registered.     *)
(***************************************************************************)
EXTENDS Naturals, Sequences

CONSTANTS
    NFiles,        \* len(m.files)
    NReduce,       \* m.nReduce
    NWorker,       \* bound: worker processes that live at the same time
    MaxGhosts,     \* bound: abandoned GetTask calls that wait on taskChan
    MaxMishaps     \* bound: crashes, errors, panics, late or racing calls

ASSUME SizeAssumption ==
    /\ NFiles \in Nat /\ NReduce \in Nat \ {0}
    /\ NWorker \in Nat /\ MaxGhosts \in Nat /\ MaxMishaps \in Nat

NItem == NFiles + NReduce
Item == 1 .. NItem          \* what schedule sends: the files, then the patterns
Input == 1 .. NFiles
Part == 1 .. NReduce        \* the Y of mr-X-Y and mr-out.Y
Part0(item) == item - NFiles
Worker == 1 .. NWorker
Nobody == 0                 \* the caller has exited, or no task is held

VARIABLES
    \* the Master: mrPhase, how many items schedule has sent on taskChan,
    \* done, whether schedule ended the process, and m.tasks, by TaskID
    mrPhase, sent, done, gaveUp, tasks,
    \* GetTask handlers: how many wait on taskChan for a worker that has
    \* exited, and those that have a task or an item yet to be stored
    ghosts, calls,
    \* WorkerHeartBeat handlers between Load and Store, SetTaskState calls
    \* that the worker gave up and the master has yet to handle, and the
    \* task that the monitor is about to mark
    beats, late, mon,
    \* a worker: where it is in Worker(), w.Task, and what doMap or doReduce
    \* still has to visit and has read
    stage, held, todo, got,
    \* the files mr-X-Y and mr-out.Y
    inter, out,
    \* history: items whose work was completed, items whose result was given
    \* up (the function panicked, or its output file could not be created),
    \* and whether no task was handed out while it was worked on or after it
    \* was done
    ran, lost, clean,
    mishaps

schedVars  == <<mrPhase, sent, done, gaveUp>>
handlers   == <<ghosts, calls, beats, late, mon>>
workVars   == <<todo, got>>
workerVars == <<stage, held, workVars>>
fileVars   == <<inter, out>>
history    == <<ran, lost, clean>>
vars == <<schedVars, tasks, handlers, workerVars, fileVars, history, mishaps>>

TaskState == {"Sending", "Running", "Finish", "Err"}
Phase == {"Map", "Reduce"}
Stage == {"out", "ask", "chan", "wait", "got", "map", "encode", "reduce",
          "read", "print", "fin", "failing"}
Working == {"got", "map", "encode", "reduce", "read", "print"}

\* What is left in mr-out.Y when two reducers print different results over
\* each other.
Torn == {Nobody}

MRTask == [file : Item, phase : Phase, state : TaskState]

MasterTypes ==
    /\ mrPhase \in Phase /\ sent \in 0 .. NItem
    /\ done \in BOOLEAN /\ gaveUp \in BOOLEAN
    /\ tasks \in Seq(MRTask) /\ Len(tasks) <= NItem

HandlerTypes ==
    /\ ghosts \in 0 .. MaxGhosts
    /\ calls \subseteq [kind : {"new", "retry"}, who : Worker \cup {Nobody},
                        arg : Item]
    /\ beats \subseteq [task : DOMAIN tasks, rec : MRTask]
    /\ late \subseteq [task : DOMAIN tasks, state : TaskState]
    /\ mon \in DOMAIN tasks \cup {Nobody}

WorkerTypes ==
    /\ stage \in [Worker -> Stage]
    /\ held \in [Worker -> DOMAIN tasks \cup {Nobody}]
    /\ todo \in [Worker -> SUBSET Item] /\ got \in [Worker -> SUBSET Item]

FileTypes ==
    /\ inter \in [Item -> [Part -> {"absent", "empty", "full"}]]
    /\ out \in [Part -> SUBSET (Item \cup Torn)]

HistoryTypes ==
    /\ ran \subseteq Item /\ lost \subseteq Item /\ clean \in BOOLEAN
    /\ mishaps \in 0 .. MaxMishaps

\* Every variable keeps its type.  In particular no item is made a task twice.
TypeOK == MasterTypes /\ HandlerTypes /\ WorkerTypes /\ FileTypes /\ HistoryTypes
---------------------------------------------------------------------------
(* MakeMaster.  Without files schedule sets done first.                    *)

Init ==
    /\ mrPhase = "Map" /\ sent = 0 /\ done = (NFiles = 0) /\ gaveUp = FALSE
    /\ tasks = << >>
    /\ ghosts = 0 /\ calls = {} /\ beats = {} /\ late = {} /\ mon = Nobody
    /\ stage = [w \in Worker |-> "out"]
    /\ held = [w \in Worker |-> Nobody]
    /\ todo = [w \in Worker |-> {}] /\ got = [w \in Worker |-> {}]
    /\ inter = [t \in Item |-> [y \in Part |-> "absent"]]
    /\ out = [y \in Part |-> {}]
    /\ ran = {} /\ lost = {} /\ clean = TRUE
    /\ mishaps = 0
---------------------------------------------------------------------------
(* SetTaskState copies the record with a new state.  Once done is set main *)
(* of mrmaster.go ends the master, and so does schedule when it gives up:  *)
(* nothing is handled any more.                                            *)

Up == ~done /\ ~gaveUp

SetTaskState(table, t, s) ==
    [table EXCEPT ![t] = [@ EXCEPT !.state = s]]

\* The worker's call is handled at once, or its timeout passes and the master
\* handles it later.
setTaskState(t, s) ==
    /\ Up
    /\ \/ tasks' = SetTaskState(tasks, t, s) /\ UNCHANGED late
       \/ /\ [task |-> t, state |-> s] \notin late
          /\ late' = late \cup {[task |-> t, state |-> s]}
          /\ UNCHANGED tasks

\* A late call is a mishap where nothing else went wrong.
CountLate ==
    /\ mishaps' = IF late' = late THEN mishaps ELSE mishaps + 1
    /\ mishaps' <= MaxMishaps

CountMishap == mishaps < MaxMishaps /\ mishaps' = mishaps + 1

\* A SetTaskState that its caller no longer waits for is handled.
LateSetTaskState(l) ==
    /\ Up
    /\ late' = late \ {l}
    /\ tasks' = SetTaskState(tasks, l.task, l.state)
    /\ UNCHANGED <<schedVars, ghosts, calls, beats, mon, workerVars,
                   fileVars, history, mishaps>>
---------------------------------------------------------------------------
(* schedule.  Its sleeps of 5 and 10 seconds before isTasksDone are taken  *)
(* to be long enough for a GetTask handler that has received an item to    *)
(* store its task.                                                         *)

\* a bug: the loop over the files falls one behind
QueuedBehind == IF mrPhase = "Map" /\ sent > 0 THEN sent ELSE sent + 1

\* The item sent next: the files and then the patterns, in order.
Queued == sent + 1

isTasksDone == \A t \in DOMAIN tasks : tasks[t].state = "Finish"

\* a bug: without the sleep
NoSleep == TRUE

LastIsStored == \A c \in calls : c.kind # "new"
Closed == mrPhase = "Reduce" /\ sent = NItem

\* m.taskChan <- f meets a handler blocked in <-m.taskChan: that of a worker,
\* or one whose worker has exited.  The last pattern is followed by close.
Send ==
    /\ Up
    /\ sent < (IF mrPhase = "Map" THEN NFiles ELSE NItem)
    /\ sent' = sent + 1
    /\ \/ /\ \E w \in Worker :
                /\ stage[w] = "chan"
                /\ stage' = [stage EXCEPT ![w] = "wait"]
                /\ calls' = calls \cup
                      {[kind |-> "new", who |-> w, arg |-> Queued]}
          /\ ghosts' = IF Queued = NItem THEN 0 ELSE ghosts
       \/ /\ ghosts > 0
          /\ ghosts' = IF Queued = NItem THEN 0 ELSE ghosts - 1
          /\ calls' = calls \cup
                {[kind |-> "new", who |-> Nobody, arg |-> Queued]}
          /\ UNCHANGED stage
    /\ UNCHANGED <<mrPhase, done, gaveUp, tasks, beats, late, mon,
                   held, workVars, fileVars, history, mishaps>>

StartReduce ==
    /\ Up /\ mrPhase = "Map" /\ sent = NFiles
    /\ LastIsStored /\ isTasksDone
    /\ mrPhase' = "Reduce"
    /\ UNCHANGED <<sent, done, gaveUp, tasks, handlers, workerVars,
                   fileVars, history, mishaps>>

JobDone ==
    /\ Up /\ Closed
    /\ LastIsStored /\ isTasksDone
    /\ done' = TRUE
    /\ UNCHANGED <<mrPhase, sent, gaveUp, tasks, handlers, workerVars,
                   fileVars, history, mishaps>>

\* More than waitTaskTimeout rounds of a loop over isTasksDone have found an
\* unfinished task: os.Exit(-1).
GiveUp ==
    /\ Up /\ sent = (IF mrPhase = "Map" THEN NFiles ELSE NItem)
    /\ LastIsStored /\ ~isTasksDone
    /\ gaveUp' = TRUE
    /\ UNCHANGED <<mrPhase, sent, done, tasks, handlers, workerVars,
                   fileVars, history, mishaps>>
---------------------------------------------------------------------------
(* GetTask.  A worker asks when it has been started and when it is through *)
(* with a task.                                                            *)

Asks(w) == stage[w] \in {"out", "ask"}

\* It finds none and blocks on taskChan.
GetBlocks(w) ==
    /\ Up /\ Asks(w) /\ ~Closed
    /\ \A t \in DOMAIN tasks : tasks[t].state # "Err"
    /\ stage' = [stage EXCEPT ![w] = "chan"]
    /\ UNCHANGED <<schedVars, tasks, handlers, held, workVars,
                   fileVars, history, mishaps>>

\* The reply reaches the worker, unless it has exited.
Reply(w, t) ==
    /\ stage' = [v \in Worker |-> IF v = w THEN "got" ELSE stage[v]]
    /\ held' = [v \in Worker |-> IF v = w THEN t ELSE held[v]]

\* A new task gets the next TaskID and the phase the master is in now.
StoreNew(c) ==
    /\ Up /\ c.kind = "new"
    /\ tasks' = Append(tasks, [file |-> c.arg, phase |-> mrPhase,
                               state |-> "Sending"])
    /\ Reply(c.who, Len(tasks) + 1)
    /\ calls' = calls \ {c}
    /\ UNCHANGED <<schedVars, ghosts, beats, late, mon, workVars, fileVars, history,
                   mishaps>>

\* a bug: a retry is made a new task
RetryAsNew(w, t) ==
    /\ Up
    /\ tasks' = Append(SetTaskState(tasks, t, "Finish"),
                       [tasks[t] EXCEPT !.state = "Sending"])
    /\ Reply(w, Len(tasks) + 1)
    /\ UNCHANGED <<schedVars, ghosts, beats, late, mon, workVars, fileVars, history,
                   mishaps>>

\* A failed task is handed out again: it keeps its TaskID, file and phase.
Retry(w, t) ==
    /\ Up
    /\ tasks' = SetTaskState(tasks, t, "Sending")
    /\ Reply(w, t)
    /\ clean' = (/\ clean /\ tasks[t].file \notin ran
                 /\ \A v \in Worker : held[v] = t => stage[v] \notin Working)
    /\ UNCHANGED <<schedVars, ghosts, beats, late, mon, workVars, fileVars, ran, lost,
                   mishaps>>

\* The call finds a failed task in the table, and stores it at once ...
GetRetry(w) ==
    /\ Asks(w)
    /\ \E t \in DOMAIN tasks : tasks[t].state = "Err" /\ Retry(w, t)
    /\ UNCHANGED calls

\* ... or later, whatever has happened since the look.
GetRetryLook(w) ==
    /\ Up /\ Asks(w)
    /\ CountMishap
    /\ \E t \in DOMAIN tasks :
          /\ tasks[t].state = "Err"
          /\ calls' = calls \cup {[kind |-> "retry", who |-> w, arg |-> t]}
    /\ stage' = [stage EXCEPT ![w] = "wait"]
    /\ UNCHANGED <<schedVars, tasks, ghosts, beats, late, mon, held, workVars,
                   fileVars, history>>

StoreRetry(c) ==
    /\ c.kind = "retry"
    /\ Retry(c.who, c.arg)
    /\ calls' = calls \ {c}
---------------------------------------------------------------------------
(* Heartbeats and the monitor.                                             *)

Alive(w) == stage[w] # "out"
Beating(t) == \E w \in Worker : Alive(w) /\ held[w] = t

\* WorkerHeartBeat loads the record and sets its BeatTime in place ...
HeartbeatLoad(w) ==
    /\ Up /\ Alive(w) /\ held[w] # Nobody
    /\ CountMishap
    /\ beats' = beats \cup {[task |-> held[w], rec |-> tasks[held[w]]]}
    /\ UNCHANGED <<schedVars, tasks, ghosts, calls, late, mon, workerVars,
                   fileVars, history>>

\* ... and stores the record it loaded over whatever is there now.
HeartbeatStore(b) ==
    /\ Up
    /\ tasks' = [tasks EXCEPT ![b.task] = b.rec]
    /\ beats' = beats \ {b}
    /\ UNCHANGED <<schedVars, ghosts, calls, late, mon, workerVars,
                   fileVars, history, mishaps>>

\* a bug: only running tasks are watched
MonitorFailsRunning(t) ==
    /\ Up /\ tasks[t].state = "Running" /\ ~Beating(t)
    /\ tasks' = SetTaskState(tasks, t, "Err")
    /\ UNCHANGED <<schedVars, handlers, workerVars, fileVars, history, mishaps>>

\* handleHeartbeat finds an unfinished task for which nobody sends heartbeats
\* and marks it ...
MonitorFails(t) ==
    /\ Up /\ tasks[t].state # "Finish" /\ ~Beating(t)
    /\ tasks' = SetTaskState(tasks, t, "Err")
    /\ UNCHANGED <<schedVars, handlers, workerVars, fileVars, history, mishaps>>

\* ... or the heartbeats of a living worker come late, or the state has
\* changed between the look ...
MonitorLook(t) ==
    /\ Up /\ mon = Nobody /\ tasks[t].state # "Finish"
    /\ CountMishap
    /\ mon' = t
    /\ UNCHANGED <<schedVars, tasks, ghosts, calls, beats, late, workerVars,
                   fileVars, history>>

\* ... and the mark.
MonitorMark ==
    /\ Up /\ mon # Nobody
    /\ mon' = Nobody
    /\ tasks' = SetTaskState(tasks, mon, "Err")
    /\ UNCHANGED <<schedVars, ghosts, calls, beats, late, workerVars, fileVars,
                   history, mishaps>>
---------------------------------------------------------------------------
(* A worker process.                                                       *)

\* The process ends; a GetTask it waits for goes on without it.
Exit(w) ==
    /\ stage' = [stage EXCEPT ![w] = "out"]
    /\ held' = [held EXCEPT ![w] = Nobody]
    /\ todo' = [todo EXCEPT ![w] = {}]
    /\ got' = [got EXCEPT ![w] = {}]
    /\ calls' = {[c EXCEPT !.who = IF @ = w THEN Nobody ELSE @] : c \in calls}
    /\ ghosts' = IF stage[w] = "chan" /\ ~Closed /\ ghosts < MaxGhosts
                 THEN ghosts + 1 ELSE ghosts

\* taskChan is closed: the reply has no task, and the worker leaves.
GetNothing(w) ==
    /\ Up /\ Closed
    /\ \/ stage[w] = "chan"
       \/ Asks(w) /\ \A t \in DOMAIN tasks : tasks[t].state # "Err"
    /\ Exit(w)
    /\ UNCHANGED <<schedVars, tasks, beats, late, mon, fileVars, history, mishaps>>

\* GetTask has not answered for 10 seconds.
GetTimeout(w) ==
    /\ Up /\ stage[w] = "chan"
    /\ Exit(w)
    /\ UNCHANGED <<schedVars, tasks, beats, late, mon, fileVars, history, mishaps>>

Crash(w) ==
    /\ Up /\ Alive(w)
    /\ CountMishap
    /\ Exit(w)
    /\ UNCHANGED <<schedVars, tasks, beats, late, mon, fileVars, history>>

\* setTaskState(Running), then doMap or doReduce.
Begin(w) ==
    /\ stage[w] = "got"
    /\ setTaskState(held[w], "Running") /\ CountLate
    /\ IF tasks[held[w]].phase = "Map"
       THEN /\ stage' = [stage EXCEPT ![w] = "map"]
            /\ todo' = [todo EXCEPT ![w] = Part]
       ELSE /\ stage' = [stage EXCEPT ![w] = "reduce"]
            /\ UNCHANGED todo
    /\ UNCHANGED <<schedVars, ghosts, calls, beats, mon, held, got,
                   fileVars, history>>

File(w) == tasks[held[w]].file
IsNext(n, set) == \A m \in set : n <= m

\* os.Create empties mr-X-Y, the file of this task and the next part ...
MapCreate(w) ==
    /\ stage[w] = "map"
    /\ \E y \in todo[w] :
          /\ IsNext(y, todo[w])
          /\ inter' = [inter EXCEPT ![held[w]][y] = "empty"]
    /\ stage' = [stage EXCEPT ![w] = "encode"]
    /\ UNCHANGED <<schedVars, tasks, handlers, held, workVars, out,
                   history, mishaps>>

\* ... and Encode writes all of it.  After the last part doMap is through.
MapEncode(w) ==
    /\ stage[w] = "encode"
    /\ \E y \in todo[w] :
          /\ IsNext(y, todo[w])
          /\ inter' = [inter EXCEPT ![held[w]][y] = "full"]
          /\ todo' = [todo EXCEPT ![w] = @ \ {y}]
          /\ IF todo[w] = {y}
             THEN /\ stage' = [stage EXCEPT ![w] = "fin"]
                  /\ ran' = ran \cup {File(w)}
             ELSE /\ stage' = [stage EXCEPT ![w] = "map"]
                  /\ UNCHANGED ran
    /\ UNCHANGED <<schedVars, tasks, handlers, held, got, out, lost,
                   clean, mishaps>>

\* Glob: the files mr-*-Y that exist now.
ReduceGlob(w) ==
    /\ stage[w] = "reduce"
    /\ todo' = [todo EXCEPT ![w] =
                   {t \in Item : inter[t][Part0(File(w))] # "absent"}]
    /\ stage' = [stage EXCEPT ![w] = "read"]
    /\ UNCHANGED <<schedVars, tasks, handlers, held, got, fileVars,
                   history, mishaps>>

\* a bug: the loop over the files ends after the first one
ReduceReadOne(w) ==
    /\ stage[w] = "read"
    /\ \E t \in todo[w] :
          /\ IsNext(t, todo[w])
          /\ inter[t][Part0(File(w))] = "full"
          /\ got' = [got EXCEPT ![w] = @ \cup {t}]
    /\ todo' = [todo EXCEPT ![w] = {}]
    /\ UNCHANGED <<schedVars, tasks, handlers, stage, held,
                   fileVars, history, mishaps>>

\* Open and Decode the next one.  A file that does not decode ends the loop:
\* it and the files after it are left out.
ReduceRead(w) ==
    /\ stage[w] = "read"
    /\ \E t \in todo[w] :
          /\ IsNext(t, todo[w])
          /\ IF inter[t][Part0(File(w))] = "full"
             THEN /\ got' = [got EXCEPT ![w] = @ \cup {t}]
                  /\ todo' = [todo EXCEPT ![w] = @ \ {t}]
             ELSE /\ todo' = [todo EXCEPT ![w] = {}]
                  /\ UNCHANGED got
    /\ UNCHANGED <<schedVars, tasks, handlers, stage, held,
                   fileVars, history, mishaps>>

\* os.Create empties mr-out.Y ...
ReduceCreate(w) ==
    /\ stage[w] = "read" /\ todo[w] = {}
    /\ out' = [out EXCEPT ![Part0(File(w))] = {}]
    /\ stage' = [stage EXCEPT ![w] = "print"]
    /\ UNCHANGED <<schedVars, tasks, handlers, held, workVars, inter,
                   history, mishaps>>

\* ... and the result of what was read is printed into it.
ReducePrint(w) ==
    /\ stage[w] = "print"
    /\ out' = [out EXCEPT ![Part0(File(w))] =
                  IF @ \in {{}, got[w]} THEN got[w] ELSE Torn]
    /\ got' = [got EXCEPT ![w] = {}]
    /\ stage' = [stage EXCEPT ![w] = "fin"]
    /\ ran' = ran \cup {File(w)}
    /\ UNCHANGED <<schedVars, tasks, handlers, held, todo, inter, lost,
                   clean, mishaps>>

\* setTaskState(Finish), then the next GetTask.
Finish(w) ==
    /\ stage[w] = "fin"
    /\ setTaskState(held[w], "Finish") /\ CountLate
    /\ stage' = [stage EXCEPT ![w] = "ask"]
    /\ UNCHANGED <<schedVars, ghosts, calls, beats, mon, held,
                   workVars, fileVars, history>>

\* a bug: the error is logged and dropped
FailDropped(w) ==
    /\ Up
    /\ \/ stage[w] \in {"map", "encode"}
       \/ stage[w] = "read" /\ todo[w] # {}
    /\ CountMishap
    /\ todo' = [todo EXCEPT ![w] = {}] /\ got' = [got EXCEPT ![w] = {}]
    /\ stage' = [stage EXCEPT ![w] = "fin"]
    /\ UNCHANGED <<schedVars, tasks, handlers, held, fileVars, history>>

\* doMap or doReduce reports an I/O error and returns it ...
Fail(w) ==
    /\ \/ stage[w] \in {"map", "encode"}
       \/ stage[w] = "read" /\ todo[w] # {}
    /\ setTaskState(held[w], "Err") /\ CountMishap
    /\ todo' = [todo EXCEPT ![w] = {}] /\ got' = [got EXCEPT ![w] = {}]
    /\ stage' = [stage EXCEPT ![w] = "failing"]
    /\ UNCHANGED <<schedVars, ghosts, calls, beats, mon, held, fileVars, history>>

\* ... and Worker reports it once more and exits.
Abort(w) ==
    /\ stage[w] = "failing"
    /\ setTaskState(held[w], "Err")
    /\ Exit(w)
    /\ UNCHANGED <<schedVars, beats, mon, fileVars, history, mishaps>>

\* The map or reduce function panics.  The deferred function reports an error,
\* but doMap and doReduce return nil, and Worker goes on to report Finish.
Panic(w) ==
    /\ \/ stage[w] = "map" /\ todo[w] = Part
       \/ stage[w] = "print" /\ got[w] # {}
    /\ setTaskState(held[w], "Err") /\ CountMishap
    /\ lost' = lost \cup {File(w)}
    /\ todo' = [todo EXCEPT ![w] = {}] /\ got' = [got EXCEPT ![w] = {}]
    /\ stage' = [stage EXCEPT ![w] = "fin"]
    /\ UNCHANGED <<schedVars, ghosts, calls, beats, mon, held,
                   fileVars, ran, clean>>

\* The error of os.Create is dropped: doReduce prints into no file and returns
\* nil.
CreateFails(w) ==
    /\ Up /\ stage[w] = "read" /\ todo[w] = {}
    /\ CountMishap
    /\ lost' = lost \cup {File(w)}
    /\ got' = [got EXCEPT ![w] = {}]
    /\ stage' = [stage EXCEPT ![w] = "fin"]
    /\ UNCHANGED <<schedVars, tasks, handlers, held, todo, fileVars, ran, clean>>
---------------------------------------------------------------------------
Scheduler == Send \/ StartReduce \/ JobDone \/ GiveUp

Handler ==
    \/ \E l \in late : LateSetTaskState(l)
    \/ \E c \in calls : StoreNew(c) \/ StoreRetry(c)
    \/ \E b \in beats : HeartbeatStore(b)

Monitor ==
    \/ \E t \in DOMAIN tasks : MonitorFails(t) \/ MonitorLook(t)
    \/ MonitorMark

Process(w) ==
    \/ GetRetry(w) \/ GetBlocks(w) \/ GetNothing(w) \/ GetTimeout(w)
    \/ Begin(w) \/ MapCreate(w) \/ MapEncode(w)
    \/ ReduceGlob(w) \/ ReduceRead(w) \/ ReduceCreate(w) \/ ReducePrint(w)
    \/ Finish(w) \/ Abort(w)

Mishap(w) ==
    \/ HeartbeatLoad(w) \/ GetRetryLook(w)
    \/ Crash(w) \/ Fail(w) \/ Panic(w) \/ CreateFails(w)

Next ==
    \/ Scheduler \/ Handler \/ Monitor
    \/ \E w \in Worker : Process(w) \/ Mishap(w)

Spec == Init /\ [][Next]_vars
---------------------------------------------------------------------------
(* Properties.                                                             *)

\* No input is counted twice in an output file, however often its map task
\* was run and whoever ran it: a retry keeps the TaskID, so it writes the
\* files of the first attempt again and Glob finds them once.
NoInputTwice ==
    \A y \in Part : \A s, t \in out[y] \ Torn :
        /\ tasks[t].file \in Input
        /\ tasks[s].file = tasks[t].file => s = t

\* When the job is done and no result was given up, every mr-out.Y holds what
\* doReduce makes of every input, if no task was handed out while it was worked
\* on or after it was done: whatever attempts of doMap and doReduce that ended
\* early have left in mr-X-Y and mr-out.Y is written again before it is read.
CleanOutputIsComplete ==
    clean /\ done /\ lost = {} =>
        \A y \in Part : /\ out[y] \cap Torn = {}
                        /\ {tasks[t].file : t \in out[y]} = Input

(* Fairness: the master and the processes that run go on, and clocks run.  *)
(* The master need not run out of patience, and nobody need start a worker *)
(* or find an id for it.                                                   *)
Fairness ==
    /\ WF_<<schedVars, tasks, handlers>>(
          \/ Send \/ StartReduce \/ JobDone \/ Handler \/ MonitorMark
          \/ \E t \in DOMAIN tasks : MonitorFails(t))
    /\ \A w \in Worker : WF_<<stage[w], todo[w]>>(Alive(w) /\ Process(w))

FairSpec == Spec /\ Fairness

\* If again and again some worker is registered and gets a look at the table,
\* the job is done unless the master gives up waiting.  A task nobody works on
\* is found by the monitor, and a worker asks for it, although calls of GetTask
\* that already wait on taskChan do not see it, and some of them take tasks
\* nobody will run.
JobEnds == []<>(\E w \in Worker : Alive(w)) => <>(done \/ gaveUp)
============================================================================
