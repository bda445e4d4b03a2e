--------------------------- MODULE MapReduceProofs ---------------------------
(***************************************************************************)
(* Every step keeps the invariant, and what follows from it: no input is   *)
(* counted twice, the job is kept, and the output of a job whose tasks     *)
(* were not handed out too often is complete and that of mrsequential.     *)
(***************************************************************************)
EXTENDS MapReduceInvariant, MapReduceJob, MapReduceOutput, WordCountProofs

USE ZenonT(10), SMTT(20)

---------------------------------------------------------------------------
(* Types.                                                                  *)

\* The master's own fields keep their types, and there is room for all tasks.
LEMMA MasterTypesStep ==
    ASSUME IInv, Next
    PROVE  MasterTypes'
<1>1. tasks' \in Seq(MRTask)
  BY AlwaysGrows DEF Grows
<1>2. Len(tasks') <= NItem
  <2>1. \A s, t \in DOMAIN tasks' : tasks'[s].file = tasks'[t].file => s = t
    BY QueueStep DEF QueueOK
  <2>2. QED
    BY <1>1, <2>1, TasksFit
<1>3. mrPhase \in Phase /\ sent \in 0 .. NItem /\ done \in BOOLEAN /\ gaveUp \in BOOLEAN
  BY DEF IInv, TypeOK, MasterTypes
<1>4. (mrPhase \in Phase /\ sent \in 0 .. NItem /\ done \in BOOLEAN /\ gaveUp \in BOOLEAN)'
  <2>1. Send => sent' \in 0 .. NItem /\ UNCHANGED <<mrPhase, done, gaveUp>>
    BY <1>3, SizeAssumption DEF Send, NItem
  <2>2. StartReduce => UNCHANGED <<sent, done, gaveUp>> /\ mrPhase' \in Phase
    BY DEF StartReduce, Phase
  <2>3. JobDone \/ GiveUp => UNCHANGED <<mrPhase, sent>> /\ (done \in BOOLEAN /\ gaveUp \in BOOLEAN)'
    BY <1>3 DEF JobDone, GiveUp
  <2>4. Handler => UNCHANGED <<mrPhase, sent, done, gaveUp>>
    BY DEF Handler, LateSetTaskState, StoreNew, StoreRetry, Retry, HeartbeatStore, schedVars
  <2>5. Monitor => UNCHANGED <<mrPhase, sent, done, gaveUp>>
    BY DEF Monitor, MonitorFails, MonitorLook, MonitorMark, schedVars
  <2>6. \A w \in Worker : Process(w) => UNCHANGED <<mrPhase, sent, done, gaveUp>>
    BY DEF Process, GetRetry, Retry, GetBlocks, GetNothing, GetTimeout, Begin, MapCreate,
       MapEncode, ReduceGlob, ReduceRead, ReduceCreate, ReducePrint, Finish, Abort,
       schedVars
  <2>7. \A w \in Worker : Mishap(w) => UNCHANGED <<mrPhase, sent, done, gaveUp>>
    BY DEF Mishap, HeartbeatLoad, GetRetryLook, Crash, Fail, Panic, CreateFails, schedVars
  <2>8. QED
    BY <1>3, <2>1, <2>2, <2>3, <2>4, <2>5, <2>6, <2>7 DEF Next, Scheduler
<1>5. QED
  BY <1>1, <1>2, <1>4 DEF MasterTypes

\* What handlers hold keeps its type.
LEMMA HandlerTypesStep ==
    ASSUME IInv, Next
    PROVE  HandlerTypes'
<1> DEFINE D == DOMAIN tasks'
           Call == [kind : {"new", "retry"}, who : Worker \cup {Nobody}, arg : Item]
           Ghosts == ghosts' \in 0 .. MaxGhosts
           Calls == calls' \subseteq Call
           Rest == /\ beats' \subseteq [task : D, rec : MRTask]
                   /\ late' \subseteq [task : D, state : TaskState]
                   /\ mon' \in D \cup {Nobody}
<1>1. /\ ghosts \in 0 .. MaxGhosts /\ calls \subseteq Call
      /\ beats \subseteq [task : D, rec : MRTask]
      /\ late \subseteq [task : D, state : TaskState]
      /\ mon \in D \cup {Nobody}
      /\ DOMAIN tasks \subseteq D
  BY AlwaysGrows DEF IInv, TypeOK, HandlerTypes, Grows
<1>2. tasks \in Seq(MRTask) /\ \A t \in DOMAIN tasks : t \in Item /\ tasks[t] \in MRTask
  BY SizeAssumption DEF IInv, TypeOK, MasterTypes, Item, NItem
<1>3. \A t \in DOMAIN tasks, s \in TaskState :
         setTaskState(t, s) => late' \subseteq [task : D, state : TaskState]
  BY <1>1 DEF setTaskState
<1>4. {"Sending", "Running", "Finish", "Err"} \subseteq TaskState
  BY DEF TaskState
<1> HIDE DEF D
<1>5. UNCHANGED handlers => Ghosts /\ Calls /\ Rest
  BY <1>1 DEF handlers
<1>6. UNCHANGED <<beats, late, mon>> => Rest
  BY <1>1
<1>7. MaxGhosts \in Nat /\ NItem \in Nat /\ NFiles \in Nat /\ sent \in 0 .. NItem
  BY SizeAssumption DEF NItem, IInv, TypeOK, MasterTypes
<1>8. CASE Scheduler
  <2>1. CASE Send
    <3>1. Ghosts
      BY <1>1, <1>7, <2>1 DEF Send
    <3>2. sent + 1 \in Item
      BY <1>7, <2>1, SizeAssumption DEF Send, Item, NItem
    <3>3. Calls
      BY <1>1, <2>1, <3>2 DEF Send, Queued
    <3>4. QED
      BY <1>6, <2>1, <3>1, <3>3 DEF HandlerTypes, Send, D
  <2>2. QED
    BY <1>5, <1>8, <2>1 DEF HandlerTypes, Scheduler, StartReduce, JobDone, GiveUp, D
<1>9. CASE Handler
  <2>1. ASSUME NEW l \in late, LateSetTaskState(l)  PROVE Ghosts /\ Calls /\ Rest
    BY <1>1, <2>1 DEF LateSetTaskState
  <2>2. ASSUME NEW c \in calls, StoreNew(c) \/ StoreRetry(c)  PROVE Ghosts /\ Calls /\ Rest
    BY <1>1, <2>2 DEF StoreNew, StoreRetry, Retry
  <2>3. ASSUME NEW b \in beats, HeartbeatStore(b)  PROVE Ghosts /\ Calls /\ Rest
    BY <1>1, <2>3 DEF HeartbeatStore
  <2>4. QED
    BY <1>9, <2>1, <2>2, <2>3 DEF Handler, HandlerTypes, D
<1>10. CASE Monitor
  <2>1. \A t \in DOMAIN tasks : MonitorFails(t) \/ MonitorLook(t) => Ghosts /\ Calls /\ Rest
    BY <1>1, <1>5 DEF MonitorFails, MonitorLook
  <2>2. MonitorMark => Ghosts /\ Calls /\ Rest
    BY <1>1 DEF MonitorMark
  <2>3. QED
    BY <1>10, <2>1, <2>2 DEF Monitor, HandlerTypes, D
<1>11. ASSUME NEW w \in Worker, Process(w) \/ Mishap(w)
       PROVE  HandlerTypes'
  <2>1. stage[w] \in {"got", "map", "encode", "read", "print", "fin", "failing"}
           => held[w] \in DOMAIN tasks
    BY DEF IInv, WorkOK, WorkerOK, Working
  <2>2. Exit(w) => Ghosts /\ Calls
    BY <1>1, <1>7, ExitCalls DEF Exit
  <2>3. GetNothing(w) \/ GetTimeout(w) \/ Crash(w) => Ghosts /\ Calls /\ Rest
    BY <1>6, <2>2 DEF GetNothing, GetTimeout, Crash
  <2>4. Abort(w) => Ghosts /\ Calls /\ Rest
    BY <1>1, <1>3, <1>4, <2>1, <2>2 DEF Abort
  <2>5. GetRetryLook(w) => Ghosts /\ Calls /\ Rest
    BY <1>1, <1>2 DEF GetRetryLook
  <2>6. HeartbeatLoad(w) => Ghosts /\ Calls /\ Rest
    <3>1. HeartbeatLoad(w) => held[w] \in DOMAIN tasks
      BY DEF HeartbeatLoad, IInv, TypeOK, WorkerTypes
    <3>2. QED
      BY <1>1, <1>2, <3>1 DEF HeartbeatLoad
  <2>7. GetRetry(w) => Ghosts /\ Calls /\ Rest
    BY <1>1 DEF GetRetry, Retry
  <2>8. Begin(w) \/ Finish(w) \/ Fail(w) \/ Panic(w) => Ghosts /\ Calls /\ Rest
    BY <1>1, <1>3, <1>4, <2>1 DEF Begin, Finish, Fail, Panic
  <2>9. \/ GetBlocks(w) \/ MapCreate(w) \/ MapEncode(w) \/ ReduceGlob(w) \/ ReduceRead(w)
        \/ ReduceCreate(w) \/ ReducePrint(w) \/ CreateFails(w)
        => UNCHANGED handlers
    BY DEF GetBlocks, MapCreate, MapEncode, ReduceGlob, ReduceRead, ReduceCreate,
       ReducePrint, CreateFails
  <2>10. Ghosts /\ Calls /\ Rest
    BY <1>5, <1>11, <2>3, <2>4, <2>5, <2>6, <2>7, <2>8, <2>9 DEF Process, Mishap
  <2>11. QED
    BY <2>10 DEF HandlerTypes, D
<1>12. QED
  BY <1>8, <1>9, <1>10, <1>11 DEF Next

\* Workers keep their types.
LEMMA WorkerTypesStep ==
    ASSUME IInv, Next
    PROVE  WorkerTypes'
<1> DEFINE H == DOMAIN tasks' \cup {Nobody}
           Goal == /\ stage' \in [Worker -> Stage] /\ held' \in [Worker -> H]
                   /\ todo' \in [Worker -> SUBSET Item] /\ got' \in [Worker -> SUBSET Item]
<1>1. /\ stage \in [Worker -> Stage] /\ held \in [Worker -> H]
      /\ todo \in [Worker -> SUBSET Item] /\ got \in [Worker -> SUBSET Item]
  BY AlwaysGrows DEF IInv, TypeOK, WorkerTypes, Grows
<1>2. DOMAIN tasks \subseteq H /\ Nobody \in H
  BY AlwaysGrows DEF Grows
<1>3. Part \subseteq Item
  BY SizeAssumption DEF Part, Item, NItem
<1> HIDE DEF H
<1>4. \A w, t : t \in H /\ Reply(w, t)
         => stage' \in [Worker -> Stage] /\ held' \in [Worker -> H]
  <2>1. \A w, t : Reply(w, t) => stage' \in [Worker -> Stage]
    BY <1>1 DEF Reply, Stage
  <2>2. \A w, t : t \in H /\ Reply(w, t) => held' \in [Worker -> H]
    BY <1>1 DEF Reply
  <2>3. QED
    BY <2>1, <2>2
<1>5. UNCHANGED workerVars => Goal
  BY <1>1 DEF workerVars, workVars
<1>6. CASE Scheduler
  <2>1. Send => Goal
    BY <1>1 DEF Send, workVars, Stage
  <2>2. QED
    BY <1>5, <1>6, <2>1 DEF Scheduler, StartReduce, JobDone, GiveUp, WorkerTypes, H
<1>7. CASE Handler
  <2>1. ASSUME NEW c \in calls, StoreNew(c)  PROVE Goal
    <3>1. Len(tasks) + 1 \in H
      BY <2>1, Stored DEF H
    <3>2. QED
      BY <1>1, <1>4, <2>1, <3>1 DEF StoreNew, workVars
  <2>2. ASSUME NEW c \in calls, StoreRetry(c)  PROVE Goal
    <3>1. c.arg \in H
      BY <1>2, <2>2 DEF StoreRetry, IInv, HandlersOK
    <3>2. QED
      BY <1>1, <1>4, <2>2, <3>1 DEF StoreRetry, Retry, workVars
  <2>3. QED
    BY <1>5, <1>7, <2>1, <2>2 DEF Handler, LateSetTaskState, HeartbeatStore, WorkerTypes, H
<1>8. CASE Monitor
  <2>1. UNCHANGED workerVars
    BY <1>8 DEF Monitor, MonitorFails, MonitorLook, MonitorMark
  <2>2. QED
    BY <1>5, <2>1 DEF WorkerTypes, H
<1>9. ASSUME NEW w \in Worker, Process(w) \/ Mishap(w)
      PROVE  WorkerTypes'
  <2>1. Exit(w) => Goal
    BY <1>1, <1>2 DEF Exit, Stage
  <2>2. GetNothing(w) \/ GetTimeout(w) \/ Abort(w) \/ Crash(w) => Goal
    BY <2>1 DEF GetNothing, GetTimeout, Abort, Crash
  <2>3. GetRetry(w) => Goal
    BY <1>1, <1>2, <1>4 DEF GetRetry, Retry, workVars
  <2>4. GetBlocks(w) \/ GetRetryLook(w) \/ MapCreate(w) \/ Finish(w) \/ ReduceCreate(w)
        => Goal
    <3>1. GetBlocks(w) \/ GetRetryLook(w) => Goal
      BY <1>1 DEF GetBlocks, GetRetryLook, workVars, Stage
    <3>2. MapCreate(w) \/ ReduceCreate(w) => Goal
      BY <1>1 DEF MapCreate, ReduceCreate, workVars, Stage
    <3>3. Finish(w) => Goal
      BY <1>1 DEF Finish, workVars, Stage
    <3>4. QED
      BY <3>1, <3>2, <3>3
  <2>5. Begin(w) => Goal
    BY <1>1, <1>3 DEF Begin, Stage
  <2>6. MapEncode(w) => Goal
    <3>1. ASSUME MapEncode(w)
          PROVE  /\ UNCHANGED <<held, got>>
                 /\ \E y : todo' = [todo EXCEPT ![w] = @ \ {y}]
                 /\ \/ stage' = [stage EXCEPT ![w] = "fin"]
                    \/ stage' = [stage EXCEPT ![w] = "map"]
      BY <3>1 DEF MapEncode
    <3>2. MapEncode(w) => stage' \in [Worker -> Stage]
      BY <1>1, <3>1 DEF Stage
    <3>3. MapEncode(w) => todo' \in [Worker -> SUBSET Item]
      BY <1>1, <3>1
    <3>4. QED
      BY <1>1, <3>1, <3>2, <3>3
  <2>7. ReduceGlob(w) => Goal
    BY <1>1 DEF ReduceGlob, Stage
  <2>8. ReduceRead(w) => Goal
    BY <1>1 DEF ReduceRead
  <2>9. ReducePrint(w) \/ CreateFails(w) => Goal
    BY <1>1 DEF ReducePrint, CreateFails, Stage
  <2>10. Fail(w) \/ Panic(w) => Goal
    BY <1>1 DEF Fail, Panic, Stage
  <2>11. HeartbeatLoad(w) => Goal
    BY <1>5 DEF HeartbeatLoad
  <2>12. Goal
    BY <1>9, <2>2, <2>3, <2>4, <2>5, <2>6, <2>7, <2>8, <2>9, <2>10, <2>11
       DEF Process, Mishap
  <2>13. QED
    BY <2>12 DEF WorkerTypes, H
<1>10. QED
  BY <1>6, <1>7, <1>8, <1>9 DEF Next

\* os.Create and Encode in doMap change one file.
LEMMA WriteFile ==
    ASSUME FileTypes, NEW t \in Item, NEW y, NEW v \in {"empty", "full"},
           inter' = [inter EXCEPT ![t][y] = v]
    PROVE  /\ inter' \in [Item -> [Part -> {"absent", "empty", "full"}]]
           /\ \A u \in Item \ {t} : inter'[u] = inter[u]
<1> DEFINE row == [inter[t] EXCEPT ![y] = v]
<1>1. inter \in [Item -> [Part -> {"absent", "empty", "full"}]]
  BY DEF FileTypes
<1>2. inter[t] \in [Part -> {"absent", "empty", "full"}]
  BY <1>1
<1>3. row \in [Part -> {"absent", "empty", "full"}]
  BY <1>2
<1>4. inter' = [inter EXCEPT ![t] = row]
  OBVIOUS
<1>5. QED
  <2> HIDE DEF row
  <2> QED BY <1>1, <1>3, <1>4

\* The files and the history keep their types.
LEMMA FileTypesStep ==
    ASSUME IInv, Next
    PROVE  FileTypes' /\ HistoryTypes'
<1>1. FileTypes /\ HistoryTypes /\ MaxMishaps \in Nat
  BY SizeAssumption DEF IInv, TypeOK
<1>2. UNCHANGED <<fileVars, history, mishaps>> => FileTypes' /\ HistoryTypes'
  BY <1>1 DEF fileVars, history, FileTypes, HistoryTypes
<1>3. /\ CountMishap => mishaps' \in 0 .. MaxMishaps
      /\ CountLate => mishaps' \in 0 .. MaxMishaps
  BY <1>1 DEF CountMishap, CountLate, HistoryTypes
<1>4. \A w, t : Retry(w, t) => FileTypes' /\ HistoryTypes'
  BY <1>1 DEF Retry, fileVars, FileTypes, HistoryTypes
<1>5. UNCHANGED <<fileVars, history>> /\ (CountMishap \/ CountLate)
         => FileTypes' /\ HistoryTypes'
  BY <1>1, <1>3 DEF fileVars, history, FileTypes, HistoryTypes
<1>6. CASE Scheduler
  BY <1>2, <1>6 DEF Scheduler, Send, StartReduce, JobDone, GiveUp
<1>7. CASE Handler
  BY <1>2, <1>4, <1>7 DEF Handler, LateSetTaskState, StoreNew, StoreRetry, HeartbeatStore
<1>8. CASE Monitor
  BY <1>2, <1>5, <1>8 DEF Monitor, MonitorFails, MonitorLook, MonitorMark
<1>9. ASSUME NEW w \in Worker, Process(w) \/ Mishap(w)
      PROVE  FileTypes' /\ HistoryTypes'
  <2>1. stage[w] \in {"encode", "map", "print", "read"} => File(w) \in Item
    <3>1. stage[w] \in {"encode", "map", "print", "read"} => tasks[held[w]] \in MRTask
      BY DEF IInv, WorkOK, WorkerOK, Working, TypeOK, MasterTypes
    <3>2. QED
      BY <3>1 DEF File, MRTask
  <2>2a. stage[w] \in {"map", "encode"} => held[w] \in Item
    <3>1. stage[w] \in {"map", "encode"} => held[w] \in DOMAIN tasks
      BY DEF IInv, WorkOK, WorkerOK, Working
    <3>2. DOMAIN tasks \subseteq Item
      BY SizeAssumption DEF IInv, TypeOK, MasterTypes, Item, NItem
    <3>3. QED
      BY <3>1, <3>2
  <2>2. got[w] \subseteq Item
    BY DEF IInv, TypeOK, WorkerTypes
  <2>3. MapCreate(w) => FileTypes' /\ HistoryTypes'
    <3>1. MapCreate(w) => inter' \in [Item -> [Part -> {"absent", "empty", "full"}]]
      BY <1>1, <2>2a, WriteFile DEF MapCreate
    <3>2. QED
      BY <1>1, <3>1 DEF MapCreate, FileTypes, HistoryTypes, history
  <2>4. MapEncode(w) => FileTypes' /\ HistoryTypes'
    <3>1a. MapEncode(w) => inter' \in [Item -> [Part -> {"absent", "empty", "full"}]]
      BY <1>1, <2>2a, WriteFile DEF MapEncode
    <3>1. MapEncode(w) => FileTypes'
      BY <1>1, <3>1a DEF MapEncode, FileTypes
    <3>2. MapEncode(w) => HistoryTypes'
      BY <1>1, <2>1 DEF MapEncode, HistoryTypes
    <3>3. QED
      BY <3>1, <3>2
  <2>5. ReduceCreate(w) => FileTypes' /\ HistoryTypes'
    BY <1>1 DEF ReduceCreate, FileTypes, HistoryTypes, history
  <2>6. ReducePrint(w) => FileTypes' /\ HistoryTypes'
    <3>1. ReducePrint(w) => FileTypes'
      BY <1>1, <2>2 DEF ReducePrint, FileTypes
    <3>2. ReducePrint(w) => HistoryTypes'
      BY <1>1, <2>1 DEF ReducePrint, HistoryTypes
    <3>3. QED
      BY <3>1, <3>2
  <2>7. Panic(w) \/ CreateFails(w) => FileTypes' /\ HistoryTypes'
    BY <1>1, <1>3, <2>1 DEF Panic, CreateFails, fileVars, FileTypes, HistoryTypes
  <2>8. Begin(w) \/ Finish(w) \/ Fail(w) \/ HeartbeatLoad(w) \/ GetRetryLook(w) \/ Crash(w)
        => FileTypes' /\ HistoryTypes'
    BY <1>5 DEF Begin, Finish, Fail, HeartbeatLoad, GetRetryLook, Crash
  <2>9. GetRetry(w) => FileTypes' /\ HistoryTypes'
    BY <1>4 DEF GetRetry
  <2>10. \/ GetBlocks(w) \/ GetNothing(w) \/ GetTimeout(w) \/ ReduceGlob(w)
         \/ ReduceRead(w) \/ Abort(w)
         => FileTypes' /\ HistoryTypes'
    BY <1>2 DEF GetBlocks, GetNothing, GetTimeout, ReduceGlob, ReduceRead, Abort
  <2>11. QED
    BY <1>9, <2>3, <2>4, <2>5, <2>6, <2>7, <2>8, <2>9, <2>10 DEF Process, Mishap
<1>10. QED
  BY <1>6, <1>7, <1>8, <1>9 DEF Next
---------------------------------------------------------------------------
(* Workers and files.                                                      *)

\* Every step leaves workers with tasks for what they do.
LEMMA WorkStep ==
    ASSUME IInv, Next
    PROVE  WorkOK'
<1>1. /\ \A v \in Worker : WorkerOK(v)
      /\ stage \in [Worker -> Stage] /\ held \in [Worker -> DOMAIN tasks \cup {Nobody}]
      /\ \A t \in DOMAIN tasks : tasks[t].phase \in Phase
  <2>1. \A t \in DOMAIN tasks : tasks[t] \in MRTask
    BY DEF IInv, TypeOK, MasterTypes
  <2>2. QED
    BY <2>1 DEF IInv, WorkOK, TypeOK, WorkerTypes, MRTask
<1>2. Grows
  BY AlwaysGrows
<1>3. \A v \in Worker : stage'[v] = stage[v] /\ held'[v] = held[v] => WorkerOK(v)'
  BY <1>1, <1>2 DEF WorkerOK, Grows, Working
<1>4. \A v \in Worker : stage'[v] \in {"out", "ask", "chan", "wait"} => WorkerOK(v)'
  BY DEF WorkerOK, Working
<1>5. \A v \in Worker : stage'[v] = "got" /\ held'[v] \in DOMAIN tasks' => WorkerOK(v)'
  BY DEF WorkerOK
<1>6. \A v \in Worker :
         /\ stage[v] \in Working \cup {"fin", "failing"}
         /\ stage'[v] \in {"fin", "failing"} /\ held'[v] = held[v]
         => WorkerOK(v)'
  BY <1>1, <1>2 DEF WorkerOK, Grows, Working
<1>7. UNCHANGED <<stage, held>> => WorkOK'
  BY <1>3 DEF WorkOK
<1>8. \A v, t : t \in DOMAIN tasks' /\ Reply(v, t) => WorkOK'
  <2> SUFFICES ASSUME NEW v, NEW t \in DOMAIN tasks', Reply(v, t), NEW u \in Worker
               PROVE  WorkerOK(u)'
    BY DEF WorkOK
  <2>1. IF u = v THEN stage'[u] = "got" /\ held'[u] = t
                 ELSE stage'[u] = stage[u] /\ held'[u] = held[u]
    BY DEF Reply
  <2>2. QED
    BY <1>3, <1>5, <2>1
<1>9. CASE Scheduler
  <2>1. CASE Send
    <3>1. \A v \in Worker : /\ held'[v] = held[v]
                            /\ stage'[v] = stage[v] \/ stage'[v] = "wait"
      BY <1>1, <2>1 DEF Send
    <3>2. QED
      BY <1>3, <1>4, <3>1 DEF WorkOK
  <2>2. QED
    BY <1>7, <1>9, <2>1 DEF Scheduler, StartReduce, JobDone, GiveUp, workerVars
<1>10. CASE Handler
  <2>1. ASSUME NEW c \in calls, StoreNew(c)  PROVE WorkOK'
    <3>1. Len(tasks) + 1 \in DOMAIN tasks'
      BY <2>1, Stored
    <3>2. QED
      BY <1>8, <2>1, <3>1 DEF StoreNew
  <2>2. ASSUME NEW c \in calls, StoreRetry(c)  PROVE WorkOK'
    <3>1. c.arg \in DOMAIN tasks'
      BY <1>2, <2>2 DEF StoreRetry, IInv, HandlersOK, Grows
    <3>2. QED
      BY <1>8, <2>2, <3>1 DEF StoreRetry, Retry
  <2>3. QED
    BY <1>7, <1>10, <2>1, <2>2 DEF Handler, LateSetTaskState, HeartbeatStore, workerVars
<1>11. CASE Monitor
  BY <1>7, <1>11 DEF Monitor, MonitorFails, MonitorLook, MonitorMark, workerVars
<1>12. ASSUME NEW w \in Worker, Process(w) \/ Mishap(w)
       PROVE  WorkOK'
  <2> DEFINE To(s) == stage' = [stage EXCEPT ![w] = s] /\ held' = held
  <2>1. \A s : To(s) /\ WorkerOK(w)' => WorkOK'
    BY <1>1, <1>3 DEF WorkOK
  <2>2. \A s : To(s) => stage'[w] = s /\ held'[w] = held[w]
    BY <1>1
  <2>3. Exit(w) => WorkOK'
    <3>1. Exit(w) => stage'[w] = "out"
                     /\ \A v \in Worker \ {w} : stage'[v] = stage[v] /\ held'[v] = held[v]
      BY <1>1 DEF Exit
    <3>2. QED
      BY <1>3, <1>4, <3>1 DEF WorkOK
  <2>4. GetNothing(w) \/ GetTimeout(w) \/ Abort(w) \/ Crash(w) => WorkOK'
    BY <2>3 DEF GetNothing, GetTimeout, Abort, Crash
  <2>5. GetRetry(w) => WorkOK'
    BY <1>2, <1>8 DEF GetRetry, Retry, Grows
  <2>6. GetBlocks(w) \/ GetRetryLook(w) \/ Finish(w) => WorkOK'
    <3>1. GetBlocks(w) => To("chan")
      BY DEF GetBlocks
    <3>2. GetRetryLook(w) => To("wait")
      BY DEF GetRetryLook
    <3>3. Finish(w) => To("ask")
      BY DEF Finish
    <3>4. QED
      BY <1>4, <2>1, <2>2, <3>1, <3>2, <3>3
  <2>7. HeartbeatLoad(w) \/ ReduceRead(w) => WorkOK'
    BY <1>7 DEF HeartbeatLoad, ReduceRead, workerVars
  <2>8. ASSUME Begin(w)  PROVE WorkOK'
    <3>1. held[w] \in DOMAIN tasks
      BY <1>1, <2>8 DEF Begin, WorkerOK, Working
    <3>2. tasks[held[w]].phase \in {"Map", "Reduce"}
      BY <1>1, <3>1 DEF Phase
    <3>3. CASE tasks[held[w]].phase = "Map"
      <4>1. To("map")
        BY <2>8, <3>3 DEF Begin
      <4>2. WorkerOK(w)'
        BY <1>2, <2>2, <3>1, <3>3, <4>1 DEF WorkerOK, Grows
      <4>3. QED
        BY <2>1, <4>1, <4>2
    <3>4. CASE tasks[held[w]].phase = "Reduce"
      <4>1. To("reduce")
        BY <2>8, <3>4 DEF Begin
      <4>2. WorkerOK(w)'
        BY <1>2, <2>2, <3>1, <3>4, <4>1 DEF WorkerOK, Grows
      <4>3. QED
        BY <2>1, <4>1, <4>2
    <3>5. QED
      BY <3>2, <3>3, <3>4
  <2>9. MapCreate(w) \/ MapEncode(w) => WorkOK'
    <3>1. MapCreate(w) => stage[w] = "map" /\ To("encode")
      BY DEF MapCreate
    <3>2. MapEncode(w) => stage[w] = "encode" /\ (To("map") \/ To("fin"))
      BY DEF MapEncode
    <3>3. stage[w] \in {"map", "encode"} /\ (To("map") \/ To("encode") \/ To("fin"))
             => WorkerOK(w)'
      BY <1>1, <1>2, <2>2 DEF WorkerOK, Grows, Working
    <3>4. QED
      BY <2>1, <3>1, <3>2, <3>3
  <2>10. ReduceGlob(w) \/ ReduceCreate(w) \/ ReducePrint(w) \/ CreateFails(w) => WorkOK'
    <3>1. ReduceGlob(w) => stage[w] = "reduce" /\ To("read")
      BY DEF ReduceGlob
    <3>2. ReduceCreate(w) => stage[w] = "read" /\ To("print")
      BY DEF ReduceCreate
    <3>3. ReducePrint(w) => stage[w] = "print" /\ To("fin")
      BY DEF ReducePrint
    <3>4. CreateFails(w) => stage[w] = "read" /\ To("fin")
      BY DEF CreateFails
    <3>5. stage[w] \in {"reduce", "read", "print"} /\ (To("read") \/ To("print") \/ To("fin"))
             => WorkerOK(w)'
      BY <1>1, <1>2, <2>2 DEF WorkerOK, Grows, Working
    <3>6. QED
      BY <2>1, <3>1, <3>2, <3>3, <3>4, <3>5
  <2>11. Fail(w) \/ Panic(w) => WorkOK'
    <3>1. Fail(w) => stage[w] \in Working /\ To("failing")
      BY DEF Fail, Working
    <3>2. Panic(w) => stage[w] \in Working /\ To("fin")
      BY DEF Panic, Working
    <3>3. QED
      BY <1>6, <2>1, <2>2, <3>1, <3>2
  <2>12. QED
    BY <1>12, <2>4, <2>5, <2>6, <2>7, <2>8, <2>9, <2>10, <2>11 DEF Process, Mishap
<1>13. QED
  BY <1>9, <1>10, <1>11, <1>12 DEF Next

\* Work that is over stays over.
LEMMA OverStays ==
    ASSUME Next
    PROVE  Over \subseteq Over'
<1>1. UNCHANGED history => ran \subseteq ran' /\ lost \subseteq lost'
  BY DEF history
<1>2. Scheduler => ran \subseteq ran' /\ lost \subseteq lost'
  BY <1>1 DEF Scheduler, Send, StartReduce, JobDone, GiveUp
<1>3. Handler => ran \subseteq ran' /\ lost \subseteq lost'
  BY <1>1 DEF Handler, LateSetTaskState, StoreNew, StoreRetry, Retry, HeartbeatStore
<1>4. Monitor => ran \subseteq ran' /\ lost \subseteq lost'
  BY <1>1 DEF Monitor, MonitorFails, MonitorLook, MonitorMark
<1>5. \A w \in Worker : Process(w) => ran \subseteq ran' /\ lost \subseteq lost'
  BY <1>1 DEF Process, GetRetry, Retry, GetBlocks, GetNothing, GetTimeout, Begin,
     MapCreate, MapEncode, ReduceGlob, ReduceRead, ReduceCreate, ReducePrint, Finish, Abort
<1>6. \A w \in Worker : Mishap(w) => ran \subseteq ran' /\ lost \subseteq lost'
  BY <1>1 DEF Mishap, HeartbeatLoad, GetRetryLook, Crash, Fail, Panic, CreateFails
<1>7. ran \subseteq ran' /\ lost \subseteq lost'
  BY <1>2, <1>3, <1>4, <1>5, <1>6 DEF Next
<1>8. QED
  BY <1>7 DEF Over

\* What a step may do to the table, to the calls of handlers and to workers
\* without recording Finish for work that is not over.
LEMMA OverRules ==
    ASSUME IInv, Next
    PROVE  /\ UNCHANGED tasks => TasksOver'
           /\ \A t \in DOMAIN tasks, s \in TaskState :
                 /\ tasks' = SetTaskState(tasks, t, s)
                 /\ s = "Finish" => tasks[t].file \in Over
                 => TasksOver'
           /\ beats' \subseteq beats => BeatsOver'
           /\ late' \subseteq late => LateOver'
           /\ \A t \in DOMAIN tasks, s \in TaskState :
                 setTaskState(t, s) /\ (s = "Finish" => tasks[t].file \in Over)
                 => TasksOver' /\ LateOver'
           /\ (\A v \in Worker : stage'[v] = "fin" => stage[v] = "fin" /\ held'[v] = held[v])
                 => WorkOver'
<1>1. /\ TasksOver /\ BeatsOver /\ LateOver /\ WorkOver
      /\ Over \subseteq Over'
  BY OverStays DEF IInv, FinishOK
<1>2. tasks \in Seq(MRTask) /\ Grows /\ late \subseteq [task : DOMAIN tasks, state : TaskState]
  BY AlwaysGrows DEF IInv, TypeOK, MasterTypes, HandlerTypes
<1>3. UNCHANGED tasks => TasksOver'
  BY <1>1 DEF TasksOver
<1>4. ASSUME NEW t \in DOMAIN tasks, NEW s \in TaskState,
             tasks' = SetTaskState(tasks, t, s), s = "Finish" => tasks[t].file \in Over
      PROVE  TasksOver'
  <2>1. tasks[t] \in MRTask
    BY <1>2
  <2>2. [tasks[t] EXCEPT !.state = s].state = s /\
        [tasks[t] EXCEPT !.state = s].file = tasks[t].file
    BY <2>1 DEF MRTask
  <2>3. /\ DOMAIN tasks' = DOMAIN tasks
        /\ tasks'[t] = [tasks[t] EXCEPT !.state = s]
        /\ \A u \in DOMAIN tasks \ {t} : tasks'[u] = tasks[u]
    BY <1>2, <1>4, SetState
  <2>4. tasks'[t].state = "Finish" => tasks'[t].file \in Over'
    BY <1>1, <1>4, <2>2, <2>3
  <2>5. \A u \in DOMAIN tasks \ {t} :
           tasks'[u].state = "Finish" => tasks'[u].file \in Over'
    BY <1>1, <2>3 DEF TasksOver
  <2>6. QED
    BY <2>3, <2>4, <2>5 DEF TasksOver
<1>5. beats' \subseteq beats => BeatsOver'
  BY <1>1 DEF BeatsOver
<1>6. \A l \in late : l.state = "Finish" => tasks'[l.task].file \in Over'
  BY <1>1, <1>2 DEF LateOver, Grows
<1>7. late' \subseteq late => LateOver'
  BY <1>6 DEF LateOver
<1>8. ASSUME NEW t \in DOMAIN tasks, NEW s \in TaskState, setTaskState(t, s),
             s = "Finish" => tasks[t].file \in Over
      PROVE  TasksOver' /\ LateOver'
  <2>1. CASE tasks' = SetTaskState(tasks, t, s) /\ UNCHANGED late
    BY <1>4, <1>7, <1>8, <2>1
  <2>2. CASE late' = late \cup {[task |-> t, state |-> s]} /\ UNCHANGED tasks
    <3>1. s = "Finish" => tasks'[t].file \in Over'
      BY <1>1, <1>8, <2>2
    <3>2. LateOver'
      BY <1>6, <2>2, <3>1 DEF LateOver
    <3>3. QED
      BY <1>3, <2>2, <3>2
  <2>3. QED
    BY <1>8, <2>1, <2>2 DEF setTaskState
<1>9. ASSUME \A v \in Worker : stage'[v] = "fin" => stage[v] = "fin" /\ held'[v] = held[v]
      PROVE  WorkOver'
  <2> SUFFICES ASSUME NEW v \in Worker, stage'[v] = "fin"
               PROVE  tasks'[held'[v]].file \in Over'
    BY DEF WorkOver, File
  <2>1. stage[v] = "fin" /\ held'[v] = held[v]
    BY <1>9
  <2>2. held[v] \in DOMAIN tasks /\ tasks[held[v]].file \in Over
    BY <1>1, <2>1 DEF WorkOver, File, IInv, WorkOK, WorkerOK
  <2>3. QED
    BY <1>1, <1>2, <2>1, <2>2 DEF Grows
<1>10. QED
  BY <1>3, <1>4, <1>5, <1>7, <1>8, <1>9

\* Every step records Finish only for work that is over.
LEMMA FinishStep ==
    ASSUME IInv, Next
    PROVE  FinishOK'
<1> DEFINE NoneFinishes == \A v \in Worker : stage'[v] = "fin" => stage[v] = "fin"
                                                                  /\ held'[v] = held[v]
<1>1. /\ UNCHANGED tasks => TasksOver'
      /\ \A t \in DOMAIN tasks, s \in TaskState :
            /\ tasks' = SetTaskState(tasks, t, s)
            /\ s = "Finish" => tasks[t].file \in Over
            => TasksOver'
      /\ beats' \subseteq beats => BeatsOver'
      /\ late' \subseteq late => LateOver'
      /\ \A t \in DOMAIN tasks, s \in TaskState :
            setTaskState(t, s) /\ (s = "Finish" => tasks[t].file \in Over)
            => TasksOver' /\ LateOver'
      /\ NoneFinishes => WorkOver'
  BY OverRules
<1>2. /\ stage \in [Worker -> Stage] /\ held \in [Worker -> DOMAIN tasks \cup {Nobody}]
      /\ {"Sending", "Running", "Finish", "Err"} \subseteq TaskState
  BY DEF IInv, TypeOK, WorkerTypes, TaskState
<1>3. TasksOver /\ BeatsOver /\ LateOver /\ WorkOver /\ Over \subseteq Over' /\ Grows
  BY OverStays, AlwaysGrows DEF IInv, FinishOK
<1>4. \A v, t : Reply(v, t) => NoneFinishes
  BY DEF Reply
<1>5. UNCHANGED <<stage, held>> => NoneFinishes
  OBVIOUS
<1>6. \A v : \A t \in DOMAIN tasks : Retry(v, t) => TasksOver' /\ BeatsOver' /\ LateOver' /\ WorkOver'
  BY <1>1, <1>2, <1>4 DEF Retry
<1>7. UNCHANGED <<tasks, beats, late>> /\ NoneFinishes => FinishOK'
  BY <1>1 DEF FinishOK
<1>8. CASE Scheduler
  <2>1. Send => NoneFinishes
    BY <1>2 DEF Send
  <2>2. QED
    BY <1>5, <1>7, <1>8, <2>1 DEF Scheduler, Send, StartReduce, JobDone, GiveUp, handlers, workerVars
<1>9. CASE Handler
  <2>1. ASSUME NEW l \in late, LateSetTaskState(l)  PROVE FinishOK'
    <3>1. l.task \in DOMAIN tasks /\ l.state \in TaskState
      BY DEF IInv, TypeOK, HandlerTypes
    <3>2. l.state = "Finish" => tasks[l.task].file \in Over
      BY <1>3 DEF LateOver
    <3>3. TasksOver'
      BY <1>1, <2>1, <3>1, <3>2 DEF LateSetTaskState
    <3>4. QED
      BY <1>1, <1>5, <2>1, <3>3 DEF LateSetTaskState, FinishOK, workerVars
  <2>2. ASSUME NEW c \in calls, StoreNew(c)  PROVE FinishOK'
    <3>1. tasks'[Len(tasks) + 1].state = "Sending"
      <4>1. tasks'[Len(tasks) + 1] =
               [file |-> c.arg, phase |-> mrPhase, state |-> "Sending"]
        BY <2>2, Stored
      <4>2. QED
        BY <4>1
    <3>2. /\ DOMAIN tasks' = DOMAIN tasks \cup {Len(tasks) + 1}
          /\ \A t \in DOMAIN tasks : tasks'[t] = tasks[t]
      BY <2>2, Stored
    <3>3. TasksOver'
      BY <1>3, <3>1, <3>2 DEF TasksOver
    <3>4. NoneFinishes
      BY <1>4, <2>2 DEF StoreNew
    <3>5. QED
      BY <1>1, <2>2, <3>3, <3>4 DEF StoreNew, FinishOK
  <2>3. ASSUME NEW c \in calls, StoreRetry(c)  PROVE FinishOK'
    BY <1>6, <2>3 DEF StoreRetry, FinishOK, IInv, HandlersOK
  <2>4. ASSUME NEW b \in beats, HeartbeatStore(b)  PROVE FinishOK'
    <3>1. b.task \in DOMAIN tasks /\ tasks \in Seq(MRTask)
      BY DEF IInv, TypeOK, HandlerTypes, MasterTypes
    <3>2. b.rec.state = "Finish" => b.rec.file \in Over
      BY <1>3 DEF BeatsOver
    <3>3. /\ DOMAIN tasks' = DOMAIN tasks /\ tasks'[b.task] = b.rec
          /\ \A t \in DOMAIN tasks \ {b.task} : tasks'[t] = tasks[t]
      BY <2>4, <3>1 DEF HeartbeatStore
    <3>4. TasksOver'
      BY <1>3, <3>2, <3>3 DEF TasksOver
    <3>5. QED
      BY <1>1, <1>5, <2>4, <3>4 DEF HeartbeatStore, FinishOK, workerVars
  <2>5. QED
    BY <1>9, <2>1, <2>2, <2>3, <2>4 DEF Handler
<1>10. CASE Monitor
  <2>1. \A t \in DOMAIN tasks : MonitorFails(t) => FinishOK'
    BY <1>1, <1>2, <1>5 DEF MonitorFails, handlers, workerVars, FinishOK
  <2>2. \A t \in DOMAIN tasks : MonitorLook(t) => FinishOK'
    BY <1>5, <1>7 DEF MonitorLook, workerVars
  <2>3. MonitorMark => FinishOK'
    <3>1. MonitorMark => mon \in DOMAIN tasks
      BY DEF MonitorMark, IInv, TypeOK, HandlerTypes
    <3>2. QED
      BY <1>1, <1>2, <1>5, <3>1 DEF MonitorMark, workerVars, FinishOK
  <2>4. QED
    BY <1>10, <2>1, <2>2, <2>3 DEF Monitor
<1>11. ASSUME NEW w \in Worker, Process(w) \/ Mishap(w)
       PROVE  FinishOK'
  <2>1. stage[w] \in Working \cup {"fin", "failing"} => held[w] \in DOMAIN tasks
    BY DEF IInv, WorkOK, WorkerOK
  <2>2. \A s : s # "fin" /\ stage' = [stage EXCEPT ![w] = s] /\ held' = held => NoneFinishes
    BY <1>2
  <2>3. Exit(w) => NoneFinishes
    BY <1>2 DEF Exit
  <2>4. /\ stage' = [stage EXCEPT ![w] = "fin"] /\ UNCHANGED <<tasks, held>>
        /\ File(w) \in Over'
        => WorkOver'
    <3> SUFFICES ASSUME stage' = [stage EXCEPT ![w] = "fin"], UNCHANGED <<tasks, held>>,
                        File(w) \in Over', NEW v \in Worker, stage'[v] = "fin"
                 PROVE  tasks[held[v]].file \in Over'
      BY DEF WorkOver, File
    <3>1. CASE v = w
      BY <3>1 DEF File
    <3>2. CASE v # w
      BY <1>2, <1>3, <3>2 DEF WorkOver, File
    <3>3. QED
      BY <3>1, <3>2
  <2>5. GetNothing(w) \/ GetTimeout(w) \/ Crash(w) => FinishOK'
    BY <1>7, <2>3 DEF GetNothing, GetTimeout, Crash
  <2>6. Abort(w) => FinishOK'
    BY <1>1, <1>2, <2>1, <2>3 DEF Abort, FinishOK
  <2>7. GetRetry(w) => FinishOK'
    BY <1>6 DEF GetRetry, FinishOK
  <2>8. GetBlocks(w) \/ GetRetryLook(w) => FinishOK'
    BY <1>7, <2>2 DEF GetBlocks, GetRetryLook, handlers
  <2>9. Begin(w) \/ Fail(w) => FinishOK'
    <3>1. Begin(w) \/ Fail(w) => held[w] \in DOMAIN tasks /\ NoneFinishes
      BY <2>1, <2>2 DEF Begin, Fail, Working
    <3>2. QED
      BY <1>1, <1>2, <3>1 DEF Begin, Fail, FinishOK
  <2>10. Finish(w) => FinishOK'
    <3>1. Finish(w) => held[w] \in DOMAIN tasks /\ tasks[held[w]].file \in Over /\ NoneFinishes
      BY <1>3, <2>1, <2>2 DEF Finish, WorkOver, File
    <3>2. QED
      BY <1>1, <1>2, <3>1 DEF Finish, FinishOK
  <2>11. MapCreate(w) \/ ReduceGlob(w) \/ ReduceCreate(w) => FinishOK'
    BY <1>7, <2>2 DEF MapCreate, ReduceGlob, ReduceCreate, handlers
  <2>12. ReduceRead(w) => FinishOK'
    BY <1>5, <1>7 DEF ReduceRead, handlers
  <2>13. MapEncode(w) => FinishOK'
    <3>1. MapEncode(w) => WorkOver'
      BY <1>1, <2>2, <2>4 DEF MapEncode, Over
    <3>2. QED
      BY <1>1, <3>1 DEF MapEncode, FinishOK, handlers
  <2>14. ReducePrint(w) => FinishOK'
    <3>1. ReducePrint(w) => WorkOver'
      BY <2>4 DEF ReducePrint, Over
    <3>2. QED
      BY <1>1, <3>1 DEF ReducePrint, FinishOK, handlers
  <2>15. CreateFails(w) => FinishOK'
    <3>1. CreateFails(w) => WorkOver'
      BY <2>4 DEF CreateFails, Over
    <3>2. QED
      BY <1>1, <3>1 DEF CreateFails, FinishOK, handlers
  <2>16. ASSUME Panic(w)  PROVE FinishOK'
    <3>1. held[w] \in DOMAIN tasks /\ File(w) \in Over'
      BY <2>1, <2>16 DEF Panic, Working, Over
    <3>2. TasksOver' /\ LateOver'
      BY <1>1, <1>2, <2>16, <3>1 DEF Panic
    <3>3. WorkOver'
      <4> SUFFICES ASSUME NEW v \in Worker, stage'[v] = "fin"
                   PROVE  tasks'[held[v]].file \in Over'
        BY <2>16 DEF WorkOver, File, Panic
      <4>1. CASE v = w
        BY <1>3, <3>1, <4>1 DEF File, Grows
      <4>2. CASE v # w
        <5>1. stage[v] = "fin"
          BY <1>2, <2>16, <4>2 DEF Panic
        <5>2. held[v] \in DOMAIN tasks /\ tasks[held[v]].file \in Over
          BY <1>3, <5>1 DEF WorkOver, File, IInv, WorkOK, WorkerOK
        <5>3. QED
          BY <1>3, <5>2 DEF Grows
      <4>3. QED
        BY <4>1, <4>2
    <3>4. QED
      BY <1>1, <2>16, <3>2, <3>3 DEF Panic, FinishOK
  <2>17. HeartbeatLoad(w) => FinishOK'
    <3>1. HeartbeatLoad(w) => held[w] \in DOMAIN tasks
      BY <1>2 DEF HeartbeatLoad
    <3>2. HeartbeatLoad(w) => BeatsOver'
      BY <1>3, <3>1 DEF HeartbeatLoad, BeatsOver, TasksOver
    <3>3. QED
      BY <1>1, <1>5, <3>2 DEF HeartbeatLoad, FinishOK, workerVars
  <2>18. QED
    BY <1>11, <2>5, <2>6, <2>7, <2>8, <2>9, <2>10, <2>11, <2>12, <2>13, <2>14, <2>15,
       <2>16, <2>17 DEF Process, Mishap
<1>12. QED
  BY <1>8, <1>9, <1>10, <1>11 DEF Next
---------------------------------------------------------------------------
(* The files.                                                              *)

\* Every step leaves only files of map tasks, and reads only these.
LEMMA FilesStep ==
    ASSUME IInv, Next
    PROVE  FilesOK'
<1> DEFINE ReadsLess == \A v \in Worker :
              /\ got'[v] \subseteq got[v]
              /\ stage'[v] = "read" => stage[v] = "read" /\ todo'[v] \subseteq todo[v]
<1>1. MapTasks \subseteq MapTasks'
  BY AlwaysGrows DEF Grows, MapTasks
<1>2. WritesOK /\ ReadsOK /\ PrintsOK
  BY DEF IInv, FilesOK
<1>3. /\ UNCHANGED inter => WritesOK'
      /\ UNCHANGED out => PrintsOK'
  BY <1>1, <1>2 DEF WritesOK, PrintsOK
<1>4. ReadsLess => ReadsOK'
  BY <1>1, <1>2 DEF ReadsOK
<1>5. UNCHANGED fileVars /\ ReadsLess => FilesOK'
  BY <1>3, <1>4 DEF FilesOK, fileVars
<1>6. UNCHANGED workerVars => ReadsLess
  BY DEF workerVars, workVars
<1>7. /\ stage \in [Worker -> Stage]
      /\ todo \in [Worker -> SUBSET Item] /\ got \in [Worker -> SUBSET Item]
  BY DEF IInv, TypeOK, WorkerTypes
<1>8. \A v, t : Retry(v, t) => FilesOK'
  <2>1. \A v, t : Retry(v, t) => ReadsLess
    BY DEF Retry, Reply, workVars
  <2>2. QED
    BY <1>5, <2>1 DEF Retry
<1>9. CASE Scheduler
  <2>1. Send => ReadsLess
    BY <1>7 DEF Send, workVars
  <2>2. QED
    BY <1>5, <1>6, <1>9, <2>1 DEF Scheduler, Send, StartReduce, JobDone, GiveUp
<1>10. CASE Handler
  <2>1. \A c : StoreNew(c) => FilesOK'
    <3>1. \A c : StoreNew(c) => ReadsLess
      BY DEF StoreNew, Reply, workVars
    <3>2. QED
      BY <1>5, <3>1 DEF StoreNew
  <2>2. QED
    BY <1>5, <1>6, <1>8, <1>10, <2>1 DEF Handler, LateSetTaskState, StoreRetry, HeartbeatStore
<1>11. CASE Monitor
  BY <1>5, <1>6, <1>11 DEF Monitor, MonitorFails, MonitorLook, MonitorMark
<1>12. ASSUME NEW w \in Worker, Process(w) \/ Mishap(w)
       PROVE  FilesOK'
  <2>1. \A s : s # "read" /\ stage' = [stage EXCEPT ![w] = s] /\ UNCHANGED got
               /\ (\A v \in Worker \ {w} : todo'[v] = todo[v])
               => ReadsLess
    BY <1>7
  <2>2. \A s : s # "read" /\ stage' = [stage EXCEPT ![w] = s]
               /\ got' = [got EXCEPT ![w] = {}]
               /\ (\A v \in Worker \ {w} : todo'[v] = todo[v])
               => ReadsLess
    BY <1>7
  <2>3. \A S : todo' = [todo EXCEPT ![w] = S] => \A v \in Worker \ {w} : todo'[v] = todo[v]
    BY <1>7
  <2>4. Exit(w) => ReadsLess
    BY <2>2, <2>3 DEF Exit
  <2>5. GetNothing(w) \/ GetTimeout(w) \/ Crash(w) \/ Abort(w) => FilesOK'
    BY <1>5, <2>4 DEF GetNothing, GetTimeout, Crash, Abort
  <2>6. GetRetry(w) => FilesOK'
    BY <1>8 DEF GetRetry
  <2>7. GetBlocks(w) \/ GetRetryLook(w) \/ Finish(w) => FilesOK'
    BY <1>5, <2>1 DEF GetBlocks, GetRetryLook, Finish, workVars
  <2>8. Begin(w) => FilesOK'
    BY <1>5, <2>1, <2>3 DEF Begin
  <2>9. Fail(w) \/ Panic(w) \/ CreateFails(w) => FilesOK'
    BY <1>5, <2>2, <2>3 DEF Fail, Panic, CreateFails
  <2>10. HeartbeatLoad(w) => FilesOK'
    BY <1>5, <1>6 DEF HeartbeatLoad
  <2>11. ASSUME MapCreate(w) \/ MapEncode(w)  PROVE FilesOK'
    <3>1. held[w] \in MapTasks
      BY <2>11 DEF MapCreate, MapEncode, IInv, WorkOK, WorkerOK, Working, MapTasks
    <3>2. held[w] \in Item
      BY <3>1, SizeAssumption DEF MapTasks, IInv, TypeOK, MasterTypes, Item, NItem
    <3>3. FileTypes
      BY DEF IInv, TypeOK
    <3>4. \A u \in Item \ {held[w]} : inter'[u] = inter[u]
      BY <2>11, <3>2, <3>3, WriteFile DEF MapCreate, MapEncode
    <3>5. WritesOK'
      BY <1>1, <1>2, <3>1, <3>4 DEF WritesOK
    <3>6. ReadsLess
      BY <2>1, <2>3, <2>11 DEF MapCreate, MapEncode, workVars
    <3>7. QED
      BY <1>3, <1>4, <2>11, <3>5, <3>6 DEF MapCreate, MapEncode, FilesOK
  <2>12. ASSUME ReduceGlob(w)  PROVE FilesOK'
    <3>1. Part0(File(w)) \in Part
      <4>1. held[w] \in DOMAIN tasks /\ tasks[held[w]].phase = "Reduce"
        BY <2>12 DEF ReduceGlob, IInv, WorkOK, WorkerOK, Working
      <4>2. tasks[held[w]] \in MRTask /\ ~(tasks[held[w]].file <= NFiles)
        BY <4>1 DEF IInv, TypeOK, MasterTypes, QueueOK
      <4>3. File(w) \in Item
        BY <4>2 DEF MRTask, File
      <4>4. QED
        BY <4>2, <4>3, SizeAssumption DEF File, Part0, Part, Item, NItem
    <3>2. todo'[w] \subseteq MapTasks /\ UNCHANGED got
      BY <1>2, <1>7, <2>12, <3>1 DEF ReduceGlob, WritesOK
    <3>3. \A v \in Worker \ {w} : todo'[v] = todo[v] /\ stage'[v] = stage[v]
      BY <1>7, <2>12 DEF ReduceGlob
    <3>4. ReadsOK'
      BY <1>1, <1>2, <3>2, <3>3 DEF ReadsOK
    <3>5. QED
      BY <1>3, <2>12, <3>4 DEF ReduceGlob, FilesOK, fileVars
  <2>13. ASSUME ReduceRead(w)  PROVE FilesOK'
    <3>1. todo[w] \subseteq MapTasks /\ got[w] \subseteq MapTasks
      BY <1>2, <2>13 DEF ReadsOK, ReduceRead
    <3>2. todo'[w] \subseteq MapTasks /\ got'[w] \subseteq MapTasks /\ UNCHANGED stage
      BY <1>7, <2>13, <3>1 DEF ReduceRead
    <3>3. \A v \in Worker \ {w} : todo'[v] = todo[v] /\ got'[v] = got[v]
      BY <1>7, <2>13 DEF ReduceRead
    <3>4. ReadsOK'
      BY <1>1, <1>2, <3>2, <3>3 DEF ReadsOK
    <3>5. QED
      BY <1>3, <2>13, <3>4 DEF ReduceRead, FilesOK, fileVars
  <2>14. ASSUME ReduceCreate(w) \/ ReducePrint(w)  PROVE FilesOK'
    <3>1. out \in [Part -> SUBSET (Item \cup Torn)] /\ got[w] \subseteq MapTasks
      BY <1>2 DEF IInv, TypeOK, FileTypes, ReadsOK
    <3>2. \A y \in Part : out'[y] \in {out[y], {}, got[w], Torn}
      BY <2>14, <3>1 DEF ReduceCreate, ReducePrint
    <3>3. PrintsOK'
      BY <1>1, <1>2, <3>1, <3>2 DEF PrintsOK, Torn
    <3>4. ReadsLess
      BY <2>1, <2>2, <2>14 DEF ReduceCreate, ReducePrint, workVars
    <3>5. QED
      BY <1>3, <1>4, <2>14, <3>3, <3>4 DEF ReduceCreate, ReducePrint, FilesOK
  <2>15. QED
    BY <1>12, <2>5, <2>6, <2>7, <2>8, <2>9, <2>10, <2>11, <2>12, <2>13, <2>14
       DEF Process, Mishap
<1>13. QED
  BY <1>9, <1>10, <1>11, <1>12 DEF Next
---------------------------------------------------------------------------
(* The invariant, and what follows from it.                                *)

\* MakeMaster and an empty working directory satisfy the invariant.
LEMMA InitIInv == Init => IInv
<1> SUFFICES ASSUME Init PROVE IInv
  OBVIOUS
<1> USE SizeAssumption
<1>1. tasks = << >> /\ DOMAIN tasks = {} /\ Len(tasks) = 0 /\ tasks \in Seq(MRTask)
  BY DEF Init
<1>2. NItem \in Nat
  BY DEF NItem
<1>3. MasterTypes /\ HandlerTypes
  <2>1. done \in BOOLEAN /\ gaveUp \in BOOLEAN
    BY DEF Init
  <2>2. mrPhase \in Phase /\ sent \in 0 .. NItem /\ Len(tasks) <= NItem
    BY <1>1, <1>2 DEF Init, Phase
  <2>3. MasterTypes
    BY <1>1, <2>1, <2>2 DEF MasterTypes
  <2>4. HandlerTypes
    BY <1>1, <1>2 DEF Init, HandlerTypes
  <2>5. QED
    BY <2>3, <2>4
<1>4. WorkerTypes /\ HistoryTypes
  BY <1>1 DEF Init, WorkerTypes, HistoryTypes, Stage
<1>5. FileTypes
  BY DEF Init, FileTypes
<1>6. QueueOK /\ HandlersOK
  BY <1>1 DEF Init, QueueOK, HandlersOK, NewCalls
<1>7. WorkOK /\ FinishOK
  BY <1>1 DEF Init, WorkOK, WorkerOK, Working, FinishOK, TasksOver, BeatsOver, LateOver, WorkOver
<1>8. FilesOK
  BY DEF Init, FilesOK, WritesOK, ReadsOK, PrintsOK
<1>9. QED
  BY <1>3, <1>4, <1>5, <1>6, <1>7, <1>8 DEF IInv, TypeOK

\* Every step of the master, of its handlers and of the workers keeps it.
LEMMA NextIInv == IInv /\ [Next]_vars => IInv'
<1>1. ASSUME IInv, Next
      PROVE  IInv'
  <2>1. MasterTypes'
    BY <1>1, MasterTypesStep
  <2>2. HandlerTypes' /\ WorkerTypes'
    BY <1>1, HandlerTypesStep, WorkerTypesStep
  <2>3. FileTypes' /\ HistoryTypes'
    BY <1>1, FileTypesStep
  <2>4. QueueOK' /\ HandlersOK'
    BY <1>1, QueueStep, HandlersStep
  <2>5. WorkOK' /\ FinishOK' /\ FilesOK'
    BY <1>1, WorkStep, FinishStep, FilesStep
  <2>6. QED
    BY <2>1, <2>2, <2>3, <2>4, <2>5 DEF IInv, TypeOK
<1>2. ASSUME IInv, UNCHANGED vars
      PROVE  IInv'
  <2>1. /\ UNCHANGED <<mrPhase, sent, done, gaveUp, tasks, ghosts, calls, beats, late, mon>>
        /\ UNCHANGED <<stage, held, todo, got, inter, out, ran, lost, clean, mishaps>>
    BY <1>2 DEF vars, schedVars, handlers, workerVars, workVars, fileVars, history
  <2>2. TypeOK'
    BY <1>2, <2>1 DEF IInv, TypeOK, MasterTypes, HandlerTypes, WorkerTypes, FileTypes,
                      HistoryTypes
  <2>3. QueueOK' /\ HandlersOK'
    <3>1. QueueOK'
      BY <1>2, <2>1 DEF IInv, QueueOK, NewCalls, IsTask
    <3>2. HandlersOK'
      BY <1>2, <2>1 DEF IInv, HandlersOK
    <3>3. QED
      BY <3>1, <3>2
  <2>4. WorkOK' /\ FinishOK'
    BY <1>2, <2>1 DEF IInv, WorkOK, WorkerOK, FinishOK, TasksOver, BeatsOver, LateOver,
                      WorkOver, Over, File
  <2>5. FilesOK'
    BY <1>2, <2>1 DEF IInv, FilesOK, WritesOK, ReadsOK, PrintsOK, MapTasks
  <2>6. QED
    BY <2>2, <2>3, <2>4, <2>5 DEF IInv
<1>3. QED
  BY <1>1, <1>2

\* The invariant holds in every job, for any number of files, reduce tasks and
\* workers, and with any number of crashes, races and late calls.
THEOREM InvariantHolds == Spec => []IInv
  BY InitIInv, NextIInv, PTL DEF Spec

\* Every variable keeps its type: the table never has more tasks than schedule
\* has items, so no handler of GetTask makes a second task of one item.
THEOREM TypesHold == Spec => []TypeOK
<1>1. IInv => TypeOK
  BY DEF IInv
<1>2. QED
  BY <1>1, InvariantHolds, PTL

\* No input is counted twice in a file mr-out.Y: what doReduce has read are
\* files of map tasks, and an input has one map task, however often it is run.
THEOREM InputsOnce == Spec => []NoInputTwice
<1>1. ASSUME IInv
      PROVE  NoInputTwice
  <2> SUFFICES ASSUME NEW y \in Part, NEW s \in out[y] \ Torn, NEW t \in out[y] \ Torn
               PROVE  /\ tasks[t].file \in Input
                      /\ tasks[s].file = tasks[t].file => s = t
    BY DEF NoInputTwice
  <2>1. s \in MapTasks /\ t \in MapTasks
    BY <1>1 DEF IInv, FilesOK, PrintsOK
  <2>2. tasks[t] \in MRTask /\ tasks[t].file <= NFiles
    BY <1>1, <2>1 DEF IInv, QueueOK, MapTasks, TypeOK, MasterTypes
  <2>3. tasks[t].file \in Item
    BY <2>2 DEF MRTask
  <2>4. tasks[t].file \in Input
    BY <2>2, <2>3, SizeAssumption DEF Item, Input, NItem
  <2>5. QED
    BY <1>1, <2>1, <2>4 DEF IInv, QueueOK, MapTasks
<1>2. QED
  BY <1>1, InvariantHolds, PTL
---------------------------------------------------------------------------
(* Refinement of Job.                                                      *)

\* When every task is finished, and no handler has an item yet to be stored,
\* the work on every item that schedule has sent is over.
LEMMA FinishedIsOver ==
    ASSUME IInv, LastIsStored, isTasksDone
    PROVE  1 .. sent \subseteq ran \cup lost
<1>1. NewCalls = {}
  BY DEF LastIsStored, NewCalls
<1>2. \A i \in 1 .. sent : IsTask(i)
  BY <1>1 DEF IInv, QueueOK
<1>3. \A t \in DOMAIN tasks : tasks[t].file \in Over
  BY DEF IInv, FinishOK, TasksOver, isTasksDone
<1>4. QED
  BY <1>2, <1>3 DEF IsTask, Over

\* The task a worker works on is of the phase the master is in or of an earlier
\* one.
LEMMA WorkIsOpen ==
    ASSUME IInv, NEW w \in Worker, stage[w] \in Working
    PROVE  File(w) \in Jobs!Open
<1>1. held[w] \in DOMAIN tasks
  BY DEF IInv, WorkOK, WorkerOK
<1>2. tasks[held[w]] \in MRTask /\ tasks[held[w]].file <= sent
  BY <1>1 DEF IInv, TypeOK, MasterTypes, QueueOK
<1>3. File(w) \in Item /\ File(w) <= sent
  BY <1>2 DEF MRTask, File
<1>4. (mrPhase = "Map" /\ sent <= NFiles) \/ mrPhase = "Reduce"
  BY DEF IInv, QueueOK, TypeOK, MasterTypes, Phase
<1>5. sent \in Nat
  BY SizeAssumption DEF IInv, TypeOK, MasterTypes, NItem
<1>6. QED
  BY <1>3, <1>4, <1>5, SizeAssumption DEF Jobs!Open, Item, Input, NItem

\* The master and its workers keep the promise of Job: schedule starts reducing
\* only when the map work on every file is over, and sets done only when the
\* reduce work is, whatever crashes, races and late calls do to the table.
THEOREM JobKept == Spec => JobIsKept
<1>1. Init => Jobs!Init
  BY SizeAssumption DEF Init, Jobs!Init, Input
<1>2. ASSUME IInv, Next
      PROVE  [Jobs!Next]_Jobs!vars
  <2> DEFINE Same == UNCHANGED <<mrPhase, ran, lost, done>>
  <2>1. Same => UNCHANGED Jobs!vars
    BY DEF Jobs!vars
  <2>2. \A v, t : Retry(v, t) => Same
    BY DEF Retry, schedVars
  <2>3. StartReduce => Jobs!StartReduce
    <3>1. StartReduce => Input \subseteq ran \cup lost
      BY <1>2, FinishedIsOver DEF StartReduce, Input
    <3>2. QED
      BY <3>1 DEF StartReduce, Jobs!StartReduce, history
  <2>4. JobDone => Jobs!Finish
    <3>1. JobDone => Item \subseteq ran \cup lost
      BY <1>2, FinishedIsOver DEF JobDone, Item, Closed
    <3>2. QED
      BY <3>1 DEF JobDone, Jobs!Finish, history, Closed
  <2>5. CASE Scheduler
    BY <2>1, <2>3, <2>4, <2>5 DEF Scheduler, Send, GiveUp, Jobs!Next, history
  <2>6. CASE Handler
    BY <2>1, <2>2, <2>6 DEF Handler, LateSetTaskState, StoreNew, StoreRetry, HeartbeatStore,
                            schedVars, history
  <2>7. CASE Monitor
    BY <2>1, <2>7 DEF Monitor, MonitorFails, MonitorLook, MonitorMark, schedVars, history
  <2>8. ASSUME NEW w \in Worker, Process(w) \/ Mishap(w)
        PROVE  [Jobs!Next]_Jobs!vars
    <3>1. stage[w] \in Working => (Jobs!Complete(File(w)) \/ Jobs!Lose(File(w)) => Jobs!Next)
      BY <1>2, WorkIsOpen DEF Jobs!Next
    <3>2. MapEncode(w) => Jobs!Complete(File(w)) \/ Same
      BY DEF MapEncode, Jobs!Complete, schedVars
    <3>3. ReducePrint(w) => Jobs!Complete(File(w))
      BY DEF ReducePrint, Jobs!Complete, schedVars
    <3>4. Panic(w) \/ CreateFails(w) => Jobs!Lose(File(w))
      BY DEF Panic, CreateFails, Jobs!Lose, schedVars
    <3>5. MapEncode(w) \/ ReducePrint(w) \/ Panic(w) \/ CreateFails(w) => stage[w] \in Working
      BY DEF MapEncode, ReducePrint, Panic, CreateFails, Working
    <3>6. MapEncode(w) \/ ReducePrint(w) \/ Panic(w) \/ CreateFails(w)
          => [Jobs!Next]_Jobs!vars
      BY <2>1, <3>1, <3>2, <3>3, <3>4, <3>5
    <3>7. \/ GetBlocks(w) \/ GetNothing(w) \/ GetTimeout(w) \/ Begin(w) \/ MapCreate(w)
          \/ ReduceGlob(w) \/ ReduceRead(w) \/ ReduceCreate(w)
          => Same
      BY DEF GetBlocks, GetNothing, GetTimeout, Begin, MapCreate, ReduceGlob, ReduceRead,
             ReduceCreate, schedVars, history
    <3>8. \/ Finish(w) \/ Abort(w) \/ HeartbeatLoad(w) \/ GetRetryLook(w) \/ Crash(w)
          \/ Fail(w) \/ GetRetry(w)
          => Same
      BY <2>2 DEF Finish, Abort, HeartbeatLoad, GetRetryLook, Crash, Fail, GetRetry,
                  schedVars, history
    <3>9. QED
      BY <2>1, <2>8, <3>6, <3>7, <3>8 DEF Process, Mishap
  <2>9. QED
    BY <1>2, <2>5, <2>6, <2>7, <2>8 DEF Next
<1>3. UNCHANGED vars => UNCHANGED Jobs!vars
  BY DEF vars, schedVars, history, Jobs!vars
<1>4. IInv /\ [Next]_vars => [Jobs!Next]_Jobs!vars
  BY <1>2, <1>3
<1>5. QED
  BY <1>1, <1>4, InvariantHolds, PTL DEF Spec, JobIsKept, Jobs!Spec
---------------------------------------------------------------------------
(* Jobs in which no task is handed out while it is worked on or after it   *)
(* was done.                                                               *)

\* A worker that a GetTask handler has something for waits for this answer.
CallersOK ==
    /\ \A c \in calls : c.who \in Worker => stage[c.who] = "wait"
    /\ \A c, d \in calls : c.who = d.who /\ c.who \in Worker => c = d

\* Only doReduce has read files.
GotOK == \A w \in Worker : stage[w] \notin {"read", "print"} => got[w] = {}

\* What was done is the work of a task, and schedule goes on to the next phase
\* when the work of this one is over.
RanOK == \A i \in ran : IsTask(i)
PhaseOK ==
    /\ mrPhase = "Reduce" => Input \subseteq Over
    /\ done /\ NFiles > 0 => Item \subseteq Over

\* A worker works on a task that is not done, the files doMap is through with
\* are written, and doReduce has read, or is going to, the files of all inputs.
DoesOK(w) ==
    /\ stage[w] \in Working => File(w) \notin ran
    /\ stage[w] \in {"map", "encode"} =>
          \A y \in Part \ todo[w] : inter[held[w]][y] = "full"
    /\ stage[w] = "read" => got[w] \cup todo[w] = MapTasks
    /\ stage[w] = "print" => got[w] = MapTasks /\ out[Part0(File(w))] = {}

Apart ==
    \A v, w \in Worker :
        stage[v] \in Working /\ stage[w] \in Working /\ held[v] = held[w] => v = w

\* The files of a map task that is done are written, and so is the output of a
\* reduce task.
Mapped ==
    \A t \in MapTasks : tasks[t].file \in ran => \A y \in Part : inter[t][y] = "full"
Reduced ==
    \A y \in Part : Nobody \notin out[y] /\ (NFiles + y \in ran => out[y] = MapTasks)

Clean == Apart /\ (\A w \in Worker : DoesOK(w)) /\ Mapped /\ Reduced

CleanInv == CallersOK /\ GotOK /\ RanOK /\ PhaseOK /\ (clean /\ lost = {} => Clean)

\* A worker that exits leaves its call to nobody.
LEMMA ExitCallers ==
    ASSUME IInv, NEW w \in Worker, Exit(w), NEW c \in calls', c.who \in Worker
    PROVE  c \in calls /\ c.who # w
<1>1. PICK d \in calls : c = [d EXCEPT !.who = IF @ = w THEN Nobody ELSE @]
  BY DEF Exit
<1>2. d \in [kind : {"new", "retry"}, who : Worker \cup {Nobody}, arg : Item]
  BY DEF IInv, TypeOK, HandlerTypes
<1>3. Nobody \notin Worker
  BY SizeAssumption DEF Worker, Nobody
<1>4. CASE d.who = w
  BY <1>1, <1>2, <1>3, <1>4
<1>5. CASE d.who # w
  <2>1. c = d
    BY <1>1, <1>2, <1>5
  <2>2. QED
    BY <1>5, <2>1
<1>6. QED
  BY <1>4, <1>5

\* In every step of GetTask, and of workers that stop waiting for it, an answer
\* goes to a worker that waits, and it has read nothing then.
LEMMA CallersStep ==
    ASSUME IInv, CallersOK, GotOK, Next
    PROVE  CallersOK' /\ GotOK'
<1> DEFINE Kept == \A c \in calls' : c.who \in Worker =>
                      c \in calls /\ stage'[c.who] = stage[c.who]
           Empty == \A v \in Worker :
                       \/ stage'[v] \in {"read", "print"} \/ got'[v] = {}
                       \/ stage'[v] = stage[v] /\ got'[v] = got[v]
<1>1. /\ stage \in [Worker -> Stage] /\ held \in [Worker -> DOMAIN tasks \cup {Nobody}]
      /\ todo \in [Worker -> SUBSET Item] /\ got \in [Worker -> SUBSET Item]
  BY DEF IInv, TypeOK, WorkerTypes
<1>2. Kept => CallersOK'
  BY DEF CallersOK
<1>3. Empty => GotOK'
  BY DEF GotOK
<1>4. UNCHANGED <<calls, stage>> => Kept
  OBVIOUS
<1>5. UNCHANGED <<stage, got>> => Empty
  OBVIOUS
<1>6. Nobody \notin Worker
  BY SizeAssumption DEF Worker, Nobody
<1>7. \A w, t : /\ Reply(w, t) /\ UNCHANGED workVars
                /\ w \in Worker => stage[w] \in {"out", "ask", "wait"}
                => GotOK'
  <2> SUFFICES ASSUME NEW w, NEW t, Reply(w, t), UNCHANGED workVars,
                      w \in Worker => stage[w] \in {"out", "ask", "wait"}
               PROVE  GotOK'
    OBVIOUS
  <2>1. \A v \in Worker : got'[v] = got[v] /\ stage'[v] = (IF v = w THEN "got" ELSE stage[v])
    BY DEF Reply, workVars
  <2>2. QED
    BY <2>1 DEF GotOK
<1>8. ASSUME NEW c \in calls, Reply(c.who, c.arg) \/ Reply(c.who, Len(tasks) + 1),
             calls' = calls \ {c}, UNCHANGED workVars
      PROVE  CallersOK' /\ GotOK'
  <2>1. \A v \in Worker \ {c.who} : stage'[v] = stage[v]
    BY <1>8 DEF Reply
  <2>2. Kept
    BY <1>8, <2>1 DEF CallersOK
  <2>3. c.who \in Worker => stage[c.who] = "wait"
    BY DEF CallersOK
  <2>4. QED
    BY <1>2, <1>7, <1>8, <2>2, <2>3
<1>9. CASE Scheduler
  <2>1. ASSUME Send  PROVE CallersOK' /\ GotOK'
    <3>1. UNCHANGED got
      BY <2>1 DEF Send, workVars
    <3>2. ASSUME NEW w \in Worker, stage[w] = "chan", stage' = [stage EXCEPT ![w] = "wait"],
                 calls' = calls \cup {[kind |-> "new", who |-> w, arg |-> Queued]}
          PROVE  CallersOK' /\ GotOK'
      <4>1. stage'[w] = "wait" /\ \A v \in Worker \ {w} : stage'[v] = stage[v]
        BY <1>1, <3>2
      <4>2. \A c \in calls : c.who # w
        BY <3>2 DEF CallersOK
      <4>3. [kind |-> "new", who |-> w, arg |-> Queued].who = w
        OBVIOUS
      <4>4. CallersOK'
        BY <3>2, <4>1, <4>2, <4>3 DEF CallersOK
      <4>5. QED
        BY <3>1, <3>2, <4>1, <4>4 DEF GotOK
    <3>3. ASSUME UNCHANGED stage,
                 calls' = calls \cup {[kind |-> "new", who |-> Nobody, arg |-> Queued]}
          PROVE  CallersOK' /\ GotOK'
      <4>1. [kind |-> "new", who |-> Nobody, arg |-> Queued].who = Nobody
        OBVIOUS
      <4>2. Kept
        BY <1>6, <3>3, <4>1
      <4>3. QED
        BY <1>2, <1>3, <1>5, <3>1, <3>3, <4>2
    <3>4. QED
      BY <2>1, <3>2, <3>3 DEF Send
  <2>2. QED
    BY <1>2, <1>3, <1>4, <1>5, <1>9, <2>1
       DEF Scheduler, StartReduce, JobDone, GiveUp, handlers, workerVars, workVars
<1>10. CASE Handler
  <2>1. \A c \in calls : StoreNew(c) \/ StoreRetry(c) => CallersOK' /\ GotOK'
    BY <1>8 DEF StoreNew, StoreRetry, Retry
  <2>2. QED
    BY <1>2, <1>3, <1>4, <1>5, <1>10, <2>1
       DEF Handler, LateSetTaskState, HeartbeatStore, workerVars, workVars
<1>11. CASE Monitor
  BY <1>2, <1>3, <1>4, <1>5, <1>11
     DEF Monitor, MonitorFails, MonitorLook, MonitorMark, handlers, workerVars, workVars
<1>12. ASSUME NEW w \in Worker, Process(w) \/ Mishap(w)
       PROVE  CallersOK' /\ GotOK'
  <2>1. \A s : /\ stage[w] # "wait" /\ stage' = [stage EXCEPT ![w] = s] /\ UNCHANGED calls
               => CallersOK'
    <3>1. \A s : /\ stage[w] # "wait" /\ stage' = [stage EXCEPT ![w] = s] /\ UNCHANGED calls
                 => Kept
      BY <1>1 DEF CallersOK
    <3>2. QED
      BY <1>2, <3>1
  <2>2. \A s : /\ stage' = [stage EXCEPT ![w] = s]
               /\ \/ got' = [got EXCEPT ![w] = {}]
                  \/ UNCHANGED got /\ (got[w] = {} \/ s \in {"read", "print"})
               => GotOK'
    BY <1>1 DEF GotOK
  <2>3. stage[w] \notin {"read", "print"} => got[w] = {}
    BY DEF GotOK
  <2>4. Exit(w) => CallersOK' /\ GotOK'
    <3>1. Exit(w) => Kept
      <4>1. Exit(w) => \A v \in Worker \ {w} : stage'[v] = stage[v]
        BY <1>1 DEF Exit
      <4>2. QED
        BY <4>1, ExitCallers
    <3>2. QED
      BY <1>2, <2>2, <3>1 DEF Exit
  <2>5. GetNothing(w) \/ GetTimeout(w) \/ Crash(w) \/ Abort(w) => CallersOK' /\ GotOK'
    BY <2>4 DEF GetNothing, GetTimeout, Crash, Abort
  <2>6. ASSUME GetRetry(w)  PROVE CallersOK' /\ GotOK'
    <3>1. PICK t \in DOMAIN tasks : Reply(w, t) /\ UNCHANGED <<workVars, calls>>
      BY <2>6 DEF GetRetry, Retry
    <3>2. stage[w] \in {"out", "ask"}
      BY <2>6 DEF GetRetry, Asks
    <3>3. \A v \in Worker \ {w} : stage'[v] = stage[v]
      BY <3>1 DEF Reply
    <3>4. Kept
      BY <3>1, <3>2, <3>3 DEF CallersOK
    <3>5. QED
      BY <1>2, <1>7, <3>1, <3>2, <3>4
  <2>7. ASSUME GetRetryLook(w)  PROVE CallersOK' /\ GotOK'
    <3>1. PICK t \in DOMAIN tasks :
             calls' = calls \cup {[kind |-> "retry", who |-> w, arg |-> t]}
      BY <2>7 DEF GetRetryLook
    <3>2. stage[w] \in {"out", "ask"} /\ stage' = [stage EXCEPT ![w] = "wait"] /\ UNCHANGED got
      BY <2>7 DEF GetRetryLook, Asks, workVars
    <3>3. stage'[w] = "wait" /\ \A v \in Worker \ {w} : stage'[v] = stage[v]
      BY <1>1, <3>2
    <3>4. \A c \in calls : c.who # w
      BY <3>2 DEF CallersOK
    <3>5. [kind |-> "retry", who |-> w, arg |-> t].who = w
      OBVIOUS
    <3>6. CallersOK'
      BY <3>1, <3>3, <3>4, <3>5 DEF CallersOK
    <3>7. QED
      BY <2>2, <2>3, <3>2, <3>6
  <2>8. GetBlocks(w) \/ Begin(w) \/ MapCreate(w) \/ Finish(w) => CallersOK' /\ GotOK'
    BY <2>1, <2>2, <2>3 DEF GetBlocks, Asks, handlers, workVars, Begin, MapCreate, Finish
  <2>9. MapEncode(w) => CallersOK' /\ GotOK'
    BY <2>1, <2>2, <2>3 DEF MapEncode, handlers
  <2>10. ReduceGlob(w) \/ ReduceCreate(w) => CallersOK' /\ GotOK'
    BY <2>1, <2>2 DEF ReduceGlob, ReduceCreate, handlers, workVars
  <2>11. ReducePrint(w) \/ Fail(w) \/ Panic(w) \/ CreateFails(w) => CallersOK' /\ GotOK'
    BY <2>1, <2>2 DEF ReducePrint, Fail, Panic, CreateFails, handlers
  <2>12. ASSUME ReduceRead(w)  PROVE CallersOK' /\ GotOK'
    <3>1. UNCHANGED <<stage, calls>> /\ stage[w] = "read"
      BY <2>12 DEF ReduceRead, handlers
    <3>2. \A v \in Worker \ {w} : got'[v] = got[v]
      BY <1>1, <2>12 DEF ReduceRead
    <3>3. QED
      BY <1>2, <1>4, <3>1, <3>2 DEF GotOK
  <2>13. HeartbeatLoad(w) => CallersOK' /\ GotOK'
    BY <1>2, <1>3, <1>4, <1>5 DEF HeartbeatLoad, workerVars, workVars
  <2>14. QED
    BY <1>12, <2>5, <2>6, <2>7, <2>8, <2>9, <2>10, <2>11, <2>12, <2>13 DEF Process, Mishap
<1>13. QED
  BY <1>9, <1>10, <1>11, <1>12 DEF Next

\* doMap and doReduce complete the work of a task, and schedule starts the
\* reduce phase, and ends the job, when every task is finished.
LEMMA PhaseStep ==
    ASSUME IInv, RanOK, PhaseOK, Next
    PROVE  RanOK' /\ PhaseOK'
<1>1. Over \subseteq Over' /\ Grows
  BY OverStays, AlwaysGrows
<1>2. \A i : IsTask(i) => IsTask(i)'
  BY <1>1 DEF Grows, IsTask
<1>3. \A i \in ran' : i \in ran \/ \E w \in Worker : stage[w] \in Working /\ i = File(w)
  <2>1. UNCHANGED ran => ran' = ran
    OBVIOUS
  <2>2. Scheduler \/ Handler \/ Monitor => UNCHANGED ran
    BY DEF Scheduler, Send, StartReduce, JobDone, GiveUp, Handler, LateSetTaskState, StoreNew,
           StoreRetry, Retry, HeartbeatStore, Monitor, MonitorFails, MonitorLook, MonitorMark,
           history
  <2>3. ASSUME NEW w \in Worker, Process(w) \/ Mishap(w)
        PROVE  ran' = ran \/ (ran' = ran \cup {File(w)} /\ stage[w] \in Working)
    <3>1. MapEncode(w) => ran' = ran \/ (ran' = ran \cup {File(w)} /\ stage[w] \in Working)
      BY DEF MapEncode, Working
    <3>2. ReducePrint(w) => ran' = ran \cup {File(w)} /\ stage[w] \in Working
      BY DEF ReducePrint, Working
    <3>3. \/ GetRetry(w) \/ GetBlocks(w) \/ GetNothing(w) \/ GetTimeout(w) \/ Begin(w)
          \/ MapCreate(w) \/ ReduceGlob(w) \/ ReduceRead(w) \/ ReduceCreate(w)
          => UNCHANGED ran
      BY DEF GetRetry, Retry, GetBlocks, GetNothing, GetTimeout, Begin, MapCreate, ReduceGlob,
             ReduceRead, ReduceCreate, history
    <3>4. Finish(w) \/ Abort(w) \/ Mishap(w) => UNCHANGED ran
      BY DEF Finish, Abort, Mishap, HeartbeatLoad, GetRetryLook, Crash, Fail, Panic,
             CreateFails, history
    <3>5. QED
      BY <2>3, <3>1, <3>2, <3>3, <3>4 DEF Process
  <2>4. QED
    BY <2>2, <2>3 DEF Next
<1>4. \A w \in Worker : stage[w] \in Working => IsTask(File(w))
  BY DEF IInv, WorkOK, WorkerOK, IsTask, File
<1>5. RanOK'
  BY <1>2, <1>3, <1>4 DEF RanOK
<1>6. UNCHANGED <<mrPhase, done>> => PhaseOK'
  BY <1>1 DEF PhaseOK
<1>7. CASE Scheduler
  <2>1. StartReduce => Input \subseteq Over
    BY FinishedIsOver DEF StartReduce, Input, Over
  <2>2. JobDone => Item \subseteq Over
    BY FinishedIsOver DEF JobDone, Item, Closed, Over
  <2>3. StartReduce => PhaseOK'
    BY <1>1, <2>1 DEF StartReduce, PhaseOK
  <2>4. JobDone => PhaseOK'
    BY <1>1, <2>2 DEF JobDone, PhaseOK
  <2>5. Send \/ GiveUp => PhaseOK'
    BY <1>6 DEF Send, GiveUp
  <2>6. QED
    BY <1>5, <1>7, <2>3, <2>4, <2>5 DEF Scheduler
<1>8. Handler \/ Monitor => PhaseOK'
  BY <1>6 DEF Handler, LateSetTaskState, StoreNew, StoreRetry, Retry, HeartbeatStore, Monitor,
              MonitorFails, MonitorLook, MonitorMark, schedVars
<1>9. ASSUME NEW w \in Worker, Process(w) \/ Mishap(w)
      PROVE  PhaseOK'
  <2>1. Process(w) => UNCHANGED <<mrPhase, done>>
    BY DEF Process, GetRetry, Retry, GetBlocks, GetNothing, GetTimeout, Begin, MapCreate,
           MapEncode, ReduceGlob, ReduceRead, ReduceCreate, ReducePrint, Finish, Abort, schedVars
  <2>2. Mishap(w) => UNCHANGED <<mrPhase, done>>
    BY DEF Mishap, HeartbeatLoad, GetRetryLook, Crash, Fail, Panic, CreateFails, schedVars
  <2>3. QED
    BY <1>6, <1>9, <2>1, <2>2
<1>10. QED
  BY <1>5, <1>7, <1>8, <1>9 DEF Next

\* There are no new map tasks in the reduce phase.
LEMMA MapTasksSettle ==
    ASSUME IInv, Next, Keeps \/ mrPhase = "Reduce"
    PROVE  MapTasks' = MapTasks
<1>1. CASE Keeps
  BY <1>1, KeepsGrows DEF MapTasks, Grows
<1>2. ASSUME NEW c \in calls, StoreNew(c), mrPhase = "Reduce"
      PROVE  MapTasks' = MapTasks
  <2>1. /\ DOMAIN tasks' = DOMAIN tasks \cup {Len(tasks) + 1}
        /\ \A t \in DOMAIN tasks : tasks'[t] = tasks[t]
        /\ tasks'[Len(tasks) + 1] = [file |-> c.arg, phase |-> mrPhase, state |-> "Sending"]
    BY <1>2, Stored
  <2>2. tasks'[Len(tasks) + 1].phase # "Map"
    BY <1>2, <2>1
  <2>3. QED
    BY <2>1, <2>2 DEF MapTasks
<1>3. QED
  BY <1>1, <1>2, TableStep

\* A reduce task is worked on, or done, in the reduce phase only, and it has a
\* part of its own.
LEMMA Reducing ==
    ASSUME IInv
    PROVE  /\ \A w \in Worker : stage[w] \in {"reduce", "read", "print"} =>
                 /\ mrPhase = "Reduce" /\ stage[w] \in Working
                 /\ Part0(File(w)) \in Part /\ File(w) = NFiles + Part0(File(w))
           /\ RanOK => \A y \in Part : NFiles + y \in ran => mrPhase = "Reduce"
<1>1. /\ mrPhase \in Phase /\ NFiles \in Nat /\ NReduce \in Nat
      /\ mrPhase = "Map" => sent <= NFiles
      /\ sent \in Nat
  BY SizeAssumption DEF IInv, TypeOK, MasterTypes, QueueOK, NItem
<1>2. \A t \in DOMAIN tasks : tasks[t].file \in Item /\ tasks[t].file <= sent
  <2>1. \A t \in DOMAIN tasks : tasks[t] \in MRTask /\ tasks[t].file <= sent
    BY DEF IInv, TypeOK, MasterTypes, QueueOK
  <2>2. QED
    BY <2>1 DEF MRTask
<1>3. ASSUME NEW w \in Worker, stage[w] \in {"reduce", "read", "print"}
      PROVE  /\ mrPhase = "Reduce" /\ stage[w] \in Working
             /\ Part0(File(w)) \in Part /\ File(w) = NFiles + Part0(File(w))
  <2>1. stage[w] \in Working
    BY <1>3 DEF Working
  <2>2. held[w] \in DOMAIN tasks /\ tasks[held[w]].phase = "Reduce"
    BY <1>3, <2>1 DEF IInv, WorkOK, WorkerOK
  <2>3. ~(File(w) <= NFiles)
    BY <2>2 DEF IInv, QueueOK, File
  <2>4. File(w) \in Item /\ File(w) <= sent
    BY <1>2, <2>2 DEF File
  <2>5. mrPhase = "Reduce"
    BY <1>1, <2>3, <2>4 DEF Phase, Item
  <2>6. QED
    BY <1>1, <2>1, <2>3, <2>4, <2>5 DEF Item, NItem, Part, Part0
<1>4. ASSUME RanOK, NEW y \in Part, NFiles + y \in ran
      PROVE  mrPhase = "Reduce"
  <2>1. NFiles + y <= sent
    BY <1>2, <1>4 DEF RanOK, IsTask
  <2>2. QED
    BY <1>1, <2>1 DEF Part, Phase
<1>5. QED
  BY <1>3, <1>4

\* When doReduce runs and nothing was given up, the files of all inputs are
\* written, for every part.
LEMMA AllMapped ==
    ASSUME IInv, PhaseOK, lost = {}, Mapped, mrPhase = "Reduce"
    PROVE  \A t \in MapTasks, y \in Part : inter[t][y] = "full"
<1>1. Input \subseteq ran
  BY DEF PhaseOK, Over
<1>2. \A t \in MapTasks : tasks[t].file \in Input
  <2>1. \A t \in MapTasks : tasks[t] \in MRTask /\ tasks[t].file <= NFiles
    BY DEF IInv, TypeOK, MasterTypes, QueueOK, MapTasks
  <2>2. \A t \in MapTasks : tasks[t].file \in Item /\ tasks[t].file <= NFiles
    BY <2>1 DEF MRTask
  <2>3. QED
    BY <2>2, SizeAssumption DEF Item, Input, NItem
<1>3. QED
  BY <1>1, <1>2 DEF Mapped

\* A worker that goes on undisturbed: nobody completes its task, and nobody
\* writes its files.
Same(v) ==
    stage'[v] = stage[v] /\ held'[v] = held[v] /\ todo'[v] = todo[v] /\ got'[v] = got[v]

LeftAlone(v) ==
    /\ Same(v)
    /\ stage[v] \in Working => File(v) \notin ran'
    /\ stage[v] \in {"map", "encode"} => inter'[held[v]] = inter[held[v]]
    /\ stage[v] = "print" => out'[Part0(File(v))] = out[Part0(File(v))]

\* Such a worker stays as it should be.
LEMMA AloneStays ==
    ASSUME IInv, Next, NEW v \in Worker, DoesOK(v), LeftAlone(v)
    PROVE  DoesOK(v)'
<1>1. stage[v] \in Working => File(v)' = File(v)
  <2>1. stage[v] \in Working => held[v] \in DOMAIN tasks
    BY DEF IInv, WorkOK, WorkerOK
  <2>2. QED
    BY <2>1, AlwaysGrows DEF Grows, File, LeftAlone, Same
<1>2. stage[v] \in {"read", "print"} => MapTasks' = MapTasks
  BY Reducing, MapTasksSettle
<1>3. stage[v] = "print" => stage[v] \in Working
  BY DEF Working
<1>4. QED
  BY <1>1, <1>2, <1>3 DEF DoesOK, LeftAlone, Same

\* A step that writes no file and completes no work keeps the files right.
LEMMA FilesStay ==
    ASSUME IInv, Next, RanOK, Mapped, Reduced, UNCHANGED <<fileVars, ran>>
    PROVE  Mapped' /\ Reduced'
<1>1. UNCHANGED <<inter, out, ran>>
  BY DEF fileVars
<1>2. Mapped'
  <2>1. CASE Keeps
    <3>1. MapTasks' = MapTasks /\ \A t \in MapTasks : tasks'[t].file = tasks[t].file
      BY <2>1, MapTasksSettle DEF Keeps, MapTasks
    <3>2. QED
      BY <1>1, <3>1 DEF Mapped
  <2>2. ASSUME NEW c \in calls, StoreNew(c)  PROVE Mapped'
    <3>1. /\ c \in NewCalls /\ DOMAIN tasks' = DOMAIN tasks \cup {Len(tasks) + 1}
          /\ \A t \in DOMAIN tasks : tasks'[t] = tasks[t]
          /\ tasks'[Len(tasks) + 1] = [file |-> c.arg, phase |-> mrPhase, state |-> "Sending"]
      BY <2>2, Stored
    <3>2. tasks'[Len(tasks) + 1].file \notin ran
      BY <3>1 DEF IInv, QueueOK, RanOK
    <3>3. QED
      BY <1>1, <3>1, <3>2 DEF Mapped, MapTasks
  <2>3. QED
    BY <2>1, <2>2, TableStep
<1>3. \A y \in Part : NFiles + y \in ran => MapTasks' = MapTasks
  BY Reducing, MapTasksSettle
<1>4. QED
  BY <1>1, <1>2, <1>3 DEF Reduced

\* A step in which workers go on, or stop working, is harmless.
LEMMA QuietClean ==
    ASSUME IInv, Next, RanOK, Clean, UNCHANGED <<fileVars, ran>>,
           \A v \in Worker : Same(v) \/ stage'[v] \notin Working
    PROVE  Clean'
<1>1. Mapped' /\ Reduced'
  BY FilesStay DEF Clean
<1>2. ASSUME NEW v \in Worker  PROVE DoesOK(v)'
  <2>1. CASE Same(v)
    <3>1. LeftAlone(v)
      BY <2>1 DEF LeftAlone, Clean, DoesOK, fileVars
    <3>2. QED
      BY <3>1, AloneStays DEF Clean
  <2>2. CASE stage'[v] \notin Working
    BY <2>2 DEF DoesOK, Working
  <2>3. QED
    BY <2>1, <2>2
<1>3. Apart'
  BY DEF Clean, Apart, Same
<1>4. QED
  BY <1>1, <1>2, <1>3 DEF Clean

\* A task that nobody works on and that is not done may be handed out.
LEMMA HandOutClean ==
    ASSUME IInv, Next, RanOK, Clean, UNCHANGED <<fileVars, ran, workVars>>,
           NEW w, NEW t, Reply(w, t), tasks'[t].file \notin ran,
           \A v \in Worker : held[v] = t => stage[v] \notin Working
    PROVE  Clean'
<1>1. Mapped' /\ Reduced'
  BY FilesStay DEF Clean
<1>2. \A v \in Worker \ {w} : Same(v)
  BY DEF Reply, Same, workVars
<1>3. w \in Worker => stage'[w] = "got" /\ held'[w] = t
  BY DEF Reply
<1>4. ASSUME NEW v \in Worker  PROVE DoesOK(v)'
  <2>1. CASE v # w
    <3>1. LeftAlone(v)
      BY <1>2, <2>1 DEF LeftAlone, Clean, DoesOK, fileVars
    <3>2. QED
      BY <3>1, AloneStays DEF Clean
  <2>2. CASE v = w
    BY <1>3, <2>2 DEF DoesOK, File
  <2>3. QED
    BY <2>1, <2>2
<1>5. Apart'
  <2>1. \A u, v \in Worker :
           stage[u] \in Working /\ stage[v] \in Working /\ held[u] = held[v] => u = v
    BY DEF Clean, Apart
  <2>2. \A v \in Worker \ {w} : stage'[v] = stage[v] /\ held'[v] = held[v]
    BY <1>2 DEF Same
  <2>3. QED
    BY <1>3, <2>1, <2>2 DEF Apart
<1>6. QED
  BY <1>1, <1>4, <1>5 DEF Clean

\* os.Create and Encode in doMap leave the other parts of the task alone.
LEMMA WriteRow ==
    ASSUME FileTypes, NEW t \in Item, NEW y, NEW v \in {"empty", "full"},
           inter' = [inter EXCEPT ![t][y] = v]
    PROVE  /\ y \in Part => inter'[t][y] = v
           /\ \A z \in Part \ {y} : inter'[t][z] = inter[t][z]
<1>1. inter'[t] = [inter[t] EXCEPT ![y] = v]
  BY DEF FileTypes
<1>2. DOMAIN inter[t] = Part
  BY DEF FileTypes
<1>3. QED
  BY <1>1, <1>2

\* Workers that work at the same time are at different tasks, of different
\* items.
LEMMA WorkersDiffer ==
    ASSUME IInv, Clean, NEW v \in Worker, NEW w \in Worker, v # w,
           stage[v] \in Working, stage[w] \in Working
    PROVE  held[v] # held[w] /\ held[v] \in Item /\ File(v) # File(w)
<1>1. held[v] # held[w]
  BY DEF Clean, Apart
<1>2. held[v] \in DOMAIN tasks /\ held[w] \in DOMAIN tasks
  BY DEF IInv, WorkOK, WorkerOK
<1>3. File(v) # File(w)
  BY <1>1, <1>2 DEF IInv, QueueOK, File
<1>4. DOMAIN tasks \subseteq Item
  BY SizeAssumption DEF IInv, TypeOK, MasterTypes, Item, NItem
<1>5. QED
  BY <1>1, <1>2, <1>3, <1>4

\* setTaskState(Running) starts doMap or doReduce on the same task.
LEMMA BeginClean ==
    ASSUME IInv, Next, RanOK, Clean, NEW w \in Worker, Begin(w)
    PROVE  Clean'
<1>1. /\ stage \in [Worker -> Stage] /\ held \in [Worker -> DOMAIN tasks \cup {Nobody}]
      /\ todo \in [Worker -> SUBSET Item] /\ got \in [Worker -> SUBSET Item]
  BY DEF IInv, TypeOK, WorkerTypes
<1>2. stage[w] = "got" /\ stage[w] \in Working
  BY DEF Begin, Working
<1>3. UNCHANGED <<fileVars, ran, held, got>>
  BY DEF Begin, history
<1>4. Mapped' /\ Reduced'
  BY <1>3, FilesStay DEF Clean
<1>5. stage'[w] \in {"map", "reduce"} /\ (stage'[w] = "map" => todo'[w] = Part)
  BY <1>1 DEF Begin
<1>6. \A v \in Worker \ {w} : Same(v)
  BY <1>1, <1>3 DEF Begin, Same
<1>7. ASSUME NEW v \in Worker  PROVE DoesOK(v)'
  <2>1. CASE v # w
    <3>1. LeftAlone(v)
      BY <1>3, <1>6, <2>1 DEF LeftAlone, Clean, DoesOK, fileVars
    <3>2. QED
      BY <3>1, AloneStays DEF Clean
  <2>2. CASE v = w
    <3>1. held[w] \in DOMAIN tasks
      BY <1>2 DEF IInv, WorkOK, WorkerOK
    <3>2. File(w)' = File(w)
      BY <1>3, <3>1, AlwaysGrows DEF Grows, File
    <3>3. File(w)' \notin ran'
      BY <1>2, <1>3, <3>2 DEF Clean, DoesOK
    <3>4. QED
      BY <1>5, <2>2, <3>3 DEF DoesOK
  <2>3. QED
    BY <2>1, <2>2
<1>8. Apart'
  BY <1>2, <1>3, <1>6 DEF Clean, Apart, Same
<1>9. QED
  BY <1>4, <1>7, <1>8 DEF Clean

\* doMap writes the files of its own task, which is not done yet, and after the
\* last part all of them are written.
LEMMA MapClean ==
    ASSUME IInv, Next, RanOK, Clean, NEW w \in Worker, MapCreate(w) \/ MapEncode(w)
    PROVE  Clean'
<1> DEFINE Written == /\ stage'[w] \in {"map", "encode", "fin"}
                      /\ \A y \in Part \ todo'[w] : inter'[held[w]][y] = "full"
                      /\ ran' = ran \/ (ran' = ran \cup {File(w)} /\ todo'[w] = {})
                      /\ stage'[w] \in {"map", "encode"} => ran' = ran
<1>1. /\ stage \in [Worker -> Stage] /\ held \in [Worker -> DOMAIN tasks \cup {Nobody}]
      /\ todo \in [Worker -> SUBSET Item] /\ got \in [Worker -> SUBSET Item]
      /\ FileTypes
  BY DEF IInv, TypeOK, WorkerTypes
<1>2. stage[w] \in {"map", "encode"} /\ stage[w] \in Working
  BY DEF MapCreate, MapEncode, Working
<1>3. UNCHANGED <<tasks, held, got, out>> /\ Keeps
  <2>1. UNCHANGED <<tasks, held, got, out>>
    BY DEF MapCreate, MapEncode, workVars
  <2>2. QED
    BY <2>1, KeepsRules DEF IInv
<1>4. held[w] \in DOMAIN tasks /\ held[w] \in Item /\ File(w) <= NFiles
  <2>1. held[w] \in DOMAIN tasks /\ tasks[held[w]].phase = "Map"
    BY <1>2 DEF IInv, WorkOK, WorkerOK
  <2>2. DOMAIN tasks \subseteq Item
    BY SizeAssumption DEF IInv, TypeOK, MasterTypes, Item, NItem
  <2>3. QED
    BY <2>1, <2>2 DEF IInv, QueueOK, File
<1>5. MapTasks' = MapTasks
  BY <1>3, MapTasksSettle
<1>6. File(w) \notin ran /\ \A y \in Part \ todo[w] : inter[held[w]][y] = "full"
  BY <1>2 DEF Clean, DoesOK
<1>7. \A u \in Item \ {held[w]} : inter'[u] = inter[u]
  BY <1>1, <1>4, WriteFile DEF MapCreate, MapEncode
<1>8. Written
  <2>1. ASSUME MapCreate(w), NEW y \in todo[w],
               inter' = [inter EXCEPT ![held[w]][y] = "empty"]
        PROVE  Written
    <3>1. /\ y \in Part => inter'[held[w]][y] = "empty"
          /\ \A z \in Part \ {y} : inter'[held[w]][z] = inter[held[w]][z]
      BY <1>1, <1>4, <2>1, WriteRow
    <3>2. stage'[w] = "encode" /\ todo'[w] = todo[w] /\ ran' = ran
      BY <1>1, <2>1 DEF MapCreate, workVars, history
    <3>3. QED
      BY <1>6, <3>1, <3>2
  <2>2. ASSUME MapEncode(w), NEW y \in todo[w],
               inter' = [inter EXCEPT ![held[w]][y] = "full"],
               todo' = [todo EXCEPT ![w] = @ \ {y}],
               IF todo[w] = {y}
               THEN stage' = [stage EXCEPT ![w] = "fin"] /\ ran' = ran \cup {File(w)}
               ELSE stage' = [stage EXCEPT ![w] = "map"] /\ UNCHANGED ran
        PROVE  Written
    <3>1. /\ y \in Part => inter'[held[w]][y] = "full"
          /\ \A z \in Part \ {y} : inter'[held[w]][z] = inter[held[w]][z]
      <4>1. inter' = [inter EXCEPT ![held[w]][y] = "full"]
        BY <2>2
      <4>2. QED
        BY <1>1, <1>4, <4>1, WriteRow
    <3>2. todo'[w] = todo[w] \ {y}
      BY <1>1, <2>2
    <3>3. \A z \in Part \ todo'[w] : inter'[held[w]][z] = "full"
      BY <1>6, <3>1, <3>2
    <3>4. CASE todo[w] = {y}
      BY <1>1, <2>2, <3>2, <3>3, <3>4
    <3>5. CASE todo[w] # {y}
      BY <1>1, <2>2, <3>2, <3>3, <3>5
    <3>6. QED
      BY <3>4, <3>5
  <2>3. QED
    BY <2>1, <2>2 DEF MapCreate, MapEncode
<1>9. \A v \in Worker \ {w} : Same(v)
  BY <1>1, <1>3 DEF MapCreate, MapEncode, Same, workVars
<1>10. ASSUME NEW v \in Worker  PROVE DoesOK(v)'
  <2>1. CASE v # w
    <3>1. stage[v] \in Working => held[v] # held[w] /\ held[v] \in Item /\ File(v) # File(w)
      BY <1>2, <2>1, WorkersDiffer
    <3>2. stage[v] \in Working => File(v) \notin ran' /\ inter'[held[v]] = inter[held[v]]
      BY <1>7, <1>8, <3>1 DEF Clean, DoesOK
    <3>3. LeftAlone(v)
      BY <1>3, <1>9, <2>1, <3>2 DEF LeftAlone, Working
    <3>4. QED
      BY <3>3, AloneStays DEF Clean
  <2>2. CASE v = w
    <3>1. File(w)' = File(w)
      BY <1>3 DEF File
    <3>2. QED
      BY <1>3, <1>6, <1>8, <2>2, <3>1 DEF DoesOK, Working
  <2>3. QED
    BY <2>1, <2>2
<1>11. Apart'
  BY <1>2, <1>3, <1>9 DEF Clean, Apart, Same
<1>12. Mapped'
  <2> SUFFICES ASSUME NEW t \in MapTasks, tasks[t].file \in ran', NEW y \in Part
               PROVE  inter'[t][y] = "full"
    BY <1>3, <1>5 DEF Mapped
  <2>1. CASE t = held[w]
    BY <1>6, <1>8, <2>1 DEF File
  <2>2. CASE t # held[w]
    <3>1. t \in DOMAIN tasks /\ t \in Item
      BY SizeAssumption DEF MapTasks, IInv, TypeOK, MasterTypes, Item, NItem
    <3>2. tasks[t].file # File(w)
      BY <1>4, <2>2, <3>1 DEF IInv, QueueOK, File
    <3>3. tasks[t].file \in ran
      BY <1>8, <3>2
    <3>4. QED
      BY <1>7, <2>2, <3>1, <3>3 DEF Clean, Mapped
  <2>3. QED
    BY <2>1, <2>2
<1>13. Reduced'
  <2>1. \A y \in Part : NFiles + y # File(w)
    BY <1>4, SizeAssumption DEF Part
  <2>2. QED
    BY <1>3, <1>5, <1>8, <2>1 DEF Clean, Reduced
<1>14. QED
  BY <1>10, <1>11, <1>12, <1>13 DEF Clean

\* Glob finds the files of all inputs, since mapping is over, and each of them
\* decodes.
LEMMA ReadClean ==
    ASSUME IInv, Next, GotOK, RanOK, PhaseOK, lost = {}, Clean, NEW w \in Worker,
           ReduceGlob(w) \/ ReduceRead(w)
    PROVE  Clean'
<1>1. /\ stage \in [Worker -> Stage] /\ held \in [Worker -> DOMAIN tasks \cup {Nobody}]
      /\ todo \in [Worker -> SUBSET Item] /\ got \in [Worker -> SUBSET Item]
  BY DEF IInv, TypeOK, WorkerTypes
<1>2. UNCHANGED <<tasks, held, fileVars, ran>> /\ Keeps
  <2>1. UNCHANGED <<tasks, held, fileVars, ran>>
    BY DEF ReduceGlob, ReduceRead, history
  <2>2. QED
    BY <2>1, KeepsRules DEF IInv
<1>3. stage[w] \in {"reduce", "read"}
  BY DEF ReduceGlob, ReduceRead
<1>4. mrPhase = "Reduce" /\ stage[w] \in Working /\ Part0(File(w)) \in Part
  BY <1>3, Reducing
<1>5. \A t \in MapTasks : inter[t][Part0(File(w))] = "full"
  BY <1>4, AllMapped DEF Clean
<1>6. MapTasks' = MapTasks
  BY <1>4, MapTasksSettle
<1>7. Mapped' /\ Reduced'
  BY <1>2, FilesStay DEF Clean
<1>8. stage'[w] = "read" /\ got'[w] \cup todo'[w] = MapTasks
  <2>1. CASE ReduceGlob(w)
    <3>1. got[w] = {} /\ got' = got
      BY <2>1 DEF ReduceGlob, GotOK
    <3>2. todo'[w] = {t \in Item : inter[t][Part0(File(w))] # "absent"} /\ stage'[w] = "read"
      BY <1>1, <2>1 DEF ReduceGlob
    <3>3. MapTasks \subseteq Item
      BY SizeAssumption DEF MapTasks, IInv, TypeOK, MasterTypes, Item, NItem
    <3>4. \A t \in Item : inter[t][Part0(File(w))] # "absent" => t \in MapTasks
      BY <1>4 DEF IInv, FilesOK, WritesOK
    <3>5. QED
      BY <1>5, <3>1, <3>2, <3>3, <3>4
  <2>2. CASE ReduceRead(w)
    <3>1. got[w] \cup todo[w] = MapTasks /\ stage' = stage /\ stage[w] = "read"
      BY <2>2 DEF ReduceRead, Clean, DoesOK
    <3>2. PICK t \in todo[w] :
             IF inter[t][Part0(File(w))] = "full"
             THEN /\ got' = [got EXCEPT ![w] = @ \cup {t}]
                  /\ todo' = [todo EXCEPT ![w] = @ \ {t}]
             ELSE todo' = [todo EXCEPT ![w] = {}] /\ UNCHANGED got
      BY <2>2 DEF ReduceRead
    <3>3. got'[w] = got[w] \cup {t} /\ todo'[w] = todo[w] \ {t}
      BY <1>1, <1>5, <3>1, <3>2
    <3>4. QED
      BY <3>1, <3>3
  <2>3. QED
    BY <2>1, <2>2
<1>9. \A v \in Worker \ {w} : Same(v)
  BY <1>1, <1>2 DEF ReduceGlob, ReduceRead, Same
<1>10. ASSUME NEW v \in Worker  PROVE DoesOK(v)'
  <2>1. CASE v # w
    <3>1. LeftAlone(v)
      BY <1>2, <1>9, <2>1 DEF LeftAlone, Clean, DoesOK, fileVars
    <3>2. QED
      BY <3>1, AloneStays DEF Clean
  <2>2. CASE v = w
    <3>1. File(w)' = File(w) /\ File(w) \notin ran'
      BY <1>2, <1>4 DEF File, Clean, DoesOK
    <3>2. QED
      BY <1>6, <1>8, <2>2, <3>1 DEF DoesOK
  <2>3. QED
    BY <2>1, <2>2
<1>11. Apart'
  BY <1>2, <1>4, <1>9 DEF Clean, Apart, Same
<1>12. QED
  BY <1>7, <1>10, <1>11 DEF Clean

\* doReduce writes the output of its own part, which is not done yet, into an
\* empty file.
LEMMA PrintClean ==
    ASSUME IInv, Next, RanOK, Clean, NEW w \in Worker, ReduceCreate(w) \/ ReducePrint(w)
    PROVE  Clean'
<1> DEFINE p == Part0(File(w))
<1>1. /\ stage \in [Worker -> Stage] /\ held \in [Worker -> DOMAIN tasks \cup {Nobody}]
      /\ todo \in [Worker -> SUBSET Item] /\ got \in [Worker -> SUBSET Item]
      /\ out \in [Part -> SUBSET (Item \cup Torn)]
  BY DEF IInv, TypeOK, WorkerTypes, FileTypes
<1>2. UNCHANGED <<tasks, held, inter>> /\ Keeps
  <2>1. UNCHANGED <<tasks, held, inter>>
    BY DEF ReduceCreate, ReducePrint
  <2>2. QED
    BY <2>1, KeepsRules DEF IInv
<1>3. stage[w] \in {"read", "print"}
  BY DEF ReduceCreate, ReducePrint
<1>4. mrPhase = "Reduce" /\ stage[w] \in Working /\ p \in Part /\ File(w) = NFiles + p
  BY <1>3, Reducing
<1>5. MapTasks' = MapTasks /\ File(w)' = File(w)
  BY <1>2, <1>4, MapTasksSettle DEF File
<1>6. File(w) \notin ran
  BY <1>4 DEF Clean, DoesOK
<1>7. got[w] = MapTasks
  <2>1. (stage[w] = "read" /\ todo[w] = {}) \/ stage[w] = "print"
    BY DEF ReduceCreate, ReducePrint
  <2>2. /\ stage[w] = "read" => got[w] \cup todo[w] = MapTasks
        /\ stage[w] = "print" => got[w] = MapTasks
    BY DEF Clean, DoesOK
  <2>3. QED
    BY <2>1, <2>2
<1>8. Nobody \notin MapTasks
  BY DEF MapTasks, IInv, TypeOK, MasterTypes, Nobody
<1>9. \A y \in Part \ {p} : out'[y] = out[y] /\ NFiles + y # File(w)
  <2>1. \A y \in Part \ {p} : out'[y] = out[y]
    BY <1>1 DEF ReduceCreate, ReducePrint
  <2>2. \A y \in Part \ {p} : NFiles + y # NFiles + p
    <3> HIDE DEF p
    <3> QED BY <1>4, SizeAssumption DEF Part
  <2>3. QED
    BY <1>4, <2>1, <2>2
<1>10. \/ /\ stage'[w] = "print" /\ got'[w] = MapTasks /\ out'[p] = {} /\ ran' = ran
       \/ /\ stage'[w] = "fin" /\ out'[p] = MapTasks /\ ran' = ran \cup {File(w)}
  <2>1. CASE ReduceCreate(w)
    BY <1>1, <1>4, <1>7, <2>1 DEF ReduceCreate, workVars, history
  <2>2. CASE ReducePrint(w)
    <3>1. out[p] = {}
      BY <2>2 DEF ReducePrint, Clean, DoesOK
    <3>2. out'[p] = got[w]
      BY <1>1, <1>4, <2>2, <3>1 DEF ReducePrint
    <3>3. QED
      BY <1>1, <1>7, <2>2, <3>2 DEF ReducePrint
  <2>3. QED
    BY <2>1, <2>2
<1> HIDE DEF p
<1>11. \A v \in Worker \ {w} : Same(v)
  BY <1>1, <1>2 DEF ReduceCreate, ReducePrint, Same, workVars
<1>12. ASSUME NEW v \in Worker  PROVE DoesOK(v)'
  <2>1. CASE v # w
    <3>1. stage[v] \in Working => File(v) # File(w) /\ File(v) \notin ran
      BY <1>4, <2>1, WorkersDiffer DEF Clean, DoesOK
    <3>2. stage[v] = "print" => /\ stage[v] \in Working /\ Part0(File(v)) \in Part
                                /\ File(v) = NFiles + Part0(File(v))
      BY Reducing
    <3>3. stage[v] = "print" => Part0(File(v)) \in Part \ {p}
      BY <1>4, <3>1, <3>2
    <3>4. stage[v] = "print" => out'[Part0(File(v))] = out[Part0(File(v))]
      BY <1>9, <3>3
    <3>5. LeftAlone(v)
      BY <1>2, <1>10, <1>11, <2>1, <3>1, <3>4 DEF LeftAlone
    <3>6. QED
      BY <3>5, AloneStays DEF Clean
  <2>2. CASE v = w
    BY <1>5, <1>6, <1>10, <2>2 DEF DoesOK, Working, p
  <2>3. QED
    BY <2>1, <2>2
<1>13. Apart'
  BY <1>2, <1>4, <1>11 DEF Clean, Apart, Same
<1>14. Mapped'
  <2>1. \A t \in MapTasks : tasks[t].file <= NFiles
    BY DEF IInv, QueueOK, MapTasks
  <2>2. ~(File(w) <= NFiles)
    BY <1>4, SizeAssumption DEF Part
  <2>3. \A t \in MapTasks : tasks[t].file \in ran' => tasks[t].file \in ran
    BY <1>10, <2>1, <2>2
  <2>4. QED
    BY <1>2, <1>5, <2>3 DEF Clean, Mapped
<1>15. Reduced'
  <2> SUFFICES ASSUME NEW y \in Part
               PROVE  Nobody \notin out'[y] /\ (NFiles + y \in ran' => out'[y] = MapTasks)
    BY <1>5 DEF Reduced
  <2>1. CASE y = p
    BY <1>4, <1>6, <1>8, <1>10, <2>1
  <2>2. CASE y # p
    BY <1>9, <1>10, <2>2 DEF Clean, Reduced
  <2>3. QED
    BY <2>1, <2>2
<1>16. QED
  BY <1>12, <1>13, <1>14, <1>15 DEF Clean

\* GetTask hands out a new task, or one that failed.
LEMMA GetTaskClean ==
    ASSUME IInv, Next, CallersOK, RanOK, Clean, clean'
    PROVE  /\ \A c \in calls : StoreNew(c) => Clean'
           /\ \A w, t : t \in DOMAIN tasks /\ Retry(w, t) => Clean'
<1>1. ASSUME NEW c \in calls, StoreNew(c)  PROVE Clean'
  <2>1. /\ c \in NewCalls /\ Len(tasks) + 1 \notin DOMAIN tasks
        /\ tasks'[Len(tasks) + 1] = [file |-> c.arg, phase |-> mrPhase, state |-> "Sending"]
    BY <1>1, Stored
  <2>2. tasks'[Len(tasks) + 1].file \notin ran
    BY <2>1 DEF IInv, QueueOK, RanOK
  <2>3. \A v \in Worker : held[v] = Len(tasks) + 1 => stage[v] \notin Working
    BY <2>1 DEF IInv, WorkOK, WorkerOK
  <2>4. Reply(c.who, Len(tasks) + 1) /\ UNCHANGED <<fileVars, ran, workVars>>
    BY <1>1 DEF StoreNew, history
  <2>5. QED
    BY <2>2, <2>3, <2>4, HandOutClean
<1>2. ASSUME NEW w, NEW t \in DOMAIN tasks, Retry(w, t)  PROVE Clean'
  <2>1. tasks[t].file \notin ran /\ \A v \in Worker : held[v] = t => stage[v] \notin Working
    BY <1>2 DEF Retry
  <2>2. tasks'[t].file = tasks[t].file
    BY AlwaysGrows DEF Grows
  <2>3. Reply(w, t) /\ UNCHANGED <<fileVars, ran, workVars>>
    BY <1>2 DEF Retry
  <2>4. QED
    BY <2>1, <2>2, <2>3, HandOutClean
<1>3. QED
  BY <1>1, <1>2

\* Every step of such a job keeps the files right.
LEMMA CleanStep ==
    ASSUME IInv, Next, CleanInv, clean, lost = {}, clean', lost' = {}
    PROVE  Clean'
<1>1. CallersOK /\ GotOK /\ RanOK /\ PhaseOK /\ Clean
  BY DEF CleanInv
<1>2. /\ stage \in [Worker -> Stage] /\ held \in [Worker -> DOMAIN tasks \cup {Nobody}]
      /\ todo \in [Worker -> SUBSET Item] /\ got \in [Worker -> SUBSET Item]
  BY DEF IInv, TypeOK, WorkerTypes
<1>3. /\ UNCHANGED <<fileVars, ran>>
      /\ \A v \in Worker : Same(v) \/ stage'[v] \notin Working
      => Clean'
  BY <1>1, QuietClean
<1>4. UNCHANGED <<workerVars, fileVars, history>> => Clean'
  <2>1. UNCHANGED workerVars => \A v \in Worker : Same(v)
    BY DEF workerVars, workVars, Same
  <2>2. QED
    BY <1>3, <2>1 DEF history
<1>5. /\ \A c \in calls : StoreNew(c) => Clean'
      /\ \A w, t : t \in DOMAIN tasks /\ Retry(w, t) => Clean'
  BY <1>1, GetTaskClean
<1>6. \A w \in Worker, s \in Stage \ Working :
         /\ stage' = [stage EXCEPT ![w] = s] /\ UNCHANGED <<fileVars, ran>>
         /\ \A v \in Worker \ {w} :
               held'[v] = held[v] /\ todo'[v] = todo[v] /\ got'[v] = got[v]
         => Clean'
  <2> SUFFICES ASSUME NEW w \in Worker, NEW s \in Stage \ Working,
                      stage' = [stage EXCEPT ![w] = s], UNCHANGED <<fileVars, ran>>,
                      \A v \in Worker \ {w} :
                         held'[v] = held[v] /\ todo'[v] = todo[v] /\ got'[v] = got[v]
               PROVE  Clean'
    OBVIOUS
  <2>1. \A v \in Worker : Same(v) \/ stage'[v] \notin Working
    BY <1>2 DEF Same
  <2>2. QED
    BY <1>3, <2>1
<1>7. {"out", "ask", "chan", "wait", "fin", "failing"} \subseteq Stage \ Working
  BY DEF Stage, Working
<1>8. CASE Scheduler
  <2>1. ASSUME Send  PROVE Clean'
    <3>1. UNCHANGED <<held, todo, got, fileVars, ran>>
      BY <2>1 DEF Send, workVars, history
    <3>2. (\E w \in Worker : stage' = [stage EXCEPT ![w] = "wait"]) \/ UNCHANGED stage
      BY <2>1 DEF Send
    <3>3. UNCHANGED stage => \A v \in Worker : Same(v)
      BY <3>1 DEF Same
    <3>4. QED
      BY <1>3, <1>6, <1>7, <3>1, <3>2, <3>3
  <2>2. StartReduce \/ JobDone \/ GiveUp => Clean'
    BY <1>4 DEF StartReduce, JobDone, GiveUp
  <2>3. QED
    BY <1>8, <2>1, <2>2 DEF Scheduler
<1>9. CASE Handler
  <2>1. \A c \in calls : StoreRetry(c) => Clean'
    BY <1>5 DEF StoreRetry, IInv, HandlersOK
  <2>2. \A l \in late : LateSetTaskState(l) => Clean'
    BY <1>4 DEF LateSetTaskState
  <2>3. \A b \in beats : HeartbeatStore(b) => Clean'
    BY <1>4 DEF HeartbeatStore
  <2>4. QED
    BY <1>5, <1>9, <2>1, <2>2, <2>3 DEF Handler
<1>10. CASE Monitor
  BY <1>4, <1>10 DEF Monitor, MonitorFails, MonitorLook, MonitorMark
<1>11. ASSUME NEW w \in Worker, Process(w) \/ Mishap(w)
       PROVE  Clean'
  <2>1. Exit(w) /\ UNCHANGED <<fileVars, history>> => Clean'
    <3>1. Exit(w) => \A v \in Worker \ {w} :
                        held'[v] = held[v] /\ todo'[v] = todo[v] /\ got'[v] = got[v]
      BY <1>2 DEF Exit
    <3>2. QED
      BY <1>6, <1>7, <3>1 DEF Exit, history
  <2>2. GetNothing(w) \/ GetTimeout(w) \/ Crash(w) \/ Abort(w) => Clean'
    BY <2>1 DEF GetNothing, GetTimeout, Crash, Abort
  <2>3. GetRetry(w) => Clean'
    BY <1>5 DEF GetRetry
  <2>4. GetBlocks(w) \/ GetRetryLook(w) \/ Finish(w) => Clean'
    BY <1>6, <1>7 DEF GetBlocks, GetRetryLook, Finish, workVars, history
  <2>5. Fail(w) => Clean'
    <3>1. Fail(w) => \A v \in Worker \ {w} :
                        held'[v] = held[v] /\ todo'[v] = todo[v] /\ got'[v] = got[v]
      BY <1>2 DEF Fail
    <3>2. QED
      BY <1>6, <1>7, <3>1 DEF Fail, history
  <2>6. ~Panic(w) /\ ~CreateFails(w)
    BY DEF Panic, CreateFails
  <2>7. Begin(w) => Clean'
    BY <1>1, BeginClean
  <2>8. MapCreate(w) \/ MapEncode(w) => Clean'
    BY <1>1, MapClean
  <2>9. ReduceGlob(w) \/ ReduceRead(w) => Clean'
    BY <1>1, ReadClean
  <2>10. ReduceCreate(w) \/ ReducePrint(w) => Clean'
    BY <1>1, PrintClean
  <2>11. HeartbeatLoad(w) => Clean'
    BY <1>4 DEF HeartbeatLoad
  <2>12. QED
    BY <1>11, <2>2, <2>3, <2>4, <2>5, <2>6, <2>7, <2>8, <2>9, <2>10, <2>11
       DEF Process, Mishap
<1>12. QED
  BY <1>8, <1>9, <1>10, <1>11 DEF Next

\* What was given up stays given up, and a job in which a task was handed out
\* too often stays one.
LEMMA CleanBefore ==
    ASSUME Next, clean' /\ lost' = {}
    PROVE  clean /\ lost = {}
<1>1. UNCHANGED <<clean, lost>> => clean /\ lost = {}
  OBVIOUS
<1>2. \A w, t : Retry(w, t) => clean /\ lost = {}
  BY DEF Retry
<1>3. Scheduler \/ Monitor => clean /\ lost = {}
  BY <1>1 DEF Scheduler, Send, StartReduce, JobDone, GiveUp, Monitor, MonitorFails, MonitorLook,
              MonitorMark, history
<1>4. Handler => clean /\ lost = {}
  BY <1>1, <1>2 DEF Handler, LateSetTaskState, StoreNew, StoreRetry, HeartbeatStore, history
<1>5. ASSUME NEW w \in Worker, Process(w) \/ Mishap(w)
      PROVE  clean /\ lost = {}
  <2>1. Process(w) => clean /\ lost = {}
    BY <1>1, <1>2
       DEF Process, GetRetry, GetBlocks, GetNothing, GetTimeout, Begin, MapCreate, MapEncode,
           ReduceGlob, ReduceRead, ReduceCreate, ReducePrint, Finish, Abort, history
  <2>2. Mishap(w) => clean /\ lost = {}
    BY <1>1 DEF Mishap, HeartbeatLoad, GetRetryLook, Crash, Fail, Panic, CreateFails, history
  <2>3. QED
    BY <1>5, <2>1, <2>2
<1>6. QED
  BY <1>3, <1>4, <1>5 DEF Next

\* The invariant of these jobs, for any number of files, reduce tasks and
\* workers, crashes, errors and late calls.
THEOREM CleanJobs == Spec => []CleanInv
<1>1. Init => CleanInv
  <2> SUFFICES ASSUME Init  PROVE CleanInv
    OBVIOUS
  <2>1. tasks = << >> /\ DOMAIN tasks = {} /\ MapTasks = {} /\ ran = {} /\ calls = {}
    BY DEF Init, MapTasks
  <2>2. CallersOK /\ GotOK /\ RanOK
    BY <2>1 DEF Init, CallersOK, GotOK, RanOK
  <2>3. PhaseOK
    <3>1. mrPhase = "Map" /\ (done => NFiles = 0)
      BY DEF Init
    <3>2. NFiles = 0 => ~(NFiles > 0)
      OBVIOUS
    <3>3. QED
      BY <3>1, <3>2 DEF PhaseOK
  <2>4. \A w \in Worker : stage[w] = "out"
    BY DEF Init
  <2>5. Apart /\ \A w \in Worker : DoesOK(w)
    BY <2>4 DEF Apart, DoesOK, Working
  <2>6. Mapped /\ Reduced
    BY <2>1 DEF Init, Mapped, Reduced
  <2>7. QED
    BY <2>2, <2>3, <2>5, <2>6 DEF CleanInv, Clean
<1>2. ASSUME IInv, CleanInv, Next
      PROVE  CleanInv'
  <2>1. CallersOK' /\ GotOK'
    BY <1>2, CallersStep DEF CleanInv
  <2>2. RanOK' /\ PhaseOK'
    BY <1>2, PhaseStep DEF CleanInv
  <2>3. clean' /\ lost' = {} => Clean'
    BY <1>2, CleanBefore, CleanStep
  <2>4. QED
    BY <2>1, <2>2, <2>3 DEF CleanInv
<1>3. ASSUME CleanInv, UNCHANGED vars
      PROVE  CleanInv'
  <2>1. /\ UNCHANGED <<mrPhase, sent, done, gaveUp, tasks, ghosts, calls, beats, late, mon>>
        /\ UNCHANGED <<stage, held, todo, got, inter, out, ran, lost, clean, mishaps>>
    BY <1>3 DEF vars, schedVars, handlers, workerVars, workVars, fileVars, history
  <2>2. MapTasks' = MapTasks /\ Over' = Over /\ \A i : IsTask(i)' <=> IsTask(i)
    BY <2>1 DEF MapTasks, Over, IsTask
  <2>3. CallersOK' /\ GotOK' /\ RanOK' /\ PhaseOK'
    BY <1>3, <2>1, <2>2 DEF CleanInv, CallersOK, GotOK, RanOK, PhaseOK
  <2>4. Clean => Clean'
    BY <2>1, <2>2 DEF Clean, Apart, DoesOK, Mapped, Reduced, File
  <2>5. QED
    BY <1>3, <2>1, <2>3, <2>4 DEF CleanInv
<1>4. IInv /\ CleanInv /\ [Next]_vars => CleanInv'
  BY <1>2, <1>3
<1>5. QED
  BY <1>1, <1>4, InvariantHolds, PTL DEF Spec

\* When the job is done and nothing was given up, every mr-out.Y holds what
\* doReduce makes of every input, unless GetTask handed out a task while it was
\* worked on or after it was done.
THEOREM OutputComplete == Spec => []CleanOutputIsComplete
<1>1. ASSUME IInv, CleanInv
      PROVE  CleanOutputIsComplete
  <2> SUFFICES ASSUME clean, done, lost = {}, NEW y \in Part
               PROVE  out[y] \cap Torn = {} /\ {tasks[t].file : t \in out[y]} = Input
    BY DEF CleanOutputIsComplete
  <2>1. Clean /\ RanOK /\ PhaseOK
    BY <1>1 DEF CleanInv
  <2>2. Nobody \notin out[y]
    BY <2>1 DEF Clean, Reduced
  <2>3. out[y] \subseteq MapTasks
    BY <1>1, <2>2 DEF IInv, FilesOK, PrintsOK, Torn
  <2>4. \A t \in MapTasks : tasks[t].file \in Input
    <3>1. \A t \in MapTasks : tasks[t] \in MRTask /\ tasks[t].file <= NFiles
      BY <1>1 DEF IInv, TypeOK, MasterTypes, QueueOK, MapTasks
    <3>2. \A t \in MapTasks : tasks[t].file \in Item /\ tasks[t].file <= NFiles
      BY <3>1 DEF MRTask
    <3>3. QED
      BY <3>2, SizeAssumption DEF Item, Input, NItem
  <2>5. ASSUME NEW i \in Input  PROVE \E t \in out[y] : tasks[t].file = i
    <3>1. NFiles > 0 /\ i \in Item /\ i <= NFiles /\ NFiles + y \in Item
      BY SizeAssumption DEF Input, Item, NItem, Part
    <3>2. Item \subseteq ran
      BY <2>1, <3>1 DEF PhaseOK, Over
    <3>3. out[y] = MapTasks
      BY <2>1, <3>1, <3>2 DEF Clean, Reduced
    <3>4. PICK t \in DOMAIN tasks : tasks[t].file = i
      BY <2>1, <3>1, <3>2 DEF RanOK, IsTask
    <3>5. t \in MapTasks
      BY <1>1, <3>1, <3>4 DEF IInv, QueueOK, MapTasks
    <3>6. QED
      BY <3>3, <3>4, <3>5
  <2>6. {tasks[t].file : t \in out[y]} = Input
    BY <2>3, <2>4, <2>5
  <2>7. QED
    BY <2>2, <2>6 DEF Torn
<1>2. QED
  BY <1>1, InvariantHolds, CleanJobs, PTL
---------------------------------------------------------------------------
(* What the files hold.                                                    *)

\* A job that is done has the output of mrsequential, for all texts and every
\* hash function, if no result was given up and no task was handed out while it
\* was worked on or after it was done.
THEOREM OutputSequential == Spec => []CleanOutputIsSequential
<1>1. ASSUME NoInputTwice, CleanOutputIsComplete
      PROVE  CleanOutputIsSequential
  <2> SUFFICES ASSUME clean, done, lost = {}
               PROVE  OutputIsRight
    BY DEF CleanOutputIsSequential, OutputIsSequential
  <2>1. ASSUME NEW y \in Part
        PROVE  out[y] \cap Torn = {} /\ {tasks[t].file : t \in out[y]} = Input
    BY <1>1 DEF CleanOutputIsComplete
  <2>2. \A y \in Part : out[y] # Torn
    BY <2>1 DEF Torn
  <2>3. PICK r : r = [y \in Part |-> Read(y)]
    OBVIOUS
  <2>4. DOMAIN r = Part
    BY <2>3
  <2>5. ASSUME NEW y \in Part
        PROVE  r[y] \in Bijection(DOMAIN r[y], Input)
    <3>1. r[y] = [t \in out[y] |-> tasks[t].file]
      BY <2>3 DEF Read
    <3>2. DOMAIN r[y] = out[y] /\ \A t \in out[y] : r[y][t] = tasks[t].file
      BY <3>1
    <3>3. r[y] \in [out[y] -> Input]
      BY <2>1, <3>1
    <3>4. \A s, t \in out[y] : r[y][s] = r[y][t] => s = t
      <4>1. \A s, t \in out[y] \ Torn : tasks[s].file = tasks[t].file => s = t
        BY <1>1 DEF NoInputTwice
      <4>2. out[y] \ Torn = out[y]
        BY <2>1
      <4>3. QED
        BY <3>2, <4>1, <4>2
    <3>5. \A i \in Input : \E t \in out[y] : r[y][t] = i
      BY <2>1, <3>2
    <3>6. QED
      BY <3>2, <3>3, <3>4, <3>5 DEF Bijection, Injection, Surjection, IsInjective
  <2>6. Word \in SUBSET Nat /\ IsFiniteSet(Input)
    BY SizeAssumption, TextAssumption, FS_Interval DEF Word, Input
  <2>7. Text \subseteq TextOf(Word)
    BY TextAssumption DEF Text, TextOf
  <2>8. ASSUME NEW texts \in [Input -> Text], NEW hash \in [Word -> Part]
        PROVE  Sorted(Output(r, texts, hash)) = Sorted(mrsequential(texts))
    <3>1. texts \in [Input -> TextOf(Word)] /\ hash \in [Word -> DOMAIN r]
      BY <2>4, <2>7
    <3>2. \A y \in DOMAIN r : r[y] \in Bijection(DOMAIN r[y], Input)
      BY <2>4, <2>5
    <3>3. QED
      BY <2>6, <3>1, <3>2, OutputIsMrsequential
  <2>9. QED
    BY <2>2, <2>3, <2>8 DEF OutputIsRight
<1>2. QED
  BY <1>1, InputsOnce, OutputComplete, PTL
============================================================================
