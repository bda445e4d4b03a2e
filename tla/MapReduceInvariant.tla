-------------------------- MODULE MapReduceInvariant --------------------------
(***************************************************************************)
(* The inductive invariant of MapReduce, and that every step keeps its     *)
(* part about the table of tasks, the queue and the handlers.              *)
(***************************************************************************)
EXTENDS MapReduce, FiniteSetTheorems, TLAPS

USE ZenonT(10), SMTT(20)

MapTasks == {t \in DOMAIN tasks : tasks[t].phase = "Map"}
NewCalls == {c \in calls : c.kind = "new"}
IsTask(i) == \E t \in DOMAIN tasks : tasks[t].file = i
Over == ran \cup lost

\* An item that schedule has sent is in the table once or is about to be stored
\* by one handler, with the phase of the part of the list it comes from.
QueueOK ==
    /\ IF mrPhase = "Map" THEN sent <= NFiles ELSE NFiles <= sent
    /\ \A s, t \in DOMAIN tasks : tasks[s].file = tasks[t].file => s = t
    /\ \A t \in DOMAIN tasks :
          tasks[t].file <= sent /\ (tasks[t].phase = "Map" <=> tasks[t].file <= NFiles)
    /\ \A c \in NewCalls :
          c.arg <= sent /\ ~IsTask(c.arg) /\ (mrPhase = "Map" <=> c.arg <= NFiles)
    /\ \A c, d \in NewCalls : c.arg = d.arg => c = d
    /\ \A i \in 1 .. sent : IsTask(i) \/ \E c \in NewCalls : c.arg = i

\* What handlers hold is about tasks of the table.
HandlersOK ==
    /\ \A c \in calls : c.kind = "retry" => c.arg \in DOMAIN tasks
    /\ \A b \in beats : /\ b.rec.file = tasks[b.task].file
                        /\ b.rec.phase = tasks[b.task].phase

\* A worker that does something has a task for it, of the right phase.
WorkerOK(w) ==
    /\ stage[w] \in Working \cup {"fin", "failing"} => held[w] \in DOMAIN tasks
    /\ stage[w] \in {"map", "encode"} => tasks[held[w]].phase = "Map"
    /\ stage[w] \in {"reduce", "read", "print"} => tasks[held[w]].phase = "Reduce"

WorkOK == \A w \in Worker : WorkerOK(w)

\* Finish is recorded, or on its way into the table, only for work that is over.
TasksOver == \A t \in DOMAIN tasks : tasks[t].state = "Finish" => tasks[t].file \in Over
BeatsOver == \A b \in beats : b.rec.state = "Finish" => b.rec.file \in Over
LateOver  == \A l \in late : l.state = "Finish" => tasks[l.task].file \in Over
WorkOver  == \A w \in Worker : stage[w] = "fin" => File(w) \in Over
FinishOK  == TasksOver /\ BeatsOver /\ LateOver /\ WorkOver

\* The files mr-X-Y are those of map tasks, and so is all that is read of them.
WritesOK == \A t \in Item, y \in Part : inter[t][y] # "absent" => t \in MapTasks
ReadsOK ==
    \A w \in Worker : /\ got[w] \subseteq MapTasks
                      /\ stage[w] = "read" => todo[w] \subseteq MapTasks
PrintsOK == \A y \in Part : out[y] \ Torn \subseteq MapTasks
FilesOK == WritesOK /\ ReadsOK /\ PrintsOK

IInv == TypeOK /\ QueueOK /\ HandlersOK /\ WorkOK /\ FinishOK /\ FilesOK
---------------------------------------------------------------------------
(* The table of tasks.                                                     *)

\* Only states of tasks change.
Keeps ==
    /\ tasks' \in Seq(MRTask) /\ Len(tasks') = Len(tasks)
    /\ \A t \in DOMAIN tasks :
          tasks'[t].file = tasks[t].file /\ tasks'[t].phase = tasks[t].phase

\* SetTaskState changes the state of one task.
LEMMA SetState ==
    ASSUME NEW table \in Seq(MRTask), NEW t \in DOMAIN table, NEW s \in TaskState
    PROVE  LET new == SetTaskState(table, t, s)
           IN  /\ new \in Seq(MRTask) /\ Len(new) = Len(table)
               /\ new[t] = [table[t] EXCEPT !.state = s]
               /\ \A u \in DOMAIN table \ {t} : new[u] = table[u]
<1> DEFINE rec == [table[t] EXCEPT !.state = s]
<1>1. rec \in MRTask
  <2>1. table[t] \in MRTask
    OBVIOUS
  <2>2. QED
    BY <2>1 DEF MRTask
<1>2. SetTaskState(table, t, s) = [table EXCEPT ![t] = rec]
  BY DEF SetTaskState
<1>3. /\ [table EXCEPT ![t] = rec] \in Seq(MRTask)
      /\ Len([table EXCEPT ![t] = rec]) = Len(table)
      /\ [table EXCEPT ![t] = rec][t] = rec
      /\ \A u \in DOMAIN table \ {t} : [table EXCEPT ![t] = rec][u] = table[u]
  <2> HIDE DEF rec
  <2> QED BY <1>1
<1>4. QED
  BY <1>2, <1>3

\* The numbers from 1 to n are n.
LEMMA UpToCount ==
    ASSUME NEW n \in Nat
    PROVE  IsFiniteSet(1 .. n) /\ Cardinality(1 .. n) = n
<1>1. n \in Int /\ 1 \in Int
  OBVIOUS
<1>2. IsFiniteSet(1 .. n) /\ Cardinality(1 .. n) = IF 1 > n THEN 0 ELSE n - 1 + 1
  BY <1>1, FS_Interval, Zenon
<1>3. (IF 1 > n THEN 0 ELSE n - 1 + 1) = n
  OBVIOUS
<1>4. QED
  BY <1>2, <1>3

\* Tasks of different items are no more than there are items.
LEMMA TasksFit ==
    ASSUME NEW table \in Seq(MRTask),
           \A s, t \in DOMAIN table : table[s].file = table[t].file => s = t
    PROVE  Len(table) <= NItem
<1> DEFINE f == [t \in 1 .. Len(table) |-> table[t].file]
<1>1. NItem \in Nat /\ Len(table) \in Nat
  BY SizeAssumption DEF NItem
<1>2. \A t \in 1 .. Len(table) : table[t].file \in Item
  <2>1. \A t \in 1 .. Len(table) : table[t] \in MRTask
    OBVIOUS
  <2>2. QED
    BY <2>1 DEF MRTask
<1>3. f \in Injection(1 .. Len(table), Item)
  BY <1>2 DEF Injection, IsInjective
<1>4. IsFiniteSet(Item) /\ Cardinality(Item) = NItem
  BY <1>1, UpToCount DEF Item
<1>5. Cardinality(1 .. Len(table)) = Len(table)
  BY <1>1, UpToCount
<1>6. QED
  BY <1>1, <1>3, <1>4, <1>5, FS_Injection

\* A table that does not change, or in which SetTaskState or a heartbeat stores
\* a record, keeps its tasks.
LEMMA KeepsRules ==
    ASSUME TypeOK, HandlersOK
    PROVE  /\ UNCHANGED tasks => Keeps
           /\ \A t \in DOMAIN tasks, s \in TaskState :
                 tasks' = SetTaskState(tasks, t, s) => Keeps
           /\ \A b \in beats : tasks' = [tasks EXCEPT ![b.task] = b.rec] => Keeps
<1>1. tasks \in Seq(MRTask)
  BY DEF TypeOK, MasterTypes
<1>2. UNCHANGED tasks => Keeps
  BY <1>1 DEF Keeps
<1>3. ASSUME NEW t \in DOMAIN tasks, NEW s \in TaskState,
             tasks' = SetTaskState(tasks, t, s)
      PROVE  Keeps
  <2>1. tasks[t] \in MRTask
    BY <1>1
  <2>2. /\ [tasks[t] EXCEPT !.state = s].file = tasks[t].file
        /\ [tasks[t] EXCEPT !.state = s].phase = tasks[t].phase
    BY <2>1 DEF MRTask
  <2>3. /\ tasks' \in Seq(MRTask) /\ Len(tasks') = Len(tasks)
        /\ tasks'[t] = [tasks[t] EXCEPT !.state = s]
        /\ \A u \in DOMAIN tasks \ {t} : tasks'[u] = tasks[u]
    BY <1>1, <1>3, SetState
  <2>4. QED
    BY <2>2, <2>3 DEF Keeps
<1>4. ASSUME NEW b \in beats, tasks' = [tasks EXCEPT ![b.task] = b.rec]
      PROVE  Keeps
  <2>1. b.task \in DOMAIN tasks /\ b.rec \in MRTask
    BY DEF TypeOK, HandlerTypes
  <2>2. b.rec.file = tasks[b.task].file /\ b.rec.phase = tasks[b.task].phase
    BY DEF HandlersOK
  <2>3. QED
    BY <1>1, <1>4, <2>1, <2>2 DEF Keeps
<1>5. QED
  BY <1>2, <1>3, <1>4

\* Every step but that of storing a new task keeps the tasks.
LEMMA TableStep ==
    ASSUME IInv, Next
    PROVE  Keeps \/ \E c \in calls : StoreNew(c)
<1>1. /\ UNCHANGED tasks => Keeps
      /\ \A t \in DOMAIN tasks, s \in TaskState :
            tasks' = SetTaskState(tasks, t, s) => Keeps
      /\ \A b \in beats : tasks' = [tasks EXCEPT ![b.task] = b.rec] => Keeps
  BY KeepsRules DEF IInv
<1>2. \A t \in DOMAIN tasks, s \in TaskState : setTaskState(t, s) => Keeps
  BY <1>1 DEF setTaskState
<1>3. {"Sending", "Running", "Finish", "Err"} \subseteq TaskState
  BY DEF TaskState
<1>4. \A w : \A t \in DOMAIN tasks : Retry(w, t) => Keeps
  BY <1>1, <1>3 DEF Retry
<1>5. CASE Scheduler
  BY <1>1, <1>5 DEF Scheduler, Send, StartReduce, JobDone, GiveUp
<1>6. CASE Handler
  <2>1. ASSUME NEW l \in late, LateSetTaskState(l)  PROVE Keeps
    <3>1. l.task \in DOMAIN tasks /\ l.state \in TaskState
      BY DEF IInv, TypeOK, HandlerTypes
    <3>2. QED
      BY <1>1, <2>1, <3>1 DEF LateSetTaskState
  <2>2. ASSUME NEW c \in calls, StoreRetry(c)  PROVE Keeps
    BY <1>4, <2>2 DEF StoreRetry, IInv, HandlersOK
  <2>3. ASSUME NEW b \in beats, HeartbeatStore(b)  PROVE Keeps
    BY <1>1, <2>3 DEF HeartbeatStore
  <2>4. QED
    BY <1>6, <2>1, <2>2, <2>3 DEF Handler
<1>7. CASE Monitor
  <2>1. \A t \in DOMAIN tasks : MonitorFails(t) \/ MonitorLook(t) => Keeps
    BY <1>1, <1>3 DEF MonitorFails, MonitorLook
  <2>2. MonitorMark => Keeps
    BY <1>1, <1>3 DEF MonitorMark, IInv, TypeOK, HandlerTypes
  <2>3. QED
    BY <1>7, <2>1, <2>2 DEF Monitor
<1>8. ASSUME NEW w \in Worker, Process(w) \/ Mishap(w)
      PROVE  Keeps
  <2>1. stage[w] \in {"got", "map", "encode", "read", "print", "fin", "failing"}
           => held[w] \in DOMAIN tasks
    BY DEF IInv, WorkOK, WorkerOK, Working
  <2>2. GetRetry(w) => Keeps
    BY <1>4 DEF GetRetry
  <2>3. Begin(w) \/ Finish(w) \/ Abort(w) \/ Fail(w) \/ Panic(w) => Keeps
    BY <1>2, <1>3, <2>1 DEF Begin, Finish, Abort, Fail, Panic
  <2>4. \/ GetBlocks(w) \/ GetNothing(w) \/ GetTimeout(w)
        \/ MapCreate(w) \/ MapEncode(w) \/ ReduceGlob(w) \/ ReduceRead(w)
        \/ ReduceCreate(w) \/ ReducePrint(w)
        => Keeps
    BY <1>1 DEF GetBlocks, GetNothing, GetTimeout, MapCreate, MapEncode,
       ReduceGlob, ReduceRead, ReduceCreate, ReducePrint
  <2>5. HeartbeatLoad(w) \/ GetRetryLook(w) \/ Crash(w) \/ CreateFails(w) => Keeps
    BY <1>1 DEF HeartbeatLoad, GetRetryLook, Crash, CreateFails
  <2>6. QED
    BY <1>8, <2>2, <2>3, <2>4, <2>5 DEF Process, Mishap
<1>9. QED
  BY <1>5, <1>6, <1>7, <1>8 DEF Next

\* No task is removed, and what it is about does not change.
Grows ==
    /\ tasks' \in Seq(MRTask) /\ DOMAIN tasks \subseteq DOMAIN tasks'
    /\ \A t \in DOMAIN tasks :
          tasks'[t].file = tasks[t].file /\ tasks'[t].phase = tasks[t].phase

\* What storing a new task does.
LEMMA Stored ==
    ASSUME IInv, NEW c \in calls, StoreNew(c)
    PROVE  /\ c \in NewCalls /\ c.arg \in Item /\ calls' = calls \ {c}
           /\ tasks' \in Seq(MRTask) /\ DOMAIN tasks' = DOMAIN tasks \cup {Len(tasks) + 1}
           /\ Len(tasks) + 1 \notin DOMAIN tasks
           /\ \A t \in DOMAIN tasks : tasks'[t] = tasks[t]
           /\ tasks'[Len(tasks) + 1] =
                 [file |-> c.arg, phase |-> mrPhase, state |-> "Sending"]
<1> DEFINE rec == [file |-> c.arg, phase |-> mrPhase, state |-> "Sending"]
<1>1. tasks \in Seq(MRTask) /\ mrPhase \in Phase /\ c.arg \in Item
  BY DEF IInv, TypeOK, MasterTypes, HandlerTypes
<1>2. rec \in MRTask
  BY <1>1 DEF MRTask, TaskState
<1>3. tasks' = Append(tasks, rec) /\ calls' = calls \ {c} /\ c \in NewCalls
  BY DEF StoreNew, NewCalls
<1>4. QED
  <2> HIDE DEF rec
  <2>1. /\ tasks' \in Seq(MRTask) /\ Len(tasks') = Len(tasks) + 1
        /\ \A t \in 1 .. Len(tasks) : tasks'[t] = tasks[t]
        /\ tasks'[Len(tasks) + 1] = rec
    BY <1>1, <1>2, <1>3
  <2>2. /\ DOMAIN tasks = 1 .. Len(tasks) /\ DOMAIN tasks' = 1 .. Len(tasks')
        /\ Len(tasks) \in Nat
    BY <1>1, <2>1
  <2>3. DOMAIN tasks' = DOMAIN tasks \cup {Len(tasks) + 1}
    BY <2>1, <2>2
  <2>4. QED
    BY <1>1, <1>3, <2>1, <2>2, <2>3 DEF rec

\* A table that keeps its tasks grows.
LEMMA KeepsGrows ==
    ASSUME IInv, Keeps
    PROVE  Grows /\ DOMAIN tasks' = DOMAIN tasks
<1>1. tasks \in Seq(MRTask) /\ tasks' \in Seq(MRTask) /\ Len(tasks') = Len(tasks)
  BY DEF IInv, TypeOK, MasterTypes, Keeps
<1>2. DOMAIN tasks' = DOMAIN tasks
  BY <1>1
<1>3. QED
  BY <1>2 DEF Grows, Keeps

\* The table grows in every step.
LEMMA AlwaysGrows ==
    ASSUME IInv, Next
    PROVE  Grows
<1>1. CASE Keeps
  BY <1>1, KeepsGrows
<1>2. ASSUME NEW c \in calls, StoreNew(c)  PROVE Grows
  BY <1>2, Stored DEF Grows
<1>3. QED
  BY <1>1, <1>2, TableStep
---------------------------------------------------------------------------
(* The queue.                                                              *)

\* A step that keeps the tasks, sends nothing and leaves the items that
\* handlers have taken to one handler each keeps the queue in order.
LEMMA QueueFrame ==
    ASSUME IInv, Keeps, UNCHANGED <<mrPhase, sent>>,
           \A c \in NewCalls' : \E d \in NewCalls : c.arg = d.arg,
           \A d \in NewCalls : \E c \in NewCalls' : c.arg = d.arg,
           \A c, d \in NewCalls' : c.arg = d.arg => c = d
    PROVE  QueueOK'
<1>1. QueueOK
  BY DEF IInv
<1>2. /\ DOMAIN tasks' = DOMAIN tasks
      /\ \A t \in DOMAIN tasks :
            tasks'[t].file = tasks[t].file /\ tasks'[t].phase = tasks[t].phase
  BY KeepsGrows DEF Keeps
<1>3. \A i : IsTask(i)' <=> IsTask(i)
  BY <1>2 DEF IsTask
<1>4. \A c \in NewCalls' :
         c.arg <= sent /\ ~IsTask(c.arg) /\ (mrPhase = "Map" <=> c.arg <= NFiles)
  <2>1. \A d \in NewCalls :
           d.arg <= sent /\ ~IsTask(d.arg) /\ (mrPhase = "Map" <=> d.arg <= NFiles)
    BY <1>1 DEF QueueOK
  <2>2. QED
    BY <2>1
<1>5. \A i \in 1 .. sent : IsTask(i) \/ \E c \in NewCalls' : c.arg = i
  <2>1. \A i \in 1 .. sent : IsTask(i) \/ \E d \in NewCalls : d.arg = i
    BY <1>1 DEF QueueOK
  <2>2. QED
    BY <2>1
<1>6. (IF mrPhase = "Map" THEN sent <= NFiles ELSE NFiles <= sent)'
  BY <1>1 DEF QueueOK
<1>7. \A s, t \in DOMAIN tasks' : tasks'[s].file = tasks'[t].file => s = t
  BY <1>1, <1>2 DEF QueueOK
<1>8. \A t \in DOMAIN tasks' : tasks'[t].file <= sent
                               /\ (tasks'[t].phase = "Map" <=> tasks'[t].file <= NFiles)
  BY <1>1, <1>2 DEF QueueOK
<1>9. \A c \in NewCalls' : ~IsTask(c.arg)'
  BY <1>3, <1>4
<1>10. \A i \in 1 .. sent : IsTask(i)' \/ \E c \in NewCalls' : c.arg = i
  BY <1>3, <1>5
<1>11. QED
  BY <1>4, <1>6, <1>7, <1>8, <1>9, <1>10 DEF QueueOK

\* The calls of a worker that exits go on with the items they have.
LEMMA ExitCalls ==
    ASSUME IInv, NEW w \in Worker, Exit(w)
    PROVE  /\ \A c \in NewCalls' : \E d \in NewCalls : c.arg = d.arg
           /\ \A d \in NewCalls : \E c \in NewCalls' : c.arg = d.arg
           /\ \A c, d \in NewCalls' : c.arg = d.arg => c = d
           /\ calls' \subseteq [kind : {"new", "retry"}, who : Worker \cup {Nobody},
                                arg : Item]
           /\ \A c \in calls' : \E d \in calls : c.kind = d.kind /\ c.arg = d.arg
<1> DEFINE f(c) == [c EXCEPT !.who = IF @ = w THEN Nobody ELSE @]
<1>1. calls' = {f(c) : c \in calls}
  BY DEF Exit
<1>2. calls \subseteq [kind : {"new", "retry"}, who : Worker \cup {Nobody}, arg : Item]
  BY DEF IInv, TypeOK, HandlerTypes
<1>3. \A c \in calls :
         /\ f(c) \in [kind : {"new", "retry"}, who : Worker \cup {Nobody}, arg : Item]
         /\ f(c).kind = c.kind /\ f(c).arg = c.arg
  BY <1>2
<1>4. \A c, d \in NewCalls : c.arg = d.arg => c = d
  BY DEF IInv, QueueOK
<1> HIDE DEF f
<1>5. ASSUME NEW c \in NewCalls'
      PROVE  \E d \in NewCalls : c = f(d) /\ c.arg = d.arg
  <2>1. PICK d \in calls : c = f(d)
    BY <1>1 DEF NewCalls
  <2>2. c.kind = "new"
    BY DEF NewCalls
  <2>3. QED
    BY <1>3, <2>1, <2>2 DEF NewCalls
<1>6. \A d \in NewCalls : f(d) \in NewCalls' /\ f(d).arg = d.arg
  BY <1>1, <1>3 DEF NewCalls
<1>7. \A c, d \in NewCalls' : c.arg = d.arg => c = d
  <2> SUFFICES ASSUME NEW c \in NewCalls', NEW d \in NewCalls', c.arg = d.arg
               PROVE  c = d
    OBVIOUS
  <2>1. PICK c0 \in NewCalls : c = f(c0) /\ c.arg = c0.arg
    BY <1>5
  <2>2. PICK d0 \in NewCalls : d = f(d0) /\ d.arg = d0.arg
    BY <1>5
  <2>3. c0 = d0
    BY <1>4, <2>1, <2>2
  <2>4. QED
    BY <2>1, <2>2, <2>3
<1>8. QED
  BY <1>1, <1>3, <1>5, <1>6, <1>7

\* Steps that do not touch the calls keep the queue in order.
LEMMA QueueSame ==
    ASSUME IInv, Keeps, UNCHANGED <<mrPhase, sent>>, NewCalls' = NewCalls
    PROVE  QueueOK'
<1>1. \A c, d \in NewCalls : c.arg = d.arg => c = d
  BY DEF IInv, QueueOK
<1>2. QED
  BY <1>1, QueueFrame

\* Sending an item makes it the item of one more call.
LEMMA QueueSend ==
    ASSUME IInv, Send
    PROVE  QueueOK'
<1>1. QueueOK /\ sent \in 0 .. NItem /\ NFiles \in Nat /\ NItem \in Nat
  BY SizeAssumption DEF IInv, TypeOK, MasterTypes, NItem
<1>2. UNCHANGED <<tasks, mrPhase>> /\ sent' = sent + 1
      /\ sent < IF mrPhase = "Map" THEN NFiles ELSE NItem
  BY DEF Send
<1>3. PICK w : calls' = calls \cup {[kind |-> "new", who |-> w, arg |-> sent + 1]}
  BY DEF Send, Queued
<1> DEFINE new == [kind |-> "new", who |-> w, arg |-> sent + 1]
<1>4. new.arg = sent + 1 /\ NewCalls' = NewCalls \cup {new}
  BY <1>3 DEF NewCalls
<1>5. /\ \A t \in DOMAIN tasks : tasks[t].file <= sent
      /\ \A c \in NewCalls : c.arg <= sent
  BY <1>1 DEF QueueOK
<1>6. \A t \in DOMAIN tasks : tasks[t].file \in Nat
  <2>1. \A t \in DOMAIN tasks : tasks[t] \in MRTask
    BY DEF IInv, TypeOK, MasterTypes
  <2>2. QED
    BY <2>1 DEF MRTask, Item
<1>7. \A c \in NewCalls : c.arg \in Nat
  BY DEF IInv, TypeOK, HandlerTypes, NewCalls, Item
<1> HIDE DEF new
<1>8. (IF mrPhase = "Map" THEN sent <= NFiles ELSE NFiles <= sent)'
  BY <1>1, <1>2 DEF QueueOK
<1>9. \A t \in DOMAIN tasks : tasks[t].file <= sent'
  BY <1>1, <1>2, <1>5, <1>6
<1>10. ~IsTask(sent + 1)
  BY <1>1, <1>5, <1>6 DEF IsTask
<1>11. \A c \in NewCalls' :
          c.arg <= sent' /\ ~IsTask(c.arg) /\ (mrPhase = "Map" <=> c.arg <= NFiles)
  <2>1. \A c \in NewCalls :
          c.arg <= sent' /\ ~IsTask(c.arg) /\ (mrPhase = "Map" <=> c.arg <= NFiles)
    BY <1>1, <1>2, <1>5, <1>7 DEF QueueOK
  <2>2. mrPhase = "Map" <=> sent + 1 <= NFiles
    BY <1>1, <1>2 DEF QueueOK
  <2>3. QED
    BY <1>1, <1>2, <1>4, <1>10, <2>1, <2>2
<1>12. \A c, d \in NewCalls' : c.arg = d.arg => c = d
  <2>1. \A c \in NewCalls : c.arg # sent + 1
    BY <1>1, <1>5, <1>7
  <2>2. QED
    BY <1>1, <1>4, <2>1 DEF QueueOK
<1>13. \A i \in 1 .. sent' : IsTask(i) \/ \E c \in NewCalls' : c.arg = i
  <2>1. \A i \in 1 .. sent' : i \in 1 .. sent \/ i = sent + 1
    BY <1>1, <1>2
  <2>2. \A i \in 1 .. sent : IsTask(i) \/ \E c \in NewCalls : c.arg = i
    BY <1>1 DEF QueueOK
  <2>3. QED
    BY <1>4, <2>1, <2>2
<1>14. /\ \A s, t \in DOMAIN tasks : tasks[s].file = tasks[t].file => s = t
       /\ \A t \in DOMAIN tasks : tasks[t].phase = "Map" <=> tasks[t].file <= NFiles
  BY <1>1 DEF QueueOK
<1>15. \A i : IsTask(i)' <=> IsTask(i)
  BY <1>2 DEF IsTask
<1>16. QED
  BY <1>2, <1>8, <1>9, <1>11, <1>12, <1>13, <1>14, <1>15 DEF QueueOK

\* Storing a new task moves its item from the call to the table.
LEMMA QueueStore ==
    ASSUME IInv, NEW c \in calls, StoreNew(c)
    PROVE  QueueOK'
<1>1. QueueOK
  BY DEF IInv
<1>2. UNCHANGED <<mrPhase, sent>>
  BY DEF StoreNew, schedVars
<1> DEFINE n == Len(tasks) + 1
<1>3. /\ c \in NewCalls /\ calls' = calls \ {c}
      /\ DOMAIN tasks' = DOMAIN tasks \cup {n} /\ n \notin DOMAIN tasks
      /\ \A t \in DOMAIN tasks : tasks'[t] = tasks[t]
      /\ tasks'[n].file = c.arg /\ tasks'[n].phase = mrPhase
  <2>1. tasks'[n] = [file |-> c.arg, phase |-> mrPhase, state |-> "Sending"]
    BY Stored
  <2>2. tasks'[n].file = c.arg /\ tasks'[n].phase = mrPhase
    BY <2>1
  <2>3. QED
    BY <2>2, Stored
<1> HIDE DEF n
<1>4. NewCalls' = NewCalls \ {c}
  BY <1>3 DEF NewCalls
<1>5. \A i : IsTask(i)' <=> IsTask(i) \/ i = c.arg
  BY <1>3 DEF IsTask
<1>6. /\ c.arg <= sent /\ ~IsTask(c.arg) /\ (mrPhase = "Map" <=> c.arg <= NFiles)
      /\ \A d \in NewCalls : d.arg = c.arg => d = c
  BY <1>1, <1>3 DEF QueueOK
<1>7. \A s, t \in DOMAIN tasks' : tasks'[s].file = tasks'[t].file => s = t
  <2>1. \A t \in DOMAIN tasks : tasks[t].file # c.arg
    BY <1>6 DEF IsTask
  <2>2. \A s, t \in DOMAIN tasks : tasks[s].file = tasks[t].file => s = t
    BY <1>1 DEF QueueOK
  <2>3. QED
    BY <1>3, <2>1, <2>2
<1>8. \A t \in DOMAIN tasks' : tasks'[t].file <= sent
                               /\ (tasks'[t].phase = "Map" <=> tasks'[t].file <= NFiles)
  BY <1>1, <1>3, <1>6 DEF QueueOK
<1>9. \A d \in NewCalls' :
         d.arg <= sent /\ ~IsTask(d.arg)' /\ (mrPhase = "Map" <=> d.arg <= NFiles)
  BY <1>1, <1>4, <1>5, <1>6 DEF QueueOK
<1>10. \A d, e \in NewCalls' : d.arg = e.arg => d = e
  BY <1>1, <1>4 DEF QueueOK
<1>11. \A i \in 1 .. sent : IsTask(i)' \/ \E d \in NewCalls' : d.arg = i
  BY <1>1, <1>4, <1>5 DEF QueueOK
<1>12. QED
  BY <1>1, <1>2, <1>7, <1>8, <1>9, <1>10, <1>11 DEF QueueOK

\* Reducing starts when no handler has an item to store.
LEMMA QueueStartReduce ==
    ASSUME IInv, StartReduce
    PROVE  QueueOK'
<1>1. QueueOK /\ NFiles \in Nat
  BY SizeAssumption DEF IInv
<1>2. NewCalls = {} /\ sent = NFiles /\ mrPhase' = "Reduce"
      /\ UNCHANGED <<sent, tasks, calls>>
  BY DEF StartReduce, LastIsStored, NewCalls, handlers
<1>3. NewCalls' = {} /\ \A i : IsTask(i)' <=> IsTask(i)
  BY <1>2 DEF NewCalls, IsTask
<1>4. QED
  BY <1>1, <1>2, <1>3 DEF QueueOK

\* Every step keeps the queue in order.
LEMMA QueueStep ==
    ASSUME IInv, Next
    PROVE  QueueOK'
<1>1. CASE \E c \in calls : StoreNew(c)
  BY <1>1, QueueStore
<1>2. CASE Keeps
  <2>1. UNCHANGED <<mrPhase, sent, calls>> => QueueOK'
    BY <1>2, QueueSame DEF NewCalls
  <2>2. CASE Scheduler
    <3>1. JobDone \/ GiveUp => QueueOK'
      BY <2>1 DEF JobDone, GiveUp, handlers
    <3>2. QED
      BY <2>2, <3>1, QueueSend, QueueStartReduce DEF Scheduler
  <2>3. CASE Handler
    <3>1. ASSUME NEW c \in calls, StoreRetry(c)  PROVE QueueOK'
      <4>1. NewCalls' = NewCalls /\ UNCHANGED <<mrPhase, sent>>
        BY <3>1 DEF StoreRetry, Retry, NewCalls, schedVars
      <4>2. QED
        BY <1>2, <4>1, QueueSame
    <3>2. ASSUME NEW l \in late, LateSetTaskState(l)  PROVE QueueOK'
      BY <2>1, <3>2 DEF LateSetTaskState, schedVars
    <3>3. ASSUME NEW b \in beats, HeartbeatStore(b)  PROVE QueueOK'
      BY <2>1, <3>3 DEF HeartbeatStore, schedVars
    <3>4. QED
      BY <1>1, <2>3, <3>1, <3>2, <3>3, QueueStore DEF Handler
  <2>4. CASE Monitor
    BY <2>1, <2>4 DEF Monitor, MonitorFails, MonitorLook, MonitorMark, schedVars, handlers
  <2>5. ASSUME NEW w \in Worker, Process(w) \/ Mishap(w)
        PROVE  QueueOK'
    <3>1. Exit(w) /\ UNCHANGED <<mrPhase, sent>> => QueueOK'
      BY <1>2, ExitCalls, QueueFrame
    <3>2. GetNothing(w) \/ GetTimeout(w) \/ Abort(w) \/ Crash(w) => QueueOK'
      BY <3>1 DEF GetNothing, GetTimeout, Abort, Crash, schedVars
    <3>3. GetRetryLook(w) => QueueOK'
      <4>1. GetRetryLook(w) => NewCalls' = NewCalls /\ UNCHANGED <<mrPhase, sent>>
        BY DEF GetRetryLook, NewCalls, schedVars
      <4>2. QED
        BY <1>2, <4>1, QueueSame
    <3>4. GetRetry(w) \/ GetBlocks(w) \/ Begin(w) \/ MapCreate(w) \/ MapEncode(w)
          => QueueOK'
      BY <2>1 DEF GetRetry, Retry, GetBlocks, Begin, MapCreate, MapEncode,
         schedVars, handlers
    <3>5. \/ ReduceGlob(w) \/ ReduceRead(w) \/ ReduceCreate(w) \/ ReducePrint(w)
          \/ Finish(w)
          => QueueOK'
      BY <2>1 DEF ReduceGlob, ReduceRead, ReduceCreate, ReducePrint, Finish,
         schedVars, handlers
    <3>6. HeartbeatLoad(w) \/ Fail(w) \/ Panic(w) \/ CreateFails(w) => QueueOK'
      BY <2>1 DEF HeartbeatLoad, Fail, Panic, CreateFails, schedVars, handlers
    <3>7. QED
      BY <2>5, <3>2, <3>3, <3>4, <3>5, <3>6 DEF Process, Mishap
  <2>6. QED
    BY <2>2, <2>3, <2>4, <2>5 DEF Next
<1>3. QED
  BY <1>1, <1>2, TableStep
---------------------------------------------------------------------------
(* Handlers, workers and files.                                            *)

\* Every step keeps what handlers hold.
LEMMA HandlersStep ==
    ASSUME IInv, Next
    PROVE  HandlersOK'
<1>1. HandlersOK /\ Grows
  BY AlwaysGrows DEF IInv
<1>2. /\ calls \subseteq [kind : {"new", "retry"}, who : Worker \cup {Nobody}, arg : Item]
      /\ beats \subseteq [task : DOMAIN tasks, rec : MRTask]
  BY DEF IInv, TypeOK, HandlerTypes
<1>3. /\ \A c \in calls : c.kind = "retry" => c.arg \in DOMAIN tasks'
      /\ \A b \in beats : /\ b.rec.file = tasks'[b.task].file
                          /\ b.rec.phase = tasks'[b.task].phase
  BY <1>1, <1>2 DEF HandlersOK, Grows
<1>4. calls' \subseteq calls /\ beats' \subseteq beats => HandlersOK'
  BY <1>3 DEF HandlersOK
<1>5. CASE Scheduler
  <2>1. Send => HandlersOK'
    BY <1>3 DEF Send, HandlersOK
  <2>2. QED
    BY <1>4, <1>5, <2>1 DEF Scheduler, StartReduce, JobDone, GiveUp, handlers
<1>6. CASE Handler
  BY <1>4, <1>6 DEF Handler, LateSetTaskState, StoreNew, StoreRetry, Retry, HeartbeatStore
<1>7. CASE Monitor
  BY <1>4, <1>7 DEF Monitor, MonitorFails, MonitorLook, MonitorMark, handlers
<1>8. ASSUME NEW w \in Worker, Process(w) \/ Mishap(w)
      PROVE  HandlersOK'
  <2>1. Exit(w) /\ UNCHANGED beats => HandlersOK'
    <3>1. Exit(w) => \A c \in calls' : \E d \in calls : c.kind = d.kind /\ c.arg = d.arg
      BY ExitCalls
    <3>2. QED
      BY <1>3, <3>1 DEF HandlersOK
  <2>2. GetNothing(w) \/ GetTimeout(w) \/ Abort(w) \/ Crash(w) => HandlersOK'
    BY <2>1 DEF GetNothing, GetTimeout, Abort, Crash
  <2>3. GetRetryLook(w) => HandlersOK'
    BY <1>3 DEF GetRetryLook, HandlersOK
  <2>4. HeartbeatLoad(w) => HandlersOK'
    BY <1>3 DEF HeartbeatLoad, HandlersOK
  <2>5. GetRetry(w) \/ GetBlocks(w) \/ Begin(w) \/ MapCreate(w) \/ MapEncode(w)
        => HandlersOK'
    BY <1>4 DEF GetRetry, Retry, GetBlocks, Begin, MapCreate, MapEncode, handlers
  <2>6. \/ ReduceGlob(w) \/ ReduceRead(w) \/ ReduceCreate(w) \/ ReducePrint(w)
        \/ Finish(w)
        => HandlersOK'
    BY <1>4 DEF ReduceGlob, ReduceRead, ReduceCreate, ReducePrint, Finish, handlers
  <2>7. Fail(w) \/ Panic(w) \/ CreateFails(w) => HandlersOK'
    BY <1>4 DEF Fail, Panic, CreateFails, handlers
  <2>8. QED
    BY <1>8, <2>2, <2>3, <2>4, <2>5, <2>6, <2>7 DEF Process, Mishap
<1>9. QED
  BY <1>5, <1>6, <1>7, <1>8 DEF Next
===============================================================================
