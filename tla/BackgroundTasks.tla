--------------------------- MODULE BackgroundTasks ---------------------------
(***************************************************************************)
(* The background tasks (src/src/BackgroundTasks.cpp): a queue of tasks    *)
(* behind the mutex mMtx, the executor threads that take tasks from it and *)
(* sleep on the condition mWaitForTasks when it is empty, addTask() called *)
(* from the main thread and from running tasks (the tempo detector         *)
(* enqueues its next task from the one before), and stopAll(), which sets  *)
(* the atomic mShouldTerminate and wakes the executors without the mutex.  *)
(*                                                                         *)
(* A step ends where the mutex is released, and between the check of       *)
(* mShouldTerminate and the wait, where stopAll() can come in.             *)
(***************************************************************************)
EXTENDS Naturals, Sequences, FiniteSets, SequencesExt

CONSTANTS
  Executors,    \* the executor threads
  Tasks,        \* the task objects
  NoTask,       \* the null task pointer
  Detections,   \* the tasks of the tempo detector, which enqueue their successor
  MayStop       \* whether the program ever ends

ASSUME BackgroundTasksAssumption ==
  /\ IsFiniteSet(Executors)
  /\ NoTask \notin Tasks
  /\ Detections \subseteq Tasks
  /\ MayStop \in BOOLEAN

VARIABLES
  queue,        \* mTasks
  terminate,    \* mShouldTerminate
  execPc,       \* where each executor is
  execTask,     \* the task of each executor
  mainPc,       \* where the main thread is
  executed,     \* the tasks whose execute() has returned
  aborted       \* the tasks that abort() was called on

vars == <<queue, terminate, execPc, execTask, mainPc, executed, aborted>>

ExecPcs == {"idle", "checked", "waiting", "woken", "running", "pushed", "ended"}

MainPcs == {"loop", "pushed", "flagged", "joining", "ended"}

TypeOK ==
  /\ queue \in Seq(Tasks)
  /\ terminate \in BOOLEAN
  /\ execPc \in [Executors -> ExecPcs]
  /\ execTask \in [Executors -> Tasks \cup {NoTask}]
  /\ mainPc \in MainPcs
  /\ executed \subseteq Tasks
  /\ aborted \subseteq Tasks

Init ==
  /\ queue = <<>>
  /\ terminate = FALSE
  /\ execPc = [e \in Executors |-> "idle"]
  /\ execTask = [e \in Executors |-> NoTask]
  /\ mainPc = "loop"
  /\ executed = {}
  /\ aborted = {}

(* Mutant: the mutex is given up before the wait begins. *)
MutexFreeAlways == TRUE

(* An executor keeps the mutex from its check of the queue until it waits. *)
MutexFree == \A e \in Executors : execPc[e] # "checked"

Waiting == {e \in Executors : execPc[e] = "waiting"}

-----------------------------------------------------------------------------
(* Parts of addTask(): under the mutex, and after the taskAdded signal. *)

(* A task object nobody has added yet. *)
Fresh(t) ==
  /\ t \notin ToSet(queue) \cup executed \cup aborted
  /\ \A e \in Executors : execTask[e] # t

Pushed(q, t, prioritize) == IF prioritize THEN <<t>> \o q ELSE Append(q, t)

(* Mutant: the signal is only given when the queue was empty before. *)
WakeOneWhenFirst(pc) ==
  {pc} \cup {[pc EXCEPT ![e] = "woken"] : e \in {f \in Waiting : Len(queue) = 1}}

(* wakeOne(): some waiting executor, if there is one. *)
WakeOne(pc) ==
  IF Waiting = {} THEN {pc} ELSE {[pc EXCEPT ![e] = "woken"] : e \in Waiting}

-----------------------------------------------------------------------------
(* The executors: getNextTask() and run(). *)

(* Mutant: the task at the front is not removed. *)
TakeAndLeave(e) ==
  /\ queue # <<>>
  /\ execTask' = [execTask EXCEPT ![e] = Head(queue)]
  /\ execPc' = [execPc EXCEPT ![e] = "running"]
  /\ UNCHANGED queue

Take(e) ==
  /\ queue # <<>>
  /\ execTask' = [execTask EXCEPT ![e] = Head(queue)]
  /\ execPc' = [execPc EXCEPT ![e] = "running"]
  /\ queue' = Tail(queue)

Becomes(e, pc) ==
  /\ execPc' = [execPc EXCEPT ![e] = pc]
  /\ UNCHANGED <<queue, execTask>>

(* getNextTask(), from its start to a task, to nothing, or to the wait. *)
GetNextTask(e) ==
  /\ execPc[e] = "idle"
  /\ MutexFree
  /\ \/ terminate /\ Becomes(e, "ended")
     \/ ~terminate /\ Take(e)
     \/ ~terminate /\ queue = <<>> /\ Becomes(e, "checked")
  /\ UNCHANGED <<terminate, mainPc, executed, aborted>>

(* The wait begins, and the mutex is released. *)
Sleep(e) ==
  /\ execPc[e] = "checked"
  /\ Becomes(e, "waiting")
  /\ UNCHANGED <<terminate, mainPc, executed, aborted>>

(* Woken up, the loop looks at the queue before it looks at the flag. *)
Wake(e) ==
  /\ execPc[e] = "woken"
  /\ MutexFree
  /\ \/ Take(e)
     \/ queue = <<>> /\ terminate /\ Becomes(e, "ended")
     \/ queue = <<>> /\ ~terminate /\ Becomes(e, "checked")
  /\ UNCHANGED <<terminate, mainPc, executed, aborted>>

(* The task ends, and taskFinished is queued for the main thread. *)
Finish(e) ==
  /\ execPc[e] = "running"
  /\ executed' = executed \cup {execTask[e]}
  /\ execTask' = [execTask EXCEPT ![e] = NoTask]
  /\ execPc' = [execPc EXCEPT ![e] = "idle"]
  /\ UNCHANGED <<queue, terminate, mainPc, aborted>>

(* A tempo detection enqueues the next one, if there is another song for it ... *)
AddSuccessor(e) ==
  /\ execPc[e] = "running"
  /\ execTask[e] \in Detections
  /\ MutexFree
  /\ \E t \in Detections :
       /\ Fresh(t)
       /\ queue' = Pushed(queue, t, FALSE)
  /\ execPc' = [execPc EXCEPT ![e] = "pushed"]
  /\ UNCHANGED <<terminate, execTask, mainPc, executed, aborted>>

(* ... signals it, and ends. *)
FinishDetection(e) ==
  /\ execPc[e] = "pushed"
  /\ execPc' \in WakeOne([execPc EXCEPT ![e] = "idle"])
  /\ executed' = executed \cup {execTask[e]}
  /\ execTask' = [execTask EXCEPT ![e] = NoTask]
  /\ UNCHANGED <<queue, terminate, mainPc, aborted>>

Executor(e) ==
  GetNextTask(e) \/ Sleep(e) \/ Wake(e) \/ Finish(e) \/ AddSuccessor(e)
  \/ FinishDetection(e)

-----------------------------------------------------------------------------
(* The main thread. *)

AddTask(t, prioritize) ==
  /\ mainPc = "loop"
  /\ Fresh(t)
  /\ MutexFree
  /\ queue' = Pushed(queue, t, prioritize)
  /\ mainPc' = "pushed"
  /\ UNCHANGED <<terminate, execPc, execTask, executed, aborted>>

SignalTask ==
  /\ mainPc = "pushed"
  /\ execPc' \in WakeOne(execPc)
  /\ mainPc' = "loop"
  /\ UNCHANGED <<queue, terminate, execTask, executed, aborted>>

(* stopAll() *)
SetTerminate ==
  /\ MayStop
  /\ mainPc = "loop"
  /\ terminate' = TRUE
  /\ mainPc' = "flagged"
  /\ UNCHANGED <<queue, execPc, execTask, executed, aborted>>

WakeAll ==
  /\ mainPc = "flagged"
  /\ execPc' = [e \in Executors |-> IF e \in Waiting THEN "woken" ELSE execPc[e]]
  /\ mainPc' = "joining"
  /\ UNCHANGED <<queue, terminate, execTask, executed, aborted>>

(* All executors have ended; what is left in the queue is aborted. *)
AbortRest ==
  /\ mainPc = "joining"
  /\ \A e \in Executors : execPc[e] = "ended"
  /\ aborted' = ToSet(queue)
  /\ mainPc' = "ended"
  /\ UNCHANGED <<queue, terminate, execPc, execTask, executed>>

Main ==
  \/ \E t \in Tasks, prioritize \in BOOLEAN : AddTask(t, prioritize)
  \/ SignalTask \/ SetTerminate \/ WakeAll \/ AbortRest

Next == Main \/ \E e \in Executors : Executor(e)

Spec == Init /\ [][Next]_vars

(***************************************************************************)
(* The scheduler runs every thread, a mutex that is free again and again   *)
(* is got, and every task ends.  Nothing makes the main thread add a task  *)
(* or stop.                                                                *)
(***************************************************************************)
Fairness ==
  /\ \A e \in Executors : WF_vars(Executor(e))
  /\ WF_vars(SignalTask \/ WakeAll \/ AbortRest)

FairSpec == Spec /\ Fairness
-----------------------------------------------------------------------------
(***************************************************************************)
(* A task has one fate: it is queued once, being run by one executor, run, *)
(* or aborted, and never two of these.                                     *)
(***************************************************************************)
OneFate ==
  /\ IsInjective(queue)
  /\ \A e \in Executors : execTask[e] # NoTask =>
       /\ execTask[e] \notin ToSet(queue) \cup executed
       /\ \A f \in Executors \ {e} : execTask[f] # execTask[e]
  /\ executed \cap (ToSet(queue) \cup aborted) = {}

(***************************************************************************)
(* No task waits in the queue while an executor sleeps on and nobody is on *)
(* the way to it: wakeOne() comes after the mutex is released, yet no      *)
(* wake-up is lost or spent on an executor that finds nothing.             *)
(***************************************************************************)
WorkConserving ==
  ~terminate /\ Waiting # {} =>
    Len(queue) <= Cardinality({e \in Executors : execPc[e] \in {"idle", "woken", "pushed"}})
                  + (IF mainPc = "pushed" THEN 1 ELSE 0)

(* When stopAll() has returned, nothing runs, and every task was run or aborted. *)
StoppedMeansSettled ==
  mainPc = "ended" =>
    /\ \A e \in Executors : execPc[e] = "ended" /\ execTask[e] = NoTask
    /\ ToSet(queue) \subseteq aborted

(***************************************************************************)
(* Both together: whichever thread enqueues, takes or stops, a task is     *)
(* neither lost nor run twice, and none is left when stopAll() returns.    *)
(***************************************************************************)
TasksSettled == OneFate /\ StoppedMeansSettled

(* Unless the program ends, every task that is added is run. *)
EveryTaskRuns == []~terminate => \A t \in Tasks : (t \in ToSet(queue) ~> t \in executed)

(* stopAll() returns, unless its wakeAll() came between an executor's check *)
(* of the flag and its wait, which it does not know of.                     *)
StopReturns ==
  [](mainPc = "joining" => \A e \in Executors : execPc[e] \notin {"checked", "waiting"})
    => (terminate ~> mainPc = "ended")

(***************************************************************************)
(* BackgroundTasks.cpp:64, :132: with wake-ups that are given after the    *)
(* mutex is released, or without it, both the tasks and the stop come to   *)
(* their end.                                                              *)
(***************************************************************************)
TasksEnd == EveryTaskRuns /\ StopReturns
=============================================================================
