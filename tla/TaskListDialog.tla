--------------------------- MODULE TaskListDialog ---------------------------
(***************************************************************************)
(* The list of background tasks (src/src/UI/Dlg/DlgBackgroundTaskList.cpp) *)
(* composed with the tasks themselves.  The dialog shows the queue as it   *)
(* is when it opens and follows the taskAdded and taskFinished signals,    *)
(* which it collects until its next half-second update.                    *)
(*                                                                         *)
(* A signal of the main thread reaches the dialog at once.  taskAdded of a *)
(* task that a running task enqueues, and every taskFinished, are posted   *)
(* to the main thread's event loop, each from its own executor.            *)
(***************************************************************************)
EXTENDS BackgroundTasks

VARIABLES
  adding,       \* the task each executor has pushed and not yet announced
  events,       \* the events posted to the main thread
  open,         \* whether the dialog is open
  toAdd,        \* mTasksToAdd
  toRemove,     \* mTasksToRemove
  mapped,       \* the tasks in mTaskItemMap
  shown         \* the number of items of each task in the list widget

dialogVars == <<open, toAdd, toRemove, mapped, shown>>
allVars == <<vars, adding, events, dialogVars>>

Added(t) == [type |-> "taskAdded", task |-> t]
Finished(t) == [type |-> "taskFinished", task |-> t]

DialogTypeOK ==
  /\ TypeOK
  /\ adding \in [Executors -> Tasks \cup {NoTask}]
  /\ events \in Seq([type : {"taskAdded", "taskFinished", "dropped"}, task : Tasks])
  /\ open \in BOOLEAN
  /\ toAdd \in Seq(Tasks)
  /\ toRemove \in Seq(Tasks)
  /\ mapped \subseteq Tasks
  /\ shown \in [Tasks -> Nat]

DialogInit ==
  /\ Init
  /\ adding = [e \in Executors |-> NoTask]
  /\ events = <<>>
  /\ open = FALSE
  /\ toAdd = <<>>
  /\ toRemove = <<>>
  /\ mapped = {}
  /\ shown = [t \in Tasks |-> 0]

-----------------------------------------------------------------------------
(* The tasks' steps, with the signals they emit. *)

AddAndAnnounce(t, prioritize) ==
  /\ AddTask(t, prioritize)
  /\ toAdd' = IF open THEN Append(toAdd, t) ELSE toAdd
  /\ UNCHANGED <<adding, events, open, toRemove, mapped, shown>>

AddSuccessorSilently(e) ==
  /\ AddSuccessor(e)
  /\ adding' = [adding EXCEPT ![e] = CHOOSE t \in Tasks : t \in ToSet(queue') \ ToSet(queue)]
  /\ UNCHANGED <<events, dialogVars>>

AnnounceSuccessor(e) ==
  /\ FinishDetection(e)
  /\ events' = events \o (IF open THEN <<Added(adding[e])>> ELSE <<>>)
                      \o <<Finished(execTask[e])>>
  /\ adding' = [adding EXCEPT ![e] = NoTask]
  /\ UNCHANGED dialogVars

FinishAndAnnounce(e) ==
  /\ Finish(e)
  /\ events' = Append(events, Finished(execTask[e]))
  /\ UNCHANGED <<adding, dialogVars>>

(* The steps without a signal; the program ends with the dialog closed. *)
Silent ==
  /\ \/ SignalTask \/ WakeAll \/ AbortRest
     \/ SetTerminate /\ ~open
     \/ \E e \in Executors : GetNextTask(e) \/ Sleep(e) \/ Wake(e)
  /\ UNCHANGED <<adding, events, dialogVars>>

-----------------------------------------------------------------------------
(* The dialog, in the main thread. *)

(* The constructor connects the signals, then adds tasks(). *)
Open ==
  /\ mainPc = "loop"
  /\ ~open
  /\ MutexFree
  /\ open' = TRUE
  /\ toAdd' = queue
  /\ toRemove' = <<>>
  /\ mapped' = {}
  /\ shown' = [t \in Tasks |-> 0]
  /\ UNCHANGED <<vars, adding, events>>

(* The events posted to a dialog that is destroyed do nothing when their turn comes. *)
Close ==
  /\ mainPc = "loop"
  /\ open
  /\ open' = FALSE
  /\ events' = [k \in DOMAIN events |-> IF events[k].type = "taskAdded"
                                        THEN [events[k] EXCEPT !.type = "dropped"]
                                        ELSE events[k]]
  /\ toAdd' = <<>>
  /\ toRemove' = <<>>
  /\ mapped' = {}
  /\ shown' = [t \in Tasks |-> 0]
  /\ UNCHANGED <<vars, adding>>

(* addTask() and delTask(), when their event is delivered. *)
Deliver ==
  /\ mainPc = "loop"
  /\ events # <<>>
  /\ events' = Tail(events)
  /\ LET ev == Head(events)
     IN  /\ toAdd' = IF ev.type = "taskAdded" THEN Append(toAdd, ev.task) ELSE toAdd
         /\ toRemove' = IF ev.type = "taskFinished" /\ open
                        THEN Append(toRemove, ev.task) ELSE toRemove
  /\ UNCHANGED <<vars, adding, open, mapped, shown>>

TimesIn(t, s) == Cardinality({k \in DOMAIN s : s[k] = t})

(* Mutant: the finished tasks are removed before the new ones are added. *)
UpdateRemovingFirst ==
  /\ mainPc = "loop"
  /\ open
  /\ shown' = [t \in Tasks |->
                 shown[t] - (IF t \in mapped \cap ToSet(toRemove) THEN 1 ELSE 0) + TimesIn(t, toAdd)]
  /\ mapped' = (mapped \ ToSet(toRemove)) \cup ToSet(toAdd)
  /\ toAdd' = <<>>
  /\ toRemove' = <<>>
  /\ UNCHANGED <<vars, adding, events, open>>

(* periodicUpdateUi(): an item for each new task, then one item less for each finished one. *)
Update ==
  /\ mainPc = "loop"
  /\ open
  /\ LET listed == mapped \cup ToSet(toAdd)
     IN  /\ shown' = [t \in Tasks |->
                        shown[t] + TimesIn(t, toAdd)
                          - (IF t \in listed \cap ToSet(toRemove) THEN 1 ELSE 0)]
         /\ mapped' = listed \ ToSet(toRemove)
  /\ toAdd' = <<>>
  /\ toRemove' = <<>>
  /\ UNCHANGED <<vars, adding, events, open>>

DialogNext ==
  \/ \E t \in Tasks, prioritize \in BOOLEAN : AddAndAnnounce(t, prioritize)
  \/ \E e \in Executors : AddSuccessorSilently(e) \/ AnnounceSuccessor(e) \/ FinishAndAnnounce(e)
  \/ Silent
  \/ Open \/ Close \/ Deliver \/ Update

DialogSpec == DialogInit /\ [][DialogNext]_allVars

(* The dialog's steps are the user's and its timer's; the tasks' threads run on. *)
DialogFairSpec == DialogSpec /\ Fairness
-----------------------------------------------------------------------------
(* Nothing is on its way to the list. *)
UpToDate == open /\ events = <<>> /\ toAdd = <<>> /\ toRemove = <<>>

(***************************************************************************)
(* An up-to-date list shows every task that waits in the queue, whenever   *)
(* the dialog was opened, unless its executor has yet to announce it.      *)
(***************************************************************************)
QueuedTasksListed ==
  UpToDate =>
    \A t \in ToSet(queue) : shown[t] > 0 \/ \E e \in Executors : adding[e] = t

(***************************************************************************)
(* An up-to-date list shows no task of the main thread that has been run:  *)
(* no item is left behind, since a task's taskAdded comes before its       *)
(* taskFinished and both before the next update's removals.                *)
(***************************************************************************)
FinishedTasksLeave ==
  UpToDate /\ mainPc = "loop" => \A t \in executed \ Detections : shown[t] = 0

(***************************************************************************)
(* DlgBackgroundTaskList.cpp:28: whatever was on its way when the snapshot *)
(* of the queue was taken, the list and the queue come to agree.           *)
(***************************************************************************)
ListFollowsQueue == DialogTypeOK /\ QueuedTasksListed /\ FinishedTasksLeave
=============================================================================
