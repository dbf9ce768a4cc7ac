------------------------ MODULE BackgroundTasksProofs ------------------------
(***************************************************************************)
(* Proofs about BackgroundTasks.tla and TaskListDialog.tla, for any number *)
(* of executors and any tasks.                                             *)
(*                                                                         *)
(* IInv: a task has one fate (OneFate), and everything is settled when     *)
(* stopAll() has returned (StoppedMeansSettled).  OneFate needs to know    *)
(* that an executor has a task exactly while it runs one, and that nothing *)
(* is aborted before the end; the latter needs that after the end no       *)
(* executor moves any more.                                                *)
(*                                                                         *)
(* WorkInv: no task waits while every executor sleeps (WorkConserving).    *)
(*                                                                         *)
(* DialogInv: the list of the dialog and the queue agree once nothing is   *)
(* on its way (ListFollowsQueue).  Until then each queued task is          *)
(* somewhere on its way: in the list, in what the next update adds, in an  *)
(* event, or at the executor that has yet to announce it.  A task of the   *)
(* main thread is, moreover, in one of the first two places at most, once, *)
(* and if it has been run then its removal is on its way too.              *)
(***************************************************************************)
EXTENDS TaskListDialog, FiniteSetTheorems, SequenceTheorems, TLAPS

USE BackgroundTasksAssumption

(* An executor has a task while it runs one. *)
TaskWhileRunning == \A e \in Executors : execPc[e] \in {"running", "pushed"} <=> execTask[e] # NoTask

(* Aborting is the last thing that happens. *)
AbortedLast ==
  IF mainPc = "ended"
  THEN aborted = ToSet(queue) /\ \A e \in Executors : execPc[e] = "ended"
  ELSE aborted = {}

IInv ==
  /\ TypeOK
  /\ TaskWhileRunning
  /\ AbortedLast
  /\ OneFate

-----------------------------------------------------------------------------
(* The queue as a set: addTask() puts a task in, at either end. *)
LEMMA PushedElements ==
  ASSUME NEW q \in Seq(Tasks), NEW t \in Tasks, NEW prioritize \in BOOLEAN,
         IsInjective(q), t \notin ToSet(q)
  PROVE  /\ Pushed(q, t, prioritize) \in Seq(Tasks)
         /\ ToSet(Pushed(q, t, prioritize)) = ToSet(q) \cup {t}
         /\ IsInjective(Pushed(q, t, prioritize))
<1>1. CASE prioritize
  <2> DEFINE p == <<t>> \o q
  <2>1. /\ p \in Seq(Tasks)
        /\ Len(p) = Len(q) + 1
        /\ p[1] = t
        /\ \A i \in 1..Len(q) : p[i + 1] = q[i]
    OBVIOUS
  <2>2. \A i \in DOMAIN p : i = 1 \/ (i - 1 \in DOMAIN q /\ p[i] = q[i - 1])
    <3>1. DOMAIN p = 1..(Len(q) + 1) /\ DOMAIN q = 1..Len(q) /\ Len(q) \in Nat
      BY <2>1, LenProperties
    <3> QED
      BY <2>1, <3>1
  <2>3. 1 \in DOMAIN p /\ \A i \in DOMAIN q : i + 1 \in DOMAIN p /\ p[i + 1] = q[i]
    BY <2>1, LenProperties
  <2> HIDE DEF p
  <2>4. ToSet(p) = ToSet(q) \cup {t}
    <3>1. ASSUME NEW x \in ToSet(p)
          PROVE  x \in ToSet(q) \cup {t}
      BY <2>1, <2>2 DEF ToSet
    <3>2. ASSUME NEW x \in ToSet(q) \cup {t}
          PROVE  x \in ToSet(p)
      BY <2>1, <2>3 DEF ToSet
    <3> QED
      BY <3>1, <3>2
  <2>5. IsInjective(p)
    <3> SUFFICES ASSUME NEW i \in DOMAIN p, NEW j \in DOMAIN p, p[i] = p[j]
                 PROVE  i = j
      BY DEF IsInjective
    <3>1. i \in Nat /\ j \in Nat
      BY <2>1, LenProperties
    <3> QED
      BY <2>1, <2>2, <3>1 DEF IsInjective, ToSet
  <2> QED
    BY <1>1, <2>1, <2>4, <2>5 DEF Pushed, p
<1>2. CASE ~prioritize
  <2> DEFINE p == Append(q, t)
  <2>1. /\ p \in Seq(Tasks)
        /\ Len(p) = Len(q) + 1
        /\ p[Len(q) + 1] = t
        /\ \A i \in 1..Len(q) : p[i] = q[i]
    OBVIOUS
  <2>2. DOMAIN p = 1..(Len(q) + 1) /\ DOMAIN q = 1..Len(q) /\ Len(q) \in Nat
    BY <2>1, LenProperties
  <2> HIDE DEF p
  <2>3. ToSet(p) = ToSet(q) \cup {t}
    BY <2>1, <2>2 DEF ToSet
  <2>4. IsInjective(p)
    BY <2>1, <2>2 DEF IsInjective, ToSet
  <2> QED
    BY <1>2, <2>1, <2>3, <2>4 DEF Pushed, p
<1> QED
  BY <1>1, <1>2

(* getNextTask() takes the front task out. *)
LEMMA TakenElements ==
  ASSUME NEW q \in Seq(Tasks), q # <<>>, IsInjective(q)
  PROVE  /\ Head(q) \in ToSet(q)
         /\ Tail(q) \in Seq(Tasks)
         /\ ToSet(Tail(q)) = ToSet(q) \ {Head(q)}
         /\ IsInjective(Tail(q))
<1> DEFINE r == Tail(q)
<1>1. /\ r \in Seq(Tasks)
      /\ Len(r) = Len(q) - 1
      /\ Head(q) = q[1]
      /\ \A i \in 1..Len(r) : r[i] = q[i + 1]
  BY HeadTailProperties
<1>2. /\ DOMAIN q = 1..Len(q)
      /\ DOMAIN r = 1..(Len(q) - 1)
      /\ Len(q) \in Nat \ {0}
  BY <1>1, LenProperties, EmptySeq
<1> HIDE DEF r
<1>3. \A i \in DOMAIN q : i = 1 \/ (i - 1 \in DOMAIN r /\ r[i - 1] = q[i])
  BY <1>1, <1>2
<1>4. ToSet(r) = ToSet(q) \ {Head(q)}
  <2>1. ASSUME NEW x \in ToSet(r)
        PROVE  x \in ToSet(q) \ {q[1]}
    <3>1. PICK i \in DOMAIN r : x = r[i]
      BY DEF ToSet
    <3>2. i + 1 \in DOMAIN q /\ x = q[i + 1] /\ i + 1 # 1 /\ 1 \in DOMAIN q
      BY <1>1, <1>2, <3>1
    <3> QED
      BY <3>2 DEF ToSet, IsInjective
  <2>2. ASSUME NEW x \in ToSet(q) \ {q[1]}
        PROVE  x \in ToSet(r)
    BY <1>3 DEF ToSet
  <2> QED
    BY <1>1, <2>1, <2>2
<1>5. IsInjective(r)
  <2>1. ASSUME NEW i \in DOMAIN r, NEW j \in DOMAIN r, r[i] = r[j]
        PROVE  i = j
    <3>1. i \in Int /\ j \in Int /\ i + 1 \in DOMAIN q /\ j + 1 \in DOMAIN q /\ q[i + 1] = q[j + 1]
      BY <1>1, <1>2, <2>1
    <3> QED
      BY <3>1 DEF IsInjective
  <2> QED
    BY <2>1 DEF IsInjective
<1>6. Head(q) \in ToSet(q)
  BY <1>1, <1>2 DEF ToSet
<1> QED
  BY <1>1, <1>4, <1>5, <1>6 DEF r

(* wakeOne() moves at most one executor, from its wait. *)
LEMMA WakeOneMoves ==
  ASSUME NEW pc \in [Executors -> ExecPcs], NEW pc2 \in WakeOne(pc)
  PROVE  /\ pc2 \in [Executors -> ExecPcs]
         /\ \A e \in Executors : pc2[e] # pc[e] => execPc[e] = "waiting" /\ pc2[e] = "woken"
BY DEF WakeOne, Waiting, ExecPcs

-----------------------------------------------------------------------------
LEMMA InitHolds ==
  ASSUME Init
  PROVE  IInv
<1>1. queue \in Seq(Tasks) /\ DOMAIN queue = {} /\ ToSet(queue) = {} /\ IsInjective(queue)
  BY DEF Init, ToSet, IsInjective
<1>2. TypeOK
  BY <1>1 DEF Init, TypeOK, ExecPcs, MainPcs
<1>3. TaskWhileRunning /\ AbortedLast
  BY DEF Init, TaskWhileRunning, AbortedLast
<1>4. OneFate
  BY <1>1 DEF Init, OneFate
<1> QED
  BY <1>2, <1>3, <1>4 DEF IInv

(* An executor takes the front task: from the queue into its hands. *)
LEMMA TakeKeeps ==
  ASSUME IInv, NEW e \in Executors, execPc[e] \in {"idle", "woken"}, Take(e),
         UNCHANGED <<terminate, mainPc, executed, aborted>>
  PROVE  IInv'
<1>1. /\ Head(queue) \in ToSet(queue)
      /\ queue' \in Seq(Tasks)
      /\ ToSet(queue') = ToSet(queue) \ {Head(queue)}
      /\ IsInjective(queue')
  BY TakenElements DEF IInv, TypeOK, OneFate, Take
<1>2. Head(queue) \in Tasks
  BY <1>1 DEF IInv, TypeOK, ToSet
<1>3. TypeOK'
  BY <1>1, <1>2 DEF IInv, TypeOK, Take, ExecPcs
<1>4. /\ execTask'[e] = Head(queue)
      /\ execPc'[e] = "running"
      /\ \A f \in Executors \ {e} : execTask'[f] = execTask[f] /\ execPc'[f] = execPc[f]
  BY DEF IInv, TypeOK, Take
<1>5. TaskWhileRunning'
  BY <1>2, <1>4 DEF IInv, TaskWhileRunning
<1>6. mainPc # "ended"
  BY DEF IInv, AbortedLast
<1>7. AbortedLast'
  BY <1>6 DEF IInv, AbortedLast
<1>8. OneFate'
  <2>1. Head(queue) \notin executed
    BY <1>1 DEF IInv, OneFate
  <2>2. \A f \in Executors \ {e} : execTask[f] # Head(queue)
    BY <1>1, <1>2 DEF IInv, OneFate
  <2>3. (executed \cap (ToSet(queue) \cup aborted) = {})'
    BY <1>1 DEF IInv, OneFate
  <2>4. ASSUME NEW f \in Executors, execTask'[f] # NoTask
        PROVE  /\ execTask'[f] \notin ToSet(queue') \cup executed'
               /\ \A g \in Executors \ {f} : execTask'[g] # execTask'[f]
    BY <1>1, <1>4, <2>1, <2>2, <2>4 DEF IInv, OneFate
  <2> QED
    BY <1>1, <2>3, <2>4 DEF OneFate
<1> QED
  BY <1>3, <1>5, <1>7, <1>8 DEF IInv

(* An executor without a task moves on without one. *)
LEMMA BecomesKeeps ==
  ASSUME IInv, NEW e \in Executors, execPc[e] \in {"idle", "checked", "woken"},
         NEW pc \in {"checked", "waiting", "ended"}, Becomes(e, pc),
         UNCHANGED <<terminate, mainPc, executed, aborted>>
  PROVE  IInv'
<1>1. TypeOK'
  BY DEF IInv, TypeOK, Becomes, ExecPcs
<1>2. TaskWhileRunning'
  BY DEF IInv, TypeOK, TaskWhileRunning, Becomes
<1>3. AbortedLast'
  BY DEF IInv, TypeOK, AbortedLast, Becomes
<1>4. OneFate'
  BY DEF IInv, OneFate, Becomes
<1> QED
  BY <1>1, <1>2, <1>3, <1>4 DEF IInv

(* A task that ends goes from its executor's hands to the executed ones. *)
LEMMA FinishKeeps ==
  ASSUME IInv, NEW e \in Executors, execPc[e] \in {"running", "pushed"},
         executed' = executed \cup {execTask[e]},
         execTask' = [execTask EXCEPT ![e] = NoTask],
         execPc' \in [Executors -> ExecPcs],
         execPc'[e] = "idle",
         \A f \in Executors \ {e} :
           execPc'[f] # execPc[f] => execPc[f] = "waiting" /\ execPc'[f] = "woken",
         UNCHANGED <<queue, terminate, mainPc, aborted>>
  PROVE  IInv'
<1>1. execTask[e] \in Tasks
  BY DEF IInv, TypeOK, TaskWhileRunning
<1>2. TypeOK'
  BY <1>1 DEF IInv, TypeOK
<1>3. TaskWhileRunning'
  BY DEF IInv, TypeOK, TaskWhileRunning
<1>4. mainPc # "ended"
  BY DEF IInv, AbortedLast
<1>5. AbortedLast'
  BY <1>4 DEF IInv, AbortedLast
<1>6. OneFate'
  <2>1. (IsInjective(queue))'
    BY DEF IInv, OneFate
  <2>2. ASSUME NEW f \in Executors, execTask'[f] # NoTask
        PROVE  /\ execTask'[f] \notin ToSet(queue') \cup executed'
               /\ \A g \in Executors \ {f} : execTask'[g] # execTask'[f]
    <3>1. f # e /\ execTask'[f] = execTask[f]
      BY <2>2 DEF IInv, TypeOK
    <3> QED
      BY <1>1, <2>2, <3>1 DEF IInv, TypeOK, OneFate
  <2>3. (executed \cap (ToSet(queue) \cup aborted) = {})'
    BY <1>1, <1>4 DEF IInv, OneFate, AbortedLast
  <2> QED
    BY <2>1, <2>2, <2>3 DEF OneFate
<1> QED
  BY <1>2, <1>3, <1>5, <1>6 DEF IInv

(* A fresh task goes into the queue. *)
LEMMA PushKeeps ==
  ASSUME IInv, NEW t \in Tasks, Fresh(t), NEW prioritize \in BOOLEAN,
         queue' = Pushed(queue, t, prioritize),
         mainPc # "ended", mainPc' \in MainPcs \ {"ended"},
         execPc' \in [Executors -> ExecPcs],
         \A e \in Executors : execPc'[e] # execPc[e] => execPc[e] = "running" /\ execPc'[e] = "pushed",
         UNCHANGED <<terminate, execTask, executed, aborted>>
  PROVE  IInv'
<1>1. /\ queue' \in Seq(Tasks)
      /\ ToSet(queue') = ToSet(queue) \cup {t}
      /\ IsInjective(queue')
  BY PushedElements DEF IInv, TypeOK, OneFate, Fresh
<1>2. TypeOK'
  BY <1>1 DEF IInv, TypeOK
<1>3. TaskWhileRunning'
  BY DEF IInv, TaskWhileRunning
<1>4. AbortedLast'
  BY DEF IInv, AbortedLast
<1>5. OneFate'
  BY <1>1 DEF IInv, OneFate, Fresh
<1> QED
  BY <1>2, <1>3, <1>4, <1>5 DEF IInv

(* Executors are woken up: nothing else changes. *)
LEMMA WakingKeeps ==
  ASSUME IInv, mainPc # "ended", mainPc' \in MainPcs \ {"ended"},
         execPc' \in [Executors -> ExecPcs],
         \A e \in Executors : execPc'[e] # execPc[e] => execPc[e] = "waiting" /\ execPc'[e] = "woken",
         terminate' \in BOOLEAN,
         UNCHANGED <<queue, execTask, executed, aborted>>
  PROVE  IInv'
BY DEF IInv, TypeOK, TaskWhileRunning, AbortedLast, OneFate

LEMMA ExecutorKeeps ==
  ASSUME IInv, NEW e \in Executors, Executor(e)
  PROVE  IInv'
<1>1. CASE GetNextTask(e)
  BY <1>1, TakeKeeps, BecomesKeeps DEF GetNextTask
<1>2. CASE Sleep(e)
  BY <1>2, BecomesKeeps DEF Sleep
<1>3. CASE Wake(e)
  BY <1>3, TakeKeeps, BecomesKeeps DEF Wake
<1>4. CASE Finish(e)
  <2>1. /\ execPc' \in [Executors -> ExecPcs]
        /\ execPc'[e] = "idle"
        /\ \A f \in Executors \ {e} : execPc'[f] = execPc[f]
    BY <1>4 DEF IInv, TypeOK, Finish, ExecPcs
  <2> QED
    BY <1>4, <2>1, FinishKeeps DEF Finish
<1>5. CASE AddSuccessor(e)
  <2>1. PICK t \in Tasks : Fresh(t) /\ queue' = Pushed(queue, t, FALSE)
    BY <1>5 DEF AddSuccessor
  <2>2. mainPc # "ended" /\ mainPc' \in MainPcs \ {"ended"}
    BY <1>5 DEF IInv, TypeOK, AbortedLast, AddSuccessor
  <2>3. /\ execPc' \in [Executors -> ExecPcs]
        /\ \A f \in Executors : execPc'[f] # execPc[f] => execPc[f] = "running" /\ execPc'[f] = "pushed"
    BY <1>5 DEF IInv, TypeOK, AddSuccessor, ExecPcs
  <2> QED
    BY <1>5, <2>1, <2>2, <2>3, PushKeeps DEF AddSuccessor
<1>6. CASE FinishDetection(e)
  <2> DEFINE pc == [execPc EXCEPT ![e] = "idle"]
  <2>1. pc \in [Executors -> ExecPcs] /\ pc[e] = "idle" /\ \A f \in Executors \ {e} : pc[f] = execPc[f]
    BY DEF IInv, TypeOK, ExecPcs
  <2>2. execPc' \in WakeOne(pc) /\ execPc[e] = "pushed"
    BY <1>6 DEF FinishDetection
  <2> HIDE DEF pc
  <2>3. /\ execPc' \in [Executors -> ExecPcs]
        /\ \A f \in Executors : execPc'[f] # pc[f] => execPc[f] = "waiting" /\ execPc'[f] = "woken"
    BY <2>1, <2>2, WakeOneMoves
  <2>4. execPc'[e] = "idle"
    BY <2>1, <2>2, <2>3
  <2>5. \A f \in Executors \ {e} :
          execPc'[f] # execPc[f] => execPc[f] = "waiting" /\ execPc'[f] = "woken"
    BY <2>1, <2>3
  <2> QED
    BY <1>6, <2>2, <2>3, <2>4, <2>5, FinishKeeps DEF FinishDetection
<1> QED
  BY <1>1, <1>2, <1>3, <1>4, <1>5, <1>6 DEF Executor

LEMMA MainKeeps ==
  ASSUME IInv, Main
  PROVE  IInv'
<1>1. ASSUME NEW t \in Tasks, NEW prioritize \in BOOLEAN, AddTask(t, prioritize)
      PROVE  IInv'
  <2>1. execPc' \in [Executors -> ExecPcs]
    BY <1>1 DEF IInv, TypeOK, AddTask
  <2> QED
    BY <1>1, <2>1, PushKeeps DEF AddTask, MainPcs
<1>2. CASE SignalTask
  <2>1. execPc \in [Executors -> ExecPcs] /\ execPc' \in WakeOne(execPc)
    BY <1>2 DEF IInv, TypeOK, SignalTask
  <2>2. /\ execPc' \in [Executors -> ExecPcs]
        /\ \A e \in Executors : execPc'[e] # execPc[e] => execPc[e] = "waiting" /\ execPc'[e] = "woken"
    BY <2>1, WakeOneMoves
  <2> QED
    BY <1>2, <2>2, WakingKeeps DEF SignalTask, MainPcs, IInv, TypeOK
<1>3. CASE SetTerminate
  BY <1>3, WakingKeeps DEF SetTerminate, MainPcs, IInv, TypeOK
<1>4. CASE WakeAll
  <2>1. /\ execPc' \in [Executors -> ExecPcs]
        /\ \A e \in Executors : execPc'[e] # execPc[e] => execPc[e] = "waiting" /\ execPc'[e] = "woken"
    BY <1>4 DEF WakeAll, Waiting, IInv, TypeOK, ExecPcs
  <2> QED
    BY <1>4, <2>1, WakingKeeps DEF WakeAll, MainPcs, IInv, TypeOK
<1>5. CASE AbortRest
  <2>1. TypeOK'
    BY <1>5 DEF AbortRest, IInv, TypeOK, MainPcs, ToSet
  <2>2. TaskWhileRunning' /\ AbortedLast'
    BY <1>5 DEF AbortRest, IInv, TaskWhileRunning, AbortedLast
  <2>3. OneFate'
    BY <1>5 DEF AbortRest, IInv, OneFate
  <2> QED
    BY <2>1, <2>2, <2>3 DEF IInv
<1> QED
  BY <1>1, <1>2, <1>3, <1>4, <1>5 DEF Main

LEMMA StutterKeeps ==
  ASSUME IInv, UNCHANGED vars
  PROVE  IInv'
BY DEF vars, IInv, TypeOK, TaskWhileRunning, AbortedLast, OneFate

(* The inductive invariant of the background tasks. *)
THEOREM InvariantHolds == Spec => []IInv
<1>1. Init => IInv
  BY InitHolds
<1>2. IInv /\ [Next]_vars => IInv'
  BY ExecutorKeeps, MainKeeps, StutterKeeps DEF Next
<1> QED
  BY <1>1, <1>2, PTL DEF Spec

(* A task is queued, being run, run or aborted, and never two of these. *)
THEOREM EveryTaskHasOneFate == Spec => []OneFate
<1>1. IInv => OneFate
  BY DEF IInv
<1> QED
  BY <1>1, InvariantHolds, PTL

(* When stopAll() has returned nothing runs, and what was not run is aborted. *)
THEOREM StopAllSettles == Spec => []StoppedMeansSettled
<1>1. IInv => StoppedMeansSettled
  BY DEF IInv, TaskWhileRunning, AbortedLast, StoppedMeansSettled
<1> QED
  BY <1>1, InvariantHolds, PTL

(* Both: no task is lost or run twice, and none is left over. *)
THEOREM TasksAreSettled == Spec => []TasksSettled
<1>1. OneFate /\ StoppedMeansSettled => TasksSettled
  BY DEF TasksSettled
<1> QED
  BY <1>1, EveryTaskHasOneFate, StopAllSettles, PTL

-----------------------------------------------------------------------------
(***************************************************************************)
(* WorkConserving: that no task waits while an executor sleeps on and      *)
(* nobody is on the way to it.  It is kept because an executor that is     *)
(* about to sleep holds the mutex: it has seen the queue empty, and nobody *)
(* can push a task before it is among those that wakeOne() wakes.          *)
(***************************************************************************)

(* The executors that will look at the queue, or signal what they pushed. *)
OnTheWay == {e \in Executors : execPc[e] \in {"idle", "woken", "pushed"}}

(* The main thread's signal that is still to be given. *)
Owed == IF mainPc = "pushed" THEN 1 ELSE 0

(* Nothing is queued while an executor is between its check and its wait. *)
CheckedEmpty == \A e \in Executors : execPc[e] = "checked" => queue = <<>>

WorkInv == IInv /\ CheckedEmpty /\ WorkConserving

LEMMA OnTheWayCounts ==
  ASSUME TypeOK
  PROVE  /\ IsFiniteSet(OnTheWay) /\ Cardinality(OnTheWay) \in Nat
         /\ Owed \in Nat /\ Len(queue) \in Nat
<1>1. OnTheWay \in SUBSET Executors
  BY DEF OnTheWay
<1>2. IsFiniteSet(OnTheWay)
  BY <1>1, FS_Subset
<1> QED
  BY <1>2, FS_CardinalityType, LenProperties DEF TypeOK, Owed

(* One executor more or less is on the way. *)
LEMMA OneMoves ==
  ASSUME TypeOK, NEW e \in Executors, NEW pc \in ExecPcs,
         execPc' = [execPc EXCEPT ![e] = pc]
  PROVE  /\ Waiting' = IF pc = "waiting" THEN Waiting \cup {e} ELSE Waiting \ {e}
         /\ Cardinality(OnTheWay') =
              Cardinality(OnTheWay)
                + (IF pc \in {"idle", "woken", "pushed"} THEN 1 ELSE 0)
                - (IF e \in OnTheWay THEN 1 ELSE 0)
<1>1. execPc'[e] = pc /\ \A f \in Executors \ {e} : execPc'[f] = execPc[f]
  BY DEF TypeOK
<1>2. Waiting' = IF pc = "waiting" THEN Waiting \cup {e} ELSE Waiting \ {e}
  BY <1>1 DEF Waiting
<1>3. IsFiniteSet(OnTheWay) /\ Cardinality(OnTheWay) \in Nat
  BY OnTheWayCounts
<1>4. CASE pc \in {"idle", "woken", "pushed"}
  <2>1. OnTheWay' = OnTheWay \cup {e}
    BY <1>1, <1>4 DEF OnTheWay
  <2>2. Cardinality(OnTheWay \cup {e}) =
          IF e \in OnTheWay THEN Cardinality(OnTheWay) ELSE Cardinality(OnTheWay) + 1
    BY <1>3, FS_AddElement
  <2>3. Cardinality(OnTheWay') = Cardinality(OnTheWay) + 1 - (IF e \in OnTheWay THEN 1 ELSE 0)
    BY <1>3, <2>1, <2>2
  <2> QED
    BY <1>2, <1>4, <2>3
<1>5. CASE pc \notin {"idle", "woken", "pushed"}
  <2>1. OnTheWay' = OnTheWay \ {e}
    BY <1>1, <1>5 DEF OnTheWay
  <2>2. Cardinality(OnTheWay \ {e}) =
          IF e \in OnTheWay THEN Cardinality(OnTheWay) - 1 ELSE Cardinality(OnTheWay)
    BY <1>3, FS_RemoveElement
  <2>3. Cardinality(OnTheWay') = Cardinality(OnTheWay) + 0 - (IF e \in OnTheWay THEN 1 ELSE 0)
    BY <1>3, <2>1, <2>2
  <2> QED
    BY <1>2, <1>5, <2>3
<1> QED
  BY <1>4, <1>5

LEMMA PushedLength ==
  ASSUME NEW q \in Seq(Tasks), NEW t \in Tasks, NEW prioritize \in BOOLEAN
  PROVE  Len(Pushed(q, t, prioritize)) = Len(q) + 1
BY DEF Pushed

(* The definition of WorkConserving, in the terms used here. *)
LEMMA WorkConservingIs ==
  WorkConserving <=>
    (~terminate /\ Waiting # {} => Len(queue) <= Cardinality(OnTheWay) + Owed)
BY DEF WorkConserving, OnTheWay, Owed

(* Who takes a task is on the way no more. *)
LEMMA TakeConserves ==
  ASSUME WorkInv, NEW e \in Executors, execPc[e] \in {"idle", "woken"}, Take(e),
         UNCHANGED <<terminate, mainPc>>
  PROVE  CheckedEmpty' /\ WorkConserving'
<1>1. TypeOK /\ CheckedEmpty
  BY DEF WorkInv, IInv
<1>2. ~terminate /\ Waiting # {} => Len(queue) <= Cardinality(OnTheWay) + Owed
  BY WorkConservingIs DEF WorkInv
<1>3. CheckedEmpty'
  BY <1>1 DEF CheckedEmpty, TypeOK, Take
<1>4. Waiting' = Waiting \ {e} /\ Cardinality(OnTheWay') = Cardinality(OnTheWay) + 0 - 1
  BY <1>1, OneMoves DEF Take, OnTheWay, ExecPcs
<1>5. Len(queue') = Len(queue) - 1 /\ Owed' = Owed
  BY <1>1, HeadTailProperties DEF TypeOK, Take, Owed
<1>6. ~terminate' /\ Waiting' # {} => Len(queue') <= Cardinality(OnTheWay') + Owed'
  BY <1>1, <1>2, <1>4, <1>5, OnTheWayCounts
<1> QED
  BY <1>3, <1>6, WorkConservingIs DEF WorkConserving, OnTheWay, Owed

(* With nothing queued, or once the end has begun, there is nothing to conserve. *)
LEMMA NothingOwed ==
  ASSUME TypeOK', terminate' \/ queue' = <<>> \/ Waiting' = {}
  PROVE  WorkConserving'
<1>1. Cardinality(OnTheWay') \in Nat /\ Owed' \in Nat
  <2>1. OnTheWay' \in SUBSET Executors
    BY DEF OnTheWay
  <2> QED
    BY <2>1, FS_Subset, FS_CardinalityType DEF Owed
<1>2. queue' = <<>> => Len(queue') = 0
  OBVIOUS
<1> QED
  BY <1>1, <1>2 DEF WorkConserving, OnTheWay, Owed

(* An executor that saw the queue empty, or the end, becomes something else. *)
LEMMA BecomesConserves ==
  ASSUME WorkInv, NEW e \in Executors, NEW pc \in {"checked", "waiting", "ended"},
         Becomes(e, pc), terminate \/ queue = <<>>,
         pc = "checked" => queue = <<>>, TypeOK',
         UNCHANGED <<terminate, mainPc>>
  PROVE  CheckedEmpty' /\ WorkConserving'
<1>1. CheckedEmpty'
  BY DEF WorkInv, IInv, TypeOK, CheckedEmpty, Becomes
<1>2. WorkConserving'
  BY NothingOwed DEF Becomes
<1> QED
  BY <1>1, <1>2

(* wakeOne(): if anybody still sleeps then one more is on the way. *)
LEMMA WakeOneConserves ==
  ASSUME TypeOK, NEW pc \in [Executors -> ExecPcs], execPc' \in WakeOne(pc),
         \A e \in Executors : execPc[e] = "waiting" <=> pc[e] = "waiting"
  PROVE  \/ Waiting' = {}
         \/ \E e \in Waiting : execPc' = [pc EXCEPT ![e] = "woken"]
<1>1. CASE Waiting = {}
  BY <1>1 DEF WakeOne, Waiting
<1>2. CASE Waiting # {}
  BY <1>2 DEF WakeOne
<1> QED
  BY <1>1, <1>2

LEMMA ExecutorConserves ==
  ASSUME WorkInv, NEW e \in Executors, Executor(e)
  PROVE  CheckedEmpty' /\ WorkConserving'
<1>1. TypeOK /\ CheckedEmpty /\ TypeOK'
  BY ExecutorKeeps DEF WorkInv, IInv
<1>2. ~terminate /\ Waiting # {} => Len(queue) <= Cardinality(OnTheWay) + Owed
  BY WorkConservingIs DEF WorkInv
<1>3. CASE GetNextTask(e)
  <2>1. CASE terminate /\ Becomes(e, "ended")
    BY <1>1, <1>3, <2>1, BecomesConserves DEF GetNextTask
  <2>2. CASE Take(e)
    BY <1>3, <2>2, TakeConserves DEF GetNextTask
  <2>3. CASE queue = <<>> /\ Becomes(e, "checked")
    BY <1>1, <1>3, <2>3, BecomesConserves DEF GetNextTask
  <2> QED
    BY <1>3, <2>1, <2>2, <2>3 DEF GetNextTask
<1>4. CASE Sleep(e)
  <2>1. queue = <<>>
    BY <1>1, <1>4 DEF Sleep, CheckedEmpty
  <2> QED
    BY <1>1, <1>4, <2>1, BecomesConserves DEF Sleep
<1>5. CASE Wake(e)
  <2>1. CASE Take(e)
    BY <1>5, <2>1, TakeConserves DEF Wake
  <2>2. CASE queue = <<>> /\ terminate /\ Becomes(e, "ended")
    BY <1>1, <1>5, <2>2, BecomesConserves DEF Wake
  <2>3. CASE queue = <<>> /\ ~terminate /\ Becomes(e, "checked")
    BY <1>1, <1>5, <2>3, BecomesConserves DEF Wake
  <2> QED
    BY <1>5, <2>1, <2>2, <2>3 DEF Wake
<1>6. CASE Finish(e)
  <2>1. CheckedEmpty'
    BY <1>1, <1>6 DEF Finish, CheckedEmpty, TypeOK
  <2>2. /\ Waiting' = Waiting \ {e}
        /\ Cardinality(OnTheWay') = Cardinality(OnTheWay) + 1 - 0
    BY <1>1, <1>6, OneMoves DEF Finish, OnTheWay, ExecPcs
  <2>3. ~terminate' /\ Waiting' # {} => Len(queue') <= Cardinality(OnTheWay') + Owed'
    BY <1>1, <1>2, <1>6, <2>2, OnTheWayCounts DEF Finish, Owed
  <2> QED
    BY <2>1, <2>3 DEF WorkConserving, OnTheWay, Owed
<1>7. CASE AddSuccessor(e)
  <2>1. CheckedEmpty'
    BY <1>1, <1>7 DEF AddSuccessor, MutexFree, CheckedEmpty, TypeOK
  <2>2. /\ Waiting' = Waiting \ {e}
        /\ Cardinality(OnTheWay') = Cardinality(OnTheWay) + 1 - 0
    BY <1>1, <1>7, OneMoves DEF AddSuccessor, OnTheWay, ExecPcs
  <2>3. Len(queue') = Len(queue) + 1
    BY <1>1, <1>7, PushedLength DEF AddSuccessor, TypeOK
  <2>4. terminate' = terminate /\ Owed' = Owed /\ e \notin Waiting
    BY <1>7 DEF AddSuccessor, Owed, Waiting
  <2>5. ~terminate' /\ Waiting' # {} => Len(queue') <= Cardinality(OnTheWay') + Owed'
    BY <1>1, <1>2, <2>2, <2>3, <2>4, OnTheWayCounts
  <2> QED
    BY <2>1, <2>5 DEF WorkConserving, OnTheWay, Owed
<1>8. CASE FinishDetection(e)
  <2> DEFINE pc == [execPc EXCEPT ![e] = "idle"]
  <2>1. /\ pc \in [Executors -> ExecPcs]
        /\ execPc[e] = "pushed" /\ pc[e] = "idle"
        /\ \A f \in Executors \ {e} : pc[f] = execPc[f]
    BY <1>1, <1>8 DEF TypeOK, ExecPcs, FinishDetection
  <2>2. execPc' \in WakeOne(pc)
    BY <1>8 DEF FinishDetection
  <2>3. UNCHANGED <<queue, terminate, mainPc>>
    BY <1>8 DEF FinishDetection
  <2> HIDE DEF pc
  <2>4. CheckedEmpty'
    BY <1>1, <2>1, <2>2, <2>3, WakeOneMoves DEF CheckedEmpty
  <2>5. CASE Waiting' = {}
    BY <1>1, <2>4, <2>5, NothingOwed
  <2>6. CASE \E f \in Waiting : execPc' = [pc EXCEPT ![f] = "woken"]
    <3>1. PICK f \in Waiting : execPc' = [pc EXCEPT ![f] = "woken"]
      BY <2>6
    <3>2. OnTheWay' = OnTheWay \cup {f} /\ Waiting' \subseteq Waiting
      BY <2>1, <3>1 DEF OnTheWay, Waiting
    <3>3. Cardinality(OnTheWay') >= Cardinality(OnTheWay) /\ Cardinality(OnTheWay') \in Nat
      <4>1. Cardinality(OnTheWay \cup {f}) =
              IF f \in OnTheWay THEN Cardinality(OnTheWay) ELSE Cardinality(OnTheWay) + 1
        BY <1>1, OnTheWayCounts, FS_AddElement
      <4> QED
        BY <1>1, <3>2, <4>1, OnTheWayCounts
    <3>4. ~terminate' /\ Waiting' # {} => Len(queue') <= Cardinality(OnTheWay') + Owed'
      BY <1>1, <1>2, <2>3, <3>2, <3>3, OnTheWayCounts DEF Owed
    <3> QED
      BY <2>4, <3>4 DEF WorkConserving, OnTheWay, Owed
  <2> QED
    BY <1>1, <2>1, <2>2, <2>5, <2>6, WakeOneConserves
<1> QED
  BY <1>3, <1>4, <1>5, <1>6, <1>7, <1>8 DEF Executor

LEMMA MainConserves ==
  ASSUME WorkInv, Main
  PROVE  CheckedEmpty' /\ WorkConserving'
<1>1. TypeOK /\ CheckedEmpty /\ TypeOK'
  BY MainKeeps DEF WorkInv, IInv
<1>2. ~terminate /\ Waiting # {} => Len(queue) <= Cardinality(OnTheWay) + Owed
  BY WorkConservingIs DEF WorkInv
<1>3. ASSUME NEW t \in Tasks, NEW prioritize \in BOOLEAN, AddTask(t, prioritize)
      PROVE  CheckedEmpty' /\ WorkConserving'
  <2>1. CheckedEmpty'
    BY <1>1, <1>3 DEF AddTask, MutexFree, CheckedEmpty
  <2>2. Len(queue') = Len(queue) + 1 /\ Owed' = Owed + 1
    BY <1>1, <1>3, PushedLength DEF AddTask, TypeOK, Owed
  <2>3. Waiting' = Waiting /\ OnTheWay' = OnTheWay
    BY <1>3 DEF AddTask, Waiting, OnTheWay
  <2>4. ~terminate' /\ Waiting' # {} => Len(queue') <= Cardinality(OnTheWay') + Owed'
    BY <1>1, <1>2, <1>3, <2>2, <2>3, OnTheWayCounts DEF AddTask
  <2> QED
    BY <2>1, <2>4 DEF WorkConserving, OnTheWay, Owed
<1>4. CASE SignalTask
  <2>1. /\ execPc \in [Executors -> ExecPcs] /\ execPc' \in WakeOne(execPc)
        /\ UNCHANGED <<queue, terminate>>
    BY <1>1, <1>4 DEF SignalTask, TypeOK
  <2>2. CheckedEmpty'
    BY <1>1, <2>1, WakeOneMoves DEF CheckedEmpty
  <2>3. CASE Waiting' = {}
    BY <1>1, <2>2, <2>3, NothingOwed
  <2>4. CASE \E e \in Waiting : execPc' = [execPc EXCEPT ![e] = "woken"]
    <3>1. PICK e \in Waiting : execPc' = [execPc EXCEPT ![e] = "woken"]
      BY <2>4
    <3>2. e \in Executors /\ e \notin OnTheWay
      BY <3>1 DEF Waiting, OnTheWay
    <3>3. Waiting' = Waiting \ {e} /\ Cardinality(OnTheWay') = Cardinality(OnTheWay) + 1 - 0
      BY <1>1, <3>1, <3>2, OneMoves DEF ExecPcs
    <3>4. Owed = 1 /\ Owed' = 0
      BY <1>4 DEF SignalTask, Owed
    <3>5. ~terminate' /\ Waiting' # {} => Len(queue') <= Cardinality(OnTheWay') + Owed'
      BY <1>1, <1>2, <2>1, <3>3, <3>4, OnTheWayCounts
    <3> QED
      BY <2>2, <3>5 DEF WorkConserving, OnTheWay, Owed
  <2> QED
    BY <1>1, <2>1, <2>3, <2>4, WakeOneConserves
<1>5. CASE SetTerminate
  <2>1. CheckedEmpty'
    BY <1>1, <1>5 DEF SetTerminate, CheckedEmpty
  <2> QED
    BY <1>1, <1>5, <2>1, NothingOwed DEF SetTerminate
<1>6. CASE WakeAll
  <2>1. CheckedEmpty'
    BY <1>1, <1>6 DEF WakeAll, CheckedEmpty
  <2>2. Waiting' = {}
    BY <1>6 DEF WakeAll, Waiting
  <2> QED
    BY <1>1, <2>1, <2>2, NothingOwed
<1>7. CASE AbortRest
  <2>1. CheckedEmpty'
    BY <1>1, <1>7 DEF AbortRest, CheckedEmpty
  <2>2. Waiting = {}
    BY <1>7 DEF AbortRest, Waiting
  <2> QED
    BY <1>1, <1>7, <2>1, <2>2, NothingOwed DEF AbortRest, Waiting
<1> QED
  BY <1>3, <1>4, <1>5, <1>6, <1>7 DEF Main

(* The strengthening with which WorkConserving is inductive. *)
THEOREM WorkInvariantHolds == Spec => []WorkInv
<1>1. Init => WorkInv
  <2> SUFFICES ASSUME Init
               PROVE  WorkInv
    OBVIOUS
  <2>1. IInv
    BY InitHolds
  <2>2. CheckedEmpty /\ WorkConserving
    BY DEF Init, CheckedEmpty, WorkConserving, Waiting
  <2> QED
    BY <2>1, <2>2 DEF WorkInv
<1>2. WorkInv /\ [Next]_vars => WorkInv'
  <2> SUFFICES ASSUME WorkInv, [Next]_vars
               PROVE  WorkInv'
    OBVIOUS
  <2>1. IInv'
    BY ExecutorKeeps, MainKeeps, StutterKeeps DEF WorkInv, Next
  <2>2. CASE Next
    BY <2>1, <2>2, ExecutorConserves, MainConserves DEF Next, WorkInv
  <2>3. CASE UNCHANGED vars
    BY <2>1, <2>3 DEF vars, WorkInv, CheckedEmpty, WorkConserving, Waiting
  <2> QED
    BY <2>2, <2>3
<1> QED
  BY <1>1, <1>2, PTL DEF Spec

(* No wake-up is lost: while an executor sleeps on, every queued task has   *)
(* another one on the way to it, or a signal that is still to be given.     *)
THEOREM NoTaskWaitsInVain == Spec => []WorkConserving
<1>1. WorkInv => WorkConserving
  BY DEF WorkInv
<1> QED
  BY <1>1, WorkInvariantHolds, PTL

-----------------------------------------------------------------------------
(* The list of the dialog. *)

Kinds == {"taskAdded", "taskFinished", "dropped"}

(* Every mapped task has an item. *)
ItemsMapped == \A t \in mapped : shown[t] > 0

(* An executor has a task to announce from its push to its signal. *)
AddingWhilePushed ==
  \A e \in Executors : /\ adding[e] \in Detections \cup {NoTask}
                       /\ execPc[e] = "pushed" <=> adding[e] # NoTask

(* taskAdded is posted for the detections only, and to an open dialog. *)
AddedToOpen == \A t \in Tasks : Added(t) \in ToSet(events) => open /\ t \in Detections

ClosedIsEmpty == ~open => toAdd = <<>> /\ toRemove = <<>> /\ mapped = {}

(* The task is in the list, or on its way to it. *)
Known(t) ==
  \/ t \in mapped \cup ToSet(toAdd)
  \/ Added(t) \in ToSet(events)
  \/ \E e \in Executors : adding[e] = t

QueuedKnown == open => \A t \in ToSet(queue) : Known(t)

(* The task's removal is on its way. *)
Leaving(t) == Finished(t) \in ToSet(events) \/ t \in ToSet(toRemove)

LeavingExecuted == \A t \in Tasks : Leaving(t) => t \in executed

Listed(t) == t \in mapped \/ t \in ToSet(toAdd)

(* What is listed was added, and is on its way out when it has been run. *)
ListedIsAlive(t) == Listed(t) => ~Fresh(t) /\ (t \in executed => Leaving(t))

(* The task occurs at most once. *)
Once(t, s) == \A i, j \in DOMAIN s : s[i] = t /\ s[j] = t => i = j

(* A task of the main thread is listed once. *)
OneItem(t) ==
  /\ shown[t] = IF t \in mapped THEN 1 ELSE 0
  /\ t \in ToSet(toAdd) => t \notin mapped
  /\ Once(t, toAdd)

MainTasksOnce == \A t \in Tasks \ Detections : ListedIsAlive(t) /\ OneItem(t)

DialogInv ==
  /\ IInv
  /\ DialogTypeOK
  /\ ItemsMapped
  /\ AddingWhilePushed
  /\ AddedToOpen
  /\ ClosedIsEmpty
  /\ QueuedKnown
  /\ LeavingExecuted
  /\ MainTasksOnce

-----------------------------------------------------------------------------
(* The elements of sequences: of what is appended, and of what is left. *)
LEMMA AppendedElements ==
  ASSUME NEW S, NEW s \in Seq(S), NEW x \in S
  PROVE  /\ Append(s, x) \in Seq(S)
         /\ ToSet(Append(s, x)) = ToSet(s) \cup {x}
<1> DEFINE p == Append(s, x)
<1>1. /\ p \in Seq(S)
      /\ Len(p) = Len(s) + 1
      /\ p[Len(s) + 1] = x
      /\ \A i \in 1..Len(s) : p[i] = s[i]
  BY AppendProperties
<1>2. DOMAIN p = 1..(Len(s) + 1) /\ DOMAIN s = 1..Len(s) /\ Len(s) \in Nat
  BY <1>1, LenProperties
<1> HIDE DEF p
<1>3. ToSet(p) = ToSet(s) \cup {x}
  BY <1>1, <1>2 DEF ToSet
<1> QED
  BY <1>1, <1>3 DEF p

LEMMA FunctionIsSeq ==
  ASSUME NEW S, NEW n \in Nat, NEW f \in [1..n -> S]
  PROVE  f \in Seq(S) /\ DOMAIN f = 1..n
BY SeqDef

LEMMA FirstAndRest ==
  ASSUME NEW S, NEW s \in Seq(S), s # <<>>
  PROVE  /\ Head(s) \in S
         /\ Tail(s) \in Seq(S)
         /\ ToSet(s) = {Head(s)} \cup ToSet(Tail(s))
<1> DEFINE r == Tail(s)
<1>1. /\ r \in Seq(S)
      /\ Len(r) = Len(s) - 1
      /\ Head(s) \in S
      /\ Head(s) = s[1]
      /\ \A i \in 1..Len(r) : r[i] = s[i + 1]
  BY HeadTailProperties
<1>2. /\ DOMAIN s = 1..Len(s)
      /\ DOMAIN r = 1..(Len(s) - 1)
      /\ Len(s) \in Nat \ {0}
  BY <1>1, LenProperties, EmptySeq
<1> HIDE DEF r
<1>3. \A i \in DOMAIN s : i = 1 \/ (i - 1 \in DOMAIN r /\ r[i - 1] = s[i])
  BY <1>1, <1>2
<1>4. ToSet(s) \subseteq {Head(s)} \cup ToSet(r)
  BY <1>1, <1>3 DEF ToSet
<1>5. {Head(s)} \cup ToSet(r) \subseteq ToSet(s)
  <2>1. ASSUME NEW x \in ToSet(r)
        PROVE  x \in ToSet(s)
    <3>1. PICK i \in DOMAIN r : x = r[i]
      BY DEF ToSet
    <3>2. i + 1 \in DOMAIN s /\ x = s[i + 1]
      BY <1>1, <1>2, <3>1
    <3> QED
      BY <3>2 DEF ToSet
  <2>2. 1 \in DOMAIN s
    BY <1>2
  <2> QED
    BY <1>1, <2>1, <2>2 DEF ToSet
<1> QED
  BY <1>1, <1>4, <1>5 DEF r

LEMMA ElementsTyped ==
  ASSUME NEW S, NEW s \in Seq(S)
  PROVE  ToSet(s) \subseteq S
BY LenProperties DEF ToSet

LEMMA NoElements == ToSet(<<>>) = {}
<1>1. DOMAIN <<>> = {}
  OBVIOUS
<1> QED
  BY <1>1 DEF ToSet

(* How often a task occurs: as a number, whether at all, and when once. *)
LEMMA TimesCount ==
  ASSUME NEW s \in Seq(Tasks), NEW t \in Tasks
  PROVE  /\ TimesIn(t, s) \in Nat
         /\ TimesIn(t, s) = 0 <=> t \notin ToSet(s)
         /\ Once(t, s) => TimesIn(t, s) <= 1
<1> DEFINE T == {k \in DOMAIN s : s[k] = t}
<1>1. DOMAIN s = 1..Len(s) /\ Len(s) \in Nat
  BY LenProperties
<1>2. IsFiniteSet(DOMAIN s)
  BY <1>1, FS_Interval
<1>3. IsFiniteSet(T) /\ T \in SUBSET DOMAIN s
  BY <1>2, FS_Subset
<1>4. Cardinality(T) \in Nat
  BY <1>3, FS_CardinalityType
<1>5. Cardinality(T) = 0 <=> T = {}
  BY <1>3, FS_EmptySet
<1>6. T = {} <=> t \notin ToSet(s)
  BY DEF ToSet
<1>7. ASSUME Once(t, s)
      PROVE  Cardinality(T) <= 1
  <2>1. CASE T = {}
    BY <1>5, <2>1
  <2>2. CASE T # {}
    <3>1. PICK k \in T : TRUE
      BY <2>2
    <3>2. T = {k}
      BY <1>7, <3>1 DEF Once
    <3>3. Cardinality(T) = 1
      BY <3>2, FS_Singleton
    <3> QED
      BY <3>3
  <2> QED
    BY <2>1, <2>2
<1> QED
  BY <1>4, <1>5, <1>6, <1>7 DEF TimesIn

LEMMA AppendedOnce ==
  ASSUME NEW s \in Seq(Tasks), NEW x \in Tasks, NEW t \in Tasks,
         Once(t, s), t = x => t \notin ToSet(s)
  PROVE  Once(t, Append(s, x))
<1> DEFINE p == Append(s, x)
<1>1. /\ p \in Seq(Tasks)
      /\ Len(p) = Len(s) + 1
      /\ p[Len(s) + 1] = x
      /\ \A i \in 1..Len(s) : p[i] = s[i]
  BY AppendProperties
<1>2. DOMAIN p = 1..(Len(s) + 1) /\ DOMAIN s = 1..Len(s) /\ Len(s) \in Nat
  BY <1>1, LenProperties
<1> HIDE DEF p
<1>3. Once(t, p)
  BY <1>1, <1>2 DEF Once, ToSet
<1> QED
  BY <1>3 DEF p

-----------------------------------------------------------------------------
(* Once a task has been added it remains somewhere. *)
LEMMA NotFreshStays ==
  ASSUME IInv, [Next]_vars, NEW t \in Tasks, ~Fresh(t)
  PROVE  ~Fresh(t)'
<1> DEFINE Put == ToSet(queue) \cup executed \cup aborted
<1>1. t \in Put \/ \E e \in Executors : execTask[e] = t
  BY DEF Fresh
<1>2. TypeOK /\ TaskWhileRunning /\ AbortedLast /\ IsInjective(queue)
  BY DEF IInv, OneFate
<1>3. SUFFICES t \in Put' \/ \E e \in Executors : execTask'[e] = t
  BY DEF Fresh
<1>4. ASSUME NEW e \in Executors, Executor(e)
      PROVE  t \in Put' \/ \E f \in Executors : execTask'[f] = t
  <2>1. CASE Take(e) /\ execPc[e] \in {"idle", "woken"} /\ UNCHANGED <<executed, aborted>>
    <3>1. execTask[e] = NoTask
      BY <1>2, <2>1 DEF TaskWhileRunning
    <3>2. ToSet(queue') = ToSet(queue) \ {Head(queue)}
      BY <1>2, <2>1, TakenElements DEF Take, TypeOK
    <3>3. execTask'[e] = Head(queue) /\ \A f \in Executors \ {e} : execTask'[f] = execTask[f]
      BY <1>2, <2>1 DEF Take, TypeOK
    <3> QED
      BY <1>1, <2>1, <3>1, <3>2, <3>3, BackgroundTasksAssumption
  <2>2. CASE UNCHANGED <<queue, execTask, executed, aborted>>
    BY <1>1, <2>2
  <2>3. CASE Finish(e) \/ FinishDetection(e)
    <3>1. /\ executed' = executed \cup {execTask[e]}
          /\ UNCHANGED <<queue, aborted>>
          /\ \A f \in Executors \ {e} : execTask'[f] = execTask[f]
      BY <1>2, <2>3 DEF Finish, FinishDetection, TypeOK
    <3> QED
      BY <1>1, <3>1
  <2>4. CASE AddSuccessor(e)
    <3>1. PICK x \in Tasks : Fresh(x) /\ queue' = Pushed(queue, x, FALSE)
      BY <2>4, BackgroundTasksAssumption DEF AddSuccessor
    <3>2. ToSet(queue') = ToSet(queue) \cup {x}
      BY <1>2, <3>1, PushedElements DEF TypeOK, Fresh
    <3> QED
      BY <1>1, <2>4, <3>2 DEF AddSuccessor
  <2> QED
    BY <1>4, <2>1, <2>2, <2>3, <2>4 DEF Executor, GetNextTask, Sleep, Wake, Becomes
<1>5. CASE \E x \in Tasks, prioritize \in BOOLEAN : AddTask(x, prioritize)
  <2>1. PICK x \in Tasks, prioritize \in BOOLEAN : AddTask(x, prioritize)
    BY <1>5
  <2>2. ToSet(queue') = ToSet(queue) \cup {x}
    BY <1>2, <2>1, PushedElements DEF TypeOK, Fresh, AddTask
  <2> QED
    BY <1>1, <2>1, <2>2 DEF AddTask
<1>6. CASE SignalTask \/ SetTerminate \/ WakeAll \/ UNCHANGED vars
  BY <1>1, <1>6 DEF SignalTask, SetTerminate, WakeAll, vars
<1>7. CASE AbortRest
  <2>1. aborted = {}
    BY <1>2, <1>7 DEF AbortRest, AbortedLast
  <2> QED
    BY <1>1, <1>7, <2>1 DEF AbortRest
<1> QED
  BY <1>4, <1>5, <1>6, <1>7 DEF Next, Main

LEMMA TasksKeep ==
  ASSUME IInv, [Next]_vars
  PROVE  IInv'
BY ExecutorKeeps, MainKeeps, StutterKeeps DEF Next

(* What a task's step leaves of the dialog, when it adds and announces nothing. *)
LEMMA SilentTasks ==
  ASSUME IInv, Silent
  PROVE  /\ Next
         /\ ToSet(queue') \subseteq ToSet(queue)
         /\ executed' = executed
         /\ \A e \in Executors : execPc'[e] = "pushed" <=> execPc[e] = "pushed"
<1>1. TypeOK /\ IsInjective(queue)
  BY DEF IInv, OneFate
<1>2. Next
  BY DEF Silent, Next, Main, Executor
<1>3. ASSUME NEW e \in Executors, Take(e), execPc[e] \in {"idle", "woken"}
      PROVE  /\ ToSet(queue') \subseteq ToSet(queue)
             /\ \A f \in Executors : execPc'[f] = "pushed" <=> execPc[f] = "pushed"
  BY <1>1, <1>3, TakenElements DEF Take, TypeOK
<1>4. ASSUME NEW e \in Executors, NEW pc \in {"checked", "waiting", "ended"}, Becomes(e, pc),
             execPc[e] \in {"idle", "woken", "checked"}
      PROVE  /\ ToSet(queue') \subseteq ToSet(queue)
             /\ \A f \in Executors : execPc'[f] = "pushed" <=> execPc[f] = "pushed"
  BY <1>1, <1>4 DEF Becomes, TypeOK
<1>5. CASE \E e \in Executors : GetNextTask(e) \/ Sleep(e) \/ Wake(e)
  BY <1>2, <1>3, <1>4, <1>5 DEF GetNextTask, Sleep, Wake
<1>6. CASE SignalTask
  <2>1. execPc \in [Executors -> ExecPcs] /\ execPc' \in WakeOne(execPc)
    BY <1>1, <1>6 DEF SignalTask, TypeOK
  <2>2. \A e \in Executors : execPc'[e] # execPc[e] => execPc[e] = "waiting" /\ execPc'[e] = "woken"
    BY <2>1, WakeOneMoves
  <2> QED
    BY <1>2, <1>6, <2>2 DEF SignalTask
<1>7. CASE WakeAll \/ AbortRest \/ SetTerminate
  BY <1>1, <1>2, <1>7 DEF WakeAll, AbortRest, SetTerminate, Waiting, TypeOK
<1> QED
  BY <1>5, <1>6, <1>7 DEF Silent

-----------------------------------------------------------------------------
LEMMA DialogInitHolds ==
  ASSUME DialogInit
  PROVE  DialogInv
<1>1. IInv
  BY InitHolds DEF DialogInit
<1>2. DialogTypeOK
  <2>1. <<>> \in Seq(Tasks) /\ <<>> \in Seq([type : Kinds, task : Tasks])
    BY EmptySeq
  <2> QED
    BY <1>1, <2>1 DEF IInv, DialogTypeOK, DialogInit, Kinds
<1>3. ToSet(events) = {} /\ ToSet(toAdd) = {} /\ ToSet(toRemove) = {} /\ ToSet(queue) = {}
  BY NoElements DEF DialogInit, Init
<1>4. ItemsMapped /\ AddingWhilePushed /\ ClosedIsEmpty /\ QueuedKnown
  BY DEF DialogInit, Init, ItemsMapped, AddingWhilePushed, ClosedIsEmpty, QueuedKnown
<1>5. AddedToOpen /\ LeavingExecuted
  BY <1>3 DEF AddedToOpen, LeavingExecuted, Leaving
<1>6. MainTasksOnce
  BY <1>3 DEF MainTasksOnce, ListedIsAlive, Listed, OneItem, Once, DialogInit
<1> QED
  BY <1>1, <1>2, <1>4, <1>5, <1>6 DEF DialogInv

(* The main thread adds a task: the open dialog knows of it at once. *)
LEMMA AddAndAnnounceKeeps ==
  ASSUME DialogInv, NEW x \in Tasks, NEW prioritize \in BOOLEAN, AddAndAnnounce(x, prioritize)
  PROVE  DialogInv'
<1>1. /\ IInv /\ TypeOK /\ IsInjective(queue)
      /\ DialogTypeOK
      /\ Next /\ Fresh(x) /\ AddTask(x, prioritize)
  BY DEF DialogInv, IInv, OneFate, AddAndAnnounce, Next, Main, AddTask
<1>2. IInv'
  BY <1>1, TasksKeep
<1>3. ToSet(queue') = ToSet(queue) \cup {x}
  BY <1>1, PushedElements DEF TypeOK, AddTask, Fresh
<1>4. UNCHANGED <<execPc, executed, adding, events, open, toRemove, mapped, shown>>
  BY <1>1 DEF AddAndAnnounce, AddTask
<1>5. /\ toAdd' \in Seq(Tasks)
      /\ ToSet(toAdd') = IF open THEN ToSet(toAdd) \cup {x} ELSE ToSet(toAdd)
  <2>1. toAdd \in Seq(Tasks) /\ toAdd' = IF open THEN Append(toAdd, x) ELSE toAdd
    BY <1>1 DEF AddAndAnnounce, DialogTypeOK
  <2>2. Append(toAdd, x) \in Seq(Tasks) /\ ToSet(Append(toAdd, x)) = ToSet(toAdd) \cup {x}
    BY <2>1, AppendedElements
  <2> QED
    BY <2>1, <2>2
<1>6. DialogTypeOK'
  BY <1>1, <1>2, <1>4, <1>5 DEF DialogTypeOK, IInv
<1>7. ItemsMapped' /\ AddingWhilePushed' /\ AddedToOpen' /\ LeavingExecuted' /\ ClosedIsEmpty'
  BY <1>4 DEF DialogInv, AddAndAnnounce, ItemsMapped, AddingWhilePushed, AddedToOpen,
              LeavingExecuted, Leaving, ClosedIsEmpty
<1>8. QueuedKnown'
  BY <1>3, <1>4, <1>5 DEF DialogInv, QueuedKnown, Known
<1>9. ASSUME NEW t \in Tasks \ Detections
      PROVE  ListedIsAlive(t)' /\ OneItem(t)'
  <2>1. ListedIsAlive(t) /\ OneItem(t)
    BY DEF DialogInv, MainTasksOnce
  <2>2. t = x => t \notin ToSet(toAdd) /\ t \notin mapped /\ t \notin executed
    BY <1>1, <2>1 DEF ListedIsAlive, Listed, Fresh
  <2>3. ~Fresh(x)'
    BY <1>3 DEF Fresh
  <2>4. ListedIsAlive(t)'
    BY <1>1, <1>4, <1>5, <2>1, <2>2, <2>3, NotFreshStays DEF ListedIsAlive, Listed, Leaving
  <2>5. Once(t, toAdd')
    BY <1>1, <2>1, <2>2, AppendedOnce DEF OneItem, AddAndAnnounce, DialogTypeOK
  <2> QED
    BY <1>4, <1>5, <2>1, <2>2, <2>4, <2>5 DEF OneItem
<1> QED
  BY <1>2, <1>6, <1>7, <1>8, <1>9 DEF DialogInv, MainTasksOnce

(* A detection's successor is announced later: until then its executor knows it. *)
LEMMA AddSuccessorSilentlyKeeps ==
  ASSUME DialogInv, NEW e \in Executors, AddSuccessorSilently(e)
  PROVE  DialogInv'
<1>1. /\ IInv /\ TypeOK /\ IsInjective(queue)
      /\ DialogTypeOK
      /\ Next /\ AddSuccessor(e)
  BY DEF DialogInv, IInv, OneFate, AddSuccessorSilently, Next, Executor
<1>2. IInv'
  BY <1>1, TasksKeep
<1>3. PICK x \in Detections : Fresh(x) /\ queue' = Pushed(queue, x, FALSE)
  BY <1>1 DEF AddSuccessor
<1>4. x \in Tasks /\ x # NoTask
  BY <1>3, BackgroundTasksAssumption
<1>5. ToSet(queue') = ToSet(queue) \cup {x} /\ x \notin ToSet(queue)
  BY <1>1, <1>3, <1>4, PushedElements DEF TypeOK, Fresh
<1>6. (CHOOSE t \in Tasks : t \in ToSet(queue') \ ToSet(queue)) = x
  BY <1>4, <1>5
<1>7. adding' = [adding EXCEPT ![e] = x]
  BY <1>6 DEF AddSuccessorSilently
<1>8. UNCHANGED <<executed, events, dialogVars>>
  BY <1>1 DEF AddSuccessorSilently, AddSuccessor
<1>9. DialogTypeOK'
  BY <1>1, <1>2, <1>4, <1>7, <1>8 DEF DialogTypeOK, IInv, dialogVars
<1>10. AddingWhilePushed'
  BY <1>1, <1>3, <1>4, <1>7 DEF DialogInv, AddingWhilePushed, DialogTypeOK, TypeOK, AddSuccessor
<1>11. ItemsMapped' /\ AddedToOpen' /\ LeavingExecuted' /\ ClosedIsEmpty'
  BY <1>8 DEF DialogInv, ItemsMapped, AddedToOpen, LeavingExecuted, Leaving, ClosedIsEmpty,
              dialogVars
<1>12. QueuedKnown'
  <2>1. adding[e] = NoTask
    BY <1>1 DEF AddSuccessor, DialogInv, AddingWhilePushed
  <2>2. adding'[e] = x /\ \A f \in Executors \ {e} : adding'[f] = adding[f]
    BY <1>1, <1>7 DEF DialogTypeOK
  <2>3. NoTask \notin ToSet(queue)
    BY <1>1, ElementsTyped, BackgroundTasksAssumption DEF TypeOK
  <2> QED
    BY <1>5, <1>8, <2>1, <2>2, <2>3 DEF DialogInv, QueuedKnown, Known, dialogVars
<1>13. MainTasksOnce'
  BY <1>1, <1>8, NotFreshStays
     DEF DialogInv, MainTasksOnce, ListedIsAlive, Listed, Leaving, OneItem, dialogVars
<1> QED
  BY <1>2, <1>9, <1>10, <1>11, <1>12, <1>13 DEF DialogInv

(* A task ends: taskFinished is posted, after taskAdded of a successor. *)
LEMMA EndingKeeps ==
  ASSUME DialogInv, NEW e \in Executors, execPc[e] \in {"running", "pushed"}, Next,
         executed' = executed \cup {execTask[e]},
         UNCHANGED <<queue, dialogVars>>,
         events' \in Seq([type : Kinds, task : Tasks]),
         NEW announced,
         announced = IF open /\ execPc[e] = "pushed" THEN {adding[e]} ELSE {},
         ToSet(events') =
           ToSet(events) \cup {Added(t) : t \in announced} \cup {Finished(execTask[e])},
         adding' = [adding EXCEPT ![e] = NoTask],
         \A f \in Executors : execPc'[f] = "pushed" <=> f # e /\ execPc[f] = "pushed"
  PROVE  DialogInv'
<1>1. IInv /\ TypeOK /\ DialogTypeOK /\ IInv'
  BY TasksKeep DEF DialogInv, IInv
<1>2. execTask[e] \in Tasks
  BY <1>1 DEF IInv, TypeOK, TaskWhileRunning
<1>3. DialogTypeOK'
  BY <1>1 DEF DialogTypeOK, IInv, dialogVars, Kinds
<1>4. adding'[e] = NoTask /\ \A f \in Executors \ {e} : adding'[f] = adding[f]
  BY <1>1 DEF DialogTypeOK
<1>5. ItemsMapped' /\ AddingWhilePushed' /\ ClosedIsEmpty'
  BY <1>4 DEF DialogInv, ItemsMapped, AddingWhilePushed, ClosedIsEmpty, dialogVars
<1>6. \A t, u : Added(t) # Finished(u) /\ (Added(t) = Added(u) => t = u)
                                      /\ (Finished(t) = Finished(u) => t = u)
  BY DEF Added, Finished
<1>7. \A t : Finished(t) \in ToSet(events') <=> Finished(t) \in ToSet(events) \/ t = execTask[e]
  BY <1>6
<1>8. \A t : Added(t) \in ToSet(events') <=> Added(t) \in ToSet(events) \/ t \in announced
  BY <1>6
<1>9. AddedToOpen'
  <2>1. \A t \in announced : open /\ t \in Detections
    BY DEF DialogInv, AddingWhilePushed
  <2> QED
    BY <1>8, <2>1 DEF DialogInv, AddedToOpen, dialogVars
<1>10. LeavingExecuted'
  BY <1>7 DEF DialogInv, LeavingExecuted, Leaving, dialogVars
<1>11. QueuedKnown'
  <2>1. NoTask \notin ToSet(queue)
    BY <1>1, ElementsTyped, BackgroundTasksAssumption DEF TypeOK
  <2>2. adding[e] # NoTask => execPc[e] = "pushed"
    BY DEF DialogInv, AddingWhilePushed
  <2> QED
    BY <1>4, <1>8, <2>1, <2>2 DEF DialogInv, QueuedKnown, Known, dialogVars
<1>12. MainTasksOnce'
  BY <1>1, <1>7, NotFreshStays
     DEF DialogInv, MainTasksOnce, ListedIsAlive, Listed, Leaving, OneItem, dialogVars
<1> QED
  BY <1>1, <1>3, <1>5, <1>9, <1>10, <1>11, <1>12 DEF DialogInv

LEMMA AnnounceSuccessorKeeps ==
  ASSUME DialogInv, NEW e \in Executors, AnnounceSuccessor(e)
  PROVE  DialogInv'
<1> DEFINE Events == [type : Kinds, task : Tasks]
           pc == [execPc EXCEPT ![e] = "idle"]
           a == Added(adding[e])
           f == Finished(execTask[e])
           announced == IF open /\ execPc[e] = "pushed" THEN {adding[e]} ELSE {}
<1>1. IInv /\ TypeOK /\ DialogTypeOK /\ FinishDetection(e) /\ Next /\ execPc[e] = "pushed"
  BY DEF DialogInv, IInv, AnnounceSuccessor, FinishDetection, Next, Executor
<1>2. events \in Seq(Events)
  BY <1>1 DEF DialogTypeOK, Kinds
<1>3. execTask[e] \in Tasks /\ adding[e] \in Tasks
  BY <1>1, BackgroundTasksAssumption DEF DialogInv, IInv, TypeOK, TaskWhileRunning, AddingWhilePushed
<1>4. a \in Events /\ f \in Events
  BY <1>3 DEF Added, Finished, Kinds
<1>5. /\ events' \in Seq(Events)
      /\ ToSet(events') = ToSet(events) \cup {Added(t) : t \in announced} \cup {f}
  <2> HIDE DEF a, f, Events
  <2>1. events' = (events \o (IF open THEN <<a>> ELSE <<>>)) \o <<f>>
    BY DEF AnnounceSuccessor, a, f
  <2>2. CASE open
    <3>0. events \o <<a>> = Append(events, a) /\ Append(events, a) \in Seq(Events)
      BY <1>2, <1>4, AppendIsConcat, AppendProperties
    <3>1. events' = Append(Append(events, a), f)
      BY <1>4, <2>1, <2>2, <3>0, AppendIsConcat
    <3>2. Append(events, a) \in Seq(Events) /\ ToSet(Append(events, a)) = ToSet(events) \cup {a}
      BY <1>2, <1>4, AppendedElements
    <3>3. events' \in Seq(Events) /\ ToSet(events') = ToSet(events) \cup {a} \cup {f}
      <4> DEFINE s == Append(events, a)
      <4>1. s \in Seq(Events) /\ ToSet(s) = ToSet(events) \cup {a} /\ events' = Append(s, f)
        BY <3>1, <3>2
      <4> HIDE DEF s
      <4>2. Append(s, f) \in Seq(Events) /\ ToSet(Append(s, f)) = ToSet(s) \cup {f}
        BY <1>4, <4>1, AppendedElements
      <4> QED
        BY <4>1, <4>2
    <3>4. {Added(t) : t \in announced} = {a}
      BY <1>1, <2>2 DEF a
    <3> QED
      BY <3>3, <3>4
  <2>3. CASE ~open
    <3>1. events' = Append(events, f)
      BY <1>2, <1>4, <2>1, <2>3, AppendIsConcat, ConcatEmptySeq
    <3>2. {Added(t) : t \in announced} = {}
      BY <2>3
    <3> QED
      BY <1>2, <1>4, <3>1, <3>2, AppendedElements
  <2> QED
    BY <2>2, <2>3
<1>6. \A g \in Executors : execPc'[g] = "pushed" <=> g # e /\ execPc[g] = "pushed"
  <2>1. pc \in [Executors -> ExecPcs] /\ pc[e] = "idle" /\ \A g \in Executors \ {e} : pc[g] = execPc[g]
    BY <1>1 DEF TypeOK, ExecPcs
  <2>2. execPc' \in WakeOne(pc)
    BY <1>1 DEF FinishDetection
  <2> HIDE DEF pc
  <2>3. \A g \in Executors : execPc'[g] # pc[g] => execPc[g] = "waiting" /\ execPc'[g] = "woken"
    BY <2>1, <2>2, WakeOneMoves
  <2> QED
    BY <2>1, <2>3
<1>7. /\ executed' = executed \cup {execTask[e]}
      /\ UNCHANGED <<queue, dialogVars>>
      /\ adding' = [adding EXCEPT ![e] = NoTask]
  BY DEF AnnounceSuccessor, FinishDetection
<1> QED
  BY <1>1, <1>5, <1>6, <1>7, EndingKeeps

LEMMA FinishAndAnnounceKeeps ==
  ASSUME DialogInv, NEW e \in Executors, FinishAndAnnounce(e)
  PROVE  DialogInv'
<1> DEFINE Events == [type : Kinds, task : Tasks]
           announced == IF open /\ execPc[e] = "pushed" THEN {adding[e]} ELSE {}
<1>1. IInv /\ TypeOK /\ DialogTypeOK /\ Finish(e) /\ Next /\ execPc[e] = "running"
  BY DEF DialogInv, IInv, FinishAndAnnounce, Finish, Next, Executor
<1>2. execTask[e] \in Tasks /\ adding[e] = NoTask
  BY <1>1 DEF DialogInv, IInv, TypeOK, TaskWhileRunning, AddingWhilePushed
<1>3. events \in Seq(Events) /\ Finished(execTask[e]) \in Events
  BY <1>1, <1>2 DEF DialogTypeOK, Finished, Kinds
<1>4. announced = {} /\ {Added(t) : t \in announced} = {}
  BY <1>1
<1>5. /\ events' \in Seq(Events)
      /\ ToSet(events') =
           ToSet(events) \cup {Added(t) : t \in announced} \cup {Finished(execTask[e])}
  <2> DEFINE f == Finished(execTask[e])
  <2> HIDE DEF Events, f
  <2>1. events \in Seq(Events) /\ f \in Events /\ events' = Append(events, f)
    BY <1>3 DEF FinishAndAnnounce, f
  <2>2. Append(events, f) \in Seq(Events) /\ ToSet(Append(events, f)) = ToSet(events) \cup {f}
    BY <2>1, AppendedElements
  <2> QED
    BY <1>4, <2>1, <2>2 DEF f
<1>6. \A g \in Executors : execPc'[g] = "pushed" <=> g # e /\ execPc[g] = "pushed"
  BY <1>1 DEF Finish, TypeOK
<1>7. adding' = [adding EXCEPT ![e] = NoTask]
  BY <1>1, <1>2 DEF FinishAndAnnounce, DialogTypeOK
<1>8. executed' = executed \cup {execTask[e]} /\ UNCHANGED <<queue, dialogVars>>
  BY DEF FinishAndAnnounce, Finish
<1> QED
  BY <1>1, <1>5, <1>6, <1>7, <1>8, EndingKeeps

(* The queue only shrinks, and nothing else that the dialog depends on changes. *)
LEMMA SilentKeeps ==
  ASSUME DialogInv, Silent
  PROVE  DialogInv'
<1>1. IInv /\ DialogTypeOK
  BY DEF DialogInv
<1>2. /\ Next
      /\ ToSet(queue') \subseteq ToSet(queue)
      /\ executed' = executed
      /\ \A e \in Executors : execPc'[e] = "pushed" <=> execPc[e] = "pushed"
  BY <1>1, SilentTasks
<1>3. IInv'
  BY <1>1, <1>2, TasksKeep
<1>4. UNCHANGED <<adding, events, dialogVars>>
  BY DEF Silent
<1>5. DialogTypeOK'
  BY <1>1, <1>3, <1>4 DEF DialogTypeOK, IInv, dialogVars
<1>6. ItemsMapped' /\ AddingWhilePushed' /\ AddedToOpen' /\ ClosedIsEmpty'
  BY <1>2, <1>4 DEF DialogInv, ItemsMapped, AddingWhilePushed, AddedToOpen, ClosedIsEmpty,
                    dialogVars
<1>7. QueuedKnown' /\ LeavingExecuted'
  BY <1>2, <1>4 DEF DialogInv, QueuedKnown, Known, LeavingExecuted, Leaving, dialogVars
<1>8. MainTasksOnce'
  BY <1>1, <1>2, <1>4, NotFreshStays
     DEF DialogInv, MainTasksOnce, ListedIsAlive, Listed, Leaving, OneItem, dialogVars
<1> QED
  BY <1>3, <1>5, <1>6, <1>7, <1>8 DEF DialogInv

(* The dialog's own steps leave the tasks alone. *)
LEMMA TasksAlone ==
  ASSUME IInv, UNCHANGED vars
  PROVE  IInv' /\ \A t : Fresh(t)' <=> Fresh(t)
<1>1. IInv'
  BY StutterKeeps
<1>2. \A t : Fresh(t)' <=> Fresh(t)
  BY DEF Fresh, vars
<1> QED
  BY <1>1, <1>2

(* The snapshot of the queue has each task once, and nothing that was run. *)
LEMMA OpenKeeps ==
  ASSUME DialogInv, Open
  PROVE  DialogInv'
<1>1. IInv /\ TypeOK /\ IsInjective(queue) /\ DialogTypeOK /\ executed \cap ToSet(queue) = {}
  BY DEF DialogInv, IInv, OneFate
<1>2. /\ IInv' /\ \A t : Fresh(t)' <=> Fresh(t)
      /\ UNCHANGED <<queue, execPc, executed, adding, events>>
  BY <1>1, TasksAlone DEF Open, vars
<1>3. /\ open' = TRUE /\ toAdd' = queue /\ toRemove' = <<>> /\ mapped' = {}
      /\ shown' = [t \in Tasks |-> 0]
      /\ ToSet(toRemove') = {}
  BY NoElements DEF Open
<1>4. DialogTypeOK'
  <2>1. TypeOK' /\ <<>> \in Seq(Tasks)
    BY <1>2, EmptySeq DEF IInv
  <2> QED
    BY <1>1, <1>2, <1>3, <2>1 DEF DialogTypeOK, TypeOK
<1>5. ItemsMapped' /\ AddingWhilePushed' /\ AddedToOpen' /\ ClosedIsEmpty'
  BY <1>2, <1>3 DEF DialogInv, ItemsMapped, AddingWhilePushed, AddedToOpen, ClosedIsEmpty
<1>6. QueuedKnown' /\ LeavingExecuted'
  BY <1>2, <1>3 DEF DialogInv, QueuedKnown, Known, LeavingExecuted, Leaving
<1>7. ASSUME NEW t \in Tasks \ Detections
      PROVE  ListedIsAlive(t)' /\ OneItem(t)'
  BY <1>1, <1>2, <1>3 DEF ListedIsAlive, Listed, OneItem, Once, IsInjective, Fresh
<1> QED
  BY <1>2, <1>4, <1>5, <1>6, <1>7 DEF DialogInv, MainTasksOnce

(* With the dialog its lists go, and what was posted to it does nothing any more. *)
LEMMA CloseKeeps ==
  ASSUME DialogInv, Close
  PROVE  DialogInv'
<1> DEFINE Events == [type : Kinds, task : Tasks]
<1>1. IInv /\ DialogTypeOK /\ events \in Seq(Events)
  BY DEF DialogInv, DialogTypeOK, Kinds
<1>2. IInv' /\ UNCHANGED <<queue, execPc, executed, adding>>
  BY <1>1, TasksAlone DEF Close, vars
<1>3. /\ open' = FALSE /\ toAdd' = <<>> /\ toRemove' = <<>> /\ mapped' = {}
      /\ shown' = [t \in Tasks |-> 0]
      /\ ToSet(toAdd') = {} /\ ToSet(toRemove') = {}
  BY NoElements DEF Close
<1>4. DOMAIN events = 1..Len(events) /\ Len(events) \in Nat /\ events \in [1..Len(events) -> Events]
  BY <1>1, LenProperties
<1>5. /\ events' \in [1..Len(events) -> Events]
      /\ \A k \in 1..Len(events) : /\ events'[k].type # "taskAdded"
                                   /\ events'[k].type = "taskFinished" => events'[k] = events[k]
  BY <1>4 DEF Close, Kinds
<1>6. events' \in Seq(Events) /\ DOMAIN events' = 1..Len(events)
  <2> HIDE DEF Events
  <2> QED
    BY <1>4, <1>5, FunctionIsSeq
<1>7. \A t : Added(t) \notin ToSet(events') /\ (Finished(t) \in ToSet(events') => Finished(t) \in ToSet(events))
  BY <1>4, <1>5, <1>6 DEF ToSet, Added, Finished
<1>8. DialogTypeOK'
  <2>1. TypeOK' /\ <<>> \in Seq(Tasks)
    BY <1>2, EmptySeq DEF IInv
  <2> QED
    BY <1>1, <1>2, <1>3, <1>6, <2>1 DEF DialogTypeOK, Kinds
<1>9. ItemsMapped' /\ AddingWhilePushed' /\ AddedToOpen' /\ ClosedIsEmpty'
  BY <1>2, <1>3, <1>7 DEF DialogInv, ItemsMapped, AddingWhilePushed, AddedToOpen, ClosedIsEmpty
<1>10. QueuedKnown' /\ LeavingExecuted'
  BY <1>2, <1>3, <1>7 DEF DialogInv, QueuedKnown, LeavingExecuted, Leaving
<1>11. MainTasksOnce'
  BY <1>3 DEF MainTasksOnce, ListedIsAlive, Listed, OneItem, Once
<1> QED
  BY <1>2, <1>8, <1>9, <1>10, <1>11 DEF DialogInv

(* An event goes to the lists of the next update. *)
LEMMA DeliverKeeps ==
  ASSUME DialogInv, Deliver
  PROVE  DialogInv'
<1> DEFINE Events == [type : Kinds, task : Tasks]
           ev == Head(events)
<1>1. IInv /\ DialogTypeOK /\ events \in Seq(Events) /\ events # <<>>
  BY DEF DialogInv, DialogTypeOK, Kinds, Deliver
<1>2. /\ IInv' /\ \A t : Fresh(t)' <=> Fresh(t)
      /\ UNCHANGED <<queue, execPc, executed, adding, open, mapped, shown>>
  BY <1>1, TasksAlone DEF Deliver, vars
<1>3. ev \in Events /\ events' \in Seq(Events) /\ ToSet(events) = {ev} \cup ToSet(events')
  <2> HIDE DEF Events
  <2> QED
    BY <1>1, FirstAndRest DEF Deliver
<1>4. ev.task \in Tasks /\ ev \in ToSet(events)
  BY <1>3
<1>5. \A t : /\ ev = Added(t) <=> ev.type = "taskAdded" /\ ev.task = t
             /\ ev = Finished(t) <=> ev.type = "taskFinished" /\ ev.task = t
  BY <1>3 DEF Added, Finished
<1> HIDE DEF ev
<1>6. /\ toAdd' = IF ev.type = "taskAdded" THEN Append(toAdd, ev.task) ELSE toAdd
      /\ toRemove' = IF ev.type = "taskFinished" /\ open THEN Append(toRemove, ev.task) ELSE toRemove
      /\ toAdd \in Seq(Tasks) /\ toRemove \in Seq(Tasks)
  BY <1>1 DEF Deliver, DialogTypeOK, ev
<1>7. /\ toAdd' \in Seq(Tasks)
      /\ ToSet(toAdd') = IF ev.type = "taskAdded" THEN ToSet(toAdd) \cup {ev.task} ELSE ToSet(toAdd)
      /\ toRemove' \in Seq(Tasks)
      /\ ToSet(toRemove') = IF ev.type = "taskFinished" /\ open
                            THEN ToSet(toRemove) \cup {ev.task} ELSE ToSet(toRemove)
  <2>1. \A s \in Seq(Tasks) : Append(s, ev.task) \in Seq(Tasks)
                             /\ ToSet(Append(s, ev.task)) = ToSet(s) \cup {ev.task}
    BY <1>4, AppendedElements
  <2> QED
    BY <1>6, <2>1
<1>8. ev.type = "taskAdded" => open /\ ev.task \in Detections
  BY <1>4, <1>5 DEF DialogInv, AddedToOpen
<1>9. DialogTypeOK'
  BY <1>1, <1>2, <1>3, <1>7 DEF DialogTypeOK, IInv, Kinds
<1>10. ItemsMapped' /\ AddingWhilePushed' /\ AddedToOpen'
  BY <1>2, <1>3 DEF DialogInv, ItemsMapped, AddingWhilePushed, AddedToOpen
<1>11. ClosedIsEmpty'
  BY <1>2, <1>8 DEF DialogInv, ClosedIsEmpty, Deliver, ev
<1>12. QueuedKnown'
  BY <1>2, <1>3, <1>5, <1>7 DEF DialogInv, QueuedKnown, Known
<1>13. LeavingExecuted'
  BY <1>2, <1>3, <1>5, <1>7 DEF DialogInv, LeavingExecuted, Leaving
<1>14. ASSUME NEW t \in Tasks \ Detections
       PROVE  ListedIsAlive(t)' /\ OneItem(t)'
  <2>1. ListedIsAlive(t) /\ OneItem(t) /\ ClosedIsEmpty
    BY DEF DialogInv, MainTasksOnce
  <2>2. t \in ToSet(toAdd') <=> t \in ToSet(toAdd)
    BY <1>7, <1>8
  <2>3. Once(t, toAdd')
    <3>1. ev.type = "taskAdded" => ev.task # t
      BY <1>8
    <3>2. Once(t, toAdd)
      BY <2>1 DEF OneItem
    <3>3. CASE ev.type = "taskAdded"
      <4>1. toAdd' = Append(toAdd, ev.task) /\ toAdd \in Seq(Tasks)
        BY <1>1, <3>3 DEF Deliver, DialogTypeOK, ev
      <4> QED
        BY <1>4, <3>1, <3>2, <3>3, <4>1, AppendedOnce
    <3>4. CASE ev.type # "taskAdded"
      BY <3>2, <3>4 DEF Deliver, ev
    <3> QED
      BY <3>3, <3>4
  <2>4. OneItem(t)'
    BY <1>2, <2>1, <2>2, <2>3 DEF OneItem
  <2>5. Listed(t) => open
    BY <2>1, NoElements DEF Listed, ClosedIsEmpty
  <2>6. ListedIsAlive(t)'
    BY <1>2, <1>3, <1>5, <1>7, <2>1, <2>2, <2>5 DEF ListedIsAlive, Listed, Leaving
  <2> QED
    BY <2>4, <2>6
<1> QED
  BY <1>2, <1>9, <1>10, <1>11, <1>12, <1>13, <1>14 DEF DialogInv, MainTasksOnce

(* The update adds its items before it removes those of the finished tasks. *)
LEMMA UpdateKeeps ==
  ASSUME DialogInv, Update
  PROVE  DialogInv'
<1> DEFINE listed == mapped \cup ToSet(toAdd)
           gone == ToSet(toRemove)
<1>1. IInv /\ DialogTypeOK /\ open /\ executed \cap ToSet(queue) = {}
  BY DEF DialogInv, IInv, OneFate, Update
<1>2. /\ IInv' /\ \A t : Fresh(t)' <=> Fresh(t)
      /\ UNCHANGED <<queue, execPc, executed, adding, events, open>>
  BY <1>1, TasksAlone DEF Update, vars
<1>3. /\ mapped' = listed \ gone
      /\ shown' = [t \in Tasks |-> shown[t] + TimesIn(t, toAdd)
                                     - (IF t \in listed \cap gone THEN 1 ELSE 0)]
      /\ toAdd' = <<>> /\ toRemove' = <<>>
      /\ ToSet(toAdd') = {} /\ ToSet(toRemove') = {}
  BY NoElements DEF Update
<1>4. ASSUME NEW t \in Tasks
      PROVE  /\ shown[t] \in Nat /\ TimesIn(t, toAdd) \in Nat
             /\ TimesIn(t, toAdd) = 0 <=> t \notin ToSet(toAdd)
             /\ Once(t, toAdd) => TimesIn(t, toAdd) <= 1
             /\ t \in mapped => shown[t] > 0
             /\ shown'[t] = shown[t] + TimesIn(t, toAdd)
                              - (IF t \in listed \cap gone THEN 1 ELSE 0)
  BY <1>1, <1>3, TimesCount DEF DialogTypeOK, DialogInv, ItemsMapped
<1>5. ASSUME NEW t \in Tasks
      PROVE  /\ shown'[t] \in Nat
             /\ t \in listed => shown[t] + TimesIn(t, toAdd) > 0
  BY <1>4
<1>6. ToSet(toAdd) \subseteq Tasks /\ mapped \subseteq Tasks
  BY <1>1, ElementsTyped DEF DialogTypeOK
<1>7. DialogTypeOK'
  <2>1. TypeOK' /\ <<>> \in Seq(Tasks)
    BY <1>2, EmptySeq DEF IInv
  <2>2. shown' \in [Tasks -> Nat]
    BY <1>3, <1>5
  <2>3. mapped' \subseteq Tasks
    BY <1>3, <1>6
  <2> QED
    BY <1>1, <1>2, <1>3, <2>1, <2>2, <2>3 DEF DialogTypeOK
<1>8. ItemsMapped'
  BY <1>3, <1>4, <1>5, <1>6 DEF ItemsMapped
<1>9. AddingWhilePushed' /\ AddedToOpen' /\ ClosedIsEmpty'
  BY <1>1, <1>2 DEF DialogInv, AddingWhilePushed, AddedToOpen, ClosedIsEmpty
<1>10. QueuedKnown'
  <2>1. \A t \in ToSet(queue) : t \notin gone
    <3>1. ToSet(queue) \subseteq Tasks
      BY <1>1, ElementsTyped DEF IInv, TypeOK
    <3> QED
      BY <1>1, <3>1 DEF DialogInv, LeavingExecuted, Leaving
  <2> QED
    BY <1>1, <1>2, <1>3, <2>1 DEF DialogInv, QueuedKnown, Known
<1>11. LeavingExecuted'
  BY <1>2, <1>3 DEF DialogInv, LeavingExecuted, Leaving
<1>12. ASSUME NEW t \in Tasks \ Detections
       PROVE  ListedIsAlive(t)' /\ OneItem(t)'
  <2>1. ListedIsAlive(t) /\ OneItem(t)
    BY DEF DialogInv, MainTasksOnce
  <2>2. ListedIsAlive(t)'
    BY <1>2, <1>3, <2>1 DEF ListedIsAlive, Listed, Leaving
  <2>3. shown[t] + TimesIn(t, toAdd) = IF t \in listed THEN 1 ELSE 0
    BY <1>4, <2>1 DEF OneItem
  <2>4. shown'[t] = IF t \in mapped' THEN 1 ELSE 0
    BY <1>3, <1>4, <2>3
  <2>5. OneItem(t)'
    BY <1>3, <2>4 DEF OneItem, Once
  <2> QED
    BY <2>2, <2>5
<1> QED
  BY <1>2, <1>7, <1>8, <1>9, <1>10, <1>11, <1>12 DEF DialogInv, MainTasksOnce

(* The inductive invariant of the dialog and the tasks together. *)
THEOREM DialogInvariantHolds == DialogSpec => []DialogInv
<1>1. DialogInit => DialogInv
  BY DialogInitHolds
<1>2. DialogInv /\ [DialogNext]_allVars => DialogInv'
  <2> SUFFICES ASSUME DialogInv, [DialogNext]_allVars
               PROVE  DialogInv'
    OBVIOUS
  <2>1. CASE DialogNext
    BY <2>1, AddAndAnnounceKeeps, AddSuccessorSilentlyKeeps, AnnounceSuccessorKeeps,
       FinishAndAnnounceKeeps, SilentKeeps, OpenKeeps, CloseKeeps, DeliverKeeps, UpdateKeeps
       DEF DialogNext
  <2>2. CASE UNCHANGED allVars
    <3>1. UNCHANGED vars /\ UNCHANGED <<adding, events, dialogVars>>
      BY <2>2 DEF allVars
    <3>2. IInv' /\ \A t : Fresh(t)' <=> Fresh(t)
      BY <3>1, TasksAlone DEF DialogInv
    <3>3. DialogTypeOK'
      BY <3>1, <3>2 DEF DialogInv, DialogTypeOK, IInv, dialogVars
    <3>4. ItemsMapped' /\ AddingWhilePushed' /\ AddedToOpen' /\ ClosedIsEmpty'
      BY <3>1 DEF DialogInv, ItemsMapped, AddingWhilePushed, AddedToOpen, ClosedIsEmpty,
                  dialogVars, vars
    <3>5. QueuedKnown' /\ LeavingExecuted'
      BY <3>1 DEF DialogInv, QueuedKnown, Known, LeavingExecuted, Leaving, dialogVars, vars
    <3>6. MainTasksOnce'
      BY <3>1, <3>2 DEF DialogInv, MainTasksOnce, ListedIsAlive, Listed, Leaving, OneItem,
                        dialogVars, vars
    <3> QED
      BY <3>2, <3>3, <3>4, <3>5, <3>6 DEF DialogInv
  <2> QED
    BY <2>1, <2>2
<1> QED
  BY <1>1, <1>2, PTL DEF DialogSpec

(* DlgBackgroundTaskList.cpp:28: whatever was on its way when the snapshot  *)
(* of the queue was taken, the list shows each queued task that has been    *)
(* announced, and no finished task of the main thread, once it is up to     *)
(* date.                                                                    *)
THEOREM ListFollowsTheQueue == DialogSpec => []ListFollowsQueue
<1>1. DialogInv => ListFollowsQueue
  <2> SUFFICES ASSUME DialogInv
               PROVE  ListFollowsQueue
    OBVIOUS
  <2>1. ASSUME UpToDate
        PROVE  open /\ ToSet(events) = {} /\ ToSet(toAdd) = {} /\ ToSet(toRemove) = {}
    BY <2>1, NoElements DEF UpToDate
  <2>2. QueuedTasksListed
    BY <2>1 DEF DialogInv, QueuedTasksListed, QueuedKnown, Known, ItemsMapped
  <2>3. FinishedTasksLeave
    <3> SUFFICES ASSUME UpToDate, NEW t \in executed \ Detections
                 PROVE  shown[t] = 0
      BY DEF FinishedTasksLeave
    <3>1. t \in Tasks \ Detections
      BY DEF DialogInv, IInv, TypeOK
    <3> QED
      BY <2>1, <3>1 DEF DialogInv, MainTasksOnce, ListedIsAlive, Listed, Leaving, OneItem
  <2> QED
    BY <2>2, <2>3 DEF DialogInv, ListFollowsQueue
<1> QED
  BY <1>1, DialogInvariantHolds, PTL
=============================================================================
