--------------------------- MODULE LocalTaskQueue ---------------------------
(***************************************************************************)
(* The in-process queue that executes tasks when Celery is off             *)
(* (MainImageTaskQueue, and its twin _DetailTaskQueue).                    *)
(*                                                                         *)
(* Two threads meet here: the event loop, which calls enqueue, one call at *)
(* a time, and one worker thread started on demand.  A critical section    *)
(* under _lock is one step; between two of them the other thread may run.  *)
(* The same task is kept twice, in _queue for the worker and in            *)
(* _pending_task_ids for the readers of the queue position.                *)
(*                                                                         *)
(* The executor may raise (run_prepared_task does when recording the       *)
(* failure itself fails): the worker thread ends, and only the next        *)
(* enqueue starts another one.                                             *)
(***************************************************************************)
EXTENDS Integers, Sequences, FiniteSets, SequencesExt

CONSTANTS
  Tasks,     \* task ids; an id is enqueued once
  NoTask,
  MaxRaises  \* bound: executions that end with an exception

ASSUME LocalTaskQueueAssumption == NoTask \notin Tasks /\ MaxRaises \in Nat

VARIABLES
  call,       \* the enqueue call under way: its next step and its task
  submitted,  \* the tasks enqueue was called with, in that order
  queue,      \* _queue
  pending,    \* _pending_task_ids
  active,     \* _active_task_id
  worker,     \* next step of the worker thread
  item,       \* what the worker took from the queue
  finished,   \* tasks whose execution is over
  raises

vars == <<call, submitted, queue, pending, active, worker, item, finished, raises>>

CallSteps == {"idle", "ensure", "append", "put"}

(* "none" before the first start, "raised" between the exception and the   *)
(* end of the thread (is_alive still says yes), "dead" after it.           *)
WorkerSteps == {"none", "get", "claim", "run", "release", "abort", "raised", "dead"}

TypeOK ==
  /\ call \in [step : CallSteps, task : Tasks \cup {NoTask}]
  /\ call.step = "idle" <=> call.task = NoTask
  /\ submitted \in Seq(Tasks) /\ queue \in Seq(Tasks) /\ pending \in Seq(Tasks)
  /\ active \in Tasks \cup {NoTask}
  /\ worker \in WorkerSteps
  /\ item \in Tasks \cup {NoTask}
  /\ item = NoTask <=> worker \in {"none", "get", "raised", "dead"}
  /\ finished \subseteq Tasks
  /\ raises \in 0..MaxRaises

NoCall == [step |-> "idle", task |-> NoTask]

Init ==
  /\ call = NoCall
  /\ submitted = <<>> /\ queue = <<>> /\ pending = <<>>
  /\ active = NoTask /\ worker = "none" /\ item = NoTask
  /\ finished = {} /\ raises = 0

-----------------------------------------------------------------------------
(* enqueue *)

Enqueue(t) ==
  /\ call.step = "idle" /\ t \notin ToSet(submitted)
  /\ call' = [step |-> "ensure", task |-> t]
  /\ submitted' = Append(submitted, t)
  /\ UNCHANGED <<queue, pending, active, worker, item, finished, raises>>

Alive == worker \notin {"none", "dead"}

(* _ensure_worker_started *)
EnsureWorkerStarted ==
  /\ call.step = "ensure"
  /\ call' = [call EXCEPT !.step = "append"]
  /\ worker' = IF Alive THEN worker ELSE "get"
  /\ UNCHANGED <<submitted, queue, pending, active, item, finished, raises>>

(* Mutant: appendleft. *)
AppendPendingLeft ==
  /\ call.step = "append"
  /\ call' = [call EXCEPT !.step = "put"]
  /\ pending' = <<call.task>> \o pending
  /\ UNCHANGED <<submitted, queue, active, worker, item, finished, raises>>

AppendPending ==
  /\ call.step = "append"
  /\ call' = [call EXCEPT !.step = "put"]
  /\ pending' = Append(pending, call.task)
  /\ UNCHANGED <<submitted, queue, active, worker, item, finished, raises>>

Put ==
  /\ call.step = "put"
  /\ call' = NoCall
  /\ queue' = Append(queue, call.task)
  /\ UNCHANGED <<submitted, pending, active, worker, item, finished, raises>>

-----------------------------------------------------------------------------
(* _worker_loop *)

(* Mutant: a LifoQueue. *)
GetNewest ==
  /\ worker = "get" /\ queue # <<>>
  /\ item' = Last(queue) /\ queue' = Front(queue)
  /\ worker' = "claim"
  /\ UNCHANGED <<call, submitted, pending, active, finished, raises>>

Get ==
  /\ worker = "get" /\ queue # <<>>
  /\ item' = Head(queue) /\ queue' = Tail(queue)
  /\ worker' = "claim"
  /\ UNCHANGED <<call, submitted, pending, active, finished, raises>>

(* First critical section: off the waiting list, active. *)
Claim ==
  /\ worker = "claim"
  /\ pending' = RemoveFirst(pending, item)
  /\ active' = item
  /\ worker' = "run"
  /\ UNCHANGED <<call, submitted, queue, item, finished, raises>>

ExecutorReturns ==
  /\ worker = "run"
  /\ worker' = "release"
  /\ UNCHANGED <<call, submitted, queue, pending, active, item, finished, raises>>

ExecutorRaises ==
  /\ worker = "run" /\ raises < MaxRaises
  /\ worker' = "abort"
  /\ raises' = raises + 1
  /\ UNCHANGED <<call, submitted, queue, pending, active, item, finished>>

(* The finally clause, with or without an exception on its way. *)
Release ==
  /\ worker \in {"release", "abort"}
  /\ active' = IF active = item THEN NoTask ELSE active
  /\ finished' = finished \cup {item}
  /\ item' = NoTask
  /\ worker' = IF worker = "release" THEN "get" ELSE "raised"
  /\ UNCHANGED <<call, submitted, queue, pending, raises>>

(* The exception leaves _worker_loop: the thread is gone. *)
ThreadEnds ==
  /\ worker = "raised"
  /\ worker' = "dead"
  /\ UNCHANGED <<call, submitted, queue, pending, active, item, finished, raises>>

WorkerStep == Get \/ Claim \/ ExecutorReturns \/ ExecutorRaises \/ Release \/ ThreadEnds

CallStep == EnsureWorkerStarted \/ AppendPending \/ Put

Next == (\E t \in Tasks : Enqueue(t)) \/ CallStep \/ WorkerStep

Spec == Init /\ [][Next]_vars

-----------------------------------------------------------------------------
(* get_snapshot *)

Busy == IF active # NoTask THEN 1 ELSE 0

(* Mutant: the task being executed is not counted. *)
QueuePositionAmongWaiting(t) ==
  IF active = t THEN 0
  ELSE IF Contains(pending, t)
       THEN SelectInSeq(pending, LAMBDA u : u = t) - 1
       ELSE -1

(* queue_position; -1 stands for None. *)
QueuePosition(t) ==
  IF active = t THEN 0
  ELSE IF Contains(pending, t)
       THEN SelectInSeq(pending, LAMBDA u : u = t) - 1 + Busy
       ELSE -1

-----------------------------------------------------------------------------
(* What must hold. *)

(* The queue position a client polls is the number of tasks enqueued       *)
(* before its own whose execution is not over, in every state between the  *)
(* steps of the two threads.                                               *)
PositionCountsTasksAhead ==
  \A i \in DOMAIN submitted :
    QueuePosition(submitted[i]) >= 0 =>
      QueuePosition(submitted[i])
        = Cardinality({j \in 1..(i - 1) : submitted[j] \notin finished})

(* A client that polls never sees its position grow, nor its task leave    *)
(* the queue other than through position 0.                                *)
PositionNeverGrows ==
  [][\A t \in Tasks :
       QueuePosition(t) >= 0 =>
         \/ QueuePosition(t)' \in 0..QueuePosition(t)
         \/ QueuePosition(t) = 0 /\ QueuePosition(t)' = -1]_vars

(* The queue implements the line: a task joins it when its id is appended  *)
(* and is served from the claim to the release.                            *)
Fifo == INSTANCE FifoServer
          WITH line <- pending, serving <- active, served <- finished

ServesInOrder == Fifo!FifoSpec

=============================================================================
