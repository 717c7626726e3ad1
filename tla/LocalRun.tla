------------------------------ MODULE LocalRun ------------------------------
(***************************************************************************)
(* Tasks executed inside the API process (Celery off).                     *)
(*                                                                         *)
(* A main image or full detail page task goes through LocalTaskQueue and   *)
(* is run by its worker thread.  A plan-only detail page task is run       *)
(* inline, by the coroutine that serves the request.  Both call the same   *)
(* run_prepared with raise_on_error off, and both publish through          *)
(* sync_runtime_from_local_sync, which calls asyncio.run: on the worker    *)
(* thread that works, on the thread of the running event loop it raises.   *)
(* So a plan run never gets past its first publication, and the nodes      *)
(* return, and the plan would be closed, on the worker thread only.        *)
(***************************************************************************)
EXTENDS LocalTaskQueue

CONSTANTS
  PlanTasks,  \* the tasks created by POST /api/detail/jobs/plan
  LastNode,   \* length of the node sequence
  Outcomes,   \* the statuses the closing node may choose
  MaxFaults   \* bound: publications that raise on the worker thread

ASSUME LocalRunAssumption ==
  /\ PlanTasks \subseteq Tasks
  /\ LastNode \in Nat \ {0}
  /\ Outcomes \subseteq {"completed", "review_required", "failed"} /\ Outcomes # {}
  /\ MaxFaults \in Nat

VARIABLES
  manifest,   \* status in task.json
  row,        \* status in the tasks table
  inline,     \* the plan task the event loop is executing, or NoTask
  run,        \* run_prepared on each thread
  nodeErrors, \* tasks one of whose nodes raised
  faults

runVars == <<manifest, row, inline, run, nodeErrors, faults>>
queueVars == <<call, submitted, queue, pending, active, worker, item, finished, raises>>
localVars == <<queueVars, runVars>>

Threads == {"worker", "loop"}
Settled == {"completed", "review_required", "failed"}

MapStatus == [created |-> "queued", running |-> "running",
              completed |-> "succeeded", review_required |-> "partial_failed",
              failed |-> "failed"]

RunSteps == {"off", "node", "handler", "rescue", "publish", "return", "raise"}
Continuations == {"none", "started", "finished", "failed", "swallow", "done"}

NoRun == [step |-> "off", task |-> NoTask, node |-> 0, after |-> "none"]

LocalTypeOK ==
  /\ TypeOK
  /\ manifest \in [Tasks -> {"none"} \cup DOMAIN MapStatus]
  /\ row \in [Tasks -> {"none", "queued", "running", "succeeded", "partial_failed", "failed"}]
  /\ inline \in PlanTasks \cup {NoTask}
  /\ run \in [Threads -> [step : RunSteps, task : Tasks \cup {NoTask},
                          node : 0..LastNode, after : Continuations]]
  /\ run["worker"].step # "off" <=> worker = "run"
  /\ run["loop"].step # "off" <=> inline # NoTask
  /\ nodeErrors \subseteq Tasks /\ faults \in 0..MaxFaults

LocalInit ==
  /\ Init
  /\ manifest = [t \in Tasks |-> "none"] /\ row = [t \in Tasks |-> "none"]
  /\ inline = NoTask /\ run = [th \in Threads |-> NoRun]
  /\ nodeErrors = {} /\ faults = 0

-----------------------------------------------------------------------------
(* The event loop. *)

(* create_job: manifest, inputs, index, record. *)
CreateJob(t) ==
  /\ manifest[t] = "none" /\ inline = NoTask
  /\ manifest' = [manifest EXCEPT ![t] = "created"]
  /\ row' = [row EXCEPT ![t] = "queued"]
  /\ UNCHANGED <<queueVars, inline, run, nodeErrors, faults>>

BeginRun(th, t) ==
  run' = [run EXCEPT ![th] = [NoRun EXCEPT !.step = "node", !.task = t, !.node = 1]]

(* enqueue_existing_task: only a full task goes through the queue. *)
EnqueueExisting(t) ==
  /\ t \notin PlanTasks /\ manifest[t] = "created" /\ inline = NoTask
  /\ Enqueue(t)
  /\ UNCHANGED runVars

(* A plan-only task is run by the caller. *)
RunInline(t) ==
  /\ t \in PlanTasks /\ manifest[t] = "created"
  /\ call.step = "idle" /\ inline = NoTask
  /\ inline' = t
  /\ BeginRun("loop", t)
  /\ UNCHANGED <<queueVars, manifest, row, nodeErrors, faults>>

(* The coroutine goes on, or the request ends with the exception. *)
InlineEnds ==
  /\ run["loop"].step \in {"return", "raise"}
  /\ run' = [run EXCEPT !["loop"] = NoRun]
  /\ inline' = NoTask
  /\ UNCHANGED <<queueVars, manifest, row, nodeErrors, faults>>

-----------------------------------------------------------------------------
(* run_prepared and the nodes, on either thread. *)

(* Write the manifest, then publish. *)
Publishing(th, status, after) ==
  /\ manifest' = [manifest EXCEPT ![run[th].task] = status]
  /\ run' = [run EXCEPT ![th].step = "publish", ![th].after = after]

Quiet == UNCHANGED <<queueVars, row, inline, faults>>

RunNode(th) ==
  /\ run[th].step = "node"
  /\ Publishing(th, "running", "started")
  /\ Quiet /\ UNCHANGED nodeErrors

ReturnNode(th) ==
  /\ run[th].step = "handler"
  /\ run[th].node < LastNode
  /\ Publishing(th, "running", "finished")
  /\ Quiet /\ UNCHANGED nodeErrors

Conclude(th) ==
  /\ run[th].step = "handler"
  /\ run[th].node = LastNode
  /\ \E outcome \in Outcomes : Publishing(th, outcome, "finished")
  /\ Quiet /\ UNCHANGED nodeErrors

RaiseInNode(th) ==
  /\ run[th].step = "handler"
  /\ Publishing(th, "failed", "failed")
  /\ nodeErrors' = nodeErrors \cup {run[th].task}
  /\ Quiet

(* Mutant: a failing run is only logged. *)
RescueWithoutManifest(th) ==
  /\ run[th].step = "rescue"
  /\ run' = [run EXCEPT ![th].step = "publish", ![th].after = "swallow"]
  /\ Quiet /\ UNCHANGED <<manifest, nodeErrors>>

(* except Exception *)
Rescue(th) ==
  /\ run[th].step = "rescue"
  /\ Publishing(th, "failed", "swallow")
  /\ Quiet /\ UNCHANGED nodeErrors

(* Mutant: run_prepared re-raises, as it does for Celery. *)
ResumedRaising(r) ==
  CASE r.after = "started" -> [r EXCEPT !.step = "handler"]
    [] r.after = "finished" /\ r.node < LastNode ->
         [r EXCEPT !.step = "node", !.node = @ + 1]
    [] r.after = "finished" /\ r.node = LastNode -> [r EXCEPT !.after = "done"]
    [] r.after = "failed" -> [r EXCEPT !.after = "swallow"]
    [] r.after = "swallow" -> [r EXCEPT !.step = "raise"]
    [] r.after = "done" -> [r EXCEPT !.step = "return"]

(* What runs after a publication; nothing is raised on: raise_on_error is  *)
(* off.                                                                    *)
Resumed(r) ==
  CASE r.after = "started" -> [r EXCEPT !.step = "handler"]
    [] r.after = "finished" /\ r.node < LastNode ->
         [r EXCEPT !.step = "node", !.node = @ + 1]
    [] r.after = "finished" /\ r.node = LastNode -> [r EXCEPT !.after = "done"]
    [] r.after = "failed" -> [r EXCEPT !.after = "swallow"]
    [] r.after \in {"swallow", "done"} -> [r EXCEPT !.step = "return"]

(* Mutant: only the index is written. *)
PublishToIndexOnly(th) ==
  /\ run[th].step = "publish" /\ th = "worker"
  /\ run' = [run EXCEPT ![th] = Resumed(@)]
  /\ UNCHANGED <<queueVars, manifest, row, inline, nodeErrors, faults>>

(* persist_progress: only a thread without a running loop may asyncio.run. *)
Publish(th) ==
  /\ run[th].step = "publish" /\ th = "worker"
  /\ row' = [row EXCEPT ![run[th].task] = MapStatus[manifest[run[th].task]]]
  /\ run' = [run EXCEPT ![th] = Resumed(@)]
  /\ UNCHANGED <<queueVars, manifest, inline, nodeErrors, faults>>

PublishRaises(th) ==
  /\ run[th].step = "publish"
  /\ \/ th = "loop" /\ UNCHANGED faults
     \/ th = "worker" /\ faults < MaxFaults /\ faults' = faults + 1
  /\ run' = [run EXCEPT ![th].step =
               IF run[th].after = "swallow" THEN "raise" ELSE "rescue"]
  /\ UNCHANGED <<queueVars, manifest, row, inline, nodeErrors>>

RunStep(th) ==
  \/ RunNode(th) \/ ReturnNode(th) \/ Conclude(th) \/ RaiseInNode(th)
  \/ Rescue(th) \/ Publish(th) \/ PublishRaises(th)

-----------------------------------------------------------------------------
(* The queue's worker, its executor being the run above. *)

ClaimAndRun == Claim /\ BeginRun("worker", item)
               /\ UNCHANGED <<manifest, row, inline, nodeErrors, faults>>

LeaveRun == run' = [run EXCEPT !["worker"] = NoRun]
            /\ UNCHANGED <<manifest, row, inline, nodeErrors, faults>>

RunReturns == run["worker"].step = "return" /\ ExecutorReturns /\ LeaveRun

RunRaises == run["worker"].step = "raise" /\ ExecutorRaises /\ LeaveRun

QueueStep == (Get \/ Release \/ ThreadEnds) /\ UNCHANGED runVars

LoopStep == \/ CallStep /\ UNCHANGED runVars
            \/ InlineEnds \/ RunStep("loop")

ThreadStep == QueueStep \/ ClaimAndRun \/ RunReturns \/ RunRaises \/ RunStep("worker")

LocalNext ==
  \/ \E t \in Tasks : CreateJob(t) \/ EnqueueExisting(t) \/ RunInline(t)
  \/ LoopStep \/ ThreadStep

LocalSpec == LocalInit /\ [][LocalNext]_localVars

LocalFairSpec == LocalSpec /\ WF_localVars(LoopStep) /\ WF_localVars(ThreadStep)

-----------------------------------------------------------------------------
(* What must hold. *)

(* When the executor is over, by return or by exception and whatever       *)
(* publications raised, the manifest of the task has a final status: local *)
(* polling always ends.                                                    *)
FinishedTaskIsSettled == \A t \in finished : manifest[t] \in Settled

(* Without failing publications the row of a finished task agrees with its *)
(* manifest.                                                               *)
RowAgreesWhenFinished ==
  faults = 0 => \A t \in finished : row[t] = MapStatus[manifest[t]]

(* The worker loop keeps consuming the queue (the docstring of             *)
(* _worker_loop): a task that was put is executed.  The code does not keep *)
(* this: an executor that raises ends the thread with tasks in the queue.  *)
EveryTaskServed ==
  \A t \in Tasks : t \in ToSet(queue) ~> t \in finished

(* What does hold of it: nodes that raise, and the publications of plan    *)
(* runs that cannot succeed on the event loop, never keep a waiting task   *)
(* from its turn; only a publication that fails on the worker thread does, *)
(* because it may hit the except clause that records a failure.            *)
ServedUnlessPublicationFails ==
  \A t \in Tasks : t \in ToSet(queue) ~> (t \in finished \/ faults # 0)

(* docs: a plan-only run stops after the prompts and ends "completed"      *)
(* (when none of its nodes fails).                                         *)
PlanEndsCompleted ==
  \A t \in PlanTasks \ nodeErrors :
    t # inline /\ manifest[t] \notin {"none", "created"} => manifest[t] = "completed"

=============================================================================
