------------------------------ MODULE TaskRun ------------------------------
(***************************************************************************)
(* One generation task from the API request to its last Celery delivery.   *)
(*                                                                         *)
(* Three stores hold the status of a task and are written by separate      *)
(* steps of separate processes:                                            *)
(*   manifest  outputs/tasks/<id>/task.json, written by the API when the   *)
(*             task is created and by the workflow before and after each   *)
(*             node (the local files are the source of truth);             *)
(*   row       the row of table `tasks`, written by the Celery handler     *)
(*             (TaskExecutionStateService) and by the mirror               *)
(*             (TaskDbMirrorService), which copies the manifest into it;   *)
(*   ready     the messages of the broker, delivered with late ack.        *)
(*                                                                         *)
(* A worker runs the whole Celery handler: mark the row running, load the  *)
(* manifest, run the nodes with a publication after each write of the      *)
(* manifest, and on an exception either retry or record the failure.  Any  *)
(* store call may raise, any node may raise, a worker may die anywhere.    *)
(***************************************************************************)
EXTENDS Naturals, FiniteSets

CONSTANTS
  Tasks,        \* task ids
  NoTask,       \* what an idle worker holds
  Workers,      \* Celery worker processes
  PlanTasks,    \* tasks of POST /jobs/plan: they stop after the prompt node
  LastNode,     \* length of the node sequence
  PromptNode,   \* the node plan tasks stop after
  RenderNode,   \* the node that publishes partial results
  Shots,        \* how many partial results it publishes
  Outcomes,     \* the statuses the closing node may choose
  MaxRetries,   \* settings.celery_max_retries
  MaxCrashes,   \* bound: deaths of a worker that redeliver its message
  MaxLosses,    \* bound: deaths of a worker child whose message is acked
  MaxFaults     \* bound: database, index or broker calls that raise

ASSUME TaskRunAssumption ==
  /\ NoTask \notin Tasks /\ PlanTasks \subseteq Tasks
  /\ LastNode \in Nat \ {0} /\ RenderNode \in 1..LastNode /\ Shots \in Nat
  /\ PromptNode \in 1..LastNode
  /\ Outcomes \subseteq {"completed", "review_required", "failed"}
  /\ Outcomes # {}
  /\ MaxRetries \in Nat
  /\ MaxCrashes \in Nat /\ MaxLosses \in Nat /\ MaxFaults \in Nat

VARIABLES
  api,         \* how far the request that creates the task has come
  manifest,    \* status in task.json
  row,         \* status in the tasks table
  retryCount,  \* retry_count in the tasks table
  exported,    \* the closing node wrote the ZIP of the results
  ready,       \* how many copies of a message wait in the broker
  pc,          \* next step of a worker
  job,         \* locals of a worker
  attempts,    \* deliveries of a task so far
  crashes, losses, faults

store == <<manifest, row, retryCount, exported>>
counters == <<crashes, losses, faults>>
vars == <<api, store, ready, pc, job, attempts, counters>>

-----------------------------------------------------------------------------
(* engine/domain/task.py TaskStatus; "torn" is a file a crash left half    *)
(* written (write_text truncates first).                                   *)
Settled == {"completed", "review_required", "failed"}
LegacyStatus == {"created", "running"} \cup Settled
Readable(t) == manifest[t] \in LegacyStatus

(* db/enums.py TaskStatus, the part this flow uses *)
Finished == {"succeeded", "partial_failed", "failed"}
RowStatus == {"none", "queued", "running"} \cup Finished

MapStatus == [created |-> "queued", running |-> "running",
              completed |-> "succeeded", review_required |-> "partial_failed",
              failed |-> "failed"]

(* A message is the task id and how often Celery has retried it. *)
Messages == Tasks \X (0..MaxRetries)

Labels == {"idle", "mark", "load", "node", "handler", "export", "fail",
           "close", "rescue", "persist", "commit", "except", "republish", "ack"}

(* Where a publication was called from: it returns there, or raises there. *)
Continuations == {"none", "started", "published", "finished", "closed",
                  "failed", "reraise", "done"}

Jobs == [task : Tasks \cup {NoTask}, retries : 0..MaxRetries,
         node : 0..LastNode, shot : 0..Shots, after : Continuations,
         hand : LegacyStatus \cup {"none"}]

NoJob == [task |-> NoTask, retries |-> 0, node |-> 0, shot |-> 0,
          after |-> "none", hand |-> "none"]

(* run_detail_workflow with stop_after, or to the end of the sequence. *)
AtLast(j) == j.node >= IF j.task \in PlanTasks THEN PromptNode ELSE LastNode

(* What a worker has in its locals at a step. *)
LocalsOK(label, j) ==
  /\ label = "idle" <=> j.task = NoTask
  /\ label = "export" => j.hand \in Outcomes
  /\ label = "commit" => j.hand \in LegacyStatus
  /\ label = "republish" => j.retries < MaxRetries

TypeOK ==
  /\ api \in [Tasks -> {"new", "saved", "recorded", "dispatched", "rejected"}]
  /\ manifest \in [Tasks -> {"none", "torn"} \cup LegacyStatus]
  /\ row \in [Tasks -> RowStatus]
  /\ retryCount \in [Tasks -> 0..MaxRetries]
  /\ exported \in [Tasks -> BOOLEAN]
  /\ ready \in [Messages -> Nat]
  /\ pc \in [Workers -> Labels]
  /\ job \in [Workers -> Jobs]
  /\ \A w \in Workers : LocalsOK(pc[w], job[w])
  /\ attempts \in [Tasks -> Nat]
  /\ crashes \in 0..MaxCrashes /\ losses \in 0..MaxLosses
  /\ faults \in 0..MaxFaults

Init ==
  /\ api = [t \in Tasks |-> "new"]
  /\ manifest = [t \in Tasks |-> "none"]
  /\ row = [t \in Tasks |-> "none"]
  /\ retryCount = [t \in Tasks |-> 0]
  /\ exported = [t \in Tasks |-> FALSE]
  /\ ready = [m \in Messages |-> 0]
  /\ pc = [w \in Workers |-> "idle"]
  /\ job = [w \in Workers |-> NoJob]
  /\ attempts = [t \in Tasks |-> 0]
  /\ crashes = 0 /\ losses = 0 /\ faults = 0

Holds(w, t) == job[w].task = t
InFlight(t) == \/ \E r \in 0..MaxRetries : ready[<<t, r>>] > 0
               \/ \E w \in Workers : Holds(w, t)

-----------------------------------------------------------------------------
(* The API request. *)

(* prepare_generation: the manifest, the uploads and the asset manifest.   *)
SaveInputs(t) ==
  /\ api[t] = "new"
  /\ api' = [api EXCEPT ![t] = "saved"]
  /\ manifest' = [manifest EXCEPT ![t] = "created"]
  /\ UNCHANGED <<row, retryCount, exported, ready, pc, job, attempts, counters>>

(* The index entry and create_task_record: one transaction.                *)
CreateRecord(t) ==
  /\ api[t] = "saved"
  /\ api' = [api EXCEPT ![t] = "recorded"]
  /\ row' = [row EXCEPT ![t] = "queued"]
  /\ UNCHANGED <<manifest, retryCount, exported, ready, pc, job, attempts, counters>>

(* run_main_image_task.delay(task_id) *)
Dispatch(t) ==
  /\ api[t] = "recorded"
  /\ api' = [api EXCEPT ![t] = "dispatched"]
  /\ ready' = [ready EXCEPT ![<<t, 0>>] = @ + 1]
  /\ UNCHANGED <<store, pc, job, attempts, counters>>

(* The index, the database or the broker raises: the request fails and     *)
(* what it has written stays.                                              *)
RequestFails(t) ==
  /\ api[t] \in {"saved", "recorded"} /\ faults < MaxFaults
  /\ api' = [api EXCEPT ![t] = "rejected"]
  /\ faults' = faults + 1
  /\ UNCHANGED <<store, ready, pc, job, attempts, crashes, losses>>

-----------------------------------------------------------------------------
(* The Celery handler. *)

Goto(w, label) == pc' = [pc EXCEPT ![w] = label]

(* Write the manifest, then publish: on_progress, or the same two calls    *)
(* made by run_prepared_task itself.                                       *)
WriteAndPersist(w, status, after) ==
  /\ manifest' = [manifest EXCEPT ![job[w].task] = status]
  /\ job' = [job EXCEPT ![w] = [@ EXCEPT !.after = after, !.hand = "none"]]
  /\ Goto(w, "persist")

Receive(w, m) ==
  /\ pc[w] = "idle" /\ ready[m] > 0
  /\ ready' = [ready EXCEPT ![m] = @ - 1]
  /\ job' = [job EXCEPT ![w] = [NoJob EXCEPT !.task = m[1], !.retries = m[2]]]
  /\ attempts' = [attempts EXCEPT ![m[1]] = @ + 1]
  /\ Goto(w, "mark")
  /\ UNCHANGED <<api, store, counters>>

(* mark_running: a missing row is only logged. *)
MarkRunning(w) ==
  /\ pc[w] = "mark"
  /\ row' = [row EXCEPT ![job[w].task] = IF @ = "none" THEN @ ELSE "running"]
  /\ Goto(w, "load")
  /\ UNCHANGED <<api, manifest, retryCount, exported, ready, job, attempts, counters>>

(* load_prepared_task: without a manifest that parses there is no run. *)
Load(w) ==
  /\ pc[w] = "load"
  /\ \/ /\ Readable(job[w].task)
        /\ job' = [job EXCEPT ![w] = [@ EXCEPT !.node = 1]]
        /\ Goto(w, "node")
     \/ /\ ~Readable(job[w].task)
        /\ Goto(w, "except")
        /\ UNCHANGED job
  /\ UNCHANGED <<api, store, ready, attempts, counters>>

(* _run_node up to the handler: the manifest says running at this node. *)
StartNode(w) ==
  /\ pc[w] = "node"
  /\ manifest' = [manifest EXCEPT ![job[w].task] = "running"]
  /\ job' = [job EXCEPT ![w] = [@ EXCEPT !.after = "started", !.shot = 0]]
  /\ Goto(w, "persist")
  /\ UNCHANGED <<api, row, retryCount, exported, ready, attempts, counters>>

(* _publish_progress, called by the render node after each image. *)
PublishShot(w) ==
  /\ pc[w] = "handler"
  /\ job[w].node = RenderNode /\ job[w].shot < Shots
  /\ manifest' = [manifest EXCEPT ![job[w].task] = "running"]
  /\ job' = [job EXCEPT ![w] = [@ EXCEPT !.after = "published", !.shot = job[w].shot + 1]]
  /\ Goto(w, "persist")
  /\ UNCHANGED <<api, row, retryCount, exported, ready, attempts, counters>>

(* A node other than the closing one returns: _run_node writes the task it *)
(* started with and publishes.                                             *)
FinishNode(w) ==
  /\ pc[w] = "handler"
  /\ ~AtLast(job[w]) \/ job[w].task \in PlanTasks
  /\ job[w].node = RenderNode => job[w].shot = Shots
  /\ WriteAndPersist(w, "running", "finished")
  /\ UNCHANGED <<api, row, retryCount, exported, ready, attempts, counters>>

(* Mutant: the outcome is published before the ZIP is written. *)
ChooseOutcomeAndPublish(w) ==
  /\ pc[w] = "handler"
  /\ AtLast(job[w]) /\ job[w].task \notin PlanTasks
  /\ job[w].node = RenderNode => job[w].shot = Shots
  /\ \E outcome \in Outcomes : WriteAndPersist(w, outcome, "finished")
  /\ UNCHANGED <<api, row, retryCount, exported, ready, attempts, counters>>

(* finalize, first half: the outcome is in the manifest before the ZIP is  *)
(* written.                                                                *)
ChooseOutcome(w) ==
  /\ pc[w] = "handler"
  /\ AtLast(job[w]) /\ job[w].task \notin PlanTasks
  /\ job[w].node = RenderNode => job[w].shot = Shots
  /\ \E outcome \in Outcomes :
       /\ manifest' = [manifest EXCEPT ![job[w].task] = outcome]
       /\ job' = [job EXCEPT ![w] = [@ EXCEPT !.hand = outcome]]
  /\ Goto(w, "export")
  /\ UNCHANGED <<api, row, retryCount, exported, ready, attempts, counters>>

(* finalize, second half, and the write of _run_node after it. *)
Export(w) ==
  /\ pc[w] = "export"
  /\ exported' = [exported EXCEPT ![job[w].task] = TRUE]
  /\ WriteAndPersist(w, job[w].hand, "finished")
  /\ UNCHANGED <<api, row, retryCount, ready, attempts, counters>>

(* The handler raises (label "fail": out of the publication it called). *)
FailNode(w) ==
  /\ pc[w] \in {"handler", "export", "fail"}
  /\ WriteAndPersist(w, "failed", "failed")
  /\ UNCHANGED <<api, row, retryCount, exported, ready, attempts, counters>>

(* _finalize_plan_only_state *)
ClosePlan(w) ==
  /\ pc[w] = "close"
  /\ WriteAndPersist(w, "completed", "closed")
  /\ UNCHANGED <<api, row, retryCount, exported, ready, attempts, counters>>

(* run_prepared_task, `except Exception`: the failed manifest is built     *)
(* from the task the run was started with.                                 *)
Rescue(w) ==
  /\ pc[w] = "rescue"
  /\ WriteAndPersist(w, "failed", "reraise")
  /\ UNCHANGED <<api, row, retryCount, exported, ready, attempts, counters>>

(* Where an exception out of a publication goes: inside a node it fails    *)
(* the node, inside run_prepared_task it reaches `except Exception`, and   *)
(* out of an except clause it leaves run_prepared_task.                    *)
EscapeTo(after) ==
  CASE after = "published" -> "fail"
    [] after = "reraise"   -> "except"
    [] OTHER               -> "rescue"

(* save_runtime_task, then the reading half of sync_runtime_from_local.    *)
PersistRead(w) ==
  /\ pc[w] = "persist"
  /\ \/ /\ Readable(job[w].task)
        /\ job' = [job EXCEPT ![w] = [@ EXCEPT !.hand = manifest[job[w].task]]]
        /\ Goto(w, "commit")
     \/ /\ ~Readable(job[w].task)
        /\ Goto(w, EscapeTo(job[w].after))
        /\ UNCHANGED job
  /\ UNCHANGED <<api, store, ready, attempts, counters>>

(* What runs after the publication has returned. *)
Resume(w) ==
  LET j == job[w]
      Persist(after) == /\ Goto(w, "persist")
                        /\ job' = [job EXCEPT ![w] = [@ EXCEPT !.after = after, !.hand = "none"]]
      Proceed(label) == /\ Goto(w, label)
                        /\ job' = [job EXCEPT ![w] = [@ EXCEPT !.after = "none", !.hand = "none"]]
  IN \/ j.after \in {"started", "published"} /\ Proceed("handler")
     \/ /\ j.after = "finished" /\ ~AtLast(j)
        /\ Goto(w, "node")
        /\ job' = [job EXCEPT ![w] =
                     [@ EXCEPT !.after = "none", !.hand = "none", !.node = j.node + 1]]
     \/ j.after = "finished" /\ AtLast(j) /\ j.task \in PlanTasks /\ Proceed("close")
     \/ j.after = "finished" /\ AtLast(j) /\ j.task \notin PlanTasks /\ Persist("done")
     \/ j.after = "closed" /\ Persist("done")
     \/ j.after = "failed" /\ Persist("reraise")
     \/ j.after = "reraise" /\ Proceed("except")
     \/ j.after = "done" /\ Proceed("ack")

(* The transaction of sync_runtime_from_local: the row gets the status     *)
(* that was read, whatever the row or the manifest says by now.            *)
PersistCommit(w) ==
  /\ pc[w] = "commit"
  /\ row' = [row EXCEPT ![job[w].task] = MapStatus[job[w].hand]]
  /\ Resume(w)
  /\ UNCHANGED <<api, manifest, retryCount, exported, ready, attempts, counters>>

(* Mutant: the retry is recorded and never published. *)
MarkRetryingWithoutRetry(w) ==
  LET t == job[w].task IN
  /\ pc[w] = "except" /\ job[w].retries < MaxRetries
  /\ row' = [row EXCEPT ![t] = IF @ = "none" THEN @ ELSE "queued"]
  /\ retryCount' = [retryCount EXCEPT ![t] =
                      IF row[t] = "none" THEN @ ELSE job[w].retries + 1]
  /\ Goto(w, "ack")
  /\ UNCHANGED <<api, manifest, exported, ready, job, attempts, counters>>

(* except clause of the handler with retries left: mark_retrying. *)
MarkRetrying(w) ==
  LET t == job[w].task IN
  /\ pc[w] = "except" /\ job[w].retries < MaxRetries
  /\ row' = [row EXCEPT ![t] = IF @ = "none" THEN @ ELSE "queued"]
  /\ retryCount' = [retryCount EXCEPT ![t] =
                      IF row[t] = "none" THEN @ ELSE job[w].retries + 1]
  /\ Goto(w, "republish")
  /\ UNCHANGED <<api, manifest, exported, ready, job, attempts, counters>>

(* Mutant: gives up without asking whether retries are left. *)
MarkFailedAtOnce(w) ==
  LET t == job[w].task IN
  /\ pc[w] = "except"
  /\ row' = [row EXCEPT ![t] = IF @ = "none" THEN @ ELSE "failed"]
  /\ retryCount' = [retryCount EXCEPT ![t] =
                      IF row[t] = "none" THEN @ ELSE job[w].retries]
  /\ Goto(w, "ack")
  /\ UNCHANGED <<api, manifest, exported, ready, job, attempts, counters>>

(* except clause of the handler without: mark_failed, then raise. *)
MarkFailed(w) ==
  LET t == job[w].task IN
  /\ pc[w] = "except" /\ job[w].retries = MaxRetries
  /\ row' = [row EXCEPT ![t] = IF @ = "none" THEN @ ELSE "failed"]
  /\ retryCount' = [retryCount EXCEPT ![t] =
                      IF row[t] = "none" THEN @ ELSE job[w].retries]
  /\ Goto(w, "ack")
  /\ UNCHANGED <<api, manifest, exported, ready, job, attempts, counters>>

(* Mutant: the retry is published with the old count. *)
RepublishSameCount(w) ==
  /\ pc[w] = "republish"
  /\ ready' = [ready EXCEPT ![<<job[w].task, job[w].retries>>] = @ + 1]
  /\ Goto(w, "ack")
  /\ UNCHANGED <<api, store, job, attempts, counters>>

(* self.retry publishes the next message before this one is acked. *)
Republish(w) ==
  /\ pc[w] = "republish"
  /\ ready' = [ready EXCEPT ![<<job[w].task, job[w].retries + 1>>] = @ + 1]
  /\ Goto(w, "ack")
  /\ UNCHANGED <<api, store, job, attempts, counters>>

(* Mutant: the message is rejected with requeue instead of acked. *)
AckRequeues(w) ==
  /\ pc[w] = "ack"
  /\ ready' = [ready EXCEPT ![<<job[w].task, job[w].retries>>] = @ + 1]
  /\ job' = [job EXCEPT ![w] = NoJob]
  /\ Goto(w, "idle")
  /\ UNCHANGED <<api, store, attempts, counters>>

(* task_acks_late: the message leaves the broker when the handler is over, *)
(* with or without an exception.                                           *)
Ack(w) ==
  /\ pc[w] = "ack"
  /\ job' = [job EXCEPT ![w] = NoJob]
  /\ Goto(w, "idle")
  /\ UNCHANGED <<api, store, ready, attempts, counters>>

(* A database, index or broker call of the handler raises.  In the except  *)
(* clause nothing catches it: the handler is over and its message is acked.*)
StoreFails(w) ==
  /\ faults < MaxFaults
  /\ \/ pc[w] \in {"mark", "load"} /\ Goto(w, "except")
     \/ pc[w] \in {"persist", "commit"} /\ Goto(w, EscapeTo(job[w].after))
     \/ pc[w] \in {"except", "republish"} /\ Goto(w, "ack")
  /\ faults' = faults + 1
  /\ UNCHANGED <<api, store, ready, job, attempts, crashes, losses>>

-----------------------------------------------------------------------------
(* The environment of a worker. *)

Writing == {"node", "handler", "export", "fail", "close", "rescue"}

(* Mutant: messages are acked when they are received. *)
CrashAckedEarly(w) ==
  /\ pc[w] # "idle" /\ crashes < MaxCrashes
  /\ job' = [job EXCEPT ![w] = NoJob]
  /\ Goto(w, "idle")
  /\ crashes' = crashes + 1
  /\ UNCHANGED <<api, store, ready, attempts, losses, faults>>

(* The worker dies with its message unacked: the broker redelivers it.  A  *)
(* write of the manifest it was in the middle of leaves a torn file.       *)
Crash(w) ==
  /\ pc[w] # "idle" /\ crashes < MaxCrashes
  /\ ready' = [ready EXCEPT ![<<job[w].task, job[w].retries>>] = @ + 1]
  /\ \/ UNCHANGED manifest
     \/ /\ pc[w] \in Writing
        /\ manifest' = [manifest EXCEPT ![job[w].task] = "torn"]
  /\ job' = [job EXCEPT ![w] = NoJob]
  /\ Goto(w, "idle")
  /\ crashes' = crashes + 1
  /\ UNCHANGED <<api, row, retryCount, exported, attempts, losses, faults>>

(* The child process dies or hits the hard time limit: Celery acks the     *)
(* message (task_reject_on_worker_lost is not set).                        *)
LoseChild(w) ==
  /\ pc[w] # "idle" /\ losses < MaxLosses
  /\ job' = [job EXCEPT ![w] = NoJob]
  /\ Goto(w, "idle")
  /\ losses' = losses + 1
  /\ UNCHANGED <<api, store, ready, attempts, crashes, faults>>

HandlerStep(w) ==
  \/ MarkRunning(w) \/ Load(w) \/ StartNode(w) \/ PublishShot(w)
  \/ FinishNode(w) \/ ChooseOutcome(w) \/ Export(w) \/ FailNode(w)
  \/ ClosePlan(w) \/ Rescue(w) \/ PersistRead(w) \/ PersistCommit(w)
  \/ MarkRetrying(w) \/ MarkFailed(w) \/ Republish(w) \/ Ack(w)

WorkerStep(w) == HandlerStep(w) \/ \E m \in Messages : Receive(w, m)

Next ==
  \/ \E t \in Tasks : SaveInputs(t) \/ CreateRecord(t) \/ Dispatch(t) \/ RequestFails(t)
  \/ \E w \in Workers : WorkerStep(w) \/ StoreFails(w) \/ Crash(w) \/ LoseChild(w)

Spec == Init /\ [][Next]_vars

(* Celery keeps every worker process taking messages and running them, and *)
(* the event loop finishes a request it has begun.                         *)
FairSpec ==
  /\ Spec
  /\ \A w \in Workers : WF_vars(WorkerStep(w))
  /\ \A t \in Tasks : WF_vars(CreateRecord(t) \/ Dispatch(t))

-----------------------------------------------------------------------------
(* What must hold. *)

(* No step has gone wrong that the handler has no answer to. *)
Undisturbed == faults = 0 /\ losses = 0

(* At rest: the request is over and nothing of the task is in flight. *)
AtRest(t) == api[t] = "dispatched" /\ ~InFlight(t)

(* A task whose files still say "created" or "running" after its dispatch  *)
(* is in the broker or held by a worker: late acks (celery_app.py) and the *)
(* order of writes in the handler leave no step after which nobody would   *)
(* ever touch the task again.                                              *)
NoTaskForgotten ==
  Undisturbed =>
    \A t \in Tasks :
      api[t] = "dispatched" /\ manifest[t] \in {"created", "running"} => InFlight(t)

(* When the last delivery is over, the row of the tasks table and the      *)
(* manifest tell the same story, whichever of mark_retrying, mark_failed   *)
(* and sync_runtime_from_local wrote the row last.                         *)
MirrorAgreesAtRest ==
  Undisturbed =>
    \A t \in Tasks :
      AtRest(t) /\ Readable(t) => row[t] = MapStatus[manifest[t]]

(* While no delivery is repeated, the row never announces images whose ZIP *)
(* was not written, although finalize puts the outcome into the manifest   *)
(* before it exports.                                                      *)
SuccessIsExported ==
  crashes = 0 =>
    \A t \in Tasks \ PlanTasks : row[t] \in {"succeeded", "partial_failed"} => exported[t]

(* Retries and redeliveries together stay within a budget: a task is run   *)
(* (and paid for) at most once per retry level and crash.                  *)
AttemptBudget ==
  \A t \in Tasks : attempts[t] <= (MaxRetries + 1) * (crashes + 1)

(* A task that raised is given up only after every retry was used.         *)
RetriesBeforeFailure ==
  Undisturbed /\ "failed" \notin Outcomes =>
    \A t \in Tasks : AtRest(t) /\ row[t] = "failed" => retryCount[t] = MaxRetries

(* A row that says the images are there never takes it back, as long as no *)
(* delivery is repeated.                                                   *)
SuccessIsFinal ==
  [][\A t \in Tasks :
       /\ Undisturbed /\ crashes = 0
       /\ row[t] \in {"succeeded", "partial_failed"}
       => row'[t] = row[t]]_vars

(* Every dispatched task comes to rest with a final row, through crashes   *)
(* and retries.                                                            *)
EveryTaskSettles ==
  \A t \in Tasks :
    api[t] = "dispatched" ~> (AtRest(t) /\ row[t] \in Finished)

(* The row of the tasks table keeps the promises of TaskLedger: one life,  *)
(* a bounded number of comebacks after a failure, no way out of success.   *)
Ledger == INSTANCE TaskLedger WITH status <- row, used <- retryCount

LedgerImplemented == Ledger!LedgerSpec

(* The docstring of mark_retrying says the task is about to be retried:    *)
(* whatever store calls fail, a dispatched task whose row says "queued" has *)
(* a delivery coming or running.                                           *)
QueuedMeansScheduled ==
  \A t \in Tasks :
    api[t] = "dispatched" /\ row[t] = "queued" => InFlight(t)

=============================================================================
