# TLA+ models of ecom-image-agent

These modules model how the backend of this repository creates, executes,
records and repairs image generation tasks.  The program is a FastAPI
application with Celery workers, PostgreSQL, a directory of local task files
and, when Celery is off, threads inside the API process.  Its hard part is not
what a node computes but who writes the status of a task, in which order, and
what is left when one of those writes fails.

Paths below are relative to the repository (`backend/...`); inside
`PROJECT.json` they carry the prefix `src/`.

## 1. Inventory

### Components, their state and their operations

| Component | State | Operations |
| --- | --- | --- |
| API request for a main image task (`backend/api/image.py`, `services/main_image_service.py`) | `outputs/tasks/<id>/task.json` (the *manifest*), uploads, `index.json`, rows of `tasks` and `task_assets` | validate, write the manifest and the inputs, add to the index, commit the record, dispatch (Celery `delay` or in-process queue) |
| API request for a detail page task (`backend/api/detail_jobs.py`, `services/detail_page_job_service.py`) | the same | the same; a *plan-only* task runs inline when Celery is off |
| Celery handlers (`backend/workers/tasks/*.py`, `workers/celery_app.py`) | broker messages, `request.retries` | mark running, load, run, mark retrying and `self.retry`, mark failed; late acknowledgement |
| `TaskExecutionStateService` | status, `retry_count`, error columns of the `tasks` row, `task_events` | `mark_running`, `mark_retrying`, `mark_failed` |
| `TaskDbMirrorService` | `tasks`, `task_assets`, `task_results`, `task_events` | `create_task_record`, `sync_runtime_from_local` (reads files, then one transaction) |
| Main image workflow (`engine/workflows/graph.py`, `nodes/`) | the manifest, files of the task directory, the node cache, `usage_summary.json` | `_run_node`: manifest "running", publish, run, manifest, publish; `ingest_assets`, `director_v2`, `prompt_refine_v2`, `render_images` (partial results while rendering, a second simpler call), `run_qc`, `finalize` |
| Detail page workflow (`engine/workflows/detail_graph.py`, `detail_nodes/`) | the same | the same; `_finalize_plan_only_state` |
| In-process queues (`services/task_queue_service.py`, `_DetailTaskQueue`) | `_queue`, `_pending_task_ids`, `_active_task_id`, `_worker` | `enqueue`, `get_snapshot`, `_worker_loop` |
| Image editing (`services/image_edit_service.py`, `workers/tasks/image_edit_tasks.py`) | `image_edits`, `tasks`, `task_results`, `final/edited_result.png` | `create_edit`, `_dispatch_task`, `run_edit_task`, `_mark_failed`, retry |
| Task index (`repositories/task_repository.py`) | `index.json` | `save_task`, `save_runtime_task`, `list_tasks`, `get_task` |
| Accounts (`services/auth_service.py`, `core/security.py`, `frontend/src/auth/AuthProvider.tsx`) | `users`, `refresh_tokens`, the cookie, the access token in `localStorage`, what each tab shows | register, login, refresh (rotation), logout, current user |
| Rate limiter (`core/rate_limit.py`) | a list of time stamps per key, per process | `hit` |
| Queries (`services/task_query_service.py`, `task_runtime_service.py`, `detail_runtime_service.py`) | none | read rows and files, one after the other |
| Object storage (`services/storage/`) | COS objects | presign, authorise |
| Detail page nodes (`services/detail_planner_service.py`, `detail_prompt_service.py`, `detail_render_service.py`, `detail_nodes/`) | `plan/`, `generated/`, `review/`, `qc/`, `exports/` in the task directory | choose pages, bind photos, render with retries, check, conclude, ZIP |
| Model providers (`engine/providers/`) | the usage of the last call | choice of keys, retries and fallback around HTTP calls |
| Frontend (`frontend/src`) | the browser's | polls the runtime views, opens tasks, keeps the session |

### How they interact

The API writes files first, then the index, then the database, then it
dispatches.  A worker that runs a task is both the writer of the manifest and,
through `sync_runtime_from_local`, the process that copies the manifest into
the database after *every* write; the Celery handler writes the same `status`
column around the run.  So the status of a task lives in three stores (manifest,
row, broker message) and no transaction covers two of them.  Inside the API
process the event loop and one daemon thread per queue share `_queue` and the
fields under `_lock`; both of them publish through `asyncio.run`.

### Hard behaviours, and what makes each part correct

* **Celery execution** — deaths of a worker between any two steps, redelivery
  beside a retry, store calls that raise inside the `except` clause.  Correct
  when no dispatched task is forgotten, every task settles, the row and the
  files agree when the task is at rest, success is announced only for exported
  results and is not taken back, and the number of paid runs is bounded.
* **In-process queue** — two threads, two copies of the waiting line, only one
  of them under the lock; an executor that raises ends the thread.  Correct
  when the copies never drift apart, positions never grow, service is in order,
  and the line keeps moving.
* **Local run** — a publication that raises during the recovery from an
  earlier failure; the same publication called from the event loop.  Correct
  when a finished task always has a final manifest.
* **Image editing** — a version number read long before it is written;
  redelivered edits; a failure recorded while a retry is coming.  Correct when
  versions grow along the chain of edits, rows describe the files they point to,
  failed edits have no result and no edit is forgotten in the middle.
* **Detail pages** — pages fail one by one, the outcome is derived from checks
  that are derived from results, and a repeated delivery finds the files of the
  earlier one.  Correct when the plan has the pages that were asked for, every
  model call shows the package, and the outcome and the ZIP tell the truth
  about the pages.
* **Main images** — a paid call that fails half way, a store call that raises
  between a call and its record, a node cache shared by deliveries and releases,
  a text model that answers anything.  Correct when each picture carries the
  texts of its role and no others, the plan in use was made from what is in use
  now, the outcome tells the truth about the pictures, and usage is counted.
* **Task index and task view** — lost updates and torn files between processes;
  answers composed of several reads and applied in any order.  Correct when no
  task disappears without a race, the rows name the pictures, an answer never
  tells of an end without its pictures, and a page shows the task it has open or
  says that it is still loading it.
* **Accounts** — two requests that rotate the same refresh token, tabs that
  share a cookie, answers that are lost, a read after the commit that raises.
  Correct when a chain of tokens has one live end and the browser is left with a
  dead cookie only when the answer to the request that carried it went astray.
* **Rate limiter** — sliding window, truncated waiting time.  Correct when no
  window admits more than the limit and the waiting time is off by the fraction
  of a second that was cut, and no more.

`PROJECT.json` lists every component with its status and every hazard with its
line and the properties that cover it.

## 2. Modules

| Module | Models |
| --- | --- |
| `TaskLedger` | abstract: what the `tasks` table promises about one task |
| `TaskRun` | one task from the request to the last Celery delivery; implements `TaskLedger` |
| `TaskRunProofs` | theorems about `TaskRun`: no task is forgotten, it implements the safety part of `TaskLedger`, and what attempts, exports and the mirror owe to one another |
| `FifoServer` | abstract: a line served in order, one at a time, each once |
| `LocalTaskQueue` | both in-process queue classes; implements `FifoServer` |
| `LocalRun` | composes the queue with `run_prepared` on the worker thread and on the event loop |
| `LocalRunProofs` | theorems about the queue and its runs; the queue implements `FifoServer` |
| `ImageEdit`, `ImageEditProofs` | edits: request, broker, three transactions, file, version numbers |
| `Filters`, `SequenceLemmas` | pure: how the planners filter and cut a list; lemmas about that, about recursion along a list and about numbers, for three of the proof modules |
| `DetailPlanner` | pure: the pages of a detail page task and the photos of each page |
| `DetailPages`, `DetailPagesMC`, `DetailPagesProofs` | one detail page task from its photos to its ZIP, with interrupted and repeated deliveries |
| `ModelCalls` | pure: what a call of a text or an image model may do, and the usage it leaves |
| `ShotPlanner` | pure: which pictures a main image task makes of an answer, and the texts and photos of each |
| `MainImages`, `MainImagesMC`, `MainImagesProofs` | one main image task from its photos to its ZIP, with the node cache, the calls and their accounting |
| `TaskView`, `TaskViewMC`, `TaskViewProofs` | several tasks, the index they share, their rows, the runtime views and the pages that read them |
| `AuthSession`, `AuthSessionMC`, `AuthSessionProofs` | the session of one browser with several tabs, refresh tokens, the limiter of the login |

The four MC modules hold the instances TLC explores: sets of records that a
`.cfg` cannot write down.  The other constants are model values and small
numbers that a `.cfg` gives directly, and no definition is replaced.

The modules meet at the row of a task and its files.  `TaskRun` has the
control around the nodes (who writes which status when), `MainImages` and
`DetailPages` what happens inside them, `TaskView` what others see of it.
`LocalRun` EXTENDS `LocalTaskQueue`; `MainImages` EXTENDS `ShotPlanner`, which
EXTENDS `ModelCalls`; `DetailPages` EXTENDS `DetailPlanner`; both planners use
`Filters`.

### `TaskRun`

One worker has a program counter `pc[w]` and a record of locals `job[w]`
(message, node, how many partial results, where the publication under way
returns to, the status it has read).

| Action | Code |
| --- | --- |
| `SaveInputs`, `CreateRecord`, `Dispatch`, `RequestFails` | `prepare_generation`, `create_task_record`, `generate_main_image` and what is left when one of their calls raises |
| `Receive`, `MarkRunning`, `Load` | start of `run_main_image_task` / `run_detail_page_task`, `mark_running`, `load_prepared_task` |
| `StartNode`, `PublishShot`, `FinishNode`, `FailNode` | `_run_node`, and `_publish_partial_render_result` of the render node |
| `ChooseOutcome`, `Export` | the two halves of `finalize`: the outcome is in `task.json` before the ZIP exists |
| `ClosePlan` | `_finalize_plan_only_state` of a plan-only task |
| `PersistRead`, `PersistCommit`, `Resume` | `sync_runtime_from_local`: the files are read, later the transaction commits; then the caller goes on |
| `Rescue` | `except Exception` of `run_prepared_task` |
| `MarkRetrying`, `Republish`, `MarkFailed`, `Ack` | the `except` clause of the handler; `self.retry` publishes before the message is acknowledged |
| `StoreFails` | any database, index or broker call raises where it is made |
| `Crash` | the worker dies; the unacked message is redelivered; a manifest it was writing may be torn (`write_text` truncates first) |
| `LoseChild` | a child process dies or hits the hard time limit: Celery acknowledges the message because `task_reject_on_worker_lost` is not set |

Main image and detail page tasks share the module: the handlers, node runners
and rescue clauses have the same shape, `PlanTasks` marks the tasks that stop
after the prompt node.  `RenderNode`, `PromptNode` and `LastNode` stand for the
node sequences; the nodes between them behave alike.

### `LocalTaskQueue` and `LocalRun`

A critical section under `_lock` is one step; everything else interleaves.
`call` is the one `enqueue` the event loop is executing (`ensure`, `append`,
`put`), `worker` the next step of the thread.  `LocalRun` EXTENDS the queue,
replaces "the executor returns or raises" by the run itself and adds the event
loop that executes plan-only tasks inline.  A publication works on the worker
thread and raises on the event loop, because `asyncio.run` refuses to start
inside a running loop (`task_db_mirror_service.py:221`).

### `ImageEdit`

`results` is the table `task_results` in commit order; `source`, `edited` and
`status` are the columns of an edit; `file[e]` counts the generations written
to the edit's `final/edited_result.png`, `digest` says which of them a row
describes.  `Measure` is the first half of `_complete_execution` (version
number, upload, digest) and `Commit` its transaction.  What can go wrong around
them: any of them raises (`ExecutionRaises`), the record of the failure raises
(`MarkFailedRaises`), `self.retry` raises because the broker does
(`RetryRaises`), the worker dies and its message is redelivered (`Crash`), or the
child process dies or hits the hard time limit and Celery acknowledges its
message (`LoseChild`, as in `TaskRun`; the Celery app is the same).

### `DetailPlanner` and `DetailPages`

`DetailPlanner` holds the template (as data) and two algorithms written as
recursive functions, so that they can be proved about: `SelectPageRoles` (filter the sequence of the template by the photos,
fill up with optional pages, then with any page, cut) and `BuildPromptPlan`
(anchors, supplements, the pool of package photos, suggested roles, with the
rotation counters carried from page to page).  In `DetailPages` there is one
action per node, except that a call of the image model is a step of its own:
`CallReturns` (a picture of the right or a wrong shape) and `CallRaises` (a
message that looks like a hiccup of the provider or not).  `Conclude` and
`BuildBundle` are the two halves of `detail_finalize`: the outcome is in
`task.json` before the ZIP exists.  `NodeRaises` stands for a store call that
raises before, in or after a node, `Crash` for the end of the worker;
`Redeliver` starts over, and `png` and `bundle` stay on disk.  A photo is named
by its role and index; two uploads with one file name, which overwrite each
other, are left out.

### `ShotPlanner`, `ModelCalls` and `MainImages`

A text is modelled by its length and a photo by its slot and number, which is
all the code looks at.  `ShotPlanner` has the series of roles, the copy policy
of a role, `_normalize_director_output` and `_normalize_prompt_plan` (an answer
may leave shots out, repeat them, bring them out of order or name ones nobody
asked for) and the choice of reference photos.  `ModelCalls` has the choice of
keys, the requests a call sends, what it remembers of its usage, and what
raises before anything is sent.

| Action | Code |
| --- | --- |
| `IngestAssets` | `ingest_assets.py` |
| `LoadCached`, `PlanLocally`, `AskTextModel`, `RecordAnswer` | `director_v2` and `prompt_refine_v2`: a file of the node cache (which may be torn), mock mode, the call of the text model, its record and the save of the answer |
| `ResolveContext`, `GenerateV2`, `GenerateCompat` | the provider of a picture, its first call, and the simpler second one |
| `RecordV2`, `RecordV2Fails`, `RecordCompat`, `RecordCompatFails` | `record_usage` inside the `try` of the call, and what the `except` clause makes of it when it raises |
| `FinishRender`, `RunQc`, `Conclude`, `Export` | the end of `render_images`, `run_qc`, and the two halves of `finalize` |
| `StoreFails`, `Crash`, `CrashInSave` | a store call that raises, the end of the worker, also in the middle of a cache file |
| `Redeliver` | the next delivery, perhaps to a worker of a newer release (`release` is the version of each template) |

### `TaskView`

`worker[t]` is the process that writes task `t`: its phase (create, start,
picture, outcome, final, fail, raised), and where in the sequence *write the
manifest, look up its row, read the index, write it back, synchronise* it stands;
`held` is the copy of the index it has read.  A row of `tasks` has two parts that
are written at different times: `column`, its status, which the Celery handler
commits before the delivery has read anything (`MarkRunning`) and after an
exception that left the service (`MarkRaised`), and `row`, the snapshot of the
runtime that only a synchronisation writes.  `Load` is the look at the index
between the two.  `index.torn` means that the file does not parse for good: a
process died while it wrote it, or two writes overlapped and left a mix of both;
`TornRead` is the error of one that reads it then, or while another one writes
it.  A view is a record that collects its parts read by read (`ReadRow`,
`ReadManifest`, `ReadPictures`, `ReadExports`), `page` the state of
`MainImagePage` or of the drawer of `TasksPage`.  The main page clears what it
shows when another task is opened; the drawer keeps it, under the number of the
new task, until an answer or an error arrives, and says that it is loading.

### `AuthSession`

`tokens` is the table `refresh_tokens` in commit order; a row knows the first
token of its chain (`root`, a ghost).  A request goes through *sent*, *checked*
(its reads) and *answered* (its commit); between the last two anything may
happen.  `CommitFails` is a commit that raises; `Answer` has the read of the
user's row *after* the commit, outside the `try`: when that one raises, the
rotation stands and the browser gets an error without a cookie.  The browser
applies answers to its one cookie in any order (`Receive`), drops those of an
effect that was cleaned up (`Drop`) or never hears of them (`Lose`); `missed`
holds the tokens whose revocation it was not told of.  `strict` mounts a page
twice.  `Hit` is the limiter as a function of its time stamps and the time; a
second has `grain` ticks, any number of them, so that the fraction `retry_after`
cuts off exists.

## 3. Runs

| Run | Instance | Shows |
| --- | --- | --- |
| `TaskRun_crash` | one full and one plan-only task, 1 worker, 3 nodes, 1 retry, 2 crashes; fair | `MirrorAgreesAtRest`, `RetriesBeforeFailure`, `EveryTaskSettles` |
| `TaskRun_pool` | the same tasks on 2 workers, no crash; fair | `SuccessIsFinal`, and `TaskRun` implements `TaskLedger` with its fairness (`LedgerImplemented`) |
| `TaskRun_faults` | 1 task, 2 workers, 1 crash, 1 lost child, 2 failing store calls | `NoTaskForgotten`, `SuccessIsExported`, `AttemptBudget` |
| `TaskRun_silent_loss` | 1 task, 1 worker, 1 failing store or broker call | *violation* of `QueuedMeansScheduled` |
| `LocalRun_faults` | 3 queued and 1 plan-only task, 2 failing publications; fair | the queue (`PositionCountsTasksAhead`, `PositionNeverGrows`, `ServesInOrder`) under real executors, and the run (`FinishedTaskIsSettled`, `RowAgreesWhenFinished`, `ServedUnlessPublicationFails`) |
| `LocalRun_plan` | 1 plan-only task | *violation* of `PlanEndsCompleted` |
| `ImageEdit_serial` | 2 edits, 1 worker, 1 crash, 1 lost child, 1 failing store or broker call; fair | `LatestIsLinked`, `EveryEditEnds` |
| `ImageEdit_pool` | 2 edits, 2 workers, 1 crash, 1 lost child, 1 failing dispatch, retry or record | `VersionAboveSource`, `ResultMatchesFile`, `FailedEditHasNoResult`, `ResultsPerEdit`, `NoEditForgotten` |
| `DetailPages` | 1 to 12 pages, 96 choices of photos, both priorities, 1 wrong call; 3 and 4 pages with up to 5 wrong calls, 1 cut delivery, 2 deliveries | `TypeOK`, `PlanFillsTarget`, `EvidenceIsBacked`, `PackagingRotates`, `EveryCallIsAnchored`, `CompletedShowsAllPages`, `BundleIsCurrent` |
| `MainImages` | 72 requests for the plan, 8 with faults, 8 odd ones; 2 answers per planning node, 2 deliveries | `TypeOK`, `RequestsFollowPolicy`, `PlanIsCurrent`, `OutcomeIsHonest`, `UsageMatchesCalls` |
| `AuthSession` | 2 tabs, 1 account, 5 setups | `ChainForksOnlyInRaces`, `CookieIsLive`, `LimiterIsExact` |
| `TaskView` | 2 tasks, 7 scenarios | `IndexKeepsEveryTask`, `RowsNameThePictures`, `AnswersAreCoherent`, `PageShowsItsTask` |

`CHECK_DEADLOCK FALSE` is set where a system whose tasks are all done stops.
`DetailPages` and `MainImages` check for deadlock: their specifications have a
step `Rest` for the settled task, so a run that stops anywhere else is reported.

### Bounds

A second task or edit is there so that two of them meet in the same worker,
queue or source; the stores are per task, so a third would only repeat that.
The queue has three waiting tasks because a position must be able to shrink
twice.  One retry distinguishes the first, a middle and the last delivery; two
crashes allow a crash during a redelivery.  Three nodes are the least that have
a plan's last node, a render node and a closing node apart; where two nodes are
enough the render node is the closing one.  One partial result is enough to
publish in the middle of a node.  In `TaskRun_faults` `MaxFaults = 2` is needed
for a failure inside the clause that handles a failure; `TaskRun_silent_loss` has
one, so that it must be the broker call of the retry that raises: the node fails
by itself.  One lost child is enough, because it ends the one message it had.

For detail pages every number of pages the form accepts (1 to 12) is explored
with none or some photos of each role; the three supplementary roles come
together, since the code treats them alike.  None, one or three main results beside up to
three package photos make the lengths of the pool and of the photo list differ,
which is what the rotation could trip over.  Three pages with five wrong calls are enough for
every page to fail, two of them at once and the soft one after three tries.

For main images, names of 0, 2, 8 and 12 characters lie on both sides of every
length the copy policy asks for, 1, 8 and 12 pictures on both sides of the cut
at 8; the photos are none, some and more than a request carries of each kind.
The answers of the text model are an empty one and one with every defect the
normalisation treats.  Three pictures with two failing calls let both calls of
one picture fail, or the first of two pictures; two pictures are enough where a
store call raises and a worker dies as well.  Two deliveries, each with a
release of its own, are enough for a cache file to be found, stale, or torn.

In `AuthSession` two tabs with up to nine clicks and one expiry reach three
overlapping rotations of one token; losses and failing commits, an unknown
account, the two mounts of strict mode, and the limiter (2 logins per window of
2 seconds, 4.5 seconds in quarters) are explored by setups of their own, because their
product is too large and they meet only in the cookie.  In `TaskView` one task
is followed through three deliveries and two faults, or through two deliveries
while a page reads it; two tasks share the index, with a death or a second
delivery; and a page is opened three times on two tasks, on the list also with an
answer that fails in between.  Reading a task and sharing the
index are not combined: a view reads only the torn bit of the index.

### Conditions inside the properties

Some promises hold only where the code can keep them, and the condition is part
of the property:

* `MirrorAgreesAtRest`, `NoTaskForgotten`, `RetriesBeforeFailure` assume that no
  store call has raised and no child was lost (`Undisturbed`); what happens
  otherwise is `TaskRun_silent_loss`.
* `SuccessIsFinal` and `SuccessIsExported` assume that no delivery is repeated:
  a redelivered task is run again from the start and `mark_running` overwrites
  its row, whatever it said.  With redeliveries on *two* workers row and
  manifest may also differ at rest (the slower mirror transaction commits a
  status that is no longer current), so `MirrorAgreesAtRest` is checked on one
  worker with crashes and on two without.
* `EvidenceIsBacked` allows a dry leaf or leaf bottom page without its photo
  when the user asks for more pages than the photos support;
  `PackagingRotates` asks for at least four pages, because a plan of two or
  three may show one package photo only, against `docs/workflow.md:67` (the QC
  report warns then): three main results before two package photos, a photo of
  dry leaves and three pages are enough.
* `ResultMatchesFile` and `FailedEditHasNoResult` assume that no delivery is
  repeated: a redelivered edit overwrites the file of its first result.
* `NoEditForgotten` and `EveryEditEnds` except the edits of a run in which a store
  or broker call raised, or Celery acknowledged the message of a lost child: an
  edit whose child hits the hard time limit stays "running" for ever, because
  `celery_app.py:38` sets the limit without `task_reject_on_worker_lost`.
  `NoEditForgotten` also excepts the death of the API process where it runs the
  edits itself.
* `IndexKeepsEveryTask` excludes the ways in which a row can be lost: a process
  wrote the file back from an outdated copy (`overlap`), or the file does not
  parse (`index.torn`: a process died writing it, or two writes got mixed up).
  The code does nothing against either; that nothing else loses a row is what
  the property says.
* `AnswersAreCoherent` compares the runtime of an answer with the *snapshot* of
  the row beside it, and with the row's status only where that is a success: any
  other status may be ahead, since `mark_running` commits before `task.json`
  changes and `mark_retrying` and `mark_failed` after it.  It allows the list
  page an answer without pictures: the snapshot it falls back on has none.
* `PageShowsItsTask` allows the drawer of the list to show the former task's
  runtime and results under the new task while it is loading, which is what
  `TasksPage.tsx:99` and `TaskDetailPanel` do, and a page that has stopped polling
  to be behind a later delivery, or a failure after the outcome.
* `UsageMatchesCalls` bounds the difference by the worker deaths, the raising
  store calls and the call under way on one side, and on the other also by the
  calls that raised before they sent anything, which are counted all the same.
* `ChainForksOnlyInRaces` counts the rotations that committed after another one
  had revoked their token (`races`); the code has no lock that would forbid
  them.  `CookieIsLive` excludes a cookie of which the browser was not told that
  it was revoked: the answer was lost or dropped, or it was an error because the
  read after the commit raised (`auth_service.py:320`).  Later cookies are not
  excluded.
* `LimiterIsExact` lets a refused client in when it waits one second *longer*
  than `Retry-After` says.  Waiting as told is not enough: `rate_limit.py:46`
  cuts the fraction, so with 1.9 seconds left it says 1.

### Fairness

Weak fairness of `WorkerStep(w)`, one conjunct per worker: Celery's pool keeps
taking messages and a Python process keeps running its handler.  Nothing is
assumed about failures, crashes or user requests.  A request whose first write
has happened goes on (the event loop continues it), so `CreateRecord \/
Dispatch` is weakly fair per task.  In `LocalRun` the event loop and the worker
thread are weakly fair, which is what the scheduling of two Python threads
gives.  Crashes and faults are bounded, so a task is not redelivered for ever.

`DetailPages`, `MainImages`, `TaskView` and `AuthSession` have safety properties
only: a picture ends or its worker dies, which `TaskRun` covers, and a page stops
polling at the first error.

## 4. Disagreements between the code and what it says

Two have a run of their own:

1. `TaskRun_silent_loss` — `mark_retrying` commits "queued" before `self.retry`
   publishes; when the broker call raises, the delivery is acknowledged and the
   row says "queued" for ever.  The run allows one failing call, so its trace is
   this one: a node raises, the failure is published, `MarkRetrying` sets the row
   to "queued", the broker call of `Republish` raises, `Ack`.
2. `LocalRun_plan` — without Celery, `POST /api/detail/jobs/plan` runs on the
   event loop, its first publication raises and the plan ends "failed".

Four are stated as definitions that the code does not keep; their comments say
so and no run checks them:

3. `EveryTaskServed` (`LocalRun`) — `task_queue_service.py:74` says the worker
   keeps consuming the tasks of the queue; a publication that raises inside the
   `except` clause of `run_prepared` ends the thread, and tasks already in line
   wait for the next `enqueue`.
4. `DistinctVersions` (`ImageEdit`) — `docs/image-edit-v1.md:31` lets the version
   number increase; two workers give two results of one source the same one.
5. `CompletedMeansNoFailedPage` (`DetailPages`) —
   `docs/detail-page-workflow.md:119`; an instruction word in the user's own
   selling point ("只做...") makes a page "failed" and due for a retry in the
   reports, while the task is "completed": the issue of the page has no check.
6. `FrameAsRequested` (`MainImages`) — `prompt_refine_v2.py:271` says missing
   fields are filled in; a shot whose answer leaves out the frame gets 1:1 and 2K
   from the defaults of its schema (`prompt_plan_v2.py:49`) before the request is
   asked.

Noted while modelling, not stated: with 11 or 12 pages asked for and no photo of
dry leaves, `_select_page_roles` plans the dry leaf page after all, although its
docstring says it does not forge evidence pages; the progress of a detail page
task falls from 90 to 82 percent when its render node ends; two uploads with one
file name overwrite each other; one mirror call that raises after the export
turns a completed task into a failed one (`main_image_service.py:263`); between a
failed edit and its retry the rows say "failed"; a request whose dispatch raises
leaves rows "queued" that nobody will run; a node cache file torn by a death
raises in every later task with the same key; a logout whose request fails
leaves the cookie, and the next load of the page logs in again; a child that hits
the hard time limit leaves its task or edit "running"; a refresh, login or
registration whose read after the commit raises answers with an error although it
took effect, and a refresh then leaves the browser with a revoked cookie; the list
shows the former task's pictures under the new task's number while it loads.

## 5. Proofs

All theorems hold for every value of the constants that satisfies the named
assumptions of the module (`TaskRunAssumption`, `ImageEditAssumption`,
`LocalTaskQueueAssumption`, `LocalRunAssumption`, `DetailPagesAssumption`,
`MainImagesAssumption`, `TaskViewAssumption`, `AuthSessionAssumption`): any
number of tasks, edits, workers, tabs, photos, pictures, retries, crashes,
faults.  Each proof has one step per action.

* **`TaskRunProofs!TypeCorrect`** — `Spec => []TypeOK`.  `TypeOK` contains
  `LocalsOK`, which ties the locals of a worker to its label (a worker about to
  commit has read a status, one about to republish has a retry left); without
  it `MapStatus[job[w].hand]` and `retries + 1` would leave their domains.
* **`TaskRunProofs!NoTaskForgottenAlways`** — `Spec => []NoTaskForgotten`.  The
  property is not inductive: a worker holds the task until its last step, and
  the step that lets go is safe only because the manifest was settled earlier.
  The strengthening `AllAnswered` says that an unsettled task is *answered for*:
  a message waits, or a worker holds it that is not yet past the point where it
  would give up without settling the manifest (the label `ack` is reached only
  with a settled manifest or with a retry published).  The proof has one step
  per action.
* **`TaskRunProofs!LedgerSafelyImplemented`** — `Spec /\ []Calm =>
  LedgerSafety` of `TaskLedger` under the mapping that reads the status of the
  ledger off the column `row`; `Calm` is "no store call has raised, no child was
  lost, no worker has died".  That each step is a move of the ledger needs the
  label of the worker to determine the row, hence the invariant `CalmInv`: while
  it is calm a task has one delivery, in the broker or with one worker
  (`OnlyReady`, `OnlyCarrier`), and what the row, the manifest and the status a
  publication has read may be follows from where that delivery is (`Stage`,
  `Published`).
* **`TaskRunProofs!SuccessStaysFinal`** — `Spec => SuccessIsFinal`, a
  consequence: no move of the ledger leaves a success.
* **`TaskRunProofs!AttemptsStayInBudget`** — `Spec => []AttemptBudget`.  The
  invariant `AllPaid` is an account: attempts made, plus those that the message
  or the worker holding the task may still make at its retry level, stay within
  the budget; a death adds one full allowance, a retry spends one, and nothing
  else creates a delivery.
* **`TaskRunProofs!SuccessAlwaysExported`, `OneDeliveryAtATime`** —
  `Spec => []SuccessIsExported` and `Spec => [](crashes = 0 => OneWorkerPerTask)`,
  through failing stores and lost children.  `finalize` writes the outcome into
  the manifest before it exports, so the property speaks of the row only and the
  proof (`AllBacked`) follows who has read
  the manifest when, and that this worker is the only one.
* **`TaskRunProofs!MirrorAgrees`, `FailureUsedItsRetries`** —
  `Spec /\ []OneWorkerPerTask => []MirrorAgreesAtRest` and
  `[]RetriesBeforeFailure`.  The hypothesis is needed: with two workers on one
  task the slower mirror transaction commits a status that is no longer current,
  and the properties fail (section 3).  It is not hollow: `NoCrashAgrees` removes
  it for any number of workers until the first death, and `OneWorkerAgrees` for
  one worker whatever dies.  The inductive invariant says what row, manifest and
  retry count are at each label of the one worker, or while a message waits.
* **`ImageEditProofs!TypeCorrect`** — `Spec => []TypeOK`.
* **`ImageEditProofs!LatestAlwaysLinked`** — `Spec => []LatestIsLinked`; inductive
  with the types.
* **`ImageEditProofs!VersionsGrow`** — `Spec => []VersionAboveSource`, although
  no lock protects the version number.  The inductive invariant `VersionInv`
  adds that a parent precedes its child in the table (`Tree`), that what an
  edit points to exists (`Claimed`), and that the number a worker has reserved
  is above the version of its source (`Reserved`).  Results are only appended
  and never change, so a reserved number stays above it.
* **`ImageEditProofs!FileStaysMeasured`, `FailedBringsNothing`** —
  `Spec => []ResultMatchesFile` and `Spec => []FailedEditHasNoResult`.  Both
  follow from `OnceInv`: while no delivery is repeated an edit is at rest
  (`AtRest`, where both properties can be read off), or has one message in the
  broker (`Waiting`), or is in the hands of one worker (`InHands`), and in the
  last two cases it has no result yet.  That there is never a second message or
  a second worker is what keeps the file and the row in step.
* **`ImageEditProofs!ResultsStayInBudget`** — `Spec => []ResultsPerEdit`: results
  and deliveries of an edit that may still bring one are *claims*, and there are
  never more than 1 + `crashes` of them (`AllPaid`).
* **`ImageEditProofs!NeverForgotten`** — `Spec => []NoEditForgotten`.  That
  somebody holds the edit is too weak: an edit that is recorded as failed may be
  set "running" again by a second delivery whose holder is not the first one.
  `HandledInv` says that a *pending* edit (dispatched, "queued" or "running") has a
  message in the broker or a worker that has not recorded its outcome yet, while
  no call has raised and no child was lost; `StaysHandled` shows it for a step of
  one worker, from what that step does to the messages and the status of its own
  edit.
* **`LocalRunProofs!LineIsServedInOrder`** — `LocalSpec => ServesInOrder`: the
  waiting list, the active task and the finished ones implement `FifoServer`,
  although the worker takes its tasks from another list than the one that is
  reported, and whatever the runs raise.  The invariant `QueueInv` is one
  picture: the tasks stand in a row in the order of their `enqueue` calls, the
  first n are finished, and `_queue` and `_pending_task_ids` are two windows
  (`Window`) onto the rest that may differ by the task in hand at one end and by
  the task of the call under way at the other.
* **`LocalRunProofs!PositionsCount`, `PositionsShrink`** —
  `LocalSpec => []PositionCountsTasksAhead` and `LocalSpec => PositionNeverGrows`:
  in the same picture the position of the i-th task is i - 1 - n, and n only
  grows.
* **`LocalRunProofs!FinishedIsSettled`, `FinishedRowAgrees`** —
  `LocalSpec => []FinishedTaskIsSettled` and `[]RowAgreesWhenFinished`.  `RunInv`
  says that the worker thread runs what it has claimed, that a run about to leave
  its task by any way out has settled its manifest (`AboutToSettle`), and that a
  task that was left stays so (`Ended`): the event loop runs only plan tasks,
  which are never enqueued.
* **`DetailPagesProofs!CompletedIsComplete`, `ZipIsCurrent`** —
  what the outcome and the ZIP say about the pages.  They share one inductive
  invariant, `IInv`, that follows the chain from pictures to outcome: a result
  with a picture has the picture of *this* delivery on disk (`PicturesFresh`),
  the render node is left with a result for every page (`AllRendered`), a
  verdict that passes implies good pages (`VerdictHonest`), and the outcome
  repeats the verdict (`OutcomeHonest`).  `IInv` does not look into the planning:
  these two hold for whatever plan and binding the planners produce.
* **`DetailPagesProofs!PlanIsFilled`, `EvidenceStaysBacked`** —
  `Spec => []PlanFillsTarget` and `[]EvidenceIsBacked`, for every number of
  photos.  A recursive definition is turned into a function f with f[0] given and
  f[i] = step(f[i - 1]); what it computes is then an induction over i (`Induct`,
  stated with a set of numbers, from `LeastNumber`; all in `SequenceLemmas`).
  Filtering keeps each role once (`AmongFacts`), filling up adds every candidate until the target is
  reached (`FillFacts`); that the plan is long enough, and that an unbacked page
  needs more pages than allowed roles, is a count of distinct roles (`PlanFacts`).
* **`DetailPagesProofs!CallsAreAnchored`** — `Spec => []EveryCallIsAnchored`.  At
  most two anchors, two supplements and one photo of the pool precede the
  suggested roles, so the cut at five keeps the anchors (`ResolveFacts`), and what
  a retry keeps always includes them and a core photo (`AttemptKeeps`).
* **`DetailPagesProofs!PackagingTurns`** — `Spec => []PackagingRotates`.  The
  counts are carried from page to page (`BoundAlong`).  The opening page shows
  two package photos, or leaves the counter where the next page that borrows from
  the pool or the photos takes another one; with four pages there is such a page.
  The proof found that three are not enough (section 3).
* **`DetailPagesProofs!TypeStays`** — `Spec => []TypeOK`, from `PlanInv`, which
  ties the plan and the photos of the state to the operators that made them, and
  `ShapeInv`.  The five theorems share both as `PlanInvariant`.
* **`MainImagesProofs!TypeCorrect`, `EveryRequestCounted`, `PlanStaysCurrent`,
  `OutcomeStaysHonest`** — types (`TInv`); `CallInv` (a call under way belongs to
  the running node) and `Account`, where a request that is sent and not yet
  counted is *pending* and both sides move together (a call that raised before it
  sent anything is counted too, so the counters may also be too high by those);
  `PlanInv` (a cache file that
  parses was made from the inputs it is named after); `OutcomeInv`
  (`PicturesFresh`: a finished picture is the one of this delivery;
  `OutcomeSoFar`: what each node after the rendering has settled).  Nothing is
  assumed about the answers of the text model but their type.
* **`MainImagesProofs!PolicyIsFollowed`** — `Spec => []RequestsFollowPolicy`.
  `AnswerInv` says of an answer at hand that it has the type its schema lets
  through (`MainImagesAssumption`: the content is free), `SeriesInv` that the
  director's plan, the prompt plan and every file of the node cache have the
  pictures of the series in order, with the texts of their roles and no more
  points than their density allows (`PointsFit`).  That the first photo of a
  request shows the product on white and the second a detail is followed through
  filter, choice and cut for every list of photos (`ReferencesFit`,
  `PayloadFits`); it needs that the upload has a photo on white, a required
  field of the form (`PhotoLists`).
* **`TaskViewProofs!RowsAlwaysNameThePictures`, `IndexAlwaysKeepsEveryTask`** — the
  first by `TaskOK` (`WorkerOK`: pictures are placed in order; `FilesOK`: success is
  saved after the last one; `RowsOK`: rows are a subset of the pictures that a
  successful status completes), and by `ColumnOK`: the status of a row is set
  apart from its snapshot, but never to a success.  The second by `IndexInv`:
  without an overlap a worker about to write the index has read it as it is; a
  file that does not parse is excepted as in the property.
* **`TaskViewProofs!AnswersStayCoherent`, `PageStaysWithItsTask`** —
  `Spec => []AnswersAreCoherent` and `[]PageShowsItsTask`.  `ReadersOK` compares
  what a request under way has read so far with what the writers have done since:
  each read may be outdated, but only in one direction, because the readers read
  last what the writers write first.  Its part about the page (`ShownOK`) lets the
  list show another task only while it loads.
* **`AuthSessionProofs!ChainsForkOnlyInRaces`** — with the types (`TInv`: what a
  request names exists) and `RootsOK` (tokens come after the first of their
  chain), a count over the chain: rotation of a live token replaces one end,
  rotation of a revoked one adds an end and a race, a logout removes the end.
* **`AuthSessionProofs!CookieStaysLive`** — `Spec => []CookieIsLive`.  `CookieInv`
  adds that only an answer has a token (`AnsweredOnly`), and that the token of an
  answer not yet received is unclaimed (`Unclaimed`): not revoked, not the cookie,
  carried by no request and handed out by no other answer.  So the answer that
  revoked the cookie still brings a live one; where there is no such answer, the
  cookie is in `missed`.
* **`AuthSessionProofs!LimiterStaysExact`** — `Spec => []LimiterIsExact`, for every
  limit, window and number of ticks to a second.  `LimiterInv`: the bucket is the end of the sequence of all
  admissions, the others are older than the window, and no window holds more than
  the limit.  The limiter is modelled as the code has it, popping stamps from the
  front (`StampsSince`); that there is a first young stamp is an induction over
  the numbers, stated with a set (`LeastNumber`).

Every invariant and every action property that a run checks is proved.  Only
model-checked: `LedgerImplemented` with its fairness (without it:
`LedgerSafelyImplemented`), and liveness (`EveryTaskSettles`, `EveryEditEnds`,
`ServedUnlessPublicationFails`), which is outside what the prover does.

## 6. Not modelled

* Prompt texts, images, their post-processing, the layout of drawn texts and the
  wording of the copy; the payloads of the HTTP clients.
* Task events, usage rows in PostgreSQL, audit log, metrics: append-only and read
  by nobody who decides anything.  Asset rows and COS copies.
* The list of tasks, the runtime view of detail page tasks, the page of detail
  page tasks and the editor in the frontend.  In the page of detail page tasks the
  effect that loads the results of a main image task
  (`DetailPageGeneratorPage.tsx:127`) has no cancelled flag, unlike the two pages
  of `TaskView`: a late answer can put the pictures of a former task back.
* The cut to two product photos and two background photos inside the provider
  (`runapi_gemini31_image.py:422`): `DetailPages` ends with the list it is given.
* Whether a cache key has every input it needs: in `MainImages` the key and the
  ghost that says what a plan was made from are the same definition, so
  `PlanIsCurrent` is about the order of deliveries and releases, not about a
  component the key forgets.
* Object storage, the earlier detail page service, settings and middleware, and
  the Streamlit interface: no state of their own, or not reachable from the API.
* Passwords, hashes and signatures: booleans of `AuthSession`.
* The visibility timeout of the broker, `task_always_eager`, Celery's own
  storage of results.
* Whether a pooled database connection survives the event loop it was created
  in: every publication calls `asyncio.run`, the engine is global.
* A restart of the API process: the in-process queue is lost and nothing
  re-enqueues recorded tasks.
* PostgreSQL is taken as a set of atomic transactions.

## 7. Plan

Done: the execution of tasks (`TaskLedger`, `TaskRun`), the in-process queues
(`FifoServer`, `LocalTaskQueue`, `LocalRun`), `ImageEdit`, both workflows
(`DetailPlanner`, `DetailPages`, `ModelCalls`, `ShotPlanner`, `MainImages`), the
index, rows and views (`TaskView`), the session (`AuthSession`), and the theorems
of section 5.

Left, in order of importance:

1. The runtime view and the page of detail page tasks, in the manner of
   `TaskView`; the asset rows a synchronisation writes afresh.
2. The selection geometry and the prompt plan of `ImageEdit`.
3. The polling loops of `runapi_gemini31_image.py` as steps of their own, with
   timeouts between two polls.
