------------------------------- MODULE TaskView -------------------------------
(***************************************************************************)
(* What a reader sees of main image tasks while workers write them:        *)
(* task.json, the picture files and the ZIP of each task, the one index    *)
(* file all processes share (repositories/task_repository.py), the rows    *)
(* in PostgreSQL (services/task_db_mirror_service.py), the two runtime     *)
(* views (task_runtime_service.py, task_query_service.py) and the pages    *)
(* that poll or open them (MainImagePage.tsx, TasksPage.tsx).              *)
(*                                                                         *)
(* The workers are Celery's (tasks/main_image_tasks.py).  The files are     *)
(* written without locks or renames, and read one by one: a reader may     *)
(* find the index of another process half written, and its answer is       *)
(* composed of several moments.  What a worker does inside the nodes is in *)
(* MainImages, when a delivery is retried or given up is in TaskRun.       *)
(***************************************************************************)
EXTENDS Integers, Sequences, FiniteSets

CONSTANTS
    Tasks,    \* the tasks of one user
    Scenarios \* what is explored: the tasks created, their pictures, the bounds

ScenarioType ==
    [tasks : SUBSET Tasks, shots : Nat \ {0}, deliveries : Nat, faults : Nat, cuts : Nat,
     page : {"main", "list"}, opens : Nat, errors : Nat]

ASSUME TaskViewAssumption ==
    /\ Scenarios \subseteq ScenarioType
    /\ "none" \notin Tasks

VARIABLES
    scenario,  \* one of Scenarios
    worker,    \* per task: the process that writes it, and how far it is
    manifest,  \* per task: task.json
    pictures,  \* per task: the picture files, <<directory, shot>>
    zip,       \* per task: exports/ holds a ZIP of the results
    index,     \* storage/tasks/index.json: its rows, and that it does not parse
    overlap,   \* a process wrote the index back from an outdated copy (ghost)
    column,    \* per task: the status in the table tasks, in the words of task.json
    row,       \* per task: the snapshot the mirror left in that row
    results,   \* per task: its rows in task_results, by their stable id
    page,      \* the page in the browser
    requests,  \* its requests for a runtime view
    faults, cuts, opens, errors \* what has happened so far, against the bounds

store == <<manifest, pictures, zip>>
mirror == <<column, row, results>>
bounds == <<faults, cuts>>
front == <<page, requests, opens, errors>>
vars == <<scenario, worker, store, index, overlap, mirror, bounds, front>>

-----------------------------------------------------------------------------
(* The data. *)

NoManifest == [status |-> "none", delivery |-> 0]
Successes == {"completed", "review_required"}
Terminal == Successes \cup {"failed"}

(* How far a copy of task.json is. *)
Rank == [none |-> 0, created |-> 1, running |-> 2, completed |-> 3, review_required |-> 3, failed |-> 4]
Before(m, n) == m.delivery < n.delivery \/ (m.delivery = n.delivery /\ Rank[m.status] <= Rank[n.status])

NoRow == [status |-> "none", delivery |-> 0, zip |-> FALSE]
NoRows == [u \in {} |-> ""]
NoView == [task |-> "none", run |-> 0, stage |-> "none", status |-> "none", delivery |-> 0,
           pictures |-> 0, zip |-> FALSE, column |-> "none", row |-> NoRow]

Init ==
    /\ scenario \in Scenarios
    /\ worker = [t \in Tasks |-> [phase |-> "absent", at |-> "rest", shot |-> 0, delivery |-> 0,
                                  known |-> "none", held |-> NoRows]]
    /\ manifest = [t \in Tasks |-> NoManifest]
    /\ pictures = [t \in Tasks |-> {}]
    /\ zip = [t \in Tasks |-> FALSE]
    /\ index = [rows |-> NoRows, torn |-> FALSE]
    /\ overlap = FALSE
    /\ column = [t \in Tasks |-> "none"]
    /\ row = [t \in Tasks |-> NoRow]
    /\ results = [t \in Tasks |-> {}]
    /\ page = [task |-> "none", run |-> 0, polling |-> FALSE, loading |-> FALSE, shown |-> NoView]
    /\ requests = {}
    /\ faults = 0 /\ cuts = 0 /\ opens = 0 /\ errors = 0

Goto(t, phase, at) == worker' = [worker EXCEPT ![t].phase = phase, ![t].at = at]
Save(t, status) == manifest' = [manifest EXCEPT ![t] = [status |-> status, delivery |-> worker[t].delivery]]

Named(directory, t) == {file \in pictures[t] : file[1] = directory}

(* final/ once it holds a file, generated/ until then. *)
ResultFiles(t) == IF Named("final", t) # {} THEN Named("final", t) ELSE Named("generated", t)

-----------------------------------------------------------------------------
(* The index.  Every process reads all of it, changes one row and writes all *)
(* of it back: while one writes, the others may find it empty or cut short.  *)

Writing(t) == worker[t].at = "write"
Readable == ~index.torn
MayBeTorn(t) == index.torn \/ \E u \in Tasks \ {t} : Writing(u)

(* An API process has the upload: task.json, then the row of the index.      *)
Create(t) ==
    /\ t \in scenario.tasks /\ worker[t].phase = "absent"
    /\ Save(t, "created")
    /\ Goto(t, "create", "read")
    /\ UNCHANGED <<scenario, pictures, zip, index, overlap, mirror, bounds, front>>

(* save_runtime_task starts with the row as it is.                           *)
LookUp(t) ==
    /\ worker[t].at = "look" /\ Readable
    /\ worker' = [worker EXCEPT ![t].at = "read",
                      ![t].known = IF t \in DOMAIN index.rows THEN index.rows[t] ELSE "none"]
    /\ UNCHANGED <<scenario, store, index, overlap, mirror, bounds, front>>

ReadIndex(t) ==
    /\ worker[t].at = "read" /\ Readable
    /\ worker' = [worker EXCEPT ![t].at = "write", ![t].held = index.rows]
    /\ UNCHANGED <<scenario, store, index, overlap, mirror, bounds, front>>

(* The labels of a row that was lost do not come back.                       *)
RowOf(t) == IF worker[t].phase = "create" \/ worker[t].known = "full" THEN "full" ELSE "bare"

(* Mutant: the file is written with the row of this task alone. *)
SaveTaskAlone(t) == [u \in {t} |-> RowOf(t)]

SaveTask(t) ==
    [u \in DOMAIN worker[t].held \cup {t} |-> IF u = t THEN RowOf(t) ELSE worker[t].held[u]]

(* Two writes that overlap may leave a mix of both.                          *)
WriteIndex(t) ==
    /\ Writing(t)
    /\ \E torn \in BOOLEAN :
         /\ torn => MayBeTorn(t)
         /\ index' = [rows |-> SaveTask(t), torn |-> torn]
    /\ overlap' = (overlap \/ worker[t].held # index.rows)
    /\ worker' = [worker EXCEPT ![t].at = "sync", ![t].known = "none", ![t].held = NoRows]
    /\ UNCHANGED <<scenario, store, mirror, bounds, front>>

-----------------------------------------------------------------------------
(* The worker of a task: a publication saves the index, then the rows.       *)

NextPhase(t) ==
    CASE worker[t].phase = "create" -> <<"queued", "rest">>
      [] worker[t].phase = "start" -> <<"picture", "work">>
      [] worker[t].phase = "picture" ->
            IF worker[t].shot < scenario.shots THEN <<"picture", "work">> ELSE <<"outcome", "work">>
      [] worker[t].phase = "outcome" -> <<"final", "look">>
      [] worker[t].phase = "fail" -> <<"fail_again", "look">>
      [] worker[t].phase = "fail_again" -> <<"raised", "mark">>
      [] OTHER -> <<"ended", "rest">>

Synced(t) == [status |-> manifest[t].status, delivery |-> manifest[t].delivery,
              zip |-> zip[t] /\ t \in DOMAIN index.rows]

(* The mirror of a new task does not look at the index. *)
SyncReads(t) == worker[t].at = "sync" /\ worker[t].phase # "create"

(* Mutant: both directories are listed. *)
SyncBoth(t) ==
    /\ worker[t].at = "sync" /\ (SyncReads(t) => Readable)
    /\ column' = [column EXCEPT ![t] = manifest[t].status]
    /\ row' = [row EXCEPT ![t] = Synced(t)]
    /\ results' = [results EXCEPT ![t] = @ \cup pictures[t]]
    /\ Goto(t, NextPhase(t)[1], NextPhase(t)[2])
    /\ UNCHANGED <<scenario, store, index, overlap, bounds, front>>

(* One transaction sets the row and merges a row per picture listed; rows of *)
(* earlier listings stay.                                                    *)
Sync(t) ==
    /\ worker[t].at = "sync" /\ (SyncReads(t) => Readable)
    /\ column' = [column EXCEPT ![t] = manifest[t].status]
    /\ row' = [row EXCEPT ![t] = Synced(t)]
    /\ results' = [results EXCEPT ![t] = @ \cup ResultFiles(t)]
    /\ Goto(t, NextPhase(t)[1], NextPhase(t)[2])
    /\ UNCHANGED <<scenario, store, index, overlap, bounds, front>>

(* The queue, a retry, or a redelivery whose acknowledgement was lost.       *)
Deliver(t) ==
    /\ worker[t].phase \in {"queued", "ended"}
    /\ worker[t].delivery < scenario.deliveries
    /\ worker' = [worker EXCEPT ![t].phase = "start", ![t].at = "mark", ![t].shot = 0, ![t].delivery = @ + 1]
    /\ UNCHANGED <<scenario, store, index, overlap, mirror, bounds, front>>

(* The status in the row changes, its snapshot does not.                     *)
Mark(t, status) ==
    /\ column' = [column EXCEPT ![t] = IF row[t] = NoRow THEN @ ELSE status]
    /\ UNCHANGED <<scenario, store, index, overlap, row, results, bounds, front>>

(* mark_running commits before the delivery has read anything.               *)
MarkRunning(t) ==
    /\ worker[t].phase = "start" /\ worker[t].at = "mark"
    /\ Mark(t, "running")
    /\ Goto(t, "start", "load")

(* mark_retrying puts the status back to queued; mark_failed is the last.    *)
MarkRaised(t) ==
    /\ worker[t].phase = "raised"
    /\ \E status \in {"created", "failed"} : Mark(t, status)
    /\ Goto(t, "ended", "rest")

(* load_prepared_task looks the task up in the index.                        *)
Load(t) ==
    /\ worker[t].phase = "start" /\ worker[t].at = "load" /\ Readable
    /\ Goto(t, "start", "work")
    /\ UNCHANGED <<scenario, store, index, overlap, mirror, bounds, front>>

Start(t) ==
    /\ worker[t].phase = "start" /\ worker[t].at = "work"
    /\ Save(t, "running")
    /\ Goto(t, "start", "look")
    /\ UNCHANGED <<scenario, pictures, zip, index, overlap, mirror, bounds, front>>

(* The provider writes generated/, the node final/ and then task.json.       *)
Generate(t) ==
    /\ worker[t].phase = "picture" /\ worker[t].at = "work"
    /\ worker' = [worker EXCEPT ![t].at = "place", ![t].shot = @ + 1]
    /\ pictures' = [pictures EXCEPT ![t] = @ \cup {<<"generated", worker[t].shot + 1>>}]
    /\ UNCHANGED <<scenario, manifest, zip, index, overlap, mirror, bounds, front>>

Place(t) ==
    /\ worker[t].phase = "picture" /\ worker[t].at = "place"
    /\ pictures' = [pictures EXCEPT ![t] = @ \cup {<<"final", worker[t].shot>>}]
    /\ Goto(t, "picture", "look")
    /\ UNCHANGED <<scenario, manifest, zip, index, overlap, mirror, bounds, front>>

(* finalize saves the outcome before it builds the ZIP.                      *)
Conclude(t) ==
    /\ worker[t].phase = "outcome" /\ worker[t].at = "work"
    /\ \E status \in Successes : Save(t, status)
    /\ Goto(t, "outcome", "export")
    /\ UNCHANGED <<scenario, pictures, zip, index, overlap, mirror, bounds, front>>

Export(t) ==
    /\ worker[t].phase = "outcome" /\ worker[t].at = "export"
    /\ zip' = [zip EXCEPT ![t] = TRUE]
    /\ Goto(t, "outcome", "look")
    /\ UNCHANGED <<scenario, manifest, pictures, index, overlap, mirror, bounds, front>>

(* Where an exception leads: a node that raises, and a picture's publication *)
(* with it, is marked and published by the graph; anything else by the       *)
(* service; what raises before the service is called, or while it publishes  *)
(* the failure, goes to Celery's handler, and what raises there ends it.     *)
InNode(t) ==
    \/ worker[t].phase = "picture"
    \/ worker[t].phase = "outcome" /\ worker[t].at \in {"work", "export"}

OutsideService(t) ==
    \/ worker[t].phase = "start" /\ worker[t].at \in {"mark", "load"}
    \/ worker[t].phase = "fail_again"

Raises(t) ==
    CASE worker[t].phase = "create" -> Goto(t, "abandoned", "rest") /\ UNCHANGED manifest
      [] InNode(t) -> Goto(t, "fail", "look") /\ Save(t, "failed")
      [] worker[t].phase = "raised" -> Goto(t, "ended", "rest") /\ UNCHANGED manifest
      [] OutsideService(t) ->
            Goto(t, "raised", "mark") /\ UNCHANGED manifest
      [] OTHER -> Goto(t, "fail_again", "look") /\ Save(t, "failed")

AtWork(t) == worker[t].at # "rest"

Fault(t) ==
    /\ AtWork(t) /\ faults < scenario.faults
    /\ faults' = faults + 1
    /\ Raises(t)
    /\ UNCHANGED <<scenario, pictures, zip, index, overlap, mirror, cuts, front>>

(* The index does not parse.                                                 *)
TornRead(t) ==
    /\ worker[t].at \in {"look", "read", "load"} \/ SyncReads(t)
    /\ MayBeTorn(t)
    /\ Raises(t)
    /\ UNCHANGED <<scenario, pictures, zip, index, overlap, mirror, bounds, front>>

(* A process that dies while it writes leaves the index cut short for good.  *)
Crash(t) ==
    /\ AtWork(t) /\ cuts < scenario.cuts
    /\ cuts' = cuts + 1
    /\ Goto(t, IF worker[t].phase = "create" THEN "abandoned" ELSE "ended", "rest")
    /\ \E torn \in BOOLEAN :
         /\ torn => Writing(t)
         /\ index' = [index EXCEPT !.torn = @ \/ torn]
    /\ UNCHANGED <<scenario, store, overlap, mirror, faults, front>>

-----------------------------------------------------------------------------
(* The runtime views.  A main page asks the local service, which reads       *)
(* task.json, the index, the pictures and the exports; the list of tasks     *)
(* asks for the row first and falls back on its snapshot.                    *)

Advance(r, s) == requests' = (requests \ {r}) \cup {s}
FirstStage == IF scenario.page = "list" THEN "row" ELSE "manifest"
Ask(t, run) == [NoView EXCEPT !.task = t, !.run = run, !.stage = FirstStage]
Refused(r, stage) == [NoView EXCEPT !.task = r.task, !.run = r.run, !.stage = stage]

ReadRow(r) ==
    /\ r.stage = "row"
    /\ Advance(r, IF row[r.task] = NoRow THEN Refused(r, "not_found")
                  ELSE [r EXCEPT !.stage = "manifest", !.row = row[r.task], !.column = column[r.task]])
    /\ UNCHANGED <<scenario, worker, store, index, overlap, mirror, bounds, page, opens, errors>>

(* Mutant: the pictures are counted before task.json is read. *)
ReadPicturesFirst(r) ==
    /\ r.stage = "manifest"
    /\ Advance(r, IF r.pictures = 0 /\ ResultFiles(r.task) # {}
                  THEN [r EXCEPT !.pictures = Cardinality(ResultFiles(r.task))]
                  ELSE [r EXCEPT !.stage = "exports", !.status = manifest[r.task].status,
                                 !.delivery = manifest[r.task].delivery])
    /\ UNCHANGED <<scenario, worker, store, index, overlap, mirror, bounds, page, opens, errors>>

ReadManifest(r) ==
    /\ r.stage = "manifest"
    /\ Advance(r, IF manifest[r.task] = NoManifest THEN Refused(r, "not_found")
                  ELSE [r EXCEPT !.stage = "pictures", !.status = manifest[r.task].status,
                                 !.delivery = manifest[r.task].delivery])
    /\ UNCHANGED <<scenario, worker, store, index, overlap, mirror, bounds, page, opens, errors>>

ReadPictures(r) ==
    /\ r.stage = "pictures" /\ Readable
    /\ Advance(r, [r EXCEPT !.stage = "exports", !.pictures = Cardinality(ResultFiles(r.task))])
    /\ UNCHANGED <<scenario, worker, store, index, overlap, mirror, bounds, page, opens, errors>>

ReadExports(r) ==
    /\ r.stage = "exports"
    /\ Advance(r, [r EXCEPT !.stage = "answered", !.zip = zip[r.task]])
    /\ UNCHANGED <<scenario, worker, store, index, overlap, mirror, bounds, page, opens, errors>>

(* The index is half written, or task.json is.                               *)
TornView(r) ==
    /\ \/ r.stage = "pictures" /\ MayBeTorn("none")
       \/ r.stage = "manifest" /\ worker[r.task].at \in {"work", "place"}
    /\ Advance(r, IF scenario.page = "list"
                  THEN [r EXCEPT !.stage = "answered", !.status = r.row.status,
                                 !.delivery = r.row.delivery, !.zip = r.row.zip, !.pictures = 0]
                  ELSE Refused(r, "error"))
    /\ UNCHANGED <<scenario, worker, store, index, overlap, mirror, bounds, page, opens, errors>>

(* The network, or the 60 seconds the browser waits.                         *)
ViewFails(r) ==
    /\ errors < scenario.errors
    /\ errors' = errors + 1
    /\ Advance(r, Refused(r, "error"))
    /\ UNCHANGED <<scenario, worker, store, index, overlap, mirror, bounds, page, opens>>

-----------------------------------------------------------------------------
(* The page. *)

OnList == scenario.page = "list"

(* A task is opened: submitted, chosen, remembered in localStorage, or, in   *)
(* the list, read once more.  The effect of the former task is cancelled,    *)
(* its request goes on.  The list keeps on display what it had.              *)
Open(t) ==
    /\ t \in scenario.tasks /\ opens < scenario.opens
    /\ OnList \/ t # page.task
    /\ opens' = opens + 1
    /\ page' = [task |-> t, run |-> page.run + 1, polling |-> TRUE, loading |-> OnList,
                shown |-> IF OnList THEN page.shown ELSE NoView]
    /\ requests' = requests \cup {Ask(t, page.run + 1)}
    /\ UNCHANGED <<scenario, worker, store, index, overlap, mirror, bounds, errors>>

(* The user clears the main page, or no task matches the filter of the list. *)
Clear ==
    /\ page.task # "none"
    /\ page' = [page EXCEPT !.task = "none", !.run = @ + 1, !.polling = FALSE, !.shown = NoView]
    /\ UNCHANGED <<scenario, worker, store, index, overlap, mirror, bounds, requests, opens, errors>>

(* The timer of the main page, 3 seconds after an answer.                    *)
Poll ==
    /\ scenario.page = "main" /\ page.polling
    /\ ~\E r \in requests : r.run = page.run
    /\ requests' = requests \cup {Ask(page.task, page.run)}
    /\ UNCHANGED <<scenario, worker, store, index, overlap, mirror, bounds, page, opens, errors>>

(* Mutant: the effect forgets that it was cancelled. *)
CurrentAny(r) == TRUE

(* The effect that sent the request has not been cancelled.                  *)
Current(r) == r.run = page.run

(* The list asks once; the main page goes on until the end of the task, or   *)
(* until the first error.                                                    *)
Receive(r) ==
    /\ r.stage \in {"answered", "not_found", "error"}
    /\ requests' = requests \ {r}
    /\ page' =
        IF ~Current(r) THEN page
        ELSE CASE r.stage = "answered" ->
                    [page EXCEPT !.shown = r, !.loading = FALSE,
                                 !.polling = scenario.page = "main" /\ r.status \notin Terminal]
               [] r.stage = "not_found" /\ scenario.page = "main" ->
                    [page EXCEPT !.task = "none", !.shown = NoView, !.polling = FALSE]
               [] OTHER ->
                    [page EXCEPT !.polling = FALSE, !.loading = FALSE, !.shown = IF OnList THEN NoView ELSE @]
    /\ UNCHANGED <<scenario, worker, store, index, overlap, mirror, bounds, opens, errors>>

Write(t) ==
    \/ Create(t) \/ LookUp(t) \/ ReadIndex(t) \/ WriteIndex(t) \/ Sync(t)
    \/ Deliver(t) \/ MarkRunning(t) \/ Load(t) \/ Start(t) \/ Generate(t) \/ Place(t)
    \/ Conclude(t) \/ Export(t) \/ MarkRaised(t) \/ Fault(t) \/ TornRead(t) \/ Crash(t)

Next ==
    \/ \E t \in Tasks : Write(t) \/ Open(t)
    \/ Clear \/ Poll
    \/ \E r \in requests :
         \/ ReadRow(r) \/ ReadManifest(r) \/ ReadPictures(r) \/ ReadExports(r)
         \/ TornView(r) \/ ViewFails(r) \/ Receive(r)

Spec == Init /\ [][Next]_vars

-----------------------------------------------------------------------------
(* Properties. *)

(* Every task that was created has its row in the index, with its labels,    *)
(* whatever raised, died or was delivered again; only two processes that     *)
(* wrote the file back over each other can have lost one, and a file that    *)
(* does not parse, which one that died writing it or two writes that         *)
(* overlapped have left, says nothing (TaskRepository.save_task).            *)
IndexKeepsEveryTask ==
    overlap \/ index.torn \/
        \A t \in Tasks :
            row[t] # NoRow => t \in DOMAIN index.rows /\ index.rows[t] = "full"

(* A row in PostgreSQL that says the task brought its pictures comes with    *)
(* one row for each of them in final/, and no task gets more than one row    *)
(* besides, for a first picture that was generated but not placed when a     *)
(* failure was published (TaskDbMirrorService._build_main_results).          *)
RowsNameThePictures ==
    \A t \in Tasks :
        /\ column[t] \in Successes \/ row[t].status \in Successes =>
              {<<"final", k>> : k \in 1..scenario.shots} \subseteq results[t]
        /\ results[t] \subseteq pictures[t]
        /\ \A file \in results[t] : file[1] = "generated" => file = <<"generated", 1>>

(* An answer is put together from several reads, yet never tells of an end   *)
(* without all its pictures, except that the snapshot it falls back on has   *)
(* none; nor of a runtime that is older than the snapshot of the row it      *)
(* comes with, or than the success this row reports (get_runtime,            *)
(* get_task_runtime read what is written last first).  Other statuses of the *)
(* row may be ahead: mark_running commits before task.json changes.          *)
AnswersAreCoherent ==
    \A r \in requests \cup {page.shown} :
        r.stage = "answered" =>
            /\ Before(r.row, r)
            /\ r.column \in Successes => Before([status |-> r.column, delivery |-> r.row.delivery], r)
            /\ r.status \in Successes =>
                 \/ r.pictures = scenario.shots
                 \/ r.pictures = 0 /\ scenario.page = "list"

(* The page shows the task that is open, however late the answers for        *)
(* another one arrive; the list still shows the former task while it loads   *)
(* the new one, and says that it is loading (TaskDetailPanel); and when a    *)
(* main page has stopped polling at the end of its task, it shows how the    *)
(* task ended, unless the task was delivered again or failed after its       *)
(* outcome was saved (the effect of MainImagePage, finalize).                *)
PageShowsItsTask ==
    LET shown == page.shown
        now == manifest[page.task]
    IN  shown # NoView =>
            /\ shown.task = page.task \/ (OnList /\ page.loading)
            /\ scenario.page = "main" /\ shown.status \in Terminal =>
                 \/ now.status = shown.status
                 \/ shown.delivery < now.delivery
                 \/ now.status = "failed"
=============================================================================
