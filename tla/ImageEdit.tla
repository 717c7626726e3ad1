----------------------------- MODULE ImageEdit -----------------------------
(***************************************************************************)
(* Second-pass editing of a result image (ImageEditService).               *)
(*                                                                         *)
(* Creating an edit writes its row of `image_edits` and its row of `tasks` *)
(* in one transaction; a Celery worker, or a thread of the API process     *)
(* when Celery is off, executes it in three transactions: both rows        *)
(* "running", then the provider writes final/edited_result.png of the edit *)
(* task, then the new row of `task_results` together with both rows        *)
(* "succeeded".  The version number of the new row is read before the      *)
(* upload of the image and is written after it, under no lock and no       *)
(* unique constraint.  An exception records both rows as "failed" and is   *)
(* raised again, and the Celery handler retries.                           *)
(***************************************************************************)
EXTENDS Naturals, Sequences, FiniteSets

CONSTANTS
  Edits,       \* edit ids; the edit and its task share one
  NoEdit,      \* what an idle worker holds
  Workers,     \* Celery worker processes, or threads of the API process
  Celery,      \* settings.celery_enabled
  MaxRetries,  \* settings.celery_max_retries
  MaxCrashes,  \* bound: deaths of a worker
  MaxLosses,   \* bound: child processes lost after which Celery acks anyway
  MaxFaults    \* bound: dispatches, retries and records of a failure that raise

ASSUME ImageEditAssumption ==
  /\ NoEdit \notin Edits
  /\ Celery \in BOOLEAN
  /\ MaxRetries \in Nat /\ MaxCrashes \in Nat
  /\ MaxLosses \in Nat /\ MaxFaults \in Nat

VARIABLES
  results,   \* task_results, the original image first
  source,    \* source_result_id of an edit, 0 before it exists
  status,    \* status of the edit and of its task
  edited,    \* edited_result_id of an edit, 0 for none
  file,      \* which generation final/edited_result.png holds, 0 for none
  request,   \* how far the request that creates the edit has come
  ready,     \* how many copies of a message wait in the broker
  pc, job,   \* next step and locals of a worker
  crashes, losses, faults

rows == <<results, source, status, edited>>
vars == <<rows, file, request, ready, pc, job, crashes, losses, faults>>

Status == {"none", "queued", "running", "succeeded", "failed"}

Original == [edit |-> NoEdit, parent |-> 0, version |-> 1, digest |-> 0]

ResultRows == [edit : Edits \cup {NoEdit}, parent : Nat, version : Nat \ {0}, digest : Nat]

Messages == Edits \X (0..MaxRetries)

Labels == {"idle", "prepare", "generate", "measure", "commit", "failing", "raised", "ack"}

Jobs == [edit : Edits \cup {NoEdit}, retries : 0..MaxRetries, version : Nat, digest : Nat]

NoJob == [edit |-> NoEdit, retries |-> 0, version |-> 0, digest |-> 0]

TypeOK ==
  /\ results \in Seq(ResultRows) /\ results # <<>>
  /\ source \in [Edits -> 0..Len(results)]
  /\ edited \in [Edits -> 0..Len(results)]
  /\ status \in [Edits -> Status]
  /\ file \in [Edits -> Nat]
  /\ request \in [Edits -> {"new", "created", "dispatched", "rejected"}]
  /\ \A e \in Edits : source[e] = 0 <=> request[e] = "new"
  /\ ready \in [Messages -> Nat]
  /\ pc \in [Workers -> Labels] /\ job \in [Workers -> Jobs]
  /\ \A w \in Workers : /\ pc[w] = "idle" <=> job[w].edit = NoEdit
                        /\ pc[w] = "commit" => job[w].version > 0
  /\ crashes \in 0..MaxCrashes /\ losses \in 0..MaxLosses /\ faults \in 0..MaxFaults

Init ==
  /\ results = <<Original>>
  /\ source = [e \in Edits |-> 0] /\ edited = [e \in Edits |-> 0]
  /\ status = [e \in Edits |-> "none"]
  /\ file = [e \in Edits |-> 0]
  /\ request = [e \in Edits |-> "new"]
  /\ ready = [m \in Messages |-> 0]
  /\ pc = [w \in Workers |-> "idle"] /\ job = [w \in Workers |-> NoJob]
  /\ crashes = 0 /\ losses = 0 /\ faults = 0

InFlight(e) == \/ \E r \in 0..MaxRetries : ready[<<e, r>>] > 0
               \/ \E w \in Workers : job[w].edit = e

-----------------------------------------------------------------------------
(* The request: create_edit and _dispatch_task. *)

(* Any result may be edited again, an edited one as well. *)
CreateEdit(e) ==
  /\ request[e] = "new"
  /\ request' = [request EXCEPT ![e] = "created"]
  /\ \E s \in DOMAIN results : source' = [source EXCEPT ![e] = s]
  /\ status' = [status EXCEPT ![e] = "queued"]
  /\ UNCHANGED <<results, edited, file, ready, pc, job, crashes, losses, faults>>

Dispatch(e) ==
  /\ request[e] = "created"
  /\ request' = [request EXCEPT ![e] = "dispatched"]
  /\ ready' = [ready EXCEPT ![<<e, 0>>] = @ + 1]
  /\ UNCHANGED <<rows, file, pc, job, crashes, losses, faults>>

(* The broker raises; the committed rows stay. *)
DispatchFails(e) ==
  /\ request[e] = "created" /\ faults < MaxFaults
  /\ request' = [request EXCEPT ![e] = "rejected"]
  /\ faults' = faults + 1
  /\ UNCHANGED <<rows, file, ready, pc, job, crashes, losses>>

-----------------------------------------------------------------------------
(* run_edit_task_sync on a worker. *)

Goto(w, label) == pc' = [pc EXCEPT ![w] = label]

Receive(w, m) ==
  /\ pc[w] = "idle" /\ ready[m] > 0
  /\ ready' = [ready EXCEPT ![m] = @ - 1]
  /\ job' = [job EXCEPT ![w] = [NoJob EXCEPT !.edit = m[1], !.retries = m[2]]]
  /\ Goto(w, "prepare")
  /\ UNCHANGED <<rows, file, request, crashes, losses, faults>>

(* Mutant: an edit another delivery has begun is left alone. *)
PrepareUnlessRunning(w) ==
  /\ pc[w] = "prepare"
  /\ status' = [status EXCEPT ![job[w].edit] = "running"]
  /\ Goto(w, IF status[job[w].edit] = "running" THEN "ack" ELSE "generate")
  /\ UNCHANGED <<results, source, edited, file, request, ready, job, crashes, losses, faults>>

Prepare(w) ==
  /\ pc[w] = "prepare"
  /\ status' = [status EXCEPT ![job[w].edit] = "running"]
  /\ Goto(w, "generate")
  /\ UNCHANGED <<results, source, edited, file, request, ready, job, crashes, losses, faults>>

(* Mutant: the picture is written into the directory of the source task. *)
GenerateNextToSource(w) ==
  LET e == job[w].edit
      home == results[source[e]].edit
      owner == IF home = NoEdit THEN e ELSE home
  IN /\ pc[w] = "generate"
     /\ file' = [file EXCEPT ![owner] = @ + 1]
     /\ Goto(w, "measure")
     /\ UNCHANGED <<rows, request, ready, job, crashes, losses, faults>>

(* The provider's picture becomes final/edited_result.png of the edit task.*)
Generate(w) ==
  /\ pc[w] = "generate"
  /\ file' = [file EXCEPT ![job[w].edit] = @ + 1]
  /\ Goto(w, "measure")
  /\ UNCHANGED <<rows, request, ready, job, crashes, losses, faults>>

(* Versions in use by a result and the results derived from it. *)
Versions(s) ==
  {results[i].version : i \in {j \in DOMAIN results : j = s \/ results[j].parent = s}}

(* Mutant: only the derived results are asked for their version. *)
IsNextVersionOfDerived(s, n) ==
  LET used == {results[i].version : i \in {j \in DOMAIN results : results[j].parent = s}}
  IN IF used = {} THEN n = 1 ELSE n - 1 \in used /\ \A v \in used : v < n

(* next_version_no_for_source: one more than the greatest. *)
IsNextVersion(s, n) ==
  /\ n - 1 \in Versions(s)
  /\ \A v \in Versions(s) : v < n

(* First half of _complete_execution: the version number, then the upload  *)
(* and the digest of the file.                                             *)
Measure(w) ==
  LET e == job[w].edit IN
  /\ pc[w] = "measure"
  /\ \E n \in 1..(Len(results) + 1) :
       /\ IsNextVersion(source[e], n)
       /\ job' = [job EXCEPT ![w] = [@ EXCEPT !.version = n, !.digest = file[e]]]
  /\ Goto(w, "commit")
  /\ UNCHANGED <<rows, file, request, ready, crashes, losses, faults>>

(* Mutant: the link to the first result is kept. *)
CommitKeepsLink(w) ==
  LET e == job[w].edit IN
  /\ pc[w] = "commit"
  /\ results' = Append(results, [edit |-> e, parent |-> source[e],
                                 version |-> job[w].version, digest |-> job[w].digest])
  /\ edited' = [edited EXCEPT ![e] = IF @ = 0 THEN Len(results) + 1 ELSE @]
  /\ status' = [status EXCEPT ![e] = "succeeded"]
  /\ Goto(w, "ack")
  /\ UNCHANGED <<source, file, request, ready, job, crashes, losses, faults>>

(* Mutant: the result is committed before the two rows are, and what       *)
(* comes after that may still raise.                                       *)
CommitResultFirst(w) ==
  LET e == job[w].edit IN
  /\ pc[w] = "commit"
  /\ results' = Append(results, [edit |-> e, parent |-> source[e],
                                 version |-> job[w].version, digest |-> job[w].digest])
  /\ edited' = [edited EXCEPT ![e] = Len(results) + 1]
  /\ status' \in {status, [status EXCEPT ![e] = "succeeded"]}
  /\ Goto(w, IF status' = status THEN "failing" ELSE "ack")
  /\ UNCHANGED <<source, file, request, ready, job, crashes, losses, faults>>

(* Second half: one transaction for the result and both rows. *)
Commit(w) ==
  LET e == job[w].edit IN
  /\ pc[w] = "commit"
  /\ results' = Append(results, [edit |-> e, parent |-> source[e],
                                 version |-> job[w].version, digest |-> job[w].digest])
  /\ edited' = [edited EXCEPT ![e] = Len(results) + 1]
  /\ status' = [status EXCEPT ![e] = "succeeded"]
  /\ Goto(w, "ack")
  /\ UNCHANGED <<source, file, request, ready, job, crashes, losses, faults>>

(* The source file is missing, the provider, the upload or the database    *)
(* raises: nothing of the transaction under way is kept.                   *)
ExecutionRaises(w) ==
  /\ pc[w] \in {"prepare", "generate", "measure", "commit"}
  /\ Goto(w, "failing")
  /\ UNCHANGED <<rows, file, request, ready, job, crashes, losses, faults>>

MarkFailed(w) ==
  /\ pc[w] = "failing"
  /\ status' = [status EXCEPT ![job[w].edit] = "failed"]
  /\ Goto(w, "raised")
  /\ UNCHANGED <<results, source, edited, file, request, ready, job, crashes, losses, faults>>

(* Recording the failure raises as well; that exception is only logged. *)
MarkFailedRaises(w) ==
  /\ pc[w] = "failing" /\ faults < MaxFaults
  /\ Goto(w, "raised")
  /\ faults' = faults + 1
  /\ UNCHANGED <<rows, file, request, ready, job, crashes, losses>>

(* run_image_edit_task, except clause: with retries left the next message  *)
(* is published.  No row is told.  A thread of the API process just ends.  *)
Retry(w) ==
  /\ pc[w] = "raised"
  /\ ready' = IF Celery /\ job[w].retries < MaxRetries
              THEN [ready EXCEPT ![<<job[w].edit, job[w].retries + 1>>] = @ + 1]
              ELSE ready
  /\ Goto(w, "ack")
  /\ UNCHANGED <<rows, file, request, job, crashes, losses, faults>>

(* The broker call of self.retry raises: the message is acked all the same *)
(* and nothing is published.                                               *)
RetryRaises(w) ==
  /\ pc[w] = "raised" /\ Celery /\ job[w].retries < MaxRetries
  /\ faults < MaxFaults
  /\ Goto(w, "ack")
  /\ faults' = faults + 1
  /\ UNCHANGED <<rows, file, request, ready, job, crashes, losses>>

(* Mutant: the message stays in the broker. *)
AckRequeues(w) ==
  /\ pc[w] = "ack"
  /\ ready' = [ready EXCEPT ![<<job[w].edit, job[w].retries>>] = @ + 1]
  /\ job' = [job EXCEPT ![w] = NoJob]
  /\ Goto(w, "idle")
  /\ UNCHANGED <<rows, file, request, crashes, losses, faults>>

Ack(w) ==
  /\ pc[w] = "ack"
  /\ job' = [job EXCEPT ![w] = NoJob]
  /\ Goto(w, "idle")
  /\ UNCHANGED <<rows, file, request, ready, crashes, losses, faults>>

(* Mutant: messages are acked when they are received. *)
CrashAckedEarly(w) ==
  /\ pc[w] # "idle" /\ crashes < MaxCrashes
  /\ job' = [job EXCEPT ![w] = NoJob]
  /\ Goto(w, "idle")
  /\ crashes' = crashes + 1
  /\ UNCHANGED <<rows, file, request, ready, losses, faults>>

(* A worker dies: the broker redelivers its message, a thread is gone. *)
Crash(w) ==
  /\ pc[w] # "idle" /\ crashes < MaxCrashes
  /\ ready' = IF Celery THEN [ready EXCEPT ![<<job[w].edit, job[w].retries>>] = @ + 1]
              ELSE ready
  /\ job' = [job EXCEPT ![w] = NoJob]
  /\ Goto(w, "idle")
  /\ crashes' = crashes + 1
  /\ UNCHANGED <<rows, file, request, losses, faults>>

(* The child process dies or hits the hard time limit of the Celery app:   *)
(* its message is acked (task_reject_on_worker_lost is not set) and no row *)
(* is told.                                                                *)
LoseChild(w) ==
  /\ Celery /\ pc[w] # "idle" /\ losses < MaxLosses
  /\ job' = [job EXCEPT ![w] = NoJob]
  /\ Goto(w, "idle")
  /\ losses' = losses + 1
  /\ UNCHANGED <<rows, file, request, ready, crashes, faults>>

WorkerStep(w) ==
  \/ \E m \in Messages : Receive(w, m)
  \/ Prepare(w) \/ Generate(w) \/ Measure(w) \/ Commit(w)
  \/ ExecutionRaises(w) \/ MarkFailed(w) \/ Retry(w) \/ Ack(w)

Next ==
  \/ \E e \in Edits : CreateEdit(e) \/ Dispatch(e) \/ DispatchFails(e)
  \/ \E w \in Workers :
       WorkerStep(w) \/ MarkFailedRaises(w) \/ RetryRaises(w) \/ Crash(w) \/ LoseChild(w)

Spec == Init /\ [][Next]_vars

(* Workers keep taking messages and finish what they run. *)
FairSpec == Spec /\ \A w \in Workers : WF_vars(WorkerStep(w))

-----------------------------------------------------------------------------
(* What must hold. *)

(* The same delivery is never run twice. *)
RunOnce == Celery => crashes = 0

(* A derived image always has a higher version number than the image it    *)
(* was made from, also in a chain of edits of edits.                       *)
VersionAboveSource ==
  \A i \in DOMAIN results :
    results[i].parent # 0 => results[i].version > results[results[i].parent].version

(* docs/image-edit-v1.md: version_no increases over the source and what is *)
(* derived from it, so no two of them share a number.  Two workers that    *)
(* read the numbers before either commits give the same one twice.         *)
DistinctVersions ==
  \A i, j \in DOMAIN results :
    /\ results[i].parent # 0
    /\ results[j].parent = results[i].parent \/ j = results[i].parent
    /\ results[i].version = results[j].version
    => i = j

(* edited_result_id names the newest result of the edit, also when a       *)
(* redelivered edit has made a second one.                                 *)
LatestIsLinked ==
  \A e \in Edits :
    \A i \in DOMAIN results : results[i].edit = e => i <= edited[e]

(* sha256 of a result row is that of the file the row points to: while     *)
(* deliveries are not repeated nobody overwrites the picture of a          *)
(* committed result.                                                       *)
ResultMatchesFile ==
  RunOnce =>
    \A i \in DOMAIN results :
      results[i].edit # NoEdit => results[i].digest = file[results[i].edit]

(* An edit reported as failed has brought no result, whichever of its      *)
(* transactions raised.                                                    *)
FailedEditHasNoResult ==
  RunOnce =>
    \A e \in Edits :
      status[e] = "failed" => \A i \in DOMAIN results : results[i].edit # e

(* Retries never multiply the results of an edit; only a redelivery after  *)
(* a crash may.                                                            *)
ResultsPerEdit ==
  \A e \in Edits :
    Cardinality({i \in DOMAIN results : results[i].edit = e}) <= 1 + crashes

(* A dispatched edit whose rows still say "queued" or "running" is in the   *)
(* broker or held by a worker, with several deliveries of it under way as  *)
(* well: only a store or broker call that raises, a child lost under an    *)
(* acked message or, without Celery, the death of the API process leaves a *)
(* row behind that nobody touches any more.                                *)
NoEditForgotten ==
  \A e \in Edits :
    request[e] = "dispatched" /\ status[e] \in {"queued", "running"} =>
      \/ InFlight(e)
      \/ faults > 0 \/ losses > 0
      \/ ~Celery /\ crashes > 0

(* Every dispatched edit comes to rest, failed or with a result, also      *)
(* after a crash in the middle of its generation, unless a store or broker *)
(* call raises (in _mark_failed it leaves the row "running") or Celery     *)
(* loses the child that runs it: its message is acked, nothing retries it  *)
(* and the row stays "running".                                            *)
EveryEditEnds ==
  \A e \in Edits :
    request[e] = "dispatched" ~>
      \/ ~InFlight(e) /\ status[e] \in {"succeeded", "failed"}
      \/ faults > 0 \/ losses > 0

=============================================================================
