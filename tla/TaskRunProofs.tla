---------------------------- MODULE TaskRunProofs ----------------------------
(***************************************************************************)
(* What TaskRun promises for every number of tasks, workers, nodes,        *)
(* retries, crashes and failing store calls.                               *)
(*                                                                         *)
(*   1. Types, and that no dispatched task is forgotten.                   *)
(*   2. As long as no delivery is repeated and no store call raises,       *)
(*      TaskRun keeps the promises of TaskLedger: each step of it is one   *)
(*      step of the ledger or none.  While that lasts a task has one       *)
(*      delivery at a time, in the broker or with one worker, and what its *)
(*      row may say follows from where that delivery is.                   *)
(*   3. The deliveries of a task through every step, crashes and           *)
(*      redeliveries included.  Each delivery has a level, the retries     *)
(*      before it, and is paid for by the publication, a retry or a crash: *)
(*      that bounds the attempts.  Without a crash there is one delivery   *)
(*      at a time, so a row that announces images is backed by an export;  *)
(*      and while no two workers run one task, a row that nobody will      *)
(*      write again agrees with the files.                                 *)
(***************************************************************************)
EXTENDS TaskRun, TLAPS, FiniteSetTheorems

(* The conjuncts of TypeOK that tie the program counters to the locals. *)
WorkersOK ==
  /\ pc \in [Workers -> Labels]
  /\ job \in [Workers -> Jobs]
  /\ \A w \in Workers : LocalsOK(pc[w], job[w])

(* A worker that is not idle works for a task. *)
LEMMA BusyHoldsTask ==
  ASSUME WorkersOK, NEW w \in Workers, pc[w] # "idle"
  PROVE  job[w] \in Jobs /\ job[w].task \in Tasks
  BY DEF WorkersOK, LocalsOK, Jobs

(* The locals of a fresh delivery. *)
LEMMA ReceivedJob ==
  ASSUME NEW m \in Messages
  PROVE  /\ [NoJob EXCEPT !.task = m[1], !.retries = m[2]] \in Jobs
         /\ [NoJob EXCEPT !.task = m[1], !.retries = m[2]].task \in Tasks
<1>1. m[1] \in Tasks /\ m[2] \in 0..MaxRetries
  BY DEF Messages
<1>2. NoJob \in Jobs
  BY TaskRunAssumption DEF NoJob, Jobs, Continuations
<1> QED
  BY <1>1, <1>2 DEF Jobs

(* The locals at the start of a node, after one more partial result, and   *)
(* on the way to the next node.                                            *)
LEMMA StartedJob ==
  ASSUME NEW j \in Jobs
  PROVE  /\ [j EXCEPT !.after = "started", !.shot = 0] \in Jobs
         /\ [j EXCEPT !.after = "started", !.shot = 0].task = j.task
<1>1. 0 \in 0..Shots
  BY TaskRunAssumption
<1>2. "started" \in Continuations
  BY DEF Continuations
<1> QED
  BY <1>1, <1>2 DEF Jobs

(* The locals after a partial result was published.                          *)
LEMMA PublishedJob ==
  ASSUME NEW j \in Jobs, j.shot < Shots
  PROVE  /\ [j EXCEPT !.after = "published", !.shot = j.shot + 1] \in Jobs
         /\ [j EXCEPT !.after = "published", !.shot = j.shot + 1].task = j.task
<1>1. j.shot + 1 \in 0..Shots
  BY TaskRunAssumption DEF Jobs
<1>2. "published" \in Continuations
  BY DEF Continuations
<1> QED
  BY <1>1, <1>2 DEF Jobs

(* The locals at the next node.                                              *)
LEMMA SteppedJob ==
  ASSUME NEW j \in Jobs, j.node < LastNode
  PROVE  /\ [j EXCEPT !.after = "none", !.hand = "none", !.node = j.node + 1] \in Jobs
         /\ [j EXCEPT !.after = "none", !.hand = "none", !.node = j.node + 1].task = j.task
<1>1. j.node + 1 \in 0..LastNode
  BY TaskRunAssumption DEF Jobs
<1>2. "none" \in Continuations
  BY DEF Continuations
<1> QED
  BY <1>1, <1>2 DEF Jobs

(* A worker that changes its program counter and its locals together. *)
LEMMA WorkerMoves ==
  ASSUME WorkersOK, NEW w \in Workers, NEW label \in Labels, NEW j \in Jobs,
         pc' = [pc EXCEPT ![w] = label], job' = [job EXCEPT ![w] = j],
         LocalsOK(label, j)
  PROVE  WorkersOK'
  BY DEF WorkersOK

(* The labels at which a worker needs nothing but its task. *)
Plain == Labels \ {"idle", "export", "commit", "republish"}

(* A worker that moves between labels without a condition keeps its types.   *)
LEMMA PlainMove ==
  ASSUME WorkersOK, NEW w \in Workers, pc[w] # "idle",
         NEW label \in Plain, NEW j \in Jobs, j.task = job[w].task,
         pc' = [pc EXCEPT ![w] = label], job' = [job EXCEPT ![w] = j]
  PROVE  WorkersOK'
<1>1. LocalsOK(label, j)
  BY DEF WorkersOK, LocalsOK, Plain
<1> QED
  BY <1>1, WorkerMoves DEF Plain

(* A worker that only moves its program counter. *)
LEMMA Jump ==
  ASSUME WorkersOK, NEW w \in Workers, pc[w] # "idle",
         NEW label \in Plain, Goto(w, label), UNCHANGED job
  PROVE  WorkersOK'
  BY DEF WorkersOK, LocalsOK, Plain, Goto

(* A worker that is done, dead or lost is idle and holds nothing. *)
LEMMA LetsGo ==
  ASSUME WorkersOK, NEW w \in Workers, Goto(w, "idle"),
         job' = [job EXCEPT ![w] = NoJob]
  PROVE  WorkersOK'
<1>1. NoJob \in Jobs
  BY TaskRunAssumption DEF NoJob, Jobs, Continuations
<1>2. LocalsOK("idle", NoJob)
  BY DEF LocalsOK, NoJob
<1> QED
  BY <1>1, <1>2, WorkerMoves DEF Goto, Labels

(* A write of the manifest and the publication after it. *)
LEMMA WritesAndPersists ==
  ASSUME TypeOK, NEW w \in Workers, pc[w] # "idle",
         NEW status \in LegacyStatus, NEW after \in Continuations,
         WriteAndPersist(w, status, after)
  PROVE  manifest' \in [Tasks -> {"none", "torn"} \cup LegacyStatus] /\ WorkersOK'
<1>1. WorkersOK
  BY DEF TypeOK, WorkersOK
<1>2. job[w] \in Jobs /\ job[w].task \in Tasks
  BY <1>1, BusyHoldsTask
<1> DEFINE j == [job[w] EXCEPT !.after = after, !.hand = "none"]
<1>3. j \in Jobs /\ j.task = job[w].task
  BY <1>2 DEF Jobs
<1>4. WorkersOK'
  <2>1. "persist" \in Plain
    BY DEF Labels, Plain
  <2>2. pc' = [pc EXCEPT ![w] = "persist"] /\ job' = [job EXCEPT ![w] = j]
    BY DEF WriteAndPersist, Goto
  <2> HIDE DEF j
  <2> QED
    BY <1>1, <1>3, <2>1, <2>2, PlainMove
<1>5. manifest' \in [Tasks -> {"none", "torn"} \cup LegacyStatus]
  BY <1>2 DEF TypeOK, WriteAndPersist
<1> QED
  BY <1>4, <1>5

(* Every step keeps the types: the deliveries are well formed, the retry   *)
(* count stays in its range, and a worker holds a task exactly when it is  *)
(* not idle.                                                               *)
LEMMA TypeStep ==
  ASSUME TypeOK, [Next]_vars
  PROVE  TypeOK'
<1> USE TaskRunAssumption DEF Messages, Settled, LegacyStatus, Finished, RowStatus,
         store, counters
<1>0. WorkersOK
  BY DEF TypeOK, WorkersOK
<1>1. ASSUME NEW t \in Tasks, SaveInputs(t) PROVE TypeOK'
  BY <1>1 DEF SaveInputs, TypeOK
<1>2. ASSUME NEW t \in Tasks, CreateRecord(t) PROVE TypeOK'
  BY <1>2 DEF CreateRecord, TypeOK
<1>3. ASSUME NEW t \in Tasks, Dispatch(t) PROVE TypeOK'
  BY <1>3 DEF Dispatch, TypeOK
<1>4. ASSUME NEW t \in Tasks, RequestFails(t) PROVE TypeOK'
  BY <1>4 DEF RequestFails, TypeOK
<1>5. ASSUME NEW w \in Workers, NEW m \in Messages, Receive(w, m) PROVE TypeOK'
  <2> DEFINE j == [NoJob EXCEPT !.task = m[1], !.retries = m[2]]
  <2>1. j \in Jobs /\ j.task \in Tasks
    BY ReceivedJob
  <2>2. job' = [job EXCEPT ![w] = j] /\ pc' = [pc EXCEPT ![w] = "mark"]
    BY <1>5 DEF Receive, Goto
  <2> HIDE DEF j
  <2>3. LocalsOK("mark", j) /\ "mark" \in Labels
    BY <2>1 DEF LocalsOK, Labels
  <2>4. WorkersOK'
    BY <1>0, <2>1, <2>2, <2>3, WorkerMoves
  <2>5. m[1] \in Tasks
    OBVIOUS
  <2> QED
    BY <1>5, <2>4, <2>5 DEF Receive, TypeOK, WorkersOK
<1>6. ASSUME NEW w \in Workers, MarkRunning(w) PROVE TypeOK'
  <2>1. WorkersOK'
    BY <1>6, <1>0, Jump DEF MarkRunning, Plain, Labels
  <2> QED
    BY <1>6, <1>0, <2>1, BusyHoldsTask DEF MarkRunning, TypeOK, WorkersOK
<1>7. ASSUME NEW w \in Workers, Load(w) PROVE TypeOK'
  <2>1. job[w] \in Jobs /\ pc[w] # "idle"
    BY <1>7, <1>0, BusyHoldsTask DEF Load
  <2>2. "node" \in Plain /\ "except" \in Plain
    BY DEF Plain, Labels
  <2> DEFINE j == [job[w] EXCEPT !.node = 1]
  <2>3. j \in Jobs /\ j.task = job[w].task
    BY <2>1 DEF Jobs
  <2>4. \/ Goto(w, "except") /\ UNCHANGED job
        \/ pc' = [pc EXCEPT ![w] = "node"] /\ job' = [job EXCEPT ![w] = j]
    BY <1>7 DEF Load, Goto
  <2> HIDE DEF j
  <2>5. WorkersOK'
    BY <1>0, <2>1, <2>2, <2>3, <2>4, PlainMove, Jump
  <2> QED
    BY <1>7, <2>5 DEF Load, TypeOK, WorkersOK
<1>8. ASSUME NEW w \in Workers, StartNode(w) PROVE TypeOK'
  <2> DEFINE j == [job[w] EXCEPT !.after = "started", !.shot = 0]
  <2>1. job[w] \in Jobs /\ job[w].task \in Tasks /\ pc[w] # "idle"
    BY <1>8, <1>0, BusyHoldsTask DEF StartNode
  <2>2. j \in Jobs /\ j.task = job[w].task
    BY <1>8, <2>1, StartedJob DEF StartNode
  <2>3. job' = [job EXCEPT ![w] = j] /\ pc' = [pc EXCEPT ![w] = "persist"]
    BY <1>8 DEF StartNode, Goto
  <2> HIDE DEF j
  <2>4. WorkersOK'
    <3>1. "persist" \in Plain
      BY DEF Plain, Labels
    <3> QED
      BY <1>0, <2>1, <2>2, <2>3, <3>1, PlainMove
  <2> QED
    BY <1>8, <2>1, <2>4 DEF StartNode, TypeOK, WorkersOK
<1>9. ASSUME NEW w \in Workers, PublishShot(w) PROVE TypeOK'
  <2> DEFINE j == [job[w] EXCEPT !.after = "published", !.shot = job[w].shot + 1]
  <2>1. job[w] \in Jobs /\ job[w].task \in Tasks /\ pc[w] # "idle"
    BY <1>9, <1>0, BusyHoldsTask DEF PublishShot
  <2>2. j \in Jobs /\ j.task = job[w].task
    BY <1>9, <2>1, PublishedJob DEF PublishShot
  <2>3. job' = [job EXCEPT ![w] = j] /\ pc' = [pc EXCEPT ![w] = "persist"]
    BY <1>9 DEF PublishShot, Goto
  <2> HIDE DEF j
  <2>4. WorkersOK'
    <3>1. "persist" \in Plain
      BY DEF Plain, Labels
    <3> QED
      BY <1>0, <2>1, <2>2, <2>3, <3>1, PlainMove
  <2> QED
    BY <1>9, <2>1, <2>4 DEF PublishShot, TypeOK, WorkersOK
<1>10. ASSUME NEW w \in Workers, FinishNode(w) PROVE TypeOK'
  <2>1. manifest' \in [Tasks -> {"none", "torn"} \cup LegacyStatus] /\ WorkersOK'
    BY <1>10, WritesAndPersists DEF FinishNode, Continuations
  <2> QED
    BY <1>10, <2>1 DEF FinishNode, TypeOK, WorkersOK
<1>11. ASSUME NEW w \in Workers, ChooseOutcome(w) PROVE TypeOK'
  <2>1. job[w] \in Jobs /\ job[w].task \in Tasks /\ pc[w] # "idle"
    BY <1>11, <1>0, BusyHoldsTask DEF ChooseOutcome
  <2>2. PICK outcome \in Outcomes :
          /\ manifest' = [manifest EXCEPT ![job[w].task] = outcome]
          /\ job' = [job EXCEPT ![w] = [@ EXCEPT !.hand = outcome]]
    BY <1>11 DEF ChooseOutcome
  <2> DEFINE j == [job[w] EXCEPT !.hand = outcome]
  <2>3. j \in Jobs /\ j.task = job[w].task /\ j.hand \in Outcomes
    BY <2>1 DEF Jobs
  <2>4. job' = [job EXCEPT ![w] = j] /\ pc' = [pc EXCEPT ![w] = "export"]
    BY <1>11, <2>2 DEF ChooseOutcome, Goto
  <2> HIDE DEF j
  <2>5. LocalsOK("export", j) /\ "export" \in Labels
    BY <2>1, <2>3, TaskRunAssumption DEF LocalsOK, Labels
  <2>6. WorkersOK'
    BY <1>0, <2>3, <2>4, <2>5, WorkerMoves
  <2> QED
    BY <1>11, <2>1, <2>2, <2>6 DEF ChooseOutcome, TypeOK, WorkersOK
<1>12. ASSUME NEW w \in Workers, Export(w) PROVE TypeOK'
  <2>1. job[w].hand \in LegacyStatus
    BY <1>0, <1>12 DEF Export, WorkersOK, LocalsOK
  <2>2. manifest' \in [Tasks -> {"none", "torn"} \cup LegacyStatus] /\ WorkersOK'
    BY <1>12, <2>1, WritesAndPersists DEF Export, Continuations
  <2>3. job[w].task \in Tasks
    BY <1>0, <1>12, BusyHoldsTask DEF Export
  <2> QED
    BY <1>12, <2>2, <2>3 DEF Export, TypeOK, WorkersOK
<1>13. ASSUME NEW w \in Workers, FailNode(w) PROVE TypeOK'
  <2>1. manifest' \in [Tasks -> {"none", "torn"} \cup LegacyStatus] /\ WorkersOK'
    BY <1>13, WritesAndPersists DEF FailNode, Continuations
  <2> QED
    BY <1>13, <2>1 DEF FailNode, TypeOK, WorkersOK
<1>14. ASSUME NEW w \in Workers, ClosePlan(w) PROVE TypeOK'
  <2>1. manifest' \in [Tasks -> {"none", "torn"} \cup LegacyStatus] /\ WorkersOK'
    BY <1>14, WritesAndPersists DEF ClosePlan, Continuations
  <2> QED
    BY <1>14, <2>1 DEF ClosePlan, TypeOK, WorkersOK
<1>15. ASSUME NEW w \in Workers, Rescue(w) PROVE TypeOK'
  <2>1. manifest' \in [Tasks -> {"none", "torn"} \cup LegacyStatus] /\ WorkersOK'
    BY <1>15, WritesAndPersists DEF Rescue, Continuations
  <2> QED
    BY <1>15, <2>1 DEF Rescue, TypeOK, WorkersOK
<1>16. ASSUME NEW w \in Workers, PersistRead(w) PROVE TypeOK'
  <2>1. job[w] \in Jobs /\ job[w].task \in Tasks /\ pc[w] # "idle"
    BY <1>16, <1>0, BusyHoldsTask DEF PersistRead
  <2>2. CASE Goto(w, EscapeTo(job[w].after)) /\ UNCHANGED job
    <3>1. EscapeTo(job[w].after) \in Plain
      BY DEF EscapeTo, Plain, Labels
    <3>2. WorkersOK'
      BY <1>0, <2>1, <2>2, <3>1, Jump
    <3> QED
      BY <1>16, <3>2 DEF PersistRead, TypeOK, WorkersOK
  <2> DEFINE j == [job[w] EXCEPT !.hand = manifest[job[w].task]]
  <2>3. CASE Readable(job[w].task) /\ Goto(w, "commit") /\ job' = [job EXCEPT ![w] = j]
    <3>1. j \in Jobs /\ j.task = job[w].task /\ j.hand \in LegacyStatus
      BY <2>1, <2>3 DEF Jobs, Readable
    <3> HIDE DEF j
    <3>2. LocalsOK("commit", j) /\ "commit" \in Labels
      BY <2>1, <3>1, TaskRunAssumption DEF LocalsOK, Labels
    <3>3. WorkersOK'
      BY <1>0, <2>3, <3>1, <3>2, WorkerMoves DEF Goto
    <3> QED
      BY <1>16, <3>3 DEF PersistRead, TypeOK, WorkersOK
  <2> QED
    BY <1>16, <2>2, <2>3 DEF PersistRead
<1>17. ASSUME NEW w \in Workers, PersistCommit(w) PROVE TypeOK'
  <2>1. job[w] \in Jobs /\ job[w].task \in Tasks /\ pc[w] # "idle"
    BY <1>17, <1>0, BusyHoldsTask DEF PersistCommit
  <2>2. row' \in [Tasks -> RowStatus]
    <3>1. job[w].hand \in LegacyStatus
      BY <1>0, <1>17 DEF PersistCommit, WorkersOK, LocalsOK
    <3>2. MapStatus[job[w].hand] \in RowStatus
      BY <3>1 DEF MapStatus
    <3> QED
      BY <1>17, <3>2 DEF PersistCommit, TypeOK
  <2> DEFINE Cleared(after) == [job[w] EXCEPT !.after = after, !.hand = "none"]
             Stepped == [job[w] EXCEPT !.after = "none", !.hand = "none",
                                       !.node = job[w].node + 1]
  <2>3. \A after \in Continuations :
          Cleared(after) \in Jobs /\ Cleared(after).task = job[w].task
    BY <2>1 DEF Jobs
  <2>4. ~AtLast(job[w]) => Stepped \in Jobs /\ Stepped.task = job[w].task
    <3>1. job[w].node \in 0..LastNode
      BY <2>1 DEF Jobs
    <3>2. ~AtLast(job[w]) => job[w].node < LastNode
      BY <3>1, TaskRunAssumption DEF AtLast
    <3> QED
      BY <2>1, <3>2, SteppedJob
  <2>5. \/ /\ ~AtLast(job[w])
           /\ pc' = [pc EXCEPT ![w] = "node"] /\ job' = [job EXCEPT ![w] = Stepped]
        \/ \E label \in {"handler", "close", "except", "ack"} :
             pc' = [pc EXCEPT ![w] = label] /\ job' = [job EXCEPT ![w] = Cleared("none")]
        \/ \E after \in {"done", "reraise"} :
             pc' = [pc EXCEPT ![w] = "persist"] /\ job' = [job EXCEPT ![w] = Cleared(after)]
    BY <1>17 DEF PersistCommit, Resume, Goto
  <2> HIDE DEF Cleared, Stepped
  <2>6. {"node", "handler", "close", "except", "ack", "persist"} \subseteq Plain
    BY DEF Plain, Labels
  <2>7. {"none", "done", "reraise"} \subseteq Continuations
    BY DEF Continuations
  <2>8. WorkersOK'
    BY <1>0, <2>1, <2>3, <2>4, <2>5, <2>6, <2>7, PlainMove
  <2> QED
    BY <1>17, <2>2, <2>8 DEF PersistCommit, TypeOK, WorkersOK
<1>18. ASSUME NEW w \in Workers, MarkRetrying(w) PROVE TypeOK'
  <2>1. job[w] \in Jobs /\ job[w].task \in Tasks /\ pc[w] # "idle"
    BY <1>18, <1>0, BusyHoldsTask DEF MarkRetrying
  <2>2. job[w].retries + 1 \in 0..MaxRetries
    BY <1>18, <2>1 DEF MarkRetrying, Jobs
  <2>3. WorkersOK'
    BY <1>0, <1>18, <2>1 DEF MarkRetrying, Goto, WorkersOK, LocalsOK, Labels
  <2> QED
    BY <1>18, <2>1, <2>2, <2>3 DEF MarkRetrying, TypeOK, WorkersOK
<1>19. ASSUME NEW w \in Workers, MarkFailed(w) PROVE TypeOK'
  <2>1. WorkersOK'
    BY <1>19, <1>0, Jump DEF MarkFailed, Plain, Labels
  <2>2. job[w] \in Jobs /\ job[w].task \in Tasks
    BY <1>19, <1>0, BusyHoldsTask DEF MarkFailed
  <2> QED
    BY <1>19, <2>1, <2>2 DEF MarkFailed, TypeOK, WorkersOK, Jobs
<1>20. ASSUME NEW w \in Workers, Republish(w) PROVE TypeOK'
  <2>1. WorkersOK'
    BY <1>20, <1>0, Jump DEF Republish, Plain, Labels
  <2>2. <<job[w].task, job[w].retries + 1>> \in Messages
    <3>1. job[w] \in Jobs /\ job[w].task \in Tasks /\ job[w].retries < MaxRetries
      BY <1>20, <1>0, BusyHoldsTask DEF Republish, WorkersOK, LocalsOK
    <3> QED
      BY <3>1 DEF Jobs
  <2> QED
    BY <1>20, <2>1, <2>2 DEF Republish, TypeOK, WorkersOK
<1>21. ASSUME NEW w \in Workers, Ack(w) PROVE TypeOK'
  <2>1. WorkersOK'
    BY <1>21, <1>0, LetsGo DEF Ack
  <2>2. pc[w] # "idle" /\ job[w] \in Jobs /\ job[w].task \in Tasks
    BY <1>21, <1>0, BusyHoldsTask DEF Ack
  <2> QED
    BY <1>21, <2>1, <2>2 DEF Ack, TypeOK, WorkersOK, Jobs
<1>22. ASSUME NEW w \in Workers, StoreFails(w) PROVE TypeOK'
  <2>1. pc[w] # "idle" /\ UNCHANGED job
    BY <1>22 DEF StoreFails
  <2>2. PICK label \in Plain : Goto(w, label)
    BY <1>22 DEF StoreFails, EscapeTo, Plain, Labels
  <2>3. WorkersOK'
    BY <1>0, <2>1, <2>2, Jump
  <2> QED
    BY <1>22, <2>3 DEF StoreFails, TypeOK, WorkersOK
<1>23. ASSUME NEW w \in Workers, Crash(w) PROVE TypeOK'
  <2>1. WorkersOK'
    BY <1>23, <1>0, LetsGo DEF Crash
  <2>2. pc[w] # "idle" /\ job[w] \in Jobs /\ job[w].task \in Tasks
    BY <1>23, <1>0, BusyHoldsTask DEF Crash
  <2> QED
    BY <1>23, <2>1, <2>2 DEF Crash, TypeOK, WorkersOK, Jobs
<1>24. ASSUME NEW w \in Workers, LoseChild(w) PROVE TypeOK'
  <2>1. WorkersOK'
    BY <1>24, <1>0, LetsGo DEF LoseChild
  <2>2. pc[w] # "idle" /\ job[w] \in Jobs /\ job[w].task \in Tasks
    BY <1>24, <1>0, BusyHoldsTask DEF LoseChild
  <2> QED
    BY <1>24, <2>1, <2>2 DEF LoseChild, TypeOK, WorkersOK, Jobs
<1>25. CASE UNCHANGED vars
  BY <1>25 DEF vars, TypeOK
<1> QED
  BY <1>1, <1>2, <1>3, <1>4, <1>5, <1>6, <1>7, <1>8, <1>9, <1>10, <1>11, <1>12, <1>13, <1>14, <1>15, <1>16, <1>17, <1>18, <1>19, <1>20, <1>21, <1>22, <1>23, <1>24, <1>25
     DEF Next, WorkerStep, HandlerStep

(* No step of the request, of a handler, of a failing store or of a dying  *)
(* worker leaves the types of TypeOK.                                      *)
THEOREM TypeCorrect == Spec => []TypeOK
<1>1. Init => TypeOK
  BY TaskRunAssumption
     DEF Init, TypeOK, LocalsOK, Jobs, NoJob, Labels, Continuations, Messages,
         Settled, LegacyStatus, Finished, RowStatus
<1> QED
  BY <1>1, TypeStep, PTL DEF Spec

-----------------------------------------------------------------------------
(* NoTaskForgotten is not inductive: a worker can hold a task and be past  *)
(* the point where it would still touch the manifest.  What every step     *)
(* keeps is that the message of an unsettled task is in the broker or a    *)
(* worker holding it has a write of the manifest ahead of it.              *)
Unsettled(t) == api[t] = "dispatched" /\ manifest[t] \in {"created", "running"}

WillWrite(label, j) ==
  \/ label \in {"mark", "load", "node", "handler", "export", "fail", "close", "rescue"}
  \/ /\ label \in {"persist", "commit"}
     /\ \/ j.after \in {"started", "published"}
        \/ j.after = "finished" /\ (~AtLast(j) \/ j.task \in PlanTasks)

Answered(t) ==
  \/ \E r \in 0..MaxRetries : ready[<<t, r>>] > 0
  \/ \E w \in Workers : Holds(w, t) /\ WillWrite(pc[w], job[w])

AllAnswered == Undisturbed => \A t \in Tasks : Unsettled(t) => Answered(t)

(* A task that is answered for is not forgotten.                             *)
LEMMA AnsweredImpliesSafety == AllAnswered => NoTaskForgotten
  BY DEF AllAnswered, NoTaskForgotten, Unsettled, Answered, InFlight

(* A step of worker w leaves the answer to task t alone if it takes no     *)
(* message of t away and w itself, if it was the answer, goes on being it. *)
LEMMA KeepsAnswer ==
  ASSUME NEW t \in Tasks, NEW w \in Workers, Answered(t),
         \A r \in 0..MaxRetries : ready[<<t, r>>] > 0 => ready'[<<t, r>>] > 0,
         \A v \in Workers \ {w} : pc'[v] = pc[v] /\ job'[v] = job[v],
         Holds(w, t) /\ WillWrite(pc[w], job[w])
           => Answered(t)' \/ (Holds(w, t)' /\ WillWrite(pc'[w], job'[w]))
  PROVE  Answered(t)'
<1>1. CASE \E r \in 0..MaxRetries : ready[<<t, r>>] > 0
  BY <1>1 DEF Answered
<1>2. CASE \E v \in Workers \ {w} : Holds(v, t) /\ WillWrite(pc[v], job[v])
  BY <1>2 DEF Answered, Holds
<1>3. CASE Holds(w, t) /\ WillWrite(pc[w], job[w])
  BY <1>3 DEF Answered
<1> QED
  BY <1>1, <1>2, <1>3 DEF Answered

(* Only the holder of a task writes its manifest: what a worker does for   *)
(* its own task leaves the others answered.                                *)
LEMMA OthersAnswered ==
  ASSUME TypeOK, NEW w \in Workers, NEW t \in Tasks, t # job[w].task,
         Unsettled(t) => Answered(t), Unsettled(t)', UNCHANGED <<api, ready>>,
         \/ UNCHANGED manifest
         \/ \E s : manifest' = [manifest EXCEPT ![job[w].task] = s],
         NEW label, NEW j, pc' = [pc EXCEPT ![w] = label],
         job' = [job EXCEPT ![w] = j]
  PROVE  Answered(t)'
<1>1. Unsettled(t)
  BY DEF TypeOK, Unsettled
<1>2. \A v \in Workers \ {w} : pc'[v] = pc[v] /\ job'[v] = job[v]
  BY DEF TypeOK
<1> QED
  BY <1>1, <1>2, KeepsAnswer DEF Holds

(* A step of worker w that changes neither the broker nor the request, and *)
(* that leaves w a write ahead if its own task is unsettled after it.      *)
LEMMA HandlerKeepsAnswers ==
  ASSUME TypeOK, NEW w \in Workers, NEW t \in Tasks,
         Unsettled(t) => Answered(t), Unsettled(t)', UNCHANGED <<api, ready>>,
         \/ UNCHANGED manifest
         \/ \E s : manifest' = [manifest EXCEPT ![job[w].task] = s],
         NEW label, NEW j, pc' = [pc EXCEPT ![w] = label],
         job' = [job EXCEPT ![w] = j], j.task = job[w].task,
         t = job[w].task =>
           \/ WillWrite(label, j)
           \/ UNCHANGED manifest /\ ~WillWrite(pc[w], job[w])
  PROVE  Answered(t)'
<1>1. CASE t # job[w].task
  BY <1>1, OthersAnswered
<1>2. CASE t = job[w].task /\ WillWrite(label, j)
  <2>1. pc'[w] = label /\ job'[w] = j
    BY DEF TypeOK
  <2> QED
    BY <1>2, <2>1 DEF Answered, Holds
<1>3. CASE UNCHANGED manifest /\ ~WillWrite(pc[w], job[w])
  <2>1. \A v \in Workers \ {w} : pc'[v] = pc[v] /\ job'[v] = job[v]
    BY DEF TypeOK
  <2>2. Unsettled(t)
    BY <1>3 DEF Unsettled
  <2> QED
    BY <1>3, <2>1, <2>2, KeepsAnswer
<1> QED
  BY <1>1, <1>2, <1>3

(* Every step keeps every unsettled task answered. *)
LEMMA AnsweredStep ==
  ASSUME TypeOK, AllAnswered, [Next]_vars
  PROVE  AllAnswered'
<1> SUFFICES ASSUME Undisturbed', NEW t \in Tasks, Unsettled(t)'
             PROVE  Answered(t)'
  BY DEF AllAnswered
<1> USE DEF store, counters
<1>a. WorkersOK
  BY DEF TypeOK, WorkersOK
<1>b. Undisturbed
  <2>1. faults \in Nat /\ losses \in Nat
    BY TaskRunAssumption DEF TypeOK
  <2>2. ASSUME NEW w \in Workers, HandlerStep(w) PROVE UNCHANGED <<faults, losses>>
    BY <2>2 DEF HandlerStep, MarkRunning, Load, StartNode, PublishShot, FinishNode,
       ChooseOutcome, Export, FailNode, ClosePlan, Rescue, PersistRead, PersistCommit,
       MarkRetrying, MarkFailed, Republish, Ack
  <2>3. ASSUME NEW w \in Workers, StoreFails(w) \/ Crash(w) \/ LoseChild(w)
        PROVE  faults' >= faults /\ losses' >= losses
    BY <2>1, <2>3 DEF StoreFails, Crash, LoseChild
  <2>4. ASSUME NEW s \in Tasks, RequestFails(s)
        PROVE  faults' >= faults /\ losses' >= losses
    BY <2>1, <2>4 DEF RequestFails
  <2>5. \/ UNCHANGED <<faults, losses>>
        \/ faults' >= faults /\ losses' >= losses
    BY <2>2, <2>3, <2>4
       DEF Next, WorkerStep, vars, SaveInputs, CreateRecord, Dispatch, Receive
  <2> QED
    BY <2>1, <2>5 DEF Undisturbed
<1>c. Unsettled(t) => Answered(t)
  BY <1>b DEF AllAnswered
<1>1. ASSUME NEW s \in Tasks, SaveInputs(s) PROVE Answered(t)'
  <2>1. Unsettled(t)
    BY <1>1 DEF SaveInputs, Unsettled, TypeOK
  <2> QED
    BY <1>1, <1>c, <2>1 DEF SaveInputs, Answered, Holds
<1>2. ASSUME NEW s \in Tasks, CreateRecord(s) PROVE Answered(t)'
  <2>1. Unsettled(t)
    BY <1>2 DEF CreateRecord, Unsettled, TypeOK
  <2> QED
    BY <1>2, <1>c, <2>1 DEF CreateRecord, Answered, Holds
<1>3. ASSUME NEW s \in Tasks, Dispatch(s) PROVE Answered(t)'
  <2>1. \A r \in 0..MaxRetries : ready[<<t, r>>] > 0 => ready'[<<t, r>>] > 0
    BY <1>3, TaskRunAssumption DEF Dispatch, TypeOK, Messages
  <2>2. CASE s = t
    <3>1. 0 \in 0..MaxRetries /\ <<t, 0>> \in Messages
      BY TaskRunAssumption DEF Messages
    <3>2. ready'[<<t, 0>>] > 0
      BY <1>3, <2>2, <3>1 DEF Dispatch, TypeOK
    <3> QED
      BY <3>1, <3>2 DEF Answered
  <2>3. CASE s # t
    <3>1. Unsettled(t)
      BY <1>3, <2>3 DEF Dispatch, Unsettled, TypeOK
    <3> QED
      BY <1>3, <1>c, <2>1, <3>1 DEF Dispatch, Answered, Holds
  <2> QED
    BY <2>2, <2>3
<1>4. ASSUME NEW s \in Tasks, RequestFails(s) PROVE Answered(t)'
  BY <1>4, TaskRunAssumption DEF RequestFails, Undisturbed, TypeOK
<1>5. ASSUME NEW w \in Workers, NEW m \in Messages, Receive(w, m) PROVE Answered(t)'
  <2>1. m[1] \in Tasks /\ m[2] \in 0..MaxRetries /\ m = <<m[1], m[2]>>
    BY DEF Messages
  <2>2. pc'[w] = "mark" /\ job'[w].task = m[1]
    BY <1>5 DEF Receive, Goto, TypeOK, NoJob
  <2>3. CASE m[1] = t
    BY <2>2, <2>3 DEF Answered, Holds, WillWrite
  <2>4. CASE m[1] # t
    <3>1. \A r \in 0..MaxRetries : ready'[<<t, r>>] = ready[<<t, r>>]
      BY <1>5, <2>1, <2>4 DEF Receive, TypeOK, Messages
    <3>2. \A v \in Workers \ {w} : pc'[v] = pc[v] /\ job'[v] = job[v]
      BY <1>5 DEF Receive, Goto, TypeOK
    <3>3. Unsettled(t)
      BY <1>5 DEF Receive, Unsettled
    <3>4. ~WillWrite(pc[w], job[w])
      BY <1>5 DEF Receive, WillWrite
    <3> QED
      BY <1>c, <3>1, <3>2, <3>3, <3>4, KeepsAnswer
  <2> QED
    BY <2>3, <2>4
<1>6. ASSUME NEW w \in Workers, MarkRunning(w) PROVE Answered(t)'
  <2> DEFINE j == job[w]
  <2>1. job[w] \in Jobs /\ job[w].task \in Tasks
    BY <1>6, <1>a, BusyHoldsTask DEF MarkRunning
  <2>2. pc' = [pc EXCEPT ![w] = "load"] /\ job' = [job EXCEPT ![w] = j]
    BY <1>6 DEF MarkRunning, WriteAndPersist, Goto, TypeOK
  <2>3. j.task = job[w].task
    BY <2>1 DEF Jobs
  <2>4. t = job[w].task =>
          \/ WillWrite("load", j)
          \/ UNCHANGED manifest /\ ~WillWrite(pc[w], job[w])
    BY DEF WillWrite
  <2>5. \/ UNCHANGED manifest
        \/ \E s : manifest' = [manifest EXCEPT ![job[w].task] = s]
    BY <1>6 DEF MarkRunning, WriteAndPersist
  <2> HIDE DEF j
  <2> QED
    BY <1>6, <1>c, <2>2, <2>3, <2>4, <2>5, HandlerKeepsAnswers DEF MarkRunning
<1>7. ASSUME NEW w \in Workers, Load(w) PROVE Answered(t)'
  <2>1. job[w] \in Jobs /\ job[w].task \in Tasks
    BY <1>7, <1>a, BusyHoldsTask DEF Load
  <2>2. CASE t # job[w].task
    BY <1>7, <1>c, <2>2, OthersAnswered DEF Load, Goto, TypeOK
  <2>3. CASE t = job[w].task
    <3>1. Readable(t)
      BY <1>7 DEF Load, Readable, Unsettled, LegacyStatus
    <3>2. pc'[w] = "node" /\ job'[w].task = t
      BY <1>7, <2>1, <2>3, <3>1 DEF Load, Goto, TypeOK, Jobs
    <3> QED
      BY <3>2 DEF Answered, Holds, WillWrite
  <2> QED
    BY <2>2, <2>3
<1>8. ASSUME NEW w \in Workers, StartNode(w) PROVE Answered(t)'
  <2> DEFINE j == [job[w] EXCEPT !.after = "started", !.shot = 0]
  <2>1. job[w] \in Jobs /\ job[w].task \in Tasks
    BY <1>8, <1>a, BusyHoldsTask DEF StartNode
  <2>2. pc' = [pc EXCEPT ![w] = "persist"] /\ job' = [job EXCEPT ![w] = j]
    BY <1>8 DEF StartNode, WriteAndPersist, Goto, TypeOK
  <2>3. j.task = job[w].task
    BY <2>1 DEF Jobs
  <2>4. t = job[w].task =>
          \/ WillWrite("persist", j)
          \/ UNCHANGED manifest /\ ~WillWrite(pc[w], job[w])
    BY <2>1 DEF WillWrite, Jobs
  <2>5. \/ UNCHANGED manifest
        \/ \E s : manifest' = [manifest EXCEPT ![job[w].task] = s]
    BY <1>8 DEF StartNode, WriteAndPersist
  <2> HIDE DEF j
  <2> QED
    BY <1>8, <1>c, <2>2, <2>3, <2>4, <2>5, HandlerKeepsAnswers DEF StartNode
<1>9. ASSUME NEW w \in Workers, PublishShot(w) PROVE Answered(t)'
  <2> DEFINE j == [job[w] EXCEPT !.after = "published", !.shot = job[w].shot + 1]
  <2>1. job[w] \in Jobs /\ job[w].task \in Tasks
    BY <1>9, <1>a, BusyHoldsTask DEF PublishShot
  <2>2. pc' = [pc EXCEPT ![w] = "persist"] /\ job' = [job EXCEPT ![w] = j]
    BY <1>9 DEF PublishShot, WriteAndPersist, Goto, TypeOK
  <2>3. j.task = job[w].task
    BY <2>1 DEF Jobs
  <2>4. t = job[w].task =>
          \/ WillWrite("persist", j)
          \/ UNCHANGED manifest /\ ~WillWrite(pc[w], job[w])
    BY <2>1 DEF WillWrite, Jobs
  <2>5. \/ UNCHANGED manifest
        \/ \E s : manifest' = [manifest EXCEPT ![job[w].task] = s]
    BY <1>9 DEF PublishShot, WriteAndPersist
  <2> HIDE DEF j
  <2> QED
    BY <1>9, <1>c, <2>2, <2>3, <2>4, <2>5, HandlerKeepsAnswers DEF PublishShot
<1>10. ASSUME NEW w \in Workers, FinishNode(w) PROVE Answered(t)'
  <2> DEFINE j == [job[w] EXCEPT !.after = "finished", !.hand = "none"]
  <2>1. job[w] \in Jobs /\ job[w].task \in Tasks
    BY <1>10, <1>a, BusyHoldsTask DEF FinishNode
  <2>2. pc' = [pc EXCEPT ![w] = "persist"] /\ job' = [job EXCEPT ![w] = j]
    BY <1>10 DEF FinishNode, WriteAndPersist, Goto, TypeOK
  <2>3. j.task = job[w].task
    BY <2>1 DEF Jobs
  <2>4. t = job[w].task =>
          \/ WillWrite("persist", j)
          \/ UNCHANGED manifest /\ ~WillWrite(pc[w], job[w])
    <3>1. j.after = "finished" /\ j.node = job[w].node
      BY <2>1 DEF Jobs
    <3>2. AtLast(j) = AtLast(job[w])
      BY <2>3, <3>1 DEF AtLast
    <3> QED
      BY <1>10, <2>3, <3>1, <3>2 DEF FinishNode, WillWrite
  <2>5. \/ UNCHANGED manifest
        \/ \E s : manifest' = [manifest EXCEPT ![job[w].task] = s]
    BY <1>10 DEF FinishNode, WriteAndPersist
  <2> HIDE DEF j
  <2> QED
    BY <1>10, <1>c, <2>2, <2>3, <2>4, <2>5, HandlerKeepsAnswers DEF FinishNode
<1>11. ASSUME NEW w \in Workers, ChooseOutcome(w) PROVE Answered(t)'
  <2>1. job[w] \in Jobs /\ job[w].task \in Tasks
    BY <1>11, <1>a, BusyHoldsTask DEF ChooseOutcome
  <2>2. PICK outcome \in Outcomes :
          /\ manifest' = [manifest EXCEPT ![job[w].task] = outcome]
          /\ job' = [job EXCEPT ![w] = [@ EXCEPT !.hand = outcome]]
    BY <1>11 DEF ChooseOutcome
  <2>3. t # job[w].task
    BY <2>1, <2>2, TaskRunAssumption DEF Unsettled, TypeOK
  <2> QED
    BY <1>11, <1>c, <2>2, <2>3, OthersAnswered DEF ChooseOutcome, Goto
<1>12. ASSUME NEW w \in Workers, Export(w) PROVE Answered(t)'
  <2>1. job[w] \in Jobs /\ job[w].task \in Tasks
    BY <1>12, <1>a, BusyHoldsTask DEF Export
  <2>2. t # job[w].task
    BY <1>12, <1>a, <2>1, TaskRunAssumption DEF Export, WriteAndPersist, Unsettled, TypeOK, LocalsOK
  <2> QED
    BY <1>12, <1>c, <2>2, OthersAnswered DEF Export, WriteAndPersist, Goto
<1>13. ASSUME NEW w \in Workers, FailNode(w) PROVE Answered(t)'
  <2>1. job[w] \in Jobs /\ job[w].task \in Tasks
    BY <1>13, <1>a, BusyHoldsTask DEF FailNode
  <2>2. t # job[w].task
    BY <1>13, <1>a, <2>1 DEF FailNode, WriteAndPersist, Unsettled, TypeOK, LocalsOK
  <2> QED
    BY <1>13, <1>c, <2>2, OthersAnswered DEF FailNode, WriteAndPersist, Goto
<1>14. ASSUME NEW w \in Workers, ClosePlan(w) PROVE Answered(t)'
  <2>1. job[w] \in Jobs /\ job[w].task \in Tasks
    BY <1>14, <1>a, BusyHoldsTask DEF ClosePlan
  <2>2. t # job[w].task
    BY <1>14, <1>a, <2>1 DEF ClosePlan, WriteAndPersist, Unsettled, TypeOK, LocalsOK
  <2> QED
    BY <1>14, <1>c, <2>2, OthersAnswered DEF ClosePlan, WriteAndPersist, Goto
<1>15. ASSUME NEW w \in Workers, Rescue(w) PROVE Answered(t)'
  <2>1. job[w] \in Jobs /\ job[w].task \in Tasks
    BY <1>15, <1>a, BusyHoldsTask DEF Rescue
  <2>2. t # job[w].task
    BY <1>15, <1>a, <2>1 DEF Rescue, WriteAndPersist, Unsettled, TypeOK, LocalsOK
  <2> QED
    BY <1>15, <1>c, <2>2, OthersAnswered DEF Rescue, WriteAndPersist, Goto
<1>16. ASSUME NEW w \in Workers, PersistRead(w) PROVE Answered(t)'
  <2>1. job[w] \in Jobs /\ job[w].task \in Tasks
    BY <1>16, <1>a, BusyHoldsTask DEF PersistRead
  <2>2. CASE t # job[w].task
    <3>1. \E label, j : pc' = [pc EXCEPT ![w] = label] /\ job' = [job EXCEPT ![w] = j]
      BY <1>16 DEF PersistRead, Goto, TypeOK
    <3> QED
      BY <1>16, <1>c, <2>2, <3>1, OthersAnswered DEF PersistRead
  <2>3. CASE t = job[w].task
    <3> DEFINE j == [job[w] EXCEPT !.hand = manifest[job[w].task]]
    <3>1. Readable(t)
      BY <1>16 DEF PersistRead, Readable, Unsettled, LegacyStatus
    <3>2. pc' = [pc EXCEPT ![w] = "commit"] /\ job' = [job EXCEPT ![w] = j]
      BY <1>16, <2>3, <3>1 DEF PersistRead, Goto
    <3>3. /\ j.task = job[w].task /\ j.after = job[w].after /\ j.node = job[w].node
      BY <2>1 DEF Jobs
    <3> HIDE DEF j
    <3>4. WillWrite("commit", j) \/ ~WillWrite(pc[w], job[w])
      BY <1>16, <3>3 DEF PersistRead, WillWrite, AtLast
    <3> QED
      BY <1>16, <1>c, <3>2, <3>3, <3>4, HandlerKeepsAnswers DEF PersistRead
  <2> QED
    BY <2>2, <2>3
<1>17. ASSUME NEW w \in Workers, PersistCommit(w) PROVE Answered(t)'
  <2> DEFINE Cleared(after) == [job[w] EXCEPT !.after = after, !.hand = "none"]
             Stepped == [job[w] EXCEPT !.after = "none", !.hand = "none",
                                       !.node = job[w].node + 1]
  <2>1. job[w] \in Jobs /\ job[w].task \in Tasks
    BY <1>17, <1>a, BusyHoldsTask DEF PersistCommit
  <2>2. \A after : Cleared(after).task = job[w].task
    BY <2>1 DEF Jobs
  <2>3. Stepped.task = job[w].task
    BY <2>1 DEF Jobs
  <2>4. PICK label, j :
          /\ pc' = [pc EXCEPT ![w] = label] /\ job' = [job EXCEPT ![w] = j]
          /\ j = Stepped \/ \E after : j = Cleared(after)
          /\ label \in {"handler", "node", "close"} \/ ~WillWrite("commit", job[w])
    <3>1. \/ pc' = [pc EXCEPT ![w] = "node"] /\ job' = [job EXCEPT ![w] = Stepped]
          \/ /\ \E label \in {"handler", "close"} : pc' = [pc EXCEPT ![w] = label]
             /\ job' = [job EXCEPT ![w] = Cleared("none")]
          \/ /\ \E label \in {"except", "ack", "persist"} : pc' = [pc EXCEPT ![w] = label]
             /\ \E after \in {"none", "done", "reraise"} :
                  job' = [job EXCEPT ![w] = Cleared(after)]
             /\ ~WillWrite("commit", job[w])
      <4> USE DEF PersistCommit, Resume, Goto
      <4>1. CASE job[w].after \in {"started", "published"}
        BY <1>17, <4>1
      <4>2. CASE job[w].after = "finished" /\ ~AtLast(job[w])
        BY <1>17, <4>2
      <4>3. CASE job[w].after = "finished" /\ AtLast(job[w]) /\ job[w].task \in PlanTasks
        BY <1>17, <4>3
      <4>4. CASE job[w].after = "finished" /\ AtLast(job[w]) /\ job[w].task \notin PlanTasks
        BY <1>17, <4>4 DEF WillWrite
      <4>5. CASE job[w].after \notin {"started", "published", "finished"}
        BY <1>17, <4>5 DEF WillWrite
      <4> QED
        BY <4>1, <4>2, <4>3, <4>4, <4>5
    <3> QED
      BY <3>1
  <2> HIDE DEF Cleared, Stepped
  <2>5. j.task = job[w].task
    BY <2>2, <2>3, <2>4
  <2>6. WillWrite(label, j) \/ ~WillWrite(pc[w], job[w])
    BY <1>17, <2>4 DEF PersistCommit, WillWrite
  <2> QED
    BY <1>17, <1>c, <2>4, <2>5, <2>6, HandlerKeepsAnswers DEF PersistCommit
<1>18. ASSUME NEW w \in Workers, MarkRetrying(w) PROVE Answered(t)'
  <2> DEFINE j == job[w]
  <2>1. job[w] \in Jobs /\ job[w].task \in Tasks
    BY <1>18, <1>a, BusyHoldsTask DEF MarkRetrying
  <2>2. pc' = [pc EXCEPT ![w] = "republish"] /\ job' = [job EXCEPT ![w] = j]
    BY <1>18 DEF MarkRetrying, WriteAndPersist, Goto, TypeOK
  <2>3. j.task = job[w].task
    BY <2>1 DEF Jobs
  <2>4. t = job[w].task =>
          \/ WillWrite("republish", j)
          \/ UNCHANGED manifest /\ ~WillWrite(pc[w], job[w])
    BY <1>18 DEF MarkRetrying, WillWrite
  <2>5. \/ UNCHANGED manifest
        \/ \E s : manifest' = [manifest EXCEPT ![job[w].task] = s]
    BY <1>18 DEF MarkRetrying, WriteAndPersist
  <2> HIDE DEF j
  <2> QED
    BY <1>18, <1>c, <2>2, <2>3, <2>4, <2>5, HandlerKeepsAnswers DEF MarkRetrying
<1>19. ASSUME NEW w \in Workers, MarkFailed(w) PROVE Answered(t)'
  <2> DEFINE j == job[w]
  <2>1. job[w] \in Jobs /\ job[w].task \in Tasks
    BY <1>19, <1>a, BusyHoldsTask DEF MarkFailed
  <2>2. pc' = [pc EXCEPT ![w] = "ack"] /\ job' = [job EXCEPT ![w] = j]
    BY <1>19 DEF MarkFailed, WriteAndPersist, Goto, TypeOK
  <2>3. j.task = job[w].task
    BY <2>1 DEF Jobs
  <2>4. t = job[w].task =>
          \/ WillWrite("ack", j)
          \/ UNCHANGED manifest /\ ~WillWrite(pc[w], job[w])
    BY <1>19 DEF MarkFailed, WillWrite
  <2>5. \/ UNCHANGED manifest
        \/ \E s : manifest' = [manifest EXCEPT ![job[w].task] = s]
    BY <1>19 DEF MarkFailed, WriteAndPersist
  <2> HIDE DEF j
  <2> QED
    BY <1>19, <1>c, <2>2, <2>3, <2>4, <2>5, HandlerKeepsAnswers DEF MarkFailed
<1>20. ASSUME NEW w \in Workers, Republish(w) PROVE Answered(t)'
  <2>1. \A r \in 0..MaxRetries : ready[<<t, r>>] > 0 => ready'[<<t, r>>] > 0
    BY <1>20 DEF Republish, TypeOK, Messages
  <2>2. \A v \in Workers \ {w} : pc'[v] = pc[v] /\ job'[v] = job[v]
    BY <1>20 DEF Republish, Goto, TypeOK
  <2>3. Unsettled(t)
    BY <1>20 DEF Republish, Unsettled
  <2>4. ~WillWrite(pc[w], job[w])
    BY <1>20 DEF Republish, WillWrite
  <2> QED
    BY <1>c, <2>1, <2>2, <2>3, <2>4, KeepsAnswer
<1>21. ASSUME NEW w \in Workers, Ack(w) PROVE Answered(t)'
  <2>1. \A v \in Workers \ {w} : pc'[v] = pc[v] /\ job'[v] = job[v]
    BY <1>21 DEF Ack, Goto, TypeOK
  <2>2. Unsettled(t)
    BY <1>21 DEF Ack, Unsettled
  <2>3. ~WillWrite(pc[w], job[w])
    BY <1>21 DEF Ack, WillWrite
  <2> QED
    BY <1>21, <1>c, <2>1, <2>2, <2>3, KeepsAnswer DEF Ack
<1>22. ASSUME NEW w \in Workers, StoreFails(w) PROVE Answered(t)'
  BY <1>22, TaskRunAssumption DEF StoreFails, Undisturbed, TypeOK
<1>23. ASSUME NEW w \in Workers, Crash(w) PROVE Answered(t)'
  <2>1. job[w] \in Jobs /\ job[w].task \in Tasks /\ job[w].retries \in 0..MaxRetries
    BY <1>23, <1>a, BusyHoldsTask DEF Crash, Jobs
  <2>2. \A r \in 0..MaxRetries : ready[<<t, r>>] > 0 => ready'[<<t, r>>] > 0
    BY <1>23 DEF Crash, TypeOK, Messages
  <2>3. CASE t = job[w].task
    <3>1. ready'[<<t, job[w].retries>>] > 0
      BY <1>23, <2>1, <2>3 DEF Crash, TypeOK, Messages
    <3> QED
      BY <2>1, <3>1 DEF Answered
  <2>4. CASE t # job[w].task
    <3>1. \A v \in Workers \ {w} : pc'[v] = pc[v] /\ job'[v] = job[v]
      BY <1>23 DEF Crash, Goto, TypeOK
    <3>2. Unsettled(t)
      BY <1>23, <2>4 DEF Crash, Unsettled, TypeOK
    <3> QED
      BY <1>c, <2>2, <2>4, <3>1, <3>2, KeepsAnswer DEF Holds
  <2> QED
    BY <2>3, <2>4
<1>24. ASSUME NEW w \in Workers, LoseChild(w) PROVE Answered(t)'
  BY <1>24, TaskRunAssumption DEF LoseChild, Undisturbed, TypeOK
<1>25. CASE UNCHANGED vars
  BY <1>25, <1>c DEF vars, Unsettled, Answered, Holds
<1> QED
  BY <1>1, <1>2, <1>3, <1>4, <1>5, <1>6, <1>7, <1>8, <1>9, <1>10, <1>11, <1>12, <1>13, <1>14, <1>15, <1>16, <1>17, <1>18, <1>19, <1>20, <1>21, <1>22, <1>23, <1>24, <1>25
     DEF Next, WorkerStep, HandlerStep

(* As long as no store call fails and no child is lost, a dispatched task  *)
(* whose manifest says "created" or "running" is in the broker or held by  *)
(* a worker: through any interleaving of duplicate deliveries, crashes and *)
(* retries, no step leaves it to nobody.                                   *)
THEOREM NoTaskForgottenAlways == Spec => []NoTaskForgotten
<1>1. Init => AllAnswered
  BY DEF Init, AllAnswered, Unsettled
<1>2. TypeOK /\ AllAnswered /\ [Next]_vars => AllAnswered'
  BY AnsweredStep
<1> QED
  BY <1>1, <1>2, TypeCorrect, AnsweredImpliesSafety, PTL DEF Spec

-----------------------------------------------------------------------------
(* The promises of the ledger. *)

Calm == Undisturbed /\ crashes = 0

(* A worker that has retried, given up or finished only has to acknowledge. *)
Carries(w, t) == job[w].task = t /\ pc[w] \notin {"idle", "ack"}

NoneReady(t) == \A r \in 0..MaxRetries : ready[<<t, r>>] = 0
OnlyReady(t, r) == ready[<<t, r>>] = 1 /\ \A q \in 0..MaxRetries : q # r => ready[<<t, q>>] = 0
NoCarrier(t) == \A w \in Workers : ~Carries(w, t)
OnlyCarrier(t, w) == Carries(w, t) /\ \A v \in Workers : v # w => ~Carries(v, t)

(* A task that was not dispatched: status of its files and row.              *)
Fresh(request, file, status, retries) ==
  /\ \/ request = "new" /\ status = "none"
     \/ request = "saved" /\ status = "none" /\ file = "created"
     \/ request = "recorded" /\ status = "queued" /\ file = "created"
  /\ retries = 0

(* What a publication finds in the files, and the row before it commits.     *)
Published(j, file, status) ==
  /\ j.after \in {"started", "published", "finished", "closed", "failed", "reraise", "done"}
  /\ j.after \in {"started", "published"} => file = "running" /\ status = "running"
  /\ j.after = "finished" =>
       /\ file \in IF AtLast(j) /\ j.task \notin PlanTasks THEN Outcomes ELSE {"running"}
       /\ status = "running"
  /\ j.after = "closed" => file = "completed" /\ status = "running"
  /\ j.after = "failed" => file = "failed" /\ status = "running"
  /\ j.after = "reraise" => file = "failed" /\ status = "failed"
  /\ j.after = "done" => file \in Settled /\ status = MapStatus[file]

(* How far the only delivery of a task is.                                   *)
Stage(label, j, file, status, retries) ==
  /\ label \in {"mark", "load", "node", "handler", "export", "close", "persist", "commit", "except", "republish"}
  /\ file \in LegacyStatus
  /\ retries = IF label = "republish" THEN j.retries + 1 ELSE j.retries
  /\ label \in {"mark", "republish"} => status = "queued"
  /\ label \in {"load", "node", "handler", "export", "close"} => status = "running"
  /\ label \in {"persist", "commit"} => Published(j, file, status)
  /\ label = "export" => AtLast(j) /\ j.task \notin PlanTasks
  /\ label = "commit" => j.hand = file
  /\ label = "except" => status = "failed"

TaskCalm(t) ==
  \/ /\ NoneReady(t) /\ NoCarrier(t)
     /\ api[t] = "dispatched" \/ Fresh(api[t], manifest[t], row[t], retryCount[t])
  \/ /\ api[t] = "dispatched" /\ NoCarrier(t)
     /\ \E r \in 0..MaxRetries :
          OnlyReady(t, r) /\ row[t] = "queued" /\ retryCount[t] = r /\ manifest[t] \in LegacyStatus
  \/ /\ api[t] = "dispatched" /\ NoneReady(t)
     /\ \E w \in Workers :
          OnlyCarrier(t, w) /\ Stage(pc[w], job[w], manifest[t], row[t], retryCount[t])

CalmInv == Calm => \A t \in Tasks : TaskCalm(t)

-----------------------------------------------------------------------------
(* One delivery at a time. *)

Same(u) ==
  /\ api'[u] = api[u] /\ manifest'[u] = manifest[u]
  /\ row'[u] = row[u] /\ retryCount'[u] = retryCount[u]

SameTokens(u) ==
  /\ \A r \in 0..MaxRetries : ready'[<<u, r>>] = ready[<<u, r>>]
  /\ \A v \in Workers :
       /\ Carries(v, u)' <=> Carries(v, u)
       /\ Carries(v, u) => pc'[v] = pc[v] /\ job'[v] = job[v]

(* A task that no variable of its own changes stays calm.                    *)
LEMMA Unmoved ==
  ASSUME NEW u \in Tasks, TaskCalm(u), Same(u), SameTokens(u)
  PROVE  TaskCalm(u)'
<1>1. (NoneReady(u)' <=> NoneReady(u)) /\ (NoCarrier(u)' <=> NoCarrier(u))
  BY DEF SameTokens, NoneReady, NoCarrier
<1>2. \A r \in 0..MaxRetries : OnlyReady(u, r)' <=> OnlyReady(u, r)
  BY DEF SameTokens, OnlyReady
<1>3. ASSUME NEW w \in Workers, OnlyCarrier(u, w)
      PROVE  OnlyCarrier(u, w)' /\ pc'[w] = pc[w] /\ job'[w] = job[w]
  BY <1>3 DEF SameTokens, OnlyCarrier
<1>4. /\ api'[u] = api[u] /\ manifest'[u] = manifest[u]
      /\ row'[u] = row[u] /\ retryCount'[u] = retryCount[u]
  BY DEF Same
<1>5. CASE NoneReady(u) /\ NoCarrier(u) /\ (api[u] = "dispatched" \/ Fresh(api[u], manifest[u], row[u], retryCount[u]))
  BY <1>1, <1>4, <1>5, Zenon DEF TaskCalm
<1>6. CASE /\ api[u] = "dispatched" /\ NoCarrier(u)
           /\ \E r \in 0..MaxRetries :
                OnlyReady(u, r) /\ row[u] = "queued" /\ retryCount[u] = r /\ manifest[u] \in LegacyStatus
  BY <1>1, <1>2, <1>4, <1>6, Zenon DEF TaskCalm
<1>7. CASE /\ api[u] = "dispatched" /\ NoneReady(u)
           /\ \E w \in Workers :
                OnlyCarrier(u, w) /\ Stage(pc[w], job[w], manifest[u], row[u], retryCount[u])
  BY <1>1, <1>3, <1>4, <1>7, Zenon DEF TaskCalm
<1>8. QED
  BY <1>5, <1>6, <1>7 DEF TaskCalm

(* A step that changes one task keeps the others calm.                       *)
LEMMA OthersCalm ==
  ASSUME \A u \in Tasks : TaskCalm(u), NEW t \in Tasks,
         \A u \in Tasks \ {t} : Same(u) /\ SameTokens(u), TaskCalm(t)'
  PROVE  \A u \in Tasks : TaskCalm(u)'
<1>1. \A u \in Tasks \ {t} : TaskCalm(u)'
  BY Unmoved
<1>2. QED
  BY <1>1

(* The delivery a worker carries is the only one of its task.                *)
LEMMA CarrierStage ==
  ASSUME NEW t \in Tasks, TaskCalm(t), NEW w \in Workers, Carries(w, t)
  PROVE  /\ OnlyCarrier(t, w) /\ NoneReady(t) /\ api[t] = "dispatched"
         /\ Stage(pc[w], job[w], manifest[t], row[t], retryCount[t])
<1>1. ~NoCarrier(t)
  BY DEF NoCarrier
<1>2. PICK v \in Workers : OnlyCarrier(t, v) /\ Stage(pc[v], job[v], manifest[t], row[t], retryCount[t])
  BY <1>1 DEF TaskCalm
<1>3. v = w
  BY <1>2 DEF OnlyCarrier
<1>4. QED
  BY <1>1, <1>2, <1>3, Zenon DEF TaskCalm

(* A step of the handler: what it leaves of its task.                        *)
Writes(t, file, status, retries) ==
  /\ manifest' = [manifest EXCEPT ![t] = file]
  /\ row' = [row EXCEPT ![t] = status]
  /\ retryCount' = [retryCount EXCEPT ![t] = retries]

Moves(w, label, j) ==
  /\ pc' = [pc EXCEPT ![w] = label]
  /\ job' = [job EXCEPT ![w] = j]

(* A column that stays is a column written with what it says.                *)
LEMMA WritesNothing ==
  ASSUME TypeOK, NEW t \in Tasks
  PROVE  /\ UNCHANGED manifest => manifest' = [manifest EXCEPT ![t] = manifest[t]]
         /\ UNCHANGED row => row' = [row EXCEPT ![t] = row[t]]
         /\ UNCHANGED retryCount => retryCount' = [retryCount EXCEPT ![t] = retryCount[t]]
BY DEF TypeOK

(* A step of one worker changes its own task only.                           *)
LEMMA OthersSame ==
  ASSUME TypeOK, NEW t \in Tasks, NEW w \in Workers, NEW label, NEW j, Moves(w, label, j),
         NEW file, NEW status, NEW retries, Writes(t, file, status, retries),
         \/ pc[w] \in {"idle", "ack"}
         \/ job[w].task = t,
         label \in {"idle", "ack"} \/ j.task = t,
         UNCHANGED api,
         \A u \in Tasks \ {t} : \A r \in 0..MaxRetries : ready'[<<u, r>>] = ready[<<u, r>>]
  PROVE  \A u \in Tasks \ {t} : Same(u) /\ SameTokens(u)
<1>1. SUFFICES ASSUME NEW u \in Tasks \ {t} PROVE Same(u) /\ SameTokens(u)
  OBVIOUS
<1>2. Same(u)
  BY DEF Same, Writes, TypeOK
<1>3. ASSUME NEW v \in Workers \ {w}
      PROVE  pc'[v] = pc[v] /\ job'[v] = job[v]
  BY DEF Moves, TypeOK
<1>4. ~Carries(w, u) /\ ~Carries(w, u)'
  BY DEF Moves, TypeOK, Carries
<1>5. QED
  BY <1>2, <1>3, <1>4 DEF SameTokens, Carries

(* A step that puts the worker at a label its files fit keeps all tasks calm.*)
LEMMA WorkerGoesOn ==
  ASSUME TypeOK, \A u \in Tasks : TaskCalm(u), NEW w \in Workers, NEW t \in Tasks, Carries(w, t),
         NEW label, NEW j, Moves(w, label, j), j.task = t,
         NEW file, NEW status, NEW retries, Writes(t, file, status, retries),
         UNCHANGED <<api, ready>>,
         label = "ack" \/ Stage(label, j, file, status, retries)
  PROVE  \A u \in Tasks : TaskCalm(u)'
<1>1. OnlyCarrier(t, w) /\ NoneReady(t) /\ api[t] = "dispatched"
  BY CarrierStage
<1>2. \A u \in Tasks \ {t} : Same(u) /\ SameTokens(u)
  BY OthersSame DEF Carries
<1>3. NoneReady(t)' /\ api'[t] = "dispatched"
  BY <1>1 DEF NoneReady
<1>4. /\ pc'[w] = label /\ job'[w] = j
      /\ manifest'[t] = file /\ row'[t] = status /\ retryCount'[t] = retries
  BY DEF Moves, Writes, TypeOK
<1>5. \A v \in Workers \ {w} : ~Carries(v, t)'
  BY <1>1 DEF OnlyCarrier, Carries, Moves, TypeOK
<1>6. CASE label = "ack"
  <2>1. NoCarrier(t)'
    BY <1>4, <1>5, <1>6 DEF NoCarrier, Carries
  <2>2. TaskCalm(t)'
    BY <1>3, <2>1 DEF TaskCalm
  <2>3. QED
    BY <1>2, <2>2, OthersCalm
<1>7. CASE Stage(label, j, file, status, retries)
  <2>1. label \notin {"idle", "ack"}
    BY <1>7 DEF Stage
  <2>2. OnlyCarrier(t, w)'
    BY <1>4, <1>5, <2>1 DEF OnlyCarrier, Carries
  <2>3. Stage(pc[w], job[w], manifest[t], row[t], retryCount[t])'
    BY <1>4, <1>7, Zenon
  <2>4. TaskCalm(t)'
    BY <1>3, <2>2, <2>3, Zenon DEF TaskCalm
  <2>5. QED
    BY <1>2, <2>4, OthersCalm
<1>8. QED
  BY <1>6, <1>7

-----------------------------------------------------------------------------
(* The steps of the handler. *)

AllCalm == TypeOK /\ \A u \in Tasks : TaskCalm(u)

(* What is known of a worker that carries a task.                            *)
LEMMA Known ==
  ASSUME AllCalm, NEW w \in Workers, pc[w] \notin {"idle", "ack"}
  PROVE  /\ job[w] \in Jobs /\ job[w].task \in Tasks /\ Carries(w, job[w].task)
         /\ Stage(pc[w], job[w], manifest[job[w].task], row[job[w].task], retryCount[job[w].task])
         /\ LocalsOK(pc[w], job[w])
<1>1. WorkersOK
  BY DEF AllCalm, TypeOK, WorkersOK
<1>2. job[w] \in Jobs /\ job[w].task \in Tasks
  BY <1>1, BusyHoldsTask
<1>3. Carries(w, job[w].task)
  BY DEF Carries
<1>4. TaskCalm(job[w].task)
  BY <1>2 DEF AllCalm
<1>5. QED
  BY <1>1, <1>2, <1>3, <1>4, CarrierStage DEF WorkersOK

(* The locals with another continuation.                                     *)
With(j, after) == [j EXCEPT !.after = after, !.hand = "none"]

(* What With leaves alone.                                                   *)
LEMMA WithFields ==
  ASSUME NEW j \in Jobs, NEW after
  PROVE  /\ With(j, after).after = after /\ With(j, after).task = j.task
         /\ With(j, after).retries = j.retries /\ With(j, after).node = j.node
BY DEF With, Jobs

(* A status is written and its publication begins.                           *)
LEMMA WriteCalm ==
  ASSUME AllCalm, NEW w \in Workers, pc[w] \notin {"idle", "ack", "republish"},
         NEW file \in LegacyStatus, NEW after, WriteAndPersist(w, file, after),
         UNCHANGED <<api, row, retryCount, ready>>,
         Published(With(job[w], after), file, row[job[w].task])
  PROVE  \A u \in Tasks : TaskCalm(u)'
<1> DEFINE t == job[w].task
           j == With(job[w], after)
<1>1. /\ t \in Tasks /\ Carries(w, t) /\ job[w] \in Jobs /\ TypeOK /\ retryCount[t] = job[w].retries
      /\ \A u \in Tasks : TaskCalm(u)
  BY Known DEF Stage, AllCalm
<1>2. j.task = t /\ j.retries = job[w].retries
  BY <1>1, WithFields
<1>3. Moves(w, "persist", j)
  BY <1>1 DEF WriteAndPersist, Goto, Moves, With, TypeOK
<1>4. Writes(t, file, row[t], retryCount[t])
  BY <1>1, WritesNothing DEF WriteAndPersist, Writes
<1>5. Stage("persist", j, file, row[t], retryCount[t])
  <2> HIDE DEF j
  <2>1. QED
    BY <1>1, <1>2 DEF Stage, j
<1> HIDE DEF j
<1>6. QED
  BY <1>1, <1>2, <1>3, <1>4, <1>5, WorkerGoesOn

(* The row says running.                                                     *)
LEMMA MarkRunningCalm ==
  ASSUME AllCalm, NEW w \in Workers, MarkRunning(w)
  PROVE  \A u \in Tasks : TaskCalm(u)'
<1> DEFINE t == job[w].task
<1>1. /\ t \in Tasks /\ Carries(w, t) /\ TypeOK /\ pc[w] = "mark"
      /\ Stage("mark", job[w], manifest[t], row[t], retryCount[t])
      /\ \A u \in Tasks : TaskCalm(u)
  BY Known DEF MarkRunning, AllCalm
<1>2. Moves(w, "load", job[w])
  BY <1>1 DEF MarkRunning, Goto, Moves, TypeOK
<1>3. Writes(t, manifest[t], "running", retryCount[t])
  <2>1. row[t] = "queued"
    BY <1>1 DEF Stage
  <2>2. QED
    BY <1>1, <2>1, WritesNothing DEF MarkRunning, Writes
<1>4. Stage("load", job[w], manifest[t], "running", retryCount[t])
  BY <1>1 DEF Stage
<1>5. UNCHANGED <<api, ready>>
  BY DEF MarkRunning
<1>6. QED
  BY <1>1, <1>2, <1>3, <1>4, <1>5, WorkerGoesOn

(* The files of the task are read, or found missing.                         *)
LEMMA LoadCalm ==
  ASSUME AllCalm, NEW w \in Workers, Load(w)
  PROVE  \A u \in Tasks : TaskCalm(u)'
<1> DEFINE t == job[w].task
           j == [job[w] EXCEPT !.node = 1]
<1>1. /\ t \in Tasks /\ Carries(w, t) /\ job[w] \in Jobs /\ TypeOK /\ pc[w] = "load"
      /\ Stage("load", job[w], manifest[t], row[t], retryCount[t])
      /\ \A u \in Tasks : TaskCalm(u)
  BY Known DEF Load, AllCalm
<1>2. Readable(t)
  BY <1>1 DEF Stage, Readable
<1>3. Moves(w, "node", j)
  BY <1>1, <1>2 DEF Load, Goto, Moves, TypeOK
<1>4. j.task = t /\ j.retries = job[w].retries
  BY <1>1 DEF Jobs
<1>5. Writes(t, manifest[t], row[t], retryCount[t])
  BY <1>1, WritesNothing DEF Load, store, Writes
<1>6. Stage("node", j, manifest[t], row[t], retryCount[t])
  BY <1>1, <1>4 DEF Stage
<1>7. UNCHANGED <<api, ready>>
  BY DEF Load
<1> HIDE DEF j
<1>8. QED
  BY <1>1, <1>3, <1>4, <1>5, <1>6, <1>7, WorkerGoesOn

(* The start of a node and a partial result.                                 *)
LEMMA ProgressCalm ==
  ASSUME AllCalm, NEW w \in Workers, StartNode(w) \/ PublishShot(w)
  PROVE  \A u \in Tasks : TaskCalm(u)'
<1> DEFINE t == job[w].task
<1>1. /\ t \in Tasks /\ Carries(w, t) /\ job[w] \in Jobs /\ TypeOK
      /\ Stage(pc[w], job[w], manifest[t], row[t], retryCount[t])
      /\ pc[w] \in {"node", "handler"}
      /\ \A u \in Tasks : TaskCalm(u)
  BY Known DEF StartNode, PublishShot, AllCalm
<1>2. row[t] = "running" /\ retryCount[t] = job[w].retries
  BY <1>1 DEF Stage
<1>3. PICK j : /\ Moves(w, "persist", j) /\ j.task = t /\ j.retries = job[w].retries
               /\ j.after \in {"started", "published"}
  <2> DEFINE j1 == [job[w] EXCEPT !.after = "started", !.shot = 0]
             j2 == [job[w] EXCEPT !.after = "published", !.shot = job[w].shot + 1]
  <2>1. /\ j1.task = t /\ j1.retries = job[w].retries /\ j1.after = "started"
        /\ j2.task = t /\ j2.retries = job[w].retries /\ j2.after = "published"
    BY <1>1 DEF Jobs
  <2>2. Moves(w, "persist", j1) \/ Moves(w, "persist", j2)
    BY <1>1 DEF StartNode, PublishShot, Goto, Moves, TypeOK
  <2> HIDE DEF j1, j2
  <2>3. QED
    BY <2>1, <2>2
<1>4. Writes(t, "running", row[t], retryCount[t])
  BY <1>1, WritesNothing DEF StartNode, PublishShot, Writes
<1>5. Stage("persist", j, "running", row[t], retryCount[t])
  BY <1>2, <1>3 DEF Stage, Published, LegacyStatus
<1>6. UNCHANGED <<api, ready>>
  BY DEF StartNode, PublishShot
<1>7. QED
  BY <1>1, <1>3, <1>4, <1>5, <1>6, WorkerGoesOn

(* A node ends.                                                              *)
LEMMA FinishNodeCalm ==
  ASSUME AllCalm, NEW w \in Workers, FinishNode(w)
  PROVE  \A u \in Tasks : TaskCalm(u)'
<1>1. /\ job[w] \in Jobs /\ pc[w] = "handler" /\ row[job[w].task] = "running"
  BY Known DEF FinishNode, Stage
<1>2. ~AtLast(job[w]) \/ job[w].task \in PlanTasks
  BY DEF FinishNode
<1>3. AtLast(With(job[w], "finished")) <=> AtLast(job[w])
  BY <1>1, WithFields DEF AtLast
<1>4. Published(With(job[w], "finished"), "running", row[job[w].task])
  BY <1>1, <1>2, <1>3, WithFields DEF Published
<1>5. WriteAndPersist(w, "running", "finished") /\ UNCHANGED <<api, row, retryCount, ready>>
  BY DEF FinishNode
<1>6. "running" \in LegacyStatus
  BY DEF LegacyStatus
<1>7. QED
  BY <1>1, <1>4, <1>5, <1>6, WriteCalm

(* The outcome is written before the export.                                 *)
LEMMA ChooseOutcomeCalm ==
  ASSUME AllCalm, NEW w \in Workers, ChooseOutcome(w)
  PROVE  \A u \in Tasks : TaskCalm(u)'
<1> DEFINE t == job[w].task
<1>1. /\ t \in Tasks /\ Carries(w, t) /\ job[w] \in Jobs /\ TypeOK
      /\ Stage("handler", job[w], manifest[t], row[t], retryCount[t])
      /\ \A u \in Tasks : TaskCalm(u)
  BY Known DEF ChooseOutcome, AllCalm
<1>2. PICK outcome \in Outcomes :
        /\ manifest' = [manifest EXCEPT ![t] = outcome]
        /\ job' = [job EXCEPT ![w] = [@ EXCEPT !.hand = outcome]]
  BY DEF ChooseOutcome
<1> DEFINE j == [job[w] EXCEPT !.hand = outcome]
<1>3. /\ j.task = t /\ j.retries = job[w].retries /\ AtLast(j) /\ t \notin PlanTasks
  BY <1>1 DEF Jobs, AtLast, ChooseOutcome
<1>4. Moves(w, "export", j)
  BY <1>1, <1>2 DEF ChooseOutcome, Goto, Moves, TypeOK
<1>5. Writes(t, outcome, row[t], retryCount[t])
  BY <1>1, <1>2, WritesNothing DEF ChooseOutcome, Writes
<1>6. outcome \in LegacyStatus
  BY TaskRunAssumption DEF LegacyStatus, Settled
<1>7. Stage("export", j, outcome, row[t], retryCount[t])
  BY <1>1, <1>3, <1>6 DEF Stage
<1>8. UNCHANGED <<api, ready>>
  BY DEF ChooseOutcome
<1> HIDE DEF j
<1>9. QED
  BY <1>1, <1>3, <1>4, <1>5, <1>7, <1>8, WorkerGoesOn

(* The results are exported.                                                 *)
LEMMA ExportCalm ==
  ASSUME AllCalm, NEW w \in Workers, Export(w)
  PROVE  \A u \in Tasks : TaskCalm(u)'
<1>1. /\ job[w] \in Jobs /\ pc[w] = "export" /\ row[job[w].task] = "running" /\ job[w].hand \in Outcomes
      /\ AtLast(job[w]) /\ job[w].task \notin PlanTasks
  BY Known DEF Export, Stage, LocalsOK
<1>2. AtLast(With(job[w], "finished"))
  BY <1>1, WithFields DEF AtLast
<1>3. Published(With(job[w], "finished"), job[w].hand, row[job[w].task])
  BY <1>1, <1>2, WithFields DEF Published
<1>4. WriteAndPersist(w, job[w].hand, "finished") /\ UNCHANGED <<api, row, retryCount, ready>>
  BY DEF Export
<1>5. job[w].hand \in LegacyStatus
  BY <1>1, TaskRunAssumption DEF LegacyStatus, Settled
<1>6. QED
  BY <1>1, <1>3, <1>4, <1>5, WriteCalm

(* A node raises.                                                            *)
LEMMA FailNodeCalm ==
  ASSUME AllCalm, NEW w \in Workers, FailNode(w)
  PROVE  \A u \in Tasks : TaskCalm(u)'
<1>1. /\ job[w] \in Jobs /\ pc[w] \in {"handler", "export"} /\ row[job[w].task] = "running"
  BY Known DEF FailNode, Stage
<1>2. Published(With(job[w], "failed"), "failed", row[job[w].task])
  BY <1>1, WithFields DEF Published
<1>3. WriteAndPersist(w, "failed", "failed") /\ UNCHANGED <<api, row, retryCount, ready>>
  BY DEF FailNode
<1>4. "failed" \in LegacyStatus
  BY DEF LegacyStatus, Settled
<1>5. QED
  BY <1>1, <1>2, <1>3, <1>4, WriteCalm

(* A plan-only task is closed.                                               *)
LEMMA ClosePlanCalm ==
  ASSUME AllCalm, NEW w \in Workers, ClosePlan(w)
  PROVE  \A u \in Tasks : TaskCalm(u)'
<1>1. /\ job[w] \in Jobs /\ pc[w] = "close" /\ row[job[w].task] = "running"
  BY Known DEF ClosePlan, Stage
<1>2. Published(With(job[w], "closed"), "completed", row[job[w].task])
  BY <1>1, WithFields DEF Published
<1>3. WriteAndPersist(w, "completed", "closed") /\ UNCHANGED <<api, row, retryCount, ready>>
  BY DEF ClosePlan
<1>4. "completed" \in LegacyStatus
  BY DEF LegacyStatus, Settled
<1>5. QED
  BY <1>1, <1>2, <1>3, <1>4, WriteCalm

(* Undisturbed, no exception leaves a publication.                           *)
LEMMA RescueCalm ==
  ASSUME AllCalm, NEW w \in Workers, Rescue(w)
  PROVE  \A u \in Tasks : TaskCalm(u)'
BY Known DEF Rescue, Stage

(* A publication reads the status of the manifest.                           *)
LEMMA PersistReadCalm ==
  ASSUME AllCalm, NEW w \in Workers, PersistRead(w)
  PROVE  \A u \in Tasks : TaskCalm(u)'
<1> DEFINE t == job[w].task
           j == [job[w] EXCEPT !.hand = manifest[t]]
<1>1. /\ t \in Tasks /\ Carries(w, t) /\ job[w] \in Jobs /\ TypeOK /\ pc[w] = "persist"
      /\ Stage("persist", job[w], manifest[t], row[t], retryCount[t])
      /\ \A u \in Tasks : TaskCalm(u)
  BY Known DEF PersistRead, AllCalm
<1>2. Readable(t)
  BY <1>1 DEF Stage, Readable
<1>3. Moves(w, "commit", j)
  BY <1>1, <1>2 DEF PersistRead, Goto, Moves, TypeOK
<1>4. /\ j.task = t /\ j.retries = job[w].retries /\ j.after = job[w].after /\ j.node = job[w].node
      /\ j.hand = manifest[t]
  BY <1>1 DEF Jobs
<1>5. Writes(t, manifest[t], row[t], retryCount[t])
  BY <1>1, WritesNothing DEF PersistRead, store, Writes
<1> HIDE DEF j
<1>6. Published(j, manifest[t], row[t])
  BY <1>1, <1>4 DEF Stage, Published, AtLast
<1>7. Stage("commit", j, manifest[t], row[t], retryCount[t])
  BY <1>1, <1>4, <1>6 DEF Stage
<1>8. UNCHANGED <<api, ready>>
  BY DEF PersistRead
<1>9. QED
  BY <1>1, <1>3, <1>4, <1>5, <1>7, <1>8, WorkerGoesOn

(* What the transaction writes into the row, and where the handler goes.     *)
LEMMA CommitIs ==
  ASSUME AllCalm, NEW w \in Workers, PersistCommit(w)
  PROVE  /\ job[w].hand = manifest[job[w].task]
         /\ Published(job[w], manifest[job[w].task], row[job[w].task])
         /\ retryCount[job[w].task] = job[w].retries
         /\ row' = [row EXCEPT ![job[w].task] = MapStatus[manifest[job[w].task]]]
BY Known DEF PersistCommit, Stage

(* ... and commits it: a move of the ledger or none.                         *)
LEMMA PersistCommitCalm ==
  ASSUME AllCalm, NEW w \in Workers, PersistCommit(w)
  PROVE  \A u \in Tasks : TaskCalm(u)'
<1> DEFINE t == job[w].task
           file == manifest[t]
           status == MapStatus[file]
           Stepped == [job[w] EXCEPT !.after = "none", !.hand = "none", !.node = job[w].node + 1]
<1>1. /\ t \in Tasks /\ Carries(w, t) /\ job[w] \in Jobs /\ TypeOK
      /\ file \in LegacyStatus /\ retryCount[t] = job[w].retries
      /\ Published(job[w], file, row[t])
      /\ \A u \in Tasks : TaskCalm(u)
  BY Known, CommitIs DEF PersistCommit, AllCalm, Stage
<1>2. Writes(t, file, status, retryCount[t])
  BY <1>1, CommitIs, WritesNothing DEF PersistCommit, Writes
<1>3. UNCHANGED <<api, ready>>
  BY DEF PersistCommit
<1>4. Stepped.task = t /\ Stepped.retries = job[w].retries
  BY <1>1 DEF Jobs
<1>5. \/ job[w].after \in {"started", "published"} /\ Moves(w, "handler", With(job[w], "none"))
      \/ job[w].after = "finished" /\ ~AtLast(job[w]) /\ Moves(w, "node", Stepped)
      \/ job[w].after = "finished" /\ job[w].task \in PlanTasks /\ Moves(w, "close", With(job[w], "none"))
      \/ job[w].after = "finished" /\ AtLast(job[w]) /\ job[w].task \notin PlanTasks
            /\ Moves(w, "persist", With(job[w], "done"))
      \/ job[w].after = "closed" /\ Moves(w, "persist", With(job[w], "done"))
      \/ job[w].after = "failed" /\ Moves(w, "persist", With(job[w], "reraise"))
      \/ job[w].after = "reraise" /\ Moves(w, "except", With(job[w], "none"))
      \/ job[w].after = "done" /\ Moves(w, "ack", With(job[w], "none"))
  BY <1>1 DEF PersistCommit, Resume, Goto, Moves, With, TypeOK
<1> HIDE DEF Stepped
<1>6. PICK label, j : /\ Moves(w, label, j) /\ j.task = t
                      /\ label = "ack" \/ Stage(label, j, file, status, retryCount[t])
  <2>1. CASE job[w].after \in {"started", "published"} /\ Moves(w, "handler", With(job[w], "none"))
    <3>1. Stage("handler", With(job[w], "none"), file, status, retryCount[t])
      BY <1>1, <2>1, WithFields DEF Stage, Published, MapStatus
    <3>2. QED
      BY <1>1, <2>1, <3>1, WithFields
  <2>2. CASE job[w].after = "finished" /\ ~AtLast(job[w]) /\ Moves(w, "node", Stepped)
    <3>1. Stage("node", Stepped, file, status, retryCount[t])
      BY <1>1, <1>4, <2>2 DEF Stage, Published, MapStatus
    <3>2. QED
      BY <1>4, <2>2, <3>1
  <2>3. CASE job[w].after = "finished" /\ job[w].task \in PlanTasks /\ Moves(w, "close", With(job[w], "none"))
    <3>1. Stage("close", With(job[w], "none"), file, status, retryCount[t])
      BY <1>1, <2>3, WithFields DEF Stage, Published, MapStatus
    <3>2. QED
      BY <1>1, <2>3, <3>1, WithFields
  <2>4. CASE /\ Moves(w, "persist", With(job[w], "done"))
             /\ \/ job[w].after = "closed"
                \/ job[w].after = "finished" /\ AtLast(job[w]) /\ job[w].task \notin PlanTasks
    <3>1. file \in Settled
      BY <1>1, <2>4, TaskRunAssumption DEF Published, Settled
    <3>2. Published(With(job[w], "done"), file, status)
      BY <1>1, <3>1, WithFields DEF Published
    <3>3. Stage("persist", With(job[w], "done"), file, status, retryCount[t])
      BY <1>1, <3>2, WithFields DEF Stage
    <3>4. QED
      BY <1>1, <2>4, <3>3, WithFields
  <2>5. CASE job[w].after = "failed" /\ Moves(w, "persist", With(job[w], "reraise"))
    <3>1. Published(With(job[w], "reraise"), file, status)
      BY <1>1, <2>5, WithFields DEF Published, MapStatus
    <3>2. Stage("persist", With(job[w], "reraise"), file, status, retryCount[t])
      BY <1>1, <3>1, WithFields DEF Stage
    <3>3. QED
      BY <1>1, <2>5, <3>2, WithFields
  <2>6. CASE job[w].after = "reraise" /\ Moves(w, "except", With(job[w], "none"))
    <3>1. Stage("except", With(job[w], "none"), file, status, retryCount[t])
      BY <1>1, <2>6, WithFields DEF Stage, Published, MapStatus
    <3>2. QED
      BY <1>1, <2>6, <3>1, WithFields
  <2>7. CASE job[w].after = "done" /\ Moves(w, "ack", With(job[w], "none"))
    BY <1>1, <2>7, WithFields
  <2>8. QED
    BY <1>5, <2>1, <2>2, <2>3, <2>4, <2>5, <2>6, <2>7
<1>7. QED
  BY <1>1, <1>2, <1>3, <1>6, WorkerGoesOn

(* A failed row is queued again, once per retry.                             *)
LEMMA MarkRetryingCalm ==
  ASSUME AllCalm, NEW w \in Workers, MarkRetrying(w)
  PROVE  /\ \A u \in Tasks : TaskCalm(u)'
         /\ LET t == job[w].task IN
              /\ t \in Tasks /\ row[t] = "failed" /\ retryCount[t] < MaxRetries /\ retryCount[t] \in Nat
              /\ row' = [row EXCEPT ![t] = "queued"]
              /\ retryCount' = [retryCount EXCEPT ![t] = retryCount[t] + 1]
<1> DEFINE t == job[w].task
<1>1. /\ t \in Tasks /\ Carries(w, t) /\ job[w] \in Jobs /\ TypeOK /\ pc[w] = "except"
      /\ Stage("except", job[w], manifest[t], row[t], retryCount[t])
      /\ \A u \in Tasks : TaskCalm(u)
  BY Known DEF MarkRetrying, AllCalm
<1>2. row[t] = "failed" /\ retryCount[t] = job[w].retries /\ job[w].retries < MaxRetries
  BY <1>1 DEF Stage, MarkRetrying
<1>3. Moves(w, "republish", job[w])
  BY <1>1 DEF MarkRetrying, Goto, Moves, TypeOK
<1>4. Writes(t, manifest[t], "queued", job[w].retries + 1)
  BY <1>1, <1>2, WritesNothing DEF MarkRetrying, Writes
<1>5. Stage("republish", job[w], manifest[t], "queued", job[w].retries + 1)
  BY <1>1 DEF Stage
<1>6. UNCHANGED <<api, ready>>
  BY DEF MarkRetrying
<1>7. \A u \in Tasks : TaskCalm(u)'
  BY <1>1, <1>3, <1>4, <1>5, <1>6, WorkerGoesOn
<1>8. retryCount[t] \in Nat
  BY <1>1, TaskRunAssumption DEF TypeOK
<1>9. QED
  BY <1>1, <1>2, <1>4, <1>7, <1>8 DEF Writes

(* A row that failed for good is left as it is.                              *)
LEMMA MarkFailedCalm ==
  ASSUME AllCalm, NEW w \in Workers, MarkFailed(w)
  PROVE  (\A u \in Tasks : TaskCalm(u)') /\ UNCHANGED <<row, retryCount>>
<1> DEFINE t == job[w].task
<1>1. /\ t \in Tasks /\ Carries(w, t) /\ job[w] \in Jobs /\ TypeOK /\ pc[w] = "except"
      /\ Stage("except", job[w], manifest[t], row[t], retryCount[t])
      /\ \A u \in Tasks : TaskCalm(u)
  BY Known DEF MarkFailed, AllCalm
<1>2. row[t] = "failed" /\ retryCount[t] = job[w].retries
  BY <1>1 DEF Stage
<1>3. UNCHANGED <<row, retryCount>>
  BY <1>1, <1>2 DEF MarkFailed, TypeOK
<1>4. Moves(w, "ack", job[w])
  BY <1>1 DEF MarkFailed, Goto, Moves, TypeOK
<1>5. Writes(t, manifest[t], row[t], retryCount[t])
  BY <1>1, <1>3, WritesNothing DEF MarkFailed, Writes
<1>6. UNCHANGED <<api, ready>>
  BY DEF MarkFailed
<1>7. QED
  BY <1>1, <1>3, <1>4, <1>5, <1>6, WorkerGoesOn

(* The next delivery is in the broker before this one is acknowledged.       *)
LEMMA RepublishCalm ==
  ASSUME AllCalm, NEW w \in Workers, Republish(w)
  PROVE  \A u \in Tasks : TaskCalm(u)'
<1>01. PICK t \in Tasks : t = job[w].task
  BY Known DEF Republish
<1>02. PICK r \in 0..MaxRetries : r = job[w].retries + 1
  BY Known, TaskRunAssumption DEF Republish, LocalsOK, Jobs
<1>1. /\ t = job[w].task /\ r = job[w].retries + 1
      /\ t \in Tasks /\ Carries(w, t) /\ job[w] \in Jobs /\ TypeOK /\ pc[w] = "republish"
      /\ Stage("republish", job[w], manifest[t], row[t], retryCount[t])
      /\ LocalsOK("republish", job[w])
      /\ \A u \in Tasks : TaskCalm(u)
  BY <1>01, <1>02, Known DEF Republish, AllCalm
<1>2. OnlyCarrier(t, w) /\ NoneReady(t) /\ api[t] = "dispatched"
  BY <1>1, CarrierStage
<1>3. r \in 0..MaxRetries /\ retryCount[t] = r /\ row[t] = "queued" /\ manifest[t] \in LegacyStatus
  BY <1>1, TaskRunAssumption DEF Stage, LocalsOK, Jobs
<1>4. Moves(w, "ack", job[w]) /\ UNCHANGED <<api, manifest, row, retryCount>>
  BY <1>1 DEF Republish, Goto, Moves, TypeOK, store
<1>5. Writes(t, manifest[t], row[t], retryCount[t])
  BY <1>1, <1>4, WritesNothing DEF Writes
<1>6. ready' = [ready EXCEPT ![<<t, r>>] = @ + 1] /\ ready \in [Messages -> Nat] /\ <<t, r>> \in Messages
  BY <1>1, <1>3 DEF Republish, TypeOK, Messages
<1>7. \A u \in Tasks \ {t} : \A q \in 0..MaxRetries : ready'[<<u, q>>] = ready[<<u, q>>]
  BY <1>6 DEF Messages
<1>8. \A u \in Tasks \ {t} : Same(u) /\ SameTokens(u)
  BY <1>1, <1>4, <1>5, <1>7, OthersSame
<1>9. OnlyReady(t, r)'
  <2>1. ready[<<t, r>>] = 0 /\ \A q \in 0..MaxRetries : ready[<<t, q>>] = 0
    BY <1>2, <1>3 DEF NoneReady
  <2>2. ready'[<<t, r>>] = 1
    BY <1>6, <2>1
  <2>3. \A q \in 0..MaxRetries : q # r => ready'[<<t, q>>] = 0
    BY <1>6, <2>1 DEF Messages
  <2>4. QED
    BY <2>2, <2>3 DEF OnlyReady
<1>10. NoCarrier(t)'
  BY <1>1, <1>2, <1>4 DEF NoCarrier, OnlyCarrier, Carries, Moves, TypeOK
<1>11. TaskCalm(t)'
  <2>1. api'[t] = "dispatched" /\ row'[t] = "queued" /\ retryCount'[t] = r /\ manifest'[t] \in LegacyStatus
    BY <1>2, <1>3, <1>4
  <2>2. QED
    BY <1>3, <1>9, <1>10, <2>1, Zenon DEF TaskCalm
<1>12. QED
  BY <1>1, <1>8, <1>11, OthersCalm

(* The message is acknowledged and the worker is free.                       *)
LEMMA AckCalm ==
  ASSUME AllCalm, NEW w \in Workers, Ack(w)
  PROVE  \A u \in Tasks : TaskCalm(u)'
<1>1. ASSUME NEW u \in Tasks
      PROVE  Same(u) /\ SameTokens(u)
  <2>1. UNCHANGED <<api, manifest, row, retryCount, ready>>
    BY DEF Ack, store
  <2>2. ~Carries(w, u) /\ ~Carries(w, u)'
    BY DEF Ack, Goto, Carries, AllCalm, TypeOK
  <2>3. \A v \in Workers \ {w} : pc'[v] = pc[v] /\ job'[v] = job[v]
    BY DEF Ack, Goto, AllCalm, TypeOK
  <2>4. QED
    BY <2>1, <2>2, <2>3 DEF Same, SameTokens, Carries
<1>2. QED
  BY <1>1, Unmoved DEF AllCalm

(* The one waiting delivery is taken.                                        *)
LEMMA ReceiveCalm ==
  ASSUME AllCalm, NEW w \in Workers, NEW m \in Messages, Receive(w, m)
  PROVE  \A u \in Tasks : TaskCalm(u)'
<1> DEFINE t == m[1]
           r == m[2]
           j == [NoJob EXCEPT !.task = t, !.retries = r]
<1>1. /\ t \in Tasks /\ r \in 0..MaxRetries /\ m = <<t, r>> /\ TypeOK /\ TaskCalm(t)
      /\ \A u \in Tasks : TaskCalm(u)
  BY DEF Messages, AllCalm
<1>2. ready[<<t, r>>] > 0 /\ pc[w] = "idle"
  BY <1>1 DEF Receive
<1>3. ~NoneReady(t)
  BY <1>1, <1>2 DEF NoneReady
<1>4. /\ api[t] = "dispatched" /\ NoCarrier(t) /\ OnlyReady(t, r)
      /\ row[t] = "queued" /\ retryCount[t] = r /\ manifest[t] \in LegacyStatus
  <2>1. PICK q \in 0..MaxRetries :
          /\ OnlyReady(t, q) /\ row[t] = "queued" /\ retryCount[t] = q /\ manifest[t] \in LegacyStatus
          /\ api[t] = "dispatched" /\ NoCarrier(t)
    BY <1>1, <1>3, Zenon DEF TaskCalm
  <2>2. q = r
    BY <1>1, <1>2, <2>1 DEF OnlyReady
  <2>3. QED
    BY <2>1, <2>2
<1>5. Moves(w, "mark", j) /\ UNCHANGED <<api, manifest, row, retryCount>>
  BY <1>1 DEF Receive, Goto, Moves, TypeOK, store
<1>6. Writes(t, manifest[t], row[t], retryCount[t])
  BY <1>1, <1>5, WritesNothing DEF Writes
<1>7. ready' = [ready EXCEPT ![<<t, r>>] = @ - 1] /\ ready \in [Messages -> Nat] /\ <<t, r>> \in Messages
  BY <1>1 DEF Receive, TypeOK
<1>8. j.task = t /\ j.retries = r
  BY DEF NoJob
<1> HIDE DEF j
<1>9. \A u \in Tasks \ {t} : \A q \in 0..MaxRetries : ready'[<<u, q>>] = ready[<<u, q>>]
  BY <1>7 DEF Messages
<1>10. \A u \in Tasks \ {t} : Same(u) /\ SameTokens(u)
  BY <1>1, <1>2, <1>5, <1>6, <1>8, <1>9, OthersSame
<1>11. NoneReady(t)'
  <2>1. ready[<<t, r>>] = 1 /\ \A q \in 0..MaxRetries : q # r => ready[<<t, q>>] = 0
    BY <1>4 DEF OnlyReady
  <2>2. ready'[<<t, r>>] = 0
    BY <1>7, <2>1
  <2>3. \A q \in 0..MaxRetries : q # r => ready'[<<t, q>>] = 0
    BY <1>7, <2>1 DEF Messages
  <2>4. QED
    BY <2>2, <2>3 DEF NoneReady
<1>12. pc'[w] = "mark" /\ job'[w] = j
  BY <1>1, <1>5 DEF Moves, TypeOK
<1>13. OnlyCarrier(t, w)'
  <2>1. \A v \in Workers \ {w} : ~Carries(v, t)'
    BY <1>1, <1>4, <1>5 DEF NoCarrier, Carries, Moves, TypeOK
  <2>2. QED
    BY <1>8, <1>12, <2>1 DEF OnlyCarrier, Carries
<1>14. Stage("mark", j, manifest[t], row[t], retryCount[t])
  BY <1>4, <1>8 DEF Stage
<1>15. TaskCalm(t)'
  <2>1. api'[t] = "dispatched" /\ Stage(pc[w], job[w], manifest[t], row[t], retryCount[t])'
    BY <1>4, <1>5, <1>12, <1>14, Zenon
  <2>2. QED
    BY <1>11, <1>13, <2>1, Zenon DEF TaskCalm
<1>16. QED
  BY <1>1, <1>10, <1>15, OthersCalm

(* The request writes before there is a delivery.                            *)
LEMMA NotDispatched ==
  ASSUME AllCalm, NEW t \in Tasks, api[t] # "dispatched"
  PROVE  NoneReady(t) /\ NoCarrier(t) /\ Fresh(api[t], manifest[t], row[t], retryCount[t])
BY DEF AllCalm, TaskCalm

(* A request changes its own task only.                                      *)
LEMMA RequestOthers ==
  ASSUME AllCalm, NEW t \in Tasks, NEW request, NEW file, NEW status, api' = [api EXCEPT ![t] = request],
         Writes(t, file, status, retryCount[t]), UNCHANGED <<pc, job>>,
         \A u \in Tasks \ {t} : \A r \in 0..MaxRetries : ready'[<<u, r>>] = ready[<<u, r>>]
  PROVE  /\ \A u \in Tasks \ {t} : Same(u) /\ SameTokens(u)
         /\ NoCarrier(t) => NoCarrier(t)'
         /\ api'[t] = request /\ manifest'[t] = file /\ row'[t] = status /\ retryCount'[t] = retryCount[t]
BY DEF AllCalm, TypeOK, Writes, Same, SameTokens, Carries, NoCarrier

(* A request writes the files and the row.                                   *)
LEMMA RequestCalm ==
  ASSUME AllCalm, NEW t \in Tasks, SaveInputs(t) \/ CreateRecord(t)
  PROVE  \A u \in Tasks : TaskCalm(u)'
<1>1. NoneReady(t) /\ NoCarrier(t) /\ Fresh(api[t], manifest[t], row[t], retryCount[t])
  BY NotDispatched DEF SaveInputs, CreateRecord
<1>2. PICK request, file, status :
        /\ api' = [api EXCEPT ![t] = request] /\ Writes(t, file, status, retryCount[t])
        /\ Fresh(request, file, status, retryCount[t])
  <2>1. CASE SaveInputs(t)
    <3>1. Fresh("saved", "created", row[t], retryCount[t])
      BY <1>1, <2>1 DEF SaveInputs, Fresh
    <3>2. Writes(t, "created", row[t], retryCount[t])
      BY <2>1, WritesNothing DEF SaveInputs, Writes, AllCalm
    <3>3. QED
      BY <2>1, <3>1, <3>2 DEF SaveInputs
  <2>2. CASE CreateRecord(t)
    <3>1. Fresh("recorded", manifest[t], "queued", retryCount[t])
      BY <1>1, <2>2 DEF CreateRecord, Fresh
    <3>2. Writes(t, manifest[t], "queued", retryCount[t])
      BY <2>2, WritesNothing DEF CreateRecord, Writes, AllCalm
    <3>3. QED
      BY <2>2, <3>1, <3>2 DEF CreateRecord
  <2>3. QED
    BY <2>1, <2>2
<1>3. UNCHANGED <<ready, pc, job>>
  BY DEF SaveInputs, CreateRecord
<1>4. /\ \A u \in Tasks \ {t} : Same(u) /\ SameTokens(u)
      /\ NoCarrier(t)'
      /\ api'[t] = request /\ manifest'[t] = file /\ row'[t] = status /\ retryCount'[t] = retryCount[t]
  BY <1>1, <1>2, <1>3, RequestOthers
<1>5. NoneReady(t)'
  BY <1>1, <1>3 DEF NoneReady
<1>6. Fresh(api[t], manifest[t], row[t], retryCount[t])'
  BY <1>2, <1>4, Zenon
<1>7. TaskCalm(t)'
  BY <1>4, <1>5, <1>6, Zenon DEF TaskCalm
<1>8. QED
  BY <1>4, <1>7, OthersCalm DEF AllCalm

(* ... and puts the message into the broker.                                 *)
LEMMA DispatchCalm ==
  ASSUME AllCalm, NEW t \in Tasks, Dispatch(t)
  PROVE  \A u \in Tasks : TaskCalm(u)'
<1>1. NoneReady(t) /\ NoCarrier(t) /\ Fresh(api[t], manifest[t], row[t], retryCount[t])
  BY NotDispatched DEF Dispatch
<1>2. row[t] = "queued" /\ manifest[t] = "created" /\ retryCount[t] = 0
  BY <1>1 DEF Dispatch, Fresh
<1>3. UNCHANGED <<manifest, row, retryCount, pc, job>> /\ api' = [api EXCEPT ![t] = "dispatched"]
  BY DEF Dispatch, store
<1>4. Writes(t, manifest[t], row[t], retryCount[t])
  BY <1>3, WritesNothing DEF Writes, AllCalm
<1>5. ready' = [ready EXCEPT ![<<t, 0>>] = @ + 1] /\ ready \in [Messages -> Nat] /\ <<t, 0>> \in Messages
  BY TaskRunAssumption DEF Dispatch, AllCalm, TypeOK, Messages
<1>6. \A u \in Tasks \ {t} : \A r \in 0..MaxRetries : ready'[<<u, r>>] = ready[<<u, r>>]
  BY <1>5 DEF Messages
<1>7. /\ \A u \in Tasks \ {t} : Same(u) /\ SameTokens(u)
      /\ NoCarrier(t)'
      /\ api'[t] = "dispatched" /\ manifest'[t] = manifest[t] /\ row'[t] = row[t] /\ retryCount'[t] = retryCount[t]
  BY <1>1, <1>3, <1>4, <1>6, RequestOthers
<1>8. OnlyReady(t, 0)'
  <2>1. \A q \in 0..MaxRetries : ready[<<t, q>>] = 0
    BY <1>1 DEF NoneReady
  <2>2. ready'[<<t, 0>>] = 1
    BY <1>5, <2>1, TaskRunAssumption
  <2>3. \A q \in 0..MaxRetries : q # 0 => ready'[<<t, q>>] = 0
    BY <1>5, <2>1 DEF Messages
  <2>4. QED
    BY <2>2, <2>3 DEF OnlyReady
<1>9. TaskCalm(t)'
  <2>1. row'[t] = "queued" /\ retryCount'[t] = 0 /\ manifest'[t] \in LegacyStatus /\ 0 \in 0..MaxRetries
    BY <1>2, <1>7, TaskRunAssumption DEF LegacyStatus
  <2>2. QED
    BY <1>7, <1>8, <2>1, Zenon DEF TaskCalm
<1>10. QED
  BY <1>7, <1>9, OthersCalm DEF AllCalm

(* What disturbs stays counted.                                              *)
LEMMA CalmBack ==
  ASSUME TypeOK, [Next]_vars, Calm'
  PROVE  /\ Calm
         /\ \/ UNCHANGED vars
            \/ \E t \in Tasks : SaveInputs(t) \/ CreateRecord(t) \/ Dispatch(t)
            \/ \E w \in Workers : WorkerStep(w)
<1>1. faults \in Nat /\ losses \in Nat /\ crashes \in Nat
  BY TaskRunAssumption DEF TypeOK
<1>2. faults' = 0 /\ losses' = 0 /\ crashes' = 0
  BY DEF Calm, Undisturbed
<1>3. ~\E t \in Tasks : RequestFails(t)
  BY <1>1, <1>2 DEF RequestFails
<1>4. ~\E w \in Workers : StoreFails(w) \/ Crash(w) \/ LoseChild(w)
  <2>1. ASSUME NEW w \in Workers, StoreFails(w) PROVE FALSE
    BY <1>1, <1>2, <2>1 DEF StoreFails
  <2>2. ASSUME NEW w \in Workers, Crash(w) PROVE FALSE
    BY <1>1, <1>2, <2>2 DEF Crash
  <2>3. ASSUME NEW w \in Workers, LoseChild(w) PROVE FALSE
    BY <1>1, <1>2, <2>3 DEF LoseChild
  <2>4. QED
    BY <2>1, <2>2, <2>3
<1>5. \/ UNCHANGED vars
      \/ \E t \in Tasks : SaveInputs(t) \/ CreateRecord(t) \/ Dispatch(t)
      \/ \E w \in Workers : WorkerStep(w)
  BY <1>3, <1>4, Zenon DEF Next
<1>6. UNCHANGED counters
  <2>1. CASE UNCHANGED vars
    BY <2>1 DEF vars
  <2>2. CASE \E t \in Tasks : SaveInputs(t) \/ CreateRecord(t) \/ Dispatch(t)
    BY <2>2, Zenon DEF SaveInputs, CreateRecord, Dispatch
  <2>3. CASE \E w \in Workers : WorkerStep(w)
    BY <2>3, Zenon DEF WorkerStep, HandlerStep, Receive, MarkRunning, Load, StartNode, PublishShot, FinishNode,
       ChooseOutcome, Export, FailNode, ClosePlan, Rescue, PersistRead, PersistCommit, MarkRetrying,
       MarkFailed, Republish, Ack
  <2>4. QED
    BY <1>5, <2>1, <2>2, <2>3
<1>7. Calm
  BY <1>2, <1>6 DEF Calm, Undisturbed, counters
<1>8. QED
  BY <1>5, <1>7

(* Every step keeps the invariant.                                           *)
LEMMA CalmStep ==
  ASSUME TypeOK, CalmInv, [Next]_vars
  PROVE  CalmInv'
<1>1. SUFFICES ASSUME Calm' PROVE \A t \in Tasks : TaskCalm(t)'
  BY DEF CalmInv
<1>2. AllCalm
  BY <1>1, CalmBack DEF CalmInv, AllCalm
<1>3. CASE UNCHANGED vars
  <2>1. \A u \in Tasks : Same(u) /\ SameTokens(u)
    BY <1>3 DEF vars, store, Same, SameTokens, Carries
  <2>2. QED
    BY <1>2, <2>1, Unmoved DEF AllCalm
<1>4. CASE \E t \in Tasks : SaveInputs(t) \/ CreateRecord(t) \/ Dispatch(t)
  BY <1>2, <1>4, RequestCalm, DispatchCalm, Zenon
<1>5. CASE \E w \in Workers : WorkerStep(w)
  BY <1>2, <1>5, ReceiveCalm, MarkRunningCalm, LoadCalm, ProgressCalm, FinishNodeCalm, ChooseOutcomeCalm,
     ExportCalm, FailNodeCalm, ClosePlanCalm, RescueCalm, PersistReadCalm, PersistCommitCalm,
     MarkRetryingCalm, MarkFailedCalm, RepublishCalm, AckCalm, Zenon DEF WorkerStep, HandlerStep
<1>6. QED
  BY <1>1, <1>3, <1>4, <1>5, CalmBack, Zenon

(* Initially nothing was asked for.                                          *)
LEMMA InitCalm ==
  ASSUME Init
  PROVE  CalmInv
<1>1. ASSUME NEW t \in Tasks
      PROVE  TaskCalm(t)
  <2>1. api[t] = "new" /\ row[t] = "none" /\ retryCount[t] = 0
    BY DEF Init
  <2>2. Fresh(api[t], manifest[t], row[t], retryCount[t])
    BY <2>1 DEF Fresh
  <2>3. NoneReady(t)
    BY DEF Init, NoneReady, Messages
  <2>4. NoCarrier(t)
    BY DEF Init, NoCarrier, Carries
  <2>5. QED
    BY <2>2, <2>3, <2>4 DEF TaskCalm
<1>2. QED
  BY <1>1 DEF CalmInv

-----------------------------------------------------------------------------
(* The ledger. *)

(* One transaction that changes the row is one move of the ledger.           *)
LEMMA CommitMoves ==
  ASSUME AllCalm, NEW w \in Workers, PersistCommit(w)
  PROVE  [Ledger!LedgerNext]_<<row, retryCount>>
<1>1. PICK t \in Tasks : t = job[w].task
  BY Known DEF PersistCommit
<1>2. PICK status : status = MapStatus[manifest[t]]
  OBVIOUS
<1>3. row' = [row EXCEPT ![t] = status] /\ UNCHANGED retryCount
  BY <1>1, <1>2, CommitIs DEF PersistCommit
<1>4. Published(job[w], manifest[t], row[t])
  BY <1>1, CommitIs
<1>5. row[t] = status \/ (row[t] = "running" /\ status \in {"succeeded", "partial_failed", "failed"})
  <2>1. CASE job[w].after \in {"started", "published", "failed", "reraise", "done", "closed"}
    BY <1>2, <1>4, <2>1 DEF Published, MapStatus
  <2>2. CASE job[w].after = "finished"
    <3>1. row[t] = "running" /\ manifest[t] \in {"running", "completed", "review_required", "failed"}
      BY <1>4, <2>2, TaskRunAssumption DEF Published
    <3>2. QED
      BY <1>2, <3>1 DEF MapStatus
  <2>3. QED
    BY <1>4, <2>1, <2>2 DEF Published
<1>6. CASE row[t] = status
  <2>1. row' = row
    BY <1>3, <1>6 DEF AllCalm, TypeOK
  <2>2. QED
    BY <1>3, <2>1
<1>7. CASE row[t] = "running" /\ status \in {"succeeded", "partial_failed", "failed"}
  BY <1>3, <1>7 DEF Ledger!LedgerNext, Ledger!Conclude, Ledger!Move, Ledger!Ends
<1>8. QED
  BY <1>5, <1>6, <1>7

(* Only four steps of a calm system write the row: the record is created,    *)
(* the handler marks the row running, a publication commits, a retry is      *)
(* recorded.  What disturbs does not write it.                               *)
LEMMA LedgerStep ==
  ASSUME AllCalm, [Next]_vars
  PROVE  [Ledger!LedgerNext]_<<row, retryCount>>
<1>1. CASE UNCHANGED vars
  BY <1>1 DEF vars, store
<1>2. ASSUME NEW t \in Tasks, SaveInputs(t) \/ Dispatch(t) \/ RequestFails(t)
      PROVE  UNCHANGED <<row, retryCount>>
  BY <1>2 DEF SaveInputs, Dispatch, RequestFails, store
<1>3. ASSUME NEW t \in Tasks, CreateRecord(t)
      PROVE  Ledger!LedgerNext
  <2>1. row[t] = "none"
    BY <1>3, NotDispatched DEF CreateRecord, Fresh
  <2>2. QED
    BY <1>3, <2>1 DEF CreateRecord, Ledger!LedgerNext, Ledger!Enqueue, Ledger!Move
<1>4. ASSUME NEW w \in Workers, MarkRunning(w)
      PROVE  Ledger!LedgerNext
  <2>1. PICK t \in Tasks : t = job[w].task /\ row[t] = "queued"
    BY <1>4, Known DEF MarkRunning, Stage
  <2>2. row' = [row EXCEPT ![t] = "running"] /\ UNCHANGED retryCount
    BY <1>4, <2>1 DEF MarkRunning
  <2>3. QED
    BY <2>1, <2>2 DEF Ledger!LedgerNext, Ledger!Start, Ledger!Move
<1>5. ASSUME NEW w \in Workers, MarkRetrying(w)
      PROVE  Ledger!LedgerNext
  <2>1. PICK t \in Tasks :
          /\ row[t] = "failed" /\ retryCount[t] < MaxRetries
          /\ row' = [row EXCEPT ![t] = "queued"]
          /\ retryCount' = [retryCount EXCEPT ![t] = retryCount[t] + 1]
    BY <1>5, MarkRetryingCalm
  <2>2. QED
    BY <2>1 DEF Ledger!LedgerNext, Ledger!Requeue, Ledger!Move
<1>6. ASSUME NEW w \in Workers, MarkFailed(w)
      PROVE  UNCHANGED <<row, retryCount>>
  BY <1>6, MarkFailedCalm
<1>7. ASSUME NEW w \in Workers,
             \/ Load(w) \/ StartNode(w) \/ PublishShot(w) \/ FinishNode(w) \/ ChooseOutcome(w) \/ Export(w)
             \/ FailNode(w) \/ ClosePlan(w) \/ Rescue(w) \/ PersistRead(w) \/ Republish(w) \/ Ack(w)
             \/ StoreFails(w) \/ Crash(w) \/ LoseChild(w) \/ \E m \in Messages : Receive(w, m)
      PROVE  UNCHANGED <<row, retryCount>>
  BY <1>7, Zenon DEF Load, StartNode, PublishShot, FinishNode, ChooseOutcome, Export, FailNode, ClosePlan, Rescue,
     PersistRead, Republish, Ack, StoreFails, Crash, LoseChild, Receive, store
<1>8. QED
  BY <1>1, <1>2, <1>3, <1>4, <1>5, <1>6, <1>7, CommitMoves, Zenon DEF Next, WorkerStep, HandlerStep

(* For any numbers of tasks, workers, nodes and retries: as long as nothing  *)
(* disturbs, the row of the tasks table implements what TaskLedger promises  *)
(* its readers, whichever of mark_running, mark_retrying, mark_failed and    *)
(* sync_runtime_from_local writes it.                                        *)
THEOREM LedgerSafelyImplemented == Spec /\ []Calm => Ledger!LedgerSafety
<1>1. Init => Ledger!LedgerInit
  BY DEF Init, Ledger!LedgerInit
<1>2. TypeOK /\ CalmInv /\ Calm => AllCalm
  BY DEF CalmInv, AllCalm
<1>3. AllCalm /\ [Next]_vars => [Ledger!LedgerNext]_<<row, retryCount>>
  BY LedgerStep
<1>4. QED
  BY <1>1, <1>2, <1>3, InitCalm, TypeCorrect, CalmStep, PTL
     DEF Spec, Ledger!LedgerSafety, Ledger!ledgerVars

(* A row that says the images are there never takes it back, as long as no   *)
(* delivery is repeated (SuccessIsFinal), for the same parameters.           *)
THEOREM SuccessStaysFinal == Spec => SuccessIsFinal
<1> DEFINE Final == \A t \in Tasks :
                      /\ Undisturbed /\ crashes = 0
                      /\ row[t] \in {"succeeded", "partial_failed"}
                      => row'[t] = row[t]
<1>1. TypeOK /\ CalmInv /\ [Next]_vars => [Final]_vars
  <2> SUFFICES ASSUME TypeOK, CalmInv, [Next]_vars PROVE Final
    OBVIOUS
  <2>1. SUFFICES ASSUME NEW t \in Tasks, Calm, row[t] \in {"succeeded", "partial_failed"}
                 PROVE  row'[t] = row[t]
    BY DEF Calm
  <2>2. AllCalm
    BY <2>1 DEF CalmInv, AllCalm
  <2>3. [Ledger!LedgerNext]_<<row, retryCount>>
    BY <2>2, LedgerStep
  <2>4. CASE UNCHANGED <<row, retryCount>>
    BY <2>4
  <2>5. ASSUME NEW u \in Tasks, Ledger!Enqueue(u) \/ Ledger!Start(u) \/ Ledger!Conclude(u) \/ Ledger!Requeue(u)
        PROVE  row'[t] = row[t]
    <3>1. PICK from \in {"none", "queued", "running", "failed"} :
                 \E status : Ledger!Move(u, from, status)
      BY <2>5 DEF Ledger!Enqueue, Ledger!Start, Ledger!Conclude, Ledger!Requeue
    <3>2. u # t
      BY <2>1, <3>1 DEF Ledger!Move
    <3>3. QED
      BY <2>2, <3>1, <3>2 DEF Ledger!Move, AllCalm, TypeOK
  <2>6. QED
    BY <2>3, <2>4, <2>5 DEF Ledger!LedgerNext
<1>2. QED
  BY <1>1, InitCalm, TypeCorrect, CalmStep, PTL DEF Spec, SuccessIsFinal

-----------------------------------------------------------------------------
(* Deliveries.  A delivery of task t is a copy of its message in the broker *)
(* or a worker that still has to finish, retry or give up; it has a level,  *)
(* the number of retries before it.                                         *)
AtLevel(w, t, r) == Carries(w, t) /\ job[w].retries = r

Keeps(v) == \A t \in Tasks, r \in 0..MaxRetries : AtLevel(v, t, r)' => AtLevel(v, t, r)

Adds(t, r) == /\ <<t, r>> \in Messages
              /\ ready' = [ready EXCEPT ![<<t, r>>] = @ + 1]

Takes(t, r) == /\ <<t, r>> \in Messages /\ ready[<<t, r>>] > 0
               /\ ready' = [ready EXCEPT ![<<t, r>>] = @ - 1]

(* What a step does to the deliveries.                                      *)
Quiet == /\ UNCHANGED <<ready, attempts, crashes>>
         /\ \A t \in Tasks : api'[t] = "dispatched" <=> api[t] = "dispatched"
         /\ \A v \in Workers : Keeps(v) /\ job'[v].task \in {job[v].task, NoTask}

Posted(t) == /\ api[t] # "dispatched" /\ api' = [api EXCEPT ![t] = "dispatched"]
             /\ Adds(t, 0)
             /\ UNCHANGED <<attempts, crashes, pc, job>>

Taken(w, t, r) ==
  /\ Takes(t, r)
  /\ attempts' = [attempts EXCEPT ![t] = @ + 1]
  /\ pc[w] = "idle" /\ AtLevel(w, t, r)'
  /\ \A v \in Workers \ {w} : pc'[v] = pc[v] /\ job'[v] = job[v]
  /\ UNCHANGED <<api, crashes>>

Retried(w, t, r) ==
  /\ AtLevel(w, t, r) /\ r < MaxRetries /\ pc'[w] = "ack"
  /\ Adds(t, r + 1)
  /\ \A v \in Workers \ {w} : pc'[v] = pc[v] /\ job'[v] = job[v]
  /\ UNCHANGED <<api, job, attempts, crashes>>

Redelivered(w, t, r) ==
  /\ job[w].task = t /\ job[w].retries = r /\ pc[w] # "idle" /\ pc'[w] = "idle"
  /\ job'[w].task = NoTask
  /\ Adds(t, r)
  /\ \A v \in Workers \ {w} : pc'[v] = pc[v] /\ job'[v] = job[v]
  /\ crashes' = crashes + 1
  /\ UNCHANGED <<api, attempts>>

(* A worker that moves on with its task, or lets go of it.                  *)
LEMMA GoingOnKeeps ==
  ASSUME TypeOK, NEW w \in Workers, pc[w] \notin {"idle", "ack"}, NEW label, NEW j,
         Moves(w, label, j), j.task = job[w].task, j.retries = job[w].retries,
         UNCHANGED <<ready, attempts, crashes, api>>
  PROVE  Quiet
<1>1. ASSUME NEW v \in Workers \ {w} PROVE pc'[v] = pc[v] /\ job'[v] = job[v]
  BY DEF Moves, TypeOK
<1>2. pc'[w] = label /\ job'[w] = j
  BY DEF Moves, TypeOK
<1> QED
  BY <1>1, <1>2 DEF Quiet, Keeps, AtLevel, Carries

(* A worker that idles, or only has to acknowledge, carries nothing.        *)
LEMMA LettingGoKeeps ==
  ASSUME TypeOK, NEW w \in Workers, pc' = [pc EXCEPT ![w] = "idle"] \/ pc' = [pc EXCEPT ![w] = "ack"],
         \A v \in Workers \ {w} : job'[v] = job[v], job'[w].task \in {job[w].task, NoTask},
         UNCHANGED <<ready, attempts, crashes, api>>
  PROVE  Quiet
BY DEF Quiet, Keeps, AtLevel, Carries, TypeOK

(* Every step is one of these.                                              *)
LEMMA DeliveryStep ==
  ASSUME TypeOK, [Next]_vars
  PROVE  \/ Quiet
         \/ \E t \in Tasks : Posted(t)
         \/ \E w \in Workers, t \in Tasks, r \in 0..MaxRetries :
              Taken(w, t, r) \/ Retried(w, t, r) \/ Redelivered(w, t, r)
<1> DEFINE Goal == \/ Quiet
                   \/ \E t \in Tasks : Posted(t)
                   \/ \E w \in Workers, t \in Tasks, r \in 0..MaxRetries :
                        Taken(w, t, r) \/ Retried(w, t, r) \/ Redelivered(w, t, r)
<1> USE DEF store, counters
<1>a. WorkersOK
  BY DEF TypeOK, WorkersOK
<1>b. ASSUME NEW w \in Workers, pc[w] # "idle"
      PROVE  job[w] \in Jobs /\ job[w].task \in Tasks /\ job[w].retries \in 0..MaxRetries
  BY <1>a, <1>b, BusyHoldsTask DEF Jobs
<1>1. ASSUME NEW t \in Tasks, SaveInputs(t) \/ CreateRecord(t) \/ RequestFails(t) PROVE Quiet
  BY <1>1 DEF SaveInputs, CreateRecord, RequestFails, Quiet, Keeps, AtLevel, Carries, TypeOK
<1>2. ASSUME NEW t \in Tasks, Dispatch(t) PROVE Posted(t)
  BY <1>2, TaskRunAssumption DEF Dispatch, Posted, Adds, Messages
<1>3. ASSUME NEW w \in Workers, NEW m \in Messages, Receive(w, m) PROVE Goal
  <2>1. m[1] \in Tasks /\ m[2] \in 0..MaxRetries /\ m = <<m[1], m[2]>>
    BY DEF Messages
  <2>2. pc'[w] = "mark" /\ job'[w].task = m[1] /\ job'[w].retries = m[2]
    BY <1>3 DEF Receive, Goto, TypeOK, NoJob
  <2>3. AtLevel(w, m[1], m[2])'
    BY <2>2 DEF AtLevel, Carries
  <2>4. \A v \in Workers \ {w} : pc'[v] = pc[v] /\ job'[v] = job[v]
    BY <1>3 DEF Receive, Goto, TypeOK
  <2>5. Taken(w, m[1], m[2])
    BY <1>3, <2>1, <2>3, <2>4 DEF Receive, Taken, Takes
  <2> QED
    BY <2>1, <2>5
<1>4. ASSUME NEW w \in Workers, MarkRunning(w) \/ MarkRetrying(w) PROVE Quiet
  <2>1. \E label : Moves(w, label, job[w])
    BY <1>4 DEF MarkRunning, MarkRetrying, Moves, Goto, TypeOK
  <2> QED
    BY <1>4, <2>1, GoingOnKeeps DEF MarkRunning, MarkRetrying
<1>5. ASSUME NEW w \in Workers, Load(w) PROVE Quiet
  <2> DEFINE j == [job[w] EXCEPT !.node = 1]
  <2>1. j.task = job[w].task /\ j.retries = job[w].retries
    BY <1>5, <1>b DEF Load, Jobs
  <2>2. \E label : Moves(w, label, job[w]) \/ Moves(w, label, j)
    BY <1>5 DEF Load, Moves, Goto, TypeOK
  <2> HIDE DEF j
  <2> QED
    BY <1>5, <2>1, <2>2, GoingOnKeeps DEF Load
<1>6. ASSUME NEW w \in Workers, StartNode(w) \/ PublishShot(w) PROVE Quiet
  <2> DEFINE j1 == [job[w] EXCEPT !.after = "started", !.shot = 0]
             j2 == [job[w] EXCEPT !.after = "published", !.shot = job[w].shot + 1]
  <2>1. /\ j1.task = job[w].task /\ j1.retries = job[w].retries
        /\ j2.task = job[w].task /\ j2.retries = job[w].retries
    BY <1>6, <1>b DEF StartNode, PublishShot, Jobs
  <2>2. Moves(w, "persist", j1) \/ Moves(w, "persist", j2)
    BY <1>6 DEF StartNode, PublishShot, Moves, Goto, TypeOK
  <2> HIDE DEF j1, j2
  <2> QED
    BY <1>6, <2>1, <2>2, GoingOnKeeps DEF StartNode, PublishShot
<1>7. ASSUME NEW w \in Workers, FinishNode(w) \/ Export(w) \/ FailNode(w) \/ ClosePlan(w) \/ Rescue(w)
      PROVE  Quiet
  <2>1. PICK status, after : WriteAndPersist(w, status, after)
    BY <1>7 DEF FinishNode, Export, FailNode, ClosePlan, Rescue
  <2>2. job[w] \in Jobs /\ pc[w] \notin {"idle", "ack"}
    BY <1>7, <1>b DEF FinishNode, Export, FailNode, ClosePlan, Rescue
  <2>3. Moves(w, "persist", With(job[w], after))
    BY <2>1 DEF WriteAndPersist, Goto, Moves, With
  <2>4. UNCHANGED <<ready, attempts, crashes, api>>
    BY <1>7 DEF FinishNode, Export, FailNode, ClosePlan, Rescue
  <2> QED
    BY <2>2, <2>3, <2>4, WithFields, GoingOnKeeps
<1>8. ASSUME NEW w \in Workers, ChooseOutcome(w) PROVE Quiet
  <2>1. PICK outcome : job' = [job EXCEPT ![w] = [@ EXCEPT !.hand = outcome]]
    BY <1>8 DEF ChooseOutcome
  <2> DEFINE j == [job[w] EXCEPT !.hand = outcome]
  <2>2. j.task = job[w].task /\ j.retries = job[w].retries
    BY <1>8, <1>b DEF ChooseOutcome, Jobs
  <2>3. Moves(w, "export", j)
    BY <1>8, <2>1 DEF ChooseOutcome, Goto, Moves
  <2> HIDE DEF j
  <2> QED
    BY <1>8, <2>2, <2>3, GoingOnKeeps DEF ChooseOutcome
<1>9. ASSUME NEW w \in Workers, PersistRead(w) PROVE Quiet
  <2> DEFINE j == [job[w] EXCEPT !.hand = manifest[job[w].task]]
  <2>1. j.task = job[w].task /\ j.retries = job[w].retries
    BY <1>9, <1>b DEF PersistRead, Jobs
  <2>2. \E label : Moves(w, label, job[w]) \/ Moves(w, label, j)
    BY <1>9 DEF PersistRead, Moves, Goto, TypeOK
  <2> HIDE DEF j
  <2> QED
    BY <1>9, <2>1, <2>2, GoingOnKeeps DEF PersistRead
<1>10. ASSUME NEW w \in Workers, PersistCommit(w) PROVE Quiet
  <2> DEFINE Stepped == [job[w] EXCEPT !.after = "none", !.hand = "none", !.node = job[w].node + 1]
  <2>1. job[w] \in Jobs /\ Stepped.task = job[w].task /\ Stepped.retries = job[w].retries
    BY <1>10, <1>b DEF PersistCommit, Jobs
  <2>2. \E label : Moves(w, label, Stepped) \/ \E after : Moves(w, label, With(job[w], after))
    BY <1>10 DEF PersistCommit, Resume, Goto, Moves, With
  <2> HIDE DEF Stepped
  <2> QED
    BY <1>10, <2>1, <2>2, WithFields, GoingOnKeeps DEF PersistCommit
<1>11. ASSUME NEW w \in Workers, MarkFailed(w) \/ Ack(w) \/ LoseChild(w) PROVE Quiet
  <2>1. job'[w].task \in {job[w].task, NoTask} /\ \A v \in Workers \ {w} : job'[v] = job[v]
    BY <1>11 DEF MarkFailed, Ack, LoseChild, TypeOK, NoJob
  <2>2. pc' = [pc EXCEPT ![w] = "idle"] \/ pc' = [pc EXCEPT ![w] = "ack"]
    BY <1>11 DEF MarkFailed, Ack, LoseChild, Goto
  <2>3. UNCHANGED <<ready, attempts, crashes, api>>
    BY <1>11 DEF MarkFailed, Ack, LoseChild
  <2> QED
    BY <2>1, <2>2, <2>3, LettingGoKeeps
<1>12. ASSUME NEW w \in Workers, StoreFails(w) PROVE Quiet
  <2>1. \E label : Moves(w, label, job[w]) /\ pc[w] \notin {"idle", "ack"}
    BY <1>12 DEF StoreFails, Goto, Moves, TypeOK
  <2> QED
    BY <1>12, <2>1, GoingOnKeeps DEF StoreFails
<1>13. ASSUME NEW w \in Workers, Republish(w) PROVE Goal
  <2>1. /\ job[w] \in Jobs /\ job[w].task \in Tasks /\ job[w].retries \in 0..MaxRetries
        /\ job[w].retries < MaxRetries
    BY <1>13, <1>a, <1>b DEF Republish, WorkersOK, LocalsOK
  <2>2. Adds(job[w].task, job[w].retries + 1)
    BY <1>13, <2>1, TaskRunAssumption DEF Republish, Adds, Messages
  <2>3. pc'[w] = "ack" /\ \A v \in Workers \ {w} : pc'[v] = pc[v] /\ job'[v] = job[v]
    BY <1>13 DEF Republish, Goto, TypeOK
  <2>4. AtLevel(w, job[w].task, job[w].retries)
    BY <1>13 DEF Republish, AtLevel, Carries
  <2>5. Retried(w, job[w].task, job[w].retries)
    BY <1>13, <2>1, <2>2, <2>3, <2>4 DEF Republish, Retried
  <2> QED
    BY <2>1, <2>5
<1>14. ASSUME NEW w \in Workers, Crash(w) PROVE Goal
  <2>1. job[w] \in Jobs /\ job[w].task \in Tasks /\ job[w].retries \in 0..MaxRetries /\ pc[w] # "idle"
    BY <1>14, <1>b DEF Crash
  <2>2. Adds(job[w].task, job[w].retries)
    BY <1>14, <2>1 DEF Crash, Adds, Messages
  <2>3. pc'[w] = "idle" /\ \A v \in Workers \ {w} : pc'[v] = pc[v] /\ job'[v] = job[v]
    BY <1>14 DEF Crash, Goto, TypeOK
  <2>5. job'[w].task = NoTask
    BY <1>14 DEF Crash, TypeOK, NoJob
  <2>4. Redelivered(w, job[w].task, job[w].retries)
    BY <1>14, <2>1, <2>2, <2>3, <2>5 DEF Crash, Redelivered
  <2> QED
    BY <2>1, <2>4
<1>15. ASSUME UNCHANGED vars PROVE Quiet
  BY <1>15 DEF vars, Quiet, Keeps, AtLevel, Carries
<1> HIDE DEF Goal
<1>16. Quiet => Goal
  BY DEF Goal
<1>17. ASSUME NEW t \in Tasks, Posted(t) PROVE Goal
  BY <1>17 DEF Goal
<1>18. ASSUME NEW t \in Tasks, SaveInputs(t) \/ CreateRecord(t) \/ Dispatch(t) \/ RequestFails(t) PROVE Goal
  BY <1>1, <1>2, <1>16, <1>17, <1>18
<1>19. ASSUME NEW w \in Workers, WorkerStep(w) \/ StoreFails(w) \/ Crash(w) \/ LoseChild(w) PROVE Goal
  BY <1>3, <1>4, <1>5, <1>6, <1>7, <1>8, <1>9, <1>10, <1>11, <1>12, <1>13, <1>14, <1>16, <1>19
     DEF WorkerStep, HandlerStep
<1>20. Goal
  BY <1>15, <1>16, <1>18, <1>19 DEF Next
<1> QED
  BY <1>20 DEF Goal

(* The deliveries that may still come of the copies of a message, and of    *)
(* the workers that hold one: one for each level they may still reach.      *)
In(broker, t) ==
  {d \in (Nat \X Nat) \X (0..MaxRetries) :
     /\ d[1][1] \in 0..MaxRetries /\ d[1][2] \in 1..broker[<<t, d[1][1]>>]
     /\ d[2] >= d[1][1]}
Waiting(t) == In(ready, t)
Coming(t) == {d \in Workers \X (0..MaxRetries) : Carries(d[1], t) /\ d[2] > job[d[1]].retries}

From(x, r) == {x} \X (r..MaxRetries)

(* What the budget of a task still allows for.                              *)
Allowance(t) == IF api[t] = "dispatched" THEN 0 ELSE MaxRetries + 1

Budget == (MaxRetries + 1) * (crashes + 1)

Paid(t) ==
  /\ IsFiniteSet(Waiting(t)) /\ IsFiniteSet(Coming(t))
  /\ attempts[t] + Cardinality(Waiting(t)) + Cardinality(Coming(t)) + Allowance(t) <= Budget

(* The levels from r upwards, counted.                                      *)
LEMMA LevelsAbove ==
  ASSUME NEW x, NEW r \in 0..(MaxRetries + 1)
  PROVE  IsFiniteSet(From(x, r)) /\ Cardinality(From(x, r)) = (MaxRetries + 1) - r
<1>1. /\ IsFiniteSet(r..MaxRetries)
      /\ Cardinality(r..MaxRetries) = IF r > MaxRetries THEN 0 ELSE (MaxRetries - r) + 1
  BY TaskRunAssumption, FS_Interval
<1>2. Cardinality(r..MaxRetries) = (MaxRetries + 1) - r /\ Cardinality(r..MaxRetries) \in Nat
  BY <1>1, TaskRunAssumption
<1>3. IsFiniteSet({x}) /\ Cardinality({x}) = 1
  BY FS_Singleton
<1> HIDE DEF From
<1>4. IsFiniteSet(From(x, r)) /\ Cardinality(From(x, r)) = 1 * Cardinality(r..MaxRetries)
  BY <1>1, <1>3, FS_Product DEF From
<1> QED
  BY <1>2, <1>4

(* The cardinality of a union of disjoint sets.                             *)
LEMMA Gains ==
  ASSUME NEW S, NEW D, IsFiniteSet(S), IsFiniteSet(D), S \cap D = {}
  PROVE  IsFiniteSet(S \cup D) /\ Cardinality(S \cup D) = Cardinality(S) + Cardinality(D)
<1>1. Cardinality(S \cap D) = 0
  BY FS_EmptySet
<1>2. Cardinality(S) \in Nat /\ Cardinality(D) \in Nat
  BY FS_CardinalityType
<1>3. /\ IsFiniteSet(S \cup D)
      /\ Cardinality(S \cup D) = Cardinality(S) + Cardinality(D) - Cardinality(S \cap D)
  BY FS_Union
<1> QED
  BY <1>1, <1>2, <1>3

(* The cardinality of a set that loses some of its elements.                *)
LEMMA Loses ==
  ASSUME NEW S, NEW D, IsFiniteSet(S), D \subseteq S
  PROVE  /\ IsFiniteSet(S \ D) /\ IsFiniteSet(D)
         /\ Cardinality(S \ D) = Cardinality(S) - Cardinality(D)
<1>1. S \cap D = D
  OBVIOUS
<1> QED
  BY <1>1, FS_Difference, FS_Subset

(* One copy more of a message.                                              *)
OneMoreOf(f, g, t, r) ==
  /\ f \in [Messages -> Nat] /\ g[<<t, r>>] = f[<<t, r>>] + 1
  /\ \A m \in Messages \ {<<t, r>>} : g[m] = f[m]

(* One more copy of a message adds the levels from its own upwards.         *)
LEMMA OneMore ==
  ASSUME NEW f, NEW g, NEW t \in Tasks, NEW r \in 0..MaxRetries, OneMoreOf(f, g, t, r)
  PROVE  /\ In(g, t) = In(f, t) \cup From(<<r, g[<<t, r>>]>>, r)
         /\ In(f, t) \cap From(<<r, g[<<t, r>>]>>, r) = {}
         /\ \A u \in Tasks \ {t} : In(g, u) = In(f, u)
<1>1. /\ g[<<t, r>>] = f[<<t, r>>] + 1 /\ f[<<t, r>>] \in Nat
      /\ \A q \in 0..MaxRetries : q # r => g[<<t, q>>] = f[<<t, q>>]
      /\ \A q \in 0..MaxRetries : f[<<t, q>>] \in Nat
      /\ \A u \in Tasks \ {t}, q \in 0..MaxRetries : g[<<u, q>>] = f[<<u, q>>]
  BY DEF Messages, OneMoreOf
<1>2. \A u \in Tasks \ {t} : In(g, u) = In(f, u)
  BY <1>1 DEF In
<1>3. PICK n \in Nat : n = g[<<t, r>>] /\ f[<<t, r>>] = n - 1 /\ n > 0
  BY <1>1
<1>4. ASSUME NEW x \in Nat \X Nat, NEW q \in 0..MaxRetries
      PROVE  <<x, q>> \in In(g, t) <=> (<<x, q>> \in In(f, t) \/ (x = <<r, n>> /\ q >= r))
  <2>1. PICK a \in Nat, b \in Nat : x = <<a, b>>
    OBVIOUS
  <2>2. <<x, q>> \in In(f, t) <=> a \in 0..MaxRetries /\ b \in 1..f[<<t, a>>] /\ q >= a
    BY <2>1 DEF In
  <2>3. <<x, q>> \in In(g, t) <=> a \in 0..MaxRetries /\ b \in 1..g[<<t, a>>] /\ q >= a
    BY <2>1 DEF In
  <2>4. CASE a = r
    BY <1>1, <1>3, <2>1, <2>2, <2>3, <2>4
  <2>5. CASE a # r
    BY <1>1, <2>1, <2>2, <2>3, <2>5
  <2> QED
    BY <2>4, <2>5
<1>5. ASSUME NEW q \in 0..MaxRetries
      PROVE  <<<<r, n>>, q>> \notin In(f, t)
  <2>1. n \notin 1..f[<<t, r>>]
    BY <1>3
  <2>2. <<<<r, n>>, q>>[1][1] = r /\ <<<<r, n>>, q>>[1][2] = n
    OBVIOUS
  <2> QED
    BY <2>1, <2>2, Zenon DEF In
<1>6. /\ In(f, t) \subseteq (Nat \X Nat) \X (0..MaxRetries)
      /\ In(g, t) \subseteq (Nat \X Nat) \X (0..MaxRetries)
  BY DEF In
<1>7. /\ From(<<r, n>>, r) \subseteq (Nat \X Nat) \X (0..MaxRetries)
      /\ \A x \in Nat \X Nat, q \in 0..MaxRetries :
           <<x, q>> \in From(<<r, n>>, r) <=> (x = <<r, n>> /\ q >= r)
  BY TaskRunAssumption DEF From
<1>8. In(g, t) = In(f, t) \cup From(<<r, n>>, r)
  <2>1. ASSUME NEW d \in (Nat \X Nat) \X (0..MaxRetries)
        PROVE  d \in In(g, t) <=> d \in In(f, t) \cup From(<<r, n>>, r)
    <3>1. PICK x \in Nat \X Nat, q \in 0..MaxRetries : d = <<x, q>>
      OBVIOUS
    <3> QED
      BY <1>4, <1>7, <3>1
  <2> QED
    BY <1>6, <1>7, <2>1
<1>9. In(f, t) \cap From(<<r, n>>, r) = {}
  BY <1>5, <1>6, <1>7
<1> QED
  BY <1>2, <1>3, <1>8, <1>9

(* What a new copy and a copy taken do to the deliveries that wait.         *)
LEMMA WaitingGrows ==
  ASSUME TypeOK, NEW t \in Tasks, NEW r \in 0..MaxRetries, Adds(t, r), IsFiniteSet(Waiting(t))
  PROVE  /\ IsFiniteSet(Waiting(t)')
         /\ Cardinality(Waiting(t)') = Cardinality(Waiting(t)) + ((MaxRetries + 1) - r)
         /\ \A u \in Tasks \ {t} : Waiting(u)' = Waiting(u)
<1> DEFINE D == From(<<r, ready'[<<t, r>>]>>, r)
<1>0. OneMoreOf(ready, ready', t, r)
  BY DEF TypeOK, Adds, OneMoreOf
<1>1. /\ In(ready', t) = In(ready, t) \cup D /\ In(ready, t) \cap D = {}
      /\ \A u \in Tasks \ {t} : In(ready', u) = In(ready, u)
  BY <1>0, OneMore
<1>2. r \in 0..(MaxRetries + 1)
  BY TaskRunAssumption
<1>3. IsFiniteSet(D) /\ Cardinality(D) = (MaxRetries + 1) - r
  BY <1>2, LevelsAbove
<1> HIDE DEF D
<1> QED
  BY <1>1, <1>3, Gains DEF Waiting

(* A copy taken from the broker.                                            *)
LEMMA WaitingShrinks ==
  ASSUME TypeOK, NEW t \in Tasks, NEW r \in 0..MaxRetries, Takes(t, r), IsFiniteSet(Waiting(t))
  PROVE  /\ IsFiniteSet(Waiting(t)')
         /\ Cardinality(Waiting(t)') = Cardinality(Waiting(t)) - ((MaxRetries + 1) - r)
         /\ \A u \in Tasks \ {t} : Waiting(u)' = Waiting(u)
<1> DEFINE D == From(<<r, ready[<<t, r>>]>>, r)
<1>1. OneMoreOf(ready', ready, t, r)
  BY DEF TypeOK, OneMoreOf, Takes
<1>2. /\ In(ready, t) = In(ready', t) \cup From(<<r, ready[<<t, r>>]>>, r)
      /\ In(ready', t) \cap From(<<r, ready[<<t, r>>]>>, r) = {}
  <2> HIDE DEF D
  <2>1. ASSUME NEW f, NEW g, OneMoreOf(f, g, t, r)
        PROVE  /\ In(g, t) = In(f, t) \cup From(<<r, g[<<t, r>>]>>, r)
               /\ In(f, t) \cap From(<<r, g[<<t, r>>]>>, r) = {}
    BY <2>1, OneMore, Zenon
  <2> QED
    BY <1>1, <2>1, Zenon
<1>3. /\ In(ready, t) = In(ready', t) \cup D /\ In(ready', t) \cap D = {}
      /\ \A u \in Tasks \ {t} : In(ready, u) = In(ready', u)
  BY <1>1, <1>2, OneMore
<1>4. r \in 0..(MaxRetries + 1)
  BY TaskRunAssumption
<1>5. Cardinality(D) = (MaxRetries + 1) - r
  BY <1>4, LevelsAbove
<1> HIDE DEF D
<1>6. In(ready', t) = In(ready, t) \ D /\ D \subseteq In(ready, t)
  BY <1>3
<1> QED
  BY <1>3, <1>5, <1>6, Loses DEF Waiting

(* A worker that takes a message, and one that is done with it.             *)
LEMMA ComingGrows ==
  ASSUME NEW w \in Workers, NEW t \in Tasks, NEW r \in 0..MaxRetries,
         pc[w] = "idle", AtLevel(w, t, r)', IsFiniteSet(Coming(t)),
         \A v \in Workers \ {w} : pc'[v] = pc[v] /\ job'[v] = job[v]
  PROVE  /\ IsFiniteSet(Coming(t)')
         /\ Cardinality(Coming(t)') = Cardinality(Coming(t)) + (MaxRetries - r)
         /\ \A u \in Tasks \ {t} : Coming(u)' = Coming(u)
<1> DEFINE D == From(w, r + 1)
<1>1. r + 1 \in 0..(MaxRetries + 1) /\ (MaxRetries + 1) - (r + 1) = MaxRetries - r
  BY TaskRunAssumption
<1>2. IsFiniteSet(D) /\ Cardinality(D) = MaxRetries - r
  BY <1>1, LevelsAbove
<1>3. Coming(t) \cap D = {}
  BY DEF Coming, Carries, From
<1>4. Coming(t)' = Coming(t) \cup D
  BY TaskRunAssumption DEF Coming, Carries, From, AtLevel
<1>5. \A u \in Tasks \ {t} : Coming(u)' = Coming(u)
  BY DEF Coming, Carries, AtLevel
<1> HIDE DEF D
<1> QED
  BY <1>2, <1>3, <1>4, <1>5, Gains

(* A worker that lets go of its delivery.                                   *)
LEMMA ComingShrinks ==
  ASSUME NEW w \in Workers, NEW t \in Tasks, NEW r \in 0..MaxRetries,
         AtLevel(w, t, r), pc'[w] \in {"idle", "ack"}, IsFiniteSet(Coming(t)),
         \A v \in Workers \ {w} : pc'[v] = pc[v] /\ job'[v] = job[v]
  PROVE  /\ IsFiniteSet(Coming(t)')
         /\ Cardinality(Coming(t)') = Cardinality(Coming(t)) - (MaxRetries - r)
         /\ \A u \in Tasks \ {t} : Coming(u)' = Coming(u)
<1> DEFINE D == From(w, r + 1)
<1>1. r + 1 \in 0..(MaxRetries + 1) /\ (MaxRetries + 1) - (r + 1) = MaxRetries - r
  BY TaskRunAssumption
<1>2. Cardinality(D) = MaxRetries - r
  BY <1>1, LevelsAbove
<1>3. D \subseteq Coming(t)
  BY TaskRunAssumption DEF Coming, Carries, From, AtLevel
<1>4. Coming(t)' = Coming(t) \ D
  BY TaskRunAssumption DEF Coming, Carries, From, AtLevel
<1>5. \A u \in Tasks \ {t} : Coming(u)' = Coming(u)
  BY DEF Coming, Carries, AtLevel
<1> HIDE DEF D
<1> QED
  BY <1>2, <1>3, <1>4, <1>5, Loses

(* The budget pays for every delivery made and every delivery that may      *)
(* still come: a redelivery costs what its crash adds.                      *)
AllPaid == \A t \in Tasks : Paid(t)

(* A crash pays for one delivery more, at every level.                      *)
LEMMA BudgetGrows ==
  ASSUME TypeOK, crashes' = crashes + 1
  PROVE  Budget' = Budget + (MaxRetries + 1)
<1>1. /\ crashes \in Nat /\ MaxRetries + 1 \in Nat
  BY TaskRunAssumption DEF TypeOK
<1>2. \A m, c \in Nat : m * (c + 2) = m * (c + 1) + m
  OBVIOUS
<1>3. Budget' = (MaxRetries + 1) * (crashes + 2)
  BY <1>1 DEF Budget
<1> QED
  BY <1>1, <1>2, <1>3 DEF Budget

(* The budget is a number that only a crash changes.                        *)
LEMMA BudgetNat == TypeOK => Budget \in Nat /\ (crashes' = crashes => Budget' = Budget)
<1>1. TypeOK => crashes + 1 \in Nat /\ MaxRetries + 1 \in Nat
  BY TaskRunAssumption DEF TypeOK
<1>2. \A m, c \in Nat : m * c \in Nat
  OBVIOUS
<1> QED
  BY <1>1, <1>2 DEF Budget

(* What is still to come of a task stays paid for, by every step.           *)
LEMMA PaidStep ==
  ASSUME TypeOK, TypeOK', AllPaid, [Next]_vars
  PROVE  AllPaid'
<1> SUFFICES ASSUME NEW u \in Tasks PROVE Paid(u)'
  BY DEF AllPaid
<1>a. Paid(u)
  BY DEF AllPaid
<1>b. /\ Budget \in Nat /\ attempts[u] \in Nat /\ MaxRetries \in Nat
      /\ IsFiniteSet(Waiting(u)) /\ IsFiniteSet(Coming(u))
      /\ Cardinality(Waiting(u)) \in Nat /\ Cardinality(Coming(u)) \in Nat
  BY <1>a, BudgetNat, TaskRunAssumption, FS_CardinalityType DEF Paid, TypeOK
<1>1. CASE Quiet
  <2>1. Waiting(u)' = Waiting(u)
    BY <1>1 DEF Quiet, Waiting, In
  <2>2. Coming(u)' \subseteq Coming(u)
    BY <1>1 DEF Quiet, Coming, Keeps, AtLevel, TypeOK, Jobs
  <2>3. IsFiniteSet(Coming(u)') /\ Cardinality(Coming(u)') <= Cardinality(Coming(u))
    BY <1>b, <2>2, FS_Subset
  <2>4. Cardinality(Coming(u)') \in Nat
    BY <2>3, FS_CardinalityType
  <2>5. /\ Allowance(u)' = Allowance(u) /\ attempts'[u] = attempts[u] /\ Budget' = Budget
    BY <1>1, BudgetNat DEF Quiet, Allowance
  <2> QED
    BY <1>a, <1>b, <2>1, <2>3, <2>4, <2>5 DEF Paid, Allowance
<1>2. ASSUME NEW t \in Tasks, Posted(t) PROVE Paid(u)'
  <2>1. /\ Coming(u)' = Coming(u) /\ attempts'[u] = attempts[u] /\ Budget' = Budget
    BY <1>2, BudgetNat DEF Posted, Coming, Carries
  <2>2. CASE u = t
    <3>1. 0 \in 0..MaxRetries /\ Adds(u, 0)
      BY <1>2, <2>2, TaskRunAssumption DEF Posted
    <3>2. IsFiniteSet(Waiting(u)') /\ Cardinality(Waiting(u)') = Cardinality(Waiting(u)) + ((MaxRetries + 1) - 0)
      BY <1>b, <3>1, WaitingGrows
    <3>3. Allowance(u) = MaxRetries + 1 /\ Allowance(u)' = 0
      BY <1>2, <2>2 DEF Posted, Allowance, TypeOK
    <3> QED
      BY <1>a, <1>b, <2>1, <3>2, <3>3 DEF Paid
  <2>3. CASE u # t
    <3>1. 0 \in 0..MaxRetries /\ Adds(t, 0)
      BY <1>2, TaskRunAssumption DEF Posted
    <3>2. IsFiniteSet(Waiting(t))
      BY DEF AllPaid, Paid
    <3>3. Waiting(u)' = Waiting(u)
      BY <2>3, <3>1, <3>2, WaitingGrows
    <3>4. Allowance(u)' = Allowance(u)
      BY <1>2, <2>3 DEF Posted, Allowance, TypeOK
    <3> QED
      BY <1>a, <2>1, <3>3, <3>4 DEF Paid
  <2> QED
    BY <2>2, <2>3
<1>3. ASSUME NEW w \in Workers, NEW t \in Tasks, NEW r \in 0..MaxRetries, Taken(w, t, r) PROVE Paid(u)'
  <2>1. Allowance(u)' = Allowance(u) /\ Budget' = Budget
    BY <1>3, BudgetNat DEF Taken, Allowance
  <2>2. IsFiniteSet(Waiting(t)) /\ IsFiniteSet(Coming(t))
    BY DEF AllPaid, Paid
  <2>3. /\ IsFiniteSet(Waiting(t)')
        /\ Cardinality(Waiting(t)') = Cardinality(Waiting(t)) - ((MaxRetries + 1) - r)
        /\ \A v \in Tasks \ {t} : Waiting(v)' = Waiting(v)
    BY <1>3, <2>2, WaitingShrinks DEF Taken
  <2>4. /\ IsFiniteSet(Coming(t)')
        /\ Cardinality(Coming(t)') = Cardinality(Coming(t)) + (MaxRetries - r)
        /\ \A v \in Tasks \ {t} : Coming(v)' = Coming(v)
    BY <1>3, <2>2, ComingGrows DEF Taken
  <2>5. CASE u = t
    <3>1. attempts'[u] = attempts[u] + 1
      BY <1>3, <2>5 DEF Taken, TypeOK
    <3> QED
      BY <1>a, <1>b, <2>1, <2>3, <2>4, <2>5, <3>1 DEF Paid, Allowance
  <2>6. CASE u # t
    <3>1. attempts'[u] = attempts[u]
      BY <1>3, <2>6 DEF Taken, TypeOK
    <3> QED
      BY <1>a, <2>1, <2>3, <2>4, <2>6, <3>1 DEF Paid
  <2> QED
    BY <2>5, <2>6
<1>4. ASSUME NEW w \in Workers, NEW t \in Tasks, NEW r \in 0..MaxRetries, Retried(w, t, r) PROVE Paid(u)'
  <2>1. /\ Allowance(u)' = Allowance(u) /\ Budget' = Budget /\ attempts'[u] = attempts[u]
        /\ r + 1 \in 0..MaxRetries
    BY <1>4, BudgetNat, TaskRunAssumption DEF Retried, Allowance
  <2>2. IsFiniteSet(Waiting(t)) /\ IsFiniteSet(Coming(t))
    BY DEF AllPaid, Paid
  <2>3. /\ IsFiniteSet(Waiting(t)')
        /\ Cardinality(Waiting(t)') = Cardinality(Waiting(t)) + ((MaxRetries + 1) - (r + 1))
        /\ \A v \in Tasks \ {t} : Waiting(v)' = Waiting(v)
    BY <1>4, <2>1, <2>2, WaitingGrows DEF Retried
  <2>4. /\ IsFiniteSet(Coming(t)')
        /\ Cardinality(Coming(t)') = Cardinality(Coming(t)) - (MaxRetries - r)
        /\ \A v \in Tasks \ {t} : Coming(v)' = Coming(v)
    BY <1>4, <2>2, ComingShrinks DEF Retried
  <2>5. CASE u = t
    BY <1>a, <1>b, <2>1, <2>3, <2>4, <2>5 DEF Paid, Allowance
  <2>6. CASE u # t
    BY <1>a, <2>1, <2>3, <2>4, <2>6 DEF Paid
  <2> QED
    BY <2>5, <2>6
<1>5. ASSUME NEW w \in Workers, NEW t \in Tasks, NEW r \in 0..MaxRetries, Redelivered(w, t, r) PROVE Paid(u)'
  <2>1. /\ Allowance(u)' = Allowance(u) /\ Budget' = Budget + (MaxRetries + 1) /\ attempts'[u] = attempts[u]
    BY <1>5, BudgetGrows DEF Redelivered, Allowance
  <2>2. IsFiniteSet(Waiting(t))
    BY DEF AllPaid, Paid
  <2>3. /\ IsFiniteSet(Waiting(t)')
        /\ Cardinality(Waiting(t)') = Cardinality(Waiting(t)) + ((MaxRetries + 1) - r)
        /\ \A v \in Tasks \ {t} : Waiting(v)' = Waiting(v)
    BY <1>5, <2>2, WaitingGrows DEF Redelivered
  <2>4. Coming(u)' \subseteq Coming(u)
    BY <1>5 DEF Redelivered, Coming, Carries
  <2>5. IsFiniteSet(Coming(u)') /\ Cardinality(Coming(u)') <= Cardinality(Coming(u))
    BY <1>b, <2>4, FS_Subset
  <2>6. Cardinality(Coming(u)') \in Nat
    BY <2>5, FS_CardinalityType
  <2>7. CASE u = t
    BY <1>a, <1>b, <2>1, <2>3, <2>5, <2>6, <2>7 DEF Paid, Allowance
  <2>8. CASE u # t
    BY <1>a, <1>b, <2>1, <2>3, <2>5, <2>6, <2>8 DEF Paid, Allowance
  <2> QED
    BY <2>7, <2>8
<1> QED
  BY <1>1, <1>2, <1>3, <1>4, <1>5, DeliveryStep

(* At the start nothing is to come but the first publication.               *)
LEMMA InitPaid == Init => AllPaid
<1> SUFFICES ASSUME Init, NEW t \in Tasks PROVE Paid(t)
  BY DEF AllPaid
<1>1. Waiting(t) = {}
  BY DEF Init, Waiting, In, Messages
<1>2. Coming(t) = {}
  BY DEF Init, Coming, Carries
<1>3. IsFiniteSet({}) /\ Cardinality({}) = 0
  BY FS_EmptySet
<1>4. attempts[t] = 0 /\ Allowance(t) = MaxRetries + 1 /\ Budget = (MaxRetries + 1) * (0 + 1)
  BY DEF Init, Allowance, Budget
<1>5. Budget = MaxRetries + 1 /\ MaxRetries + 1 \in Nat
  BY <1>4, TaskRunAssumption
<1> QED
  BY <1>1, <1>2, <1>3, <1>4, <1>5 DEF Paid

(* What was attempted is then within the budget.                            *)
LEMMA PaidMeansBudget == TypeOK /\ AllPaid => AttemptBudget
<1> SUFFICES ASSUME TypeOK, AllPaid, NEW t \in Tasks
             PROVE  attempts[t] <= Budget
  BY DEF AttemptBudget, Budget
<1>1. Paid(t)
  BY DEF AllPaid
<1>2. /\ Cardinality(Waiting(t)) \in Nat /\ Cardinality(Coming(t)) \in Nat
      /\ attempts[t] \in Nat /\ Budget \in Nat /\ Allowance(t) \in Nat
  BY <1>1, BudgetNat, TaskRunAssumption, FS_CardinalityType DEF Paid, TypeOK, Allowance
<1> QED
  BY <1>1, <1>2 DEF Paid

(* A task is run, and paid for, at most once per retry level and crash.     *)
THEOREM AttemptsStayInBudget == Spec => []AttemptBudget
<1>1. Init => AllPaid
  BY InitPaid
<1>2. TypeOK /\ TypeOK' /\ AllPaid /\ [Next]_vars => AllPaid'
  BY PaidStep
<1> QED
  BY <1>1, <1>2, TypeCorrect, PaidMeansBudget, PTL DEF Spec

-----------------------------------------------------------------------------
(* A task is delivered only after its request has dispatched it.            *)
OnlyDispatched ==
  \A t \in Tasks : api[t] # "dispatched" =>
    NoneReady(t) /\ \A w \in Workers : job[w].task # t

(* No step delivers a task that its request has not dispatched.             *)
LEMMA DispatchedStep ==
  ASSUME TypeOK, TypeOK', OnlyDispatched, [Next]_vars
  PROVE  OnlyDispatched'
<1> SUFFICES ASSUME NEW u \in Tasks, api'[u] # "dispatched"
             PROVE  NoneReady(u)' /\ \A w \in Workers : job'[w].task # u
  BY DEF OnlyDispatched
<1>1. CASE Quiet
  <2>1. NoneReady(u) /\ \A w \in Workers : job[w].task # u
    BY <1>1 DEF Quiet, OnlyDispatched
  <2> QED
    BY <1>1, <2>1, TaskRunAssumption DEF Quiet, NoneReady
<1>2. ASSUME NEW t \in Tasks, Posted(t) PROVE NoneReady(u)' /\ \A w \in Workers : job'[w].task # u
  <2>1. u # t /\ api[u] # "dispatched"
    BY <1>2 DEF Posted, TypeOK
  <2>2. NoneReady(u) /\ \A w \in Workers : job[w].task # u
    BY <2>1 DEF OnlyDispatched
  <2> QED
    BY <1>2, <2>1, <2>2, TaskRunAssumption DEF Posted, Adds, NoneReady, TypeOK, Messages
<1>3. ASSUME NEW w \in Workers, NEW t \in Tasks, NEW r \in 0..MaxRetries,
             Taken(w, t, r) \/ Retried(w, t, r) \/ Redelivered(w, t, r)
      PROVE  NoneReady(u)' /\ \A v \in Workers : job'[v].task # u
  <2>1. NoneReady(u) /\ \A v \in Workers : job[v].task # u
    BY <1>3 DEF Taken, Retried, Redelivered, OnlyDispatched
  <2>2. u # t
    BY <1>3, <2>1 DEF Taken, Takes, Retried, Redelivered, AtLevel, Carries, NoneReady
  <2>3. \A v \in Workers : job'[v].task # u
    BY <1>3, <2>1, <2>2, TaskRunAssumption DEF Taken, Retried, Redelivered, AtLevel, Carries
  <2>4. NoneReady(u)'
    BY <1>3, <2>1, <2>2 DEF Taken, Takes, Retried, Redelivered, Adds, NoneReady, TypeOK, Messages
  <2> QED
    BY <2>3, <2>4
<1> QED
  BY <1>1, <1>2, <1>3, DeliveryStep

(* While no delivery is repeated a task has one delivery at most.           *)
OneDelivery(t) ==
  \/ NoneReady(t) /\ NoCarrier(t)
  \/ NoCarrier(t) /\ \E r \in 0..MaxRetries : OnlyReady(t, r)
  \/ NoneReady(t) /\ \E w \in Workers : OnlyCarrier(t, w)

OneDeliveryEach == crashes = 0 => \A t \in Tasks : OneDelivery(t)

(* Every step but a crash leaves one delivery of a task at most.            *)
LEMMA OneDeliveryStep ==
  ASSUME TypeOK, TypeOK', OnlyDispatched, OneDeliveryEach, [Next]_vars
  PROVE  OneDeliveryEach'
<1> SUFFICES ASSUME crashes' = 0, NEW u \in Tasks PROVE OneDelivery(u)'
  BY DEF OneDeliveryEach
<1>1. CASE Quiet
  <2>1. OneDelivery(u) /\ ready' = ready
    BY <1>1 DEF Quiet, OneDeliveryEach
  <2>2. \A w \in Workers : Carries(w, u)' => Carries(w, u)
    BY <1>1 DEF Quiet, Keeps, AtLevel, Carries, TypeOK, Jobs
  <2>3. NoneReady(u)' = NoneReady(u) /\ \A r \in 0..MaxRetries : OnlyReady(u, r)' = OnlyReady(u, r)
    BY <2>1 DEF NoneReady, OnlyReady
  <2>4. CASE NoCarrier(u)
    <3>1. NoCarrier(u)'
      BY <2>2, <2>4 DEF NoCarrier
    <3> QED
      BY <2>1, <2>3, <2>4, <3>1 DEF OneDelivery, NoCarrier, OnlyCarrier
  <2>5. CASE NoneReady(u) /\ \E w \in Workers : OnlyCarrier(u, w)
    <3>1. NoCarrier(u)' \/ \E w \in Workers : OnlyCarrier(u, w)'
      BY <2>2, <2>5 DEF NoCarrier, OnlyCarrier
    <3> QED
      BY <2>3, <2>5, <3>1 DEF OneDelivery
  <2> QED
    BY <2>1, <2>4, <2>5 DEF OneDelivery
<1>2. ASSUME NEW t \in Tasks, Posted(t) PROVE OneDelivery(u)'
  <2>1. OneDelivery(u)
    BY <1>2 DEF Posted, OneDeliveryEach
  <2>2. NoCarrier(u)' = NoCarrier(u) /\ \A w \in Workers : OnlyCarrier(u, w)' = OnlyCarrier(u, w)
    BY <1>2 DEF Posted, NoCarrier, OnlyCarrier, Carries
  <2>3. CASE u = t
    <3>1. NoneReady(u) /\ NoCarrier(u)
      BY <1>2, <2>3 DEF Posted, OnlyDispatched, NoCarrier, Carries
    <3>2. OnlyReady(u, 0)' /\ 0 \in 0..MaxRetries
      BY <1>2, <2>3, <3>1, TaskRunAssumption DEF Posted, Adds, NoneReady, OnlyReady, TypeOK, Messages
    <3> QED
      BY <2>2, <3>1, <3>2 DEF OneDelivery
  <2>4. CASE u # t
    <3>1. NoneReady(u)' = NoneReady(u) /\ \A r \in 0..MaxRetries : OnlyReady(u, r)' = OnlyReady(u, r)
      BY <1>2, <2>4 DEF Posted, Adds, NoneReady, OnlyReady, TypeOK, Messages
    <3> QED
      BY <2>1, <2>2, <3>1 DEF OneDelivery
  <2> QED
    BY <2>3, <2>4
<1>3. ASSUME NEW w \in Workers, NEW t \in Tasks, NEW r \in 0..MaxRetries, Taken(w, t, r)
      PROVE  OneDelivery(u)'
  <2>1. OneDelivery(u)
    BY <1>3 DEF Taken, OneDeliveryEach
  <2>2. \A v \in Workers \ {w} : Carries(v, u)' = Carries(v, u)
    BY <1>3 DEF Taken, Carries
  <2>3. CASE u = t
    <3>0. ~NoneReady(u) /\ ~(ready[<<u, r>>] = 0)
      BY <1>3, <2>3 DEF Taken, Takes, NoneReady
    <3>4. \A q \in 0..MaxRetries : OnlyReady(u, q) => q = r
      BY <3>0 DEF OnlyReady
    <3>1. NoCarrier(u) /\ OnlyReady(u, r)
      BY <2>1, <3>0, <3>4 DEF OneDelivery
    <3>2. NoneReady(u)'
      BY <1>3, <2>3, <3>1 DEF Taken, Takes, NoneReady, OnlyReady, TypeOK, Messages
    <3>3. OnlyCarrier(u, w)'
      BY <1>3, <2>2, <2>3, <3>1 DEF Taken, NoCarrier, OnlyCarrier, AtLevel
    <3> QED
      BY <3>2, <3>3 DEF OneDelivery
  <2>4. CASE u # t
    <3>1. NoneReady(u)' = NoneReady(u) /\ \A q \in 0..MaxRetries : OnlyReady(u, q)' = OnlyReady(u, q)
      BY <1>3, <2>4 DEF Taken, Takes, NoneReady, OnlyReady, TypeOK, Messages
    <3>2. ~Carries(w, u) /\ ~Carries(w, u)'
      BY <1>3, <2>4 DEF Taken, AtLevel, Carries
    <3> QED
      BY <2>1, <2>2, <3>1, <3>2 DEF OneDelivery, NoCarrier, OnlyCarrier
  <2> QED
    BY <2>3, <2>4
<1>4. ASSUME NEW w \in Workers, NEW t \in Tasks, NEW r \in 0..MaxRetries, Retried(w, t, r)
      PROVE  OneDelivery(u)'
  <2>1. OneDelivery(u)
    BY <1>4 DEF Retried, OneDeliveryEach
  <2>2. \A v \in Workers \ {w} : Carries(v, u)' = Carries(v, u)
    BY <1>4 DEF Retried, Carries
  <2>3. CASE u = t
    <3>1. NoneReady(u) /\ OnlyCarrier(u, w)
      BY <1>4, <2>1, <2>3 DEF Retried, AtLevel, OneDelivery, NoCarrier, OnlyCarrier
    <3>2. r + 1 \in 0..MaxRetries
      BY <1>4, TaskRunAssumption DEF Retried
    <3>3. OnlyReady(u, r + 1)'
      BY <1>4, <2>3, <3>1, <3>2 DEF Retried, Adds, NoneReady, OnlyReady, TypeOK, Messages
    <3>4. NoCarrier(u)'
      BY <1>4, <2>2, <3>1 DEF Retried, NoCarrier, OnlyCarrier, Carries
    <3> QED
      BY <3>2, <3>3, <3>4 DEF OneDelivery
  <2>4. CASE u # t
    <3>1. NoneReady(u)' = NoneReady(u) /\ \A q \in 0..MaxRetries : OnlyReady(u, q)' = OnlyReady(u, q)
      BY <1>4, <2>4 DEF Retried, Adds, NoneReady, OnlyReady, TypeOK, Messages
    <3>2. ~Carries(w, u) /\ ~Carries(w, u)'
      BY <1>4, <2>4 DEF Retried, AtLevel, Carries
    <3> QED
      BY <2>1, <2>2, <3>1, <3>2 DEF OneDelivery, NoCarrier, OnlyCarrier
  <2> QED
    BY <2>3, <2>4
<1>5. ASSUME NEW w \in Workers, NEW t \in Tasks, NEW r \in 0..MaxRetries, Redelivered(w, t, r)
      PROVE  FALSE
  BY <1>5, TaskRunAssumption DEF Redelivered, TypeOK
<1> QED
  BY <1>1, <1>2, <1>3, <1>4, <1>5, DeliveryStep

-----------------------------------------------------------------------------
(* While no delivery is repeated, what a success in the files or in the    *)
(* hand of a publication rests on: the ZIP, unless its worker is about to   *)
(* write it.                                                                *)
Success == {"completed", "review_required"}
Shown(t) == manifest[t] \in Success => exported[t]

Backed(t) ==
  /\ api[t] \in {"new", "saved", "recorded"} => Shown(t)
  /\ ~NoneReady(t) => Shown(t)
  /\ \A w \in Workers : Carries(w, t) /\ pc[w] # "export" =>
       /\ Shown(t) /\ pc[w] # "close"
       /\ pc[w] = "commit" /\ job[w].hand \in Success => exported[t]
  /\ row[t] \in {"succeeded", "partial_failed"} => exported[t]

AllBacked == crashes = 0 => \A t \in Tasks \ PlanTasks : Backed(t)

(* One worker at a time works for a task.                                   *)
OneWorkerPerTask ==
  \A t \in Tasks, v, w \in Workers : Carries(v, t) /\ Carries(w, t) => v = w

(* What the files say when a worker is at a step of the handler: the end of *)
(* the run, or its failure, once it is on its way out.                      *)
Ahead(label, j, file) ==
  /\ label \in {"persist", "commit"} =>
       /\ j.after = "finished" /\ AtLast(j) /\ j.task \notin PlanTasks => file \in Outcomes
       /\ j.after = "closed" => file = "completed"
       /\ j.after \in {"failed", "reraise"} => file = "failed"
       /\ j.after = "done" => file \in Outcomes \cup {"completed"}
  /\ label = "commit" => j.hand = file
  /\ label \in {"except", "republish"} => (file \in LegacyStatus => file = "failed")

Agrees(file, status, count) ==
  /\ file \in LegacyStatus => status = MapStatus[file]
  /\ status = "failed" /\ "failed" \notin Outcomes => count = MaxRetries

Rests(t) ==
  /\ api[t] \in {"recorded", "dispatched"} => row[t] # "none"
  /\ api[t] = "dispatched" /\ NoneReady(t) /\ NoCarrier(t) =>
       Agrees(manifest[t], row[t], retryCount[t])
  /\ \A w \in Workers : Carries(w, t) => Ahead(pc[w], job[w], manifest[t])

AllRest == TypeOK /\ OnlyDispatched /\ OneWorkerPerTask /\ \A u \in Tasks : Rests(u)

(* A task whose state and deliveries do not move.                           *)
LEMMA UnmovedRests ==
  ASSUME NEW u \in Tasks, Rests(u), Same(u), SameTokens(u)
  PROVE  Rests(u)'
<1>1. NoneReady(u)' = NoneReady(u)
  BY DEF SameTokens, NoneReady
<1>2. NoCarrier(u)' = NoCarrier(u)
  BY DEF SameTokens, NoCarrier
<1>3. ASSUME NEW w \in Workers, Carries(w, u)'
      PROVE  Ahead(pc'[w], job'[w], manifest'[u])
  <2>1. Carries(w, u) /\ pc'[w] = pc[w] /\ job'[w] = job[w] /\ manifest'[u] = manifest[u]
    BY <1>3 DEF SameTokens, Same
  <2> QED
    BY <2>1 DEF Rests
<1>4. /\ api'[u] = api[u] /\ manifest'[u] = manifest[u]
      /\ row'[u] = row[u] /\ retryCount'[u] = retryCount[u]
  BY DEF Same
<1> QED
  BY <1>1, <1>2, <1>3, <1>4 DEF Rests

(* A step moves one task: the others are as they were.                      *)
LEMMA OthersRest ==
  ASSUME \A u \in Tasks : Rests(u), NEW t \in Tasks,
         \A u \in Tasks \ {t} : Same(u) /\ SameTokens(u), Rests(t)'
  PROVE  \A u \in Tasks : Rests(u)'
<1>1. \A u \in Tasks \ {t} : Rests(u)'
  BY UnmovedRests
<1> QED
  BY <1>1

(* What is known of the worker that carries a task. *)
LEMMA Carrying ==
  ASSUME AllRest, NEW w \in Workers, pc[w] \notin {"idle", "ack"}
  PROVE  /\ TypeOK /\ job[w] \in Jobs /\ job[w].task \in Tasks /\ Carries(w, job[w].task)
         /\ OnlyCarrier(job[w].task, w)
         /\ Ahead(pc[w], job[w], manifest[job[w].task])
         /\ LocalsOK(pc[w], job[w])
         /\ api[job[w].task] = "dispatched" /\ row[job[w].task] # "none"
         /\ \A u \in Tasks : Rests(u)
<1>1. WorkersOK /\ TypeOK /\ \A u \in Tasks : Rests(u)
  BY DEF AllRest, TypeOK, WorkersOK
<1>2. job[w] \in Jobs /\ job[w].task \in Tasks
  BY <1>1, BusyHoldsTask
<1>3. Carries(w, job[w].task)
  BY DEF Carries
<1>4. OnlyCarrier(job[w].task, w)
  BY <1>2, <1>3 DEF AllRest, OneWorkerPerTask, OnlyCarrier
<1>5. api[job[w].task] = "dispatched"
  BY <1>2 DEF AllRest, OnlyDispatched
<1>6. row[job[w].task] # "none" /\ Ahead(pc[w], job[w], manifest[job[w].task])
  BY <1>1, <1>2, <1>3, <1>5 DEF Rests
<1> QED
  BY <1>1, <1>2, <1>3, <1>4, <1>5, <1>6 DEF WorkersOK

(* A worker goes on with its task, or is done with it. *)
LEMMA RestGoesOn ==
  ASSUME AllRest, NEW w \in Workers, pc[w] \notin {"idle", "ack"}, NEW t \in Tasks, t = job[w].task,
         NEW label, NEW j, Moves(w, label, j), j.task = t,
         NEW file, NEW status, NEW retries, Writes(t, file, status, retries), status # "none",
         UNCHANGED <<api, ready>>,
         IF label = "ack" THEN NoneReady(t) => Agrees(file, status, retries)
         ELSE label # "idle" /\ Ahead(label, j, file)
  PROVE  \A u \in Tasks : Rests(u)'
<1>1. TypeOK /\ OnlyCarrier(t, w) /\ api[t] = "dispatched" /\ \A u \in Tasks : Rests(u)
  BY Carrying
<1>2. \A u \in Tasks \ {t} : Same(u) /\ SameTokens(u)
  BY <1>1, OthersSame
<1>3. NoneReady(t)' = NoneReady(t) /\ api'[t] = "dispatched"
  BY <1>1 DEF NoneReady
<1>4. /\ pc'[w] = label /\ job'[w] = j
      /\ manifest'[t] = file /\ row'[t] = status /\ retryCount'[t] = retries
  BY <1>1 DEF Moves, Writes, TypeOK
<1>5. \A v \in Workers \ {w} : ~Carries(v, t)'
  BY <1>1 DEF OnlyCarrier, Carries, Moves, TypeOK
<1>6. CASE label = "ack"
  <2>1. NoneReady(t) => Agrees(manifest'[t], row'[t], retryCount'[t])
    BY <1>4, <1>6
  <2>2. \A v \in Workers : ~Carries(v, t)'
    BY <1>4, <1>5, <1>6 DEF Carries
  <2>3. Rests(t)'
    BY <1>3, <1>4, <2>1, <2>2 DEF Rests
  <2> QED
    BY <1>1, <1>2, <2>3, OthersRest
<1>7. CASE label \notin {"ack", "idle"}
  <2>1. Carries(w, t)' /\ Ahead(pc'[w], job'[w], manifest'[t])
    BY <1>4, <1>7 DEF Carries
  <2>2. ~NoCarrier(t)'
    BY <2>1 DEF NoCarrier
  <2>3. \A v \in Workers : Carries(v, t)' => Ahead(pc'[v], job'[v], manifest'[t])
    BY <1>5, <2>1
  <2>4. Rests(t)'
    BY <1>3, <1>4, <2>2, <2>3 DEF Rests
  <2> QED
    BY <1>1, <1>2, <2>4, OthersRest
<1> QED
  BY <1>6, <1>7

(* A worker that wrote its files is ahead of the row until it commits.      *)
LEMMA WriteRests ==
  ASSUME AllRest, NEW w \in Workers, pc[w] \notin {"idle", "ack"},
         NEW file, NEW after, WriteAndPersist(w, file, after),
         UNCHANGED <<api, row, retryCount, ready>>,
         Ahead("persist", With(job[w], after), file)
  PROVE  \A u \in Tasks : Rests(u)'
<1>0. PICK t \in Tasks : t = job[w].task
  BY Carrying
<1>1. TypeOK /\ job[w] \in Jobs /\ row[t] # "none"
  BY <1>0, Carrying
<1>2. With(job[w], after).task = t
  BY <1>0, <1>1, WithFields
<1>3. Moves(w, "persist", With(job[w], after))
  BY DEF WriteAndPersist, Goto, Moves, With
<1>4. Writes(t, file, row[t], retryCount[t])
  BY <1>0, <1>1, WritesNothing DEF WriteAndPersist, Writes
<1> QED
  BY <1>0, <1>1, <1>2, <1>3, <1>4, RestGoesOn

(* The steps of the handler that write what they know of the run. *)
LEMMA RestWriters ==
  ASSUME AllRest, NEW w \in Workers,
         FinishNode(w) \/ Export(w) \/ FailNode(w) \/ ClosePlan(w) \/ Rescue(w)
  PROVE  \A u \in Tasks : Rests(u)'
<1>0. pc[w] \notin {"idle", "ack"} /\ UNCHANGED <<api, row, retryCount, ready>>
  BY DEF FinishNode, Export, FailNode, ClosePlan, Rescue
<1>1. job[w] \in Jobs /\ LocalsOK(pc[w], job[w])
  BY <1>0, Carrying
<1>2. \A after : /\ With(job[w], after).after = after /\ With(job[w], after).task = job[w].task
                 /\ AtLast(With(job[w], after)) = AtLast(job[w])
  BY <1>1, WithFields DEF AtLast
<1>3. CASE FinishNode(w)
  <2>1. WriteAndPersist(w, "running", "finished") /\ (~AtLast(job[w]) \/ job[w].task \in PlanTasks)
    BY <1>3 DEF FinishNode
  <2>2. Ahead("persist", With(job[w], "finished"), "running")
    BY <1>2, <2>1 DEF Ahead
  <2> QED
    BY <1>0, <2>1, <2>2, WriteRests
<1>4. CASE Export(w)
  <2>1. WriteAndPersist(w, job[w].hand, "finished") /\ job[w].hand \in Outcomes
    BY <1>1, <1>4 DEF Export, LocalsOK
  <2>2. Ahead("persist", With(job[w], "finished"), job[w].hand)
    BY <1>2, <2>1 DEF Ahead
  <2> QED
    BY <1>0, <2>1, <2>2, WriteRests
<1>5. CASE FailNode(w)
  <2>1. WriteAndPersist(w, "failed", "failed")
    BY <1>5 DEF FailNode
  <2>2. Ahead("persist", With(job[w], "failed"), "failed")
    BY <1>2 DEF Ahead
  <2> QED
    BY <1>0, <2>1, <2>2, WriteRests
<1>6. CASE ClosePlan(w)
  <2>1. WriteAndPersist(w, "completed", "closed")
    BY <1>6 DEF ClosePlan
  <2>2. Ahead("persist", With(job[w], "closed"), "completed")
    BY <1>2 DEF Ahead
  <2> QED
    BY <1>0, <2>1, <2>2, WriteRests
<1>7. CASE Rescue(w)
  <2>1. WriteAndPersist(w, "failed", "reraise")
    BY <1>7 DEF Rescue
  <2>2. Ahead("persist", With(job[w], "reraise"), "failed")
    BY <1>2 DEF Ahead
  <2> QED
    BY <1>0, <2>1, <2>2, WriteRests
<1> QED
  BY <1>3, <1>4, <1>5, <1>6, <1>7

(* The steps of the handler that only move on. *)
LEMMA RestMovers ==
  ASSUME AllRest, NEW w \in Workers,
         MarkRunning(w) \/ Load(w) \/ StartNode(w) \/ PublishShot(w) \/ ChooseOutcome(w) \/ PersistRead(w)
  PROVE  \A u \in Tasks : Rests(u)'
<1>0. pc[w] \notin {"idle", "ack"} /\ UNCHANGED <<api, ready, retryCount>>
  BY DEF MarkRunning, Load, StartNode, PublishShot, ChooseOutcome, PersistRead, store
<1>01. PICK t \in Tasks : t = job[w].task
  BY <1>0, Carrying
<1>1. /\ TypeOK /\ job[w] \in Jobs /\ row[t] # "none" /\ LocalsOK(pc[w], job[w])
      /\ Ahead(pc[w], job[w], manifest[t])
  BY <1>0, <1>01, Carrying
<1>2. CASE MarkRunning(w)
  <2>1. PICK label, j : /\ Moves(w, label, j) /\ j.task = t
                        /\ label \notin {"idle", "ack"} /\ Ahead(label, j, manifest[t])
    <3>1. Moves(w, "load", job[w])
      BY <1>1, <1>2 DEF MarkRunning, Moves, Goto, TypeOK
    <3>2. Ahead("load", job[w], manifest[t])
      BY DEF Ahead
    <3> QED
      BY <1>01, <3>1, <3>2
  <2>2. PICK status : status = "running"
    OBVIOUS
  <2>3. Writes(t, manifest[t], status, retryCount[t])
    BY <1>01, <1>1, <1>2, <2>2, WritesNothing DEF MarkRunning, Writes
  <2> QED
    BY <1>0, <1>01, <2>1, <2>2, <2>3, RestGoesOn
<1>3. CASE Load(w)
  <2> DEFINE j == [job[w] EXCEPT !.node = 1]
  <2>1. j.task = t
    BY <1>01, <1>1 DEF Jobs
  <2>2. \/ Moves(w, "node", j)
        \/ manifest[t] \notin LegacyStatus /\ Moves(w, "except", job[w])
    BY <1>01, <1>1, <1>3 DEF Load, Moves, Goto, TypeOK, Readable
  <2>3. Writes(t, manifest[t], row[t], retryCount[t])
    BY <1>1, <1>3, WritesNothing DEF Load, store, Writes
  <2> HIDE DEF j
  <2>4. /\ Ahead("node", j, manifest[t])
        /\ manifest[t] \notin LegacyStatus => Ahead("except", job[w], manifest[t])
    BY DEF Ahead
  <2> QED
    BY <1>0, <1>01, <1>1, <2>1, <2>2, <2>3, <2>4, RestGoesOn
<1>4. CASE StartNode(w) \/ PublishShot(w)
  <2> DEFINE j1 == [job[w] EXCEPT !.after = "started", !.shot = 0]
             j2 == [job[w] EXCEPT !.after = "published", !.shot = job[w].shot + 1]
  <2>1. PICK j : Moves(w, "persist", j) /\ j.task = t /\ j.after \in {"started", "published"}
    <3>1. j1.task = t /\ j1.after = "started" /\ j2.task = t /\ j2.after = "published"
      BY <1>01, <1>1 DEF Jobs
    <3>2. Moves(w, "persist", j1) \/ Moves(w, "persist", j2)
      BY <1>4 DEF StartNode, PublishShot, Moves, Goto
    <3> HIDE DEF j1, j2
    <3> QED
      BY <3>1, <3>2
  <2>2. Writes(t, "running", row[t], retryCount[t])
    BY <1>01, <1>1, <1>4, WritesNothing DEF StartNode, PublishShot, Writes
  <2>3. Ahead("persist", j, "running")
    BY <2>1 DEF Ahead
  <2> QED
    BY <1>0, <1>01, <1>1, <2>1, <2>2, <2>3, RestGoesOn
<1>5. CASE ChooseOutcome(w)
  <2>1. PICK outcome \in Outcomes :
          /\ manifest' = [manifest EXCEPT ![t] = outcome]
          /\ job' = [job EXCEPT ![w] = [@ EXCEPT !.hand = outcome]]
    BY <1>01, <1>5 DEF ChooseOutcome
  <2> DEFINE j == [job[w] EXCEPT !.hand = outcome]
  <2>2. j.task = t
    BY <1>01, <1>1 DEF Jobs
  <2>3. Moves(w, "export", j)
    BY <1>5, <2>1 DEF ChooseOutcome, Goto, Moves
  <2>4. Writes(t, outcome, row[t], retryCount[t])
    BY <1>1, <1>5, <2>1, WritesNothing DEF ChooseOutcome, Writes
  <2> HIDE DEF j
  <2>5. Ahead("export", j, outcome)
    BY DEF Ahead
  <2> QED
    BY <1>0, <1>01, <1>1, <2>2, <2>3, <2>4, <2>5, RestGoesOn
<1>6. CASE PersistRead(w)
  <2> DEFINE j == [job[w] EXCEPT !.hand = manifest[t]]
  <2>1. j.task = t /\ j.after = job[w].after /\ j.node = job[w].node /\ j.hand = manifest[t]
    BY <1>01, <1>1 DEF Jobs
  <2>2. \/ Moves(w, "commit", j)
        \/ manifest[t] \notin LegacyStatus /\ Moves(w, EscapeTo(job[w].after), job[w])
    BY <1>01, <1>1, <1>6 DEF PersistRead, Moves, Goto, TypeOK, Readable
  <2>3. Writes(t, manifest[t], row[t], retryCount[t])
    BY <1>1, <1>6, WritesNothing DEF PersistRead, store, Writes
  <2> HIDE DEF j
  <2>4. Ahead("commit", j, manifest[t])
    BY <1>01, <1>1, <1>6, <2>1 DEF PersistRead, Ahead, AtLast
  <2>5. /\ EscapeTo(job[w].after) \in {"fail", "except", "rescue"}
        /\ manifest[t] \notin LegacyStatus => Ahead(EscapeTo(job[w].after), job[w], manifest[t])
    BY DEF EscapeTo, Ahead
  <2> QED
    BY <1>0, <1>01, <1>1, <2>1, <2>2, <2>3, <2>4, <2>5, RestGoesOn
<1> QED
  BY <1>2, <1>3, <1>4, <1>5, <1>6

(* The transaction of a publication, and where the handler goes. *)
LEMMA RestCommit ==
  ASSUME AllRest, NEW w \in Workers, PersistCommit(w)
  PROVE  \A u \in Tasks : Rests(u)'
<1>0. pc[w] = "commit" /\ UNCHANGED <<api, ready, retryCount>>
  BY DEF PersistCommit
<1>01. PICK t \in Tasks : t = job[w].task
  BY <1>0, Carrying
<1>1. /\ TypeOK /\ job[w] \in Jobs
      /\ Ahead("commit", job[w], manifest[t]) /\ job[w].hand = manifest[t] /\ manifest[t] \in LegacyStatus
  BY <1>0, <1>01, Carrying DEF LocalsOK, Ahead
<1>02. PICK status : status = MapStatus[manifest[t]]
  OBVIOUS
<1>2. Writes(t, manifest[t], status, retryCount[t])
  BY <1>01, <1>02, <1>1, WritesNothing DEF PersistCommit, Writes
<1>3. status # "none" /\ (status = "failed" => manifest[t] = "failed")
  BY <1>02, <1>1 DEF MapStatus, LegacyStatus, Settled
<1> DEFINE Stepped == [job[w] EXCEPT !.after = "none", !.hand = "none", !.node = job[w].node + 1]
<1>4. Stepped.task = t
  BY <1>01, <1>1 DEF Jobs
<1>5. \A after : With(job[w], after).after = after /\ With(job[w], after).task = t
  BY <1>01, <1>1, WithFields
<1>6. \/ Moves(w, "handler", With(job[w], "none"))
      \/ Moves(w, "node", Stepped)
      \/ Moves(w, "close", With(job[w], "none"))
      \/ job[w].after = "finished" /\ AtLast(job[w]) /\ job[w].task \notin PlanTasks
            /\ Moves(w, "persist", With(job[w], "done"))
      \/ job[w].after = "closed" /\ Moves(w, "persist", With(job[w], "done"))
      \/ job[w].after = "failed" /\ Moves(w, "persist", With(job[w], "reraise"))
      \/ job[w].after = "reraise" /\ Moves(w, "except", With(job[w], "none"))
      \/ job[w].after = "done" /\ Moves(w, "ack", With(job[w], "none"))
  BY <1>1 DEF PersistCommit, Resume, Goto, Moves, With, TypeOK
<1> HIDE DEF Stepped
<1>7. PICK label, j :
        /\ Moves(w, label, j) /\ j.task = t
        /\ IF label = "ack" THEN NoneReady(t) => Agrees(manifest[t], status, retryCount[t])
           ELSE label # "idle" /\ Ahead(label, j, manifest[t])
  <2>1. CASE Moves(w, "handler", With(job[w], "none"))
    BY <1>5, <2>1 DEF Ahead
  <2>2. CASE Moves(w, "node", Stepped)
    BY <1>4, <2>2 DEF Ahead
  <2>3. CASE Moves(w, "close", With(job[w], "none"))
    BY <1>5, <2>3 DEF Ahead
  <2>4. CASE /\ Moves(w, "persist", With(job[w], "done"))
             /\ \/ job[w].after = "closed"
                \/ job[w].after = "finished" /\ AtLast(job[w]) /\ job[w].task \notin PlanTasks
    <3>1. manifest[t] \in Outcomes \cup {"completed"}
      BY <1>1, <2>4 DEF Ahead
    <3>2. Ahead("persist", With(job[w], "done"), manifest[t])
      BY <1>5, <3>1 DEF Ahead
    <3> QED
      BY <1>5, <2>4, <3>2
  <2>5. CASE job[w].after = "failed" /\ Moves(w, "persist", With(job[w], "reraise"))
    <3>1. Ahead("persist", With(job[w], "reraise"), manifest[t])
      BY <1>1, <1>5, <2>5 DEF Ahead
    <3> QED
      BY <1>5, <2>5, <3>1
  <2>6. CASE job[w].after = "reraise" /\ Moves(w, "except", With(job[w], "none"))
    <3>1. Ahead("except", With(job[w], "none"), manifest[t])
      BY <1>1, <1>5, <2>6 DEF Ahead
    <3> QED
      BY <1>5, <2>6, <3>1
  <2>7. CASE job[w].after = "done" /\ Moves(w, "ack", With(job[w], "none"))
    <3>1. manifest[t] \in Outcomes \cup {"completed"}
      BY <1>1, <2>7 DEF Ahead
    <3>2. Agrees(manifest[t], status, retryCount[t])
      BY <1>02, <1>3, <3>1 DEF Agrees
    <3> QED
      BY <1>5, <2>7, <3>2
  <2> QED
    BY <1>6, <2>1, <2>2, <2>3, <2>4, <2>5, <2>6, <2>7
<1> QED
  BY <1>0, <1>01, <1>2, <1>3, <1>7, RestGoesOn

(* The except clause of the handler: a retry is recorded, or the failure. *)
LEMMA RestExcept ==
  ASSUME AllRest, NEW w \in Workers, MarkRetrying(w) \/ MarkFailed(w)
  PROVE  \A u \in Tasks : Rests(u)'
<1>0. pc[w] = "except" /\ UNCHANGED <<api, ready, manifest>>
  BY DEF MarkRetrying, MarkFailed
<1>01. PICK t \in Tasks : t = job[w].task
  BY <1>0, Carrying
<1>1. /\ TypeOK /\ job[w] \in Jobs /\ row[t] # "none"
      /\ Ahead("except", job[w], manifest[t])
  BY <1>0, <1>01, Carrying
<1>2. CASE MarkRetrying(w)
  <2>1. PICK label, j : /\ Moves(w, label, j) /\ j.task = t
                        /\ label \notin {"idle", "ack"} /\ Ahead(label, j, manifest[t])
    <3>1. Moves(w, "republish", job[w])
      BY <1>1, <1>2 DEF MarkRetrying, Moves, Goto, TypeOK
    <3>2. Ahead("republish", job[w], manifest[t])
      BY <1>1 DEF Ahead
    <3> QED
      BY <1>01, <3>1, <3>2
  <2>2. PICK status, count : status = "queued" /\ count = job[w].retries + 1
    OBVIOUS
  <2>3. Writes(t, manifest[t], status, count)
    BY <1>0, <1>01, <1>1, <1>2, <2>2, WritesNothing DEF MarkRetrying, Writes
  <2> QED
    BY <1>0, <1>01, <2>1, <2>2, <2>3, RestGoesOn
<1>3. CASE MarkFailed(w)
  <2>1. Moves(w, "ack", job[w])
    BY <1>1, <1>3 DEF MarkFailed, Moves, Goto, TypeOK
  <2>2. Writes(t, manifest[t], "failed", MaxRetries)
    BY <1>0, <1>01, <1>1, <1>3, WritesNothing DEF MarkFailed, Writes
  <2>3. Agrees(manifest[t], "failed", MaxRetries)
    BY <1>1 DEF Ahead, Agrees, MapStatus
  <2> QED
    BY <1>0, <1>01, <2>1, <2>2, <2>3, RestGoesOn
<1> QED
  BY <1>2, <1>3

(* A delivery that goes back to the broker, after a retry or a crash. *)
LEMMA RestReturns ==
  ASSUME AllRest, NEW w \in Workers, Republish(w) \/ Crash(w)
  PROVE  \A u \in Tasks : Rests(u)'
<1>a. /\ TypeOK /\ WorkersOK /\ pc[w] # "idle" /\ \A u \in Tasks : Rests(u)
  BY DEF AllRest, TypeOK, WorkersOK, Republish, Crash
<1>b. PICK t \in Tasks : t = job[w].task
  BY <1>a, BusyHoldsTask
<1>c. PICK r \in 0..MaxRetries : Adds(t, r)
  <2>1. job[w] \in Jobs /\ job[w].retries \in 0..MaxRetries
    BY <1>a, BusyHoldsTask DEF Jobs
  <2>2. CASE Crash(w)
    BY <1>b, <2>1, <2>2 DEF Crash, Adds, Messages
  <2>3. CASE Republish(w)
    <3>1. job[w].retries + 1 \in 0..MaxRetries
      BY <1>a, <2>1, <2>3, TaskRunAssumption DEF Republish, WorkersOK, LocalsOK
    <3> QED
      BY <1>b, <2>3, <3>1 DEF Republish, Adds, Messages
  <2> QED
    BY <2>2, <2>3
<1>1. /\ UNCHANGED <<api, row, retryCount>> /\ pc'[w] \in {"idle", "ack"}
      /\ \A v \in Workers \ {w} : pc'[v] = pc[v] /\ job'[v] = job[v]
      /\ \A u \in Tasks \ {t} : manifest'[u] = manifest[u]
      /\ pc[w] \in {"ack"} => manifest' = manifest
  BY <1>a, <1>b DEF Republish, Crash, Goto, store, TypeOK, Writing
<1>2. ~NoneReady(t)'
  BY <1>a, <1>c DEF Adds, NoneReady, TypeOK
<1>3. ASSUME NEW v \in Workers, Carries(v, t)'
      PROVE  Ahead(pc'[v], job'[v], manifest'[t])
  <2>1. v # w
    BY <1>1, <1>3 DEF Carries
  <2>2. Carries(v, t) /\ pc'[v] = pc[v] /\ job'[v] = job[v]
    BY <1>1, <1>3, <2>1 DEF Carries
  <2>3. ~Carries(w, t)
    BY <2>1, <2>2 DEF AllRest, OneWorkerPerTask
  <2>4. manifest'[t] = manifest[t]
    BY <1>a, <1>b, <1>1, <2>3 DEF Carries
  <2> QED
    BY <1>a, <2>2, <2>4 DEF Rests
<1>4. api'[t] = api[t] /\ row'[t] = row[t]
  BY <1>1
<1>5. Rests(t)'
  BY <1>a, <1>2, <1>3, <1>4 DEF Rests
<1>6. ASSUME NEW u \in Tasks \ {t} PROVE Same(u) /\ SameTokens(u)
  <2>1. Same(u)
    BY <1>1, <1>6 DEF Same
  <2>2. \A q \in 0..MaxRetries : ready'[<<u, q>>] = ready[<<u, q>>]
    BY <1>a, <1>c, <1>6 DEF Adds, TypeOK, Messages
  <2>3. ~Carries(w, u) /\ ~Carries(w, u)'
    BY <1>b, <1>1, <1>6 DEF Carries
  <2> QED
    BY <1>1, <2>1, <2>2, <2>3 DEF SameTokens, Carries
<1> QED
  BY <1>a, <1>5, <1>6, OthersRest

(* A delivery that is taken or acknowledged. *)
LEMMA RestTakes ==
  ASSUME AllRest, NEW w \in Workers, Ack(w) \/ \E m \in Messages : Receive(w, m)
  PROVE  \A u \in Tasks : Rests(u)'
<1>a. TypeOK /\ \A u \in Tasks : Rests(u)
  BY DEF AllRest
<1>1. CASE Ack(w)
  <2>1. ASSUME NEW u \in Tasks PROVE Same(u) /\ SameTokens(u)
    <3>1. UNCHANGED <<api, manifest, row, retryCount, ready>>
      BY <1>1 DEF Ack, store
    <3>2. ~Carries(w, u) /\ ~Carries(w, u)'
      BY <1>1, <1>a DEF Ack, Goto, Carries, TypeOK
    <3>3. \A v \in Workers \ {w} : pc'[v] = pc[v] /\ job'[v] = job[v]
      BY <1>1, <1>a DEF Ack, Goto, TypeOK
    <3> QED
      BY <3>1, <3>2, <3>3 DEF Same, SameTokens, Carries
  <2> QED
    BY <1>a, <2>1, UnmovedRests
<1>2. ASSUME NEW m \in Messages, Receive(w, m) PROVE \A u \in Tasks : Rests(u)'
  <2>0. PICK t \in Tasks, r \in 0..MaxRetries : m = <<t, r>>
    BY DEF Messages
  <2>1. pc[w] = "idle" /\ pc'[w] = "mark" /\ job'[w].task = t
    BY <1>2, <1>a, <2>0 DEF Receive, Goto, TypeOK, NoJob
  <2>2. \A v \in Workers \ {w} : pc'[v] = pc[v] /\ job'[v] = job[v]
    BY <1>2, <1>a DEF Receive, Goto, TypeOK
  <2>3. UNCHANGED <<api, manifest, row, retryCount>>
    BY <1>2 DEF Receive, store
  <2>4. ASSUME NEW v \in Workers, Carries(v, t)' PROVE Ahead(pc'[v], job'[v], manifest'[t])
    <3>1. CASE v = w
      BY <2>1, <3>1 DEF Ahead
    <3>2. CASE v # w
      <4>1. Carries(v, t) /\ pc'[v] = pc[v] /\ job'[v] = job[v]
        BY <2>2, <2>4, <3>2 DEF Carries
      <4> QED
        BY <1>a, <2>3, <4>1 DEF Rests
    <3> QED
      BY <3>1, <3>2
  <2>5. ~NoCarrier(t)'
    BY <2>1 DEF NoCarrier, Carries
  <2>6. Rests(t)'
    BY <1>a, <2>3, <2>4, <2>5 DEF Rests
  <2>7. ASSUME NEW u \in Tasks \ {t} PROVE Same(u) /\ SameTokens(u)
    <3>1. Same(u)
      BY <2>3 DEF Same
    <3>2. \A q \in 0..MaxRetries : ready'[<<u, q>>] = ready[<<u, q>>]
      BY <1>2, <1>a, <2>0, <2>7 DEF Receive, TypeOK, Messages
    <3>3. ~Carries(w, u) /\ ~Carries(w, u)'
      BY <2>1, <2>7 DEF Carries
    <3> QED
      BY <2>2, <3>1, <3>2, <3>3 DEF SameTokens, Carries
  <2> QED
    BY <1>a, <2>6, <2>7, OthersRest
<1> QED
  BY <1>1, <1>2

(* The request. *)
LEMMA RestRequests ==
  ASSUME AllRest, NEW t \in Tasks, SaveInputs(t) \/ CreateRecord(t) \/ Dispatch(t)
  PROVE  \A u \in Tasks : Rests(u)'
<1>a. TypeOK /\ (\A u \in Tasks : Rests(u)) /\ NoneReady(t) /\ \A w \in Workers : job[w].task # t
  BY DEF AllRest, OnlyDispatched, SaveInputs, CreateRecord, Dispatch
<1>1. /\ UNCHANGED <<pc, job>>
      /\ \A u \in Tasks \ {t} : /\ api'[u] = api[u] /\ manifest'[u] = manifest[u]
                                /\ row'[u] = row[u] /\ retryCount'[u] = retryCount[u]
      /\ \A u \in Tasks \ {t}, q \in 0..MaxRetries : ready'[<<u, q>>] = ready[<<u, q>>]
  BY <1>a DEF SaveInputs, CreateRecord, Dispatch, store, TypeOK, Messages
<1>2. \A u \in Tasks \ {t} : Same(u) /\ SameTokens(u)
  BY <1>1 DEF Same, SameTokens, Carries
<1>3. \A w \in Workers : ~Carries(w, t)'
  BY <1>a, <1>1 DEF Carries
<1>4. api'[t] \in {"recorded", "dispatched"} => row'[t] # "none"
  BY <1>a DEF SaveInputs, CreateRecord, Dispatch, Rests, store, TypeOK
<1>5. api'[t] = "dispatched" => ~NoneReady(t)'
  <2>1. CASE SaveInputs(t) \/ CreateRecord(t)
    BY <1>a, <2>1 DEF SaveInputs, CreateRecord, TypeOK
  <2>2. CASE Dispatch(t)
    <3>1. 0 \in 0..MaxRetries /\ <<t, 0>> \in Messages
      BY TaskRunAssumption DEF Messages
    <3> QED
      BY <1>a, <2>2, <3>1 DEF Dispatch, NoneReady, TypeOK
  <2> QED
    BY <2>1, <2>2
<1>6. Rests(t)'
  BY <1>3, <1>4, <1>5 DEF Rests
<1> QED
  BY <1>a, <1>2, <1>6, OthersRest

(* A step that leaves nothing disturbed. *)
LEMMA UndisturbedBack ==
  ASSUME TypeOK, [Next]_vars, Undisturbed'
  PROVE  /\ Undisturbed
         /\ \/ UNCHANGED vars
            \/ \E t \in Tasks : SaveInputs(t) \/ CreateRecord(t) \/ Dispatch(t)
            \/ \E w \in Workers : WorkerStep(w) \/ Crash(w)
<1>1. faults \in Nat /\ losses \in Nat
  BY TaskRunAssumption DEF TypeOK
<1>2. faults' = 0 /\ losses' = 0
  BY DEF Undisturbed
<1>3. ~\E t \in Tasks : RequestFails(t)
  BY <1>1, <1>2 DEF RequestFails
<1>4. ASSUME NEW w \in Workers PROVE ~StoreFails(w) /\ ~LoseChild(w)
  BY <1>1, <1>2 DEF StoreFails, LoseChild
<1>5. \/ UNCHANGED vars
      \/ \E t \in Tasks : SaveInputs(t) \/ CreateRecord(t) \/ Dispatch(t)
      \/ \E w \in Workers : WorkerStep(w) \/ Crash(w)
  BY <1>3, <1>4, Zenon DEF Next
<1>6. UNCHANGED <<faults, losses>>
  <2>1. CASE UNCHANGED vars
    BY <2>1 DEF vars, counters
  <2>2. CASE \E t \in Tasks : SaveInputs(t) \/ CreateRecord(t) \/ Dispatch(t)
    BY <2>2 DEF SaveInputs, CreateRecord, Dispatch, counters
  <2>3. ASSUME NEW w \in Workers, WorkerStep(w) \/ Crash(w) PROVE UNCHANGED <<faults, losses>>
    BY <2>3 DEF WorkerStep, HandlerStep, Receive, MarkRunning, Load, StartNode, PublishShot, FinishNode,
       ChooseOutcome, Export, FailNode, ClosePlan, Rescue, PersistRead, PersistCommit, MarkRetrying,
       MarkFailed, Republish, Ack, Crash, counters
  <2> QED
    BY <1>5, <2>1, <2>2, <2>3
<1> QED
  BY <1>2, <1>5, <1>6 DEF Undisturbed

(* Every step that disturbs nothing leaves each row in agreement or awaited.*)
LEMMA RestStep ==
  ASSUME TypeOK, OnlyDispatched, OneWorkerPerTask, Undisturbed => \A u \in Tasks : Rests(u),
         [Next]_vars, Undisturbed'
  PROVE  \A u \in Tasks : Rests(u)'
<1>1. /\ Undisturbed
      /\ \/ UNCHANGED vars
         \/ \E t \in Tasks : SaveInputs(t) \/ CreateRecord(t) \/ Dispatch(t)
         \/ \E w \in Workers : WorkerStep(w) \/ Crash(w)
  BY UndisturbedBack
<1>2. AllRest
  BY <1>1 DEF AllRest
<1>3. CASE UNCHANGED vars
  <2>1. \A u \in Tasks : Same(u) /\ SameTokens(u)
    BY <1>3 DEF vars, store, Same, SameTokens, Carries
  <2> QED
    BY <1>2, <2>1, UnmovedRests DEF AllRest
<1>4. CASE \E t \in Tasks : SaveInputs(t) \/ CreateRecord(t) \/ Dispatch(t)
  BY <1>2, <1>4, RestRequests
<1>5. ASSUME NEW w \in Workers, WorkerStep(w) \/ Crash(w) PROVE \A u \in Tasks : Rests(u)'
  BY <1>2, <1>5, RestWriters, RestMovers, RestCommit, RestExcept, RestReturns, RestTakes
     DEF WorkerStep, HandlerStep
<1> QED
  BY <1>1, <1>3, <1>4, <1>5

-----------------------------------------------------------------------------
(* The row says nothing of images that were not exported.                   *)
Announced(status) == status \in {"succeeded", "partial_failed"}

AllSound == /\ TypeOK /\ OnlyDispatched /\ \A u \in Tasks : OneDelivery(u)
            /\ \A u \in Tasks \ PlanTasks : Backed(u)

Untouched(u) ==
  /\ api'[u] = api[u] /\ manifest'[u] = manifest[u] /\ row'[u] = row[u] /\ exported'[u] = exported[u]
  /\ \A r \in 0..MaxRetries : ready'[<<u, r>>] = ready[<<u, r>>]
  /\ \A v \in Workers : Carries(v, u)' => Carries(v, u) /\ pc'[v] = pc[v] /\ job'[v] = job[v]

(* A task that a step does not touch.                                       *)
LEMMA UntouchedBacked ==
  ASSUME NEW u \in Tasks, Backed(u), Untouched(u)
  PROVE  Backed(u)'
<1>1. NoneReady(u)' = NoneReady(u) /\ Shown(u)' = Shown(u)
  BY DEF Untouched, NoneReady, Shown
<1>2. ASSUME NEW w \in Workers, Carries(w, u)', pc'[w] # "export"
      PROVE  /\ Shown(u)' /\ pc'[w] # "close"
             /\ pc'[w] = "commit" /\ job'[w].hand \in Success => exported'[u]
  <2>1. Carries(w, u) /\ pc'[w] = pc[w] /\ job'[w] = job[w] /\ exported'[u] = exported[u]
    BY <1>2 DEF Untouched
  <2> QED
    BY <1>1, <1>2, <2>1 DEF Backed
<1>3. api'[u] = api[u] /\ row'[u] = row[u] /\ exported'[u] = exported[u]
  BY DEF Untouched
<1> QED
  BY <1>1, <1>2, <1>3 DEF Backed

(* What a step of a handler leaves of its task. *)
Leaves(t, file, status, zip) ==
  /\ manifest' = [manifest EXCEPT ![t] = file]
  /\ row' = [row EXCEPT ![t] = status]
  /\ exported' = [exported EXCEPT ![t] = zip]
  /\ UNCHANGED <<api, ready>>

(* What is left alone is written back as it was.                            *)
LEMMA LeavesAsItIs ==
  ASSUME TypeOK, NEW t \in Tasks
  PROVE  /\ UNCHANGED manifest => manifest' = [manifest EXCEPT ![t] = manifest[t]]
         /\ UNCHANGED row => row' = [row EXCEPT ![t] = row[t]]
         /\ UNCHANGED exported => exported' = [exported EXCEPT ![t] = exported[t]]
BY DEF TypeOK

Sound(label, j, file, status, zip) ==
  /\ label \notin {"idle", "ack", "export"} =>
       /\ label # "close" /\ (file \in Success => zip)
       /\ label = "commit" /\ j.hand \in Success => zip
  /\ Announced(status) => zip

(* What is known of the task that a worker carries.                         *)
LEMMA Bearing ==
  ASSUME AllSound, NEW w \in Workers, pc[w] \notin {"idle", "ack"}
  PROVE  /\ TypeOK /\ job[w] \in Jobs /\ job[w].task \in Tasks /\ Carries(w, job[w].task)
         /\ OnlyCarrier(job[w].task, w) /\ NoneReady(job[w].task)
         /\ LocalsOK(pc[w], job[w]) /\ api[job[w].task] = "dispatched"
         /\ job[w].task \notin PlanTasks =>
              /\ pc[w] # "export" =>
                   /\ pc[w] # "close" /\ (manifest[job[w].task] \in Success => exported[job[w].task])
                   /\ pc[w] = "commit" /\ job[w].hand \in Success => exported[job[w].task]
              /\ Announced(row[job[w].task]) => exported[job[w].task]
<1>1. WorkersOK /\ TypeOK
  BY DEF AllSound, TypeOK, WorkersOK
<1>2. PICK t \in Tasks : t = job[w].task /\ job[w] \in Jobs
  BY <1>1, BusyHoldsTask
<1>3. Carries(w, t)
  BY <1>2 DEF Carries
<1>4. OnlyCarrier(t, w) /\ NoneReady(t)
  BY <1>3 DEF AllSound, OneDelivery, NoCarrier, OnlyCarrier
<1>5. api[t] = "dispatched"
  BY <1>2 DEF AllSound, OnlyDispatched
<1>6. t \notin PlanTasks => Backed(t)
  BY DEF AllSound
<1>7. t \notin PlanTasks =>
        /\ pc[w] # "export" =>
             /\ pc[w] # "close" /\ (manifest[t] \in Success => exported[t])
             /\ pc[w] = "commit" /\ job[w].hand \in Success => exported[t]
        /\ Announced(row[t]) => exported[t]
  BY <1>3, <1>6 DEF Backed, Shown, Announced
<1> QED
  BY <1>1, <1>2, <1>3, <1>4, <1>5, <1>7 DEF WorkersOK

(* A worker that moves on and stays sound keeps every task backed.          *)
LEMMA SoundGoesOn ==
  ASSUME AllSound, NEW w \in Workers, pc[w] \notin {"idle", "ack"}, NEW t \in Tasks, t = job[w].task,
         NEW label, NEW j, Moves(w, label, j), label \in {"idle", "ack"} \/ j.task = t,
         NEW file, NEW status, NEW zip, Leaves(t, file, status, zip),
         t \notin PlanTasks => Sound(label, j, file, status, zip)
  PROVE  \A u \in Tasks \ PlanTasks : Backed(u)'
<1>1. TypeOK /\ OnlyCarrier(t, w) /\ NoneReady(t) /\ api[t] = "dispatched"
  BY Bearing
<1>2. /\ pc'[w] = label /\ job'[w] = j
      /\ \A v \in Workers \ {w} : pc'[v] = pc[v] /\ job'[v] = job[v]
  BY <1>1 DEF Moves, TypeOK
<1>3. ASSUME NEW u \in Tasks \ {t} PROVE Untouched(u)
  <2>1. ~Carries(w, u)'
    BY <1>2 DEF Carries
  <2> QED
    BY <1>1, <1>2, <2>1 DEF Untouched, Leaves, TypeOK, Carries
<1>4. CASE t \notin PlanTasks
  <2>1. /\ manifest'[t] = file /\ row'[t] = status /\ exported'[t] = zip
        /\ api'[t] = "dispatched" /\ NoneReady(t)'
    BY <1>1 DEF Leaves, TypeOK, NoneReady
  <2>2. \A v \in Workers : Carries(v, t)' => v = w
    BY <1>1, <1>2 DEF OnlyCarrier, Carries
  <2>3. Carries(w, t)' => label \notin {"idle", "ack"}
    BY <1>2 DEF Carries
  <2>4. Backed(t)'
    BY <1>2, <1>4, <2>1, <2>2, <2>3 DEF Backed, Shown, Sound, Announced
  <2> QED
    BY <1>3, <2>4, UntouchedBacked DEF AllSound
<1> QED
  BY <1>3, <1>4, UntouchedBacked DEF AllSound

(* The steps of a worker that write its files.                              *)
LEMMA SoundWriters ==
  ASSUME AllSound, NEW w \in Workers,
         FinishNode(w) \/ Export(w) \/ FailNode(w) \/ ClosePlan(w) \/ Rescue(w)
  PROVE  \A u \in Tasks \ PlanTasks : Backed(u)'
<1>0. pc[w] \notin {"idle", "ack"} /\ UNCHANGED <<api, row, retryCount, ready>>
  BY DEF FinishNode, Export, FailNode, ClosePlan, Rescue
<1>01. PICK t \in Tasks : t = job[w].task
  BY <1>0, Bearing
<1>1. TypeOK /\ job[w] \in Jobs
  BY <1>0, <1>01, Bearing
<1>2. PICK file, after : WriteAndPersist(w, file, after) /\ (pc[w] \in {"export", "close"} \/ file \notin Success)
  BY DEF FinishNode, Export, FailNode, ClosePlan, Rescue, Success
<1>3. PICK zip : /\ exported' = [exported EXCEPT ![t] = zip]
                 /\ t \notin PlanTasks => (Announced(row[t]) => zip)
                 /\ t \notin PlanTasks => (manifest'[t] \in Success => zip)
  <2>1. CASE Export(w)
    BY <1>01, <2>1 DEF Export
  <2>2. CASE FinishNode(w) \/ FailNode(w) \/ ClosePlan(w) \/ Rescue(w)
    <3>1. exported' = [exported EXCEPT ![t] = exported[t]]
      BY <1>1, <2>2, LeavesAsItIs DEF FinishNode, FailNode, ClosePlan, Rescue
    <3>2. t \notin PlanTasks => manifest'[t] \notin Success
      <4>1. t \notin PlanTasks => ~ClosePlan(w)
        BY <1>0, <1>01, Bearing DEF ClosePlan
      <4> QED
        BY <1>01, <1>1, <2>2, <4>1 DEF FinishNode, FailNode, Rescue, WriteAndPersist, Success, TypeOK
    <3>3. t \notin PlanTasks => (Announced(row[t]) => exported[t])
      BY <1>0, <1>01, Bearing
    <3> QED
      BY <3>1, <3>2, <3>3
  <2> QED
    BY <2>1, <2>2
<1>4. With(job[w], after).task = t
  BY <1>01, <1>1, WithFields
<1>5. Moves(w, "persist", With(job[w], after))
  BY <1>2 DEF WriteAndPersist, Goto, Moves, With
<1>6. manifest' = [manifest EXCEPT ![t] = file] /\ manifest'[t] = file
  BY <1>01, <1>1, <1>2 DEF WriteAndPersist, TypeOK
<1>7. Leaves(t, file, row[t], zip)
  BY <1>0, <1>1, <1>3, <1>6, LeavesAsItIs DEF Leaves
<1>8. t \notin PlanTasks => Sound("persist", With(job[w], after), file, row[t], zip)
  BY <1>3, <1>6 DEF Sound
<1> QED
  BY <1>0, <1>01, <1>4, <1>5, <1>7, <1>8, SoundGoesOn

(* The other steps of a handler. *)
LEMMA SoundMovers ==
  ASSUME AllSound, NEW w \in Workers,
         \/ MarkRunning(w) \/ Load(w) \/ StartNode(w) \/ PublishShot(w) \/ ChooseOutcome(w) \/ PersistRead(w)
         \/ MarkRetrying(w) \/ MarkFailed(w) \/ StoreFails(w) \/ LoseChild(w)
  PROVE  \A u \in Tasks \ PlanTasks : Backed(u)'
<1>0. UNCHANGED <<api, ready, exported>>
  BY DEF MarkRunning, Load, StartNode, PublishShot, ChooseOutcome, PersistRead, MarkRetrying, MarkFailed,
     StoreFails, LoseChild, store
<1>01. CASE pc[w] = "ack"
  <2>1. LoseChild(w)
    BY <1>01 DEF MarkRunning, Load, StartNode, PublishShot, ChooseOutcome, PersistRead, MarkRetrying,
       MarkFailed, StoreFails
  <2>2. ASSUME NEW u \in Tasks PROVE Untouched(u)
    <3>1. \A v \in Workers \ {w} : pc'[v] = pc[v] /\ job'[v] = job[v]
      BY <2>1 DEF LoseChild, Goto, AllSound, TypeOK
    <3>2. ~Carries(w, u)'
      BY <2>1 DEF LoseChild, Goto, AllSound, TypeOK, Carries
    <3> QED
      BY <2>1, <3>1, <3>2 DEF LoseChild, store, Untouched, Carries
  <2> QED
    BY <2>2, UntouchedBacked DEF AllSound
<1>02. CASE pc[w] # "ack"
  <2>0. pc[w] \notin {"idle", "ack"}
    BY <1>02 DEF MarkRunning, Load, StartNode, PublishShot, ChooseOutcome, PersistRead, MarkRetrying, MarkFailed,
       StoreFails, LoseChild
  <2>01. PICK t \in Tasks : t = job[w].task
    BY <2>0, Bearing
  <2>02. /\ TypeOK /\ job[w] \in Jobs
         /\ t \notin PlanTasks =>
              /\ pc[w] # "export" =>
                   /\ pc[w] # "close" /\ (manifest[t] \in Success => exported[t])
                   /\ pc[w] = "commit" /\ job[w].hand \in Success => exported[t]
              /\ Announced(row[t]) => exported[t]
    BY <2>0, <2>01, Bearing
  <2>03. exported' = [exported EXCEPT ![t] = exported[t]]
    BY <1>0, <2>02, LeavesAsItIs
  <2>1. PICK label, j, file, status :
          /\ Moves(w, label, j) /\ (label \in {"idle", "ack"} \/ j.task = t)
          /\ manifest' = [manifest EXCEPT ![t] = file] /\ row' = [row EXCEPT ![t] = status]
          /\ t \notin PlanTasks => Sound(label, j, file, status, exported[t])
    <3>1. CASE MarkRunning(w) \/ MarkRetrying(w) \/ MarkFailed(w)
      <4>1. PICK label \in {"load", "republish", "ack"} : Moves(w, label, job[w])
        BY <2>02, <3>1 DEF MarkRunning, MarkRetrying, MarkFailed, Goto, Moves, TypeOK
      <4>2. manifest' = [manifest EXCEPT ![t] = manifest[t]]
        BY <2>02, <3>1, LeavesAsItIs DEF MarkRunning, MarkRetrying, MarkFailed
      <4>3. PICK status \in {"none", "running", "queued", "failed"} : row' = [row EXCEPT ![t] = status]
        <5>1. CASE row[t] = "none"
          BY <2>01, <2>02, <3>1, <5>1 DEF MarkRunning, MarkRetrying, MarkFailed
        <5>2. CASE row[t] # "none"
          BY <2>01, <2>02, <3>1, <5>2 DEF MarkRunning, MarkRetrying, MarkFailed
        <5> QED
          BY <5>1, <5>2
      <4>4. t \notin PlanTasks => Sound(label, job[w], manifest[t], status, exported[t])
        BY <2>02, <3>1, <4>1 DEF MarkRunning, MarkRetrying, MarkFailed, Sound, Announced
      <4> QED
        BY <2>01, <4>1, <4>2, <4>3, <4>4
    <3>2. CASE Load(w) \/ PersistRead(w) \/ StoreFails(w) \/ LoseChild(w)
      <4>1. PICK label, j :
              /\ Moves(w, label, j) /\ (label \in {"idle", "ack"} \/ j.task = t)
              /\ label \notin {"export", "close"}
              /\ label = "commit" => j.hand = manifest[t]
              /\ label = "idle" \/ pc[w] # "export"
        <5> DEFINE jn == [job[w] EXCEPT !.node = 1]
                   jh == [job[w] EXCEPT !.hand = manifest[t]]
        <5>1. jn.task = t /\ jh.task = t /\ jh.hand = manifest[t]
          BY <2>01, <2>02 DEF Jobs
        <5>2. \/ Moves(w, "node", jn) /\ pc[w] # "export"
              \/ Moves(w, "commit", jh) /\ pc[w] # "export"
              \/ /\ pc[w] # "export"
                 /\ \E label \in {"except", "fail", "rescue", "ack"} : Moves(w, label, job[w])
              \/ Moves(w, "idle", NoJob)
          BY <2>01, <2>02, <3>2 DEF Load, PersistRead, StoreFails, LoseChild, EscapeTo, Goto, Moves, TypeOK
        <5> HIDE DEF jn, jh
        <5> QED
          BY <2>01, <5>1, <5>2
      <4>2. manifest' = [manifest EXCEPT ![t] = manifest[t]] /\ row' = [row EXCEPT ![t] = row[t]]
        BY <2>02, <3>2, LeavesAsItIs DEF Load, PersistRead, StoreFails, LoseChild, store
      <4>3. t \notin PlanTasks => Sound(label, j, manifest[t], row[t], exported[t])
        BY <2>02, <4>1 DEF Sound
      <4> QED
        BY <4>1, <4>2, <4>3
    <3>3. CASE StartNode(w) \/ PublishShot(w)
      <4> DEFINE j1 == [job[w] EXCEPT !.after = "started", !.shot = 0]
                 j2 == [job[w] EXCEPT !.after = "published", !.shot = job[w].shot + 1]
      <4>1. PICK j : Moves(w, "persist", j) /\ j.task = t
        <5>1. j1.task = t /\ j2.task = t
          BY <2>01, <2>02 DEF Jobs
        <5>2. Moves(w, "persist", j1) \/ Moves(w, "persist", j2)
          BY <3>3 DEF StartNode, PublishShot, Moves, Goto
        <5> HIDE DEF j1, j2
        <5> QED
          BY <5>1, <5>2
      <4>2. manifest' = [manifest EXCEPT ![t] = "running"] /\ row' = [row EXCEPT ![t] = row[t]]
        BY <2>01, <2>02, <3>3, LeavesAsItIs DEF StartNode, PublishShot
      <4>3. t \notin PlanTasks => Sound("persist", j, "running", row[t], exported[t])
        BY <2>02 DEF Sound, Success
      <4> QED
        BY <4>1, <4>2, <4>3
    <3>4. CASE ChooseOutcome(w)
      <4>1. PICK outcome :
              /\ manifest' = [manifest EXCEPT ![t] = outcome]
              /\ job' = [job EXCEPT ![w] = [@ EXCEPT !.hand = outcome]]
        BY <2>01, <3>4 DEF ChooseOutcome
      <4> DEFINE j == [job[w] EXCEPT !.hand = outcome]
      <4>2. j.task = t
        BY <2>01, <2>02 DEF Jobs
      <4>3. Moves(w, "export", j)
        BY <3>4, <4>1 DEF ChooseOutcome, Goto, Moves
      <4>4. row' = [row EXCEPT ![t] = row[t]]
        BY <2>02, <3>4, LeavesAsItIs DEF ChooseOutcome
      <4>5. t \notin PlanTasks => Sound("export", j, outcome, row[t], exported[t])
        BY <2>02 DEF Sound
      <4> HIDE DEF j
      <4> QED
        BY <4>1, <4>2, <4>3, <4>4, <4>5
    <3> QED
      BY <3>1, <3>2, <3>3, <3>4
  <2>2. PICK zip : zip = exported[t]
    OBVIOUS
  <2>3. Leaves(t, file, status, zip)
    BY <1>0, <2>03, <2>1, <2>2 DEF Leaves
  <2>4. t \notin PlanTasks => Sound(label, j, file, status, zip)
    BY <2>1, <2>2
  <2>5. Moves(w, label, j) /\ (label \in {"idle", "ack"} \/ j.task = t)
    BY <2>1
  <2> QED
    BY <2>0, <2>01, <2>3, <2>4, <2>5, SoundGoesOn
<1> QED
  BY <1>01, <1>02

(* The commit that announces images finds them exported.                    *)
LEMMA SoundCommit ==
  ASSUME AllSound, NEW w \in Workers, PersistCommit(w)
  PROVE  \A u \in Tasks \ PlanTasks : Backed(u)'
<1>0. pc[w] = "commit" /\ UNCHANGED <<api, ready, exported, manifest>>
  BY DEF PersistCommit
<1>01. PICK t \in Tasks : t = job[w].task
  BY <1>0, Bearing
<1>1. /\ TypeOK /\ job[w] \in Jobs /\ job[w].hand \in LegacyStatus
      /\ t \notin PlanTasks =>
           /\ manifest[t] \in Success => exported[t]
           /\ job[w].hand \in Success => exported[t]
  BY <1>0, <1>01, Bearing DEF LocalsOK
<1>2. PICK file, status, zip : file = manifest[t] /\ status = MapStatus[job[w].hand] /\ zip = exported[t]
  OBVIOUS
<1>3. Leaves(t, file, status, zip)
  BY <1>0, <1>01, <1>1, <1>2, LeavesAsItIs DEF PersistCommit, Leaves
<1>4. Announced(status) => job[w].hand \in Success
  BY <1>1, <1>2 DEF Announced, MapStatus, LegacyStatus, Settled, Success
<1> DEFINE Stepped == [job[w] EXCEPT !.after = "none", !.hand = "none", !.node = job[w].node + 1]
<1>5. Stepped.task = t
  BY <1>01, <1>1 DEF Jobs
<1>6. \A after : With(job[w], after).task = t
  BY <1>01, <1>1, WithFields
<1>7. PICK label, j : /\ Moves(w, label, j) /\ j.task = t /\ label # "commit"
                      /\ label = "close" => t \in PlanTasks
  <2>1. \/ \E label \in {"handler", "ack", "except"} : Moves(w, label, With(job[w], "none"))
        \/ Moves(w, "node", Stepped)
        \/ t \in PlanTasks /\ Moves(w, "close", With(job[w], "none"))
        \/ \E after : Moves(w, "persist", With(job[w], after))
    BY <1>01 DEF PersistCommit, Resume, Goto, Moves, With
  <2> HIDE DEF Stepped
  <2> QED
    BY <1>5, <1>6, <2>1
<1>8. t \notin PlanTasks => Sound(label, j, file, status, zip)
  BY <1>1, <1>2, <1>4, <1>7 DEF Sound
<1>9. Moves(w, label, j) /\ j.task = t
  BY <1>7
<1> HIDE DEF Stepped
<1> QED
  BY <1>0, <1>01, <1>3, <1>8, <1>9, SoundGoesOn

(* A delivery that is taken, acknowledged or goes back to the broker. *)
LEMMA SoundDeliveries ==
  ASSUME AllSound, NEW w \in Workers, Ack(w) \/ Republish(w) \/ \E m \in Messages : Receive(w, m)
  PROVE  \A u \in Tasks \ PlanTasks : Backed(u)'
<1>a. TypeOK /\ \A u \in Tasks \ PlanTasks : Backed(u)
  BY DEF AllSound
<1>0. UNCHANGED <<api, manifest, row, exported>>
  BY DEF Ack, Republish, Receive, store
<1>1. CASE Ack(w)
  <2>1. ASSUME NEW u \in Tasks PROVE Untouched(u)
    <3>1. ~Carries(w, u)'
      BY <1>1, <1>a DEF Ack, Goto, Carries, TypeOK
    <3>2. \A v \in Workers \ {w} : pc'[v] = pc[v] /\ job'[v] = job[v]
      BY <1>1, <1>a DEF Ack, Goto, TypeOK
    <3> QED
      BY <1>0, <1>1, <3>1, <3>2 DEF Ack, Untouched, Carries
  <2> QED
    BY <1>a, <2>1, UntouchedBacked
<1>2. CASE Republish(w)
  <2>01. pc[w] = "republish"
    BY <1>2 DEF Republish
  <2>02. PICK t \in Tasks : t = job[w].task
    BY <2>01, Bearing
  <2>03. job[w] \in Jobs /\ t \notin PlanTasks => (manifest[t] \in Success => exported[t])
    BY <2>01, <2>02, Bearing
  <2>1. pc'[w] = "ack" /\ \A v \in Workers \ {w} : pc'[v] = pc[v] /\ job'[v] = job[v]
    BY <1>2, <1>a DEF Republish, Goto, TypeOK
  <2>2. ASSUME NEW v \in Workers, NEW u \in Tasks, Carries(v, u)'
        PROVE  Carries(v, u) /\ pc'[v] = pc[v] /\ job'[v] = job[v]
    BY <2>1, <2>2 DEF Carries
  <2>3. ASSUME NEW u \in Tasks \ {t} PROVE Untouched(u)
    <3>1. \A r \in 0..MaxRetries : ready'[<<u, r>>] = ready[<<u, r>>]
      BY <1>2, <1>a, <2>02, <2>3 DEF Republish, TypeOK, Messages
    <3> QED
      BY <1>0, <2>2, <3>1 DEF Untouched
  <2>4. ASSUME t \notin PlanTasks PROVE Backed(t)'
    <3>1. Shown(t)' /\ Backed(t)
      BY <1>a, <1>0, <2>03, <2>4, Bearing, <2>01, <2>02 DEF Shown
    <3> QED
      BY <1>0, <2>2, <3>1 DEF Backed
  <2> QED
    BY <1>a, <2>3, <2>4, UntouchedBacked
<1>3. ASSUME NEW m \in Messages, Receive(w, m) PROVE \A u \in Tasks \ PlanTasks : Backed(u)'
  <2>0. PICK t \in Tasks, r \in 0..MaxRetries : m = <<t, r>>
    BY DEF Messages
  <2>1. pc[w] = "idle" /\ pc'[w] = "mark" /\ job'[w].task = t /\ ready[<<t, r>>] > 0
    BY <1>3, <1>a, <2>0 DEF Receive, Goto, TypeOK, NoJob
  <2>2. \A v \in Workers \ {w} : pc'[v] = pc[v] /\ job'[v] = job[v]
    BY <1>3, <1>a DEF Receive, Goto, TypeOK
  <2>3. ASSUME NEW u \in Tasks \ {t} PROVE Untouched(u)
    <3>1. \A q \in 0..MaxRetries : ready'[<<u, q>>] = ready[<<u, q>>]
      BY <1>3, <1>a, <2>0, <2>3 DEF Receive, TypeOK, Messages
    <3>2. ~Carries(w, u)'
      BY <2>1, <2>3 DEF Carries
    <3> QED
      BY <1>0, <2>2, <3>1, <3>2 DEF Untouched, Carries
  <2>4. ASSUME t \notin PlanTasks PROVE Backed(t)'
    <3>1. Backed(t) /\ ~NoneReady(t)
      BY <1>a, <2>1, <2>4 DEF NoneReady
    <3>2. Shown(t) /\ Shown(t)'
      BY <1>0, <3>1 DEF Backed, Shown
    <3> QED
      BY <1>0, <2>1, <2>2, <3>1, <3>2 DEF Backed, Carries
  <2> QED
    BY <1>a, <2>3, <2>4, UntouchedBacked
<1> QED
  BY <1>1, <1>2, <1>3

(* The request. *)
LEMMA SoundRequests ==
  ASSUME AllSound, NEW t \in Tasks, SaveInputs(t) \/ CreateRecord(t) \/ Dispatch(t) \/ RequestFails(t)
  PROVE  \A u \in Tasks \ PlanTasks : Backed(u)'
<1>a. /\ TypeOK /\ (\A u \in Tasks \ PlanTasks : Backed(u))
      /\ NoneReady(t) /\ \A w \in Workers : job[w].task # t
  BY DEF AllSound, OnlyDispatched, SaveInputs, CreateRecord, Dispatch, RequestFails
<1>1. /\ UNCHANGED <<pc, job, exported>>
      /\ \A u \in Tasks \ {t} : api'[u] = api[u] /\ manifest'[u] = manifest[u] /\ row'[u] = row[u]
      /\ \A u \in Tasks \ {t}, q \in 0..MaxRetries : ready'[<<u, q>>] = ready[<<u, q>>]
  BY <1>a DEF SaveInputs, CreateRecord, Dispatch, RequestFails, store, TypeOK, Messages
<1>2. \A u \in Tasks \ {t} : Untouched(u)
  BY <1>1 DEF Untouched, Carries
<1>3. ASSUME t \notin PlanTasks PROVE Backed(t)'
  <2>1. \A w \in Workers : ~Carries(w, t)'
    BY <1>a, <1>1 DEF Carries
  <2>2. Backed(t)
    BY <1>a, <1>3
  <2>3. Shown(t)
    BY <2>2 DEF Backed, SaveInputs, CreateRecord, Dispatch, RequestFails
  <2>4. Shown(t)'
    BY <1>a, <2>3 DEF Shown, SaveInputs, CreateRecord, Dispatch, RequestFails, store, TypeOK, Success
  <2>5. Announced(row'[t]) => exported'[t]
    BY <1>a, <2>2 DEF Backed, Announced, SaveInputs, CreateRecord, Dispatch, RequestFails, store, TypeOK
  <2> QED
    BY <2>1, <2>4, <2>5 DEF Backed, Announced
<1> QED
  BY <1>a, <1>2, <1>3, UntouchedBacked

(* Every step keeps what a row announces backed by an export.               *)
LEMMA BackedStep ==
  ASSUME TypeOK, TypeOK', OnlyDispatched, OneDeliveryEach, AllBacked, [Next]_vars
  PROVE  AllBacked'
<1> SUFFICES ASSUME crashes' = 0 PROVE \A u \in Tasks \ PlanTasks : Backed(u)'
  BY DEF AllBacked
<1>1. crashes = 0 /\ ~\E w \in Workers : Crash(w)
  <2>1. crashes \in Nat
    BY TaskRunAssumption DEF TypeOK
  <2>2. ASSUME NEW w \in Workers, Crash(w) PROVE FALSE
    BY <2>1, <2>2 DEF Crash
  <2>3. crashes' = crashes \/ crashes' = crashes + 1
    BY DeliveryStep DEF Quiet, Posted, Taken, Retried, Redelivered
  <2> QED
    BY <2>1, <2>2, <2>3
<1>2. AllSound
  BY <1>1 DEF AllSound, OneDeliveryEach, AllBacked
<1>3. CASE UNCHANGED vars
  <2>1. \A u \in Tasks : Untouched(u)
    BY <1>3 DEF vars, store, Untouched, Carries
  <2> QED
    BY <1>2, <2>1, UntouchedBacked DEF AllSound
<1>4. ASSUME NEW t \in Tasks, SaveInputs(t) \/ CreateRecord(t) \/ Dispatch(t) \/ RequestFails(t)
      PROVE  \A u \in Tasks \ PlanTasks : Backed(u)'
  BY <1>2, <1>4, SoundRequests
<1>5. ASSUME NEW w \in Workers, WorkerStep(w) \/ StoreFails(w) \/ LoseChild(w)
      PROVE  \A u \in Tasks \ PlanTasks : Backed(u)'
  BY <1>2, <1>5, SoundWriters, SoundMovers, SoundCommit, SoundDeliveries DEF WorkerStep, HandlerStep
<1> QED
  BY <1>1, <1>3, <1>4, <1>5 DEF Next

(* At the start there is no delivery and no announcement.                   *)
LEMMA InitDeliveries == Init => OnlyDispatched /\ OneDeliveryEach /\ AllBacked /\ \A u \in Tasks : Rests(u)
<1> SUFFICES ASSUME Init, NEW t \in Tasks
             PROVE  /\ NoneReady(t) /\ NoCarrier(t) /\ \A w \in Workers : job[w].task # t
                    /\ Backed(t) /\ Rests(t)
  BY DEF OnlyDispatched, OneDeliveryEach, OneDelivery, AllBacked
<1>1. NoneReady(t)
  BY DEF Init, NoneReady, Messages
<1>2. \A w \in Workers : job[w].task # t
  BY TaskRunAssumption DEF Init, NoJob
<1>3. NoCarrier(t) /\ \A w \in Workers : ~Carries(w, t)
  BY <1>2 DEF NoCarrier, Carries
<1>4. api[t] = "new" /\ manifest[t] = "none" /\ row[t] = "none"
  BY DEF Init
<1>5. Backed(t)
  BY <1>1, <1>3, <1>4 DEF Backed, Shown, Success
<1>6. Rests(t)
  BY <1>3, <1>4 DEF Rests
<1> QED
  BY <1>1, <1>2, <1>3, <1>5, <1>6

(* One delivery of a task has one worker at most.                           *)
LEMMA OneDeliveryMeansOneWorker ==
  ASSUME \A t \in Tasks : OneDelivery(t)
  PROVE  OneWorkerPerTask
BY DEF OneDelivery, OneWorkerPerTask, NoCarrier, OnlyCarrier

(* A row that nobody will write again agrees with the files.                *)
LEMMA RestMeansAgreement ==
  ASSUME TypeOK, Undisturbed => \A u \in Tasks : Rests(u)
  PROVE  MirrorAgreesAtRest /\ RetriesBeforeFailure
<1> SUFFICES ASSUME Undisturbed, NEW t \in Tasks, AtRest(t)
             PROVE  /\ Readable(t) => row[t] = MapStatus[manifest[t]]
                    /\ row[t] = "failed" /\ "failed" \notin Outcomes => retryCount[t] = MaxRetries
  BY DEF MirrorAgreesAtRest, RetriesBeforeFailure
<1>1. NoneReady(t)
  <2>1. \A r \in 0..MaxRetries : <<t, r>> \in Messages /\ ready[<<t, r>>] \in Nat
    BY DEF TypeOK, Messages
  <2> QED
    BY <2>1 DEF AtRest, InFlight, NoneReady
<1>2. NoCarrier(t)
  BY DEF AtRest, InFlight, Holds, NoCarrier, Carries
<1>3. Agrees(manifest[t], row[t], retryCount[t])
  BY <1>1, <1>2 DEF Rests, AtRest
<1> QED
  BY <1>3 DEF Agrees, Readable

(* While no delivery is repeated, nobody ever works beside anybody else on  *)
(* a task: through retries, failing stores and lost children a task has one *)
(* message or one worker that has not finished with it.                     *)
THEOREM OneDeliveryAtATime == Spec => [](crashes = 0 => OneWorkerPerTask)
<1>1. Init => OnlyDispatched /\ OneDeliveryEach
  BY InitDeliveries
<1>2. TypeOK /\ TypeOK' /\ OnlyDispatched /\ [Next]_vars => OnlyDispatched'
  BY DispatchedStep
<1>3. TypeOK /\ TypeOK' /\ OnlyDispatched /\ OneDeliveryEach /\ [Next]_vars => OneDeliveryEach'
  BY OneDeliveryStep
<1>4. OneDeliveryEach => (crashes = 0 => OneWorkerPerTask)
  BY OneDeliveryMeansOneWorker DEF OneDeliveryEach
<1> QED
  BY <1>1, <1>2, <1>3, <1>4, TypeCorrect, PTL DEF Spec

(* While no delivery is repeated, the row announces no images whose ZIP was *)
(* not written, whatever store calls fail and whatever children are lost.   *)
THEOREM SuccessAlwaysExported == Spec => []SuccessIsExported
<1>1. Init => OnlyDispatched /\ OneDeliveryEach /\ AllBacked
  BY InitDeliveries
<1>2. TypeOK /\ TypeOK' /\ OnlyDispatched /\ [Next]_vars => OnlyDispatched'
  BY DispatchedStep
<1>3. TypeOK /\ TypeOK' /\ OnlyDispatched /\ OneDeliveryEach /\ [Next]_vars => OneDeliveryEach'
  BY OneDeliveryStep
<1>4. TypeOK /\ TypeOK' /\ OnlyDispatched /\ OneDeliveryEach /\ AllBacked /\ [Next]_vars => AllBacked'
  BY BackedStep
<1>5. AllBacked => SuccessIsExported
  BY DEF AllBacked, Backed, SuccessIsExported
<1> QED
  BY <1>1, <1>2, <1>3, <1>4, <1>5, TypeCorrect, PTL DEF Spec

RestingRows == Undisturbed => \A u \in Tasks : Rests(u)

(* As long as one worker at a time works for a task, its row and its files  *)
(* tell the same story whenever it rests, through any crashes and retries.  *)
LEMMA RowsRest == Spec /\ []OneWorkerPerTask => [](TypeOK /\ RestingRows)
<1>1. Init => OnlyDispatched /\ RestingRows
  BY InitDeliveries DEF RestingRows
<1>2. TypeOK /\ TypeOK' /\ OnlyDispatched /\ [Next]_vars => OnlyDispatched'
  BY DispatchedStep
<1>3. TypeOK /\ OnlyDispatched /\ OneWorkerPerTask /\ RestingRows /\ [Next]_vars => RestingRows'
  BY RestStep DEF RestingRows
<1> QED
  BY <1>1, <1>2, <1>3, TypeCorrect, PTL DEF Spec

(* While no two workers run one task, a row at rest agrees with the files.  *)
THEOREM MirrorAgrees == Spec /\ []OneWorkerPerTask => []MirrorAgreesAtRest
<1>1. TypeOK /\ RestingRows => MirrorAgreesAtRest
  BY RestMeansAgreement DEF RestingRows
<1> QED
  BY <1>1, RowsRest, PTL

(* And a task that raised was given up only after every retry.              *)
THEOREM FailureUsedItsRetries == Spec /\ []OneWorkerPerTask => []RetriesBeforeFailure
<1>1. TypeOK /\ RestingRows => RetriesBeforeFailure
  BY RestMeansAgreement DEF RestingRows
<1> QED
  BY <1>1, RowsRest, PTL

(* One worker process is enough for it.                                     *)
THEOREM OneWorkerAgrees ==
  ASSUME \A v, w \in Workers : v = w
  PROVE  Spec => [](MirrorAgreesAtRest /\ RetriesBeforeFailure)
<1>1. OneWorkerPerTask
  BY DEF OneWorkerPerTask
<1>2. []OneWorkerPerTask
  BY <1>1, PTL
<1> QED
  BY <1>2, MirrorAgrees, FailureUsedItsRetries, PTL

(* And so are any number of workers while no worker dies.                   *)
THEOREM NoCrashAgrees == Spec => [](crashes = 0 => MirrorAgreesAtRest /\ RetriesBeforeFailure)
<1> DEFINE Inv == crashes = 0 => RestingRows
<1>1. Init => OnlyDispatched /\ OneDeliveryEach /\ Inv
  BY InitDeliveries DEF RestingRows
<1>2. TypeOK /\ TypeOK' /\ OnlyDispatched /\ [Next]_vars => OnlyDispatched'
  BY DispatchedStep
<1>3. TypeOK /\ TypeOK' /\ OnlyDispatched /\ OneDeliveryEach /\ [Next]_vars => OneDeliveryEach'
  BY OneDeliveryStep
<1>4. TypeOK /\ OnlyDispatched /\ OneDeliveryEach /\ Inv /\ [Next]_vars => Inv'
  <2> SUFFICES ASSUME TypeOK, OnlyDispatched, OneDeliveryEach, Inv, [Next]_vars, crashes' = 0
               PROVE  RestingRows'
    OBVIOUS
  <2>1. crashes = 0
    <3>1. crashes \in Nat
      BY TaskRunAssumption DEF TypeOK
    <3>2. crashes' = crashes \/ crashes' = crashes + 1
      BY DeliveryStep DEF Quiet, Posted, Taken, Retried, Redelivered
    <3> QED
      BY <3>1, <3>2
  <2>2. OneWorkerPerTask
    BY <2>1, OneDeliveryMeansOneWorker DEF OneDeliveryEach
  <2>3. RestingRows
    BY <2>1
  <2> QED
    BY <2>2, <2>3, RestStep DEF RestingRows
<1>5. TypeOK /\ Inv => (crashes = 0 => MirrorAgreesAtRest /\ RetriesBeforeFailure)
  BY RestMeansAgreement DEF RestingRows
<1> HIDE DEF Inv
<1> QED
  BY <1>1, <1>2, <1>3, <1>4, <1>5, TypeCorrect, PTL DEF Spec
===============================================================================
