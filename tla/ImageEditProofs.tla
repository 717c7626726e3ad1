--------------------------- MODULE ImageEditProofs ---------------------------
(***************************************************************************)
(* Proofs about ImageEdit, for any number of edits, workers, retries,      *)
(* crashes and faults.                                                     *)
(***************************************************************************)
EXTENDS ImageEdit, SequenceTheorems, FiniteSetTheorems, TLAPS

-----------------------------------------------------------------------------
(* Types. *)

(* What a worker that is busy holds, and with what retry count. *)
LEMMA BusyHoldsEdit ==
  ASSUME TypeOK, NEW w \in Workers, pc[w] # "idle"
  PROVE  /\ job[w].edit \in Edits /\ job[w].edit # NoEdit
         /\ job[w].retries \in 0..MaxRetries
         /\ job[w].version \in Nat /\ job[w].digest \in Nat
<1>1. job[w] \in Jobs
  BY DEF TypeOK
<1>2. job[w].edit # NoEdit
  BY DEF TypeOK
<1>3. QED
  BY <1>1, <1>2 DEF Jobs

(* A step of one worker that keeps its job. *)
LEMMA JustGoes ==
  ASSUME TypeOK, NEW w \in Workers, NEW label \in Labels,
         pc[w] # "idle", label \notin {"idle", "commit"},
         Goto(w, label), UNCHANGED job
  PROVE  /\ pc' \in [Workers -> Labels]
         /\ job' \in [Workers -> Jobs]
         /\ \A v \in Workers : /\ pc'[v] = "idle" <=> job'[v].edit = NoEdit
                               /\ pc'[v] = "commit" => job'[v].version > 0
BY DEF TypeOK, Goto

(* A worker that gives its message back. *)
LEMMA GoesIdle ==
  ASSUME TypeOK, NEW w \in Workers,
         Goto(w, "idle"), job' = [job EXCEPT ![w] = NoJob]
  PROVE  /\ pc' \in [Workers -> Labels]
         /\ job' \in [Workers -> Jobs]
         /\ \A v \in Workers : /\ pc'[v] = "idle" <=> job'[v].edit = NoEdit
                               /\ pc'[v] = "commit" => job'[v].version > 0
<1>1. NoJob \in Jobs /\ NoJob.edit = NoEdit
  BY ImageEditAssumption DEF NoJob, Jobs
<1>2. "idle" \in Labels
  BY DEF Labels
<1>3. QED
  BY <1>1, <1>2 DEF TypeOK, Goto

(* Types are kept: results are only appended to, references of edits stay  *)
(* within the table, a busy worker holds an edit.                          *)
THEOREM TypeCorrect == Spec => []TypeOK
<1>1. Init => TypeOK
  <2> SUFFICES ASSUME Init PROVE TypeOK
    OBVIOUS
  <2>1. NoJob \in Jobs /\ NoJob.edit = NoEdit
    BY ImageEditAssumption DEF NoJob, Jobs
  <2>2. Original \in ResultRows
    BY DEF Original, ResultRows
  <2>3. results \in Seq(ResultRows) /\ results # <<>> /\ Len(results) = 1
    BY <2>2 DEF Init
  <2>4. QED
    BY <2>1, <2>3, ImageEditAssumption DEF Init, TypeOK, Status, Labels
<1>2. TypeOK /\ [Next]_vars => TypeOK'
  <2> SUFFICES ASSUME TypeOK, [Next]_vars PROVE TypeOK'
    OBVIOUS
  <2> USE ImageEditAssumption
  <2>1. ASSUME NEW e \in Edits, CreateEdit(e) PROVE TypeOK'
    <3>1. PICK s \in DOMAIN results : source' = [source EXCEPT ![e] = s]
      BY <2>1 DEF CreateEdit
    <3>2. s \in 1..Len(results)
      BY <3>1 DEF TypeOK
    <3>3. QED
      BY <2>1, <3>1, <3>2 DEF CreateEdit, TypeOK, Status
  <2>2. ASSUME NEW e \in Edits, Dispatch(e) PROVE TypeOK'
    BY <2>2 DEF Dispatch, TypeOK, Messages, rows
  <2>3. ASSUME NEW e \in Edits, DispatchFails(e) PROVE TypeOK'
    BY <2>3 DEF DispatchFails, TypeOK, rows
  <2>4. ASSUME NEW w \in Workers, NEW m \in Messages, Receive(w, m) PROVE TypeOK'
    <3>1. m[1] \in Edits /\ m[2] \in 0..MaxRetries
      BY DEF Messages
    <3>2. [NoJob EXCEPT !.edit = m[1], !.retries = m[2]] \in Jobs
      BY <3>1 DEF NoJob, Jobs
    <3>3. job' \in [Workers -> Jobs] /\ job'[w].edit = m[1]
      BY <2>4, <3>2 DEF Receive, TypeOK, NoJob
    <3>4. pc' \in [Workers -> Labels]
      BY <2>4 DEF Receive, TypeOK, Goto, Labels
    <3>5. \A v \in Workers : /\ pc'[v] = "idle" <=> job'[v].edit = NoEdit
                             /\ pc'[v] = "commit" => job'[v].version > 0
      BY <2>4, <3>1, <3>3 DEF Receive, TypeOK, Goto
    <3>6. ready' \in [Messages -> Nat]
      BY <2>4 DEF Receive, TypeOK
    <3>7. QED
      BY <2>4, <3>3, <3>4, <3>5, <3>6 DEF Receive, TypeOK, rows
  <2>5. ASSUME NEW w \in Workers, Prepare(w) PROVE TypeOK'
    <3>1. "generate" \in Labels
      BY DEF Labels
    <3>2. status' \in [Edits -> Status]
      BY <2>5 DEF Prepare, TypeOK, Status
    <3>3. QED
      BY <2>5, <3>1, <3>2, JustGoes DEF Prepare, TypeOK
  <2>6. ASSUME NEW w \in Workers, Generate(w) PROVE TypeOK'
    <3>1. "measure" \in Labels
      BY DEF Labels
    <3>2. file' \in [Edits -> Nat]
      BY <2>6, BusyHoldsEdit DEF Generate, TypeOK
    <3>3. QED
      BY <2>6, <3>1, <3>2, JustGoes DEF Generate, TypeOK, rows
  <2>7. ASSUME NEW w \in Workers, Measure(w) PROVE TypeOK'
    <3>1. job[w].edit \in Edits
      BY <2>7, BusyHoldsEdit DEF Measure
    <3>2. PICK n \in 1..(Len(results) + 1) :
            job' = [job EXCEPT ![w] = [@ EXCEPT !.version = n, !.digest = file[job[w].edit]]]
      BY <2>7 DEF Measure
    <3>3. n \in Nat /\ n > 0
      BY DEF TypeOK
    <3>4. job[w] \in Jobs /\ file[job[w].edit] \in Nat
      BY <3>1 DEF TypeOK
    <3>5. [job[w] EXCEPT !.version = n, !.digest = file[job[w].edit]] \in Jobs
      BY <3>3, <3>4 DEF Jobs
    <3>6. job' \in [Workers -> Jobs] /\ job'[w].version > 0 /\ job'[w].edit = job[w].edit
      BY <3>2, <3>3, <3>4, <3>5 DEF TypeOK, Jobs
    <3>7. pc' \in [Workers -> Labels]
      BY <2>7 DEF Measure, TypeOK, Goto, Labels
    <3>8. \A v \in Workers : /\ pc'[v] = "idle" <=> job'[v].edit = NoEdit
                             /\ pc'[v] = "commit" => job'[v].version > 0
      BY <2>7, <3>1, <3>2, <3>6 DEF Measure, TypeOK, Goto
    <3>9. QED
      BY <2>7, <3>6, <3>7, <3>8 DEF Measure, TypeOK, rows
  <2>8. ASSUME NEW w \in Workers, Commit(w) PROVE TypeOK'
    <3>1. job[w].edit \in Edits /\ job[w].version \in Nat \ {0} /\ job[w].digest \in Nat
      BY <2>8, BusyHoldsEdit DEF Commit, TypeOK
    <3> DEFINE row == [edit |-> job[w].edit, parent |-> source[job[w].edit],
                       version |-> job[w].version, digest |-> job[w].digest]
    <3>2. row \in ResultRows
      BY <3>1 DEF ResultRows, TypeOK
    <3>3. results' = Append(results, row)
      BY <2>8 DEF Commit
    <3>4. /\ results' \in Seq(ResultRows) /\ results' # <<>>
          /\ Len(results') = Len(results) + 1
      BY <3>2, <3>3 DEF TypeOK
    <3>5. Len(results) \in Nat
      BY DEF TypeOK
    <3>6. source' \in [Edits -> 0..Len(results')]
      BY <2>8, <3>4, <3>5 DEF Commit, TypeOK
    <3>7. edited' \in [Edits -> 0..Len(results')]
      <4>1. Len(results) + 1 \in 0..Len(results') /\ 0..Len(results) \subseteq 0..Len(results')
        BY <3>4, <3>5
      <4>2. edited \in [Edits -> 0..Len(results')]
        BY <4>1 DEF TypeOK
      <4>3. edited' = [edited EXCEPT ![job[w].edit] = Len(results) + 1]
        BY <2>8 DEF Commit
      <4>4. QED
        BY <4>1, <4>2, <4>3
    <3>8. status' \in [Edits -> Status]
      BY <2>8 DEF Commit, TypeOK, Status
    <3>9. "ack" \in Labels
      BY DEF Labels
    <3>10. QED
      BY <2>8, <3>4, <3>6, <3>7, <3>8, <3>9, JustGoes DEF Commit, TypeOK
  <2>9. ASSUME NEW w \in Workers, ExecutionRaises(w) PROVE TypeOK'
    <3>1. "failing" \in Labels
      BY DEF Labels
    <3>2. QED
      BY <2>9, <3>1, JustGoes DEF ExecutionRaises, TypeOK, rows
  <2>10. ASSUME NEW w \in Workers, MarkFailed(w) PROVE TypeOK'
    <3>1. "raised" \in Labels
      BY DEF Labels
    <3>2. status' \in [Edits -> Status]
      BY <2>10 DEF MarkFailed, TypeOK, Status
    <3>3. QED
      BY <2>10, <3>1, <3>2, JustGoes DEF MarkFailed, TypeOK
  <2>11. ASSUME NEW w \in Workers, MarkFailedRaises(w) PROVE TypeOK'
    <3>1. "raised" \in Labels
      BY DEF Labels
    <3>2. faults' \in 0..MaxFaults
      BY <2>11 DEF MarkFailedRaises, TypeOK
    <3>3. QED
      BY <2>11, <3>1, <3>2, JustGoes DEF MarkFailedRaises, TypeOK, rows
  <2>12. ASSUME NEW w \in Workers, Retry(w) PROVE TypeOK'
    <3>1. "ack" \in Labels
      BY DEF Labels
    <3>2. ready' \in [Messages -> Nat]
      <4>1. CASE Celery /\ job[w].retries < MaxRetries
        <5>1. job[w].edit \in Edits /\ job[w].retries + 1 \in 0..MaxRetries
          BY <2>12, <4>1, BusyHoldsEdit DEF Retry
        <5>2. <<job[w].edit, job[w].retries + 1>> \in Messages
          BY <5>1 DEF Messages
        <5>3. ready' = [ready EXCEPT ![<<job[w].edit, job[w].retries + 1>>] = @ + 1]
          BY <2>12, <4>1 DEF Retry
        <5>4. QED
          BY <5>2, <5>3 DEF TypeOK
      <4>2. CASE ~(Celery /\ job[w].retries < MaxRetries)
        BY <2>12, <4>2 DEF Retry, TypeOK
      <4>3. QED
        BY <4>1, <4>2
    <3>3. QED
      BY <2>12, <3>1, <3>2, JustGoes DEF Retry, TypeOK, rows
  <2>13. ASSUME NEW w \in Workers, Ack(w) PROVE TypeOK'
    BY <2>13, GoesIdle DEF Ack, TypeOK, rows
  <2>14. ASSUME NEW w \in Workers, Crash(w) PROVE TypeOK'
    <3>1. ready' \in [Messages -> Nat]
      <4>1. <<job[w].edit, job[w].retries>> \in Messages
        BY <2>14, BusyHoldsEdit DEF Crash, Messages
      <4>2. CASE Celery
        <5>1. ready' = [ready EXCEPT ![<<job[w].edit, job[w].retries>>] = @ + 1]
          BY <2>14, <4>2 DEF Crash
        <5>2. QED
          BY <4>1, <5>1 DEF TypeOK
      <4>3. CASE ~Celery
        BY <2>14, <4>3 DEF Crash, TypeOK
      <4>4. QED
        BY <4>2, <4>3
    <3>2. crashes' \in 0..MaxCrashes
      BY <2>14 DEF Crash, TypeOK
    <3>3. QED
      BY <2>14, <3>1, <3>2, GoesIdle DEF Crash, TypeOK, rows
  <2>15. ASSUME NEW w \in Workers, RetryRaises(w) PROVE TypeOK'
    <3>1. "ack" \in Labels
      BY DEF Labels
    <3>2. faults' \in 0..MaxFaults
      BY <2>15 DEF RetryRaises, TypeOK
    <3>3. QED
      BY <2>15, <3>1, <3>2, JustGoes DEF RetryRaises, TypeOK, rows
  <2>16. ASSUME NEW w \in Workers, LoseChild(w) PROVE TypeOK'
    <3>1. losses' \in 0..MaxLosses
      BY <2>16 DEF LoseChild, TypeOK
    <3>2. QED
      BY <2>16, <3>1, GoesIdle DEF LoseChild, TypeOK, rows
  <2>17. CASE UNCHANGED vars
    BY <2>17 DEF vars, rows, TypeOK
  <2>18. QED
    BY <2>1, <2>2, <2>3, <2>4, <2>5, <2>6, <2>7, <2>8, <2>9, <2>10, <2>11, <2>12,
       <2>13, <2>14, <2>15, <2>16, <2>17 DEF Next, WorkerStep
<1>3. QED
  BY <1>1, <1>2, PTL DEF Spec

-----------------------------------------------------------------------------
(* Version numbers. *)

(* Results form a tree that grows at its leaves. *)
Tree == \A i \in DOMAIN results : results[i].parent < i

(* Only an edit that exists is in the broker or on a worker. *)
Claimed ==
  /\ \A e \in Edits : \A r \in 0..MaxRetries : ready[<<e, r>>] > 0 => source[e] # 0
  /\ \A w \in Workers : pc[w] # "idle" => source[job[w].edit] # 0

(* The number a worker has read stays above that of the source image until *)
(* it is committed, whatever other workers commit in between.              *)
Reserved ==
  \A w \in Workers :
    pc[w] = "commit" => job[w].version > results[source[job[w].edit]].version

VersionInv == Tree /\ Claimed /\ Reserved /\ VersionAboveSource

(* The steps that add neither an edit nor a number nor a result. *)
LEMMA KeepsVersionInv ==
  ASSUME TypeOK, VersionInv, UNCHANGED <<results, source>>,
         \A e \in Edits : \A r \in 0..MaxRetries :
           ready'[<<e, r>>] > 0 => ready[<<e, r>>] > 0 \/ source[e] # 0,
         \A v \in Workers :
           \/ pc'[v] = "idle"
           \/ pc'[v] = pc[v] /\ job'[v] = job[v]
           \/ pc'[v] # "commit" /\ source[job'[v].edit] # 0
  PROVE  VersionInv'
<1>1. Tree' /\ VersionAboveSource'
  BY DEF VersionInv, Tree, VersionAboveSource
<1>2. Claimed'
  BY DEF VersionInv, Claimed
<1>3. Reserved'
  BY DEF VersionInv, Reserved
<1>4. QED
  BY <1>1, <1>2, <1>3 DEF VersionInv

(* A busy worker w goes to another label with the edit it holds. *)
LEMMA WorkerGoes ==
  ASSUME TypeOK, VersionInv, NEW w \in Workers, NEW label,
         pc[w] # "idle", label # "commit", Goto(w, label),
         UNCHANGED <<results, source, ready, job>>
  PROVE  VersionInv'
<1>1. source[job[w].edit] # 0
  BY DEF VersionInv, Claimed
<1>2. \A v \in Workers :
        \/ pc'[v] = pc[v] /\ job'[v] = job[v]
        \/ pc'[v] # "commit" /\ source[job'[v].edit] # 0
  BY <1>1 DEF Goto, TypeOK
<1>3. QED
  BY <1>2, KeepsVersionInv

(* A new edit points to an existing source.                                  *)
LEMMA CreateKeepsVersions ==
  ASSUME TypeOK, VersionInv, NEW e \in Edits, CreateEdit(e)
  PROVE  VersionInv'
<1>1. source[e] = 0
  BY DEF CreateEdit, TypeOK
<1>2. PICK s \in DOMAIN results : source' = [source EXCEPT ![e] = s]
  BY DEF CreateEdit
<1>3. s # 0
  BY <1>2 DEF TypeOK
<1>4. \A f \in Edits : source[f] # 0 => source'[f] = source[f]
  BY <1>1, <1>2 DEF TypeOK
<1>5. UNCHANGED <<results, ready, pc, job>>
  BY DEF CreateEdit
<1>6. \A w \in Workers : pc[w] # "idle" => source'[job[w].edit] = source[job[w].edit]
  BY <1>4, BusyHoldsEdit DEF VersionInv, Claimed
<1>7. Claimed'
  BY <1>4, <1>5, <1>6 DEF VersionInv, Claimed
<1>8. Reserved'
  BY <1>5, <1>6 DEF VersionInv, Reserved
<1>9. Tree' /\ VersionAboveSource'
  BY <1>5 DEF VersionInv, Tree, VersionAboveSource
<1>10. QED
  BY <1>7, <1>8, <1>9 DEF VersionInv

(* The number a worker reserves is above that of its source.                 *)
LEMMA MeasureKeepsVersions ==
  ASSUME TypeOK, VersionInv, NEW w \in Workers, Measure(w)
  PROVE  VersionInv'
<1> DEFINE e == job[w].edit
<1>1. e \in Edits /\ source[e] # 0 /\ source[e] \in DOMAIN results
  <2>1. e \in Edits /\ source[e] # 0
    BY BusyHoldsEdit DEF Measure, VersionInv, Claimed
  <2>2. source[e] \in 0..Len(results) /\ Len(results) \in Nat
    BY <2>1 DEF TypeOK
  <2>3. QED
    BY <2>1, <2>2 DEF TypeOK
<1>2. PICK n \in 1..(Len(results) + 1) :
        /\ IsNextVersion(source[e], n)
        /\ job' = [job EXCEPT ![w] = [@ EXCEPT !.version = n, !.digest = file[e]]]
  BY DEF Measure
<1>3. n > results[source[e]].version
  BY <1>1, <1>2 DEF IsNextVersion, Versions
<1>4. /\ UNCHANGED <<results, source, ready>>
      /\ pc' = [pc EXCEPT ![w] = "commit"]
  BY DEF Measure, Goto, rows
<1>5. job'[w].edit = e /\ job'[w].version = n
  BY <1>2 DEF TypeOK, Jobs
<1>6. \A v \in Workers : v # w => pc'[v] = pc[v] /\ job'[v] = job[v]
  BY <1>2, <1>4 DEF TypeOK
<1>7. Claimed'
  BY <1>1, <1>4, <1>5, <1>6 DEF VersionInv, Claimed
<1>8. Reserved'
  BY <1>3, <1>4, <1>5, <1>6 DEF VersionInv, Reserved
<1>9. Tree' /\ VersionAboveSource'
  BY <1>4 DEF VersionInv, Tree, VersionAboveSource
<1>10. QED
  BY <1>7, <1>8, <1>9 DEF VersionInv

(* The result is appended with that number.                                  *)
LEMMA CommitKeepsVersions ==
  ASSUME TypeOK, VersionInv, NEW w \in Workers, Commit(w)
  PROVE  VersionInv'
<1> DEFINE e == job[w].edit
           row == [edit |-> e, parent |-> source[e],
                   version |-> job[w].version, digest |-> job[w].digest]
           N == Len(results)
<1>1. e \in Edits /\ source[e] # 0 /\ source[e] \in 1..N /\ N \in Nat
  <2>1. e \in Edits /\ source[e] # 0
    BY BusyHoldsEdit DEF Commit, VersionInv, Claimed
  <2>2. QED
    BY <2>1 DEF TypeOK
<1>2. /\ results' = Append(results, row)
      /\ UNCHANGED <<source, ready, job>>
      /\ pc' = [pc EXCEPT ![w] = "ack"]
  BY DEF Commit, Goto
<1>3. /\ DOMAIN results = 1..N /\ DOMAIN results' = 1..(N + 1)
      /\ \A i \in 1..N : results'[i] = results[i]
      /\ results'[N + 1] = row
  BY <1>2 DEF TypeOK
<1>4. Tree'
  BY <1>1, <1>3 DEF VersionInv, Tree
<1>5. VersionAboveSource'
  <2> SUFFICES ASSUME NEW i \in 1..(N + 1), results'[i].parent # 0
               PROVE  results'[i].version > results'[results'[i].parent].version
    BY <1>3 DEF VersionAboveSource
  <2>1. CASE i = N + 1
    <3>1. results'[i].parent = source[e] /\ results'[i].version = job[w].version
      BY <2>1, <1>3
    <3>2. results'[source[e]] = results[source[e]]
      BY <1>1, <1>3
    <3>3. job[w].version > results[source[e]].version
      BY DEF Commit, VersionInv, Reserved
    <3>4. QED
      BY <3>1, <3>2, <3>3
  <2>2. CASE i # N + 1
    <3>1. i \in 1..N
      BY <2>2, <1>1
    <3>2. results[i].parent \in Nat /\ results[i].parent # 0 /\ results[i].parent < i
      <4>1. results[i] \in ResultRows
        BY <3>1 DEF TypeOK
      <4>2. QED
        BY <3>1, <4>1, <1>3 DEF VersionInv, Tree, ResultRows
    <3>3. results[i].parent \in 1..N
      BY <3>1, <3>2, <1>1
    <3>4. results[i].version > results[results[i].parent].version
      BY <3>1, <3>2, <1>3 DEF VersionInv, VersionAboveSource
    <3>5. QED
      BY <3>1, <3>3, <3>4, <1>3
  <2>3. QED
    BY <2>1, <2>2
<1>6. Claimed'
  <2>1. ASSUME NEW v \in Workers, pc'[v] # "idle" PROVE pc[v] # "idle"
    BY <2>1 DEF Commit, Goto, TypeOK
  <2>2. UNCHANGED <<source, job, ready>>
    BY DEF Commit
  <2>3. QED
    BY <2>1, <2>2 DEF VersionInv, Claimed
<1>7. Reserved'
  <2> SUFFICES ASSUME NEW v \in Workers, pc'[v] = "commit"
               PROVE  job[v].version > results'[source[job[v].edit]].version
    BY <1>2 DEF Reserved
  <2>1. pc[v] = "commit"
    BY <1>2 DEF TypeOK
  <2>2. job[v].edit \in Edits /\ source[job[v].edit] # 0
    BY <2>1, BusyHoldsEdit DEF VersionInv, Claimed
  <2>3. source[job[v].edit] \in 1..N
    BY <2>2, <1>1 DEF TypeOK
  <2>4. QED
    BY <2>1, <2>3, <1>3 DEF VersionInv, Reserved
<1>8. QED
  BY <1>4, <1>5, <1>6, <1>7 DEF VersionInv

(* A derived image has a higher version number than its source in every    *)
(* reachable state, for any number of concurrent workers, retries and      *)
(* redeliveries: next_version_no_for_source needs no lock for that.        *)
THEOREM VersionsGrow == Spec => []VersionAboveSource
<1>1. Init => VersionInv
  <2> SUFFICES ASSUME Init PROVE VersionInv
    OBVIOUS
  <2>1. DOMAIN results = 1..1 /\ results[1].parent = 0
    BY DEF Init, Original
  <2>2. Tree /\ VersionAboveSource
    BY <2>1 DEF Tree, VersionAboveSource
  <2>3. Claimed /\ Reserved
    BY DEF Init, Claimed, Reserved, Messages
  <2>4. QED
    BY <2>2, <2>3 DEF VersionInv
<1>2. TypeOK /\ VersionInv /\ [Next]_vars => VersionInv'
  <2> SUFFICES ASSUME TypeOK, VersionInv, [Next]_vars PROVE VersionInv'
    OBVIOUS
  <2>1. ASSUME NEW e \in Edits, CreateEdit(e) PROVE VersionInv'
    BY <2>1, CreateKeepsVersions
  <2>2. ASSUME NEW e \in Edits, Dispatch(e) PROVE VersionInv'
    <3>1. source[e] # 0
      BY <2>2 DEF Dispatch, TypeOK
    <3>2. \A f \in Edits : \A r \in 0..MaxRetries :
            ready'[<<f, r>>] > 0 => ready[<<f, r>>] > 0 \/ source[f] # 0
      BY <2>2, <3>1 DEF Dispatch, TypeOK, Messages
    <3>3. QED
      BY <2>2, <3>2, KeepsVersionInv DEF Dispatch, rows
  <2>3. ASSUME NEW e \in Edits, DispatchFails(e) PROVE VersionInv'
    BY <2>3, KeepsVersionInv DEF DispatchFails, rows
  <2>4. ASSUME NEW w \in Workers, NEW m \in Messages, Receive(w, m) PROVE VersionInv'
    <3>1. m[1] \in Edits /\ m[2] \in 0..MaxRetries /\ m = <<m[1], m[2]>>
      BY DEF Messages
    <3>2. source[m[1]] # 0
      BY <2>4, <3>1 DEF Receive, VersionInv, Claimed
    <3>3. \A e \in Edits : \A r \in 0..MaxRetries :
            ready'[<<e, r>>] > 0 => ready[<<e, r>>] > 0
      BY <2>4 DEF Receive, TypeOK, Messages
    <3>4. \A v \in Workers :
            \/ pc'[v] = pc[v] /\ job'[v] = job[v]
            \/ pc'[v] # "commit" /\ source[job'[v].edit] # 0
      BY <2>4, <3>2 DEF Receive, TypeOK, Goto, NoJob
    <3>5. QED
      BY <2>4, <3>3, <3>4, KeepsVersionInv DEF Receive, rows
  <2>5. ASSUME NEW w \in Workers, Prepare(w) PROVE VersionInv'
    BY <2>5, WorkerGoes DEF Prepare
  <2>6. ASSUME NEW w \in Workers, Generate(w) PROVE VersionInv'
    BY <2>6, WorkerGoes DEF Generate, rows
  <2>7. ASSUME NEW w \in Workers, Measure(w) PROVE VersionInv'
    BY <2>7, MeasureKeepsVersions
  <2>8. ASSUME NEW w \in Workers, Commit(w) PROVE VersionInv'
    BY <2>8, CommitKeepsVersions
  <2>9. ASSUME NEW w \in Workers, ExecutionRaises(w) PROVE VersionInv'
    BY <2>9, WorkerGoes DEF ExecutionRaises, rows
  <2>10. ASSUME NEW w \in Workers, MarkFailed(w) PROVE VersionInv'
    BY <2>10, WorkerGoes DEF MarkFailed
  <2>11. ASSUME NEW w \in Workers, MarkFailedRaises(w) PROVE VersionInv'
    BY <2>11, WorkerGoes DEF MarkFailedRaises, rows
  <2>12. ASSUME NEW w \in Workers, Retry(w) PROVE VersionInv'
    <3>1. source[job[w].edit] # 0
      BY <2>12 DEF Retry, VersionInv, Claimed
    <3>2. \A e \in Edits : \A r \in 0..MaxRetries :
            ready'[<<e, r>>] > 0 => ready[<<e, r>>] > 0 \/ source[e] # 0
      BY <2>12, <3>1 DEF Retry, TypeOK, Messages
    <3>3. \A v \in Workers :
            \/ pc'[v] = pc[v] /\ job'[v] = job[v]
            \/ pc'[v] # "commit" /\ source[job'[v].edit] # 0
      BY <2>12, <3>1 DEF Retry, Goto, TypeOK
    <3>4. QED
      BY <2>12, <3>2, <3>3, KeepsVersionInv DEF Retry, rows
  <2>13. ASSUME NEW w \in Workers, Ack(w) PROVE VersionInv'
    <3>1. \A v \in Workers : \/ pc'[v] = "idle"
                             \/ pc'[v] = pc[v] /\ job'[v] = job[v]
      BY <2>13 DEF Ack, Goto, TypeOK
    <3>2. QED
      BY <2>13, <3>1, KeepsVersionInv DEF Ack, rows
  <2>14. ASSUME NEW w \in Workers, Crash(w) PROVE VersionInv'
    <3>1. source[job[w].edit] # 0
      BY <2>14 DEF Crash, VersionInv, Claimed
    <3>2. \A e \in Edits : \A r \in 0..MaxRetries :
            ready'[<<e, r>>] > 0 => ready[<<e, r>>] > 0 \/ source[e] # 0
      BY <2>14, <3>1 DEF Crash, TypeOK, Messages
    <3>3. \A v \in Workers : \/ pc'[v] = "idle"
                             \/ pc'[v] = pc[v] /\ job'[v] = job[v]
      BY <2>14 DEF Crash, Goto, TypeOK
    <3>4. QED
      BY <2>14, <3>2, <3>3, KeepsVersionInv DEF Crash, rows
  <2>15. ASSUME NEW w \in Workers, RetryRaises(w) PROVE VersionInv'
    BY <2>15, WorkerGoes DEF RetryRaises, rows
  <2>16. ASSUME NEW w \in Workers, LoseChild(w) PROVE VersionInv'
    <3>1. \A v \in Workers : \/ pc'[v] = "idle"
                             \/ pc'[v] = pc[v] /\ job'[v] = job[v]
      BY <2>16 DEF LoseChild, Goto, TypeOK
    <3>2. QED
      BY <2>16, <3>1, KeepsVersionInv DEF LoseChild, rows
  <2>17. CASE UNCHANGED vars
    BY <2>17, KeepsVersionInv DEF vars, rows
  <2>18. QED
    BY <2>1, <2>2, <2>3, <2>4, <2>5, <2>6, <2>7, <2>8, <2>9, <2>10, <2>11, <2>12,
       <2>13, <2>14, <2>15, <2>16, <2>17 DEF Next, WorkerStep
<1>3. VersionInv => VersionAboveSource
  BY DEF VersionInv
<1>4. QED
  BY <1>1, <1>2, <1>3, TypeCorrect, PTL DEF Spec

-----------------------------------------------------------------------------
(* The link of an edit to its newest result. *)

(* edited_result_id never falls behind the table: only Commit appends a    *)
(* result, and it moves the link of that edit to the row it appends, also  *)
(* when an earlier delivery of the edit has left a result.                 *)
THEOREM LatestAlwaysLinked == Spec => []LatestIsLinked
<1>1. Init => LatestIsLinked
  BY ImageEditAssumption DEF Init, LatestIsLinked, Original
<1>2. TypeOK /\ LatestIsLinked /\ [Next]_vars => LatestIsLinked'
  <2> SUFFICES ASSUME TypeOK, LatestIsLinked, [Next]_vars PROVE LatestIsLinked'
    OBVIOUS
  <2>1. ASSUME NEW w \in Workers, Commit(w) PROVE LatestIsLinked'
    <3> DEFINE e == job[w].edit
               row == [edit |-> e, parent |-> source[e],
                       version |-> job[w].version, digest |-> job[w].digest]
    <3>1. /\ Len(results') = Len(results) + 1
          /\ \A i \in 1..Len(results) : results'[i] = results[i]
          /\ results'[Len(results) + 1] = row
          /\ Len(results) \in Nat /\ DOMAIN results' = 1..(Len(results) + 1)
          /\ DOMAIN results = 1..Len(results)
      BY <2>1 DEF Commit, TypeOK
    <3>2. edited' = [edited EXCEPT ![e] = Len(results) + 1]
      BY <2>1 DEF Commit
    <3>3. \A f \in Edits : edited'[f] = IF f = e THEN Len(results) + 1 ELSE edited[f]
      BY <3>2 DEF TypeOK
    <3>4. row.edit = e
      OBVIOUS
    <3>5. ASSUME NEW f \in Edits, NEW i \in DOMAIN results', results'[i].edit = f
          PROVE  i <= edited'[f]
      <4>1. CASE f = e
        BY <3>1, <3>3, <4>1
      <4>2. CASE f # e
        <5>1. i \in 1..Len(results) /\ results[i].edit = f
          BY <3>1, <3>4, <3>5, <4>2
        <5>2. QED
          BY <3>1, <3>3, <4>2, <5>1 DEF LatestIsLinked
      <4>3. QED
        BY <4>1, <4>2
    <3>6. QED
      BY <3>5 DEF LatestIsLinked
  <2>2. CASE UNCHANGED <<results, edited>>
    BY <2>2 DEF LatestIsLinked
  <2>3. QED
    BY <2>1, <2>2 DEF Next, WorkerStep, CreateEdit, Dispatch, DispatchFails, Receive,
       Prepare, Generate, Measure, ExecutionRaises, MarkFailed, MarkFailedRaises,
       Retry, RetryRaises, Ack, Crash, LoseChild, rows, vars
<1>3. QED
  BY <1>1, <1>2, TypeCorrect, PTL DEF Spec

-----------------------------------------------------------------------------
(* Executions that are not repeated. *)

(* A worker that only has to acknowledge no longer carries its edit. *)
Carries(w, e) == job[w].edit = e /\ pc[w] # "ack"

NoneReady(e) == \A r \in 0..MaxRetries : ready[<<e, r>>] = 0
OnlyReady(e, r) == ready[<<e, r>>] = 1 /\ \A q \in 0..MaxRetries : q # r => ready[<<e, q>>] = 0
NoCarrier(e) == \A w \in Workers : ~Carries(w, e)
OnlyCarrier(e, w) == Carries(w, e) /\ \A v \in Workers : v # w => ~Carries(v, e)

NoResult(e) == \A i \in DOMAIN results : results[i].edit # e

AtRest(e) ==
  /\ NoneReady(e) /\ NoCarrier(e)
  /\ \A i \in DOMAIN results : results[i].edit = e => results[i].digest = file[e]
  /\ status[e] = "failed" \/ request[e] \in {"new", "created"} => NoResult(e)

Waiting(e) ==
  /\ request[e] \notin {"new", "created"}
  /\ \E r \in 0..MaxRetries : OnlyReady(e, r)
  /\ NoCarrier(e) /\ NoResult(e)

InHands(e) ==
  /\ request[e] \notin {"new", "created"}
  /\ NoneReady(e) /\ NoResult(e)
  /\ \E w \in Workers : /\ OnlyCarrier(e, w)
                        /\ pc[w] = "commit" => job[w].digest = file[e]

(* While no delivery is repeated an edit has one execution at a time, which *)
(* leaves it for good when it has brought a result.                         *)
OnceInv == RunOnce => \A e \in Edits : AtRest(e) \/ Waiting(e) \/ InHands(e)

(* Steps of others. *)
LEMMA Untouched ==
  ASSUME TypeOK, NEW e \in Edits, AtRest(e) \/ Waiting(e) \/ InHands(e),
         request'[e] = request[e], status'[e] = status[e], file'[e] = file[e],
         \A r \in 0..MaxRetries : ready'[<<e, r>>] = ready[<<e, r>>],
         \A v \in Workers : Carries(v, e)' <=> Carries(v, e),
         \A v \in Workers : Carries(v, e) => pc'[v] = pc[v] /\ job'[v] = job[v],
         \A i \in DOMAIN results' : results'[i].edit = e => i \in DOMAIN results /\ results'[i] = results[i]
  PROVE  (AtRest(e) \/ Waiting(e) \/ InHands(e))'
<1>1. NoneReady(e) => NoneReady(e)'
  BY DEF NoneReady
<1>2. \A r \in 0..MaxRetries : OnlyReady(e, r) => OnlyReady(e, r)'
  BY DEF OnlyReady
<1>3. NoCarrier(e) => NoCarrier(e)'
  BY DEF NoCarrier
<1>4. NoResult(e) => NoResult(e)'
  BY DEF NoResult
<1>5. CASE AtRest(e)
  BY <1>1, <1>3, <1>4, <1>5 DEF AtRest
<1>6. CASE Waiting(e)
  BY <1>2, <1>3, <1>4, <1>6 DEF Waiting
<1>7. CASE InHands(e)
  <2>1. PICK w \in Workers : OnlyCarrier(e, w) /\ (pc[w] = "commit" => job[w].digest = file[e])
    BY <1>7 DEF InHands
  <2>2. OnlyCarrier(e, w)'
    BY <2>1 DEF OnlyCarrier
  <2>3. pc'[w] = "commit" => job'[w].digest = file'[e]
    BY <2>1 DEF OnlyCarrier
  <2>4. QED
    BY <1>1, <1>4, <1>7, <2>2, <2>3 DEF InHands
<1>8. QED
  BY <1>5, <1>6, <1>7

(* A worker's step leaves the edits of the others alone. *)
LEMMA OthersUntouched ==
  ASSUME TypeOK, NEW e \in Edits, AtRest(e) \/ Waiting(e) \/ InHands(e),
         NEW w \in Workers, job[w].edit # e, job'[w].edit # e,
         \A v \in Workers : v # w => pc'[v] = pc[v] /\ job'[v] = job[v],
         request' = request, status'[e] = status[e], file'[e] = file[e],
         \A r \in 0..MaxRetries : ready'[<<e, r>>] = ready[<<e, r>>],
         \A i \in DOMAIN results' : results'[i].edit = e => i \in DOMAIN results /\ results'[i] = results[i]
  PROVE  (AtRest(e) \/ Waiting(e) \/ InHands(e))'
<1>1. \A v \in Workers : Carries(v, e)' <=> Carries(v, e)
  BY DEF Carries
<1>2. \A v \in Workers : Carries(v, e) => pc'[v] = pc[v] /\ job'[v] = job[v]
  BY DEF Carries
<1>3. QED
  BY <1>1, <1>2, Untouched

(* A worker that goes on with its edit, without a result. *)
LEMMA GoesOn ==
  ASSUME TypeOK, OnceInv, RunOnce, NEW w \in Workers, pc[w] \notin {"idle", "ack"},
         NEW label \in Labels \ {"idle", "ack"}, Goto(w, label),
         \A v \in Workers : v # w => job'[v] = job[v],
         job'[w].edit = job[w].edit,
         label = "commit" => job'[w].digest = file'[job[w].edit],
         \A e \in Edits : e # job[w].edit => status'[e] = status[e] /\ file'[e] = file[e],
         UNCHANGED <<results, request, ready>>
  PROVE  \A e \in Edits : (AtRest(e) \/ Waiting(e) \/ InHands(e))'
<1> SUFFICES ASSUME NEW e \in Edits PROVE (AtRest(e) \/ Waiting(e) \/ InHands(e))'
  OBVIOUS
<1>1. AtRest(e) \/ Waiting(e) \/ InHands(e)
  BY DEF OnceInv
<1>2. pc'[w] = label /\ \A v \in Workers : v # w => pc'[v] = pc[v]
  BY DEF Goto, TypeOK
<1>3. CASE e # job[w].edit
  BY <1>1, <1>2, <1>3, OthersUntouched
<1>4. CASE e = job[w].edit
  <2>1. Carries(w, e) /\ Carries(w, e)'
    BY <1>2, <1>4 DEF Carries
  <2>2. InHands(e)
    BY <1>1, <2>1 DEF AtRest, Waiting, NoCarrier
  <2>3. OnlyCarrier(e, w)
    BY <2>1, <2>2 DEF InHands, OnlyCarrier
  <2>4. OnlyCarrier(e, w)'
    BY <1>2, <2>1, <2>3 DEF OnlyCarrier, Carries
  <2>5. QED
    BY <1>2, <1>4, <2>2, <2>4 DEF InHands, NoneReady, NoResult
<1>5. QED
  BY <1>3, <1>4

(* The request puts one message of the edit into the broker.                 *)
LEMMA RequestKeepsOnce ==
  ASSUME TypeOK, OnceInv, RunOnce, NEW e \in Edits,
         CreateEdit(e) \/ Dispatch(e) \/ DispatchFails(e)
  PROVE  \A f \in Edits : (AtRest(f) \/ Waiting(f) \/ InHands(f))'
<1>1. AtRest(e) /\ NoResult(e) /\ request[e] \in {"new", "created"}
  BY DEF OnceInv, AtRest, Waiting, InHands, CreateEdit, Dispatch, DispatchFails
<1>2. UNCHANGED <<results, file, pc, job>>
  BY DEF CreateEdit, Dispatch, DispatchFails, rows
<1>3. NoCarrier(e)' /\ NoResult(e)'
  BY <1>1, <1>2 DEF AtRest, NoCarrier, Carries, NoResult
<1>4. ASSUME NEW f \in Edits, f # e PROVE (AtRest(f) \/ Waiting(f) \/ InHands(f))'
  <2>1. request'[f] = request[f] /\ status'[f] = status[f]
    BY <1>4 DEF CreateEdit, Dispatch, DispatchFails, rows, TypeOK
  <2>2. \A r \in 0..MaxRetries : ready'[<<f, r>>] = ready[<<f, r>>]
    BY <1>4 DEF CreateEdit, Dispatch, DispatchFails, TypeOK, Messages
  <2>3. QED
    BY <1>2, <2>1, <2>2, Untouched DEF OnceInv, Carries
<1>5. CASE CreateEdit(e) \/ DispatchFails(e)
  <2>1. NoneReady(e)'
    BY <1>1, <1>5 DEF AtRest, NoneReady, CreateEdit, DispatchFails
  <2>2. AtRest(e)'
    BY <1>3, <2>1 DEF AtRest, NoResult
  <2>3. QED
    BY <1>4, <2>2
<1>6. CASE Dispatch(e)
  <2>1. 0 \in 0..MaxRetries
    BY ImageEditAssumption
  <2>2. OnlyReady(e, 0)'
    BY <1>1, <1>6, <2>1 DEF AtRest, NoneReady, OnlyReady, Dispatch, TypeOK, Messages
  <2>3. request'[e] = "dispatched"
    BY <1>6 DEF Dispatch, TypeOK
  <2>4. Waiting(e)'
    BY <1>3, <2>1, <2>2, <2>3 DEF Waiting
  <2>5. QED
    BY <1>4, <2>4
<1>7. QED
  BY <1>5, <1>6

(* A worker takes the message: none is left behind.                          *)
LEMMA ReceiveKeepsOnce ==
  ASSUME TypeOK, OnceInv, RunOnce, NEW w \in Workers, NEW m \in Messages, Receive(w, m)
  PROVE  \A f \in Edits : (AtRest(f) \/ Waiting(f) \/ InHands(f))'
<1> DEFINE e == m[1]
<1>1. e \in Edits /\ m[2] \in 0..MaxRetries /\ m = <<e, m[2]>> /\ e # NoEdit
  BY ImageEditAssumption DEF Messages
<1>2. /\ job[w].edit = NoEdit /\ pc'[w] = "prepare" /\ job'[w].edit = e
      /\ \A v \in Workers : v # w => pc'[v] = pc[v] /\ job'[v] = job[v]
      /\ UNCHANGED <<results, status, file, request>>
  BY <1>1 DEF Receive, Goto, TypeOK, rows, NoJob
<1>3. Waiting(e)
  BY <1>1 DEF Receive, OnceInv, AtRest, InHands, NoneReady
<1>4. \A r \in 0..MaxRetries : ready'[<<e, r>>] = 0
  <2>1. PICK q \in 0..MaxRetries : OnlyReady(e, q)
    BY <1>3 DEF Waiting
  <2>2. q = m[2] /\ ready[m] = 1
    BY <1>1, <2>1 DEF OnlyReady, Receive
  <2>3. ready' = [ready EXCEPT ![m] = ready[m] - 1]
    BY DEF Receive
  <2>4. ready'[<<e, q>>] = 0
    <3>1. <<e, q>> = m
      BY <1>1, <2>2
    <3>2. ready'[m] = 0
      BY <2>2, <2>3 DEF TypeOK
    <3>3. QED
      BY <3>1, <3>2
  <2>5. ASSUME NEW r \in 0..MaxRetries, r # q PROVE ready'[<<e, r>>] = 0
    BY <1>1, <2>1, <2>2, <2>3, <2>5 DEF OnlyReady, TypeOK, Messages
  <2>6. QED
    BY <2>4, <2>5
<1>5. InHands(e)'
  <2>1. OnlyCarrier(e, w)'
    BY <1>2, <1>3 DEF OnlyCarrier, Carries, Waiting, NoCarrier
  <2>2. NoneReady(e)' /\ NoResult(e)'
    BY <1>2, <1>3, <1>4 DEF NoneReady, NoResult, Waiting
  <2>3. QED
    BY <1>2, <1>3, <2>1, <2>2 DEF InHands, Waiting
<1>6. ASSUME NEW f \in Edits, f # e PROVE (AtRest(f) \/ Waiting(f) \/ InHands(f))'
  <2>1. \A r \in 0..MaxRetries : ready'[<<f, r>>] = ready[<<f, r>>]
    BY <1>1, <1>6 DEF Receive, TypeOK, Messages
  <2>2. job[w].edit # f /\ job'[w].edit # f
    BY <1>2, <1>6, ImageEditAssumption
  <2>3. QED
    BY <1>2, <2>1, <2>2, OthersUntouched DEF OnceInv
<1>7. QED
  BY <1>5, <1>6

(* The end of an execution: with its result, or, unless it is retried,      *)
(* without one.                                                             *)
LEMMA EndKeepsOnce ==
  ASSUME TypeOK, OnceInv, RunOnce, NEW w \in Workers, Commit(w) \/ Retry(w) \/ RetryRaises(w)
  PROVE  \A f \in Edits : (AtRest(f) \/ Waiting(f) \/ InHands(f))'
<1>1. /\ pc[w] \in {"commit", "raised"} /\ pc'[w] = "ack" /\ job' = job
      /\ \A v \in Workers : v # w => pc'[v] = pc[v]
      /\ UNCHANGED <<file, request>>
  BY DEF Commit, Retry, RetryRaises, Goto, TypeOK, rows
<1>2. PICK e \in Edits : e = job[w].edit
  BY <1>1, BusyHoldsEdit
<1>3. InHands(e) /\ OnlyCarrier(e, w)
  <2>1. Carries(w, e)
    BY <1>1, <1>2 DEF Carries
  <2>2. InHands(e)
    BY <1>2, <2>1 DEF OnceInv, AtRest, Waiting, NoCarrier
  <2>3. QED
    BY <2>1, <2>2 DEF InHands, OnlyCarrier
<1>4. NoCarrier(e)'
  BY <1>1, <1>3 DEF NoCarrier, OnlyCarrier, Carries
<1>5. \A f \in Edits : f # e => \A v \in Workers : Carries(v, f)' <=> Carries(v, f)
  BY <1>1, <1>2 DEF Carries
<1>6. \A f \in Edits : f # e => \A v \in Workers : Carries(v, f) => pc'[v] = pc[v]
  BY <1>1, <1>2 DEF Carries
<1>7. CASE Commit(w)
  <2>1. PICK row : /\ row.edit = e /\ row.digest = job[w].digest /\ results' = Append(results, row)
    BY <1>2, <1>7 DEF Commit
  <2>2. /\ DOMAIN results' = 1..(Len(results) + 1) /\ DOMAIN results = 1..Len(results)
        /\ results'[Len(results) + 1] = row /\ Len(results) \in Nat
        /\ \A i \in 1..Len(results) : results'[i] = results[i]
    BY <2>1 DEF TypeOK
  <2>3. job[w].digest = file[e]
    BY <1>3, <1>7 DEF InHands, OnlyCarrier, Commit
  <2>4. \A i \in DOMAIN results' : results'[i].edit = e => results'[i].digest = file'[e]
    <3> SUFFICES ASSUME NEW i \in DOMAIN results', results'[i].edit = e PROVE results'[i].digest = file'[e]
      OBVIOUS
    <3>1. i = Len(results) + 1
      BY <1>3, <2>2 DEF InHands, NoResult
    <3>2. QED
      BY <1>1, <2>1, <2>2, <2>3, <3>1
  <2>5. status'[e] = "succeeded" /\ \A f \in Edits : f # e => status'[f] = status[f]
    BY <1>2, <1>7 DEF Commit, TypeOK
  <2>6. NoneReady(e)' /\ ready' = ready
    BY <1>3, <1>7 DEF Commit, InHands, NoneReady
  <2>7. AtRest(e)'
    BY <1>1, <1>3, <1>4, <2>4, <2>5, <2>6 DEF AtRest, InHands
  <2>8. ASSUME NEW f \in Edits, f # e PROVE (AtRest(f) \/ Waiting(f) \/ InHands(f))'
    <3>1. \A i \in DOMAIN results' : results'[i].edit = f => i \in DOMAIN results /\ results'[i] = results[i]
      BY <2>1, <2>2, <2>8
    <3>2. QED
      BY <1>1, <1>5, <1>6, <2>5, <2>6, <2>8, <3>1, Untouched DEF OnceInv
  <2>9. QED
    BY <2>7, <2>8
<1>8. CASE Retry(w) \/ RetryRaises(w)
  <2>1. UNCHANGED <<results, status>>
    BY <1>8 DEF Retry, RetryRaises, rows
  <2>2. NoResult(e)'
    BY <1>3, <2>1 DEF InHands, NoResult
  <2>3. CASE ready' = ready
    <3>1. AtRest(e)'
      BY <1>3, <1>4, <2>2, <2>3 DEF AtRest, InHands, NoneReady, NoResult
    <3>2. ASSUME NEW f \in Edits, f # e PROVE (AtRest(f) \/ Waiting(f) \/ InHands(f))'
      BY <1>1, <1>5, <1>6, <2>1, <2>3, <3>2, Untouched DEF OnceInv
    <3>3. QED
      BY <3>1, <3>2
  <2>4. CASE ready' # ready
    <3>1. PICK r \in 0..MaxRetries : ready' = [ready EXCEPT ![<<e, r>>] = @ + 1]
      <4>1. job[w].retries \in 0..MaxRetries
        BY DEF TypeOK, Jobs
      <4>2. job[w].retries < MaxRetries
        BY <1>8, <2>4 DEF Retry, RetryRaises
      <4>3. job[w].retries + 1 \in 0..MaxRetries
        BY <4>1, <4>2, ImageEditAssumption
      <4>4. QED
        BY <1>2, <1>8, <2>4, <4>3 DEF Retry, RetryRaises
    <3>2. OnlyReady(e, r)'
      BY <1>2, <1>3, <3>1 DEF OnlyReady, InHands, NoneReady, TypeOK, Messages
    <3>3. Waiting(e)'
      <4>1. \E q \in 0..MaxRetries : OnlyReady(e, q)'
        BY <3>1, <3>2
      <4>2. QED
        BY <1>1, <1>3, <1>4, <2>2, <4>1 DEF Waiting, InHands
    <3>4. ASSUME NEW f \in Edits, f # e PROVE (AtRest(f) \/ Waiting(f) \/ InHands(f))'
      <4>1. \A q \in 0..MaxRetries : ready'[<<f, q>>] = ready[<<f, q>>]
        BY <3>1, <3>4 DEF TypeOK, Messages
      <4>2. QED
        BY <1>1, <1>5, <1>6, <2>1, <3>4, <4>1, Untouched DEF OnceInv
    <3>5. QED
      BY <3>3, <3>4
  <2>5. QED
    BY <2>3, <2>4
<1>9. QED
  BY <1>7, <1>8

(* A worker that acknowledges, a child that is lost, or a thread that dies: *)
(* nothing is delivered again.                                              *)
LEMMA LeavingKeepsOnce ==
  ASSUME TypeOK, OnceInv, RunOnce, NEW w \in Workers,
         Ack(w) \/ LoseChild(w) \/ (Crash(w) /\ ~Celery)
  PROVE  \A f \in Edits : (AtRest(f) \/ Waiting(f) \/ InHands(f))'
<1> SUFFICES ASSUME NEW f \in Edits PROVE (AtRest(f) \/ Waiting(f) \/ InHands(f))'
  OBVIOUS
<1>1. /\ pc'[w] = "idle" /\ job'[w].edit = NoEdit
      /\ \A v \in Workers : v # w => pc'[v] = pc[v] /\ job'[v] = job[v]
      /\ UNCHANGED <<results, status, file, request, ready>>
  BY DEF Ack, LoseChild, Crash, Goto, TypeOK, rows, NoJob
<1>2. AtRest(f) \/ Waiting(f) \/ InHands(f)
  BY DEF OnceInv
<1>3. ~Carries(w, f)'
  BY <1>1, ImageEditAssumption DEF Carries
<1>4. CASE Carries(w, f)
  <2>1. InHands(f)
    BY <1>2, <1>4 DEF AtRest, Waiting, NoCarrier
  <2>2. OnlyCarrier(f, w)
    BY <1>4, <2>1 DEF InHands, OnlyCarrier
  <2>3. NoCarrier(f)'
    BY <1>1, <1>3, <2>2 DEF NoCarrier, OnlyCarrier, Carries
  <2>4. AtRest(f)'
    BY <1>1, <2>1, <2>3 DEF AtRest, InHands, NoneReady, NoResult
  <2>5. QED
    BY <2>4
<1>5. CASE ~Carries(w, f)
  <2>1. \A v \in Workers : Carries(v, f)' <=> Carries(v, f)
    BY <1>1, <1>3, <1>5 DEF Carries
  <2>2. \A v \in Workers : Carries(v, f) => pc'[v] = pc[v] /\ job'[v] = job[v]
    BY <1>1, <1>5
  <2>3. QED
    BY <1>1, <1>2, <2>1, <2>2, Untouched
<1>6. QED
  BY <1>4, <1>5

(* Every step keeps the invariant.                                           *)
LEMMA OnceStep ==
  ASSUME TypeOK, OnceInv, [Next]_vars
  PROVE  OnceInv'
<1> SUFFICES ASSUME RunOnce' PROVE \A f \in Edits : (AtRest(f) \/ Waiting(f) \/ InHands(f))'
  BY DEF OnceInv
<1>1. crashes \in Nat
  BY ImageEditAssumption DEF TypeOK
<1>2. RunOnce
  <2>1. ASSUME NEW e \in Edits, CreateEdit(e) \/ Dispatch(e) \/ DispatchFails(e) PROVE crashes' = crashes
    BY <2>1 DEF CreateEdit, Dispatch, DispatchFails
  <2>2. ASSUME NEW w \in Workers,
             WorkerStep(w) \/ MarkFailedRaises(w) \/ RetryRaises(w) \/ LoseChild(w)
        PROVE crashes' = crashes
    BY <2>2 DEF WorkerStep, Receive, Prepare, Generate, Measure, Commit, ExecutionRaises, MarkFailed,
       MarkFailedRaises, Retry, RetryRaises, Ack, LoseChild
  <2>3. ASSUME NEW w \in Workers, Crash(w) PROVE crashes' = crashes + 1
    BY <2>3 DEF Crash
  <2>4. crashes' = crashes \/ crashes' = crashes + 1
    BY <2>1, <2>2, <2>3 DEF Next, vars
  <2>5. QED
    BY <1>1, <2>4 DEF RunOnce
<1>3. ASSUME NEW w \in Workers,
             \/ Prepare(w) \/ Generate(w) \/ Measure(w) \/ ExecutionRaises(w)
             \/ MarkFailed(w) \/ MarkFailedRaises(w)
      PROVE  \A f \in Edits : (AtRest(f) \/ Waiting(f) \/ InHands(f))'
  <2>1. pc[w] \notin {"idle", "ack"} /\ UNCHANGED <<results, request, ready>>
    BY <1>3 DEF Prepare, Generate, Measure, ExecutionRaises, MarkFailed, MarkFailedRaises, rows
  <2>2. job[w].edit \in Edits
    BY <2>1, BusyHoldsEdit
  <2>3. PICK label \in Labels \ {"idle", "ack"} :
          Goto(w, label) /\ (label = "commit" => Measure(w))
    <3>1. CASE Prepare(w) \/ Generate(w)
      BY <3>1 DEF Prepare, Generate, Labels
    <3>2. CASE Measure(w)
      BY <3>2 DEF Measure, Labels
    <3>3. CASE ExecutionRaises(w) \/ MarkFailed(w) \/ MarkFailedRaises(w)
      BY <3>3 DEF ExecutionRaises, MarkFailed, MarkFailedRaises, Labels
    <3>4. QED
      BY <1>3, <3>1, <3>2, <3>3
  <2>4. /\ \A v \in Workers : v # w => job'[v] = job[v]
        /\ job'[w].edit = job[w].edit
        /\ Measure(w) => job'[w].digest = file'[job[w].edit]
    <3>1. CASE job' = job /\ ~Measure(w)
      BY <3>1
    <3>2. CASE Measure(w)
      <4>1. PICK n : job' = [job EXCEPT ![w] = [job[w] EXCEPT !.version = n, !.digest = file[job[w].edit]]]
        BY <3>2 DEF Measure
      <4>2. job[w] \in Jobs /\ file' = file
        BY <3>2 DEF Measure, TypeOK, rows
      <4>3. job'[w] = [job[w] EXCEPT !.version = n, !.digest = file[job[w].edit]]
        BY <4>1 DEF TypeOK
      <4>4. QED
        BY <4>1, <4>2, <4>3 DEF Jobs, TypeOK
    <3>3. QED
      BY <1>3, <3>1, <3>2 DEF Prepare, Generate, ExecutionRaises, MarkFailed, MarkFailedRaises, Measure
  <2>5. \A e \in Edits : e # job[w].edit => status'[e] = status[e] /\ file'[e] = file[e]
    BY <1>3 DEF Prepare, Generate, Measure, ExecutionRaises, MarkFailed, MarkFailedRaises, rows, TypeOK
  <2>6. QED
    BY <1>2, <2>1, <2>3, <2>4, <2>5, GoesOn
<1>4. ASSUME NEW w \in Workers, Crash(w) PROVE ~Celery
  BY <1>4 DEF Crash, RunOnce, TypeOK
<1>5. CASE UNCHANGED vars
  BY <1>2, <1>5, Untouched DEF OnceInv, vars, rows, Carries
<1>6. QED
  BY <1>2, <1>3, <1>4, <1>5, RequestKeepsOnce, ReceiveKeepsOnce, EndKeepsOnce, LeavingKeepsOnce
     DEF Next, WorkerStep

(* Hence an edit is at rest, waiting or in the hands of one worker.          *)
LEMMA OnceInvariant == Spec => []OnceInv
<1>1. Init => OnceInv
  <2> SUFFICES ASSUME Init, NEW e \in Edits PROVE AtRest(e)
    BY DEF OnceInv
  <2>1. NoneReady(e)
    BY DEF Init, NoneReady, Messages
  <2>2. NoCarrier(e)
    BY ImageEditAssumption DEF Init, NoCarrier, Carries, NoJob
  <2>3. NoResult(e)
    BY ImageEditAssumption DEF Init, NoResult, Original
  <2>4. QED
    BY <2>1, <2>2, <2>3 DEF AtRest, NoResult
<1>2. QED
  BY <1>1, OnceStep, TypeCorrect, PTL DEF Spec

(* The digest of a result row is that of the file it points to, as long as *)
(* no delivery is repeated, however many workers and retries there are.     *)
THEOREM FileStaysMeasured == Spec => []ResultMatchesFile
<1>1. TypeOK /\ OnceInv => ResultMatchesFile
  <2> SUFFICES ASSUME TypeOK, OnceInv, RunOnce, NEW i \in DOMAIN results, results[i].edit # NoEdit
               PROVE  results[i].digest = file[results[i].edit]
    BY DEF ResultMatchesFile
  <2>1. results[i].edit \in Edits
    <3>1. results[i] \in ResultRows
      BY DEF TypeOK
    <3>2. QED
      BY <3>1 DEF ResultRows
  <2>2. AtRest(results[i].edit)
    BY <2>1 DEF OnceInv, Waiting, InHands, NoResult
  <2>3. QED
    BY <2>2 DEF AtRest
<1>2. QED
  BY <1>1, OnceInvariant, TypeCorrect, PTL

(* An edit that its row calls failed has brought no result, whichever of    *)
(* its transactions raised.                                                 *)
THEOREM FailedBringsNothing == Spec => []FailedEditHasNoResult
<1>1. OnceInv => FailedEditHasNoResult
  BY DEF OnceInv, FailedEditHasNoResult, AtRest, Waiting, InHands, NoResult
<1>2. QED
  BY <1>1, OnceInvariant, PTL

-----------------------------------------------------------------------------
(* How many results an edit brings. *)

RowsOf(e) == {i \in DOMAIN results : results[i].edit = e}
CopiesOf(e) == [r \in 0..MaxRetries |-> ready[<<e, r>>]]
CarriersOf(e) == {w \in Workers : Carries(w, e)}

RowClaims(R) == {<<"row", i, 0>> : i \in R}
LevelClaims(r, n) == {<<"copy", r, k>> : k \in 1..n}
CopyClaims(F) == UNION {LevelClaims(r, F[r]) : r \in 0..MaxRetries}
WorkerClaims(W) == {<<"worker", w, 0>> : w \in W}

(* What an edit has brought, and what may still bring a result: its rows of *)
(* task_results, the copies of its messages, the workers that carry it.     *)
ClaimsOf(R, F, W) == RowClaims(R) \cup CopyClaims(F) \cup WorkerClaims(W)
Claims(e) == ClaimsOf(RowsOf(e), CopiesOf(e), CarriersOf(e))

(* The one publication that is still to come.                               *)
Unpublished(e) == IF request[e] \in {"new", "created"} THEN 1 ELSE 0

Paid(e) == /\ IsFiniteSet(Claims(e))
           /\ Cardinality(Claims(e)) + Unpublished(e) <= 1 + crashes

(* Every claim of an edit is paid for, by its publication or by a crash: a  *)
(* delivery is turned into one result or one retry, never into both.        *)
AllPaid == \A e \in Edits : Paid(e)

(* Where claims lie, shown kind by kind. *)
LEMMA ClaimsWithin ==
  ASSUME NEW R, NEW F, NEW W, NEW S,
         \A i \in R : <<"row", i, 0>> \in S,
         \A r \in 0..MaxRetries : \A k \in 1..F[r] : <<"copy", r, k>> \in S,
         \A w \in W : <<"worker", w, 0>> \in S
  PROVE  ClaimsOf(R, F, W) \subseteq S
<1>1. RowClaims(R) \subseteq S
  BY DEF RowClaims
<1>2. CopyClaims(F) \subseteq S
  <2>1. ASSUME NEW r \in 0..MaxRetries PROVE LevelClaims(r, F[r]) \subseteq S
    BY DEF LevelClaims
  <2> QED
    BY <2>1 DEF CopyClaims
<1>3. WorkerClaims(W) \subseteq S
  BY DEF WorkerClaims
<1> QED
  BY <1>1, <1>2, <1>3 DEF ClaimsOf

(* And each kind is among them. *)
LEMMA ClaimsHave ==
  ASSUME NEW R, NEW F, NEW W
  PROVE  /\ \A i \in R : <<"row", i, 0>> \in ClaimsOf(R, F, W)
         /\ \A r \in 0..MaxRetries : \A k \in 1..F[r] : <<"copy", r, k>> \in ClaimsOf(R, F, W)
         /\ \A w \in W : <<"worker", w, 0>> \in ClaimsOf(R, F, W)
<1>1. ASSUME NEW i \in R PROVE <<"row", i, 0>> \in RowClaims(R)
  BY DEF RowClaims
<1>2. ASSUME NEW r \in 0..MaxRetries, NEW k \in 1..F[r]
      PROVE  <<"copy", r, k>> \in CopyClaims(F)
  <2>1. <<"copy", r, k>> \in LevelClaims(r, F[r])
    BY DEF LevelClaims
  <2> QED
    BY <2>1 DEF CopyClaims
<1>3. ASSUME NEW w \in W PROVE <<"worker", w, 0>> \in WorkerClaims(W)
  BY DEF WorkerClaims
<1> QED
  BY <1>1, <1>2, <1>3 DEF ClaimsOf

(* A finite set that gives up an element, or not, and gains one. *)
LEMMA Gained ==
  ASSUME NEW S, NEW T, NEW b, IsFiniteSet(S), T \subseteq S \cup {b}
  PROVE  IsFiniteSet(T) /\ Cardinality(T) \in Nat /\ Cardinality(T) <= Cardinality(S) + 1
<1>0. Cardinality(S) \in Nat
  BY FS_CardinalityType
<1>1. IsFiniteSet(S \cup {b}) /\ Cardinality(S \cup {b}) <= Cardinality(S) + 1
  BY <1>0, FS_AddElement
<1>2. IsFiniteSet(T) /\ Cardinality(T) <= Cardinality(S \cup {b})
  BY <1>1, FS_Subset
<1>3. Cardinality(T) \in Nat /\ Cardinality(S) \in Nat /\ Cardinality(S \cup {b}) \in Nat
  BY <1>1, <1>2, FS_CardinalityType
<1> QED
  BY <1>1, <1>2, <1>3

(* A set with one element exchanged has no more elements.                    *)
LEMMA Swapped ==
  ASSUME NEW S, NEW T, NEW a, NEW b, IsFiniteSet(S), a \in S, T \subseteq (S \ {a}) \cup {b}
  PROVE  IsFiniteSet(T) /\ Cardinality(T) <= Cardinality(S)
<1>1. IsFiniteSet(S \ {a}) /\ Cardinality(S \ {a}) = Cardinality(S) - 1
  BY FS_RemoveElement
<1>2. IsFiniteSet(T) /\ Cardinality(T) \in Nat /\ Cardinality(T) <= Cardinality(S \ {a}) + 1
  BY <1>1, Gained
<1>3. Cardinality(S) \in Nat
  BY FS_CardinalityType
<1> QED
  BY <1>1, <1>2, <1>3

(* What a step does to the claims of an edit: none is new, one takes the    *)
(* place of another, or the publication or a crash adds one.                *)
Fewer(e) == Claims(e)' \subseteq Claims(e)
Turned(e) == \E a \in Claims(e) : \E b : Claims(e)' \subseteq (Claims(e) \ {a}) \cup {b}
Gains(e) == \E b : Claims(e)' \subseteq Claims(e) \cup {b}

(* Claims stay within the budget if they turn into each other or a death     *)
(* pays.                                                                     *)
LEMMA StaysPaid ==
  ASSUME TypeOK, TypeOK', NEW e \in Edits, Paid(e),
         \/ /\ Fewer(e) \/ Turned(e)
            /\ crashes' = crashes /\ Unpublished(e)' <= Unpublished(e)
         \/ /\ Gains(e)
            /\ \/ crashes' = crashes /\ Unpublished(e) = 1 /\ Unpublished(e)' = 0
               \/ crashes' = crashes + 1 /\ Unpublished(e)' = Unpublished(e)
  PROVE  Paid(e)'
<1>1. /\ IsFiniteSet(Claims(e)) /\ Cardinality(Claims(e)) \in Nat
      /\ crashes \in Nat /\ crashes' \in Nat
      /\ Unpublished(e) \in 0..1 /\ Unpublished(e)' \in 0..1
      /\ Cardinality(Claims(e)) + Unpublished(e) <= 1 + crashes
  BY FS_CardinalityType, ImageEditAssumption DEF Paid, Unpublished, TypeOK
<1>2. CASE (Fewer(e) \/ Turned(e)) /\ crashes' = crashes /\ Unpublished(e)' <= Unpublished(e)
  <2>1. IsFiniteSet(Claims(e)') /\ Cardinality(Claims(e)') <= Cardinality(Claims(e))
    <3>1. CASE Fewer(e)
      BY <1>1, <3>1, FS_Subset DEF Fewer
    <3>2. CASE Turned(e)
      <4>1. PICK a, b : a \in Claims(e) /\ Claims(e)' \subseteq (Claims(e) \ {a}) \cup {b}
        BY <3>2 DEF Turned
      <4> QED
        BY <1>1, <4>1, Swapped
    <3> QED
      BY <1>2, <3>1, <3>2
  <2>2. Cardinality(Claims(e)') \in Nat
    BY <2>1, FS_CardinalityType
  <2> QED
    BY <1>1, <1>2, <2>1, <2>2 DEF Paid
<1>3. CASE Gains(e) /\ \/ crashes' = crashes /\ Unpublished(e) = 1 /\ Unpublished(e)' = 0
                       \/ crashes' = crashes + 1 /\ Unpublished(e)' = Unpublished(e)
  <2>1. PICK b : Claims(e)' \subseteq Claims(e) \cup {b}
    BY <1>3 DEF Gains
  <2>2. /\ IsFiniteSet(Claims(e)') /\ Cardinality(Claims(e)') \in Nat
        /\ Cardinality(Claims(e)') <= Cardinality(Claims(e)) + 1
    BY <1>1, <2>1, Gained
  <2> QED
    BY <1>1, <1>3, <2>2 DEF Paid
<1> QED
  BY <1>2, <1>3

(* A step that leaves an edit no row, copy or carrier that it did not have. *)
LEMMA NothingNew ==
  ASSUME NEW e \in Edits,
         RowsOf(e)' \subseteq RowsOf(e), CarriersOf(e)' \subseteq CarriersOf(e),
         \A r \in 0..MaxRetries : 1..CopiesOf(e)'[r] \subseteq 1..CopiesOf(e)[r]
  PROVE  Fewer(e)
<1> DEFINE S == ClaimsOf(RowsOf(e), CopiesOf(e), CarriersOf(e))
<1>1. /\ \A i \in RowsOf(e)' : <<"row", i, 0>> \in S
      /\ \A r \in 0..MaxRetries : \A k \in 1..CopiesOf(e)'[r] : <<"copy", r, k>> \in S
      /\ \A w \in CarriersOf(e)' : <<"worker", w, 0>> \in S
  BY ClaimsHave
<1>2. ClaimsOf(RowsOf(e)', CopiesOf(e)', CarriersOf(e)') \subseteq S
  BY <1>1, ClaimsWithin
<1> QED
  BY <1>2 DEF Claims, Fewer

(* One new claim at most, in the place of one that is given up or not. *)
LEMMA OneNew ==
  ASSUME NEW e \in Edits, NEW a, NEW b,
         \A i \in RowsOf(e)' :
           (i \in RowsOf(e) /\ <<"row", i, 0>> # a) \/ <<"row", i, 0>> = b,
         \A r \in 0..MaxRetries : \A k \in 1..CopiesOf(e)'[r] :
           (k \in 1..CopiesOf(e)[r] /\ <<"copy", r, k>> # a) \/ <<"copy", r, k>> = b,
         \A w \in CarriersOf(e)' :
           (w \in CarriersOf(e) /\ <<"worker", w, 0>> # a) \/ <<"worker", w, 0>> = b
  PROVE  Claims(e)' \subseteq (Claims(e) \ {a}) \cup {b}
<1> DEFINE C == ClaimsOf(RowsOf(e), CopiesOf(e), CarriersOf(e))
           S == (C \ {a}) \cup {b}
<1>1. /\ \A i \in RowsOf(e)' : <<"row", i, 0>> \in S
      /\ \A r \in 0..MaxRetries : \A k \in 1..CopiesOf(e)'[r] : <<"copy", r, k>> \in S
      /\ \A w \in CarriersOf(e)' : <<"worker", w, 0>> \in S
  <2>1. ASSUME NEW i \in RowsOf(e)' PROVE <<"row", i, 0>> \in S
    BY ClaimsHave
  <2>2. ASSUME NEW r \in 0..MaxRetries, NEW k \in 1..CopiesOf(e)'[r]
        PROVE  <<"copy", r, k>> \in S
    BY ClaimsHave
  <2>3. ASSUME NEW w \in CarriersOf(e)' PROVE <<"worker", w, 0>> \in S
    BY ClaimsHave
  <2> QED
    BY <2>1, <2>2, <2>3
<1> HIDE DEF S
<1>2. ClaimsOf(RowsOf(e)', CopiesOf(e)', CarriersOf(e)') \subseteq S
  BY <1>1, ClaimsWithin
<1> QED
  BY <1>2 DEF Claims, S

(* One more copy of a message of an edit; the others see nothing of it. *)
LEMMA OneMoreCopy ==
  ASSUME TypeOK, NEW e \in Edits, NEW r \in 0..MaxRetries,
         ready' = [ready EXCEPT ![<<e, r>>] = @ + 1]
  PROVE  /\ \A q \in 0..MaxRetries : \A k \in 1..CopiesOf(e)'[q] :
              k \in 1..CopiesOf(e)[q] \/ <<"copy", q, k>> = <<"copy", r, ready[<<e, r>>] + 1>>
         /\ \A f \in Edits \ {e} : CopiesOf(f)' = CopiesOf(f)
<1>1. /\ <<e, r>> \in Messages /\ ready[<<e, r>>] \in Nat
      /\ ready'[<<e, r>>] = ready[<<e, r>>] + 1
      /\ \A q \in 0..MaxRetries : q # r => ready'[<<e, q>>] = ready[<<e, q>>]
      /\ \A f \in Edits \ {e} : \A q \in 0..MaxRetries : ready'[<<f, q>>] = ready[<<f, q>>]
  BY DEF TypeOK, Messages
<1>2. ASSUME NEW q \in 0..MaxRetries, NEW k \in 1..ready'[<<e, q>>]
      PROVE  k \in 1..ready[<<e, q>>] \/ (q = r /\ k = ready[<<e, r>>] + 1)
  BY <1>1
<1> QED
  BY <1>1, <1>2 DEF CopiesOf

(* A step that publishes nothing and leaves its workers with fewer edits. *)
LEMMA OnlyGoesOn ==
  ASSUME TypeOK, TypeOK', AllPaid, UNCHANGED <<results, ready, crashes>>,
         \A e \in Edits : Unpublished(e)' <= Unpublished(e),
         \A v \in Workers : \A e \in Edits : Carries(v, e)' => Carries(v, e)
  PROVE  AllPaid'
<1> SUFFICES ASSUME NEW e \in Edits PROVE Paid(e)'
  BY DEF AllPaid
<1>1. RowsOf(e)' = RowsOf(e) /\ CopiesOf(e)' = CopiesOf(e)
  BY DEF RowsOf, CopiesOf
<1>2. CarriersOf(e)' \subseteq CarriersOf(e)
  BY DEF CarriersOf
<1>3. Fewer(e)
  BY <1>1, <1>2, NothingNew
<1> QED
  BY <1>3, StaysPaid DEF AllPaid

(* A worker that goes on, without publishing anything. *)
LEMMA WorkerGoesOn ==
  ASSUME TypeOK, TypeOK', AllPaid, NEW w \in Workers, NEW label,
         pc[w] # "ack" \/ label = "idle", Goto(w, label),
         \A v \in Workers : v # w => job'[v] = job[v],
         job'[w].edit \in {job[w].edit, NoEdit},
         UNCHANGED <<results, request, ready, crashes>>
  PROVE  AllPaid'
<1>1. \A v \in Workers : v # w => pc'[v] = pc[v]
  BY DEF Goto, TypeOK
<1>2. \A e \in Edits : Unpublished(e)' <= Unpublished(e)
  BY DEF Unpublished
<1>3. pc'[w] = label /\ (label = "idle" => job'[w].edit = NoEdit)
  BY DEF Goto, TypeOK
<1>4. \A v \in Workers : \A e \in Edits : Carries(v, e)' => Carries(v, e)
  BY <1>1, <1>3, ImageEditAssumption DEF Carries
<1> QED
  BY <1>2, <1>4, OnlyGoesOn

(* A worker that lets go of its edit, or takes one: what the others carry. *)
LEMMA CarriersElsewhere ==
  ASSUME NEW e \in Edits, NEW w \in Workers,
         \A v \in Workers : v # w => pc'[v] = pc[v] /\ job'[v] = job[v]
  PROVE  \A v \in CarriersOf(e)' : v = w \/ v \in CarriersOf(e)
BY DEF CarriersOf, Carries

(* The request makes the one claim that is free.                             *)
LEMMA DispatchStaysPaid ==
  ASSUME TypeOK, TypeOK', AllPaid, NEW d \in Edits, Dispatch(d)
  PROVE  AllPaid'
<1> SUFFICES ASSUME NEW e \in Edits PROVE Paid(e)'
  BY DEF AllPaid
<1>1. /\ ready' = [ready EXCEPT ![<<d, 0>>] = @ + 1]
      /\ UNCHANGED <<results, pc, job, crashes>>
  BY DEF Dispatch, rows
<1>2. RowsOf(e)' = RowsOf(e) /\ CarriersOf(e)' = CarriersOf(e)
  BY <1>1 DEF RowsOf, CarriersOf, Carries
<1>3. 0 \in 0..MaxRetries
  BY ImageEditAssumption
<1>4. CASE e = d
  <2>1. Unpublished(e) = 1 /\ Unpublished(e)' = 0
    BY <1>4 DEF Dispatch, Unpublished, TypeOK
  <2>2. PICK a, b : a = <<"none", 0, 0>> /\ b = <<"copy", 0, ready[<<d, 0>>] + 1>>
    OBVIOUS
  <2>3. /\ \A i \in RowsOf(e)' :
             (i \in RowsOf(e) /\ <<"row", i, 0>> # a) \/ <<"row", i, 0>> = b
        /\ \A v \in CarriersOf(e)' :
             (v \in CarriersOf(e) /\ <<"worker", v, 0>> # a) \/ <<"worker", v, 0>> = b
    BY <1>2, <2>2
  <2>4. \A r \in 0..MaxRetries : \A k \in 1..CopiesOf(e)'[r] :
          (k \in 1..CopiesOf(e)[r] /\ <<"copy", r, k>> # a) \/ <<"copy", r, k>> = b
    BY <1>1, <1>3, <1>4, <2>2, OneMoreCopy
  <2>5. Claims(e)' \subseteq (Claims(e) \ {a}) \cup {b}
    BY <2>3, <2>4, OneNew
  <2>6. Gains(e)
    BY <2>5 DEF Gains
  <2> QED
    BY <1>1, <2>1, <2>6, StaysPaid DEF AllPaid
<1>5. CASE e # d
  <2>1. CopiesOf(e)' = CopiesOf(e)
    BY <1>1, <1>3, <1>5, OneMoreCopy
  <2>2. Fewer(e)
    BY <1>2, <2>1, NothingNew
  <2>3. Unpublished(e)' = Unpublished(e)
    BY <1>5 DEF Dispatch, Unpublished, TypeOK
  <2>4. Unpublished(e)' <= Unpublished(e)
    BY <2>3 DEF Unpublished
  <2> QED
    BY <1>1, <2>2, <2>4, StaysPaid DEF AllPaid
<1> QED
  BY <1>4, <1>5

(* A message becomes a worker that holds it.                                 *)
LEMMA ReceiveStaysPaid ==
  ASSUME TypeOK, TypeOK', AllPaid, NEW w \in Workers, NEW m \in Messages, Receive(w, m)
  PROVE  AllPaid'
<1> SUFFICES ASSUME NEW e \in Edits PROVE Paid(e)'
  BY DEF AllPaid
<1>1. PICK d \in Edits, r \in 0..MaxRetries : m = <<d, r>>
  BY DEF Messages
<1>2. /\ ready' = [ready EXCEPT ![<<d, r>>] = @ - 1]
      /\ ready[<<d, r>>] \in Nat \ {0} /\ <<d, r>> \in Messages
      /\ UNCHANGED <<results, request, crashes>>
  BY <1>1 DEF Receive, rows, TypeOK, Messages
<1>3. /\ job'[w].edit = d
      /\ \A v \in Workers : v # w => pc'[v] = pc[v] /\ job'[v] = job[v]
  BY <1>1 DEF Receive, Goto, TypeOK, NoJob
<1>4. RowsOf(e)' = RowsOf(e) /\ Unpublished(e)' <= Unpublished(e)
  BY <1>2 DEF RowsOf, Unpublished
<1>5. /\ CopiesOf(e)'[r] = IF e = d THEN CopiesOf(e)[r] - 1 ELSE CopiesOf(e)[r]
      /\ \A q \in 0..MaxRetries : q # r => CopiesOf(e)'[q] = CopiesOf(e)[q]
  BY <1>2 DEF CopiesOf, TypeOK, Messages
<1>6. CopiesOf(d)[r] = ready[<<d, r>>]
  BY DEF CopiesOf
<1>7. CASE e = d
  <2>1. PICK a, b : a = <<"copy", r, ready[<<d, r>>]>> /\ b = <<"worker", w, 0>>
    OBVIOUS
  <2>2. \A i \in RowsOf(e)' :
          (i \in RowsOf(e) /\ <<"row", i, 0>> # a) \/ <<"row", i, 0>> = b
    BY <1>4, <2>1
  <2>3. \A v \in CarriersOf(e)' :
          (v \in CarriersOf(e) /\ <<"worker", v, 0>> # a) \/ <<"worker", v, 0>> = b
    BY <1>3, <2>1, CarriersElsewhere
  <2>4. \A q \in 0..MaxRetries : \A k \in 1..CopiesOf(e)'[q] :
          (k \in 1..CopiesOf(e)[q] /\ <<"copy", q, k>> # a) \/ <<"copy", q, k>> = b
    <3> SUFFICES ASSUME NEW q \in 0..MaxRetries, NEW k \in 1..CopiesOf(e)'[q]
                 PROVE  k \in 1..CopiesOf(e)[q] /\ ~(q = r /\ k = ready[<<d, r>>])
      BY <2>1
    <3>1. CASE q = r
      BY <1>2, <1>5, <1>6, <1>7, <3>1
    <3>2. CASE q # r
      BY <1>5, <3>2
    <3> QED
      BY <3>1, <3>2
  <2>5. Claims(e)' \subseteq (Claims(e) \ {a}) \cup {b}
    BY <2>2, <2>3, <2>4, OneNew
  <2>6. a \in Claims(e)
    <3>1. ready[<<d, r>>] \in 1..CopiesOf(e)[r]
      BY <1>2, <1>6, <1>7
    <3> QED
      BY <2>1, <3>1, ClaimsHave DEF Claims
  <2>7. Turned(e)
    BY <2>5, <2>6 DEF Turned
  <2> QED
    BY <1>2, <1>4, <2>7, StaysPaid DEF AllPaid
<1>8. CASE e # d
  <2>1. CarriersOf(e)' \subseteq CarriersOf(e)
    BY <1>3, <1>8, CarriersElsewhere DEF CarriersOf, Carries
  <2>2. \A q \in 0..MaxRetries : 1..CopiesOf(e)'[q] \subseteq 1..CopiesOf(e)[q]
    BY <1>5, <1>8
  <2>3. Fewer(e)
    BY <1>4, <2>1, <2>2, NothingNew
  <2> QED
    BY <1>2, <1>4, <2>3, StaysPaid DEF AllPaid
<1> QED
  BY <1>7, <1>8

(* A worker's claim becomes a result.                                        *)
LEMMA CommitStaysPaid ==
  ASSUME TypeOK, TypeOK', AllPaid, NEW w \in Workers, Commit(w)
  PROVE  AllPaid'
<1> SUFFICES ASSUME NEW e \in Edits PROVE Paid(e)'
  BY DEF AllPaid
<1>1. PICK d \in Edits : d = job[w].edit
  BY BusyHoldsEdit DEF Commit
<1>2. PICK N : N = Len(results)
  OBVIOUS
<1>3. /\ DOMAIN results = 1..N /\ DOMAIN results' = 1..(N + 1) /\ N \in Nat
      /\ \A i \in 1..N : results'[i] = results[i]
      /\ results'[N + 1].edit = d
  BY <1>1, <1>2 DEF Commit, TypeOK
<1>4. \A i \in RowsOf(e)' : i \in RowsOf(e) \/ (i = N + 1 /\ e = d)
  BY <1>3 DEF RowsOf
<1>5. /\ pc[w] = "commit" /\ pc'[w] = "ack"
      /\ \A v \in Workers : v # w => pc'[v] = pc[v] /\ job'[v] = job[v]
      /\ UNCHANGED <<request, ready, crashes>>
  BY DEF Commit, Goto, TypeOK
<1>6. CopiesOf(e)' = CopiesOf(e) /\ Unpublished(e)' <= Unpublished(e)
  BY <1>5 DEF CopiesOf, Unpublished
<1>7. \A v \in CarriersOf(e)' : v \in CarriersOf(e) /\ v # w
  BY <1>5, CarriersElsewhere DEF CarriersOf, Carries
<1>8. CASE e = d
  <2>1. PICK a, b : a = <<"worker", w, 0>> /\ b = <<"row", N + 1, 0>>
    OBVIOUS
  <2>2. \A i \in RowsOf(e)' :
          (i \in RowsOf(e) /\ <<"row", i, 0>> # a) \/ <<"row", i, 0>> = b
    BY <1>4, <2>1
  <2>3. \A v \in CarriersOf(e)' :
          (v \in CarriersOf(e) /\ <<"worker", v, 0>> # a) \/ <<"worker", v, 0>> = b
    BY <1>7, <2>1
  <2>4. \A r \in 0..MaxRetries : \A k \in 1..CopiesOf(e)'[r] :
          (k \in 1..CopiesOf(e)[r] /\ <<"copy", r, k>> # a) \/ <<"copy", r, k>> = b
    BY <1>6, <2>1
  <2>5. Claims(e)' \subseteq (Claims(e) \ {a}) \cup {b}
    BY <2>2, <2>3, <2>4, OneNew
  <2>6. a \in Claims(e)
    <3>1. w \in CarriersOf(e)
      BY <1>1, <1>5, <1>8 DEF CarriersOf, Carries
    <3> QED
      BY <2>1, <3>1, ClaimsHave DEF Claims
  <2>7. Turned(e)
    BY <2>5, <2>6 DEF Turned
  <2> QED
    BY <1>5, <1>6, <2>7, StaysPaid DEF AllPaid
<1>9. CASE e # d
  <2>1. RowsOf(e)' \subseteq RowsOf(e) /\ CarriersOf(e)' \subseteq CarriersOf(e)
    BY <1>4, <1>7, <1>9
  <2>2. Fewer(e)
    BY <1>6, <2>1, NothingNew
  <2> QED
    BY <1>5, <1>6, <2>2, StaysPaid DEF AllPaid
<1> QED
  BY <1>8, <1>9

(* The claim of a worker becomes a copy of the next message. *)
LEMMA RetryStaysPaid ==
  ASSUME TypeOK, TypeOK', AllPaid, NEW w \in Workers, Retry(w)
  PROVE  AllPaid'
<1>1. /\ pc[w] = "raised" /\ pc'[w] = "ack"
      /\ \A v \in Workers : v # w => pc'[v] = pc[v] /\ job'[v] = job[v]
      /\ UNCHANGED <<results, request, job, crashes>>
  BY DEF Retry, Goto, TypeOK, rows
<1>2. CASE ~(Celery /\ job[w].retries < MaxRetries)
  <2>1. UNCHANGED ready
    BY <1>2 DEF Retry
  <2> QED
    BY <1>1, <2>1, WorkerGoesOn DEF Retry
<1>3. CASE Celery /\ job[w].retries < MaxRetries
  <2> SUFFICES ASSUME NEW e \in Edits PROVE Paid(e)'
    BY DEF AllPaid
  <2>1. PICK d \in Edits, r \in 0..MaxRetries : d = job[w].edit /\ r = job[w].retries + 1
    <3>1. /\ job[w].edit \in Edits /\ job[w].retries \in 0..MaxRetries
      BY <1>1, BusyHoldsEdit
    <3>2. job[w].retries + 1 \in 0..MaxRetries
      BY <1>3, <3>1, ImageEditAssumption
    <3> QED
      BY <3>1, <3>2
  <2>2. ready' = [ready EXCEPT ![<<d, r>>] = @ + 1]
    BY <1>3, <2>1 DEF Retry
  <2>3. RowsOf(e)' = RowsOf(e) /\ Unpublished(e)' <= Unpublished(e)
    BY <1>1 DEF RowsOf, Unpublished
  <2>4. \A v \in CarriersOf(e)' : v \in CarriersOf(e) /\ v # w
    BY <1>1, CarriersElsewhere DEF CarriersOf, Carries
  <2>5. CASE e = d
    <3>1. PICK a, b : a = <<"worker", w, 0>> /\ b = <<"copy", r, ready[<<d, r>>] + 1>>
      OBVIOUS
    <3>2. \A i \in RowsOf(e)' :
            (i \in RowsOf(e) /\ <<"row", i, 0>> # a) \/ <<"row", i, 0>> = b
      BY <2>3, <3>1
    <3>3. \A v \in CarriersOf(e)' :
            (v \in CarriersOf(e) /\ <<"worker", v, 0>> # a) \/ <<"worker", v, 0>> = b
      BY <2>4, <3>1
    <3>4. \A q \in 0..MaxRetries : \A k \in 1..CopiesOf(e)'[q] :
            (k \in 1..CopiesOf(e)[q] /\ <<"copy", q, k>> # a) \/ <<"copy", q, k>> = b
      BY <2>2, <2>5, <3>1, OneMoreCopy
    <3>5. Claims(e)' \subseteq (Claims(e) \ {a}) \cup {b}
      BY <3>2, <3>3, <3>4, OneNew
    <3>6. a \in Claims(e)
      <4>1. w \in CarriersOf(e)
        BY <1>1, <2>1, <2>5 DEF CarriersOf, Carries
      <4> QED
        BY <3>1, <4>1, ClaimsHave DEF Claims
    <3>7. Turned(e)
      BY <3>5, <3>6 DEF Turned
    <3> QED
      BY <1>1, <2>3, <3>7, StaysPaid DEF AllPaid
  <2>6. CASE e # d
    <3>1. CopiesOf(e)' = CopiesOf(e)
      BY <2>2, <2>6, OneMoreCopy
    <3>2. Fewer(e)
      BY <2>3, <2>4, <3>1, NothingNew
    <3> QED
      BY <1>1, <2>3, <3>2, StaysPaid DEF AllPaid
  <2> QED
    BY <2>5, <2>6
<1> QED
  BY <1>2, <1>3

(* A redelivery may run an edit a second time, whatever it brought: the     *)
(* crash pays for that.                                                     *)
LEMMA CrashStaysPaid ==
  ASSUME TypeOK, TypeOK', AllPaid, NEW w \in Workers, Crash(w)
  PROVE  AllPaid'
<1> SUFFICES ASSUME NEW e \in Edits PROVE Paid(e)'
  BY DEF AllPaid
<1>1. /\ crashes' = crashes + 1 /\ job'[w].edit = NoEdit
      /\ \A v \in Workers : v # w => pc'[v] = pc[v] /\ job'[v] = job[v]
      /\ UNCHANGED <<results, request>>
  BY DEF Crash, Goto, TypeOK, rows, NoJob
<1>2. PICK d \in Edits, r \in 0..MaxRetries : d = job[w].edit /\ r = job[w].retries
  BY BusyHoldsEdit DEF Crash
<1>3. RowsOf(e)' = RowsOf(e) /\ Unpublished(e)' = Unpublished(e)
  BY <1>1 DEF RowsOf, Unpublished
<1>4. CarriersOf(e)' \subseteq CarriersOf(e)
  BY <1>1, CarriersElsewhere, ImageEditAssumption DEF CarriersOf, Carries
<1>5. \A q \in 0..MaxRetries : \A k \in 1..CopiesOf(e)'[q] :
        k \in 1..CopiesOf(e)[q] \/ <<"copy", q, k>> = <<"copy", r, ready[<<d, r>>] + 1>>
  <2>1. CASE Celery
    <3>1. ready' = [ready EXCEPT ![<<d, r>>] = @ + 1]
      BY <1>2, <2>1 DEF Crash
    <3>2. CASE e = d
      BY <3>1, <3>2, OneMoreCopy
    <3>3. CASE e # d
      <4>1. CopiesOf(e)' = CopiesOf(e)
        BY <3>1, <3>3, OneMoreCopy
      <4> QED
        BY <4>1
    <3> QED
      BY <3>2, <3>3
  <2>2. CASE ~Celery
    <3>1. CopiesOf(e)' = CopiesOf(e)
      BY <2>2 DEF Crash, CopiesOf
    <3> QED
      BY <3>1
  <2> QED
    BY <2>1, <2>2
<1>6. PICK a, b : a = <<"none", 0, 0>> /\ b = <<"copy", r, ready[<<d, r>>] + 1>>
  OBVIOUS
<1>7. /\ \A i \in RowsOf(e)' :
           (i \in RowsOf(e) /\ <<"row", i, 0>> # a) \/ <<"row", i, 0>> = b
      /\ \A v \in CarriersOf(e)' :
           (v \in CarriersOf(e) /\ <<"worker", v, 0>> # a) \/ <<"worker", v, 0>> = b
  BY <1>3, <1>4, <1>6
<1>8. \A q \in 0..MaxRetries : \A k \in 1..CopiesOf(e)'[q] :
        (k \in 1..CopiesOf(e)[q] /\ <<"copy", q, k>> # a) \/ <<"copy", q, k>> = b
  BY <1>5, <1>6
<1>9. Claims(e)' \subseteq (Claims(e) \ {a}) \cup {b}
  BY <1>7, <1>8, OneNew
<1>10. Gains(e)
  BY <1>9 DEF Gains
<1> QED
  BY <1>1, <1>3, <1>10, StaysPaid DEF AllPaid

(* Every step keeps the account.                                             *)
LEMMA StepStaysPaid ==
  ASSUME TypeOK, TypeOK', AllPaid, [Next]_vars
  PROVE  AllPaid'
<1>1. ASSUME NEW e \in Edits, CreateEdit(e) \/ DispatchFails(e) PROVE AllPaid'
  <2>1. UNCHANGED <<results, ready, pc, job, crashes>>
    BY <1>1 DEF CreateEdit, DispatchFails, rows
  <2>2. \A f \in Edits : request'[f] \in {"new", "created"} => request[f] \in {"new", "created"}
    BY <1>1 DEF CreateEdit, DispatchFails, TypeOK
  <2>3. \A f \in Edits : Unpublished(f)' <= Unpublished(f)
    BY <2>2 DEF Unpublished
  <2> QED
    BY <2>1, <2>3, OnlyGoesOn DEF Carries
<1>2. ASSUME NEW e \in Edits, Dispatch(e) PROVE AllPaid'
  BY <1>2, DispatchStaysPaid
<1>3. ASSUME NEW w \in Workers, NEW m \in Messages, Receive(w, m) PROVE AllPaid'
  BY <1>3, ReceiveStaysPaid
<1>4. ASSUME NEW w \in Workers, Prepare(w) \/ Generate(w) PROVE AllPaid'
  BY <1>4, WorkerGoesOn DEF Prepare, Generate, rows
<1>5. ASSUME NEW w \in Workers, Measure(w) PROVE AllPaid'
  <2>1. PICK n : job' = [job EXCEPT ![w] = [@ EXCEPT !.version = n, !.digest = file[job[w].edit]]]
    BY <1>5 DEF Measure
  <2>2. job'[w].edit = job[w].edit /\ \A v \in Workers : v # w => job'[v] = job[v]
    BY <2>1 DEF TypeOK, Jobs
  <2> QED
    BY <1>5, <2>2, WorkerGoesOn DEF Measure, rows
<1>6. ASSUME NEW w \in Workers, Commit(w) PROVE AllPaid'
  BY <1>6, CommitStaysPaid
<1>7. ASSUME NEW w \in Workers,
             ExecutionRaises(w) \/ MarkFailed(w) \/ MarkFailedRaises(w) \/ RetryRaises(w)
      PROVE  AllPaid'
  BY <1>7, WorkerGoesOn DEF ExecutionRaises, MarkFailed, MarkFailedRaises, RetryRaises, rows
<1>8. ASSUME NEW w \in Workers, Retry(w) PROVE AllPaid'
  BY <1>8, RetryStaysPaid
<1>9. ASSUME NEW w \in Workers, Ack(w) \/ LoseChild(w) PROVE AllPaid'
  <2>1. job'[w].edit = NoEdit /\ \A v \in Workers : v # w => job'[v] = job[v]
    BY <1>9 DEF Ack, LoseChild, TypeOK, NoJob
  <2>2. Goto(w, "idle") /\ UNCHANGED <<results, request, ready, crashes>>
    BY <1>9 DEF Ack, LoseChild, rows
  <2> QED
    BY <2>1, <2>2, WorkerGoesOn
<1>10. ASSUME NEW w \in Workers, Crash(w) PROVE AllPaid'
  BY <1>10, CrashStaysPaid
<1>11. CASE UNCHANGED vars
  BY <1>11, OnlyGoesOn DEF vars, rows, Unpublished, Carries
<1> QED
  BY <1>1, <1>2, <1>3, <1>4, <1>5, <1>6, <1>7, <1>8, <1>9, <1>10, <1>11 DEF Next, WorkerStep

(* An edit has at most one result for its publication and one for every     *)
(* crash, for any number of workers and retries: a retry never brings a     *)
(* second one, a redelivery may.                                            *)
THEOREM ResultsStayInBudget == Spec => []ResultsPerEdit
<1>1. Init => AllPaid
  <2> SUFFICES ASSUME Init, NEW e \in Edits PROVE Paid(e)
    BY DEF AllPaid
  <2>1. RowsOf(e) = {}
    BY ImageEditAssumption DEF Init, Original, RowsOf
  <2>2. \A r \in 0..MaxRetries : CopiesOf(e)[r] = 0
    BY DEF Init, CopiesOf, Messages
  <2>3. CarriersOf(e) = {}
    BY ImageEditAssumption DEF Init, CarriersOf, Carries, NoJob
  <2>4. Claims(e) = {}
    BY <2>1, <2>2, <2>3, ClaimsWithin DEF Claims
  <2>5. Unpublished(e) = 1 /\ crashes = 0
    BY DEF Init, Unpublished
  <2> QED
    BY <2>4, <2>5, FS_EmptySet DEF Paid
<1>2. TypeOK /\ TypeOK' /\ AllPaid /\ [Next]_vars => AllPaid'
  BY StepStaysPaid
<1>3. TypeOK /\ AllPaid => ResultsPerEdit
  <2> SUFFICES ASSUME TypeOK, AllPaid, NEW e \in Edits
               PROVE  Cardinality(RowsOf(e)) <= 1 + crashes
    BY DEF ResultsPerEdit, RowsOf
  <2> DEFINE claim == [i \in RowsOf(e) |-> <<"row", i, 0>>]
  <2>1. /\ IsFiniteSet(Claims(e)) /\ Cardinality(Claims(e)) \in Nat
        /\ Cardinality(Claims(e)) + Unpublished(e) <= 1 + crashes
    BY FS_CardinalityType DEF AllPaid, Paid
  <2>2. \A i \in RowsOf(e) : <<"row", i, 0>> \in Claims(e)
    BY ClaimsHave DEF Claims
  <2>3. claim \in Injection(RowsOf(e), Claims(e))
    BY <2>2 DEF Injection, IsInjective
  <2>4. Cardinality(RowsOf(e)) <= Cardinality(Claims(e)) /\ Cardinality(RowsOf(e)) \in Nat
    BY <2>1, <2>3, FS_Injection, FS_CardinalityType
  <2>5. Unpublished(e) \in 0..1 /\ crashes \in Nat
    BY DEF Unpublished, TypeOK
  <2> QED
    BY <2>1, <2>4, <2>5
<1> QED
  BY <1>1, <1>2, <1>3, TypeCorrect, PTL DEF Spec

-----------------------------------------------------------------------------
(* Who still works on an edit. *)

Working == {"prepare", "generate", "measure", "commit", "failing"}

(* A message waits for a worker, or a worker has not recorded the outcome. *)
Handled(e) ==
  \/ \E r \in 0..MaxRetries : ready[<<e, r>>] > 0
  \/ \E w \in Workers : job[w].edit = e /\ pc[w] \in Working

Undisturbed == faults = 0 /\ losses = 0 /\ (Celery \/ crashes = 0)

Pending(e) == request[e] = "dispatched" /\ status[e] \in {"queued", "running"}

HandledInv == Undisturbed => \A e \in Edits : Pending(e) => Handled(e)

(* Steps of one worker that keep what waits and end no other execution. *)
LEMMA StaysHandled ==
  ASSUME TypeOK, TypeOK', HandledInv, Undisturbed, NEW w \in Workers, NEW d, d = job[w].edit,
         \A v \in Workers : v # w => pc'[v] = pc[v] /\ job'[v] = job[v],
         \A e \in Edits : \A r \in 0..MaxRetries : ready'[<<e, r>>] >= ready[<<e, r>>],
         request' = request,
         \A e \in Edits : e # d => status'[e] = status[e],
         pc[w] \in Working /\ Pending(d)' => Handled(d)',
         pc[w] \notin Working => status' = status
  PROVE  \A e \in Edits : Pending(e)' => Handled(e)'
<1> SUFFICES ASSUME NEW e \in Edits, Pending(e)' PROVE Handled(e)'
  OBVIOUS
<1>1. \A r \in 0..MaxRetries : ready[<<e, r>>] \in Nat /\ ready'[<<e, r>>] \in Nat
  BY DEF TypeOK, Messages
<1>2. CASE pc[w] \in Working /\ e = job[w].edit
  BY <1>2
<1>3. CASE ~(pc[w] \in Working /\ e = job[w].edit)
  <2>1. status'[e] = status[e]
    BY <1>3
  <2>2. Handled(e)
    BY <2>1 DEF HandledInv, Pending
  <2>3. CASE \E r \in 0..MaxRetries : ready[<<e, r>>] > 0
    <3>1. PICK r \in 0..MaxRetries : ready[<<e, r>>] > 0
      BY <2>3
    <3>2. ready'[<<e, r>>] >= ready[<<e, r>>]
      OBVIOUS
    <3>3. ready'[<<e, r>>] > 0
      BY <1>1, <3>1, <3>2
    <3> QED
      BY <3>3 DEF Handled
  <2>4. CASE \E v \in Workers : job[v].edit = e /\ pc[v] \in Working
    <3>1. PICK v \in Workers : job[v].edit = e /\ pc[v] \in Working
      BY <2>4
    <3>2. v # w
      BY <1>3, <3>1
    <3> QED
      BY <3>1, <3>2 DEF Handled
  <2> QED
    BY <2>2, <2>3, <2>4 DEF Handled
<1> QED
  BY <1>2, <1>3

(* The request and what the broker hands out. *)
LEMMA RequestStaysHandled ==
  ASSUME TypeOK, HandledInv, Undisturbed, NEW e \in Edits, CreateEdit(e) \/ Dispatch(e)
  PROVE  \A f \in Edits : Pending(f)' => Handled(f)'
<1> SUFFICES ASSUME NEW f \in Edits, Pending(f)' PROVE Handled(f)'
  OBVIOUS
<1>1. UNCHANGED <<pc, job>>
  BY DEF CreateEdit, Dispatch
<1>2. CASE CreateEdit(e)
  <2>1. f # e
    BY <1>2 DEF CreateEdit, Pending, TypeOK
  <2>2. Pending(f) /\ ready' = ready
    BY <1>2, <2>1 DEF CreateEdit, Pending, TypeOK
  <2> QED
    BY <1>1, <2>2 DEF HandledInv, Handled
<1>3. CASE Dispatch(e)
  <2>1. ready' = [ready EXCEPT ![<<e, 0>>] = @ + 1] /\ UNCHANGED status
    BY <1>3 DEF Dispatch, rows
  <2>2. CASE f = e
    <3>1. 0 \in 0..MaxRetries
      BY ImageEditAssumption
    <3>2. ready'[<<e, 0>>] > 0
      BY <2>1, <3>1 DEF TypeOK, Messages
    <3> QED
      BY <2>2, <3>1, <3>2 DEF Handled
  <2>3. CASE f # e
    <3>1. Pending(f)
      BY <1>3, <2>1, <2>3 DEF Dispatch, Pending, TypeOK
    <3>2. \A r \in 0..MaxRetries : ready'[<<f, r>>] = ready[<<f, r>>]
      BY <2>1, <2>3 DEF TypeOK, Messages
    <3> QED
      BY <1>1, <3>1, <3>2 DEF HandledInv, Handled
  <2> QED
    BY <2>2, <2>3
<1> QED
  BY <1>2, <1>3

LEMMA ReceiveStaysHandled ==
  ASSUME TypeOK, HandledInv, Undisturbed,
         NEW w \in Workers, NEW m \in Messages, Receive(w, m)
  PROVE  \A f \in Edits : Pending(f)' => Handled(f)'
<1> SUFFICES ASSUME NEW f \in Edits, Pending(f)' PROVE Handled(f)'
  OBVIOUS
<1>1. PICK d \in Edits, r \in 0..MaxRetries : m = <<d, r>>
  BY DEF Messages
<1>2. /\ job'[w].edit = d /\ pc'[w] = "prepare" /\ pc[w] = "idle"
      /\ \A v \in Workers : v # w => pc'[v] = pc[v] /\ job'[v] = job[v]
      /\ UNCHANGED <<status, request>>
  BY <1>1 DEF Receive, Goto, TypeOK, NoJob, rows
<1>3. CASE f = d
  BY <1>2, <1>3 DEF Handled, Working
<1>4. CASE f # d
  <2>1. \A q \in 0..MaxRetries : ready'[<<f, q>>] = ready[<<f, q>>]
    BY <1>1, <1>4 DEF Receive, TypeOK, Messages
  <2>2. Handled(f)
    BY <1>2 DEF HandledInv, Pending
  <2>3. \A v \in Workers : pc[v] \in Working => v # w
    BY <1>2 DEF Working
  <2> QED
    BY <1>2, <2>1, <2>2, <2>3 DEF Handled
<1> QED
  BY <1>3, <1>4

(* A worker's own steps: it goes on working, records the outcome, or only    *)
(* had to acknowledge.                                                       *)
LEMMA WorkStaysHandled ==
  ASSUME TypeOK, TypeOK', HandledInv, Undisturbed, NEW w \in Workers,
         \/ Prepare(w) \/ Generate(w) \/ Measure(w) \/ Commit(w)
         \/ ExecutionRaises(w) \/ MarkFailed(w) \/ Ack(w)
  PROVE  \A f \in Edits : Pending(f)' => Handled(f)'
<1>1. /\ \A v \in Workers : v # w => pc'[v] = pc[v] /\ job'[v] = job[v]
      /\ ready' = ready /\ request' = request
  <2>1. ready' = ready /\ request' = request
    BY DEF Prepare, Generate, Measure, Commit, ExecutionRaises, MarkFailed, Ack, rows
  <2>2. PICK label : Goto(w, label)
    BY DEF Prepare, Generate, Measure, Commit, ExecutionRaises, MarkFailed, Ack
  <2>3. PICK held : job' = job \/ job' = [job EXCEPT ![w] = held]
    BY DEF Prepare, Generate, Measure, Commit, ExecutionRaises, MarkFailed, Ack
  <2> QED
    BY <2>1, <2>2, <2>3 DEF Goto, TypeOK
<1>2. \A e \in Edits : \A r \in 0..MaxRetries : ready'[<<e, r>>] >= ready[<<e, r>>]
  <2> SUFFICES ASSUME NEW e \in Edits, NEW r \in 0..MaxRetries
               PROVE  ready'[<<e, r>>] >= ready[<<e, r>>]
    OBVIOUS
  <2>1. ready[<<e, r>>] \in Nat
    <3>1. ready \in [Messages -> Nat]
      BY DEF TypeOK
    <3>2. <<e, r>> \in Messages
      BY DEF Messages
    <3> QED
      BY <3>1, <3>2
  <2>2. ready'[<<e, r>>] = ready[<<e, r>>]
    BY <1>1
  <2> QED
    BY <2>1, <2>2
<1> PICK d : d = job[w].edit
  OBVIOUS
<1>3. \A e \in Edits : e # d => status'[e] = status[e]
  BY DEF Prepare, Generate, Measure, Commit, ExecutionRaises, MarkFailed, Ack, TypeOK, rows
<1>4. pc[w] \notin Working => status' = status
  BY DEF Prepare, Generate, Measure, Commit, ExecutionRaises, MarkFailed, Ack, Working, rows
<1>5. ASSUME pc[w] \in Working, Pending(d)' PROVE Handled(d)'
  <2>1. d \in Edits
    BY <1>5, BusyHoldsEdit DEF Working
  <2>2. CASE Prepare(w) \/ Generate(w) \/ ExecutionRaises(w)
    <3>1. pc'[w] \in Working /\ job' = job
      BY <2>2 DEF Prepare, Generate, ExecutionRaises, Goto, TypeOK, Working
    <3> QED
      BY <3>1 DEF Handled
  <2>3. CASE Measure(w)
    <3>1. PICK n : job' = [job EXCEPT ![w] = [@ EXCEPT !.version = n, !.digest = file[job[w].edit]]]
      BY <2>3 DEF Measure
    <3>2. job'[w].edit = job[w].edit
      BY <3>1 DEF TypeOK, Jobs
    <3>3. pc'[w] \in Working
      BY <2>3 DEF Measure, Goto, TypeOK, Working
    <3> QED
      BY <3>2, <3>3 DEF Handled
  <2>4. CASE Commit(w) \/ MarkFailed(w)
    <3>1. status'[d] \in {"succeeded", "failed"}
      BY <2>1, <2>4 DEF Commit, MarkFailed, TypeOK
    <3>2. ~(status'[d] \in {"queued", "running"})
      BY <3>1
    <3> QED
      BY <1>5, <3>2 DEF Pending
  <2>5. CASE Ack(w)
    BY <1>5, <2>5 DEF Ack, Working
  <2> QED
    BY <2>2, <2>3, <2>4, <2>5
<1> HIDE DEF HandledInv, Undisturbed
<1> QED
  BY <1>1, <1>2, <1>3, <1>4, <1>5, StaysHandled

(* One more copy of a message. *)
LEMMA CopyAdded ==
  ASSUME TypeOK, NEW d \in Edits, NEW q \in 0..MaxRetries, ready' = [ready EXCEPT ![<<d, q>>] = @ + 1]
  PROVE  /\ ready'[<<d, q>>] > 0
         /\ \A e \in Edits : \A r \in 0..MaxRetries : ready'[<<e, r>>] >= ready[<<e, r>>]
<1>1. <<d, q>> \in Messages /\ ready \in [Messages -> Nat]
  BY DEF TypeOK, Messages
<1>2. \A m \in Messages : ready'[m] = IF m = <<d, q>> THEN ready[m] + 1 ELSE ready[m]
  BY <1>1
<1>3. \A m \in Messages : ready[m] \in Nat
  BY <1>1
<1>4. \A m \in Messages : ready'[m] >= ready[m]
  BY <1>2, <1>3
<1>5. \A e \in Edits : \A r \in 0..MaxRetries : <<e, r>> \in Messages
  BY DEF Messages
<1>6. \A e \in Edits : \A r \in 0..MaxRetries : ready'[<<e, r>>] >= ready[<<e, r>>]
  BY <1>4, <1>5
<1>7. ready'[<<d, q>>] > 0
  BY <1>1, <1>2, <1>3
<1> QED
  BY <1>6, <1>7

(* What it publishes, again or anew, waits for a worker. *)
LEMMA PublishStaysHandled ==
  ASSUME TypeOK, TypeOK', HandledInv, Undisturbed, NEW w \in Workers, Retry(w) \/ (Crash(w) /\ Celery)
  PROVE  \A f \in Edits : Pending(f)' => Handled(f)'
<1>1. /\ \A v \in Workers : v # w => pc'[v] = pc[v] /\ job'[v] = job[v]
      /\ request' = request /\ status' = status
  BY DEF Retry, Crash, Goto, TypeOK, rows
<1> PICK d, r : d = job[w].edit /\ r = job[w].retries
  OBVIOUS
<1>2. /\ d \in Edits /\ r \in 0..MaxRetries
      /\ \/ ready' = ready /\ pc[w] \notin Working
         \/ \E q \in 0..MaxRetries : ready' = [ready EXCEPT ![<<d, q>>] = @ + 1]
  <2>1. d \in Edits /\ r \in 0..MaxRetries
    BY BusyHoldsEdit DEF Retry, Crash
  <2>2. CASE Retry(w)
    <3>1. pc[w] \notin Working
      BY <2>2 DEF Retry, Working
    <3>2. CASE Celery /\ r < MaxRetries
      <4>1. r + 1 \in 0..MaxRetries
        BY <2>1, <3>2, ImageEditAssumption
      <4>2. ready' = [ready EXCEPT ![<<d, r + 1>>] = @ + 1]
        BY <2>2, <3>2 DEF Retry
      <4> QED
        BY <2>1, <4>1, <4>2
    <3>3. CASE ~(Celery /\ r < MaxRetries)
      BY <2>1, <2>2, <3>1, <3>3 DEF Retry
    <3> QED
      BY <3>2, <3>3
  <2>3. CASE Crash(w) /\ Celery
    BY <2>1, <2>3 DEF Crash
  <2> QED
    BY <2>2, <2>3
<1>3. \A e \in Edits : \A q \in 0..MaxRetries : ready'[<<e, q>>] >= ready[<<e, q>>]
  <2>1. CASE ready' = ready
    <3> SUFFICES ASSUME NEW e \in Edits, NEW q \in 0..MaxRetries
                 PROVE  ready'[<<e, q>>] >= ready[<<e, q>>]
      OBVIOUS
    <3>1. ready[<<e, q>>] \in Nat
      BY DEF TypeOK, Messages
    <3>2. ready'[<<e, q>>] = ready[<<e, q>>]
      BY <2>1
    <3> QED
      BY <3>1, <3>2
  <2>2. CASE \E q \in 0..MaxRetries : ready' = [ready EXCEPT ![<<d, q>>] = @ + 1]
    BY <1>2, <2>2, CopyAdded
  <2> QED
    BY <1>2, <2>1, <2>2
<1>4. pc[w] \in Working => Handled(d)'
  <2> SUFFICES ASSUME pc[w] \in Working PROVE Handled(d)'
    OBVIOUS
  <2>1. PICK q \in 0..MaxRetries : ready' = [ready EXCEPT ![<<d, q>>] = @ + 1]
    BY <1>2
  <2>2. ready'[<<d, q>>] > 0
    BY <1>2, <2>1, CopyAdded
  <2> QED
    BY <1>2, <2>2 DEF Handled
<1>5. \A e \in Edits : e # d => status'[e] = status[e]
  BY <1>1
<1> QED
  BY <1>1, <1>3, <1>4, <1>5, StaysHandled

(* A dispatched edit that is "queued" or "running" is in the broker or on a  *)
(* worker, for any number of workers, retries and redeliveries, unless a     *)
(* store or broker call raised, Celery lost a child or the API process died. *)
THEOREM NeverForgotten == Spec => []NoEditForgotten
<1>1. Init => HandledInv
  BY DEF Init, HandledInv, Pending
<1>2. TypeOK /\ TypeOK' /\ HandledInv /\ [Next]_vars => HandledInv'
  <2> SUFFICES ASSUME TypeOK, TypeOK', HandledInv, [Next]_vars, Undisturbed'
               PROVE  \A e \in Edits : Pending(e)' => Handled(e)'
    BY DEF HandledInv
  <2>1. faults \in Nat /\ losses \in Nat /\ crashes \in Nat
    BY ImageEditAssumption DEF TypeOK
  <2>2. ASSUME NEW e \in Edits, DispatchFails(e) PROVE FALSE
    BY <2>1, <2>2 DEF DispatchFails, Undisturbed
  <2>3. ASSUME NEW w \in Workers, MarkFailedRaises(w) \/ RetryRaises(w) \/ LoseChild(w)
        PROVE  FALSE
    BY <2>1, <2>3 DEF MarkFailedRaises, RetryRaises, LoseChild, Undisturbed
  <2>4. ASSUME NEW w \in Workers, Crash(w) PROVE Celery
    BY <2>1, <2>4 DEF Crash, Undisturbed
  <2>5. Undisturbed
    <3>1. ASSUME NEW e \in Edits, CreateEdit(e) \/ Dispatch(e)
          PROVE  UNCHANGED <<faults, losses, crashes>>
      BY <3>1 DEF CreateEdit, Dispatch
    <3>2. ASSUME NEW w \in Workers, WorkerStep(w) PROVE UNCHANGED <<faults, losses, crashes>>
      BY <3>2 DEF WorkerStep, Receive, Prepare, Generate, Measure, Commit, ExecutionRaises,
         MarkFailed, Retry, Ack
    <3>3. ASSUME NEW w \in Workers, Crash(w) PROVE UNCHANGED <<faults, losses>>
      BY <3>3 DEF Crash
    <3> QED
      BY <2>2, <2>3, <2>4, <3>1, <3>2, <3>3 DEF Next, vars, Undisturbed
  <2>6. CASE UNCHANGED vars
    BY <2>5, <2>6 DEF vars, rows, HandledInv, Pending, Handled
  <2> QED
    BY <2>2, <2>3, <2>4, <2>5, <2>6, RequestStaysHandled, ReceiveStaysHandled,
       WorkStaysHandled, PublishStaysHandled DEF Next, WorkerStep
<1>3. TypeOK /\ HandledInv => NoEditForgotten
  <2> SUFFICES ASSUME TypeOK, HandledInv, NEW e \in Edits, Pending(e)
               PROVE  InFlight(e) \/ faults > 0 \/ losses > 0 \/ (~Celery /\ crashes > 0)
    BY DEF NoEditForgotten, Pending
  <2>1. faults \in Nat /\ losses \in Nat /\ crashes \in Nat
    BY ImageEditAssumption DEF TypeOK
  <2>2. Undisturbed => InFlight(e)
    BY DEF HandledInv, Handled, InFlight
  <2> QED
    BY <2>1, <2>2 DEF Undisturbed
<1> QED
  BY <1>1, <1>2, <1>3, TypeCorrect, PTL DEF Spec
===============================================================================
