---------------------------- MODULE TaskViewProofs ----------------------------
(***************************************************************************)
(* The rows of a task name its pictures, and the index keeps every task    *)
(* unless two processes write it over each other or it does not parse, for *)
(* any number of tasks, pictures and deliveries, and whatever raises or    *)
(* dies meanwhile.  What a reader puts together from several moments is    *)
(* coherent, and a page that is not loading shows the task that is open:   *)
(* copies of task.json are written in one order, and a reader that has     *)
(* read one only meets later ones.                                         *)
(***************************************************************************)
EXTENDS TaskView, FiniteSetTheorems, TLAPS

Finals(n) == {<<"final", k>> : k \in 1..n}

(* Pictures are placed in order, one at a time; a delivery reaches its       *)
(* outcome after the last one.                                               *)
WorkerOK(phase, at, shot, n) ==
    /\ shot \in 0..n
    /\ phase = "start" => shot = 0
    /\ at = "place" => phase = "picture" /\ shot # 0
    /\ phase = "picture" /\ at = "work" => shot # n
    /\ phase = "outcome" => shot = n

(* What is on disk: the pictures this delivery has placed, no second picture *)
(* without a first one, and all of them once task.json tells of success.     *)
FilesOK(phase, at, shot, status, files, n) ==
    /\ files \subseteq {"generated", "final"} \X Nat
    /\ phase = "outcome" \/ (phase = "picture" /\ at # "place") => Finals(shot) \subseteq files
    /\ at = "place" => Finals(shot - 1) \subseteq files
    /\ \A k \in Nat : <<"generated", k>> \in files /\ k # 1 => <<"final", 1>> \in files
    /\ status \in Successes => Finals(n) \subseteq files

RowsOK(files, rowStatus, rows, n) ==
    /\ rowStatus \in Successes => Finals(n) \subseteq rows
    /\ rows \subseteq files
    /\ \A file \in rows : file[1] = "generated" => file = <<"generated", 1>>

TaskOK(t) ==
    /\ WorkerOK(worker[t].phase, worker[t].at, worker[t].shot, scenario.shots)
    /\ FilesOK(worker[t].phase, worker[t].at, worker[t].shot, manifest[t].status, pictures[t], scenario.shots)
    /\ RowsOK(pictures[t], row[t].status, results[t], scenario.shots)

Record(w) ==
    w \in [phase : {w.phase}, at : {w.at}, shot : {w.shot}, delivery : {w.delivery},
            known : {w.known}, held : {w.held}]

Shape ==
    /\ scenario.shots \in Nat \ {0}
    /\ DOMAIN worker = Tasks /\ DOMAIN manifest = Tasks /\ DOMAIN pictures = Tasks
    /\ DOMAIN row = Tasks /\ DOMAIN results = Tasks
    /\ \A t \in Tasks : Record(worker[t])

Inv == Shape /\ \A t \in Tasks : TaskOK(t)

-----------------------------------------------------------------------------
(* Steps of one task. *)

(* The other tasks are left alone. *)
Alone(t) ==
    /\ scenario' = scenario
    /\ \A u \in Tasks \ {t} :
        /\ worker'[u] = worker[u] /\ manifest'[u] = manifest[u] /\ pictures'[u] = pictures[u]
        /\ row'[u] = row[u] /\ results'[u] = results[u]

(* A step that changes one task leaves the others as they are.               *)
LEMMA OneMoves ==
  ASSUME Inv, NEW t \in Tasks, Shape', Alone(t), TaskOK(t)'
  PROVE  Inv'
<1>1. ASSUME NEW u \in Tasks \ {t}
      PROVE  TaskOK(u)'
  <2>1. TaskOK(u)
    BY DEF Inv
  <2>2. /\ worker'[u] = worker[u] /\ manifest'[u] = manifest[u] /\ pictures'[u] = pictures[u]
        /\ row'[u] = row[u] /\ results'[u] = results[u] /\ scenario' = scenario
    BY DEF Alone
  <2>3. QED
    BY <2>1, <2>2 DEF TaskOK
<1>2. \A u \in Tasks : TaskOK(u)'
  BY <1>1
<1>3. QED
  BY <1>2 DEF Inv

(* What a worker's own step writes. *)
Becomes(t, phase, at, shot) ==
    /\ DOMAIN worker' = Tasks /\ Record(worker'[t])
    /\ worker'[t].phase = phase /\ worker'[t].at = at /\ worker'[t].shot = shot
    /\ \A u \in Tasks \ {t} : worker'[u] = worker[u]

(* A worker that was given a new record.                                     *)
LEMMA Updated ==
  ASSUME Shape, NEW t \in Tasks, NEW w, Record(w), worker' = [worker EXCEPT ![t] = w]
  PROVE  Becomes(t, w.phase, w.at, w.shot)
BY DEF Becomes, Shape

(* What Goto makes of a worker.                                              *)
LEMMA GotoBecomes ==
  ASSUME Shape, NEW t \in Tasks, NEW phase, NEW at, Goto(t, phase, at)
  PROVE  Becomes(t, phase, at, worker[t].shot)
<1> DEFINE v == worker[t]
           w == [v EXCEPT !.phase = phase, !.at = at]
<1>1. Record(v)
  BY DEF Shape
<1>2. Record(w) /\ w.phase = phase /\ w.at = at /\ w.shot = v.shot
  BY <1>1 DEF Record
<1>3. worker' = [worker EXCEPT ![t] = w]
  BY DEF Goto, Shape
<1> HIDE DEF w
<1>4. QED
  BY <1>2, <1>3, Updated, Zenon

(* What a look at the index makes of a worker.                               *)
LEMMA LookBecomes ==
  ASSUME Shape, NEW t \in Tasks, NEW at, NEW known, NEW held,
         \/ worker' = [worker EXCEPT ![t].at = at, ![t].known = known]
         \/ worker' = [worker EXCEPT ![t].at = at, ![t].held = held]
         \/ worker' = [worker EXCEPT ![t].at = at, ![t].known = known, ![t].held = held]
  PROVE  Becomes(t, worker[t].phase, at, worker[t].shot)
<1> DEFINE v == worker[t]
           w1 == [v EXCEPT !.at = at, !.known = known]
           w2 == [v EXCEPT !.at = at, !.held = held]
           w3 == [v EXCEPT !.at = at, !.known = known, !.held = held]
<1>1. Record(v)
  BY DEF Shape
<1>2. Record(w1) /\ w1.phase = v.phase /\ w1.at = at /\ w1.shot = v.shot
  BY <1>1 DEF Record
<1>3. Record(w2) /\ w2.phase = v.phase /\ w2.at = at /\ w2.shot = v.shot
  BY <1>1 DEF Record
<1>4. Record(w3) /\ w3.phase = v.phase /\ w3.at = at /\ w3.shot = v.shot
  BY <1>1 DEF Record
<1>5. \/ worker' = [worker EXCEPT ![t] = w1]
      \/ worker' = [worker EXCEPT ![t] = w2]
      \/ worker' = [worker EXCEPT ![t] = w3]
  BY DEF Shape
<1> HIDE DEF w1, w2, w3
<1>6. ASSUME NEW w, worker' = [worker EXCEPT ![t] = w], Record(w), w.phase = v.phase, w.at = at, w.shot = v.shot
      PROVE  Becomes(t, worker[t].phase, at, worker[t].shot)
  <2>1. Becomes(t, w.phase, w.at, w.shot)
    BY <1>6, Updated, Zenon
  <2>2. QED
    BY <1>6, <2>1, Zenon
<1>7. QED
  BY <1>2, <1>3, <1>4, <1>5, <1>6, Zenon

Saved(t, status) ==
    /\ DOMAIN manifest' = Tasks /\ manifest'[t].status = status
    /\ \A u \in Tasks \ {t} : manifest'[u] = manifest[u]

Pictured(t, files) ==
    /\ DOMAIN pictures' = Tasks /\ pictures'[t] = files
    /\ \A u \in Tasks \ {t} : pictures'[u] = pictures[u]

Mirrored(t, status, rows) ==
    /\ DOMAIN row' = Tasks /\ row'[t].status = status
    /\ DOMAIN results' = Tasks /\ results'[t] = rows
    /\ \A u \in Tasks \ {t} : row'[u] = row[u] /\ results'[u] = results[u]

(* What Save makes of a manifest.                                            *)
LEMMA SaveSaves ==
  ASSUME Shape, NEW t \in Tasks, NEW status, Save(t, status)
  PROVE  Saved(t, status)
BY DEF Shape, Saved, Save

(* A file that stays is a file saved with what it says.                      *)
LEMMA Untouched ==
  ASSUME Shape, NEW t \in Tasks
  PROVE  /\ manifest' = manifest => Saved(t, manifest[t].status)
         /\ pictures' = pictures => Pictured(t, pictures[t])
         /\ row' = row /\ results' = results => Mirrored(t, row[t].status, results[t])
BY DEF Shape, Saved, Pictured, Mirrored

(* A step of the worker of t, with what it leaves. *)
LEMMA StepKeeps ==
  ASSUME Inv, NEW t \in Tasks, scenario' = scenario,
         NEW phase, NEW at, NEW shot, NEW status, NEW files, NEW rowStatus, NEW rows,
         Becomes(t, phase, at, shot), Saved(t, status), Pictured(t, files), Mirrored(t, rowStatus, rows),
         WorkerOK(phase, at, shot, scenario.shots),
         FilesOK(phase, at, shot, status, files, scenario.shots),
         RowsOK(files, rowStatus, rows, scenario.shots)
  PROVE  Inv'
<1>1. Shape'
  <2>1. \A u \in Tasks : Record(worker'[u])
    BY Zenon DEF Inv, Shape, Becomes
  <2>2. scenario'.shots \in Nat \ {0}
    BY DEF Inv, Shape
  <2>3. QED
    BY <2>1, <2>2, Zenon DEF Shape, Becomes, Saved, Pictured, Mirrored
<1>2. Alone(t)
  BY Zenon DEF Alone, Becomes, Saved, Pictured, Mirrored
<1>3. TaskOK(t)'
  BY Zenon DEF TaskOK, Becomes, Saved, Pictured, Mirrored
<1>4. QED
  BY <1>1, <1>2, <1>3, OneMoves, Zenon

(* The same for a step that leaves the files and rows alone. *)
LEMMA WorkerKeeps ==
  ASSUME Inv, NEW t \in Tasks, scenario' = scenario, NEW phase, NEW at, NEW shot, NEW status,
         Becomes(t, phase, at, shot), Saved(t, status), UNCHANGED <<pictures, row, results>>,
         WorkerOK(phase, at, shot, scenario.shots),
         FilesOK(phase, at, shot, status, pictures[t], scenario.shots)
  PROVE  Inv'
<1>1. RowsOK(pictures[t], row[t].status, results[t], scenario.shots)
  BY DEF Inv, TaskOK
<1>2. Pictured(t, pictures[t]) /\ Mirrored(t, row[t].status, results[t])
  BY Untouched, Zenon DEF Inv
<1>3. QED
  BY <1>1, <1>2, StepKeeps, Zenon

-----------------------------------------------------------------------------
(* The actions. *)

(* What the invariant says of one task.                                      *)
LEMMA Told ==
  ASSUME Inv, NEW t \in Tasks
  PROVE  /\ Shape /\ scenario.shots \in Nat \ {0} /\ worker[t].shot \in 0..scenario.shots
         /\ WorkerOK(worker[t].phase, worker[t].at, worker[t].shot, scenario.shots)
         /\ FilesOK(worker[t].phase, worker[t].at, worker[t].shot, manifest[t].status, pictures[t], scenario.shots)
         /\ RowsOK(pictures[t], row[t].status, results[t], scenario.shots)
BY DEF Inv, Shape, TaskOK, WorkerOK

(* A task is created.                                                        *)
LEMMA CreateKeeps ==
  ASSUME Inv, NEW t \in Tasks, Create(t)
  PROVE  Inv'
<1>1. Becomes(t, "create", "read", worker[t].shot) /\ Saved(t, "created")
  BY Told, GotoBecomes, SaveSaves, Zenon DEF Create
<1>2. WorkerOK("create", "read", worker[t].shot, scenario.shots)
  BY Told DEF WorkerOK
<1>3. FilesOK("create", "read", worker[t].shot, "created", pictures[t], scenario.shots)
  BY Told DEF FilesOK, Successes
<1>4. scenario' = scenario /\ UNCHANGED <<pictures, row, results>>
  BY DEF Create, mirror
<1>5. QED
  BY <1>1, <1>2, <1>3, <1>4, WorkerKeeps, Zenon

(* Reading and writing the index changes where the worker is, not its phase. *)
LEMMA IndexKeeps ==
  ASSUME Inv, NEW t \in Tasks, LookUp(t) \/ ReadIndex(t) \/ WriteIndex(t)
  PROVE  Inv'
<1>1. PICK at : Becomes(t, worker[t].phase, at, worker[t].shot) /\ at \in {"read", "write", "sync"}
  <2>1. CASE LookUp(t)
    <3>1. Becomes(t, worker[t].phase, "read", worker[t].shot)
      BY <2>1, Told, LookBecomes, Zenon DEF LookUp
    <3>2. QED
      BY <3>1
  <2>2. CASE ReadIndex(t)
    <3>1. Becomes(t, worker[t].phase, "write", worker[t].shot)
      BY <2>2, Told, LookBecomes, Zenon DEF ReadIndex
    <3>2. QED
      BY <3>1
  <2>3. CASE WriteIndex(t)
    <3>1. Becomes(t, worker[t].phase, "sync", worker[t].shot)
      BY <2>3, Told, LookBecomes, Zenon DEF WriteIndex
    <3>2. QED
      BY <3>1
  <2>4. QED
    BY <2>1, <2>2, <2>3
<1>2. worker[t].at # "place" /\ worker[t].at # "work"
  BY DEF LookUp, ReadIndex, WriteIndex, Writing
<1>3. WorkerOK(worker[t].phase, at, worker[t].shot, scenario.shots)
  BY <1>1, Told DEF WorkerOK
<1>4. FilesOK(worker[t].phase, at, worker[t].shot, manifest[t].status, pictures[t], scenario.shots)
  BY <1>1, <1>2, Told DEF FilesOK
<1>5. scenario' = scenario /\ UNCHANGED <<manifest, pictures, row, results>>
  BY DEF LookUp, ReadIndex, WriteIndex, store, mirror
<1>6. Saved(t, manifest[t].status)
  BY <1>5, Untouched, Told, Zenon
<1>7. QED
  BY <1>1, <1>3, <1>4, <1>5, <1>6, WorkerKeeps, Zenon

(* The phases that may follow.                                               *)
LEMMA NextIs ==
  ASSUME NEW t \in Tasks
  PROVE  \/ worker[t].phase = "start" /\ NextPhase(t) = <<"picture", "work">>
         \/ worker[t].phase = "picture" /\ worker[t].shot < scenario.shots /\ NextPhase(t) = <<"picture", "work">>
         \/ worker[t].phase = "picture" /\ ~(worker[t].shot < scenario.shots) /\ NextPhase(t) = <<"outcome", "work">>
         \/ NextPhase(t) \in {<<"queued", "rest">>, <<"final", "look">>, <<"fail_again", "look">>,
                              <<"raised", "mark">>, <<"ended", "rest">>}
BY DEF NextPhase

(* The pictures listed are those in final/, or the first one in generated/.  *)
LEMMA Listed ==
  ASSUME Inv, NEW t \in Tasks
  PROVE  RowsOK(pictures[t], manifest[t].status, results[t] \cup ResultFiles(t), scenario.shots)
<1> DEFINE n == scenario.shots
           files == pictures[t]
           finals == {file \in files : file[1] = "final"}
           generated == {file \in files : file[1] = "generated"}
           listed == IF finals # {} THEN finals ELSE generated
<1>1. ResultFiles(t) = listed
  BY DEF ResultFiles, Named
<1>2. /\ n \in Nat \ {0} /\ files \subseteq {"generated", "final"} \X Nat
      /\ \A k \in Nat : <<"generated", k>> \in files /\ k # 1 => <<"final", 1>> \in files
      /\ manifest[t].status \in Successes => Finals(n) \subseteq files
      /\ results[t] \subseteq files
      /\ \A file \in results[t] : file[1] = "generated" => file = <<"generated", 1>>
  BY Told DEF FilesOK, RowsOK
<1>3. listed \subseteq files
  OBVIOUS
<1>4. ASSUME manifest[t].status \in Successes
      PROVE  Finals(n) \subseteq listed
  <2>1. Finals(n) \subseteq finals
    BY <1>2, <1>4 DEF Finals
  <2>2. <<"final", 1>> \in Finals(n)
    BY <1>2 DEF Finals
  <2>3. QED
    BY <2>1, <2>2
<1>5. ASSUME NEW file \in listed, file[1] = "generated"
      PROVE  file = <<"generated", 1>>
  <2>1. finals = {}
    BY <1>5
  <2>2. file \in files /\ file \in {"generated", "final"} \X Nat
    BY <1>2, <1>3
  <2>3. PICK k \in Nat : file = <<"generated", k>>
    BY <1>5, <2>2
  <2>4. <<"final", 1>> \notin files
    BY <2>1
  <2>5. QED
    BY <1>2, <2>2, <2>3, <2>4
<1>6. QED
  BY <1>1, <1>2, <1>3, <1>4, <1>5 DEF RowsOK

(* The mirror copies status and pictures into the rows.                      *)
LEMMA SyncKeeps ==
  ASSUME Inv, NEW t \in Tasks, Sync(t)
  PROVE  Inv'
<1> DEFINE phase == NextPhase(t)[1]
           at == NextPhase(t)[2]
           rows == results[t] \cup ResultFiles(t)
<1>1. Becomes(t, phase, at, worker[t].shot)
  BY Told, GotoBecomes, Zenon DEF Sync
<1>2. UNCHANGED <<scenario, manifest, pictures>> /\ worker[t].at = "sync"
  BY DEF Sync, store
<1>3. Saved(t, manifest[t].status) /\ Pictured(t, pictures[t])
  BY <1>2, Told, Untouched, Zenon
<1>4. Mirrored(t, manifest[t].status, rows)
  <2>1. /\ row' = [row EXCEPT ![t] = Synced(t)] /\ results' = [results EXCEPT ![t] = rows]
        /\ Shape
    BY Told DEF Sync
  <2>2. Synced(t).status = manifest[t].status
    BY DEF Synced
  <2>3. QED
    BY <2>1, <2>2 DEF Mirrored, Shape
<1>5. WorkerOK(phase, at, worker[t].shot, scenario.shots)
  BY Told, NextIs DEF WorkerOK
<1>6. FilesOK(phase, at, worker[t].shot, manifest[t].status, pictures[t], scenario.shots)
  <2>1. phase = "outcome" \/ phase = "picture" => Finals(worker[t].shot) \subseteq pictures[t]
    <3>1. CASE worker[t].phase = "start"
      <4>1. worker[t].shot = 0
        BY <3>1, Told DEF WorkerOK
      <4>2. QED
        BY <4>1 DEF Finals
    <3>2. CASE worker[t].phase = "picture"
      BY <3>2, <1>2, Told DEF FilesOK
    <3>3. CASE phase \notin {"outcome", "picture"}
      BY <3>3
    <3>4. QED
      BY <3>1, <3>2, <3>3, NextIs
  <2>2. at # "place"
    BY NextIs
  <2>3. QED
    BY <2>1, <2>2, Told DEF FilesOK
<1>7. RowsOK(pictures[t], manifest[t].status, rows, scenario.shots)
  BY Listed
<1> HIDE DEF phase, at, rows
<1>8. QED
  BY <1>1, <1>2, <1>3, <1>4, <1>5, <1>6, <1>7, StepKeeps, Zenon

(* A delivery begins.                                                        *)
LEMMA DeliverKeeps ==
  ASSUME Inv, NEW t \in Tasks, Deliver(t)
  PROVE  Inv'
<1> DEFINE v == worker[t]
           w == [v EXCEPT !.phase = "start", !.at = "mark", !.shot = 0, !.delivery = @ + 1]
<1>1. Record(v) /\ Shape
  BY Told DEF Shape
<1>2. Record(w) /\ w.phase = "start" /\ w.at = "mark" /\ w.shot = 0
  BY <1>1 DEF Record
<1>3. worker' = [worker EXCEPT ![t] = w]
  BY <1>1 DEF Deliver, Shape
<1>4. scenario' = scenario /\ UNCHANGED <<manifest, pictures, row, results>>
  BY DEF Deliver, store, mirror
<1>5. Saved(t, manifest[t].status)
  BY <1>1, <1>4, Untouched, Zenon
<1> HIDE DEF w
<1>6. Becomes(t, "start", "mark", 0)
  <2>1. Becomes(t, w.phase, w.at, w.shot)
    BY <1>1, <1>2, <1>3, Updated, Zenon
  <2>2. QED
    BY <1>2, <2>1, Zenon
<1>7. WorkerOK("start", "mark", 0, scenario.shots)
  BY Told DEF WorkerOK
<1>8. FilesOK("start", "mark", 0, manifest[t].status, pictures[t], scenario.shots)
  BY Told DEF FilesOK
<1>9. QED
  BY <1>4, <1>5, <1>6, <1>7, <1>8, WorkerKeeps, Zenon

(* ... marks the row, and finds the task.                                    *)
LEMMA BeginsKeep ==
  ASSUME Inv, NEW t \in Tasks, MarkRunning(t) \/ Load(t)
  PROVE  Inv'
<1>1. PICK at \in {"load", "work"} : Goto(t, "start", at)
  BY DEF MarkRunning, Load
<1>2. /\ worker[t].phase = "start" /\ scenario' = scenario /\ UNCHANGED <<manifest, pictures, row, results>>
  BY DEF MarkRunning, Load, Mark, store, mirror
<1>3. Becomes(t, "start", at, worker[t].shot) /\ Saved(t, manifest[t].status)
  BY <1>1, <1>2, Told, GotoBecomes, Untouched, Zenon
<1>4. WorkerOK("start", at, worker[t].shot, scenario.shots)
  BY <1>2, Told DEF WorkerOK
<1>5. FilesOK("start", at, worker[t].shot, manifest[t].status, pictures[t], scenario.shots)
  BY <1>1, Told DEF FilesOK
<1>6. QED
  BY <1>2, <1>3, <1>4, <1>5, WorkerKeeps, Zenon

(* The run sets its status.                                                  *)
LEMMA StartKeeps ==
  ASSUME Inv, NEW t \in Tasks, Start(t)
  PROVE  Inv'
<1>1. Becomes(t, "start", "look", worker[t].shot) /\ Saved(t, "running")
  BY Told, GotoBecomes, SaveSaves, Zenon DEF Start
<1>2. worker[t].phase = "start" /\ worker[t].at = "work" /\ scenario' = scenario /\ UNCHANGED <<pictures, row, results>>
  BY DEF Start, mirror
<1>3. WorkerOK("start", "look", worker[t].shot, scenario.shots)
  BY <1>2, Told DEF WorkerOK
<1>4. FilesOK("start", "look", worker[t].shot, "running", pictures[t], scenario.shots)
  BY Told DEF FilesOK, Successes
<1>5. QED
  BY <1>1, <1>2, <1>3, <1>4, WorkerKeeps, Zenon

(* A picture joins the files: what was said of them before still holds.      *)
LEMMA More ==
  ASSUME Inv, NEW t \in Tasks, NEW file
  PROVE  RowsOK(pictures[t] \cup {file}, row[t].status, results[t], scenario.shots)
BY Told DEF RowsOK

(* A picture is added to the files.                                          *)
LEMMA Added ==
  ASSUME Shape, NEW t \in Tasks, NEW file, pictures' = [pictures EXCEPT ![t] = @ \cup {file}]
  PROVE  Pictured(t, pictures[t] \cup {file})
BY DEF Shape, Pictured

(* A picture is made.                                                        *)
LEMMA GenerateKeeps ==
  ASSUME Inv, NEW t \in Tasks, Generate(t)
  PROVE  Inv'
<1> DEFINE v == worker[t]
           n == scenario.shots
           w == [v EXCEPT !.at = "place", !.shot = @ + 1]
           file == <<"generated", v.shot + 1>>
           files == pictures[t] \cup {file}
<1>1. Record(v) /\ Shape
  BY Told DEF Shape
<1>2. Record(w) /\ w.phase = v.phase /\ w.at = "place" /\ w.shot = v.shot + 1
  BY <1>1 DEF Record
<1>3. worker' = [worker EXCEPT ![t] = w]
  BY <1>1 DEF Generate, Shape
<1>4. /\ v.phase = "picture" /\ v.at = "work" /\ scenario' = scenario
      /\ UNCHANGED <<manifest, row, results>>
  BY DEF Generate, mirror
<1>5. Saved(t, manifest[t].status) /\ Mirrored(t, row[t].status, results[t])
  BY <1>1, <1>4, Untouched, Zenon
<1>6. Pictured(t, files)
  <2>1. pictures' = [pictures EXCEPT ![t] = @ \cup {file}]
    BY DEF Generate
  <2>2. QED
    BY <1>1, <2>1, Added, Zenon
<1>7. v.shot \in Nat /\ v.shot < n /\ n \in Nat
  BY <1>4, Told DEF WorkerOK
<1>8. WorkerOK("picture", "place", v.shot + 1, n)
  BY <1>7 DEF WorkerOK
<1>9. FilesOK("picture", "place", v.shot + 1, manifest[t].status, files, n)
  <2>1. FilesOK("picture", "work", v.shot, manifest[t].status, pictures[t], n)
    BY <1>4, Told, Zenon
  <2>2. Finals(v.shot) \subseteq pictures[t] /\ (v.shot + 1) - 1 = v.shot
    BY <2>1, <1>7 DEF FilesOK
  <2>3. ASSUME NEW k \in Nat, <<"generated", k>> \in files, k # 1
        PROVE  <<"final", 1>> \in files
    <3>1. CASE <<"generated", k>> \in pictures[t]
      BY <2>1, <2>3, <3>1 DEF FilesOK
    <3>2. CASE k = v.shot + 1
      <4>1. 1 \in 1..v.shot
        BY <1>7, <2>3, <3>2
      <4>2. QED
        BY <4>1, <2>2 DEF Finals
    <3>3. QED
      BY <2>3, <3>1, <3>2
  <2>4. files \subseteq {"generated", "final"} \X Nat
    BY <2>1, <1>7 DEF FilesOK
  <2>5. manifest[t].status \in Successes => Finals(n) \subseteq files
    BY <2>1 DEF FilesOK
  <2> HIDE DEF files
  <2>6. Finals((v.shot + 1) - 1) \subseteq files
    BY <2>2 DEF files
  <2>7. QED
    BY <2>3, <2>4, <2>5, <2>6 DEF FilesOK
<1>10. RowsOK(files, row[t].status, results[t], n)
  BY More
<1> HIDE DEF w, files
<1>11. Becomes(t, "picture", "place", v.shot + 1)
  <2>1. Becomes(t, w.phase, w.at, w.shot)
    BY <1>1, <1>2, <1>3, Updated, Zenon
  <2>2. QED
    BY <1>2, <1>4, <2>1, Zenon
<1>12. QED
  BY <1>4, <1>5, <1>6, <1>8, <1>9, <1>10, <1>11, StepKeeps, Zenon

(* ... and put in its place.                                                 *)
LEMMA PlaceKeeps ==
  ASSUME Inv, NEW t \in Tasks, Place(t)
  PROVE  Inv'
<1> DEFINE v == worker[t]
           n == scenario.shots
           file == <<"final", v.shot>>
           files == pictures[t] \cup {file}
<1>1. Shape /\ Becomes(t, "picture", "look", v.shot)
  BY Told, GotoBecomes, Zenon DEF Place
<1>2. /\ v.phase = "picture" /\ v.at = "place" /\ scenario' = scenario
      /\ UNCHANGED <<manifest, row, results>>
  BY DEF Place, mirror
<1>3. Saved(t, manifest[t].status) /\ Mirrored(t, row[t].status, results[t])
  BY <1>1, <1>2, Untouched, Zenon
<1>4. Pictured(t, files)
  <2>1. pictures' = [pictures EXCEPT ![t] = @ \cup {file}]
    BY DEF Place
  <2>2. QED
    BY <1>1, <2>1, Added, Zenon
<1>5. v.shot \in 1..n /\ n \in Nat
  BY <1>2, Told DEF WorkerOK
<1>6. WorkerOK("picture", "look", v.shot, n)
  BY <1>5 DEF WorkerOK
<1>7. FilesOK("picture", "look", v.shot, manifest[t].status, files, n)
  <2>1. FilesOK("picture", "place", v.shot, manifest[t].status, pictures[t], n)
    BY <1>2, Told, Zenon
  <2>2. Finals(v.shot) \subseteq files
    <3>1. SUFFICES ASSUME NEW k \in 1..v.shot PROVE <<"final", k>> \in files
      BY DEF Finals
    <3>2. CASE k = v.shot
      BY <3>2
    <3>3. CASE k # v.shot
      <4>1. k \in 1..(v.shot - 1)
        BY <1>5, <3>1, <3>3
      <4>2. QED
        BY <4>1, <2>1 DEF FilesOK, Finals
    <3>4. QED
      BY <3>2, <3>3
  <2>3. files \subseteq {"generated", "final"} \X Nat
    BY <2>1, <1>5 DEF FilesOK
  <2>4. ASSUME NEW k \in Nat, <<"generated", k>> \in files, k # 1
        PROVE  <<"final", 1>> \in files
    BY <2>1, <2>4 DEF FilesOK
  <2>5. manifest[t].status \in Successes => Finals(n) \subseteq files
    BY <2>1 DEF FilesOK
  <2> HIDE DEF files
  <2>6. QED
    BY <2>2, <2>3, <2>4, <2>5 DEF FilesOK
<1>8. RowsOK(files, row[t].status, results[t], n)
  BY More
<1> HIDE DEF files
<1>9. QED
  BY <1>1, <1>2, <1>3, <1>4, <1>6, <1>7, <1>8, StepKeeps, Zenon

(* The outcome is saved after the last picture was placed.                   *)
LEMMA ConcludeKeeps ==
  ASSUME Inv, NEW t \in Tasks, Conclude(t)
  PROVE  Inv'
<1>1. PICK status \in Successes : Save(t, status)
  BY DEF Conclude
<1>2. Becomes(t, "outcome", "export", worker[t].shot) /\ Saved(t, status)
  BY <1>1, Told, GotoBecomes, SaveSaves, Zenon DEF Conclude
<1>3. worker[t].phase = "outcome" /\ scenario' = scenario /\ UNCHANGED <<pictures, row, results>>
  BY DEF Conclude, mirror
<1>4. WorkerOK("outcome", "export", worker[t].shot, scenario.shots)
  BY <1>3, Told DEF WorkerOK
<1>5. FilesOK("outcome", "export", worker[t].shot, status, pictures[t], scenario.shots)
  BY <1>3, Told DEF FilesOK, WorkerOK
<1>6. QED
  BY <1>2, <1>3, <1>4, <1>5, WorkerKeeps, Zenon

(* The results are exported.                                                 *)
LEMMA ExportKeeps ==
  ASSUME Inv, NEW t \in Tasks, Export(t)
  PROVE  Inv'
<1>1. Becomes(t, "outcome", "look", worker[t].shot)
  BY Told, GotoBecomes, Zenon DEF Export
<1>2. worker[t].phase = "outcome" /\ scenario' = scenario /\ UNCHANGED <<manifest, pictures, row, results>>
  BY DEF Export, mirror
<1>3. Saved(t, manifest[t].status)
  BY <1>2, Told, Untouched, Zenon
<1>4. WorkerOK("outcome", "look", worker[t].shot, scenario.shots)
  BY <1>2, Told DEF WorkerOK
<1>5. FilesOK("outcome", "look", worker[t].shot, manifest[t].status, pictures[t], scenario.shots)
  BY <1>2, Told DEF FilesOK
<1>6. QED
  BY <1>1, <1>2, <1>3, <1>4, <1>5, WorkerKeeps, Zenon

(* An exception and a death lead to a phase that places no picture.          *)
LEMMA LeavesKeep ==
  ASSUME Inv, NEW t \in Tasks, scenario' = scenario, UNCHANGED <<pictures, row, results>>,
         NEW phase \in {"abandoned", "fail", "fail_again", "raised", "ended"},
         NEW at \in {"look", "mark", "rest"},
         Goto(t, phase, at), Save(t, "failed") \/ UNCHANGED manifest
  PROVE  Inv'
<1>1. PICK status : Saved(t, status) /\ (status = "failed" \/ status = manifest[t].status)
  BY Told, SaveSaves, Untouched, Zenon
<1>2. Becomes(t, phase, at, worker[t].shot)
  BY Told, GotoBecomes, Zenon
<1>3. WorkerOK(phase, at, worker[t].shot, scenario.shots)
  BY Told DEF WorkerOK
<1>4. FilesOK(phase, at, worker[t].shot, status, pictures[t], scenario.shots)
  BY <1>1, Told DEF FilesOK, Successes
<1>5. QED
  BY <1>1, <1>2, <1>3, <1>4, WorkerKeeps, Zenon

(* A step that raises goes to the rescue and changes no file.                *)
LEMMA RaisesKeeps ==
  ASSUME Inv, NEW t \in Tasks, Raises(t), scenario' = scenario, UNCHANGED <<pictures, row, results>>
  PROVE  Inv'
<1>1. \/ Goto(t, "abandoned", "rest") /\ UNCHANGED manifest
      \/ Goto(t, "fail", "look") /\ Save(t, "failed")
      \/ Goto(t, "ended", "rest") /\ UNCHANGED manifest
      \/ Goto(t, "raised", "mark") /\ UNCHANGED manifest
      \/ Goto(t, "fail_again", "look") /\ Save(t, "failed")
  BY DEF Raises
<1>2. QED
  BY <1>1, LeavesKeep

(* Faults, torn reads and deaths change no picture and no snapshot, and      *)
(* Celery's handler changes the status of the row alone.                     *)
LEMMA BreaksKeep ==
  ASSUME Inv, NEW t \in Tasks, Fault(t) \/ TornRead(t) \/ Crash(t) \/ MarkRaised(t)
  PROVE  Inv'
<1>1. CASE Fault(t) \/ TornRead(t)
  BY <1>1, RaisesKeeps DEF Fault, TornRead, mirror
<1>2. CASE Crash(t)
  <2>1. scenario' = scenario /\ UNCHANGED <<manifest, pictures, row, results>>
    BY <1>2 DEF Crash, store, mirror
  <2>2. Goto(t, "abandoned", "rest") \/ Goto(t, "ended", "rest")
    BY <1>2 DEF Crash
  <2>3. QED
    BY <2>1, <2>2, LeavesKeep
<1>3. CASE MarkRaised(t)
  BY <1>3, LeavesKeep DEF MarkRaised, Mark, store
<1>4. QED
  BY <1>1, <1>2, <1>3

(* Any step of a process that writes.                                        *)
LEMMA WriteKeeps ==
  ASSUME Inv, NEW t \in Tasks, Write(t)
  PROVE  Inv'
BY CreateKeeps, IndexKeeps, SyncKeeps, DeliverKeeps, BeginsKeep, StartKeeps, GenerateKeeps, PlaceKeeps,
   ConcludeKeeps, ExportKeeps, BreaksKeep, Zenon DEF Write

(* A reader writes nothing.                                                  *)
LEMMA ReadersKeep ==
  ASSUME Inv, UNCHANGED <<scenario, worker, store, mirror>>
  PROVE  Inv'
<1>1. UNCHANGED <<scenario, worker, manifest, pictures, row, results>>
  BY DEF store, mirror
<1>2. Shape'
  BY <1>1 DEF Inv, Shape, Record
<1>3. \A t \in Tasks : TaskOK(t)'
  BY <1>1, Zenon DEF Inv, TaskOK
<1>4. QED
  BY <1>2, <1>3 DEF Inv

(* Every step keeps the invariant.                                           *)
LEMMA NextKeeps ==
  ASSUME Inv, [Next]_vars
  PROVE  Inv'
<1>1. CASE \E t \in Tasks : Write(t)
  BY <1>1, WriteKeeps, Zenon
<1>2. CASE UNCHANGED vars
  BY <1>2, ReadersKeep, Zenon DEF vars
<1>3. CASE (\E t \in Tasks : Open(t)) \/ Clear \/ Poll
  BY <1>3, ReadersKeep, Zenon DEF Open, Clear, Poll
<1>4. ASSUME NEW r \in requests,
             \/ ReadRow(r) \/ ReadManifest(r) \/ ReadPictures(r) \/ ReadExports(r)
             \/ TornView(r) \/ ViewFails(r) \/ Receive(r)
      PROVE  Inv'
  BY <1>4, ReadersKeep, Zenon DEF ReadRow, ReadManifest, ReadPictures, ReadExports, TornView, ViewFails, Receive
<1>5. QED
  BY <1>1, <1>2, <1>3, <1>4, Zenon DEF Next

(* Initially there is nothing.                                               *)
LEMMA InitInv ==
  ASSUME Init
  PROVE  Inv
<1>1. scenario.shots \in Nat \ {0}
  BY TaskViewAssumption DEF Init, ScenarioType
<1>2. Shape
  <2>1. \A t \in Tasks : Record(worker[t])
    BY DEF Init, Record
  <2>2. QED
    BY <1>1, <2>1 DEF Init, Shape
<1>3. ASSUME NEW t \in Tasks
      PROVE  TaskOK(t)
  <2>1. /\ worker[t].phase = "absent" /\ worker[t].at = "rest" /\ worker[t].shot = 0
        /\ manifest[t].status = "none" /\ pictures[t] = {}
        /\ row[t].status = "none" /\ results[t] = {}
    BY DEF Init, NoManifest, NoRow
  <2>2. WorkerOK("absent", "rest", 0, scenario.shots)
    BY <1>1 DEF WorkerOK
  <2>3. FilesOK("absent", "rest", 0, "none", {}, scenario.shots)
    BY DEF FilesOK, Successes
  <2>4. RowsOK({}, "none", {}, scenario.shots)
    BY DEF RowsOK, Successes
  <2>5. QED
    BY <2>1, <2>2, <2>3, <2>4, Zenon DEF TaskOK
<1>4. QED
  BY <1>2, <1>3 DEF Inv

-----------------------------------------------------------------------------
(* The status of a row.  It is set apart from the snapshot before a run and  *)
(* after one that raised, but never to a success.                            *)
ColumnOK ==
    /\ DOMAIN column = Tasks /\ DOMAIN row = Tasks
    /\ \A t \in Tasks : column[t] \in Successes => column[t] = row[t].status

(* Only the mirror of a run that succeeded tells of success.                 *)
LEMMA ColumnStep ==
  ASSUME ColumnOK, [Next]_vars
  PROVE  ColumnOK'
<1>1. ASSUME UNCHANGED <<column, row>> PROVE ColumnOK'
  BY <1>1 DEF ColumnOK
<1>2. ASSUME NEW t \in Tasks, Write(t) PROVE ColumnOK'
  <2>1. CASE Sync(t)
    <3>1. Synced(t).status = manifest[t].status
      BY DEF Synced
    <3>2. /\ column' = [column EXCEPT ![t] = manifest[t].status]
          /\ row' = [row EXCEPT ![t] = Synced(t)]
      BY <2>1 DEF Sync
    <3>3. QED
      BY <3>1, <3>2 DEF ColumnOK
  <2>2. CASE MarkRunning(t) \/ MarkRaised(t)
    <3>1. PICK status \in {"running", "created", "failed"} : Mark(t, status)
      BY <2>2 DEF MarkRunning, MarkRaised
    <3>2. /\ UNCHANGED row /\ status \notin Successes
          /\ \E value \in {column[t], status} : column' = [column EXCEPT ![t] = value]
      BY <3>1 DEF Mark, Successes
    <3>3. QED
      BY <3>2 DEF ColumnOK
  <2>3. CASE ~(Sync(t) \/ MarkRunning(t) \/ MarkRaised(t))
    <3>1. UNCHANGED <<column, row>>
      BY <1>2, <2>3, Zenon DEF Write, Create, LookUp, ReadIndex, WriteIndex, Deliver, Load, Start, Generate, Place,
         Conclude, Export, Fault, TornRead, Crash, mirror
    <3>2. QED
      BY <1>1, <3>1
  <2>4. QED
    BY <2>1, <2>2, <2>3
<1>3. ASSUME NEW t \in Tasks, Open(t) PROVE ColumnOK'
  BY <1>1, <1>3 DEF Open, mirror
<1>4. CASE Clear \/ Poll \/ UNCHANGED vars
  BY <1>1, <1>4 DEF Clear, Poll, vars, mirror
<1>5. ASSUME NEW r \in requests,
             \/ ReadRow(r) \/ ReadManifest(r) \/ ReadPictures(r) \/ ReadExports(r)
             \/ TornView(r) \/ ViewFails(r) \/ Receive(r)
      PROVE  ColumnOK'
  <2>1. UNCHANGED <<column, row>>
    BY <1>5, Zenon
       DEF ReadRow, ReadManifest, ReadPictures, ReadExports, TornView, ViewFails, Receive, mirror
  <2>2. QED
    BY <1>1, <2>1
<1>6. QED
  BY <1>2, <1>3, <1>4, <1>5 DEF Next

(* No row tells of success at first.                                         *)
LEMMA InitColumn ==
  ASSUME Init
  PROVE  ColumnOK
BY DEF Init, ColumnOK, Successes

(* A row in PostgreSQL that tells of success, in its status or its snapshot, *)
(* comes with one row for each picture in final/, and the rows of a task     *)
(* never name a picture it does not have                                     *)
(* (TaskDbMirrorService._build_main_results).                                *)
THEOREM RowsAlwaysNameThePictures == Spec => []RowsNameThePictures
<1>1. Inv /\ ColumnOK => RowsNameThePictures
  <2>1. SUFFICES ASSUME Inv, ColumnOK, NEW t \in Tasks
                 PROVE  /\ column[t] \in Successes \/ row[t].status \in Successes =>
                              {<<"final", k>> : k \in 1..scenario.shots} \subseteq results[t]
                        /\ results[t] \subseteq pictures[t]
                        /\ \A file \in results[t] : file[1] = "generated" => file = <<"generated", 1>>
    BY DEF RowsNameThePictures
  <2>2. column[t] \in Successes => row[t].status \in Successes
    BY <2>1 DEF ColumnOK
  <2>3. RowsOK(pictures[t], row[t].status, results[t], scenario.shots)
    BY <2>1 DEF Inv, TaskOK
  <2>4. QED
    BY <2>2, <2>3 DEF RowsOK, Finals
<1>2. QED
  BY <1>1, InitInv, NextKeeps, InitColumn, ColumnStep, PTL DEF Spec

-----------------------------------------------------------------------------
(* The index. *)

Full(rows, t) == t \in DOMAIN rows /\ rows[t] = "full"

(* A task past its creation has its row, and a worker that is about to write *)
(* the index again has found the row as it should be.                        *)
IndexFine(phase, at, known, mirrored, full) ==
    /\ mirrored \/ phase \notin {"absent", "create", "abandoned"} \/ (phase = "create" /\ at = "sync") => full
    /\ phase \in {"absent", "abandoned", "queued", "ended"} => at = "rest"
    /\ at \in {"read", "write"} => phase = "create" \/ known = "full"

IndexOK(t) ==
    IndexFine(worker[t].phase, worker[t].at, worker[t].known, row[t] # NoRow, Full(index.rows, t))

IndexInv == overlap \/ \A t \in Tasks : IndexOK(t)

(* No row of another task is lost. *)
Kept(t) == \A u \in Tasks \ {t} : Full(index.rows, u) => Full(index.rows, u)'

Others(t) == \A u \in Tasks \ {t} : worker'[u] = worker[u] /\ (row'[u] = row[u])

(* A fuller index is as good.                                                *)
LEMMA FullerIsFine ==
  ASSUME NEW phase, NEW at, NEW known, NEW mirrored \in BOOLEAN, NEW full \in BOOLEAN, NEW fuller \in BOOLEAN,
         IndexFine(phase, at, known, mirrored, full), full => fuller
  PROVE  IndexFine(phase, at, known, mirrored, fuller)
BY DEF IndexFine

(* A step that changes one task leaves the entries of the others.            *)
LEMMA IndexMoves ==
  ASSUME NEW t \in Tasks, \A u \in Tasks : IndexOK(u), Kept(t), Others(t), IndexOK(t)'
  PROVE  IndexInv'
<1>1. ASSUME NEW u \in Tasks \ {t}
      PROVE  IndexOK(u)'
  <2>1. IndexOK(u)
    OBVIOUS
  <2>2. Full(index.rows, u) => Full(index.rows, u)'
    BY DEF Kept
  <2>3. worker'[u] = worker[u] /\ (row'[u] = row[u])
    BY DEF Others
  <2>4. IndexFine(worker[u].phase, worker[u].at, worker[u].known, row[u] # NoRow, Full(index.rows, u)')
    BY <2>1, <2>2, FullerIsFine DEF IndexOK, Full
  <2>5. QED
    BY <2>3, <2>4, Zenon DEF IndexOK, NoRow
<1>2. \A u \in Tasks : IndexOK(u)'
  BY <1>1
<1>3. QED
  BY <1>2 DEF IndexInv

(* Where the worker of t is after a step, and what it knows.                 *)
Goes(t, phase, at, known) ==
    /\ worker'[t].phase = phase /\ worker'[t].at = at /\ worker'[t].known = known
    /\ \A u \in Tasks \ {t} : worker'[u] = worker[u]

(* What Goto makes of a worker, as the index sees it.                        *)
LEMMA GotoGoes ==
  ASSUME Shape, NEW t \in Tasks, NEW phase, NEW at, Goto(t, phase, at)
  PROVE  Goes(t, phase, at, worker[t].known)
<1> DEFINE v == worker[t]
           w == [v EXCEPT !.phase = phase, !.at = at]
<1>1. Record(v)
  BY DEF Shape
<1>2. w.phase = phase /\ w.at = at /\ w.known = v.known
  BY <1>1 DEF Record
<1>3. worker' = [worker EXCEPT ![t] = w]
  BY DEF Goto, Shape
<1> HIDE DEF w
<1>4. QED
  BY <1>2, <1>3 DEF Goes, Shape

(* A step of one worker leaves the other workers alone.                      *)
LEMMA OthersStay ==
  ASSUME Shape, NEW t \in Tasks, NEW phase, NEW at, NEW known, Goes(t, phase, at, known),
         UNCHANGED row \/ \E value : row' = [row EXCEPT ![t] = value]
  PROVE  Others(t)
BY DEF Others, Goes, Shape

(* A step that leaves the rows of the index and of the mirror as they are.   *)
LEMMA PlainMoves ==
  ASSUME Shape, NEW t \in Tasks, \A u \in Tasks : IndexOK(u),
         NEW phase, NEW at, NEW known, Goes(t, phase, at, known),
         index.rows' = index.rows, UNCHANGED row,
         IndexFine(phase, at, known, row[t] # NoRow, Full(index.rows, t))
  PROVE  IndexInv'
<1>1. Kept(t)
  BY DEF Kept, Full
<1>2. Others(t)
  BY OthersStay, Zenon
<1>3. IndexOK(t)'
  <2>1. Full(index.rows, t)' <=> Full(index.rows, t)
    BY DEF Full
  <2>2. (row[t] # NoRow)' <=> row[t] # NoRow
    BY DEF NoRow
  <2>3. IndexFine(phase, at, known, (row[t] # NoRow)', Full(index.rows, t)')
    BY <2>1, <2>2 DEF IndexFine
  <2>4. QED
    BY <2>3, Zenon DEF IndexOK, Goes
<1>4. QED
  BY <1>1, <1>2, <1>3, IndexMoves

(* What the invariant says of one task.                                      *)
LEMMA Stands ==
  ASSUME NEW t \in Tasks, \A u \in Tasks : IndexOK(u)
  PROVE  IndexFine(worker[t].phase, worker[t].at, worker[t].known, row[t] # NoRow, Full(index.rows, t))
BY DEF IndexOK

(* A worker that goes where nothing is asked of it.                          *)
LEMMA GoesOn ==
  ASSUME Shape, NEW t \in Tasks, \A u \in Tasks : IndexOK(u),
         NEW phase, NEW at, Goto(t, phase, at), at \notin {"read", "write", "sync"},
         index.rows' = index.rows, UNCHANGED row,
         phase \in {"abandoned", "queued", "ended"} => at = "rest",
         phase \notin {"absent", "create"},
         phase = "abandoned" \/ worker[t].phase \notin {"absent", "create", "abandoned"}
  PROVE  IndexInv'
<1>1. Goes(t, phase, at, worker[t].known)
  BY GotoGoes, Zenon
<1>2. IndexFine(phase, at, worker[t].known, row[t] # NoRow, Full(index.rows, t))
  BY Stands DEF IndexFine
<1>3. QED
  BY <1>1, <1>2, PlainMoves, Zenon

(* A task is created: it has no row yet.                                     *)
LEMMA CreateIndexed ==
  ASSUME Shape, NEW t \in Tasks, \A u \in Tasks : IndexOK(u), Create(t)
  PROVE  IndexInv'
<1>1. Goes(t, "create", "read", worker[t].known)
  BY GotoGoes, Zenon DEF Create
<1>2. IndexFine("create", "read", worker[t].known, row[t] # NoRow, Full(index.rows, t))
  BY Stands DEF IndexFine
<1>3. index.rows' = index.rows /\ UNCHANGED row
  BY DEF Create, mirror
<1>4. QED
  BY <1>1, <1>2, <1>3, PlainMoves, Zenon

(* A worker looks up what the index says.                                    *)
LEMMA LookIndexed ==
  ASSUME Shape, NEW t \in Tasks, \A u \in Tasks : IndexOK(u), LookUp(t)
  PROVE  IndexInv'
<1> DEFINE known == IF t \in DOMAIN index.rows THEN index.rows[t] ELSE "none"
           v == worker[t]
           w == [v EXCEPT !.at = "read", !.known = known]
<1>1. Record(v)
  BY DEF Shape
<1>2. w.phase = v.phase /\ w.at = "read" /\ w.known = known
  BY <1>1 DEF Record
<1>3. worker' = [worker EXCEPT ![t] = w]
  BY DEF LookUp, Shape
<1>4. Full(index.rows, t) => known = "full"
  BY DEF Full
<1>5. index.rows' = index.rows /\ UNCHANGED row /\ v.at = "look"
  BY DEF LookUp, mirror
<1> HIDE DEF w, known
<1>6. Goes(t, v.phase, "read", known)
  BY <1>2, <1>3 DEF Goes, Shape
<1>7. IndexFine(v.phase, "read", known, row[t] # NoRow, Full(index.rows, t))
  BY <1>4, <1>5, Stands DEF IndexFine
<1>8. QED
  BY <1>5, <1>6, <1>7, PlainMoves, Zenon

(* A worker reads the file it will write back.                               *)
LEMMA ReadIndexed ==
  ASSUME Shape, NEW t \in Tasks, \A u \in Tasks : IndexOK(u), ReadIndex(t)
  PROVE  IndexInv'
<1> DEFINE v == worker[t]
           w == [v EXCEPT !.at = "write", !.held = index.rows]
<1>1. Record(v)
  BY DEF Shape
<1>2. w.phase = v.phase /\ w.at = "write" /\ w.known = v.known
  BY <1>1 DEF Record
<1>3. worker' = [worker EXCEPT ![t] = w]
  BY DEF ReadIndex, Shape
<1>4. index.rows' = index.rows /\ UNCHANGED row /\ v.at = "read"
  BY DEF ReadIndex, mirror
<1> HIDE DEF w
<1>5. Goes(t, v.phase, "write", v.known)
  BY <1>2, <1>3 DEF Goes, Shape
<1>6. IndexFine(v.phase, "write", v.known, row[t] # NoRow, Full(index.rows, t))
  BY <1>4, Stands DEF IndexFine
<1>7. QED
  BY <1>4, <1>5, <1>6, PlainMoves, Zenon

(* Nobody has written since the worker read: every other row is written back. *)
LEMMA WriteIndexed ==
  ASSUME Shape, NEW t \in Tasks, \A u \in Tasks : IndexOK(u), WriteIndex(t), ~overlap'
  PROVE  IndexInv'
<1> DEFINE v == worker[t]
           w == [v EXCEPT !.at = "sync", !.known = "none", !.held = NoRows]
<1>1. Record(v)
  BY DEF Shape
<1>2. w.phase = v.phase /\ w.at = "sync" /\ w.known = "none"
  BY <1>1 DEF Record
<1>3. worker' = [worker EXCEPT ![t] = w]
  BY DEF WriteIndex, Shape
<1>4. v.held = index.rows /\ UNCHANGED row /\ v.at = "write"
  BY DEF WriteIndex, mirror, Writing
<1>5. RowOf(t) = "full"
  BY <1>4, Stands DEF IndexFine, RowOf
<1>6. index.rows' = [u \in DOMAIN index.rows \cup {t} |-> IF u = t THEN "full" ELSE index.rows[u]]
  BY <1>4, <1>5 DEF WriteIndex, SaveTask
<1> HIDE DEF w
<1>7. Goes(t, v.phase, "sync", "none")
  BY <1>2, <1>3 DEF Goes, Shape
<1>8. Kept(t)
  BY <1>6 DEF Kept, Full
<1>9. Full(index.rows, t)'
  BY <1>6 DEF Full
<1>10. IndexFine(v.phase, "sync", "none", (row[t] # NoRow)', Full(index.rows, t)')
  BY <1>4, <1>9, Stands DEF IndexFine
<1>11. IndexOK(t)'
  BY <1>7, <1>10, Zenon DEF IndexOK, Goes
<1>12. Others(t)
  BY <1>4, <1>7, OthersStay, Zenon
<1>13. QED
  BY <1>8, <1>11, <1>12, IndexMoves

(* The mirror writes no index.                                               *)
LEMMA SyncIndexed ==
  ASSUME Shape, NEW t \in Tasks, \A u \in Tasks : IndexOK(u), Sync(t)
  PROVE  IndexInv'
<1> DEFINE phase == NextPhase(t)[1]
           at == NextPhase(t)[2]
<1>1. Goes(t, phase, at, worker[t].known)
  BY GotoGoes, Zenon DEF Sync
<1>2. \/ (phase \in {"picture", "outcome", "final", "fail_again", "raised"} /\ at \in {"work", "look", "mark"})
      \/ (phase \in {"queued", "ended"} /\ at = "rest")
  BY NextIs
<1>3. index.rows' = index.rows /\ row' = [row EXCEPT ![t] = Synced(t)] /\ worker[t].at = "sync"
  BY DEF Sync
<1>4. Full(index.rows, t) /\ Full(index.rows, t)'
  <2>1. Full(index.rows, t)
    BY <1>3, Stands DEF IndexFine
  <2>2. QED
    BY <2>1, <1>3 DEF Full
<1>5. Kept(t)
  BY <1>3 DEF Kept, Full
<1> HIDE DEF phase, at
<1>6. IndexFine(phase, at, worker[t].known, (row[t] # NoRow)', Full(index.rows, t)')
  BY <1>2, <1>4 DEF IndexFine
<1>7. IndexOK(t)'
  BY <1>1, <1>6, Zenon DEF IndexOK, Goes
<1>8. Others(t)
  BY <1>1, <1>3, OthersStay, Zenon
<1>9. QED
  BY <1>5, <1>7, <1>8, IndexMoves

(* Nor does a delivery.                                                      *)
LEMMA DeliverIndexed ==
  ASSUME Shape, NEW t \in Tasks, \A u \in Tasks : IndexOK(u), Deliver(t)
  PROVE  IndexInv'
<1> DEFINE v == worker[t]
           w == [v EXCEPT !.phase = "start", !.at = "mark", !.shot = 0, !.delivery = @ + 1]
<1>1. Record(v)
  BY DEF Shape
<1>2. w.phase = "start" /\ w.at = "mark" /\ w.known = v.known
  BY <1>1 DEF Record
<1>3. worker' = [worker EXCEPT ![t] = w]
  BY DEF Deliver, Shape
<1>4. index.rows' = index.rows /\ UNCHANGED row /\ v.phase \in {"queued", "ended"}
  BY DEF Deliver, mirror
<1>5. Full(index.rows, t)
  BY <1>4, Stands DEF IndexFine
<1> HIDE DEF w
<1>6. Goes(t, "start", "mark", v.known)
  BY <1>2, <1>3 DEF Goes, Shape
<1>7. IndexFine("start", "mark", v.known, row[t] # NoRow, Full(index.rows, t))
  BY <1>5 DEF IndexFine
<1>8. QED
  BY <1>4, <1>6, <1>7, PlainMoves, Zenon

(* Nor do the pictures.                                                      *)
LEMMA PicturesIndexed ==
  ASSUME Shape, NEW t \in Tasks, \A u \in Tasks : IndexOK(u), Generate(t) \/ Place(t)
  PROVE  IndexInv'
<1>1. CASE Generate(t)
  <2> DEFINE v == worker[t]
             w == [v EXCEPT !.at = "place", !.shot = @ + 1]
  <2>1. Record(v)
    BY DEF Shape
  <2>2. w.phase = v.phase /\ w.at = "place" /\ w.known = v.known
    BY <2>1 DEF Record
  <2>3. worker' = [worker EXCEPT ![t] = w]
    BY <1>1 DEF Generate, Shape
  <2>4. index.rows' = index.rows /\ UNCHANGED row /\ v.phase = "picture"
    BY <1>1 DEF Generate, mirror
  <2> HIDE DEF w
  <2>5. Goes(t, v.phase, "place", v.known)
    BY <2>2, <2>3 DEF Goes, Shape
  <2>6. IndexFine(v.phase, "place", v.known, row[t] # NoRow, Full(index.rows, t))
    BY <2>4, Stands DEF IndexFine
  <2>7. QED
    BY <2>4, <2>5, <2>6, PlainMoves, Zenon
<1>2. CASE Place(t)
  <2>1. /\ Goto(t, "picture", "look") /\ worker[t].phase = "picture"
        /\ index.rows' = index.rows /\ UNCHANGED row
    BY <1>2 DEF Place, mirror
  <2>2. QED
    BY <2>1, GoesOn
<1>3. QED
  BY <1>1, <1>2

(* Nor do the other steps of a run.                                          *)
LEMMA RunIndexed ==
  ASSUME Shape, NEW t \in Tasks, \A u \in Tasks : IndexOK(u), MarkRunning(t) \/ Load(t) \/ Start(t) \/ Conclude(t) \/ Export(t)
  PROVE  IndexInv'
<1>1. \/ Goto(t, "start", "load") /\ worker[t].phase = "start"
      \/ Goto(t, "start", "work") /\ worker[t].phase = "start"
      \/ Goto(t, "start", "look") /\ worker[t].phase = "start"
      \/ Goto(t, "outcome", "export") /\ worker[t].phase = "outcome"
      \/ Goto(t, "outcome", "look") /\ worker[t].phase = "outcome"
  BY DEF MarkRunning, Load, Start, Conclude, Export
<1>2. index.rows' = index.rows /\ UNCHANGED row
  BY DEF MarkRunning, Load, Mark, Start, Conclude, Export, mirror
<1>3. QED
  BY <1>1, <1>2, GoesOn

(* Whatever breaks, the rows written so far stay.                            *)
LEMMA BreaksIndexed ==
  ASSUME Shape, NEW t \in Tasks, \A u \in Tasks : IndexOK(u),
         Fault(t) \/ TornRead(t) \/ Crash(t) \/ MarkRaised(t)
  PROVE  IndexInv'
<1>1. index.rows' = index.rows /\ UNCHANGED row
  <2>1. CASE Fault(t) \/ TornRead(t)
    BY <2>1 DEF Fault, TornRead, mirror
  <2>2. CASE Crash(t)
    <3>1. PICK torn : index' = [index EXCEPT !.torn = torn]
      BY <2>2 DEF Crash
    <3>2. index.rows' = index.rows
      BY <3>1
    <3>3. QED
      BY <2>2, <3>2 DEF Crash, mirror
  <2>3. CASE MarkRaised(t)
    BY <2>3 DEF MarkRaised, Mark
  <2>4. QED
    BY <2>1, <2>2, <2>3
<1>2. worker[t].at # "rest" \/ worker[t].phase = "raised"
  BY DEF Fault, TornRead, Crash, MarkRaised, AtWork, SyncReads
<1>3. worker[t].phase \notin {"absent", "abandoned", "queued", "ended"}
  BY <1>2, Stands DEF IndexFine
<1>4. \/ Goto(t, "abandoned", "rest")
      \/ worker[t].phase # "create" /\ (\/ Goto(t, "fail", "look") \/ Goto(t, "fail_again", "look")
                                       \/ Goto(t, "raised", "mark") \/ Goto(t, "ended", "rest"))
  <2>1. CASE Fault(t) \/ TornRead(t)
    <3>1. Raises(t)
      BY <2>1 DEF Fault, TornRead
    <3>2. QED
      BY <3>1 DEF Raises, InNode, OutsideService
  <2>2. CASE Crash(t)
    BY <2>2 DEF Crash
  <2>3. CASE MarkRaised(t)
    BY <2>3 DEF MarkRaised
  <2>4. QED
    BY <2>1, <2>2, <2>3
<1>5. QED
  BY <1>1, <1>3, <1>4, GoesOn

(* Any step of a process that writes, without an overlap.                    *)
LEMMA WriteIndexesAll ==
  ASSUME Shape, NEW t \in Tasks, \A u \in Tasks : IndexOK(u), Write(t), ~overlap'
  PROVE  IndexInv'
BY CreateIndexed, LookIndexed, ReadIndexed, WriteIndexed, SyncIndexed, DeliverIndexed,
   PicturesIndexed, RunIndexed, BreaksIndexed, Zenon DEF Write

(* Those who only read.                                                      *)
LEMMA ReadersIndex ==
  ASSUME IndexInv, UNCHANGED <<worker, index, overlap, row>>
  PROVE  IndexInv'
<1>1. \A t \in Tasks : IndexOK(t) => IndexOK(t)'
  BY Zenon DEF IndexOK, NoRow
<1>2. QED
  BY <1>1, Zenon DEF IndexInv

(* Every step keeps the invariant.                                           *)
LEMMA IndexStep ==
  ASSUME Inv, IndexInv, [Next]_vars
  PROVE  IndexInv'
<1>1. CASE overlap'
  BY <1>1 DEF IndexInv
<1>2. CASE ~overlap' /\ \E t \in Tasks : Write(t)
  <2>1. PICK t \in Tasks : Write(t)
    BY <1>2
  <2>2. ~overlap
    BY <1>2, <2>1, Zenon DEF Write, Create, LookUp, ReadIndex, WriteIndex, Sync, Deliver, MarkRunning, Load, Start, Generate, Place,
       Conclude, Export, Fault, TornRead, Crash, MarkRaised, Mark
  <2>3. Shape /\ \A u \in Tasks : IndexOK(u)
    BY <2>2 DEF Inv, IndexInv
  <2>4. QED
    BY <1>2, <2>1, <2>3, WriteIndexesAll, Zenon
<1>3. CASE UNCHANGED vars
  BY <1>3, ReadersIndex, Zenon DEF vars, mirror
<1>4. CASE (\E t \in Tasks : Open(t)) \/ Clear \/ Poll
  BY <1>4, ReadersIndex, Zenon DEF Open, Clear, Poll, mirror
<1>5. ASSUME NEW r \in requests,
             \/ ReadRow(r) \/ ReadManifest(r) \/ ReadPictures(r) \/ ReadExports(r)
             \/ TornView(r) \/ ViewFails(r) \/ Receive(r)
      PROVE  IndexInv'
  BY <1>5, ReadersIndex, Zenon
     DEF ReadRow, ReadManifest, ReadPictures, ReadExports, TornView, ViewFails, Receive, mirror
<1>6. QED
  BY <1>1, <1>2, <1>3, <1>4, <1>5, Zenon DEF Next

(* Whatever raises, dies or is delivered again, every created task keeps its *)
(* row and its labels in the index unless two processes have written the     *)
(* file back over each other (TaskRepository.save_task).  A file that does   *)
(* not parse, as one that died writing it or two that wrote at once leave,   *)
(* is excepted: nothing can be read from it.  It holds again once a process  *)
(* that had read the file before writes it whole.                            *)
THEOREM IndexAlwaysKeepsEveryTask == Spec => []IndexKeepsEveryTask
<1>1. Init => IndexInv
  <2>1. SUFFICES ASSUME Init, NEW t \in Tasks PROVE IndexOK(t)
    BY DEF IndexInv
  <2>2. worker[t].phase = "absent" /\ worker[t].at = "rest"
    BY <2>1 DEF Init
  <2>3. row[t] = NoRow
    BY <2>1, Zenon DEF Init
  <2>4. QED
    BY <2>2, <2>3 DEF IndexOK, IndexFine
<1>2. IndexInv => IndexKeepsEveryTask
  BY DEF IndexInv, IndexOK, IndexFine, Full, IndexKeepsEveryTask
<1>3. QED
  BY <1>1, <1>2, InitInv, NextKeeps, IndexStep, PTL DEF Spec

-----------------------------------------------------------------------------
(* The order in which copies of task.json are written: a later delivery, or *)
(* a later status of the same one.  Only a failure may replace an outcome.  *)
Follows(m, n) ==
    \/ m.delivery < n.delivery
    \/ /\ m.delivery = n.delivery
       /\ m.status = n.status \/ Rank[m.status] < Rank[n.status]

Dated(m) == m.status \in DOMAIN Rank /\ m.delivery \in Nat

(* Where the worker of a task is, and what its task.json and its row say.   *)
DatesFine(phase, at, delivery, m, r) ==
    /\ delivery \in Nat /\ Dated(m) /\ Dated(r)
    /\ m.delivery <= delivery
    /\ phase = "absent" => m = NoManifest
    /\ phase = "start" /\ at \in {"mark", "load", "work"} => m.delivery < delivery
    /\ phase = "start" /\ at \notin {"mark", "load", "work"} => m.status = "running"
    /\ phase = "picture" \/ (phase = "outcome" /\ at = "work") => m.status = "running"
    /\ Follows(r, m)

DatesOK(t) == DatesFine(worker[t].phase, worker[t].at, worker[t].delivery, manifest[t], row[t])

Dates == \A t \in Tasks : DatesOK(t)

(* The order of the statuses.                                                *)
LEMMA Ranks ==
  /\ DOMAIN Rank = {"none", "created", "running", "completed", "review_required", "failed"}
  /\ Rank["none"] = 0 /\ Rank["created"] = 1 /\ Rank["running"] = 2
  /\ Rank["completed"] = 3 /\ Rank["review_required"] = 3 /\ Rank["failed"] = 4
  /\ \A status \in DOMAIN Rank : Rank[status] \in 0..4
<1>1. /\ DOMAIN Rank = {"none", "created", "running", "completed", "review_required", "failed"}
      /\ Rank["none"] = 0 /\ Rank["created"] = 1 /\ Rank["running"] = 2
      /\ Rank["completed"] = 3 /\ Rank["review_required"] = 3 /\ Rank["failed"] = 4
  BY DEF Rank
<1> QED
  BY <1>1

(* A later copy of a later copy is later.                                    *)
LEMMA FollowsOn ==
  ASSUME NEW k, NEW m, NEW n, Dated(k), Dated(m), Dated(n), Follows(k, m), Follows(m, n)
  PROVE  Follows(k, n)
<1>1. Rank[k.status] \in 0..4 /\ Rank[m.status] \in 0..4 /\ Rank[n.status] \in 0..4
  BY Ranks DEF Dated
<1>2. k.delivery \in Nat /\ m.delivery \in Nat /\ n.delivery \in Nat
  BY DEF Dated
<1> QED
  BY <1>1, <1>2 DEF Follows

(* Everything comes after nothing.                                           *)
LEMMA NothingIsFirst ==
  /\ Dated(NoManifest) /\ Dated(NoRow)
  /\ \A m : Dated(m) => Follows(NoRow, m) /\ Follows(NoManifest, m)
<1>1. Dated(NoManifest) /\ Dated(NoRow)
  BY Ranks DEF Dated, NoManifest, NoRow
<1>2. ASSUME NEW m, Dated(m) PROVE Follows(NoRow, m) /\ Follows(NoManifest, m)
  <2>1. m.delivery = 0 \/ 0 < m.delivery
    BY <1>2 DEF Dated
  <2>2. m.status = "none" \/ Rank["none"] < Rank[m.status]
    BY <1>2, Ranks DEF Dated
  <2> QED
    BY <2>1, <2>2 DEF Follows, NoRow, NoManifest
<1> QED
  BY <1>1, <1>2

-----------------------------------------------------------------------------
(* What a worker writes comes after what it wrote. *)

Stamps(t, phase, at, delivery) ==
    /\ worker'[t].phase = phase /\ worker'[t].at = at /\ worker'[t].delivery = delivery
    /\ \A u \in Tasks \ {t} : worker'[u] = worker[u]

Notes(t, m, r) ==
    /\ manifest'[t] = m /\ row'[t] = r
    /\ \A u \in Tasks \ {t} : manifest'[u] = manifest[u] /\ row'[u] = row[u]

(* Readers may rely on it. *)
Later == \A t \in Tasks : DatesOK(t)' /\ Follows(manifest[t], manifest'[t])

(* A step of one worker moves its task forward.                              *)
LEMMA DatesMove ==
  ASSUME NEW t \in Tasks, Dates, NEW phase, NEW at, NEW delivery, NEW m, NEW r,
         Stamps(t, phase, at, delivery), Notes(t, m, r),
         DatesFine(phase, at, delivery, m, r), Follows(manifest[t], m)
  PROVE  Later
<1>1. ASSUME NEW u \in Tasks \ {t} PROVE DatesOK(u)' /\ Follows(manifest[u], manifest'[u])
  <2>1. DatesOK(u)
    BY DEF Dates
  <2>2. worker'[u] = worker[u] /\ manifest'[u] = manifest[u] /\ row'[u] = row[u]
    BY DEF Stamps, Notes
  <2>3. Follows(manifest[u], manifest[u])
    BY DEF Follows
  <2> QED
    BY <2>1, <2>2, <2>3, Zenon DEF DatesOK
<1>2. DatesOK(t)' /\ Follows(manifest[t], manifest'[t])
  BY Zenon DEF DatesOK, Stamps, Notes
<1> QED
  BY <1>1, <1>2 DEF Later

(* A step that writes neither task.json nor the row. *)
LEMMA DatesStay ==
  ASSUME NEW t \in Tasks, Dates, NEW phase, NEW at, NEW delivery,
         Stamps(t, phase, at, delivery), UNCHANGED <<manifest, row>>,
         DatesFine(phase, at, delivery, manifest[t], row[t])
  PROVE  Later
<1>1. Notes(t, manifest[t], row[t])
  BY DEF Notes
<1>2. Follows(manifest[t], manifest[t])
  BY DEF Follows
<1> QED
  BY <1>1, <1>2, DatesMove, Zenon

(* What the invariant says of one task.                                      *)
LEMMA DatesAre ==
  ASSUME NEW t \in Tasks, Dates
  PROVE  DatesFine(worker[t].phase, worker[t].at, worker[t].delivery, manifest[t], row[t])
BY DEF Dates, DatesOK

(* Goto leaves the delivery as it is.                                        *)
LEMMA GotoStamps ==
  ASSUME Shape, NEW t \in Tasks, NEW phase, NEW at, Goto(t, phase, at)
  PROVE  Stamps(t, phase, at, worker[t].delivery)
<1> DEFINE v == worker[t]
           w == [v EXCEPT !.phase = phase, !.at = at]
<1>1. Record(v)
  BY DEF Shape
<1>2. w.phase = phase /\ w.at = at /\ w.delivery = v.delivery
  BY <1>1 DEF Record
<1>3. worker' = [worker EXCEPT ![t] = w]
  BY DEF Goto, Shape
<1> HIDE DEF w
<1> QED
  BY <1>2, <1>3 DEF Stamps, Shape

(* So does a look at the index.                                              *)
LEMMA LookStamps ==
  ASSUME Shape, NEW t \in Tasks, NEW at, NEW known, NEW held,
         \/ worker' = [worker EXCEPT ![t].at = at, ![t].known = known]
         \/ worker' = [worker EXCEPT ![t].at = at, ![t].held = held]
         \/ worker' = [worker EXCEPT ![t].at = at, ![t].known = known, ![t].held = held]
  PROVE  Stamps(t, worker[t].phase, at, worker[t].delivery)
<1> DEFINE v == worker[t]
           w1 == [v EXCEPT !.at = at, !.known = known]
           w2 == [v EXCEPT !.at = at, !.held = held]
           w3 == [v EXCEPT !.at = at, !.known = known, !.held = held]
<1>1. Record(v)
  BY DEF Shape
<1>2. /\ w1.phase = v.phase /\ w1.at = at /\ w1.delivery = v.delivery
      /\ w2.phase = v.phase /\ w2.at = at /\ w2.delivery = v.delivery
      /\ w3.phase = v.phase /\ w3.at = at /\ w3.delivery = v.delivery
  BY <1>1 DEF Record
<1>3. \/ worker' = [worker EXCEPT ![t] = w1]
      \/ worker' = [worker EXCEPT ![t] = w2]
      \/ worker' = [worker EXCEPT ![t] = w3]
  BY DEF Shape
<1> HIDE DEF w1, w2, w3
<1> QED
  BY <1>2, <1>3 DEF Stamps, Shape

(* task.json as a step of the worker saves it. *)
Copy(t, status) == [status |-> status, delivery |-> worker[t].delivery]

(* Save dates the manifest with the delivery.                                *)
LEMMA SaveNotes ==
  ASSUME Shape, NEW t \in Tasks, NEW status, Save(t, status), UNCHANGED row
  PROVE  Notes(t, Copy(t, status), row[t])
BY DEF Shape, Save, Notes, Copy

(* Any later status may be saved, and a failure always. *)
LEMMA MaySave ==
  ASSUME NEW t \in Tasks, Dates, NEW status \in DOMAIN Rank,
         \/ status = "failed"
         \/ Rank[manifest[t].status] < Rank[status]
         \/ manifest[t].delivery < worker[t].delivery
  PROVE  /\ Dated(Copy(t, status)) /\ Follows(manifest[t], Copy(t, status))
         /\ Follows(row[t], Copy(t, status)) /\ Dated(row[t])
         /\ Copy(t, status).delivery = worker[t].delivery /\ worker[t].delivery \in Nat
<1>1. /\ worker[t].delivery \in Nat /\ Dated(manifest[t]) /\ Dated(row[t])
      /\ manifest[t].delivery <= worker[t].delivery /\ Follows(row[t], manifest[t])
  BY DatesAre DEF DatesFine
<1>2. Copy(t, status).delivery = worker[t].delivery /\ Copy(t, status).status = status
  BY DEF Copy
<1>3. Dated(Copy(t, status))
  BY <1>1, <1>2 DEF Dated
<1>4. Follows(manifest[t], Copy(t, status))
  <2>1. manifest[t].status = "failed" \/ Rank[manifest[t].status] < Rank["failed"]
    BY <1>1, Ranks DEF Dated
  <2>2. manifest[t].delivery \in Nat
    BY <1>1 DEF Dated
  <2> QED
    BY <1>1, <1>2, <2>1, <2>2 DEF Follows
<1>5. Follows(row[t], Copy(t, status))
  BY <1>1, <1>3, <1>4, FollowsOn
<1> QED
  BY <1>1, <1>2, <1>3, <1>4, <1>5

(* A step that saves task.json and goes where nothing is asked of it but    *)
(* what it has just saved.                                                  *)
LEMMA Saves ==
  ASSUME Shape, NEW t \in Tasks, Dates, NEW status \in DOMAIN Rank, Save(t, status),
         NEW phase, NEW at, Goto(t, phase, at), UNCHANGED row,
         \/ status = "failed"
         \/ Rank[manifest[t].status] < Rank[status]
         \/ manifest[t].delivery < worker[t].delivery,
         phase \notin {"absent", "picture"}, phase = "start" => at = "look" /\ status = "running",
         phase = "outcome" => at # "work"
  PROVE  Later
<1>1. Stamps(t, phase, at, worker[t].delivery)
  BY GotoStamps, Zenon
<1>2. Notes(t, Copy(t, status), row[t])
  BY SaveNotes, Zenon
<1>3. Copy(t, status).status = status
  BY DEF Copy
<1>4. DatesFine(phase, at, worker[t].delivery, Copy(t, status), row[t])
  BY <1>3, MaySave DEF DatesFine
<1>5. Follows(manifest[t], Copy(t, status))
  BY MaySave
<1> QED
  BY <1>1, <1>2, <1>4, <1>5, DatesMove, Zenon

(* A step of the worker that goes on without saving anything. *)
LEMMA GoesLater ==
  ASSUME Shape, NEW t \in Tasks, Dates, NEW phase, NEW at, Goto(t, phase, at),
         UNCHANGED <<manifest, row>>, phase # "absent",
         phase = "start" => worker[t].phase = "start" /\ {worker[t].at, at} \subseteq {"mark", "load", "work"},
         phase = "picture" \/ (phase = "outcome" /\ at = "work") => manifest[t].status = "running"
  PROVE  Later
<1>1. Stamps(t, phase, at, worker[t].delivery)
  BY GotoStamps, Zenon
<1>2. DatesFine(phase, at, worker[t].delivery, manifest[t], row[t])
  BY DatesAre DEF DatesFine
<1> QED
  BY <1>1, <1>2, DatesStay, Zenon

(* A task is created.                                                        *)
LEMMA CreateLater ==
  ASSUME Shape, NEW t \in Tasks, Dates, Create(t)
  PROVE  Later
<1>1. manifest[t] = NoManifest
  BY DatesAre DEF Create, DatesFine
<1>2. Rank[manifest[t].status] < Rank["created"] /\ "created" \in DOMAIN Rank
  BY <1>1, Ranks DEF NoManifest
<1>3. Save(t, "created") /\ Goto(t, "create", "read") /\ UNCHANGED row
  BY DEF Create, mirror
<1> QED
  BY <1>2, <1>3, Saves

(* The index has no dates.                                                   *)
LEMMA IndexLater ==
  ASSUME Shape, NEW t \in Tasks, Dates, LookUp(t) \/ ReadIndex(t) \/ WriteIndex(t)
  PROVE  Later
<1>1. PICK at \in {"read", "write", "sync"} : Stamps(t, worker[t].phase, at, worker[t].delivery)
  <2>1. CASE LookUp(t)
    <3>1. Stamps(t, worker[t].phase, "read", worker[t].delivery)
      BY <2>1, LookStamps, Zenon DEF LookUp
    <3> QED
      BY <3>1
  <2>2. CASE ReadIndex(t)
    <3>1. Stamps(t, worker[t].phase, "write", worker[t].delivery)
      BY <2>2, LookStamps, Zenon DEF ReadIndex
    <3> QED
      BY <3>1
  <2>3. CASE WriteIndex(t)
    <3>1. Stamps(t, worker[t].phase, "sync", worker[t].delivery)
      BY <2>3, LookStamps, Zenon DEF WriteIndex
    <3> QED
      BY <3>1
  <2> QED
    BY <2>1, <2>2, <2>3
<1>2. worker[t].at \in {"look", "read", "write"} /\ UNCHANGED <<manifest, row>>
  BY DEF LookUp, ReadIndex, WriteIndex, Writing, store, mirror
<1>3. DatesFine(worker[t].phase, at, worker[t].delivery, manifest[t], row[t])
  BY <1>2, DatesAre DEF DatesFine
<1> QED
  BY <1>1, <1>2, <1>3, DatesStay, Zenon

(* The row is told what task.json says now. *)
LEMMA SyncLater ==
  ASSUME Shape, NEW t \in Tasks, Dates, Sync(t)
  PROVE  Later
<1> DEFINE phase == NextPhase(t)[1]
           at == NextPhase(t)[2]
<1>1. Stamps(t, phase, at, worker[t].delivery)
  BY GotoStamps, Zenon DEF Sync
<1>2. worker[t].at = "sync" /\ row' = [row EXCEPT ![t] = Synced(t)] /\ UNCHANGED manifest
  BY DEF Sync, store
<1>3. Notes(t, manifest[t], Synced(t))
  BY <1>2 DEF Notes, Shape
<1>4. Follows(manifest[t], manifest[t]) /\ Follows(Synced(t), manifest[t])
  BY DEF Follows, Synced
<1>5. Dated(manifest[t]) /\ Dated(Synced(t))
  BY DatesAre DEF DatesFine, Dated, Synced
<1>6. DatesFine(phase, at, worker[t].delivery, manifest[t], Synced(t))
  BY <1>2, <1>4, <1>5, NextIs, DatesAre DEF DatesFine
<1> QED
  BY <1>1, <1>3, <1>4, <1>6, DatesMove, Zenon

(* A delivery begins with a date of its own.                                 *)
LEMMA DeliverLater ==
  ASSUME Shape, NEW t \in Tasks, Dates, Deliver(t)
  PROVE  Later
<1> DEFINE v == worker[t]
           w == [v EXCEPT !.phase = "start", !.at = "mark", !.shot = 0, !.delivery = @ + 1]
<1>1. Record(v)
  BY DEF Shape
<1>2. w.phase = "start" /\ w.at = "mark" /\ w.delivery = v.delivery + 1
  BY <1>1 DEF Record
<1>3. worker' = [worker EXCEPT ![t] = w]
  BY DEF Deliver, Shape
<1>4. UNCHANGED <<manifest, row>>
  BY DEF Deliver, store, mirror
<1> HIDE DEF w
<1>5. Stamps(t, "start", "mark", v.delivery + 1)
  BY <1>2, <1>3 DEF Stamps, Shape
<1>6. manifest[t].delivery \in Nat /\ v.delivery \in Nat /\ manifest[t].delivery <= v.delivery
  BY DatesAre DEF DatesFine, Dated
<1>7. DatesFine("start", "mark", v.delivery + 1, manifest[t], row[t])
  BY <1>6, DatesAre DEF DatesFine
<1> QED
  BY <1>4, <1>5, <1>7, DatesStay, Zenon

(* The status of the row is no copy of task.json.                            *)
LEMMA MarksLater ==
  ASSUME Shape, NEW t \in Tasks, Dates, MarkRunning(t) \/ Load(t) \/ MarkRaised(t)
  PROVE  Later
<1>1. UNCHANGED <<manifest, row>>
  BY DEF MarkRunning, Load, MarkRaised, Mark, store, mirror
<1>2. CASE MarkRunning(t)
  BY <1>1, <1>2, GoesLater DEF MarkRunning
<1>3. CASE Load(t)
  BY <1>1, <1>3, GoesLater DEF Load
<1>4. CASE MarkRaised(t)
  BY <1>1, <1>4, GoesLater DEF MarkRaised
<1> QED
  BY <1>2, <1>3, <1>4

(* A picture is made.                                                        *)
LEMMA GenerateLater ==
  ASSUME Shape, NEW t \in Tasks, Dates, Generate(t)
  PROVE  Later
<1> DEFINE v == worker[t]
           w == [v EXCEPT !.at = "place", !.shot = @ + 1]
<1>1. Record(v)
  BY DEF Shape
<1>2. w.phase = v.phase /\ w.at = "place" /\ w.delivery = v.delivery
  BY <1>1 DEF Record
<1>3. worker' = [worker EXCEPT ![t] = w]
  BY DEF Generate, Shape
<1>4. UNCHANGED <<manifest, row>> /\ v.phase = "picture"
  BY DEF Generate, mirror
<1> HIDE DEF w
<1>5. Stamps(t, v.phase, "place", v.delivery)
  BY <1>2, <1>3 DEF Stamps, Shape
<1>6. DatesFine(v.phase, "place", v.delivery, manifest[t], row[t])
  BY <1>4, DatesAre DEF DatesFine
<1> QED
  BY <1>4, <1>5, <1>6, DatesStay, Zenon

(* The other steps of a run.                                                 *)
LEMMA RunLater ==
  ASSUME Shape, NEW t \in Tasks, Dates, Start(t) \/ Place(t) \/ Conclude(t) \/ Export(t)
  PROVE  Later
<1>1. CASE Start(t)
  <2>1. manifest[t].delivery < worker[t].delivery
    BY <1>1, DatesAre DEF Start, DatesFine
  <2>2. "running" \in DOMAIN Rank
    BY Ranks
  <2>3. Save(t, "running") /\ Goto(t, "start", "look") /\ UNCHANGED row
    BY <1>1 DEF Start, mirror
  <2> QED
    BY <2>1, <2>2, <2>3, Saves
<1>2. CASE Place(t)
  <2>1. manifest[t].status = "running"
    BY <1>2, DatesAre DEF Place, DatesFine
  <2>2. Goto(t, "picture", "look") /\ UNCHANGED <<manifest, row>>
    BY <1>2 DEF Place, mirror
  <2> QED
    BY <2>1, <2>2, GoesLater
<1>3. CASE Conclude(t)
  <2>1. manifest[t].status = "running"
    BY <1>3, DatesAre DEF Conclude, DatesFine
  <2>2. PICK status \in Successes : Save(t, status)
    BY <1>3 DEF Conclude
  <2>3. status \in DOMAIN Rank /\ Rank[manifest[t].status] < Rank[status]
    BY <2>1, Ranks DEF Successes
  <2>4. Goto(t, "outcome", "export") /\ UNCHANGED row
    BY <1>3 DEF Conclude, mirror
  <2> QED
    BY <2>2, <2>3, <2>4, Saves
<1>4. CASE Export(t)
  <2>1. Goto(t, "outcome", "look") /\ UNCHANGED <<manifest, row>>
    BY <1>4 DEF Export, mirror
  <2> QED
    BY <2>1, GoesLater
<1> QED
  BY <1>1, <1>2, <1>3, <1>4

(* A failure may be recorded at any time. *)
LEMMA BreaksLater ==
  ASSUME Shape, NEW t \in Tasks, Dates, Fault(t) \/ TornRead(t) \/ Crash(t)
  PROVE  Later
<1>1. UNCHANGED row
  BY DEF Fault, TornRead, Crash, mirror
<1>2. \/ \E phase \in {"abandoned", "ended"} : Goto(t, phase, "rest") /\ UNCHANGED manifest
      \/ Goto(t, "raised", "mark") /\ UNCHANGED manifest
      \/ \E phase \in {"fail", "fail_again"} : Goto(t, phase, "look") /\ Save(t, "failed")
  BY DEF Fault, TornRead, Crash, Raises, InNode, store
<1>3. "failed" \in DOMAIN Rank
  BY Ranks
<1>4. CASE \E phase \in {"abandoned", "ended"} : Goto(t, phase, "rest") /\ UNCHANGED manifest
  BY <1>1, <1>4, GoesLater
<1>5. CASE \E phase \in {"fail", "fail_again"} : Goto(t, phase, "look") /\ Save(t, "failed")
  BY <1>1, <1>3, <1>5, Saves
<1>6. CASE Goto(t, "raised", "mark") /\ UNCHANGED manifest
  BY <1>1, <1>6, GoesLater
<1> QED
  BY <1>2, <1>4, <1>5, <1>6

(* Every step of a process that writes moves forward, never back.            *)
LEMMA WriteLater ==
  ASSUME Shape, NEW t \in Tasks, Dates, Write(t)
  PROVE  Later
BY CreateLater, IndexLater, SyncLater, DeliverLater, MarksLater, GenerateLater, RunLater, BreaksLater, Zenon DEF Write

-----------------------------------------------------------------------------
(* Pictures are never taken away, and none is placed beyond the last.       *)

Numbered(files, n) == \A file \in files : file[1] = "final" => file \in Finals(n)

Counted == \A t \in Tasks : Numbered(pictures[t], scenario.shots)

MorePictures == \A t \in Tasks : pictures[t] \subseteq pictures'[t] /\ Numbered(pictures[t], scenario.shots)'

(* ... and takes no picture away.                                            *)
LEMMA WriteCounted ==
  ASSUME Inv, Counted, NEW t \in Tasks, Write(t)
  PROVE  MorePictures
<1>1. scenario' = scenario
  BY Zenon DEF Write, Create, LookUp, ReadIndex, WriteIndex, Sync, Deliver, MarkRunning, Load, Start, Generate, Place,
     Conclude, Export, Fault, TornRead, Crash, MarkRaised, Mark
<1>2. \/ UNCHANGED pictures
      \/ pictures' = [pictures EXCEPT ![t] = @ \cup {<<"generated", worker[t].shot + 1>>}]
      \/ /\ pictures' = [pictures EXCEPT ![t] = @ \cup {<<"final", worker[t].shot>>}]
         /\ worker[t].at = "place"
  BY Zenon DEF Write, Create, LookUp, ReadIndex, WriteIndex, Sync, Deliver, MarkRunning, Load, Start, Generate, Place,
     Conclude, Export, Fault, TornRead, Crash, MarkRaised, Mark, store
<1>3. DOMAIN pictures = Tasks
  BY DEF Inv, Shape
<1>4. CASE UNCHANGED pictures
  BY <1>1, <1>4, Zenon DEF MorePictures, Counted
<1>5. CASE pictures' = [pictures EXCEPT ![t] = @ \cup {<<"generated", worker[t].shot + 1>>}]
  BY <1>1, <1>3, <1>5 DEF MorePictures, Counted, Numbered
<1>6. CASE /\ pictures' = [pictures EXCEPT ![t] = @ \cup {<<"final", worker[t].shot>>}]
           /\ worker[t].at = "place"
  <2>1. worker[t].shot \in 1..scenario.shots
    BY <1>6, Told DEF WorkerOK
  <2>2. <<"final", worker[t].shot>> \in Finals(scenario.shots)
    BY <2>1 DEF Finals
  <2> QED
    BY <1>1, <1>3, <1>6, <2>2 DEF MorePictures, Counted, Numbered
<1> QED
  BY <1>2, <1>4, <1>5, <1>6

(* There are n final pictures of a task with n shots.                        *)
LEMMA FinalsCounted ==
  ASSUME NEW n \in Nat
  PROVE  Cardinality(Finals(n)) = n
<1> DEFINE f == [k \in 1..n |-> <<"final", k>>]
<1>1. f \in Bijection(1..n, Finals(n))
  <2>1. f \in [1..n -> Finals(n)]
    BY DEF Finals
  <2>2. \A j, k \in 1..n : f[j] = f[k] => j = k
    OBVIOUS
  <2>3. \A p \in Finals(n) : \E k \in 1..n : f[k] = p
    BY DEF Finals
  <2> QED
    BY <2>1, <2>2, <2>3 DEF Bijection, Injection, IsInjective, Surjection
<1>2. /\ IsFiniteSet(1..n)
      /\ Cardinality(1..n) = IF 1 > n THEN 0 ELSE n - 1 + 1
  BY FS_Interval
<1>3. Cardinality(1..n) = n
  BY <1>2
<1>4. ExistsBijection(1..n, Finals(n))
  BY <1>1 DEF ExistsBijection
<1> QED
  BY <1>2, <1>3, <1>4, FS_Bijection

(* Once all are in place, a listing counts them exactly. *)
LEMMA AllListed ==
  ASSUME Inv, Counted, NEW t \in Tasks, Finals(scenario.shots) \subseteq pictures[t]
  PROVE  Cardinality(ResultFiles(t)) = scenario.shots
<1>1. scenario.shots \in Nat \ {0}
  BY DEF Inv, Shape
<1>2. Named("final", t) = Finals(scenario.shots)
  <2>1. Named("final", t) \subseteq Finals(scenario.shots)
    BY DEF Counted, Numbered, Named
  <2>2. \A p \in Finals(scenario.shots) : p[1] = "final"
    BY DEF Finals
  <2> QED
    BY <2>1, <2>2 DEF Named
<1>3. <<"final", 1>> \in Finals(scenario.shots)
  BY <1>1 DEF Finals
<1>4. ResultFiles(t) = Finals(scenario.shots)
  BY <1>2, <1>3 DEF ResultFiles
<1> QED
  BY <1>1, <1>4, FinalsCounted

-----------------------------------------------------------------------------
(* Requests and the page. *)

(* What a view has read so far, given what the files of its task say now.   *)
StageFine(v, m, files, n, kind) ==
    /\ v.column \in Successes => v.column = v.row.status
    /\ v.stage \in {"row", "manifest"} => Dated(v.row) /\ Follows(v.row, m)
    /\ v.stage \in {"pictures", "exports", "answered"} =>
         Dated(v.row) /\ Dated(v) /\ Follows(v.row, v) /\ Follows(v, m)
    /\ v.stage = "pictures" /\ v.status \in Successes => Finals(n) \subseteq files
    /\ v.stage \in {"exports", "answered"} /\ v.status \in Successes =>
         \/ v.pictures = n
         \/ v.pictures = 0 /\ kind = "list"

ReadFine(v, t) == StageFine(v, manifest[t], pictures[t], scenario.shots, scenario.page)

ViewRecord(v) ==
    v \in [task : {v.task}, run : {v.run}, stage : {v.stage}, status : {v.status}, delivery : {v.delivery},
           pictures : {v.pictures}, zip : {v.zip}, column : {v.column}, row : {v.row}]

RequestOK(r) ==
    /\ ViewRecord(r)
    /\ r.task \in Tasks /\ r.run \in Nat /\ r.run <= page.run
    /\ r.run = page.run => r.task = page.task
    /\ ReadFine(r, r.task)

(* One request per effect of the page: an answer of the effect that runs is *)
(* an answer about the task that is open.                                   *)
RequestsOK ==
    /\ \A r \in requests : RequestOK(r)
    /\ \A r, s \in requests : r.run = s.run => r = s

(* What is on display is an answer about the task that is open, or, while   *)
(* the list loads, about a former one.                                      *)
ShownOK(v, task, loading) ==
    /\ v.task = task \/ (OnList /\ loading)
    /\ v.task \in Tasks /\ v.stage = "answered"
    /\ ReadFine(v, v.task)

PageOK ==
    /\ page \in [task : {page.task}, run : Nat, polling : BOOLEAN, loading : BOOLEAN, shown : {page.shown}]
    /\ page.polling => page.task \in Tasks
    /\ page.shown # NoView => ShownOK(page.shown, page.task, page.loading)

ReadersOK ==
    /\ scenario.tasks \subseteq Tasks
    /\ Dates /\ Counted /\ RequestsOK /\ PageOK

(* Later copies and more pictures do not make what was read wrong. *)
LEMMA StageStays ==
  ASSUME NEW v, NEW m, NEW m2, NEW files, NEW files2, NEW n, NEW kind,
         StageFine(v, m, files, n, kind), Dated(m), Dated(m2), Follows(m, m2), files \subseteq files2
  PROVE  StageFine(v, m2, files2, n, kind)
<1>1. Dated(v.row) /\ Follows(v.row, m) => Follows(v.row, m2)
  BY FollowsOn
<1>2. Dated(v) /\ Follows(v, m) => Follows(v, m2)
  BY FollowsOn
<1> QED
  BY <1>1, <1>2 DEF StageFine

(* What a reader has seen stays explicable when a process writes.            *)
LEMMA WriteKeepsReaders ==
  ASSUME Inv, ReadersOK, NEW t \in Tasks, Write(t)
  PROVE  ReadersOK'
<1>1. Later /\ MorePictures
  BY WriteLater, WriteCounted, Zenon DEF Inv, ReadersOK
<1>2. UNCHANGED <<scenario, page, requests>>
  BY Zenon DEF Write, Create, LookUp, ReadIndex, WriteIndex, Sync, Deliver, MarkRunning, Load, Start, Generate, Place,
     Conclude, Export, Fault, TornRead, Crash, MarkRaised, Mark, front
<1>3. ASSUME NEW u \in Tasks, NEW v, ReadFine(v, u) PROVE ReadFine(v, u)'
  <2>1. Dated(manifest[u]) /\ Dated(manifest'[u]) /\ Follows(manifest[u], manifest'[u])
    BY <1>1 DEF ReadersOK, Dates, DatesOK, DatesFine, Later
  <2>2. pictures[u] \subseteq pictures'[u]
    BY <1>1 DEF MorePictures
  <2>3. StageFine(v, manifest[u], pictures[u], scenario.shots, scenario.page)
    BY <1>3 DEF ReadFine
  <2>4. StageFine(v, manifest'[u], pictures'[u], scenario.shots, scenario.page)
    BY <2>1, <2>2, <2>3, StageStays
  <2> QED
    BY <1>2, <2>4 DEF ReadFine
<1>4. ASSUME NEW r \in requests PROVE RequestOK(r)'
  <2>1. RequestOK(r)
    BY DEF ReadersOK, RequestsOK
  <2>2. ReadFine(r, r.task)'
    BY <1>3, <2>1 DEF RequestOK
  <2> QED
    BY <1>2, <2>1, <2>2 DEF RequestOK
<1>5. RequestsOK'
  BY <1>2, <1>4 DEF ReadersOK, RequestsOK
<1>6. PageOK'
  <2>1. PageOK
    BY DEF ReadersOK
  <2>2. ASSUME page.shown # NoView PROVE ShownOK(page.shown, page.task, page.loading)'
    <3>1. PICK v, u : v = page.shown /\ u = v.task
      OBVIOUS
    <3>2. u \in Tasks /\ ReadFine(v, u) /\ ShownOK(v, page.task, page.loading)
      BY <2>1, <2>2, <3>1 DEF PageOK, ShownOK
    <3>3. ReadFine(v, u)'
      BY <1>3, <3>2
    <3>4. v = page'.shown /\ u = v.task
      BY <1>2, <3>1
    <3> QED
      BY <1>2, <3>2, <3>3, <3>4 DEF ShownOK, ReadFine, OnList
  <2> QED
    BY <1>2, <2>1, <2>2 DEF PageOK, NoView, NoRow
<1>7. Dates' /\ Counted'
  BY <1>1 DEF Later, Dates, MorePictures, Counted
<1> QED
  BY <1>2, <1>5, <1>6, <1>7 DEF ReadersOK

(* A request that goes on, for the same effect. *)
LEMMA Advances ==
  ASSUME ReadersOK, NEW r \in requests, NEW s, Advance(r, s),
         UNCHANGED <<scenario, worker, store, mirror, page>>,
         ViewRecord(s), s.task = r.task, s.run = r.run, ReadFine(s, r.task)
  PROVE  ReadersOK'
<1>1. UNCHANGED <<manifest, pictures, row>>
  BY DEF store, mirror
<1>2. requests' = (requests \ {r}) \cup {s}
  BY DEF Advance
<1>3. \A q \in requests : RequestOK(q)
  BY DEF ReadersOK, RequestsOK
<1>4. ASSUME NEW q \in requests' PROVE RequestOK(q)'
  <2>1. RequestOK(q)
    <3>1. CASE q = s
      <4>1. RequestOK(r)
        BY <1>3
      <4>2. RequestOK(s)
        BY <4>1 DEF RequestOK
      <4> QED
        BY <3>1, <4>2
    <3>2. CASE q # s
      BY <1>2, <1>3, <3>2
    <3> QED
      BY <3>1, <3>2
  <2> QED
    BY <1>1, <2>1 DEF RequestOK, ReadFine
<1>5. \A p, q \in requests' : p.run = q.run => p = q
  BY <1>2 DEF ReadersOK, RequestsOK
<1>6. PageOK'
  BY <1>1 DEF ReadersOK, PageOK, ShownOK, ReadFine, OnList, NoView, NoRow
<1>7. Dates' /\ Counted'
  BY <1>1 DEF ReadersOK, Dates, DatesOK, Counted
<1> QED
  BY <1>4, <1>5, <1>6, <1>7 DEF ReadersOK, RequestsOK

(* A view that was refused has nothing to say. *)
LEMMA RefusedIsFine ==
  ASSUME ReadersOK, NEW r \in requests, NEW stage \in {"not_found", "error"}
  PROVE  /\ ViewRecord(Refused(r, stage)) /\ Refused(r, stage).task = r.task
         /\ Refused(r, stage).run = r.run /\ ReadFine(Refused(r, stage), r.task)
<1>1. Refused(r, stage).stage = stage
  BY DEF Refused, NoView
<1> QED
  BY <1>1 DEF Refused, NoView, ViewRecord, ReadFine, StageFine, Successes

(* Each read finds what the ones before it left room for. *)
LEMMA ReadKeepsReaders ==
  ASSUME Inv, ColumnOK, ReadersOK, NEW r \in requests,
         ReadRow(r) \/ ReadManifest(r) \/ ReadPictures(r) \/ ReadExports(r) \/ TornView(r) \/ ViewFails(r)
  PROVE  ReadersOK'
<1> DEFINE t == r.task
           m == manifest[r.task]
           n == scenario.shots
           kind == scenario.page
<1>1. UNCHANGED <<scenario, worker, store, mirror, page>>
  BY Zenon DEF ReadRow, ReadManifest, ReadPictures, ReadExports, TornView, ViewFails
<1>2. /\ ViewRecord(r) /\ t \in Tasks /\ StageFine(r, m, pictures[t], n, kind)
      /\ Dated(m) /\ Dated(row[t]) /\ Follows(row[t], m)
  <2>1. RequestOK(r)
    BY DEF ReadersOK, RequestsOK
  <2>2. t \in Tasks
    BY <2>1 DEF RequestOK
  <2>3. DatesOK(t)
    BY <2>2 DEF ReadersOK, Dates
  <2> QED
    BY <2>1, <2>2, <2>3 DEF RequestOK, ReadFine, DatesOK, DatesFine
<1> HIDE DEF t, m, n, kind
<1>3. ASSUME NEW stage \in {"not_found", "error"}, Advance(r, Refused(r, stage)) PROVE ReadersOK'
  BY <1>1, <1>3, RefusedIsFine, Advances
<1>4. ASSUME NEW s, Advance(r, s), ViewRecord(s), s.task = r.task, s.run = r.run,
             StageFine(s, m, pictures[t], n, kind)
      PROVE  ReadersOK'
  <2>1. ReadFine(s, r.task)
    BY <1>4 DEF ReadFine, t, m, n, kind
  <2> QED
    BY <1>1, <1>4, <2>1, Advances
<1>5. CASE ReadRow(r) /\ row[r.task] # NoRow
  <2> DEFINE s == [r EXCEPT !.stage = "manifest", !.row = row[r.task], !.column = column[r.task]]
  <2>1. /\ ViewRecord(s) /\ s.task = r.task /\ s.run = r.run /\ s.stage = "manifest"
        /\ s.row = row[t] /\ s.column = column[t]
    BY <1>2 DEF ViewRecord, t
  <2>2. Advance(r, s)
    BY <1>5 DEF ReadRow
  <2> HIDE DEF s
  <2>3. column[t] \in Successes => column[t] = row[t].status
    BY <1>2 DEF ColumnOK
  <2>4. StageFine(s, m, pictures[t], n, kind)
    BY <1>2, <2>1, <2>3 DEF StageFine
  <2> QED
    BY <1>4, <2>1, <2>2, <2>4
<1>6. CASE ReadManifest(r) /\ manifest[r.task] # NoManifest
  <2> DEFINE s == [r EXCEPT !.stage = "pictures", !.status = manifest[r.task].status,
                            !.delivery = manifest[r.task].delivery]
  <2>1. /\ ViewRecord(s) /\ s.task = r.task /\ s.run = r.run /\ s.stage = "pictures"
        /\ s.column = r.column /\ s.row = r.row /\ s.status = m.status /\ s.delivery = m.delivery
    BY <1>2 DEF ViewRecord, m
  <2>2. Advance(r, s) /\ r.stage = "manifest"
    BY <1>6 DEF ReadManifest
  <2> HIDE DEF s
  <2>3. Dated(r.row) /\ Follows(r.row, m)
    BY <1>2, <2>2 DEF StageFine
  <2>4. Dated(s) /\ Follows(r.row, s) /\ Follows(s, m)
    BY <1>2, <2>1, <2>3 DEF Dated, Follows
  <2>5. m.status \in Successes => Finals(n) \subseteq pictures[t]
    BY <1>2, Told DEF FilesOK, m, n, t
  <2>6. StageFine(s, m, pictures[t], n, kind)
    BY <1>2, <2>1, <2>3, <2>4, <2>5 DEF StageFine
  <2> QED
    BY <1>4, <2>1, <2>2, <2>6
<1>7. CASE ReadPictures(r)
  <2> DEFINE s == [r EXCEPT !.stage = "exports", !.pictures = Cardinality(ResultFiles(r.task))]
  <2>1. /\ ViewRecord(s) /\ s.task = r.task /\ s.run = r.run /\ s.stage = "exports"
        /\ s.column = r.column /\ s.row = r.row /\ s.status = r.status /\ s.delivery = r.delivery
        /\ s.pictures = Cardinality(ResultFiles(t))
    BY <1>2 DEF ViewRecord, t
  <2>2. Advance(r, s) /\ r.stage = "pictures"
    BY <1>7 DEF ReadPictures
  <2> HIDE DEF s
  <2>3. /\ Dated(r.row) /\ Dated(r) /\ Follows(r.row, r) /\ Follows(r, m)
        /\ r.status \in Successes => Finals(n) \subseteq pictures[t]
    BY <1>2, <2>2 DEF StageFine
  <2>4. Dated(s) /\ Follows(r.row, s) /\ Follows(s, m)
    BY <2>1, <2>3 DEF Dated, Follows
  <2>5. r.status \in Successes => s.pictures = n
    <3>1. Counted
      BY DEF ReadersOK
    <3> QED
      BY <1>2, <2>1, <2>3, <3>1, AllListed DEF n
  <2>6. StageFine(s, m, pictures[t], n, kind)
    BY <1>2, <2>1, <2>3, <2>4, <2>5 DEF StageFine
  <2> QED
    BY <1>4, <2>1, <2>2, <2>6
<1>8. CASE ReadExports(r)
  <2> DEFINE s == [r EXCEPT !.stage = "answered", !.zip = zip[r.task]]
  <2>1. /\ ViewRecord(s) /\ s.task = r.task /\ s.run = r.run /\ s.stage = "answered"
        /\ s.column = r.column /\ s.row = r.row /\ s.status = r.status /\ s.delivery = r.delivery /\ s.pictures = r.pictures
    BY <1>2 DEF ViewRecord
  <2>2. Advance(r, s) /\ r.stage = "exports"
    BY <1>8 DEF ReadExports
  <2> HIDE DEF s
  <2>3. StageFine(s, m, pictures[t], n, kind)
    BY <1>2, <2>1, <2>2 DEF StageFine, Dated, Follows
  <2> QED
    BY <1>4, <2>1, <2>2, <2>3
<1>9. CASE TornView(r) /\ scenario.page = "list"
  <2> DEFINE s == [r EXCEPT !.stage = "answered", !.status = r.row.status,
                            !.delivery = r.row.delivery, !.zip = r.row.zip, !.pictures = 0]
  <2>1. /\ ViewRecord(s) /\ s.task = r.task /\ s.run = r.run /\ s.stage = "answered"
        /\ s.column = r.column /\ s.row = r.row /\ s.status = r.row.status /\ s.delivery = r.row.delivery /\ s.pictures = 0
    BY <1>2 DEF ViewRecord
  <2>2. Advance(r, s) /\ r.stage \in {"pictures", "manifest"} /\ kind = "list"
    BY <1>9 DEF TornView, kind
  <2> HIDE DEF s
  <2>3. Dated(r.row) /\ Follows(r.row, m)
    <3>1. CASE r.stage = "manifest"
      BY <1>2, <3>1 DEF StageFine
    <3>2. CASE r.stage = "pictures"
      <4>1. Dated(r.row) /\ Dated(r) /\ Follows(r.row, r) /\ Follows(r, m)
        BY <1>2, <3>2 DEF StageFine
      <4> QED
        BY <1>2, <4>1, FollowsOn
    <3> QED
      BY <2>2, <3>1, <3>2
  <2>4. Dated(s) /\ Follows(r.row, s) /\ Follows(s, m)
    BY <2>1, <2>3 DEF Dated, Follows
  <2>5. StageFine(s, m, pictures[t], n, kind)
    BY <1>2, <2>1, <2>2, <2>3, <2>4 DEF StageFine
  <2> QED
    BY <1>4, <2>1, <2>2, <2>5
<1>10. CASE \E stage \in {"not_found", "error"} : Advance(r, Refused(r, stage))
  BY <1>3, <1>10
<1> QED
  <2>1. ReadRow(r) => row[r.task] # NoRow \/ Advance(r, Refused(r, "not_found"))
    BY Zenon DEF ReadRow
  <2>2. ReadManifest(r) => manifest[r.task] # NoManifest \/ Advance(r, Refused(r, "not_found"))
    BY Zenon DEF ReadManifest
  <2>3. TornView(r) => scenario.page = "list" \/ Advance(r, Refused(r, "error"))
    BY Zenon DEF TornView
  <2>4. ViewFails(r) => Advance(r, Refused(r, "error"))
    BY Zenon DEF ViewFails
  <2> QED
    BY <1>5, <1>6, <1>7, <1>8, <1>9, <1>10, <2>1, <2>2, <2>3, <2>4

(* A new request has read nothing. *)
LEMMA AskIsFine ==
  ASSUME ReadersOK, NEW t \in Tasks, NEW run
  PROVE  /\ ViewRecord(Ask(t, run)) /\ Ask(t, run).task = t /\ Ask(t, run).run = run
         /\ ReadFine(Ask(t, run), t)
<1>1. PICK s : s = Ask(t, run)
  OBVIOUS
<1>2. /\ ViewRecord(s) /\ s.task = t /\ s.run = run /\ s.stage \in {"row", "manifest"}
      /\ s.row = NoRow /\ s.column = "none"
  BY <1>1 DEF Ask, NoView, ViewRecord, FirstStage
<1>3. Dated(manifest[t])
  BY DEF ReadersOK, Dates, DatesOK, DatesFine
<1>4. Dated(NoRow) /\ Follows(NoRow, manifest[t])
  BY <1>3, NothingIsFirst
<1>5. ReadFine(s, t)
  BY <1>2, <1>4 DEF ReadFine, StageFine, Successes
<1> QED
  BY <1>1, <1>2, <1>5

(* The files say the same after a step of the page. *)
LEMMA FilesStand ==
  ASSUME ReadersOK, UNCHANGED <<scenario, worker, store, mirror>>
  PROVE  /\ scenario'.tasks \subseteq Tasks /\ Dates' /\ Counted'
         /\ \A t \in Tasks : \A v : ReadFine(v, t)' <=> ReadFine(v, t)
<1>1. UNCHANGED <<scenario, manifest, pictures, row, worker>>
  BY DEF store, mirror
<1> QED
  BY <1>1 DEF ReadersOK, Dates, DatesOK, Counted, ReadFine

(* The effect changes: whatever was asked before is an answer of a former   *)
(* effect.                                                                  *)
LEMMA TurnsTo ==
  ASSUME ReadersOK, UNCHANGED <<scenario, worker, store, mirror>>,
         NEW task, NEW polling \in BOOLEAN, polling => task \in Tasks, NEW loading \in BOOLEAN,
         NEW shown \in {NoView, page.shown}, shown # NoView => OnList /\ loading,
         page' = [task |-> task, run |-> page.run + 1, polling |-> polling, loading |-> loading, shown |-> shown],
         \/ requests' = requests
         \/ task \in Tasks /\ requests' = requests \cup {Ask(task, page.run + 1)}
  PROVE  ReadersOK'
<1>1. page.run \in Nat
  BY DEF ReadersOK, PageOK
<1>2. /\ page'.task = task /\ page'.run = page.run + 1 /\ page'.polling = polling
      /\ page'.loading = loading /\ page'.shown = shown /\ PageOK'
  <2>1. /\ page'.task = task /\ page'.run = page.run + 1 /\ page'.polling = polling
        /\ page'.loading = loading /\ page'.shown = shown
        /\ page' \in [task : {page'.task}, run : Nat, polling : BOOLEAN, loading : BOOLEAN, shown : {page'.shown}]
    BY <1>1
  <2>2. ASSUME shown # NoView PROVE ShownOK(page.shown, page.task, page.loading)'
    <3>1. PICK v, u : v = page.shown /\ u = v.task
      OBVIOUS
    <3>2. u \in Tasks /\ ReadFine(v, u) /\ v.stage = "answered" /\ OnList /\ loading
      BY <2>2, <3>1 DEF ReadersOK, PageOK, ShownOK
    <3>3. ReadFine(v, u)'
      BY <3>2, FilesStand
    <3>4. v = page'.shown /\ u = v.task /\ OnList'
      BY <2>1, <2>2, <3>1, <3>2 DEF OnList
    <3> QED
      BY <2>1, <3>2, <3>3, <3>4 DEF ShownOK, ReadFine
  <2> QED
    BY <2>1, <2>2 DEF PageOK, NoView, NoRow
<1>3. \A r \in requests : RequestOK(r)
  BY DEF ReadersOK, RequestsOK
<1>4. ASSUME NEW r \in requests PROVE RequestOK(r)' /\ r.run # page.run + 1
  <2>1. RequestOK(r)
    BY <1>3
  <2>2. ReadFine(r, r.task)'
    BY <2>1, FilesStand DEF RequestOK
  <2>3. r.run \in Nat /\ r.run <= page.run
    BY <2>1 DEF RequestOK
  <2> QED
    BY <1>1, <1>2, <2>1, <2>2, <2>3 DEF RequestOK
<1>5. PICK s : s = Ask(task, page.run + 1)
  OBVIOUS
<1>6. ASSUME task \in Tasks PROVE RequestOK(s)' /\ s.run = page.run + 1
  <2>1. ViewRecord(s) /\ s.task = task /\ s.run = page.run + 1 /\ ReadFine(s, task)
    BY <1>5, <1>6, AskIsFine
  <2>2. ReadFine(s, task)'
    BY <1>6, <2>1, FilesStand
  <2> QED
    BY <1>1, <1>2, <1>6, <2>1, <2>2 DEF RequestOK
<1>7. RequestsOK'
  <2>1. \A r \in requests' : RequestOK(r)'
    BY <1>4, <1>5, <1>6
  <2>2. \A p, q \in requests' : p.run = q.run => p = q
    BY <1>4, <1>5, <1>6 DEF ReadersOK, RequestsOK
  <2> QED
    BY <2>1, <2>2 DEF RequestsOK
<1> QED
  BY <1>2, <1>7, FilesStand DEF ReadersOK

(* ... and when it reads on.                                                 *)
LEMMA PollKeepsReaders ==
  ASSUME ReadersOK, Poll
  PROVE  ReadersOK'
<1>1. /\ UNCHANGED <<scenario, worker, store, mirror, page>> /\ page.polling
      /\ ~\E r \in requests : r.run = page.run
  BY DEF Poll
<1>2. PICK t, run : t = page.task /\ run = page.run
  OBVIOUS
<1>3. PICK s : s = Ask(t, run)
  OBVIOUS
<1>4. requests' = requests \cup {s}
  BY <1>2, <1>3 DEF Poll
<1>5. t \in Tasks /\ run \in Nat
  BY <1>1, <1>2 DEF ReadersOK, PageOK
<1>6. ViewRecord(s) /\ s.task = t /\ s.run = run /\ ReadFine(s, t)
  BY <1>3, <1>5, AskIsFine
<1>7. RequestOK(s)'
  <2>1. ReadFine(s, t)'
    BY <1>1, <1>5, <1>6, FilesStand
  <2> QED
    BY <1>1, <1>2, <1>5, <1>6, <2>1 DEF RequestOK
<1>8. ASSUME NEW r \in requests PROVE RequestOK(r)'
  <2>1. RequestOK(r)
    BY DEF ReadersOK, RequestsOK
  <2>2. ReadFine(r, r.task)'
    BY <1>1, <2>1, FilesStand DEF RequestOK
  <2> QED
    BY <1>1, <2>1, <2>2 DEF RequestOK
<1>9. RequestsOK'
  BY <1>1, <1>2, <1>4, <1>6, <1>7, <1>8 DEF ReadersOK, RequestsOK
<1>10. PageOK'
  <2>1. UNCHANGED <<manifest, pictures>>
    BY <1>1 DEF store
  <2> QED
    BY <1>1, <2>1 DEF ReadersOK, PageOK, ShownOK, ReadFine, OnList, NoView, NoRow
<1> QED
  BY <1>1, <1>9, <1>10, FilesStand DEF ReadersOK

(* What an answer makes of the page. *)
Shows(task, shown, loading, polling) ==
    /\ page'.task = task /\ page'.run = page.run /\ page'.polling = polling
    /\ page'.loading = loading /\ page'.shown = shown
    /\ page' \in [task : {page'.task}, run : Nat, polling : BOOLEAN, loading : BOOLEAN, shown : {page'.shown}]

(* There are four ways.                                                      *)
LEMMA ReceiveShows ==
  ASSUME PageOK, NEW r, Receive(r)
  PROVE  \/ Shows(page.task, page.shown, page.loading, page.polling)
         \/ /\ Current(r) /\ r.stage = "answered"
            /\ \E polling \in BOOLEAN : Shows(page.task, r, FALSE, polling)
         \/ Current(r) /\ \E loading \in BOOLEAN : Shows("none", NoView, loading, FALSE)
         \/ \E shown \in {NoView, page.shown} :
               (shown # NoView => ~OnList) /\ Shows(page.task, shown, FALSE, FALSE)
<1>1. page \in [task : {page.task}, run : Nat, polling : BOOLEAN, loading : BOOLEAN, shown : {page.shown}]
  BY DEF PageOK
<1>2. CASE ~Current(r)
  <2>1. page' = page
    BY <1>2 DEF Receive
  <2>2. Shows(page.task, page.shown, page.loading, page.polling)
    BY <1>1, <2>1 DEF Shows
  <2> QED
    BY <2>2
<1>3. CASE Current(r) /\ r.stage = "answered"
  <2>1. PICK polling : polling = (scenario.page = "main" /\ r.status \notin Terminal)
    OBVIOUS
  <2>2. page' = [page EXCEPT !.shown = r, !.loading = FALSE, !.polling = polling]
    BY <1>3, <2>1 DEF Receive
  <2>3. polling \in BOOLEAN
    BY <2>1
  <2>4. Shows(page.task, r, FALSE, polling)
    BY <1>1, <2>2, <2>3 DEF Shows
  <2> QED
    BY <1>3, <2>3, <2>4, Zenon
<1>4. CASE Current(r) /\ r.stage = "not_found" /\ scenario.page = "main"
  <2>1. page' = [page EXCEPT !.task = "none", !.shown = NoView, !.polling = FALSE]
    BY <1>4 DEF Receive
  <2>2. Shows("none", NoView, page.loading, FALSE) /\ page.loading \in BOOLEAN
    BY <1>1, <2>1 DEF Shows
  <2> QED
    BY <1>4, <2>2, Zenon
<1>5. CASE Current(r) /\ r.stage # "answered" /\ ~(r.stage = "not_found" /\ scenario.page = "main")
  <2>1. PICK shown : shown = IF OnList THEN NoView ELSE page.shown
    OBVIOUS
  <2>2. page' = [page EXCEPT !.polling = FALSE, !.loading = FALSE, !.shown = shown]
    BY <1>5, <2>1 DEF Receive
  <2>3. Shows(page.task, shown, FALSE, FALSE)
    BY <1>1, <2>2 DEF Shows
  <2>4. shown \in {NoView, page.shown} /\ (shown # NoView => ~OnList)
    BY <2>1
  <2> QED
    BY <2>3, <2>4, Zenon
<1> QED
  BY <1>2, <1>3, <1>4, <1>5, Zenon

(* An answer of the effect that runs is shown; after any other outcome the  *)
(* page shows what it did, or nothing.                                      *)
LEMMA ReceiveKeepsReaders ==
  ASSUME ReadersOK, NEW r \in requests, Receive(r)
  PROVE  ReadersOK'
<1>1. UNCHANGED <<scenario, worker, store, mirror>> /\ requests' = requests \ {r}
  BY DEF Receive
<1>2. PageOK /\ RequestOK(r)
  BY DEF ReadersOK, RequestsOK
<1>3. ASSUME NEW task, NEW shown, NEW loading \in BOOLEAN, NEW polling \in BOOLEAN,
             Shows(task, shown, loading, polling),
             task = page.task \/ \A q \in requests \ {r} : q.run # page.run,
             polling => task \in Tasks,
             shown # NoView => ShownOK(shown, task, loading)
      PROVE  ReadersOK'
  <2>1. RequestsOK'
    <3>1. ASSUME NEW q \in requests' PROVE RequestOK(q)'
      <4>1. RequestOK(q)
        BY <1>1 DEF ReadersOK, RequestsOK
      <4>2. ReadFine(q, q.task)'
        BY <1>1, <4>1, FilesStand DEF RequestOK
      <4> QED
        BY <1>1, <1>3, <4>1, <4>2 DEF RequestOK, Shows
    <3> QED
      BY <1>1, <3>1 DEF ReadersOK, RequestsOK
  <2>2. ASSUME shown # NoView PROVE ShownOK(page.shown, page.task, page.loading)'
    <3>1. PICK u : u = shown.task
      OBVIOUS
    <3>2. u \in Tasks /\ ReadFine(shown, u)
      BY <1>3, <2>2, <3>1 DEF ShownOK
    <3>3. ReadFine(shown, u)'
      BY <1>1, <3>2, FilesStand
    <3>4. ShownOK(shown, task, loading) /\ (OnList' <=> OnList)
      BY <1>1, <1>3, <2>2 DEF OnList
    <3>5. shown = page'.shown /\ task = page'.task /\ loading = page'.loading
      BY <1>3 DEF Shows
    <3> QED
      BY <3>1, <3>3, <3>4, <3>5 DEF ShownOK, ReadFine
  <2>3. PageOK'
    BY <1>3, <2>2 DEF PageOK, Shows, NoView, NoRow
  <2> QED
    BY <1>1, <2>1, <2>3, FilesStand DEF ReadersOK
<1>4. CASE Shows(page.task, page.shown, page.loading, page.polling)
  <2>1. page.loading \in BOOLEAN /\ page.polling \in BOOLEAN
    BY <1>2 DEF PageOK
  <2>2. /\ page.polling => page.task \in Tasks
        /\ page.shown # NoView => ShownOK(page.shown, page.task, page.loading)
    BY <1>2 DEF PageOK
  <2> QED
    BY <1>3, <1>4, <2>1, <2>2, Zenon
<1>5. ASSUME NEW polling \in BOOLEAN, Shows(page.task, r, FALSE, polling), Current(r), r.stage = "answered"
      PROVE  ReadersOK'
  <2>1. r.task = page.task /\ page.task \in Tasks /\ ReadFine(r, r.task)
    BY <1>2, <1>5 DEF RequestOK, Current
  <2>2. ShownOK(r, page.task, FALSE)
    BY <1>5, <2>1 DEF ShownOK
  <2> QED
    BY <1>3, <1>5, <2>1, <2>2
<1>6. ASSUME NEW loading \in BOOLEAN, Shows("none", NoView, loading, FALSE), Current(r)
      PROVE  ReadersOK'
  <2>1. \A q \in requests \ {r} : q.run # page.run
    BY <1>6 DEF Current, ReadersOK, RequestsOK
  <2> QED
    BY <1>3, <1>6, <2>1
<1>7. ASSUME NEW shown \in {NoView, page.shown}, shown # NoView => ~OnList,
             Shows(page.task, shown, FALSE, FALSE)
      PROVE  ReadersOK'
  <2>1. shown # NoView => ShownOK(shown, page.task, FALSE)
    BY <1>2, <1>7 DEF PageOK, ShownOK
  <2> QED
    BY <1>3, <1>7, <2>1
<1> QED
  BY <1>2, <1>4, <1>5, <1>6, <1>7, ReceiveShows, Zenon

(* Every step keeps the invariant.                                           *)
LEMMA ReadersStep ==
  ASSUME Inv, ColumnOK, ReadersOK, [Next]_vars
  PROVE  ReadersOK'
<1>1. ASSUME NEW t \in Tasks, Write(t) PROVE ReadersOK'
  BY <1>1, WriteKeepsReaders
<1>2. ASSUME NEW t \in Tasks, Open(t) PROVE ReadersOK'
  <2> DEFINE shown == IF OnList THEN page.shown ELSE NoView
  <2>1. /\ t \in Tasks /\ UNCHANGED <<scenario, worker, store, mirror>>
        /\ requests' = requests \cup {Ask(t, page.run + 1)}
        /\ page' = [task |-> t, run |-> page.run + 1, polling |-> TRUE, loading |-> OnList, shown |-> shown]
    BY <1>2 DEF Open
  <2>2. shown \in {NoView, page.shown} /\ (shown # NoView => OnList) /\ OnList \in BOOLEAN
    BY DEF OnList
  <2> HIDE DEF shown
  <2> QED
    BY <2>1, <2>2, TurnsTo
<1>3. CASE Clear
  <2>1. UNCHANGED <<scenario, worker, store, mirror, requests>>
    BY <1>3 DEF Clear
  <2>2. page \in [task : {page.task}, run : Nat, polling : BOOLEAN, loading : BOOLEAN, shown : {page.shown}]
    BY DEF ReadersOK, PageOK
  <2>3. /\ page' = [task |-> "none", run |-> page.run + 1, polling |-> FALSE, loading |-> page.loading,
                    shown |-> NoView]
        /\ page.loading \in BOOLEAN
    BY <1>3, <2>2 DEF Clear
  <2> QED
    BY <2>1, <2>3, TurnsTo
<1>4. CASE Poll
  BY <1>4, PollKeepsReaders
<1>5. ASSUME NEW r \in requests,
             ReadRow(r) \/ ReadManifest(r) \/ ReadPictures(r) \/ ReadExports(r) \/ TornView(r) \/ ViewFails(r)
      PROVE  ReadersOK'
  BY <1>5, ReadKeepsReaders
<1>6. ASSUME NEW r \in requests, Receive(r) PROVE ReadersOK'
  BY <1>6, ReceiveKeepsReaders
<1>7. CASE UNCHANGED vars
  <2>1. UNCHANGED <<scenario, worker, manifest, pictures, row, page, requests>>
    BY <1>7 DEF vars, store, mirror, front
  <2> QED
    BY <2>1 DEF ReadersOK, Dates, DatesOK, Counted, RequestsOK, RequestOK, PageOK, ShownOK, ReadFine, OnList,
       NoView, NoRow
<1> QED
  BY <1>1, <1>2, <1>3, <1>4, <1>5, <1>6, <1>7 DEF Next

(* Initially nobody has read anything.                                       *)
LEMMA InitReaders == Init => ReadersOK
<1> SUFFICES ASSUME Init PROVE ReadersOK
  OBVIOUS
<1>1. scenario.tasks \subseteq Tasks
  BY TaskViewAssumption DEF Init, ScenarioType
<1>2. ASSUME NEW t \in Tasks PROVE DatesOK(t)
  <2>1. /\ worker[t].phase = "absent" /\ worker[t].delivery = 0
        /\ manifest[t] = NoManifest /\ row[t] = NoRow
    BY Zenon DEF Init
  <2>2. Dated(NoManifest) /\ Dated(NoRow) /\ Follows(NoRow, NoManifest) /\ NoManifest.delivery = 0
    BY NothingIsFirst DEF NoManifest
  <2> QED
    BY <2>1, <2>2 DEF DatesOK, DatesFine
<1>3. Counted
  BY DEF Init, Counted, Numbered
<1>4. RequestsOK
  BY DEF Init, RequestsOK
<1>5. PageOK
  BY DEF Init, PageOK
<1> QED
  BY <1>1, <1>2, <1>3, <1>4, <1>5 DEF ReadersOK, Dates

(* Hence every answer is explicable.                                         *)
LEMMA ReadersInvariant == Spec => []ReadersOK
BY InitReaders, ReadersStep, InitInv, NextKeeps, InitColumn, ColumnStep, PTL DEF Spec

(* An answer never tells of an end without all its pictures, except on the  *)
(* list, where the snapshot of the row has none; nor of a runtime older than *)
(* the snapshot of the row it comes with, or than a success this row reports.*)
(* The readers read what the writers write last first, and nothing that was  *)
(* read can be taken back.  Of a row that is marked running, or marked again *)
(* after a run that raised, nothing is said: it may be ahead of task.json.   *)
THEOREM AnswersStayCoherent == Spec => []AnswersAreCoherent
<1>1. ReadersOK => AnswersAreCoherent
  <2> SUFFICES ASSUME ReadersOK, NEW r \in requests \cup {page.shown}, r.stage = "answered"
               PROVE  /\ Before(r.row, r)
                      /\ r.column \in Successes => Before([status |-> r.column, delivery |-> r.row.delivery], r)
                      /\ r.status \in Successes =>
                           \/ r.pictures = scenario.shots
                           \/ r.pictures = 0 /\ scenario.page = "list"
    BY DEF AnswersAreCoherent
  <2>1. PICK t : ReadFine(r, t)
    <3>1. CASE r \in requests
      BY <3>1 DEF ReadersOK, RequestsOK, RequestOK
    <3>2. CASE r = page.shown
      <4>1. r # NoView
        BY DEF NoView
      <4> QED
        BY <3>2, <4>1 DEF ReadersOK, PageOK, ShownOK
    <3> QED
      BY <3>1, <3>2
  <2>2. /\ Dated(r.row) /\ Dated(r) /\ Follows(r.row, r)
        /\ r.column \in Successes => r.column = r.row.status
        /\ r.status \in Successes =>
             \/ r.pictures = scenario.shots
             \/ r.pictures = 0 /\ scenario.page = "list"
    BY <2>1 DEF ReadFine, StageFine
  <2>3. Rank[r.row.status] \in 0..4 /\ Rank[r.status] \in 0..4
    BY <2>2, Ranks DEF Dated
  <2>4. Before(r.row, r)
    BY <2>2, <2>3 DEF Follows, Before
  <2>5. r.column \in Successes => Before([status |-> r.column, delivery |-> r.row.delivery], r)
    BY <2>2, <2>4 DEF Before
  <2> QED
    BY <2>2, <2>4, <2>5
<1> QED
  BY <1>1, ReadersInvariant, PTL

(* The main page shows the task that is open, however late other answers     *)
(* come, and an end it shows still holds: only a failure or a new delivery   *)
(* can have replaced it since.  The list shows the task that is open as soon *)
(* as it is not loading.                                                     *)
THEOREM PageStaysWithItsTask == Spec => []PageShowsItsTask
<1>1. ReadersOK => PageShowsItsTask
  <2> SUFFICES ASSUME ReadersOK, page.shown # NoView
               PROVE  /\ page.shown.task = page.task \/ (OnList /\ page.loading)
                      /\ scenario.page = "main" /\ page.shown.status \in Terminal =>
                           \/ manifest[page.task].status = page.shown.status
                           \/ page.shown.delivery < manifest[page.task].delivery
                           \/ manifest[page.task].status = "failed"
    BY DEF PageShowsItsTask
  <2>1. ShownOK(page.shown, page.task, page.loading)
    BY DEF ReadersOK, PageOK
  <2>2. page.shown.task = page.task \/ (OnList /\ page.loading)
    BY <2>1 DEF ShownOK
  <2>3. ASSUME scenario.page = "main", page.shown.status \in Terminal
        PROVE  \/ manifest[page.task].status = page.shown.status
               \/ page.shown.delivery < manifest[page.task].delivery
               \/ manifest[page.task].status = "failed"
    <3>1. page.shown.task = page.task
      BY <2>2, <2>3 DEF OnList
    <3>2. page.task \in Tasks /\ page.shown.stage = "answered" /\ ReadFine(page.shown, page.task)
      BY <2>1, <3>1 DEF ShownOK
    <3>3. Dated(page.shown) /\ Follows(page.shown, manifest[page.task])
      BY <3>2 DEF ReadFine, StageFine
    <3>4. manifest[page.task].status \in DOMAIN Rank
      BY <3>2 DEF ReadersOK, Dates, DatesOK, DatesFine, Dated
    <3>5. ASSUME Rank[page.shown.status] < Rank[manifest[page.task].status]
          PROVE  manifest[page.task].status = "failed"
      BY <2>3, <3>4, <3>5, Ranks DEF Terminal, Successes
    <3> QED
      BY <3>3, <3>5 DEF Follows
  <2> QED
    BY <2>2, <2>3
<1> QED
  BY <1>1, ReadersInvariant, PTL
===============================================================================
