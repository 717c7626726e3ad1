---------------------------- MODULE LocalRunProofs ----------------------------
(***************************************************************************)
(* The in-process queue serves in order and tells the truth about          *)
(* positions, for any number of tasks, whatever the runs on it do.         *)
(*                                                                         *)
(* Everything follows from one picture: the tasks are in a row in the      *)
(* order of `submitted`; the first n of them are finished, the next one    *)
(* may be in the hands of the worker, and _queue and _pending_task_ids are *)
(* two windows onto the rest, which may differ by that task at one end and *)
(* by the task of the enqueue under way at the other.                      *)
(***************************************************************************)
EXTENDS LocalRun, FiniteSetTheorems, TLAPS

Executing == {"run", "release", "abort"}

Shape ==
  /\ call \in [step : CallSteps, task : Tasks \cup {NoTask}]
  /\ submitted \in Seq(Tasks)
  /\ \A i, j \in 1..Len(submitted) : submitted[i] = submitted[j] => i = j
  /\ call.step # "idle" => Len(submitted) > 0 /\ call.task = submitted[Len(submitted)]
  /\ item = NoTask <=> worker \in {"none", "get", "raised", "dead"}
  /\ active = IF worker \in Executing THEN item ELSE NoTask

Held == IF item = NoTask THEN 0 ELSE 1
PutIn == IF call.step = "idle" THEN Len(submitted) ELSE Len(submitted) - 1
Listed == IF call.step \in {"ensure", "append"} THEN Len(submitted) - 1 ELSE Len(submitted)

(* The tasks from place low + 1 to place high. *)
Window(seq, low, high) ==
  /\ seq \in Seq(Tasks)
  /\ low <= high /\ Len(seq) = high - low
  /\ \A i \in 1..(high - low) : seq[i] = submitted[low + i]

Line(n) ==
  /\ item # NoTask => item = submitted[n + 1]
  /\ \A t : t \in finished <=> \E j \in 1..n : submitted[j] = t
  /\ Window(queue, n + Held, PutIn)
  /\ Window(pending, n + Busy, Listed)

QueueInv == Shape /\ \E n \in Nat : Line(n)

-----------------------------------------------------------------------------
(* Sequences. *)

(* The first position of an element that occurs once is its position.        *)
LEMMA FirstOf ==
  ASSUME NEW seq \in Seq(Tasks), NEW k \in 1..Len(seq),
         \A i \in 1..Len(seq) : seq[i] = seq[k] => i = k
  PROVE  SelectInSeq(seq, LAMBDA u : u = seq[k]) = k
<1> DEFINE I == {i \in 1..Len(seq) : seq[i] = seq[k]}
<1>1. I = {k}
  OBVIOUS
<1>2. SelectInSeq(seq, LAMBDA u : u = seq[k]) = Min(I)
  BY <1>1 DEF SelectInSeq
<1>3. Min(I) = k
  BY <1>1 DEF Min
<1>4. QED
  BY <1>2, <1>3

(* Removing the head by its value leaves the tail.                           *)
LEMMA RemoveHead ==
  ASSUME NEW seq \in Seq(Tasks), seq # <<>>,
         \A i \in 1..Len(seq) : seq[i] = seq[1] => i = 1
  PROVE  RemoveFirst(seq, seq[1]) = Tail(seq)
<1>1. 1 \in 1..Len(seq)
  OBVIOUS
<1>2. SelectInSeq(seq, LAMBDA u : u = seq[1]) = 1
  BY <1>1, FirstOf
<1>3. RemoveFirst(seq, seq[1]) = RemoveAt(seq, 1)
  BY <1>1, <1>2 DEF RemoveFirst
<1>4. RemoveAt(seq, 1) = SubSeq(seq, 1, 0) \o SubSeq(seq, 2, Len(seq))
  BY DEF RemoveAt
<1>5. QED
  BY <1>3, <1>4

-----------------------------------------------------------------------------
(* The picture is kept. *)

(* A run, a request, or a publication never touches the queue but through  *)
(* its own steps.                                                          *)
LEMMA StepOfQueue ==
  ASSUME [LocalNext]_localVars
  PROVE  [Next]_vars
<1>1. CASE UNCHANGED localVars
  BY <1>1 DEF localVars, queueVars, vars
<1>2. ASSUME NEW t \in Tasks, CreateJob(t) \/ EnqueueExisting(t) \/ RunInline(t)
      PROVE  [Next]_vars
  BY <1>2 DEF CreateJob, EnqueueExisting, RunInline, queueVars, vars, Next
<1>3. ASSUME NEW th \in Threads, RunStep(th) PROVE [Next]_vars
  BY <1>3 DEF RunStep, RunNode, ReturnNode, Conclude, RaiseInNode, Rescue, Publish,
     PublishRaises, Quiet, queueVars, vars
<1>4. CASE LoopStep
  BY <1>3, <1>4 DEF LoopStep, InlineEnds, queueVars, vars, Next, Threads
<1>5. CASE ThreadStep
  BY <1>3, <1>5 DEF ThreadStep, QueueStep, ClaimAndRun, RunReturns, RunRaises, vars, Next,
     WorkerStep, Threads
<1>6. QED
  BY <1>1, <1>2, <1>4, <1>5 DEF LocalNext

(* Initially the line is empty.                                              *)
LEMMA InitQueue ==
  ASSUME Init
  PROVE  QueueInv
<1>1. Shape
  BY DEF Init, Shape, NoCall, CallSteps, Executing
<1>2. Line(0)
  BY DEF Init, Line, Window, Held, PutIn, Listed, Busy, NoCall
<1>3. QED
  BY <1>1, <1>2 DEF QueueInv

(* Numbers of places. *)
LEMMA Places ==
  ASSUME Shape, NEW n \in Nat, Line(n)
  PROVE  /\ Held \in 0..1 /\ Busy \in 0..Held
         /\ Len(submitted) \in Nat
         /\ PutIn \in Nat /\ Listed \in Nat
         /\ PutIn <= Listed /\ Listed <= Len(submitted)
         /\ n + Held <= PutIn
<1>1. Len(submitted) \in Nat /\ (call.step # "idle" => Len(submitted) > 0)
  BY DEF Shape
<1>2. Held \in 0..1 /\ Busy \in 0..Held
  BY DEF Held, Busy, Shape, Executing
<1>3. PutIn \in Nat /\ Listed \in Nat /\ PutIn <= Listed /\ Listed <= Len(submitted)
  BY <1>1 DEF PutIn, Listed
<1>4. QED
  BY <1>1, <1>2, <1>3 DEF Line, Window

(* enqueue begins: the task joins the end of the row.                        *)
LEMMA EnqueueStep ==
  ASSUME Shape, NEW n \in Nat, Line(n), NEW t \in Tasks, Enqueue(t)
  PROVE  Shape' /\ Line(n)'
<1> USE DEF Enqueue
<1>1. /\ submitted' \in Seq(Tasks) /\ Len(submitted') = Len(submitted) + 1
      /\ submitted'[Len(submitted) + 1] = t
      /\ \A i \in 1..Len(submitted) : submitted'[i] = submitted[i] /\ submitted[i] # t
      /\ Len(submitted) \in Nat
  BY DEF Shape, ToSet
<1>2. call' = [step |-> "ensure", task |-> t] /\ call'.step = "ensure" /\ call'.task = t
  OBVIOUS
<1>3. Shape'
  <2>1. \A i, j \in 1..Len(submitted') : submitted'[i] = submitted'[j] => i = j
    BY <1>1 DEF Shape
  <2>2. QED
    BY <1>1, <1>2, <2>1 DEF Shape, CallSteps
<1>4. PutIn' = PutIn /\ Listed' = Listed /\ Held' = Held /\ Busy' = Busy
  BY <1>1, <1>2 DEF PutIn, Listed, Held, Busy
<1>5. PutIn <= Len(submitted) /\ Listed <= Len(submitted) /\ n + Held <= Len(submitted)
      /\ n + Held \in Nat /\ n + Busy \in Nat /\ PutIn \in Nat /\ Listed \in Nat
  BY Places
<1>6. \A i \in 1..Len(submitted) : submitted'[i] = submitted[i]
  BY <1>1
<1>7. Window(queue, n + Held, PutIn)'
  BY <1>4, <1>5, <1>6 DEF Line, Window
<1>8. Window(pending, n + Busy, Listed)'
  <2>1. Window(pending, n + Busy, Listed)
    BY DEF Line
  <2>2. \A i \in 1..(Listed - (n + Busy)) : submitted'[n + Busy + i] = submitted[n + Busy + i]
    BY <1>5, <1>6, <1>1
  <2>3. QED
    BY <1>4, <2>1, <2>2 DEF Window
<1>9. item' # NoTask => item' = submitted'[n + 1]
  BY <1>5, <1>6 DEF Line, Held
<1>10. \A u : u \in finished' <=> \E j \in 1..n : submitted'[j] = u
  <2>1. 1..n \subseteq 1..Len(submitted)
    BY <1>1, Places
  <2>2. QED
    BY <1>6, <2>1 DEF Line
<1>11. QED
  BY <1>3, <1>7, <1>8, <1>9, <1>10 DEF Line

(* It is appended to the reported list.                                      *)
LEMMA AppendStep ==
  ASSUME Shape, NEW n \in Nat, Line(n), AppendPending
  PROVE  Shape' /\ Line(n)' /\ call.task = submitted[Listed + 1] /\ Listed + 1 = Len(submitted)
<1> USE DEF AppendPending
<1>1. call'.step = "put" /\ call'.task = call.task /\ call' \in [step : CallSteps, task : Tasks \cup {NoTask}]
  BY DEF Shape, CallSteps
<1>2. Listed + 1 = Len(submitted) /\ Listed' = Len(submitted) /\ PutIn' = PutIn /\ Held' = Held /\ Busy' = Busy
  BY <1>1 DEF Listed, PutIn, Held, Busy, Shape
<1>3. call.task = submitted[Listed + 1] /\ call.task \in Tasks
  BY <1>2 DEF Shape
<1>4. Shape'
  BY <1>1 DEF Shape
<1>5. Window(pending, n + Busy, Listed)'
  <2>1. pending' = Append(pending, call.task) /\ pending \in Seq(Tasks) /\ Len(pending) = Listed - (n + Busy)
        /\ n + Busy <= Listed /\ \A i \in 1..(Listed - (n + Busy)) : pending[i] = submitted[n + Busy + i]
    BY DEF Line, Window
  <2>2. Listed \in Nat /\ n + Busy \in Nat
    BY Places
  <2>3. Len(pending') = Len(submitted) - (n + Busy)
    BY <1>2, <2>1, <2>2, <1>3
  <2>4. ASSUME NEW i \in 1..(Len(submitted) - (n + Busy)) PROVE pending'[i] = submitted[n + Busy + i]
    <3>1. CASE i \in 1..Len(pending)
      BY <2>1, <2>2, <3>1
    <3>2. CASE i = Len(pending) + 1
      BY <2>1, <2>2, <1>2, <1>3, <3>2
    <3>3. QED
      BY <2>1, <2>2, <2>3, <1>2, <3>1, <3>2
  <2>5. QED
    BY <1>2, <1>3, <2>1, <2>2, <2>3, <2>4 DEF Window
<1>6. QED
  BY <1>2, <1>3, <1>4, <1>5 DEF Line, Window

(* ... and put into the queue of the worker.                                 *)
LEMMA PutStep ==
  ASSUME Shape, NEW n \in Nat, Line(n), Put
  PROVE  Shape' /\ Line(n)'
<1> USE DEF Put
<1>1. call' = NoCall /\ call'.step = "idle" /\ call' \in [step : CallSteps, task : Tasks \cup {NoTask}]
  BY DEF NoCall, CallSteps
<1>2. PutIn + 1 = Len(submitted) /\ PutIn' = Len(submitted) /\ Listed' = Listed /\ Held' = Held /\ Busy' = Busy
  BY <1>1 DEF Listed, PutIn, Held, Busy, Shape
<1>3. call.task = submitted[PutIn + 1] /\ call.task \in Tasks
  BY <1>2 DEF Shape
<1>4. Shape'
  BY <1>1 DEF Shape
<1>5. Window(queue, n + Held, PutIn)'
  <2>1. queue' = Append(queue, call.task) /\ queue \in Seq(Tasks) /\ Len(queue) = PutIn - (n + Held)
        /\ n + Held <= PutIn /\ \A i \in 1..(PutIn - (n + Held)) : queue[i] = submitted[n + Held + i]
    BY DEF Line, Window
  <2>2. PutIn \in Nat /\ n + Held \in Nat
    BY Places
  <2>3. Len(queue') = Len(submitted) - (n + Held)
    BY <1>2, <2>1, <2>2, <1>3
  <2>4. ASSUME NEW i \in 1..(Len(submitted) - (n + Held)) PROVE queue'[i] = submitted[n + Held + i]
    <3>1. CASE i \in 1..Len(queue)
      BY <2>1, <2>2, <3>1
    <3>2. CASE i = Len(queue) + 1
      BY <2>1, <2>2, <1>2, <1>3, <3>2
    <3>3. QED
      BY <2>1, <2>2, <2>3, <1>2, <3>1, <3>2
  <2>5. QED
    BY <1>2, <1>3, <2>1, <2>2, <2>3, <2>4 DEF Window
<1>6. QED
  BY <1>2, <1>3, <1>4, <1>5 DEF Line, Window

(* The worker takes the task at the front.                                   *)
LEMMA GetStep ==
  ASSUME Shape, NEW n \in Nat, Line(n), Get
  PROVE  Shape' /\ Line(n)'
<1> USE DEF Get
<1>1. item = NoTask /\ Held = 0 /\ active = NoTask /\ active' = NoTask
  BY DEF Shape, Held, Executing
<1>2. queue \in Seq(Tasks) /\ n <= PutIn /\ Len(queue) = PutIn - n /\ n + 0 = n
      /\ \A i \in 1..(PutIn - n) : queue[i] = submitted[n + i]
  BY <1>1 DEF Line, Window
<1>3. PutIn \in Nat /\ PutIn <= Len(submitted) /\ Len(queue) > 0
  BY <1>2, Places
<1>4. item' = submitted[n + 1] /\ item' \in Tasks /\ item' # NoTask
  BY <1>2, <1>3, LocalTaskQueueAssumption
<1>5. Held' = 1 /\ Busy' = Busy /\ PutIn' = PutIn /\ Listed' = Listed
  BY <1>4 DEF Held, Busy, PutIn, Listed
<1>6. Shape'
  BY <1>1, <1>4 DEF Shape, Executing
<1>7. Window(queue, n + Held, PutIn)'
  BY <1>2, <1>3, <1>5 DEF Window
<1>8. QED
  BY <1>4, <1>5, <1>6, <1>7 DEF Line, Window

(* It claims the task, which leaves the reported list at its head.           *)
LEMMA ClaimStep ==
  ASSUME Shape, NEW n \in Nat, Line(n), Claim
  PROVE  Shape' /\ Line(n)' /\ active = NoTask /\ pending # <<>> /\ active' = Head(pending)
         /\ pending' = Tail(pending)
<1> USE DEF Claim
<1>1. item # NoTask /\ Held = 1 /\ active = NoTask /\ Busy = 0 /\ item' = item /\ active' = item
  BY DEF Shape, Held, Executing, Busy
<1>2. pending \in Seq(Tasks) /\ n <= Listed /\ Len(pending) = Listed - n /\ n + 0 = n
      /\ \A i \in 1..(Listed - n) : pending[i] = submitted[n + i]
  BY <1>1 DEF Line, Window
<1>3. Listed \in Nat /\ Listed <= Len(submitted) /\ n + 1 <= Listed /\ Len(submitted) \in Nat
  BY <1>1, Places
<1>4. item = submitted[n + 1] /\ pending[1] = item /\ pending # <<>>
  BY <1>1, <1>2, <1>3 DEF Line
<1>5. \A i \in 1..Len(pending) : pending[i] = pending[1] => i = 1
  <2> SUFFICES ASSUME NEW i \in 1..Len(pending), pending[i] = pending[1] PROVE i = 1
    OBVIOUS
  <2>1. submitted[n + i] = submitted[n + 1]
    BY <1>2, <1>3
  <2>2. n + i \in 1..Len(submitted) /\ n + 1 \in 1..Len(submitted)
    BY <1>2, <1>3
  <2>3. n + i = n + 1
    BY <2>1, <2>2 DEF Shape
  <2>4. QED
    BY <2>3
<1>6. pending' = Tail(pending)
  BY <1>2, <1>4, <1>5, RemoveHead
<1>7. Held' = Held /\ Busy' = 1 /\ PutIn' = PutIn /\ Listed' = Listed
  BY <1>1 DEF Held, Busy, PutIn, Listed
<1>8. Window(pending, n + Busy, Listed)'
  BY <1>2, <1>3, <1>6, <1>7 DEF Window
<1>9. Shape'
  BY <1>1 DEF Shape, Executing
<1>10. QED
  BY <1>1, <1>2, <1>3, <1>4, <1>6, <1>7, <1>8, <1>9 DEF Line, Window

(* It is through with the task.                                              *)
LEMMA ReleaseStep ==
  ASSUME Shape, NEW n \in Nat, Line(n), Release
  PROVE  Shape' /\ Line(n + 1)' /\ active # NoTask /\ active' = NoTask
         /\ finished' = finished \cup {active}
<1> USE DEF Release
<1>1. active = item /\ item # NoTask /\ Held = 1 /\ Busy = 1 /\ active' = NoTask /\ item' = NoTask
  BY DEF Shape, Executing, Held, Busy
<1>2. Held' = 0 /\ Busy' = 0 /\ PutIn' = PutIn /\ Listed' = Listed
  BY <1>1 DEF Held, Busy, PutIn, Listed
<1>3. Shape'
  BY <1>1 DEF Shape, Executing
<1>4. item = submitted[n + 1]
  BY <1>1 DEF Line
<1>5. \A t : t \in finished' <=> \E j \in 1..(n + 1) : submitted'[j] = t
  BY <1>4 DEF Line
<1>6. (n + 1) + 0 = n + 1
  OBVIOUS
<1>7. QED
  BY <1>1, <1>2, <1>3, <1>5, <1>6 DEF Line, Window

(* The steps that only move a thread or a call. *)
LEMMA OtherSteps ==
  ASSUME Shape, NEW n \in Nat, Line(n),
         EnsureWorkerStarted \/ ExecutorReturns \/ ExecutorRaises \/ ThreadEnds \/ UNCHANGED vars
  PROVE  Shape' /\ Line(n)' /\ UNCHANGED <<submitted, pending, active, finished>>
<1>1. UNCHANGED <<submitted, queue, pending, active, item, finished>>
  BY DEF EnsureWorkerStarted, ExecutorReturns, ExecutorRaises, ThreadEnds, vars
<1>2. /\ call' \in [step : CallSteps, task : Tasks \cup {NoTask}]
      /\ call'.task = call.task
      /\ call'.step # "idle" <=> call.step # "idle"
      /\ call'.step \in {"ensure", "append"} <=> call.step \in {"ensure", "append"}
  BY DEF EnsureWorkerStarted, ExecutorReturns, ExecutorRaises, ThreadEnds, vars, Shape, CallSteps
<1>3. /\ item = NoTask <=> worker' \in {"none", "get", "raised", "dead"}
      /\ worker' \in Executing <=> worker \in Executing
  BY DEF EnsureWorkerStarted, ExecutorReturns, ExecutorRaises, ThreadEnds, vars, Shape, Executing, Alive
<1>4. Shape'
  BY <1>1, <1>2, <1>3 DEF Shape
<1>5. Held' = Held /\ Busy' = Busy /\ PutIn' = PutIn /\ Listed' = Listed
  BY <1>1, <1>2 DEF Held, Busy, PutIn, Listed
<1>6. QED
  BY <1>1, <1>4, <1>5 DEF Line, Window

(* How the picture moves: n grows by a release only, places are added at   *)
(* the end.                                                                *)
LEMMA QueueMoves ==
  ASSUME Shape, NEW n \in Nat, Line(n), [Next]_vars
  PROVE  /\ Shape' /\ (Line(n)' \/ Line(n + 1)')
         /\ Listed <= Listed' /\ Len(submitted) <= Len(submitted')
         /\ \A i \in 1..Len(submitted) : submitted'[i] = submitted[i]
<1>1. Len(submitted) \in Nat
  BY Places
<1>2. ASSUME NEW t \in Tasks, Enqueue(t)
      PROVE  /\ Listed <= Listed' /\ Len(submitted) <= Len(submitted')
             /\ \A i \in 1..Len(submitted) : submitted'[i] = submitted[i]
  <2>1. submitted' = Append(submitted, t) /\ call.step = "idle" /\ call'.step = "ensure" /\ submitted \in Seq(Tasks)
    BY <1>2 DEF Enqueue, Shape
  <2>2. Listed = Len(submitted) /\ Listed' = Len(submitted)
    BY <2>1 DEF Listed
  <2>3. QED
    BY <2>1, <2>2
<1>3. ASSUME ~\E t \in Tasks : Enqueue(t)
      PROVE  /\ Listed <= Listed' /\ Len(submitted) <= Len(submitted')
             /\ \A i \in 1..Len(submitted) : submitted'[i] = submitted[i]
  <2>1. submitted' = submitted
    BY <1>3 DEF Next, CallStep, WorkerStep, EnsureWorkerStarted, AppendPending, Put, Get, Claim,
       ExecutorReturns, ExecutorRaises, Release, ThreadEnds, vars
  <2>2. call'.step \in {"ensure", "append"} => call.step \in {"ensure", "append"}
    BY <1>3 DEF Next, CallStep, WorkerStep, EnsureWorkerStarted, AppendPending, Put, Get, Claim,
       ExecutorReturns, ExecutorRaises, Release, ThreadEnds, vars, Shape, NoCall
  <2>3. QED
    BY <1>1, <2>1, <2>2 DEF Listed
<1>4. Shape' /\ (Line(n)' \/ Line(n + 1)')
  BY EnqueueStep, AppendStep, PutStep, GetStep, ClaimStep, ReleaseStep, OtherSteps
     DEF Next, CallStep, WorkerStep
<1>5. QED
  BY <1>2, <1>3, <1>4

(* Hence the picture of the row holds throughout.                            *)
LEMMA QueueInvariant == LocalSpec => []QueueInv
<1>1. LocalInit => QueueInv
  BY InitQueue DEF LocalInit
<1>2. QueueInv /\ [LocalNext]_localVars => QueueInv'
  <2> SUFFICES ASSUME QueueInv, [LocalNext]_localVars PROVE QueueInv'
    OBVIOUS
  <2>1. [Next]_vars
    BY StepOfQueue
  <2>2. PICK n \in Nat : Line(n)
    BY DEF QueueInv
  <2>3. Shape' /\ (Line(n)' \/ Line(n + 1)')
    BY <2>1, <2>2, QueueMoves DEF QueueInv
  <2>4. n + 1 \in Nat
    BY <2>2
  <2>5. QED
    BY <2>2, <2>3, <2>4 DEF QueueInv
<1>3. QED
  BY <1>1, <1>2, PTL DEF LocalSpec

-----------------------------------------------------------------------------
(* The line. *)

(* The waiting list, the active task and the finished ones are a line that *)
(* is served in order, one task at a time and each once (FifoServer),      *)
(* although the worker takes its tasks from another list, and whatever the *)
(* runs raise and however often the thread ends and is started again.      *)
THEOREM LineIsServedInOrder == LocalSpec => ServesInOrder
<1>1. LocalInit => Fifo!FifoInit
  BY DEF LocalInit, Init, Fifo!FifoInit
<1>2. QueueInv /\ [LocalNext]_localVars => [Fifo!FifoNext]_(Fifo!fifoVars)
  <2> SUFFICES ASSUME QueueInv, [LocalNext]_localVars
               PROVE  Fifo!FifoNext \/ UNCHANGED <<pending, active, finished>>
    BY DEF Fifo!fifoVars
  <2>1. [Next]_vars
    BY StepOfQueue
  <2>2. PICK n \in Nat : Line(n)
    BY DEF QueueInv
  <2>3. Shape
    BY DEF QueueInv
  <2>4. CASE AppendPending
    <3>1. Listed + 1 = Len(submitted) /\ call.task = submitted[Listed + 1] /\ call.task \in Tasks
      BY <2>2, <2>3, <2>4, AppendStep DEF Shape, AppendPending
    <3>2. Listed \in Nat /\ n + Held <= Listed /\ n + Busy <= Listed /\ n + Busy \in Nat /\ Len(submitted) \in Nat
      BY <2>2, <2>3, Places
    <3>3. \A i \in 1..Listed : submitted[i] # call.task
      <4> SUFFICES ASSUME NEW i \in 1..Listed, submitted[i] = submitted[Listed + 1] PROVE FALSE
        BY <3>1
      <4>1. i \in 1..Len(submitted) /\ Listed + 1 \in 1..Len(submitted)
        BY <3>1, <3>2
      <4>2. i = Listed + 1
        BY <2>3, <4>1 DEF Shape
      <4>3. QED
        BY <3>2, <4>2
    <3>4. call.task \notin ToSet(pending)
      <4>1. Len(pending) = Listed - (n + Busy) /\ pending \in Seq(Tasks)
            /\ \A i \in 1..(Listed - (n + Busy)) : pending[i] = submitted[n + Busy + i]
        BY <2>2 DEF Line, Window
      <4>2. \A i \in 1..Len(pending) : n + Busy + i \in 1..Listed
        BY <3>2, <4>1
      <4>3. QED
        BY <3>3, <4>1, <4>2 DEF ToSet
    <3>5. call.task # active
      <4>1. CASE active = NoTask
        BY <3>1, <4>1, LocalTaskQueueAssumption
      <4>2. CASE active # NoTask
        <5>1. active = item /\ item # NoTask /\ Held = 1
          BY <2>3, <4>2 DEF Shape, Held
        <5>2. active = submitted[n + 1] /\ n + 1 \in 1..Listed
          BY <2>2, <3>2, <5>1 DEF Line
        <5>3. QED
          BY <3>3, <5>2
      <4>3. QED
        BY <4>1, <4>2
    <3>6. call.task \notin finished
      <4>1. 1..n \subseteq 1..Listed
        BY <2>2, <2>3, <3>2, Places
      <4>2. QED
        BY <2>2, <3>3, <4>1 DEF Line
    <3>7. Fifo!Join(call.task)
      <4>1. call.task \notin ToSet(pending) \cup {active} \cup finished
        BY <3>4, <3>5, <3>6
      <4>2. pending' = Append(pending, call.task) /\ UNCHANGED <<active, finished>>
        BY <2>4 DEF AppendPending
      <4>3. QED
        BY ONLY <4>1, <4>2 DEF Fifo!Join, Fifo!ToSet, ToSet
    <3>8. QED
      BY <3>1, <3>7 DEF Fifo!FifoNext
  <2>5. CASE Claim
    <3>1. active = NoTask /\ pending # <<>> /\ active' = Head(pending) /\ pending' = Tail(pending)
      BY <2>2, <2>3, <2>5, ClaimStep
    <3>2. QED
      BY <2>5, <3>1 DEF Claim, Fifo!Begin, Fifo!FifoNext
  <2>6. CASE Release
    <3>1. active # NoTask /\ active' = NoTask /\ finished' = finished \cup {active}
      BY <2>2, <2>3, <2>6, ReleaseStep
    <3>2. QED
      BY <2>6, <3>1 DEF Release, Fifo!Finish, Fifo!FifoNext
  <2>7. QED
    BY <2>1, <2>4, <2>5, <2>6 DEF Next, CallStep, WorkerStep, Enqueue, EnsureWorkerStarted, Put, Get,
       ExecutorReturns, ExecutorRaises, ThreadEnds, vars
<1>3. QED
  BY <1>1, <1>2, QueueInvariant, PTL DEF LocalSpec, ServesInOrder, Fifo!FifoSpec

-----------------------------------------------------------------------------
(* Positions. *)

(* A task that is listed and not finished has its place, less those of the *)
(* finished ones, as its position; any other has none.                     *)
Positioned(n) ==
  /\ \A i \in 1..Len(submitted) :
       QueuePosition(submitted[i]) = IF n < i /\ i <= Listed THEN i - 1 - n ELSE -1
  /\ \A t \in Tasks : (\A i \in 1..Len(submitted) : submitted[i] # t) => QueuePosition(t) = -1

(* In the picture, the position of a task is its distance from the front.    *)
LEMMA Positions == \A n \in Nat : Shape /\ Line(n) => Positioned(n)
<1> SUFFICES ASSUME NEW n \in Nat, Shape, Line(n) PROVE Positioned(n)
  OBVIOUS
<1> DEFINE low == n + Busy
<1>1. /\ Listed \in Nat /\ low \in Nat /\ low <= Listed /\ Listed <= Len(submitted)
      /\ Len(submitted) \in Nat /\ Busy \in {0, 1} /\ n <= low
      /\ (active # NoTask => n + 1 <= Listed)
  <2>1. active # NoTask => Held = 1
    BY DEF Shape, Held
  <2>2. low <= Listed
    BY DEF Line, Window
  <2>3. QED
    BY <2>1, <2>2, Places
<1>2. /\ pending \in Seq(Tasks) /\ Len(pending) = Listed - low
      /\ \A i \in 1..(Listed - low) : pending[i] = submitted[low + i]
  BY DEF Line, Window
<1>3. active # NoTask => active = submitted[n + 1] /\ Busy = 1
  BY DEF Line, Shape, Busy
<1>4. active = NoTask => Busy = 0
  BY DEF Busy
<1>5. ASSUME NEW i \in 1..Len(submitted)
      PROVE  QueuePosition(submitted[i]) = IF n < i /\ i <= Listed THEN i - 1 - n ELSE -1
  <2>1. submitted[i] \in Tasks /\ submitted[i] # NoTask
    BY LocalTaskQueueAssumption DEF Shape
  <2>2. submitted[i] = active <=> active # NoTask /\ i = n + 1
    <3>1. active # NoTask /\ submitted[i] = submitted[n + 1] => i = n + 1
      BY <1>1 DEF Shape
    <3>2. QED
      BY <1>3, <2>1, <3>1
  <2>3. CASE submitted[i] = active
    <3>1. QueuePosition(submitted[i]) = 0
      BY <2>3 DEF QueuePosition
    <3>2. i = n + 1 /\ n + 1 <= Listed
      BY <1>1, <2>2, <2>3
    <3>3. QED
      BY <3>1, <3>2
  <2>4. CASE submitted[i] # active /\ low < i /\ i <= Listed
    <3> DEFINE k == i - low
    <3>1. k \in 1..Len(pending) /\ pending[k] = submitted[i]
      <4>1. k \in 1..(Listed - low) /\ low + k = i
        BY <1>1, <2>4
      <4>2. QED
        BY <1>2, <4>1
    <3>2. \A j \in 1..Len(pending) : pending[j] = pending[k] => j = k
      <4> SUFFICES ASSUME NEW j \in 1..Len(pending), pending[j] = pending[k] PROVE j = k
        OBVIOUS
      <4>1. submitted[low + j] = submitted[i] /\ low + j \in 1..Len(submitted)
        BY <1>1, <1>2, <3>1
      <4>2. low + j = i
        BY <4>1 DEF Shape
      <4>3. QED
        BY <1>1, <4>2
    <3>3. SelectInSeq(pending, LAMBDA u : u = pending[k]) = k
      BY <1>2, <3>1, <3>2, FirstOf
    <3>4. SelectInSeq(pending, LAMBDA u : u = submitted[i]) = k
      BY <3>1, <3>3
    <3>5. Contains(pending, submitted[i])
      BY <3>1 DEF Contains
    <3>6. QueuePosition(submitted[i]) = k - 1 + Busy
      BY <2>4, <3>4, <3>5 DEF QueuePosition
    <3>7. QED
      BY <1>1, <2>4, <3>6
  <2>5. CASE submitted[i] # active /\ ~(low < i /\ i <= Listed)
    <3>1. ~Contains(pending, submitted[i])
      <4> SUFFICES ASSUME NEW j \in 1..Len(pending), pending[j] = submitted[i] PROVE FALSE
        BY DEF Contains
      <4>1. submitted[low + j] = submitted[i] /\ low + j \in 1..Len(submitted) /\ low < low + j /\ low + j <= Listed
        BY <1>1, <1>2
      <4>2. low + j = i
        BY <4>1 DEF Shape
      <4>3. QED
        BY <2>5, <4>1, <4>2
    <3>2. QueuePosition(submitted[i]) = -1
      BY <2>5, <3>1 DEF QueuePosition
    <3>3. ~(n < i /\ i <= Listed)
      BY <1>1, <1>3, <1>4, <2>2, <2>5
    <3>4. QED
      BY <3>2, <3>3
  <2>6. QED
    BY <2>3, <2>4, <2>5
<1>6. ASSUME NEW t \in Tasks, \A i \in 1..Len(submitted) : submitted[i] # t
      PROVE  QueuePosition(t) = -1
  <2>1. active # t
    <3>1. active # NoTask => n + 1 \in 1..Len(submitted)
      BY <1>1
    <3>2. QED
      BY <1>3, <1>6, <3>1, LocalTaskQueueAssumption
  <2>2. ~Contains(pending, t)
    <3>1. \A j \in 1..Len(pending) : low + j \in 1..Len(submitted)
      BY <1>1, <1>2
    <3>2. QED
      BY <1>2, <1>6, <3>1 DEF Contains
  <2>3. QED
    BY <2>1, <2>2 DEF QueuePosition
<1>7. QED
  BY <1>5, <1>6 DEF Positioned

(* The position a client polls is the number of tasks before its own that  *)
(* are not over, in every state between the steps of the two threads.      *)
THEOREM PositionsCount == LocalSpec => []PositionCountsTasksAhead
<1>1. QueueInv => PositionCountsTasksAhead
  <2> SUFFICES ASSUME QueueInv, NEW i \in DOMAIN submitted, QueuePosition(submitted[i]) >= 0
               PROVE  QueuePosition(submitted[i])
                        = Cardinality({j \in 1..(i - 1) : submitted[j] \notin finished})
    BY DEF PositionCountsTasksAhead
  <2>1. PICK n \in Nat : Line(n)
    BY DEF QueueInv
  <2>2. Shape /\ Positioned(n)
    BY <2>1, Positions DEF QueueInv
  <2>3. i \in 1..Len(submitted) /\ Len(submitted) \in Nat
    BY <2>2 DEF Shape
  <2>4. n < i /\ QueuePosition(submitted[i]) = i - 1 - n
    BY <2>2, <2>3 DEF Positioned
  <2>5. {j \in 1..(i - 1) : submitted[j] \notin finished} = (n + 1)..(i - 1)
    <3>1. ASSUME NEW j \in 1..(i - 1) PROVE submitted[j] \in finished <=> j <= n
      <4>1. j \in 1..Len(submitted)
        BY <2>3
      <4>2. 1..n \subseteq 1..Len(submitted)
        BY <2>3, <2>4
      <4>3. \A k \in 1..n : submitted[k] = submitted[j] => k = j
        BY <2>2, <4>1, <4>2 DEF Shape
      <4>4. QED
        BY <2>1, <4>3 DEF Line
    <3>2. QED
      BY <2>3, <2>4, <3>1
  <2>6. Cardinality((n + 1)..(i - 1)) = i - 1 - n
    <3>1. n + 1 \in Int /\ i - 1 \in Int
      BY <2>3
    <3>2. Cardinality((n + 1)..(i - 1)) = IF n + 1 > i - 1 THEN 0 ELSE (i - 1) - (n + 1) + 1
      BY ONLY <3>1, FS_Interval
    <3>3. QED
      BY <2>3, <2>4, <3>2
  <2>7. QED
    BY <2>4, <2>5, <2>6
<1>2. QED
  BY <1>1, QueueInvariant, PTL

(* A client that polls never sees its position grow, nor its task leave    *)
(* the queue other than through position 0.                                *)
THEOREM PositionsShrink == LocalSpec => PositionNeverGrows
<1> DEFINE Shrinks == \A t \in Tasks :
             QueuePosition(t) >= 0 =>
               \/ QueuePosition(t)' \in 0..QueuePosition(t)
               \/ QueuePosition(t) = 0 /\ QueuePosition(t)' = -1
<1>1. (\A n \in Nat : Shape /\ Line(n) => Positioned(n))'
  BY Positions, PTL
<1>2. QueueInv /\ [LocalNext]_localVars => [Shrinks]_vars
  <2> SUFFICES ASSUME QueueInv, [LocalNext]_localVars, NEW t \in Tasks, QueuePosition(t) >= 0
               PROVE  \/ QueuePosition(t)' \in 0..QueuePosition(t)
                      \/ QueuePosition(t) = 0 /\ QueuePosition(t)' = -1
    OBVIOUS
  <2>1. PICK n \in Nat : Line(n)
    BY DEF QueueInv
  <2>2. Shape /\ Positioned(n) /\ Len(submitted) \in Nat
    BY <2>1, Positions DEF QueueInv, Shape
  <2>3. /\ Shape' /\ (Line(n)' \/ Line(n + 1)')
        /\ Listed <= Listed' /\ Len(submitted) <= Len(submitted')
        /\ \A i \in 1..Len(submitted) : submitted'[i] = submitted[i]
    BY <2>1, <2>2, QueueMoves, StepOfQueue
  <2>4. PICK i \in 1..Len(submitted) : submitted[i] = t
    BY <2>2 DEF Positioned
  <2>5. n < i /\ i <= Listed /\ QueuePosition(t) = i - 1 - n
    BY <2>2, <2>4 DEF Positioned
  <2>6. i \in 1..Len(submitted)' /\ submitted'[i] = t /\ i <= Listed'
    <3>1. Len(submitted') \in Nat /\ Listed \in Nat /\ Listed' \in Int
      BY <2>1, <2>2, <2>3, Places DEF Shape, Listed
    <3>2. QED
      BY <2>2, <2>3, <2>4, <2>5, <3>1
  <2>7. CASE Line(n)'
    <3>1. Positioned(n)'
      BY <1>1, <2>3, <2>7
    <3>2. QueuePosition(t)' = i - 1 - n
      BY <2>5, <2>6, <3>1 DEF Positioned
    <3>3. QED
      BY <2>5, <3>2
  <2>8. CASE Line(n + 1)'
    <3>1. Positioned(n + 1)'
      BY <1>1, <2>3, <2>8
    <3>2. QueuePosition(t)' = IF n + 1 < i THEN i - 1 - (n + 1) ELSE -1
      BY <2>6, <3>1 DEF Positioned
    <3>3. QED
      BY <2>5, <3>2
  <2>9. QED
    BY <2>3, <2>7, <2>8
<1>3. QED
  BY <1>2, QueueInvariant, PTL DEF LocalSpec, PositionNeverGrows

-----------------------------------------------------------------------------
(* Runs. *)

RunRecords == [step : RunSteps, task : Tasks \cup {NoTask}, node : 0..LastNode, after : Continuations]

RunTypes ==
  /\ manifest \in [Tasks -> {"none"} \cup DOMAIN MapStatus]
  /\ DOMAIN row = Tasks
  /\ run \in [Threads -> RunRecords]
  /\ faults \in Nat
  /\ \A th \in Threads : run[th].step # "off" => run[th].task \in Tasks
  /\ \A th \in Threads : run[th].step = "publish" => run[th].after # "none"

(* Where a run is that is about to leave its task with a final status. *)
AboutToSettle(r) ==
  \/ r.step = "publish" /\ r.after \in {"failed", "swallow", "done"}
  \/ r.step = "publish" /\ r.after = "finished" /\ r.node = LastNode
  \/ r.step \in {"return", "raise"}

(* A task that was left as it should be. *)
Ended(t) ==
  /\ t \in Tasks
  /\ manifest[t] \in Settled
  /\ faults = 0 => row[t] = MapStatus[manifest[t]]

(* The worker thread runs what it has claimed, the event loop plan tasks;  *)
(* a run that leaves its task leaves it settled, by whichever way out.     *)
RunInv ==
  /\ RunTypes
  /\ \A i \in 1..Len(submitted) : submitted[i] \notin PlanTasks
  /\ run["loop"].step # "off" => run["loop"].task \in PlanTasks
  /\ run["worker"].step # "off" <=> worker = "run"
  /\ worker = "run" => run["worker"].task = item
  /\ AboutToSettle(run["worker"]) => manifest[item] \in Settled
  /\ run["worker"].step = "return" => Ended(item)
  /\ run["worker"].step = "raise" => faults > 0
  /\ worker \in {"release", "abort"} => Ended(item)
  /\ \A t \in finished : Ended(t)

(* The task in hand is not finished, and neither is a plan task. *)
LEMMA InHand ==
  ASSUME QueueInv, RunInv
  PROVE  /\ item # NoTask => item \in Tasks /\ item \notin finished /\ item \notin PlanTasks
         /\ finished \cap PlanTasks = {}
<1>1. PICK n \in Nat : Line(n)
  BY DEF QueueInv
<1>2. Shape
  BY DEF QueueInv
<1>3. Len(submitted) \in Nat /\ n + Held <= Len(submitted) /\ Held \in 0..1
  BY <1>1, <1>2, Places
<1>4. 1..n \subseteq 1..Len(submitted)
  BY <1>3
<1>5. finished \cap PlanTasks = {}
  BY <1>1, <1>4 DEF Line, RunInv
<1>6. ASSUME item # NoTask PROVE item \in Tasks /\ item \notin finished /\ item \notin PlanTasks
  <2>1. item = submitted[n + 1] /\ n + 1 \in 1..Len(submitted)
    BY <1>1, <1>3, <1>6 DEF Line, Held
  <2>2. \A j \in 1..n : submitted[j] # submitted[n + 1]
    BY <1>2, <1>4, <2>1 DEF Shape
  <2>3. QED
    BY <1>1, <1>2, <2>1, <2>2 DEF Line, Shape, RunInv
<1>7. QED
  BY <1>5, <1>6

(* A run that begins.                                                        *)
LEMMA Begins ==
  ASSUME NEW t \in Tasks
  PROVE  /\ [NoRun EXCEPT !.step = "node", !.task = t, !.node = 1] \in RunRecords
         /\ [NoRun EXCEPT !.step = "node", !.task = t, !.node = 1].step = "node"
         /\ [NoRun EXCEPT !.step = "node", !.task = t, !.node = 1].task = t
<1>1. NoRun \in RunRecords
  BY LocalRunAssumption DEF NoRun, RunRecords, RunSteps, Continuations
<1>2. 1 \in 0..LastNode
  BY LocalRunAssumption
<1>3. "node" \in RunSteps
  BY DEF RunSteps
<1>4. QED
  BY <1>1, <1>2, <1>3 DEF RunRecords

(* After a publication the run goes on, and it is not about to settle its  *)
(* task unless it was before.                                              *)
LEMMA Resumes ==
  ASSUME NEW r \in RunRecords, r.step = "publish", r.after # "none"
  PROVE  /\ Resumed(r) \in RunRecords /\ Resumed(r).task = r.task
         /\ Resumed(r).step \notin {"off", "raise"} /\ Resumed(r).after # "none"
         /\ AboutToSettle(Resumed(r)) => AboutToSettle(r)
<1> DEFINE q == Resumed(r)
<1>1. r.after \in {"started", "finished", "failed", "swallow", "done"}
      /\ r.node \in 0..LastNode /\ LastNode \in Nat
  BY LocalRunAssumption DEF RunRecords, Continuations
<1>2. CASE r.after = "started"
  <2>1. q = [r EXCEPT !.step = "handler"]
    BY <1>2 DEF Resumed
  <2>2. QED
    BY <1>2, <2>1 DEF RunRecords, RunSteps, AboutToSettle
<1>3. CASE r.after = "finished" /\ r.node < LastNode
  <2>1. q = [r EXCEPT !.step = "node", !.node = r.node + 1]
    BY <1>1, <1>3 DEF Resumed
  <2>2. r.node + 1 \in 0..LastNode
    BY <1>1, <1>3
  <2>3. QED
    BY <1>3, <2>1, <2>2 DEF RunRecords, RunSteps, AboutToSettle
<1>4. CASE r.after = "finished" /\ r.node = LastNode
  <2>1. q = [r EXCEPT !.after = "done"]
    BY <1>1, <1>4 DEF Resumed
  <2>2. QED
    BY <1>4, <2>1 DEF RunRecords, Continuations, AboutToSettle
<1>5. CASE r.after = "failed"
  <2>1. q = [r EXCEPT !.after = "swallow"]
    BY <1>5 DEF Resumed
  <2>2. QED
    BY <1>5, <2>1 DEF RunRecords, Continuations, AboutToSettle
<1>6. CASE r.after \in {"swallow", "done"}
  <2>1. q = [r EXCEPT !.step = "return"]
    BY <1>6 DEF Resumed
  <2>2. QED
    BY <1>6, <2>1 DEF RunRecords, RunSteps, AboutToSettle
<1>7. QED
  BY <1>1, <1>2, <1>3, <1>4, <1>5, <1>6

(* A step of a run that writes at most the task it runs.                   *)
LEMMA RunStepKeeps ==
  ASSUME QueueInv, RunInv, NEW th \in Threads, RunStep(th)
  PROVE  RunInv'
<1> DEFINE t == run[th].task
<1>1. /\ t \in Tasks /\ run[th].step # "off" /\ run[th] \in RunRecords
      /\ run[th].node \in 0..LastNode /\ LastNode \in Nat /\ LastNode > 0
      /\ run[th].step = "publish" => run[th].after # "none"
  BY LocalRunAssumption DEF RunStep, RunNode, ReturnNode, Conclude, RaiseInNode, Rescue, Publish,
     PublishRaises, RunInv, RunTypes, RunRecords
<1>2. UNCHANGED <<submitted, worker, item, finished>>
  BY DEF RunStep, RunNode, ReturnNode, Conclude, RaiseInNode, Rescue, Publish, PublishRaises,
     Quiet, queueVars
<1>3. PICK r \in RunRecords : run' = [run EXCEPT ![th] = r] /\ r.task = t /\ r.step # "off"
                              /\ (r.step = "publish" => r.after # "none")
  <2>1. CASE \/ RunNode(th) \/ ReturnNode(th) \/ Conclude(th) \/ RaiseInNode(th)
             \/ Rescue(th) \/ PublishRaises(th)
    <3>1. run'[th] \in RunRecords /\ run'[th].task = t /\ run'[th].step # "off"
          /\ (run'[th].step = "publish" => run'[th].after # "none")
      BY <1>1, <2>1 DEF RunNode, ReturnNode, Conclude, RaiseInNode, Rescue, PublishRaises,
         Publishing, RunInv, RunTypes, RunRecords, RunSteps, Continuations
    <3>2. run' = [run EXCEPT ![th] = run'[th]]
      BY <2>1 DEF RunNode, ReturnNode, Conclude, RaiseInNode, Rescue, PublishRaises,
         Publishing, RunInv, RunTypes
    <3>3. QED
      BY <3>1, <3>2
  <2>2. CASE Publish(th)
    <3>1. run' = [run EXCEPT ![th] = Resumed(run[th])] /\ run[th].step = "publish"
      BY <2>2 DEF Publish
    <3>2. Resumed(run[th]) \in RunRecords /\ Resumed(run[th]).task = t /\ Resumed(run[th]).step # "off"
          /\ Resumed(run[th]).after # "none"
      BY <1>1, <3>1, Resumes
    <3>3. QED
      BY <3>1, <3>2
  <2>3. QED
    BY <2>1, <2>2 DEF RunStep
<1>4. /\ manifest' \in [Tasks -> {"none"} \cup DOMAIN MapStatus] /\ DOMAIN row' = Tasks
      /\ \A u \in Tasks \ {t} : manifest'[u] = manifest[u] /\ row'[u] = row[u]
      /\ faults' \in Nat /\ faults' >= faults
  BY <1>1, LocalRunAssumption DEF RunStep, RunNode, ReturnNode, Conclude, RaiseInNode, Rescue, Publish,
     PublishRaises, Quiet, Publishing, RunInv, RunTypes, MapStatus
<1>5. RunTypes'
  BY <1>1, <1>3, <1>4 DEF RunInv, RunTypes
<1>6. ASSUME NEW u \in Tasks, u # t, Ended(u) PROVE Ended(u)'
  BY <1>4, <1>6 DEF Ended, RunInv, RunTypes
<1>7. th = "worker" => worker = "run" /\ t = item /\ item # NoTask
  BY <1>1 DEF RunInv, QueueInv, Shape
<1>8. th = "loop" => t \in PlanTasks
  BY <1>1 DEF RunInv
<1>9. th \in {"worker", "loop"} /\ "worker" \in Threads /\ "loop" \in Threads
  BY DEF Threads
<1>10. \A u \in finished : u # t /\ u \in Tasks
  BY <1>7, <1>8, <1>9, InHand DEF RunInv, Ended
<1>11. \A u \in finished : Ended(u)'
  BY <1>6, <1>10 DEF RunInv
<1>12. CASE th = "loop"
  <2>1. run'["worker"] = run["worker"] /\ run'["loop"] = r
    BY <1>3, <1>9, <1>12 DEF RunInv, RunTypes
  <2>2. worker \in {"run", "release", "abort"} => item \in Tasks /\ item # t
    BY <1>8, <1>12, InHand DEF QueueInv, Shape
  <2>3. AboutToSettle(run["worker"]) => worker = "run"
    BY DEF AboutToSettle, RunInv
  <2>4. AboutToSettle(run["worker"]) => manifest'[item'] \in Settled
    BY <1>2, <1>4, <2>1, <2>2, <2>3 DEF RunInv
  <2>5. ASSUME item \in Tasks, item # t, Ended(item) PROVE Ended(item)'
    <3>1. PICK u \in Tasks : u = item
      BY <2>5
    <3>2. Ended(u)'
      BY <1>6, <2>5, <3>1
    <3>3. QED
      BY <1>2, <3>1, <3>2 DEF Ended
  <2>6. run'["worker"].step = "return" => Ended(item)'
    <3>1. run["worker"].step = "return" => AboutToSettle(run["worker"])
      BY DEF AboutToSettle
    <3>2. QED
      BY <2>1, <2>2, <2>3, <2>5, <3>1 DEF RunInv
  <2>7. run'["worker"].step = "raise" => faults' > 0
    BY <1>4, <2>1 DEF RunInv, RunTypes
  <2>8. worker' \in {"release", "abort"} => Ended(item)'
    BY <1>2, <2>2, <2>5 DEF RunInv
  <2>9. run'["loop"].step # "off" => run'["loop"].task \in PlanTasks
    BY <1>3, <1>8, <1>12, <2>1
  <2>10. AboutToSettle(run["worker"])' => AboutToSettle(run["worker"])
    BY <2>1 DEF AboutToSettle
  <2>11. QED
    BY <1>2, <1>5, <1>11, <2>1, <2>3, <2>4, <2>6, <2>7, <2>8, <2>9, <2>10 DEF RunInv
<1>13. CASE th = "worker"
  <2>1. run'["worker"] = r /\ run'["loop"] = run["loop"]
    BY <1>3, <1>9, <1>13 DEF RunInv, RunTypes
  <2>2. /\ AboutToSettle(r) => manifest'[t] \in Settled
        /\ r.step = "return" => row'[t] = MapStatus[manifest'[t]]
        /\ r.step = "raise" => faults' > 0
    <3>1. CASE RunNode(th) \/ ReturnNode(th) \/ RaiseInNode(th) \/ Rescue(th) \/ Conclude(th)
      <4>1. r = run'[th] /\ r.step = "publish"
        BY <1>1, <1>13, <2>1, <3>1 DEF RunNode, ReturnNode, Conclude, RaiseInNode, Rescue, Publishing,
           RunInv, RunTypes, RunRecords
      <4>2. CASE RunNode(th) \/ ReturnNode(th)
        <5>1. r.after = "started" \/ (r.after = "finished" /\ r.node < LastNode)
          BY <1>1, <1>13, <2>1, <4>1, <4>2 DEF RunNode, ReturnNode, Publishing, RunInv, RunTypes, RunRecords
        <5>2. QED
          BY <1>1, <4>1, <5>1 DEF AboutToSettle
      <4>3. CASE RaiseInNode(th) \/ Rescue(th) \/ Conclude(th)
        <5>1. manifest'[t] \in Settled
          BY <1>1, <4>3, LocalRunAssumption DEF RaiseInNode, Rescue, Conclude, Publishing, RunInv, RunTypes, Settled
        <5>2. QED
          BY <4>1, <5>1
      <4>4. QED
        BY <3>1, <4>2, <4>3
    <3>2. CASE Publish(th)
      <4>1. r = Resumed(run[th]) /\ run[th].step = "publish" /\ manifest' = manifest
            /\ row'[t] = MapStatus[manifest[t]]
        BY <1>1, <1>13, <2>1, <3>2 DEF Publish, RunInv, RunTypes
      <4>2. AboutToSettle(r) => AboutToSettle(run[th])
        BY <1>1, <4>1, Resumes
      <4>3. r.step # "raise"
        BY <1>1, <4>1, Resumes
      <4>4. QED
        BY <1>7, <1>13, <4>1, <4>2, <4>3 DEF RunInv
    <3>3. CASE PublishRaises(th)
      <4>1. r = [run[th] EXCEPT !.step = IF run[th].after = "swallow" THEN "raise" ELSE "rescue"]
            /\ run[th].step = "publish" /\ manifest' = manifest /\ faults' = faults + 1
        BY <1>1, <1>3, <1>13, <2>1, <3>3 DEF PublishRaises, RunInv, RunTypes
      <4>2. r.step \in {"raise", "rescue"} /\ (r.step = "raise" => run[th].after = "swallow")
        BY <1>1, <4>1 DEF RunRecords
      <4>3. faults' > 0
        BY <4>1 DEF RunInv, RunTypes
      <4>4. QED
        BY <1>7, <1>13, <4>1, <4>2, <4>3 DEF RunInv, AboutToSettle
    <3>4. QED
      BY <3>1, <3>2, <3>3 DEF RunStep
  <2>3. r.step = "return" => Ended(item)'
    <3>1. r.step = "return" => AboutToSettle(r)
      BY DEF AboutToSettle
    <3>2. QED
      BY <1>1, <1>2, <1>7, <1>13, <2>2, <3>1 DEF Ended
  <2>4. worker = "run" /\ worker' = "run" /\ item' = item /\ t = item
    BY <1>2, <1>7, <1>13
  <2>5. QED
    BY <1>2, <1>3, <1>5, <1>11, <2>1, <2>2, <2>3, <2>4 DEF RunInv
<1>14. QED
  BY <1>9, <1>12, <1>13

(* The steps of the worker thread and of the requests.                     *)
LEMMA RunInvStep ==
  ASSUME QueueInv, RunInv, [LocalNext]_localVars
  PROVE  RunInv'
<1>1. "worker" \in Threads /\ "loop" \in Threads
  BY DEF Threads
<1>2. ASSUME UNCHANGED <<manifest, row, run, faults>>, UNCHANGED <<submitted, worker, item, finished>>
      PROVE  RunInv'
  BY <1>2 DEF RunInv, RunTypes, Ended, AboutToSettle
<1>3. ASSUME NEW t \in Tasks, CreateJob(t) PROVE RunInv'
  <2>1. manifest[t] = "none" /\ UNCHANGED <<submitted, worker, item, finished, run, faults>>
    BY <1>3 DEF CreateJob, queueVars
  <2>2. ASSUME NEW u, Ended(u) PROVE Ended(u)'
    BY <1>3, <2>1, <2>2 DEF CreateJob, Ended, Settled
  <2>3. RunTypes'
    BY <1>3, <2>1 DEF CreateJob, RunInv, RunTypes, MapStatus
  <2>4. ASSUME NEW u, manifest[u] \in Settled PROVE manifest'[u] \in Settled
    BY <1>3, <2>1, <2>4 DEF CreateJob, Settled
  <2>5. QED
    BY <2>1, <2>2, <2>3, <2>4 DEF RunInv, AboutToSettle
<1>4. ASSUME NEW t \in Tasks, EnqueueExisting(t) PROVE RunInv'
  <2>1. submitted' = Append(submitted, t) /\ t \notin PlanTasks /\ submitted \in Seq(Tasks)
    BY <1>4 DEF EnqueueExisting, Enqueue, QueueInv, Shape
  <2>2. \A i \in 1..Len(submitted') : submitted'[i] \notin PlanTasks
    BY <2>1 DEF RunInv
  <2>3. UNCHANGED <<manifest, row, run, faults, worker, item, finished>>
    BY <1>4 DEF EnqueueExisting, Enqueue, runVars
  <2>4. QED
    BY <2>2, <2>3 DEF RunInv, RunTypes, Ended, AboutToSettle
<1>5. ASSUME NEW t \in Tasks, RunInline(t) PROVE RunInv'
  <2>1. /\ UNCHANGED <<submitted, worker, item, finished, manifest, row, faults>> /\ t \in PlanTasks
        /\ run' = [run EXCEPT !["loop"] = [NoRun EXCEPT !.step = "node", !.task = t, !.node = 1]]
    BY <1>5 DEF RunInline, BeginRun, queueVars
  <2>2. run'["worker"] = run["worker"] /\ run'["loop"].step = "node" /\ run'["loop"].task = t
        /\ run'["loop"] \in RunRecords
    BY <1>1, <2>1, Begins DEF RunInv, RunTypes
  <2>3. RunTypes'
    BY <1>1, <2>1, <2>2 DEF RunInv, RunTypes, Threads
  <2>4. QED
    BY <2>1, <2>2, <2>3 DEF RunInv, Ended, AboutToSettle
<1>6. ASSUME InlineEnds PROVE RunInv'
  <2>1. UNCHANGED <<submitted, worker, item, finished, manifest, row, faults>>
        /\ run' = [run EXCEPT !["loop"] = NoRun]
    BY <1>6 DEF InlineEnds, queueVars
  <2>2. run'["worker"] = run["worker"] /\ run'["loop"] = NoRun /\ NoRun \in RunRecords /\ NoRun.step = "off"
    BY <1>1, <2>1, LocalRunAssumption DEF RunInv, RunTypes, NoRun, RunRecords, RunSteps, Continuations
  <2>3. RunTypes'
    BY <1>1, <2>1, <2>2 DEF RunInv, RunTypes, Threads
  <2>4. QED
    BY <2>1, <2>2, <2>3 DEF RunInv, Ended, AboutToSettle
<1>7. ASSUME ClaimAndRun PROVE RunInv'
  <2>1. /\ UNCHANGED <<submitted, item, finished, manifest, row, faults>>
        /\ worker' = "run" /\ worker = "claim"
        /\ run' = [run EXCEPT !["worker"] = [NoRun EXCEPT !.step = "node", !.task = item, !.node = 1]]
    BY <1>7 DEF ClaimAndRun, Claim, BeginRun
  <2>2. item \in Tasks
    BY <2>1, InHand DEF QueueInv, Shape
  <2>3. run'["loop"] = run["loop"] /\ run'["worker"].step = "node" /\ run'["worker"].task = item
        /\ run'["worker"] \in RunRecords
    BY <1>1, <2>1, <2>2, Begins DEF RunInv, RunTypes
  <2>4. RunTypes'
    BY <1>1, <2>1, <2>2, <2>3 DEF RunInv, RunTypes, Threads
  <2>5. QED
    BY <2>1, <2>3, <2>4 DEF RunInv, Ended, AboutToSettle
<1>8. ASSUME RunReturns \/ RunRaises PROVE RunInv'
  <2>1. /\ UNCHANGED <<submitted, item, finished, manifest, row, faults>>
        /\ worker = "run" /\ worker' \in {"release", "abort"}
        /\ run["worker"].step \in {"return", "raise"}
        /\ run' = [run EXCEPT !["worker"] = NoRun]
    BY <1>8 DEF RunReturns, RunRaises, ExecutorReturns, ExecutorRaises, LeaveRun
  <2>2. item \in Tasks
    BY <2>1, InHand DEF QueueInv, Shape
  <2>3. Ended(item)
    BY <2>1, <2>2 DEF RunInv, RunTypes, Ended, AboutToSettle
  <2>4. run'["loop"] = run["loop"] /\ run'["worker"] = NoRun /\ NoRun \in RunRecords /\ NoRun.step = "off"
    BY <1>1, <2>1, LocalRunAssumption DEF RunInv, RunTypes, NoRun, RunRecords, RunSteps, Continuations
  <2>5. RunTypes'
    BY <1>1, <2>1, <2>4 DEF RunInv, RunTypes, Threads
  <2>6. QED
    BY <2>1, <2>3, <2>4, <2>5 DEF RunInv, Ended, AboutToSettle
<1>9. ASSUME QueueStep PROVE RunInv'
  <2>1. UNCHANGED <<submitted, manifest, row, run, faults>>
    BY <1>9 DEF QueueStep, Get, Release, ThreadEnds, runVars
  <2>2. CASE Get
    BY <2>1, <2>2 DEF Get, RunInv, RunTypes, Ended, AboutToSettle
  <2>3. CASE Release
    BY <2>1, <2>3 DEF Release, RunInv, RunTypes, Ended, AboutToSettle
  <2>4. CASE ThreadEnds
    BY <2>1, <2>4 DEF ThreadEnds, RunInv, RunTypes, Ended, AboutToSettle
  <2>5. QED
    BY <1>9, <2>2, <2>3, <2>4 DEF QueueStep
<1>10. ASSUME CallStep, UNCHANGED runVars PROVE RunInv'
  <2>1. UNCHANGED <<submitted, item, finished, manifest, row, run, faults>>
    BY <1>10 DEF CallStep, EnsureWorkerStarted, AppendPending, Put, runVars
  <2>2. worker' = worker \/ (worker' = "get" /\ worker \in {"none", "dead"})
    BY <1>10 DEF CallStep, EnsureWorkerStarted, AppendPending, Put, Alive
  <2>3. QED
    BY <2>1, <2>2 DEF RunInv, RunTypes, Ended, AboutToSettle
<1>11. CASE UNCHANGED localVars
  BY <1>2, <1>11 DEF localVars, queueVars, runVars
<1>12. QED
  BY <1>1, <1>3, <1>4, <1>5, <1>6, <1>7, <1>8, <1>9, <1>10, <1>11, RunStepKeeps
     DEF LocalNext, LoopStep, ThreadStep

(* Hence every run that leaves a task has settled it.                        *)
LEMMA RunInvariant == LocalSpec => []RunInv
<1>1. LocalInit => RunInv
  <2> SUFFICES ASSUME LocalInit PROVE RunInv
    OBVIOUS
  <2>1. NoRun \in RunRecords /\ NoRun.step = "off"
    BY LocalRunAssumption DEF NoRun, RunRecords, RunSteps, Continuations
  <2>2. RunTypes
    BY <2>1 DEF LocalInit, RunTypes, MapStatus
  <2>3. QED
    BY <2>1, <2>2 DEF LocalInit, Init, RunInv, AboutToSettle, Threads
<1>2. QED
  BY <1>1, RunInvStep, QueueInvariant, PTL DEF LocalSpec

(* A task whose execution is over, by return or by exception and whatever  *)
(* publications raised, has a final status in its manifest.                *)
THEOREM FinishedIsSettled == LocalSpec => []FinishedTaskIsSettled
<1>1. RunInv => FinishedTaskIsSettled
  BY DEF RunInv, FinishedTaskIsSettled, Ended
<1>2. QED
  BY <1>1, RunInvariant, PTL

(* Without failing publications its row says the same.                     *)
THEOREM FinishedRowAgrees == LocalSpec => []RowAgreesWhenFinished
<1>1. RunInv => RowAgreesWhenFinished
  BY DEF RunInv, RowAgreesWhenFinished, Ended
<1>2. QED
  BY <1>1, RunInvariant, PTL

===============================================================================
