-------------------------- MODULE DetailPagesProofs --------------------------
(***************************************************************************)
(* What a detail page task promises, for every request, every number of    *)
(* photos, of wrong calls, interrupted runs and deliveries.                *)
(*                                                                         *)
(*   1. The outcome tells the truth about the pages: IInv, an invariant    *)
(*      that does not look into what the planning nodes compute.           *)
(*   2. What the planning nodes compute: lemmas about SelectPageRoles (the *)
(*      pages) and BuildPromptPlan (their photos).  Both are recursive     *)
(*      functions over sequences; each gets a lemma that turns the CHOOSE  *)
(*      behind it into a function f with f[0] and f[i] = step(f[i - 1]),   *)
(*      and facts about f are shown with Induct.                           *)
(*   3. The plan and the photos of every state are those: PlanInv, and     *)
(*      with it the properties of the plan, the calls and the rotation.    *)
(***************************************************************************)
EXTENDS DetailPages, SequenceLemmas, FiniteSetTheorems

Outcomes == {"good", "wrong_size", "failed"}

(* Results belong to pages of the plan, none before there is a plan. *)
ResultsFit ==
    /\ results \in Seq(Outcomes)
    /\ DOMAIN results \subseteq Pages
    /\ step \in {"detail_ingest_assets", "detail_plan"} => results = <<>>

(* A page with a picture has the picture of this delivery on disk. *)
PicturesFresh ==
    \A k \in DOMAIN results : results[k] # "failed" => <<k, delivery>> \in png

(* The render node is left only when every page has a result. *)
AllRendered ==
    step \in {"detail_run_qc", "detail_finalize", "bundle", "closing", "ended"} =>
        Pages \subseteq DOMAIN results

(* The checks pass only if every page is as it should be. *)
VerdictHonest ==
    step \in {"detail_finalize", "bundle", "closing", "ended"} /\ verdict.passed = TRUE =>
        \A k \in Pages : results[k] = "good"

(* What the outcome says, before it is restated as the properties. *)
OutcomeHonest ==
    Concluded => /\ status = "completed" => verdict.passed = TRUE
                 /\ status = "failed" <=> Generated = {}

IInv == ResultsFit /\ PicturesFresh /\ AllRendered /\ VerdictHonest /\ OutcomeHonest /\ BundleIsCurrent

-----------------------------------------------------------------------------
(* The steps of the nodes. *)

(* Appending a result keeps results and pages together. *)
LEMMA ClosedPage ==
  ASSUME results \in Seq(Outcomes), DOMAIN results \subseteq Pages, Current \in Pages,
         NEW o \in Outcomes, results' = Append(results, o), UNCHANGED plan
  PROVE  /\ results' \in Seq(Outcomes)
         /\ DOMAIN results' \subseteq Pages'
         /\ DOMAIN results' = DOMAIN results \cup {Current}
         /\ results'[Current] = o
         /\ \A k \in DOMAIN results : results'[k] = results[k] /\ k # Current
BY DEF Current, Pages

(* Before the render node the steps change neither results nor files. *)
LEMMA PlanningKeeps ==
  ASSUME IInv, IngestAssets \/ MakePlan \/ GenerateCopy \/ GeneratePrompt
  PROVE  IInv'
<1>1. CASE IngestAssets
  BY <1>1 DEF IInv, ResultsFit, PicturesFresh, AllRendered, VerdictHonest, OutcomeHonest,
     BundleIsCurrent, Concluded, Generated, Pages, IngestAssets, input, planned, rendered,
     checked, disk
<1>2. CASE MakePlan
  BY <1>2 DEF IInv, ResultsFit, PicturesFresh, AllRendered, VerdictHonest, OutcomeHonest,
     BundleIsCurrent, Concluded, Generated, Pages, MakePlan, input, rendered, checked, disk
<1>3. CASE GenerateCopy
  BY <1>3 DEF IInv, ResultsFit, PicturesFresh, AllRendered, VerdictHonest, OutcomeHonest,
     BundleIsCurrent, Concluded, Generated, Pages, GenerateCopy, input, rendered, checked, disk
<1>4. CASE GeneratePrompt
  BY <1>4 DEF IInv, ResultsFit, PicturesFresh, AllRendered, VerdictHonest, OutcomeHonest,
     BundleIsCurrent, Concluded, Generated, Pages, GeneratePrompt, input, rendered, checked,
     disk
<1>5. QED
  BY <1>1, <1>2, <1>3, <1>4

(* A page that is closed with a picture has it on disk. *)
LEMMA CallsKeep ==
  ASSUME IInv, \/ \E fits \in BOOLEAN : CallReturns(fits)
               \/ \E transient \in BOOLEAN : CallRaises(transient)
  PROVE  IInv'
<1>1. ASSUME NEW fits \in BOOLEAN, CallReturns(fits)
      PROVE  IInv'
  <2> DEFINE o == IF fits THEN "good" ELSE "wrong_size"
  <2>1. o \in Outcomes /\ results' = Append(results, o) /\ Current \in Pages /\ UNCHANGED plan
    BY <1>1 DEF CallReturns, Close, Rendering, Outcomes, planned
  <2>2. results \in Seq(Outcomes) /\ DOMAIN results \subseteq Pages
    BY DEF IInv, ResultsFit
  <2> HIDE DEF o
  <2>3. /\ results' \in Seq(Outcomes)
        /\ DOMAIN results' \subseteq Pages'
        /\ DOMAIN results' = DOMAIN results \cup {Current}
        /\ \A k \in DOMAIN results : results'[k] = results[k] /\ k # Current
    BY <2>1, <2>2, ClosedPage
  <2>4. step = "detail_render_pages" /\ step' = step /\ delivery' = delivery
    BY <1>1 DEF CallReturns, Rendering, input
  <2>5. ResultsFit'
    BY <2>3, <2>4 DEF ResultsFit
  <2>6. PicturesFresh'
    BY <1>1, <2>3, <2>4 DEF IInv, PicturesFresh, CallReturns
  <2>7. QED
    BY <2>4, <2>5, <2>6 DEF IInv, AllRendered, VerdictHonest, OutcomeHonest, BundleIsCurrent,
       Concluded
<1>2. ASSUME NEW transient \in BOOLEAN, CallRaises(transient)
      PROVE  IInv'
  <2>1. /\ step = "detail_render_pages" /\ step' = step
        /\ UNCHANGED <<delivery, plan, png>> /\ Current \in Pages
    BY <1>2 DEF CallRaises, Rendering, input, planned, disk
  <2>2. results \in Seq(Outcomes) /\ DOMAIN results \subseteq Pages
    BY DEF IInv, ResultsFit
  <2>3. ResultsFit' /\ PicturesFresh'
    <3>1. CASE results' = results
      BY <2>1, <2>2, <3>1 DEF IInv, ResultsFit, PicturesFresh, Pages
    <3>2. CASE results' = Append(results, "failed")
      <4>1. "failed" \in Outcomes
        BY DEF Outcomes
      <4>2. /\ results' \in Seq(Outcomes)
            /\ DOMAIN results' \subseteq Pages'
            /\ DOMAIN results' = DOMAIN results \cup {Current}
            /\ results'[Current] = "failed"
            /\ \A k \in DOMAIN results : results'[k] = results[k]
        BY <2>1, <2>2, <3>2, <4>1, ClosedPage
      <4>3. QED
        BY <2>1, <4>2 DEF IInv, ResultsFit, PicturesFresh
    <3>3. QED
      BY <1>2, <3>1, <3>2 DEF CallRaises, Close
  <2>4. QED
    BY <2>1, <2>3 DEF IInv, AllRendered, VerdictHonest, OutcomeHonest, BundleIsCurrent,
       Concluded
<1>3. QED
  BY <1>1, <1>2

(* The checks pass only for pages that are good; the outcome follows them, and *)
(* the ZIP is a copy of the pictures.                                          *)
LEMMA ClosingKeeps ==
  ASSUME IInv, FinishRender \/ RunQc \/ Conclude \/ BuildBundle \/ FinishRun
  PROVE  IInv'
<1>1. CASE FinishRender
  BY <1>1 DEF IInv, ResultsFit, PicturesFresh, AllRendered, VerdictHonest, OutcomeHonest,
     BundleIsCurrent, Concluded, Generated, Pages, FinishRender, input, planned, rendered,
     checked, disk
<1>2. CASE RunQc
  <2>1. ASSUME verdict'.passed = TRUE
        PROVE  \A k \in Pages : results[k] = "good"
    BY <1>2, <2>1 DEF RunQc, FailsCheck
  <2>2. VerdictHonest'
    BY <1>2, <2>1 DEF VerdictHonest, RunQc, Pages, planned, rendered
  <2>3. QED
    BY <1>2, <2>2 DEF IInv, ResultsFit, PicturesFresh, AllRendered, OutcomeHonest,
       BundleIsCurrent, Concluded, Pages, RunQc, input, planned, rendered, disk
<1>3. CASE Conclude
  <2>1. /\ status' = "completed" => verdict.passed = TRUE
        /\ status' = "failed" <=> Generated = {}
    BY <1>3 DEF Conclude
  <2>2. OutcomeHonest'
    BY <1>3, <2>1 DEF OutcomeHonest, Conclude, Generated, rendered, checked
  <2>3. QED
    BY <1>3, <2>2 DEF IInv, ResultsFit, PicturesFresh, AllRendered, VerdictHonest,
       BundleIsCurrent, Pages, Conclude, input, planned, rendered, checked, disk
<1>4. CASE BuildBundle
  <2>1. BundleIsCurrent'
    BY <1>4 DEF IInv, PicturesFresh, BundleIsCurrent, BuildBundle, Generated, input, rendered
  <2>2. QED
    BY <1>4, <2>1 DEF IInv, ResultsFit, PicturesFresh, AllRendered, VerdictHonest,
       OutcomeHonest, Concluded, Generated, Pages, BuildBundle, input, planned, rendered,
       checked
<1>5. CASE FinishRun
  BY <1>5 DEF IInv, ResultsFit, PicturesFresh, AllRendered, VerdictHonest, OutcomeHonest,
     BundleIsCurrent, Concluded, Generated, Pages, FinishRun, input, planned, rendered,
     checked, disk
<1>6. QED
  BY <1>1, <1>2, <1>3, <1>4, <1>5

(* A delivery that is cut off has no outcome, the next one starts empty. *)
LEMMA InterruptionsKeep ==
  ASSUME IInv, NodeRaises \/ Crash \/ Redeliver \/ Rest
  PROVE  IInv'
<1>1. CASE NodeRaises
  BY <1>1 DEF IInv, ResultsFit, PicturesFresh, AllRendered, VerdictHonest, OutcomeHonest,
     BundleIsCurrent, Concluded, Pages, NodeRaises, input, planned, rendered, disk
<1>2. CASE Crash
  BY <1>2 DEF IInv, ResultsFit, PicturesFresh, AllRendered, VerdictHonest, OutcomeHonest,
     BundleIsCurrent, Concluded, Pages, Crash, input, planned, rendered, disk
<1>3. CASE Redeliver
  <2>1. results' = <<>> /\ <<>> \in Seq(Outcomes) /\ DOMAIN <<>> = {}
    BY <1>3 DEF Redeliver
  <2>2. QED
    BY <1>3, <2>1 DEF IInv, ResultsFit, PicturesFresh, AllRendered, VerdictHonest,
       OutcomeHonest, BundleIsCurrent, Concluded, Redeliver
<1>4. CASE Rest
  BY <1>4 DEF IInv, ResultsFit, PicturesFresh, AllRendered, VerdictHonest, OutcomeHonest,
     BundleIsCurrent, Concluded, Generated, Pages, Rest, vars, input, planned, rendered,
     checked, disk
<1>5. QED
  BY <1>1, <1>2, <1>3, <1>4

(* The invariant holds in every state. *)
THEOREM Invariant == Spec => []IInv
<1>1. Init => IInv
  <2> SUFFICES ASSUME Init PROVE IInv
    OBVIOUS
  <2>1. results = <<>> /\ <<>> \in Seq(Outcomes) /\ DOMAIN <<>> = {}
    BY DEF Init
  <2>2. QED
    BY <2>1 DEF Init, IInv, ResultsFit, PicturesFresh, AllRendered, VerdictHonest,
       OutcomeHonest, BundleIsCurrent, Concluded
<1>2. IInv /\ [Next]_vars => IInv'
  <2> SUFFICES ASSUME IInv, [Next]_vars PROVE IInv'
    OBVIOUS
  <2>1. CASE Next
    BY <2>1, PlanningKeeps, CallsKeep, ClosingKeeps, InterruptionsKeep DEF Next, NodeStep
  <2>2. CASE UNCHANGED vars
    BY <2>2 DEF IInv, ResultsFit, PicturesFresh, AllRendered, VerdictHonest, OutcomeHonest,
       BundleIsCurrent, Concluded, Generated, Pages, vars, input, planned, rendered, checked,
       disk
  <2>3. QED
    BY <2>1, <2>2
<1>3. QED
  BY <1>1, <1>2, PTL DEF Spec

-----------------------------------------------------------------------------
(* The theorems. *)

(* A task is "completed" only if this delivery rendered every planned page in  *)
(* the right shape and the pictures are on disk.                               *)
THEOREM CompletedIsComplete == Spec => []CompletedShowsAllPages
<1>1. IInv => CompletedShowsAllPages
  BY DEF IInv, PicturesFresh, AllRendered, VerdictHonest, OutcomeHonest, Concluded,
     CompletedShowsAllPages
<1>2. QED
  BY <1>1, Invariant, PTL

(* The ZIP of a run that has ended holds the pictures of this delivery, not    *)
(* those of an earlier one.                                                    *)
THEOREM ZipIsCurrent == Spec => []BundleIsCurrent
BY Invariant, PTL DEF IInv

-----------------------------------------------------------------------------
(* The function behind FillUp.                                               *)
FillRun(f, T, target, selected, candidates) ==
    /\ f[0] = selected /\ \A i \in 0..Len(candidates) : f[i] \in Seq(T)
    /\ \A i \in 1..Len(candidates) : f[i] = IF Len(f[i - 1]) < target /\ candidates[i] \notin ToSet(f[i - 1]) THEN Append(f[i - 1], candidates[i]) ELSE f[i - 1]
    /\ FillUp(target, selected, candidates) = f[Len(candidates)]

(* Such a function exists.                                                   *)
LEMMA FillSteps ==
  ASSUME NEW T, NEW target, NEW selected \in Seq(T), NEW candidates \in Seq(T)
  PROVE  \E f : FillRun(f, T, target, selected, candidates)
<1> DEFINE N == Len(candidates)
           V == Seq(T)
           move == [i \in 1..N |-> [v \in V |-> IF Len(v) < target /\ candidates[i] \notin ToSet(v) THEN Append(v, candidates[i]) ELSE v]]
           Body(f) == [i \in 0..N |-> IF i = 0 THEN selected ELSE IF Len(f[i - 1]) < target /\ candidates[i] \notin ToSet(f[i - 1]) THEN Append(f[i - 1], candidates[i]) ELSE f[i - 1]]
           run == CHOOSE f : f = Body(f)
<1>1. N \in Nat /\ selected \in V
  OBVIOUS
<1>2. \A i \in 1..N, v \in V : (IF Len(v) < target /\ candidates[i] \notin ToSet(v) THEN Append(v, candidates[i]) ELSE v) \in V
  OBVIOUS
<1>3. FillUp(target, selected, candidates) = run[N]
  BY DEF FillUp
<1> HIDE DEF N, V, run
<1>4. move \in [1..N -> [V -> V]]
  BY <1>2
<1>5. \A i \in 1..N, v \in V : move[i][v] = IF Len(v) < target /\ candidates[i] \notin ToSet(v) THEN Append(v, candidates[i]) ELSE v
  OBVIOUS
<1> HIDE DEF move
<1>6. PICK f : f \in Recursion(V, N, selected, move)
  BY <1>1, <1>4, RecursionExists, Zenon
<1>7. f \in [0..N -> V] /\ f[0] = selected /\ \A i \in 1..N : f[i - 1] \in V /\ f[i] = move[i][f[i - 1]]
  BY <1>1, <1>6 DEF Recursion
<1>8. f = Body(f)
  <2>1. \A i \in 1..N : f[i] = IF Len(f[i - 1]) < target /\ candidates[i] \notin ToSet(f[i - 1]) THEN Append(f[i - 1], candidates[i]) ELSE f[i - 1]
    BY <1>5, <1>7, Zenon
  <2>2. f = [i \in 0..N |-> f[i]]
    BY <1>7
  <2>3. ASSUME NEW i \in 0..N
        PROVE  f[i] = Body(f)[i]
    <3>1. Body(f)[i] = IF i = 0 THEN selected ELSE IF Len(f[i - 1]) < target /\ candidates[i] \notin ToSet(f[i - 1]) THEN Append(f[i - 1], candidates[i]) ELSE f[i - 1]
      OBVIOUS
    <3>2. i = 0 \/ i \in 1..N
      BY <1>1
    <3> HIDE DEF Body
    <3>3. CASE i = 0
      BY <1>7, <3>1, <3>3, Zenon
    <3>4. CASE i # 0
      BY <2>1, <3>1, <3>2, <3>4, Zenon
    <3>5. QED
      BY <3>3, <3>4
  <2>4. QED
    BY <2>2, <2>3
<1>9. run = Body(run)
  <2> HIDE DEF Body
  <2>1. QED
    BY <1>8 DEF run
<1>10. \A i \in 0..N : Body(run)[i] = IF i = 0 THEN selected ELSE IF Len(run[i - 1]) < target /\ candidates[i] \notin ToSet(run[i - 1]) THEN Append(run[i - 1], candidates[i]) ELSE run[i - 1]
  OBVIOUS
<1> HIDE DEF Body
<1>11. \A i \in 0..N : run[i] = IF i = 0 THEN selected ELSE IF Len(run[i - 1]) < target /\ candidates[i] \notin ToSet(run[i - 1]) THEN Append(run[i - 1], candidates[i]) ELSE run[i - 1]
  BY <1>9, <1>10, Zenon
<1>12. run[0] = selected /\ \A i \in 1..N : run[i] = IF Len(run[i - 1]) < target /\ candidates[i] \notin ToSet(run[i - 1]) THEN Append(run[i - 1], candidates[i]) ELSE run[i - 1]
  <2>1. 0 \in 0..N /\ \A i \in 1..N : i \in 0..N /\ i # 0
    BY <1>1
  <2>2. QED
    BY <1>11, <2>1, Zenon
<1>13. \A i \in 0..N : run[i] \in V
  <2> DEFINE P == {i \in 0..N : run[i] \in V}
  <2>1. 0 \in P
    BY <1>1, <1>12
  <2>2. ASSUME NEW i \in 1..N, (i - 1) \in P
        PROVE  i \in P
    <3>1. run[i - 1] \in V
      BY <2>2
    <3>2. run[i] \in V
      BY <1>2, <1>12, <3>1, Zenon
    <3>3. QED
      BY <1>1, <3>2
  <2> HIDE DEF P
  <2>3. \A i \in 0..N : i \in P
    BY <1>1, <2>1, <2>2, Induct
  <2>4. QED
    BY <2>3 DEF P
<1>14. QED
  BY <1>3, <1>12, <1>13 DEF N, V, FillRun

(* What FillUp keeps and reaches.                                            *)
LEMMA FillFacts ==
  ASSUME NEW T, NEW target \in Nat, NEW selected \in Seq(T), NEW candidates \in Seq(T)
  PROVE  LET full == FillUp(target, selected, candidates)
         IN  /\ full \in Seq(T) /\ Len(full) >= Len(selected)
             /\ \A i \in 1..Len(selected) : full[i] = selected[i]
             /\ Distinct(selected) => Distinct(full)
             /\ ToSet(selected) \subseteq ToSet(full)
             /\ ToSet(full) \subseteq ToSet(selected) \cup ToSet(candidates)
             /\ Len(full) >= target \/ ToSet(candidates) \subseteq ToSet(full)
             /\ Len(selected) >= target => full = selected
<1> DEFINE N == Len(candidates)
<1>1. N \in Nat /\ (\A i \in 1..N : candidates[i] \in T) /\ Len(selected) \in Nat
  OBVIOUS
<1>a. PICK f : FillRun(f, T, target, selected, candidates)
  BY FillSteps, Zenon
<1>2. /\ f[0] = selected /\ \A i \in 0..N : f[i] \in Seq(T)
      /\ \A i \in 1..N : f[i] = IF Len(f[i - 1]) < target /\ candidates[i] \notin ToSet(f[i - 1])
                                THEN Append(f[i - 1], candidates[i]) ELSE f[i - 1]
      /\ FillUp(target, selected, candidates) = f[N]
  BY <1>a, Zenon DEF FillRun
<1> DEFINE Filled(i) == /\ Len(f[i]) >= Len(selected)
                        /\ \A j \in 1..Len(selected) : f[i][j] = selected[j]
                        /\ Distinct(selected) => Distinct(f[i])
                        /\ ToSet(selected) \subseteq ToSet(f[i])
                        /\ ToSet(f[i]) \subseteq ToSet(selected) \cup Prefix(candidates, i)
                        /\ Len(f[i]) >= target \/ Prefix(candidates, i) \subseteq ToSet(f[i])
                        /\ Len(selected) >= target => f[i] = selected
           P == {i \in 0..N : Filled(i)}
<1> HIDE DEF N
<1>3. 0 \in P
  <2>1. Prefix(candidates, 0) = {}
    BY DEF Prefix
  <2>2. Filled(0)
    BY <1>1, <1>2, <2>1
  <2> HIDE DEF Filled
  <2>3. QED
    BY <1>1, <2>2
<1>4. ASSUME NEW i \in 1..N, (i - 1) \in P
      PROVE  i \in P
  <2> DEFINE s == f[i - 1]
             x == candidates[i]
  <2>1. /\ s \in Seq(T) /\ x \in T /\ i \in Nat /\ i > 0 /\ i - 1 \in 0..N
        /\ f[i] = IF Len(s) < target /\ x \notin ToSet(s) THEN Append(s, x) ELSE s
    BY <1>1, <1>2
  <2>2. Filled(i - 1)
    BY <1>4
  <2>3. Prefix(candidates, i) = Prefix(candidates, i - 1) \cup {x}
    BY <2>1, PrefixGrows
  <2>4. /\ Len(s) \in Nat /\ Len(s) >= Len(selected)
        /\ \A j \in 1..Len(selected) : s[j] = selected[j]
        /\ Distinct(selected) => Distinct(s)
        /\ ToSet(selected) \subseteq ToSet(s)
        /\ ToSet(s) \subseteq ToSet(selected) \cup Prefix(candidates, i - 1)
        /\ Len(s) >= target \/ Prefix(candidates, i - 1) \subseteq ToSet(s)
        /\ Len(selected) >= target => s = selected
    BY <2>1, <2>2
  <2> HIDE DEF s, x
  <2>5. CASE Len(s) < target /\ x \notin ToSet(s)
    <3>1. f[i] = Append(s, x)
      BY <2>1, <2>5
    <3>2. /\ Len(f[i]) = Len(s) + 1 /\ ToSet(f[i]) = ToSet(s) \cup {x}
          /\ Distinct(s) /\ x \notin ToSet(s) => Distinct(f[i])
          /\ \A j \in 1..Len(s) : f[i][j] = s[j]
      BY <2>1, <3>1, AppendFacts
    <3>3. Len(f[i]) >= Len(selected) /\ ~(Len(selected) >= target)
      BY <1>1, <2>4, <2>5, <3>2
    <3>4. \A j \in 1..Len(selected) : f[i][j] = selected[j]
      <4>1. \A j \in 1..Len(selected) : j \in 1..Len(s)
        BY <1>1, <2>4
      <4>2. QED
        BY <2>4, <3>2, <4>1
    <3>5. Filled(i)
      BY <2>3, <2>4, <2>5, <3>2, <3>3, <3>4
    <3> HIDE DEF Filled
    <3>6. QED
      BY <1>1, <3>5
  <2>6. CASE ~(Len(s) < target /\ x \notin ToSet(s))
    <3>1. f[i] = s
      BY <2>1, <2>6
    <3>2. Len(s) >= target \/ x \in ToSet(s)
      BY <2>4, <2>6
    <3>3. Filled(i)
      BY <2>3, <2>4, <3>1, <3>2
    <3> HIDE DEF Filled
    <3>4. QED
      BY <1>1, <3>3
  <2>7. QED
    BY <2>5, <2>6
<1> HIDE DEF P
<1>5. N \in P
  <2>1. \A i \in 0..N : i \in P
    BY <1>1, <1>3, <1>4, Induct
  <2>2. QED
    BY <1>1, <2>1
<1>6. Filled(N)
  BY <1>5 DEF P
<1>7. ToSet(candidates) = Prefix(candidates, N)
  BY DEF ToSet, Prefix, N
<1>8. f[N] \in Seq(T)
  BY <1>1, <1>2
<1>9. QED
  BY <1>2, <1>6, <1>7, <1>8

-----------------------------------------------------------------------------
(* The pages. *)

(* A sequence without repetitions has as many elements as it is long.        *)
LEMMA DistinctCounted ==
  ASSUME NEW T, NEW s \in Seq(T), Distinct(s)
  PROVE  IsFiniteSet(ToSet(s)) /\ Cardinality(ToSet(s)) = Len(s)
<1>1. Len(s) \in Nat /\ DOMAIN s = 1..Len(s)
  OBVIOUS
<1>2. s \in [1..Len(s) -> ToSet(s)]
  BY <1>1 DEF ToSet
<1>3. s \in Injection(1..Len(s), ToSet(s))
  BY <1>1, <1>2 DEF Injection, IsInjective, Distinct
<1>4. s \in Surjection(1..Len(s), ToSet(s))
  BY <1>1, <1>2 DEF Surjection, ToSet
<1>5. ExistsBijection(1..Len(s), ToSet(s))
  BY <1>3, <1>4 DEF ExistsBijection, Bijection
<1>6. QED
  BY <1>1, <1>5, FS_CountingElements, FS_NatBijection

(* The template names twelve pages.                                          *)
LEMMA TwelvePages ==
  /\ DefaultSequence \in Seq(PageRoles) /\ Len(DefaultSequence) = 12
  /\ DefaultSequence[1] = "hero_opening" /\ DefaultSequence[2] = "dry_leaf_evidence"
  /\ DefaultSequence[3] = "tea_soup_evidence" /\ DefaultSequence[4] = "parameter_and_closing"
  /\ DefaultSequence[12] = "brand_closing"
<1>1. Len(DefaultSequence) = 12 /\ DOMAIN DefaultSequence = 1..12
  BY DEF DefaultSequence
<1>2. DefaultSequence \in [1..12 -> PageRoles]
  <2>1. DefaultSequence = [i \in 1..12 |-> DefaultSequence[i]]
    BY DEF DefaultSequence
  <2>2. QED
    BY <1>1, <2>1 DEF PageRoles, ToSet
<1>3. DefaultSequence \in Seq(PageRoles)
  BY <1>2, SeqDef
<1>4. QED
  BY <1>1, <1>3 DEF DefaultSequence

(* No page role occurs twice in the template.                                *)
LEMMA TwelveDistinct == Distinct(DefaultSequence)
BY DEF Distinct, DefaultSequence

(* The sequence of the template for any number of pages.                     *)
LEMMA TemplateFacts ==
  ASSUME NEW target \in Nat
  PROVE  LET seq == PageSequence(target)
         IN  /\ seq \in Seq(PageRoles) /\ Distinct(seq) /\ Len(seq) >= 8
             /\ \A i \in 1..8 : seq[i] = DefaultSequence[i]
<1> DEFINE D == DefaultSequence
           seq == PageSequence(target)
<1>1. D \in Seq(PageRoles) /\ Len(D) = 12 /\ Distinct(D) /\ D[12] = "brand_closing"
  BY TwelvePages, TwelveDistinct
<1> HIDE DEF D
<1>2. CASE target \in {8, 9}
  <2>1. seq = UpTo(target, D)
    BY <1>2 DEF PageSequence, D
  <2> HIDE DEF seq
  <2>2. /\ seq \in Seq(PageRoles) /\ Len(seq) = target
        /\ \A i \in 1..Len(seq) : seq[i] = D[i]
        /\ Distinct(seq)
    <3>1. ~(Len(D) < target)
      BY <1>1, <1>2
    <3>2. QED
      BY <1>1, <2>1, <3>1, UpToFacts
  <2>3. Len(seq) >= 8 /\ \A i \in 1..8 : seq[i] = D[i]
    BY <1>2, <2>2
  <2>4. QED
    BY <2>2, <2>3 DEF D, seq
<1>3. CASE target \in {10, 11}
  <2> DEFINE u == UpTo(target - 1, D)
  <2>1. seq = Append(u, "brand_closing")
    BY <1>3 DEF PageSequence, D
  <2>2. (target - 1) \in Nat /\ ~(12 < target - 1) /\ target - 1 \in 9..10
    BY <1>3
  <2> HIDE DEF seq
  <2>3. /\ u \in Seq(PageRoles) /\ Len(u) = target - 1
        /\ \A i \in 1..Len(u) : u[i] = D[i] /\ i \in 1..Len(D)
        /\ Distinct(u)
    BY <1>1, <2>2, UpToFacts
  <2> HIDE DEF u
  <2>4. D[12] \notin ToSet(u)
    <3>1. DOMAIN D = 1..12 /\ DOMAIN u = 1..(target - 1)
      BY <1>1, <2>3
    <3>2. \A i \in 1..(target - 1) : i \in 1..12 /\ i # 12 /\ u[i] = D[i]
      BY <2>2, <2>3
    <3>3. 12 \in DOMAIN D
      BY <3>1
    <3>4. QED
      BY <1>1, <3>1, <3>2, <3>3 DEF Distinct, ToSet
  <2>5. "brand_closing" \in PageRoles
    <3>1. 12 \in 1..Len(D)
      BY <1>1
    <3>2. QED
      BY <1>1, <3>1, ElementOfSeq
  <2>6. /\ seq \in Seq(PageRoles) /\ Len(seq) = target
        /\ \A i \in 1..Len(u) : seq[i] = u[i]
        /\ Distinct(seq)
    BY <1>1, <2>1, <2>2, <2>3, <2>4, <2>5, AppendFacts
  <2>7. Len(seq) >= 8 /\ \A i \in 1..8 : seq[i] = D[i]
    BY <2>2, <2>3, <2>6
  <2>8. QED
    BY <2>6, <2>7 DEF D, seq
<1>4. CASE target \notin {8, 9} /\ target \notin {10, 11}
  <2>1. seq = D
    BY <1>4 DEF PageSequence, D
  <2> HIDE DEF seq
  <2>a. seq \in Seq(PageRoles) /\ Distinct(seq) /\ Len(seq) = 12 /\ \A i \in 1..8 : seq[i] = D[i]
    BY <1>1, <2>1, Zenon
  <2>2. seq \in Seq(PageRoles) /\ Distinct(seq) /\ Len(seq) >= 8 /\ \A i \in 1..8 : seq[i] = D[i]
    BY <2>a
  <2>3. QED
    BY <2>2 DEF D, seq
<1>5. QED
  BY <1>2, <1>3, <1>4

(* The optional pages are the last seven of the template.                    *)
LEMMA OptionalFacts ==
  /\ OptionalRoleCandidates \in Seq(PageRoles) /\ Len(OptionalRoleCandidates) = 7
  /\ \A i \in 1..7 : OptionalRoleCandidates[i] = DefaultSequence[i + 5]
<1>1. OptionalRoleCandidates = SubSeq(DefaultSequence, 6, 12)
  BY DEF OptionalRoleCandidates
<1>2. DefaultSequence \in Seq(PageRoles) /\ Len(DefaultSequence) = 12
  BY TwelvePages
<1>3. ASSUME NEW D \in Seq(PageRoles), Len(D) = 12
      PROVE  /\ SubSeq(D, 6, 12) \in Seq(PageRoles) /\ Len(SubSeq(D, 6, 12)) = 7
             /\ \A i \in 1..7 : SubSeq(D, 6, 12)[i] = D[i + 5]
  <2>1. Len(SubSeq(D, 6, 12)) = 7 /\ \A i \in 1..7 : SubSeq(D, 6, 12)[i] = D[i + 5]
    BY <1>3
  <2>2. \A i \in 6..12 : D[i] \in PageRoles
    <3>1. \A i \in 6..12 : i \in 1..Len(D)
      BY <1>3
    <3>2. QED
      BY <3>1, ElementOfSeq
  <2>3. SubSeq(D, 6, 12) \in Seq(PageRoles)
    BY <1>3, <2>2
  <2>4. QED
    BY <2>1, <2>3
<1>4. QED
  BY <1>1, <1>2, <1>3

(* Every page is in the sequence or may be added to it.                      *)
LEMMA NoPageForgotten ==
  ASSUME NEW target \in Nat
  PROVE  PageRoles \subseteq ToSet(PageSequence(target)) \cup ToSet(OptionalRoleCandidates)
<1>1. SUFFICES ASSUME NEW i \in 1..12
               PROVE  \/ \E j \in DOMAIN PageSequence(target) : DefaultSequence[i] = PageSequence(target)[j]
                      \/ \E j \in DOMAIN OptionalRoleCandidates : DefaultSequence[i] = OptionalRoleCandidates[j]
  <2>1. DOMAIN DefaultSequence = 1..12
    BY TwelvePages
  <2>2. QED
    BY <1>1, <2>1, Zenon DEF PageRoles, ToSet
<1>2. CASE i \in 1..8
  <2>1. i \in DOMAIN PageSequence(target) /\ DefaultSequence[i] = PageSequence(target)[i]
    <3> DEFINE seq == PageSequence(target)
    <3>1. seq \in Seq(PageRoles) /\ Len(seq) >= 8 /\ \A j \in 1..8 : seq[j] = DefaultSequence[j]
      BY TemplateFacts
    <3> HIDE DEF seq
    <3>2. DOMAIN seq = 1..Len(seq) /\ Len(seq) \in Nat
      BY <3>1
    <3>3. i \in DOMAIN seq /\ DefaultSequence[i] = seq[i]
      BY <1>2, <3>1, <3>2
    <3>4. QED
      BY <3>3 DEF seq
  <2>2. QED
    BY <2>1
<1>3. CASE i \in 6..12
  <2>1. (i - 5) \in 1..7 /\ (i - 5) + 5 = i
    BY <1>3
  <2>2. DOMAIN OptionalRoleCandidates = 1..7
    BY OptionalFacts
  <2>3. OptionalRoleCandidates[i - 5] = DefaultSequence[i]
    BY <2>1, OptionalFacts
  <2>4. QED
    BY <2>1, <2>2, <2>3
<1>4. QED
  BY <1>2, <1>3

(* The plan: as many pages as asked for, no role twice, the opening page     *)
(* first, and no page without its photos while there are enough others.      *)
LEMMA PlanFacts ==
  ASSUME NEW target \in 1..12, NEW uploads, HasCoreAsset(uploads)
  PROVE  LET pages == SelectPageRoles(target, uploads)
         IN  /\ pages \in Seq(PageRoles) /\ Len(pages) = target
             /\ Distinct(pages)
             /\ pages[1] = "hero_opening"
             /\ target <= Cardinality(AllowedRoles(uploads)) => ToSet(pages) \subseteq AllowedRoles(uploads)
<1> DEFINE seq == PageSequence(target)
           ok == AllowedRoles(uploads)
           kept == Among(seq, ok)
           extra == Among(OptionalRoleCandidates, ok)
           padded == FillUp(target, kept, extra)
           full == FillUp(target, padded, DefaultSequence)
           pages == UpTo(target, full)
<1>1. target \in Nat /\ target >= 1 /\ target <= 12
  OBVIOUS
<1>2. /\ seq \in Seq(PageRoles) /\ Distinct(seq) /\ Len(seq) >= 8
      /\ seq[1] = "hero_opening" /\ "hero_opening" \in ok
  <2>a. /\ seq \in Seq(PageRoles) /\ Distinct(seq) /\ Len(seq) >= 8
        /\ \A i \in 1..8 : seq[i] = DefaultSequence[i]
    BY <1>1, TemplateFacts
  <2> HIDE DEF seq
  <2>b. Len(seq) \in Nat /\ 1 \in 1..8 /\ 1 \in 1..Len(seq)
    BY <2>a
  <2>1. /\ seq \in Seq(PageRoles) /\ Distinct(seq) /\ Len(seq) >= 8 /\ Len(seq) \in Nat
        /\ seq[1] = "hero_opening" /\ seq[1] \in PageRoles
    BY <2>a, <2>b, TwelvePages
  <2>2. "hero_opening" \in PageRoles
    BY <2>1
  <2>3. QED
    BY <2>1, <2>2 DEF AllowedRoles, RoleIsAllowed
<1>3. SelectPageRoles(target, uploads) = pages
  BY DEF SelectPageRoles
<1>4. PageRoles \subseteq ToSet(seq) \cup ToSet(OptionalRoleCandidates)
  BY <1>1, NoPageForgotten
<1> HIDE DEF seq, ok
<1>5. /\ kept \in Seq(PageRoles) /\ Distinct(kept) /\ ToSet(kept) = ToSet(seq) \cap ok
      /\ Len(kept) > 0 /\ kept[1] = "hero_opening"
  <2>1. Len(seq) > 0
    BY <1>2
  <2>2. QED
    BY <1>2, <2>1, AmongFacts
<1>6. extra \in Seq(PageRoles) /\ ToSet(extra) = ToSet(OptionalRoleCandidates) \cap ok
  BY OptionalFacts, AmongFacts
<1> HIDE DEF kept, extra
<1>7. /\ padded \in Seq(PageRoles) /\ Distinct(padded) /\ Len(padded) >= Len(kept)
      /\ \A i \in 1..Len(kept) : padded[i] = kept[i]
      /\ ToSet(kept) \subseteq ToSet(padded)
      /\ ToSet(padded) \subseteq ToSet(kept) \cup ToSet(extra)
      /\ Len(padded) >= target \/ ToSet(extra) \subseteq ToSet(padded)
  BY <1>1, <1>5, <1>6, FillFacts
<1>8. /\ padded[1] = "hero_opening" /\ Len(padded) > 0 /\ Len(padded) \in Nat
  <2>1. Len(kept) \in Nat /\ Len(padded) \in Nat /\ 1 \in 1..Len(kept)
    BY <1>5, <1>7
  <2>2. QED
    BY <1>5, <1>7, <2>1
<1> HIDE DEF padded
<1>9. DefaultSequence \in Seq(PageRoles)
  BY TwelvePages
<1>10. /\ full \in Seq(PageRoles) /\ Distinct(full) /\ Len(full) >= Len(padded)
       /\ \A i \in 1..Len(padded) : full[i] = padded[i]
       /\ Len(full) >= target \/ ToSet(DefaultSequence) \subseteq ToSet(full)
       /\ Len(padded) >= target => full = padded
  BY <1>1, <1>7, <1>9, FillFacts
<1> HIDE DEF full
<1>11. Len(full) >= target
  <2>1. SUFFICES ASSUME PageRoles \subseteq ToSet(full) PROVE Len(full) >= target
    BY <1>10 DEF PageRoles
  <2>2. IsFiniteSet(ToSet(full)) /\ Cardinality(ToSet(full)) = Len(full)
    BY <1>10, DistinctCounted
  <2>3. Cardinality(PageRoles) = 12
    BY TwelvePages, TwelveDistinct, DistinctCounted DEF PageRoles
  <2>4. Cardinality(PageRoles) <= Cardinality(ToSet(full))
    BY <2>1, <2>2, FS_Subset
  <2>5. Len(full) \in Nat
    BY <1>10
  <2>6. QED
    BY <1>1, <2>2, <2>3, <2>4, <2>5
<1>12. /\ pages \in Seq(PageRoles) /\ Len(pages) = target /\ Distinct(pages)
       /\ \A i \in 1..Len(pages) : pages[i] = full[i]
       /\ ToSet(pages) \subseteq ToSet(full)
  <2>1. Len(full) \in Nat
    BY <1>10
  <2>2. QED
    BY <1>1, <1>10, <1>11, <2>1, UpToFacts
<1> HIDE DEF pages
<1>13. pages[1] = "hero_opening"
  BY <1>1, <1>8, <1>10, <1>12
<1>14. ASSUME target <= Cardinality(ok)
       PROVE  ToSet(pages) \subseteq ok
  <2>1. ToSet(padded) \subseteq ok
    BY <1>5, <1>6, <1>7
  <2>2. Len(padded) >= target
    <3>1. SUFFICES ASSUME ToSet(extra) \subseteq ToSet(padded) PROVE Len(padded) >= target
      BY <1>7
    <3>2. ok \subseteq ToSet(padded)
      <4>1. ok \subseteq PageRoles
        BY DEF ok, AllowedRoles
      <4>2. QED
        BY <1>4, <1>5, <1>6, <1>7, <3>1, <4>1
    <3>3. IsFiniteSet(ToSet(padded)) /\ Cardinality(ToSet(padded)) = Len(padded)
      BY <1>7, DistinctCounted
    <3>4. Cardinality(ok) <= Len(padded) /\ Cardinality(ok) \in Nat
      BY <3>2, <3>3, FS_Subset, FS_CardinalityType
    <3>5. QED
      BY <1>1, <1>8, <1>14, <3>4
  <2>3. QED
    BY <1>10, <1>12, <2>1, <2>2
<1>15. QED
  BY <1>3, <1>12, <1>13, <1>14 DEF ok

-----------------------------------------------------------------------------
(* The photos. *)

Assets == AssetRoles \X Nat
Drawn == [AssetRoles -> Nat]
Binding == [refs : Seq(Assets), drawn : Drawn]

(* s goes on where t begins.                                                 *)
Continues(s, t) == Len(s) >= Len(t) /\ \A i \in 1..Len(t) : s[i] = t[i]

(* One photo more, or none: its role is there afterwards.                    *)
LEMMA AppendRefFacts ==
  ASSUME NEW b \in Binding, NEW asset \in Assets
  PROVE  LET r == AppendRef(b, asset)
         IN  /\ r \in Binding /\ r.drawn = b.drawn
             /\ Continues(r.refs, b.refs) /\ Len(r.refs) <= Len(b.refs) + 1
             /\ asset[1] \in RolesOf(r.refs)
             /\ RolesOf(b.refs) \subseteq RolesOf(r.refs)
             /\ Distinct(b.refs) => Distinct(r.refs)
             /\ asset[1] \notin RolesOf(b.refs) => asset \in ToSet(r.refs)
<1> DEFINE same == {i \in DOMAIN b.refs : b.refs[i][1] = asset[1]}
           full == asset \in ToSet(b.refs) \/ Cardinality(same) >= MaxPerRole(asset[1])
<1>1. b.refs \in Seq(Assets) /\ b.drawn \in Drawn /\ b = [refs |-> b.refs, drawn |-> b.drawn]
      /\ Len(b.refs) \in Nat /\ DOMAIN b.refs = 1..Len(b.refs)
  BY DEF Binding
<1>2. AppendRef(b, asset) = IF full THEN b ELSE [b EXCEPT !.refs = Append(b.refs, asset)]
  BY DEF AppendRef
<1>3. CASE full
  <2>1. asset[1] \in RolesOf(b.refs)
    <3>1. CASE asset \in ToSet(b.refs)
      BY <3>1 DEF RolesOf
    <3>2. CASE Cardinality(same) >= MaxPerRole(asset[1])
      <4>1. same # {}
        <5>1. SUFFICES ASSUME same = {} PROVE FALSE
          OBVIOUS
        <5>2. Cardinality(same) = 0
          BY <5>1, FS_EmptySet
        <5>3. MaxPerRole(asset[1]) \in {1, 2}
          BY DEF MaxPerRole
        <5>4. QED
          BY <3>2, <5>2, <5>3
      <4>2. PICK i \in DOMAIN b.refs : b.refs[i][1] = asset[1]
        BY <4>1
      <4>3. QED
        BY <4>2 DEF RolesOf, ToSet
    <3>3. QED
      BY <1>3, <3>1, <3>2
  <2>2. AppendRef(b, asset) = b
    BY <1>2, <1>3
  <2> HIDE DEF full
  <2>3. QED
    BY <1>1, <2>1, <2>2 DEF Continues
<1>4. CASE ~full
  <2>1. asset \notin ToSet(b.refs)
    BY <1>4
  <2> DEFINE a == Append(b.refs, asset)
  <2>2. AppendRef(b, asset) = [refs |-> a, drawn |-> b.drawn]
    BY <1>1, <1>2, <1>4
  <2>3. /\ a \in Seq(Assets) /\ Len(a) = Len(b.refs) + 1
        /\ \A i \in 1..Len(b.refs) : a[i] = b.refs[i]
        /\ ToSet(a) = ToSet(b.refs) \cup {asset}
        /\ Distinct(b.refs) => Distinct(a)
    BY <1>1, <2>1, AppendFacts
  <2> HIDE DEF a, full
  <2>4. RolesOf(a) = RolesOf(b.refs) \cup {asset[1]}
    BY <2>3 DEF RolesOf
  <2>5. [refs |-> a, drawn |-> b.drawn] \in Binding
    BY <1>1, <2>3 DEF Binding
  <2>6. QED
    BY <1>1, <2>2, <2>3, <2>4, <2>5 DEF Continues
<1>5. QED
  BY <1>3, <1>4

(* The count of one role goes up.                                            *)
LEMMA CountOne ==
  ASSUME NEW b \in Binding, NEW role \in AssetRoles
  PROVE  LET c == [b EXCEPT !.drawn[role] = @ + 1]
         IN  c \in Binding /\ c.refs = b.refs /\ c.drawn = [b.drawn EXCEPT ![role] = @ + 1]
<1> DEFINE c == [b EXCEPT !.drawn[role] = @ + 1]
<1>1. c.refs = b.refs /\ c.drawn = [b.drawn EXCEPT ![role] = @ + 1]
  BY DEF Binding, Drawn
<1> DEFINE d == [b.drawn EXCEPT ![role] = @ + 1]
<1>2. c = [b EXCEPT !.drawn = d]
  BY DEF Binding, Drawn
<1>3. b = [refs |-> b.refs, drawn |-> b.drawn]
  BY DEF Binding
<1> HIDE DEF d
<1>4. [b EXCEPT !.drawn = d] = [refs |-> b.refs, drawn |-> d]
  BY <1>3
<1>5. c = [refs |-> c.refs, drawn |-> c.drawn]
  BY <1>1, <1>2, <1>4, Zenon DEF d
<1>6. b.refs \in Seq(Assets) /\ [b.drawn EXCEPT ![role] = @ + 1] \in Drawn
  BY DEF Binding, Drawn
<1> HIDE DEF c
<1>7. c \in Binding
  BY <1>1, <1>5, <1>6 DEF Binding
<1>8. QED
  BY <1>1, <1>7 DEF c

(* A photo of a role that has one is shown, and the count of the role goes   *)
(* up.                                                                       *)
LEMMA NextAssetFacts ==
  ASSUME NEW uploads \in [AssetRoles -> Nat], NEW b \in Binding, NEW role \in AssetRoles
  PROVE  LET r == NextAsset(uploads, b, role)
         IN  /\ r \in Binding
             /\ Continues(r.refs, b.refs) /\ Len(r.refs) <= Len(b.refs) + 1
             /\ uploads[role] > 0 => role \in RolesOf(r.refs)
             /\ RolesOf(b.refs) \subseteq RolesOf(r.refs)
             /\ Distinct(b.refs) => Distinct(r.refs)
             /\ uploads[role] > 0 => r.drawn = [b.drawn EXCEPT ![role] = @ + 1]
             /\ uploads[role] = 0 => r = b
             /\ uploads[role] > 0 /\ role \notin RolesOf(b.refs) =>
                  <<role, b.drawn[role] % uploads[role]>> \in ToSet(r.refs)
<1>1. /\ b.refs \in Seq(Assets) /\ b.drawn \in Drawn /\ b = [refs |-> b.refs, drawn |-> b.drawn]
      /\ Len(b.refs) \in Nat /\ uploads[role] \in Nat /\ b.drawn[role] \in Nat
  BY DEF Binding, Drawn
<1>2. CASE uploads[role] = 0
  BY <1>1, <1>2 DEF NextAsset, Continues
<1>3. CASE uploads[role] > 0
  <2> DEFINE c == [b EXCEPT !.drawn[role] = @ + 1]
             asset == <<role, b.drawn[role] % uploads[role]>>
  <2>1. NextAsset(uploads, b, role) = AppendRef(c, asset)
    BY <1>1, <1>3 DEF NextAsset
  <2>2. c \in Binding
    BY CountOne
  <2>3. asset \in Assets /\ asset[1] = role
    BY <1>1, <1>3 DEF Assets
  <2>4. c.refs = b.refs /\ c.drawn = [b.drawn EXCEPT ![role] = @ + 1]
    BY CountOne
  <2> HIDE DEF c, asset
  <2> DEFINE r == AppendRef(c, asset)
  <2>5. /\ r \in Binding /\ r.drawn = c.drawn
        /\ Continues(r.refs, c.refs) /\ Len(r.refs) <= Len(c.refs) + 1
        /\ asset[1] \in RolesOf(r.refs)
        /\ RolesOf(c.refs) \subseteq RolesOf(r.refs)
        /\ Distinct(c.refs) => Distinct(r.refs)
        /\ asset[1] \notin RolesOf(c.refs) => asset \in ToSet(r.refs)
    BY <2>2, <2>3, AppendRefFacts
  <2> HIDE DEF r
  <2>6. NextAsset(uploads, b, role) = r
    BY <2>1 DEF r
  <2>7. ~(uploads[role] = 0)
    BY <1>3
  <2>8. QED
    BY <2>3, <2>4, <2>5, <2>6, <2>7, Zenon DEF asset
<1>4. QED
  BY <1>1, <1>2, <1>3

(* The function behind Draw.                                                 *)
DrawRun(f, uploads, b, roles) ==
    /\ f[0] = b /\ \A i \in 0..Len(roles) : f[i] \in Binding
    /\ \A i \in 1..Len(roles) : f[i] = NextAsset(uploads, f[i - 1], roles[i])
    /\ Draw(uploads, b, roles) = f[Len(roles)]

(* Such a function exists.                                                   *)
LEMMA DrawSteps ==
  ASSUME NEW uploads \in [AssetRoles -> Nat], NEW b \in Binding, NEW roles \in Seq(AssetRoles)
  PROVE  \E f : DrawRun(f, uploads, b, roles)
<1> DEFINE N == Len(roles)
           V == Binding
           move == [i \in 1..N |-> [v \in V |-> NextAsset(uploads, v, roles[i])]]
           Body(f) == [i \in 0..N |-> IF i = 0 THEN b ELSE NextAsset(uploads, f[i - 1], roles[i])]
           run == CHOOSE f : f = Body(f)
<1>1. N \in Nat /\ b \in V
  OBVIOUS
<1>2. \A i \in 1..N, v \in V : (NextAsset(uploads, v, roles[i])) \in V
  BY ElementOfSeq, NextAssetFacts
<1>3. Draw(uploads, b, roles) = run[N]
  BY DEF Draw
<1> HIDE DEF N, V, run
<1>4. move \in [1..N -> [V -> V]]
  BY <1>2
<1>5. \A i \in 1..N, v \in V : move[i][v] = NextAsset(uploads, v, roles[i])
  OBVIOUS
<1> HIDE DEF move
<1>6. PICK f : f \in Recursion(V, N, b, move)
  BY <1>1, <1>4, RecursionExists, Zenon
<1>7. f \in [0..N -> V] /\ f[0] = b /\ \A i \in 1..N : f[i - 1] \in V /\ f[i] = move[i][f[i - 1]]
  BY <1>1, <1>6 DEF Recursion
<1>8. f = Body(f)
  <2>1. \A i \in 1..N : f[i] = NextAsset(uploads, f[i - 1], roles[i])
    BY <1>5, <1>7, Zenon
  <2>2. f = [i \in 0..N |-> f[i]]
    BY <1>7
  <2>3. ASSUME NEW i \in 0..N
        PROVE  f[i] = Body(f)[i]
    <3>1. Body(f)[i] = IF i = 0 THEN b ELSE NextAsset(uploads, f[i - 1], roles[i])
      OBVIOUS
    <3>2. i = 0 \/ i \in 1..N
      BY <1>1
    <3> HIDE DEF Body
    <3>3. CASE i = 0
      BY <1>7, <3>1, <3>3, Zenon
    <3>4. CASE i # 0
      BY <2>1, <3>1, <3>2, <3>4, Zenon
    <3>5. QED
      BY <3>3, <3>4
  <2>4. QED
    BY <2>2, <2>3
<1>9. run = Body(run)
  <2> HIDE DEF Body
  <2>1. QED
    BY <1>8 DEF run
<1>10. \A i \in 0..N : Body(run)[i] = IF i = 0 THEN b ELSE NextAsset(uploads, run[i - 1], roles[i])
  OBVIOUS
<1> HIDE DEF Body
<1>11. \A i \in 0..N : run[i] = IF i = 0 THEN b ELSE NextAsset(uploads, run[i - 1], roles[i])
  BY <1>9, <1>10, Zenon
<1>12. run[0] = b /\ \A i \in 1..N : run[i] = NextAsset(uploads, run[i - 1], roles[i])
  <2>1. 0 \in 0..N /\ \A i \in 1..N : i \in 0..N /\ i # 0
    BY <1>1
  <2>2. QED
    BY <1>11, <2>1, Zenon
<1>13. \A i \in 0..N : run[i] \in V
  <2> DEFINE P == {i \in 0..N : run[i] \in V}
  <2>1. 0 \in P
    BY <1>1, <1>12
  <2>2. ASSUME NEW i \in 1..N, (i - 1) \in P
        PROVE  i \in P
    <3>1. run[i - 1] \in V
      BY <2>2
    <3>2. run[i] \in V
      BY <1>2, <1>12, <3>1, Zenon
    <3>3. QED
      BY <1>1, <3>2
  <2> HIDE DEF P
  <2>3. \A i \in 0..N : i \in P
    BY <1>1, <2>1, <2>2, Induct
  <2>4. QED
    BY <2>3 DEF P
<1>14. QED
  BY <1>3, <1>12, <1>13 DEF N, V, DrawRun

(* A draw shows every role it goes through, and adds at most one photo each. *)
LEMMA DrawFacts ==
  ASSUME NEW uploads \in [AssetRoles -> Nat], NEW b \in Binding, NEW roles \in Seq(AssetRoles)
  PROVE  LET r == Draw(uploads, b, roles)
         IN  /\ r \in Binding
             /\ Continues(r.refs, b.refs) /\ Len(r.refs) <= Len(b.refs) + Len(roles)
             /\ \A role \in ToSet(roles) : uploads[role] > 0 => role \in RolesOf(r.refs)
             /\ Distinct(b.refs) => Distinct(r.refs)
             /\ "packaging" \notin ToSet(roles) => r.drawn["packaging"] = b.drawn["packaging"]
<1> DEFINE N == Len(roles)
<1>1. N \in Nat /\ (\A i \in 1..N : roles[i] \in AssetRoles) /\ Len(b.refs) \in Nat
  BY ElementOfSeq DEF Binding
<1>a. PICK f : DrawRun(f, uploads, b, roles)
  BY DrawSteps, Zenon
<1>2. /\ f[0] = b /\ \A i \in 0..N : f[i] \in Binding
      /\ \A i \in 1..N : f[i] = NextAsset(uploads, f[i - 1], roles[i])
      /\ Draw(uploads, b, roles) = f[N]
  BY <1>a, Zenon DEF DrawRun
<1> DEFINE Fine(i) == /\ Continues(f[i].refs, b.refs) /\ Len(f[i].refs) <= Len(b.refs) + i
                      /\ \A role \in Prefix(roles, i) : uploads[role] > 0 => role \in RolesOf(f[i].refs)
                      /\ Distinct(b.refs) => Distinct(f[i].refs)
                      /\ "packaging" \notin ToSet(roles) => f[i].drawn["packaging"] = b.drawn["packaging"]
           P == {i \in 0..N : Fine(i)}
<1> HIDE DEF N
<1>3. 0 \in P
  <2>1. Prefix(roles, 0) = {}
    BY DEF Prefix
  <2>2. Fine(0)
    BY <1>1, <1>2, <2>1 DEF Continues
  <2> HIDE DEF Fine
  <2>3. QED
    BY <1>1, <2>2
<1>4. ASSUME NEW i \in 1..N, (i - 1) \in P
      PROVE  i \in P
  <2> DEFINE v == f[i - 1]
             x == roles[i]
             w == f[i]
  <2>1. /\ v \in Binding /\ x \in AssetRoles /\ i \in Nat /\ i > 0 /\ i - 1 \in 0..N
        /\ w = NextAsset(uploads, v, x)
    BY <1>1, <1>2
  <2>2. Fine(i - 1)
    BY <1>4
  <2>3. Prefix(roles, i) = Prefix(roles, i - 1) \cup {x}
    BY <2>1, PrefixGrows
  <2>4. /\ Continues(v.refs, b.refs) /\ Len(v.refs) <= Len(b.refs) + (i - 1)
        /\ \A role \in Prefix(roles, i - 1) : uploads[role] > 0 => role \in RolesOf(v.refs)
        /\ Distinct(b.refs) => Distinct(v.refs)
        /\ "packaging" \notin ToSet(roles) => v.drawn["packaging"] = b.drawn["packaging"]
    BY <2>2
  <2>5. "packaging" \notin ToSet(roles) => x # "packaging"
    BY DEF ToSet, N
  <2> HIDE DEF v, x, w
  <2>6. /\ w \in Binding
        /\ Continues(w.refs, v.refs) /\ Len(w.refs) <= Len(v.refs) + 1
        /\ uploads[x] > 0 => x \in RolesOf(w.refs)
        /\ RolesOf(v.refs) \subseteq RolesOf(w.refs)
        /\ Distinct(v.refs) => Distinct(w.refs)
        /\ uploads[x] > 0 => w.drawn = [v.drawn EXCEPT ![x] = @ + 1]
        /\ uploads[x] = 0 => w = v
    BY <2>1, NextAssetFacts
  <2>7. Len(v.refs) \in Nat /\ Len(w.refs) \in Nat /\ v.drawn \in Drawn /\ uploads[x] \in Nat
    BY <2>1, <2>6 DEF Binding
  <2>8. Continues(w.refs, b.refs) /\ Len(w.refs) <= Len(b.refs) + i
    <3>1. Len(w.refs) >= Len(v.refs) /\ Len(v.refs) >= Len(b.refs)
      BY <2>4, <2>6 DEF Continues
    <3>2. Len(w.refs) >= Len(b.refs) /\ Len(w.refs) <= Len(b.refs) + i
      BY <1>1, <2>1, <2>4, <2>6, <2>7, <3>1
    <3>3. \A j \in 1..Len(b.refs) : j \in 1..Len(v.refs)
      BY <1>1, <2>7, <3>1
    <3>4. \A j \in 1..Len(b.refs) : w.refs[j] = b.refs[j]
      BY <2>4, <2>6, <3>3, Zenon DEF Continues
    <3>5. QED
      BY <3>2, <3>4 DEF Continues
  <2>9. \A role \in Prefix(roles, i) : uploads[role] > 0 => role \in RolesOf(w.refs)
    BY <2>3, <2>4, <2>6
  <2>10. x # "packaging" => w.drawn["packaging"] = v.drawn["packaging"]
    <3>1. "packaging" \in AssetRoles
      BY DEF AssetRoles, CoreRoles
    <3>2. QED
      BY <2>6, <2>7, <3>1 DEF Drawn
  <2>11. Fine(i)
    BY <2>4, <2>5, <2>6, <2>8, <2>9, <2>10 DEF w
  <2> HIDE DEF Fine
  <2>12. QED
    BY <1>1, <2>11
<1> HIDE DEF P
<1>5. N \in P
  <2>1. \A i \in 0..N : i \in P
    BY <1>1, <1>3, <1>4, Induct
  <2>2. QED
    BY <1>1, <2>1
<1>6. Fine(N)
  BY <1>5 DEF P
<1>7. ToSet(roles) = Prefix(roles, N)
  BY DEF ToSet, Prefix, N
<1>8. f[N] \in Binding
  BY <1>1, <1>2
<1>9. QED
  BY <1>2, <1>6, <1>7, <1>8 DEF N

(* The lists of the template. *)
LEMMA ShortLists ==
  ASSUME NEW T
  PROVE  /\ <<>> \in Seq(T) /\ Len(<<>>) = 0
         /\ \A x \in T : <<x>> \in Seq(T) /\ Len(<<x>>) = 1 /\ <<x>>[1] = x
         /\ \A x, y \in T : /\ <<x, y>> \in Seq(T) /\ Len(<<x, y>>) = 2
                            /\ <<x, y>>[1] = x /\ <<x, y>>[2] = y
OBVIOUS

(* The lists of the template name roles of photos, the first and third at most two.*)
LEMMA BlueprintFacts ==
  ASSUME NEW page
  PROVE  /\ BlueprintAnchors(page) \in Seq(AssetRoles) /\ Len(BlueprintAnchors(page)) <= 2
         /\ BlueprintPreferred(page) \in Seq(AssetRoles)
         /\ BlueprintSupplements(page) \in Seq(AssetRoles) /\ Len(BlueprintSupplements(page)) <= 2
<1>1. {"main_result", "packaging", "dry_leaf", "leaf_bottom", "tea_soup", "scene_ref", "bg_ref"}
        = AssetRoles
  BY DEF AssetRoles, CoreRoles, SupplementRoles
<1> DEFINE T == AssetRoles
<1>2. /\ "main_result" \in T /\ "packaging" \in T /\ "dry_leaf" \in T /\ "leaf_bottom" \in T
      /\ "tea_soup" \in T /\ "scene_ref" \in T /\ "bg_ref" \in T
  BY <1>1
<1> HIDE DEF T
<1>3. BlueprintAnchors(page) \in Seq(T) /\ Len(BlueprintAnchors(page)) <= 2
  BY <1>2, ShortLists DEF BlueprintAnchors
<1>4. BlueprintPreferred(page) \in Seq(T)
  BY <1>2, ShortLists DEF BlueprintPreferred
<1>5. BlueprintSupplements(page) \in Seq(T) /\ Len(BlueprintSupplements(page)) <= 2
  BY <1>2, ShortLists DEF BlueprintSupplements
<1>6. QED
  BY <1>3, <1>4, <1>5 DEF T

(* The anchors and the suggestions of a page are roles with a photo. *)
LEMMA AnchorFacts ==
  ASSUME NEW page, NEW uploads \in [AssetRoles -> Nat]
  PROVE  LET anchors == PageAnchors(page, uploads)
         IN  /\ anchors \in Seq(AssetRoles) /\ Len(anchors) <= 2
             /\ \A role \in ToSet(anchors) : role \in AssetRoles /\ uploads[role] > 0
<1> DEFINE B == BlueprintAnchors(page)
           has == {r \in AssetRoles : uploads[r] > 0}
           A == Among(B, has)
<1>1. PageAnchors(page, uploads) = A
  BY DEF PageAnchors, Uploaded
<1>2. B \in Seq(AssetRoles) /\ Len(B) <= 2 /\ Len(B) \in Nat
  BY BlueprintFacts
<1> HIDE DEF B
<1>3. A \in Seq(AssetRoles) /\ Len(A) <= Len(B) /\ ToSet(A) = ToSet(B) \cap has
  BY <1>2, AmongFacts
<1>4. Len(A) \in Nat
  BY <1>3
<1> HIDE DEF A
<1>5. QED
  BY <1>1, <1>2, <1>3, <1>4

(* Suggestions are roles of photos; a page with anchors suggests its anchors.*)
LEMMA SuggestedFacts ==
  ASSUME NEW page, NEW uploads \in [AssetRoles -> Nat], NEW mainFirst
  PROVE  /\ SuggestedRoles(page, uploads, mainFirst) \in Seq(AssetRoles)
         /\ PageAnchors(page, uploads) # <<>> =>
              SuggestedRoles(page, uploads, mainFirst) = PageAnchors(page, uploads)
<1> DEFINE has == {r \in AssetRoles : uploads[r] > 0}
           A == PageAnchors(page, uploads)
           P == Uploaded(BlueprintPreferred(page), uploads)
           F == FallbackRoles(uploads, mainFirst)
           rest == <<"dry_leaf", "leaf_bottom", "tea_soup", "scene_ref", "bg_ref">>
<1>1. A \in Seq(AssetRoles) /\ Len(A) <= 2 /\ Len(A) \in Nat
  BY AnchorFacts
<1>2. P \in Seq(AssetRoles)
  BY BlueprintFacts, AmongFacts DEF Uploaded
<1>3. F \in Seq(AssetRoles)
  <2>1. PreferredCore(mainFirst) \in Seq(AssetRoles) /\ rest \in Seq(AssetRoles)
    <3> DEFINE T == AssetRoles
    <3>1. /\ "main_result" \in T /\ "packaging" \in T /\ "dry_leaf" \in T /\ "leaf_bottom" \in T
          /\ "tea_soup" \in T /\ "scene_ref" \in T /\ "bg_ref" \in T
      BY DEF AssetRoles, CoreRoles, SupplementRoles
    <3> HIDE DEF T
    <3>2. PreferredCore(mainFirst) \in Seq(T)
      BY <3>1, ShortLists DEF PreferredCore
    <3>3. rest \in Seq(T)
      BY <3>1
    <3>4. QED
      BY <3>2, <3>3 DEF T
  <2> HIDE DEF rest
  <2>2. PreferredCore(mainFirst) \o rest \in Seq(AssetRoles)
    BY <2>1
  <2>3. QED
    BY <2>2, AmongFacts DEF FallbackRoles, Uploaded, rest
<1> DEFINE chosen == IF A # <<>> THEN A ELSE IF P # <<>> THEN P ELSE F
<1>4. SuggestedRoles(page, uploads, mainFirst) = UpTo(3, chosen)
  BY DEF SuggestedRoles
<1> HIDE DEF A, P, F
<1>5. chosen \in Seq(AssetRoles)
  BY <1>1, <1>2, <1>3
<1>6. A # <<>> => UpTo(3, chosen) = A
  BY <1>1 DEF UpTo
<1> HIDE DEF chosen
<1>7. UpTo(3, chosen) \in Seq(AssetRoles)
  BY <1>5, UpToFacts
<1>8. QED
  BY <1>4, <1>6, <1>7 DEF A

(* The pool holds the photos of the two core roles. *)
LEMMA PoolFacts ==
  ASSUME NEW uploads \in [AssetRoles -> Nat], NEW mainFirst \in BOOLEAN
  PROVE  LET pool == PackagingPool(uploads, mainFirst)
             first == PreferredCore(mainFirst)[1]
             second == PreferredCore(mainFirst)[2]
         IN  /\ pool \in Seq(CoreRoles \X Nat)
             /\ Len(pool) = uploads[first] + uploads[second]
             /\ \A i \in 1..uploads[first] : pool[i] = <<first, i - 1>>
             /\ \A i \in 1..uploads[second] : pool[uploads[first] + i] = <<second, i - 1>>
             /\ HasCoreAsset(uploads) => Len(pool) > 0
<1> DEFINE a == PreferredCore(mainFirst)[1]
           b == PreferredCore(mainFirst)[2]
           s == AssetsOf(a, uploads)
           t == AssetsOf(b, uploads)
<1>1. CoreRoles = {a, b} /\ a \in AssetRoles /\ b \in AssetRoles
  BY DEF PreferredCore, CoreRoles, AssetRoles
<1>2. PackagingPool(uploads, mainFirst) = s \o t
  BY DEF PackagingPool
<1> HIDE DEF a, b
<1>3. uploads[a] \in Nat /\ uploads[b] \in Nat
  BY <1>1
<1>4. /\ s \in Seq(CoreRoles \X Nat) /\ Len(s) = uploads[a]
      /\ \A i \in 1..uploads[a] : s[i] = <<a, i - 1>>
  BY <1>1, <1>3 DEF AssetsOf
<1>5. /\ t \in Seq(CoreRoles \X Nat) /\ Len(t) = uploads[b]
      /\ \A i \in 1..uploads[b] : t[i] = <<b, i - 1>>
  BY <1>1, <1>3 DEF AssetsOf
<1> HIDE DEF s, t
<1>6. /\ s \o t \in Seq(CoreRoles \X Nat) /\ Len(s \o t) = uploads[a] + uploads[b]
      /\ \A i \in 1..uploads[a] : (s \o t)[i] = <<a, i - 1>>
  <2> DEFINE C == CoreRoles \X Nat
  <2>1. s \in Seq(C) /\ t \in Seq(C)
    BY <1>4, <1>5
  <2> HIDE DEF C
  <2>2. s \o t \in Seq(C) /\ Len(s \o t) = Len(s) + Len(t) /\ \A i \in 1..Len(s) : (s \o t)[i] = s[i]
    BY <2>1
  <2>3. \A i \in 1..uploads[a] : (s \o t)[i] = s[i]
    BY <1>4, <2>2
  <2>4. QED
    BY <1>4, <1>5, <2>2, <2>3 DEF C
<1>7. \A i \in 1..uploads[b] : (s \o t)[uploads[a] + i] = <<b, i - 1>>
  <2>1. SUFFICES ASSUME NEW i \in 1..uploads[b] PROVE (s \o t)[uploads[a] + i] = t[i]
    BY <1>5
  <2>2. Len(s) + i \in 1..(Len(s) + Len(t)) /\ ~(Len(s) + i <= Len(s)) /\ (Len(s) + i) - Len(s) = i
    BY <1>3, <1>4, <1>5
  <2>3. QED
    BY <1>3, <1>4, <1>5, <2>2
<1>8. HasCoreAsset(uploads) => uploads[a] + uploads[b] > 0
  BY <1>1, <1>3 DEF HasCoreAsset
<1>9. QED
  BY <1>2, <1>6, <1>7, <1>8 DEF a, b
(* The pool adds a photo of a core role, unless the page has one.            *)
LEMMA NextOfPoolFacts ==
  ASSUME NEW uploads \in [AssetRoles -> Nat], NEW mainFirst \in BOOLEAN, HasCoreAsset(uploads),
         NEW b \in Binding
  PROVE  LET r == NextOfPool(uploads, mainFirst, b)
             pool == PackagingPool(uploads, mainFirst)
             asset == pool[(b.drawn["packaging"] % Len(pool)) + 1]
         IN  /\ r \in Binding
             /\ Continues(r.refs, b.refs) /\ Len(r.refs) <= Len(b.refs) + 1
             /\ RolesOf(b.refs) \subseteq RolesOf(r.refs)
             /\ RolesOf(r.refs) \cap CoreRoles # {}
             /\ Distinct(b.refs) => Distinct(r.refs)
             /\ r.drawn["packaging"] = b.drawn["packaging"] + 1
             /\ \E c \in Binding : c.refs = b.refs /\ r = AppendRef(c, asset)
<1> DEFINE pool == PackagingPool(uploads, mainFirst)
           asset == pool[(b.drawn["packaging"] % Len(pool)) + 1]
           c == [b EXCEPT !.drawn["packaging"] = @ + 1]
           r == AppendRef(c, asset)
<1>1. pool \in Seq(CoreRoles \X Nat) /\ Len(pool) > 0
  BY PoolFacts
<1>2. pool # <<>>
  BY <1>1
<1>3. NextOfPool(uploads, mainFirst, b) = r
  BY <1>2 DEF NextOfPool
<1>4. "packaging" \in AssetRoles
  BY DEF AssetRoles, CoreRoles
<1>5. c \in Binding /\ c.refs = b.refs /\ c.drawn = [b.drawn EXCEPT !["packaging"] = @ + 1]
  BY <1>4, CountOne
<1>6. b.drawn \in Drawn
  BY DEF Binding
<1>7. c.drawn["packaging"] = b.drawn["packaging"] + 1 /\ b.drawn["packaging"] \in Nat
  BY <1>4, <1>5, <1>6 DEF Drawn
<1> HIDE DEF pool, c
<1>8. asset \in CoreRoles \X Nat
  <2>1. Len(pool) \in Nat /\ (b.drawn["packaging"] % Len(pool)) + 1 \in 1..Len(pool)
    BY <1>1, <1>7
  <2>2. QED
    BY <1>1, <2>1, ElementOfSeq
<1> HIDE DEF asset
<1>9. asset \in Assets /\ asset[1] \in CoreRoles
  BY <1>8 DEF Assets, AssetRoles
<1>10. /\ r \in Binding /\ r.drawn = c.drawn
       /\ Continues(r.refs, c.refs) /\ Len(r.refs) <= Len(c.refs) + 1
       /\ asset[1] \in RolesOf(r.refs)
       /\ RolesOf(c.refs) \subseteq RolesOf(r.refs)
       /\ Distinct(c.refs) => Distinct(r.refs)
  BY <1>5, <1>9, AppendRefFacts
<1>11. QED
  BY <1>3, <1>5, <1>7, <1>9, <1>10 DEF pool, asset

(* The cut at the end of a page keeps what was there when five photos fit.   *)
LEMMA CutKeeps ==
  ASSUME NEW T, NEW s \in Seq(T), NEW t \in Seq(T), Continues(s, t), Len(t) <= 5
  PROVE  ToSet(t) \subseteq ToSet(UpTo(5, s)) /\ RolesOf(t) \subseteq RolesOf(UpTo(5, s))
<1> DEFINE u == UpTo(5, s)
<1>1. /\ u \in Seq(T) /\ Len(u) = (IF Len(s) < 5 THEN Len(s) ELSE 5)
      /\ \A i \in 1..Len(u) : u[i] = s[i]
  <2>1. /\ u \in Seq(T) /\ Len(u) = (IF Len(s) < 5 THEN Len(s) ELSE 5)
        /\ \A i \in 1..Len(u) : u[i] = s[i] /\ i \in 1..Len(s)
    <3>1. \A n \in Nat : /\ UpTo(n, s) \in Seq(T) /\ Len(UpTo(n, s)) = IF Len(s) < n THEN Len(s) ELSE n
                         /\ \A i \in 1..Len(UpTo(n, s)) : UpTo(n, s)[i] = s[i] /\ i \in 1..Len(s)
      BY UpToFacts
    <3>2. 5 \in Nat
      OBVIOUS
    <3>3. QED
      BY <3>1, <3>2
  <2> HIDE DEF u
  <2>2. QED
    BY <2>1
<1>2. Len(t) \in Nat /\ Len(s) \in Nat /\ Len(s) >= Len(t) /\ DOMAIN t = 1..Len(t)
      /\ \A i \in 1..Len(t) : s[i] = t[i]
  BY DEF Continues
<1> HIDE DEF u
<1>3. \A i \in 1..Len(t) : i \in 1..Len(u) /\ u[i] = t[i]
  BY <1>1, <1>2
<1>4. DOMAIN u = 1..Len(u)
  <2>1. u \in Seq(T)
    BY <1>1
  <2>2. QED
    BY <2>1
<1>5. ToSet(t) \subseteq ToSet(u)
  BY <1>2, <1>3, <1>4 DEF ToSet
<1>6. QED
  BY <1>5 DEF RolesOf, u
(* A sequence that goes on where another ends has its elements.              *)
LEMMA ContinuesKeeps ==
  ASSUME NEW T, NEW s \in Seq(T), NEW t \in Seq(T), Continues(s, t)
  PROVE  ToSet(t) \subseteq ToSet(s)
<1>1. /\ Len(t) \in Nat /\ Len(s) \in Nat /\ Len(s) >= Len(t) /\ DOMAIN t = 1..Len(t)
      /\ DOMAIN s = 1..Len(s) /\ \A i \in 1..Len(t) : s[i] = t[i]
  BY DEF Continues
<1>2. \A i \in 1..Len(t) : i \in 1..Len(s)
  BY <1>1
<1>3. QED
  BY <1>1, <1>2 DEF ToSet

(* A page shows its anchors and a photo of the package or the main result.   *)
LEMMA ResolveFacts ==
  ASSUME NEW page, NEW uploads \in [AssetRoles -> Nat], NEW mainFirst \in BOOLEAN,
         HasCoreAsset(uploads), NEW drawn \in Drawn
  PROVE  LET r == ResolveReferences(page, uploads, mainFirst, drawn)
         IN  /\ r \in Binding
             /\ ToSet(PageAnchors(page, uploads)) \subseteq RolesOf(r.refs)
             /\ RolesOf(r.refs) \cap CoreRoles # {}
<1> DEFINE anchors == PageAnchors(page, uploads)
           supplements == Among(BlueprintSupplements(page), SupplementRoles)
           suggestions == SuggestedRoles(page, uploads, mainFirst)
           start == [refs |-> <<>>, drawn |-> drawn]
           b1 == Draw(uploads, start, anchors)
           b2 == Draw(uploads, b1, supplements)
           b3 == NextOfPool(uploads, mainFirst, b2)
           b4 == Draw(uploads, b3, suggestions)
           r == [b4 EXCEPT !.refs = UpTo(5, b4.refs)]
<1>1. ResolveReferences(page, uploads, mainFirst, drawn) = r
  BY DEF ResolveReferences
<1>2. start \in Binding /\ start.refs = <<>> /\ Len(start.refs) = 0
  BY DEF Binding
<1>3. /\ anchors \in Seq(AssetRoles) /\ Len(anchors) <= 2 /\ Len(anchors) \in Nat
      /\ \A role \in ToSet(anchors) : role \in AssetRoles /\ uploads[role] > 0
  BY AnchorFacts
<1>4. supplements \in Seq(AssetRoles) /\ Len(supplements) <= 2 /\ Len(supplements) \in Nat
  <2>1. /\ BlueprintSupplements(page) \in Seq(AssetRoles) /\ Len(BlueprintSupplements(page)) <= 2
        /\ Len(BlueprintSupplements(page)) \in Nat
    BY BlueprintFacts
  <2>2. supplements \in Seq(AssetRoles) /\ Len(supplements) <= Len(BlueprintSupplements(page))
    BY <2>1, AmongFacts
  <2>3. Len(supplements) \in Nat
    BY <2>2
  <2> HIDE DEF supplements
  <2>4. QED
    BY <2>1, <2>2, <2>3
<1>5. suggestions \in Seq(AssetRoles)
  BY SuggestedFacts
<1> HIDE DEF anchors, supplements, suggestions, start
<1>6. /\ b1 \in Binding /\ Len(b1.refs) <= Len(start.refs) + Len(anchors)
      /\ \A role \in ToSet(anchors) : role \in RolesOf(b1.refs)
  BY <1>2, <1>3, DrawFacts
<1> HIDE DEF b1
<1>7. /\ b2 \in Binding /\ Continues(b2.refs, b1.refs)
      /\ Len(b2.refs) <= Len(b1.refs) + Len(supplements)
  BY <1>4, <1>6, DrawFacts
<1> HIDE DEF b2
<1>8. /\ b3 \in Binding /\ Continues(b3.refs, b2.refs) /\ Len(b3.refs) <= Len(b2.refs) + 1
      /\ RolesOf(b2.refs) \subseteq RolesOf(b3.refs) /\ RolesOf(b3.refs) \cap CoreRoles # {}
  BY <1>7, NextOfPoolFacts
<1> HIDE DEF b3
<1>9. b4 \in Binding /\ Continues(b4.refs, b3.refs)
  BY <1>5, <1>8, DrawFacts
<1> HIDE DEF b4
<1>10. /\ b1.refs \in Seq(Assets) /\ b2.refs \in Seq(Assets) /\ b3.refs \in Seq(Assets)
       /\ b4.refs \in Seq(Assets) /\ b4.drawn \in Drawn
  BY <1>6, <1>7, <1>8, <1>9 DEF Binding
<1>11. Len(b3.refs) <= 5
  <2>1. Len(b1.refs) \in Nat /\ Len(b2.refs) \in Nat /\ Len(b3.refs) \in Nat
    BY <1>10
  <2>2. QED
    BY <1>2, <1>3, <1>4, <1>6, <1>7, <1>8, <2>1
<1>12. RolesOf(b3.refs) \subseteq RolesOf(UpTo(5, b4.refs))
  BY <1>9, <1>10, <1>11, CutKeeps
<1>13. RolesOf(b1.refs) \subseteq RolesOf(b2.refs)
  <2>1. ToSet(b1.refs) \subseteq ToSet(b2.refs)
    BY <1>7, <1>10, ContinuesKeeps
  <2>2. QED
    BY <2>1 DEF RolesOf
<1>14. r \in Binding /\ r.refs = UpTo(5, b4.refs)
  <2>1. UpTo(5, b4.refs) \in Seq(Assets)
    BY <1>10, UpToFacts
  <2>2. QED
    BY <1>9, <2>1 DEF Binding
<1>15. QED
  BY <1>1, <1>6, <1>8, <1>12, <1>13, <1>14 DEF anchors

(* The plan under way: the rows of the pages bound so far, and the counts.   *)
Bound == [rows : Seq(Seq(Assets)), drawn : Drawn]
Nothing == [rows |-> <<>>, drawn |-> NothingDrawn]
BindPage(page, uploads, mainFirst, before) ==
    LET bound == ResolveReferences(page, uploads, mainFirst, before.drawn)
    IN  [rows |-> Append(before.rows, bound.refs), drawn |-> bound.drawn]

(* Before the first page nothing is bound.                                   *)
LEMMA NothingFacts == Nothing \in Bound
BY DEF Nothing, NothingDrawn, Bound, Drawn

(* Binding one more page keeps the shape of the plan under way.              *)
LEMMA BindPageFacts ==
  ASSUME NEW page, NEW uploads \in [AssetRoles -> Nat], NEW mainFirst \in BOOLEAN,
         HasCoreAsset(uploads), NEW before \in Bound
  PROVE  /\ BindPage(page, uploads, mainFirst, before) \in Bound
         /\ before.rows \in Seq(Seq(Assets)) /\ before.drawn \in Drawn
<1>1. before.rows \in Seq(Seq(Assets)) /\ before.drawn \in Drawn
  BY DEF Bound
<1> DEFINE r == ResolveReferences(page, uploads, mainFirst, before.drawn)
<1>2. r.refs \in Seq(Assets) /\ r.drawn \in Drawn
  BY <1>1, ResolveFacts DEF Binding
<1> HIDE DEF r
<1>3. Append(before.rows, r.refs) \in Seq(Seq(Assets))
  BY <1>1, <1>2
<1>4. BindPage(page, uploads, mainFirst, before) = [rows |-> Append(before.rows, r.refs), drawn |-> r.drawn]
  BY DEF BindPage, r
<1>5. QED
  BY <1>1, <1>2, <1>3, <1>4 DEF Bound

(* The function behind BuildPromptPlan.                                      *)
PlanRun(f, pages, uploads, mainFirst) ==
    /\ f[0] = Nothing /\ \A i \in 0..Len(pages) : f[i] \in Bound
    /\ \A i \in 1..Len(pages) : f[i] = BindPage(pages[i], uploads, mainFirst, f[i - 1])
    /\ BuildPromptPlan(pages, uploads, mainFirst) = f[Len(pages)].rows

(* Such a function exists.                                                   *)
LEMMA PlanSteps ==
  ASSUME NEW pages \in Seq(PageRoles), NEW uploads \in [AssetRoles -> Nat], NEW mainFirst \in BOOLEAN,
         HasCoreAsset(uploads)
  PROVE  \E f : PlanRun(f, pages, uploads, mainFirst)
<1> DEFINE N == Len(pages)
           V == Bound
           move == [i \in 1..N |-> [v \in V |-> BindPage(pages[i], uploads, mainFirst, v)]]
           Body(f) == [i \in 0..N |-> IF i = 0 THEN Nothing ELSE BindPage(pages[i], uploads, mainFirst, f[i - 1])]
           run == CHOOSE f : f = Body(f)
<1>1. N \in Nat /\ Nothing \in V
  BY NothingFacts
<1>2. \A i \in 1..N, v \in V : (BindPage(pages[i], uploads, mainFirst, v)) \in V
  BY BindPageFacts
<1>3. BuildPromptPlan(pages, uploads, mainFirst) = run[N].rows
  BY DEF BuildPromptPlan, BindPage, Nothing
<1> HIDE DEF N, V, run
<1>4. move \in [1..N -> [V -> V]]
  BY <1>2
<1>5. \A i \in 1..N, v \in V : move[i][v] = BindPage(pages[i], uploads, mainFirst, v)
  OBVIOUS
<1> HIDE DEF move
<1>6. PICK f : f \in Recursion(V, N, Nothing, move)
  BY <1>1, <1>4, RecursionExists, Zenon
<1>7. f \in [0..N -> V] /\ f[0] = Nothing /\ \A i \in 1..N : f[i - 1] \in V /\ f[i] = move[i][f[i - 1]]
  BY <1>1, <1>6 DEF Recursion
<1>8. f = Body(f)
  <2>1. \A i \in 1..N : f[i] = BindPage(pages[i], uploads, mainFirst, f[i - 1])
    BY <1>5, <1>7, Zenon
  <2>2. f = [i \in 0..N |-> f[i]]
    BY <1>7
  <2>3. ASSUME NEW i \in 0..N
        PROVE  f[i] = Body(f)[i]
    <3>1. Body(f)[i] = IF i = 0 THEN Nothing ELSE BindPage(pages[i], uploads, mainFirst, f[i - 1])
      OBVIOUS
    <3>2. i = 0 \/ i \in 1..N
      BY <1>1
    <3> HIDE DEF Body
    <3>3. CASE i = 0
      BY <1>7, <3>1, <3>3, Zenon
    <3>4. CASE i # 0
      BY <2>1, <3>1, <3>2, <3>4, Zenon
    <3>5. QED
      BY <3>3, <3>4
  <2>4. QED
    BY <2>2, <2>3
<1>9. run = Body(run)
  <2> HIDE DEF Body
  <2>1. QED
    BY <1>8 DEF run
<1>10. \A i \in 0..N : Body(run)[i] = IF i = 0 THEN Nothing ELSE BindPage(pages[i], uploads, mainFirst, run[i - 1])
  OBVIOUS
<1> HIDE DEF Body
<1>11. \A i \in 0..N : run[i] = IF i = 0 THEN Nothing ELSE BindPage(pages[i], uploads, mainFirst, run[i - 1])
  BY <1>9, <1>10, Zenon
<1>12. run[0] = Nothing /\ \A i \in 1..N : run[i] = BindPage(pages[i], uploads, mainFirst, run[i - 1])
  <2>1. 0 \in 0..N /\ \A i \in 1..N : i \in 0..N /\ i # 0
    BY <1>1
  <2>2. QED
    BY <1>11, <2>1, Zenon
<1>13. \A i \in 0..N : run[i] \in V
  <2> DEFINE P == {i \in 0..N : run[i] \in V}
  <2>1. 0 \in P
    BY <1>1, <1>12
  <2>2. ASSUME NEW i \in 1..N, (i - 1) \in P
        PROVE  i \in P
    <3>1. run[i - 1] \in V
      BY <2>2
    <3>2. run[i] \in V
      BY <1>2, <1>12, <3>1, Zenon
    <3>3. QED
      BY <1>1, <3>2
  <2> HIDE DEF P
  <2>3. \A i \in 0..N : i \in P
    BY <1>1, <2>1, <2>2, Induct
  <2>4. QED
    BY <2>3 DEF P
<1>14. QED
  BY <1>3, <1>12, <1>13 DEF N, V, PlanRun


(* Every page is bound with the counts the pages before it left behind.      *)
BoundAlong(d, rows, pages, uploads, mainFirst) ==
    /\ d[0] = NothingDrawn
    /\ \A k \in 1..Len(pages) :
         /\ d[k - 1] \in Drawn
         /\ rows[k] = ResolveReferences(pages[k], uploads, mainFirst, d[k - 1]).refs
         /\ d[k] = ResolveReferences(pages[k], uploads, mainFirst, d[k - 1]).drawn

(* One row for every page, each bound with the counts before it.             *)
LEMMA PromptFacts ==
  ASSUME NEW pages \in Seq(PageRoles), NEW uploads \in [AssetRoles -> Nat],
         NEW mainFirst \in BOOLEAN, HasCoreAsset(uploads)
  PROVE  LET rows == BuildPromptPlan(pages, uploads, mainFirst)
         IN  /\ rows \in Seq(Seq(Assets)) /\ Len(rows) = Len(pages)
             /\ \E d : BoundAlong(d, rows, pages, uploads, mainFirst)
<1> DEFINE N == Len(pages)
           Page(k, drawn) == ResolveReferences(pages[k], uploads, mainFirst, drawn)
<1>1. N \in Nat
  OBVIOUS
<1>a. PICK f : PlanRun(f, pages, uploads, mainFirst)
  BY PlanSteps, Zenon
<1>2. /\ f[0] = Nothing /\ \A i \in 0..N : f[i] \in Bound
      /\ \A i \in 1..N : f[i] = BindPage(pages[i], uploads, mainFirst, f[i - 1])
      /\ BuildPromptPlan(pages, uploads, mainFirst) = f[N].rows
  BY <1>a, Zenon DEF PlanRun
<1>3. \A i \in 0..N : f[i].rows \in Seq(Seq(Assets)) /\ f[i].drawn \in Drawn
  BY <1>2 DEF Bound
<1>4. \A i \in 1..N : /\ f[i].rows = Append(f[i - 1].rows, Page(i, f[i - 1].drawn).refs)
                      /\ f[i].drawn = Page(i, f[i - 1].drawn).drawn
  <2>1. SUFFICES ASSUME NEW i \in 1..N
                 PROVE  /\ f[i].rows = Append(f[i - 1].rows, Page(i, f[i - 1].drawn).refs)
                        /\ f[i].drawn = Page(i, f[i - 1].drawn).drawn
    OBVIOUS
  <2>2. f[i] = BindPage(pages[i], uploads, mainFirst, f[i - 1])
    BY <1>2
  <2> DEFINE r == Page(i, f[i - 1].drawn)
  <2>3. BindPage(pages[i], uploads, mainFirst, f[i - 1])
          = [rows |-> Append(f[i - 1].rows, r.refs), drawn |-> r.drawn]
    BY DEF BindPage
  <2> HIDE DEF r
  <2>4. f[i].rows = Append(f[i - 1].rows, r.refs) /\ f[i].drawn = r.drawn
    BY <2>2, <2>3
  <2>5. QED
    BY <2>4 DEF r
<1>5. \A i \in 1..N : i - 1 \in 0..N /\ Page(i, f[i - 1].drawn).refs \in Seq(Assets)
  <2>1. SUFFICES ASSUME NEW i \in 1..N
                 PROVE  i - 1 \in 0..N /\ Page(i, f[i - 1].drawn).refs \in Seq(Assets)
    OBVIOUS
  <2>2. i - 1 \in 0..N
    BY <1>1
  <2>3. f[i - 1].drawn \in Drawn
    BY <1>3, <2>2
  <2>4. Page(i, f[i - 1].drawn) \in Binding
    BY <2>3, ResolveFacts
  <2>5. QED
    BY <2>2, <2>4 DEF Binding
<1> DEFINE Fine(i) == /\ Len(f[i].rows) = i
                      /\ \A k \in 1..i : f[i].rows[k] = Page(k, f[k - 1].drawn).refs
           P == {i \in 0..N : Fine(i)}
<1> HIDE DEF N, Page
<1>6. 0 \in P
  BY <1>1, <1>2 DEF Nothing
<1>7. ASSUME NEW i \in 1..N, (i - 1) \in P
      PROVE  i \in P
  <2> DEFINE s == f[i - 1].rows
             x == Page(i, f[i - 1].drawn).refs
  <2>1. i \in Nat /\ i > 0 /\ i - 1 \in 0..N /\ i \in 0..N
    BY <1>1
  <2>2. s \in Seq(Seq(Assets)) /\ x \in Seq(Assets) /\ f[i].rows = Append(s, x)
    BY <1>3, <1>4, <1>5, <2>1
  <2>3. Len(s) = i - 1 /\ \A k \in 1..(i - 1) : s[k] = Page(k, f[k - 1].drawn).refs
    BY <1>7
  <2>4. x = Page(i, f[i - 1].drawn).refs
    OBVIOUS
  <2> HIDE DEF s, x
  <2>5. /\ Len(f[i].rows) = Len(s) + 1 /\ f[i].rows[Len(s) + 1] = x
        /\ \A k \in 1..Len(s) : f[i].rows[k] = s[k]
    BY <2>2, AppendFacts
  <2>6. Len(f[i].rows) = i /\ f[i].rows[i] = x /\ \A k \in 1..(i - 1) : f[i].rows[k] = s[k]
    BY <2>1, <2>3, <2>5
  <2>7. \A k \in 1..i : k \in 1..(i - 1) \/ k = i
    BY <2>1
  <2>8. \A k \in 1..i : f[i].rows[k] = Page(k, f[k - 1].drawn).refs
    BY <2>3, <2>4, <2>6, <2>7, Zenon
  <2>9. QED
    BY <2>1, <2>6, <2>8
<1> HIDE DEF P
<1>8. N \in P
  <2>1. \A i \in 0..N : i \in P
    BY <1>1, <1>6, <1>7, Induct
  <2>2. QED
    BY <1>1, <2>1
<1>9. Len(f[N].rows) = N /\ \A k \in 1..N : f[N].rows[k] = Page(k, f[k - 1].drawn).refs
  BY <1>8 DEF P
<1> DEFINE d == [k \in 0..N |-> f[k].drawn]
<1>10. d[0] = NothingDrawn /\ \A k \in 1..N : d[k - 1] = f[k - 1].drawn /\ d[k] = f[k].drawn
  BY <1>1, <1>2 DEF Nothing
<1> HIDE DEF d
<1>11. \A k \in 1..N : /\ d[k - 1] \in Drawn
                       /\ f[N].rows[k] = Page(k, d[k - 1]).refs
                       /\ d[k] = Page(k, d[k - 1]).drawn
  <2>1. SUFFICES ASSUME NEW k \in 1..N
                 PROVE  /\ d[k - 1] \in Drawn
                        /\ f[N].rows[k] = Page(k, d[k - 1]).refs
                        /\ d[k] = Page(k, d[k - 1]).drawn
    OBVIOUS
  <2>2. k - 1 \in 0..N
    BY <1>1
  <2>3. QED
    BY <1>3, <1>4, <1>9, <1>10, <2>2, Zenon
<1>12. BoundAlong(d, f[N].rows, pages, uploads, mainFirst)
  BY <1>10, <1>11 DEF BoundAlong, N, Page
<1>13. f[N].rows \in Seq(Seq(Assets))
  BY <1>1, <1>3
<1>14. QED
  BY <1>2, <1>9, <1>12, <1>13 DEF N

-----------------------------------------------------------------------------
(* The plan and the photos in every state. *)

Bindings == BuildPromptPlan(plan, job.uploads, job.mainFirst)

(* The plan is the one the request asks for.                                 *)
Planned ==
    /\ job \in JobType /\ HasCoreAsset(job.uploads)
    /\ plan = SelectPageRoles(job.target, job.uploads)

(* The plan and the photos are the ones the planning nodes compute from the  *)
(* request, and they are there from the node on that makes them.             *)
PlanInv ==
    /\ job \in JobType
    /\ step \in {"detail_ingest_assets", "detail_plan"} => plan = <<>>
    /\ step \in {"detail_ingest_assets", "detail_plan", "detail_generate_copy"} => copy = <<>>
    /\ step \in {"detail_ingest_assets", "detail_plan", "detail_generate_copy",
                 "detail_generate_prompt"} => refs = <<>>
    /\ step \in {"detail_plan"} => HasCoreAsset(job.uploads)
    /\ plan = <<>> \/ Planned
    /\ DOMAIN copy \subseteq Pages /\ \A k \in DOMAIN copy : copy[k] \in [rule : BOOLEAN, few : BOOLEAN]
    /\ refs = <<>> \/ (plan # <<>> /\ refs = Bindings)
    /\ step \in {"detail_generate_copy", "detail_generate_prompt"} => plan # <<>>
    /\ step = "detail_render_pages" => refs # <<>>

(* What the planned pages are, read off the state.                           *)
LEMMA PlanFits ==
  ASSUME Planned
  PROVE  /\ plan \in Seq(PageRoles) /\ Len(plan) = job.target /\ Len(plan) >= 1 /\ Len(plan) <= 12
         /\ plan # <<>> /\ Distinct(plan) /\ plan[1] = "hero_opening"
         /\ Pages = 1..Len(plan)
         /\ job.target <= Cardinality(AllowedRoles(job.uploads)) =>
              ToSet(plan) \subseteq AllowedRoles(job.uploads)
<1>1. job.target \in 1..12 /\ job.target >= 1 /\ job.target <= 12
  BY DEF Planned, JobType
<1>2. /\ plan \in Seq(PageRoles) /\ Len(plan) = job.target
      /\ Distinct(plan) /\ plan[1] = "hero_opening"
      /\ job.target <= Cardinality(AllowedRoles(job.uploads)) =>
           ToSet(plan) \subseteq AllowedRoles(job.uploads)
  BY <1>1, PlanFacts DEF Planned
<1>3. Len(plan) >= 1 /\ Len(plan) <= 12 /\ plan # <<>> /\ DOMAIN plan = 1..Len(plan)
  BY <1>1, <1>2
<1>4. QED
  BY <1>2, <1>3 DEF Pages

(* The rows of the plan, whatever node comes next.                           *)
LEMMA RowsFit ==
  ASSUME Planned, refs = Bindings
  PROVE  /\ refs \in Seq(Seq(Assets)) /\ Len(refs) = Len(plan) /\ refs # <<>>
         /\ DOMAIN refs = Pages
         /\ \E d : BoundAlong(d, refs, plan, job.uploads, job.mainFirst)
<1>1. /\ job.uploads \in [AssetRoles -> Nat] /\ job.mainFirst \in BOOLEAN
      /\ HasCoreAsset(job.uploads)
  BY DEF Planned, JobType
<1>2. plan \in Seq(PageRoles) /\ Len(plan) >= 1 /\ Len(plan) <= 12 /\ Pages = 1..Len(plan)
  BY PlanFits
<1>3. /\ refs \in Seq(Seq(Assets)) /\ Len(refs) = Len(plan)
      /\ \E d : BoundAlong(d, refs, plan, job.uploads, job.mainFirst)
  BY <1>1, <1>2, PromptFacts DEF Bindings
<1>4. refs # <<>> /\ DOMAIN refs = 1..Len(refs)
  <2> DEFINE T == Seq(Assets)
  <2>1. refs \in Seq(T) /\ Len(refs) = Len(plan)
    BY <1>3
  <2> HIDE DEF T
  <2>2. Len(refs) >= 1
    <3>1. Len(plan) >= 1
      BY <1>2
    <3>2. QED
      BY <2>1, <3>1
  <2>3. QED
    BY <2>1, <2>2
<1>5. QED
  BY <1>2, <1>3, <1>4

(* Every row shows the anchors of its page and a photo of a core role.       *)
LEMMA RowFits ==
  ASSUME Planned, refs = Bindings, NEW k \in Pages
  PROVE  /\ refs[k] \in Seq(Assets)
         /\ ToSet(PageAnchors(plan[k], job.uploads)) \subseteq RolesOf(refs[k])
         /\ RolesOf(refs[k]) \cap CoreRoles # {}
<1>1. /\ job.uploads \in [AssetRoles -> Nat] /\ job.mainFirst \in BOOLEAN
      /\ HasCoreAsset(job.uploads)
  BY DEF Planned, JobType
<1>2. k \in 1..Len(plan)
  BY PlanFits
<1>3. PICK d : BoundAlong(d, refs, plan, job.uploads, job.mainFirst)
  BY RowsFit, Zenon
<1>4. /\ d[k - 1] \in Drawn
      /\ refs[k] = ResolveReferences(plan[k], job.uploads, job.mainFirst, d[k - 1]).refs
  BY <1>2, <1>3, Zenon DEF BoundAlong
<1> DEFINE r == ResolveReferences(plan[k], job.uploads, job.mainFirst, d[k - 1])
<1>5. /\ r \in Binding
      /\ ToSet(PageAnchors(plan[k], job.uploads)) \subseteq RolesOf(r.refs)
      /\ RolesOf(r.refs) \cap CoreRoles # {}
  BY <1>1, <1>4, ResolveFacts
<1>6. refs[k] = r.refs
  BY <1>4
<1> HIDE DEF r
<1>7. QED
  BY <1>5, <1>6 DEF Binding

(* No page is anchored in a photo that a retry leaves out.                   *)
LEMMA AnchorsStay ==
  ASSUME NEW page, NEW uploads \in [AssetRoles -> Nat], NEW role \in ToSet(PageAnchors(page, uploads))
  PROVE  role \notin {"scene_ref", "bg_ref"}
<1> DEFINE B == BlueprintAnchors(page)
<1>1. B \in Seq(AssetRoles)
  BY BlueprintFacts
<1>2. ToSet(PageAnchors(page, uploads)) \subseteq ToSet(B)
  <2> HIDE DEF B
  <2>1. ToSet(Among(B, {r \in AssetRoles : uploads[r] > 0})) = ToSet(B) \cap {r \in AssetRoles : uploads[r] > 0}
    BY <1>1, AmongFacts
  <2>2. QED
    BY <2>1 DEF PageAnchors, Uploaded, B
<1>3. B \in {<<"main_result", "packaging">>, <<"dry_leaf">>, <<"leaf_bottom">>, <<"packaging">>}
  BY DEF BlueprintAnchors
<1> HIDE DEF B
<1>4. ToSet(B) \subseteq {"main_result", "packaging", "dry_leaf", "leaf_bottom"}
  BY <1>3 DEF ToSet
<1>5. QED
  BY <1>2, <1>4

(* Thinning out a row drops neither anchors nor the photo of the package.    *)
LEMMA AttemptKeeps ==
  ASSUME NEW k, NEW attempt, refs[k] \in Seq(Assets), NEW uploads \in [AssetRoles -> Nat],
         ToSet(PageAnchors(plan[k], uploads)) \subseteq RolesOf(refs[k]),
         RolesOf(refs[k]) \cap CoreRoles # {}
  PROVE  /\ ToSet(PageAnchors(plan[k], uploads)) \subseteq RolesOf(AttemptRefs(k, attempt))
         /\ RolesOf(AttemptRefs(k, attempt)) \cap CoreRoles # {}
<1> DEFINE kept == (AssetRoles \ {"scene_ref", "bg_ref"}) \X Nat
           rebound == Among(refs[k], kept)
<1>1. AttemptRefs(k, attempt) = rebound \/ AttemptRefs(k, attempt) = refs[k]
  BY DEF AttemptRefs
<1>2. ToSet(rebound) = ToSet(refs[k]) \cap kept
  BY AmongFacts
<1>3. \A a \in ToSet(refs[k]) : a \in Assets
  BY ElementOfSeq DEF ToSet
<1> HIDE DEF rebound
<1>4. \A role \in RolesOf(refs[k]) : role \notin {"scene_ref", "bg_ref"} => role \in RolesOf(rebound)
  BY <1>2, <1>3 DEF RolesOf, Assets
<1>5. \A role \in ToSet(PageAnchors(plan[k], uploads)) : role \notin {"scene_ref", "bg_ref"}
  BY AnchorsStay
<1>6. \A role \in CoreRoles : role \notin {"scene_ref", "bg_ref"}
  BY DEF CoreRoles
<1>7. /\ ToSet(PageAnchors(plan[k], uploads)) \subseteq RolesOf(rebound)
      /\ RolesOf(rebound) \cap CoreRoles # {}
  BY <1>4, <1>5, <1>6
<1>8. QED
  BY <1>1, <1>7

-----------------------------------------------------------------------------
(* The invariant. *)

Steps == Ends \cup {"bundle", "closing", "detail_ingest_assets", "detail_plan",
                    "detail_generate_copy", "detail_generate_prompt",
                    "detail_render_pages", "detail_run_qc", "detail_finalize"}

(* What the nodes leave behind has its shape.                                *)
ShapeInv ==
    /\ step \in Steps
    /\ delivery \in 1..MaxDeliveries
    /\ tries \in 0..(MaxTries - 1)
    /\ results \in Seq(Outcomes) /\ DOMAIN results \subseteq Pages
    /\ step \in {"detail_ingest_assets", "detail_plan"} => results = <<>> /\ flagged = {}
    /\ verdict \in [passed : BOOLEAN, review : BOOLEAN]
    /\ flagged \subseteq Pages
    /\ status \in {"created", "running", "completed", "review_required", "failed"}
    /\ png \subseteq (1..12) \X (1..delivery)
    /\ bundle \subseteq (1..12) \X (1..delivery)
    /\ bad \in Nat /\ cuts \in Nat

(* A task starts without a plan and with everything empty.                   *)
LEMMA InitPlans == Init => PlanInv /\ ShapeInv
<1> SUFFICES ASSUME Init PROVE PlanInv /\ ShapeInv
  OBVIOUS
<1>1. PICK s \in Scenarios : job = s.job /\ bad = s.badCalls /\ cuts = s.cuts
  BY DEF Init
<1>2. job \in JobType /\ bad \in Nat /\ cuts \in Nat
  BY <1>1, DetailPagesAssumption
<1>3. PlanInv
  BY <1>2 DEF Init, PlanInv
<1>4. delivery \in 1..MaxDeliveries
  BY DetailPagesAssumption DEF Init
<1>5. results \in Seq(Outcomes) /\ DOMAIN results = {}
  BY DEF Init
<1>6. ShapeInv
  BY <1>2, <1>4, <1>5 DEF Init, ShapeInv, Steps, NoVerdict, MaxTries
<1>7. QED
  BY <1>3, <1>6

(* The planning nodes make the plan once, from the request.                  *)
LEMMA PlanningPlans ==
  ASSUME PlanInv, IngestAssets \/ MakePlan \/ GenerateCopy \/ GeneratePrompt
  PROVE  PlanInv'
<1>1. CASE IngestAssets
  BY <1>1 DEF PlanInv, Planned, IngestAssets, input, planned, Pages, Bindings
<1>2. CASE MakePlan
  <2>1. /\ job' = job /\ job \in JobType /\ HasCoreAsset(job.uploads)
        /\ plan' = SelectPageRoles(job.target, job.uploads)
        /\ copy = <<>> /\ refs = <<>> /\ copy' = copy /\ refs' = refs
        /\ step' = "detail_generate_copy"
    BY <1>2 DEF PlanInv, MakePlan, input
  <2>2. plan' # <<>>
    <3>1. job.target \in 1..12
      BY <2>1 DEF JobType
    <3>2. plan' \in Seq(PageRoles) /\ Len(plan') = job.target
      BY <2>1, <3>1, PlanFacts
    <3>3. QED
      BY <3>1, <3>2
  <2>3. Planned'
    BY <2>1 DEF Planned
  <2>4. DOMAIN copy' = {}
    BY <2>1
  <2>5. QED
    BY <2>1, <2>2, <2>3, <2>4 DEF PlanInv
<1>3. CASE GenerateCopy
  <2>1. /\ copy' = [k \in Pages |-> CopyOf(plan[k])] /\ UNCHANGED <<job, plan, refs>>
        /\ refs = <<>> /\ plan # <<>> /\ step' = "detail_generate_prompt"
    BY <1>3 DEF PlanInv, GenerateCopy, input
  <2>2. DOMAIN copy' = Pages' /\ \A k \in DOMAIN copy' : copy'[k] \in [rule : BOOLEAN, few : BOOLEAN]
    BY <2>1 DEF Pages, CopyOf
  <2>3. QED
    BY <2>1, <2>2 DEF PlanInv, Planned
<1>4. CASE GeneratePrompt
  <2>1. /\ refs' = Bindings /\ UNCHANGED <<job, plan, copy>>
        /\ plan # <<>> /\ step' = "detail_render_pages"
    BY <1>4 DEF PlanInv, GeneratePrompt, input, Bindings
  <2>2. Planned
    BY <2>1 DEF PlanInv
  <2>3. refs' # <<>>
    <3>1. /\ job.uploads \in [AssetRoles -> Nat] /\ job.mainFirst \in BOOLEAN
          /\ HasCoreAsset(job.uploads)
      BY <2>2 DEF Planned, JobType
    <3>2. plan \in Seq(PageRoles) /\ Len(plan) >= 1 /\ Len(plan) <= 12
      BY <2>2, PlanFits
    <3>3. Len(refs') = Len(plan)
      BY <2>1, <2>2, <3>1, <3>2, PromptFacts DEF Bindings
    <3>4. QED
      BY <3>2, <3>3
  <2>4. refs' = Bindings'
    BY <2>1 DEF Bindings
  <2>5. DOMAIN copy' \subseteq Pages' /\ \A k \in DOMAIN copy' : copy'[k] \in [rule : BOOLEAN, few : BOOLEAN]
    BY <2>1 DEF PlanInv, Pages
  <2>6. QED
    BY <2>1, <2>2, <2>3, <2>4, <2>5 DEF PlanInv, Planned
<1>5. QED
  BY <1>1, <1>2, <1>3, <1>4

(* Nothing after them changes it, and a new delivery starts without one.     *)
LEMMA OthersPlan ==
  ASSUME PlanInv, UNCHANGED <<job, plan, copy, refs>>,
         step' = step \/ step' \notin {"detail_ingest_assets", "detail_plan", "detail_generate_copy",
                                      "detail_generate_prompt", "detail_render_pages"}
  PROVE  PlanInv'
<1>1. Pages' = Pages /\ Bindings' = Bindings
  BY DEF Pages, Bindings
<1>2. QED
  BY <1>1 DEF PlanInv, Planned

(* Every step keeps the plan.                                                *)
LEMMA NextPlans ==
  ASSUME PlanInv, [Next]_vars
  PROVE  PlanInv'
<1>1. CASE IngestAssets \/ MakePlan \/ GenerateCopy \/ GeneratePrompt
  BY <1>1, PlanningPlans
<1>2. ASSUME NEW fits \in BOOLEAN, CallReturns(fits)
      PROVE  PlanInv'
  BY <1>2, OthersPlan DEF CallReturns, input, planned
<1>3. ASSUME NEW transient \in BOOLEAN, CallRaises(transient)
      PROVE  PlanInv'
  BY <1>3, OthersPlan DEF CallRaises, input, planned
<1>4. CASE FinishRender \/ RunQc \/ Conclude \/ BuildBundle \/ FinishRun
  BY <1>4, OthersPlan DEF FinishRender, RunQc, Conclude, BuildBundle, FinishRun, input, planned
<1>5. CASE NodeRaises \/ Crash \/ Rest \/ UNCHANGED vars
  BY <1>5, OthersPlan DEF NodeRaises, Crash, Rest, vars, input, planned
<1>6. CASE Redeliver
  BY <1>6 DEF PlanInv, Redeliver
<1>7. QED
  BY <1>1, <1>2, <1>3, <1>4, <1>5, <1>6 DEF Next, NodeStep

(* The shape.                                                                *)
LEMMA NextShapes ==
  ASSUME PlanInv, ShapeInv, [Next]_vars
  PROVE  ShapeInv'
<1>0. DetailPagesAssumption
  BY DetailPagesAssumption
<1>1. CASE IngestAssets \/ GenerateCopy \/ GeneratePrompt
  BY <1>1 DEF ShapeInv, Steps, Ends, IngestAssets, GenerateCopy, GeneratePrompt, Pages, input,
     rendered, checked, disk, bounds
<1>2. CASE MakePlan
  <2>1. results = <<>> /\ flagged = {} /\ DOMAIN results = {}
    BY <1>2 DEF ShapeInv, MakePlan
  <2>2. QED
    BY <1>2, <2>1 DEF ShapeInv, Steps, Ends, MakePlan, Pages, input, rendered, checked, disk, bounds
<1>3. ASSUME NEW fits \in BOOLEAN, CallReturns(fits)
      PROVE  ShapeInv'
  <2> DEFINE o == IF fits THEN "good" ELSE "wrong_size"
  <2>1. /\ o \in Outcomes /\ results' = Append(results, o) /\ Current \in Pages
        /\ UNCHANGED <<job, delivery, plan, step, verdict, flagged, status, bundle, cuts>>
        /\ tries' = 0 /\ step = "detail_render_pages"
        /\ png' = {file \in png : file[1] # Current} \cup {<<Current, delivery>>}
        /\ bad' = (IF fits THEN bad ELSE bad - 1) /\ (fits \/ bad > 0)
    BY <1>3 DEF CallReturns, Close, Rendering, Outcomes, planned, checked, input
  <2>2. results \in Seq(Outcomes) /\ DOMAIN results \subseteq Pages
    BY DEF ShapeInv
  <2> HIDE DEF o
  <2>3. results' \in Seq(Outcomes) /\ DOMAIN results' \subseteq Pages'
    BY <2>1, <2>2, ClosedPage
  <2>4. Current \in 1..12
    BY <2>1, PlanFits DEF PlanInv, Pages
  <2>5. bad' \in Nat
    BY <2>1 DEF ShapeInv
  <2>6. png' \subseteq (1..12) \X (1..delivery')
    <3>1. delivery \in 1..delivery
      BY <1>0 DEF ShapeInv, DetailPagesAssumption
    <3>2. QED
      BY <2>1, <2>4, <3>1 DEF ShapeInv
  <2>7. tries' \in 0..(MaxTries - 1)
    BY <2>1 DEF MaxTries
  <2>8. QED
    BY <2>1, <2>3, <2>5, <2>6, <2>7 DEF ShapeInv, Pages
<1>4. ASSUME NEW transient \in BOOLEAN, CallRaises(transient)
      PROVE  ShapeInv'
  <2>1. /\ Current \in Pages /\ step = "detail_render_pages" /\ bad > 0 /\ bad' = bad - 1
        /\ UNCHANGED <<job, delivery, plan, step, verdict, flagged, status, png, bundle, cuts>>
    BY <1>4 DEF CallRaises, Rendering, planned, checked, input, disk
  <2>2. results \in Seq(Outcomes) /\ DOMAIN results \subseteq Pages
    BY DEF ShapeInv
  <2>3. results' \in Seq(Outcomes) /\ DOMAIN results' \subseteq Pages' /\ tries' \in 0..(MaxTries - 1)
    <3>1. CASE tries' = tries + 1 /\ tries + 1 < MaxTries /\ results' = results
      BY <2>1, <2>2, <3>1 DEF ShapeInv, MaxTries, Pages
    <3>2. CASE results' = Append(results, "failed") /\ tries' = 0
      <4>1. "failed" \in Outcomes
        BY DEF Outcomes
      <4>2. results' \in Seq(Outcomes) /\ DOMAIN results' \subseteq Pages'
        BY <2>1, <2>2, <3>2, <4>1, ClosedPage
      <4>3. QED
        BY <3>2, <4>2 DEF MaxTries
    <3>3. QED
      BY <1>4, <3>1, <3>2 DEF CallRaises, Close, ShouldContinueRetry
  <2>4. bad' \in Nat
    BY <2>1 DEF ShapeInv
  <2>5. QED
    BY <2>1, <2>3, <2>4 DEF ShapeInv, Pages
<1>5. CASE FinishRender \/ Conclude \/ BuildBundle \/ FinishRun
  BY <1>5 DEF ShapeInv, Steps, Ends, FinishRender, Conclude, BuildBundle, FinishRun, Pages, input,
     planned, rendered, checked, disk, bounds
<1>6. CASE RunQc
  <2>1. verdict' \in [passed : BOOLEAN, review : BOOLEAN] /\ flagged' \subseteq Pages
    BY <1>6 DEF RunQc
  <2>2. QED
    BY <1>6, <2>1 DEF ShapeInv, Steps, Ends, RunQc, Pages, input, planned, rendered, disk, bounds
<1>7. CASE NodeRaises \/ Crash \/ Rest \/ UNCHANGED vars
  BY <1>7 DEF ShapeInv, Steps, Ends, NodeRaises, Crash, Rest, vars, Pages, input, planned, rendered,
     checked, disk, bounds
<1>8. CASE Redeliver
  <2>1. /\ delivery' = delivery + 1 /\ delivery \in Nat /\ delivery' \in 1..MaxDeliveries
        /\ png' = png /\ bundle' = bundle
    BY <1>0, <1>8 DEF Redeliver, ShapeInv, DetailPagesAssumption, disk
  <2>2. 1..delivery \subseteq 1..delivery'
    BY <2>1
  <2>3. png' \subseteq (1..12) \X (1..delivery') /\ bundle' \subseteq (1..12) \X (1..delivery')
    BY <2>1, <2>2 DEF ShapeInv
  <2>4. results' \in Seq(Outcomes) /\ DOMAIN results' = {} /\ results' = <<>>
    BY <1>8 DEF Redeliver
  <2>5. QED
    BY <1>8, <2>1, <2>3, <2>4 DEF Redeliver, ShapeInv, Steps, NoVerdict, MaxTries, Pages, bounds
<1>9. QED
  BY <1>1, <1>2, <1>3, <1>4, <1>5, <1>6, <1>7, <1>8 DEF Next, NodeStep

(* The plan, the photos and the shape of the rest hold in every state.       *)
THEOREM PlanInvariant == Spec => [](PlanInv /\ ShapeInv)
<1>1. Init => PlanInv /\ ShapeInv
  BY InitPlans
<1>2. PlanInv /\ ShapeInv /\ [Next]_vars => PlanInv' /\ ShapeInv'
  BY NextPlans, NextShapes
<1>3. QED
  BY <1>1, <1>2, PTL DEF Spec

(* The planned pages are as many as asked for, each role once, the opening   *)
(* page first.                                                               *)
THEOREM PlanIsFilled == Spec => []PlanFillsTarget
<1>1. PlanInv => PlanFillsTarget
  BY PlanFits DEF PlanInv, PlanFillsTarget, Distinct, Pages
<1>2. QED
  BY <1>1, PlanInvariant, PTL

(* A page without photos of what it shows is planned only when more pages    *)
(* are asked for than the photos allow.                                      *)
THEOREM EvidenceStaysBacked == Spec => []EvidenceIsBacked
<1>1. PlanInv => EvidenceIsBacked
  <2> SUFFICES ASSUME PlanInv, NEW k \in Pages,
                      ~(job.target > Cardinality(AllowedRoles(job.uploads)))
               PROVE  RoleIsAllowed(plan[k], job.uploads)
    BY DEF EvidenceIsBacked, AllowedRoles
  <2>1. Planned
    BY DEF PlanInv, Pages
  <2>2. job.target <= Cardinality(AllowedRoles(job.uploads))
    <3>1. Cardinality(AllowedRoles(job.uploads)) \in Nat
      <4>1. IsFiniteSet(PageRoles)
        BY TwelvePages, TwelveDistinct, DistinctCounted DEF PageRoles
      <4>2. AllowedRoles(job.uploads) \subseteq PageRoles
        BY DEF AllowedRoles
      <4>3. QED
        BY <4>1, <4>2, FS_Subset, FS_CardinalityType
    <3>2. job.target \in Nat
      BY <2>1 DEF Planned, JobType
    <3>3. QED
      BY <3>1, <3>2
  <2>3. plan[k] \in ToSet(plan)
    BY DEF Pages, ToSet
  <2>4. QED
    BY <2>1, <2>2, <2>3, PlanFits DEF AllowedRoles
<1>2. QED
  BY <1>1, PlanInvariant, PTL

(* Every call of the image model, retries included, shows the anchors of the *)
(* page and a photo of the package or the main result.                       *)
THEOREM CallsAreAnchored == Spec => []EveryCallIsAnchored
<1>1. PlanInv => EveryCallIsAnchored
  <2> SUFFICES ASSUME PlanInv, Rendering
               PROVE  LET roles == RolesOf(AttemptRefs(Current, tries + 1))
                      IN  /\ ToSet(PageAnchors(plan[Current], job.uploads)) \subseteq roles
                          /\ roles \cap CoreRoles # {}
    BY DEF EveryCallIsAnchored
  <2>1. Planned /\ refs = Bindings /\ Current \in Pages
    BY DEF PlanInv, Rendering, Pages
  <2>2. job.uploads \in [AssetRoles -> Nat]
    BY <2>1 DEF Planned, JobType
  <2>3. /\ refs[Current] \in Seq(Assets)
        /\ ToSet(PageAnchors(plan[Current], job.uploads)) \subseteq RolesOf(refs[Current])
        /\ RolesOf(refs[Current]) \cap CoreRoles # {}
    BY <2>1, RowFits
  <2>4. QED
    BY <2>2, <2>3, AttemptKeeps
<1>2. QED
  BY <1>1, PlanInvariant, PTL

(* The variables keep the shape the nodes hand to each other.                *)
THEOREM TypeStays == Spec => []TypeOK
<1>1. PlanInv /\ ShapeInv => TypeOK
  <2> SUFFICES ASSUME PlanInv, ShapeInv PROVE TypeOK
    OBVIOUS
  <2>1. plan \in Seq(PageRoles) /\ Len(plan) <= 12
    <3>1. CASE plan = <<>>
      BY <3>1
    <3>2. CASE plan # <<>>
      BY <3>2, PlanFits DEF PlanInv
    <3>3. QED
      BY <3>1, <3>2
  <2>2. DOMAIN refs \subseteq Pages /\ \A k \in DOMAIN refs : ToSet(refs[k]) \subseteq AssetRoles \X Nat
    <3>1. CASE refs = <<>>
      <4>1. DOMAIN refs = {}
        BY <3>1
      <4>2. QED
        BY <4>1
    <3>2. CASE refs # <<>>
      <4>1. Planned /\ refs = Bindings
        BY <3>2 DEF PlanInv
      <4>2. DOMAIN refs = Pages
        BY <4>1, RowsFit
      <4>3. \A k \in Pages : refs[k] \in Seq(Assets)
        BY <4>1, RowFits
      <4>4. \A k \in Pages : ToSet(refs[k]) \subseteq AssetRoles \X Nat
        BY <4>3, ElementOfSeq DEF ToSet, Assets
      <4>5. QED
        BY <4>2, <4>4
    <3>3. QED
      BY <3>1, <3>2
  <2>3. QED
    BY <2>1, <2>2 DEF PlanInv, ShapeInv, TypeOK, Steps, Outcomes
<1>2. QED
  BY <1>1, PlanInvariant, PTL

-----------------------------------------------------------------------------
(* The rotation of the package photos. *)

(* Among and Draw on the short lists of the template.                        *)
LEMMA AmongShort ==
  ASSUME NEW T, NEW x \in T, NEW y \in T, NEW S
  PROVE  /\ Among(<<x>>, S) = IF x \in S THEN <<x>> ELSE <<>>
         /\ Among(<<x, y>>, S) = IF x \in S THEN IF y \in S THEN <<x, y>> ELSE <<x>>
                                 ELSE IF y \in S THEN <<y>> ELSE <<>>
<1>1. Among(<<x>>, S) = IF x \in S THEN <<x>> ELSE <<>>
  <2> DEFINE s == <<x>>
  <2>1. s \in Seq(T) /\ Len(s) = 1 /\ s[1] = x
    BY ShortLists
  <2> HIDE DEF s
  <2>2. PICK f : AmongRun(f, T, s, S)
    BY <2>1, AmongSteps, Zenon
  <2>3. /\ f[0] = <<>> /\ Among(s, S) = f[Len(s)]
        /\ \A i \in 1..Len(s) : f[i] = IF s[i] \in S THEN Append(f[i - 1], s[i]) ELSE f[i - 1]
    BY <2>2, Zenon DEF AmongRun
  <2>4. f[1] = IF x \in S THEN Append(f[0], x) ELSE f[0]
    <3>1. 1 \in 1..Len(s) /\ 1 - 1 = 0
      BY <2>1
    <3>2. f[1] = IF s[1] \in S THEN Append(f[1 - 1], s[1]) ELSE f[1 - 1]
      BY <2>3, <3>1, Zenon
    <3>3. QED
      BY <2>1, <3>1, <3>2, Zenon
  <2>5. Append(<<>>, x) = <<x>>
    OBVIOUS
  <2>6. QED
    BY <2>1, <2>3, <2>4, <2>5 DEF s
<1>2. Among(<<x, y>>, S) = IF x \in S THEN IF y \in S THEN <<x, y>> ELSE <<x>>
                           ELSE IF y \in S THEN <<y>> ELSE <<>>
  <2> DEFINE s == <<x, y>>
  <2>1. s \in Seq(T) /\ Len(s) = 2 /\ s[1] = x /\ s[2] = y
    BY ShortLists
  <2> HIDE DEF s
  <2>2. PICK f : AmongRun(f, T, s, S)
    BY <2>1, AmongSteps, Zenon
  <2>3. /\ f[0] = <<>> /\ Among(s, S) = f[Len(s)]
        /\ \A i \in 1..Len(s) : f[i] = IF s[i] \in S THEN Append(f[i - 1], s[i]) ELSE f[i - 1]
    BY <2>2, Zenon DEF AmongRun
  <2>4. /\ f[1] = IF x \in S THEN Append(f[0], x) ELSE f[0]
        /\ f[2] = IF y \in S THEN Append(f[1], y) ELSE f[1]
    <3>1. 1 \in 1..Len(s) /\ 1 - 1 = 0 /\ 2 \in 1..Len(s) /\ 2 - 1 = 1
      BY <2>1
    <3>2. /\ f[1] = IF s[1] \in S THEN Append(f[1 - 1], s[1]) ELSE f[1 - 1]
          /\ f[2] = IF s[2] \in S THEN Append(f[2 - 1], s[2]) ELSE f[2 - 1]
      BY <2>3, <3>1, Zenon
    <3>3. QED
      BY <2>1, <3>1, <3>2, Zenon
  <2>5. Append(<<>>, x) = <<x>> /\ Append(<<>>, y) = <<y>>
    OBVIOUS
  <2>a. Append(<<x>>, y) = <<x, y>>
    <3> DEFINE t == <<x>>
               u == Append(t, y)
    <3>1. t \in Seq(T) /\ Len(t) = 1 /\ t[1] = x
      BY ShortLists
    <3> HIDE DEF t
    <3>2. /\ u \in Seq(T) /\ Len(u) = Len(t) + 1 /\ u[Len(t) + 1] = y
          /\ \A i \in 1..Len(t) : u[i] = t[i]
      <4>1. t \in Seq(T)
        BY <3>1
      <4>2. QED
        BY <4>1, AppendFacts
    <3> HIDE DEF u
    <3>3. u \in Seq(T) /\ Len(u) = 2 /\ u[1] = x /\ u[2] = y
      BY <3>1, <3>2
    <3>4. u = <<x, y>>
      BY <3>3
    <3>5. QED
      BY <3>4 DEF u, t
  <2>6. QED
    BY <2>1, <2>3, <2>4, <2>5, <2>a DEF s
<1>3. QED
  BY <1>1, <1>2

(* Drawing one role, and two.                                                *)
LEMMA DrawShort ==
  ASSUME NEW uploads \in [AssetRoles -> Nat], NEW b \in Binding,
         NEW x \in AssetRoles, NEW y \in AssetRoles
  PROVE  /\ Draw(uploads, b, <<x>>) = NextAsset(uploads, b, x)
         /\ Draw(uploads, b, <<x, y>>) = NextAsset(uploads, NextAsset(uploads, b, x), y)
<1>1. Draw(uploads, b, <<x>>) = NextAsset(uploads, b, x)
  <2> DEFINE s == <<x>>
  <2>1. s \in Seq(AssetRoles) /\ Len(s) = 1 /\ s[1] = x
    BY ShortLists
  <2> HIDE DEF s
  <2>2. PICK f : DrawRun(f, uploads, b, s)
    BY <2>1, DrawSteps, Zenon
  <2>3. /\ f[0] = b /\ Draw(uploads, b, s) = f[Len(s)]
        /\ \A i \in 1..Len(s) : f[i] = NextAsset(uploads, f[i - 1], s[i])
    BY <2>2, Zenon DEF DrawRun
  <2>4. f[1] = NextAsset(uploads, f[0], x)
    BY <2>1, <2>3
  <2>5. QED
    BY <2>1, <2>3, <2>4 DEF s
<1>2. Draw(uploads, b, <<x, y>>) = NextAsset(uploads, NextAsset(uploads, b, x), y)
  <2> DEFINE s == <<x, y>>
  <2>1. s \in Seq(AssetRoles) /\ Len(s) = 2 /\ s[1] = x /\ s[2] = y
    BY ShortLists
  <2> HIDE DEF s
  <2>2. PICK f : DrawRun(f, uploads, b, s)
    BY <2>1, DrawSteps, Zenon
  <2>3. /\ f[0] = b /\ Draw(uploads, b, s) = f[Len(s)]
        /\ \A i \in 1..Len(s) : f[i] = NextAsset(uploads, f[i - 1], s[i])
    BY <2>2, Zenon DEF DrawRun
  <2>4. f[1] = NextAsset(uploads, f[0], x) /\ f[2] = NextAsset(uploads, f[1], y)
    BY <2>1, <2>3
  <2>5. QED
    BY <2>1, <2>3, <2>4 DEF s
<1>3. QED
  BY <1>1, <1>2

(* Two photos of the package on one page.                                    *)
TwoPackages(shown) == \E x, y \in ToSet(shown) : x[1] = "packaging" /\ y[1] = "packaging" /\ x # y

(* A package photo that does not get on a page finds two others there.       *)
LEMMA AppendShows ==
  ASSUME NEW b \in Binding, NEW asset \in Assets, asset[1] = "packaging", Distinct(b.refs)
  PROVE  asset \in ToSet(AppendRef(b, asset).refs) \/ TwoPackages(b.refs)
<1> DEFINE same == {i \in DOMAIN b.refs : b.refs[i][1] = asset[1]}
<1>1. b.refs \in Seq(Assets) /\ b = [refs |-> b.refs, drawn |-> b.drawn] /\ DOMAIN b.refs = 1..Len(b.refs)
      /\ Len(b.refs) \in Nat
  BY DEF Binding
<1>2. MaxPerRole(asset[1]) = 2
  BY DEF MaxPerRole
<1>3. CASE asset \in ToSet(b.refs)
  BY <1>3 DEF AppendRef
<1>4. CASE asset \notin ToSet(b.refs) /\ Cardinality(same) >= 2
  <2>1. \E i, j \in same : i # j
    <3>1. SUFFICES ASSUME \A i, j \in same : i = j PROVE FALSE
      OBVIOUS
    <3>2. same = {} \/ \E i \in same : same = {i}
      BY <3>1
    <3>3. Cardinality(same) = 0 \/ Cardinality(same) = 1
      BY <3>2, FS_EmptySet, FS_Singleton
    <3>4. QED
      BY <1>4, <3>3
  <2>2. PICK i, j \in same : i # j
    BY <2>1
  <2>3. b.refs[i] # b.refs[j] /\ b.refs[i] \in ToSet(b.refs) /\ b.refs[j] \in ToSet(b.refs)
    BY <2>2 DEF Distinct, ToSet
  <2>4. QED
    BY <2>2, <2>3 DEF TwoPackages
<1>5. CASE asset \notin ToSet(b.refs) /\ ~(Cardinality(same) >= 2)
  <2>1. AppendRef(b, asset) = [b EXCEPT !.refs = Append(b.refs, asset)]
    BY <1>2, <1>5 DEF AppendRef
  <2>2. AppendRef(b, asset).refs = Append(b.refs, asset)
    BY <1>1, <2>1
  <2>3. QED
    BY <1>1, <2>2, AppendFacts
<1>6. QED
  BY <1>3, <1>4, <1>5

(* The second photo of a role that may show one is not taken.                *)
LEMMA AppendBlocked ==
  ASSUME NEW b \in Binding, NEW asset \in Assets, MaxPerRole(asset[1]) = 1,
         asset[1] \in RolesOf(b.refs)
  PROVE  AppendRef(b, asset) = b
<1> DEFINE same == {i \in DOMAIN b.refs : b.refs[i][1] = asset[1]}
<1>1. DOMAIN b.refs = 1..Len(b.refs) /\ Len(b.refs) \in Nat
  BY DEF Binding
<1>2. same # {}
  BY DEF RolesOf, ToSet
<1>3. IsFiniteSet(same)
  <2>1. IsFiniteSet(1..Len(b.refs))
    BY <1>1, FS_Interval
  <2>2. same \subseteq 1..Len(b.refs)
    BY <1>1
  <2>3. QED
    BY <2>1, <2>2, FS_Subset
<1>4. Cardinality(same) \in Nat /\ Cardinality(same) # 0
  BY <1>2, <1>3, FS_CardinalityType, FS_EmptySet
<1>5. Cardinality(same) >= 1
  BY <1>4
<1>6. QED
  BY <1>5 DEF AppendRef

(* A package photo is drawn: it is on the page, or two others are.           *)
LEMMA NextShows ==
  ASSUME NEW uploads \in [AssetRoles -> Nat], NEW b \in Binding, Distinct(b.refs),
         uploads["packaging"] > 0
  PROVE  LET r == NextAsset(uploads, b, "packaging")
         IN  /\ r \in Binding /\ Distinct(r.refs) /\ Continues(r.refs, b.refs)
             /\ r.drawn["packaging"] = b.drawn["packaging"] + 1
             /\ \/ <<"packaging", b.drawn["packaging"] % uploads["packaging"]>> \in ToSet(r.refs)
                \/ TwoPackages(b.refs)
<1> DEFINE c == [b EXCEPT !.drawn["packaging"] = @ + 1]
           asset == <<"packaging", b.drawn["packaging"] % uploads["packaging"]>>
           r == NextAsset(uploads, b, "packaging")
<1>1. "packaging" \in AssetRoles
  BY DEF AssetRoles, CoreRoles
<1>2. uploads["packaging"] \in Nat /\ b.drawn["packaging"] \in Nat /\ b.drawn \in Drawn
  BY <1>1 DEF Binding, Drawn
<1>3. c \in Binding /\ c.refs = b.refs
  BY <1>1, CountOne
<1>4. asset \in Assets /\ asset[1] = "packaging"
  BY <1>1, <1>2 DEF Assets
<1>5. r = AppendRef(c, asset)
  BY <1>2 DEF NextAsset
<1>6. /\ r \in Binding /\ Continues(r.refs, b.refs) /\ Distinct(r.refs)
      /\ r.drawn = [b.drawn EXCEPT !["packaging"] = @ + 1]
  BY <1>1, NextAssetFacts
<1>7. r.drawn["packaging"] = b.drawn["packaging"] + 1
  <2> HIDE DEF r
  <2>1. QED
    BY <1>1, <1>2, <1>6 DEF Drawn
<1> HIDE DEF c, asset, r
<1>8. asset \in ToSet(AppendRef(c, asset).refs) \/ TwoPackages(c.refs)
  BY <1>3, <1>4, AppendShows
<1>9. QED
  BY <1>3, <1>5, <1>6, <1>7, <1>8 DEF r, asset

(* The four draws behind the photos of a page.                               *)
Chain(b1, b2, b3, b4, r, page, uploads, mainFirst, drawn) ==
    /\ b1 = Draw(uploads, [refs |-> <<>>, drawn |-> drawn], PageAnchors(page, uploads))
    /\ b2 = Draw(uploads, b1, Among(BlueprintSupplements(page), SupplementRoles))
    /\ b3 = NextOfPool(uploads, mainFirst, b2)
    /\ b4 = Draw(uploads, b3, SuggestedRoles(page, uploads, mainFirst))
    /\ r = [b4 EXCEPT !.refs = UpTo(5, b4.refs)]
    /\ {b1, b2, b3, b4} \subseteq Binding
    /\ Distinct(b1.refs) /\ Distinct(b2.refs) /\ Distinct(b3.refs) /\ Distinct(b4.refs)
    /\ ToSet(b1.refs) \subseteq ToSet(b2.refs) /\ ToSet(b2.refs) \subseteq ToSet(b3.refs)
    /\ ToSet(b3.refs) \subseteq ToSet(b4.refs) /\ ToSet(b3.refs) \subseteq ToSet(r.refs)
    /\ Len(b4.refs) <= 5 => ToSet(b4.refs) \subseteq ToSet(r.refs)
    /\ Len(b1.refs) <= Len(PageAnchors(page, uploads))
    /\ Len(b2.refs) <= Len(b1.refs) + Len(Among(BlueprintSupplements(page), SupplementRoles))
    /\ Len(b3.refs) <= Len(b2.refs) + 1
    /\ RolesOf(b1.refs) \subseteq RolesOf(b3.refs)
    /\ b2.drawn["packaging"] = b1.drawn["packaging"]
    /\ b3.drawn["packaging"] = b2.drawn["packaging"] + 1
    /\ r.drawn = b4.drawn

(* The four draws exist for every page, and nothing drawn early is cut off.  *)
LEMMA ChainFacts ==
  ASSUME NEW page, NEW uploads \in [AssetRoles -> Nat], NEW mainFirst \in BOOLEAN,
         HasCoreAsset(uploads), NEW drawn \in Drawn
  PROVE  \E b1, b2, b3, b4 :
           Chain(b1, b2, b3, b4, ResolveReferences(page, uploads, mainFirst, drawn),
                 page, uploads, mainFirst, drawn)
<1> DEFINE anchors == PageAnchors(page, uploads)
           supplements == Among(BlueprintSupplements(page), SupplementRoles)
           suggestions == SuggestedRoles(page, uploads, mainFirst)
           start == [refs |-> <<>>, drawn |-> drawn]
           b1 == Draw(uploads, start, anchors)
           b2 == Draw(uploads, b1, supplements)
           b3 == NextOfPool(uploads, mainFirst, b2)
           b4 == Draw(uploads, b3, suggestions)
           r == [b4 EXCEPT !.refs = UpTo(5, b4.refs)]
<1>1. ResolveReferences(page, uploads, mainFirst, drawn) = r
  BY DEF ResolveReferences
<1>2. start \in Binding /\ start.refs = <<>> /\ Len(start.refs) = 0 /\ Distinct(start.refs)
  BY DEF Binding, Distinct
<1>3. /\ anchors \in Seq(AssetRoles) /\ Len(anchors) <= 2 /\ Len(anchors) \in Nat
  BY AnchorFacts
<1>4. /\ supplements \in Seq(AssetRoles) /\ Len(supplements) <= 2 /\ Len(supplements) \in Nat
      /\ "packaging" \notin ToSet(supplements)
  <2> DEFINE B == BlueprintSupplements(page)
  <2>1. B \in Seq(AssetRoles) /\ Len(B) <= 2 /\ Len(B) \in Nat
    BY BlueprintFacts
  <2> HIDE DEF B
  <2> DEFINE s == Among(B, SupplementRoles)
  <2>2. s \in Seq(AssetRoles) /\ Len(s) <= Len(B) /\ ToSet(s) = ToSet(B) \cap SupplementRoles
    BY <2>1, AmongFacts
  <2> HIDE DEF s
  <2>3. Len(s) \in Nat
    BY <2>2
  <2>4. "packaging" \notin SupplementRoles
    BY DEF SupplementRoles
  <2>5. s \in Seq(AssetRoles) /\ Len(s) <= 2 /\ Len(s) \in Nat /\ "packaging" \notin ToSet(s)
    BY <2>1, <2>2, <2>3, <2>4
  <2>6. QED
    BY <2>5 DEF s, B
<1>5. suggestions \in Seq(AssetRoles)
  BY SuggestedFacts
<1> HIDE DEF anchors, supplements, suggestions, start
<1>6. b1 \in Binding /\ Len(b1.refs) <= Len(start.refs) + Len(anchors) /\ Distinct(b1.refs)
  BY <1>2, <1>3, DrawFacts
<1>7. b1 = Draw(uploads, start, anchors)
  OBVIOUS
<1> HIDE DEF b1
<1>8. /\ b2 \in Binding /\ Continues(b2.refs, b1.refs) /\ Distinct(b2.refs)
      /\ Len(b2.refs) <= Len(b1.refs) + Len(supplements)
      /\ b2.drawn["packaging"] = b1.drawn["packaging"]
  BY <1>4, <1>6, DrawFacts
<1>9. b2 = Draw(uploads, b1, supplements)
  OBVIOUS
<1> HIDE DEF b2
<1>10. /\ b3 \in Binding /\ Continues(b3.refs, b2.refs) /\ Len(b3.refs) <= Len(b2.refs) + 1
       /\ RolesOf(b2.refs) \subseteq RolesOf(b3.refs) /\ Distinct(b3.refs)
       /\ b3.drawn["packaging"] = b2.drawn["packaging"] + 1
  BY <1>8, NextOfPoolFacts
<1>11. b3 = NextOfPool(uploads, mainFirst, b2)
  OBVIOUS
<1> HIDE DEF b3
<1>12. b4 \in Binding /\ Continues(b4.refs, b3.refs) /\ Distinct(b4.refs)
  BY <1>5, <1>10, DrawFacts
<1>13. b4 = Draw(uploads, b3, suggestions)
  OBVIOUS
<1> HIDE DEF b4
<1>14. /\ b1.refs \in Seq(Assets) /\ b2.refs \in Seq(Assets) /\ b3.refs \in Seq(Assets)
       /\ b4.refs \in Seq(Assets) /\ b4.drawn \in Drawn
  BY <1>6, <1>8, <1>10, <1>12 DEF Binding
<1>15. Len(b3.refs) <= 5
  <2>1. Len(b1.refs) \in Nat /\ Len(b2.refs) \in Nat /\ Len(b3.refs) \in Nat
    BY <1>14
  <2>2. QED
    BY <1>2, <1>3, <1>4, <1>6, <1>8, <1>10, <2>1
<1>16. r.refs = UpTo(5, b4.refs) /\ r.drawn = b4.drawn
  BY <1>12 DEF Binding
<1>17. /\ ToSet(b1.refs) \subseteq ToSet(b2.refs) /\ ToSet(b2.refs) \subseteq ToSet(b3.refs)
       /\ ToSet(b3.refs) \subseteq ToSet(b4.refs)
  BY <1>8, <1>10, <1>12, <1>14, ContinuesKeeps
<1>18. ToSet(b3.refs) \subseteq ToSet(r.refs)
  BY <1>12, <1>14, <1>15, <1>16, CutKeeps
<1>19. Len(b4.refs) <= 5 => ToSet(b4.refs) \subseteq ToSet(r.refs)
  <2>1. Continues(b4.refs, b4.refs)
    BY <1>14 DEF Continues
  <2>2. QED
    BY <1>14, <1>16, <2>1, CutKeeps
<1>20. RolesOf(b1.refs) \subseteq RolesOf(b3.refs)
  BY <1>10, <1>17 DEF RolesOf
<1> DEFINE res == r
<1>21. res = [b4 EXCEPT !.refs = UpTo(5, b4.refs)] /\ res.refs = r.refs /\ res.drawn = r.drawn
  OBVIOUS
<1> HIDE DEF res
<1>22. Len(b1.refs) <= Len(anchors)
  <2>1. Len(b1.refs) \in Nat
    BY <1>14
  <2>2. QED
    BY <1>2, <1>3, <1>6, <2>1
<1>23. Chain(b1, b2, b3, b4, res, page, uploads, mainFirst, drawn)
  BY <1>6, <1>7, <1>8, <1>9, <1>10, <1>11, <1>12, <1>13, <1>16, <1>17, <1>18, <1>19, <1>20,
     <1>21, <1>22 DEF Chain, anchors, supplements, suggestions, start
<1>24. QED
  BY <1>1, <1>23 DEF res

(* A page anchored in the package shows the photo whose turn it is, and      *)
(* moves the rotation on by three.                                           *)
LEMMA PackPage ==
  ASSUME NEW page, NEW uploads \in [AssetRoles -> Nat], NEW mainFirst \in BOOLEAN,
         uploads["packaging"] > 0, NEW drawn \in Drawn, BlueprintAnchors(page) = <<"packaging">>
  PROVE  LET r == ResolveReferences(page, uploads, mainFirst, drawn)
         IN  /\ <<"packaging", drawn["packaging"] % uploads["packaging"]>> \in ToSet(r.refs)
             /\ r.drawn["packaging"] = drawn["packaging"] + 3
<1> DEFINE r == ResolveReferences(page, uploads, mainFirst, drawn)
           has == {x \in AssetRoles : uploads[x] > 0}
           start == [refs |-> <<>>, drawn |-> drawn]
<1>1. "packaging" \in AssetRoles /\ "packaging" \in CoreRoles
  BY DEF AssetRoles, CoreRoles
<1>2. HasCoreAsset(uploads)
  BY <1>1 DEF HasCoreAsset
<1>3. PageAnchors(page, uploads) = <<"packaging">>
  <2>1. "packaging" \in has
    BY <1>1
  <2> HIDE DEF has
  <2>2. Among(<<"packaging">>, has) = <<"packaging">>
    BY <1>1, <2>1, AmongShort
  <2>3. QED
    BY <2>2 DEF PageAnchors, Uploaded, has
<1>4. SuggestedRoles(page, uploads, mainFirst) = <<"packaging">>
  <2> DEFINE one == <<"packaging">>
  <2>1. one # <<>> /\ PageAnchors(page, uploads) = one
    BY <1>3
  <2> HIDE DEF one
  <2>2. SuggestedRoles(page, uploads, mainFirst) = one
    BY <2>1, SuggestedFacts, Zenon
  <2>3. QED
    BY <2>2 DEF one
<1>5. PICK b1, b2, b3, b4 : Chain(b1, b2, b3, b4, r, page, uploads, mainFirst, drawn)
  BY <1>2, ChainFacts, Zenon
<1> HIDE DEF r
<1>6. start \in Binding /\ start.drawn = drawn /\ start.refs = <<>> /\ Distinct(start.refs)
  BY DEF Binding, Distinct
<1>7. b1 = Draw(uploads, start, <<"packaging">>) /\ b4 = Draw(uploads, b3, <<"packaging">>)
  BY <1>3, <1>4, <1>5, Zenon DEF Chain
<1> HIDE DEF start
<1>8. /\ b1 \in Binding /\ b2 \in Binding /\ b3 \in Binding /\ Distinct(b3.refs)
      /\ b2.drawn["packaging"] = b1.drawn["packaging"]
      /\ b3.drawn["packaging"] = b2.drawn["packaging"] + 1
      /\ ToSet(b1.refs) \subseteq ToSet(r.refs) /\ r.drawn = b4.drawn
  BY <1>5 DEF Chain
<1>9. b1 = NextAsset(uploads, start, "packaging") /\ b4 = NextAsset(uploads, b3, "packaging")
  BY <1>1, <1>6, <1>7, <1>8, DrawShort
<1>10. ~TwoPackages(start.refs)
  BY <1>6 DEF TwoPackages, ToSet
<1>11. /\ b1.drawn["packaging"] = drawn["packaging"] + 1
       /\ <<"packaging", drawn["packaging"] % uploads["packaging"]>> \in ToSet(b1.refs)
  BY <1>6, <1>9, <1>10, NextShows
<1>12. b4.drawn["packaging"] = b3.drawn["packaging"] + 1
  BY <1>8, <1>9, NextShows
<1>13. drawn["packaging"] \in Nat
  BY <1>1 DEF Drawn
<1>14. r.drawn["packaging"] = drawn["packaging"] + 3
  BY <1>8, <1>11, <1>12, <1>13
<1>15. QED
  BY <1>8, <1>11, <1>14 DEF r

(* The page of the dry leaves moves it on by one: the pool.                  *)
LEMMA LeafPage ==
  ASSUME NEW uploads \in [AssetRoles -> Nat], NEW mainFirst \in BOOLEAN, HasCoreAsset(uploads),
         uploads["dry_leaf"] > 0, NEW drawn \in Drawn
  PROVE  ResolveReferences("dry_leaf_evidence", uploads, mainFirst, drawn).drawn["packaging"]
           = drawn["packaging"] + 1
<1> DEFINE page == "dry_leaf_evidence"
           r == ResolveReferences(page, uploads, mainFirst, drawn)
           has == {x \in AssetRoles : uploads[x] > 0}
           start == [refs |-> <<>>, drawn |-> drawn]
           leaf == <<"dry_leaf">>
<1>1. "dry_leaf" \in AssetRoles /\ BlueprintAnchors(page) = leaf
  BY DEF AssetRoles, BlueprintAnchors
<1>2. leaf \in Seq(AssetRoles) /\ "packaging" \notin ToSet(leaf)
  BY <1>1 DEF ToSet
<1>3. PageAnchors(page, uploads) = leaf
  <2>1. "dry_leaf" \in has
    BY <1>1
  <2> HIDE DEF has
  <2>2. Among(<<"dry_leaf">>, has) = <<"dry_leaf">>
    BY <1>1, <2>1, AmongShort
  <2>3. QED
    BY <1>1, <2>2 DEF PageAnchors, Uploaded, has
<1>4. SuggestedRoles(page, uploads, mainFirst) = leaf
  <2>1. leaf # <<>>
    OBVIOUS
  <2> HIDE DEF leaf
  <2>2. QED
    BY <1>3, <2>1, SuggestedFacts, Zenon
<1>5. PICK b1, b2, b3, b4 : Chain(b1, b2, b3, b4, r, page, uploads, mainFirst, drawn)
  BY ChainFacts, Zenon
<1>6. start \in Binding /\ start.drawn = drawn
  BY DEF Binding
<1> HIDE DEF leaf
<1>7. b1 = Draw(uploads, start, leaf) /\ b4 = Draw(uploads, b3, leaf)
  BY <1>3, <1>4, <1>5, Zenon DEF Chain
<1> HIDE DEF r, start, page
<1>8. /\ b3 \in Binding /\ b2.drawn["packaging"] = b1.drawn["packaging"]
      /\ b3.drawn["packaging"] = b2.drawn["packaging"] + 1 /\ r.drawn = b4.drawn
  BY <1>5 DEF Chain
<1>9. b1.drawn["packaging"] = drawn["packaging"]
  BY <1>2, <1>6, <1>7, DrawFacts
<1>10. b4.drawn["packaging"] = b3.drawn["packaging"]
  BY <1>2, <1>7, <1>8, DrawFacts
<1>11. r.drawn["packaging"] = drawn["packaging"] + 1
  BY <1>8, <1>9, <1>10
<1>12. QED
  BY <1>11 DEF r, page

(* The opening page shows the first photo of the package, and a second one   *)
(* unless there are two, the pool begins with main results, and the rotation *)
(* stands at three.                                                          *)
LEMMA HeroPage ==
  ASSUME NEW uploads \in [AssetRoles -> Nat], NEW mainFirst \in BOOLEAN,
         uploads["packaging"] > 1
  PROVE  LET r == ResolveReferences("hero_opening", uploads, mainFirst, NothingDrawn)
         IN  \/ TwoPackages(r.refs)
             \/ /\ <<"packaging", 0>> \in ToSet(r.refs) /\ r.drawn["packaging"] = 3
                /\ uploads["packaging"] = 2
             \/ /\ <<"packaging", 0>> \in ToSet(r.refs) /\ <<"packaging", 1>> \in ToSet(r.refs)
<1> DEFINE page == "hero_opening"
           n == uploads["packaging"]
           m == uploads["main_result"]
           r == ResolveReferences(page, uploads, mainFirst, NothingDrawn)
           has == {x \in AssetRoles : uploads[x] > 0}
           start == [refs |-> <<>>, drawn |-> NothingDrawn]
           anchors == IF m > 0 THEN <<"main_result", "packaging">> ELSE <<"packaging">>
           supplements == Among(BlueprintSupplements(page), SupplementRoles)
<1>1. /\ "packaging" \in AssetRoles /\ "packaging" \in CoreRoles
      /\ "main_result" \in AssetRoles /\ "main_result" \in CoreRoles /\ "bg_ref" \in AssetRoles
  BY DEF AssetRoles, CoreRoles, SupplementRoles
<1>2. HasCoreAsset(uploads) /\ n \in Nat /\ m \in Nat /\ n >= 2 /\ n > 0
  BY <1>1 DEF HasCoreAsset
<1>3. NothingDrawn \in Drawn /\ NothingDrawn["packaging"] = 0
  BY <1>1 DEF NothingDrawn, Drawn
<1>4. PageAnchors(page, uploads) = anchors /\ anchors # <<>>
  <2>1. "packaging" \in has /\ ("main_result" \in has <=> m > 0)
    BY <1>1, <1>2
  <2> HIDE DEF has
  <2>2. Among(<<"main_result", "packaging">>, has) = anchors
    BY <1>1, <2>1, AmongShort
  <2>3. PageAnchors(page, uploads) = anchors
    BY <2>2 DEF PageAnchors, Uploaded, has, BlueprintAnchors
  <2>4. QED
    BY <2>3
<1>5. SuggestedRoles(page, uploads, mainFirst) = anchors
  BY <1>4, SuggestedFacts
<1>6. Len(supplements) <= 1 /\ Len(supplements) \in Nat
  <2>1. BlueprintSupplements(page) = <<"bg_ref">>
    BY DEF BlueprintSupplements
  <2>2. "bg_ref" \in SupplementRoles
    BY DEF SupplementRoles
  <2>3. Among(<<"bg_ref">>, SupplementRoles) = <<"bg_ref">>
    BY <1>1, <2>2, AmongShort
  <2>4. supplements = <<"bg_ref">>
    BY <2>1, <2>3, Zenon
  <2> HIDE DEF supplements
  <2>5. QED
    BY <2>4
<1>7. PICK b1, b2, b3, b4 : Chain(b1, b2, b3, b4, r, page, uploads, mainFirst, NothingDrawn)
  BY <1>2, <1>3, ChainFacts, Zenon
<1>8. start \in Binding /\ start.drawn = NothingDrawn /\ start.refs = <<>> /\ Distinct(start.refs)
  BY <1>3 DEF Binding, Distinct
<1> HIDE DEF anchors
<1>9. /\ b1 = Draw(uploads, start, anchors) /\ b4 = Draw(uploads, b3, anchors)
      /\ b3 = NextOfPool(uploads, mainFirst, b2)
  BY <1>4, <1>5, <1>7, Zenon DEF Chain
<1>10. /\ b1 \in Binding /\ b2 \in Binding /\ b3 \in Binding /\ b4 \in Binding
       /\ Distinct(b2.refs) /\ Distinct(b3.refs) /\ Distinct(b4.refs)
       /\ b2.drawn["packaging"] = b1.drawn["packaging"]
       /\ b3.drawn["packaging"] = b2.drawn["packaging"] + 1
       /\ ToSet(b1.refs) \subseteq ToSet(b2.refs) /\ ToSet(b2.refs) \subseteq ToSet(b3.refs)
       /\ ToSet(b3.refs) \subseteq ToSet(b4.refs) /\ ToSet(b3.refs) \subseteq ToSet(r.refs)
       /\ Len(b4.refs) <= 5 => ToSet(b4.refs) \subseteq ToSet(r.refs)
       /\ RolesOf(b1.refs) \subseteq RolesOf(b3.refs)
       /\ r.drawn = b4.drawn
  BY <1>7 DEF Chain
<1>11. Len(b3.refs) <= 4 /\ Len(b3.refs) \in Nat
  <2>1. /\ Len(b1.refs) <= Len(PageAnchors(page, uploads))
        /\ Len(b2.refs) <= Len(b1.refs) + Len(supplements)
        /\ Len(b3.refs) <= Len(b2.refs) + 1
    BY <1>7 DEF Chain
  <2>2. Len(b1.refs) \in Nat /\ Len(b2.refs) \in Nat /\ Len(b3.refs) \in Nat
    BY <1>10 DEF Binding
  <2>3. Len(PageAnchors(page, uploads)) <= 2 /\ Len(PageAnchors(page, uploads)) \in Nat
    BY AnchorFacts
  <2> HIDE DEF supplements
  <2>4. QED
    BY <1>6, <2>1, <2>2, <2>3
<1> HIDE DEF r, start, page, has, supplements
<1> DEFINE mid(b) == IF m > 0 THEN NextAsset(uploads, b, "main_result") ELSE b
<1>12. /\ b1 = NextAsset(uploads, mid(start), "packaging")
       /\ b4 = NextAsset(uploads, mid(b3), "packaging")
  <2>1. CASE m > 0
    <3>1. /\ anchors = <<"main_result", "packaging">>
          /\ \A b : mid(b) = NextAsset(uploads, b, "main_result")
      BY <2>1 DEF anchors
    <3>2. \A b \in Binding : Draw(uploads, b, <<"main_result", "packaging">>)
                             = NextAsset(uploads, NextAsset(uploads, b, "main_result"), "packaging")
      BY <1>1, DrawShort
    <3> HIDE DEF mid
    <3>3. QED
      BY <1>8, <1>9, <1>10, <3>1, <3>2, Zenon
  <2>2. CASE ~(m > 0)
    <3>1. anchors = <<"packaging">> /\ \A b : mid(b) = b
      BY <2>2 DEF anchors
    <3>2. \A b \in Binding : Draw(uploads, b, <<"packaging">>) = NextAsset(uploads, b, "packaging")
      BY <1>1, DrawShort
    <3> HIDE DEF mid
    <3>3. QED
      BY <1>8, <1>9, <1>10, <3>1, <3>2, Zenon
  <2>3. QED
    BY <2>1, <2>2
<1>13. \A b \in Binding : /\ mid(b) \in Binding /\ mid(b).drawn["packaging"] = b.drawn["packaging"]
                          /\ Distinct(b.refs) => Distinct(mid(b).refs)
                          /\ Continues(mid(b).refs, b.refs)
                          /\ m > 0 => "main_result" \in RolesOf(mid(b).refs)
  <2>1. SUFFICES ASSUME NEW b \in Binding
                 PROVE  /\ mid(b) \in Binding /\ mid(b).drawn["packaging"] = b.drawn["packaging"]
                        /\ Distinct(b.refs) => Distinct(mid(b).refs)
                        /\ Continues(mid(b).refs, b.refs)
                        /\ m > 0 => "main_result" \in RolesOf(mid(b).refs)
    OBVIOUS
  <2>2. CASE m > 0
    <3> DEFINE q == NextAsset(uploads, b, "main_result")
    <3>1. mid(b) = q
      BY <2>2
    <3>2. /\ q \in Binding /\ Continues(q.refs, b.refs) /\ "main_result" \in RolesOf(q.refs)
          /\ Distinct(b.refs) => Distinct(q.refs)
          /\ q.drawn = [b.drawn EXCEPT !["main_result"] = @ + 1]
      BY <1>1, <2>2, NextAssetFacts
    <3> HIDE DEF q
    <3>3. b.drawn \in Drawn
      BY DEF Binding
    <3>4. q.drawn["packaging"] = b.drawn["packaging"]
      BY <1>1, <3>2, <3>3 DEF Drawn
    <3> HIDE DEF mid
    <3>5. QED
      BY <3>1, <3>2, <3>4
  <2>3. CASE ~(m > 0)
    <3>1. mid(b) = b /\ Len(b.refs) \in Nat
      BY <2>3 DEF Binding
    <3> HIDE DEF mid
    <3>2. QED
      BY <2>3, <3>1 DEF Continues
  <2>4. QED
    BY <2>2, <2>3
<1>14. ~TwoPackages(mid(start).refs)
  <2>1. CASE m > 0
    <3> DEFINE q == NextAsset(uploads, start, "main_result")
    <3>1. q \in Binding /\ Len(q.refs) <= 1
      <4>1. q \in Binding /\ Len(q.refs) <= Len(start.refs) + 1
        BY <1>1, <1>8, NextAssetFacts
      <4>2. Len(start.refs) = 0
        BY <1>8
      <4> HIDE DEF q
      <4>3. QED
        BY <4>1, <4>2
    <3>2. mid(start) = q
      BY <2>1
    <3> HIDE DEF q, mid
    <3>3. DOMAIN q.refs = 1..Len(q.refs) /\ Len(q.refs) \in Nat
      BY <3>1 DEF Binding
    <3>4. \A i, j \in DOMAIN q.refs : i = j
      BY <3>1, <3>3
    <3>5. QED
      BY <3>2, <3>4 DEF TwoPackages, ToSet
  <2>2. CASE ~(m > 0)
    BY <1>8, <2>2 DEF TwoPackages, ToSet
  <2>3. QED
    BY <2>1, <2>2
<1>15. mid(start).drawn["packaging"] = 0 /\ mid(start) \in Binding /\ Distinct(mid(start).refs)
  BY <1>3, <1>8, <1>13
<1> HIDE DEF mid
<1>16. <<"packaging", 0>> \in ToSet(b1.refs) /\ b1.drawn["packaging"] = 1
  <2>1. 0 % n = 0
    BY <1>2
  <2>2. QED
    BY <1>2, <1>12, <1>14, <1>15, <2>1, NextShows
<1>17. <<"packaging", 0>> \in ToSet(b3.refs) /\ <<"packaging", 0>> \in ToSet(r.refs)
  BY <1>10, <1>16
<1>18. CASE ~mainFirst \/ m = 0
  <2> DEFINE pool == PackagingPool(uploads, mainFirst)
             asset == pool[(b2.drawn["packaging"] % Len(pool)) + 1]
  <2>1. Len(pool) = n + m /\ pool[2] = <<"packaging", 1>>
    <3> DEFINE first == PreferredCore(mainFirst)[1]
               second == PreferredCore(mainFirst)[2]
    <3>1. /\ Len(pool) = uploads[first] + uploads[second]
          /\ \A i \in 1..uploads[first] : pool[i] = <<first, i - 1>>
          /\ \A i \in 1..uploads[second] : pool[uploads[first] + i] = <<second, i - 1>>
      BY PoolFacts
    <3> HIDE DEF pool
    <3>2. CASE ~mainFirst
      <4>1. first = "packaging" /\ second = "main_result"
        BY <3>2 DEF PreferredCore
      <4>2. QED
        BY <1>2, <3>1, <4>1
    <3>3. CASE mainFirst
      <4>1. first = "main_result" /\ second = "packaging" /\ m = 0
        BY <1>18, <3>3 DEF PreferredCore
      <4>2. 2 \in 1..n /\ 0 + 2 = 2 /\ 2 - 1 = 1
        BY <1>2
      <4>3. pool[0 + 2] = <<"packaging", 2 - 1>> /\ Len(pool) = 0 + n
        BY <3>1, <4>1, <4>2, Zenon
      <4>4. QED
        BY <1>2, <4>1, <4>3
    <3>4. QED
      BY <3>2, <3>3
  <2>2. PICK c \in Binding : c.refs = b2.refs /\ b3 = AppendRef(c, asset)
    <3>1. \E c \in Binding : c.refs = b2.refs /\ NextOfPool(uploads, mainFirst, b2) = AppendRef(c, asset)
      BY <1>2, <1>10, NextOfPoolFacts, Zenon
    <3> HIDE DEF asset
    <3>2. QED
      BY <1>9, <3>1
  <2>3. asset = <<"packaging", 1>>
    <3> HIDE DEF pool
    <3>1. b2.drawn["packaging"] = 1
      BY <1>10, <1>16
    <3>2. 1 % Len(pool) = 1
      BY <1>2, <2>1
    <3>3. QED
      BY <2>1, <3>1, <3>2
  <2>4. <<"packaging", 1>> \in Assets
    BY <1>1 DEF Assets
  <2> HIDE DEF asset
  <2>5. <<"packaging", 1>> \in ToSet(b3.refs) \/ TwoPackages(b2.refs)
    BY <1>10, <2>2, <2>3, <2>4, AppendShows
  <2>6. QED
    BY <1>10, <1>17, <2>5 DEF TwoPackages, r, page
<1>19. CASE mainFirst /\ m > 0
  <2>1. mid(b3).refs = b3.refs /\ mid(b3) \in Binding /\ mid(b3).drawn["packaging"] = 2
    <3>1. "main_result" \in RolesOf(b3.refs)
      <4>1. "main_result" \in RolesOf(b1.refs)
        <5>1. /\ "main_result" \in RolesOf(mid(start).refs)
              /\ RolesOf(mid(start).refs) \subseteq RolesOf(b1.refs)
          BY <1>1, <1>8, <1>12, <1>13, <1>15, <1>19, NextAssetFacts
        <5>2. QED
          BY <5>1
      <4>2. QED
        BY <1>10, <4>1
    <3> DEFINE c == [b3 EXCEPT !.drawn["main_result"] = @ + 1]
               asset == <<"main_result", b3.drawn["main_result"] % m>>
    <3>2. c \in Binding /\ c.refs = b3.refs
      BY <1>1, <1>10, CountOne
    <3>3. asset \in Assets /\ asset[1] = "main_result" /\ MaxPerRole(asset[1]) = 1
      <4>1. b3.drawn["main_result"] \in Nat
        BY <1>1, <1>10 DEF Binding, Drawn
      <4>2. QED
        BY <1>1, <1>2, <1>19, <4>1 DEF Assets, MaxPerRole
    <3>4. mid(b3) = AppendRef(c, asset)
      <4>1. mid(b3) = NextAsset(uploads, b3, "main_result")
        BY <1>19 DEF mid
      <4>2. ~(uploads["main_result"] = 0)
        BY <1>19
      <4>3. QED
        BY <4>1, <4>2 DEF NextAsset
    <3> HIDE DEF c, asset
    <3>5. AppendRef(c, asset) = c
      BY <3>1, <3>2, <3>3, AppendBlocked
    <3>6. mid(b3).drawn["packaging"] = 2
      BY <1>10, <1>13, <1>16
    <3>7. QED
      BY <3>2, <3>4, <3>5, <3>6
  <2>2. /\ b4.drawn["packaging"] = 3
        /\ <<"packaging", 2 % n>> \in ToSet(b4.refs) \/ TwoPackages(b3.refs)
    BY <1>2, <1>10, <1>12, <2>1, NextShows
  <2>3. CASE n = 2
    BY <1>10, <1>17, <2>2, <2>3 DEF r, page
  <2>4. CASE TwoPackages(b3.refs)
    BY <1>10, <2>4 DEF TwoPackages, r, page
  <2>5. CASE n > 2 /\ ~TwoPackages(b3.refs)
    <3>1. 2 % n = 2
      BY <1>2, <2>5
    <3>2. <<"packaging", 2>> \in ToSet(b4.refs)
      BY <2>2, <2>5, <3>1
    <3>3. Len(b4.refs) <= 5
      <4>1. Len(b4.refs) <= Len(mid(b3).refs) + 1
        BY <1>1, <1>12, <2>1, NextAssetFacts
      <4>2. Len(b4.refs) \in Nat
        BY <1>10 DEF Binding
      <4>3. QED
        BY <1>11, <2>1, <4>1, <4>2
    <3>4. <<"packaging", 2>> \in ToSet(r.refs)
      BY <1>10, <3>2, <3>3
    <3>5. QED
      BY <1>17, <3>4 DEF TwoPackages, r, page
  <2>6. QED
    BY <1>2, <2>3, <2>4, <2>5
<1>20. QED
  BY <1>2, <1>18, <1>19

(* What Among has taken stays: its result goes on where an earlier one ends. *)
LEMMA AmongGrows ==
  ASSUME NEW T, NEW seq \in Seq(T), NEW S, NEW f, AmongRun(f, T, seq, S), NEW i \in 0..Len(seq)
  PROVE  Continues(Among(seq, S), f[i])
<1> DEFINE N == Len(seq)
           P == {j \in 0..N : j >= i => Continues(f[j], f[i])}
<1>1. /\ \A j \in 0..N : f[j] \in Seq(T)
      /\ \A j \in 1..N : f[j] = IF seq[j] \in S THEN Append(f[j - 1], seq[j]) ELSE f[j - 1]
      /\ Among(seq, S) = f[N]
  BY DEF AmongRun
<1>2. N \in Nat /\ \A j \in 1..N : seq[j] \in T
  BY ElementOfSeq
<1> HIDE DEF N
<1>3. i \in 0..N
  BY DEF N
<1>4. Continues(f[i], f[i])
  <2>1. Len(f[i]) \in Nat
    BY <1>1, <1>3
  <2>2. QED
    BY <2>1 DEF Continues
<1>5. 0 \in P
  <2>1. 0 >= i => i = 0
    BY <1>2, <1>3
  <2>2. QED
    BY <1>2, <1>4, <2>1
<1>6. ASSUME NEW j \in 1..N, (j - 1) \in P
      PROVE  j \in P
  <2>1. j \in 0..N /\ j - 1 \in 0..N /\ (j >= i => (j - 1 >= i \/ j = i))
    BY <1>2, <1>3
  <2>2. CASE j = i
    BY <1>4, <2>1, <2>2
  <2>3. CASE j - 1 >= i
    <3> DEFINE s == f[j - 1]
    <3>1. s \in Seq(T) /\ seq[j] \in T /\ Continues(s, f[i]) /\ f[i] \in Seq(T)
      BY <1>1, <1>2, <1>3, <1>6, <2>1, <2>3
    <3>2. f[j] = IF seq[j] \in S THEN Append(s, seq[j]) ELSE s
      BY <1>1
    <3> HIDE DEF s
    <3>3. CASE seq[j] \in S
      <4> DEFINE a == Append(s, seq[j])
      <4>1. Len(a) = Len(s) + 1 /\ Len(s) \in Nat /\ \A k \in 1..Len(s) : a[k] = s[k]
        BY <3>1, AppendFacts
      <4> HIDE DEF a
      <4>2. Len(f[i]) \in Nat
        BY <3>1
      <4>3. Continues(a, f[i])
        BY <3>1, <4>1, <4>2 DEF Continues
      <4>4. f[j] = a
        BY <3>2, <3>3 DEF a
      <4>5. QED
        BY <2>1, <4>3, <4>4
    <3>4. CASE seq[j] \notin S
      BY <2>1, <3>1, <3>2, <3>4
    <3>5. QED
      BY <3>3, <3>4
  <2>4. CASE ~(j >= i)
    BY <2>1, <2>4
  <2>5. QED
    BY <2>1, <2>2, <2>3, <2>4
<1> HIDE DEF P
<1>7. \A j \in 0..N : j \in P
  BY <1>2, <1>5, <1>6, Induct
<1>8. N \in P
  BY <1>2, <1>7
<1>9. N >= i
  BY <1>2, <1>3
<1>10. QED
  BY <1>1, <1>8, <1>9 DEF P

(* The second page of a plan, and with a photo of the dry leaves the next    *)
(* two.                                                                      *)
LEMMA PlanStarts ==
  ASSUME NEW target \in 1..12, target > 3, NEW uploads \in [AssetRoles -> Nat], HasCoreAsset(uploads)
  PROVE  LET pages == SelectPageRoles(target, uploads)
         IN  /\ uploads["dry_leaf"] = 0 => pages[2] = "tea_soup_evidence"
             /\ uploads["dry_leaf"] > 0 => /\ pages[2] = "dry_leaf_evidence"
                                           /\ pages[3] = "tea_soup_evidence"
                                           /\ pages[4] = "parameter_and_closing"
<1> DEFINE seq == PageSequence(target)
           ok == AllowedRoles(uploads)
           kept == Among(seq, ok)
           extra == Among(OptionalRoleCandidates, ok)
           padded == FillUp(target, kept, extra)
           full == FillUp(target, padded, DefaultSequence)
           pages == UpTo(target, full)
<1>1. target \in Nat /\ target >= 4 /\ "dry_leaf" \in AssetRoles /\ uploads["dry_leaf"] \in Nat
  BY DEF AssetRoles
<1>2. SelectPageRoles(target, uploads) = pages
  BY DEF SelectPageRoles
<1>3. /\ seq \in Seq(PageRoles) /\ Distinct(seq) /\ Len(seq) >= 8 /\ Len(seq) \in Nat
      /\ seq[1] = "hero_opening" /\ seq[2] = "dry_leaf_evidence"
      /\ seq[3] = "tea_soup_evidence" /\ seq[4] = "parameter_and_closing"
  <2>1. /\ seq \in Seq(PageRoles) /\ Distinct(seq) /\ Len(seq) >= 8
        /\ \A i \in 1..8 : seq[i] = DefaultSequence[i]
    BY <1>1, TemplateFacts
  <2> HIDE DEF seq
  <2>2. Len(seq) \in Nat
    BY <2>1
  <2>3. QED
    BY <2>1, <2>2, TwelvePages
<1>4. /\ "hero_opening" \in ok /\ "tea_soup_evidence" \in ok /\ "parameter_and_closing" \in ok
      /\ "dry_leaf_evidence" \in ok <=> uploads["dry_leaf"] > 0
  <2>1. /\ "hero_opening" \in PageRoles /\ "dry_leaf_evidence" \in PageRoles
        /\ "tea_soup_evidence" \in PageRoles /\ "parameter_and_closing" \in PageRoles
    <3>1. \A i \in 1..12 : DefaultSequence[i] \in PageRoles
      BY TwelvePages, ElementOfSeq
    <3>2. QED
      BY <3>1, TwelvePages
  <2>2. QED
    BY <2>1 DEF AllowedRoles, RoleIsAllowed
<1> HIDE DEF seq, ok
<1>5. PICK f : AmongRun(f, PageRoles, seq, ok)
  BY <1>3, AmongSteps, Zenon
<1>6. Continues(kept, f[4])
  <2>1. 4 \in 0..Len(seq)
    BY <1>3
  <2>2. QED
    BY <1>3, <1>5, <2>1, AmongGrows
<1>7. f[4] = IF uploads["dry_leaf"] > 0
             THEN <<"hero_opening", "dry_leaf_evidence", "tea_soup_evidence", "parameter_and_closing">>
             ELSE <<"hero_opening", "tea_soup_evidence", "parameter_and_closing">>
  <2>1. /\ 1 \in 1..Len(seq) /\ 2 \in 1..Len(seq) /\ 3 \in 1..Len(seq) /\ 4 \in 1..Len(seq)
        /\ 1 - 1 = 0 /\ 2 - 1 = 1 /\ 3 - 1 = 2 /\ 4 - 1 = 3
    BY <1>3
  <2>2. \A i \in 1..Len(seq) : f[i] = IF seq[i] \in ok THEN Append(f[i - 1], seq[i]) ELSE f[i - 1]
    BY <1>5 DEF AmongRun
  <2>3. f[0] = <<>>
    BY <1>5 DEF AmongRun
  <2>4. f[1] = Append(<<>>, "hero_opening")
    BY <1>3, <1>4, <2>1, <2>2, <2>3, Zenon
  <2>5. f[2] = IF uploads["dry_leaf"] > 0 THEN Append(f[1], "dry_leaf_evidence") ELSE f[1]
    BY <1>3, <1>4, <2>1, <2>2, Zenon
  <2>6. f[3] = Append(f[2], "tea_soup_evidence")
    BY <1>3, <1>4, <2>1, <2>2, Zenon
  <2>7. f[4] = Append(f[3], "parameter_and_closing")
    BY <1>3, <1>4, <2>1, <2>2, Zenon
  <2>8. QED
    BY <2>4, <2>5, <2>6, <2>7
<1>8. kept \in Seq(PageRoles) /\ extra \in Seq(PageRoles)
  BY <1>3, OptionalFacts, AmongFacts
<1> HIDE DEF kept, extra
<1>9. padded \in Seq(PageRoles) /\ Continues(padded, kept)
  BY <1>1, <1>8, FillFacts DEF Continues
<1> HIDE DEF padded
<1>10. full \in Seq(PageRoles) /\ Continues(full, padded)
  BY <1>1, <1>9, TwelvePages, FillFacts DEF Continues
<1> HIDE DEF full
<1>11. \A i \in 1..Len(f[4]) : full[i] = f[4][i] /\ i \in 1..Len(full)
  <2>1. Len(kept) \in Nat /\ Len(padded) \in Nat /\ Len(full) \in Nat
    BY <1>8, <1>9, <1>10
  <2>2. Len(f[4]) \in Nat
    BY <1>7
  <2>3. \A i \in 1..Len(f[4]) : i \in 1..Len(kept) /\ i \in 1..Len(padded) /\ i \in 1..Len(full)
    BY <1>6, <1>9, <1>10, <2>1, <2>2 DEF Continues
  <2>4. QED
    BY <1>6, <1>9, <1>10, <2>3, Zenon DEF Continues
<1>12. \A i \in 1..4 : i \in 1..Len(full) => pages[i] = full[i]
  <2>1. /\ Len(pages) = IF Len(full) < target THEN Len(full) ELSE target
        /\ \A i \in 1..Len(pages) : pages[i] = full[i]
    BY <1>1, <1>10, UpToFacts
  <2>2. Len(full) \in Nat
    BY <1>10
  <2> HIDE DEF pages
  <2>3. \A i \in 1..4 : i \in 1..Len(full) => i \in 1..Len(pages)
    BY <1>1, <2>1, <2>2
  <2>4. QED
    BY <2>1, <2>3
<1> HIDE DEF pages
<1>13. CASE uploads["dry_leaf"] = 0
  <2>1. f[4] = <<"hero_opening", "tea_soup_evidence", "parameter_and_closing">>
    BY <1>7, <1>13
  <2>2. 2 \in 1..Len(f[4]) /\ 2 \in 1..4 /\ f[4][2] = "tea_soup_evidence"
    BY <2>1
  <2>3. QED
    BY <1>2, <1>11, <1>12, <1>13, <2>2
<1>14. CASE uploads["dry_leaf"] > 0
  <2>1. f[4] = <<"hero_opening", "dry_leaf_evidence", "tea_soup_evidence", "parameter_and_closing">>
    BY <1>7, <1>14
  <2>2. /\ 2 \in 1..Len(f[4]) /\ 3 \in 1..Len(f[4]) /\ 4 \in 1..Len(f[4])
        /\ f[4][2] = "dry_leaf_evidence" /\ f[4][3] = "tea_soup_evidence"
        /\ f[4][4] = "parameter_and_closing"
    BY <2>1
  <2>3. 2 \in 1..4 /\ 3 \in 1..4 /\ 4 \in 1..4
    OBVIOUS
  <2>4. QED
    BY <1>1, <1>2, <1>11, <1>12, <1>14, <2>2, <2>3
<1>15. QED
  BY <1>1, <1>13, <1>14

(* Two photos of the package are two used ones.                              *)
LEMMA UsedTwice ==
  ASSUME NEW j \in Pages, NEW k \in Pages, NEW x \in ToSet(refs[j]), NEW y \in ToSet(refs[k]),
         x[1] = "packaging", y[1] = "packaging", x # y, IsFiniteSet(UsedPackaging)
  PROVE  Cardinality(UsedPackaging) > 1
<1>1. {x, y} \subseteq UsedPackaging
  BY DEF UsedPackaging
<1>2. Cardinality({x, y}) = 2
  <2>1. IsFiniteSet({x}) /\ Cardinality({x}) = 1
    BY FS_Singleton
  <2>2. Cardinality({x} \cup {y}) = Cardinality({x}) + 1
    BY <2>1, FS_AddElement
  <2>3. {x} \cup {y} = {x, y}
    OBVIOUS
  <2>4. QED
    BY <2>1, <2>2, <2>3
<1>3. Cardinality({x, y}) <= Cardinality(UsedPackaging) /\ Cardinality(UsedPackaging) \in Nat
  BY <1>1, FS_Subset, FS_CardinalityType
<1>4. QED
  BY <1>2, <1>3

(* A function over 1..n has finitely many values.                            *)
LEMMA ImageFinite ==
  ASSUME NEW n \in Nat, NEW g
  PROVE  IsFiniteSet({g[i] : i \in 1..n})
<1> DEFINE I == 1..n
           V == {g[i] : i \in I}
           h == [i \in I |-> g[i]]
<1>1. IsFiniteSet(I)
  BY FS_Interval
<1>2. h \in Surjection(I, V)
  BY DEF Surjection
<1>3. QED
  BY <1>1, <1>2, FS_Surjection

(* Finitely many photos are used.                                            *)
LEMMA UsedFinite ==
  ASSUME Planned, refs = Bindings
  PROVE  IsFiniteSet(UsedPackaging)
<1> DEFINE row == [k \in Pages |-> ToSet(refs[k])]
           shown == {row[k] : k \in Pages}
<1>1. Pages = 1..Len(plan) /\ Len(plan) \in Nat
  <2>1. plan \in Seq(PageRoles) /\ Pages = 1..Len(plan)
    BY PlanFits
  <2>2. Len(plan) \in Nat
    BY <2>1
  <2>3. QED
    BY <2>1, <2>2
<1>2. IsFiniteSet(shown)
  BY <1>1, ImageFinite
<1>3. \A t \in shown : IsFiniteSet(t)
  <2>1. SUFFICES ASSUME NEW k \in Pages PROVE IsFiniteSet(ToSet(refs[k]))
    OBVIOUS
  <2>2. refs[k] \in Seq(Assets)
    BY RowFits
  <2>3. DOMAIN refs[k] = 1..Len(refs[k]) /\ Len(refs[k]) \in Nat
    BY <2>2
  <2>4. ToSet(refs[k]) = {refs[k][i] : i \in 1..Len(refs[k])}
    BY <2>3 DEF ToSet
  <2> DEFINE s == refs[k]
             n == Len(s)
  <2>5. ToSet(refs[k]) = {s[i] : i \in 1..n} /\ n \in Nat
    BY <2>3, <2>4
  <2> HIDE DEF s, n
  <2>6. IsFiniteSet({s[i] : i \in 1..n})
    BY <2>5, ImageFinite
  <2>7. QED
    BY <2>5, <2>6, Zenon
<1> HIDE DEF shown
<1>4. IsFiniteSet(UNION shown)
  BY <1>2, <1>3, FS_UNION
<1>5. UsedPackaging \subseteq UNION shown
  BY DEF UsedPackaging, shown
<1>6. QED
  BY <1>4, <1>5, FS_Subset

(* With two photos of the package and four pages, two of them are shown: the *)
(* opening page shows two, or the rotation reaches the second one on the     *)
(* first page after it that is anchored in the package.                      *)
LEMMA Rotates ==
  ASSUME Planned, refs = Bindings, job.uploads["packaging"] > 1, job.target > 3
  PROVE  Cardinality(UsedPackaging) > 1
<1> DEFINE uploads == job.uploads
           mainFirst == job.mainFirst
           Row(page, drawn) == ResolveReferences(page, uploads, mainFirst, drawn)
<1>1. /\ uploads \in [AssetRoles -> Nat] /\ mainFirst \in BOOLEAN /\ HasCoreAsset(uploads)
      /\ job.target \in 1..12 /\ "packaging" \in AssetRoles /\ "dry_leaf" \in AssetRoles
      /\ uploads["packaging"] > 1 /\ uploads["packaging"] > 0
      /\ uploads["packaging"] \in Nat /\ uploads["dry_leaf"] \in Nat
  BY DEF Planned, JobType, AssetRoles, CoreRoles
<1>2. IsFiniteSet(UsedPackaging)
  BY UsedFinite
<1>3. /\ plan \in Seq(PageRoles) /\ Len(plan) = job.target /\ plan[1] = "hero_opening"
      /\ Pages = 1..Len(plan)
  BY PlanFits
<1>4. /\ uploads["dry_leaf"] = 0 => plan[2] = "tea_soup_evidence"
      /\ uploads["dry_leaf"] > 0 => /\ plan[2] = "dry_leaf_evidence"
                                    /\ plan[3] = "tea_soup_evidence"
                                    /\ plan[4] = "parameter_and_closing"
  BY <1>1, PlanStarts DEF Planned
<1>5. PICK d : BoundAlong(d, refs, plan, uploads, mainFirst)
  BY RowsFit
<1>6. /\ d[0] = NothingDrawn
      /\ \A k \in Pages : /\ d[k - 1] \in Drawn /\ refs[k] = Row(plan[k], d[k - 1]).refs
                          /\ d[k] = Row(plan[k], d[k - 1]).drawn
  BY <1>3, <1>5, Zenon DEF BoundAlong
<1>7. 1 \in Pages /\ 2 \in Pages /\ 3 \in Pages /\ 4 \in Pages
  BY <1>1, <1>3
<1>8. /\ 1 - 1 = 0 /\ 2 - 1 = 1 /\ 3 - 1 = 2 /\ 4 - 1 = 3
  OBVIOUS
<1> HIDE DEF Row, uploads, mainFirst
<1>9. /\ refs[1] = Row("hero_opening", NothingDrawn).refs
      /\ d[1] = Row("hero_opening", NothingDrawn).drawn
      /\ d[1] \in Drawn /\ d[2] \in Drawn /\ d[3] \in Drawn
      /\ refs[2] = Row(plan[2], d[1]).refs /\ d[2] = Row(plan[2], d[1]).drawn
      /\ refs[3] = Row(plan[3], d[2]).refs /\ d[3] = Row(plan[3], d[2]).drawn
      /\ refs[4] = Row(plan[4], d[3]).refs
  BY <1>3, <1>6, <1>7, <1>8, Zenon
<1>10. CASE TwoPackages(refs[1])
  BY <1>2, <1>7, <1>10, UsedTwice DEF TwoPackages
<1>11. CASE <<"packaging", 0>> \in ToSet(refs[1]) /\ <<"packaging", 1>> \in ToSet(refs[1])
  <2>1. TwoPackages(refs[1])
    BY <1>11 DEF TwoPackages
  <2>2. QED
    BY <1>10, <2>1
<1>12. CASE <<"packaging", 0>> \in ToSet(refs[1]) /\ d[1]["packaging"] = 3 /\ uploads["packaging"] = 2
  <2>1. \E k \in Pages : <<"packaging", 1>> \in ToSet(refs[k])
    <3>1. CASE uploads["dry_leaf"] = 0
      <4>1. BlueprintAnchors("tea_soup_evidence") = <<"packaging">>
        BY DEF BlueprintAnchors
      <4>2. <<"packaging", 3 % 2>> \in ToSet(Row("tea_soup_evidence", d[1]).refs)
        BY <1>1, <1>9, <1>12, <4>1, PackPage DEF Row
      <4>3. 3 % 2 = 1
        OBVIOUS
      <4>4. QED
        BY <1>4, <1>7, <1>9, <3>1, <4>2, <4>3
    <3>2. CASE uploads["dry_leaf"] > 0
      <4>1. d[2]["packaging"] = 4
        <5>1. Row("dry_leaf_evidence", d[1]).drawn["packaging"] = d[1]["packaging"] + 1
          BY <1>1, <1>9, <3>2, LeafPage DEF Row
        <5>2. QED
          BY <1>4, <1>9, <1>12, <3>2, <5>1
      <4>2. d[3]["packaging"] = 7
        <5>1. BlueprintAnchors("tea_soup_evidence") = <<"packaging">>
          BY DEF BlueprintAnchors
        <5>2. Row("tea_soup_evidence", d[2]).drawn["packaging"] = d[2]["packaging"] + 3
          BY <1>1, <1>9, <5>1, PackPage DEF Row
        <5>3. QED
          BY <1>4, <1>9, <3>2, <4>1, <5>2
      <4>3. BlueprintAnchors("parameter_and_closing") = <<"packaging">>
        BY DEF BlueprintAnchors
      <4>4. <<"packaging", 7 % 2>> \in ToSet(Row("parameter_and_closing", d[3]).refs)
        BY <1>1, <1>9, <1>12, <4>2, <4>3, PackPage DEF Row
      <4>5. 7 % 2 = 1
        OBVIOUS
      <4>6. QED
        BY <1>4, <1>7, <1>9, <3>2, <4>4, <4>5
    <3>3. QED
      BY <1>1, <3>1, <3>2
  <2>2. PICK k \in Pages : <<"packaging", 1>> \in ToSet(refs[k])
    BY <2>1
  <2>3. <<"packaging", 0>>[1] = "packaging" /\ <<"packaging", 1>>[1] = "packaging"
        /\ <<"packaging", 0>> # <<"packaging", 1>>
    OBVIOUS
  <2>4. QED
    BY <1>2, <1>7, <1>12, <2>2, <2>3, UsedTwice
<1>13. QED
  <2>1. LET r == Row("hero_opening", NothingDrawn)
        IN  \/ TwoPackages(r.refs)
            \/ /\ <<"packaging", 0>> \in ToSet(r.refs) /\ r.drawn["packaging"] = 3
               /\ uploads["packaging"] = 2
            \/ /\ <<"packaging", 0>> \in ToSet(r.refs) /\ <<"packaging", 1>> \in ToSet(r.refs)
    BY <1>1, HeroPage DEF Row
  <2>2. QED
    BY <1>9, <1>10, <1>11, <1>12, <2>1

(* The photos of the package are bound in rotation.                          *)
THEOREM PackagingTurns == Spec => []PackagingRotates
<1>1. PlanInv => PackagingRotates
  <2>1. PlanInv /\ refs # <<>> => Planned /\ refs = Bindings
    BY DEF PlanInv
  <2>2. QED
    BY <2>1, Rotates DEF PackagingRotates
<1>2. QED
  BY <1>1, PlanInvariant, PTL
=============================================================================
