----------------------------- MODULE DetailPages -----------------------------
(***************************************************************************)
(* One detail page task, from its inputs to its ZIP.                       *)
(*                                                                         *)
(* The nodes of engine/workflows/detail_graph.py run in a fixed order:     *)
(* photos are checked, pages are planned, texts and photo bindings follow  *)
(* from the plan, each page is rendered with up to three calls of the      *)
(* image model, the results are checked, and detail_finalize turns the     *)
(* checks into the outcome of the task.  A call may raise or return a      *)
(* picture of the wrong shape; a store call between two steps may raise;   *)
(* the worker may die.  The broker then delivers the task again, and the   *)
(* workflow starts over in a directory that still holds the files of the   *)
(* earlier delivery.                                                       *)
(***************************************************************************)
EXTENDS DetailPlanner

CONSTANTS
    Scenarios,    \* requests explored, each with a bound on what goes wrong
    MaxDeliveries \* 1 + the retries and redeliveries of the broker

JobType == [uploads : [AssetRoles -> Nat], target : 1..12, mainFirst : BOOLEAN,
            cards : Nat, brew : BOOLEAN, rules : BOOLEAN]

(* badCalls: calls of the image model that raise or return a wrong shape;    *)
(* cuts: deliveries that are cut off.                                        *)
ASSUME DetailPagesAssumption ==
    /\ Scenarios \subseteq [job : JobType, badCalls : Nat, cuts : Nat]
    /\ MaxDeliveries \in Nat \ {0}

VARIABLES
    job,       \* the request: photos, pages wanted, product data (see JobType)
    step,      \* the node that runs, or how the delivery ended
    delivery,  \* which delivery of the task this is
    plan,      \* detail_plan: the roles of the pages
    copy,      \* detail_copy_blocks: what QC will find in the texts
    refs,      \* detail_prompt_plan: the photos bound to each page
    tries,     \* failed calls for the page that is being rendered
    results,   \* detail_render_results
    verdict,   \* detail_qc_summary
    flagged,   \* review/retry_decisions.json: pages with should_retry
    status,    \* task.json
    png,       \* generated/NN_page.png: <<page, the delivery that wrote it>>
    bundle,    \* exports/detail_bundle.zip: the png it holds
    bad, cuts  \* how many calls may still go wrong, deliveries be cut off

input == <<job, delivery>>
planned == <<plan, copy, refs>>
rendered == <<tries, results>>
checked == <<verdict, flagged>>
disk == <<png, bundle>>
bounds == <<bad, cuts>>
vars == <<input, step, planned, rendered, checked, status, disk, bounds>>

Pages == DOMAIN plan
NoVerdict == [passed |-> FALSE, review |-> FALSE]
Ends == {"ended", "raised", "dead"}

Init ==
    /\ \E s \in Scenarios : job = s.job /\ bad = s.badCalls /\ cuts = s.cuts
    /\ step = "detail_ingest_assets"
    /\ delivery = 1
    /\ plan = <<>> /\ copy = <<>> /\ refs = <<>>
    /\ tries = 0 /\ results = <<>>
    /\ verdict = NoVerdict /\ flagged = {}
    /\ status = "created"
    /\ png = {} /\ bundle = {}

-----------------------------------------------------------------------------
(* The planning nodes. *)

(* Without a photo of the package the task cannot be anchored. *)
IngestAssets ==
    /\ step = "detail_ingest_assets"
    /\ IF HasCoreAsset(job.uploads)
       THEN step' = "detail_plan" /\ status' = "running"
       ELSE step' = "raised" /\ status' = "failed"
    /\ UNCHANGED <<input, planned, rendered, checked, disk, bounds>>

MakePlan ==
    /\ step = "detail_plan"
    /\ plan' = SelectPageRoles(job.target, job.uploads)
    /\ step' = "detail_generate_copy"
    /\ UNCHANGED <<input, copy, refs, rendered, checked, status, disk, bounds>>

(* The texts are templates around the user's own words: a selling point that *)
(* reads like an instruction reaches the first and the closing page, the     *)
(* product data become parameter cards, at most four.                        *)
CopyOf(page) ==
    [rule |-> job.rules /\ page \in {"hero_opening", "brand_closing"},
     few  |-> \/ page = "parameter_and_closing" /\ job.cards < 3
              \/ page = "brewing_method_info" /\ job.cards + (IF job.brew THEN 1 ELSE 0) < 3]

GenerateCopy ==
    /\ step = "detail_generate_copy"
    /\ copy' = [k \in Pages |-> CopyOf(plan[k])]
    /\ step' = "detail_generate_prompt"
    /\ UNCHANGED <<input, plan, refs, rendered, checked, status, disk, bounds>>

GeneratePrompt ==
    /\ step = "detail_generate_prompt"
    /\ refs' = BuildPromptPlan(plan, job.uploads, job.mainFirst)
    /\ step' = "detail_render_pages"
    /\ UNCHANGED <<input, plan, copy, rendered, checked, status, disk, bounds>>

-----------------------------------------------------------------------------
(* Rendering, one page after the other. *)

Current == Len(results) + 1
Rendering == step = "detail_render_pages" /\ Current \in Pages

(* Pages whose reference photos may be thinned out, and that are always tried again. *)
SoftPages == {"scene_value_story", "brand_trust", "gift_openbox_portable", "tea_soup_evidence"}

(* The original request, a request with less text, and one with fewer photos *)
(* (soft pages) or more emphasis on the package (the others).                *)
MaxTries == 3
AttemptRefs(k, attempt) ==
    LET rebound == Among(refs[k], (AssetRoles \ {"scene_ref", "bg_ref"}) \X Nat)
    IN  IF attempt = MaxTries /\ plan[k] \in SoftPages /\ rebound # <<>> THEN rebound ELSE refs[k]

(* Mutant: a page is tried once too often. *)
OneTryMore(k, transient) ==
    /\ tries < MaxTries
    /\ transient \/ plan[k] \in SoftPages

ShouldContinueRetry(k, transient) ==
    /\ tries + 1 < MaxTries
    /\ transient \/ plan[k] \in SoftPages

Close(outcome) ==
    /\ results' = Append(results, outcome)
    /\ tries' = 0

CallReturns(fits) ==
    /\ Rendering
    /\ fits \/ bad > 0
    /\ Close(IF fits THEN "good" ELSE "wrong_size")
    /\ png' = {file \in png : file[1] # Current} \cup {<<Current, delivery>>}
    /\ bad' = IF fits THEN bad ELSE bad - 1
    /\ UNCHANGED <<input, step, planned, checked, status, bundle, cuts>>

(* `transient': the message looks like a hiccup of the provider. *)
CallRaises(transient) ==
    /\ Rendering
    /\ bad > 0
    /\ IF ShouldContinueRetry(Current, transient)
       THEN tries' = tries + 1 /\ UNCHANGED results
       ELSE Close("failed")
    /\ bad' = bad - 1
    /\ UNCHANGED <<input, step, planned, checked, status, disk, cuts>>

FinishRender ==
    /\ step = "detail_render_pages"
    /\ Pages \subseteq DOMAIN results
    /\ step' = "detail_run_qc"
    /\ UNCHANGED <<input, planned, rendered, checked, status, disk, bounds>>

-----------------------------------------------------------------------------
(* Checks and outcome. *)

Generated == {k \in DOMAIN results : results[k] # "failed"}

AnchorsMissing(k) == ToSet(PageAnchors(plan[k], job.uploads)) \ RolesOf(refs[k]) # {}
FileExists(k) == results[k] # "failed" /\ \E file \in png : file[1] = k
UsedPackaging == {a \in UNION {ToSet(refs[k]) : k \in Pages} : a[1] = "packaging"}

(* Mutant: the shape of the pictures is not checked. *)
FailsCheckUnsized(k) == \/ refs[k] = <<>>
                        \/ AnchorsMissing(k)
                        \/ ~FileExists(k)

FailsCheck(k) == \/ refs[k] = <<>>
                 \/ AnchorsMissing(k)
                 \/ ~FileExists(k)
                 \/ results[k] # "good"

AnyWarning ==
    \/ Generated # {} /\ Generated # Pages
    \/ job.uploads["packaging"] > 1 /\ Cardinality(UsedPackaging) <= 1
    \/ \E k \in Pages : copy[k].few

(* An instruction in a text makes a page faulty without failing a check. *)
RunQc ==
    /\ step = "detail_run_qc"
    /\ LET anyFailed == Generated = {} \/ \E k \in Pages : FailsCheck(k)
       IN  verdict' = [passed |-> ~anyFailed, review |-> anyFailed \/ AnyWarning]
    /\ flagged' = {k \in Pages : FailsCheck(k) \/ copy[k].rule}
    /\ step' = "detail_finalize"
    /\ UNCHANGED <<input, planned, rendered, status, disk, bounds>>

(* The outcome is written to task.json before the ZIP is built. *)
Conclude ==
    /\ step = "detail_finalize"
    /\ status' = IF Generated = {} THEN "failed"
                 ELSE IF verdict.passed /\ ~verdict.review THEN "completed"
                 ELSE "review_required"
    /\ step' = "bundle"
    /\ UNCHANGED <<input, planned, rendered, checked, disk, bounds>>

(* Mutant: a ZIP that is there already is kept. *)
BuildBundleOnce ==
    /\ step = "bundle"
    /\ bundle' = IF bundle = {} THEN png ELSE bundle
    /\ step' = "closing"
    /\ UNCHANGED <<input, planned, rendered, checked, status, png, bounds>>

BuildBundle ==
    /\ step = "bundle"
    /\ bundle' = png
    /\ step' = "closing"
    /\ UNCHANGED <<input, planned, rendered, checked, status, png, bounds>>

(* The node runner writes the manifest once more and publishes it. *)
FinishRun ==
    /\ step = "closing"
    /\ step' = "ended"
    /\ UNCHANGED <<input, planned, rendered, checked, status, disk, bounds>>

-----------------------------------------------------------------------------
(* What cuts a delivery off, and the next delivery. *)

(* A store call before, in or after a node raises: the run is rescued as failed. *)
NodeRaises ==
    /\ step \notin Ends
    /\ cuts > 0
    /\ cuts' = cuts - 1
    /\ step' = "raised"
    /\ status' = "failed"
    /\ UNCHANGED <<input, planned, rendered, checked, disk, bad>>

Crash ==
    /\ step \notin Ends
    /\ cuts > 0
    /\ cuts' = cuts - 1
    /\ step' = "dead"
    /\ UNCHANGED <<input, planned, rendered, checked, status, disk, bad>>

Redeliver ==
    /\ step \in {"raised", "dead"}
    /\ delivery < MaxDeliveries
    /\ delivery' = delivery + 1
    /\ step' = "detail_ingest_assets"
    /\ plan' = <<>> /\ copy' = <<>> /\ refs' = <<>>
    /\ tries' = 0 /\ results' = <<>>
    /\ verdict' = NoVerdict /\ flagged' = {}
    /\ UNCHANGED <<job, status, disk, bounds>>

NodeStep ==
    \/ IngestAssets \/ MakePlan \/ GenerateCopy \/ GeneratePrompt
    \/ \E fits \in BOOLEAN : CallReturns(fits)
    \/ \E transient \in BOOLEAN : CallRaises(transient)
    \/ FinishRender \/ RunQc \/ Conclude \/ BuildBundle \/ FinishRun

(* Nothing is left to do; a run that stops anywhere else is a deadlock. *)
Rest ==
    /\ step = "ended" \/ (step \in Ends /\ delivery = MaxDeliveries)
    /\ UNCHANGED vars

Next == NodeStep \/ NodeRaises \/ Crash \/ Redeliver \/ Rest

Spec == Init /\ [][Next]_vars

-----------------------------------------------------------------------------
(* Properties. *)

(* The variables keep the shape the nodes hand to each other: texts, photo   *)
(* bindings and results belong to pages of the plan.                         *)
TypeOK ==
    /\ job \in JobType
    /\ step \in Ends \cup {"bundle", "closing", "detail_ingest_assets", "detail_plan",
                           "detail_generate_copy", "detail_generate_prompt",
                           "detail_render_pages", "detail_run_qc", "detail_finalize"}
    /\ delivery \in 1..MaxDeliveries
    /\ plan \in Seq(PageRoles) /\ Len(plan) <= 12
    /\ DOMAIN copy \subseteq Pages
    /\ \A k \in DOMAIN copy : copy[k] \in [rule : BOOLEAN, few : BOOLEAN]
    /\ DOMAIN refs \subseteq Pages
    /\ \A k \in DOMAIN refs : ToSet(refs[k]) \subseteq AssetRoles \X Nat
    /\ DOMAIN results \subseteq Pages
    /\ results \in Seq({"good", "wrong_size", "failed"})
    /\ tries \in 0..(MaxTries - 1)
    /\ verdict \in [passed : BOOLEAN, review : BOOLEAN]
    /\ flagged \subseteq Pages
    /\ status \in {"created", "running", "completed", "review_required", "failed"}
    /\ png \subseteq (1..12) \X (1..delivery)
    /\ bundle \subseteq (1..12) \X (1..delivery)
    /\ bad \in Nat /\ cuts \in Nat

(* Once pages are planned there are as many as the user asked for, no role   *)
(* twice, and the first one is the opening page, whatever photos there are   *)
(* (_select_page_roles fills up in two rounds and cuts).                     *)
PlanFillsTarget ==
    plan # <<>> =>
        /\ Len(plan) = job.target
        /\ \A j, k \in Pages : plan[j] = plan[k] => j = k
        /\ plan[1] = "hero_opening"

(* A page that shows dry leaves or brewed leaves without a photo of them is  *)
(* planned only when the user asks for more pages than there are page roles  *)
(* the photos allow.                                                         *)
EvidenceIsBacked ==
    \A k \in Pages :
        \/ RoleIsAllowed(plan[k], job.uploads)
        \/ job.target > Cardinality({p \in PageRoles : RoleIsAllowed(p, job.uploads)})

(* With several package photos and at least four pages, they do not all show *)
(* the same one (docs/workflow.md: bound in rotation).                       *)
PackagingRotates ==
    refs # <<>> /\ job.uploads["packaging"] > 1 /\ job.target > 3
        => Cardinality(UsedPackaging) > 1

(* Every call of the image model, the first one and the retries that thin    *)
(* out the photos, shows all anchors of the page and a photo of the package. *)
EveryCallIsAnchored ==
    Rendering =>
        LET roles == RolesOf(AttemptRefs(Current, tries + 1))
        IN  /\ ToSet(PageAnchors(plan[Current], job.uploads)) \subseteq roles
            /\ roles \cap CoreRoles # {}

Concluded == step \in {"bundle", "closing", "ended"}

(* "completed" means that every page of the plan was rendered by this        *)
(* delivery in the right shape, and is on disk.                              *)
CompletedShowsAllPages ==
    Concluded /\ status = "completed" =>
        \A k \in Pages : k \in DOMAIN results /\ results[k] = "good" /\ <<k, delivery>> \in png

(* Once the run has ended the ZIP holds every page of this delivery, not an  *)
(* earlier picture of it.                                                    *)
BundleIsCurrent ==
    step \in {"closing", "ended"} => \A k \in Generated : <<k, delivery>> \in bundle

(* What the QC report says of the pages and what the task says agree: a      *)
(* completed task has no failed page.  The code does not keep this: an       *)
(* instruction word in the user's own text fails a page in the report alone. *)
CompletedMeansNoFailedPage == Concluded /\ status = "completed" => flagged = {}
=============================================================================
