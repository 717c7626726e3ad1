----------------------------- MODULE MainImages -----------------------------
(***************************************************************************)
(* One main image task, from its photos to its ZIP.                        *)
(*                                                                         *)
(* The nodes of engine/workflows/graph.py run in a fixed order: photos are *)
(* checked, a director plans the pictures and prompt_refine_v2 their texts *)
(* (each asks a text model, unless a file of the node cache answers), each *)
(* picture is rendered, with a second, simpler call and drawn texts when   *)
(* the first call fails, then checked and exported.  A call may fail after *)
(* it was paid for; a store call may raise; the worker may die.  The task  *)
(* is then delivered again, perhaps to a worker of a newer release, in a   *)
(* directory that still holds the files of the earlier delivery.           *)
(***************************************************************************)
EXTENDS ShotPlanner

CONSTANTS
    Requests,        \* the requests explored, each with a bound on what goes wrong
    DirectorAnswers, \* what the text model may answer to director_v2
    RefineAnswers,   \* ... and to prompt_refine_v2
    MaxDeliveries    \* 1 + the retries and redeliveries of the broker

(* The photo on white is a field of its own of the form, and comes first.    *)
PhotoLists == {photos \in Seq(STRING \X Nat) : photos # <<>> /\ photos[1][1] = "white_bg"}

RequestType ==
    [task : [product : Nat, brand : Nat], shots : 1..12, photos : PhotoLists,
     frame : STRING \X STRING, text : {"mock", "real"}, route : {"mock", "banana2", "runapi_gemini31"},
     keys : SUBSET {"google", "runapi"}, cached : BOOLEAN, overlay : BOOLEAN,
     badCalls : Nat, faults : Nat, cuts : Nat]

(* What the schemas of the answers let through. *)
DirectorShots ==
    [id : Nat, points : Seq(Nat), strategy : STRING, density : STRING, render : BOOLEAN, share : Nat]
RefineShots ==
    [id : Nat, share : Nat, frame : STRING \X STRING,
     copy : [strategy : STRING, density : STRING, title : Nat, subtitle : Nat, points : Seq(Nat)]]

ASSUME MainImagesAssumption ==
    /\ Requests \subseteq RequestType
    /\ DirectorAnswers \subseteq Seq(DirectorShots)
    /\ RefineAnswers \subseteq Seq(RefineShots)
    /\ MaxDeliveries \in Nat \ {0}

VARIABLES
    request,   \* the task, its photos, and the settings of the workers
    release,   \* the version of each prompt template the worker has
    step,      \* the node that runs, or how the delivery ended
    delivery,  \* which delivery of the task this is
    director,  \* director_output: its shots, and from which inputs they were made
    plan,      \* prompt_plan_v2: likewise
    cache,     \* the node cache: one file per node and key
    answer,    \* what the text model answered, until it is saved
    call,      \* the call of the image model that was not recorded yet
    compat,    \* the current picture is on its second, simpler call
    lastUsage, \* what the image provider remembers of its last call
    recorded,  \* usage_summary.json, for text and for image calls
    sent,      \* requests that left the worker, and calls that sent none (ghost)
    overlays,  \* per finished picture: were its texts drawn by the overlay?
    review,    \* qc_report: review_required
    status,    \* task.json
    final,     \* final/: <<picture, the delivery that wrote it>>
    zip,       \* exports/..._final_images.zip: the files it holds
    bad, faults, cuts \* calls that failed, store calls that raised, worker deaths

input == <<request, release, delivery>>
planned == <<director, plan, cache, answer>>
rendering == <<call, compat, lastUsage, overlays>>
counted == <<recorded, sent>>
outcome == <<review, status, final, zip>>
bounds == <<bad, faults, cuts>>
vars == <<input, step, planned, rendering, counted, outcome, bounds>>

None == [shots |-> <<>>]
NoAnswer == <<>>
Ends == {"ended", "raised", "dead"}
PlanningNodes == {"director_v2", "prompt_refine_v2"}

Init ==
    /\ request \in Requests
    /\ release = [node \in PlanningNodes |-> 1]
    /\ step = "ingest_assets" /\ delivery = 1
    /\ director = None /\ plan = None /\ cache = {} /\ answer = NoAnswer
    /\ call = "idle" /\ compat = FALSE /\ lastUsage = NoSnapshot /\ overlays = <<>>
    /\ recorded = [text |-> NoMetrics, image |-> NoMetrics]
    /\ sent = [text |-> 0, image |-> 0, unsent |-> 0]
    /\ review = FALSE /\ status = "created" /\ final = {} /\ zip = {}
    /\ bad = 0 /\ faults = 0 /\ cuts = 0

Real == request.text = "real"
Supplied == ToSet(request.photos)

(* A node that raises ends the delivery and settles the manifest. *)
NodeRaises ==
    /\ step' = "raised"
    /\ status' = "failed"

IngestAssets ==
    /\ step = "ingest_assets"
    /\ step' = "director_v2"
    /\ status' = "running"
    /\ UNCHANGED <<input, planned, rendering, counted, review, final, zip, bounds>>

-----------------------------------------------------------------------------
(* The planning nodes. *)

Planning == step \in PlanningNodes
After(node) == IF node = "director_v2" THEN "prompt_refine_v2" ELSE "render_images"

(* The template of the prompt counts, and of the mock a constant.            *)
PromptVersion(node) == IF Real THEN release[node] ELSE 0

(* The inputs of a plan that can differ between two deliveries of a task.    *)
DirectorInputs == [version |-> PromptVersion("director_v2")]
RefineInputs == [version |-> PromptVersion("prompt_refine_v2"), director |-> director.shots]

(* Mutant: the cache of the second node does not look at the director's plan. *)
NodeCacheKeyOfTask(node) == [version |-> PromptVersion(node)]

NodeCacheKey(node) == IF node = "director_v2" THEN DirectorInputs ELSE RefineInputs

CacheFile(node) == {file \in cache : file.node = node /\ file.key = NodeCacheKey(node)}
CacheHit(node) == request.cached /\ CacheFile(node) # {}

Cached(node, torn, value) ==
    IF request.cached
    THEN (cache \ CacheFile(node))
            \cup {[node |-> node, key |-> NodeCacheKey(node), torn |-> torn, value |-> value]}
    ELSE cache

OwnDirector == FallbackDirector(request.shots)
OwnPrompt == FallbackPrompt(request.task, director.shots, request.frame)

Made(node, given) ==
    IF node = "director_v2"
    THEN [shots |-> IF Real THEN NormalizeDirector(given, OwnDirector) ELSE OwnDirector,
          inputs |-> DirectorInputs]
    ELSE [shots |-> IF Real THEN NormalizePrompt(request.task, given, OwnPrompt) ELSE OwnPrompt,
          inputs |-> RefineInputs]

Finish(node, value) ==
    /\ step' = After(node)
    /\ IF node = "director_v2"
       THEN director' = value /\ UNCHANGED plan
       ELSE plan' = value /\ UNCHANGED director
    /\ answer' = NoAnswer

(* A file that does not parse raises, in this and every later delivery.      *)
LoadCached ==
    /\ Planning /\ CacheHit(step)
    /\ \E file \in CacheFile(step) :
            IF file.torn
            THEN NodeRaises /\ UNCHANGED <<director, plan, answer>>
            ELSE Finish(step, file.value) /\ UNCHANGED status
    /\ UNCHANGED <<input, cache, rendering, counted, review, final, zip, bounds>>

PlanLocally ==
    /\ Planning /\ ~CacheHit(step) /\ ~Real
    /\ Finish(step, Made(step, NoAnswer))
    /\ cache' = Cached(step, FALSE, Made(step, NoAnswer))
    /\ UNCHANGED <<input, rendering, counted, outcome, bounds>>

AskTextModel ==
    /\ Planning /\ ~CacheHit(step) /\ Real /\ call = "idle"
    /\ \E c \in TextCalls(request.keys) :
        /\ c = [sends |-> 1, answered |-> TRUE] \/ bad < request.badCalls
        /\ bad' = IF c = [sends |-> 1, answered |-> TRUE] THEN bad ELSE bad + 1
        /\ sent' = [sent EXCEPT !.text = @ + c.sends]
        /\ IF c.answered
           THEN /\ call' = "returned"
                /\ answer' \in IF step = "director_v2" THEN DirectorAnswers ELSE RefineAnswers
           ELSE call' = "raised" /\ UNCHANGED answer
    /\ UNCHANGED <<input, step, director, plan, cache, compat, lastUsage, overlays, recorded,
                   outcome, faults, cuts>>

CountText == recorded' = [recorded EXCEPT !.text = Summarize(@, TextUsage, call = "returned")]

RecordAnswer ==
    /\ Planning /\ call # "idle"
    /\ CountText
    /\ call' = "idle"
    /\ IF call = "returned"
       THEN /\ Finish(step, Made(step, answer))
            /\ cache' = Cached(step, FALSE, Made(step, answer))
            /\ UNCHANGED status
       ELSE NodeRaises /\ UNCHANGED planned
    /\ UNCHANGED <<input, compat, lastUsage, overlays, sent, review, final, zip, bounds>>

-----------------------------------------------------------------------------
(* Rendering, one picture after the other. *)

Current == Len(overlays) + 1
Rendering == step = "render_images" /\ Current \in DOMAIN plan.shots
Frame == plan.shots[Current].frame

CallModel(frame) ==
    \E c \in GenerateImages(request.route, request.keys, frame, lastUsage) :
        /\ c.returned \/ c.sends = 0 \/ bad < request.badCalls
        /\ bad' = IF c.returned \/ c.sends = 0 THEN bad ELSE bad + 1
        /\ sent' = [sent EXCEPT !.image = @ + c.sends, !.unsent = @ + (1 - c.sends)]
        /\ lastUsage' = c.lastUsage
        /\ call' = IF c.returned THEN "returned" ELSE "raised"

(* banana2 looks for a way to the model before the first picture.            *)
HasNoWay == request.route = "banana2" /\ Transport(request.keys) = "none"

ResolveContext ==
    /\ Rendering /\ HasNoWay
    /\ NodeRaises
    /\ UNCHANGED <<input, planned, rendering, counted, review, final, zip, bounds>>

CanCall == Rendering /\ call = "idle" /\ ~HasNoWay

GenerateV2 ==
    /\ CanCall /\ ~compat
    /\ CallModel(Frame)
    /\ UNCHANGED <<input, step, planned, compat, overlays, recorded, outcome, faults, cuts>>

(* The second call asks for the default frame, but first computes the pixels *)
(* of the frame of the plan: a frame it does not know raises here.           *)
GenerateCompat ==
    /\ CanCall /\ compat
    /\ IF Supported(Frame)
       THEN CallModel(DefaultFrame)
       ELSE /\ call' = "raised"
            /\ sent' = [sent EXCEPT !.unsent = @ + 1]
            /\ UNCHANGED <<bad, lastUsage>>
    /\ UNCHANGED <<input, step, planned, compat, overlays, recorded, outcome, faults, cuts>>

(* Mutant: a call that raised is not counted. *)
CountSuccess(times, success) ==
    recorded' = IF request.route = "mock" \/ ~success THEN recorded
                ELSE [recorded EXCEPT !.image = Summarize(@, ResolveUsage(lastUsage), success)]

(* An event for the last call, as the provider remembers it. *)
CountImage(times, success) ==
    recorded' =
        IF request.route = "mock" \/ times = 0 THEN recorded
        ELSE [recorded EXCEPT !.image =
                LET once == Summarize(@, ResolveUsage(lastUsage), success)
                IN  IF times = 1 THEN once ELSE Summarize(once, ResolveUsage(lastUsage), FALSE)]

(* Mutant: the next picture starts with the simpler call. *)
KeepCompat(overlay) ==
    /\ overlays' = Append(overlays, overlay)
    /\ final' = {file \in final : file[1] # Current} \cup {<<Current, delivery>>}
    /\ UNCHANGED compat

(* The picture of this shot is written to final/ and published.              *)
Keep(overlay) ==
    /\ overlays' = Append(overlays, overlay)
    /\ final' = {file \in final : file[1] # Current} \cup {<<Current, delivery>>}
    /\ compat' = FALSE

RecordV2 ==
    /\ Rendering /\ call # "idle" /\ ~compat
    /\ CountImage(1, call = "returned")
    /\ call' = "idle"
    /\ CASE call = "returned" -> Keep(FALSE) /\ UNCHANGED <<step, status>>
         [] call = "raised" /\ request.overlay ->
                compat' = TRUE /\ UNCHANGED <<overlays, final, step, status>>
         [] OTHER -> NodeRaises /\ UNCHANGED <<overlays, final, compat>>
    /\ UNCHANGED <<input, planned, lastUsage, sent, review, zip, bounds>>

(* Recording a success may raise, before or after the event is in the file:  *)
(* the handler takes it for a failed call, counts it again and calls again.  *)
RecordV2Fails ==
    /\ Rendering /\ call = "returned" /\ ~compat /\ request.route # "mock"
    /\ faults < request.faults
    /\ \E times \in {1, 2} : CountImage(times, times = 2)
    /\ call' = "idle"
    /\ IF request.overlay
       THEN compat' = TRUE /\ UNCHANGED <<step, status>>
       ELSE NodeRaises /\ UNCHANGED compat
    /\ faults' = faults + 1
    /\ UNCHANGED <<input, planned, lastUsage, overlays, sent, review, final, zip, bad, cuts>>

RecordCompat ==
    /\ Rendering /\ call # "idle" /\ compat
    /\ CountImage(1, call = "returned")
    /\ call' = "idle"
    /\ IF call = "returned"
       THEN Keep(TRUE) /\ UNCHANGED <<step, status>>
       ELSE NodeRaises /\ UNCHANGED <<overlays, final, compat>>
    /\ UNCHANGED <<input, planned, lastUsage, sent, review, zip, bounds>>

RecordCompatFails ==
    /\ Rendering /\ call = "returned" /\ compat /\ request.route # "mock"
    /\ faults < request.faults
    /\ \E times \in {1, 2} : CountImage(times, times = 2)
    /\ call' = "idle"
    /\ NodeRaises
    /\ faults' = faults + 1
    /\ UNCHANGED <<input, planned, compat, lastUsage, overlays, sent, review, final, zip, bad, cuts>>

FinishRender ==
    /\ step = "render_images" /\ Current \notin DOMAIN plan.shots
    /\ step' = "run_qc"
    /\ UNCHANGED <<input, planned, rendering, counted, outcome, bounds>>

-----------------------------------------------------------------------------
(* Checks and outcome. *)

Missing == {k \in DOMAIN plan.shots : k \notin DOMAIN overlays \/ ~\E file \in final : file[1] = k}

(* Mutant: texts drawn by the overlay are not worth a review. *)
RunQcOfFiles ==
    /\ step = "run_qc"
    /\ review' = (Missing # {})
    /\ step' = "finalize"
    /\ UNCHANGED <<input, planned, rendering, counted, status, final, zip, bounds>>

RunQc ==
    /\ step = "run_qc"
    /\ review' = (Missing # {} \/ \E k \in DOMAIN overlays : overlays[k])
    /\ step' = "finalize"
    /\ UNCHANGED <<input, planned, rendering, counted, status, final, zip, bounds>>

(* The outcome is written to task.json before the ZIPs are built. *)
Conclude ==
    /\ step = "finalize"
    /\ status' = IF review THEN "review_required" ELSE "completed"
    /\ step' = "export"
    /\ UNCHANGED <<input, planned, rendering, counted, review, final, zip, bounds>>

Export ==
    /\ step = "export"
    /\ zip' = final
    /\ step' = "ended"
    /\ UNCHANGED <<input, planned, rendering, counted, review, status, final, bounds>>

-----------------------------------------------------------------------------
(* What goes wrong around the nodes. *)

(* A store call, a file operation or a publication raises.                   *)
StoreFails ==
    /\ step \notin Ends
    /\ faults < request.faults
    /\ faults' = faults + 1
    /\ NodeRaises
    /\ \E times \in {0, 1} : IF Rendering /\ call = "raised" THEN CountImage(times, FALSE) ELSE UNCHANGED recorded
    /\ call' = "idle"
    /\ UNCHANGED <<input, planned, compat, lastUsage, overlays, sent, review, final, zip, bad, cuts>>

Crash ==
    /\ step \notin Ends
    /\ cuts < request.cuts
    /\ cuts' = cuts + 1
    /\ step' = "dead"
    /\ UNCHANGED <<input, planned, rendering, counted, outcome, bad, faults>>

(* The cache file is truncated before it is written. *)
CrashInSave ==
    /\ Planning /\ request.cached
    /\ IF Real THEN call = "returned" /\ CountText
       ELSE ~CacheHit(step) /\ UNCHANGED recorded
    /\ cuts < request.cuts
    /\ cuts' = cuts + 1
    /\ call' = "idle"
    /\ cache' = Cached(step, TRUE, None)
    /\ step' = "dead"
    /\ UNCHANGED <<input, director, plan, answer, compat, lastUsage, overlays, sent, outcome,
                   bad, faults>>

(* A retry, or a redelivery to a worker that may run a newer release; also   *)
(* of a task that has ended, when the acknowledgement was lost.              *)
Redeliver ==
    /\ step \in Ends
    /\ delivery < MaxDeliveries
    /\ delivery' = delivery + 1
    /\ release' \in {release} \cup {[release EXCEPT ![node] = @ + 1] : node \in PlanningNodes}
    /\ step' = "ingest_assets"
    /\ director' = None /\ plan' = None /\ answer' = NoAnswer
    /\ call' = "idle" /\ compat' = FALSE /\ lastUsage' = NoSnapshot /\ overlays' = <<>>
    /\ review' = FALSE
    /\ UNCHANGED <<request, cache, counted, status, final, zip, bounds>>

Rest ==
    /\ step \in Ends
    /\ delivery = MaxDeliveries
    /\ UNCHANGED vars

Next ==
    \/ IngestAssets
    \/ LoadCached \/ PlanLocally \/ AskTextModel \/ RecordAnswer
    \/ ResolveContext \/ GenerateV2 \/ RecordV2 \/ RecordV2Fails
    \/ GenerateCompat \/ RecordCompat \/ RecordCompatFails \/ FinishRender
    \/ RunQc \/ Conclude \/ Export
    \/ StoreFails \/ Crash \/ CrashInSave \/ Redeliver \/ Rest

Spec == Init /\ [][Next]_vars

-----------------------------------------------------------------------------
(* Properties. *)

Steps == {"ingest_assets", "director_v2", "prompt_refine_v2", "render_images", "run_qc",
          "finalize", "export"} \cup Ends

MetricsType == [events : Nat, failed : Nat, usage : [requests : Nat, images : Nat]]

(* The state has its type; a second call for a picture is under way only     *)
(* while the render node runs or after it was cut off.                       *)
TypeOK ==
    /\ request \in Requests /\ release \in [PlanningNodes -> Nat] /\ delivery \in 1..MaxDeliveries
    /\ step \in Steps
    /\ call \in {"idle", "returned", "raised"}
    /\ compat \in BOOLEAN /\ (compat => step \in {"render_images"} \cup Ends)
    /\ lastUsage \in {NoSnapshot, Empty, Unavailable, OneImage}
    /\ overlays \in Seq(BOOLEAN)
    /\ recorded \in [text : MetricsType, image : MetricsType]
    /\ sent \in [text : Nat, image : Nat, unsent : Nat]
    /\ review \in BOOLEAN
    /\ status \in {"created", "running", "completed", "review_required", "failed"}
    /\ final \subseteq Nat \X Nat /\ zip \subseteq Nat \X Nat
    /\ bad \in Nat /\ faults \in Nat /\ cuts \in Nat

Count(shots) == IF shots > 8 THEN 8 ELSE shots

PayloadOf(shot) ==
    RequestPayload(request.route, PromptTexts(shot), AsksForNoText(shot),
                   SelectProductReferences(request.photos), SelectStyleReferences(request.photos))

PolicyHolds(shot) ==
    LET texts == PromptTexts(shot)
    IN  IF CopyPolicy(shot.role).render
        THEN /\ texts.title \in 3..8 /\ texts.subtitle \in 8..15
             /\ Len(texts.points) <= 2 /\ \A n \in DOMAIN texts.points : texts.points[n] \in 1..8
        ELSE /\ texts = PromptTexts([copy |-> NoCopy]) /\ OverlayTexts(shot) = texts
             /\ AsksForNoText(shot)

AnchorHolds(payload) ==
    /\ \A n \in DOMAIN payload.products : payload.products[n][1] # Style
    /\ \A n \in DOMAIN payload.styles : payload.styles[n][1] = Style
    /\ request.route # "mock" =>
           /\ payload.products # <<>> /\ payload.products[1][1] \in WhiteBackground
           /\ (\E p \in Supplied : p[1] = "detail") => \E n \in DOMAIN payload.products : payload.products[n][1] = "detail"

(* Whatever the text model answers and whichever delivery planned: the       *)
(* pictures are the first ones of the series, a picture of a textless role   *)
(* carries no text, neither in its prompt nor drawn, a picture with texts    *)
(* carries them within their lengths, and each request shows the product on  *)
(* white and a detail if there is one (prompt_refine_v2._resolve_copy_bundle, *)
(* reference_selector).                                                      *)
RequestsFollowPolicy ==
    plan.shots # <<>> =>
        /\ DOMAIN plan.shots = 1..Count(request.shots)
        /\ \A k \in DOMAIN plan.shots :
            /\ plan.shots[k].id = k /\ plan.shots[k].role = DirectorRoles[k]
            /\ PolicyHolds(plan.shots[k])
            /\ AnchorHolds(PayloadOf(plan.shots[k]))

(* The plan in use was made from the templates this worker has and from the  *)
(* director's plan in use, also when a file of the cache supplied it         *)
(* (cache_utils.build_node_cache_key).                                       *)
PlanIsCurrent ==
    /\ director.shots # <<>> => director.inputs = DirectorInputs
    /\ plan.shots # <<>> => plan.inputs = RefineInputs

(* The ZIP of an ended task holds exactly the pictures this delivery made of *)
(* the planned shots, and the task is "completed" just when no text had to   *)
(* be drawn by the overlay (run_qc, finalize).                               *)
OutcomeIsHonest ==
    step = "ended" =>
        /\ zip = {<<k, delivery>> : k \in DOMAIN plan.shots}
        /\ status = IF \E k \in DOMAIN overlays : overlays[k] THEN "review_required" ELSE "completed"
        /\ DOMAIN overlays = DOMAIN plan.shots

Pending == IF step = "render_images" /\ call # "idle" /\ request.route # "mock" THEN 1 ELSE 0

(* The summary counts every image request that left a worker, but for one    *)
(* per worker death and per store call that raised; it counts too many only  *)
(* for a raising store call and for calls that raised before they sent       *)
(* anything (render_images._render_single_shot, task_usage_service).         *)
UsageMatchesCalls ==
    LET requests == recorded.image.usage.requests
    IN  /\ sent.image <= requests + Pending + cuts + faults
        /\ requests <= sent.image + sent.unsent + faults

(* The frame of the request is the frame of its pictures: "fills in missing  *)
(* fields" (the docstring of prompt_refine_v2._normalize_prompt_plan), also  *)
(* when the answer leaves aspect_ratio and image_size out.  The code does    *)
(* not keep this: the schema has filled the two fields before they are asked.*)
FrameAsRequested ==
    \A k \in DOMAIN plan.shots : plan.shots[k].frame = request.frame
=============================================================================
