---------------------------- MODULE DetailPlanner ----------------------------
(***************************************************************************)
(* What the planning nodes of the detail page workflow compute.            *)
(*                                                                         *)
(*   services/detail_planner_service.py   the pages, in order, that a      *)
(*       request for `target' pages gets, given the uploaded photos        *)
(*   services/detail_prompt_service.py    the photos each page shows to    *)
(*       the image model                                                   *)
(*   templates/detail_pages/tea_tmall_premium_v2.json   the template       *)
(*                                                                         *)
(* `uploads' maps a role to the number of photos uploaded for it, and an   *)
(* asset is <<role, i>>, the photo of that role with index i = 0, 1, ...   *)
(***************************************************************************)
EXTENDS Filters, FiniteSets, SequencesExt

CoreRoles == {"main_result", "packaging"}
SupplementRoles == {"tea_soup", "scene_ref", "bg_ref"}
AssetRoles == CoreRoles \cup {"dry_leaf", "leaf_bottom"} \cup SupplementRoles

AssetsOf(role, uploads) == [i \in 1..uploads[role] |-> <<role, i - 1>>]

-----------------------------------------------------------------------------
(* The template. *)

DefaultSequence ==
    <<"hero_opening", "dry_leaf_evidence", "tea_soup_evidence",
      "parameter_and_closing", "leaf_bottom_process_evidence", "brand_trust",
      "gift_openbox_portable", "scene_value_story", "brewing_method_info",
      "packaging_structure_value", "package_closeup_evidence", "brand_closing">>

PageRoles == ToSet(DefaultSequence)

(* The template has sequences for 8 to 12 pages. *)
PageSequence(target) ==
    CASE target \in {8, 9}   -> UpTo(target, DefaultSequence)
      [] target \in {10, 11} -> Append(UpTo(target - 1, DefaultSequence), "brand_closing")
      [] OTHER               -> DefaultSequence

OptionalRoleCandidates ==
    SubSeq(DefaultSequence, 6, 12)

BlueprintAnchors(page) ==
    CASE page = "hero_opening"                 -> <<"main_result", "packaging">>
      [] page = "dry_leaf_evidence"            -> <<"dry_leaf">>
      [] page = "leaf_bottom_process_evidence" -> <<"leaf_bottom">>
      [] OTHER                                 -> <<"packaging">>

BlueprintPreferred(page) ==
    CASE page = "hero_opening"                 -> <<"main_result", "packaging">>
      [] page = "dry_leaf_evidence"            -> <<"dry_leaf", "packaging">>
      [] page = "tea_soup_evidence"            -> <<"tea_soup", "packaging">>
      [] page = "leaf_bottom_process_evidence" -> <<"leaf_bottom", "packaging">>
      [] page = "scene_value_story"            -> <<"scene_ref", "packaging">>
      [] page = "brewing_method_info"          -> <<"packaging", "tea_soup">>
      [] page = "brand_closing"                -> <<"packaging", "bg_ref">>
      [] page \in {"brand_trust", "gift_openbox_portable"} -> <<"packaging", "scene_ref">>
      [] OTHER                                 -> <<"packaging">>

BlueprintSupplements(page) ==
    CASE page = "parameter_and_closing" -> <<>>
      [] page \in {"tea_soup_evidence", "brewing_method_info"} -> <<"tea_soup", "bg_ref">>
      [] page = "leaf_bottom_process_evidence" -> <<"bg_ref", "scene_ref">>
      [] page \in {"brand_trust", "gift_openbox_portable", "scene_value_story"} ->
             <<"scene_ref", "bg_ref">>
      [] OTHER -> <<"bg_ref">>

-----------------------------------------------------------------------------
(* The choice of the pages. *)

HasCoreAsset(uploads) == \E r \in CoreRoles : uploads[r] > 0

RoleIsAllowed(page, uploads) ==
    /\ page = "dry_leaf_evidence" => uploads["dry_leaf"] > 0
    /\ page = "leaf_bottom_process_evidence" => uploads["leaf_bottom"] > 0
    /\ page = "hero_opening" => HasCoreAsset(uploads)

AllowedRoles(uploads) == {page \in PageRoles : RoleIsAllowed(page, uploads)}

(* Pages of `candidates' not yet selected, until there are `target'. *)
FillUp(target, selected, candidates) ==
    LET filled[i \in 0..Len(candidates)] ==
            IF i = 0 THEN selected
            ELSE IF Len(filled[i - 1]) < target /\ candidates[i] \notin ToSet(filled[i - 1])
                 THEN Append(filled[i - 1], candidates[i]) ELSE filled[i - 1]
    IN  filled[Len(candidates)]

(* Mutant: no page is planned without its photos, and the plan stays short. *)
SelectPageRolesShort(target, uploads) ==
    LET planned == Among(PageSequence(target), AllowedRoles(uploads))
    IN  UpTo(target, FillUp(target, planned, Among(OptionalRoleCandidates, AllowedRoles(uploads))))

(* Mutant: the sequence of the template is taken as it is. *)
SelectPageRolesUnfiltered(target, uploads) ==
    UpTo(target, FillUp(target, PageSequence(target), DefaultSequence))

SelectPageRoles(target, uploads) ==
    LET planned == Among(PageSequence(target), AllowedRoles(uploads))
        padded  == FillUp(target, planned, Among(OptionalRoleCandidates, AllowedRoles(uploads)))
    IN  UpTo(target, FillUp(target, padded, DefaultSequence))

-----------------------------------------------------------------------------
(* The photos of a page. *)

Uploaded(roles, uploads) == Among(roles, {r \in AssetRoles : uploads[r] > 0})

PageAnchors(page, uploads) == Uploaded(BlueprintAnchors(page), uploads)

PreferredCore(mainFirst) ==
    IF mainFirst THEN <<"main_result", "packaging">> ELSE <<"packaging", "main_result">>

(* The order in which a page without a photo of its own roles borrows others. *)
FallbackRoles(uploads, mainFirst) ==
    Uploaded(PreferredCore(mainFirst)
                 \o <<"dry_leaf", "leaf_bottom", "tea_soup", "scene_ref", "bg_ref">>, uploads)

SuggestedRoles(page, uploads, mainFirst) ==
    LET anchors == PageAnchors(page, uploads)
        preferred == Uploaded(BlueprintPreferred(page), uploads)
    IN  UpTo(3, IF anchors # <<>> THEN anchors
                ELSE IF preferred # <<>> THEN preferred ELSE FallbackRoles(uploads, mainFirst))

PackagingPool(uploads, mainFirst) ==
    AssetsOf(PreferredCore(mainFirst)[1], uploads) \o AssetsOf(PreferredCore(mainFirst)[2], uploads)

MaxPerRole(role) == IF role = "packaging" THEN 2 ELSE 1

(* A binding under way: the photos of the page, and how often each role has *)
(* been drawn in the whole plan (the rotation).                             *)
AppendRef(b, asset) ==
    IF \/ asset \in ToSet(b.refs)
       \/ Cardinality({i \in DOMAIN b.refs : b.refs[i][1] = asset[1]}) >= MaxPerRole(asset[1])
    THEN b
    ELSE [b EXCEPT !.refs = Append(@, asset)]

NextAsset(uploads, b, role) ==
    IF uploads[role] = 0 THEN b
    ELSE AppendRef([b EXCEPT !.drawn[role] = @ + 1], <<role, b.drawn[role] % uploads[role]>>)

(* Mutant: the pool serves only pages that have no photo yet. *)
NextOfPoolUnlessBound(uploads, mainFirst, b) ==
    LET pool == PackagingPool(uploads, mainFirst)
    IN  IF pool = <<>> \/ b.refs # <<>> THEN b
        ELSE AppendRef([b EXCEPT !.drawn["packaging"] = @ + 1],
                       pool[(b.drawn["packaging"] % Len(pool)) + 1])

(* The pool of packaging photos and main results turns with the packaging count. *)
NextOfPool(uploads, mainFirst, b) ==
    LET pool == PackagingPool(uploads, mainFirst)
    IN  IF pool = <<>> THEN b
        ELSE AppendRef([b EXCEPT !.drawn["packaging"] = @ + 1],
                       pool[(b.drawn["packaging"] % Len(pool)) + 1])

(* One photo of each role, in turn. *)
Draw(uploads, b, roles) ==
    LET after[i \in 0..Len(roles)] ==
            IF i = 0 THEN b ELSE NextAsset(uploads, after[i - 1], roles[i])
    IN  after[Len(roles)]

ResolveReferences(page, uploads, mainFirst, drawn) ==
    LET anchored == Draw(uploads, [refs |-> <<>>, drawn |-> drawn], PageAnchors(page, uploads))
        supplemented == Draw(uploads, anchored, Among(BlueprintSupplements(page), SupplementRoles))
        pooled == NextOfPool(uploads, mainFirst, supplemented)
        suggested == Draw(uploads, pooled, SuggestedRoles(page, uploads, mainFirst))
    IN  [suggested EXCEPT !.refs = UpTo(5, @)]

NothingDrawn == [r \in AssetRoles |-> 0]

(* Mutant: the rotation starts again on every page. *)
BuildPromptPlanUnturned(plan, uploads, mainFirst) ==
    [k \in DOMAIN plan |-> ResolveReferences(plan[k], uploads, mainFirst, NothingDrawn).refs]

BuildPromptPlan(plan, uploads, mainFirst) ==
    LET bound[k \in 0..Len(plan)] ==
            IF k = 0 THEN [rows |-> <<>>, drawn |-> NothingDrawn]
            ELSE LET before == bound[k - 1]
                     page == ResolveReferences(plan[k], uploads, mainFirst, before.drawn)
                 IN  [rows |-> Append(before.rows, page.refs), drawn |-> page.drawn]
    IN  bound[Len(plan)].rows

RolesOf(refs) == {a[1] : a \in ToSet(refs)}
=============================================================================
