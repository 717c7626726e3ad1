----------------------------- MODULE ShotPlanner -----------------------------
(***************************************************************************)
(* What the planning nodes of the main image workflow compute              *)
(* (engine/workflows/nodes/director_v2.py, prompt_refine_v2.py).           *)
(*                                                                         *)
(* Both nodes ask a text model and keep of its answer only what fits a     *)
(* plan of their own: shots are matched by id, and their role decides how  *)
(* much text a picture may carry.  A text is its length, 0 when there is   *)
(* none; a share of the picture is a percentage, 0 for None.               *)
(***************************************************************************)
EXTENDS ModelCalls, SequencesExt

(* The order of the pictures; a task asks for the first ones. *)
DirectorRoles == <<"hero", "packaging_feature", "dry_leaf_detail", "tea_soup",
                   "brewed_leaf_detail", "gift_scene", "lifestyle", "process_or_quality">>

Strategies == {"strong", "light", "none"}
Densities == {"heavy", "medium", "low", "none"}

Policy(strategy, density, render) == [strategy |-> strategy, density |-> density, render |-> render]

CopyPolicy(role) ==
    CASE role \in {"hero", "packaging_feature", "process_or_quality"} -> Policy("strong", "medium", TRUE)
      [] role = "gift_scene" -> Policy("light", "low", TRUE)
      [] OTHER -> Policy("none", "none", FALSE)

(* The selling points each role starts from. *)
TemplatePoints(role) ==
    CASE role = "tea_soup" -> <<4, 4, 5>>
      [] role = "process_or_quality" -> <<4, 3, 4>>
      [] OTHER -> <<4, 4, 4>>

-----------------------------------------------------------------------------
(* director_v2 *)

HeroShare == 66

FallbackDirector(shotCount) ==
    LET role(k) == DirectorRoles[k]
        count == IF shotCount < 1 THEN 1 ELSE IF shotCount > 8 THEN 8 ELSE shotCount
    IN  [k \in 1..count |->
            [id |-> k, role |-> role(k), points |-> TemplatePoints(role(k)),
             strategy |-> CopyPolicy(role(k)).strategy, density |-> CopyPolicy(role(k)).density,
             render |-> CopyPolicy(role(k)).render,
             share |-> IF role(k) = "hero" THEN HeroShare ELSE 0]]

(* The shots of an answer with this id; the dictionary keeps the last one. *)
Matching(answer, id) == Among(answer, {shot \in ToSet(answer) : shot.id = id})

Allowed(value, values, otherwise) == IF value \in values THEN value ELSE otherwise
OrElse(value, otherwise) == IF value = 0 THEN otherwise ELSE value

NormalizeShot(given, own) ==
    LET policy == CopyPolicy(own.role)
    IN  [own EXCEPT
            !.points = IF given.points = <<>> THEN @ ELSE given.points,
            !.strategy = Allowed(given.strategy, Strategies, policy.strategy),
            !.density = Allowed(given.density, Densities, policy.density),
            !.render = policy.render /\ given.render,
            !.share = IF own.role = "hero" THEN HeroShare ELSE OrElse(given.share, @)]

NormalizeDirector(answer, own) ==
    [k \in DOMAIN own |->
        LET given == Matching(answer, own[k].id)
        IN  IF given = <<>> THEN own[k] ELSE NormalizeShot(Last(given), own[k])]

-----------------------------------------------------------------------------
(* prompt_refine_v2: the texts a picture carries.                          *)
(* task.product and task.brand are the lengths of the two names.           *)

Trim(length, least, most, otherwise) ==
    IF length > most THEN most ELSE IF length < least THEN otherwise ELSE length

ProductToken(task) ==
    IF task.product \in 3..8 THEN task.product ELSE IF task.brand \in 3..8 THEN task.brand ELSE 0

FallbackTitle(task, role) ==
    IF role = "hero" THEN Trim(OrElse(ProductToken(task), 4), 3, 8, 4) ELSE 4

FallbackSubtitle(task, role) ==
    CASE role = "hero" -> Trim(task.product + 8, 8, 15, 10)
      [] role = "gift_scene" -> IF task.brand > 0 THEN Trim(task.brand + 8, 8, 15, 8) ELSE 8
      [] role = "process_or_quality" -> 8
      [] OTHER -> 10

NormalizePoints(given, own) ==
    LET source == Among(IF given = <<>> THEN own ELSE given, Nat \ {0})
    IN  [k \in 1..(IF Len(source) < 2 THEN Len(source) ELSE 2) |->
            IF source[k] > 8 THEN 8 ELSE source[k]]

NoCopy == [strategy |-> "none", density |-> "none", render |-> FALSE,
           title |-> 0, subtitle |-> 0, points |-> <<>>]

(* Mutant: the texts of the model are taken whatever the role is. *)
CopyBundleAnyRole(task, role, given, ownPoints) ==
    [strategy |-> Allowed(given.strategy, Strategies, CopyPolicy(role).strategy),
     density |-> Allowed(given.density, Densities, CopyPolicy(role).density),
     render |-> TRUE,
     title |-> Allowed(given.title, 4..8, FallbackTitle(task, role)),
     subtitle |-> Allowed(given.subtitle, 8..15, FallbackSubtitle(task, role)),
     points |-> NormalizePoints(given.points, ownPoints)]

(* given: what the model wrote for this shot, NoCopy when it wrote nothing. *)
CopyBundle(task, role, given, ownPoints) ==
    LET policy == CopyPolicy(role)
    IN  IF ~policy.render THEN NoCopy
        ELSE [strategy |-> Allowed(given.strategy, Strategies, policy.strategy),
              density |-> Allowed(given.density, Densities, policy.density),
              render |-> TRUE,
              title |-> Allowed(given.title, 4..8, FallbackTitle(task, role)),
              subtitle |-> Allowed(given.subtitle, 8..15, FallbackSubtitle(task, role)),
              points |-> NormalizePoints(given.points, ownPoints)]

PromptShot(id, role, bundle, share, frame) ==
    [id |-> id, role |-> role, copy |-> bundle, share |-> share, frame |-> frame]

Silent == [NoCopy EXCEPT !.strategy = "", !.density = ""]

(* frame: aspect ratio and size of the picture, as one value. *)
FallbackPrompt(task, director, frame) ==
    [k \in DOMAIN director |->
        LET shot == director[k]
        IN  PromptShot(shot.id, shot.role, CopyBundle(task, shot.role, Silent, shot.points),
                       IF shot.share = 0 /\ shot.role = "hero" THEN HeroShare ELSE shot.share, frame)]

(* An answer may leave the frame out, or give an empty one.  The schema      *)
(* fills what is left out, before the node looks at the answer.              *)
LeftOut == <<"left", "out">>
EmptyFrame == <<"", "">>
Validated(shot) == [shot EXCEPT !.frame = IF @ = LeftOut THEN DefaultFrame ELSE @]

NormalizePrompt(task, answer, own) ==
    [k \in DOMAIN own |->
        LET given == Matching(answer, own[k].id)
            shot == IF given = <<>>
                    THEN [copy |-> Silent, share |-> 0, frame |-> EmptyFrame]
                    ELSE Validated(Last(given))
        IN  PromptShot(own[k].id, own[k].role,
                       CopyBundle(task, own[k].role, shot.copy, own[k].copy.points),
                       OrElse(shot.share, own[k].share),
                       IF shot.frame = EmptyFrame THEN own[k].frame ELSE shot.frame)]

-----------------------------------------------------------------------------
(* What a request of the image model shows and says. *)

(* The texts written into the prompt (render_images and the provider both    *)
(* write them): a shot that renders no text has none.                        *)
PromptTexts(shot) ==
    IF shot.copy.render
    THEN [title |-> shot.copy.title, subtitle |-> shot.copy.subtitle, points |-> shot.copy.points]
    ELSE [title |-> 0, subtitle |-> 0, points |-> <<>>]

(* The prompt also asks for a picture without text when ... *)
AsksForNoText(shot) == ~shot.copy.render \/ shot.copy.strategy = "none"

(* The texts the overlay draws: it does not look at copy.render. *)
OverlayTexts(shot) ==
    [title |-> shot.copy.title, subtitle |-> shot.copy.subtitle, points |-> shot.copy.points]

Style == "background_style"
WhiteBackground == {"white_bg", "product"}

(* Photos are <<type, number>>.  A picture on white comes first, then a      *)
(* photo of a detail, then the others in the order of their upload.          *)
OfTypes(photos, types) == Among(photos, {p \in ToSet(photos) : p[1] \in types})
Without(photos, others) == Among(photos, ToSet(photos) \ ToSet(others))

SelectProductReferences(photos) ==
    LET products == Without(photos, OfTypes(photos, {Style}))
        white == OfTypes(products, WhiteBackground)
        main == UpTo(1, IF white = <<>> THEN products ELSE white)
        chosen == main \o Without(UpTo(1, OfTypes(products, {"detail"})), main)
    IN  UpTo(2, chosen \o Without(products, chosen))

SelectStyleReferences(photos) == UpTo(2, OfTypes(photos, {Style}))
=============================================================================
