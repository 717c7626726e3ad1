---------------------------- MODULE DetailPagesMC ----------------------------
(* Instances of DetailPages for TLC. *)
EXTENDS DetailPages

(* The three supplementary roles are uploaded together or not at all.  *)
UploadsMC ==
    {[r \in AssetRoles |->
        CASE r = "main_result" -> main [] r = "packaging" -> packaging
          [] r = "dry_leaf" -> dry [] r = "leaf_bottom" -> leaf [] OTHER -> other]
        : main \in {0, 1, 3}, packaging \in {0, 1, 2, 3}, dry \in 0..1, leaf \in 0..1, other \in 0..1}

JobWith(uploads, target, mainFirst, cards, rules) ==
    [uploads |-> uploads, target |-> target, mainFirst |-> mainFirst,
     cards |-> cards, brew |-> TRUE, rules |-> rules]

Scenario(j, b, c) == [job |-> j, badCalls |-> b, cuts |-> c]

(* Every number of pages with every choice of photos, one wrong call. *)
PlanScenarios ==
    {Scenario(JobWith(u, t, m, 4, FALSE), 1, 0) : u \in UploadsMC, t \in 1..12, m \in BOOLEAN}

(* Few pages, each of which may fail, texts with and without faults, and a *)
(* delivery that is cut off.                                               *)
SomeUploads == [r \in AssetRoles |-> IF r = "packaging" THEN 2 ELSE 1]
RenderScenarios ==
    {Scenario(JobWith(SomeUploads, 3, TRUE, 4, b), 5, 1) : b \in BOOLEAN}
        \cup {Scenario(JobWith(SomeUploads, 4, FALSE, c, FALSE), 2, 1) : c \in {2, 3}}

ScenariosMC == PlanScenarios \cup RenderScenarios
=============================================================================
