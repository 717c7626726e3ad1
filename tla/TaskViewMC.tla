------------------------------ MODULE TaskViewMC ------------------------------
(* Instances of TaskView for TLC. *)
EXTENDS TaskView

(* Tasks are alike but for the ones a scenario creates. *)
One == CHOOSE t \in Tasks : TRUE

BaseScenario ==
    [tasks |-> {One}, shots |-> 2, deliveries |-> 1, faults |-> 0, cuts |-> 0,
     page |-> "main", opens |-> 0, errors |-> 0]

(* One task that fails and is delivered again, seen from either page; two    *)
(* tasks that share the index, with a process that dies, or delivered again; *)
(* and a page that changes between two tasks before they run.                *)
ScenariosMC ==
    {[BaseScenario EXCEPT !.deliveries = 2, !.faults = 1, !.cuts = 1, !.page = p, !.opens = 1, !.errors = 1]
        : p \in {"main", "list"}}
    \cup {[BaseScenario EXCEPT !.deliveries = 3, !.faults = 2, !.cuts = 1]}
    \cup {[BaseScenario EXCEPT !.tasks = Tasks, !.shots = 1, !.deliveries = 1, !.cuts = 1],
          [BaseScenario EXCEPT !.tasks = Tasks, !.shots = 1, !.deliveries = 2]}
    \cup {[BaseScenario EXCEPT !.tasks = Tasks, !.deliveries = 0, !.opens = 3],
          [BaseScenario EXCEPT !.tasks = Tasks, !.deliveries = 0, !.page = "list", !.opens = 3, !.errors = 1]}
=============================================================================
