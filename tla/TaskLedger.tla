----------------------------- MODULE TaskLedger -----------------------------
(***************************************************************************)
(* What the tasks table promises its readers about one task, whatever      *)
(* processes write it: the task is queued, runs, ends, and a failed task   *)
(* may be queued again a bounded number of times.  An end that brought     *)
(* images is never taken back.                                             *)
(***************************************************************************)
EXTENDS Naturals

CONSTANTS Tasks, MaxRetries

VARIABLES
  status,  \* status of the row, "none" before it exists
  used     \* retries recorded in the row

ledgerVars == <<status, used>>

Ends == {"succeeded", "partial_failed", "failed"}

LedgerInit ==
  /\ status = [t \in Tasks |-> "none"]
  /\ used = [t \in Tasks |-> 0]

Move(t, from, to) ==
  /\ status[t] = from
  /\ status' = [status EXCEPT ![t] = to]

Enqueue(t) == Move(t, "none", "queued") /\ UNCHANGED used

Start(t) == Move(t, "queued", "running") /\ UNCHANGED used

Conclude(t) == (\E end \in Ends : Move(t, "running", end)) /\ UNCHANGED used

Requeue(t) ==
  /\ used[t] < MaxRetries
  /\ Move(t, "failed", "queued")
  /\ used' = [used EXCEPT ![t] = @ + 1]

LedgerNext ==
  \E t \in Tasks : Enqueue(t) \/ Start(t) \/ Conclude(t) \/ Requeue(t)

(* What a row may never do. *)
LedgerSafety == LedgerInit /\ [][LedgerNext]_ledgerVars

(* The scheduling the table's readers rely on: queued tasks are picked up  *)
(* and running tasks end.                                                  *)
LedgerSpec ==
  /\ LedgerSafety
  /\ \A t \in Tasks : WF_ledgerVars(Start(t)) /\ WF_ledgerVars(Conclude(t))

=============================================================================
