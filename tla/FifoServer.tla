----------------------------- MODULE FifoServer -----------------------------
(***************************************************************************)
(* What the in-process task queues promise: tasks are served one at a      *)
(* time, in the order in which they were put in line, each exactly once.   *)
(***************************************************************************)
EXTENDS Naturals, Sequences, SequencesExt

CONSTANTS Tasks, NoTask

VARIABLES
  line,     \* tasks waiting, the next one first
  serving,  \* the task being executed, or NoTask
  served    \* the tasks whose execution is over

fifoVars == <<line, serving, served>>

FifoInit == line = <<>> /\ serving = NoTask /\ served = {}

Join(t) ==
  /\ t \notin ToSet(line) \cup {serving} \cup served
  /\ line' = Append(line, t)
  /\ UNCHANGED <<serving, served>>

Begin ==
  /\ serving = NoTask /\ line # <<>>
  /\ serving' = Head(line) /\ line' = Tail(line)
  /\ UNCHANGED served

Finish ==
  /\ serving # NoTask
  /\ served' = served \cup {serving}
  /\ serving' = NoTask
  /\ UNCHANGED line

FifoNext == (\E t \in Tasks : Join(t)) \/ Begin \/ Finish

FifoSpec == FifoInit /\ [][FifoNext]_fifoVars

=============================================================================
