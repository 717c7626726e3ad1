------------------------------- MODULE Filters -------------------------------
(***************************************************************************)
(* The two ways in which the planners shorten a list: keep the elements    *)
(* that belong to a set, and cut the list at a length.                     *)
(*                                                                         *)
(*   services/detail_planner_service.py, detail_prompt_service.py          *)
(*   engine/services/assets/reference_selector.py, prompt_refine_v2.py     *)
(***************************************************************************)
EXTENDS Naturals, Sequences

(* The elements of a sequence that belong to a set, in their order. *)
Among(seq, chosen) ==
    LET taken[i \in 0..Len(seq)] ==
            IF i = 0 THEN <<>>
            ELSE IF seq[i] \in chosen THEN Append(taken[i - 1], seq[i]) ELSE taken[i - 1]
    IN  taken[Len(seq)]

UpTo(n, seq) == SubSeq(seq, 1, IF Len(seq) < n THEN Len(seq) ELSE n)
=============================================================================
