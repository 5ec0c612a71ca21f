---------------------------- MODULE MCCompletion ----------------------------
(* Budgets below, at and above the model's limit, and limits that are and    *)
(* are not a doubling of the budget.                                         *)
EXTENDS Completion

MCInputs == {[fresh |-> 4, created |-> 0, read |-> 0],
             [fresh |-> 1, created |-> 2, read |-> 3]}

\* All text, all thinking, a short answer, and an empty one.
MCOutputs(c) == {[visible |-> c, hidden |-> 0], [visible |-> 0, hidden |-> c],
                 [visible |-> 1, hidden |-> 0], [visible |-> 0, hidden |-> 0]}
==============================================================================
