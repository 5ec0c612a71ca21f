---------------------------- MODULE OutputLadder ----------------------------
(***************************************************************************)
(* What docs/methodology.md promises of output-ceiling doubling, in closed *)
(* form: a packet is dispatched under 1, 2, 4 and 8 times its budget, and   *)
(* never above the model's absolute limit; it is dispatched again only     *)
(* after the vendor's max-tokens signal, at most three times; and the      *)
(* terminal reason tells which of the two limits ended the climb.          *)
(* Module Completion, which models the adapters' loop, implements it.      *)
(***************************************************************************)
EXTENDS Integers, Sequences

CONSTANT None

VARIABLES
    budget,      \* the packet's budget.maxOutputTokens
    absolute,    \* the model's max_output_tokens_absolute
    used,        \* dispatches that have ended
    top,         \* ceiling of the last one, 0 before the first
    reason       \* terminal_reason, None while the packet is open

vars == <<budget, absolute, used, top, reason>>

\* A dispatch and its three doublings.
Factors == <<1, 2, 4, 8>>

\* Ceiling of the n-th dispatch.
Rung(n) == IF budget * Factors[n] < absolute THEN budget * Factors[n] ELSE absolute

\* The n-th dispatch is the last: the model or the retries are used up.
Last(n) == n = Len(Factors) \/ Rung(n) = absolute

Init ==
    /\ budget \in Nat \ {0}
    /\ absolute \in Nat \ {0}
    /\ used = 0
    /\ top = 0
    /\ reason = None

\* One dispatch under the next rung; only a truncated one below the last rung
\* leaves the packet open.
Climb(outcome) ==
    /\ reason = None
    /\ used < Len(Factors)
    /\ used' = used + 1
    /\ top' = Rung(used')
    /\ reason' = outcome
    /\ outcome = None => ~Last(used')
    /\ outcome = "output_cap_at_model_absolute" => Rung(used') = absolute
    /\ outcome = "output_cap_doubling_budget_exhausted" =>
          used' = Len(Factors) /\ Rung(used') < absolute
    /\ UNCHANGED <<budget, absolute>>

Next ==
    \E outcome \in {None, "success", "vendor_error", "output_cap_at_model_absolute",
                    "output_cap_doubling_budget_exhausted"} : Climb(outcome)

Spec == Init /\ [][Next]_vars
==============================================================================
