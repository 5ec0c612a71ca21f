------------------------------ MODULE Routing ------------------------------
(***************************************************************************)
(* Which model serves a task packet: the routing policy, the checks made   *)
(* when it is loaded, and the rule evaluation made at every dispatch.      *)
(* Translated from plugin/mcp/model-dispatch/src/routing.ts and policy.ts. *)
(*                                                                         *)
(* A policy is a record                                                    *)
(*   models : function from model ids to their configuration               *)
(*   rules  : sequence of records; a rule has a field "default", or the    *)
(*            fields "when" (its matcher) and "use"                        *)
(*   select : function from slot names to [default, options]               *)
(* A field that a YAML file leaves out is missing from the record's        *)
(* DOMAIN, which is how the code's `"default" in rule` reads it.           *)
(***************************************************************************)
EXTENDS Integers, Sequences, FiniteSetsExt

CONSTANT None   \* JavaScript's undefined: no intent, no choice, no model

------------------------------------------------------------------------------
(* Slots and the run's choices for them (MMO_SELECT).                        *)

\* The run's choice for a slot, or the policy's default for it.
Chosen(policy, slot, overrides) ==
    IF slot \in DOMAIN overrides
    THEN overrides[slot]
    ELSE policy.select[slot].default

\* A name that is no slot passes through unchanged.  A choice outside the
\* slot's options throws: the result is None.
ResolveNamed(policy, named, overrides) ==
    IF named \notin DOMAIN policy.select THEN named
    ELSE IF named \in DOMAIN overrides
            /\ overrides[named] \notin policy.select[named].options
         THEN None
         ELSE Chosen(policy, named, overrides)

\* The target a rule names, in the order `"use" in rule ? use : default`.
Named(rule) == IF "use" \in DOMAIN rule THEN rule.use ELSE rule.default

\* Forgets that a rule may name a losing option directly.
UnreachableBySlotAlone(policy, overrides) ==
    UNION { policy.select[s].options \ {Chosen(policy, s, overrides)} :
              s \in DOMAIN policy.select }

\* Model ids that lost their slot's selection and that no rule reaches.
UnreachableModelIds(policy, overrides) ==
    (UNION { policy.select[s].options \ {Chosen(policy, s, overrides)} :
               s \in DOMAIN policy.select })
      \ { ResolveNamed(policy, Named(policy.rules[i]), overrides) :
            i \in DOMAIN policy.rules }

------------------------------------------------------------------------------
(* Rule matching.                                                            *)

\* Bounds on retry_count; every bound present must hold.
RetryInRange(bounds, r) ==
    /\ "lt"  \in DOMAIN bounds => r <  bounds.lt
    /\ "lte" \in DOMAIN bounds => r <= bounds.lte
    /\ "gt"  \in DOMAIN bounds => r >  bounds.gt
    /\ "gte" \in DOMAIN bounds => r >= bounds.gte
    /\ "eq"  \in DOMAIN bounds => r =  bounds.eq

\* Takes a packet without an intent to satisfy every intent.
MatchesMissingIntent(when, ctx) ==
    /\ \A f \in {"phase", "task_type", "module", "intent"} \cap DOMAIN when :
         ctx[f] \in when[f] \cup (IF f = "intent" THEN {None} ELSE {})
    /\ "retry_count" \in DOMAIN when =>
         RetryInRange(when.retry_count, ctx.retry_count)

\* A field the matcher omits matches anything; a matcher with an intent never
\* matches a packet without one (None is in no matcher's set).
Matches(when, ctx) ==
    /\ \A f \in {"phase", "task_type", "module", "intent"} \cap DOMAIN when :
         ctx[f] \in when[f]
    /\ "retry_count" \in DOMAIN when =>
         RetryInRange(when.retry_count, ctx.retry_count)

\* A routing decision; rule -1 is the default.  Throw is a dispatch that ends
\* in an exception instead.
Decision(model, rule) == [model |-> model, rule |-> rule]

Throw == Decision(None, -2)

Decide(policy, named, rule, overrides) ==
    LET model == ResolveNamed(policy, named, overrides)
    IN  IF model = None THEN Throw ELSE Decision(model, rule)

DefaultRules(policy) ==
    {i \in DOMAIN policy.rules : "default" \in DOMAIN policy.rules[i]}

\* The rules the first loop of pickModel stops at: the matching ones, and the
\* ones without a matcher, on which evaluating `matcher.phase` throws.
StoppingRules(ctx, policy) ==
    {i \in DOMAIN policy.rules \ DefaultRules(policy) :
        "when" \in DOMAIN policy.rules[i] =>
            Matches(policy.rules[i].when, ctx)}

\* The first matching rule in file order wins, wherever a default stands; then
\* the first default; then the dispatch throws.
PickModel(ctx, policy, overrides) ==
    LET stops    == StoppingRules(ctx, policy)
        defaults == DefaultRules(policy)
    IN  IF stops # {}
        THEN LET i == Min(stops)
             IN  IF "when" \in DOMAIN policy.rules[i]
                 THEN Decide(policy, policy.rules[i].use, i - 1, overrides)
                 ELSE Throw
        ELSE IF defaults # {}
             THEN Decide(policy, policy.rules[Min(defaults)].default, -1, overrides)
             ELSE Throw

------------------------------------------------------------------------------
(* The checks of a load.                                                     *)

ValidateSelect(raw) ==
    \A s \in DOMAIN raw.select :
        /\ s \notin DOMAIN raw.models
        /\ raw.select[s].options # {}
        /\ raw.select[s].options \subseteq DOMAIN raw.models
        /\ raw.select[s].default \in raw.select[s].options

\* Checks that every rule has a target, not that the target exists.
ValidateRulesPresence(raw) ==
    \A i \in DOMAIN raw.rules : DOMAIN raw.rules[i] \cap {"use", "default"} # {}

\* Each rule names, in the order `use ?? default`, a model or a slot.
ValidateRules(raw) ==
    \A i \in DOMAIN raw.rules :
        /\ DOMAIN raw.rules[i] \cap {"use", "default"} # {}
        /\ Named(raw.rules[i]) \in DOMAIN raw.models \cup DOMAIN raw.select

ValidatePolicy(raw) ==
    /\ DOMAIN raw.models # {}
    /\ raw.rules # <<>>
    /\ ValidateSelect(raw)
    /\ ValidateRules(raw)

\* A rule is either a matcher with its target or a default (types.ts, Rule).
WellFormed(p) ==
    \A i \in DOMAIN p.rules :
        \/ DOMAIN p.rules[i] = {"when", "use"}
        \/ DOMAIN p.rules[i] = {"default"}

ValidateSelectOverrides(policy, overrides) ==
    \A s \in DOMAIN overrides :
        /\ s \in DOMAIN policy.select
        /\ overrides[s] \in policy.select[s].options

------------------------------------------------------------------------------
(* Prices.  Token counts are in units of a million tokens, so that costs are *)
(* integers and round6 is exact.                                             *)

\* input and input_cached are disjoint counts.
ComputeCost(tokens, pricing) ==
      tokens.input        * pricing.input
    + tokens.input_cached * pricing.input_cached
    + tokens.output       * pricing.output

\* The replay's price of one recorded event: cached tokens are taken off the
\* input count before it is priced.
ReplayCost(ev, pricing) ==
      (ev.input - ev.input_cached) * pricing.input
    + ev.input_cached * pricing.input_cached
    + ev.output       * pricing.output
==============================================================================
