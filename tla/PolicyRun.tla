----------------------------- MODULE PolicyRun -----------------------------
(***************************************************************************)
(* One run under one policy, without concurrency: the policy file is       *)
(* loaded, packets are routed and billed, and the recorded events are      *)
(* replayed through simulate_policy.  The module quantifies over policies  *)
(* (well and badly written ones), slot choices and packets; what happens   *)
(* when calls overlap is module Dispatch.                                  *)
(***************************************************************************)
EXTENDS Routing, SequencesExt

CONSTANTS
    Policies,     \* contents a policy file may have
    SlotChoices,  \* values of MMO_SELECT: functions from slots to model ids
    TaskContexts, \* routing contexts of the packets
    Usages,       \* token counts a vendor may report
    MaxEvents     \* bound: packets dispatched in one run

ASSUME PoliciesAssumption ==
    /\ \A p \in Policies : None \notin DOMAIN p.models /\ DOMAIN p.rules \subseteq Nat
    /\ MaxEvents \in Nat

\* An intent of a matcher is a name, never undefined.
ASSUME IntentsAssumption ==
    \A p \in Policies : \A i \in DOMAIN p.rules :
        "when" \in DOMAIN p.rules[i] /\ "intent" \in DOMAIN p.rules[i].when
          => None \notin p.rules[i].when.intent

\* TaskContext of routing.ts; None is a field left out.
ASSUME TaskContextsAssumption ==
    \A c \in TaskContexts :
        c = [phase |-> c.phase, task_type |-> c.task_type, module |-> c.module,
             retry_count |-> c.retry_count, intent |-> c.intent]

\* Prices and counts are numbers, as types.ts declares them.
ASSUME PricesAssumption ==
    LET Tokens == [input : Int, input_cached : Int, output : Int]
    IN  /\ Usages \subseteq Tokens
        /\ \A p \in Policies : \A m \in DOMAIN p.models : p.models[m].pricing \in Tokens

VARIABLES
    policy,      \* content of the policy file
    overrides,   \* the install's slot choices
    stage,       \* "raw", "loaded" or "refused"
    outcomes,    \* history: the packets routed so far, each with its decision
    events,      \* the run's telemetry events
    replayed     \* total of a replay of `events`, None before one or if it threw

runVars == <<policy, overrides, stage, outcomes, events, replayed>>

Event(ctx, decision, usage) ==
    [phase       |-> ctx.phase,
     task_type   |-> ctx.task_type,
     module      |-> ctx.module,
     retry_count |-> ctx.retry_count,
     model_id    |-> decision.model,
     usage       |-> usage,
     cost        |-> ComputeCost(usage, policy.models[decision.model].pricing)]

RunInit ==
    /\ policy \in Policies
    /\ overrides \in SlotChoices
    /\ stage = "raw"
    /\ outcomes = <<>>
    /\ events = <<>>
    /\ replayed = None

\* The first tool call of the run: validatePolicy, then the slot choices.
Load ==
    /\ stage = "raw"
    /\ stage' = IF /\ ValidatePolicy(policy)
                   /\ ValidateSelectOverrides(policy, overrides)
                THEN "loaded" ELSE "refused"
    /\ UNCHANGED <<policy, overrides, outcomes, events, replayed>>

\* An event written on the way in and again on the way out.
DispatchRecordedTwice(ctx, usage) ==
    LET decision == PickModel(ctx, policy, overrides) IN
    /\ stage = "loaded"
    /\ Len(outcomes) < MaxEvents
    /\ decision.model \in DOMAIN policy.models
    /\ outcomes' = Append(outcomes, [ctx |-> ctx, decision |-> decision])
    /\ events' = Append(Append(events, Event(ctx, decision, usage)),
                        Event(ctx, decision, usage))
    /\ replayed' = None
    /\ UNCHANGED <<policy, overrides, stage>>

\* execute_with_model: route the packet, bill it, record one event.  A
\* decision for a model the policy does not declare throws in getModel.
Dispatch(ctx, usage) ==
    LET decision == PickModel(ctx, policy, overrides) IN
    /\ stage = "loaded"
    /\ Len(outcomes) < MaxEvents
    /\ outcomes' = Append(outcomes, [ctx |-> ctx, decision |-> decision])
    /\ events' = IF decision.model \in DOMAIN policy.models
                 THEN Append(events, Event(ctx, decision, usage))
                 ELSE events
    /\ replayed' = None
    /\ UNCHANGED <<policy, overrides, stage>>

\* A telemetry event carries no intent.
ReplayContext(ev) ==
    [phase |-> ev.phase, task_type |-> ev.task_type, module |-> ev.module,
     retry_count |-> ev.retry_count, intent |-> None]

\* A replay that forgets the install's slot choices.
ReplayUnderDefaults(ev) == PickModel(ReplayContext(ev), policy, <<>>)

ReplayDecision(ev) == PickModel(ReplayContext(ev), policy, overrides)

\* simulate_policy over the run's own events: throws if any event has no
\* route, and skips a model the policy does not declare.
Replay ==
    LET Price(ev) ==
          LET m == ReplayDecision(ev).model
          IN  IF m \in DOMAIN policy.models
              THEN ReplayCost(ev.usage, policy.models[m].pricing) ELSE 0
        total[n \in 0..Len(events)] ==
          IF n = 0 THEN 0 ELSE total[n - 1] + Price(events[n])
    IN
    /\ stage = "loaded"
    /\ events # <<>>
    /\ replayed' = IF \E i \in DOMAIN events : ReplayDecision(events[i]) = Throw
                   THEN None
                   ELSE total[Len(events)]
    /\ UNCHANGED <<policy, overrides, stage, outcomes, events>>

RunNext ==
    \/ Load
    \/ \E ctx \in TaskContexts, usage \in Usages : Dispatch(ctx, usage)
    \/ Replay

RunSpec == RunInit /\ [][RunNext]_runVars

------------------------------------------------------------------------------
RunTypeOK ==
    /\ policy \in Policies
    /\ overrides \in SlotChoices
    /\ stage \in {"raw", "loaded", "refused"}
    /\ Len(outcomes) <= MaxEvents
    /\ Len(events) <= Len(outcomes)
    /\ replayed = None \/ replayed \in Int

\* Pre-flight skips the models that UnreachableModelIds lists, so no dispatch
\* may ever be routed to one of them: a losing option of a slot is out of
\* reach by every rule, matcher and default alike.
LosersNeverRouted ==
    stage = "loaded" /\ WellFormed(policy) =>
        \A i \in DOMAIN outcomes :
            outcomes[i].decision.model \notin UnreachableModelIds(policy, overrides)

\* The checks of the load leave only one way for a well-formed policy to fail
\* at dispatch: no rule matches and there is no default.
OnlyMissingDefaultThrows ==
    stage = "loaded" /\ WellFormed(policy) =>
        \A i \in DOMAIN outcomes :
            LET d == outcomes[i].decision IN
            \/ d.model \in DOMAIN policy.models
            \/ d = Throw /\ DefaultRules(policy) = {}

\* The rules a policy adds for brownfield intents do not change where a
\* greenfield packet (no intent) goes, nor the rule that is named for it.
WithoutIntentRules(p) ==
    LET matchesAnyIntent(rule) == "when" \in DOMAIN rule => "intent" \notin DOMAIN rule.when
    IN  [models |-> p.models, select |-> p.select,
         rules |-> Restrict(p.rules, DefaultRules(p) \cup
                              {i \in DOMAIN p.rules : matchesAnyIntent(p.rules[i])})]

GreenfieldUnaffected ==
    \A i \in DOMAIN outcomes :
        outcomes[i].ctx.intent = None =>
            outcomes[i].decision
              = PickModel(outcomes[i].ctx, WithoutIntentRules(policy), overrides)

\* A what-if replay of a greenfield run under the run's own policy and slot
\* choices routes every event to the model that served it.
ReplayRoutesAlike ==
    (\A i \in DOMAIN outcomes : outcomes[i].ctx.intent = None) =>
        \A i \in DOMAIN events :
            ReplayDecision(events[i]).model = events[i].model_id
==============================================================================
