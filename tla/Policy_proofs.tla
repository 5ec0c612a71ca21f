--------------------------- MODULE Policy_proofs ---------------------------
(***************************************************************************)
(* Policies, for any number of them: what the checks of a load are worth   *)
(* to the run that follows it, and what the setups of projects, with the   *)
(* consoles that show and save policies beside them, keep.  A run and a    *)
(* setup share no variable, only the rules of routing.                     *)
(***************************************************************************)
EXTENDS PolicyRun, PolicySetup, WellFoundedInduction, TLAPS, SequenceTheorems

------------------------------------------------------------------------------
(* What the checks of a policy load buy at dispatch, for every policy, every *)
(* slot choice and every packet.                                             *)

\* The minimum that PickModel takes of a set of rule indices is one of them.
LEMMA MinOfNats ==
    ASSUME NEW S, S \subseteq Nat, S # {}
    PROVE  Min(S) \in S /\ \A y \in S : Min(S) <= y
<1> DEFINE R == {ss \in Nat \X Nat : ss[1] < ss[2]}
<1>1. IsWellFoundedOn(R, Nat)
  BY NatLessThanWellFounded, Zenon DEF OpToRel
<1> HIDE DEF R
<1>2. PICK x \in S : \A y \in S : ~(<<y, x>> \in R)
  BY <1>1, WFMin, Zenon
<1>3. ASSUME NEW y \in S
      PROVE  x <= y
  <2>1. <<y, x>> \in Nat \X Nat => (y < x => <<y, x>> \in R)
    BY DEF R
  <2> QED
    BY <1>2, <2>1
<1> QED
  BY <1>3 DEF Min

\* A name that a load accepts resolves, at every dispatch, to a model of the
\* policy: the options and defaults of slots were checked, and so was the
\* run's choice among them.
LEMMA NamesResolve ==
    ASSUME NEW p, NEW o, NEW n,
           ValidateSelect(p), ValidateSelectOverrides(p, o),
           n \in DOMAIN p.models \cup DOMAIN p.select
    PROVE  ResolveNamed(p, n, o) \in DOMAIN p.models
<1>1. CASE n \notin DOMAIN p.select
  BY <1>1 DEF ResolveNamed
<1>2. CASE n \in DOMAIN p.select /\ n \in DOMAIN o
  BY <1>2 DEF ResolveNamed, Chosen, ValidateSelect, ValidateSelectOverrides
<1>3. CASE n \in DOMAIN p.select /\ n \notin DOMAIN o
  BY <1>3 DEF ResolveNamed, Chosen, ValidateSelect
<1> QED
  BY <1>1, <1>2, <1>3

\* What pickModel decides under a policy that passed the load: it fails only
\* for want of a default rule, and otherwise its model is what the target of
\* some rule resolves to.
THEOREM LoadedPolicyRoutes ==
    ASSUME NEW p, NEW o, NEW ctx,
           None \notin DOMAIN p.models, DOMAIN p.rules \subseteq Nat,
           ValidatePolicy(p), ValidateSelectOverrides(p, o),
           WellFormed(p)
    PROVE  \/ /\ PickModel(ctx, p, o) = Throw
              /\ DefaultRules(p) = {}
           \/ \E i \in DOMAIN p.rules :
                /\ PickModel(ctx, p, o).model
                     = ResolveNamed(p, Named(p.rules[i]), o)
                /\ PickModel(ctx, p, o).model \in DOMAIN p.models
<1> DEFINE stops == StoppingRules(ctx, p)
<1> DEFINE defaults == DefaultRules(p)
<1> DEFINE target(i) == ResolveNamed(p, Named(p.rules[i]), o)
<1>1. \A i \in DOMAIN p.rules : target(i) \in DOMAIN p.models
  BY NamesResolve DEF ValidatePolicy, ValidateRules
<1>2. /\ stops \subseteq DOMAIN p.rules \ defaults
      /\ defaults \subseteq DOMAIN p.rules
  BY DEF StoppingRules, DefaultRules
<1>3. ASSUME NEW i \in DOMAIN p.rules, NEW r
      PROVE  Decide(p, Named(p.rules[i]), r, o) = Decision(target(i), r)
  BY <1>1 DEF Decide
<1>4. CASE stops # {}
  <2>1. Min(stops) \in stops
    BY <1>2, <1>4, MinOfNats
  <2>2. DOMAIN p.rules[Min(stops)] = {"when", "use"}
    BY <2>1, <1>2 DEF WellFormed, DefaultRules
  <2>3. Named(p.rules[Min(stops)]) = p.rules[Min(stops)].use
    BY <2>2 DEF Named
  <2>4. PickModel(ctx, p, o) = Decision(target(Min(stops)), Min(stops) - 1)
    BY <1>2, <1>3, <1>4, <2>1, <2>2, <2>3 DEF PickModel
  <2> QED
    BY <1>1, <1>2, <2>1, <2>4 DEF Decision
<1>5. CASE stops = {} /\ defaults # {}
  <2>1. Min(defaults) \in defaults
    BY <1>2, <1>5, MinOfNats
  <2>2. DOMAIN p.rules[Min(defaults)] = {"default"}
    BY <2>1, <1>2 DEF WellFormed, DefaultRules
  <2>3. Named(p.rules[Min(defaults)]) = p.rules[Min(defaults)].default
    BY <2>2 DEF Named
  <2>4. PickModel(ctx, p, o) = Decision(target(Min(defaults)), -1)
    BY <1>2, <1>3, <1>5, <2>1, <2>3 DEF PickModel
  <2> QED
    BY <1>1, <1>2, <2>1, <2>4 DEF Decision
<1>6. CASE stops = {} /\ defaults = {}
  BY <1>6 DEF PickModel
<1> QED
  BY <1>4, <1>5, <1>6

\* Only models of the policy are ever left out: the options of a slot were
\* checked at the load.
LEMMA UnreachableAreModels ==
    ASSUME NEW p, NEW o, ValidateSelect(p)
    PROVE  UnreachableModelIds(p, o) \subseteq DOMAIN p.models
BY DEF UnreachableModelIds, ValidateSelect

\* Pre-flight leaves out the ids of UnreachableModelIds; no dispatch of a
\* well-formed policy is ever routed to one of them.
THEOREM RoutedIsReachable ==
    ASSUME NEW p, NEW o, NEW ctx,
           None \notin DOMAIN p.models, DOMAIN p.rules \subseteq Nat,
           ValidatePolicy(p), ValidateSelectOverrides(p, o),
           WellFormed(p),
           PickModel(ctx, p, o) # Throw
    PROVE  PickModel(ctx, p, o).model
             \in DOMAIN p.models \ UnreachableModelIds(p, o)
<1>1. PICK i \in DOMAIN p.rules :
        /\ PickModel(ctx, p, o).model
             = ResolveNamed(p, Named(p.rules[i]), o)
        /\ PickModel(ctx, p, o).model \in DOMAIN p.models
  BY LoadedPolicyRoutes
<1> QED
  BY <1>1 DEF UnreachableModelIds

------------------------------------------------------------------------------
(* Runs                                                                      *)

\* Whatever was routed, was routed by the policy that passed the load.
RunInv ==
    /\ policy \in Policies
    /\ outcomes \in Seq([ctx : TaskContexts,
                         decision : {PickModel(c, policy, overrides) : c \in TaskContexts}])
    /\ \A i \in DOMAIN outcomes :
         outcomes[i].decision = PickModel(outcomes[i].ctx, policy, overrides)
    /\ stage = "loaded" => /\ ValidatePolicy(policy)
                           /\ ValidateSelectOverrides(policy, overrides)

LEMMA InitRunInv == RunInit => RunInv
BY DEF RunInit, RunInv

LEMMA NextRunInv == RunInv /\ [RunNext]_runVars => RunInv'
<1> SUFFICES ASSUME RunInv, [RunNext]_runVars PROVE RunInv'
  OBVIOUS
<1>1. CASE Load
  BY <1>1 DEF RunInv, Load
<1>2. ASSUME NEW ctx \in TaskContexts, NEW usage \in Usages, Dispatch(ctx, usage)
      PROVE  RunInv'
  <2> DEFINE o == [ctx |-> ctx, decision |-> PickModel(ctx, policy, overrides)]
  <2> DEFINE O == [ctx : TaskContexts,
                   decision : {PickModel(c, policy, overrides) : c \in TaskContexts}]
  <2>1. outcomes' = Append(outcomes, o) /\ UNCHANGED <<policy, overrides, stage>>
    BY <1>2 DEF Dispatch
  <2>2. outcomes \in Seq(O) /\ o \in O /\ o.ctx = ctx
        /\ o.decision = PickModel(o.ctx, policy, overrides)
    BY DEF RunInv
  <2> HIDE DEF o, O
  <2>3. /\ Append(outcomes, o) \in Seq(O)
        /\ \A i \in DOMAIN Append(outcomes, o) :
             \/ i \in DOMAIN outcomes /\ Append(outcomes, o)[i] = outcomes[i]
             \/ Append(outcomes, o)[i] = o
    BY <2>2
  <2>4. \A i \in DOMAIN Append(outcomes, o) :
          Append(outcomes, o)[i].decision
            = PickModel(Append(outcomes, o)[i].ctx, policy, overrides)
    BY <2>2, <2>3 DEF RunInv
  <2> QED
    BY <2>1, <2>3, <2>4 DEF RunInv, O
<1>3. CASE Replay
  BY <1>3 DEF RunInv, Replay
<1>4. CASE UNCHANGED runVars
  BY <1>4 DEF RunInv, runVars
<1> QED
  BY <1>1, <1>2, <1>3, <1>4 DEF RunNext

\* A losing option of a slot is never dispatched to: what pre-flight leaves
\* unchecked is never needed.
THEOREM LosersAreNeverRouted == RunSpec => []LosersNeverRouted
<1>1. RunInv => LosersNeverRouted
  <2> SUFFICES ASSUME RunInv, stage = "loaded", WellFormed(policy),
                      NEW i \in DOMAIN outcomes
               PROVE  outcomes[i].decision.model
                        \notin UnreachableModelIds(policy, overrides)
    BY DEF LosersNeverRouted
  <2>1. /\ None \notin DOMAIN policy.models
        /\ DOMAIN policy.rules \subseteq Nat
    BY PoliciesAssumption DEF RunInv
  <2>2. outcomes[i].decision = PickModel(outcomes[i].ctx, policy, overrides)
    BY DEF RunInv
  <2>3. ValidateSelect(policy)
    BY DEF RunInv, ValidatePolicy
  <2>4. CASE outcomes[i].decision = Throw
    BY <2>1, <2>3, <2>4, UnreachableAreModels DEF Throw, Decision
  <2>5. CASE outcomes[i].decision # Throw
    BY <2>1, <2>2, <2>5, RoutedIsReachable DEF RunInv
  <2> QED
    BY <2>4, <2>5
<1> QED
  BY InitRunInv, NextRunInv, <1>1, PTL DEF RunSpec

\* After a successful load a well-formed policy can fail at dispatch only for
\* want of a default rule.
THEOREM OnlyAMissingDefaultThrows == RunSpec => []OnlyMissingDefaultThrows
<1>1. RunInv => OnlyMissingDefaultThrows
  <2> SUFFICES ASSUME RunInv, stage = "loaded", WellFormed(policy),
                      NEW i \in DOMAIN outcomes
               PROVE  \/ outcomes[i].decision.model \in DOMAIN policy.models
                      \/ outcomes[i].decision = Throw /\ DefaultRules(policy) = {}
    BY DEF OnlyMissingDefaultThrows
  <2>1. /\ None \notin DOMAIN policy.models
        /\ DOMAIN policy.rules \subseteq Nat
    BY PoliciesAssumption DEF RunInv
  <2>2. outcomes[i].decision = PickModel(outcomes[i].ctx, policy, overrides)
    BY DEF RunInv
  <2> QED
    BY <2>1, <2>2, LoadedPolicyRoutes DEF RunInv
<1> QED
  BY InitRunInv, NextRunInv, <1>1, PTL DEF RunSpec

------------------------------------------------------------------------------
(* Greenfield packets                                                        *)

\* A packet without an intent stops at the same rules, and falls to the same
\* default, with and without the rules for intents: it is decided alike.
LEMMA IntentRulesDoNotMatch ==
    ASSUME NEW p \in Policies, NEW o, NEW ctx, ctx.intent = None
    PROVE  PickModel(ctx, p, o) = PickModel(ctx, WithoutIntentRules(p), o)
<1> DEFINE q == WithoutIntentRules(p)
           kept == DefaultRules(p) \cup
                     {i \in DOMAIN p.rules :
                        "when" \in DOMAIN p.rules[i] => "intent" \notin DOMAIN p.rules[i].when}
<1>1. /\ q.select = p.select
      /\ DOMAIN q.rules = kept
      /\ \A i \in kept : q.rules[i] = p.rules[i]
  BY DEF WithoutIntentRules, Restrict, DefaultRules
<1>2. DefaultRules(q) = DefaultRules(p)
  BY <1>1 DEF DefaultRules
<1>3. StoppingRules(ctx, p) \subseteq kept
  <2> SUFFICES ASSUME NEW i \in StoppingRules(ctx, p),
                      "when" \in DOMAIN p.rules[i], "intent" \in DOMAIN p.rules[i].when
               PROVE  FALSE
      BY DEF StoppingRules
  <2>1. i \in DOMAIN p.rules /\ Matches(p.rules[i].when, ctx)
    BY DEF StoppingRules
  <2>2. ctx["intent"] \in p.rules[i].when["intent"]
    BY <2>1 DEF Matches
  <2> QED
    BY <2>1, <2>2, IntentsAssumption
<1>4. kept \subseteq DOMAIN p.rules
  BY DEF DefaultRules
<1> HIDE DEF q, kept
<1>5. StoppingRules(ctx, q) = StoppingRules(ctx, p)
  BY <1>1, <1>2, <1>3, <1>4 DEF StoppingRules
<1>6. /\ StoppingRules(ctx, p) # {} => Min(StoppingRules(ctx, p)) \in kept
      /\ DefaultRules(p) # {} => Min(DefaultRules(p)) \in kept
  <2>1. kept \subseteq Nat
    BY <1>4, PoliciesAssumption
  <2>2. DefaultRules(p) \subseteq kept
    BY DEF kept
  <2> QED
    BY <1>3, <2>1, <2>2, MinOfNats
<1>7. \A n, r : Decide(q, n, r, o) = Decide(p, n, r, o)
  BY <1>1 DEF Decide, ResolveNamed, Chosen
<1>8. PickModel(ctx, p, o) = PickModel(ctx, q, o)
  BY <1>1, <1>2, <1>5, <1>6, <1>7 DEF PickModel
<1> QED
  BY <1>8 DEF q

\* For every policy: the rules it adds for brownfield intents never capture a
\* packet without an intent, and never take it from the rule that serves it.
THEOREM GreenfieldIsUnaffected == RunSpec => []GreenfieldUnaffected
<1>1. RunInv => GreenfieldUnaffected
  BY IntentRulesDoNotMatch DEF RunInv, GreenfieldUnaffected
<1> QED
  BY InitRunInv, NextRunInv, <1>1, PTL DEF RunSpec

------------------------------------------------------------------------------
(* Replay                                                                    *)

\* What an event keeps of the packet and the decision that it tells of.
TellsOf(event, outcome) ==
    /\ event.phase = outcome.ctx.phase /\ event.task_type = outcome.ctx.task_type
    /\ event.module = outcome.ctx.module /\ event.retry_count = outcome.ctx.retry_count
    /\ event.model_id = outcome.decision.model

EventsOK ==
    /\ \E S : events \in Seq(S)
    /\ \A i \in DOMAIN events :
         \E j \in DOMAIN outcomes : TellsOf(events[i], outcomes[j])

LEMMA NextEvents == RunInv /\ EventsOK /\ [RunNext]_runVars => EventsOK'
<1> SUFFICES ASSUME RunInv, EventsOK, [RunNext]_runVars PROVE EventsOK'
  OBVIOUS
<1>1. CASE Load \/ Replay \/ UNCHANGED runVars
  BY <1>1 DEF Load, Replay, runVars, EventsOK
<1>2. ASSUME NEW ctx \in TaskContexts, NEW usage \in Usages, Dispatch(ctx, usage)
      PROVE  EventsOK'
  <2> DEFINE decision == PickModel(ctx, policy, overrides)
             o == [ctx |-> ctx, decision |-> decision]
             e == Event(ctx, decision, usage)
  <2>1. /\ outcomes' = Append(outcomes, o)
        /\ events' = IF decision.model \in DOMAIN policy.models THEN Append(events, e) ELSE events
    BY <1>2 DEF Dispatch
  <2>2. TellsOf(e, o)
    BY DEF TellsOf, Event
  <2>3. PICK S : events \in Seq(S)
    BY DEF EventsOK
  <2>4. PICK O : outcomes \in Seq(O)
    BY DEF RunInv
  <2> HIDE DEF decision, o, e
  <2>5. /\ \A j \in DOMAIN outcomes : j \in DOMAIN outcomes' /\ outcomes'[j] = outcomes[j]
        /\ Len(outcomes) + 1 \in DOMAIN outcomes' /\ outcomes'[Len(outcomes) + 1] = o
    BY <2>1, <2>4
  <2>6. CASE events' = events
    BY <2>5, <2>6 DEF EventsOK
  <2>7. CASE events' = Append(events, e)
    <3>1. events \in Seq(S \cup {e})
      BY <2>3
    <3>2. events' \in Seq(S \cup {e})
      BY <2>7, <3>1
    <3>3. \A i \in DOMAIN events' : events'[i] = e \/ (i \in DOMAIN events /\ events'[i] = events[i])
      BY <2>7, <3>1
    <3> QED
      BY <2>2, <2>5, <3>2, <3>3 DEF EventsOK
  <2> QED
    BY <2>1, <2>6, <2>7
<1> QED
  BY <1>1, <1>2 DEF RunNext

\* A what-if replay of a greenfield run under the run's own policy and slot
\* choices routes every event to the model that served it, for every policy.
THEOREM ReplayIsAlike == RunSpec => []ReplayRoutesAlike
<1>1. RunInit => EventsOK
  BY DEF RunInit, EventsOK
<1>2. RunInv /\ EventsOK => ReplayRoutesAlike
  <2> SUFFICES ASSUME RunInv, EventsOK,
                      \A j \in DOMAIN outcomes : outcomes[j].ctx.intent = None,
                      NEW i \in DOMAIN events
               PROVE  ReplayDecision(events[i]).model = events[i].model_id
      BY DEF ReplayRoutesAlike
  <2>1. PICK j \in DOMAIN outcomes : TellsOf(events[i], outcomes[j])
    BY DEF EventsOK
  <2>2. outcomes[j].ctx \in TaskContexts
    <3> DEFINE D == {PickModel(c, policy, overrides) : c \in TaskContexts}
           R == [ctx : TaskContexts, decision : D]
    <3>1. outcomes \in Seq([ctx : TaskContexts, decision : D])
      BY DEF RunInv
    <3>2. \A r \in R : r.ctx \in TaskContexts
      OBVIOUS
    <3> HIDE DEF D, R
    <3>3. outcomes \in Seq(R)
      BY <3>1 DEF R
    <3>4. outcomes[j] \in R
      BY <2>1, <3>3
    <3> QED
      BY <3>2, <3>4
  <2>3. outcomes[j].ctx = ReplayContext(events[i])
    BY <2>1, <2>2, TaskContextsAssumption DEF TellsOf, ReplayContext
  <2>4. outcomes[j].decision = PickModel(outcomes[j].ctx, policy, overrides)
    BY DEF RunInv
  <2> QED
    BY <2>1, <2>3, <2>4 DEF TellsOf, ReplayDecision
<1>3. RunInv /\ EventsOK /\ [RunNext]_runVars => RunInv' /\ EventsOK'
  BY NextRunInv, NextEvents
<1> QED
  BY InitRunInv, <1>1, <1>2, <1>3, PTL DEF RunSpec

------------------------------------------------------------------------------
(* Types of a run.  A replay's total is recursive: a function that unfolds as *)
(* it does exists up to every length.                                        *)

AddsUp(f, g, n) == f = [k \in 0..n |-> IF k = 0 THEN 0 ELSE f[k - 1] + g[k]]

LEMMA SumExists ==
    ASSUME NEW g, NEW n \in Nat, \A k \in 1..n : g[k] \in Int
    PROVE  \E f : AddsUp(f, g, n) /\ f[n] \in Int
<1> DEFINE P(m) == \E f : AddsUp(f, g, m) /\ f[m] \in Int
           Bad == {m \in 0..n : ~P(m)}
<1>1. SUFFICES ASSUME Bad # {} PROVE FALSE
  OBVIOUS
<1>2. PICK k \in Bad : \A m \in Bad : k <= m
  <2>1. Bad \subseteq Nat
    OBVIOUS
  <2> HIDE DEF Bad
  <2> QED
    BY <1>1, <2>1, MinOfNats
<1>3. k \in 0..n /\ ~P(k)
  OBVIOUS
<1>4. k # 0
  <2> DEFINE f == [j \in 0..0 |-> 0]
  <2>1. AddsUp(f, g, 0) /\ f[0] \in Int
    BY DEF AddsUp
  <2> QED
    BY <1>3, <2>1
<1>5. k - 1 \in 0..n /\ P(k - 1)
  <2> HIDE DEF P
  <2>1. k - 1 \in 0..n /\ ~(k <= k - 1)
    BY <1>3, <1>4
  <2> QED
    BY <1>2, <2>1
<1>6. PICK f : AddsUp(f, g, k - 1) /\ f[k - 1] \in Int
  BY <1>5
<1> DEFINE last == f[k - 1] + g[k]
           h == [j \in 0..k |-> IF j = k THEN last ELSE f[j]]
<1>7. \A j \in 0..(k - 1) : f[j] = IF j = 0 THEN 0 ELSE f[j - 1] + g[j]
  BY <1>6 DEF AddsUp
<1>8. last \in Int
  BY <1>3, <1>4, <1>6
<1>9. (\A j \in 0..(k - 1) : h[j] = f[j]) /\ h[k] = last /\ h = [j \in 0..k |-> h[j]]
  <2> HIDE DEF last
  <2> QED
    BY <1>3
<1> HIDE DEF h
<1>10. \A j \in 0..k : h[j] = IF j = 0 THEN 0 ELSE h[j - 1] + g[j]
  <2>1. ASSUME NEW j \in 0..(k - 1)
        PROVE  h[j] = IF j = 0 THEN 0 ELSE h[j - 1] + g[j]
    <3>1. j # 0 => j - 1 \in 0..(k - 1)
      BY <1>3
    <3> QED
      BY <1>7, <1>9, <3>1
  <2>2. h[k] = h[k - 1] + g[k]
    <3>1. k - 1 \in 0..(k - 1)
      BY <1>3, <1>4
    <3> QED
      BY <1>9, <3>1
  <2>3. \A j \in 0..k : j = k \/ j \in 0..(k - 1)
    BY <1>3
  <2> QED
    BY <1>4, <2>1, <2>2, <2>3
<1>11. AddsUp(h, g, k) /\ h[k] \in Int
  BY <1>8, <1>9, <1>10 DEF AddsUp
<1> QED
  BY <1>3, <1>11

\* Every function that unfolds so ends in the same number.
LEMMA SumIsInt ==
    ASSUME NEW g, NEW n \in Nat, \A k \in 1..n : g[k] \in Int,
           NEW total, total = CHOOSE f : AddsUp(f, g, n)
    PROVE  total[n] \in Int
<1>1. AddsUp(total, g, n)
  BY SumExists
<1>2. \A k \in 0..n : total[k] = IF k = 0 THEN 0 ELSE total[k - 1] + g[k]
  BY <1>1 DEF AddsUp
<1> DEFINE Bad == {k \in 0..n : total[k] \notin Int}
<1>3. Bad = {}
  <2> SUFFICES ASSUME Bad # {} PROVE FALSE
    OBVIOUS
  <2>1. PICK k \in Bad : \A m \in Bad : k <= m
    <3>1. Bad \subseteq Nat
      OBVIOUS
    <3> HIDE DEF Bad
    <3> QED
      BY <3>1, MinOfNats
  <2>2. k \in 0..n /\ total[k] \notin Int
    OBVIOUS
  <2>3. k # 0
    BY <1>2, <2>2
  <2>4. k - 1 \in 0..n /\ k \in 1..n /\ ~(k <= k - 1)
    BY <2>2, <2>3
  <2>5. total[k - 1] \in Int
    BY <2>1, <2>4
  <2> QED
    BY <1>2, <2>2, <2>3, <2>4, <2>5
<1> QED
  BY <1>3

RunTypes ==
    /\ RunTypeOK
    /\ \E S : events \in Seq(S)
    /\ \A i \in DOMAIN events : events[i].usage \in Usages

LEMMA CostIsInt ==
    ASSUME NEW u \in [input : Int, input_cached : Int, output : Int],
           NEW p \in [input : Int, input_cached : Int, output : Int]
    PROVE  ReplayCost(u, p) \in Int
<1>1. \A a, b \in Int : a * b \in Int
  OBVIOUS
<1> QED
  BY <1>1 DEF ReplayCost

LEMMA ReplayIsNumber ==
    ASSUME RunInv, RunTypes, Replay
    PROVE  replayed' = None \/ replayed' \in Int
<1> DEFINE Price(ev) ==
             LET m == ReplayDecision(ev).model
             IN  IF m \in DOMAIN policy.models
                 THEN ReplayCost(ev.usage, policy.models[m].pricing) ELSE 0
           g == [k \in 1..Len(events) |-> Price(events[k])]
           total == CHOOSE f : AddsUp(f, g, Len(events))
<1>1. Len(events) \in Nat /\ DOMAIN events = 1..Len(events)
  BY DEF RunTypes
<1>2. ASSUME NEW k \in 1..Len(events)
      PROVE  Price(events[k]) \in Int
  <2>1. events[k].usage \in [input : Int, input_cached : Int, output : Int]
    BY <1>1, PricesAssumption DEF RunTypes
  <2>2. \A m \in DOMAIN policy.models :
          policy.models[m].pricing \in [input : Int, input_cached : Int, output : Int]
    BY PricesAssumption DEF RunInv
  <2> QED
    BY <2>1, <2>2, CostIsInt
<1> HIDE DEF Price
<1>3. \A k \in 1..Len(events) : g[k] \in Int
  BY <1>2
<1>4. total[Len(events)] \in Int
  <2> HIDE DEF g
  <2> QED
    BY <1>1, <1>3, SumIsInt
<1>5. replayed' = None \/ replayed' =
        (CHOOSE f : f = [n \in 0..Len(events) |->
                           IF n = 0 THEN 0 ELSE f[n - 1] + Price(events[n])])[Len(events)]
  BY DEF Replay, Price
<1>6. \A f : AddsUp(f, g, Len(events)) <=>
        f = [n \in 0..Len(events) |-> IF n = 0 THEN 0 ELSE f[n - 1] + Price(events[n])]
  <2>1. \A n \in 0..Len(events) : n # 0 => g[n] = Price(events[n])
    BY <1>1
  <2> TAKE f
  <2>2. [n \in 0..Len(events) |-> IF n = 0 THEN 0 ELSE f[n - 1] + g[n]]
         = [n \in 0..Len(events) |-> IF n = 0 THEN 0 ELSE f[n - 1] + Price(events[n])]
    <3> HIDE DEF g
    <3> QED
      BY <2>1
  <2> HIDE DEF g
  <2> QED
    BY <2>2 DEF AddsUp
<1>7. total = CHOOSE f : f = [n \in 0..Len(events) |->
                                IF n = 0 THEN 0 ELSE f[n - 1] + Price(events[n])]
  <2> HIDE DEF g
  <2> QED
    BY <1>6
<1> HIDE DEF total
<1> QED
  BY <1>4, <1>5, <1>7

LEMMA NextRunTypes == RunInv /\ RunTypes /\ [RunNext]_runVars => RunTypes'
<1> SUFFICES ASSUME RunInv, RunTypes, [RunNext]_runVars PROVE RunTypes'
  OBVIOUS
<1>1. CASE Load
  BY <1>1 DEF RunTypes, RunTypeOK, Load
<1>2. ASSUME NEW ctx \in TaskContexts, NEW usage \in Usages, Dispatch(ctx, usage)
      PROVE  RunTypes'
  <2> DEFINE decision == PickModel(ctx, policy, overrides)
             o == [ctx |-> ctx, decision |-> decision]
             e == Event(ctx, decision, usage)
  <2>1. /\ outcomes' = Append(outcomes, o) /\ Len(outcomes) < MaxEvents
        /\ events' = IF decision.model \in DOMAIN policy.models THEN Append(events, e) ELSE events
        /\ UNCHANGED <<policy, overrides, stage>> /\ replayed' = None
    BY <1>2 DEF Dispatch
  <2>2. e.usage \in Usages
    BY DEF Event
  <2>3. PICK S : events \in Seq(S)
    BY DEF RunTypes
  <2>4. PICK O : outcomes \in Seq(O)
    BY DEF RunInv
  <2> HIDE DEF decision, o, e
  <2>5. Len(outcomes') = Len(outcomes) + 1 /\ Len(outcomes') <= MaxEvents
        /\ Len(events) <= Len(outcomes) /\ Len(outcomes) \in Nat /\ Len(events) \in Nat
    BY <2>1, <2>3, <2>4, PoliciesAssumption DEF RunTypes, RunTypeOK
  <2>6. policy' \in Policies /\ overrides' \in SlotChoices
        /\ stage' \in {"raw", "loaded", "refused"}
    BY <2>1 DEF RunTypes, RunTypeOK
  <2>7. CASE events' = events
    BY <2>1, <2>5, <2>6, <2>7 DEF RunTypes, RunTypeOK
  <2>8. CASE events' = Append(events, e)
    <3>1. /\ events' \in Seq(S \cup {e}) /\ Len(events') = Len(events) + 1
          /\ \A i \in DOMAIN events' : events'[i] = e \/ (i \in DOMAIN events /\ events'[i] = events[i])
      <4>1. events \in Seq(S \cup {e})
        BY <2>3
      <4> QED
        BY <2>8, <4>1
    <3>2. \A i \in DOMAIN events' : events'[i].usage \in Usages
      BY <2>2, <3>1 DEF RunTypes
    <3> QED
      BY <2>1, <2>5, <2>6, <3>1, <3>2 DEF RunTypes, RunTypeOK
  <2> QED
    BY <2>1, <2>7, <2>8
<1>3. CASE Replay
  <2>1. UNCHANGED <<policy, overrides, stage, outcomes, events>>
    BY <1>3 DEF Replay
  <2> QED
    BY <1>3, <2>1, ReplayIsNumber DEF RunTypes, RunTypeOK
<1>4. CASE UNCHANGED runVars
  BY <1>4 DEF RunTypes, RunTypeOK, runVars
<1> QED
  BY <1>1, <1>2, <1>3, <1>4 DEF RunNext

\* Types of a run: at most an event per packet, and a replay's total is a
\* number, or none if the replay threw (simulatePolicyCost, routing.ts).
THEOREM RunTypeCorrect == RunSpec => []RunTypeOK
<1>1. RunInit => RunTypes
  BY PoliciesAssumption DEF RunInit, RunTypes, RunTypeOK
<1>2. RunTypes => RunTypeOK
  BY DEF RunTypes
<1> QED
  BY InitRunInv, NextRunInv, NextRunTypes, <1>1, <1>2, PTL DEF RunSpec

------------------------------------------------------------------------------
(* Setups and consoles: the invariant.                                       *)

PageFields == {"pc", "base", "opened", "models", "routing", "overrides", "touched"}

Editor(page) == page.pc = "editing" /\ DOMAIN page = PageFields /\ PageOK(page)

Saving(page) ==
    /\ page.pc = "writing" /\ DOMAIN page = {"pc", "page", "name", "policy"}
    /\ page.name \in Names /\ Editor(page.page)

\* Pages and flows as records; a snapshot names files that are still there.
Shape ==
    /\ DOMAIN pages = Projects
    /\ \A k \in Projects : pages[k] = Closed \/ Editor(pages[k]) \/ Saving(pages[k])
    /\ DOMAIN setups = Projects
    /\ \A k \in Projects :
         /\ DOMAIN setups[k] = {"pc", "before", "debounce"}
         /\ setups[k].debounce \in BOOLEAN
         /\ DOMAIN setups[k].before \subseteq DOMAIN policies
         /\ \A n \in DOMAIN setups[k].before : setups[k].before[n] \in Nat

\* A save that nobody's write followed is the last write to the directory, and
\* younger than the snapshot of its flow.
SavedLast ==
    /\ DOMAIN latest = Projects
    /\ \A k \in Projects : latest[k] # None =>
         /\ Serves(k)
         /\ latest[k] \in DOMAIN policies
         /\ clock > 1 /\ policies[latest[k]].mtime = clock
         /\ \A n \in DOMAIN setups[k].before : setups[k].before[n] < clock

IInv == TypeOK /\ Shape /\ SavedLast

------------------------------------------------------------------------------
(* Writes of policy files                                                    *)

\* A write leaves the other files alone and is younger than all of them.
LEMMA PutsOne ==
    ASSUME TypeOK, NEW name \in Names, NEW content, NEW shown, Put(name, content, shown)
    PROVE  /\ clock' = clock + 1
           /\ DOMAIN policies' = DOMAIN policies \cup {name}
           /\ policies'[name].mtime = clock'
           /\ \A n \in DOMAIN policies \ {name} : policies'[n] = policies[n]
           /\ \A n \in DOMAIN policies : policies[n].mtime \in Nat /\ policies[n].mtime < clock'
           /\ \A n \in DOMAIN policies : policies[n].mtime <= policies'[n].mtime
           /\ policies' # policies
<1>1. /\ clock' = clock + 1
      /\ DOMAIN policies' = DOMAIN policies \cup {name}
      /\ policies'[name].mtime = clock'
      /\ \A n \in DOMAIN policies \ {name} : policies'[n] = policies[n]
  BY DEF Put
<1>2. /\ clock \in Nat
      /\ \A n \in DOMAIN policies : policies[n].mtime \in 1..clock
  BY ConsoleAssumption DEF TypeOK
<1>3. \A n \in DOMAIN policies : policies[n].mtime \in Nat /\ policies[n].mtime < clock'
  BY <1>1, <1>2
<1>4. \A n \in DOMAIN policies : policies[n].mtime <= policies'[n].mtime
  BY <1>1, <1>3
<1>5. policies' # policies
  BY <1>1, <1>3
<1> QED
  BY <1>1, <1>3, <1>4, <1>5

\* A page stays what it is while files are added and grow younger.
LEMMA PagesStay ==
    ASSUME TypeOK, NEW page, Editor(page), DOMAIN policies \subseteq DOMAIN policies',
           \A n \in DOMAIN policies :
             policies[n].mtime \in Nat /\ policies'[n].mtime \in Nat
               /\ policies[n].mtime <= policies'[n].mtime
    PROVE  Editor(page)'
<1>1. page # Closed
  BY DEF Editor, Closed
<1>2. /\ page.base \in DOMAIN policies'
      /\ page.opened \in 1..policies'[page.base].mtime
  BY <1>1 DEF Editor, PageOK
<1> QED
  BY <1>1, <1>2 DEF Editor, PageOK

------------------------------------------------------------------------------
(* Steps of a flow                                                           *)

\* The steps of a flow that only move it on.
LEMMA FlowMoves ==
    ASSUME IInv, NEW k \in Projects,
           \/ Start(k) \/ Watch(k) \/ Debounce(k) \/ Timeout(k) \/ Enter(k)
    PROVE  IInv'
<1>1. /\ UNCHANGED <<policies, pages, clock, choices, projects, latest>>
      /\ flows' \in 0..MaxFlows
  BY SetupAssumption DEF IInv, TypeOK, Start, NewFlow, Watch, Debounce, Timeout, Enter, consoleVars
<1>2. /\ \A j \in Projects \ {k} : setups'[j] = setups[j]
      /\ DOMAIN setups' = Projects
      /\ DOMAIN setups'[k] = {"pc", "before", "debounce"}
      /\ setups'[k].debounce \in BOOLEAN
      /\ setups'[k].pc \in {"serving", "waiting", "found"}
      /\ setups'[k].debounce => setups'[k].pc = "waiting"
      /\ \/ setups'[k].before = setups[k].before /\ Serves(k)
         \/ setups'[k].before = SnapshotPolicies /\ ~Serves(k)
  <2>1. DOMAIN setups = Projects /\ DOMAIN setups[k] = {"pc", "before", "debounce"}
        /\ setups[k].debounce \in BOOLEAN /\ (setups[k].debounce => setups[k].pc = "waiting")
    BY DEF IInv, TypeOK, Shape
  <2>2. CASE Start(k)
    BY <2>1, <2>2 DEF Start, NewFlow, Serves
  <2>3. CASE Watch(k)
    BY <2>1, <2>3 DEF Watch, Serves
  <2>4. CASE Timeout(k) \/ Enter(k)
    BY <2>1, <2>4 DEF Timeout, Enter, Finish, Serves
  <2>5. CASE Debounce(k)
    <3>1. /\ setups[k].pc = "waiting"
          /\ setups' = [setups EXCEPT ![k].debounce = FALSE] \/ Finish(k)
      BY <2>5 DEF Debounce
    <3>2. CASE setups' = [setups EXCEPT ![k].debounce = FALSE]
      BY <2>1, <3>1, <3>2 DEF Serves
    <3>3. CASE Finish(k)
      BY <2>1, <3>1, <3>3 DEF Finish, Serves
    <3> QED
      BY <3>1, <3>2, <3>3
  <2> QED
    BY <2>2, <2>3, <2>4, <2>5
<1>3. /\ DOMAIN SnapshotPolicies = DOMAIN policies
      /\ \A n \in DOMAIN policies : SnapshotPolicies[n] = policies[n].mtime
      /\ \A n \in DOMAIN policies : policies[n].mtime \in Nat /\ policies[n].mtime <= policies[n].mtime
  BY DEF SnapshotPolicies, IInv, TypeOK
<1>4. /\ DOMAIN setups'[k].before \subseteq DOMAIN policies
      /\ \A n \in DOMAIN setups'[k].before :
           setups'[k].before[n] \in Nat /\ setups'[k].before[n] <= policies[n].mtime
  BY <1>2, <1>3 DEF IInv, TypeOK, Shape
<1>5. \A page : PageOK(page)' <=> PageOK(page)
  BY <1>1 DEF PageOK
<1>6. Serves(k)' /\ \A j \in Projects \ {k} : Serves(j)' <=> Serves(j)
  BY <1>2 DEF Serves
<1>7. TypeOK'
  BY <1>1, <1>2, <1>4, <1>5, <1>6 DEF IInv, TypeOK
<1>8. Shape'
  BY <1>1, <1>2, <1>4, <1>5 DEF IInv, Shape, Editor, Saving
<1>9. SavedLast'
  BY <1>1, <1>2, <1>6 DEF IInv, SavedLast
<1> QED
  BY <1>7, <1>8, <1>9 DEF IInv

\* The youngest of some files is one of them.
LEMMA MostRecentIsOne ==
    ASSUME TypeOK, NEW names, names \subseteq DOMAIN policies, names # {}
    PROVE  /\ MostRecent(names) \in names
           /\ \A m \in names : policies[MostRecent(names)].mtime >= policies[m].mtime
<1> DEFINE R == {ss \in Nat \X Nat : ss[1] < ss[2]}
<1> DEFINE Ages == {clock - policies[n].mtime : n \in names}
<1>1. IsWellFoundedOn(R, Nat)
  BY NatLessThanWellFounded, Zenon DEF OpToRel
<1>2. clock \in Nat /\ \A n \in names : policies[n].mtime \in 1..clock
  BY ConsoleAssumption DEF TypeOK
<1>3. Ages \subseteq Nat /\ Ages # {}
  BY <1>2
<1> HIDE DEF R
<1>4. PICK a \in Ages : \A b \in Ages : ~(<<b, a>> \in R)
  BY <1>1, <1>3, WFMin, Zenon
<1>5. \A b \in Ages : b < a => <<b, a>> \in R
  BY <1>3 DEF R
<1>6. PICK n \in names : a = clock - policies[n].mtime
  OBVIOUS
<1>7. ASSUME NEW m \in names
      PROVE  policies[n].mtime >= policies[m].mtime
  <2>1. clock - policies[m].mtime \in Ages
    OBVIOUS
  <2>2. ~(clock - policies[m].mtime < a)
    BY <1>4, <1>5, <2>1
  <2> QED
    BY <1>2, <1>6, <2>2
<1> QED
  BY <1>7 DEF MostRecent

\* What the two ways to record a default policy make of project.json.
LEMMA DefaultSaved ==
    ASSUME TypeOK, NEW k \in Projects, NEW name \in Names, SaveDefaultPolicy(k, name)
    PROVE  /\ projects' \in [Projects -> [valid : BOOLEAN, default : Names \cup {None},
                                          off_limits : {None, "own", OFF_LIMITS_DEFAULT}]]
           /\ projects[k].valid => projects'[k].default = name
           /\ \A j \in Projects : projects[j].off_limits = "own" => projects'[j].off_limits = "own"
<1> DEFINE Files == [valid : BOOLEAN, default : Names \cup {None},
                     off_limits : {None, "own", OFF_LIMITS_DEFAULT}]
<1>1. projects \in [Projects -> Files]
  BY DEF TypeOK
<1>2. CASE ~projects[k].valid
  BY <1>1, <1>2 DEF SaveDefaultPolicy
<1>3. CASE projects[k].valid
  <2> DEFINE limits == IF projects[k].off_limits = None THEN OFF_LIMITS_DEFAULT
                       ELSE projects[k].off_limits
  <2> DEFINE file == [projects[k] EXCEPT !.default = name, !.off_limits = limits]
  <2>1. projects' = [projects EXCEPT ![k] = file]
    BY <1>1, <1>3 DEF SaveDefaultPolicy
  <2>2. file \in Files /\ file.default = name
    BY <1>1
  <2>3. projects[k].off_limits = "own" => file.off_limits = "own"
    BY <1>1, SetupAssumption
  <2> HIDE DEF file
  <2> QED
    BY <1>1, <2>1, <2>2, <2>3
<1> QED
  BY <1>2, <1>3

\* The names a flow may record are names of files.
LEMMA Candidates ==
    ASSUME TypeOK, NEW before, DiffPolicies(before) # {}
    PROVE  /\ MostRecent(DiffPolicies(before)) \in DiffPolicies(before)
           /\ MostRecent(DiffPolicies(before)) \in Names
           /\ \A m \in DiffPolicies(before) :
                policies[MostRecent(DiffPolicies(before))].mtime >= policies[m].mtime
<1>1. DiffPolicies(before) \subseteq DOMAIN policies /\ DOMAIN policies \subseteq Names
  BY DEF DiffPolicies, TypeOK
<1> QED
  BY <1>1, MostRecentIsOne, Zenon

\* The steps with which a flow ends.
LEMMA FlowEnds ==
    ASSUME IInv, NEW k \in Projects, Choose(k) \/ Prompt(k) \/ Interrupt(k)
    PROVE  IInv'
<1>1. projects' = projects \/ \E name \in Names : SaveDefaultPolicy(k, name)
  BY Candidates DEF IInv, TypeOK, Choose, Prompt, Interrupt
<1>2. projects' \in [Projects -> [valid : BOOLEAN, default : Names \cup {None},
                                  off_limits : {None, "own", OFF_LIMITS_DEFAULT}]]
  BY <1>1, DefaultSaved DEF IInv, TypeOK
<1>3. End(k)
  BY DEF Choose, Prompt, Interrupt
<1>4. /\ UNCHANGED <<policies, clock, choices, flows>>
      /\ \A j \in Projects \ {k} :
           setups'[j] = setups[j] /\ pages'[j] = pages[j] /\ latest'[j] = latest[j]
      /\ DOMAIN setups' = Projects /\ DOMAIN pages' = Projects /\ DOMAIN latest' = Projects
      /\ DOMAIN setups'[k] = {"pc", "before", "debounce"}
      /\ setups'[k].debounce = FALSE /\ setups'[k].pc = "done" /\ setups'[k].before = <<>>
      /\ pages'[k] = Closed /\ latest'[k] = None
  BY <1>3 DEF End, IInv, Shape, SavedLast
<1>5. \A page : PageOK(page)' <=> PageOK(page)
  BY <1>4 DEF PageOK
<1>6. \A j \in Projects \ {k} : Serves(j)' <=> Serves(j)
  BY <1>4 DEF Serves
<1>7. Closed.pc = "closed" /\ PageOK(Closed)' /\ DOMAIN <<>> = {}
  BY DEF Closed, PageOK
<1>8. TypeOK'
  BY <1>2, <1>4, <1>5, <1>6, <1>7 DEF IInv, TypeOK
<1>9. Shape'
  <2>1. /\ DOMAIN setups' = Projects /\ DOMAIN pages' = Projects
        /\ \A j \in Projects :
             /\ DOMAIN setups'[j] = {"pc", "before", "debounce"}
             /\ setups'[j].debounce \in BOOLEAN
             /\ DOMAIN setups'[j].before \subseteq DOMAIN policies
             /\ \A n \in DOMAIN setups'[j].before : setups'[j].before[n] \in Nat
    BY <1>4, <1>7 DEF IInv, Shape
  <2>2. DOMAIN policies' = DOMAIN policies /\ Closed' = Closed
    BY <1>4 DEF Closed
  <2>3. ASSUME NEW j \in Projects
        PROVE  pages'[j] = Closed \/ Editor(pages[j])' \/ Saving(pages[j])'
    <3>1. CASE j = k
      BY <1>4, <3>1
    <3>2. CASE j # k
      <4>1. pages'[j] = pages[j] /\ (pages[j] = Closed \/ Editor(pages[j]) \/ Saving(pages[j]))
        BY <1>4, <3>2 DEF IInv, Shape
      <4> QED
        BY <1>4, <1>5, <4>1 DEF Editor, Saving
    <3> QED
      BY <3>1, <3>2
  <2> QED
    BY <2>1, <2>2, <2>3 DEF Shape
<1>10. SavedLast'
  BY <1>4, <1>6 DEF IInv, SavedLast
<1> QED
  BY <1>8, <1>9, <1>10 DEF IInv

------------------------------------------------------------------------------
(* Choices on a page, its save and its end                                   *)

\* A choice on a page leaves a page that the editor shows.
LEMMA PageMoves ==
    ASSUME IInv, NEW k \in Projects, UserStep(k)
    PROVE  /\ UNCHANGED <<policies, clock>>
           /\ choices' \in 0..MaxChoices
           /\ DOMAIN pages' = Projects
           /\ \A j \in Projects \ {k} : pages'[j] = pages[j]
           /\ \/ Editor(pages'[k])
              \/ Saving(pages'[k])
<1>1. DOMAIN pages = Projects /\ choices \in 0..MaxChoices /\ DOMAIN policies \subseteq Names
      /\ (pages[k] = Closed \/ Editor(pages[k]) \/ Saving(pages[k]))
      /\ \A n \in DOMAIN policies : policies[n].mtime \in 1..clock
  BY DEF IInv, TypeOK, Shape
<1>2. Closed.pc = "closed"
  BY DEF Closed
<1>3. ASSUME NEW id \in DOMAIN policies, OpenEditor(k, id)
      PROVE  /\ UNCHANGED <<policies, clock, choices>> /\ DOMAIN pages' = Projects
             /\ \A j \in Projects \ {k} : pages'[j] = pages[j]
             /\ Editor(pages'[k])
  <2>1. pages'[k] = SummarizePolicy(id) /\ UNCHANGED <<policies, clock, choices>>
        /\ DOMAIN pages' = Projects /\ \A j \in Projects \ {k} : pages'[j] = pages[j]
    BY <1>1, <1>3 DEF OpenEditor
  <2>2. /\ DOMAIN SummarizePolicy(id) = PageFields
        /\ SummarizePolicy(id).pc = "editing"
        /\ SummarizePolicy(id).base = id
        /\ SummarizePolicy(id).opened = policies[id].mtime
        /\ DOMAIN SummarizePolicy(id).routing = Visible
        /\ SummarizePolicy(id).touched = {}
    BY DEF SummarizePolicy, PageFields
  <2>3. DOMAIN SummarizePolicy(id).overrides = Intents
    BY DEF SummarizePolicy, IntentPhaseOverrides
  <2>4. policies[id].mtime \in 1..policies[id].mtime
    BY <1>1, ConsoleAssumption DEF IInv, TypeOK
  <2> QED
    BY <2>1, <2>2, <2>3, <2>4 DEF Editor, PageOK
<1>4. ASSUME MakeChoice(k)
      PROVE  UNCHANGED <<policies, clock>> /\ choices' \in 0..MaxChoices /\ Editor(pages[k])
  BY <1>1, <1>2, <1>4, ConsoleAssumption DEF MakeChoice, Saving
<1>5. ASSUME NEW phase \in Visible, NEW m, SetPhaseModel(k, phase, m)
      PROVE  DOMAIN pages' = Projects /\ (\A j \in Projects \ {k} : pages'[j] = pages[j])
             /\ Editor(pages'[k])
  <2>1. Editor(pages[k])
    BY <1>4, <1>5 DEF SetPhaseModel
  <2>2. pages' = [pages EXCEPT ![k].routing[phase] = m, ![k].touched = @ \cup {phase}]
    BY <1>5 DEF SetPhaseModel
  <2>3. UNCHANGED policies
    BY <1>4, <1>5 DEF SetPhaseModel
  <2> QED
    BY <1>1, <1>2, <2>1, <2>2, <2>3 DEF Editor, PageOK, PageFields
<1>6. ASSUME NEW i \in Intents, NEW phase \in Visible, NEW m, SetIntentGridCell(k, i, phase, m)
      PROVE  DOMAIN pages' = Projects /\ (\A j \in Projects \ {k} : pages'[j] = pages[j])
             /\ Editor(pages'[k])
  <2>1. Editor(pages[k])
    BY <1>4, <1>6 DEF SetIntentGridCell
  <2>2. pages' = [pages EXCEPT ![k].overrides[i][phase] = m, ![k].touched = @ \cup {phase}]
    BY <1>6 DEF SetIntentGridCell
  <2>3. UNCHANGED policies
    BY <1>4, <1>6 DEF SetIntentGridCell
  <2> QED
    BY <1>1, <1>2, <2>1, <2>2, <2>3 DEF Editor, PageOK, PageFields
<1>7. ASSUME NEW m, AddModel(k, m)
      PROVE  DOMAIN pages' = Projects /\ (\A j \in Projects \ {k} : pages'[j] = pages[j])
             /\ Editor(pages'[k])
  <2>1. Editor(pages[k])
    BY <1>4, <1>7 DEF AddModel
  <2>2. PICK models : pages' = [pages EXCEPT ![k].models = models]
    BY <1>1, <1>7 DEF AddModel
  <2>3. UNCHANGED policies
    BY <1>4, <1>7 DEF AddModel
  <2> QED
    BY <1>1, <1>2, <2>1, <2>2, <2>3 DEF Editor, PageOK, PageFields
<1>8. ASSUME NEW name \in NamesOf[k], Submit(k, name)
      PROVE  /\ UNCHANGED <<policies, clock, choices>> /\ DOMAIN pages' = Projects
             /\ \A j \in Projects \ {k} : pages'[j] = pages[j]
             /\ Saving(pages'[k])
  <2>1. name \in Names
    BY ConsoleAssumption
  <2>2. UNCHANGED <<policies, clock, choices>> /\ Editor(pages[k])
    BY <1>1, <1>2, <1>8 DEF Submit, Saving
  <2>4. pages' = [pages EXCEPT ![k] = [pc |-> "writing", page |-> pages[k], name |-> name,
                     policy |-> BuildCustomPolicy(policies[pages[k].base].policy, pages[k])]]
    BY <1>8 DEF Submit
  <2>5. Editor(pages'[k].page)
    BY <1>1, <2>2, <2>4 DEF Editor, PageOK
  <2> QED
    BY <1>1, <2>1, <2>2, <2>4, <2>5 DEF Saving
<1> QED
  <2>1. \/ \E id \in DOMAIN policies : OpenEditor(k, id)
        \/ \E phase \in Visible, m \in ModelIds : SetPhaseModel(k, phase, m)
        \/ \E i \in Intents, phase \in Visible, m \in ModelIds \cup {None} :
             SetIntentGridCell(k, i, phase, m)
        \/ \E m \in ModelIds : AddModel(k, m)
        \/ \E name \in NamesOf[k] : Submit(k, name)
    BY DEF UserStep
  <2>2. CASE \E id \in DOMAIN policies : OpenEditor(k, id)
    BY <1>1, <1>3, <2>2
  <2>3. CASE \E phase \in Visible, m \in ModelIds : SetPhaseModel(k, phase, m)
    BY <1>4, <1>5, <2>3 DEF SetPhaseModel
  <2>4. CASE \E i \in Intents, phase \in Visible, m \in ModelIds \cup {None} :
               SetIntentGridCell(k, i, phase, m)
    BY <1>4, <1>6, <2>4 DEF SetIntentGridCell
  <2>5. CASE \E m \in ModelIds : AddModel(k, m)
    BY <1>4, <1>7, <2>5 DEF AddModel
  <2>6. CASE \E name \in NamesOf[k] : Submit(k, name)
    BY <1>1, <1>8, <2>6
  <2> QED
    BY <2>1, <2>2, <2>3, <2>4, <2>5, <2>6

\* A choice on a page keeps the invariant.
LEMMA UserSteps ==
    ASSUME IInv, NEW k \in Projects, Serves(k), UserStep(k),
           UNCHANGED <<setups, latest, projects, flows>>
    PROVE  IInv'
<1>1. /\ UNCHANGED <<policies, clock>>
      /\ choices' \in 0..MaxChoices
      /\ DOMAIN pages' = Projects
      /\ \A j \in Projects \ {k} : pages'[j] = pages[j]
      /\ Editor(pages'[k]) \/ Saving(pages'[k])
  BY PageMoves
<1>2. /\ \A page : PageOK(page)' <=> PageOK(page)
      /\ \A j \in Projects : Serves(j)' <=> Serves(j)
  BY <1>1 DEF PageOK, Serves
<1>3. /\ pages'[k].pc \in {"editing", "writing"}
      /\ pages'[k].pc = "writing" => pages'[k].name \in Names /\ PageOK(pages'[k].page)
      /\ pages'[k].pc # "writing" => PageOK(pages'[k])
  BY <1>1 DEF Editor, Saving
<1>4. TypeOK'
  BY <1>1, <1>2, <1>3 DEF IInv, TypeOK
<1>5. Shape'
  BY <1>1, <1>2 DEF IInv, Shape, Editor, Saving
<1>6. SavedLast'
  BY <1>1, <1>2 DEF IInv, SavedLast
<1> QED
  BY <1>4, <1>5, <1>6 DEF IInv

\* A write by the console of project `by`, or by hand, keeps the invariant.
LEMMA Writes ==
    ASSUME IInv, NEW name \in Names, NEW content, NEW shown, Put(name, content, shown),
           clock <= MaxWrites, NEW by \in Projects \cup {None},
           by \in Projects => Serves(by),
           Notify(by, name), UNCHANGED <<projects, flows, choices>>,
           DOMAIN pages' = Projects,
           \A j \in Projects : \/ pages'[j] = pages[j]
                               \/ pages[j].pc = "writing" /\ pages'[j] = pages[j].page
    PROVE  IInv'
<1>1. /\ clock' = clock + 1
      /\ DOMAIN policies' = DOMAIN policies \cup {name}
      /\ policies'[name].mtime = clock'
      /\ \A n \in DOMAIN policies \ {name} : policies'[n] = policies[n]
      /\ \A n \in DOMAIN policies : policies[n].mtime \in Nat /\ policies[n].mtime < clock'
      /\ \A n \in DOMAIN policies : policies[n].mtime <= policies'[n].mtime
      /\ policies' # policies
  BY PutsOne DEF IInv
<1>2. /\ clock \in 1..MaxWrites /\ clock' \in 1..(MaxWrites + 1) /\ clock' > 1
      /\ \A n \in DOMAIN policies : policies[n].mtime \in 1..clock
  BY <1>1, ConsoleAssumption DEF IInv, TypeOK
<1>3. /\ setups' = [k \in Projects |->
              [setups[k] EXCEPT !.debounce = @ \/ setups[k].pc = "waiting"]]
      /\ latest' = [k \in Projects |-> IF k = by THEN name ELSE None]
  BY <1>1 DEF Notify
<1>4. \A k \in Projects :
        /\ DOMAIN setups'[k] = {"pc", "before", "debounce"}
        /\ setups'[k].pc = setups[k].pc /\ setups'[k].before = setups[k].before
        /\ setups'[k].debounce \in BOOLEAN
        /\ setups'[k].debounce => setups[k].debounce \/ setups[k].pc = "waiting"
        /\ Serves(k)' <=> Serves(k)
  BY <1>3 DEF IInv, Shape, Serves
<1>5. \A n \in DOMAIN policies' : policies'[n].mtime \in 1..clock' /\ policies'[n].mtime \in Nat
  BY <1>1, <1>2
<1>6. \A n, m \in DOMAIN policies' :
        policies'[n].mtime = policies'[m].mtime => n = m \/ policies'[n].mtime = 1
  <2> SUFFICES ASSUME NEW n \in DOMAIN policies', NEW m \in DOMAIN policies',
                      policies'[n].mtime = policies'[m].mtime, n # m
               PROVE  policies'[n].mtime = 1
    OBVIOUS
  <2>1. n # name /\ m # name
    BY <1>1
  <2>2. n \in DOMAIN policies /\ m \in DOMAIN policies
        /\ policies'[n] = policies[n] /\ policies'[m] = policies[m]
    BY <1>1, <2>1
  <2> QED
    BY <2>2 DEF IInv, TypeOK
<1>7. ASSUME NEW page, Editor(page)
      PROVE  Editor(page)'
  BY <1>1, <1>5, <1>7, PagesStay DEF IInv
<1>8. Closed.pc = "closed" /\ PageOK(Closed)'
  BY DEF Closed, PageOK
<1>9. \A j \in Projects : pages'[j] = Closed \/ Editor(pages[j])' \/ Saving(pages[j])'
  <2> TAKE j \in Projects
  <2>1. pages[j] = Closed \/ Editor(pages[j]) \/ Saving(pages[j])
    BY DEF IInv, Shape
  <2>2. CASE pages'[j] = pages[j]
    <3>1. Editor(pages[j]) => Editor(pages[j])'
      BY <1>7, <2>2
    <3>2. Saving(pages[j]) => Saving(pages[j])'
      BY <1>7, <2>2 DEF Saving
    <3> QED
      BY <2>1, <2>2, <3>1, <3>2
  <2>3. CASE pages[j].pc = "writing" /\ pages'[j] = pages[j].page
    <3>1. Editor(pages[j].page)
      BY <1>8, <2>1, <2>3 DEF Editor, Saving
    <3> QED
      BY <1>7, <2>3, <3>1
  <2> QED
    BY <2>2, <2>3
<1>10. \A j \in Projects :
         /\ pages'[j].pc = "writing" => pages'[j].name \in Names /\ PageOK(pages[j].page)'
         /\ pages'[j].pc # "writing" => PageOK(pages[j])'
         /\ pages'[j].pc # "closed" => pages[j].pc # "closed"
  BY <1>8, <1>9 DEF Editor, Saving
<1>11. \A k \in Projects :
         /\ DOMAIN setups'[k].before \subseteq DOMAIN policies'
         /\ \A n \in DOMAIN setups'[k].before :
              /\ setups'[k].before[n] \in Nat
              /\ setups'[k].before[n] <= policies'[n].mtime
              /\ setups'[k].before[n] < clock'
  <2> SUFFICES ASSUME NEW k \in Projects, NEW n \in DOMAIN setups[k].before
               PROVE  /\ n \in DOMAIN policies'
                      /\ setups[k].before[n] \in Nat
                      /\ setups[k].before[n] <= policies'[n].mtime
                      /\ setups[k].before[n] < clock'
    BY <1>4
  <2>1. n \in DOMAIN policies /\ setups[k].before[n] \in Nat
        /\ setups[k].before[n] <= policies[n].mtime
    BY DEF IInv, Shape, TypeOK
  <2> QED
    BY <1>1, <1>5, <2>1
<1>12. TypeOK'
  <2>1. clock' \in 1..(MaxWrites + 1) /\ choices' \in 0..MaxChoices /\ DOMAIN policies' \subseteq Names
    BY <1>1, <1>2 DEF IInv, TypeOK
  <2>2. \A k \in Projects :
         /\ setups'[k].pc \in {"idle", "serving", "waiting", "found", "done"}
         /\ setups'[k].debounce => setups'[k].pc = "waiting"
         /\ pages'[k].pc # "closed" => Serves(k)'
    BY <1>4, <1>10 DEF IInv, TypeOK
  <2>3. flows' \in 0..MaxFlows
        /\ projects' \in [Projects -> [valid : BOOLEAN, default : Names \cup {None},
                                       off_limits : {None, "own", OFF_LIMITS_DEFAULT}]]
    BY DEF IInv, TypeOK
  <2> QED
    BY <1>5, <1>6, <1>10, <1>11, <2>1, <2>2, <2>3 DEF TypeOK
<1>13. Shape'
  BY <1>3, <1>4, <1>9, <1>11 DEF Shape
<1>14. SavedLast'
  BY <1>1, <1>2, <1>3, <1>4, <1>11 DEF SavedLast
<1> QED
  BY <1>12, <1>13, <1>14 DEF IInv

LEMMA InitIInv == Init => IInv
<1> SUFFICES ASSUME Init PROVE IInv
  OBVIOUS
<1>1. /\ clock = 1 /\ choices = 0 /\ flows = 0
      /\ DOMAIN policies \subseteq Names
      /\ \A n \in DOMAIN policies : policies[n].mtime = 1
      /\ pages = [k \in Projects |-> Closed]
      /\ setups = [k \in Projects |-> [pc |-> "idle", before |-> <<>>, debounce |-> FALSE]]
      /\ latest = [k \in Projects |-> None]
  BY ConsoleAssumption DEF Init, ConsoleInit
<1>2. projects \in [Projects -> [valid : BOOLEAN, default : Names \cup {None},
                                  off_limits : {None, "own", OFF_LIMITS_DEFAULT}]]
  BY SetupAssumption DEF Init
<1>3. Closed.pc = "closed" /\ PageOK(Closed) /\ DOMAIN <<>> = {}
  BY DEF Closed, PageOK
<1>4. \A k \in Projects :
        /\ setups[k].pc = "idle" /\ setups[k].debounce = FALSE /\ setups[k].before = <<>>
        /\ DOMAIN setups[k] = {"pc", "before", "debounce"}
        /\ pages[k] = Closed /\ latest[k] = None
  BY <1>1
<1>5. TypeOK
  BY <1>1, <1>2, <1>3, <1>4, ConsoleAssumption, SetupAssumption DEF TypeOK
<1>6. Shape
  BY <1>1, <1>3, <1>4 DEF Shape
<1>7. SavedLast
  BY <1>1, <1>4 DEF SavedLast
<1> QED
  BY <1>5, <1>6, <1>7 DEF IInv

LEMMA NextIInv == IInv /\ [Next]_vars => IInv'
<1> SUFFICES ASSUME IInv, [Next]_vars PROVE IInv'
  OBVIOUS
<1>1. ASSUME NEW k \in Projects,
             Start(k) \/ Watch(k) \/ Debounce(k) \/ Timeout(k) \/ Enter(k)
      PROVE  IInv'
  BY <1>1, FlowMoves
<1>2. ASSUME NEW k \in Projects, Choose(k) \/ Prompt(k) \/ Interrupt(k)
      PROVE  IInv'
  BY <1>2, FlowEnds
<1>3. ASSUME NEW k \in Projects, NEW name \in Names, Scripted(k, name)
      PROVE  IInv'
  <2>1. projects' \in [Projects -> [valid : BOOLEAN, default : Names \cup {None},
                                    off_limits : {None, "own", OFF_LIMITS_DEFAULT}]]
    BY <1>3, DefaultSaved DEF IInv, Scripted
  <2>2. UNCHANGED <<policies, pages, clock, choices, setups, latest>> /\ flows' \in 0..MaxFlows
    BY <1>3, SetupAssumption DEF IInv, TypeOK, Scripted, NewFlow, consoleVars
  <2>3. /\ \A page : PageOK(page)' <=> PageOK(page)
        /\ \A j \in Projects : Serves(j)' <=> Serves(j)
    BY <2>2 DEF PageOK, Serves
  <2>4. TypeOK'
    BY <2>1, <2>2, <2>3 DEF IInv, TypeOK
  <2>5. Shape' /\ SavedLast'
    BY <2>2, <2>3 DEF IInv, Shape, Editor, Saving, SavedLast
  <2> QED
    BY <2>4, <2>5 DEF IInv
<1>4. ASSUME NEW k \in Projects, ConsoleStep(k)
      PROVE  IInv'
  <2>1. CASE UserStep(k) /\ UNCHANGED <<setups, latest>>
    BY <1>4, <2>1, UserSteps DEF ConsoleStep
  <2>2. CASE Write(k) /\ Notify(k, pages[k].name)
    <3>1. /\ pages[k].pc = "writing" /\ clock <= MaxWrites /\ Serves(k)
          /\ pages' = [pages EXCEPT ![k] = pages[k].page] /\ UNCHANGED <<choices, projects, flows>>
      BY <1>4, <2>2 DEF ConsoleStep, Write, BackToPage
    <3>2. /\ Saving(pages[k]) /\ pages[k].name \in Names
          /\ DOMAIN pages' = Projects
          /\ \A j \in Projects : \/ pages'[j] = pages[j]
                                 \/ pages[j].pc = "writing" /\ pages'[j] = pages[j].page
      BY <3>1 DEF IInv, Shape, Editor, Saving, Closed
    <3>3. CASE Put(pages[k].name, pages[k].policy, pages[k].page.routing)
      BY <2>2, <3>1, <3>2, <3>3, Writes
    <3>4. CASE UNCHANGED <<policies, clock>>
      <4>1. UNCHANGED <<setups, latest>>
        BY <2>2, <3>4 DEF Notify
      <4>2. /\ \A page : PageOK(page)' <=> PageOK(page)
            /\ \A j \in Projects : Serves(j)' <=> Serves(j)
        BY <3>4, <4>1 DEF PageOK, Serves
      <4>3. pages'[k].pc = "editing" /\ PageOK(pages'[k]) /\ Editor(pages'[k])
            /\ \A j \in Projects \ {k} : pages'[j] = pages[j]
        BY <3>1, <3>2 DEF Saving, Editor, IInv, Shape
      <4>4. TypeOK'
        BY <3>1, <3>4, <4>1, <4>2, <4>3 DEF IInv, TypeOK
      <4>5. Shape' /\ SavedLast'
        BY <3>1, <3>2, <3>4, <4>1, <4>2, <4>3 DEF IInv, Shape, Editor, Saving, SavedLast
      <4> QED
        BY <4>4, <4>5 DEF IInv
    <3> QED
      BY <2>2, <3>3, <3>4 DEF Write
  <2> QED
    BY <1>4, <2>1, <2>2 DEF ConsoleStep
<1>5. CASE HandStep
  <2>1. PICK b \in HandPolicies : EditPolicy(b) /\ Notify(None, b.name)
    BY <1>5 DEF HandStep
  <2>2. /\ b.name \in Names /\ Put(b.name, b.policy, None) /\ clock <= MaxWrites
        /\ UNCHANGED <<pages, choices, projects, flows>>
    BY <1>5, <2>1 DEF HandStep, EditPolicy, IInv, TypeOK
  <2>3. DOMAIN pages' = Projects /\ \A j \in Projects : pages'[j] = pages[j]
    BY <2>2 DEF IInv, Shape
  <2> QED
    BY <2>1, <2>2, <2>3, Writes, SetupAssumption
<1>6. CASE UNCHANGED vars
  <2>1. UNCHANGED <<policies, pages, clock, choices, setups, projects, latest, flows>>
    BY <1>6 DEF vars
  <2>2. /\ \A page : PageOK(page)' <=> PageOK(page)
        /\ \A j \in Projects : Serves(j)' <=> Serves(j)
    BY <2>1 DEF PageOK, Serves
  <2> QED
    BY <2>1, <2>2 DEF IInv, TypeOK, Shape, Editor, Saving, SavedLast
<1> QED
  BY <1>1, <1>2, <1>3, <1>4, <1>5, <1>6 DEF Next, SetupStep

\* Types, for any number of projects, flows, files and writers; and what goes
\* with them: each write has a time of its own, and a page is open only while
\* its flow runs (setup-policy.mjs, policy-server.mjs).
THEOREM SetupTypes == Spec => []TypeOK
<1>1. IInv => TypeOK
  BY DEF IInv
<1> QED
  BY InitIInv, NextIInv, <1>1, PTL DEF Spec

------------------------------------------------------------------------------
(* What setups keep of the user's project.json                               *)

\* Who writes project.json: a flow that ends with a choice, and a scripted one.
LEMMA WhoSavesDefaults ==
    ASSUME IInv, Next
    PROVE  \/ UNCHANGED projects
           \/ \E k \in Projects, name \in Names : SaveDefaultPolicy(k, name)
<1>1. CASE HandStep \/ \E k \in Projects : ConsoleStep(k)
  BY <1>1 DEF HandStep, ConsoleStep
<1>2. ASSUME NEW k \in Projects,
             Start(k) \/ Watch(k) \/ Debounce(k) \/ Timeout(k) \/ Enter(k) \/ Interrupt(k)
      PROVE  UNCHANGED projects
  BY <1>2 DEF Start, Watch, Debounce, Timeout, Enter, Interrupt
<1>3. ASSUME NEW k \in Projects, Choose(k) \/ Prompt(k)
      PROVE  UNCHANGED projects \/ \E name \in Names : SaveDefaultPolicy(k, name)
  BY <1>3, Candidates DEF IInv, TypeOK, Choose, Prompt
<1>4. ASSUME NEW k \in Projects, NEW name \in Names, Scripted(k, name)
      PROVE  SaveDefaultPolicy(k, name)
  BY <1>4 DEF Scripted
<1> QED
  BY <1>1, <1>2, <1>3, <1>4 DEF Next, SetupStep

\* HandEditsSurvive: whatever flows run, and whatever project.json is, the
\* user's off-limits paths stay in it (saveDefaultPolicy, setup-policy.mjs).
THEOREM UserPathsStay == Spec => HandEditsSurvive
<1>1. ASSUME IInv, [Next]_vars
      PROVE  [\A k \in Projects :
                projects[k].off_limits = "own" => projects'[k].off_limits = "own"]_projects
  <2>1. CASE Next
    BY <1>1, <2>1, WhoSavesDefaults, DefaultSaved DEF IInv
  <2>2. CASE UNCHANGED vars
    BY <2>2 DEF vars
  <2> QED
    BY <1>1, <2>1, <2>2
<1> QED
  BY InitIInv, NextIInv, <1>1, PTL DEF Spec, HandEditsSurvive

\* What a step can do to files and pages.
LEMMA PageSources ==
    ASSUME [Next]_vars
    PROVE  \/ UNCHANGED <<policies, pages>>
           \/ \E k \in Projects : UNCHANGED policies /\ pages' = [pages EXCEPT ![k] = Closed]
           \/ \E k \in Projects : UserStep(k) \/ Write(k)
           \/ \E b \in HandPolicies : EditPolicy(b)
<1>1. ASSUME NEW k \in Projects, Choose(k) \/ Prompt(k) \/ Interrupt(k)
      PROVE  UNCHANGED policies /\ pages' = [pages EXCEPT ![k] = Closed]
  BY <1>1 DEF Choose, Prompt, Interrupt, End
<1>2. ASSUME NEW k \in Projects,
             \/ Start(k) \/ Watch(k) \/ Debounce(k) \/ Timeout(k) \/ Enter(k)
             \/ \E name \in Names : Scripted(k, name)
      PROVE  UNCHANGED <<policies, pages>>
  BY <1>2 DEF Start, Watch, Debounce, Timeout, Enter, Scripted, consoleVars
<1>3. ASSUME NEW k \in Projects, ConsoleStep(k)
      PROVE  UserStep(k) \/ Write(k)
  BY <1>3 DEF ConsoleStep
<1>4. HandStep => \E b \in HandPolicies : EditPolicy(b)
  BY DEF HandStep
<1>5. UNCHANGED vars => UNCHANGED <<policies, pages>>
  BY DEF vars
<1> QED
  BY <1>1, <1>2, <1>3, <1>4, <1>5 DEF Next, SetupStep

\* SavesNeverOverwrite: the step that ends a save is the save's own write, and
\* that changes no file there is, whatever came between the check of the name
\* and the write (handleSave's `wx`, policy-server.mjs).
THEOREM FilesAreNotOverwritten == Spec => SavesNeverOverwrite
<1>1. ASSUME IInv, [Next]_vars,
             NEW k \in Projects, pages[k].pc = "writing", pages'[k].pc = "editing"
      PROVE  \A n \in DOMAIN policies : policies'[n] = policies[n]
  <2>1. DOMAIN pages = Projects
    BY <1>1 DEF IInv, Shape
  <2>2. ASSUME NEW j \in Projects, UserStep(j)
        PROVE  UNCHANGED policies
    BY <1>1, <2>2, PageMoves
  <2>3. ASSUME NEW j \in Projects, Write(j)
        PROVE  \A n \in DOMAIN policies : policies'[n] = policies[n]
    BY <2>3 DEF Write, Put
  <2>4. ASSUME NEW b \in HandPolicies, EditPolicy(b)
        PROVE  FALSE
    BY <1>1, <2>4 DEF EditPolicy
  <2> QED
    BY <1>1, <2>2, <2>3, <2>4, PageSources
<1>2. IInv /\ [Next]_vars =>
        [\A k \in Projects : pages[k].pc = "writing" /\ pages'[k].pc = "editing" =>
           \A n \in DOMAIN policies : policies'[n] = policies[n]]_consoleVars
  BY <1>1
<1> QED
  BY InitIInv, NextIInv, <1>2, PTL DEF Spec, SavesNeverOverwrite

\* OwnSaveBecomesDefault: the save is among the files that differ from the
\* snapshot, and is the youngest of them (diffPolicies, setup-policy.mjs).
THEOREM OwnSaveIsFound == Spec => OwnSaveBecomesDefault
<1>1. ASSUME IInv, NEW k \in Projects, latest[k] # None, projects[k].valid,
             Choose(k) \/ Prompt(k)
      PROVE  projects'[k].default = latest[k]
  <2> DEFINE candidates == DiffPolicies(setups[k].before)
  <2> DEFINE chosen == MostRecent(candidates)
  <2>1. /\ latest[k] \in DOMAIN policies /\ policies[latest[k]].mtime = clock /\ clock > 1
        /\ \A n \in DOMAIN setups[k].before :
             setups[k].before[n] \in Nat /\ setups[k].before[n] < clock
    BY <1>1 DEF IInv, SavedLast, Shape
  <2>2. latest[k] \in candidates
    BY <2>1 DEF DiffPolicies
  <2>3. Choose(k) /\ SaveDefaultPolicy(k, chosen)
    BY <1>1, <2>2 DEF Choose, Prompt
  <2>4. /\ chosen \in candidates /\ chosen \in Names
        /\ policies[chosen].mtime >= policies[latest[k]].mtime
    BY <1>1, <2>2, Candidates DEF IInv
  <2>5. chosen \in DOMAIN policies
    BY <2>4 DEF DiffPolicies
  <2>6. policies[chosen].mtime = clock
    BY <1>1, <2>1, <2>4, <2>5 DEF IInv, TypeOK
  <2>7. chosen = latest[k]
    BY <1>1, <2>1, <2>5, <2>6 DEF IInv, TypeOK
  <2> HIDE DEF chosen
  <2> QED
    BY <1>1, <2>3, <2>4, <2>7, DefaultSaved DEF IInv
<1>2. IInv /\ [Next]_vars =>
        [\A k \in Projects :
           /\ Choose(k) \/ Prompt(k)
           /\ latest[k] # None /\ projects[k].valid
           => projects'[k].default = latest[k]]_vars
  BY <1>1
<1> QED
  BY InitIInv, NextIInv, <1>2, PTL DEF Spec, OwnSaveBecomesDefault

------------------------------------------------------------------------------
(* Lists of rules.                                                           *)

IsList(s) == s \in Seq(Range(s))

LEMMA ListOf ==
    ASSUME NEW R, NEW s \in Seq(R)
    PROVE  IsList(s) /\ \A i \in DOMAIN s : s[i] \in R
<1>1. /\ Len(s) \in Nat /\ DOMAIN s = 1..Len(s)
      /\ s = [i \in 1..Len(s) |-> s[i]]
      /\ \A i \in 1..Len(s) : s[i] \in R /\ s[i] \in Range(s)
  BY DEF Range
<1>2. [i \in 1..Len(s) |-> s[i]] \in Seq(Range(s))
  BY <1>1, IsASeq
<1> QED
  BY <1>1, <1>2 DEF IsList

------------------------------------------------------------------------------
(* Which rule of a list decides.                                             *)

\* The first loop of pickModel stops at the rule.
Stops(rule, ctx) ==
    "default" \notin DOMAIN rule /\ ("when" \in DOMAIN rule => Matches(rule.when, ctx))

Quiet(rules, ctx) == \A i \in DOMAIN rules : ~Stops(rules[i], ctx)

Serving(rules, ctx, rule) ==
    \E i \in DOMAIN rules :
        /\ rules[i] = rule /\ Stops(rule, ctx)
        /\ \A j \in 1..(i - 1) : ~Stops(rules[j], ctx)

LEMMA ServingRoutes ==
    ASSUME NEW p, NEW R, p.rules \in Seq(R), NEW ctx, NEW rule,
           Serving(p.rules, ctx, rule), "when" \in DOMAIN rule
    PROVE  RoutedTo(p, ctx) = ResolveSlot(p, rule.use)
<1>1. PICK i \in DOMAIN p.rules :
        /\ p.rules[i] = rule /\ Stops(rule, ctx)
        /\ \A j \in 1..(i - 1) : ~Stops(p.rules[j], ctx)
  BY DEF Serving
<1>2. DOMAIN p.rules = 1..Len(p.rules) /\ Len(p.rules) \in Nat
  OBVIOUS
<1>3. StoppingRules(ctx, p) = {j \in DOMAIN p.rules : Stops(p.rules[j], ctx)}
  BY DEF StoppingRules, DefaultRules, Stops
<1>4. Min(StoppingRules(ctx, p)) \in StoppingRules(ctx, p)
      /\ \A j \in StoppingRules(ctx, p) : Min(StoppingRules(ctx, p)) <= j
  <2>1. i \in StoppingRules(ctx, p) /\ StoppingRules(ctx, p) \subseteq Nat
    BY <1>1, <1>2, <1>3
  <2> QED
    BY <2>1, MinOfNats
<1>5. Min(StoppingRules(ctx, p)) = i
  <2> DEFINE m == Min(StoppingRules(ctx, p))
  <2>1. m \in 1..Len(p.rules) /\ Stops(p.rules[m], ctx) /\ m <= i
    BY <1>1, <1>2, <1>3, <1>4
  <2> HIDE DEF m
  <2>2. ~(m < i)
    BY <1>1, <1>2, <2>1
  <2>3. m = i
    BY <1>1, <1>2, <2>1, <2>2
  <2> QED
    BY <2>3 DEF m
<1>6. \A r : Decide(p, rule.use, r, <<>>).model = ResolveSlot(p, rule.use)
  <2>1. DOMAIN <<>> = {}
    OBVIOUS
  <2> QED
    BY <2>1 DEF Decide, Decision, Throw, ResolveNamed, Chosen, ResolveSlot
<1> QED
  BY <1>1, <1>4, <1>5, <1>6 DEF RoutedTo, PickModel

LEMMA QuietRoutes ==
    ASSUME NEW p, NEW ctx, Quiet(p.rules, ctx), DefaultRules(p) # {}
    PROVE  RoutedTo(p, ctx) = ResolveSlot(p, p.rules[Min(DefaultRules(p))].default)
<1>1. StoppingRules(ctx, p) = {}
  BY DEF StoppingRules, DefaultRules, Stops, Quiet
<1>2. \A n, r : Decide(p, n, r, <<>>).model = ResolveSlot(p, n)
  <2>1. DOMAIN <<>> = {}
    OBVIOUS
  <2> QED
    BY <2>1 DEF Decide, Decision, Throw, ResolveNamed, Chosen, ResolveSlot
<1> QED
  BY <1>1, <1>2 DEF RoutedTo, PickModel

\* The first of two lists speaks first.
LEMMA Joined ==
    ASSUME NEW R, NEW a \in Seq(R), NEW b \in Seq(R), NEW ctx
    PROVE  /\ a \o b \in Seq(R)
           /\ \A r : Serving(a, ctx, r) => Serving(a \o b, ctx, r)
           /\ \A r : Quiet(a, ctx) /\ Serving(b, ctx, r) => Serving(a \o b, ctx, r)
           /\ Quiet(a, ctx) /\ Quiet(b, ctx) => Quiet(a \o b, ctx)
<1> DEFINE c == a \o b
<1>1. /\ c \in Seq(R) /\ Len(a) \in Nat /\ Len(b) \in Nat
      /\ DOMAIN a = 1..Len(a) /\ DOMAIN b = 1..Len(b)
      /\ DOMAIN c = 1..(Len(a) + Len(b))
      /\ \A i \in 1..(Len(a) + Len(b)) : c[i] = IF i <= Len(a) THEN a[i] ELSE b[i - Len(a)]
  BY ConcatProperties
<1> HIDE DEF c
<1>2. ASSUME NEW r, Serving(a, ctx, r)
      PROVE  Serving(c, ctx, r)
  <2>1. PICK i \in DOMAIN a :
          /\ a[i] = r /\ Stops(r, ctx)
          /\ \A j \in 1..(i - 1) : ~Stops(a[j], ctx)
    BY <1>2 DEF Serving
  <2>2. i \in DOMAIN c /\ c[i] = r
    BY <1>1, <2>1
  <2>3. \A j \in 1..(i - 1) : c[j] = a[j]
    BY <1>1, <2>1
  <2> QED
    BY <2>1, <2>2, <2>3 DEF Serving
<1>3. ASSUME NEW r, Quiet(a, ctx), Serving(b, ctx, r)
      PROVE  Serving(c, ctx, r)
  <2>1. PICK i \in DOMAIN b :
          /\ b[i] = r /\ Stops(r, ctx)
          /\ \A j \in 1..(i - 1) : ~Stops(b[j], ctx)
    BY <1>3 DEF Serving
  <2> DEFINE k == Len(a) + i
  <2>2. k \in DOMAIN c /\ c[k] = r
    BY <1>1, <2>1
  <2>3. ASSUME NEW j \in 1..(k - 1)
        PROVE  ~Stops(c[j], ctx)
    <3>1. CASE j <= Len(a)
      BY <1>1, <1>3, <2>1, <3>1 DEF Quiet
    <3>2. CASE ~(j <= Len(a))
      <4>1. c[j] = b[j - Len(a)] /\ j - Len(a) \in 1..(i - 1)
        BY <1>1, <2>1, <3>2
      <4> QED
        BY <2>1, <4>1
    <3> QED
      BY <3>1, <3>2
  <2> HIDE DEF k
  <2> QED
    BY <2>1, <2>2, <2>3 DEF Serving
<1>4. ASSUME Quiet(a, ctx), Quiet(b, ctx), NEW j \in DOMAIN c
      PROVE  ~Stops(c[j], ctx)
  <2>1. \/ c[j] = a[j] /\ j \in DOMAIN a
        \/ c[j] = b[j - Len(a)] /\ j - Len(a) \in DOMAIN b
    BY <1>1, <1>4
  <2> QED
    BY <1>4, <2>1 DEF Quiet
<1> QED
  BY <1>1, <1>2, <1>3, <1>4 DEF Quiet, c

------------------------------------------------------------------------------
(* Lists made of other lists.  The operators are recursive: a function that  *)
(* unfolds as they do exists up to every length, by the least length at      *)
(* which it would not.                                                       *)

KeptTo(f, s, I, n) ==
    f = [j \in 0..n |-> IF j = 0 THEN <<>>
                        ELSE IF j \in I THEN Append(f[j - 1], s[j]) ELSE f[j - 1]]

LEMMA KeptExists ==
    ASSUME NEW s, NEW I, NEW n \in Nat
    PROVE  \E f : KeptTo(f, s, I, n)
<1> DEFINE Bad == {m \in Nat : ~\E f : KeptTo(f, s, I, m)}
<1>1. SUFFICES ASSUME Bad # {} PROVE FALSE
  OBVIOUS
<1>2. PICK k \in Bad : \A m \in Bad : k <= m
  <2>1. Bad \subseteq Nat
    OBVIOUS
  <2> HIDE DEF Bad
  <2> QED
    BY <1>1, <2>1, MinOfNats
<1>3. k \in Nat /\ ~\E f : KeptTo(f, s, I, k)
  OBVIOUS
<1>4. k # 0
  <2> DEFINE g == [j \in 0..0 |-> <<>>]
  <2>1. KeptTo(g, s, I, 0)
    BY DEF KeptTo
  <2> QED
    BY <1>3, <2>1
<1>5. k - 1 \in Nat /\ k - 1 \notin Bad
  BY <1>2, <1>3, <1>4
<1>6. PICK f : KeptTo(f, s, I, k - 1)
  BY <1>5
<1> DEFINE last == IF k \in I THEN Append(f[k - 1], s[k]) ELSE f[k - 1]
           g == [j \in 0..k |-> IF j = k THEN last ELSE f[j]]
<1>7. \A j \in 0..(k - 1) : f[j] = IF j = 0 THEN <<>>
                                   ELSE IF j \in I THEN Append(f[j - 1], s[j]) ELSE f[j - 1]
  BY <1>6 DEF KeptTo
<1>8. \A j \in 0..k : g[j] = IF j = 0 THEN <<>>
                             ELSE IF j \in I THEN Append(g[j - 1], s[j]) ELSE g[j - 1]
  <2>1. (\A j \in 0..(k - 1) : g[j] = f[j]) /\ g[k] = last
    BY <1>3
  <2> HIDE DEF g
  <2>2. ASSUME NEW j \in 0..(k - 1)
        PROVE  g[j] = IF j = 0 THEN <<>>
                      ELSE IF j \in I THEN Append(g[j - 1], s[j]) ELSE g[j - 1]
    <3>1. j # 0 => j - 1 \in 0..(k - 1)
      BY <1>3
    <3> QED
      BY <1>7, <2>1, <3>1
  <2>3. g[k] = IF k \in I THEN Append(g[k - 1], s[k]) ELSE g[k - 1]
    BY <1>5, <2>1
  <2>4. \A j \in 0..k : j = k \/ j \in 0..(k - 1)
    BY <1>3
  <2> QED
    BY <1>4, <2>2, <2>3, <2>4
<1>9. g = [j \in 0..k |-> g[j]]
  OBVIOUS
<1> HIDE DEF g
<1>10. KeptTo(g, s, I, k)
  BY <1>8, <1>9 DEF KeptTo
<1> QED
  BY <1>3, <1>10

\* What is kept comes from the list; if the rules left out do not stop a packet,
\* the same rule as in the list serves it.
LEMMA KeptServes ==
    ASSUME NEW R, NEW s \in Seq(R), NEW I, NEW ctx
    PROVE  /\ Kept(s, I) \in Seq({s[i] : i \in DOMAIN s \cap I})
           /\ (\A i \in DOMAIN s \cap I : ~Stops(s[i], ctx)) => Quiet(Kept(s, I), ctx)
           /\ \A i \in DOMAIN s \cap I :
                Stops(s[i], ctx) /\ (\A j \in I \cap 1..(i - 1) : ~Stops(s[j], ctx))
                  => Serving(Kept(s, I), ctx, s[i])
<1> DEFINE K == {s[i] : i \in DOMAIN s \cap I}
           f == CHOOSE g : KeptTo(g, s, I, Len(s))
           OK(n) ==
             /\ f[n] \in Seq(K)
             /\ (\A i \in I \cap 1..n : ~Stops(s[i], ctx)) => Quiet(f[n], ctx)
             /\ \A i \in I \cap 1..n :
                  Stops(s[i], ctx) /\ (\A j \in I \cap 1..(i - 1) : ~Stops(s[j], ctx))
                    => Serving(f[n], ctx, s[i])
           Bad == {n \in 0..Len(s) : ~OK(n)}
<1>1. Len(s) \in Nat /\ DOMAIN s = 1..Len(s)
  OBVIOUS
<1>2. KeptTo(f, s, I, Len(s))
  BY <1>1, KeptExists
<1>3. Kept(s, I) = f[Len(s)]
  BY DEF Kept, KeptTo
<1>4. \A n \in 0..Len(s) : f[n] = IF n = 0 THEN <<>>
                                  ELSE IF n \in I THEN Append(f[n - 1], s[n]) ELSE f[n - 1]
  BY <1>2 DEF KeptTo
<1> HIDE DEF f
<1>5. Bad = {}
  <2> SUFFICES ASSUME Bad # {} PROVE FALSE
    OBVIOUS
  <2>1. PICK n \in Bad : \A m \in Bad : n <= m
    <3>1. Bad \subseteq Nat
      OBVIOUS
    <3> HIDE DEF Bad
    <3> QED
      BY <3>1, MinOfNats
  <2>2. n \in 0..Len(s) /\ ~OK(n)
    OBVIOUS
  <2>3. OK(0)
    <3>1. f[0] = <<>> /\ <<>> \in Seq(K) /\ DOMAIN <<>> = {}
      BY <1>1, <1>4
    <3> QED
      BY <3>1 DEF Quiet
  <2>4. n - 1 \in 0..Len(s) /\ n \in 1..Len(s) /\ n - 1 \notin Bad
    <3> HIDE DEF OK
    <3>1. n # 0
      BY <2>2, <2>3
    <3>2. n - 1 \in 0..Len(s) /\ n \in 1..Len(s) /\ ~(n <= n - 1)
      BY <1>1, <2>2, <3>1
    <3> QED
      BY <2>1, <3>2
  <2>5. OK(n - 1)
    BY <2>4
  <2> HIDE DEF Bad, K
  <2>6. \A i : i \in 1..n <=> i = n \/ i \in 1..(n - 1)
    BY <2>4, <1>1
  <2>7. CASE n \notin I
    <3>1. f[n] = f[n - 1]
      BY <1>4, <2>2, <2>4, <2>7
    <3> QED
      BY <2>2, <2>5, <2>6, <2>7, <3>1
  <2>8. CASE n \in I
    <3> DEFINE one == <<s[n]>>
    <3>1. s[n] \in K
      BY <1>1, <2>4, <2>8 DEF K
    <3>2. f[n] = f[n - 1] \o one /\ one \in Seq(K)
      <4>1. f[n] = Append(f[n - 1], s[n])
        <5>1. n # 0 /\ n \in 0..Len(s)
          BY <1>1, <2>4
        <5> HIDE DEF OK
        <5> QED
          BY <1>4, <2>8, <5>1, Zenon
      <4> QED
        BY <2>5, <3>1, <4>1
    <3>3. /\ Stops(s[n], ctx) => Serving(one, ctx, s[n])
          /\ ~Stops(s[n], ctx) => Quiet(one, ctx)
      BY DEF Serving, Quiet
    <3>4. f[n] \in Seq(K)
      BY <2>5, <3>2, Joined
    <3>5. (\A i \in I \cap 1..n : ~Stops(s[i], ctx)) => Quiet(f[n], ctx)
      BY <2>5, <2>6, <2>8, <3>2, <3>3, Joined
    <3>6. ASSUME NEW i \in I \cap 1..n, Stops(s[i], ctx),
                 \A j \in I \cap 1..(i - 1) : ~Stops(s[j], ctx)
          PROVE  Serving(f[n], ctx, s[i])
      <4>1. CASE i = n
        BY <2>5, <3>2, <3>3, <3>6, <4>1, Joined
      <4>2. CASE i \in 1..(n - 1)
        BY <2>5, <3>2, <3>6, <4>2, Joined
      <4> QED
        BY <2>6, <4>1, <4>2
    <3> QED
      BY <2>2, <3>4, <3>5, <3>6
  <2> QED
    BY <2>7, <2>8
<1>6. OK(Len(s))
  BY <1>1, <1>5
<1> QED
  BY <1>1, <1>3, <1>6

FlatTo(f, parts, n) ==
    f = [i \in 1..n |-> IF i = 1 THEN parts[i] ELSE f[i - 1] \o parts[i]]

LEMMA FlatExists ==
    ASSUME NEW parts, NEW n \in Nat
    PROVE  \E f : FlatTo(f, parts, n)
<1> DEFINE Bad == {m \in Nat : ~\E f : FlatTo(f, parts, m)}
<1>1. SUFFICES ASSUME Bad # {} PROVE FALSE
  OBVIOUS
<1>2. PICK k \in Bad : \A m \in Bad : k <= m
  <2>1. Bad \subseteq Nat
    OBVIOUS
  <2> HIDE DEF Bad
  <2> QED
    BY <1>1, <2>1, MinOfNats
<1>3. k \in Nat /\ ~\E f : FlatTo(f, parts, k)
  OBVIOUS
<1>4. k # 0
  <2> DEFINE g == [i \in 1..0 |-> <<>>]
  <2>1. FlatTo(g, parts, 0)
    BY DEF FlatTo
  <2> QED
    BY <1>3, <2>1
<1>5. k - 1 \in Nat /\ k - 1 \notin Bad
  BY <1>2, <1>3, <1>4
<1>6. PICK f : FlatTo(f, parts, k - 1)
  BY <1>5
<1> DEFINE last == IF k = 1 THEN parts[k] ELSE f[k - 1] \o parts[k]
           g == [i \in 1..k |-> IF i = k THEN last ELSE f[i]]
<1>7. \A i \in 1..(k - 1) : f[i] = IF i = 1 THEN parts[i] ELSE f[i - 1] \o parts[i]
  BY <1>6 DEF FlatTo
<1>8. \A i \in 1..k : g[i] = IF i = 1 THEN parts[i] ELSE g[i - 1] \o parts[i]
  <2>1. (\A i \in 1..(k - 1) : g[i] = f[i]) /\ g[k] = last
    <3> HIDE DEF last
    <3> QED
      BY <1>3, <1>4
  <2> HIDE DEF g
  <2>2. ASSUME NEW i \in 1..(k - 1)
        PROVE  g[i] = IF i = 1 THEN parts[i] ELSE g[i - 1] \o parts[i]
    <3>1. i # 1 => i - 1 \in 1..(k - 1)
      BY <1>3
    <3> QED
      BY <1>7, <2>1, <3>1
  <2>3. g[k] = IF k = 1 THEN parts[k] ELSE g[k - 1] \o parts[k]
    <3>1. k # 1 => k - 1 \in 1..(k - 1)
      BY <1>3, <1>4
    <3> QED
      BY <2>1, <3>1
  <2>4. \A i \in 1..k : i = k \/ i \in 1..(k - 1)
    BY <1>3
  <2> QED
    BY <2>2, <2>3, <2>4
<1>9. g = [i \in 1..k |-> g[i]]
  OBVIOUS
<1> HIDE DEF g
<1>10. FlatTo(g, parts, k)
  BY <1>8, <1>9 DEF FlatTo
<1> QED
  BY <1>3, <1>10

\* A list of lists serves a packet as its first part that does.
LEMMA FlatServes ==
    ASSUME NEW R, NEW parts \in Seq(Seq(R)), Len(parts) # 0, NEW ctx
    PROVE  /\ FlattenSeq(parts) \in Seq(R)
           /\ (\A i \in DOMAIN parts : Quiet(parts[i], ctx)) => Quiet(FlattenSeq(parts), ctx)
           /\ \A i \in DOMAIN parts : \A r :
                Serving(parts[i], ctx, r) /\ (\A j \in 1..(i - 1) : Quiet(parts[j], ctx))
                  => Serving(FlattenSeq(parts), ctx, r)
<1> DEFINE f == CHOOSE g : FlatTo(g, parts, Len(parts))
           OK(n) ==
             /\ f[n] \in Seq(R)
             /\ (\A i \in 1..n : Quiet(parts[i], ctx)) => Quiet(f[n], ctx)
             /\ \A i \in 1..n : \A r :
                  Serving(parts[i], ctx, r) /\ (\A j \in 1..(i - 1) : Quiet(parts[j], ctx))
                    => Serving(f[n], ctx, r)
           Bad == {n \in 1..Len(parts) : ~OK(n)}
<1>1. /\ Len(parts) \in Nat /\ DOMAIN parts = 1..Len(parts)
      /\ \A i \in 1..Len(parts) : parts[i] \in Seq(R)
  OBVIOUS
<1>2. FlatTo(f, parts, Len(parts))
  BY <1>1, FlatExists
<1>3. FlattenSeq(parts) = f[Len(parts)]
  BY DEF FlattenSeq, FlatTo
<1>4. \A i \in 1..Len(parts) : f[i] = IF i = 1 THEN parts[i] ELSE f[i - 1] \o parts[i]
  BY <1>2 DEF FlatTo
<1> HIDE DEF f
<1>5. Bad = {}
  <2> SUFFICES ASSUME Bad # {} PROVE FALSE
    OBVIOUS
  <2>1. PICK n \in Bad : \A m \in Bad : n <= m
    <3>1. Bad \subseteq Nat
      OBVIOUS
    <3> HIDE DEF Bad
    <3> QED
      BY <3>1, MinOfNats
  <2>2. n \in 1..Len(parts) /\ ~OK(n)
    OBVIOUS
  <2>3. CASE n = 1
    <3>1. f[n] = parts[n] /\ parts[n] \in Seq(R)
      BY <1>1, <1>4, <2>2, <2>3
    <3>2. n \in 1..n /\ \A i \in 1..n : i = n
      BY <2>3
    <3>3. (\A i \in 1..n : Quiet(parts[i], ctx)) => Quiet(f[n], ctx)
      BY <3>1, <3>2
    <3>4. \A i \in 1..n : \A r : Serving(parts[i], ctx, r) => Serving(f[n], ctx, r)
      BY <3>1, <3>2
    <3> QED
      BY <2>2, <3>1, <3>3, <3>4
  <2>4. CASE n # 1
    <3>1. n - 1 \in 1..Len(parts) /\ ~(n <= n - 1)
      BY <1>1, <2>2, <2>4
    <3>2. OK(n - 1)
      <4> HIDE DEF OK
      <4> QED
        BY <2>1, <3>1
    <3>3. f[n] = f[n - 1] \o parts[n] /\ parts[n] \in Seq(R)
      <4> HIDE DEF OK
      <4> QED
        BY <1>1, <1>4, <2>2, <2>4
    <3>4. \A i : i \in 1..n <=> i = n \/ i \in 1..(n - 1)
      BY <1>1, <2>2
    <3>5. f[n] \in Seq(R)
      BY <3>2, <3>3, Joined
    <3>6. ASSUME \A i \in 1..n : Quiet(parts[i], ctx)
          PROVE  Quiet(f[n], ctx)
      BY <3>2, <3>3, <3>4, <3>6, Joined
    <3>7. ASSUME NEW i \in 1..n, NEW r, Serving(parts[i], ctx, r),
                 \A j \in 1..(i - 1) : Quiet(parts[j], ctx)
          PROVE  Serving(f[n], ctx, r)
      <4> DEFINE a == f[n - 1]
                 b == parts[n]
      <4>1. CASE i = n
        <5>1. Quiet(a, ctx) /\ Serving(b, ctx, r)
          BY <3>2, <3>7, <4>1
        <5> HIDE DEF a, b
        <5> QED
          BY <3>2, <3>3, <5>1, Joined DEF a, b
      <4>2. CASE i \in 1..(n - 1)
        <5>1. Serving(a, ctx, r)
          BY <3>2, <3>7, <4>2
        <5> HIDE DEF a, b
        <5> QED
          BY <3>2, <3>3, <5>1, Joined DEF a, b
      <4> QED
        BY <3>4, <4>1, <4>2
    <3> QED
      BY <2>2, <3>5, <3>6, <3>7
  <2> QED
    BY <2>3, <2>4
<1>6. OK(Len(parts))
  <2>1. Len(parts) \in 1..Len(parts)
    BY <1>1
  <2>2. Len(parts) \notin Bad
    BY <1>5, Zenon
  <2> HIDE DEF OK
  <2> QED
    BY <2>1, <2>2
<1> QED
  BY <1>1, <1>3, <1>6

------------------------------------------------------------------------------
(* The rules of a policy that a save builds.                                 *)

LEMMA ThreeParts ==
    ASSUME NEW R, NEW a \in Seq(R), NEW b \in Seq(R), NEW c \in Seq(R), NEW ctx
    PROVE  /\ a \o b \o c \in Seq(R)
           /\ \A r : Serving(a, ctx, r) => Serving(a \o b \o c, ctx, r)
           /\ \A r : Quiet(a, ctx) /\ Serving(b, ctx, r) => Serving(a \o b \o c, ctx, r)
           /\ \A r : Quiet(a, ctx) /\ Quiet(b, ctx) /\ Serving(c, ctx, r)
                       => Serving(a \o b \o c, ctx, r)
           /\ Quiet(a, ctx) /\ Quiet(b, ctx) /\ Quiet(c, ctx) => Quiet(a \o b \o c, ctx)
<1> DEFINE d == a \o b
<1>1. /\ d \in Seq(R)
      /\ \A r : Serving(a, ctx, r) => Serving(d, ctx, r)
      /\ \A r : Quiet(a, ctx) /\ Serving(b, ctx, r) => Serving(d, ctx, r)
      /\ Quiet(a, ctx) /\ Quiet(b, ctx) => Quiet(d, ctx)
  BY Joined
<1> HIDE DEF d
<1>2. /\ d \o c \in Seq(R)
      /\ \A r : Serving(d, ctx, r) => Serving(d \o c, ctx, r)
      /\ \A r : Quiet(d, ctx) /\ Serving(c, ctx, r) => Serving(d \o c, ctx, r)
      /\ Quiet(d, ctx) /\ Quiet(c, ctx) => Quiet(d \o c, ctx)
  BY <1>1, Joined
<1>3. /\ d \o c \in Seq(R)
      /\ \A r : Serving(a, ctx, r) => Serving(d \o c, ctx, r)
      /\ \A r : Quiet(a, ctx) /\ Serving(b, ctx, r) => Serving(d \o c, ctx, r)
      /\ \A r : Quiet(a, ctx) /\ Quiet(b, ctx) /\ Serving(c, ctx, r) => Serving(d \o c, ctx, r)
      /\ Quiet(a, ctx) /\ Quiet(b, ctx) /\ Quiet(c, ctx) => Quiet(d \o c, ctx)
  BY <1>1, <1>2
<1> QED
  BY <1>3 DEF d

\* Everything a rule with a matcher can be in a built policy.
Made(base, page) ==
    {base.rules[i] : i \in WhenRules(base)}
      \cup {PhaseRule(base, page, phase) : phase \in Visible}
      \cup {OverrideRule(page, c[1], c[2]) :
              c \in {d \in Visible \X Intents : page.overrides[d[2]][d[1]] # None}}

Escalation(base, phase) == IF phase = "debug" THEN DebugEscalation(base) ELSE <<>>

\* Which packets stop at the row of a phase, and at the cell of an intent.
LEMMA RowMatches ==
    ASSUME NEW base, NEW page, NEW phase, NEW ctx
    PROVE  LET row == PhaseRule(base, page, phase) IN
           /\ Stops(row, ctx) <=>
                /\ ctx.phase = phase
                /\ phase = "codegen" /\ TypedRules(base) # {} =>
                     ctx.task_type \in CodegenTaskTypes(base)
           /\ "when" \in DOMAIN row /\ "default" \notin DOMAIN row
           /\ row.use = page.routing[phase]
<1> DEFINE row == PhaseRule(base, page, phase)
           typed == phase = "codegen" /\ TypedRules(base) # {}
<1>1. DOMAIN row = {"when", "use"} /\ row.use = page.routing[phase]
  BY DEF PhaseRule
<1>2. row.when.phase = {phase} /\ "phase" \in DOMAIN row.when
  BY DEF PhaseRule
<1>3. typed => DOMAIN row.when = {"phase", "task_type"} /\ row.when.task_type = CodegenTaskTypes(base)
  BY DEF PhaseRule
<1>4. ~typed => DOMAIN row.when = {"phase"}
  BY DEF PhaseRule
<1> HIDE DEF row
<1>5. Stops(row, ctx) <=> Matches(row.when, ctx)
  BY <1>1 DEF Stops
<1>6. CASE typed
  <2>1. {"phase", "task_type", "module", "intent"} \cap DOMAIN row.when = {"phase", "task_type"}
        /\ "retry_count" \notin DOMAIN row.when
    BY <1>3, <1>6
  <2>2. Stops(row, ctx) <=> ctx.phase = phase /\ ctx.task_type \in CodegenTaskTypes(base)
    BY <1>2, <1>3, <1>5, <1>6, <2>1 DEF Matches
  <2> QED
    BY <1>1, <1>6, <2>2 DEF row
<1>7. CASE ~typed
  <2>1. {"phase", "task_type", "module", "intent"} \cap DOMAIN row.when = {"phase"}
        /\ "retry_count" \notin DOMAIN row.when
    BY <1>4, <1>7
  <2>2. Stops(row, ctx) <=> ctx.phase = phase
    BY <1>2, <1>5, <2>1 DEF Matches
  <2> QED
    BY <1>1, <1>7, <2>2 DEF row
<1> QED
  BY <1>6, <1>7

LEMMA CellMatches ==
    ASSUME NEW page, NEW phase, NEW i, NEW ctx
    PROVE  LET cell == OverrideRule(page, phase, i) IN
           /\ Stops(cell, ctx) <=> ctx.phase = phase /\ ctx.intent = i
           /\ "when" \in DOMAIN cell /\ "default" \notin DOMAIN cell
           /\ cell.use = page.overrides[i][phase]
<1> DEFINE cell == OverrideRule(page, phase, i)
<1>1. DOMAIN cell = {"when", "use"} /\ cell.use = page.overrides[i][phase]
  BY DEF OverrideRule
<1>2. DOMAIN cell.when = {"phase", "intent"} /\ cell.when.phase = {phase} /\ cell.when.intent = {i}
  BY DEF OverrideRule
<1> HIDE DEF cell
<1>3. Stops(cell, ctx) <=> ctx.phase = phase /\ ctx.intent = i
  <2>1. Stops(cell, ctx) <=> Matches(cell.when, ctx)
    BY <1>1 DEF Stops
  <2>2. {"phase", "task_type", "module", "intent"} \cap DOMAIN cell.when = {"phase", "intent"}
        /\ "retry_count" \notin DOMAIN cell.when
    BY <1>2
  <2> QED
    BY <1>2, <2>1, <2>2 DEF Matches
<1> QED
  BY <1>1, <1>3 DEF cell

\* The escalation of a base's list of rules.
LEMMA EscalationOf ==
    ASSUME NEW base, IsList(base.rules), NEW page, NEW phase \in Visible, NEW ctx
    PROVE  /\ Escalation(base, phase) \in Seq(Made(base, page))
           /\ Shaped(base) /\ ctx.phase # phase => Quiet(Escalation(base, phase), ctx)
           /\ Shaped(base) /\ ~Escalates(base, ctx) => Quiet(Escalation(base, phase), ctx)
           /\ \A i \in DebugEscalations(base) :
                phase = "debug" /\ Shaped(base) /\ Matches(base.rules[i].when, ctx) =>
                  Serving(Escalation(base, phase), ctx, base.rules[i])
<1> DEFINE D == DebugEscalations(base)
           first == base.rules[Min(D)]
<1>1. DOMAIN base.rules \subseteq Nat /\ D \subseteq DOMAIN base.rules
  BY DEF IsList, DebugEscalations, RulesFor, RulesWith, WhenRules
<1>2. CASE phase = "debug" /\ D # {}
  <2>1. Min(D) \in D
    BY <1>1, <1>2, MinOfNats
  <2>2. Escalation(base, phase) = <<first>>
    BY <1>2 DEF Escalation, DebugEscalation, FirstOf
  <2>3. first \in Made(base, page)
    BY <2>1 DEF Made, DebugEscalations, RulesFor, RulesWith
  <2>4. "when" \in DOMAIN first /\ "phase" \in DOMAIN first.when
    BY <2>1 DEF DebugEscalations, RulesFor, RulesWith, WhenRules
  <2>5. Stops(first, ctx) => Matches(first.when, ctx)
    BY <2>4 DEF Stops
  <2>6. ASSUME Shaped(base)
        PROVE  /\ first.when.phase = {"debug"} /\ "default" \notin DOMAIN first
               /\ \A i \in D : base.rules[i] = first
    <3>1. "retry_count" \in DOMAIN first.when /\ "debug" \in first.when.phase
      BY <2>1 DEF DebugEscalations, RulesFor, RulesWith
    <3>2. first.when.phase = {"debug"}
      BY <2>1, <2>6, <3>1, ConsoleAssumption
        DEF Shaped, DebugEscalations, RulesFor, RulesWith, WhenRules
    <3>3. DOMAIN first = {"when", "use"}
      BY <1>1, <2>1, <2>4, <2>6 DEF Shaped, WellFormed
    <3>4. \A i \in D : i = Min(D)
      BY <2>1, <2>6 DEF Shaped, AtMostOne
    <3> QED
      BY <3>2, <3>3, <3>4
  <2> HIDE DEF first, D
  <2>7. Shaped(base) /\ ctx.phase # phase => ~Stops(first, ctx)
    <3>1. Matches(first.when, ctx) => ctx.phase \in first.when.phase
      BY <2>4 DEF Matches
    <3> QED
      BY <1>2, <2>5, <2>6, <3>1
  <2>8. ~Escalates(base, ctx) => ~Stops(first, ctx)
    BY <2>1, <2>5 DEF Escalates, first, D
  <2>9. \A i \in D : Shaped(base) /\ Matches(base.rules[i].when, ctx)
                       => base.rules[i] = first /\ Stops(first, ctx)
    BY <2>6 DEF Stops
  <2>10. /\ <<first>> \in Seq(Made(base, page)) /\ DOMAIN <<first>> = {1} /\ <<first>>[1] = first
    BY <2>3
  <2>11. ~Stops(first, ctx) => Quiet(<<first>>, ctx)
    BY <2>10 DEF Quiet
  <2>12. Stops(first, ctx) => Serving(<<first>>, ctx, first)
    BY <2>10 DEF Serving
  <2> QED
    BY <2>2, <2>7, <2>8, <2>9, <2>10, <2>11, <2>12 DEF D
<1>3. CASE ~(phase = "debug" /\ D # {})
  <2>1. Escalation(base, phase) = <<>>
    BY <1>3 DEF Escalation, DebugEscalation, FirstOf
  <2>2. <<>> \in Seq(Made(base, page)) /\ Quiet(<<>>, ctx)
    BY DEF Quiet
  <2> QED
    BY <1>3, <2>1, <2>2
<1> QED
  BY <1>2, <1>3

\* The overrides of a phase on a page.
LEMMA OverridesOf ==
    ASSUME NEW base, NEW page, NEW phase \in Visible, NEW ctx
    PROVE  /\ OverrideRules(page, phase) \in Seq(Made(base, page))
           /\ ctx.phase # phase \/ ~Overridden(page, ctx) => Quiet(OverrideRules(page, phase), ctx)
           /\ ctx.phase = phase /\ Overridden(page, ctx) =>
                Serving(OverrideRules(page, phase), ctx, OverrideRule(page, phase, ctx.intent))
<1> DEFINE cells == [n \in DOMAIN INTENTS |-> OverrideRule(page, phase, INTENTS[n])]
           I == {n \in DOMAIN INTENTS : page.overrides[INTENTS[n]][phase] # None}
           C == {OverrideRule(page, phase, i) : i \in Intents}
           K == {cells[n] : n \in DOMAIN cells \cap I}
<1>1. /\ Len(INTENTS) \in Nat /\ DOMAIN INTENTS = 1..Len(INTENTS)
      /\ \A n \in DOMAIN INTENTS : INTENTS[n] \in Intents
  BY ConsoleAssumption
<1>2. cells \in Seq(C) /\ DOMAIN cells = DOMAIN INTENTS
  <2>1. \A n \in 1..Len(INTENTS) : OverrideRule(page, phase, INTENTS[n]) \in C
    BY <1>1
  <2> HIDE DEF C
  <2> QED
    BY <1>1, <2>1, IsASeq
<1>3. /\ Kept(cells, I) \in Seq(K)
      /\ (\A n \in DOMAIN cells \cap I : ~Stops(cells[n], ctx)) => Quiet(Kept(cells, I), ctx)
      /\ \A n \in DOMAIN cells \cap I :
           Stops(cells[n], ctx) /\ (\A j \in I \cap 1..(n - 1) : ~Stops(cells[j], ctx))
             => Serving(Kept(cells, I), ctx, cells[n])
  <2> HIDE DEF cells, I, C
  <2> QED
    BY <1>2, KeptServes
<1>4. K \subseteq Made(base, page)
  <2> SUFFICES ASSUME NEW n \in DOMAIN INTENTS, page.overrides[INTENTS[n]][phase] # None
               PROVE  OverrideRule(page, phase, INTENTS[n]) \in Made(base, page)
    BY <1>2
  <2> DEFINE c == <<phase, INTENTS[n]>>
  <2>1. c \in {d \in Visible \X Intents : page.overrides[d[2]][d[1]] # None}
        /\ c[1] = phase /\ c[2] = INTENTS[n]
    BY <1>1
  <2> HIDE DEF c
  <2> QED
    BY <2>1 DEF Made
<1>5. Kept(cells, I) \in Seq(Made(base, page))
  <2> HIDE DEF cells, I, K
  <2> QED
    BY <1>3, <1>4
<1>6. \A n \in DOMAIN INTENTS :
        Stops(cells[n], ctx) <=> ctx.phase = phase /\ ctx.intent = INTENTS[n]
  <2> TAKE n \in DOMAIN INTENTS
  <2>1. cells[n] = OverrideRule(page, phase, INTENTS[n])
    OBVIOUS
  <2>2. Stops(OverrideRule(page, phase, INTENTS[n]), ctx) <=>
          ctx.phase = phase /\ ctx.intent = INTENTS[n]
    BY CellMatches
  <2> QED
    BY <2>1, <2>2
<1>7. ASSUME ctx.phase # phase \/ ~Overridden(page, ctx)
      PROVE  Quiet(Kept(cells, I), ctx)
  <2>1. \A n \in DOMAIN cells \cap I : ~Stops(cells[n], ctx)
    BY <1>1, <1>2, <1>6, <1>7 DEF Overridden
  <2> QED
    BY <1>3, <2>1
<1>8. ASSUME ctx.phase = phase, Overridden(page, ctx)
      PROVE  Serving(Kept(cells, I), ctx, OverrideRule(page, phase, ctx.intent))
  <2> DEFINE S == {n \in DOMAIN INTENTS : INTENTS[n] = ctx.intent}
  <2>1. S \subseteq Nat /\ S # {}
    <3>1. ctx.intent \in Intents
      BY <1>8 DEF Overridden
    <3> QED
      BY <1>1, <3>1 DEF Intents, Range
  <2>2. PICK n \in S : \A m \in S : n <= m
    <3> HIDE DEF S
    <3> QED
      BY <2>1, MinOfNats
  <2>3. n \in DOMAIN cells \cap I /\ cells[n] = OverrideRule(page, phase, ctx.intent)
    BY <1>2, <1>8 DEF Overridden
  <2>4. \A j \in I \cap 1..(n - 1) : ~Stops(cells[j], ctx)
    <3> SUFFICES ASSUME NEW j \in I \cap 1..(n - 1), Stops(cells[j], ctx)
                 PROVE  FALSE
      OBVIOUS
    <3>1. j \in DOMAIN INTENTS /\ INTENTS[j] = ctx.intent
      BY <1>6
    <3>2. j \in S /\ n \in Nat /\ j \in 1..(n - 1)
      BY <1>1, <3>1
    <3> QED
      BY <2>2, <3>2
  <2>5. Stops(cells[n], ctx)
    BY <1>6, <1>8
  <2> HIDE DEF cells, I
  <2> QED
    BY <1>3, <2>3, <2>4, <2>5
<1>9. OverrideRules(page, phase) = Kept(cells, I)
  BY DEF OverrideRules
<1> HIDE DEF cells, I
<1> QED
  BY <1>5, <1>7, <1>8, <1>9

\* The rules for one phase.
LEMMA PhasePart ==
    ASSUME NEW base, IsList(base.rules), NEW page, NEW phase \in Visible, NEW ctx
    PROVE  /\ RulesOfPhase(base, page, phase) \in Seq(Made(base, page))
           /\ Shaped(base) /\ ctx.phase # phase => Quiet(RulesOfPhase(base, page, phase), ctx)
           /\ \A i \in DebugEscalations(base) :
                phase = "debug" /\ Shaped(base) /\ Matches(base.rules[i].when, ctx) =>
                  Serving(RulesOfPhase(base, page, phase), ctx, base.rules[i])
           /\ Shaped(base) /\ ~Escalates(base, ctx) /\ ctx.phase = phase =>
                /\ Overridden(page, ctx) =>
                     Serving(RulesOfPhase(base, page, phase), ctx,
                             OverrideRule(page, phase, ctx.intent))
                /\ ~Overridden(page, ctx) /\ HasRow(base, ctx) =>
                     Serving(RulesOfPhase(base, page, phase), ctx, PhaseRule(base, page, phase))
                /\ ~Overridden(page, ctx) /\ ~HasRow(base, ctx) =>
                     Quiet(RulesOfPhase(base, page, phase), ctx)
<1> DEFINE R == Made(base, page)
           a == Escalation(base, phase)
           b == OverrideRules(page, phase)
           c == <<PhaseRule(base, page, phase)>>
<1>1. RulesOfPhase(base, page, phase) = a \o b \o c
  BY DEF RulesOfPhase, Escalation
<1>2. a \in Seq(R) /\ b \in Seq(R)
  BY EscalationOf, OverridesOf
<1>3. c \in Seq(R) /\ DOMAIN c = {1} /\ c[1] = PhaseRule(base, page, phase)
  BY DEF Made
<1>4. /\ Stops(c[1], ctx) => Serving(c, ctx, c[1])
      /\ ~Stops(c[1], ctx) => Quiet(c, ctx)
  BY <1>3 DEF Serving, Quiet
<1>5. Stops(c[1], ctx) <=> ctx.phase = phase /\ HasRow(base, ctx)
  <2> DEFINE row == PhaseRule(base, page, phase)
  <2>1. Stops(row, ctx) <=>
          /\ ctx.phase = phase
          /\ phase = "codegen" /\ TypedRules(base) # {} =>
               ctx.task_type \in CodegenTaskTypes(base)
    BY RowMatches
  <2> HIDE DEF row
  <2>2. Stops(row, ctx) <=> ctx.phase = phase /\ HasRow(base, ctx)
    BY <2>1 DEF HasRow
  <2> QED
    BY <1>3, <2>2 DEF row
<1> HIDE DEF R, c
<1>6. /\ a \o b \o c \in Seq(R)
      /\ \A r : Serving(a, ctx, r) => Serving(a \o b \o c, ctx, r)
      /\ \A r : Quiet(a, ctx) /\ Serving(b, ctx, r) => Serving(a \o b \o c, ctx, r)
      /\ \A r : Quiet(a, ctx) /\ Quiet(b, ctx) /\ Serving(c, ctx, r)
                  => Serving(a \o b \o c, ctx, r)
      /\ Quiet(a, ctx) /\ Quiet(b, ctx) /\ Quiet(c, ctx) => Quiet(a \o b \o c, ctx)
  <2> HIDE DEF a, b
  <2> QED
    BY <1>2, <1>3, ThreeParts
<1>7. ASSUME Shaped(base), ctx.phase # phase
      PROVE  Quiet(a \o b \o c, ctx)
  BY <1>4, <1>5, <1>6, <1>7, EscalationOf, OverridesOf
<1>8. ASSUME NEW i \in DebugEscalations(base), phase = "debug", Shaped(base),
             Matches(base.rules[i].when, ctx)
      PROVE  Serving(a \o b \o c, ctx, base.rules[i])
  BY <1>6, <1>8, EscalationOf
<1>9. ASSUME Shaped(base), ~Escalates(base, ctx), ctx.phase = phase
      PROVE  /\ Overridden(page, ctx) =>
                  Serving(a \o b \o c, ctx, OverrideRule(page, phase, ctx.intent))
             /\ ~Overridden(page, ctx) /\ HasRow(base, ctx) =>
                  Serving(a \o b \o c, ctx, PhaseRule(base, page, phase))
             /\ ~Overridden(page, ctx) /\ ~HasRow(base, ctx) => Quiet(a \o b \o c, ctx)
  <2>1. Quiet(a, ctx)
    BY <1>9, EscalationOf
  <2>2. /\ Overridden(page, ctx) => Serving(b, ctx, OverrideRule(page, phase, ctx.intent))
        /\ ~Overridden(page, ctx) => Quiet(b, ctx)
    BY <1>9, OverridesOf
  <2> QED
    BY <1>3, <1>4, <1>5, <1>6, <1>9, <2>1, <2>2
<1> HIDE DEF a, b
<1> QED
  BY <1>1, <1>6, <1>7, <1>8, <1>9 DEF R

PartsOf(base, page) == [n \in DOMAIN PHASES |-> RulesOfPhase(base, page, PHASES[n])]

\* The rules for all phases.
LEMMA PhaseParts ==
    ASSUME NEW base, IsList(base.rules), NEW page, NEW ctx
    PROVE  LET flat == FlattenSeq(PartsOf(base, page)) IN
           /\ flat \in Seq(Made(base, page))
           /\ Shaped(base) /\ ctx.phase \notin Visible => Quiet(flat, ctx)
           /\ Shaped(base) /\ ctx.phase \in Visible =>
                /\ \A r : Serving(RulesOfPhase(base, page, ctx.phase), ctx, r)
                            => Serving(flat, ctx, r)
                /\ Quiet(RulesOfPhase(base, page, ctx.phase), ctx) => Quiet(flat, ctx)
<1> DEFINE R == Made(base, page)
           parts == PartsOf(base, page)
           flat == FlattenSeq(parts)
<1>1. /\ Len(PHASES) \in Nat /\ DOMAIN PHASES = 1..Len(PHASES)
      /\ \A n \in DOMAIN PHASES : PHASES[n] \in Visible
      /\ Len(PHASES) # 0
  <2>1. DOMAIN PHASES # {}
    BY ConsoleAssumption DEF Visible, Range
  <2> QED
    BY <2>1, ConsoleAssumption
<1>2. /\ DOMAIN parts = 1..Len(PHASES)
      /\ \A n \in 1..Len(PHASES) : parts[n] = RulesOfPhase(base, page, PHASES[n])
  BY <1>1 DEF PartsOf
<1>3. \A n \in 1..Len(PHASES) : parts[n] \in Seq(R)
  <2> TAKE n \in 1..Len(PHASES)
  <2>1. RulesOfPhase(base, page, PHASES[n]) \in Seq(Made(base, page))
    BY <1>1, PhasePart
  <2> QED
    BY <1>2, <2>1
<1>4. parts \in Seq(Seq(R)) /\ Len(parts) # 0
  <2> DEFINE S == Seq(R)
  <2>1. [n \in 1..Len(PHASES) |-> RulesOfPhase(base, page, PHASES[n])] \in Seq(S)
    <3>1. \A n \in 1..Len(PHASES) : RulesOfPhase(base, page, PHASES[n]) \in S
      BY <1>2, <1>3
    <3> HIDE DEF S
    <3> QED
      BY <1>1, <3>1, IsASeq
  <2>2. parts \in Seq(S)
    BY <1>1, <2>1 DEF PartsOf
  <2>3. Len(parts) # 0
    <3> HIDE DEF S, parts
    <3> QED
      BY <1>1, <1>2, <2>2
  <2> QED
    BY <2>2, <2>3
<1> HIDE DEF R, parts
<1>5. /\ flat \in Seq(R)
      /\ (\A n \in DOMAIN parts : Quiet(parts[n], ctx)) => Quiet(flat, ctx)
      /\ \A n \in DOMAIN parts : \A r :
           Serving(parts[n], ctx, r) /\ (\A j \in 1..(n - 1) : Quiet(parts[j], ctx))
             => Serving(flat, ctx, r)
  BY <1>4, FlatServes
<1> HIDE DEF flat
<1>6. ASSUME Shaped(base), NEW n \in 1..Len(PHASES), PHASES[n] # ctx.phase
      PROVE  Quiet(parts[n], ctx)
  <2>1. Quiet(RulesOfPhase(base, page, PHASES[n]), ctx)
    BY <1>1, <1>6, PhasePart
  <2> QED
    BY <1>2, <2>1
<1>7. ASSUME Shaped(base), ctx.phase \notin Visible
      PROVE  Quiet(flat, ctx)
  BY <1>1, <1>2, <1>5, <1>6, <1>7
<1>8. ASSUME Shaped(base), ctx.phase \in Visible,
             Quiet(RulesOfPhase(base, page, ctx.phase), ctx)
      PROVE  Quiet(flat, ctx)
  <2>1. \A n \in DOMAIN parts : Quiet(parts[n], ctx)
    BY <1>2, <1>6, <1>8
  <2> QED
    BY <1>5, <2>1
<1>9. ASSUME Shaped(base), ctx.phase \in Visible, NEW r,
             Serving(RulesOfPhase(base, page, ctx.phase), ctx, r)
      PROVE  Serving(flat, ctx, r)
  <2> DEFINE S == {n \in DOMAIN PHASES : PHASES[n] = ctx.phase}
  <2>1. S \subseteq Nat /\ S # {}
    BY <1>1, <1>9 DEF Visible, Range
  <2>2. PICK n \in S : \A m \in S : n <= m
    <3> HIDE DEF S
    <3> QED
      BY <2>1, MinOfNats
  <2>3. n \in DOMAIN parts /\ Serving(parts[n], ctx, r)
    BY <1>1, <1>2, <1>9
  <2>4. \A j \in 1..(n - 1) : Quiet(parts[j], ctx)
    <3> TAKE j \in 1..(n - 1)
    <3>1. n \in 1..Len(PHASES) /\ j \in 1..Len(PHASES) /\ ~(n <= j)
      BY <1>1
    <3>2. PHASES[j] # ctx.phase
      BY <1>1, <2>2, <3>1
    <3> QED
      BY <1>6, <1>9, <3>1, <3>2
  <2> QED
    BY <1>5, <2>3, <2>4
<1> QED
  BY <1>5, <1>7, <1>8, <1>9 DEF flat, parts, R

\* The rules for phases that the page does not show.
LEMMA ExtraPart ==
    ASSUME NEW base, IsList(base.rules), NEW page, NEW ctx
    PROVE  LET extra == ExtraPhaseRules(base) IN
           /\ extra \in Seq(Made(base, page))
           /\ ctx.phase \in Visible => Quiet(extra, ctx)
           /\ Shaped(base) /\ ctx.phase \notin Visible =>
                /\ \A r : Serving(base.rules, ctx, r) => Serving(extra, ctx, r)
                /\ Quiet(base.rules, ctx) => Quiet(extra, ctx)
<1> DEFINE s == base.rules
           I == {i \in RulesWith(base, {"phase"}) \ DebugEscalations(base) :
                   s[i].when.phase \cap Visible = {}}
           K == {s[i] : i \in DOMAIN s \cap I}
           extra == Kept(s, I)
<1>1. s \in Seq(Range(s)) /\ I \subseteq DOMAIN s /\ DOMAIN s = 1..Len(s) /\ Len(s) \in Nat
  BY DEF IsList, RulesWith, WhenRules
<1>2. /\ extra \in Seq(K)
      /\ (\A i \in DOMAIN s \cap I : ~Stops(s[i], ctx)) => Quiet(extra, ctx)
      /\ \A i \in DOMAIN s \cap I :
           Stops(s[i], ctx) /\ (\A j \in I \cap 1..(i - 1) : ~Stops(s[j], ctx))
             => Serving(extra, ctx, s[i])
  <2> HIDE DEF s, I
  <2> QED
    BY <1>1, KeptServes
<1>3. K \subseteq Made(base, page)
  BY DEF Made, RulesWith
<1>4. extra \in Seq(Made(base, page))
  <2> HIDE DEF K, extra
  <2> QED
    BY <1>2, <1>3
<1>5. \A i \in I : Stops(s[i], ctx) => ctx.phase \in s[i].when.phase /\ ctx.phase \notin Visible
  <2> TAKE i \in I
  <2>1. "when" \in DOMAIN s[i] /\ "phase" \in DOMAIN s[i].when /\ s[i].when.phase \cap Visible = {}
    BY DEF RulesWith, WhenRules
  <2>2. Stops(s[i], ctx) => ctx.phase \in s[i].when.phase
    BY <2>1 DEF Stops, Matches
  <2> QED
    BY <2>1, <2>2
<1>6. ctx.phase \in Visible => Quiet(extra, ctx)
  BY <1>2, <1>5
<1>7. ASSUME Shaped(base), ctx.phase \notin Visible, NEW i \in DOMAIN s, Stops(s[i], ctx)
      PROVE  i \in I
  <2>1. i \in WhenRules(base)
    BY <1>7 DEF Shaped, WellFormed, Stops, WhenRules
  <2>2. i \in RulesWith(base, {"phase"}) /\
          (s[i].when.phase \cap Visible = {} \/ s[i].when.phase \subseteq Visible)
    BY <1>7, <2>1 DEF Shaped
  <2>3. ctx.phase \in s[i].when.phase
    BY <1>7, <2>1, <2>2 DEF Stops, Matches, RulesWith, WhenRules
  <2>4. s[i].when.phase \cap Visible = {}
    BY <1>7, <2>2, <2>3
  <2>5. i \notin DebugEscalations(base)
    BY <2>4, ConsoleAssumption DEF DebugEscalations, RulesFor
  <2> QED
    BY <2>2, <2>4, <2>5
<1>8. ASSUME Shaped(base), ctx.phase \notin Visible, Quiet(s, ctx)
      PROVE  Quiet(extra, ctx)
  BY <1>1, <1>2, <1>8 DEF Quiet
<1>9. ASSUME Shaped(base), ctx.phase \notin Visible, NEW r, Serving(s, ctx, r)
      PROVE  Serving(extra, ctx, r)
  <2>1. PICK i \in DOMAIN s :
          s[i] = r /\ Stops(r, ctx) /\ \A j \in 1..(i - 1) : ~Stops(s[j], ctx)
    BY <1>9 DEF Serving
  <2>2. i \in DOMAIN s \cap I
    BY <1>7, <1>9, <2>1
  <2> HIDE DEF s, I, extra
  <2> QED
    BY <1>2, <2>1, <2>2
<1>10. ExtraPhaseRules(base) = extra
  BY DEF ExtraPhaseRules
<1> HIDE DEF extra
<1> QED
  BY <1>4, <1>6, <1>8, <1>9, <1>10

\* The rule that a built policy ends with.
LEMMA LastPart ==
    ASSUME NEW base, IsList(base.rules), NEW page, NEW ctx
    PROVE  /\ DOMAIN Fallback(base, page) = {1} /\ Len(Fallback(base, page)) = 1
           /\ Fallback(base, page) \in Seq({Fallback(base, page)[1]})
           /\ "default" \in DOMAIN Fallback(base, page)[1]
           /\ Quiet(Fallback(base, page), ctx)
           /\ DefaultRules(base) # {} =>
                /\ Min(DefaultRules(base)) \in DefaultRules(base)
                /\ Fallback(base, page)[1] = base.rules[Min(DefaultRules(base))]
           /\ DefaultRules(base) = {} =>
                Fallback(base, page)[1] = [default |-> SomeModel(page.models)]
<1>1. DefaultRules(base) \subseteq Nat
  BY DEF IsList, DefaultRules
<1>2. CASE DefaultRules(base) # {}
  <2> DEFINE last == base.rules[Min(DefaultRules(base))]
  <2>1. Min(DefaultRules(base)) \in DefaultRules(base)
    BY <1>1, <1>2, MinOfNats
  <2>2. "default" \in DOMAIN last
    BY <2>1 DEF DefaultRules
  <2>3. Fallback(base, page) = <<last>>
    BY <1>2 DEF Fallback, FirstOf
  <2> HIDE DEF last
  <2> QED
    BY <1>2, <2>1, <2>2, <2>3 DEF Quiet, Stops, last
<1>3. CASE DefaultRules(base) = {}
  <2> DEFINE last == [default |-> SomeModel(page.models)]
  <2>1. Fallback(base, page) = <<last>> /\ "default" \in DOMAIN last
    BY <1>3 DEF Fallback
  <2> HIDE DEF last
  <2> QED
    BY <1>3, <2>1 DEF Quiet, Stops, last
<1> QED
  BY <1>2, <1>3

\* What a built policy does with a packet, in terms of its parts.
LEMMA Built ==
    ASSUME NEW base, IsList(base.rules), NEW page, NEW ctx
    PROVE  LET rules == BuiltRules(base, page)
               last  == Fallback(base, page)[1]
           IN
           /\ rules \in Seq(Made(base, page) \cup {last}) /\ rules # <<>>
           /\ \E i \in DOMAIN rules : rules[i] = last
           /\ Shaped(base) /\ ctx.phase \in Visible =>
                /\ \A r : Serving(RulesOfPhase(base, page, ctx.phase), ctx, r)
                            => Serving(rules, ctx, r)
                /\ Quiet(RulesOfPhase(base, page, ctx.phase), ctx) => Quiet(rules, ctx)
           /\ Shaped(base) /\ ctx.phase \notin Visible =>
                /\ \A r : Serving(base.rules, ctx, r) => Serving(rules, ctx, r)
                /\ Quiet(base.rules, ctx) => Quiet(rules, ctx)
<1> DEFINE a == FlattenSeq(PartsOf(base, page))
           b == ExtraPhaseRules(base)
           c == Fallback(base, page)
           R == Made(base, page) \cup {c[1]}
<1>1. BuiltRules(base, page) = a \o b \o c
  BY DEF BuiltRules, PartsOf
<1>2. a \in Seq(Made(base, page)) /\ b \in Seq(Made(base, page))
  BY PhaseParts, ExtraPart
<1>3. c \in Seq({c[1]}) /\ DOMAIN c = {1} /\ Len(c) = 1 /\ Quiet(c, ctx)
  BY LastPart
<1>4. /\ Shaped(base) /\ ctx.phase \notin Visible => Quiet(a, ctx)
      /\ Shaped(base) /\ ctx.phase \in Visible =>
           /\ \A r : Serving(RulesOfPhase(base, page, ctx.phase), ctx, r) => Serving(a, ctx, r)
           /\ Quiet(RulesOfPhase(base, page, ctx.phase), ctx) => Quiet(a, ctx)
  BY PhaseParts
<1>5. /\ ctx.phase \in Visible => Quiet(b, ctx)
      /\ Shaped(base) /\ ctx.phase \notin Visible =>
           /\ \A r : Serving(base.rules, ctx, r) => Serving(b, ctx, r)
           /\ Quiet(base.rules, ctx) => Quiet(b, ctx)
  BY ExtraPart
<1> HIDE DEF a, b, c
<1>6. a \in Seq(R) /\ b \in Seq(R) /\ c \in Seq(R)
  <2> DEFINE M == Made(base, page)
  <2> HIDE DEF M
  <2>1. a \in Seq(M) /\ b \in Seq(M)
    BY <1>2 DEF M
  <2> QED
    BY <1>3, <2>1 DEF M
<1> HIDE DEF R
<1>7. /\ a \o b \o c \in Seq(R)
      /\ \A r : Serving(a, ctx, r) => Serving(a \o b \o c, ctx, r)
      /\ \A r : Quiet(a, ctx) /\ Serving(b, ctx, r) => Serving(a \o b \o c, ctx, r)
      /\ Quiet(a, ctx) /\ Quiet(b, ctx) /\ Quiet(c, ctx) => Quiet(a \o b \o c, ctx)
  BY <1>6, ThreeParts
<1>8. \E i \in DOMAIN (a \o b \o c) : (a \o b \o c)[i] = c[1]
  <2> DEFINE d == a \o b
  <2>1. d \in Seq(R)
    BY <1>6
  <2> HIDE DEF d
  <2>2. /\ DOMAIN (d \o c) = 1..(Len(d) + 1) /\ Len(d) \in Nat
        /\ \A i \in 1..(Len(d) + 1) : (d \o c)[i] = IF i <= Len(d) THEN d[i] ELSE c[i - Len(d)]
    <3>1. /\ Len(d \o c) = Len(d) + Len(c) /\ d \o c \in Seq(R)
          /\ \A i \in 1..(Len(d) + Len(c)) :
               (d \o c)[i] = IF i <= Len(d) THEN d[i] ELSE c[i - Len(d)]
      BY <1>6, <2>1, ConcatProperties
    <3>2. DOMAIN (d \o c) = 1..Len(d \o c) /\ Len(d) \in Nat
      BY <2>1, <3>1
    <3> QED
      BY <1>3, <3>1, <3>2
  <2>3. Len(d) + 1 \in 1..(Len(d) + 1) /\ (Len(d) + 1) - Len(d) = 1 /\ ~(Len(d) + 1 <= Len(d))
    BY <2>2
  <2>4. Len(d) + 1 \in DOMAIN (d \o c) /\ (d \o c)[Len(d) + 1] = c[1]
    BY <2>2, <2>3
  <2> QED
    BY <2>4 DEF d
<1>9. a \o b \o c # <<>>
  BY <1>8
<1> QED
  BY <1>1, <1>3, <1>4, <1>5, <1>7, <1>8, <1>9 DEF R, c

\* Its only default is the base's.
LEMMA BuiltDefault ==
    ASSUME NEW base, IsList(base.rules), Shaped(base), NEW page
    PROVE  LET built == BuildCustomPolicy(base, page) IN
           /\ DefaultRules(built) # {}
           /\ built.rules[Min(DefaultRules(built))].default
                = base.rules[Min(DefaultRules(base))].default
<1> DEFINE built == BuildCustomPolicy(base, page)
           last == Fallback(base, page)[1]
           R == Made(base, page) \cup {last}
<1>1. built.rules = BuiltRules(base, page)
  BY DEF BuildCustomPolicy
<1>2. "default" \in DOMAIN last /\ last = base.rules[Min(DefaultRules(base))]
  BY LastPart DEF Shaped
<1>3. /\ built.rules \in Seq(Made(base, page) \cup {last})
      /\ \E i \in DOMAIN built.rules : built.rules[i] = last
  BY <1>1, Built
<1>4. \A r \in Made(base, page) : "default" \notin DOMAIN r
  <2> SUFFICES ASSUME NEW r \in Made(base, page) PROVE "default" \notin DOMAIN r
    OBVIOUS
  <2>1. CASE \E i \in WhenRules(base) : r = base.rules[i]
    BY <2>1 DEF Shaped, WellFormed, WhenRules
  <2>2. CASE \E phase \in Visible : r = PhaseRule(base, page, phase)
    <3>1. PICK phase \in Visible : r = PhaseRule(base, page, phase)
      BY <2>2
    <3>2. "default" \notin DOMAIN PhaseRule(base, page, phase)
      BY RowMatches
    <3> QED
      BY <3>1, <3>2
  <2>3. CASE \E phase \in Visible, i \in Intents : r = OverrideRule(page, phase, i)
    <3>1. PICK phase \in Visible, i \in Intents : r = OverrideRule(page, phase, i)
      BY <2>3
    <3>2. "default" \notin DOMAIN OverrideRule(page, phase, i)
      BY CellMatches
    <3> QED
      BY <3>1, <3>2
  <2> QED
    BY <2>1, <2>2, <2>3 DEF Made
<1> HIDE DEF built, last
<1>5. built.rules \in Seq(R)
  BY <1>3
<1>6. \A i \in DOMAIN built.rules : built.rules[i] \in R
  <2> HIDE DEF R
  <2> QED
    BY <1>5
<1>7. \A i \in DefaultRules(built) : built.rules[i] = last
  BY <1>4, <1>6 DEF DefaultRules
<1>8. DefaultRules(built) # {} /\ DefaultRules(built) \subseteq Nat
  <2> HIDE DEF R
  <2> QED
    BY <1>2, <1>3, <1>5 DEF DefaultRules
<1>9. Min(DefaultRules(built)) \in DefaultRules(built)
  BY <1>8, MinOfNats
<1> QED
  BY <1>2, <1>7, <1>8, <1>9 DEF built

LEMMA QuietOrServing ==
    ASSUME NEW R, NEW s \in Seq(R), NEW ctx, ~Quiet(s, ctx)
    PROVE  \E r : Serving(s, ctx, r)
<1> DEFINE S == {i \in DOMAIN s : Stops(s[i], ctx)}
<1>1. S # {} /\ S \subseteq Nat /\ DOMAIN s = 1..Len(s) /\ Len(s) \in Nat
  BY DEF Quiet
<1>2. PICK i \in S : \A j \in S : i <= j
  <2> HIDE DEF S
  <2> QED
    BY <1>1, MinOfNats
<1>3. \A j \in 1..(i - 1) : ~Stops(s[j], ctx)
  <2> TAKE j \in 1..(i - 1)
  <2>1. j \in DOMAIN s /\ ~(i <= j)
    BY <1>1
  <2> QED
    BY <1>2, <2>1
<1> QED
  BY <1>3 DEF Serving

\* For every base as the shipped ones are, and every page: the escalation, then
\* the override, then the phase's model, then what the base does.
LEMMA BuiltRoutes ==
    ASSUME NEW base, IsList(base.rules), Shaped(base), NEW page, NEW ctx,
           DOMAIN page.models \cap DOMAIN base.select = {},
           \A phase \in Visible : page.routing[phase] \in DOMAIN page.models,
           \A i \in Intents, phase \in Visible :
             page.overrides[i][phase] # None => page.overrides[i][phase] \in DOMAIN page.models
    PROVE  RoutedTo(BuildCustomPolicy(base, page), ctx) =
             IF Overridden(page, ctx) /\ ~Escalates(base, ctx)
             THEN page.overrides[ctx.intent][ctx.phase]
             ELSE IF HasRow(base, ctx) /\ ~Escalates(base, ctx)
             THEN page.routing[ctx.phase]
             ELSE RoutedTo(base, ctx)
<1> DEFINE built == BuildCustomPolicy(base, page)
           rules == BuiltRules(base, page)
           part == RulesOfPhase(base, page, ctx.phase)
           R == Made(base, page) \cup {Fallback(base, page)[1]}
<1>1. built.rules = rules /\ built.select = base.select
  BY DEF BuildCustomPolicy
<1>2. rules \in Seq(R) /\ base.rules \in Seq(Range(base.rules))
  BY Built DEF IsList
<1>3. /\ ctx.phase \in Visible =>
           /\ \A r : Serving(part, ctx, r) => Serving(rules, ctx, r)
           /\ Quiet(part, ctx) => Quiet(rules, ctx)
      /\ ctx.phase \notin Visible =>
           /\ \A r : Serving(base.rules, ctx, r) => Serving(rules, ctx, r)
           /\ Quiet(base.rules, ctx) => Quiet(rules, ctx)
  BY Built
<1>4. /\ DefaultRules(built) # {} /\ DefaultRules(base) # {}
      /\ built.rules[Min(DefaultRules(built))].default = base.rules[Min(DefaultRules(base))].default
  BY BuiltDefault DEF Shaped
<1>5. \A n : ResolveSlot(built, n) = ResolveSlot(base, n)
  BY <1>1 DEF ResolveSlot
<1>6. \A n \in DOMAIN page.models : ResolveSlot(built, n) = n
  BY <1>1 DEF ResolveSlot
<1> HIDE DEF built, rules, part, R
<1>7. ASSUME NEW r, Serving(rules, ctx, r), "when" \in DOMAIN r
      PROVE  RoutedTo(built, ctx) = ResolveSlot(built, r.use)
  <2>1. built.rules \in Seq(R) /\ Serving(built.rules, ctx, r)
    BY <1>1, <1>2, <1>7
  <2> QED
    BY <1>7, <2>1, ServingRoutes
<1>8. ASSUME NEW r, Serving(base.rules, ctx, r), "when" \in DOMAIN r
      PROVE  RoutedTo(base, ctx) = ResolveSlot(base, r.use)
  BY <1>2, <1>8, ServingRoutes
<1>9. ASSUME Quiet(rules, ctx), Quiet(base.rules, ctx)
      PROVE  RoutedTo(built, ctx) = RoutedTo(base, ctx)
  <2>1. RoutedTo(built, ctx) = ResolveSlot(built, built.rules[Min(DefaultRules(built))].default)
    BY <1>1, <1>4, <1>9, QuietRoutes
  <2>2. RoutedTo(base, ctx) = ResolveSlot(base, base.rules[Min(DefaultRules(base))].default)
    BY <1>4, <1>9, QuietRoutes
  <2> QED
    BY <1>4, <1>5, <2>1, <2>2
<1>10. \A i \in DOMAIN base.rules : Stops(base.rules[i], ctx) =>
         /\ i \in WhenRules(base) /\ i \in RulesWith(base, {"phase"})
         /\ ctx.phase \in base.rules[i].when.phase
         /\ Matches(base.rules[i].when, ctx)
  <2> SUFFICES ASSUME NEW i \in DOMAIN base.rules, Stops(base.rules[i], ctx)
               PROVE  /\ i \in WhenRules(base) /\ i \in RulesWith(base, {"phase"})
                      /\ ctx.phase \in base.rules[i].when.phase
                      /\ Matches(base.rules[i].when, ctx)
    OBVIOUS
  <2>1. i \in WhenRules(base)
    BY DEF Shaped, WellFormed, Stops, WhenRules
  <2>2. i \in RulesWith(base, {"phase"})
    BY <2>1 DEF Shaped
  <2>3. Matches(base.rules[i].when, ctx)
    BY <2>1 DEF Stops, WhenRules
  <2> QED
    BY <2>1, <2>2, <2>3 DEF RulesWith, WhenRules, Matches
<1>11. CASE Escalates(base, ctx)
  <2>1. PICK i \in DebugEscalations(base) : Matches(base.rules[i].when, ctx)
    BY <1>11 DEF Escalates
  <2> DEFINE r == base.rules[i]
  <2>2. i \in DOMAIN base.rules /\ "when" \in DOMAIN r /\ "phase" \in DOMAIN r.when
        /\ "retry_count" \in DOMAIN r.when /\ "debug" \in r.when.phase
    BY DEF DebugEscalations, RulesFor, RulesWith, WhenRules
  <2>3. r.when.phase = {"debug"} /\ "default" \notin DOMAIN r
    <3>1. i \in WhenRules(base)
      BY <2>2 DEF WhenRules
    <3> QED
      BY <2>2, <3>1, ConsoleAssumption DEF Shaped, WellFormed
  <2>4. ctx.phase = "debug" /\ Stops(r, ctx)
    BY <2>1, <2>2, <2>3 DEF Matches, Stops
  <2>5. Serving(part, ctx, r)
    BY <2>1, <2>4, ConsoleAssumption, PhasePart DEF part
  <2>6. Serving(base.rules, ctx, r)
    <3>1. \A j \in 1..(i - 1) : ~Stops(base.rules[j], ctx)
      <4> SUFFICES ASSUME NEW j \in 1..(i - 1), Stops(base.rules[j], ctx)
                   PROVE  FALSE
        OBVIOUS
      <4>1. DOMAIN base.rules = 1..Len(base.rules) /\ Len(base.rules) \in Nat
        BY <1>2
      <4>2. j \in DOMAIN base.rules /\ ~(i <= j)
        BY <2>2, <4>1
      <4>3. j \in RulesFor(base, "debug")
        BY <1>10, <2>4, <4>2 DEF RulesFor
      <4> QED
        BY <4>2, <4>3 DEF Shaped
    <3> QED
      BY <2>2, <2>4, <3>1 DEF Serving
  <2>7. Serving(rules, ctx, r)
    BY <1>3, <2>4, <2>5, ConsoleAssumption
  <2> HIDE DEF r
  <2> QED
    BY <1>5, <1>7, <1>8, <1>11, <2>2, <2>6, <2>7 DEF built
<1>12. CASE ~Escalates(base, ctx) /\ Overridden(page, ctx)
  <2> DEFINE cell == OverrideRule(page, ctx.phase, ctx.intent)
  <2>1. ctx.phase \in Visible /\ ctx.intent \in Intents
        /\ page.overrides[ctx.intent][ctx.phase] \in DOMAIN page.models
    BY <1>12 DEF Overridden
  <2>2. Serving(part, ctx, cell)
    BY <1>12, <2>1, PhasePart DEF part
  <2>3. "when" \in DOMAIN cell /\ cell.use = page.overrides[ctx.intent][ctx.phase]
    BY DEF OverrideRule
  <2> HIDE DEF cell
  <2>4. RoutedTo(built, ctx) = ResolveSlot(built, cell.use)
    BY <1>3, <1>7, <2>1, <2>2, <2>3
  <2> QED
    BY <1>6, <1>12, <2>1, <2>3, <2>4 DEF built
<1>13. CASE ~Escalates(base, ctx) /\ ~Overridden(page, ctx) /\ HasRow(base, ctx)
  <2> DEFINE row == PhaseRule(base, page, ctx.phase)
  <2>1. ctx.phase \in Visible /\ page.routing[ctx.phase] \in DOMAIN page.models
    BY <1>13 DEF HasRow
  <2>2. Serving(part, ctx, row)
    BY <1>13, <2>1, PhasePart DEF part
  <2>3. "when" \in DOMAIN row /\ row.use = page.routing[ctx.phase]
    BY DEF PhaseRule
  <2> HIDE DEF row
  <2>4. RoutedTo(built, ctx) = ResolveSlot(built, row.use)
    BY <1>3, <1>7, <2>1, <2>2, <2>3
  <2> QED
    BY <1>6, <1>13, <2>1, <2>3, <2>4 DEF built
<1>14. CASE /\ ~Escalates(base, ctx) /\ ~Overridden(page, ctx) /\ ~HasRow(base, ctx)
            /\ ctx.phase \in Visible
  <2>1. ctx.phase = "codegen" /\ TypedRules(base) # {}
        /\ ctx.task_type \notin CodegenTaskTypes(base)
    BY <1>14 DEF HasRow
  <2>2. Quiet(part, ctx)
    BY <1>14, PhasePart DEF part
  <2>3. Quiet(base.rules, ctx)
    <3> SUFFICES ASSUME NEW i \in DOMAIN base.rules, Stops(base.rules[i], ctx)
                 PROVE  FALSE
      BY DEF Quiet
    <3> DEFINE T == TypedRules(base)
    <3>1. T \subseteq Nat /\ T \subseteq DOMAIN base.rules
      BY <1>2 DEF TypedRules, RulesFor, RulesWith, WhenRules
    <3>2. Min(T) \in T
      BY <2>1, <3>1, MinOfNats
    <3>3. i \in RulesFor(base, "codegen")
      BY <1>10, <2>1 DEF RulesFor
    <3>4. \A j \in RulesFor(base, "codegen") : j \notin DebugEscalations(base)
      <4> SUFFICES ASSUME NEW j \in RulesFor(base, "codegen"), j \in DebugEscalations(base)
                   PROVE  FALSE
        OBVIOUS
      <4>1. /\ j \in WhenRules(base) /\ "retry_count" \in DOMAIN base.rules[j].when
            /\ "debug" \in base.rules[j].when.phase /\ "codegen" \in base.rules[j].when.phase
        BY DEF DebugEscalations, RulesFor, RulesWith
      <4> QED
        BY <4>1, ConsoleAssumption DEF Shaped
    <3>5. i = Min(T)
      <4>1. Min(T) \in RulesFor(base, "codegen")
        BY <3>2 DEF TypedRules
      <4>2. AtMostOne(RulesFor(base, "codegen") \ DebugEscalations(base))
        BY ConsoleAssumption DEF Shaped
      <4> QED
        BY <3>3, <3>4, <4>1, <4>2 DEF AtMostOne
    <3>6. "task_type" \in DOMAIN base.rules[i].when
          /\ base.rules[i].when.task_type = CodegenTaskTypes(base)
      <4>1. "task_type" \in DOMAIN base.rules[Min(T)].when
        BY <3>2 DEF TypedRules, RulesWith
      <4>2. CodegenTaskTypes(base) = base.rules[Min(T)].when.task_type
        BY <2>1 DEF CodegenTaskTypes
      <4> QED
        BY <3>5, <4>1, <4>2
    <3>7. ctx.task_type \in base.rules[i].when.task_type
      BY <1>10, <3>6 DEF Matches
    <3> QED
      BY <2>1, <3>6, <3>7
  <2> QED
    BY <1>3, <1>9, <1>14, <2>2, <2>3 DEF built
<1>15. CASE ctx.phase \notin Visible /\ ~Escalates(base, ctx)
  <2>1. ~Overridden(page, ctx) /\ ~HasRow(base, ctx)
    BY <1>15 DEF Overridden, HasRow
  <2>2. CASE Quiet(base.rules, ctx)
    BY <1>3, <1>9, <1>15, <2>1, <2>2 DEF built
  <2>3. CASE ~Quiet(base.rules, ctx)
    <3>1. PICK r : Serving(base.rules, ctx, r)
      BY <1>2, <2>3, QuietOrServing
    <3>2. "when" \in DOMAIN r
      BY <1>10, <3>1 DEF Serving, WhenRules
    <3> QED
      BY <1>3, <1>5, <1>7, <1>8, <1>15, <2>1, <3>1, <3>2 DEF built
  <2> QED
    BY <2>2, <2>3
<1> QED
  BY <1>11, <1>12, <1>13, <1>14, <1>15

\* A save of a base that loads, from a page that has the base's models, loads.
LEMMA BuiltLoads ==
    ASSUME NEW base, IsList(base.rules), ValidatePolicy(base), NEW page,
           DOMAIN base.models \subseteq DOMAIN page.models,
           DOMAIN page.models \cap DOMAIN base.select = {},
           \A phase \in Visible : page.routing[phase] \in DOMAIN page.models,
           \A i \in Intents, phase \in Visible :
             page.overrides[i][phase] # None => page.overrides[i][phase] \in DOMAIN page.models
    PROVE  ValidatePolicy(BuildCustomPolicy(base, page))
<1> DEFINE built == BuildCustomPolicy(base, page)
           last == Fallback(base, page)[1]
           Targets == DOMAIN page.models \cup DOMAIN base.select
           Good(r) == DOMAIN r \cap {"use", "default"} # {} /\ Named(r) \in Targets
           R == Made(base, page) \cup {last}
<1>1. built.models = page.models /\ built.select = base.select
      /\ built.rules = BuiltRules(base, page)
  BY DEF BuildCustomPolicy
<1>2. built.rules \in Seq(R) /\ built.rules # <<>>
  BY <1>1, Built
<1>3. DOMAIN page.models # {}
  BY ConsoleAssumption
<1>4. \A i \in DOMAIN base.rules : Good(base.rules[i])
  BY DEF ValidatePolicy, ValidateRules
<1>5. \A phase \in Visible : Good(PhaseRule(base, page, phase))
  <2> TAKE phase \in Visible
  <2>1. DOMAIN PhaseRule(base, page, phase) = {"when", "use"}
        /\ PhaseRule(base, page, phase).use = page.routing[phase]
    BY DEF PhaseRule
  <2> QED
    BY <2>1 DEF Named
<1>6. \A c \in {d \in Visible \X Intents : page.overrides[d[2]][d[1]] # None} :
        Good(OverrideRule(page, c[1], c[2]))
  <2> TAKE c \in {d \in Visible \X Intents : page.overrides[d[2]][d[1]] # None}
  <2>1. DOMAIN OverrideRule(page, c[1], c[2]) = {"when", "use"}
        /\ OverrideRule(page, c[1], c[2]).use = page.overrides[c[2]][c[1]]
    BY DEF OverrideRule
  <2> QED
    BY <2>1 DEF Named
<1>7. Good(last)
  <2>1. CASE DefaultRules(base) # {}
    <3>1. Min(DefaultRules(base)) \in DOMAIN base.rules /\ last = base.rules[Min(DefaultRules(base))]
      BY <2>1, LastPart DEF DefaultRules
    <3> QED
      BY <1>4, <3>1
  <2>2. CASE DefaultRules(base) = {}
    <3>1. last = [default |-> SomeModel(page.models)]
      BY <2>2, LastPart
    <3>2. SomeModel(page.models) \in DOMAIN page.models
      BY <1>3 DEF SomeModel
    <3> QED
      BY <3>1, <3>2 DEF Named
  <2> QED
    BY <2>1, <2>2
<1> HIDE DEF built, last, Good
<1>8. \A r \in R : Good(r)
  BY <1>4, <1>5, <1>6, <1>7 DEF Made, WhenRules
<1> HIDE DEF R
<1>9. \A i \in DOMAIN built.rules : built.rules[i] \in R
  BY <1>2
<1>10. ValidateRules(built)
  BY <1>1, <1>8, <1>9 DEF ValidateRules, Good
<1>11. ValidateSelect(built)
  BY <1>1 DEF ValidatePolicy, ValidateSelect
<1> QED
  BY <1>1, <1>2, <1>3, <1>10, <1>11 DEF ValidatePolicy, built

------------------------------------------------------------------------------
(* What files and pages hold: every file's rules are a list, and a page has   *)
(* the models of its base while that is the file it was opened on.           *)

BasedOn(page) ==
    page.opened = policies[page.base].mtime =>
      DOMAIN policies[page.base].policy.models \subseteq DOMAIN page.models

Content ==
    /\ \A n \in DOMAIN policies : IsList(policies[n].policy.rules)
    /\ \A k \in Projects :
         /\ pages[k].pc = "editing" => BasedOn(pages[k])
         /\ pages[k].pc = "writing" => BasedOn(pages[k].page) /\ IsList(pages[k].policy.rules)

LEMMA InitContent == Init => Content
<1> SUFFICES ASSUME Init PROVE Content
  OBVIOUS
<1>1. /\ \A k \in Projects : pages[k].pc = "closed"
      /\ DOMAIN policies = {b.name : b \in ShippedPolicies}
      /\ \A n \in DOMAIN policies :
           policies[n].policy = (CHOOSE b \in ShippedPolicies : b.name = n).policy
  BY DEF Init, ConsoleInit, Closed
<1>2. ASSUME NEW n \in DOMAIN policies
      PROVE  IsList(policies[n].policy.rules)
  <2> DEFINE b == CHOOSE c \in ShippedPolicies : c.name = n
  <2>1. b \in ShippedPolicies
    BY <1>1
  <2>2. IsList(b.policy.rules)
    BY <2>1, ConsoleAssumption DEF IsList
  <2> QED
    BY <1>1, <2>2
<1> QED
  BY <1>1, <1>2 DEF Content

\* What a step of a page's user leaves on the page.
LEMMA PageSteps ==
    ASSUME IInv, Content, NEW k \in Projects, UserStep(k)
    PROVE  /\ pages'[k].pc = "editing" => BasedOn(pages'[k])
           /\ pages'[k].pc = "writing" =>
                /\ pages[k].pc = "editing" /\ BasedOn(pages[k]) /\ pages'[k].page = pages[k]
                /\ pages[k].base \in DOMAIN policies
                /\ \E name \in NamesOf[k] : ValidateSaveInput(pages[k], name)
                /\ pages'[k].policy = BuildCustomPolicy(policies[pages[k].base].policy, pages[k])
                /\ IsList(pages'[k].policy.rules)
<1>1. DOMAIN pages = Projects /\ (pages[k] = Closed \/ Editor(pages[k]) \/ Saving(pages[k]))
      /\ Closed.pc = "closed"
  BY DEF IInv, Shape, Closed
<1>2. ASSUME NEW id \in DOMAIN policies, OpenEditor(k, id)
      PROVE  pages'[k].pc = "editing" /\ BasedOn(pages'[k])
  BY <1>1, <1>2 DEF OpenEditor, SummarizePolicy, BasedOn
<1>3. ASSUME MakeChoice(k)
      PROVE  Editor(pages[k]) /\ BasedOn(pages[k])
  BY <1>1, <1>3 DEF MakeChoice, Saving, Content
<1>4. ASSUME NEW phase, NEW m, SetPhaseModel(k, phase, m)
      PROVE  pages'[k].pc = "editing" /\ BasedOn(pages'[k])
  <2>1. Editor(pages[k]) /\ BasedOn(pages[k])
    BY <1>3, <1>4 DEF SetPhaseModel
  <2>2. pages' = [pages EXCEPT ![k].routing[phase] = m, ![k].touched = @ \cup {phase}]
    BY <1>4 DEF SetPhaseModel
  <2> QED
    BY <1>1, <2>1, <2>2 DEF Editor, PageFields, BasedOn
<1>5. ASSUME NEW i, NEW phase, NEW m, SetIntentGridCell(k, i, phase, m)
      PROVE  pages'[k].pc = "editing" /\ BasedOn(pages'[k])
  <2>1. Editor(pages[k]) /\ BasedOn(pages[k])
    BY <1>3, <1>5 DEF SetIntentGridCell
  <2>2. pages' = [pages EXCEPT ![k].overrides[i][phase] = m, ![k].touched = @ \cup {phase}]
    BY <1>5 DEF SetIntentGridCell
  <2> QED
    BY <1>1, <2>1, <2>2 DEF Editor, PageFields, BasedOn
<1>6. ASSUME NEW m, AddModel(k, m)
      PROVE  pages'[k].pc = "editing" /\ BasedOn(pages'[k])
  <2>1. Editor(pages[k]) /\ BasedOn(pages[k])
    BY <1>3, <1>6 DEF AddModel
  <2> DEFINE models == [n \in DOMAIN pages[k].models \cup {m} |->
                          IF n = m THEN NewModel ELSE pages[k].models[n]]
  <2>2. pages' = [pages EXCEPT ![k].models = models]
    BY <1>1, <1>6 DEF AddModel
  <2>3. DOMAIN pages[k].models \subseteq DOMAIN models
    OBVIOUS
  <2> HIDE DEF models
  <2>4. /\ pages'[k].pc = "editing" /\ pages'[k].base = pages[k].base
        /\ pages'[k].opened = pages[k].opened /\ pages'[k].models = models
    BY <1>1, <2>1, <2>2 DEF Editor, PageFields
  <2> QED
    BY <2>1, <2>3, <2>4 DEF BasedOn
<1>7. ASSUME NEW name \in NamesOf[k], Submit(k, name)
      PROVE  /\ pages'[k].pc = "writing"
             /\ pages[k].pc = "editing" /\ BasedOn(pages[k]) /\ pages'[k].page = pages[k]
             /\ pages[k].base \in DOMAIN policies /\ ValidateSaveInput(pages[k], name)
             /\ pages'[k].policy = BuildCustomPolicy(policies[pages[k].base].policy, pages[k])
             /\ IsList(pages'[k].policy.rules)
  <2> DEFINE page == pages[k]
             base == policies[pages[k].base].policy
  <2>1. /\ page.pc = "editing" /\ BasedOn(page) /\ ValidateSaveInput(page, name)
        /\ page.base \in DOMAIN policies
    BY <1>7 DEF Submit, Content, ValidateSaveInput
  <2>2. /\ pages'[k].pc = "writing" /\ pages'[k].page = page
        /\ pages'[k].policy = BuildCustomPolicy(base, page)
    BY <1>1, <1>7 DEF Submit
  <2>3. IsList(base.rules)
    BY <2>1 DEF Content
  <2> HIDE DEF page, base
  <2>4. IsList(BuildCustomPolicy(base, page).rules)
    <3>1. BuiltRules(base, page) \in Seq(Made(base, page) \cup {Fallback(base, page)[1]})
      BY <2>3, Built
    <3>2. IsList(BuiltRules(base, page))
      BY <3>1, ListOf
    <3> QED
      BY <3>2 DEF BuildCustomPolicy
  <2> QED
    BY <2>1, <2>2, <2>4 DEF page, base
<1> QED
  BY <1>2, <1>4, <1>5, <1>6, <1>7 DEF UserStep

\* A page is still based on its file when a file is put in place: that one is
\* younger than the page's.
LEMMA PutContent ==
    ASSUME IInv, Content, NEW name \in Names, NEW content, NEW shown,
           Put(name, content, shown), IsList(content.rules),
           DOMAIN pages' = Projects,
           \A j \in Projects : \/ pages'[j] = pages[j]
                               \/ pages[j].pc = "writing" /\ pages'[j] = pages[j].page
    PROVE  Content'
<1>1. /\ clock' = clock + 1
      /\ DOMAIN policies' = DOMAIN policies \cup {name}
      /\ policies'[name].mtime = clock'
      /\ \A n \in DOMAIN policies \ {name} : policies'[n] = policies[n]
      /\ \A n \in DOMAIN policies : policies[n].mtime \in Nat /\ policies[n].mtime < clock'
  BY PutsOne DEF IInv
<1>2. policies'[name].policy = content
  BY DEF Put
<1>3. \A n \in DOMAIN policies' : IsList(policies'[n].policy.rules)
  BY <1>1, <1>2 DEF Content
<1>4. ASSUME NEW page, Editor(page), BasedOn(page)
      PROVE  BasedOn(page)'
  <2>1. page.base \in DOMAIN policies /\ page.opened \in 1..policies[page.base].mtime
    BY <1>4 DEF Editor, PageOK, Closed
  <2>2. CASE page.base = name
    <3>1. page.opened # policies'[page.base].mtime
      BY <1>1, <2>1, <2>2
    <3> QED
      BY <3>1 DEF BasedOn
  <2>3. CASE page.base # name
    BY <1>1, <1>4, <2>1, <2>3 DEF BasedOn
  <2> QED
    BY <2>2, <2>3
<1>5. ASSUME NEW j \in Projects
      PROVE  /\ pages'[j].pc = "editing" => BasedOn(pages[j])'
             /\ pages'[j].pc = "writing" =>
                  BasedOn(pages[j].page)' /\ IsList(pages'[j].policy.rules)
  <2>1. pages[j] = Closed \/ Editor(pages[j]) \/ Saving(pages[j])
    BY DEF IInv, Shape
  <2>2. CASE pages'[j] = pages[j]
    <3>1. pages[j].pc = "editing" => Editor(pages[j]) /\ BasedOn(pages[j])
      BY <2>1 DEF Closed, Saving, Content
    <3>2. pages[j].pc = "writing" =>
            Editor(pages[j].page) /\ BasedOn(pages[j].page) /\ IsList(pages[j].policy.rules)
      BY <2>1 DEF Closed, Editor, Saving, Content
    <3> QED
      BY <1>4, <2>2, <3>1, <3>2
  <2>3. CASE pages[j].pc = "writing" /\ pages'[j] = pages[j].page
    <3>1. Editor(pages[j].page) /\ BasedOn(pages[j].page)
      BY <2>1, <2>3 DEF Closed, Editor, Saving, Content
    <3>2. pages'[j].pc = "editing"
      BY <2>3, <3>1 DEF Editor
    <3> QED
      BY <1>4, <2>3, <3>1, <3>2
  <2> QED
    BY <2>2, <2>3
<1> QED
  BY <1>3, <1>5 DEF Content

LEMMA NextContent == IInv /\ Content /\ [Next]_vars => Content'
<1> SUFFICES ASSUME IInv, Content, [Next]_vars PROVE Content'
  OBVIOUS
<1>1. DOMAIN pages = Projects
      /\ \A k \in Projects : pages[k] = Closed \/ Editor(pages[k]) \/ Saving(pages[k])
  BY DEF IInv, Shape
<1>2. UNCHANGED policies => \A page : BasedOn(page)' <=> BasedOn(page)
  BY DEF BasedOn
<1>3. CASE UNCHANGED <<policies, pages>>
  BY <1>2, <1>3 DEF Content
<1>4. ASSUME NEW k \in Projects, UNCHANGED policies, pages' = [pages EXCEPT ![k] = Closed]
      PROVE  Content'
  <2>1. Closed.pc = "closed" /\ pages'[k] = Closed
        /\ \A j \in Projects \ {k} : pages'[j] = pages[j]
    BY <1>1, <1>4 DEF Closed
  <2> QED
    BY <1>2, <1>4, <2>1 DEF Content
<1>5. ASSUME NEW k \in Projects, UserStep(k)
      PROVE  Content'
  <2>1. UNCHANGED policies /\ \A j \in Projects \ {k} : pages'[j] = pages[j]
    BY <1>5, PageMoves
  <2>2. /\ pages'[k].pc = "editing" => BasedOn(pages'[k])
        /\ pages'[k].pc = "writing" =>
             BasedOn(pages'[k].page) /\ IsList(pages'[k].policy.rules)
    BY <1>5, PageSteps
  <2> QED
    BY <1>2, <2>1, <2>2 DEF Content
<1>6. ASSUME NEW k \in Projects, Write(k)
      PROVE  Content'
  <2>1. /\ pages[k].pc = "writing" /\ pages' = [pages EXCEPT ![k] = pages[k].page]
        /\ UNCHANGED <<policies, clock>> \/ Put(pages[k].name, pages[k].policy, pages[k].page.routing)
    BY <1>6 DEF Write, BackToPage
  <2>2. Saving(pages[k]) /\ pages[k].name \in Names /\ Editor(pages[k].page)
    BY <1>1, <2>1 DEF Closed, Editor, Saving
  <2>3. IsList(pages[k].policy.rules) /\ BasedOn(pages[k].page)
    BY <2>1 DEF Content
  <2>4. /\ DOMAIN pages' = Projects /\ pages'[k] = pages[k].page
        /\ \A j \in Projects \ {k} : pages'[j] = pages[j]
    BY <1>1, <2>1
  <2>5. CASE UNCHANGED policies
    <3>1. pages'[k].pc = "editing" /\ BasedOn(pages'[k])
      BY <2>2, <2>3, <2>4 DEF Editor
    <3> QED
      BY <1>2, <2>4, <2>5, <3>1 DEF Content
  <2>6. CASE Put(pages[k].name, pages[k].policy, pages[k].page.routing)
    BY <2>1, <2>2, <2>3, <2>4, <2>6, PutContent
  <2> QED
    BY <2>1, <2>5, <2>6
<1>7. ASSUME NEW b \in HandPolicies, EditPolicy(b)
      PROVE  Content'
  <2>1. b.name \in Names /\ Put(b.name, b.policy, None) /\ UNCHANGED pages
    BY <1>7 DEF EditPolicy, IInv, TypeOK
  <2>2. IsList(b.policy.rules)
    BY ConsoleAssumption DEF IsList
  <2> QED
    BY <1>1, <2>1, <2>2, PutContent
<1> QED
  BY <1>3, <1>4, <1>5, <1>6, <1>7, PageSources

\* The step that a save begins with builds its policy.
LEMMA SaveBegins ==
    ASSUME IInv, Content, [Next]_vars, NEW k \in Projects,
           pages[k].pc = "editing", pages'[k].pc = "writing"
    PROVE  /\ BasedOn(pages[k])
           /\ pages[k].base \in DOMAIN policies
           /\ \E name \in NamesOf[k] : ValidateSaveInput(pages[k], name)
           /\ pages'[k].policy = BuildCustomPolicy(policies[pages[k].base].policy, pages[k])
<1>1. DOMAIN pages = Projects /\ Closed.pc = "closed"
      /\ \A j \in Projects : pages[j] = Closed \/ Editor(pages[j]) \/ Saving(pages[j])
  BY DEF IInv, Shape, Closed
<1>2. CASE UNCHANGED <<policies, pages>>
  BY <1>2
<1>3. ASSUME NEW j \in Projects, pages' = [pages EXCEPT ![j] = Closed]
      PROVE  FALSE
  BY <1>1, <1>3
<1>4. ASSUME NEW j \in Projects, Write(j)
      PROVE  FALSE
  <2>1. pages[j].pc = "writing" /\ pages' = [pages EXCEPT ![j] = pages[j].page]
    BY <1>4 DEF Write, BackToPage
  <2>2. j # k
    BY <2>1
  <2> QED
    BY <1>1, <2>1, <2>2
<1>5. ASSUME NEW b \in HandPolicies, EditPolicy(b)
      PROVE  FALSE
  BY <1>5 DEF EditPolicy
<1>6. ASSUME NEW j \in Projects, UserStep(j)
      PROVE  UserStep(k)
  BY <1>6, PageMoves
<1>7. CASE UserStep(k)
  BY <1>7, PageSteps
<1> QED
  BY <1>2, <1>3, <1>4, <1>5, <1>6, <1>7, PageSources

------------------------------------------------------------------------------
(* What a page promises of the policy it is opened on, and of the one it      *)
(* saves.                                                                    *)

\* Under a policy as the shipped ones are, the rules that decide on a greenfield
\* packet of a visible phase are those that the page reads for the phase.
LEMMA PageReadsTheDeciders ==
    ASSUME NEW p, IsList(p.rules), Shaped(p), NEW ctx, HasRow(p, ctx), ~Escalates(p, ctx), ctx.intent = None
    PROVE  StoppingRules(ctx, p) = RulesFor(p, ctx.phase) \ RulesWith(p, {"retry_count"})
<1>1. ctx.phase \in Visible
  BY DEF HasRow
<1>2. \A i \in DOMAIN p.rules :
        /\ i \in WhenRules(p) => i \notin DefaultRules(p)
        /\ i \notin DefaultRules(p) => i \in WhenRules(p)
  BY DEF Shaped, WellFormed, WhenRules, DefaultRules
<1>3. \A i \in WhenRules(p) :
        /\ i \in DOMAIN p.rules /\ "phase" \in DOMAIN p.rules[i].when
        /\ ctx.phase \in p.rules[i].when.phase =>
             /\ DOMAIN p.rules[i].when \subseteq {"phase", "task_type", "retry_count"}
             /\ "task_type" \in DOMAIN p.rules[i].when => p.rules[i].when.phase = {"codegen"}
             /\ "retry_count" \in DOMAIN p.rules[i].when => p.rules[i].when.phase = {"debug"}
  BY <1>1 DEF Shaped, WhenRules, RulesWith
<1>4. ASSUME NEW i \in StoppingRules(ctx, p)
      PROVE  i \in RulesFor(p, ctx.phase) \ RulesWith(p, {"retry_count"})
  <2>1. i \in WhenRules(p) /\ Matches(p.rules[i].when, ctx)
    BY <1>2 DEF StoppingRules, WhenRules
  <2>2. ctx.phase \in p.rules[i].when.phase
    BY <1>3, <2>1 DEF Matches
  <2>3. i \in RulesFor(p, ctx.phase)
    BY <1>3, <2>1, <2>2 DEF RulesFor, RulesWith
  <2>4. CASE i \in RulesWith(p, {"retry_count"})
    <3>1. p.rules[i].when.phase = {"debug"}
      BY <1>3, <2>1, <2>2, <2>4 DEF RulesWith
    <3>2. i \in DebugEscalations(p)
      BY <1>3, <2>1, <2>4, <3>1 DEF DebugEscalations, RulesFor, RulesWith
    <3> QED
      BY <2>1, <3>2 DEF Escalates
  <2> QED
    BY <2>3, <2>4
<1>5. ASSUME NEW i \in RulesFor(p, ctx.phase) \ RulesWith(p, {"retry_count"})
      PROVE  i \in StoppingRules(ctx, p)
  <2>1. /\ i \in WhenRules(p) /\ ctx.phase \in p.rules[i].when.phase
        /\ "retry_count" \notin DOMAIN p.rules[i].when
    BY <1>5 DEF RulesFor, RulesWith
  <2>2. DOMAIN p.rules[i].when \subseteq {"phase", "task_type"}
    BY <1>3, <2>1
  <2>3. ASSUME "task_type" \in DOMAIN p.rules[i].when
        PROVE  ctx.task_type \in p.rules[i].when.task_type
    <3> DEFINE first == Min(TypedRules(p))
    <3>1. ctx.phase = "codegen" /\ i \in TypedRules(p)
      BY <1>3, <2>1, <2>3 DEF TypedRules, RulesFor, RulesWith
    <3>2. TypedRules(p) \subseteq Nat
      BY DEF TypedRules, RulesFor, RulesWith, WhenRules, IsList
    <3>3. first \in TypedRules(p)
      BY <3>1, <3>2, MinOfNats
    <3> HIDE DEF first
    <3>4. ASSUME NEW j \in TypedRules(p)
          PROVE  j \in RulesFor(p, "codegen") \ DebugEscalations(p)
      <4>1. j \in RulesFor(p, "codegen") /\ "task_type" \in DOMAIN p.rules[j].when
            /\ j \in WhenRules(p) /\ ctx.phase \in p.rules[j].when.phase
        BY <3>1 DEF TypedRules, RulesFor, RulesWith
      <4>2. p.rules[j].when.phase = {"codegen"}
        BY <1>3, <4>1
      <4> QED
        BY <4>1, <4>2 DEF DebugEscalations, RulesFor
    <3>5. first = i
      BY <1>1, <3>1, <3>3, <3>4 DEF Shaped, AtMostOne
    <3> QED
      BY <3>1, <3>5 DEF HasRow, CodegenTaskTypes, first
  <2>4. Matches(p.rules[i].when, ctx)
    BY <2>1, <2>2, <2>3 DEF Matches
  <2> QED
    BY <1>2, <1>3, <2>1, <2>4 DEF StoppingRules
<1> QED
  BY <1>4, <1>5

\* So the page's row is the model that the packet is routed to.
LEMMA RowIsTheRoute ==
    ASSUME NEW p, IsList(p.rules), Shaped(p), NEW ctx, HasRow(p, ctx), ~Escalates(p, ctx), ctx.intent = None
    PROVE  ResolvePhaseDefault(p, ctx.phase) = RoutedTo(p, ctx)
<1> DEFINE rules == RulesFor(p, ctx.phase) \ RulesWith(p, {"retry_count"})
<1>1. StoppingRules(ctx, p) = rules
  BY PageReadsTheDeciders
<1>2. \A n, r : Decide(p, n, r, <<>>).model = ResolveSlot(p, n)
  <2>1. DOMAIN <<>> = {}
    OBVIOUS
  <2> QED
    BY <2>1 DEF Decide, Decision, Throw, ResolveNamed, Chosen, ResolveSlot
<1>3. rules \subseteq WhenRules(p) /\ WhenRules(p) \subseteq Nat
      /\ DefaultRules(p) \subseteq Nat /\ DefaultRules(p) # {}
  BY DEF RulesFor, RulesWith, WhenRules, DefaultRules, Shaped, IsList
<1>4. CASE rules # {}
  <2>1. Min(rules) \in WhenRules(p)
    BY <1>3, <1>4, MinOfNats
  <2> QED
    BY <1>1, <1>2, <1>4, <2>1 DEF RoutedTo, PickModel, ResolvePhaseDefault, FirstUse, WhenRules
<1>5. CASE rules = {}
  BY <1>1, <1>2, <1>3, <1>5 DEF RoutedTo, PickModel, ResolvePhaseDefault, FirstUse
<1> QED
  BY <1>4, <1>5

\* OpenShowsRouting: on whatever base as the shipped ones are a page is opened,
\* its rows are where the greenfield packets go (summarizePolicy, policy-server.mjs).
THEOREM PageShowsTheRoute == Spec => OpenShowsRouting
<1>1. ASSUME IInv, [Next]_vars, NEW k \in Projects, NEW id \in DOMAIN policies,
             pages[k].pc = "closed", pages'[k].pc = "editing", pages'[k].base = id
      PROVE  pages'[k].routing =
               [phase \in Visible |-> ResolvePhaseDefault(policies[id].policy, phase)]
  <2>1. DOMAIN pages = Projects /\ Closed.pc = "closed"
    BY <1>1 DEF IInv, Shape, Closed
  <2>2. ASSUME NEW j \in Projects, pages' = [pages EXCEPT ![j] = Closed]
        PROVE  FALSE
    BY <1>1, <2>1, <2>2
  <2>3. ASSUME NEW j \in Projects, Write(j)
        PROVE  FALSE
    BY <1>1, <2>1, <2>3 DEF Write, BackToPage
  <2>4. ASSUME NEW b \in HandPolicies, EditPolicy(b)
        PROVE  FALSE
    BY <1>1, <2>4 DEF EditPolicy
  <2>5. ASSUME NEW j \in Projects, UserStep(j)
        PROVE  \E n \in DOMAIN policies : pages'[k] = SummarizePolicy(n)
    <3>1. j = k
      BY <1>1, <2>5, PageMoves
    <3>2. PICK n \in DOMAIN policies : OpenEditor(k, n)
      BY <1>1, <2>5, <3>1 DEF UserStep, SetPhaseModel, SetIntentGridCell, AddModel, MakeChoice, Submit
    <3> QED
      BY <2>1, <3>2 DEF OpenEditor
  <2>6. PICK n \in DOMAIN policies : pages'[k] = SummarizePolicy(n)
    BY <1>1, <2>2, <2>3, <2>4, <2>5, PageSources
  <2> QED
    BY <1>1, <2>6 DEF SummarizePolicy
<1>2. IInv /\ Content /\ [Next]_vars =>
        [\A k \in Projects, id \in DOMAIN policies :
           pages[k].pc = "closed" /\ pages'[k].pc = "editing" /\ pages'[k].base = id
             /\ Shaped(policies[id].policy) =>
             \A ctx \in Contexts :
               HasRow(policies[id].policy, ctx) /\ ~Escalates(policies[id].policy, ctx)
                 /\ ctx.intent = None =>
                   pages'[k].routing[ctx.phase] = RoutedTo(policies[id].policy, ctx)]_pages
  <2> SUFFICES ASSUME IInv, Content, [Next]_vars, NEW k \in Projects, NEW id \in DOMAIN policies,
                      pages[k].pc = "closed", pages'[k].pc = "editing", pages'[k].base = id,
                      Shaped(policies[id].policy), NEW ctx \in Contexts,
                      HasRow(policies[id].policy, ctx),
                      ~Escalates(policies[id].policy, ctx), ctx.intent = None
               PROVE  pages'[k].routing[ctx.phase] = RoutedTo(policies[id].policy, ctx)
    BY Zenon
  <2>1. ctx.phase \in Visible
    BY DEF HasRow
  <2>2. pages'[k].routing =
          [phase \in Visible |-> ResolvePhaseDefault(policies[id].policy, phase)]
    BY <1>1, Zenon
  <2>3. pages'[k].routing[ctx.phase] = ResolvePhaseDefault(policies[id].policy, ctx.phase)
    BY <2>1, <2>2
  <2>4. IsList(policies[id].policy.rules)
    BY DEF Content
  <2> QED
    BY <2>3, <2>4, RowIsTheRoute
<1> QED
  BY InitIInv, NextIInv, InitContent, NextContent, <1>2, PTL DEF Spec, OpenShowsRouting

\* SavedRoutesAsShown: whatever base as the shipped ones are a page is saved on,
\* the policy built routes every packet as the page showed: escalations, then
\* overrides, then the phase's rows, then what the base does with the phases
\* that the page does not show (buildCustomPolicy, policy-server.mjs).
THEOREM SaveRoutesAsShown == Spec => SavedRoutesAsShown
<1>1. IInv /\ Content /\ [Next]_vars =>
        [\A k \in Projects :
           pages[k].pc = "editing" /\ pages'[k].pc = "writing" =>
             LET page == pages[k]
                 base == policies[page.base].policy
             IN  Shaped(base) /\ DOMAIN page.models \cap DOMAIN base.select = {} =>
                   \A ctx \in Contexts :
                     RoutedTo(pages'[k].policy, ctx) =
                       IF Overridden(page, ctx) /\ ~Escalates(base, ctx)
                       THEN page.overrides[ctx.intent][ctx.phase]
                       ELSE IF HasRow(base, ctx) /\ ~Escalates(base, ctx)
                       THEN page.routing[ctx.phase]
                       ELSE RoutedTo(base, ctx)]_pages
  <2> SUFFICES ASSUME IInv, Content, [Next]_vars, NEW k \in Projects,
                      pages[k].pc = "editing", pages'[k].pc = "writing",
                      Shaped(policies[pages[k].base].policy),
                      DOMAIN pages[k].models \cap
                        DOMAIN policies[pages[k].base].policy.select = {},
                      NEW ctx \in Contexts
               PROVE  RoutedTo(pages'[k].policy, ctx) =
                       IF Overridden(pages[k], ctx)
                            /\ ~Escalates(policies[pages[k].base].policy, ctx)
                       THEN pages[k].overrides[ctx.intent][ctx.phase]
                       ELSE IF HasRow(policies[pages[k].base].policy, ctx)
                                 /\ ~Escalates(policies[pages[k].base].policy, ctx)
                       THEN pages[k].routing[ctx.phase]
                       ELSE RoutedTo(policies[pages[k].base].policy, ctx)
    BY Zenon
  <2> DEFINE page == pages[k]
             base == policies[pages[k].base].policy
  <2>1. /\ page.base \in DOMAIN policies
        /\ pages'[k].policy = BuildCustomPolicy(base, page)
        /\ \A phase \in Visible : page.routing[phase] \in DOMAIN page.models
        /\ \A i \in Intents, phase \in Visible :
             page.overrides[i][phase] # None => page.overrides[i][phase] \in DOMAIN page.models
    BY SaveBegins DEF ValidateSaveInput
  <2>2. IsList(base.rules)
    BY <2>1 DEF Content
  <2>3. Shaped(base) /\ DOMAIN page.models \cap DOMAIN base.select = {}
    OBVIOUS
  <2> HIDE DEF page, base
  <2>4. RoutedTo(BuildCustomPolicy(base, page), ctx) =
          IF Overridden(page, ctx) /\ ~Escalates(base, ctx)
          THEN page.overrides[ctx.intent][ctx.phase]
          ELSE IF HasRow(base, ctx) /\ ~Escalates(base, ctx)
          THEN page.routing[ctx.phase]
          ELSE RoutedTo(base, ctx)
    BY <2>1, <2>2, <2>3, BuiltRoutes
  <2> QED
    BY <2>1, <2>4 DEF page, base
<1> QED
  BY InitIInv, NextIInv, InitContent, NextContent, <1>1, PTL DEF Spec, SavedRoutesAsShown

\* FreshSaveLoads: a page has all models that its base has, so what a save
\* carries over still resolves (handleSave, policy-server.mjs; validatePolicy, policy.ts).
THEOREM FreshSavesLoad == Spec => FreshSaveLoads
<1>1. IInv /\ Content /\ [Next]_vars =>
        [\A k \in Projects :
           pages[k].pc = "editing" /\ pages'[k].pc = "writing" =>
             LET page == pages[k]
                 base == policies[page.base].policy
             IN  ValidatePolicy(base) /\ page.opened = policies[page.base].mtime
                   /\ DOMAIN page.models \cap DOMAIN base.select = {} =>
                     ValidatePolicy(pages'[k].policy)]_pages
  <2> SUFFICES ASSUME IInv, Content, [Next]_vars, NEW k \in Projects,
                      pages[k].pc = "editing", pages'[k].pc = "writing",
                      ValidatePolicy(policies[pages[k].base].policy),
                      pages[k].opened = policies[pages[k].base].mtime,
                      DOMAIN pages[k].models \cap
                        DOMAIN policies[pages[k].base].policy.select = {}
               PROVE  ValidatePolicy(pages'[k].policy)
    BY Zenon
  <2> DEFINE page == pages[k]
             base == policies[pages[k].base].policy
  <2>1. /\ page.base \in DOMAIN policies
        /\ pages'[k].policy = BuildCustomPolicy(base, page)
        /\ DOMAIN base.models \subseteq DOMAIN page.models
        /\ \A phase \in Visible : page.routing[phase] \in DOMAIN page.models
        /\ \A i \in Intents, phase \in Visible :
             page.overrides[i][phase] # None => page.overrides[i][phase] \in DOMAIN page.models
    BY SaveBegins DEF ValidateSaveInput, BasedOn
  <2>2. IsList(base.rules)
    BY <2>1 DEF Content
  <2>3. ValidatePolicy(base) /\ DOMAIN page.models \cap DOMAIN base.select = {}
    OBVIOUS
  <2> HIDE DEF page, base
  <2>4. ValidatePolicy(BuildCustomPolicy(base, page))
    BY <2>1, <2>2, <2>3, BuiltLoads
  <2> QED
    BY <2>1, <2>4 DEF page, base
<1> QED
  BY InitIInv, NextIInv, InitContent, NextContent, <1>1, PTL DEF Spec, FreshSaveLoads
==============================================================================
