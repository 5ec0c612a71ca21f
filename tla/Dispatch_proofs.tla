-------------------------- MODULE Dispatch_proofs --------------------------
(***************************************************************************)
(* The server process for every set of policies, calls and keys: its       *)
(* variables are well typed, pre-flight is a promise it keeps, and every   *)
(* event names the rule and the model that its policy decides.             *)
(***************************************************************************)
EXTENDS Dispatch, SequenceTheorems, WellFoundedInduction, TLAPS

------------------------------------------------------------------------------
(* What the checks of a policy load buy at dispatch, for every policy, every *)
(* slot choice and every packet.                                             *)

\* The minimum that PickModel takes of a set of rule indices is one of them.
LEMMA MinOfNats ==
    ASSUME NEW S, S \subseteq Nat, S # {}
    PROVE  Min(S) \in S /\ \A y \in S : Min(S) <= y
<1> DEFINE R == {ss \in Nat \X Nat : ss[1] < ss[2]}
<1>1. IsWellFoundedOn(R, Nat)
  BY NatLessThanWellFounded, Zenon DEF OpToRel
<1> HIDE DEF R
<1>2. PICK x \in S : \A y \in S : ~(<<y, x>> \in R)
  BY <1>1, WFMin, Zenon
<1>3. ASSUME NEW y \in S
      PROVE  x <= y
  <2>1. <<y, x>> \in Nat \X Nat => (y < x => <<y, x>> \in R)
    BY DEF R
  <2> QED
    BY <1>2, <2>1
<1> QED
  BY <1>3 DEF Min

\* A name that a load accepts resolves, at every dispatch, to a model of the
\* policy: the options and defaults of slots were checked, and so was the
\* run's choice among them.
LEMMA NamesResolve ==
    ASSUME NEW p, NEW o, NEW n,
           ValidateSelect(p), ValidateSelectOverrides(p, o),
           n \in DOMAIN p.models \cup DOMAIN p.select
    PROVE  ResolveNamed(p, n, o) \in DOMAIN p.models
<1>1. CASE n \notin DOMAIN p.select
  BY <1>1 DEF ResolveNamed
<1>2. CASE n \in DOMAIN p.select /\ n \in DOMAIN o
  BY <1>2 DEF ResolveNamed, Chosen, ValidateSelect, ValidateSelectOverrides
<1>3. CASE n \in DOMAIN p.select /\ n \notin DOMAIN o
  BY <1>3 DEF ResolveNamed, Chosen, ValidateSelect
<1> QED
  BY <1>1, <1>2, <1>3

\* What pickModel decides under a policy that passed the load: it fails only
\* for want of a default rule, and otherwise its model is what the target of
\* some rule resolves to.
LEMMA LoadedPolicyRoutes ==
    ASSUME NEW p, NEW o, NEW ctx,
           None \notin DOMAIN p.models, DOMAIN p.rules \subseteq Nat,
           ValidatePolicy(p), ValidateSelectOverrides(p, o),
           WellFormed(p)
    PROVE  \/ /\ PickModel(ctx, p, o) = Throw
              /\ DefaultRules(p) = {}
           \/ \E i \in DOMAIN p.rules :
                /\ PickModel(ctx, p, o).model
                     = ResolveNamed(p, Named(p.rules[i]), o)
                /\ PickModel(ctx, p, o).model \in DOMAIN p.models
<1> DEFINE stops == StoppingRules(ctx, p)
<1> DEFINE defaults == DefaultRules(p)
<1> DEFINE target(i) == ResolveNamed(p, Named(p.rules[i]), o)
<1>1. \A i \in DOMAIN p.rules : target(i) \in DOMAIN p.models
  BY NamesResolve DEF ValidatePolicy, ValidateRules
<1>2. /\ stops \subseteq DOMAIN p.rules \ defaults
      /\ defaults \subseteq DOMAIN p.rules
  BY DEF StoppingRules, DefaultRules
<1>3. ASSUME NEW i \in DOMAIN p.rules, NEW r
      PROVE  Decide(p, Named(p.rules[i]), r, o) = Decision(target(i), r)
  BY <1>1 DEF Decide
<1>4. CASE stops # {}
  <2>1. Min(stops) \in stops
    BY <1>2, <1>4, MinOfNats
  <2>2. DOMAIN p.rules[Min(stops)] = {"when", "use"}
    BY <2>1, <1>2 DEF WellFormed, DefaultRules
  <2>3. Named(p.rules[Min(stops)]) = p.rules[Min(stops)].use
    BY <2>2 DEF Named
  <2>4. PickModel(ctx, p, o) = Decision(target(Min(stops)), Min(stops) - 1)
    BY <1>2, <1>3, <1>4, <2>1, <2>2, <2>3 DEF PickModel
  <2> QED
    BY <1>1, <1>2, <2>1, <2>4 DEF Decision
<1>5. CASE stops = {} /\ defaults # {}
  <2>1. Min(defaults) \in defaults
    BY <1>2, <1>5, MinOfNats
  <2>2. DOMAIN p.rules[Min(defaults)] = {"default"}
    BY <2>1, <1>2 DEF WellFormed, DefaultRules
  <2>3. Named(p.rules[Min(defaults)]) = p.rules[Min(defaults)].default
    BY <2>2 DEF Named
  <2>4. PickModel(ctx, p, o) = Decision(target(Min(defaults)), -1)
    BY <1>2, <1>3, <1>5, <2>1, <2>3 DEF PickModel
  <2> QED
    BY <1>1, <1>2, <2>1, <2>4 DEF Decision
<1>6. CASE stops = {} /\ defaults = {}
  BY <1>6 DEF PickModel
<1> QED
  BY <1>4, <1>5, <1>6

\* Pre-flight leaves out the ids of UnreachableModelIds; no dispatch of a
\* well-formed policy is ever routed to one of them.
LEMMA RoutedIsReachable ==
    ASSUME NEW p, NEW o, NEW ctx,
           None \notin DOMAIN p.models, DOMAIN p.rules \subseteq Nat,
           ValidatePolicy(p), ValidateSelectOverrides(p, o),
           WellFormed(p),
           PickModel(ctx, p, o) # Throw
    PROVE  PickModel(ctx, p, o).model
             \in DOMAIN p.models \ UnreachableModelIds(p, o)
<1>1. PICK i \in DOMAIN p.rules :
        /\ PickModel(ctx, p, o).model
             = ResolveNamed(p, Named(p.rules[i]), o)
        /\ PickModel(ctx, p, o).model \in DOMAIN p.models
  BY LoadedPolicyRoutes
<1> QED
  BY <1>1 DEF UnreachableModelIds

------------------------------------------------------------------------------

\* A policy that a load accepts under the slot choices o.
Valid(p, o) == ValidatePolicy(p) /\ ValidateSelectOverrides(p, o)

\* The models pre-flight needs to construct before it clears a policy.
Required(p, mode, o) ==
    {m \in DOMAIN p.models \ UnreachableModelIds(p, o) :
        mode = "vendor" \/ p.models[m].adapter # IN_SESSION_ADAPTER}

ActiveValid == activePolicy # None => Valid(activePolicy, overrides)

\* What pre-flight cleared stays constructed: adapters are never evicted while
\* the process lives.
ClearedHolds ==
    \A p \in Policies, mode \in AuthModes :
        <<p, mode>> \in cleared =>
            Valid(p, overrides) /\ \A m \in Required(p, mode, overrides) : adapterCache[m] # None

IInv == TypeOK /\ ActiveValid /\ ClearedHolds

\* A call that was not refused keeps its own policy and what that policy
\* decided, whatever other calls do to the cache.
CallsRouted ==
    \A c \in Calls :
        calls[c].pc \notin {"idle", "refused"} =>
            calls[c].decision = PickModel(calls[c].ctx, calls[c].policy, calls[c].overrides)

\* An event repeats the locals of a call that has ended.
EventsTold ==
    \A i \in DOMAIN telemetry :
        LET ev   == telemetry[i]
            call == calls[ev.call]
        IN  /\ call.pc \in {"answered", "failed", "lost"}
            /\ ev.policy = call.policy
            /\ Decision(ev.model_id, ev.rule)
                 = Decision(call.decision.model, call.decision.rule)
            /\ ev.model = call.policy.models[ev.model_id].model_name

Told == CallsRouted /\ EventsTold

------------------------------------------------------------------------------
\* A model of a policy is a known id with a known configuration.
LEMMA ModelsAreKnown ==
    ASSUME NEW p \in Policies, NEW m \in DOMAIN p.models
    PROVE  m \in ModelIds /\ p.models[m] \in Configs /\ p.models[m] # None /\ m # None
BY DispatchAssumption DEF ModelIds, Configs

\* ensurePolicy yields only accepted policies, and caches nothing else.
LEMMA EnsuredIsValid ==
    ASSUME IInv, NEW key \in Keys
    PROVE  /\ Ensured(key) # None => Ensured(key) \in Policies /\ Valid(Ensured(key), overrides)
           /\ EnsurePolicy(key) =>
                /\ <<activeKey, activePolicy>>' \in (Keys \X Policies) \cup {<<None, None>>}
                /\ overrides' = overrides => ActiveValid'
<1>1. Ensured(key) # None => Ensured(key) \in Policies /\ Valid(Ensured(key), overrides)
  BY DEF IInv, TypeOK, ActiveValid, Ensured, Valid
<1>2. ASSUME EnsurePolicy(key)
      PROVE  /\ <<activeKey, activePolicy>>' \in (Keys \X Policies) \cup {<<None, None>>}
             /\ overrides' = overrides => ActiveValid'
  BY <1>1, <1>2 DEF EnsurePolicy, IInv, TypeOK, ActiveValid, Valid
<1> QED
  BY <1>1, <1>2

LEMMA AdaptersAreConfigs ==
    ASSUME TypeOK, NEW p \in Policies, NEW m \in DOMAIN p.models, NEW found
    PROVE  /\ AdapterFor(p, m, found) \in Configs \cup {None}
           /\ adapterCache[m] # None => AdapterFor(p, m, found) = adapterCache[m]
BY ModelsAreKnown DEF TypeOK, AdapterFor

LEMMA InitIInv == Init => IInv /\ Told
<1> SUFFICES ASSUME Init PROVE IInv /\ Told
  OBVIOUS
<1>1. Idle \in CallStates
  BY DispatchAssumption DEF Idle, CallStates, PCs, Decisions
<1>2. TypeOK
  <2>1. CallsOK
    BY <1>1 DEF Init, CallsOK, CallOK, Idle
  <2> QED
    BY <2>1, DispatchAssumption DEF Init, TypeOK
<1> QED
  BY <1>2 DEF Init, IInv, ActiveValid, ClearedHolds, Told, CallsRouted, EventsTold, Idle

\* What one Execute step does, case by case.
LEMMA ExecuteCases ==
    ASSUME IInv, NEW c \in Calls, NEW key \in Keys, NEW ctx \in Contexts,
           NEW found \in BOOLEAN, Execute(c, key, ctx, found)
    PROVE  LET p == Ensured(key)
               d == PickModel(ctx, p, overrides)
           IN  /\ calls[c].pc = "idle" /\ EnsurePolicy(key)
               /\ UNCHANGED <<disk, others, telemetry, overrides, cleared>>
               /\ \E s \in CallStates :
                    /\ calls' = [calls EXCEPT ![c] = s]
                    /\ \/ s.pc = "refused" /\ UNCHANGED adapterCache
                       \/ /\ p \in Policies /\ Valid(p, overrides) /\ d.model \in DOMAIN p.models
                          /\ s.ctx = ctx /\ s.overrides = overrides
                          /\ s.policy = p /\ s.decision = d
                          /\ \/ /\ s.pc = "unconstructed" /\ adapterCache[d.model] = None
                                /\ UNCHANGED adapterCache
                             \/ /\ s.pc = "waiting" /\ s.config # None
                                /\ s.config \in Configs
                                /\ adapterCache' = [adapterCache EXCEPT ![d.model] = s.config]
<1> DEFINE p == Ensured(key)
<1> DEFINE d == PickModel(ctx, p, overrides)
<1> DEFINE a == AdapterFor(p, d.model, found)
<1> DEFINE s(pc, dec, cfg) ==
             [pc |-> pc, ctx |-> ctx, overrides |-> overrides, policy |-> p,
              decision |-> dec, config |-> cfg, attempts |-> 0]
<1>0. /\ calls[c].pc = "idle" /\ EnsurePolicy(key)
      /\ UNCHANGED <<disk, others, telemetry, overrides, cleared>>
  BY DEF Execute
<1>1. p # None => p \in Policies /\ Valid(p, overrides)
  BY EnsuredIsValid
<1>2. ASSUME NEW pc \in PCs, NEW dec \in Decisions, NEW cfg \in Configs \cup {None}
      PROVE  s(pc, dec, cfg) \in CallStates
  <2> HIDE DEF p
  <2> QED
    BY <1>1, DispatchAssumption DEF CallStates, IInv, TypeOK
<1>3. Throw \in Decisions /\ (p # None => d \in Decisions)
  <2>1. overrides \in SlotChoices
    BY DEF IInv, TypeOK
  <2> HIDE DEF p
  <2> QED
    BY <1>1, <2>1 DEF Decisions
<1>4. CASE p = None \/ d.model \notin DOMAIN p.models
  <2>1. calls' = [calls EXCEPT ![c] = s("refused", Throw, None)] /\ UNCHANGED adapterCache
    BY <1>4 DEF Execute
  <2>2. s("refused", Throw, None) \in CallStates
    BY <1>2, <1>3 DEF PCs
  <2> HIDE DEF p, d
  <2>3. s("refused", Throw, None).pc = "refused"
    OBVIOUS
  <2> HIDE DEF s
  <2> QED
    BY <1>0, <2>1, <2>2, <2>3 DEF p, d
<1>5. CASE p # None /\ d.model \in DOMAIN p.models /\ a = None
  <2>1. /\ calls' = [calls EXCEPT ![c] = s("unconstructed", d, None)]
        /\ UNCHANGED adapterCache
    BY <1>5 DEF Execute
  <2>2. s("unconstructed", d, None) \in CallStates
    BY <1>2, <1>3, <1>5 DEF PCs
  <2>3. adapterCache[d.model] = None
    BY <1>5 DEF AdapterFor
  <2> HIDE DEF p, d, a
  <2>4. LET t == s("unconstructed", d, None)
        IN  t.pc = "unconstructed" /\ t.ctx = ctx /\ t.overrides = overrides
            /\ t.policy = p /\ t.decision = d
    OBVIOUS
  <2> HIDE DEF s
  <2> QED
    BY <1>0, <1>1, <1>5, <2>1, <2>2, <2>3, <2>4 DEF p, d
<1>6. CASE p # None /\ d.model \in DOMAIN p.models /\ a # None
  <2>0. a \in Configs
    BY <1>1, <1>6, AdaptersAreConfigs DEF IInv
  <2>1. /\ calls' = [calls EXCEPT ![c] = s("waiting", d, a)]
        /\ adapterCache' = [adapterCache EXCEPT ![d.model] = a]
    BY <1>6 DEF Execute
  <2>2. s("waiting", d, a) \in CallStates
    BY <1>2, <1>3, <1>6, <2>0 DEF PCs
  <2> HIDE DEF p, d, a
  <2>4. LET t == s("waiting", d, a)
        IN  t.pc = "waiting" /\ t.ctx = ctx /\ t.overrides = overrides
            /\ t.policy = p /\ t.decision = d /\ t.config = a
    OBVIOUS
  <2>5. a # None
    BY <1>6
  <2> HIDE DEF s
  <2> QED
    BY <1>0, <1>1, <1>6, <2>0, <2>1, <2>2, <2>4, <2>5 DEF p, d
<1> QED
  BY <1>4, <1>5, <1>6

------------------------------------------------------------------------------
\* Slot choices and clearances that stay, adapters that are only added: what
\* was cleared stays constructed.
LEMMA ClearedStays ==
    ASSUME IInv, UNCHANGED <<overrides, cleared>>,
           \A m \in ModelIds : adapterCache[m] # None => adapterCache'[m] # None
    PROVE  ClearedHolds'
<1>1. ASSUME NEW p \in Policies, NEW mode
      PROVE  Required(p, mode, overrides) \subseteq ModelIds
  BY ModelsAreKnown DEF Required
<1> QED
  BY <1>1 DEF IInv, ClearedHolds

\* A step that changes the record of one call.
LEMMA OneCall ==
    ASSUME CallsOK, NEW c \in Calls, NEW r, CallOK(r), calls' = [calls EXCEPT ![c] = r]
    PROVE  CallsOK'
<1> USE DEF CallsOK
<1>1. calls' \in [Calls -> CallStates]
  BY DEF CallOK
<1>2. ASSUME NEW k \in Calls PROVE CallOK(calls'[k])
  BY DEF CallOK
<1> QED
  BY <1>1, <1>2

LEMMA ExecuteIInv ==
    ASSUME IInv, NEW c \in Calls, NEW key \in Keys, NEW ctx \in Contexts,
           NEW found \in BOOLEAN, Execute(c, key, ctx, found)
    PROVE  IInv'
<1> DEFINE p == Ensured(key)
<1> DEFINE d == PickModel(ctx, p, overrides)
<1>1. PICK s \in CallStates :
        /\ calls' = [calls EXCEPT ![c] = s]
        /\ \/ s.pc = "refused" /\ UNCHANGED adapterCache
           \/ /\ p \in Policies /\ Valid(p, overrides) /\ d.model \in DOMAIN p.models
              /\ s.ctx = ctx /\ s.overrides = overrides
              /\ s.policy = p /\ s.decision = d
              /\ \/ /\ s.pc = "unconstructed" /\ adapterCache[d.model] = None
                    /\ UNCHANGED adapterCache
                 \/ /\ s.pc = "waiting" /\ s.config # None
                    /\ s.config \in Configs
                    /\ adapterCache' = [adapterCache EXCEPT ![d.model] = s.config]
  BY ExecuteCases
<1>2. EnsurePolicy(key) /\ UNCHANGED <<disk, others, telemetry, overrides, cleared>>
  BY ExecuteCases
<1> HIDE DEF p, d
<1>3. p \in Policies /\ d.model \in DOMAIN p.models => d.model \in ModelIds
  BY ModelsAreKnown
<1>4. /\ adapterCache' \in [ModelIds -> Configs \cup {None}]
      /\ \A m \in ModelIds : adapterCache[m] # None => adapterCache'[m] # None
  BY <1>1, <1>3 DEF IInv, TypeOK
<1>5. CallOK(s)
  BY <1>1, DispatchAssumption DEF CallOK
<1>6. CallsOK'
  BY <1>1, <1>5, OneCall DEF IInv, TypeOK
<1>7. ClearedHolds'
  BY <1>2, <1>4, ClearedStays
<1>8. /\ <<activeKey, activePolicy>>' \in (Keys \X Policies) \cup {<<None, None>>}
      /\ ActiveValid'
  BY <1>2, EnsuredIsValid
<1>9. TypeOK'
  BY <1>2, <1>4, <1>6, <1>8 DEF IInv, TypeOK
<1> QED
  BY <1>7, <1>8, <1>9 DEF IInv

\* Appending reports keeps the file well typed and what it already holds.
LEMMA AppendKeeps ==
    ASSUME TypeOK, NEW c \in Calls, calls[c].pc = "waiting",
           NEW written \in 0..calls[c].attempts, AppendEvents(c, written)
    PROVE  /\ telemetry' \in Seq(Events)
           /\ \A i \in DOMAIN telemetry' :
                \/ i \in DOMAIN telemetry /\ telemetry'[i] = telemetry[i]
                \/ \E n \in 1..written : telemetry'[i] = Event(c, n)
<1>1. /\ calls[c].attempts \in 0..MaxAttempts /\ MaxAttempts \in Nat
      /\ calls[c].policy \in Policies /\ calls[c].config \in Configs
      /\ calls[c].decision \in Decisions
      /\ calls[c].decision.model \in DOMAIN calls[c].policy.models
  BY DispatchAssumption DEF TypeOK, CallsOK, CallOK, CallStates
<1>2. /\ calls[c].decision.model \in ModelIds
      /\ calls[c].policy.models[calls[c].decision.model] \in Configs
  BY <1>1, ModelsAreKnown
<1>3. ASSUME NEW n \in 1..written PROVE Event(c, n) \in Events
  <2>1. n \in 1..MaxAttempts
    BY <1>1
  <2> QED
    BY <1>1, <1>2, <2>1 DEF Event, Events
<1> DEFINE new == [n \in 1..written |-> Event(c, n)]
<1>4. new \in Seq(Events) /\ Len(new) = written
  <2>1. written \in Nat
    BY <1>1
  <2> QED
    BY <1>3, <2>1
<1>5. telemetry \in Seq(Events) /\ telemetry' = telemetry \o new
  BY DEF TypeOK, AppendEvents
<1>6. \A n \in 1..written : new[n] = Event(c, n)
  OBVIOUS
<1> HIDE DEF new
<1>7. telemetry' \in Seq(Events)
  BY <1>4, <1>5
<1>8. ASSUME NEW i \in DOMAIN telemetry'
      PROVE  \/ i \in DOMAIN telemetry /\ telemetry'[i] = telemetry[i]
             \/ \E n \in 1..written : telemetry'[i] = new[n]
  BY <1>4, <1>5, <1>7
<1> QED
  BY <1>6, <1>7, <1>8

------------------------------------------------------------------------------
\* Pre-flight adds adapters for the models it checks, and clears the policy
\* only if the required ones are there.
LEMMA PreflightIInv ==
    ASSUME IInv, NEW key \in Keys, NEW mode \in AuthModes, NEW found \in SUBSET ModelIds,
           Preflight(key, mode, found)
    PROVE  IInv'
<1> DEFINE p == Ensured(key)
<1> DEFINE checked == DOMAIN p.models \ UnreachableModelIds(p, overrides)
<1>1. p \in Policies /\ Valid(p, overrides) /\ EnsurePolicy(key)
  BY EnsuredIsValid DEF Preflight
<1>2. /\ UNCHANGED <<disk, telemetry, overrides, calls>>
      /\ adapterCache' = [m \in ModelIds |->
                            IF m \in checked THEN AdapterFor(p, m, m \in found)
                            ELSE adapterCache[m]]
      /\ cleared' = IF \A m \in Required(p, mode, overrides) : adapterCache'[m] # None
                    THEN cleared \cup {<<p, mode>>} ELSE cleared
  BY DEF Preflight, Required
<1> HIDE DEF p
<1>3. ASSUME NEW m \in checked
      PROVE  /\ AdapterFor(p, m, m \in found) \in Configs \cup {None}
             /\ adapterCache[m] # None => AdapterFor(p, m, m \in found) = adapterCache[m]
  BY <1>1, <1>3, AdaptersAreConfigs DEF IInv
<1>4. adapterCache' \in [ModelIds -> Configs \cup {None}]
  BY <1>2, <1>3 DEF IInv, TypeOK
<1>5. \A m \in ModelIds : adapterCache[m] # None => adapterCache'[m] # None
  BY <1>2, <1>3
<1>6. /\ <<activeKey, activePolicy>>' \in (Keys \X Policies) \cup {<<None, None>>}
      /\ ActiveValid'
  BY <1>1, <1>2, EnsuredIsValid
<1>7. CallsOK'
  BY <1>2 DEF IInv, TypeOK, CallsOK
<1>8. TypeOK'
  BY <1>1, <1>2, <1>4, <1>6, <1>7 DEF IInv, TypeOK
<1>9. ClearedHolds'
  <2> SUFFICES ASSUME NEW q \in Policies, NEW mo \in AuthModes, <<q, mo>> \in cleared'
               PROVE  /\ Valid(q, overrides')
                      /\ \A m \in Required(q, mo, overrides') : adapterCache'[m] # None
    BY DEF ClearedHolds
  <2>1. Required(q, mo, overrides) \subseteq ModelIds
    BY ModelsAreKnown DEF Required
  <2>2. CASE <<q, mo>> \in cleared
    BY <1>2, <1>5, <2>1, <2>2 DEF IInv, ClearedHolds
  <2>3. CASE <<q, mo>> \notin cleared
    BY <1>1, <1>2, <2>3
  <2> QED
    BY <2>2, <2>3
<1> QED
  BY <1>6, <1>8, <1>9 DEF IInv

\* The handler after its await leaves the caches alone and changes one call.
LEMMA AnswerIInv ==
    ASSUME IInv, NEW c \in Calls, VendorAttempt(c) \/ Finish(c) \/ ExecuteThrows(c)
    PROVE  IInv'
<1>1. /\ calls[c].pc = "waiting" /\ CallOK(calls[c])
      /\ UNCHANGED <<disk, others, overrides, activeKey, activePolicy, adapterCache, cleared>>
  BY DEF VendorAttempt, Finish, ExecuteThrows, IInv, TypeOK, CallsOK
<1>2. telemetry' \in Seq(Events)
  BY AppendKeeps DEF Finish, VendorAttempt, ExecuteThrows, IInv, TypeOK
<1>3. PICK r : CallOK(r) /\ calls' = [calls EXCEPT ![c] = r]
  <2>1. CASE VendorAttempt(c)
    <3> DEFINE r == [calls[c] EXCEPT !.attempts = @ + 1]
    <3>1. calls[c] \in CallStates /\ calls[c].attempts \in 0..MaxAttempts
          /\ calls[c].attempts + 1 \in 0..MaxAttempts
      BY <1>1, <2>1, DispatchAssumption DEF VendorAttempt, CallOK, CallStates
    <3>2. CallOK(r)
      BY <1>1, <3>1 DEF CallOK, CallStates
    <3>3. calls' = [calls EXCEPT ![c] = r]
      BY <2>1 DEF VendorAttempt
    <3> QED
      BY <3>2, <3>3
  <2>2. ASSUME NEW pc \in PCs \ {"waiting"}
        PROVE  CallOK([calls[c] EXCEPT !.pc = pc])
    BY <1>1 DEF CallOK, CallStates
  <2>3. CASE Finish(c)
    BY <2>2, <2>3 DEF Finish, PCs
  <2>4. CASE ExecuteThrows(c)
    BY <2>2, <2>4 DEF ExecuteThrows, PCs
  <2> QED
    BY <2>1, <2>3, <2>4
<1>4. CallsOK'
  BY <1>3, OneCall DEF IInv, TypeOK
<1>5. ClearedHolds' /\ ActiveValid'
  BY <1>1 DEF IInv, ClearedHolds, ActiveValid
<1>6. TypeOK'
  BY <1>1, <1>2, <1>4 DEF IInv, TypeOK
<1> QED
  BY <1>5, <1>6 DEF IInv

LEMMA NextIInv == IInv /\ [Next]_vars => IInv'
<1> SUFFICES ASSUME IInv, [Next]_vars PROVE IInv'
  OBVIOUS
<1>1. ASSUME NEW c \in Calls, NEW key \in Keys, NEW ctx \in Contexts,
             NEW found \in BOOLEAN, Execute(c, key, ctx, found)
      PROVE  IInv'
  BY <1>1, ExecuteIInv
<1>2. ASSUME NEW c \in Calls, VendorAttempt(c) \/ Finish(c) \/ ExecuteThrows(c)
      PROVE  IInv'
  BY <1>2, AnswerIInv
<1>3. ASSUME NEW key \in Keys, NEW mode \in AuthModes, NEW found \in SUBSET ModelIds,
             Preflight(key, mode, found)
      PROVE  IInv'
  BY <1>3, PreflightIInv
<1>4. ASSUME NEW key \in Keys, LoadPolicy(key) \/ SimulatePolicy(key)
      PROVE  IInv'
  <2>1. EnsurePolicy(key)
        /\ UNCHANGED <<disk, telemetry, overrides, adapterCache, calls, cleared>>
    BY <1>4 DEF LoadPolicy, SimulatePolicy
  <2>2. /\ <<activeKey, activePolicy>>' \in (Keys \X Policies) \cup {<<None, None>>}
        /\ ActiveValid'
    BY <2>1, EnsuredIsValid
  <2>3. ClearedHolds'
    BY <2>1, ClearedStays
  <2>4. TypeOK'
    BY <2>1, <2>2 DEF IInv, TypeOK, CallsOK
  <2> QED
    BY <2>2, <2>3, <2>4 DEF IInv
<1>5. ASSUME NEW key \in Keys, EditPolicy(key)
      PROVE  IInv'
  BY <1>5 DEF EditPolicy, IInv, TypeOK, CallsOK, ActiveValid, ClearedHolds
<1>6. ASSUME Crash
      PROVE  IInv'
  <2>1. telemetry' \in Seq(Events)
    <3>1. ASSUME NEW c \in Calls, calls[c].pc = "waiting",
                 NEW written \in 1..calls[c].attempts, AppendEvents(c, written)
          PROVE  telemetry' \in Seq(Events)
      <4>1. written \in 0..calls[c].attempts
        BY DEF IInv, TypeOK, CallsOK, CallOK, CallStates
      <4> QED
        BY <3>1, <4>1, AppendKeeps DEF IInv
    <3> QED
      BY <1>6, <3>1 DEF Crash, IInv, TypeOK
  <2>2. ASSUME NEW c \in Calls
        PROVE  calls[c] \in CallStates /\ [calls[c] EXCEPT !.pc = "lost"] \in CallStates
    BY DEF IInv, TypeOK, CallsOK, CallOK, CallStates, PCs
  <2>3. CallsOK'
    BY <1>6, <2>2 DEF Crash, IInv, TypeOK, CallsOK, CallOK
  <2>4. adapterCache' \in [ModelIds -> Configs \cup {None}]
    BY <1>6 DEF Crash
  <2>5. TypeOK'
    BY <1>6, <2>1, <2>3, <2>4 DEF Crash, IInv, TypeOK
  <2> QED
    BY <1>6, <2>5 DEF Crash, IInv, ActiveValid, ClearedHolds
<1>7. CASE UNCHANGED vars
  BY <1>7 DEF vars, IInv, TypeOK, CallsOK, ActiveValid, ClearedHolds
<1> QED
  BY <1>1, <1>2, <1>3, <1>4, <1>5, <1>6, <1>7 DEF Next

------------------------------------------------------------------------------
LEMMA EventsOfCalls ==
    ASSUME TypeOK, NEW i \in DOMAIN telemetry
    PROVE  telemetry[i].call \in Calls
<1>1. telemetry[i] \in Events
  BY DEF TypeOK
<1> QED
  BY <1>1 DEF Events

\* Calls that keep their routing, or have none to keep, and events that stay or
\* that report a call whose record is now closed: events still tell the route.
LEMMA ToldStays ==
    ASSUME IInv, Told,
           \A c \in Calls :
               \/ calls'[c] = calls[c]
               \/ /\ calls[c].pc = "waiting"
                  /\ calls'[c].pc \in {"waiting", "answered", "failed", "lost"}
                  /\ calls'[c].ctx = calls[c].ctx /\ calls'[c].policy = calls[c].policy
                  /\ calls'[c].overrides = calls[c].overrides
                  /\ calls'[c].decision = calls[c].decision,
           \A i \in DOMAIN telemetry' :
               \/ i \in DOMAIN telemetry /\ telemetry'[i] = telemetry[i]
               \/ \E c \in Calls, n \in Nat :
                    /\ telemetry'[i] = Event(c, n) /\ calls[c].pc = "waiting"
                    /\ calls'[c].pc \in {"answered", "failed", "lost"}
    PROVE  Told'
<1>1. CallsRouted'
  BY DEF Told, CallsRouted
<1>2. ASSUME NEW i \in DOMAIN telemetry'
      PROVE  LET ev   == telemetry'[i]
                 call == calls'[ev.call]
             IN  /\ call.pc \in {"answered", "failed", "lost"}
                 /\ ev.policy = call.policy
                 /\ Decision(ev.model_id, ev.rule)
                      = Decision(call.decision.model, call.decision.rule)
                 /\ ev.model = call.policy.models[ev.model_id].model_name
  <2>1. CASE i \in DOMAIN telemetry /\ telemetry'[i] = telemetry[i]
    <3>1. telemetry[i].call \in Calls
      BY <2>1, EventsOfCalls DEF IInv
    <3>2. calls[telemetry[i].call].pc # "waiting"
      BY <2>1 DEF Told, EventsTold
    <3>3. calls'[telemetry[i].call] = calls[telemetry[i].call]
      BY <3>1, <3>2
    <3> QED
      BY <2>1, <3>3 DEF Told, EventsTold
  <2>2. CASE \E c \in Calls, n \in Nat :
               /\ telemetry'[i] = Event(c, n) /\ calls[c].pc = "waiting"
               /\ calls'[c].pc \in {"answered", "failed", "lost"}
    <3>1. PICK c \in Calls, n \in Nat :
             /\ telemetry'[i] = Event(c, n) /\ calls[c].pc = "waiting"
             /\ calls'[c].pc \in {"answered", "failed", "lost"}
      BY <2>2
    <3>2. calls'[c].policy = calls[c].policy /\ calls'[c].decision = calls[c].decision
      BY <3>1
    <3>3. /\ Event(c, n).call = c /\ Event(c, n).policy = calls[c].policy
          /\ Event(c, n).rule = calls[c].decision.rule
          /\ Event(c, n).model_id = calls[c].decision.model
          /\ Event(c, n).model
               = calls[c].policy.models[calls[c].decision.model].model_name
      BY DEF Event
    <3> QED
      BY <3>1, <3>2, <3>3
  <2> QED
    BY <1>2, <2>1, <2>2
<1>3. EventsTold'
  BY <1>2 DEF EventsTold
<1> QED
  BY <1>1, <1>3 DEF Told

LEMMA NextTold == IInv /\ Told /\ [Next]_vars => Told'
<1> SUFFICES ASSUME IInv, Told, [Next]_vars PROVE Told'
  OBVIOUS
<1>0. \A c \in Calls : calls[c] \in CallStates
  BY DEF IInv, TypeOK, CallsOK, CallOK
<1>1. ASSUME NEW c \in Calls, NEW key \in Keys, NEW ctx \in Contexts,
             NEW found \in BOOLEAN, Execute(c, key, ctx, found)
      PROVE  Told'
  <2>1. PICK s \in CallStates :
          /\ calls' = [calls EXCEPT ![c] = s] /\ calls[c].pc = "idle"
          /\ UNCHANGED telemetry
          /\ \/ s.pc = "refused"
             \/ s.decision = PickModel(s.ctx, s.policy, s.overrides)
    BY <1>1, ExecuteCases
  <2>2. CallsRouted'
    BY <2>1 DEF Told, CallsRouted, IInv, TypeOK, CallsOK
  <2>3. ASSUME NEW i \in DOMAIN telemetry
        PROVE  calls'[telemetry[i].call] = calls[telemetry[i].call]
    <3>1. calls[telemetry[i].call].pc # "idle"
      BY DEF Told, EventsTold
    <3> QED
      BY <2>1, <3>1 DEF IInv, TypeOK, CallsOK
  <2>4. EventsTold'
    BY <2>1, <2>3 DEF Told, EventsTold
  <2> QED
    BY <2>2, <2>4 DEF Told
<1>2. ASSUME NEW c \in Calls, VendorAttempt(c) \/ ExecuteThrows(c)
      PROVE  Told'
  BY <1>0, <1>2, ToldStays
     DEF VendorAttempt, ExecuteThrows, IInv, TypeOK, CallsOK, CallStates
<1>3. ASSUME NEW c \in Calls, Finish(c)
      PROVE  Told'
  <2>1. PICK written \in 0..calls[c].attempts :
          /\ calls[c].pc = "waiting" /\ AppendEvents(c, written)
          /\ calls' = [calls EXCEPT ![c].pc =
                          IF written = calls[c].attempts THEN "answered" ELSE "failed"]
    BY <1>3 DEF Finish
  <2>2. calls'[c].pc \in {"answered", "failed"}
        /\ calls'[c].ctx = calls[c].ctx /\ calls'[c].policy = calls[c].policy
        /\ calls'[c].overrides = calls[c].overrides
        /\ calls'[c].decision = calls[c].decision
    BY <1>0, <2>1 DEF IInv, TypeOK, CallsOK, CallStates
  <2>3. \A k \in Calls \ {c} : calls'[k] = calls[k]
    BY <2>1 DEF IInv, TypeOK, CallsOK
  <2>4. \A n \in 1..written : n \in Nat
    OBVIOUS
  <2> QED
    BY <2>1, <2>2, <2>3, <2>4, AppendKeeps, ToldStays DEF IInv
<1>4. ASSUME UNCHANGED <<telemetry, calls>>
      PROVE  Told'
  BY <1>4 DEF Told, CallsRouted, EventsTold
<1>5. ASSUME Crash
      PROVE  Told'
  <2>1. \A k \in Calls :
          \/ calls'[k] = calls[k] /\ calls[k].pc # "waiting"
          \/ /\ calls[k].pc = "waiting" /\ calls'[k].pc = "lost"
             /\ calls'[k].ctx = calls[k].ctx /\ calls'[k].policy = calls[k].policy
             /\ calls'[k].overrides = calls[k].overrides
             /\ calls'[k].decision = calls[k].decision
    BY <1>0, <1>5 DEF Crash, CallStates
  <2>2. CASE UNCHANGED telemetry
    BY <2>1, <2>2, ToldStays
  <2>3. CASE ~ UNCHANGED telemetry
    <3>1. PICK c \in Calls : /\ calls[c].pc = "waiting"
                            /\ \E w \in 1..calls[c].attempts : AppendEvents(c, w)
      BY <1>5, <2>3 DEF Crash
    <3>2. PICK written \in 1..calls[c].attempts : AppendEvents(c, written)
      BY <3>1
    <3>3. written \in 0..calls[c].attempts /\ \A n \in 1..written : n \in Nat
      BY <1>0 DEF CallStates
    <3>4. calls'[c].pc = "lost"
      BY <2>1, <3>1
    <3> QED
      BY <2>1, <3>1, <3>2, <3>3, <3>4, AppendKeeps, ToldStays DEF IInv
  <2> QED
    BY <2>2, <2>3
<1> QED
  BY <1>1, <1>2, <1>3, <1>4, <1>5
     DEF Next, Preflight, LoadPolicy, SimulatePolicy, EditPolicy, vars

------------------------------------------------------------------------------
(* Telemetry against the vendors' bills                                      *)

\* The events that `tel` holds of call c are those of attempts 1..n, in order.
InOrder(tel, c, n) ==
    LET at == {i \in DOMAIN tel : tel[i].call = c} IN
    /\ \A i, j \in at : i < j => tel[i].attempt < tel[j].attempt
    /\ {tel[i].attempt : i \in at} = 1..n

\* How many of its attempts a call may have reported.
MayReport(call, n) ==
    /\ n \in 0..call.attempts
    /\ call.pc = "answered" => n = call.attempts
    /\ call.pc = "waiting" => n = 0

LEMMA BillingByCall ==
    TelemetryMatchesBilling <=>
        \A c \in Calls : \E n \in Nat : InOrder(telemetry, c, n) /\ MayReport(calls[c], n)
BY DEF TelemetryMatchesBilling, InOrder, MayReport, Reported, EventsOf

\* A call that is idle, or still waits, has no events.
LEMMA OpenCallsAreSilent ==
    ASSUME Told, NEW c \in Calls, calls[c].pc \in {"idle", "waiting"}
    PROVE  \A i \in DOMAIN telemetry : telemetry[i].call # c
BY DEF Told, EventsTold

LEMMA NoneIsInOrder ==
    ASSUME NEW tel, NEW c, \A i \in DOMAIN tel : tel[i].call # c
    PROVE  InOrder(tel, c, 0)
BY DEF InOrder

\* Events of one call that follow those of others.
LEMMA AppendedInOrder ==
    ASSUME IInv, Told, NEW c \in Calls, calls[c].pc = "waiting",
           NEW w \in 0..calls[c].attempts, AppendEvents(c, w)
    PROVE  /\ InOrder(telemetry', c, w)
           /\ \A k \in Calls \ {c}, n \in Nat : InOrder(telemetry, k, n) => InOrder(telemetry', k, n)
<1> DEFINE new == [n \in 1..w |-> Event(c, n)]
           L   == Len(telemetry)
<1>1. w \in Nat /\ L \in Nat /\ telemetry \in Seq(Events)
  BY DEF IInv, TypeOK, CallsOK, CallOK, CallStates
<1>2. telemetry' = telemetry \o new
  BY DEF AppendEvents
<1>3. \A n \in 1..w : new[n].call = c /\ new[n].attempt = n
  BY DEF Event
<1>4. Len(new) = w /\ new \in Seq({new[n] : n \in 1..w})
  BY <1>1
<1> HIDE DEF new
<1>5. /\ DOMAIN telemetry = 1..L /\ DOMAIN telemetry' = 1..(L + w)
      /\ \A i \in 1..L : telemetry'[i] = telemetry[i]
      /\ \A i \in (L + 1)..(L + w) : telemetry'[i] = new[i - L]
  <2> DEFINE S == Events \cup {new[n] : n \in 1..w}
  <2>1. telemetry \in Seq(S) /\ new \in Seq(S)
    BY <1>1, <1>4
  <2> HIDE DEF S
  <2>2. /\ Len(telemetry') = L + w /\ telemetry' \in Seq(S)
        /\ \A i \in 1..(L + w) : telemetry'[i] = IF i <= L THEN telemetry[i] ELSE new[i - L]
    BY <1>2, <1>4, <2>1, ConcatProperties
  <2>3. \A i \in (L + 1)..(L + w) : i \in 1..(L + w) /\ ~(i <= L)
    BY <1>1
  <2>4. \A i \in 1..L : i \in 1..(L + w) /\ i <= L
    BY <1>1
  <2>5. DOMAIN telemetry = 1..L /\ DOMAIN telemetry' = 1..(L + w)
    BY <1>1, <2>2
  <2> HIDE DEF L
  <2> QED
    BY <2>2, <2>3, <2>4, <2>5
<1> HIDE DEF L
<1>6. \A i \in DOMAIN telemetry : telemetry[i].call # c
  BY OpenCallsAreSilent
<1>7. \A i \in (L + 1)..(L + w) : telemetry'[i].call = c /\ telemetry'[i].attempt = i - L
  BY <1>1, <1>3, <1>5
<1>8. {i \in DOMAIN telemetry' : telemetry'[i].call = c} = (L + 1)..(L + w)
  BY <1>1, <1>5, <1>6, <1>7
<1>9. InOrder(telemetry', c, w)
  <2>1. {telemetry'[i].attempt : i \in (L + 1)..(L + w)} = 1..w
    <3>1. \A n \in 1..w : L + n \in (L + 1)..(L + w) /\ telemetry'[L + n].attempt = n
      BY <1>1, <1>7
    <3>2. \A i \in (L + 1)..(L + w) : telemetry'[i].attempt \in 1..w
      BY <1>1, <1>7
    <3> QED
      BY <3>1, <3>2
  <2>2. \A i, j \in (L + 1)..(L + w) : i < j => telemetry'[i].attempt < telemetry'[j].attempt
    BY <1>1, <1>7
  <2> QED
    BY <1>8, <2>1, <2>2 DEF InOrder
<1>10. ASSUME NEW k \in Calls \ {c}, NEW n \in Nat, InOrder(telemetry, k, n)
       PROVE  InOrder(telemetry', k, n)
  <2> DEFINE at == {i \in DOMAIN telemetry : telemetry[i].call = k}
  <2>1. {i \in DOMAIN telemetry' : telemetry'[i].call = k} = at
    BY <1>1, <1>5, <1>7
  <2>2. \A i \in at : telemetry'[i] = telemetry[i]
    BY <1>5
  <2>3. /\ \A i, j \in at : i < j => telemetry[i].attempt < telemetry[j].attempt
        /\ {telemetry[i].attempt : i \in at} = 1..n
    BY <1>10 DEF InOrder
  <2> HIDE DEF at
  <2>4. {telemetry'[i].attempt : i \in at} = 1..n
    BY <2>2, <2>3
  <2> QED
    BY <2>1, <2>2, <2>3, <2>4 DEF InOrder
<1> QED
  BY <1>9, <1>10

\* A call that keeps its record, or that was open and is not answered now.
KeptOrOpen(c) ==
    \/ calls'[c] = calls[c]
    \/ /\ calls[c].pc \in {"idle", "waiting"}
       /\ calls'[c].pc # "answered" /\ calls'[c].attempts \in Nat

LEMMA SilentStepsKeepBilling ==
    ASSUME Told, TelemetryMatchesBilling, UNCHANGED telemetry,
           \A c \in Calls : KeptOrOpen(c)
    PROVE  TelemetryMatchesBilling'
<1>1. ASSUME NEW c \in Calls
      PROVE  \E n \in Nat : InOrder(telemetry, c, n) /\ MayReport(calls'[c], n)
  <2>1. CASE calls'[c] = calls[c]
    BY <2>1, BillingByCall
  <2>2. CASE calls'[c] # calls[c]
    BY <2>2, OpenCallsAreSilent, NoneIsInOrder DEF KeptOrOpen, MayReport
  <2> QED
    BY <2>1, <2>2
<1>2. \A c \in Calls : \E n \in Nat : InOrder(telemetry', c, n) /\ MayReport(calls'[c], n)
  BY <1>1
<1> QED
  BY <1>2 DEF TelemetryMatchesBilling, InOrder, MayReport, Reported, EventsOf

LEMMA AppendsKeepBilling ==
    ASSUME IInv, Told, TelemetryMatchesBilling,
           NEW c \in Calls, calls[c].pc = "waiting",
           NEW w \in 0..calls[c].attempts, AppendEvents(c, w), MayReport(calls'[c], w),
           \A k \in Calls \ {c} : KeptOrOpen(k)
    PROVE  TelemetryMatchesBilling'
<1>1. w \in Nat
  BY DEF IInv, TypeOK, CallsOK, CallOK, CallStates
<1>2. ASSUME NEW k \in Calls
      PROVE  \E n \in Nat : InOrder(telemetry', k, n) /\ MayReport(calls'[k], n)
  <2>1. CASE k = c
    BY <1>1, <2>1, AppendedInOrder
  <2>2. ASSUME k # c, calls'[k] = calls[k]
        PROVE  \E n \in Nat : InOrder(telemetry', k, n) /\ MayReport(calls'[k], n)
    <3>1. PICK n \in Nat : InOrder(telemetry, k, n) /\ MayReport(calls[k], n)
      BY BillingByCall
    <3> QED
      BY <2>2, <3>1, AppendedInOrder
  <2>3. ASSUME k # c, calls'[k] # calls[k]
        PROVE  \E n \in Nat : InOrder(telemetry', k, n) /\ MayReport(calls'[k], n)
    <3>1. InOrder(telemetry, k, 0) /\ MayReport(calls'[k], 0)
      BY <2>3, OpenCallsAreSilent, NoneIsInOrder DEF KeptOrOpen, MayReport
    <3> QED
      BY <2>3, <3>1, AppendedInOrder
  <2> QED
    BY <2>1, <2>2, <2>3
<1> QED
  BY <1>2 DEF TelemetryMatchesBilling, InOrder, MayReport, Reported, EventsOf

LEMMA NextBilling ==
    IInv /\ Told /\ TelemetryMatchesBilling /\ [Next]_vars => TelemetryMatchesBilling'
<1> SUFFICES ASSUME IInv, Told, TelemetryMatchesBilling, [Next]_vars
             PROVE  TelemetryMatchesBilling'
  OBVIOUS
<1>0. \A c \in Calls : calls[c] \in CallStates /\ calls[c].attempts \in Nat
  BY DEF IInv, TypeOK, CallsOK, CallOK, CallStates
<1>1. ASSUME NEW c \in Calls, NEW key \in Keys, NEW ctx \in Contexts,
             NEW found \in BOOLEAN, Execute(c, key, ctx, found)
      PROVE  TelemetryMatchesBilling'
  <2>1. PICK s \in CallStates :
          /\ calls' = [calls EXCEPT ![c] = s] /\ calls[c].pc = "idle"
          /\ UNCHANGED telemetry /\ s.pc \in {"refused", "unconstructed", "waiting"}
    BY <1>1, ExecuteCases
  <2>2. s.attempts \in Nat
    BY DEF CallStates
  <2>3. \A k \in Calls : KeptOrOpen(k)
    BY <2>1, <2>2 DEF KeptOrOpen, IInv, TypeOK, CallsOK
  <2> QED
    BY <2>1, <2>3, SilentStepsKeepBilling
<1>2. ASSUME NEW c \in Calls, VendorAttempt(c) \/ ExecuteThrows(c)
      PROVE  TelemetryMatchesBilling'
  <2>1. UNCHANGED telemetry /\ \A k \in Calls : KeptOrOpen(k)
    BY <1>0, <1>2 DEF VendorAttempt, ExecuteThrows, KeptOrOpen, IInv, TypeOK, CallsOK, CallStates
  <2> QED
    BY <2>1, SilentStepsKeepBilling
<1>3. ASSUME NEW c \in Calls, Finish(c)
      PROVE  TelemetryMatchesBilling'
  <2>1. PICK w \in 0..calls[c].attempts :
          /\ calls[c].pc = "waiting" /\ AppendEvents(c, w)
          /\ calls' = [calls EXCEPT ![c].pc =
                          IF w = calls[c].attempts THEN "answered" ELSE "failed"]
    BY <1>3 DEF Finish
  <2>2. MayReport(calls'[c], w)
    BY <1>0, <2>1 DEF MayReport, IInv, TypeOK, CallsOK, CallStates
  <2>3. \A k \in Calls \ {c} : KeptOrOpen(k)
    BY <2>1 DEF KeptOrOpen, IInv, TypeOK, CallsOK
  <2> QED
    BY <2>1, <2>2, <2>3, AppendsKeepBilling
<1>4. ASSUME UNCHANGED <<telemetry, calls>>
      PROVE  TelemetryMatchesBilling'
  BY <1>4, SilentStepsKeepBilling DEF KeptOrOpen
<1>5. ASSUME Crash
      PROVE  TelemetryMatchesBilling'
  <2>1. \A k \in Calls :
          \/ calls'[k] = calls[k] /\ calls[k].pc # "waiting"
          \/ /\ calls[k].pc = "waiting" /\ calls'[k].pc = "lost"
             /\ calls'[k].attempts = calls[k].attempts
    BY <1>0, <1>5 DEF Crash, CallStates
  <2>2. \A k \in Calls : KeptOrOpen(k)
    BY <1>0, <2>1 DEF KeptOrOpen
  <2>3. CASE UNCHANGED telemetry
    BY <2>2, <2>3, SilentStepsKeepBilling
  <2>4. CASE ~ UNCHANGED telemetry
    <3>1. PICK c \in Calls : /\ calls[c].pc = "waiting"
                            /\ \E w \in 1..calls[c].attempts : AppendEvents(c, w)
      BY <1>5, <2>4 DEF Crash
    <3>2. PICK w \in 1..calls[c].attempts : AppendEvents(c, w)
      BY <3>1
    <3>3. w \in 0..calls[c].attempts
      BY <1>0
    <3>4. MayReport(calls'[c], w)
      BY <1>0, <2>1, <3>1, <3>3 DEF MayReport
    <3> QED
      BY <2>2, <3>1, <3>2, <3>3, <3>4, AppendsKeepBilling
  <2> QED
    BY <2>3, <2>4
<1> QED
  BY <1>1, <1>2, <1>3, <1>4, <1>5
     DEF Next, Preflight, LoadPolicy, SimulatePolicy, EditPolicy, vars

------------------------------------------------------------------------------
\* The process stays well typed: whatever is loaded, edited or lost meanwhile,
\* a waiting call has its policy, its model and its adapter.
THEOREM TypeCorrect == Spec => []TypeOK
<1>1. IInv => TypeOK
  BY DEF IInv
<1> QED
  BY InitIInv, NextIInv, <1>1, PTL DEF Spec

\* In a process in which pre-flight cleared a policy, no dispatch under it is
\* refused for want of an adapter that pre-flight looked at.
THEOREM PreflightKept == Spec => PreflightIsAPromise
<1>1. IInv /\ [Next]_vars => [PreflightHolds]_vars
  <2> SUFFICES ASSUME IInv, Next, NEW c \in Calls,
                      calls[c].pc # "unconstructed", calls'[c].pc = "unconstructed",
                      WellFormed(calls'[c].policy)
               PROVE  /\ <<calls'[c].policy, "vendor">> \notin cleared
                      /\ <<calls'[c].policy, "estimated">> \in cleared =>
                           calls'[c].policy.models[calls'[c].decision.model].adapter
                             = IN_SESSION_ADAPTER
    BY DEF PreflightHolds
  <2>0. \A k \in Calls : calls[k] \in CallStates
    BY DEF IInv, TypeOK, CallsOK, CallOK
  <2>1. PICK k \in Calls, key \in Keys, ctx \in Contexts, found \in BOOLEAN :
          Execute(k, key, ctx, found)
    <3>1. ASSUME NEW k \in Calls, VendorAttempt(k) \/ Finish(k) \/ ExecuteThrows(k)
          PROVE  FALSE
      <4>1. \A r \in CallStates : /\ [r EXCEPT !.attempts = @ + 1].pc = r.pc
                                  /\ \A pc : [r EXCEPT !.pc = pc].pc = pc
        BY DEF CallStates
      <4>2. calls'[c].pc \in {calls[c].pc, "answered", "failed"}
        <5>1. \/ calls' = [calls EXCEPT ![k].attempts = @ + 1]
              \/ \E pc \in {"answered", "failed"} : calls' = [calls EXCEPT ![k].pc = pc]
          BY <3>1 DEF VendorAttempt, Finish, ExecuteThrows
        <5>2. DOMAIN calls = Calls
          BY DEF IInv, TypeOK, CallsOK
        <5>3. \/ calls'[c] = calls[c] \/ calls'[c] = [calls[c] EXCEPT !.attempts = @ + 1]
              \/ \E pc \in {"answered", "failed"} : calls'[c] = [calls[c] EXCEPT !.pc = pc]
          BY <5>1, <5>2
        <5>4. calls[c] \in CallStates
          BY <2>0
        <5>5. ASSUME NEW pc \in {"answered", "failed"}, calls'[c] = [calls[c] EXCEPT !.pc = pc]
              PROVE  calls'[c].pc = pc
          BY <4>1, <5>4, <5>5
        <5>6. ASSUME calls'[c] = [calls[c] EXCEPT !.attempts = @ + 1]
              PROVE  calls'[c].pc = calls[c].pc
          BY <4>1, <5>4, <5>6
        <5> QED
          BY <5>3, <5>5, <5>6
      <4> QED
        BY <4>2
    <3>2. ASSUME Crash PROVE FALSE
      <4>1. calls'[c] = calls[c] \/ calls'[c] = [calls[c] EXCEPT !.pc = "lost"]
        BY <3>2 DEF Crash
      <4> QED
        BY <2>0, <4>1 DEF CallStates
    <3>3. ASSUME UNCHANGED calls PROVE FALSE
      BY <3>3
    <3> QED
      BY <3>1, <3>2, <3>3 DEF Next, Preflight, LoadPolicy, SimulatePolicy, EditPolicy
  <2>2. PICK s \in CallStates :
          /\ calls' = [calls EXCEPT ![k] = s]
          /\ \/ s.pc \in {"refused", "waiting"}
             \/ /\ s.policy \in Policies /\ Valid(s.policy, overrides)
                /\ s.decision = PickModel(s.ctx, s.policy, overrides)
                /\ s.decision.model \in DOMAIN s.policy.models
                /\ adapterCache[s.decision.model] = None
    BY <2>1, ExecuteCases
  <2>3. k = c /\ calls'[c] = s /\ s.pc = "unconstructed"
    BY <2>2 DEF IInv, TypeOK, CallsOK
  <2> DEFINE p == s.policy
  <2> DEFINE m == s.decision.model
  <2>4. /\ p \in Policies /\ Valid(p, overrides) /\ WellFormed(p)
        /\ m = PickModel(s.ctx, p, overrides).model
        /\ m \in DOMAIN p.models /\ adapterCache[m] = None
    BY <2>2, <2>3
  <2>5. None \notin DOMAIN p.models /\ DOMAIN p.rules \subseteq Nat
    BY <2>4, ModelsAreKnown, DispatchAssumption
  <2>6. PickModel(s.ctx, p, overrides) # Throw
    BY <2>4, <2>5 DEF Throw, Decision
  <2>7. m \in DOMAIN p.models \ UnreachableModelIds(p, overrides)
    BY <2>4, <2>5, <2>6, RoutedIsReachable DEF Valid
  <2>8. /\ m \in Required(p, "vendor", overrides)
        /\ p.models[m].adapter # IN_SESSION_ADAPTER
             => m \in Required(p, "estimated", overrides)
    BY <2>7 DEF Required
  <2>9. "vendor" \in AuthModes /\ "estimated" \in AuthModes
    BY DEF AuthModes
  <2> HIDE DEF p, m
  <2>10. /\ <<p, "vendor">> \notin cleared
         /\ <<p, "estimated">> \in cleared => p.models[m].adapter = IN_SESSION_ADAPTER
    BY <2>4, <2>8, <2>9 DEF IInv, ClearedHolds
  <2> QED
    BY <2>3, <2>10 DEF p, m
<1> QED
  BY InitIInv, NextIInv, <1>1, PTL DEF Spec, PreflightIsAPromise

\* Every event names the rule and the model that its policy decides for its
\* packet, although the cache moves while the vendor works.
THEOREM EventsTellTheRoute == Spec => []EventTellsTheRoute
<1>1. IInv /\ Told => EventTellsTheRoute
  <2> SUFFICES ASSUME IInv, Told, NEW i \in DOMAIN telemetry
               PROVE  /\ Decision(telemetry[i].model_id, telemetry[i].rule)
                           = PickModel(calls[telemetry[i].call].ctx, telemetry[i].policy,
                                       calls[telemetry[i].call].overrides)
                      /\ telemetry[i].model
                           = telemetry[i].policy.models[telemetry[i].model_id].model_name
    BY DEF EventTellsTheRoute
  <2> DEFINE call == calls[telemetry[i].call]
  <2>1. /\ call.pc \in {"answered", "failed", "lost"}
        /\ telemetry[i].policy = call.policy
        /\ Decision(telemetry[i].model_id, telemetry[i].rule)
             = Decision(call.decision.model, call.decision.rule)
        /\ telemetry[i].model = call.policy.models[telemetry[i].model_id].model_name
    BY DEF Told, EventsTold
  <2>2. telemetry[i].call \in Calls
    BY EventsOfCalls DEF IInv
  <2>3. call.decision = PickModel(call.ctx, call.policy, call.overrides)
    BY <2>1, <2>2 DEF Told, CallsRouted
  <2>4. Decision(PickModel(call.ctx, call.policy, call.overrides).model,
                 PickModel(call.ctx, call.policy, call.overrides).rule)
          = PickModel(call.ctx, call.policy, call.overrides)
    BY DEF PickModel, Decide, Decision, Throw
  <2> HIDE DEF call
  <2>5. Decision(call.decision.model, call.decision.rule)
          = PickModel(call.ctx, call.policy, call.overrides)
    BY <2>3, <2>4
  <2> QED
    BY <2>1, <2>5 DEF call
<1> QED
  BY InitIInv, NextIInv, NextTold, <1>1, PTL DEF Spec

\* Every billed attempt is reported at most once and in order, and all of them
\* when the call is answered, whatever is interleaved, fails or crashes.
THEOREM BilledIsReported == Spec => []TelemetryMatchesBilling
<1>1. Init => TelemetryMatchesBilling
  <2> SUFFICES ASSUME Init, NEW c \in Calls
               PROVE  \E n \in Nat : InOrder(telemetry, c, n) /\ MayReport(calls[c], n)
    BY BillingByCall
  <2>1. InOrder(telemetry, c, 0)
    BY NoneIsInOrder DEF Init
  <2>2. MayReport(calls[c], 0)
    BY DEF Init, Idle, MayReport
  <2> QED
    BY <2>1, <2>2
<1>2. IInv /\ Told /\ TelemetryMatchesBilling /\ [Next]_vars
        => IInv' /\ Told' /\ TelemetryMatchesBilling'
  BY NextIInv, NextTold, NextBilling
<1> QED
  BY InitIInv, <1>1, <1>2, PTL DEF Spec
==============================================================================
