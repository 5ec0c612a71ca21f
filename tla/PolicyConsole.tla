---------------------------- MODULE PolicyConsole ----------------------------
(***************************************************************************)
(* The browser console in which a user customises a routing policy: what   *)
(* its page shows of a policy, what the user may change, and the policy    *)
(* file that a save makes of the page and of the base it was opened on.    *)
(* Several consoles, one per project, save into one directory.             *)
(*                                                                         *)
(* Translated from plugin/policy-console/policy-server.mjs, with the page  *)
(* of index.html.  Thinking tiers, names' spelling and model prices do not *)
(* bear on routing and are left out, and so is the order of `models`.      *)
(***************************************************************************)
EXTENDS Routing, SequencesExt

CONSTANTS
    Projects,              \* each has a console of its own
    Names,                 \* names of policy files
    NamesOf,               \* NamesOf[k]: names that k's user gives to policies
    PHASES,                \* the phases the page shows, in its order
    INTENTS,               \* brownfield intents, in their order
    INTENT_SKIPPED_PHASES, \* phases an intent never runs
    ModelIds,
    NewModel,              \* configuration of a model added on the page
    ShippedPolicies,       \* the files installed at first: [name, policy]
    HandPolicies,          \* files that users write by hand, alike
    Contexts,              \* packets' routing contexts
    MaxChoices,            \* bound: choices made on all pages
    MaxWrites              \* bound: writes to the directory

Visible == Range(PHASES)
Intents == Range(INTENTS)

ASSUME ConsoleAssumption ==
    /\ "codegen" \in Visible /\ "debug" \in Visible
    /\ NamesOf \in [Projects -> SUBSET Names]
    /\ INTENT_SKIPPED_PHASES \in [Intents -> SUBSET Visible]
    /\ None \notin ModelIds \cup Intents
    /\ {b.name : b \in ShippedPolicies} \subseteq Names
    /\ PHASES \in Seq(Visible) /\ INTENTS \in Seq(Intents)
    /\ \A b \in ShippedPolicies \cup HandPolicies : b.policy.rules \in Seq(Range(b.policy.rules))
    /\ MaxChoices \in Nat /\ MaxWrites \in Nat

VARIABLES
    policies,  \* policies[n]: the files, [policy, mtime, shown]; shown is history: the
               \*   routing on the page that saved the file, None if none did
    pages,     \* pages[k]: the page of k's console
    clock,     \* file times; each write to the directory has its own
    choices    \* choices made so far

consoleVars == <<policies, pages, clock, choices>>

------------------------------------------------------------------------------
(* What the page shows of a policy.                                          *)

\* The first of a set of rules, as a sequence of at most one.
FirstOf(policy, rules) == IF rules = {} THEN <<>> ELSE <<policy.rules[Min(rules)]>>

WhenRules(policy) == {i \in DOMAIN policy.rules : "when" \in DOMAIN policy.rules[i]}

\* Rules whose matcher has all of a set of fields.
RulesWith(policy, fields) ==
    {i \in WhenRules(policy) : fields \subseteq DOMAIN policy.rules[i].when}

RulesFor(policy, phase) ==
    {i \in RulesWith(policy, {"phase"}) : phase \in policy.rules[i].when.phase}

ResolveSlot(policy, use) ==
    IF use \in DOMAIN policy.select THEN policy.select[use].default ELSE use

SomeModel(models) == CHOOSE m \in DOMAIN models : TRUE

\* What the first of a set of rules uses, and without any the default.
FirstUse(policy, rules) ==
    LET defaults == DefaultRules(policy)
    IN  IF rules # {} THEN ResolveSlot(policy, policy.rules[Min(rules)].use)
        ELSE IF defaults # {} THEN ResolveSlot(policy, policy.rules[Min(defaults)].default)
        ELSE SomeModel(policy.models)

\* Takes the escalation for the phase's rule.
ResolvePhaseDefaultEscalated(policy, phase) == FirstUse(policy, RulesFor(policy, phase))

ResolvePhaseDefault(policy, phase) ==
    FirstUse(policy, RulesFor(policy, phase) \ RulesWith(policy, {"retry_count"}))

TypedRules(policy) == RulesFor(policy, "codegen") \cap RulesWith(policy, {"task_type"})

CodegenTaskTypes(policy) ==
    LET rules == TypedRules(policy)
    IN  IF rules = {} THEN None ELSE policy.rules[Min(rules)].when.task_type

\* The last rule for an intent and a phase wins here.
IntentPhaseOverrides(policy) ==
    [i \in Intents |-> [phase \in Visible |->
        LET rules == {r \in RulesFor(policy, phase) \cap RulesWith(policy, {"intent"}) :
                        i \in policy.rules[r].when.intent}
        IN  IF rules = {} \/ phase \in INTENT_SKIPPED_PHASES[i] THEN None
            ELSE ResolveSlot(policy, policy.rules[Max(rules)].use)]]

DebugEscalations(policy) ==
    RulesFor(policy, "debug") \cap RulesWith(policy, {"retry_count"})

DebugEscalation(policy) == FirstOf(policy, DebugEscalations(policy))

\* The elements of a sequence at some of its indices, in their order.
Kept(s, indices) ==
    LET kept[n \in 0..Len(s)] ==
          IF n = 0 THEN <<>>
          ELSE IF n \in indices THEN Append(kept[n - 1], s[n]) ELSE kept[n - 1]
    IN  kept[Len(s)]

\* Also skips rules that name a visible phase beside an invisible one.
ExtraPhaseRules(policy) ==
    Kept(policy.rules,
         {i \in RulesWith(policy, {"phase"}) \ DebugEscalations(policy) :
            policy.rules[i].when.phase \cap Visible = {}})

Closed == [pc |-> "closed"]

SummarizePolicy(id) ==
    LET policy == policies[id].policy
    IN  [pc        |-> "editing",
         base      |-> id,
         opened    |-> policies[id].mtime,
         models    |-> policy.models,
         routing   |-> [phase \in Visible |-> ResolvePhaseDefault(policy, phase)],
         overrides |-> IntentPhaseOverrides(policy),
         touched   |-> {}]    \* history: the phases the user made a choice for

------------------------------------------------------------------------------
(* The policy a save builds.                                                 *)

PhaseRule(base, page, phase) ==
    [when |-> IF phase = "codegen" /\ TypedRules(base) # {}
              THEN [phase |-> {phase}, task_type |-> CodegenTaskTypes(base)]
              ELSE [phase |-> {phase}],
     use  |-> page.routing[phase]]

OverrideRule(page, phase, i) ==
    [when |-> [phase |-> {phase}, intent |-> {i}], use |-> page.overrides[i][phase]]

OverrideRules(page, phase) ==
    Kept([n \in DOMAIN INTENTS |-> OverrideRule(page, phase, INTENTS[n])],
         {n \in DOMAIN INTENTS : page.overrides[INTENTS[n]][phase] # None})

\* Puts the blanket rule before the overrides.
RulesOfPhaseBlanketFirst(base, page, phase) ==
    (IF phase = "debug" THEN DebugEscalation(base) ELSE <<>>)
      \o <<PhaseRule(base, page, phase)>> \o OverrideRules(page, phase)

\* The escalation, the overrides, then the blanket rule.
RulesOfPhase(base, page, phase) ==
    (IF phase = "debug" THEN DebugEscalation(base) ELSE <<>>)
      \o OverrideRules(page, phase) \o <<PhaseRule(base, page, phase)>>

Fallback(base, page) ==
    IF DefaultRules(base) # {} THEN FirstOf(base, DefaultRules(base))
    ELSE <<[default |-> SomeModel(page.models)]>>

BuiltRules(base, page) ==
    FlattenSeq([n \in DOMAIN PHASES |-> RulesOfPhase(base, page, PHASES[n])])
      \o ExtraPhaseRules(base) \o Fallback(base, page)

\* Drops the slots, which the rules carried over may use.
BuildCustomPolicyWithoutSelect(base, page) ==
    [models |-> page.models, select |-> <<>>, rules |-> BuiltRules(base, page)]

BuildCustomPolicy(base, page) ==
    [models |-> page.models, select |-> base.select, rules |-> BuiltRules(base, page)]

ValidateSaveInput(page, name) ==
    /\ name \notin DOMAIN policies /\ page.base \in DOMAIN policies
    /\ \A phase \in Visible : page.routing[phase] \in DOMAIN page.models
    /\ \A i \in Intents, phase \in Visible :
         page.overrides[i][phase] # None =>
            /\ phase \notin INTENT_SKIPPED_PHASES[i]
            /\ page.overrides[i][phase] \in DOMAIN page.models

------------------------------------------------------------------------------
(* Steps.                                                                    *)

ConsoleInit ==
    /\ clock = 1 /\ choices = 0
    /\ policies = [n \in {b.name : b \in ShippedPolicies} |->
                     [policy |-> (CHOOSE b \in ShippedPolicies : b.name = n).policy,
                      mtime  |-> 1, shown |-> None]]
    /\ pages = [k \in Projects |-> Closed]

\* GET /api/policies, and the editor opened on one of the policies.
OpenEditor(k, id) ==
    /\ id \in DOMAIN policies
    /\ pages[k].pc \in {"closed", "editing"}
    /\ pages' = [pages EXCEPT ![k] = SummarizePolicy(id)]
    /\ UNCHANGED <<policies, clock, choices>>

MakeChoice(k) ==
    /\ pages[k].pc = "editing"
    /\ choices < MaxChoices /\ choices' = choices + 1
    /\ UNCHANGED <<policies, clock>>

SetPhaseModel(k, phase, m) ==
    /\ MakeChoice(k) /\ m \in DOMAIN pages[k].models \ {pages[k].routing[phase]}
    /\ pages' = [pages EXCEPT ![k].routing[phase] = m,
                             ![k].touched = @ \cup {phase}]

\* None is the cell's entry for the phase's own model; a phase that the intent
\* skips has no cell.
SetIntentGridCell(k, i, phase, m) ==
    /\ MakeChoice(k) /\ phase \notin INTENT_SKIPPED_PHASES[i]
    /\ m \in (DOMAIN pages[k].models \cup {None}) \ {pages[k].overrides[i][phase]}
    /\ pages' = [pages EXCEPT ![k].overrides[i][phase] = m,
                             ![k].touched = @ \cup {phase}]

AddModel(k, m) ==
    /\ MakeChoice(k) /\ m \notin DOMAIN pages[k].models
    /\ pages' = [pages EXCEPT ![k].models =
         [n \in DOMAIN @ \cup {m} |-> IF n = m THEN NewModel ELSE @[n]]]

\* POST /api/save up to the write: the policy is built from the page and from
\* the base as it is on disk by now.
Submit(k, name) ==
    /\ pages[k].pc = "editing"
    /\ ValidateSaveInput(pages[k], name)
    /\ pages' = [pages EXCEPT ![k] = [pc     |-> "writing",
                                     page   |-> pages[k],
                                     name   |-> name,
                                     policy |-> BuildCustomPolicy(
                                                  policies[pages[k].base].policy, pages[k])]]
    /\ UNCHANGED <<policies, clock, choices>>

\* Puts a file in place.
Put(name, policy, shown) ==
    /\ clock' = clock + 1
    /\ policies' = [n \in DOMAIN policies \cup {name} |->
         IF n = name THEN [policy |-> policy, mtime |-> clock + 1, shown |-> shown]
         ELSE policies[n]]

BackToPage(k) == pages' = [pages EXCEPT ![k] = pages[k].page] /\ UNCHANGED choices

\* Relies on the check of the name alone (no `wx`).
WriteAnyway(k) ==
    /\ pages[k].pc = "writing" /\ clock <= MaxWrites
    /\ Put(pages[k].name, pages[k].policy, pages[k].page.routing)
    /\ BackToPage(k)

\* The write refuses a file that has come to exist since the check.
Write(k) ==
    /\ pages[k].pc = "writing" /\ clock <= MaxWrites
    /\ IF pages[k].name \in DOMAIN policies THEN UNCHANGED <<policies, clock>>
       ELSE Put(pages[k].name, pages[k].policy, pages[k].page.routing)
    /\ BackToPage(k)

\* A user changes a policy file in an editor.
EditPolicy(b) ==
    /\ b.name \in DOMAIN policies /\ clock <= MaxWrites
    /\ policies[b.name].policy # b.policy
    /\ Put(b.name, b.policy, None)
    /\ UNCHANGED <<pages, choices>>

------------------------------------------------------------------------------
(* What the page and the files it saves promise.                             *)

AtMostOne(S) == \A i, j \in S : i = j

\* A file as the shipped ones are: it loads, its rules have a default, no rule mixes
\* phases the page shows with others, and a phase it shows has one rule, with
\* task types in codegen only, and an escalation before it in debug only.
Shaped(p) ==
    /\ ValidatePolicy(p) /\ WellFormed(p) /\ DefaultRules(p) # {}
    /\ \A i \in WhenRules(p) :
         LET when == p.rules[i].when IN
         /\ i \in RulesWith(p, {"phase"})
         /\ when.phase \cap Visible = {} \/
              /\ when.phase \subseteq Visible
              /\ DOMAIN when \subseteq {"phase", "task_type", "retry_count"}
              /\ "task_type" \in DOMAIN when => when.phase = {"codegen"}
              /\ "retry_count" \in DOMAIN when => when.phase = {"debug"}
    /\ \A phase \in Visible : AtMostOne(RulesFor(p, phase) \ DebugEscalations(p))
    /\ AtMostOne(DebugEscalations(p))
    /\ \A i \in DebugEscalations(p) : \A j \in RulesFor(p, "debug") : i <= j

Escalates(policy, ctx) ==
    \E i \in DebugEscalations(policy) : Matches(policy.rules[i].when, ctx)

\* The page has a row for the packet.
HasRow(policy, ctx) ==
    /\ ctx.phase \in Visible
    /\ ctx.phase = "codegen" /\ TypedRules(policy) # {} =>
         ctx.task_type \in CodegenTaskTypes(policy)

Overridden(page, ctx) ==
    ctx.phase \in Visible /\ ctx.intent \in Intents /\ page.overrides[ctx.intent][ctx.phase] # None

RoutedTo(policy, ctx) == PickModel(ctx, policy, <<>>).model

\* The page opened on a policy as the shipped ones are shows, for each phase,
\* the model that greenfield packets of that phase are routed to.
OpenShowsRouting ==
    [][\A k \in Projects, id \in DOMAIN policies :
         pages[k].pc = "closed" /\ pages'[k].pc = "editing" /\ pages'[k].base = id
           /\ Shaped(policies[id].policy) =>
           \A ctx \in Contexts :
             HasRow(policies[id].policy, ctx) /\ ~Escalates(policies[id].policy, ctx)
               /\ ctx.intent = None =>
                 pages'[k].routing[ctx.phase] = RoutedTo(policies[id].policy, ctx)]_pages

\* What a policy built from such a base does with a packet is what the page
\* showed: the escalation, then an override of its intent, then the phase's
\* model, and the base's own rules where the page shows nothing.  An added
\* model may take the name of a slot; the policy built is then rejected.
SavedRoutesAsShown ==
    [][\A k \in Projects :
         pages[k].pc = "editing" /\ pages'[k].pc = "writing" =>
           LET page == pages[k]
               base == policies[page.base].policy
           IN  Shaped(base) /\ DOMAIN page.models \cap DOMAIN base.select = {} =>
                 \A ctx \in Contexts :
                   RoutedTo(pages'[k].policy, ctx) =
                     IF Overridden(page, ctx) /\ ~Escalates(base, ctx)
                     THEN page.overrides[ctx.intent][ctx.phase]
                     ELSE IF HasRow(base, ctx) /\ ~Escalates(base, ctx)
                     THEN page.routing[ctx.phase]
                     ELSE RoutedTo(base, ctx)]_pages

\* A policy saved from a page whose base loads and is still on disk as the
\* page read it loads too, unless an added model took the name of a slot.
FreshSaveLoads ==
    [][\A k \in Projects :
         pages[k].pc = "editing" /\ pages'[k].pc = "writing" =>
           LET page == pages[k]
               base == policies[page.base].policy
           IN  ValidatePolicy(base) /\ page.opened = policies[page.base].mtime
                 /\ DOMAIN page.models \cap DOMAIN base.select = {} =>
                   ValidatePolicy(pages'[k].policy)]_pages

\* Saving never changes a file that exists, whichever console put it there
\* and whenever; only an editor does.
SavesNeverOverwrite ==
    [][\A k \in Projects : pages[k].pc = "writing" /\ pages'[k].pc = "editing" =>
         \A n \in DOMAIN policies : policies'[n] = policies[n]]_consoleVars

\* The specification of the console (docs/specs, section 10): a policy saved
\* with some changes is otherwise identical to its base.  Stated of bases
\* that the console saved: a phase without a choice routes as it did.
UntouchedPhasesKeepTheirRoute ==
    [][\A k \in Projects :
         pages[k].pc = "editing" /\ pages'[k].pc = "writing" =>
           LET page == pages[k]
           IN  policies[page.base].shown # None /\ page.opened = policies[page.base].mtime =>
                 \A ctx \in Contexts :
                   ctx.phase \notin page.touched =>
                     RoutedTo(pages'[k].policy, ctx) = RoutedTo(policies[page.base].policy, ctx)]_pages
==============================================================================
