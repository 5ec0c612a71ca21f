---------------------------- MODULE MCPolicyRun ----------------------------
(* Small policies for PolicyRun: two models, a slot over both, and rule      *)
(* lists with and without a default, an intent rule and a retry escalation.  *)
EXTENDS PolicyRun, TLC

CONSTANTS opus, flash, worker, tier

ModelTable ==
    [m \in {opus, flash, worker} |->
        [pricing |-> IF m = opus
                     THEN [input |-> 5, input_cached |-> 1, output |-> 7]
                     ELSE [input |-> 3, input_cached |-> 1, output |-> 4]]]

Slots == {<<>>, tier :> [default |-> flash, options |-> {flash, worker}]}
BadSlots == {tier :> [default |-> opus, options |-> {flash, worker}]}

When(w, target) == [when |-> w, use |-> target]
Phase(p) == [phase |-> {p}]

RuleLists ==
    { <<When(Phase("plan"), opus), [default |-> tier]>>,
      <<[default |-> opus], When(Phase("code"), tier)>>,
      <<When(Phase("code") @@ [retry_count |-> [gte |-> 2]], opus),
        When(Phase("code"), tier), [default |-> flash]>>,
      <<When(Phase("code") @@ [intent |-> {"docs"}], opus),
        When(Phase("code") @@ [task_type |-> {"dto"}], worker),
        When(Phase("code"), tier), [default |-> opus]>>,
      <<When(Phase("code"), tier)>>,
      <<[use |-> tier], [default |-> opus]>>,
      <<When(Phase("code"), opus) @@ [default |-> "typo"]>>,
      <<When([retry_count |-> [gt |-> 0, lt |-> 2]], tier),
        When([retry_count |-> [lte |-> 0]], worker),
        [default |-> opus]>>,
      <<When(Phase("code"), "typo"), [default |-> opus]>>,
      <<>> }

MCPolicies ==
    [models : {ModelTable}, rules : RuleLists, select : Slots \cup BadSlots]

MCChoices == {<<>>, tier :> worker, tier :> flash, tier :> opus}

MCContexts ==
    [phase : {"plan", "code"}, task_type : {"dto", "other"}, module : {"m"},
     retry_count : {0, 2}, intent : {None, "docs"}]

MCUsages == {[input |-> 2, input_cached |-> 1, output |-> 1]}
==============================================================================
