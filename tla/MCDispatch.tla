----------------------------- MODULE MCDispatch -----------------------------
(* Two policies that give the model id `flash` to different vendor models,   *)
(* as the shipped policies do; one has a slot whose losing option another    *)
(* rule still names.                                                         *)
EXTENDS Dispatch, TLC

CONSTANTS opus, flash, tier

Config(adapter, name, price) ==
    [adapter |-> adapter, model_name |-> name, price |-> price]

Opus   == Config(IN_SESSION_ADAPTER, "opus-5", 5)
Flash1 == Config("mcp:gemini-flash-server", "flash-3.5", 2)
Flash2 == Config("mcp:gemini-flash-server", "flash-3.7", 3)

Phase(p, target) == [when |-> [phase |-> {p}], use |-> target]

Plain == [models |-> opus :> Opus @@ flash :> Flash1,
          select |-> <<>>,
          rules  |-> <<Phase("code", flash), [default |-> opus]>>]

Slotted == [models |-> opus :> Opus @@ flash :> Flash2,
            select |-> tier :> [default |-> opus, options |-> {flash, opus}],
            rules  |-> <<Phase("test", tier), Phase("code", flash), [default |-> opus]>>]

Broken == [Plain EXCEPT !.rules = <<Phase("code", "typo")>>]

MCPolicies == {Plain, Slotted, Broken}

MCKeys == {[name |-> "p", root |-> "repo"], [name |-> "p", root |-> None]}

\* The project's own policy, and the bundled one of the same name.
MCDisks == {[k \in MCKeys |-> IF k.root = None THEN Slotted ELSE Plain]}

MCChoices == {<<>>}

Symmetry == Permutations(Calls)

MCContexts == [phase : {"code", "test"}, task_type : {"t"}, module : {"m"},
               retry_count : {0}, intent : {None}]
==============================================================================
