---------------------------- MODULE MCPolicySetup ----------------------------
(* Two projects, one of them set up from a terminal.  The page shows two     *)
(* phases; somebody may replace the file that was shipped by one that has    *)
(* one model and no default.                                                 *)
EXTENDS PolicySetup

CONSTANTS p1, p2, shipped, opus, flash, tier

Phase(phase, model) == [when |-> [phase |-> {phase}], use |-> model]

OpusPlusFlash ==
    [models |-> [m \in {opus, flash} |-> "config"],
     select |-> tier :> [default |-> flash, options |-> {flash, opus}],
     rules  |-> <<Phase("discovery", opus),
                  [when |-> [phase |-> {"codegen"}, task_type |-> {"dto"}], use |-> tier],
                  [when |-> [phase |-> {"debug"}, retry_count |-> [gte |-> 2]], use |-> opus],
                  Phase("debug", tier),
                  [default |-> tier]>>]

OpusOnly ==
    [models |-> [m \in {opus} |-> "config"],
     select |-> <<>>,
     rules  |-> <<Phase("codegen", opus)>>]

MCPHASES  == <<"codegen", "debug">>
MCINTENTS == <<"deps">>
MCSkipped == [i \in {"deps"} |-> {}]

MCShipped == {[name |-> shipped, policy |-> OpusPlusFlash]}
MCHand    == {[name |-> shipped, policy |-> OpusOnly]}

MCNamesOf == [k \in Projects |-> Names \ {shipped}]

MCContexts == [phase : {"codegen", "debug", "discovery"},
               task_type : {"dto", "react_page"}, module : {"m"}, retry_count : {0, 2},
               intent : {None, "deps"}]

\* Both users have off-limits paths of their own; the file of p2 does not parse.
MCFiles == {[k \in Projects |-> [valid |-> k = p1, default |-> None, off_limits |-> "own"]]}
==============================================================================
