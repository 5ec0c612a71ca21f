---------------------------- MODULE MCSetupChecks ----------------------------
(* A small instance of SetupChecks: the doors that are open, closed or broken *)
(* in turn, on a fresh clone, an installed plugin and a damaged install.      *)
EXTENDS SetupChecks

MCShells == {
    [Bare EXCEPT !.legacy = {"other"}],
    [Bare EXCEPT !.key = "value", !.project = "value", !.select = {"other", "bare"}],
    [Bare EXCEPT !.credentials = "file", !.python = "path", !.select = {"agent", "other"}],
    [Bare EXCEPT !.key = Placeholder, !.project = "value", !.backend = "vertex-adc",
                 !.select = {"rival"}, !.legacy = {"agent"}] }

Fresh == [cli |-> TRUE, deps |-> FALSE, dist |-> FALSE, venv |-> "missing", python |-> "works",
          interpreter |-> TRUE, library |-> FALSE, adcFile |-> None,
          keyFile |-> "complete project"]

MCMachines == {
    Fresh,
    [Fresh EXCEPT !.deps = TRUE, !.adcFile = "complete", !.keyFile = "incomplete",
                  !.interpreter = FALSE],
    [Fresh EXCEPT !.deps = TRUE, !.dist = TRUE, !.venv = "works", !.adcFile = "complete project",
                  !.python = "broken"],
    [Fresh EXCEPT !.deps = TRUE, !.dist = TRUE, !.venv = "works", !.adcFile = "unknown",
                  !.keyFile = "unknown project", !.library = TRUE],
    [Fresh EXCEPT !.cli = FALSE, !.deps = TRUE, !.dist = TRUE, !.venv = "broken",
                  !.adcFile = "typeless", !.keyFile = None, !.python = "missing"] }

Said(env, keys, ours) == [env |-> env, keys |-> keys, ours |-> ours]

Selecting(pairs) == [Bare EXCEPT !.select = pairs]

MCDocuments == {
    [settings |-> None, mcp |-> None],
    [settings |-> Said(Selecting({"agent", "other"}), {"key"}, FALSE), mcp |-> None],
    [settings |-> Said([Selecting({"rival", "bare"}) EXCEPT !.key = "value"], {"key"}, FALSE),
     mcp |-> Said([Selecting({"agent"}) EXCEPT !.key = "value"], {"key"}, TRUE)],
    [settings |-> None, mcp |-> Torn] }
==============================================================================
