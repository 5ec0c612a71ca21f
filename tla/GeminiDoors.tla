----------------------------- MODULE GeminiDoors -----------------------------
(***************************************************************************)
(* What an environment and the credential files of a machine open: the     *)
(* server's own rules (mcp/model-dispatch/src/env.ts,                      *)
(* adapters/geminiTransports.ts, the constructor of                        *)
(* AntigravityWorkerAdapter.ts, server.ts, delegation/workerProcess.ts),   *)
(* and the copies of them that plugin/scripts/verify-setup.mjs keeps by    *)
(* hand because it runs before the server is installed.                    *)
(*                                                                         *)
(* An environment is a record of the variables that plugin.json declares;  *)
(* a selection of slots is the set of its pairs: "agent" gives the         *)
(* mechanical tier to the agent worker, "rival" to something else,         *)
(* "other" chooses for another slot and "bare" is not a pair at all.       *)
(***************************************************************************)
EXTENDS Naturals, FiniteSets, Files

Unset       == "unset"
Placeholder == "${NAME}"    \* plugin.json passes this for a variable that is not set

Env(key, credentials, project, backend, python, select, legacy) ==
    [key |-> key, credentials |-> credentials, project |-> project, backend |-> backend,
     python |-> python, select |-> select, legacy |-> legacy]

Selections == {"select", "legacy"}

\* What a selection may hold, what another variable may, and all environments.
Pairs  == {"agent", "rival", "other", "bare", Placeholder}
Values == {Unset, Placeholder, "value", "file", "path", "api-key", "vertex-adc"}

Envs == [key : Values, credentials : Values, project : Values, backend : Values,
         python : Values, select : SUBSET Pairs, legacy : SUBSET Pairs]

\* Without what carries no information: sanitizePluginEnv in the server,
\* usableEnv in the check.
UsableEnv(env) ==
    [name \in DOMAIN env |->
        IF name \in Selections THEN env[name] \ {Placeholder}
        ELSE IF env[name] = Placeholder THEN Unset ELSE env[name]]

\* What plugin.json makes of an environment.
PassedOn(env) ==
    [name \in DOMAIN env |->
        IF name \in Selections THEN IF env[name] = {} THEN {Placeholder} ELSE env[name]
        ELSE IF env[name] = Unset THEN Placeholder ELSE env[name]]

IsSet(env, name) == env[name] # Unset

\* A credential file: None, Torn, without a type, without a field that its type
\* needs, complete, or of a type that the check does not know; the last two may
\* name a project.
CredentialClasses ==
    {"typeless", "incomplete", "complete", "complete project", "unknown", "unknown project"}

CredentialFiles == CredentialClasses \cup {None, Torn}

OfUnknownType    == {"unknown", "unknown project"}
NamingAProject   == {"complete project", "unknown project"}

------------------------------------------------------------------------------
(* The server                                                                *)

CredentialFile(env, machine) ==
    IF IsSet(env, "credentials") THEN machine.keyFile ELSE machine.adcFile

\* selectGeminiBackend, which does not look into a file.
GeminiBackend(env, machine) ==
    IF IsSet(env, "backend") THEN env.backend
    ELSE IF IsSet(env, "key") THEN "api-key"
    ELSE IF IsSet(env, "credentials") \/ machine.adcFile # None \/ IsSet(env, "project")
    THEN "vertex-adc" ELSE "none"

\* Whether the Google library can sign, as far as it shows offline; it takes the
\* explicit file, and a broken one is fatal.
Signs(env, machine) ==
    \/ CredentialFile(env, machine) \in {"complete", "complete project"}
    \/ CredentialFile(env, machine) \in OfUnknownType /\ machine.library

\* Inside Google Cloud the metadata server signs where no file is configured.
MetadataMaySign(env, machine) == CredentialFile(env, machine) = None /\ ~IsSet(env, "credentials")

\* A transport whose calls can succeed.
DoorOpens(env, machine) ==
    LET backend == GeminiBackend(env, machine) IN
    \/ backend = "api-key" /\ IsSet(env, "key")
    \/ backend = "vertex-adc" /\ Signs(env, machine)

\* resolveGcpProject: without a project the constructor of AntigravityWorkerAdapter
\* throws.
ProjectResolves(env, machine) ==
    IsSet(env, "project") \/ CredentialFile(env, machine) \in NamingAProject

\* selectOverrides, with the name of old installs as a fallback.
SelectOverrides(env) == IF env.select # {} THEN env.select ELSE env.legacy

\* resolveWorkerPython
WorkerPython(env, machine) == IF IsSet(env, "python") THEN machine.python ELSE machine.venv

------------------------------------------------------------------------------
(* The check                                                                 *)

\* Takes a type that it does not know for a broken credential.
UsableIfKnown(content) == content \in {"complete", "complete project"}

\* inspectCredentialFile: only what is certainly broken is called so.
Usable(content) == content \notin {None, Torn, "typeless", "incomplete"}

\* Takes any file that is there for a credential.
VertexStateByPresence(env, machine) ==
    IF IsSet(env, "credentials") THEN IF machine.keyFile # None THEN "credential" ELSE "broken"
    ELSE IF machine.adcFile # None THEN "credential"
    ELSE IF IsSet(env, "project") THEN "project-only" ELSE "none"

\* vertexCredentialState
VertexState(env, machine) ==
    IF IsSet(env, "credentials")
    THEN IF Usable(machine.keyFile) THEN "credential" ELSE "broken"
    ELSE IF machine.adcFile # None
    THEN IF Usable(machine.adcFile) THEN "credential" ELSE "broken"
    ELSE IF IsSet(env, "project") THEN "project-only" ELSE "none"

HasGeminiCredentials(env, machine) ==
    IsSet(env, "key") \/ VertexState(env, machine) = "credential"

SelectsAgentWorker(env) == "agent" \in env.select

\* Looks for the worker's own environment only, and not at the override.
OwnPython(env, machine) == machine.venv

\* The interpreter that observeAgentWorker tries.
ObservedPython(env, machine) == IF IsSet(env, "python") THEN machine.python ELSE machine.venv

If(condition, id) == IF condition THEN {id} ELSE {}

\* evaluate: what is wrong with the installation,
InstallProblems(machine) ==
    If(~machine.cli, "claude-cli") \cup If(~machine.deps, "mcp-dependencies")
        \cup If(~machine.dist, "mcp-build")

\* with the Gemini credentials,
CredentialProblems(env, machine) ==
    IF VertexState(env, machine) = "broken" THEN {"gemini-credentials-broken"}
    ELSE If(~HasGeminiCredentials(env, machine), "gemini-credentials")

\* Forgets that the agent needs a credential of its own.
SelectionProblemsWithoutCredentials(env, machine) == If("bare" \in env.select, "select-spec")

\* with the selection and what the agent would sign with,
SelectionProblems(env, machine) ==
    LET vertex == VertexState(env, machine)   agent == SelectsAgentWorker(env) IN
    If("bare" \in env.select, "select-spec")
        \cup If(agent /\ vertex = "project-only", "agent-worker-credentials-unproven")
        \cup If(agent /\ vertex \in {"broken", "none"}, "agent-worker-credentials")

\* and with the worker, looked at only where the agent is selected.
WorkerProblems(env, machine) ==
    LET python == ObservedPython(env, machine)   agent == SelectsAgentWorker(env) IN
    If(agent /\ python = "missing", "agent-worker-python")
        \cup If(agent /\ python = "broken", "agent-worker-sdk")

Problems(rawEnv, machine) ==
    LET env == UsableEnv(rawEnv) IN
    InstallProblems(machine) \cup CredentialProblems(env, machine)
        \cup SelectionProblems(env, machine) \cup WorkerProblems(env, machine)

Warnings == {"gemini-credentials", "agent-worker-credentials-unproven"}

------------------------------------------------------------------------------
(* withAgentSelection: the pairs of a settings file with the agent switched  *)
(* on or off; what is not a pair is dropped.                                 *)

WithAgentSelection(select, enabled) ==
    IF enabled THEN (select \cap {"other"}) \cup {"agent"}
    ELSE select \cap {"other", "rival"}
==============================================================================
