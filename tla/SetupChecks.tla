----------------------------- MODULE SetupChecks -----------------------------
(***************************************************************************)
(* The check and repair of an installation, plugin/scripts/verify-setup.mjs*)
(* with --fix, --enable-agent and --disable-agent, the wizard of a clone,  *)
(* tools/setup.mjs, and the server that a later session starts.  All they  *)
(* share is the machine and two files of the user: settings.local.json,    *)
(* whose env block reaches the server of an installed plugin, and          *)
(* .mcp.json, whose env block is all that the server of a clone gets.      *)
(***************************************************************************)
EXTENDS GeminiDoors

CONSTANTS
    Shells,     \* environments in which the scripts can run
    Machines,   \* states of the machine at the beginning
    Documents,  \* contents of the two files at the beginning
    MaxEdits    \* bound: changes that the user makes meanwhile

FileNames == {"settings", "mcp"}

\* What else the user keeps in a file: a key from before, and one that is added
\* meanwhile.
OwnKeys == {"key", "new"}

\* A file that parses: its env block; ours: .mcp.json registers our server.
Contents == [env : Envs, keys : SUBSET OwnKeys, ours : BOOLEAN]

Interpreters == {"missing", "broken", "works"}

MachineStates ==
    [cli : BOOLEAN, deps : BOOLEAN, dist : BOOLEAN, venv : Interpreters,
     python : Interpreters, interpreter : BOOLEAN, library : BOOLEAN,
     adcFile : CredentialFiles, keyFile : CredentialFiles]

ASSUME SetupAssumption ==
    /\ MaxEdits \in Nat
    /\ None \notin Contents /\ Torn \notin Contents
    /\ CredentialClasses \cap {None, Torn} = {}
    /\ Shells \subseteq Envs
    /\ Machines \subseteq MachineStates
    /\ Documents \subseteq [FileNames -> Contents \cup {None, Torn}]

VARIABLES
    shell,      \* the environment of the terminal
    machine,    \* what is installed, and the credential files
    doc,        \* doc["settings"], doc["mcp"]: None, Torn, or what the file says
    check,      \* verify-setup.mjs: where it is, what it was told, what it read and found
    wizard,     \* tools/setup.mjs: where it is, and whether it selects the agent
    mine,       \* history: the user's own keys in each file, or Torn if it does not parse
    raced,      \* history: files that someone wrote between a read of the check and its write
    replaced,   \* history: files of the user that the wizard wrote over
    edits       \* counter for the bound MaxEdits

past == <<mine, raced, replaced>>

vars == <<shell, machine, doc, check, wizard, past, edits>>

\* touched: what someone else changed since it started, a file or the machine.
Bare == Env(Unset, Unset, Unset, Unset, Unset, {}, {})

NoCheck == [pc |-> "idle", at |-> "settings", flag |-> "none", stage |-> 0, env |-> Bare,
            read |-> [f \in FileNames |-> None], wrote |-> {}, touched |-> {},
            seen |-> {}, ok |-> FALSE]

Keys(content) == IF content = Torn THEN Torn ELSE IF content = None THEN {} ELSE content.keys

Init ==
    /\ shell \in Shells /\ machine \in Machines /\ doc \in Documents
    /\ check = NoCheck
    /\ wizard = [pc |-> "idle", agent |-> FALSE]
    /\ mine = [f \in FileNames |-> Keys(doc[f])]
    /\ raced = {} /\ replaced = {} /\ edits = 0

\* What a session in the folder passes on: its settings come before the shell.
SessionEnv ==
    IF Parsed(doc["settings"])
    THEN LET block == doc["settings"].env IN
         [name \in DOMAIN shell |-> IF block[name] # Bare[name] THEN block[name] ELSE shell[name]]
    ELSE shell

------------------------------------------------------------------------------
(* verify-setup.mjs                                                          *)

Running == check.pc \notin {"idle", "refused", "done"}

\* Run in a terminal or in a session.
Start(flag) ==
    /\ ~Running
    /\ \E env \in {shell, SessionEnv} :
         check' = [NoCheck EXCEPT !.flag = flag, !.env = env,
                     !.pc = IF flag \in {"enable", "disable"} THEN "read" ELSE "observe"]
    /\ UNCHANGED <<shell, machine, doc, wizard, past, edits>>

\* enableAgentPath: a file that does not parse is refused before anything is
\* written.
ReadDocuments ==
    /\ check.pc = "read"
    /\ check' = IF Torn \in {doc[f] : f \in FileNames} THEN [check EXCEPT !.pc = "refused"]
                ELSE [check EXCEPT !.pc = "cut", !.read = doc]
    /\ UNCHANGED <<shell, machine, doc, wizard, past, edits>>

\* writeFileSync: the file is emptied, then written.
CutFile ==
    /\ check.pc = "cut"
    /\ check' = [check EXCEPT !.pc = "write"]
    /\ doc' = [doc EXCEPT ![check.at] = Torn]
    /\ UNCHANGED <<shell, machine, wizard, past, edits>>

Empty == [env |-> Bare, keys |-> {}, ours |-> FALSE]

\* Merges into an empty document.
SwitchedAnew(file) ==
    [Empty EXCEPT !.env.select = WithAgentSelection({}, check.flag = "enable"),
                  !.ours = check.read[file] # None /\ check.read[file].ours]

\* The selection of a file as it was read, switched.
Switched(file) ==
    LET old == IF check.read[file] = None THEN Empty ELSE check.read[file] IN
    [old EXCEPT !.env.select = WithAgentSelection(old.env.select, check.flag = "enable")]

\* .mcp.json is never updated.
McpIsForgotten == FALSE

\* .mcp.json follows the settings, but only where it registers our server.
McpIsNext ==
    check.at = "settings" /\ doc["mcp"] # None /\ Parsed(check.read["mcp"]) /\ check.read["mcp"].ours

WriteFile ==
    LET new == Switched(check.at) IN
    /\ check.pc = "write"
    /\ doc' = [doc EXCEPT ![check.at] = new]
    /\ check' = [check EXCEPT !.wrote = @ \cup {check.at},
                   !.env.select = IF check.at = "settings" THEN new.env.select ELSE @,
                   !.pc = IF McpIsNext THEN "cut" ELSE "observe",
                   !.at = IF McpIsNext THEN "mcp" ELSE @,
                   !.read = IF McpIsNext THEN @ ELSE NoCheck.read]
    /\ UNCHANGED <<shell, machine, wizard, past, edits>>

\* A file cut short is lost to its user.
Cutting == check.pc = "write"
MineAfterCut == IF Cutting THEN [mine EXCEPT ![check.at] = Torn] ELSE mine

\* A file that cannot be opened, or not written in full.
WriteFails ==
    /\ check.pc \in {"cut", "write"}
    /\ check' = [check EXCEPT !.pc = "refused", !.wrote = {}]
    /\ mine' = MineAfterCut
    /\ UNCHANGED <<shell, machine, doc, wizard, raced, replaced, edits>>

Repairing == check.flag \in {"fix", "enable"}

Lacks(problems, ids) == problems \cap ids # {}

\* What to do after an observation: build the server, once, then the worker's
\* environment, once.
AfterObservation(problems, stage) ==
    IF Repairing /\ stage = 0 /\ Lacks(problems, {"mcp-dependencies", "mcp-build"}) THEN "repair"
    ELSE IF Repairing /\ stage < 2 /\ Lacks(problems, {"agent-worker-python", "agent-worker-sdk"})
    THEN "worker" ELSE "done"

\* observe and evaluate
Observe ==
    LET problems == Problems(check.env, machine) IN
    /\ check.pc = "observe"
    /\ check' = [check EXCEPT !.seen = problems,
                   !.ok = problems \subseteq Warnings,
                   !.pc = AfterObservation(problems, check.stage)]
    /\ UNCHANGED <<shell, machine, doc, wizard, past, edits>>

\* npm ci, which begins by removing what is there, and npm run build.
BuildOutcomes ==
    {[machine EXCEPT !.deps = TRUE, !.dist = TRUE],
     [machine EXCEPT !.deps = FALSE],
     [machine EXCEPT !.deps = TRUE]}

Repair ==
    /\ check.pc = "repair"
    /\ \E after \in BuildOutcomes :
         /\ machine' = after
         /\ check' = [check EXCEPT !.stage = 1,
                        !.pc = IF after.deps /\ after.dist THEN "observe"
                               ELSE AfterObservation(check.seen, 1)]
    /\ UNCHANGED <<shell, doc, wizard, past, edits>>

\* buildWorkerEnvironment: no suitable interpreter, or the environment is
\* emptied and made anew, and the SDK is installed into it.
WorkerOutcomes ==
    IF machine.interpreter THEN {[machine EXCEPT !.venv = v] : v \in {"missing", "broken", "works"}}
    ELSE {machine}

BuildWorker ==
    /\ check.pc = "worker"
    /\ \E after \in WorkerOutcomes :
         /\ machine' = after
         /\ check' = [check EXCEPT !.stage = 2,
                        !.pc = IF machine.interpreter /\ after.venv = "works" THEN "observe" ELSE "done"]
    /\ UNCHANGED <<shell, doc, wizard, past, edits>>

Killed ==
    /\ Running
    /\ check' = NoCheck
    /\ mine' = MineAfterCut
    /\ edits < MaxEdits /\ edits' = edits + 1
    /\ UNCHANGED <<shell, machine, doc, wizard, raced, replaced>>

------------------------------------------------------------------------------
(* tools/setup.mjs                                                           *)

\* Someone other than the check changes the machine, or leaves it as it is.
MachineBecomes(after) ==
    /\ machine' = after
    /\ check' = IF after = machine THEN check ELSE [check EXCEPT !.touched = @ \cup {"machine"}]

\* The agent is offered only where Google credentials can sign; the user may go on
\* without the CLI.
WizardAsk ==
    /\ wizard.pc = "idle"
    /\ \E agent \in BOOLEAN :
         /\ agent => VertexState(shell, machine) = "credential"
         /\ wizard' = [pc |-> "build", agent |-> agent]
    /\ UNCHANGED <<shell, machine, doc, check, past, edits>>

WizardBuild ==
    /\ wizard.pc = "build"
    /\ \E after \in IF machine.deps /\ machine.dist THEN {machine} ELSE BuildOutcomes :
         /\ MachineBecomes(after)
         /\ wizard' = [wizard EXCEPT !.pc = IF after.deps /\ after.dist THEN "worker" ELSE "failed"]
    /\ UNCHANGED <<shell, doc, past, edits>>

\* A failure here means the model path.
WizardWorker ==
    /\ wizard.pc = "worker"
    /\ IF ~wizard.agent \/ machine.venv # "missing"
       THEN wizard' = [wizard EXCEPT !.pc = "mcp"] /\ MachineBecomes(machine)
       ELSE \E after \in WorkerOutcomes :
              /\ MachineBecomes(after)
              /\ wizard' = [pc |-> "mcp", agent |-> after.venv = "works"]
    /\ UNCHANGED <<shell, doc, past, edits>>

\* Someone other than the check writes a file.
Save(file, content) ==
    /\ doc' = [doc EXCEPT ![file] = content]
    /\ check' = [check EXCEPT !.touched = @ \cup {file}]
    /\ raced' = IF check.pc \in {"cut", "write"} THEN raced \cup {file} ELSE raced

\* The block that a clone's server gets: what is set in the wizard's shell.
Forwarded == IF wizard.agent THEN [shell EXCEPT !.select = {"agent"}] ELSE shell

\* .mcp.json is written as a whole, whatever was in it.
WizardWrite ==
    /\ wizard.pc = "mcp"
    /\ wizard' = [wizard EXCEPT !.pc = "finished"]
    /\ Save("mcp", [ours |-> TRUE, keys |-> {}, env |-> Forwarded])
    /\ replaced' = IF mine["mcp"] = {} THEN replaced ELSE replaced \cup {"mcp"}
    /\ UNCHANGED <<shell, machine, mine, edits>>

------------------------------------------------------------------------------
(* The user                                                                  *)

UserEdit ==
    /\ edits < MaxEdits /\ edits' = edits + 1
    /\ \E f \in FileNames, content \in {Torn, [Empty EXCEPT !.keys = OwnKeys]} :
         /\ Save(f, content)
         /\ mine' = [mine EXCEPT ![f] = Keys(content)]
         /\ replaced' = replaced \ {f}
    /\ UNCHANGED <<shell, machine, wizard>>

\* A login, complete or cut short.
Login ==
    /\ edits < MaxEdits /\ edits' = edits + 1
    /\ \E content \in {"complete project", Torn} :
         MachineBecomes([machine EXCEPT !.adcFile = content])
    /\ UNCHANGED <<shell, doc, wizard, past>>

Next ==
    \/ \E flag \in {"check", "fix", "enable", "disable"} : Start(flag)
    \/ ReadDocuments \/ CutFile \/ WriteFile \/ WriteFails
    \/ Observe \/ Repair \/ BuildWorker \/ Killed
    \/ WizardAsk \/ WizardBuild \/ WizardWorker \/ WizardWrite
    \/ UserEdit \/ Login

Spec == Init /\ [][Next]_vars

------------------------------------------------------------------------------
(* The server of the next session, and the properties                       *)

\* The server of a clone gets the block of .mcp.json and nothing else; a plugin
\* passes the session's variables on, and a placeholder for one that is not set.
ServerEnv ==
    IF Parsed(doc["mcp"]) /\ doc["mcp"].ours THEN doc["mcp"].env ELSE PassedOn(SessionEnv)

\* Nobody else changed the machine since the check that ended was started, and
\* the next server gets the variables that it was told.
UpToDate ==
    /\ check.pc = "done" /\ "machine" \notin check.touched
    /\ UsableEnv(check.env) = UsableEnv(ServerEnv)

\* The switch to or from the agent path, once it is reported, is what both files
\* say, so that the servers of the two routes agree, whatever was selected
\* before and wherever an earlier switch was cut short; a file that someone else
\* wrote since the switch began is not judged (enableAgentPath, withMcpSelection).
SwitchedInStep ==
    check.pc = "done" /\ check.wrote # {} =>
        \A f \in FileNames \ check.touched :
            Parsed(doc[f]) /\ (f = "settings" \/ doc[f].ours)
              => ("agent" \in doc[f].env.select <=> check.flag = "enable")

\* The user's own keys stay in both files, and a file that does not parse stays
\* as it is, over any sequence of switches and edits, killed or failing anywhere
\* (enableAgentPath, withAgentSelection). Three losses are known: the file that
\* was being written at that moment; an edit between a switch's read and its
\* write; and .mcp.json under the wizard, which writes it as a whole and without
\* a look (tools/setup.mjs:272), where the switch refuses a file that it cannot
\* read because it may hold the user's only copy of a key.
UserKeysKept ==
    \A f \in FileNames \ (raced \cup replaced) :
        IF Cutting /\ f = check.at THEN check.read[f] # None => check.read[f].keys = mine[f]
        ELSE Keys(doc[f]) = mine[f]

\* A check without a blocking problem means that the server of the next session
\* is built and accepts its selection, and where that is the agent, that its
\* interpreter works and that it has something to sign with: a credential whose
\* file is complete or of a type that the check does not know, or a project
\* alone, for Google's metadata server. Two things stay outside, because the
\* check does not look at them: that the constructor of the worker also finds a
\* project, and a selection under its old name (evaluate, against the server).
GreenMeansStartable ==
    UpToDate /\ check.ok =>
        LET env == UsableEnv(ServerEnv) IN
        /\ machine.deps /\ machine.dist
        /\ (env.select = {} => env.legacy \cap {"agent", "bare"} = {}) =>
             /\ "bare" \notin SelectOverrides(env)
             /\ "agent" \in SelectOverrides(env) =>
                  /\ WorkerPython(env, machine) = "works"
                  /\ \/ Signs(env, machine)
                     \/ CredentialFile(env, machine) \in OfUnknownType
                     \/ MetadataMaySign(env, machine) /\ ProjectResolves(env, machine)

\* What a check says of the Gemini credentials is so for the door that the server
\* chooses, although one side reads the files and the other only looks whether
\* they are there. Nothing wrong: the door opens, unless it is Vertex with a
\* credential of a type that the check does not know. A broken credential: Vertex
\* cannot sign, whatever the library knows. An explicit GEMINI_BACKEND is not
\* covered (hasGeminiCredentials and vertexCredentialState, against
\* selectGeminiBackend).
DoorIsAsReported ==
    UpToDate =>
        LET env == UsableEnv(ServerEnv) IN
        /\ ~Lacks(check.seen, {"gemini-credentials", "gemini-credentials-broken"})
           /\ ~IsSet(env, "backend") =>
             \/ DoorOpens(env, machine)
             \/ GeminiBackend(env, machine) = "vertex-adc"
                /\ CredentialFile(env, machine) \in OfUnknownType
        /\ "gemini-credentials-broken" \in check.seen => ~Signs(env, machine)
==============================================================================
