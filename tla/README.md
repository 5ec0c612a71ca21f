# A TLA+ model of the ai-sdlc-orchestrator plugin (mmo)

The repository is a plugin that runs a software-development pipeline: an orchestrating agent cuts the
work into packets, a *model-dispatch* server routes each packet to a model by a policy file and pays for
it, and helper scripts keep the run's contracts, provenance and setup. This directory holds TLA+ modules
for the parts of it that are programs, TLC configurations that check them on small instances, and proofs
that TLAPS checks for every value of the constants.

`PROJECT.json` maps each definition to the lines it models, and lists the runs, the mutants that show each
property can fail, the hazards of the code, the findings and the theorems.

Paths below are relative to the repository's root; `md/` stands for `plugin/mcp/model-dispatch/src/`.

    tlc -workers 2 -config MCDispatch.cfg MCDispatch     # a run
    tlapm Dispatch_proofs.tla                            # a proof

## 1. Inventory

### The model-dispatch server

| part | state | operations | meets |
|---|---|---|---|
| policy loading and routing (`md/policy.ts`, `md/routing.ts`) | none: a policy is a value | `validatePolicy`, `validateSelectOverrides`, `resolveNamed`, `unreachableModelIds`, `pickModel`, `simulatePolicyCost` | the server, which loads once and routes each packet |
| tool handlers (`md/server.ts`) | active policy and the key it was loaded under, slot choices, adapter cache | `execute_with_model`, `preflight`, `load_policy`, `simulate_policy`, `log_telemetry` | adapters (awaited), telemetry file (appended), policy files (edited by others) |
| API adapters (`md/adapters/GeminiFlashAdapter.ts`, `BuiltinAnthropicAdapter.ts`, `geminiTransports.ts`) | one call's ceiling, attempts, totals | `execute`: a loop that doubles the output ceiling | vendor APIs |
| worker adapter (`md/adapters/AntigravityWorkerAdapter.ts`, `md/delegation/`) | evidence files named after the packet, a child process, a timer | `execute`: stage a brief, walk the workspace, spawn, wait, walk again, write a receipt | the Python worker, the user's workspace |
| Python worker (`plugin/mcp/model-dispatch/worker/`) | the process, a usage sidecar | read the brief, let an agent edit, meter, write the sidecar | the workspace, the vendor |
| Claude CLI adapter (`md/adapters/ClaudeCliAdapter.ts`) | a child process and a timer | `execute` | the `claude` program |
| telemetry (`md/telemetry.ts`) | an append-only file | `appendEvent`, `buildManifest` | the server |
| log (`md/log.ts`, `plugin/scripts/lib/log.mjs`, `mmo-log.mjs`) | a file, the rotated file beside it, a lock file, a level | write, rotate | every process of a run |

### Scripts

| part | state | operations |
|---|---|---|
| write provenance (`plugin/scripts/write-provenance.mjs`, `plugin/commands/revert.md`) | `provenance.json`, backups, the worktree | `--init`, `--before`, `--after`, `--finalize`; revert |
| policy console (`plugin/policy-console/policy-server.mjs`, `index.html`) | the page, the directory of policies all projects share | show a policy, take choices, validate, build a policy, save |
| policy setup (`plugin/scripts/setup-policy.mjs`) | `project.json`, a snapshot of the same directory, timers | snapshot, serve the console, watch, choose, set the default policy |
| write contract (`plugin/scripts/write-contract-check.mjs`, `lib/off-limits.mjs`) | a repository's contract file, rewritten by the guide | a hook before each write: allow or deny |
| session (`session-hydrate.mjs`, `brownfield-cleanup.mjs`, `plugin/skills/brownfield-guide/SKILL.md`) | the files under `.sdlc/` | where to resume; clean up |
| progress (`setup-status-write.mjs`, `pre-check.mjs`) | two status files, read and rewritten by each command | mark a section; run, record, clear and report a check |
| discovery (`discovery-refresh.mjs`) | the recorded baseline, the history of the repository | decide on a full, a partial or no scan |
| setup checks (`verify-setup.mjs`) | the installation, `settings.local.json`, `.mcp.json` | observe, evaluate, repair, switch the agent on or off |
| wizard of a clone (`tools/setup.mjs`) | the same | build, write `.mcp.json` |
| credential probes (`credential-discovery.mjs`, `env-checks.mjs`, `probe-agent-worker.mjs`), sanitizer, reports | none | sequential probes, text rewriting, rendering |

The orchestrator itself is a set of instructions to a language model (`plugin/agents/orchestrator.md`,
`plugin/commands/`). It is not a program; what it promises the helpers (one helper at a time, `--before`
ahead of a write) is used as their environment.

### What is hard here

* **Interleaving.** `execute_with_model` awaits a vendor for minutes; other handlers run meanwhile and may
  replace the active policy, the slot choices and the adapters. Two delegations may work in one workspace.
* **Stale state.** Adapters are cached by model id; a policy by the arguments it was loaded with; a usage
  sidecar stays where an earlier attempt left it.
* **Money.** Each vendor counts cached and hidden tokens in its own way; attempts are billed even when the
  call fails later; a replay re-prices events.
* **Failure between two steps.** The server dies while a detached worker lives on; `provenance.json` is
  rewritten in place; an append fails after the vendor has billed.
* **Timeouts.** A kill timer races the worker's exit, its sidecar and its close.
* **Order.** Rules are first-match; provenance records are read by the first and by the last.
* **Shared files.** The consoles of several projects, and editors, write one directory of policies while
  setup flows watch it; a page shows a base as it was when it was loaded.
* **Files rewritten in place.** Contracts, status files and settings are truncated and written; hooks and
  other sessions read them at any moment, and a writer may die in between.
* **Check, then act.** A log's size, its lock and the lock's age are looked at one after the other by every
  process that logs.
* **Copies kept by hand.** The setup check predicts what the server will find with rules of its own, because it
  runs before the server is built.

What makes each part correct is stated in section 3, next to the run that checks it.

## 2. Modules

| module | models | uses |
|---|---|---|
| `Routing` | pure operators: validation of a policy and of slot choices, name resolution, matching, `PickModel`, `UnreachableModelIds`, prices | |
| `PolicyRun` | the life of one policy in a run: load, dispatches, replay of the events under the policy | `Routing` |
| `OutputLadder` | abstract: the documented ladder of output ceilings | |
| `Completion` | one packet through an API adapter's loop, with the vendor's side of each request | `OutputLadder` (refined) |
| `Dispatch` | the server: handlers, caches, the telemetry file, crashes, edits of policies | `Routing` |
| `Delegation` | packets handed to worker processes in a shared workspace | |
| `Provenance` | the provenance helper and revert, with a version-control work tree | |
| `PolicyConsole` | the console: what a page shows of a policy, choices, the policy a save builds, the write | `Routing` |
| `PolicySetup` | the flows that open a console, wait for its save and record the default policy | `PolicyConsole` |
| `Files` | what a reader can find in a file that is rewritten in place | |
| `WriteContract` | contracts of repositories and the hook that reads them | `Files` |
| `StatusFiles` | the scripts that keep the progress of a setup and of a pre-check, and the resume decision | `Files` |
| `Discovery` | a repository's history, the recorded baseline and the refresh decision | |
| `Session` | sessions that follow the guide: setup, check, discovery, Gate 0, run; their deaths, and the clean-up | `WriteContract`, `StatusFiles`, `Discovery` |
| `GeminiDoors` | pure operators: what an environment and credential files open, by the server's rules and by the check's copies of them | `Files` |
| `SetupChecks` | the check with its repairs and switches, the wizard, and the server that a later session starts | `GeminiDoors` |
| `LogRotation` | processes that append to one log and rotate it | |
| `Policy_proofs` | theorems of runs, consoles and setups | `PolicyRun`, `PolicySetup` |
| `Completion_proofs`, `Dispatch_proofs`, `Delegation_proofs`, `Provenance_proofs`, `Session_proofs`, `SetupChecks_proofs`, `LogRotation_proofs` | theorems of the module they are named for | that module |
| `MC*` | instances for TLC | |

### How state and actions correspond to the code

**Routing.** A policy is its parsed content: `models`, a function from ids to a configuration (adapter,
vendor model, price), `select`, a function from slot names to a default and its options, and `rules`, a
sequence of records that have the fields a file gives them (`when`, `use`, `default`, `fallback_to`);
absent fields are absent from `DOMAIN`. `PickModel` is one pass over the rules as in `pickModel`: the first
index that stops it decides. Prices are per token in millions, so a cost is an integer and `round6` is
exact.

**PolicyRun.** `Load` is `validatePolicy` and `validateSelectOverrides`; `Dispatch` appends an event as
`execute_with_model` does; `Replay` reads the events back, decides and prices as `simulatePolicyCost`
does, under the policy of the run.

**Completion.** `Send` and `Respond` are the two halves of the awaited request. `Respond` covers an answer
(complete or cut at the ceiling), an error, and the refusal of a temperature (`RejectTemperature`, the
retry without it). `AfterCap` is the decision after a cut answer: exhausted, at the model's limit, or
doubled. `Usage` is how a vendor reports a bill and `AttemptTokens` how the adapter reads it; `invoice` is
a history variable with what was truly consumed. Inputs are bills, so that totals can be compared with
the truth and not with the adapter's own arithmetic. Either vendor may leave the whole usage block out of an
answer; nobody can know that bill, and the attempt enters the invoice with the adapter's estimate.

**Dispatch.** `Execute` runs from the request to the `await`: it ensures the policy, validates choices,
routes, finds or builds the adapter. `VendorAttempt` is billing by the vendor while the call waits;
`Finish` and `ExecuteThrows` are what follows the `await`, with an append that may fail part way.
`Preflight`, `LoadPolicy`, `SimulatePolicy` are the other handlers; `EditPolicy` is somebody editing a
file; `Crash` loses what is in memory and keeps the telemetry. `EnsurePolicy` sets the key and the policy
together after validation, as the code does. Each handler runs to its `await` without interruption: Node
runs one callback at a time.

**Delegation.** `Start` stages the brief, takes the inventory and spawns; `Deadline` is the kill timer,
`Close` the child's close event with everything the handler does then (second inventory, sidecar, receipt,
result). The worker's steps are `ReadBrief`, `Edit`, `Meter`, `Exit`. It may `Launch` commands in its process
group, which go on editing until `HelperEnds`: an `attached` one holds the worker's pipes, so that no close is
reported before it has ended; a `redirected` one does not, and may outlive the answer. Nobody signals the group
but the timer. `Crash` is the server's death: the child is detached and goes on. A walk of the workspace is one
step, and may fail to read part of it: what lies under a path that it lost is passed over and the path noted
(`unreadable`), without a mark as truncated, and a file that it can look up but not open (`vague`) counts with its
size and is noted nowhere. Otherwise a file's content stands for its digest, except where `Digest` maps two contents
to one (files over the hashing cap are compared by size).

**Provenance.** `InitRun`, `Before`, `After`, `Finalize` are the four calls of the helper, `Write` the
write they surround. `Before` first copies the backup (`CopyTo`) and then records; the copy and the digest fail
each by itself, and a helper that dies or fails open leaves no record, but the backup in whatever state the copy
had come to, also where an earlier record names it (`overwritten`, history). Revert is three actions: `Collect` checks
what is dirty and plans the commands of its table, the user is asked, `Execute` runs the command of one file without
another look, and `EndRevert` ends it with all commands run, one failed or none approved. `OtherEdit` is a user's
edit, `CommitFile` a commit, at any moment of this; `Tear` a `provenance.json` that is left unparseable.

**PolicyConsole.** A page is what `summarizePolicy` makes of a file, with the time of the file it was read
from. `OpenEditor` is the fetch of the policies and the opening of one; `SetPhaseModel`,
`SetIntentGridCell` and `AddModel` are the page's handlers. `Submit` is `savePolicy` up to its write, which
validates the page and builds the policy from the page and from the base as it is on disk *then*; `Write` is
the exclusive write. Other processes may write between the two. Two fields are history: `touched` on a page,
the phases the user made a choice for, and `shown` in a file, the routing on the page that saved it.

**PolicySetup.** `Start` takes the snapshot and serves the console, `Watch` begins `waitForPolicySave`, whose
watcher hears only later writes (`Notify`) and restarts the `Debounce` timer; `Timeout` and `Enter` end the
wait as well. `Choose` and `Prompt` are what follows: the most recent of the files that differ from the
snapshot, or none. `Scripted` is `--policy=<name>`. `Interrupt` ends a flow at any moment. `latest` is
history: the file the flow's own console wrote, if nobody has written one since.

**Files.** `writeFileSync` empties a file and then writes it. What a reader finds is `None`, `Torn` or the
content; `Torn` is also what the death of a writer leaves.

**WriteContract.** A hook reads the contract of the session's directory (`LookAtCwd`), finds the one that
governs its target (`FindContract`) and reads that one again (`ReadContract`); contracts change between the
reads. `Verdict` is what one state of the files calls for, written from the documentation and the tests, and a
hook's field `possible` is history: the verdicts of the moments of its call. A path is a repository and a part
of its tree; a glob list is the set of parts it matches.

**StatusFiles.** A command of `setup-status-write.mjs` or `pre-check.mjs` reads its file and decides what to write
(`Prepare`), then truncates and writes it (`Truncate`, `WriteOut`); other sessions act in between. `ReadResume`
is hydration's decision. `worked` and `posted` are history: the sections that were worked on, and the last
result of each step of the check.

**Discovery.** The repository is the files in its tree and in `HEAD`, with the difference to the recorded baseline
(`delta`), whether the baseline's commit is `HEAD`, behind it or lost from the history (`head`; a commit may be
empty), and which manifests are newer than it. `Refresh` is the script's
decision, with its two seconds of grace for file times as the `late` of `WriteFile`; `Discover` is the agent that
does as it is told.

**Session.** The order of the commands is that of `SETUP.md` and of the guide, which a language model follows: it
is the environment the scripts promise to work in. `Open` is hydration and where it sends the session; `Die` ends
a session together with its command, wherever it is; `Cleanup` removes `.sdlc/` under whatever is running. `Scenes`
bounds how often each of these happens, one group of hazards per scene.

**GeminiDoors.** An environment is a record of the variables that `plugin.json` declares, where a variable may
hold the unexpanded placeholder. A credential file is absent, torn, without a type, incomplete, complete, or of a type
that the check does not know and lets pass; the last two may name a project. The first half of the module is the
server (`selectGeminiBackend`, `resolveGcpProject`, the selection, the worker's interpreter), the second the check's
copies (`vertexCredentialState`, `evaluate`). `Signs` is the Google library, external: whether it can sign with a file
of an unknown type is a property of the machine (`library`).

**SetupChecks.** `verify-setup.mjs` from `Start` to `done`: `ReadDocuments`, `CutFile` and `WriteFile` are
`enableAgentPath`, first for the settings and then for `.mcp.json`; `Observe` is `observe` with `evaluate`; `Repair`
and `BuildWorker` are tried at most once. The wizard is `WizardAsk`, `WizardBuild`, `WizardWorker`, `WizardWrite`; the
last writes `.mcp.json` as a whole, with what the wizard's shell sets (`Forwarded`). `ServerEnv` is what the server of
the next session gets: the block of `.mcp.json`, and nothing else, on the clone's route; the session's variables on the
plugin's. `mine`, `raced`, `replaced` and the check's `touched` are history: the user's keys in each file, what somebody
else changed meanwhile, and the files of the user that the wizard wrote over.

**LogRotation.** Every system call of `rotateIfNeeded` and `appendAtomic` is an action. A file is the set of the
numbers of its lines. A rename changes the name of a file that others have open (`Carried`): their lines then land
in the rotated file or nowhere. `aged` and `crossed` are history.

## 3. Runs

Every configuration sets `CHECK_DEADLOCK FALSE`: packets, delegations and runs end, and the bounds on
environment steps stop the rest. Run times are for two workers.

| run | instance | size | what it shows |
|---|---|---|---|
| `policy_run` | all policies of a generated family: models, one slot, up to two rules that name a model, a slot, an unknown name, `use` or `fallback_to`; 2 events | seconds | Losing options of a slot are never routed to (`LosersNeverRouted`); the only way a well-formed loaded policy fails at dispatch is a missing default (`OnlyMissingDefaultThrows`); rules for brownfield intents change nothing of a greenfield packet's decision, neither the model nor the rule it is named for (`GreenfieldUnaffected`); a replay of a run without intents routes its events as they were routed; what it prices them at is not judged (`ReplayRoutesAlike`) |
| `completion` | budgets 1, 3, 9, model limits 2, 8, 30, both vendors, answers with and without text and usage | 89,036 states | Totals are what the vendor consumed, where it reported it (`TotalsMatchInvoice`); ceilings and output stay in the documented bound (`SpendBounded`); the loop implements `OutputLadder` (`ClimbsTheLadder`); it ends (`EveryPacketEnds`) |
| `dispatch` | 2 calls, 2 attempts each, 3 policies under 2 keys, 2 steps of others | 174,213 states, 30 s | Events name the rule and model their own policy decides for their packet, whatever the active policy is by then (`EventTellsTheRoute`); telemetry reports each billed attempt at most once and in order, and all of them when the call returns (`TelemetryMatchesBilling`); what pre-flight cleared is not refused later (`PreflightIsAPromise`) |
| `delegation` | 2 calls of one packet, 2 files, inventory cap 1, 1 edit, 1 trouble (a command in the group, or a walk that fails to read something), 1 crash | 880,694 states, 2 min | Once the kill timer has fired, neither the worker nor anything in its process group goes on, and no answer is given while the worker lives or a command holds its pipes (`TimeoutLeavesNobody`); a success reports its own worker's spend when no namesake ran beside it (`SuccessReportsOwnWork`); of the files under no path that it reports as unreadable, a diff that is not marked truncated is the true difference up to digests (`UntruncatedDiffIsExact`); each delegation ends (`EveryDelegationEnds`) |
| `provenance` | 2 files with one backup name, 2 writes, 2 outside steps or failures of `--before` | 2,529,444 states, 30 s | Files whose records can speak for them are planned and put back, whatever failed before, in or after the copy of another's backup (`RevertRestores`); what others wrote after the run is not overwritten, but for two windows (`ForeignEditsSurvive`) |
| `policy_setup` | 2 projects (one with a terminal, one `project.json` that does not parse), 1 shipped file with a slot, an escalation and task types, 1 edit by hand, 1 choice, 2 writes, 2 flows | 120,853 states, 35 s | The page shows the routing of greenfield packets (`OpenShowsRouting`); a saved policy routes as its page showed, unless an added model takes the name of a slot (`SavedRoutesAsShown`) and loads if its base did (`FreshSaveLoads`); no save overwrites a file (`SavesNeverOverwrite`); a save by a flow's own console that nobody's write followed becomes the default, whenever it came (`OwnSaveBecomesDefault`); a file the user broke is not written over (`HandEditsSurvive`); flows without a terminal end (`SetupEnds`) |
| `session` | 2 sessions, 2 repositories, 3 sections, 2 languages, 5 scenes | 2,606,682 states, 1 min | A hook's answer is one that some moment of its call calls for, although it reads the contract twice (`HookAnswersForAMoment`); a baseline that stands for `HEAD` has seen a full scan of every committed language (`CommittedLanguagesScanned`); no section is recorded as done that nobody worked on, so a resume skips none (`NoSectionSkipped`); a pre-check recorded as passed is one whose steps all passed (`PassedCheckIsTrue`) |
| `setup_checks` | 4 environments, 5 machines, 4 contents of the two files, 1 edit, login or kill | 7,450,862 states, 2 min | A switch that is reported is what both files say (`SwitchedInStep`); the user's keys stay in them, but for three known losses (`UserKeysKept`); a check without a blocking problem means a server that is built and accepts its selection and, for a selected agent, an interpreter and something to sign with (`GreenMeansStartable`); what a check says of the Gemini credentials is so for the door that the server chooses, as far as the check can know (`DoorIsAsReported`) |
| `log_rotation` | 3 processes, rotation at 2 lines, 6 lines, 1 death | 30,818 states, 2 s | What can be read is the end of the log, in order and without a gap (`LogIsATail`); two processes rotate at once only if a lock was once stale (`RotationExclusive`) |

The bounds are small and reach the cases the properties are about. Budgets and limits lie on both sides of every
comparison of the doubling loop: limit below the budget, limit hit by a doubling, limit never reached. Two calls
suffice for an interference between two handlers, and two policies that share a model id for one between policies. An
inventory cap of one file lets the cut fall before and after a file that comes or goes. One trouble is a command that
edits after its worker has ended, or a walk that loses a directory or cannot open a file, in the first inventory or
the second. One crash is enough to separate a worker from its server, and a second delegation to be disturbed by it.
Two files under one backup name reach the collision of names; two outside steps a commit and an edit, an edit before
the plan and one before the command, or a failed copy over another file's backup and an edit; the run that disagrees
with the documentation needs none. Symmetry is used where it is sound: calls in `dispatch` (no liveness is checked
there) and files in `provenance`. In `policy_setup` two writes are a save beside an edit, or two saves for one name;
more choices on a page touch phases and intents that the saved policy keeps in rules of their own. In `session`, two
sessions interleave any two commands, and a third would only repeat one of them; three sections have a first, a middle
and a last one; each scene gives its hazard as many steps as its shortest bad behaviour would take, and one more where
a death or a clean-up comes in between. In `setup_checks` each credential file is met missing, broken, good and of an
unknown type, which the library can use or not, each variable set, unset and as a placeholder; one outside step
separates each read from its write. Three processes are a rotation, one that overtakes it and a writer that has the
file open; six lines fill the log twice and more.

### Runs that disagree with the documentation

| run | what a reader is told | what the code does |
|---|---|---|
| `policy_reopened` | a packet without an intent "falls through to the blanket rule untouched", overrides are "layered on top" (`policy-server.mjs:166-169`, `:277-279`) | the page takes an override, which stands before the blanket rule in a file the console saved, for the phase's own model; saving that page again, with no choice made, reroutes every packet of the phase |
| `provenance_dirty` | backups of uncommitted files let revert restore the state before the run (`plugin/agents/orchestrator.md:288`) | such a file has a digest in its record, and revert's table then takes the base commit |
| `log_loss` | one previous file is kept, and the loser of a race for the rotation "keeps appending" (`docs/logging.md:80-83`) | a process that found the log full before another's rotation looks for the lock after it, creates its own and renames the nearly empty new log over the full one |

### Disagreements met while modelling

No run checks these; each was read in the code while a definition was translated from it.

* A policy without a default rule loads, and a packet that no rule matches throws at dispatch; the load's checks
  are there so that "a routing failure never reaches a paid dispatch" (`md/policy.ts:70-71`).
* A replay subtracts cached tokens from the fresh ones (`md/routing.ts:228`) in events where the two are already
  disjoint (`md/pricing.ts:7-9`), and comes out too cheap.
* An adapter cached under a model id keeps the prices of the policy it was built for (`md/server.ts:137`); an
  event's cost is documented as its tokens at the loaded policy's prices (`docs/methodology.md:102`).
* The usage sidecar of a packet's previous attempt is read when the worker dies before it writes its own;
  `docs/understanding-output.md:153` promises null tokens.
* A contract that is closed lets everything through, sensitive paths included, until its file is gone; the
  hard-coded list is meant to refuse them "even without an active brownfield contract"
  (`lib/off-limits.mjs:7-11`). A contract with `.sdlc/**` in `off_limits` refuses the run's own files.
* A status file that was cut short makes hydration report nothing pending, so that a setup that died is not
  resumed (`SETUP.md:336-339`).
* Hydration takes `complete` and `aborted` for final (`session-hydrate.mjs:134`), the guard of the policy setup also
  `completed` and `failed` "since callers may spell it either way" (`setup-policy.mjs:408-410`): a run that ended
  under one of these is offered for resume.
* A manifest that is not committed leads to a partial scan at most, and manifests in subdirectories never count
  as a new language.
* A broken credential file blocks the check although an API key, which the server prefers, is set. The check can
  pass where the worker adapter's constructor throws for want of a project, and looks neither at `SDLC_SELECT` nor
  at `GEMINI_BACKEND`.
* `--project-root` "closes the cwd-drift hole" before "any subsequent settings write" (`verify-setup.mjs:937-941`),
  but `enableAgentPath` is called without it and writes below the working directory (`:961`).
* The wizard replaces `.mcp.json` as a whole (`tools/setup.mjs:272`), also one that does not parse. The switch
  refuses such a file, which may "hold the user's only copy of a key" (`verify-setup.mjs:804-806`).
* An inventory's diff is said to name "Paths neither inventory could read" (`md/delegation/evidence.ts:181`); the code
  joins the lists of the two (`:207-209`), so that a path that one of them lost is named as well, as it should be.
* A command of the worker that has its output redirected outlives an answer in time, for only the timer signals the
  group; its later edits are in no diff.
* Extra fields on the standard input of `pre-check.mjs --record` are spread after the status and may override it
  (`pre-check.mjs:307-311`).
* The wizard may report the model path while it forwards an inherited `MMO_SELECT` that selects the agent, and a
  selection exported in the shell survives `--disable-agent` on the clone's route.

## 4. Fairness

`Completion` assumes that a packet that can go on does (`WF` of `Send`: the loop is straight-line code) and that a
request ends (`WF` of `Respond`: the vendors' HTTP clients end every request with an answer, an error or a timeout).
`Delegation` assumes of each call that, as long as its timer or its close is due, one of the two comes (`Deadline \/
Close`): Node's event loop. Nothing is assumed of the worker and of the commands it leaves, which may hold its pipes:
both may hang for ever, and only the timer ends them. `PolicySetup` assumes that the script goes on (`GoesOn`): the
watch begins, the ten minutes pass, the choice is made, and without a terminal the flow ends without one. Nobody has
to save, to press Enter or to answer a prompt, and the debounce timer may be restarted for ever. The other
specifications state no fairness and check only safety: sessions and scripts may stop anywhere.

## 5. Proofs

Every safety invariant and every action property that a passing run checks is also a theorem, for every value
of the constants that the named assumptions allow; so is the refinement. Each proof has the same layout: an
inductive invariant (`IInv`, or the names below), one step per action, and a last step that is temporal.

* **Routing (`Policy_proofs`).** `LoadedPolicyRoutes`: an accepted, well-formed policy routes any packet to one
  of its models or throws for want of a default. `PickModel` takes the least stopping index, which exists or
  not (`MinOfNats`); a rule's target passed `ValidateRules`, and a name that is a model or a slot resolves to a
  model because the choices were validated (`NamesResolve`). `RoutedIsReachable`: the models pre-flight leaves
  out (`UnreachableModelIds`) are never routed to, by the same case split.
* **Runs (`Policy_proofs`).** `LosersAreNeverRouted` and `OnlyAMissingDefaultThrows` lift the two to every run:
  whatever was routed was routed by the policy that passed the load (`RunInv`). `GreenfieldIsUnaffected`: the
  rules for intents never stop a packet without one, so that the least stopping index is the same. `ReplayIsAlike`
  needs that each event repeats its packet and its decision (`EventsOK`); it speaks of runs whose packets have no
  intent, since an event does not carry its packet's. `RunTypeCorrect` needs that a replay's
  total is a number.
* **Consoles and setups (`Policy_proofs`).** `SetupTypes`, `FilesAreNotOverwritten`, `OwnSaveIsFound` and
  `UserPathsStay`, for any number of projects that share the directory. `IInv` adds two things to the types: a
  page and a flow are records of one of few forms (`Shape`), and a flow's own save that nobody's write followed is
  the youngest file, younger than all of the flow's snapshot (`SavedLast`). The second is why such a save is found
  whether it came before the watch, during it or after its end. `PageShowsTheRoute`: what a page reads for a
  phase is what stops a greenfield packet of it.
* **What a save builds (`Policy_proofs`).** `SaveRoutesAsShown` and `FreshSavesLoad`. The rules of a saved policy are
  three lists end to end, each made of smaller ones. A list is *quiet* for a packet when no rule of it stops it, or
  *serves* it by a rule; lists end to end serve what the first of them serves that is not quiet (`QuietOrServing`).
  `BuiltRoutes` shows by cases of the page's settings which list that is. The invariant `Content` says that the
  rules of each file are a list, and that a page has the models of its base as long as that is the file it was
  opened on: this is what a save needs to build a policy that loads, and what an edit of the base takes away.
* **Completion.** `TypeCorrect`; `OutputIsBounded`; `ImplementsTheLadder`, a refinement: each `Respond` is a
  `Climb` of `OutputLadder` or a stutter; `TotalsAreTheInvoice`. The inductive invariant relates the ceiling to
  the number of attempts (`OnTheLadder`), the billed output to the ceilings (`Accounted`), and the totals of the
  attempts so far to the invoice (`Invoiced`).
* **Dispatch.** `TypeCorrect`, `PreflightKept`, `EventsTellTheRoute`, `BilledIsReported`, for any number of calls,
  policies and keys. The invariant adds that the active policy is a validated one (`ActiveValid`), and that a
  policy that pre-flight cleared in this process still has an adapter for each model a packet may reach
  (`ClearedHolds`). For events, it is that each waiting call keeps the policy and the decision it was routed by
  (`CallsRouted`), so that its event can be read off the call and not off the server's present state. For bills, it
  is that the events of a call are a beginning of its attempts, in order, and none before it ends (`InOrder`,
  `MayReport`).
* **Delegation.** `TypeCorrect`, `TimeoutEndsTheGroup`, `SuccessIsOwnWork`, `DiffIsExact`, for any number of
  calls, files, commands and crashes, and any set of faults that a walk may meet. The two sides of a delegation move
  together (`Lifecycle`), and a timer that has fired has left nobody of the group; while a call is open without a
  namesake, the brief and the sidecar under its name are its own (`OwnEvidence`); the first inventory is the workspace
  as the worker found it, up to the cap, the digests and what that walk could not read (`OwnInventory`). `DiffIsExact`
  then compares two walks path by path, outside of what the diff names as unreadable.
* **Provenance.** `ProvenanceTypes`, `OthersSurvive`, `UndisturbedIsRestored`, for any number of files, also where
  backups share a name, and any number of steps of others between revert's check and its commands. The first record of
  a file tells what was there (`FirstsTell`), and so does the backup it names, until another copy goes over it; what a
  record says of the end of a write is something the run wrote (`WritesAreOwn`); and a file that waits for its command
  is as the check saw it, unless it was edited in that window (`PlanHolds`).
* **Session.** `SectionsWorkedOn`, `PassedCheckHolds`, `LanguagesScanned`, `HookAnswers`, for any number of sessions,
  sections, languages and hooks. Each has an invariant of its own about the commands on their way: what a command has
  read and is about to write is as true as what is in the file (`SetupOK`, `CheckOK`), a baseline that stands for
  `HEAD` leaves no difference to it and counts languages that were found (`BaselineOK`), and what a hook has looked at
  so far was so at a moment of its call (`HooksOK`).
* **SetupChecks.** `FilesSwitchInStep`, `KeysAreKept`, `GreenStarts`, `DoorsAreAsReported`, for every content of the
  files and every machine. `GreenStarts` does not say that the worker's constructor finds a project, because the check
  does not look; `DoorsAreAsReported` leaves open what the library makes of a credential of an unknown type. The
  invariant follows the switch through its four steps (`ReadOK`, `SwitchOK`) and says what the observation of a check
  that goes on is worth (`ObservedOK`).
* **LogRotation.** `TypeCorrect`, `ReadableTail` and `OneRotates`, for any number of writers, any size and any number
  of deaths. `LogIsATail` alone is not inductive: `TailInv` adds that, until a rename crosses an open file, a
  missing log has no lines, a writer at `write` has a log to write to, and nobody holds the rotated file or a
  nameless one open. `RotationExclusive` needs `LockInv`: until a lock grows stale, whoever is inside the
  rotation owns the lock file that is there, and nobody is about to discard it.

**Recursion.** Sums over attempts and events, and the lists of rules that a save filters and joins, are recursive
functions. That such a function exists, and what it yields, is shown by the least length at which it would not
(`SumExists`, `KeptExists`, `FlatExists`): every set of naturals that is not empty has a least member.

**Assumptions.** Constants are constrained by named assumptions, which TLC evaluates for the instances: bounds are
numbers, `None` and `Torn` are none of the values they stand beside, prices and counts are integers
(`PricesAssumption`), the rules of a file are a list and the page's phases and intents are lists
(`ConsoleAssumption`), a vendor does not generate past the ceiling it was sent (`OutputsAssumption`), an intent in a
matcher is a name (`IntentsAssumption`). `ContentsAssumption` of `Provenance` tells contents apart by who had them
first: an edit by which a user brings back exactly the bytes the run wrote is no edit, and revert cannot know of
it. `WellFormed` (rules have one of `use` and `default`, as `md/types.ts` declares a `Rule`) is a hypothesis of
the routing properties about a policy, not a guard of the model: badly formed policies are loaded and routed as
the code does.

**Only model-checked.** Liveness, because fairness is out of the prover's reach: `EveryPacketEnds`,
`EveryDelegationEnds` and `SetupEnds`. The three runs that disagree with the documentation are counterexamples, and
need no proof.

## 6. Abstractions

* Texts (prompts, briefs, logs, error messages), paths and YAML are left out; token counts are in millions.
* Model ids are unique in a policy; the loader keeps a list, `find` takes the first.
* The telemetry path is always given; without it nothing is recorded, and there is nothing to check.
* A walk of the workspace is atomic. A file that a worker is in the middle of writing reads as absent when
  it is JSON that the server parses (the sidecar).
* Provenance helpers run one at a time, as the orchestrator calls them; the index equals `HEAD`. Of revert, the
  branch that undoes a run's gate commits with `git revert` (`revert.md:99-101`), the user's own restoring of a dirty
  file by hand, and the deletion of backups are left out. Two windows are outside `ForeignEditsSurvive`, because the
  code has no check for them: between a `--before` and its `--after`, and between revert's check and its command.
  Where revert's text leaves open which of several records of a file it reads, the first one decides the
  case and the last one's `sha_after` is the dirty check.
* A page is read and opened in one step; going back to the page as it was opened (`resetChanges`) returns to a
  page already seen and is left out, as are thinking tiers, prices, names' spelling and the preview.
* The properties of the console speak of bases shaped like the shipped files (`Shaped`) or, for
  `FreshSaveLoads`, of pages whose base is still the file they show. Outside of that the code promises less
  than the console's specification (`docs/specs/custom-policy-and-thinking-config.md`, section 8): an added
  model may take the name of a slot, or the base may change under the page, and the file saved is then one
  the loader rejects; a rule that names phases of the page beside others is dropped by a save.
* Ports, the browser, the installation of dependencies and credential probes of the setup are left out. A
  scripted flow runs while no interactive flow of its project does.
* A command that leaves the worker's process group is left out. One that stays in it is modelled, and may edit after
  an answer in time when its output is redirected: no property forbids it, for the code does not.
* A walk that stops at the inventory's cap may not have come to all of the paths it could not read; the model notes them
  all. A file that vanishes during a walk is one of these paths, or is seen as it was.
* Decision, scan and record of `HEAD` are one step of `Discovery`, so that changes of the repository during a scan are
  not modelled. Nor is a baseline without a `built_at`, with which no manifest's time counts.
* `--record` is called for the two steps that the guide names. Where commands of two sessions overlap, one may lose
  the other's result; `PassedCheckIsTrue` leaves such checks out.
* `UserKeysKept` knows three losses: the file that is being written at a death, an edit between a switch's read and its
  write, and `.mcp.json` under the wizard.
* The writes of small files by users, by Gate 0's clean-up and by the wizard are atomic; those of the scripts that
  are modelled in `StatusFiles`, `WriteContract` and `SetupChecks` are not. Where two commands write one file at
  once, the result is the later text or a torn file.
* A hook's call ends before its target is written; what the write does is not modelled. Parts of a tree do not
  overlap, and symbolic links are left out.
* The command line of the check is one flag; `--user` writes another settings file in the same way.
* A log line is whole: appends below the pipe buffer's size are atomic. The two copies of the rotation
  (`md/log.ts`, `lib/log.mjs`) are one module.

## 7. Not modelled

Listed in `PROJECT.json` with the reason. Credential probes, redaction, the sanitizer's texts and reports keep no
state and write nothing that another part reads. The Claude CLI adapter starts one child with one timer; the race
of the two is that of `Delegation`, and what a killed program spent is known to nobody, so there is nothing to
compare its zeros with. The orchestrator's phases are instructions to a model: they are used as the order in which
sessions call the scripts, and not checked.

## 8. Plan

The modules above are built, and what they promise of safety is proved. What is left:

1. The Claude CLI child beside `Delegation`, with the pipe that breaks when the program exits before it has read
   its prompt (`ClaudeCliAdapter.ts:246` has no listener for that error).
2. The manifest's sums over the telemetry file, beside `PolicyRun`; the policy setup's guard against a change
   during a run.
3. `ClimbsTheLadder` is the one refinement. An abstract delegation (asked, then answered once, with what one
   worker did) would give `Delegation` a second one.
