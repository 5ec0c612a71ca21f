----------------------------- MODULE Delegation -----------------------------
(***************************************************************************)
(* Delegation of a packet to an agent in a child process: the brief it     *)
(* reads, the workspace it edits, the helpers it launches in its process   *)
(* group, the usage sidecar it leaves, the inventories taken around it,    *)
(* and the receipt and the result the server makes of them.  Several       *)
(* delegations may share a workspace, retries of a packet share their      *)
(* evidence files, and the server may die while a worker goes on.          *)
(*                                                                         *)
(* Translated from plugin/mcp/model-dispatch/src/adapters/                 *)
(* AntigravityWorkerAdapter.ts, src/delegation/evidence.ts and             *)
(* workerProcess.ts; the worker from worker/gemini_worker.py.  A walk of   *)
(* the workspace is one step, which may fail to read part of it.           *)
(***************************************************************************)
EXTENDS Integers, FiniteSets, Functions

CONSTANTS
    None,
    Calls,       \* delegated executions
    Stems,       \* names of evidence files
    Stem,        \* Stem[c]: evidenceStem of c's packet; a retry has the same
    Files,       \* paths in the workspace, as numbers in walk order
    Paths,       \* directories and files as a walk meets them
    Under,       \* Under[p]: the files at or below path p
    Contents,    \* what a file may hold
    Digest,      \* Digest[x]: content hash, or the size of a file over the cap
    Size,        \* Size[x]: what stands for the hash of contents that cannot be read
    Faults,      \* what a walk may fail to read: lost paths, and vague files that can
                 \*   be looked up but not opened
    Workspaces,  \* workspaces a run may start in
    Usages,      \* what the vendor may meter
    FILE_CAP,    \* INVENTORY_FILE_CAP
    MaxEdits,    \* bound: edits of all workers and helpers
    MaxTroubles, \* bound: helpers that run at once, and delegations whose walks failed
                 \*   to read something
    MaxCrashes   \* bound: deaths of the server

ASSUME DelegationAssumption ==
    /\ Stem \in [Calls -> Stems]
    /\ Files \subseteq Nat /\ IsFiniteSet(Files)
    /\ None \notin Contents /\ None \notin Usages /\ None \notin Calls
    /\ Under \in [Paths -> SUBSET Files]
    /\ Digest \in [Contents -> Range(Digest)] /\ Size \in [Contents -> Range(Size)]
    /\ Faults \subseteq [lost : SUBSET Paths, vague : SUBSET Files]
    /\ Workspaces \subseteq [Files -> Contents \cup {None}]
    /\ Usages \subseteq [prompt : Nat, cached : Nat, candidates : Nat, thoughts : Nat]
    /\ FILE_CAP \in Nat /\ MaxEdits \in Nat /\ MaxTroubles \in Nat /\ MaxCrashes \in Nat

VARIABLES
    workspace,  \* workspace[f]: content of f, None if it does not exist
    briefs,     \* briefs[s]: call whose brief worker-task-<s>.md holds
    sidecars,   \* sidecars[s]: worker-usage-<s>.json, None if absent or unparseable
    receipts,   \* receipts[s]: worker-delegation-<s>.json, None if absent
    calls,      \* calls[c]: the server's side of a delegation
    workers,    \* workers[c]: the child process of a delegation
    helpers,    \* helpers[c]: commands of c's worker that still run in its process group
    history,    \* history[c]: what c's worker metered; was no namesake open beside it;
                \*   the workspace when its window opened and closed, and the files
                \*   whose contents one of the two walks could not read
    edits, crashes

vars == <<workspace, briefs, sidecars, receipts, calls, workers, helpers, history,
          edits, crashes>>

Alive == {"spawned", "working", "metered"}

\* A command holds the worker's pipes open, or has its output redirected.
HelperKinds == {"attached", "redirected"}

------------------------------------------------------------------------------
(* Inventories and what is made of them.                                     *)

Present(ws) == {f \in Files : ws[f] # None}

Hidden(paths) == UNION {Under[p] : p \in paths}

\* What is there and can be looked up, in walk order up to the cap; truncated
\* once one more is met.  A path that cannot be read is noted and passed over
\* (a walk that stops at the cap may not have come to all of these), contents
\* that cannot be read are replaced by their size without a note.
TakeInventory(ws, fault) ==
    LET met    == Present(ws) \ Hidden(fault.lost)
        walked == {f \in met : Cardinality({g \in met : g < f}) < FILE_CAP}
    IN  [entries    |-> [f \in walked |-> IF f \in fault.vague THEN Size[ws[f]]
                                                             ELSE Digest[ws[f]]],
         truncated  |-> walked # met,
         unreadable |-> fault.lost]

Inventories ==
    {TakeInventory(ws, fault) : ws \in [Files -> Contents \cup {None}], fault \in Faults}
Sidecars    == [author : Calls, usage : Usages]

\* No object is None.
ASSUME NoneAssumption == None \notin Inventories /\ None \notin Sidecars

\* Takes the flag of the later walk only.
DiffTruncatedAfter(before, after) ==
    LET was == DOMAIN before.entries   is == DOMAIN after.entries
    IN  [added      |-> is \ was,
         modified   |-> {f \in is \cap was : before.entries[f] # after.entries[f]},
         removed    |-> was \ is,
         truncated  |-> after.truncated,
         unreadable |-> before.unreadable \cup after.unreadable]

\* Names the paths that neither walk could read.
DiffUnreadableByBoth(before, after) ==
    LET was == DOMAIN before.entries   is == DOMAIN after.entries
    IN  [added      |-> is \ was,
         modified   |-> {f \in is \cap was : before.entries[f] # after.entries[f]},
         removed    |-> was \ is,
         truncated  |-> before.truncated \/ after.truncated,
         unreadable |-> before.unreadable \cap after.unreadable]

DiffInventories(before, after) ==
    LET was == DOMAIN before.entries   is == DOMAIN after.entries
    IN  [added      |-> is \ was,
         modified   |-> {f \in is \cap was : before.entries[f] # after.entries[f]},
         removed    |-> was \ is,
         truncated  |-> before.truncated \/ after.truncated,
         unreadable |-> before.unreadable \cup after.unreadable]

NoDiff == [added |-> {}, modified |-> {}, removed |-> {}, truncated |-> FALSE,
           unreadable |-> {}]

\* Takes prompt_token_count for what was not cached.
MapSidecarTokensOverlapping(sidecar) ==
    IF sidecar = None THEN [input |-> 0, input_cached |-> 0, output |-> 0]
    ELSE [input        |-> sidecar.usage.prompt,
          input_cached |-> sidecar.usage.cached,
          output       |-> sidecar.usage.candidates + sidecar.usage.thoughts]

\* prompt_token_count includes the cached tokens; thoughts fold into output;
\* no sidecar is no tokens.
MapSidecarTokens(sidecar) ==
    IF sidecar = None THEN [input |-> 0, input_cached |-> 0, output |-> 0]
    ELSE LET u == sidecar.usage IN
         [input        |-> IF u.prompt > u.cached THEN u.prompt - u.cached ELSE 0,
          input_cached |-> u.cached,
          output       |-> u.candidates + u.thoughts]

------------------------------------------------------------------------------
Idle == [pc |-> "idle", before |-> None, timedOut |-> FALSE, success |-> FALSE,
         tokens |-> MapSidecarTokens(None), diff |-> NoDiff]

Init ==
    /\ workspace \in Workspaces
    /\ briefs = [s \in Stems |-> None]
    /\ sidecars = [s \in Stems |-> None]
    /\ receipts = [s \in Stems |-> None]
    /\ calls = [c \in Calls |-> Idle]
    /\ workers = [c \in Calls |-> [state |-> "none", brief |-> None]]
    /\ helpers = [c \in Calls |-> {}]
    /\ history = [c \in Calls |-> [metered |-> None, alone |-> TRUE, vague |-> {},
                                   opened |-> workspace, closed |-> workspace]]
    /\ edits = 0 /\ crashes = 0

\* No working directory, or the brief cannot be staged: no worker, no receipt.
Refuse(c) ==
    /\ calls[c].pc = "idle"
    /\ calls' = [calls EXCEPT ![c].pc = "returned"]
    /\ UNCHANGED <<workspace, briefs, sidecars, receipts, workers, helpers, history,
                   edits, crashes>>

\* A delegation is open while its call waits or its worker lives.
Open(c) == calls[c].pc = "running" \/ workers[c].state \in Alive

NoFault == [lost |-> {}, vague |-> {}]

Helpers == {h \in Calls \X HelperKinds : h[2] \in helpers[h[1]]}

Faulty ==
    {c \in Calls :
       \/ history[c].vague # {}
       \/ calls[c].diff.unreadable # {}
       \/ calls[c].before # None /\ calls[c].before.unreadable # {}}

\* What c's next walk may fail to read.
FaultsOf(c) ==
    {fault \in Faults :
       \/ fault = NoFault
       \/ Cardinality(Helpers) + Cardinality(Faulty \ {c}) < MaxTroubles}

\* Stage the brief, take the inventory, spawn.  A spawn that fails is a worker
\* that has already ended in failure.
Start(c) ==
    LET sharing == {k \in Calls \ {c} : Stem[k] = Stem[c] /\ Open(k)} IN
    /\ calls[c].pc = "idle"
    /\ briefs' = [briefs EXCEPT ![Stem[c]] = c]
    /\ \E state \in {"spawned", "failed"} : workers' = [workers EXCEPT ![c].state = state]
    /\ \E fault \in FaultsOf(c) :
         /\ calls' = [calls EXCEPT ![c].pc = "running",
                                   ![c].before = TakeInventory(workspace, fault)]
         /\ history' = [k \in Calls |->
                          IF k = c THEN [history[c] EXCEPT !.opened = workspace,
                                                           !.alone = sharing = {},
                                                           !.vague = fault.vague]
                          ELSE IF k \in sharing THEN [history[k] EXCEPT !.alone = FALSE]
                          ELSE history[k]]
    /\ UNCHANGED <<workspace, sidecars, receipts, helpers, edits, crashes>>

------------------------------------------------------------------------------
(* The worker.                                                               *)

ReadBrief(c) ==
    /\ workers[c].state = "spawned"
    /\ workers' = [workers EXCEPT ![c] = [state |-> "working", brief |-> briefs[Stem[c]]]]
    /\ UNCHANGED <<workspace, briefs, sidecars, receipts, calls, helpers, history,
                   edits, crashes>>

\* The agent runs a command, which may outlive it.
Launch(c) ==
    /\ workers[c].state = "working"
    /\ Cardinality(Helpers) + Cardinality(Faulty) < MaxTroubles
    /\ \E kind \in HelperKinds \ helpers[c] :
         helpers' = [helpers EXCEPT ![c] = @ \cup {kind}]
    /\ UNCHANGED <<workspace, briefs, sidecars, receipts, calls, workers, history,
                   edits, crashes>>

HelperEnds(c) ==
    /\ \E kind \in helpers[c] : helpers' = [helpers EXCEPT ![c] = @ \ {kind}]
    /\ UNCHANGED <<workspace, briefs, sidecars, receipts, calls, workers, history,
                   edits, crashes>>

\* By the agent, or by a command of its.
Edit(c) ==
    /\ workers[c].state = "working" \/ helpers[c] # {}
    /\ edits < MaxEdits
    /\ \E f \in Files, x \in Contents \cup {None} :
         x # workspace[f] /\ workspace' = [workspace EXCEPT ![f] = x]
    /\ edits' = edits + 1
    /\ UNCHANGED <<briefs, sidecars, receipts, calls, workers, helpers, history, crashes>>

\* The session has resolved: the usage sidecar is written, after the edits.
Meter(c) ==
    /\ workers[c].state = "working"
    /\ \E u \in Usages :
         /\ sidecars' = [sidecars EXCEPT ![Stem[c]] = [author |-> c, usage |-> u]]
         /\ history' = [history EXCEPT ![c].metered = u]
    /\ workers' = [workers EXCEPT ![c].state = "metered"]
    /\ UNCHANGED <<workspace, briefs, receipts, calls, helpers, edits, crashes>>

\* Well, in failure or at its own deadline.  Nobody signals its group.
Exit(c) ==
    /\ \/ workers[c].state = "metered" /\ workers' = [workers EXCEPT ![c].state = "done"]
       \/ workers[c].state \in Alive /\ workers' = [workers EXCEPT ![c].state = "failed"]
    /\ UNCHANGED <<workspace, briefs, sidecars, receipts, calls, helpers, history,
                   edits, crashes>>

------------------------------------------------------------------------------
(* The server.                                                               *)

\* Forgets to kill.
DeadlineWithoutKill(c) ==
    /\ calls[c].pc = "running" /\ ~calls[c].timedOut
    /\ calls' = [calls EXCEPT ![c].timedOut = TRUE]
    /\ UNCHANGED <<workspace, briefs, sidecars, receipts, workers, helpers, history,
                   edits, crashes>>

\* Kills the worker and leaves its group alone.
DeadlineKillsWorkerOnly(c) ==
    /\ calls[c].pc = "running" /\ ~calls[c].timedOut
    /\ calls' = [calls EXCEPT ![c].timedOut = TRUE]
    /\ workers' = [workers EXCEPT ![c].state = IF @ \in Alive THEN "failed" ELSE @]
    /\ UNCHANGED <<workspace, briefs, sidecars, receipts, helpers, history, edits, crashes>>

\* The timer is not cleared at the close.
DeadlineNotCleared(c) ==
    /\ calls[c].pc \in {"running", "returned"} /\ workers[c].state # "none"
    /\ ~calls[c].timedOut
    /\ calls' = [calls EXCEPT ![c].timedOut = TRUE]
    /\ workers' = [workers EXCEPT ![c].state = IF @ \in Alive THEN "failed" ELSE @]
    /\ helpers' = [helpers EXCEPT ![c] = {}]
    /\ UNCHANGED <<workspace, briefs, sidecars, receipts, history, edits, crashes>>

\* The kill timer fires before the close: whoever is left of the process group is
\* killed, the worker perhaps in the middle of writing its sidecar.  The group
\* can be signalled when the worker itself has ended.
Deadline(c) ==
    /\ calls[c].pc = "running" /\ ~calls[c].timedOut
    /\ calls' = [calls EXCEPT ![c].timedOut = TRUE]
    /\ helpers' = [helpers EXCEPT ![c] = {}]
    /\ IF workers[c].state \in Alive
       THEN /\ workers' = [workers EXCEPT ![c].state = "failed"]
            /\ \/ UNCHANGED sidecars
               \/ /\ workers[c].state = "working"
                  /\ sidecars' = [sidecars EXCEPT ![Stem[c]] = None]
       ELSE UNCHANGED <<workers, sidecars>>
    /\ UNCHANGED <<workspace, briefs, receipts, history, edits, crashes>>

\* The tokens a call reports: those of the sidecar that stands under its stem
\* when the worker has closed, however it ended.
TokensOf(c) == MapSidecarTokens(sidecars[Stem[c]])

\* The child has closed, that is, it has ended and nobody holds its pipes:
\* inventory again, read the sidecar whatever the exit was, write the receipt (a
\* failure to write it is swallowed), and answer.
Close(c) ==
    LET success == workers[c].state = "done" /\ ~calls[c].timedOut
        tokens  == TokensOf(c)
    IN
    /\ calls[c].pc = "running"
    /\ workers[c].state \in {"done", "failed"} /\ "attached" \notin helpers[c]
    /\ UNCHANGED <<workspace, briefs, sidecars, workers, helpers, edits, crashes>>
    /\ \E fault \in FaultsOf(c) :
         LET diff == DiffInventories(calls[c].before, TakeInventory(workspace, fault)) IN
         /\ calls' = [calls EXCEPT ![c] = [@ EXCEPT !.pc = "returned", !.success = success,
                                                    !.tokens = tokens, !.diff = diff]]
         /\ receipts' \in {receipts,
                           [receipts EXCEPT ![Stem[c]] =
                              [call |-> c, success |-> success, tokens |-> tokens,
                               sidecar |-> sidecars[Stem[c]], diff |-> diff]]}
         /\ history' = [history EXCEPT ![c].closed = workspace,
                                       ![c].vague = @ \cup fault.vague]

\* The server dies; its detached workers and their helpers go on without a timer.
Crash ==
    /\ crashes < MaxCrashes
    /\ crashes' = crashes + 1
    /\ calls' = [c \in Calls |-> IF calls[c].pc = "running"
                                 THEN [calls[c] EXCEPT !.pc = "lost"] ELSE calls[c]]
    /\ UNCHANGED <<workspace, briefs, sidecars, receipts, workers, helpers, history, edits>>

Next ==
    \/ \E c \in Calls :
         \/ Refuse(c) \/ Start(c)
         \/ ReadBrief(c) \/ Launch(c) \/ HelperEnds(c)
         \/ Edit(c) \/ Meter(c) \/ Exit(c)
         \/ Deadline(c) \/ Close(c)
    \/ Crash

\* The runtime does not forget a call: it fires the timer, or reports the close of
\* a child that has ended.  Of the worker and its helpers nothing is assumed: they
\* may hang.
Spec == Init /\ [][Next]_vars
        /\ \A c \in Calls : WF_vars(Deadline(c) \/ Close(c))

------------------------------------------------------------------------------
Diffs == [added : SUBSET Files, modified : SUBSET Files, removed : SUBSET Files,
          truncated : BOOLEAN, unreadable : SUBSET Paths]

Tokens == [input : Nat, input_cached : Nat, output : Nat]

CallRecords ==
    [pc : {"idle", "running", "returned", "lost"}, before : Inventories \cup {None},
     timedOut : BOOLEAN, success : BOOLEAN, tokens : Tokens, diff : Diffs]

\* The variables are well typed; what succeeded has ended well before its
\* timer, and a receipt lies under the stem of its own packet.
TypeOK ==
    /\ workspace \in [Files -> Contents \cup {None}]
    /\ briefs \in [Stems -> Calls \cup {None}]
    /\ sidecars \in [Stems -> Sidecars \cup {None}]
    /\ workers \in [Calls -> [state : Alive \cup {"none", "done", "failed"},
                             brief : Calls \cup {None}]]
    /\ helpers \in [Calls -> SUBSET HelperKinds]
    /\ calls \in [Calls -> CallRecords]
    /\ \A c \in Calls :
         /\ calls[c].pc = "running" => calls[c].before # None
         /\ calls[c].success => workers[c].state = "done" /\ ~calls[c].timedOut
    /\ DOMAIN receipts = Stems
    /\ \A s \in Stems : receipts[s] # None => Stem[receipts[s].call] = s

\* AntigravityWorkerAdapter.ts:310-316: the kill takes the whole group, since
\* "killing only the Python process would leave them running".  Once the timer
\* has fired nothing of the delegation goes on, so that the diff taken then holds
\* all it did; after an answer in time a command whose output was redirected may
\* still edit, but not the worker, and nobody who holds its pipes.
TimeoutLeavesNobody ==
    \A c \in Calls :
        /\ calls[c].timedOut => workers[c].state \notin Alive /\ helpers[c] = {}
        /\ calls[c].pc = "returned" =>
             workers[c].state \notin Alive /\ "attached" \notin helpers[c]

\* A delegation that reports success, and had no open namesake beside it,
\* read its own brief and reports what its own worker metered, none of it
\* twice, whatever an earlier attempt left under the same name.
SuccessReportsOwnWork ==
    \A c \in Calls :
        calls[c].pc = "returned" /\ calls[c].success /\ history[c].alone =>
            LET t == calls[c].tokens   u == history[c].metered
            IN  /\ workers[c].brief = c
                /\ u # None
                /\ u.prompt >= u.cached =>
                     t.input + t.input_cached + t.output
                       = u.prompt + u.candidates + u.thoughts

\* docs/understanding-output.md, "What Files does and does not claim": of the
\* files that lie under no path it reports as unreadable, a diff that does not say
\* it is truncated lists exactly those that came, went or changed their digest
\* between the start and the end of the delegation.  Of a file that could not be
\* opened it can only say that it is there.
UntruncatedDiffIsExact ==
    \A c \in Calls :
        calls[c].pc = "returned" /\ ~calls[c].diff.truncated =>
            LET diff == calls[c].diff
                was  == history[c].opened   is == history[c].closed
                seen == Files \ Hidden(diff.unreadable)
            IN  /\ diff.added \cap seen   = (Present(is) \ Present(was)) \cap seen
                /\ diff.removed \cap seen = (Present(was) \ Present(is)) \cap seen
                /\ diff.modified \cap (seen \ history[c].vague) =
                     {f \in Present(was) \cap Present(is) \cap (seen \ history[c].vague) :
                        Digest[was[f]] # Digest[is[f]]}

\* A delegation ends although its worker hangs: it is answered, unless the
\* server itself dies.
EveryDelegationEnds ==
    \A c \in Calls : calls[c].pc = "running" ~> calls[c].pc \in {"returned", "lost"}
==============================================================================
