----------------------------- MODULE PolicySetup -----------------------------
(***************************************************************************)
(* Setting a project's default policy: the interactive flow, which takes a *)
(* snapshot of the shared policy directory, opens the project's console,   *)
(* waits for a save and records the policy it finds, beside the scripted   *)
(* one.  Other projects' consoles save into the same directory meanwhile.  *)
(*                                                                         *)
(* Translated from plugin/scripts/setup-policy.mjs.  Ports, the browser    *)
(* and credential probes are left out.                                     *)
(***************************************************************************)
EXTENDS PolicyConsole

CONSTANTS
    Terminals,  \* projects set up from a real terminal, which can prompt
    ProjectFiles, \* what the projects' project.json may be at first
    MaxFlows    \* bound: flows started, of all projects

ASSUME SetupAssumption ==
    /\ Terminals \subseteq Projects /\ MaxFlows \in Nat
    /\ None \notin Names \cup Projects \cup {"own"}
    /\ ProjectFiles \subseteq
         [Projects -> [valid : BOOLEAN, default : {None}, off_limits : {None, "own"}]]

VARIABLES
    setups,    \* setups[k]: the interactive flow of project k
    projects,  \* projects[k]: .sdlc/project.json: does it parse, the default policy,
               \*   the off-limits paths
    latest,    \* latest[k], history: the file that k's console saved in the current flow,
               \*   None if it saved none or somebody else has written one since
    flows      \* flows started so far

vars == <<policies, pages, clock, choices, setups, projects, latest, flows>>

OFF_LIMITS_DEFAULT == "off-limits default"

Init ==
    /\ ConsoleInit
    /\ setups = [k \in Projects |-> [pc |-> "idle", before |-> <<>>, debounce |-> FALSE]]
    /\ projects \in ProjectFiles
    /\ latest = [k \in Projects |-> None]
    /\ flows = 0

------------------------------------------------------------------------------
SnapshotPolicies == [n \in DOMAIN policies |-> policies[n].mtime]

\* Files added or modified since a snapshot.
DiffPolicies(before) ==
    {n \in DOMAIN policies : n \notin DOMAIN before \/ before[n] # policies[n].mtime}

\* Reads a file that does not parse as an empty one.
SaveDefaultPolicyForgiving(k, name) ==
    projects' = [projects EXCEPT ![k] =
        [valid |-> TRUE, default |-> name,
         off_limits |-> IF ~projects[k].valid \/ projects[k].off_limits = None
                        THEN OFF_LIMITS_DEFAULT ELSE projects[k].off_limits]]

\* A file that does not parse ends the script; what the user wrote in it stays.
SaveDefaultPolicy(k, name) ==
    projects' = IF ~projects[k].valid THEN projects
                ELSE [projects EXCEPT ![k].default = name,
                                      ![k].off_limits = IF @ = None THEN OFF_LIMITS_DEFAULT ELSE @]

End(k) ==
    /\ setups' = [setups EXCEPT ![k].pc = "done", ![k].before = <<>>, ![k].debounce = FALSE]
    /\ pages' = [pages EXCEPT ![k] = Closed]
    /\ latest' = [latest EXCEPT ![k] = None]
    /\ UNCHANGED <<policies, clock, choices, flows>>

------------------------------------------------------------------------------
(* The interactive flow.                                                     *)

NewFlow(k) ==
    /\ setups[k].pc \in {"idle", "done"}
    /\ flows < MaxFlows /\ flows' = flows + 1

\* Snapshot first, then the server and the browser.
Start(k) ==
    /\ NewFlow(k)
    /\ setups' = [setups EXCEPT ![k] = [pc |-> "serving", before |-> SnapshotPolicies,
                                       debounce |-> FALSE]]
    /\ UNCHANGED <<consoleVars, projects, latest>>

\* Takes the snapshot only when the watch begins.
WatchAfresh(k) ==
    /\ setups[k].pc = "serving"
    /\ setups' = [setups EXCEPT ![k].pc = "waiting", ![k].before = SnapshotPolicies]
    /\ UNCHANGED <<consoleVars, projects, latest, flows>>

\* waitForPolicySave: the watch reports only what happens from here on.
Watch(k) ==
    /\ setups[k].pc = "serving"
    /\ setups' = [setups EXCEPT ![k].pc = "waiting"]
    /\ UNCHANGED <<consoleVars, projects, latest, flows>>

\* Leaves the timer of the watch running.
FinishKeepsTimer(k) == setups' = [setups EXCEPT ![k].pc = "found"]

Finish(k) == setups' = [setups EXCEPT ![k].pc = "found", ![k].debounce = FALSE]

\* The timer that each event of the watch restarts.
Debounce(k) ==
    /\ setups[k].pc = "waiting" /\ setups[k].debounce
    /\ IF DiffPolicies(setups[k].before) # {} THEN Finish(k)
       ELSE setups' = [setups EXCEPT ![k].debounce = FALSE]
    /\ UNCHANGED <<consoleVars, projects, latest, flows>>

\* Waits for an event.
TimeoutOfWatch(k) ==
    /\ setups[k].pc = "waiting" /\ setups[k].debounce
    /\ Finish(k)
    /\ UNCHANGED <<consoleVars, projects, latest, flows>>

\* Ten minutes have passed.
Timeout(k) ==
    /\ setups[k].pc = "waiting"
    /\ Finish(k)
    /\ UNCHANGED <<consoleVars, projects, latest, flows>>

\* The user presses Enter.
Enter(k) == k \in Terminals /\ Timeout(k)

\* Takes the oldest.
OldestOf(names) == CHOOSE n \in names : \A m \in names : policies[n].mtime <= policies[m].mtime

MostRecent(names) == CHOOSE n \in names : \A m \in names : policies[n].mtime >= policies[m].mtime

\* One file: that one; several: the most recent.
Choose(k) ==
    /\ setups[k].pc = "found"
    /\ LET candidates == DiffPolicies(setups[k].before) IN
         candidates # {} /\ SaveDefaultPolicy(k, MostRecent(candidates))
    /\ End(k)

\* No file: a terminal asks for one of those on disk; otherwise nothing is written.
Prompt(k) ==
    /\ setups[k].pc = "found" /\ DiffPolicies(setups[k].before) = {}
    /\ \/ UNCHANGED projects
       \/ k \in Terminals /\ \E answer \in DOMAIN policies : SaveDefaultPolicy(k, answer)
    /\ End(k)

\* Ctrl-C, or a server that does not start.
Interrupt(k) ==
    /\ setups[k].pc \in {"serving", "waiting", "found"}
    /\ End(k) /\ UNCHANGED projects

\* --policy=<name>, while no interactive flow of the project runs.
Scripted(k, name) ==
    /\ NewFlow(k)
    /\ name \in DOMAIN policies
    /\ SaveDefaultPolicy(k, name)
    /\ UNCHANGED <<consoleVars, setups, latest>>

------------------------------------------------------------------------------
(* The directory's watchers and the consoles.                                *)

\* What a write, by the console of project `by` or by nobody's (None), does
\* to the flows.
Notify(by, name) ==
    IF policies' = policies THEN UNCHANGED <<setups, latest>>
    ELSE /\ setups' = [k \in Projects |->
                 [setups[k] EXCEPT !.debounce = @ \/ setups[k].pc = "waiting"]]
         /\ latest' = [k \in Projects |-> IF k = by THEN name ELSE None]

\* The console's server lives as long as the flow.
Serves(k) == setups[k].pc \in {"serving", "waiting", "found"}

UserStep(k) ==
    \/ \E id \in DOMAIN policies : OpenEditor(k, id)
    \/ \E phase \in Visible, m \in ModelIds : SetPhaseModel(k, phase, m)
    \/ \E i \in Intents, phase \in Visible, m \in ModelIds \cup {None} :
         SetIntentGridCell(k, i, phase, m)
    \/ \E m \in ModelIds : AddModel(k, m)
    \/ \E name \in NamesOf[k] : Submit(k, name)

ConsoleStep(k) ==
    /\ Serves(k)
    /\ \/ UserStep(k) /\ UNCHANGED <<setups, latest>>
       \/ Write(k) /\ Notify(k, pages[k].name)
    /\ UNCHANGED <<projects, flows>>

HandStep ==
    /\ \E b \in HandPolicies : EditPolicy(b) /\ Notify(None, b.name)
    /\ UNCHANGED <<projects, flows>>

SetupStep(k) ==
    \/ Start(k) \/ Watch(k) \/ Debounce(k) \/ Timeout(k) \/ Enter(k)
    \/ Choose(k) \/ Prompt(k) \/ Interrupt(k)
    \/ \E name \in Names : Scripted(k, name)

Next ==
    \/ \E k \in Projects : SetupStep(k) \/ ConsoleStep(k)
    \/ HandStep

\* Timers fire and the script goes on; nobody has to save, to press a key or
\* to answer a prompt.
GoesOn(k) == Watch(k) \/ Timeout(k) \/ Choose(k) \/ (k \notin Terminals /\ Prompt(k))

Fairness == \A k \in Projects : WF_vars(GoesOn(k))

Spec == Init /\ [][Next]_vars /\ Fairness

------------------------------------------------------------------------------
PageOK(page) ==
    \/ page = Closed
    \/ /\ page.pc = "editing"
       /\ page.base \in DOMAIN policies /\ page.opened \in 1..policies[page.base].mtime
       /\ DOMAIN page.routing = Visible /\ DOMAIN page.overrides = Intents
       /\ page.touched \subseteq Visible

\* Types; every write has a time of its own; a page is open, or a save under
\* way, only while the flow that serves it runs.
TypeOK ==
    /\ clock \in 1..(MaxWrites + 1) /\ choices \in 0..MaxChoices
    /\ DOMAIN policies \subseteq Names
    /\ \A n, m \in DOMAIN policies :
         /\ policies[n].mtime \in 1..clock
         /\ policies[n].mtime = policies[m].mtime => n = m \/ policies[n].mtime = 1
    /\ \A k \in Projects :
         /\ setups[k].pc \in {"idle", "serving", "waiting", "found", "done"}
         /\ setups[k].debounce => setups[k].pc = "waiting"
         /\ \A n \in DOMAIN setups[k].before : setups[k].before[n] <= policies[n].mtime
         /\ pages[k].pc = "writing" => pages[k].name \in Names /\ PageOK(pages[k].page)
         /\ pages[k].pc # "writing" => PageOK(pages[k])
         /\ pages[k].pc # "closed" => Serves(k)
    /\ flows \in 0..MaxFlows
    /\ projects \in [Projects -> [valid : BOOLEAN, default : Names \cup {None},
                                  off_limits : {None, "own", OFF_LIMITS_DEFAULT}]]

\* When a flow that was not interrupted ends, its own console was the last to
\* write a policy in it and project.json can be read, the project's default is
\* the policy that the console saved: no save is missed, whenever it came after
\* the snapshot, and none that other projects or editors wrote before is taken
\* for it.
OwnSaveBecomesDefault ==
    [][\A k \in Projects :
         /\ Choose(k) \/ Prompt(k)
         /\ latest[k] # None /\ projects[k].valid
         => projects'[k].default = latest[k]]_vars

\* Off-limits paths of the user's own survive every flow, also in a file that
\* does not parse: nothing is written over it.
HandEditsSurvive ==
    [][\A k \in Projects :
         projects[k].off_limits = "own" => projects'[k].off_limits = "own"]_projects

\* Every flow that began ends, with or without a save, where nobody can be
\* prompted.
SetupEnds ==
    \A k \in Projects \ Terminals : setups[k].pc = "serving" ~> setups[k].pc = "done"
==============================================================================
