------------------------------- MODULE Session -------------------------------
(***************************************************************************)
(* Sessions of Claude Code on one repository.  Each follows the guide of   *)
(* the plugin: a setup in sections, or a task that is checked, discovered, *)
(* approved at Gate 0 and run.  What a session leaves behind in .sdlc/, by *)
(* its end or its death, is all that the next one knows.                   *)
(*                                                                         *)
(* The commands are the plugin's scripts (StatusFiles, WriteContract,      *)
(* Discovery); the order in which a session runs them is that of SETUP.md  *)
(* and skills/brownfield-guide/SKILL.md.                                   *)
(***************************************************************************)
EXTENDS WriteContract, StatusFiles, Discovery

CONSTANTS
    Here,       \* the repository
    Contracts,  \* contracts that can be approved at Gate 0
    Scenes      \* bounds: how often each thing happens in a behaviour

ASSUME SessionAssumption ==
    Here \in Repos /\ \A c \in Contracts : Active(c)

VARIABLES
    session,    \* session[s]: its step, and the section that it works on
    left        \* what is left of the bounds of the scene

sessionVars == <<session, left>>
vars == <<contractVars, statusVars, discoveryVars, sessionVars>>

Closed == [pc |-> "closed", section |-> 0]

\* A pre-check may have been done before; it was, unless the scene is about it.
Init ==
    /\ left \in Scenes
    /\ DiscoveryInit /\ (left.edits = 0 => tree = {Source})
    /\ ContractInit /\ contract = [r \in Repos |-> None]
    /\ \E steps \in {EmptySteps, [step \in CheckSteps |-> "pass"]} :
         /\ left.checks = 0 => ComputeOk(steps)
         /\ posted = steps
         /\ file = [setup |-> None, run |-> None,
                    check |-> IF ComputeOk(steps) THEN [steps |-> steps, ok |-> TRUE] ELSE None]
    /\ command = [s \in Sessions |-> Idle]
    /\ worked = {} /\ overlapped = FALSE
    /\ session = [s \in Sessions |-> Closed]

Spend(bound) == left[bound] > 0 /\ left' = [left EXCEPT ![bound] = @ - 1]

\* Session s, which waits for no command, goes from one step of the guide to
\* another.
Step(s, from, to) ==
    /\ session[s].pc = from /\ command[s] = Idle
    /\ session' = [session EXCEPT ![s].pc = to]

------------------------------------------------------------------------------
(* Commands that write a file.                                               *)

Cut(s) ==
    /\ Truncate(s)
    /\ IF command[s].file = "contract"
       THEN SetContract(Here, Torn) /\ UNCHANGED file
       ELSE file' = [file EXCEPT ![command[s].file] = Torn] /\ UNCHANGED contractVars
    /\ UNCHANGED <<worked, posted, overlapped, discoveryVars, sessionVars>>

\* Where another command wrote in between, the longer text shows behind the
\* shorter one.
Written(now, text) == IF now = Torn THEN {text} ELSE {text, Torn}

Write(s) ==
    LET name == command[s].file
        text == command[s].text
    IN
    /\ WriteOut(s)
    /\ CASE name = "contract" ->
              /\ \E c \in Written(contract[Here], text) : SetContract(Here, c)
              /\ UNCHANGED <<file, posted>>
         [] name = "check" ->
              /\ \E c \in Written(file["check"], [steps |-> text.steps, ok |-> text.ok]) :
                    file' = [file EXCEPT !["check"] = c]
              /\ posted' = WithResults(posted, text.new)
              /\ UNCHANGED contractVars
         [] OTHER ->
              /\ \E c \in Written(file[name], text) : file' = [file EXCEPT ![name] = c]
              /\ UNCHANGED <<posted, contractVars>>
    /\ UNCHANGED <<worked, overlapped, discoveryVars, sessionVars>>

------------------------------------------------------------------------------
(* Setup: SETUP.md, prompt 1                                                 *)

StartSetup(s) ==
    /\ Spend("setups")
    /\ session[s].pc = "closed"
    /\ session' = [session EXCEPT ![s] = [pc |-> "section", section |-> 1]]
    /\ ResetSetup(s)
    /\ UNCHANGED <<contractVars, discoveryVars, file, worked, posted, overlapped>>

WorkOnSection(s) ==
    /\ Step(s, "section", "mark")
    /\ worked' = worked \cup {session[s].section}
    /\ UNCHANGED <<contractVars, discoveryVars, file, command, posted, overlapped, left>>

FinishSection(s) ==
    LET n == session[s].section IN
    /\ session[s].pc = "mark"
    /\ MarkSection(s, n)
    /\ session' = [session EXCEPT ![s] =
                     IF n = SectionCount THEN [pc |-> "summary", section |-> n]
                     ELSE [pc |-> "section", section |-> n + 1]]
    /\ UNCHANGED <<contractVars, discoveryVars, file, worked, posted, overlapped, left>>

FinishSetup(s) ==
    /\ session[s].pc = "summary"
    /\ AllDone(s)
    /\ session' = [session EXCEPT ![s] = Closed]
    /\ UNCHANGED <<contractVars, discoveryVars, file, worked, posted, overlapped, left>>

------------------------------------------------------------------------------
(* A task: the guide, steps 1 to 5                                           *)

\* session-hydrate.mjs decides where the session starts.
Open(s) ==
    LET resume == ReadResume IN
    /\ Spend("opens")
    /\ session[s].pc = "closed" /\ command[s] = Idle
    /\ session' = [session EXCEPT ![s] =
                     IF resume = "setup" THEN [pc |-> "section", section |-> FirstPending]
                     ELSE IF resume = "run" THEN [pc |-> "offer", section |-> 0]
                     ELSE [pc |-> "task", section |-> 0]]
    /\ UNCHANGED <<contractVars, discoveryVars, statusVars>>

\* The user resumes the interrupted run, discards it or aborts.
AnswerOffer(s) ==
    /\ \/ Step(s, "offer", "run") /\ UNCHANGED file
       \/ Step(s, "offer", "task") /\ file' = [file EXCEPT !["run"] = None]
       \/ Step(s, "offer", "closed") /\ UNCHANGED file
    /\ UNCHANGED <<contractVars, discoveryVars, command, worked, posted, overlapped, left>>

Check(s) ==
    /\ session[s].pc = "task"
    /\ Spend("checks")
    /\ \/ (RunChecks(s) \/ RecordCheck(s)) /\ UNCHANGED <<file, worked, posted>>
       \/ ClearChecks(s)
    /\ UNCHANGED <<contractVars, discoveryVars, session>>

DiscoverAs(s) ==
    /\ session[s].pc = "task" /\ command[s] = Idle
    /\ Discover
    /\ UNCHANGED <<contractVars, statusVars, sessionVars>>

\* Gate 0 is shown only once the pre-check passed.
ReachGate(s) ==
    /\ CheckPassed
    /\ Step(s, "task", "gate0")
    /\ UNCHANGED <<contractVars, discoveryVars, statusVars, left>>

Approve(s) ==
    /\ session[s].pc = "gate0"
    /\ \E c \in Contracts : Prepare(s, "contract", c)
    /\ session' = [session EXCEPT ![s].pc = "run"]
    /\ UNCHANGED <<contractVars, discoveryVars, file, worked, posted, overlapped, left>>

------------------------------------------------------------------------------
(* A run                                                                     *)

\* The orchestrator records where the run is, in state.json.
SaveRun(s) ==
    /\ session[s].pc = "run"
    /\ Spend("saves")
    /\ \E status \in RunStatuses :
         /\ Prepare(s, "run", status)
         /\ session' = [session EXCEPT ![s].pc =
                          IF status \in {"in_progress", "gate_pending"} THEN "run" ELSE "close"]
    /\ UNCHANGED <<contractVars, discoveryVars, file, worked, posted, overlapped>>

\* The contract is set to active: false at the end of a run, and at an abort.
CloseContract(s) ==
    /\ session[s].pc \in {"close", "gate0"}
    /\ IF Parsed(contract[Here])
       THEN Prepare(s, "contract", [contract[Here] EXCEPT !.active = FALSE])
       ELSE command[s] = Idle /\ UNCHANGED command
    /\ session' = [session EXCEPT ![s] = Closed]
    /\ UNCHANGED <<contractVars, discoveryVars, file, worked, posted, overlapped, left>>

------------------------------------------------------------------------------
(* What else happens                                                         *)

\* The session ends, and with it the command that it is running.
Die(s) ==
    /\ Spend("deaths")
    /\ session[s] # Closed \/ command[s] # Idle
    /\ session' = [session EXCEPT ![s] = Closed]
    /\ command' = [command EXCEPT ![s] = Idle]
    /\ UNCHANGED <<contractVars, discoveryVars, file, worked, posted, overlapped>>

\* brownfield-cleanup.mjs removes .sdlc/ under whatever is running; what a
\* command then writes into a file that it has cut goes nowhere.
Cleanup ==
    /\ Spend("cleanups")
    /\ SetContract(Here, None)
    /\ file' = [name \in DOMAIN file |-> None]
    /\ posted' = EmptySteps
    /\ overlapped' = (overlapped \/ \E s \in Sessions : Checking(s))
    /\ baseline' = NoBaseline /\ policyTouched' = FALSE
    /\ command' = [s \in Sessions |->
                     IF command[s] = Idle \/ command[s].cut THEN Idle ELSE command[s]]
    /\ UNCHANGED <<worked, session>>
    /\ UNCHANGED <<tree, committed, delta, head, touched, scanned, early>>

\* A run in another repository freezes its contract or closes it.
OtherContract ==
    /\ Spend("others")
    /\ \E r \in Repos \ {Here}, c \in Contracts :
         SetContract(r, IF Active(contract[r]) THEN [contract[r] EXCEPT !.active = FALSE] ELSE c)
    /\ UNCHANGED <<statusVars, discoveryVars, session>>

\* Claude writes a file, from any directory.
Call ==
    /\ Spend("hooks")
    /\ \E h \in Hooks, cwd \in Places, target \in Targets : CallHook(h, cwd, target)
    /\ UNCHANGED <<statusVars, discoveryVars, session>>

Hook ==
    /\ \E h \in Hooks : HookStep(h)
    /\ UNCHANGED <<statusVars, discoveryVars, sessionVars>>

Edit ==
    /\ Spend("edits")
    /\ \/ \E f \in Paths, late \in BOOLEAN : WriteFile(f, late)
       \/ \E new \in SUBSET Paths : Commit(new \cup (tree \ committed))
       \/ Rebase
       \/ EditPolicy
       \/ LoseBaseline
    /\ UNCHANGED <<contractVars, statusVars, session>>

Next ==
    \/ \E s \in Sessions :
          \/ Cut(s) \/ Write(s)
          \/ StartSetup(s) \/ WorkOnSection(s) \/ FinishSection(s) \/ FinishSetup(s)
          \/ Open(s) \/ AnswerOffer(s) \/ Check(s) \/ DiscoverAs(s)
          \/ ReachGate(s) \/ Approve(s) \/ SaveRun(s) \/ CloseContract(s)
          \/ Die(s)
    \/ Cleanup \/ OtherContract \/ Call \/ Hook \/ Edit

Spec == Init /\ [][Next]_vars
==============================================================================
