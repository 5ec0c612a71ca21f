----------------------------- MODULE StatusFiles -----------------------------
(***************************************************************************)
(* The status files of a repository, which tell a later session where an   *)
(* earlier one stopped: setup-status.json, pre-check-status.json and       *)
(* state.json.  Each is read, changed and rewritten in place by one-shot   *)
(* commands of any session, with nothing that keeps two of them apart.     *)
(* Translated from plugin/scripts/setup-status-write.mjs, pre-check.mjs    *)
(* and session-hydrate.mjs (readResume).                                   *)
(***************************************************************************)
EXTENDS Naturals, FiniteSets, FiniteSetsExt, Files

CONSTANTS
    Sessions,     \* sessions of Claude Code on the repository
    SectionCount  \* number of sections of the setup

ASSUME StatusAssumption == SectionCount \in Nat \ {0}

SECTIONS == 1 .. SectionCount

VARIABLES
    file,       \* file["setup"], file["check"], file["run"]
    command,    \* command[s]: the write that a command of session s has still to do
    worked,     \* history: sections whose work was done
    posted,     \* history: the last result of each step of the pre-check
    overlapped  \* history: whether two commands for the pre-check ever overlapped

statusVars == <<file, command, worked, posted, overlapped>>

Idle == [file |-> "none"]

\* A command has read what it needs and decided what to write.
Prepare(s, name, text) ==
    /\ command[s] = Idle
    /\ command' = [command EXCEPT ![s] = [file |-> name, text |-> text, cut |-> FALSE]]

\* writeFileSync: the file is cut to nothing, then written.
Truncate(s) ==
    /\ command[s] # Idle /\ ~command[s].cut
    /\ command' = [command EXCEPT ![s].cut = TRUE]

WriteOut(s) ==
    /\ command[s] # Idle /\ command[s].cut
    /\ command' = [command EXCEPT ![s] = Idle]

------------------------------------------------------------------------------
(* setup-status-write.mjs                                                    *)

Progress(done) == [done |-> done, pending |-> SECTIONS \ done]

\* readStatus: a file that does not parse counts as empty.
SectionsDone == IF Parsed(file["setup"]) THEN file["setup"].done ELSE {}

ResetSetup(s)      == Prepare(s, "setup", Progress({}))
MarkSection(s, n)  == Prepare(s, "setup", Progress(SectionsDone \cup {n}))
AllDone(s)         == Prepare(s, "setup", Progress(SECTIONS))

------------------------------------------------------------------------------
(* session-hydrate.mjs: readResume                                           *)

PendingSections == IF Parsed(file["setup"]) THEN file["setup"].pending ELSE {}

\* The first pending section, where the setup resumes.
LastPending  == Max(PendingSections)
FirstPending == Min(PendingSections)

RunStatuses == {"in_progress", "gate_pending", "complete", "completed", "aborted", "failed"}

ReadResume ==
    IF PendingSections # {} THEN "setup"
    ELSE IF Parsed(file["run"]) /\ file["run"] \notin {"complete", "aborted"} THEN "run"
    ELSE "none"

------------------------------------------------------------------------------
(* pre-check.mjs                                                             *)

CheckSteps == {"discovery", "probe", "dispatch", "contract", "rollback"}
Good == {"pass", "skip"}

EmptySteps == [step \in CheckSteps |-> "pending"]

\* readStatus, else emptyStatus.
StepsRead == IF Parsed(file["check"]) THEN file["check"].steps ELSE EmptySteps

\* Takes a step that nobody has done for one that did not fail.
ComputeOkUnlessFailed(steps) == \A step \in CheckSteps : steps[step] # "fail"

ComputeOk(steps) == \A step \in CheckSteps : steps[step] \in Good

\* A command for the pre-check is under way in session s.
Checking(s) == command[s].file = "check"

\* The steps in results get their results; the others keep what they have.
WithResults(steps, results) ==
    [step \in CheckSteps |-> IF step \in DOMAIN results THEN results[step] ELSE steps[step]]

PostSteps(s, results) ==
    LET steps == WithResults(StepsRead, results) IN
    /\ Prepare(s, "check", [steps |-> steps, ok |-> ComputeOk(steps), new |-> results])
    /\ overlapped' = (overlapped \/ \E v \in Sessions : Checking(v))

\* --run: the probe of the test command, the write of a file, its removal; the
\* removal is skipped if the file is not there any more.
RunChecks(s) ==
    \E probe \in {"pass", "skip", "fail"}, smoke \in {"pass", "fail"} :
        \E rollback \in IF smoke = "pass" THEN {"pass", "skip", "fail"} ELSE {"skip"} :
            PostSteps(s, [step \in {"probe", "contract", "rollback"} |->
                            CASE step = "probe" -> probe
                              [] step = "contract" -> smoke
                              [] OTHER -> rollback])

\* --record, for the steps that the agent does.  What is recorded is the result
\* of the command line, or the status in the JSON on stdin, which overrides it;
\* "fail" stands for every text but the two that count as good.
RecordCheck(s) ==
    \E step \in {"discovery", "dispatch"}, result \in {"pass", "skip", "fail"} :
        PostSteps(s, [x \in {step} |-> result])

\* --clear
ClearChecks(s) ==
    /\ command[s] = Idle
    /\ file' = [file EXCEPT !["check"] = None]
    /\ posted' = EmptySteps
    /\ overlapped' = (overlapped \/ \E v \in Sessions : Checking(v))
    /\ UNCHANGED <<command, worked>>

CheckPassed == Parsed(file["check"]) /\ file["check"].ok

------------------------------------------------------------------------------
(* Properties                                                                *)

\* Whatever sections of the setup a file claims to be done, or is about to, were
\* worked on, however sessions that set up the same repository overlap, die in
\* the middle of a write and are resumed (setup-status-write.mjs, readResume).
NoSectionSkipped ==
    /\ SectionsDone \subseteq worked
    /\ \A s \in Sessions : command[s].file = "setup" => command[s].text.done \subseteq worked

\* A pre-check that is recorded as passed had every step pass or be skipped, and
\* none of them failed since, unless commands overlapped (pre-check.mjs, which
\* starts from nothing where it finds a file that does not parse).
PassedCheckIsTrue ==
    CheckPassed /\ ~overlapped => \A step \in CheckSteps : posted[step] \in Good
==============================================================================
