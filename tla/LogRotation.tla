----------------------------- MODULE LogRotation -----------------------------
(***************************************************************************)
(* One log file, orchestrator.log, written by several processes: the       *)
(* long-lived server and the one-shot mmo-log.mjs.  Each call of log() may *)
(* rotate the file under a lock file before it appends its line.  Within a *)
(* process the calls are synchronous, so a writer has one call at a time,  *)
(* and every system call of it is one action.  Translated from             *)
(* plugin/mcp/model-dispatch/src/log.ts and its twin                       *)
(* plugin/scripts/lib/log.mjs.                                             *)
(*                                                                         *)
(* Lines are numbered in the order they are written.  A file is the set of *)
(* its lines: appends only ever go to its end.                             *)
(***************************************************************************)
EXTENDS Naturals, FiniteSets

CONSTANTS
    Writers,     \* processes that log into the file
    MaxSize,     \* ROTATE_MAX_BYTES, in lines
    MaxLines,    \* bound: lines appended
    MaxCrashes   \* bound: processes that die in the middle of a call

ASSUME LogAssumption ==
    MaxSize \in Nat \ {0} /\ MaxLines \in Nat /\ MaxCrashes \in Nat

VARIABLES
    hasLog,   \* whether the log file exists
    log,      \* lines in it
    old,      \* lines in the file beside it, named .1
    lock,     \* the lock file: "none", "fresh", or "stale" once STALE_LOCK_MS have passed
    pc,       \* pc[w]: where w stands in its call
    lines,    \* history: lines written so far
    aged,     \* history: whether a lock file ever became stale
    crossed,  \* history: whether a log was renamed that someone had opened to write
              \* a line that was not there yet
    crashes   \* counter for the bound MaxCrashes

vars == <<hasLog, log, old, lock, pc, lines, aged, crossed, crashes>>

\* At "write" the writer has the log open, at "late" the file that has become
\* .1, at "lost" one that has no name any more.
PCs == {"idle", "stat", "exists", "age", "discard", "create", "rename", "unlock",
        "append", "write", "late", "lost"}

\* Holding the lock file that it created itself, as far as it knows.
Rotating(w) == pc[w] \in {"rename", "unlock"}

Init ==
    /\ hasLog = FALSE /\ log = {} /\ old = {}
    /\ lock = "none"
    /\ pc = [w \in Writers |-> "idle"]
    /\ lines = 0 /\ aged = FALSE /\ crossed = FALSE /\ crashes = 0

Goto(w, from, to) == pc[w] = from /\ pc' = [pc EXCEPT ![w] = to]

files == <<hasLog, log, old>>
history == <<lines, aged, crossed, crashes>>

------------------------------------------------------------------------------
(* log: a line that the level lets pass goes to the file.                    *)

Emit(w) ==
    /\ lines + Cardinality({v \in Writers : pc[v] # "idle"}) < MaxLines
    /\ Goto(w, "idle", "stat")
    /\ UNCHANGED <<files, lock, history>>

------------------------------------------------------------------------------
(* rotateIfNeeded                                                            *)

Stat(w) ==
    /\ Goto(w, "stat", IF hasLog /\ Cardinality(log) >= MaxSize THEN "exists" ELSE "append")
    /\ UNCHANGED <<files, lock, history>>

LockExists(w) ==
    /\ Goto(w, "exists", IF lock = "none" THEN "create" ELSE "age")
    /\ UNCHANGED <<files, lock, history>>

\* A lock that is gone by now throws, which counts as a lost race.
LockAge(w) ==
    /\ Goto(w, "age", IF lock = "stale" THEN "discard" ELSE "append")
    /\ UNCHANGED <<files, lock, history>>

\* Removes the file of that name, whoever made it.
Discard(w) ==
    /\ Goto(w, "discard", "create")
    /\ lock' = "none"
    /\ UNCHANGED <<files, history>>

\* Creates the lock file whether it exists or not.
CreateOver(w) ==
    /\ Goto(w, "create", "rename")
    /\ lock' = "fresh"
    /\ UNCHANGED <<files, history>>

Create(w) ==
    /\ Goto(w, "create", IF lock = "none" THEN "rename" ELSE "append")
    /\ lock' = IF lock = "none" THEN "fresh" ELSE lock
    /\ UNCHANGED <<files, history>>

\* The writers that have a file open keep it: only its name changes.
Carried(w) ==
    [v \in Writers |->
        IF v = w THEN "unlock"
        ELSE IF pc[v] = "write" THEN "late" ELSE IF pc[v] = "late" THEN "lost" ELSE pc[v]]

Renamed(w) ==
    /\ pc' = Carried(w)
    /\ crossed' = (crossed \/ log = {} \/ \E v \in Writers : pc[v] = "write")

\* Makes room for the file before it is renamed.
RenameOver(w) ==
    /\ pc[w] = "rename"
    /\ IF hasLog THEN old' = log /\ log' = {} /\ hasLog' = FALSE /\ Renamed(w)
       ELSE old' = {} /\ pc' = [pc EXCEPT ![w] = "unlock"] /\ UNCHANGED <<hasLog, log, crossed>>
    /\ UNCHANGED <<lock, lines, aged, crashes>>

Rename(w) ==
    /\ pc[w] = "rename"
    /\ \/ hasLog /\ old' = log /\ log' = {} /\ hasLog' = FALSE /\ Renamed(w)
       \* the file is gone, or the rename fails
       \/ pc' = [pc EXCEPT ![w] = "unlock"] /\ UNCHANGED <<files, crossed>>
    /\ UNCHANGED <<lock, lines, aged, crashes>>

Unlock(w) ==
    /\ Goto(w, "unlock", "append")
    /\ lock' = "none"
    /\ UNCHANGED <<files, history>>

------------------------------------------------------------------------------
(* appendAtomic: opens the file by name, creates it if it is not there,      *)
(* writes the line and keeps silent about errors.                            *)

OpenLog(w) ==
    /\ \/ Goto(w, "append", "write") /\ hasLog' = TRUE
       \/ Goto(w, "append", "idle") /\ UNCHANGED hasLog
    /\ UNCHANGED <<log, old, lock, history>>

WriteLine(w) ==
    /\ pc[w] \in {"write", "late", "lost"} /\ pc' = [pc EXCEPT ![w] = "idle"]
    /\ \/ /\ lines' = lines + 1
          /\ log' = IF pc[w] = "write" THEN log \cup {lines + 1} ELSE log
          /\ old' = IF pc[w] = "late" THEN old \cup {lines + 1} ELSE old
       \/ UNCHANGED <<lines, log, old>>     \* the disk is full
    /\ UNCHANGED <<hasLog, lock, aged, crossed, crashes>>

------------------------------------------------------------------------------
(* The environment                                                           *)

\* STALE_LOCK_MS pass: the writer of the lock died, or is slow.
GrowStale ==
    /\ lock = "fresh"
    /\ lock' = "stale" /\ aged' = TRUE
    /\ UNCHANGED <<files, pc, lines, crossed, crashes>>

Crash(w) ==
    /\ crashes < MaxCrashes /\ crashes' = crashes + 1
    /\ pc[w] # "idle" /\ pc' = [pc EXCEPT ![w] = "idle"]
    /\ UNCHANGED <<files, lock, lines, aged, crossed>>

Next ==
    \/ \E w \in Writers :
          \/ Emit(w) \/ Stat(w) \/ LockExists(w) \/ LockAge(w) \/ Discard(w)
          \/ Create(w) \/ Rename(w) \/ Unlock(w) \/ OpenLog(w) \/ WriteLine(w) \/ Crash(w)
    \/ GrowStale

Spec == Init /\ [][Next]_vars

------------------------------------------------------------------------------
(* Properties                                                                *)

TypeOK ==
    /\ hasLog \in BOOLEAN /\ aged \in BOOLEAN /\ crossed \in BOOLEAN
    /\ lines \in Nat /\ crashes \in Nat
    /\ log \subseteq 1..lines /\ old \subseteq 1..lines
    /\ lock \in {"none", "fresh", "stale"}
    /\ pc \in [Writers -> PCs]

\* What can still be read, the rotated file and then the log, is the end of the
\* log without a gap or a line out of its place, the newest line included:
\* however rotations race, only the oldest lines are ever given up.  It takes a
\* log renamed between the opening and the line of a writer, who may have died
\* there, to lose more or to put a line into the wrong file (rotateIfNeeded,
\* appendAtomic).
LogIsATail ==
    ~crossed =>
        /\ \A i \in old, j \in log : i < j
        /\ \A i \in old \cup log : \A j \in i .. lines : j \in old \cup log
        /\ lines > 0 => lines \in old \cup log

\* Two processes are inside the rotation at once only if a lock file was once
\* taken for abandoned: the check of the lock and its creation are apart, and
\* the exclusive flag of the creation is what decides the race (the lock of
\* rotateIfNeeded).
RotationExclusive ==
    \A v, w \in Writers : Rotating(v) /\ Rotating(w) => v = w \/ aged

\* A line is given up only when a full file of lines can still be read, although
\* nobody was slow or died (rotateIfNeeded, which keeps one previous file).
KeepsAFullFile ==
    ~crossed /\ ~aged /\ Cardinality(old \cup log) < lines => Cardinality(old \cup log) >= MaxSize
==============================================================================
