----------------------------- MODULE Provenance -----------------------------
(***************************************************************************)
(* The provenance a brownfield run keeps of every file it touches, and the *)
(* revert command that undoes the run from it.  The helper process is      *)
(* called around every write and fails open; the user edits and commits    *)
(* meanwhile, also while revert waits for the user's approval; a helper    *)
(* may die with the file or a backup half written.                         *)
(*                                                                         *)
(* Translated from plugin/scripts/write-provenance.mjs, called as          *)
(* plugin/agents/orchestrator.md says, and plugin/commands/revert.md.      *)
(* The case of a file in revert's table is decided by its first record,    *)
(* the one that can speak of the pre-run state; what the run last wrote is *)
(* in its last.  A digest is the content itself.                           *)
(***************************************************************************)
EXTENDS Naturals, Sequences, FiniteSets

CONSTANTS
    None, Torn,  \* no such file or field; a file half written
    Files, Names,
    Escape,      \* Escape[f]: escapePathForBackup, not injective
    RunWrites, UserWrites, Committed, Uncommitted,  \* contents, by who has them first
    MaxWrites,   \* bound: writes of the run
    MaxMeddling  \* bound: edits and commits of others, and failures of --before

Contents == RunWrites \cup UserWrites \cup Committed \cup Uncommitted

\* What may be found under a name.
Found == Contents \cup {None, Torn}

Records ==
    [path : Files, existed_before : BOOLEAN, sha_before : Found, sha_after : Found,
     tracked_in_git : BOOLEAN, backup_path : Names \cup {None}]

\* A provenance.json that parses.
Provs == [base : [Files -> Found], files : Seq(Records)]

ASSUME ProvenanceAssumption ==
    /\ Escape \in [Files -> Names]
    /\ None \notin Contents /\ None \notin Names
    /\ None \notin Provs /\ Torn \notin Provs \cup Contents /\ Torn # None
    /\ MaxWrites \in Nat /\ MaxMeddling \in Nat

\* Whoever has a content first, the run brings its own.
ASSUME ContentsAssumption ==
    RunWrites \cap (UserWrites \cup Committed \cup Uncommitted) = {}

VARIABLES
    worktree,  \* worktree[f]: content on disk, None if absent
    head,      \* head[f]: content in HEAD, None if not tracked
    prov,      \* provenance.json: [base, files], Torn or None
    backups,   \* backups[n]: content of the backup file named n, Torn or None
    pending,   \* pending[f]: the run's write of f: "no", "before", "written"
    later,     \* files that the provenance of a later run names
    revert,    \* the revert command: "no", "collected" commands, "done"
    plan,      \* files whose commands it has collected and not run
    original, lastWrite,  \* history: content at the run's first touch; its last write
    unrecorded,           \* history: files whose first touch left no record
    raced,        \* history: files edited by others between --before and --after,
                  \* or between revert's check and its command
    overwritten,  \* history: backups changed after a record named them
    writes, meddling

disk == <<worktree, head, later>>
record == <<prov, backups>>
command == <<revert, plan>>
past == <<original, lastWrite, unrecorded, raced, overwritten>>

vars == <<disk, record, pending, command, past, writes, meddling>>

Untouched == [touched |-> FALSE, content |-> None]
Touched(x) == [touched |-> TRUE, content |-> x]

\* A file is committed, changed since, untracked or absent when the run begins.
Init ==
    /\ head \in [Files -> Committed \cup {None}]
    /\ worktree \in [Files -> Committed \cup Uncommitted \cup {None}]
    /\ \A f \in Files : worktree[f] \in Committed => head[f] = worktree[f]
    /\ prov = None
    /\ backups = [n \in Names |-> None]
    /\ pending = [f \in Files |-> "no"]
    /\ later = {} /\ revert = "no" /\ plan = {}
    /\ original = [f \in Files |-> Untouched]
    /\ lastWrite = [f \in Files |-> None]
    /\ unrecorded = {} /\ raced = {} /\ overwritten = {}
    /\ writes = 0 /\ meddling = 0

------------------------------------------------------------------------------
(* The helper.                                                               *)

Fresh == [base |-> head, files |-> <<>>]

\* An absent or unparseable file reads as a fresh one, with today's HEAD.
ReadProv == IF prov \in {None, Torn} THEN Fresh ELSE prov

\* Starts over whenever it is called.
InitAfresh == prov' = Fresh

\* --init leaves a file that exists alone, whatever it holds.
InitProv == prov' = IF prov = None THEN Fresh ELSE prov

InitRun ==
    /\ revert = "no"
    /\ InitProv
    /\ UNCHANGED <<disk, backups, pending, command, past, writes, meddling>>

Trouble == meddling < MaxMeddling /\ meddling' = meddling + 1

\* What --before knows of a file.
Existed(f)          == worktree[f] # None
Tracked(f)          == Existed(f) /\ head[f] # None
DirtyOrUntracked(f) == Existed(f) /\ (~Tracked(f) \/ worktree[f] # head[f])

\* Names the backup although the copy may have failed.
BackupNamed(f, copied) == IF DirtyOrUntracked(f) THEN Escape[f] ELSE None

Backup(f, copied) == IF DirtyOrUntracked(f) /\ copied THEN Escape[f] ELSE None

\* The digest is taken after the copy and may fail by itself.
Record(f, copied, readable) ==
    [path |-> f, existed_before |-> Existed(f),
     sha_before |-> IF readable THEN worktree[f] ELSE None, sha_after |-> None,
     tracked_in_git |-> Tracked(f), backup_path |-> Backup(f, copied)]

\* The copy into the backup of f comes out as x: complete, failed at the
\* source (nothing changes), failed at the target (it is removed), or cut off.
CopyTo(f, x) ==
    /\ backups' = IF DirtyOrUntracked(f) THEN [backups EXCEPT ![Escape[f]] = x] ELSE backups
    /\ overwritten' = overwritten \cup
         {n \in Names : /\ backups'[n] # backups[n]
                        /\ \E i \in DOMAIN ReadProv.files :
                              ReadProv.files[i].backup_path = n}

\* --before copies, then records.  A helper that fails open or dies leaves no
\* record, wherever the copy had come to, and the write is made all the same.
Before(f) ==
    /\ revert = "no" /\ pending[f] = "no" /\ writes < MaxWrites
    /\ pending' = [pending EXCEPT ![f] = "before"]
    /\ original' = [original EXCEPT ![f] = IF @.touched THEN @ ELSE Touched(worktree[f])]
    /\ \/ \E copied, readable \in BOOLEAN :
            /\ IF copied THEN CopyTo(f, worktree[f])
               ELSE \E x \in {backups[Escape[f]], None} : CopyTo(f, x)
            /\ prov' = [ReadProv EXCEPT !.files = Append(@, Record(f, copied, readable))]
            /\ IF copied /\ readable THEN UNCHANGED meddling ELSE Trouble
            /\ UNCHANGED unrecorded
       \/ /\ Trouble
          /\ \E x \in {backups[Escape[f]], None, Torn, worktree[f]} : CopyTo(f, x)
          /\ unrecorded' = IF original[f].touched THEN unrecorded ELSE unrecorded \cup {f}
          /\ UNCHANGED prov
    /\ UNCHANGED <<disk, command, lastWrite, raced, writes>>

\* The tool writes the file, or fails to, and then --after is not called.
Write(f) ==
    /\ revert = "no" /\ pending[f] = "before" /\ writes < MaxWrites
    /\ \/ \E x \in RunWrites :
            /\ worktree' = [worktree EXCEPT ![f] = x]
            /\ lastWrite' = [lastWrite EXCEPT ![f] = x]
            /\ pending' = [pending EXCEPT ![f] = "written"]
       \/ pending' = [pending EXCEPT ![f] = "no"] /\ UNCHANGED <<worktree, lastWrite>>
    /\ writes' = writes + 1
    /\ UNCHANGED <<head, later, record, command, original, unrecorded, raced, overwritten,
                   meddling>>

OpenRecords(f) ==
    {i \in DOMAIN ReadProv.files : /\ ReadProv.files[i].path = f
                                   /\ ReadProv.files[i].sha_after = None}

\* --after fills in the last open record of the path, from what is on disk
\* now; without one, or if the helper failed open, nothing is recorded.
After(f) ==
    /\ revert = "no" /\ pending[f] = "written"
    /\ pending' = [pending EXCEPT ![f] = "no"]
    /\ \/ \E i \in OpenRecords(f) :
            /\ \A j \in OpenRecords(f) : j <= i
            /\ prov' = [ReadProv EXCEPT !.files[i].sha_after = worktree[f]]
       \/ UNCHANGED prov
    /\ UNCHANGED <<disk, backups, command, past, writes, meddling>>

\* --finalize adds only what revert does not read, but rewrites the file.
Finalize ==
    /\ revert = "no"
    /\ prov' = ReadProv
    /\ UNCHANGED <<disk, backups, pending, command, past, writes, meddling>>

------------------------------------------------------------------------------
(* Others.                                                                   *)

Meddle == revert # "done" /\ Trouble

\* Someone writes the file: a user, or a later run, which records it.
OtherEdit(f) ==
    /\ Meddle
    /\ \E x \in UserWrites : worktree' = [worktree EXCEPT ![f] = x]
    /\ later' \in {later} \cup (IF pending[f] = "no" THEN {later \cup {f}} ELSE {})
    /\ raced' = IF pending[f] = "no" /\ f \notin plan THEN raced ELSE raced \cup {f}
    /\ UNCHANGED <<head, record, pending, command, original, lastWrite, unrecorded,
                   overwritten, writes>>

CommitFile(f) ==
    /\ Meddle
    /\ worktree[f] # None
    /\ head' = [head EXCEPT ![f] = worktree[f]]
    /\ UNCHANGED <<worktree, later, record, pending, command, past, writes>>

\* A helper dies while it writes: what it knew of every file is gone.
Tear ==
    /\ Meddle /\ revert = "no"
    /\ prov \notin {None, Torn}
    /\ prov' = Torn
    /\ unrecorded' = unrecorded \cup {f \in Files : original[f].touched}
    /\ UNCHANGED <<disk, backups, pending, command, original, lastWrite, raced, overwritten,
                   writes>>

------------------------------------------------------------------------------
(* Revert.                                                                   *)

RecordsOf(f) == {i \in DOMAIN prov.files : prov.files[i].path = f}
First(f) == prov.files[CHOOSE i \in RecordsOf(f) : \A j \in RecordsOf(f) : i <= j]
Last(f)  == prov.files[CHOOSE i \in RecordsOf(f) : \A j \in RecordsOf(f) : j <= i]

\* Takes a record that was never completed for a clean one.
CleanIfIncomplete(f) == f \notin later /\ Last(f).sha_after \in {worktree[f], None}

\* No later run names the file, and it holds what this run wrote.
Clean(f) == f \notin later /\ Last(f).sha_after = worktree[f]

\* The table of four cases, for a file whose first record is r: a file that is
\* tracked and has a digest is checked out of the base commit.
FromBase(r) == r.tracked_in_git /\ r.sha_before # None

CanRestore(f, r) ==
    \/ ~r.existed_before
    \/ FromBase(r) /\ prov.base[f] # None
    \/ ~FromBase(r) /\ r.backup_path # None

Restored(f, r) ==
    IF ~r.existed_before THEN None
    ELSE IF FromBase(r) THEN prov.base[f]
    ELSE backups[r.backup_path]

\* Refused without a readable file; stops at a dirty file unless told to skip
\* such.  The commands are collected and shown; nothing is changed yet.
Collect ==
    /\ revert = "no" /\ prov \notin {None, Torn}
    /\ LET listed == {f \in Files : RecordsOf(f) # {}}
           clean  == {f \in listed : Clean(f)}
       IN  \E skipDirty \in BOOLEAN :
             /\ clean = listed \/ skipDirty
             /\ plan' = {f \in clean : CanRestore(f, First(f))}
    /\ revert' = "collected"
    /\ UNCHANGED <<disk, record, pending, past, writes, meddling>>

\* The user has approved, and the command for f is run, without another look;
\* a copy from a backup that is gone fails.
Execute(f) ==
    /\ revert = "collected" /\ f \in plan
    /\ Restored(f, First(f)) = None => ~First(f).existed_before
    /\ worktree' = [worktree EXCEPT ![f] = Restored(f, First(f))]
    /\ plan' = plan \ {f}
    /\ UNCHANGED <<head, later, record, pending, revert, past, writes, meddling>>

\* All commands are run, or one failed and the rest is halted, or the user did
\* not approve.
EndRevert ==
    /\ revert = "collected"
    /\ revert' = "done" /\ plan' = {}
    /\ UNCHANGED <<disk, record, pending, past, writes, meddling>>

Next ==
    \/ InitRun \/ Finalize
    \/ \E f \in Files : \/ Before(f) \/ Write(f) \/ After(f)
                        \/ OtherEdit(f) \/ CommitFile(f) \/ Execute(f)
    \/ Tear \/ Collect \/ EndRevert

Spec == Init /\ [][Next]_vars

------------------------------------------------------------------------------
\* The variables are well typed; only revert may leave half a file; a backup
\* that a record names is there in full, until it is overwritten.
TypeOK ==
    /\ worktree \in [Files -> Found] /\ head \in [Files -> Found]
    /\ backups \in [Names -> Found]
    /\ revert = "no" => \A f \in Files : worktree[f] # Torn
    /\ pending \in [Files -> {"no", "before", "written"}]
    /\ revert \in {"no", "collected", "done"} /\ plan \subseteq Files
    /\ prov \in Provs \cup {None, Torn}
    /\ prov \in Provs =>
         \A i \in DOMAIN prov.files :
            prov.files[i].backup_path \notin overwritten \cup {None} =>
                backups[prov.files[i].backup_path] \in Contents

Collecting == revert = "no" /\ revert' = "collected"
Executed(f) == f \in plan \ plan' /\ revert' = "collected"

\* What the run wrote is still there, its last write is recorded in full, and
\* nobody touched the file in a window that no check covers.
Undisturbed(f) ==
    /\ RecordsOf(f) # {} /\ original[f].touched
    /\ f \notin unrecorded \cup raced \cup later
    /\ pending[f] = "no" /\ Last(f).sha_after = lastWrite[f]
    /\ worktree[f] = lastWrite[f]

\* The records for which revert's table is right: a new file; a tracked one
\* that was as committed at the base; an untracked one whose backup nothing
\* has overwritten, recorded or not.
WellRecorded(f) ==
    LET r == First(f) IN
    \/ ~r.existed_before
    \/ /\ r.tracked_in_git /\ r.backup_path = None
       /\ r.sha_before = prov.base[f] /\ prov.base[f] # None
    \/ ~r.tracked_in_git /\ r.backup_path \notin overwritten \cup {None}

\* Revert plans for a well recorded file that nobody else disturbed, and its
\* command puts it back to what the run found at its first touch, over any
\* number of writes, commits in between, repeated inits, failed helpers and
\* waits for approval.
RevertRestores ==
    [][\A f \in Files :
         /\ Collecting /\ Undisturbed(f) /\ WellRecorded(f) => f \in plan'
         /\ Executed(f) /\ Undisturbed(f) /\ WellRecorded(f) =>
              worktree'[f] = original[f].content]_vars

\* Revert changes no file that holds anything but what this run wrote last, or
\* that a later run has written; unless the edit fell in one of two windows:
\* between a --before and its --after, or between revert's check and the
\* command, which runs after the user's approval and without another look.
ForeignEditsSurvive ==
    [][\A f \in Files :
         Executed(f) /\ worktree'[f] # worktree[f] /\ f \notin raced =>
            f \notin later /\ worktree[f] = lastWrite[f]]_vars

\* orchestrator.md:288, "so /mmo:revert can restore the pre-run state.
\* Uncommitted files (dirty tracked or untracked) additionally need a backup
\* copy taken before the write": a file that revert changes is put back to
\* what the run found, if nobody disturbed it.
RevertRestoresPreRunState ==
    [][\A f \in Files :
         Executed(f) /\ Undisturbed(f) /\ worktree'[f] # worktree[f] =>
            worktree'[f] = original[f].content]_vars
==============================================================================
