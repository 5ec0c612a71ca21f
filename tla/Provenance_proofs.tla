------------------------- MODULE Provenance_proofs -------------------------
(***************************************************************************)
(* The provenance of a run and what revert makes of it, for any number of  *)
(* files, writes, edits, failures and lost records.                        *)
(***************************************************************************)
EXTENDS Provenance, SequenceTheorems, WellFoundedInduction, TLAPS

\* The records that the next helper finds.
Kept == ReadProv.files
KeptOf(f) == {i \in DOMAIN Kept : Kept[i].path = f}

FirstOf(f, i) == i \in KeptOf(f) /\ \A j \in KeptOf(f) : i <= j

\* A record that tells what the run found at its first touch of the file.
Tells(r, content) ==
    /\ r.existed_before <=> content # None
    /\ r.sha_before \in {None, content}
    /\ r.backup_path \notin overwritten \cup {None} => backups[r.backup_path] = content

\* The first record of a file tells what was there, unless it was lost; a file
\* the run has not touched has no record.
FirstsTell ==
    \A f \in Files :
        /\ original[f].touched /\ f \notin unrecorded =>
             \E i \in KeptOf(f) : FirstOf(f, i) /\ Tells(Kept[i], original[f].content)
        /\ ~original[f].touched => KeptOf(f) = {}

\* The run's own file still: revert has not run a command on it.
Live(f) == revert = "no" \/ f \in plan

\* What a record says of the end of a write is what the run wrote; and until
\* revert's command for a file, what is there from the run is its last write,
\* and a file that was there stays.
WritesAreOwn ==
    revert # "done" =>
        /\ \A f \in Files : Live(f) =>
             /\ worktree[f] \in RunWrites => worktree[f] = lastWrite[f]
             /\ pending[f] = "written" /\ f \notin raced => worktree[f] \in RunWrites
        /\ \A i \in DOMAIN Kept :
             /\ Kept[i].path \notin raced => Kept[i].sha_after \in RunWrites \cup {None}
             /\ Kept[i].existed_before /\ Live(Kept[i].path) => worktree[Kept[i].path] # None

\* What revert has planned and not done is still as its check found it, or
\* somebody has edited it while the user was asked.
PlanHolds ==
    /\ revert # "collected" => plan = {}
    /\ plan # {} => prov \in Provs
    /\ \A f \in plan :
         /\ RecordsOf(f) # {} /\ CanRestore(f, First(f))
         /\ f \notin raced => Clean(f)

Histories ==
    /\ original \in [Files -> [touched : BOOLEAN, content : Found]]
    /\ lastWrite \in [Files -> Found]

IInv == TypeOK /\ Histories /\ FirstsTell /\ WritesAreOwn /\ PlanHolds

------------------------------------------------------------------------------
(* What a helper reads, and what it leaves.                                   *)

\* Whatever the file holds, a helper goes on with a well formed record.
LEMMA ReadIsWellFormed ==
    ASSUME TypeOK
    PROVE  /\ ReadProv \in Provs /\ Kept \in Seq(Records)
           /\ prov \in Provs => ReadProv = prov /\ prov \notin {None, Torn}
           /\ prov \notin {None, Torn} => prov \in Provs
           /\ prov \in {None, Torn} => Kept = <<>>
<1>1. Fresh \in Provs
  BY DEF Fresh, Provs, TypeOK, Found
<1>2. prov \in Provs => prov \notin {None, Torn}
  BY ProvenanceAssumption
<1> QED
  BY <1>1, <1>2 DEF TypeOK, ReadProv, Kept, Provs, Fresh

LEMMA LeastOfNaturals ==
    ASSUME NEW S, S \subseteq Nat, S # {}
    PROVE  \E n \in S : \A m \in S : n <= m
<1> DEFINE Less == {p \in Nat \X Nat : p[1] < p[2]}
<1>1. IsWellFoundedOn(Less, Nat)
  BY NatLessThanWellFounded, Zenon DEF OpToRel
<1>2. \A m, n \in Nat : m < n => <<m, n>> \in Less
  OBVIOUS
<1> HIDE DEF Less
<1>3. PICK n \in S : \A m \in S : ~(<<m, n>> \in Less)
  BY <1>1, WFMin, Zenon
<1>4. \A m \in S : ~(m < n)
  BY <1>2, <1>3
<1> QED
  BY <1>4

\* A file that has records has a first and a last one, and revert finds them.
LEMMA FirstAndLast ==
    ASSUME TypeOK, prov \in Provs, NEW f, RecordsOf(f) # {}
    PROVE  /\ KeptOf(f) = RecordsOf(f)
           /\ \E i \in KeptOf(f) : FirstOf(f, i) /\ First(f) = Kept[i]
           /\ \E i \in KeptOf(f) : Last(f) = Kept[i]
<1> DEFINE S == RecordsOf(f)
<1> DEFINE n == Len(prov.files)
<1>1. Kept = prov.files /\ KeptOf(f) = S /\ n \in Nat /\ S \subseteq 1..n
  BY ReadIsWellFormed DEF Kept, KeptOf, RecordsOf
<1>2. S # {}
  OBVIOUS
<1> HIDE DEF S, n
<1>3. \E i \in S : \A j \in S : i <= j
  <2>1. S \subseteq Nat
    BY <1>1
  <2> QED
    BY <1>2, <2>1, LeastOfNaturals
<1>4. \E i \in S : \A j \in S : j <= i
  <2> DEFINE T == {n - i : i \in S}
  <2>1. T \subseteq Nat /\ T # {}
    BY <1>1, <1>2
  <2>2. PICK t \in T : \A u \in T : t <= u
    BY <2>1, LeastOfNaturals
  <2>3. PICK i \in S : t = n - i
    OBVIOUS
  <2>4. ASSUME NEW j \in S PROVE j <= i
    <3>1. n - i <= n - j
      BY <2>2, <2>3
    <3> QED
      BY <1>1, <3>1
  <2> QED
    BY <2>4
<1>5. /\ First(f) = prov.files[CHOOSE i \in S : \A j \in S : i <= j]
      /\ Last(f) = prov.files[CHOOSE i \in S : \A j \in S : j <= i]
  BY DEF First, Last, S
<1>6. PICK i \in S : i = (CHOOSE k \in S : \A j \in S : k <= j) /\ \A j \in S : i <= j
  BY <1>3
<1>7. PICK l \in S : l = (CHOOSE k \in S : \A j \in S : j <= k)
  BY <1>4
<1>8. FirstOf(f, i)
  BY <1>1, <1>6 DEF FirstOf
<1> QED
  BY <1>1, <1>5, <1>6, <1>7, <1>8 DEF S

LEMMA RecordAdded ==
    ASSUME NEW p \in Provs, NEW r \in Records
    PROVE  /\ [p EXCEPT !.files = Append(@, r)] \in Provs
           /\ [p EXCEPT !.files = Append(@, r)].files = Append(p.files, r)
           /\ DOMAIN Append(p.files, r) = DOMAIN p.files \cup {Len(p.files) + 1}
           /\ DOMAIN p.files = 1..Len(p.files) /\ Len(p.files) \in Nat
           /\ \A i \in DOMAIN p.files : Append(p.files, r)[i] = p.files[i]
           /\ Append(p.files, r)[Len(p.files) + 1] = r
<1>1. p.files \in Seq(Records)
  BY DEF Provs
<1>2. /\ Append(p.files, r) \in Seq(Records)
      /\ Len(Append(p.files, r)) = Len(p.files) + 1
      /\ \A i \in 1..Len(p.files) : Append(p.files, r)[i] = p.files[i]
      /\ Append(p.files, r)[Len(p.files) + 1] = r
  BY <1>1, AppendProperties
<1>3. DOMAIN Append(p.files, r) = 1..(Len(p.files) + 1) /\ Len(p.files) \in Nat
  BY <1>1, <1>2
<1>4. DOMAIN p.files = 1..Len(p.files)
  BY <1>1
<1>5. [p EXCEPT !.files = Append(@, r)] = [base |-> p.base, files |-> Append(p.files, r)]
  <2>1. p \in [base : [Files -> Found], files : Seq(Records)]
    BY DEF Provs
  <2> DEFINE fs == Append(p.files, r)
  <2>2. [p EXCEPT !.files = fs] = [base |-> p.base, files |-> fs]
    <3> HIDE DEF fs
    <3> QED
      BY <2>1
  <2> QED
    BY <2>2
<1> HIDE DEF Provs
<1>6. [p EXCEPT !.files = Append(@, r)] \in Provs
  BY <1>2, <1>5 DEF Provs
<1> QED
  BY <1>2, <1>3, <1>4, <1>5, <1>6

LEMMA RecordCompleted ==
    ASSUME NEW p \in Provs, NEW i \in DOMAIN p.files, NEW x \in Found
    PROVE  /\ [p EXCEPT !.files[i].sha_after = x] \in Provs
           /\ [p EXCEPT !.files[i].sha_after = x].files
                = [p.files EXCEPT ![i] = [@ EXCEPT !.sha_after = x]]
           /\ DOMAIN [p.files EXCEPT ![i] = [@ EXCEPT !.sha_after = x]] = DOMAIN p.files
<1>1. p.files \in Seq(Records)
  BY DEF Provs
<1>2. p.files[i] \in Records
  BY <1>1
<1>3. [p.files[i] EXCEPT !.sha_after = x] \in Records
  BY <1>2 DEF Records
<1>4. [p.files EXCEPT ![i] = [@ EXCEPT !.sha_after = x]] \in Seq(Records)
  BY <1>1, <1>3, ExceptSeq
<1> QED
  BY <1>4 DEF Provs

\* A record that --before makes is well formed, and it names a backup only of a
\* file that is there.
LEMMA RecordIsWellFormed ==
    ASSUME TypeOK, NEW f \in Files, NEW copied \in BOOLEAN, NEW readable \in BOOLEAN
    PROVE  /\ Record(f, copied, readable) \in Records
           /\ Record(f, copied, readable).path = f
           /\ Record(f, copied, readable).existed_before <=> worktree[f] # None
           /\ Record(f, copied, readable).sha_before \in {None, worktree[f]}
           /\ Record(f, copied, readable).sha_after = None
           /\ Record(f, copied, readable).backup_path # None
                => /\ Record(f, copied, readable).backup_path = Escape[f] /\ Escape[f] \in Names
                   /\ DirtyOrUntracked(f) /\ copied /\ worktree[f] # None
<1>1. Existed(f) \in BOOLEAN /\ Tracked(f) \in BOOLEAN /\ DirtyOrUntracked(f) \in BOOLEAN
  BY DEF Existed, Tracked, DirtyOrUntracked
<1>2. Backup(f, copied) \in Names \cup {None} /\ worktree[f] \in Found /\ None \in Found
  BY ProvenanceAssumption DEF Backup, TypeOK, Found
<1> QED
  BY <1>1, <1>2, ProvenanceAssumption DEF Record, Records, Backup, DirtyOrUntracked, Existed

\* What a copy leaves of the backups: those that a record names are as they
\* were, or noted as overwritten.
LEMMA CopyLeaves ==
    ASSUME TypeOK, NEW f \in Files, NEW x \in Found, CopyTo(f, x)
    PROVE  /\ backups' \in [Names -> Found] /\ overwritten \subseteq overwritten'
           /\ DirtyOrUntracked(f) => backups'[Escape[f]] = x
           /\ \A i \in DOMAIN Kept :
                Kept[i].backup_path \notin overwritten' \cup {None} =>
                  /\ Kept[i].backup_path \notin overwritten \cup {None}
                  /\ backups'[Kept[i].backup_path] = backups[Kept[i].backup_path]
<1>1. backups \in [Names -> Found] /\ Escape[f] \in Names
  BY ProvenanceAssumption DEF TypeOK
<1>2. /\ backups' \in [Names -> Found]
      /\ DirtyOrUntracked(f) => backups'[Escape[f]] = x
  BY <1>1 DEF CopyTo
<1>3. overwritten' = overwritten \cup
         {n \in Names : /\ backups'[n] # backups[n]
                        /\ \E i \in DOMAIN Kept : Kept[i].backup_path = n}
  BY DEF CopyTo, Kept
<1>4. \A i \in DOMAIN Kept : Kept[i].backup_path \in Names \cup {None}
  <2>1. \A i \in DOMAIN Kept : Kept[i] \in Records
    BY ReadIsWellFormed
  <2> QED
    BY <2>1 DEF Records
<1> QED
  BY <1>2, <1>3, <1>4

------------------------------------------------------------------------------
(* Type correctness.                                                          *)

LEMMA InitType == Init => TypeOK /\ Histories
<1> SUFFICES ASSUME Init PROVE TypeOK /\ Histories
    OBVIOUS
<1>1. prov \in Provs \cup {None, Torn} /\ prov \notin Provs
  BY ProvenanceAssumption DEF Init
<1>2. original \in [Files -> [touched : BOOLEAN, content : Found]]
  BY DEF Init, Untouched, Found
<1> QED
  BY <1>1, <1>2, ProvenanceAssumption DEF Init, TypeOK, Histories, Contents, Found

\* The record that --before adds, after a copy that succeeded or not.
LEMMA BeforeType ==
    ASSUME TypeOK, NEW f \in Files, NEW copied \in BOOLEAN, NEW readable \in BOOLEAN,
           revert = "no", NEW x \in Found, CopyTo(f, x), copied => x = worktree[f],
           prov' = [ReadProv EXCEPT !.files = Append(@, Record(f, copied, readable))]
    PROVE  /\ prov' \in Provs
           /\ \A i \in DOMAIN prov'.files :
                prov'.files[i].backup_path \notin overwritten' \cup {None} =>
                    backups'[prov'.files[i].backup_path] \in Contents
<1> DEFINE r == Record(f, copied, readable)
<1>1. ReadProv \in Provs /\ r \in Records
  BY ReadIsWellFormed, RecordIsWellFormed
<1>2. r.backup_path # None =>
        /\ r.backup_path = Escape[f] /\ DirtyOrUntracked(f) /\ copied
        /\ worktree[f] \in Contents
  BY RecordIsWellFormed DEF TypeOK, Found
<1> HIDE DEF r
<1>3. /\ prov' \in Provs /\ prov'.files = Append(ReadProv.files, r)
      /\ DOMAIN prov'.files = DOMAIN ReadProv.files \cup {Len(ReadProv.files) + 1}
      /\ \A i \in DOMAIN ReadProv.files : prov'.files[i] = ReadProv.files[i]
      /\ prov'.files[Len(ReadProv.files) + 1] = r
  BY <1>1, RecordAdded DEF r
<1>4. ASSUME NEW i \in DOMAIN Kept, Kept[i].backup_path \notin overwritten' \cup {None}
      PROVE  backups'[Kept[i].backup_path] \in Contents
  <2>1. /\ Kept[i].backup_path \notin overwritten \cup {None}
        /\ backups'[Kept[i].backup_path] = backups[Kept[i].backup_path]
    BY <1>4, CopyLeaves
  <2>2. prov \in Provs /\ ReadProv = prov
    BY <1>4, ReadIsWellFormed DEF TypeOK
  <2> QED
    BY <1>4, <2>1, <2>2 DEF TypeOK, Kept
<1>5. r.backup_path # None => backups'[r.backup_path] \in Contents
  BY <1>2, CopyLeaves
<1> QED
  BY <1>3, <1>4, <1>5 DEF Kept

\* The ways in which --before ends: it has recorded, or it left no record.
LEMMA BeforeCases ==
    ASSUME TypeOK, NEW f \in Files, Before(f)
    PROVE  \E x \in Found :
              /\ CopyTo(f, x)
              /\ \/ /\ UNCHANGED prov
                    /\ unrecorded' = IF original[f].touched THEN unrecorded
                                     ELSE unrecorded \cup {f}
                 \/ /\ UNCHANGED unrecorded
                    /\ \E copied, readable \in BOOLEAN :
                         /\ copied => x = worktree[f]
                         /\ prov' = [ReadProv EXCEPT
                                       !.files = Append(@, Record(f, copied, readable))]
<1>1. Escape[f] \in Names /\ backups[Escape[f]] \in Found /\ worktree[f] \in Found
      /\ None \in Found /\ Torn \in Found
  BY ProvenanceAssumption DEF TypeOK, Found
<1>2. CASE \E copied, readable \in BOOLEAN :
            /\ IF copied THEN CopyTo(f, worktree[f])
               ELSE \E x \in {backups[Escape[f]], None} : CopyTo(f, x)
            /\ prov' = [ReadProv EXCEPT !.files = Append(@, Record(f, copied, readable))]
            /\ UNCHANGED unrecorded
  <2>1. PICK copied \in BOOLEAN, readable \in BOOLEAN :
            /\ IF copied THEN CopyTo(f, worktree[f])
               ELSE \E x \in {backups[Escape[f]], None} : CopyTo(f, x)
            /\ prov' = [ReadProv EXCEPT !.files = Append(@, Record(f, copied, readable))]
            /\ UNCHANGED unrecorded
    BY <1>2
  <2>2. CASE copied
    BY <1>1, <2>1, <2>2
  <2>3. CASE ~copied
    BY <1>1, <2>1, <2>3
  <2> QED
    BY <2>2, <2>3
<1>3. CASE /\ \E x \in {backups[Escape[f]], None, Torn, worktree[f]} : CopyTo(f, x)
           /\ unrecorded' = IF original[f].touched THEN unrecorded ELSE unrecorded \cup {f}
           /\ UNCHANGED prov
  BY <1>1, <1>3
<1> QED
  BY <1>2, <1>3 DEF Before

LEMMA NextType == TypeOK /\ Histories /\ PlanHolds /\ [Next]_vars => TypeOK' /\ Histories'
<1> SUFFICES ASSUME TypeOK, Histories, PlanHolds, [Next]_vars PROVE TypeOK' /\ Histories'
    OBVIOUS
<1>0. /\ ReadProv \in Provs /\ Kept \in Seq(Records)
      /\ prov \in Provs => ReadProv = prov
      /\ prov \in {None, Torn} => Kept = <<>>
      /\ prov \notin {None, Torn} => prov \in Provs
  BY ReadIsWellFormed
<1>1. ASSUME UNCHANGED <<backups, overwritten>>, prov' = ReadProv \/ UNCHANGED prov
      PROVE  /\ prov' \in Provs \cup {None, Torn}
             /\ prov' \in Provs =>
                  \A i \in DOMAIN prov'.files :
                     prov'.files[i].backup_path \notin overwritten' \cup {None} =>
                         backups'[prov'.files[i].backup_path] \in Contents
  <2>1. CASE UNCHANGED prov
    BY <1>1, <2>1 DEF TypeOK
  <2>2. CASE prov' = ReadProv /\ prov \in Provs
    BY <1>0, <1>1, <2>2 DEF TypeOK
  <2>3. CASE prov' = ReadProv /\ prov \in {None, Torn}
    BY <1>0, <2>3 DEF Kept
  <2> QED
    BY <1>1, <2>1, <2>2, <2>3 DEF TypeOK
<1>2. ASSUME InitRun \/ Finalize PROVE TypeOK' /\ Histories'
  <2>1. prov' = ReadProv \/ UNCHANGED prov
    BY <1>2 DEF InitRun, Finalize, InitProv, ReadProv
  <2>2. UNCHANGED <<worktree, head, backups, pending, original, lastWrite, revert, plan,
                     overwritten>>
    BY <1>2 DEF InitRun, Finalize, disk, command, past
  <2> QED
    BY <2>1, <2>2, <1>1 DEF TypeOK, Histories
<1>3. ASSUME NEW f \in Files, Before(f) PROVE TypeOK' /\ Histories'
  <2>1. UNCHANGED <<worktree, head, lastWrite, revert, plan>> /\ revert = "no"
        /\ pending' \in [Files -> {"no", "before", "written"}]
    BY <1>3 DEF Before, TypeOK, disk, command
  <2>2. original' \in [Files -> [touched : BOOLEAN, content : Found]]
    BY <1>3 DEF Before, TypeOK, Histories, Touched
  <2>3. ASSUME NEW x \in Found, CopyTo(f, x),
               \/ UNCHANGED prov
               \/ \E copied, readable \in BOOLEAN :
                     /\ copied => x = worktree[f]
                     /\ prov' = [ReadProv EXCEPT !.files = Append(@, Record(f, copied, readable))]
        PROVE  TypeOK' /\ Histories'
    <3>1. backups' \in [Names -> Found]
      BY <2>3, CopyLeaves
    <3>2. CASE UNCHANGED prov
      <4>1. ASSUME prov \in Provs, NEW i \in DOMAIN prov.files,
                   prov.files[i].backup_path \notin overwritten' \cup {None}
            PROVE  backups'[prov.files[i].backup_path] \in Contents
        <5>1. i \in DOMAIN Kept /\ Kept[i] = prov.files[i]
          BY <1>0, <4>1 DEF Kept
        <5>2. /\ Kept[i].backup_path \notin overwritten \cup {None}
              /\ backups'[Kept[i].backup_path] = backups[Kept[i].backup_path]
          BY <2>3, <4>1, <5>1, CopyLeaves
        <5> QED
          BY <4>1, <5>1, <5>2 DEF TypeOK
      <4> QED
        BY <2>1, <2>2, <3>1, <3>2, <4>1 DEF TypeOK, Histories
    <3>3. ASSUME NEW copied \in BOOLEAN, NEW readable \in BOOLEAN, copied => x = worktree[f],
                 prov' = [ReadProv EXCEPT !.files = Append(@, Record(f, copied, readable))]
          PROVE  TypeOK' /\ Histories'
      <4>1. /\ prov' \in Provs
            /\ \A i \in DOMAIN prov'.files :
                 prov'.files[i].backup_path \notin overwritten' \cup {None} =>
                     backups'[prov'.files[i].backup_path] \in Contents
        BY <2>1, <2>3, <3>3, BeforeType
      <4> QED
        BY <2>1, <2>2, <3>1, <4>1 DEF TypeOK, Histories
    <3> QED
      BY <2>3, <3>2, <3>3
  <2> QED
    BY <1>3, <2>3, BeforeCases
<1>4. ASSUME NEW f \in Files, Write(f) PROVE TypeOK' /\ Histories'
  <2>1. UNCHANGED <<head, prov, backups, original, revert, plan, overwritten>>
        /\ pending' \in [Files -> {"no", "before", "written"}] /\ revert = "no"
    BY <1>4 DEF Write, TypeOK, record, command
  <2>2. /\ worktree' \in [Files -> Found] /\ \A g \in Files : worktree'[g] # Torn
        /\ lastWrite' \in [Files -> Found]
    <3>1. CASE UNCHANGED <<worktree, lastWrite>>
      BY <2>1, <3>1 DEF TypeOK, Histories
    <3>2. ASSUME NEW x \in RunWrites, worktree' = [worktree EXCEPT ![f] = x],
                 lastWrite' = [lastWrite EXCEPT ![f] = x]
          PROVE  /\ worktree' \in [Files -> Found] /\ \A g \in Files : worktree'[g] # Torn
                 /\ lastWrite' \in [Files -> Found]
      <4>1. x \in Found /\ x # Torn
        BY ProvenanceAssumption DEF Contents, Found
      <4> QED
        BY <2>1, <3>2, <4>1 DEF TypeOK, Histories
    <3> QED
      BY <1>4, <3>1, <3>2 DEF Write
  <2> QED
    BY <2>1, <2>2 DEF TypeOK, Histories
<1>5. ASSUME NEW f \in Files, After(f) PROVE TypeOK' /\ Histories'
  <2>1. UNCHANGED <<worktree, head, backups, original, lastWrite, revert, plan, overwritten>>
        /\ pending' \in [Files -> {"no", "before", "written"}]
    BY <1>5 DEF After, TypeOK, disk, command, past
  <2>2. CASE UNCHANGED prov
    BY <2>1, <2>2 DEF TypeOK, Histories
  <2>3. ASSUME NEW i \in OpenRecords(f), prov' = [ReadProv EXCEPT !.files[i].sha_after = worktree[f]]
        PROVE  TypeOK' /\ Histories'
    <3>1. i \in DOMAIN ReadProv.files /\ worktree[f] \in Found
      BY <2>3 DEF OpenRecords, TypeOK
    <3>2. /\ prov' \in Provs
          /\ prov'.files = [ReadProv.files EXCEPT ![i] = [@ EXCEPT !.sha_after = worktree[f]]]
          /\ DOMAIN prov'.files = DOMAIN ReadProv.files
      BY <1>0, <2>3, <3>1, RecordCompleted
    <3>3. prov \in Provs /\ ReadProv = prov
      BY <1>0, <3>1 DEF Kept
    <3>4. \A j \in DOMAIN prov.files : prov'.files[j].backup_path = prov.files[j].backup_path
      <4>1. \A j \in DOMAIN prov.files : prov.files[j] \in Records
        BY <1>0, <3>3 DEF Kept
      <4> QED
        BY <3>2, <3>3, <4>1 DEF Records
    <3> QED
      BY <2>1, <3>2, <3>3, <3>4 DEF TypeOK, Histories
  <2> QED
    BY <1>5, <2>2, <2>3 DEF After
<1>6. ASSUME NEW f \in Files, OtherEdit(f) \/ CommitFile(f) PROVE TypeOK' /\ Histories'
  <2>1. UNCHANGED <<prov, backups, pending, original, lastWrite, revert, plan, overwritten>>
    BY <1>6 DEF OtherEdit, CommitFile, record, command, past
  <2>2. UserWrites \subseteq Found /\ Torn \notin UserWrites
    BY ProvenanceAssumption DEF Found, Contents
  <2>3. /\ worktree' \in [Files -> Found] /\ head' \in [Files -> Found]
        /\ revert = "no" => \A g \in Files : worktree'[g] # Torn
    BY <1>6, <2>2 DEF OtherEdit, CommitFile, TypeOK
  <2> QED
    BY <2>1, <2>3 DEF TypeOK, Histories
<1>7. CASE Tear
  <2>1. UNCHANGED <<worktree, head, backups, pending, original, lastWrite, revert, plan>>
        /\ prov' = Torn
    BY <1>7 DEF Tear, disk, command
  <2> QED
    BY <2>1, ProvenanceAssumption DEF TypeOK, Histories
<1>8. CASE Collect \/ EndRevert
  <2>1. UNCHANGED <<worktree, head, prov, backups, pending, original, lastWrite, overwritten>>
        /\ revert' \in {"collected", "done"} /\ plan' \subseteq Files
    BY <1>8 DEF Collect, EndRevert, disk, record, past
  <2> QED
    BY <2>1 DEF TypeOK, Histories
<1>9. ASSUME NEW f \in Files, Execute(f) PROVE TypeOK' /\ Histories'
  <2>1. UNCHANGED <<head, prov, backups, pending, original, lastWrite, revert, overwritten>>
        /\ plan' \subseteq Files /\ revert = "collected" /\ f \in plan
        /\ worktree' = [worktree EXCEPT ![f] = Restored(f, First(f))]
    BY <1>9 DEF Execute, record, past, TypeOK
  <2>2. prov \in Provs /\ RecordsOf(f) # {} /\ CanRestore(f, First(f))
    BY <2>1 DEF PlanHolds
  <2>3. First(f) \in Records
    BY <1>0, <2>2, FirstAndLast DEF KeptOf
  <2>4. Restored(f, First(f)) \in Found
    BY <2>2, <2>3, ProvenanceAssumption DEF CanRestore, Restored, TypeOK, Records, Provs, Found
  <2> QED
    BY <2>1, <2>4 DEF TypeOK, Histories
<1>10. CASE UNCHANGED vars
  BY <1>10 DEF vars, disk, record, command, past, TypeOK, Histories
<1> QED
  BY <1>2, <1>3, <1>4, <1>5, <1>6, <1>7, <1>8, <1>9, <1>10 DEF Next

------------------------------------------------------------------------------
(* What a step does to the records.                                           *)

LEMMA KeptNext ==
    ASSUME TypeOK, TypeOK'
    PROVE  /\ UNCHANGED prov => UNCHANGED Kept
           /\ prov' = ReadProv => UNCHANGED Kept
           /\ InitProv => UNCHANGED Kept
           /\ prov' \in Provs => Kept' = prov'.files
           /\ prov' = Torn => Kept' = <<>>
<1>1. prov' \in Provs => Kept' = prov'.files
  BY ProvenanceAssumption DEF Kept, ReadProv
<1>2. prov' \in {None, Torn} => Kept' = <<>>
  BY DEF Kept, ReadProv, Fresh
<1>3. /\ ReadProv \in Provs
      /\ prov \in Provs => Kept = prov.files /\ prov # None
      /\ prov \in {None, Torn} => Kept = <<>>
  BY ReadIsWellFormed DEF Kept
<1>4. prov' = ReadProv => UNCHANGED Kept
  BY <1>1, <1>3 DEF Kept
<1>5. UNCHANGED prov => UNCHANGED Kept
  BY <1>1, <1>2, <1>3 DEF TypeOK
<1>6. InitProv => UNCHANGED Kept
  BY <1>4, <1>5 DEF InitProv, ReadProv
<1> QED
  BY <1>1, <1>2, <1>4, <1>5, <1>6

\* --before adds a record at the end.
LEMMA BeforeAdds ==
    ASSUME TypeOK, TypeOK', NEW f \in Files, NEW copied \in BOOLEAN, NEW readable \in BOOLEAN,
           prov' = [ReadProv EXCEPT !.files = Append(@, Record(f, copied, readable))]
    PROVE  LET n == Len(Kept) + 1 IN
           /\ n \in Nat /\ DOMAIN Kept = 1..(n - 1) /\ n \notin DOMAIN Kept
           /\ DOMAIN Kept' = DOMAIN Kept \cup {n}
           /\ \A i \in DOMAIN Kept : Kept'[i] = Kept[i] /\ i <= n
           /\ Kept'[n] = Record(f, copied, readable)
           /\ \A g \in Files : KeptOf(g)' = KeptOf(g) \cup (IF g = f THEN {n} ELSE {})
<1> DEFINE n == Len(Kept) + 1
<1> DEFINE r == Record(f, copied, readable)
<1>1. ReadProv \in Provs /\ r \in Records /\ r.path = f
  BY ReadIsWellFormed, RecordIsWellFormed
<1> HIDE DEF r
<1>2. /\ prov' \in Provs /\ prov'.files = Append(Kept, r)
      /\ DOMAIN Append(Kept, r) = DOMAIN Kept \cup {n}
      /\ DOMAIN Kept = 1..Len(Kept) /\ Len(Kept) \in Nat
      /\ \A i \in DOMAIN Kept : Append(Kept, r)[i] = Kept[i]
      /\ Append(Kept, r)[n] = r
  BY <1>1, RecordAdded DEF Kept, r
<1>3. Kept' = Append(Kept, r)
  BY <1>2, KeptNext
<1>4. n \in Nat /\ DOMAIN Kept = 1..(n - 1) /\ n \notin DOMAIN Kept /\ \A i \in DOMAIN Kept : i <= n
  BY <1>2
<1>5. ASSUME NEW g \in Files
      PROVE  KeptOf(g)' = KeptOf(g) \cup (IF g = f THEN {n} ELSE {})
  <2>1. KeptOf(g)' = {i \in DOMAIN Kept' : Kept'[i].path = g}
    BY DEF KeptOf
  <2> HIDE DEF n
  <2> QED
    BY <1>1, <1>2, <1>3, <2>1 DEF KeptOf
<1> QED
  BY <1>2, <1>3, <1>4, <1>5 DEF r

\* --after completes a record.
LEMMA AfterCompletes ==
    ASSUME TypeOK, TypeOK', NEW f \in Files, NEW i \in OpenRecords(f),
           prov' = [ReadProv EXCEPT !.files[i].sha_after = worktree[f]]
    PROVE  /\ i \in DOMAIN Kept /\ Kept[i].path = f /\ DOMAIN Kept' = DOMAIN Kept
           /\ Kept'[i].sha_after = worktree[f]
           /\ \A j \in DOMAIN Kept : j # i => Kept'[j] = Kept[j]
           /\ \A j \in DOMAIN Kept :
                /\ Kept'[j].path = Kept[j].path
                /\ Kept'[j].existed_before = Kept[j].existed_before
                /\ Kept'[j].sha_before = Kept[j].sha_before
                /\ Kept'[j].backup_path = Kept[j].backup_path
<1>1. ReadProv \in Provs /\ Kept \in Seq(Records) /\ i \in DOMAIN ReadProv.files
      /\ worktree[f] \in Found /\ Kept[i].path = f
  BY ReadIsWellFormed DEF OpenRecords, TypeOK, Kept
<1>2. /\ prov' \in Provs
      /\ prov'.files = [Kept EXCEPT ![i] = [@ EXCEPT !.sha_after = worktree[f]]]
      /\ DOMAIN prov'.files = DOMAIN Kept
  <2> DEFINE p == ReadProv
  <2> DEFINE x == worktree[f]
  <2>1. p \in Provs /\ i \in DOMAIN p.files /\ x \in Found
        /\ prov' = [p EXCEPT !.files[i].sha_after = x] /\ p.files = Kept
    BY <1>1 DEF Kept
  <2> HIDE DEF p, x
  <2>2. /\ [p EXCEPT !.files[i].sha_after = x] \in Provs
        /\ [p EXCEPT !.files[i].sha_after = x].files
             = [p.files EXCEPT ![i] = [@ EXCEPT !.sha_after = x]]
        /\ DOMAIN [p.files EXCEPT ![i] = [@ EXCEPT !.sha_after = x]] = DOMAIN p.files
    BY <2>1, RecordCompleted, Zenon
  <2> QED
    BY <2>1, <2>2 DEF x
<1>3. Kept' = [Kept EXCEPT ![i] = [@ EXCEPT !.sha_after = worktree[f]]]
  BY <1>2, KeptNext
<1>4. i \in DOMAIN Kept /\ \A j \in DOMAIN Kept : Kept[j] \in Records
  BY <1>1 DEF Kept
<1> QED
  BY <1>1, <1>2, <1>3, <1>4 DEF Records

------------------------------------------------------------------------------
(* The first record of a file tells what the run found.                       *)

LEMMA InitTells == Init => FirstsTell
BY DEF Init, FirstsTell, Untouched, KeptOf, Kept, ReadProv, Fresh

\* A copy disturbs no first record, or its backup is noted as overwritten.
LEMMA CopyTells ==
    ASSUME TypeOK, TypeOK', NEW f \in Files, NEW y \in Found, CopyTo(f, y),
           NEW g \in Files, NEW i \in KeptOf(g), FirstOf(g, i), NEW c, Tells(Kept[i], c)
    PROVE  Kept[i].backup_path \notin overwritten' \cup {None} =>
             backups'[Kept[i].backup_path] = c
BY CopyLeaves DEF KeptOf, Tells

\* A record that --before adds disturbs no first record, and is one itself if
\* it is the file's first.
LEMMA BeforeTells ==
    ASSUME TypeOK, TypeOK', Histories, FirstsTell,
           NEW f \in Files, NEW copied \in BOOLEAN, NEW readable \in BOOLEAN,
           original' = [original EXCEPT ![f] = IF @.touched THEN @ ELSE Touched(worktree[f])],
           prov' = [ReadProv EXCEPT !.files = Append(@, Record(f, copied, readable))],
           NEW y \in Found, CopyTo(f, y), copied => y = worktree[f],
           UNCHANGED <<worktree, unrecorded>>
    PROVE  FirstsTell'
<1> DEFINE r == Record(f, copied, readable)
<1>0. Len(Kept) + 1 \in Nat
  BY BeforeAdds
<1> PICK n \in Nat : n = Len(Kept) + 1
  BY <1>0
<1>1. /\ n \in Nat /\ n \notin DOMAIN Kept /\ DOMAIN Kept' = DOMAIN Kept \cup {n}
      /\ DOMAIN Kept = 1..(n - 1)
      /\ \A i \in DOMAIN Kept : Kept'[i] = Kept[i] /\ i <= n
      /\ Kept'[n] = r
      /\ \A g \in Files : KeptOf(g)' = KeptOf(g) \cup (IF g = f THEN {n} ELSE {})
  BY BeforeAdds
<1>2. /\ r.existed_before <=> worktree[f] # None
      /\ r.sha_before \in {None, worktree[f]}
      /\ r.backup_path # None => backups'[r.backup_path] = worktree[f]
  BY RecordIsWellFormed, CopyLeaves
<1> HIDE DEF r
<1>6. ASSUME NEW g \in Files, original[g].touched, g \notin unrecorded
      PROVE  /\ original'[g] = original[g]
             /\ \E i \in KeptOf(g)' : FirstOf(g, i)' /\ Tells(Kept[i], original[g].content)'
  <2>1. original'[g] = original[g]
    BY <1>6 DEF Histories
  <2>2. PICK i \in KeptOf(g) : FirstOf(g, i) /\ Tells(Kept[i], original[g].content)
    BY <1>6 DEF FirstsTell
  <2>3. i \in DOMAIN Kept /\ i \in KeptOf(g)' /\ Kept'[i] = Kept[i] /\ i <= n /\ i # n
    BY <1>1 DEF KeptOf
  <2>4. FirstOf(g, i)'
    BY <1>1, <2>2, <2>3 DEF FirstOf
  <2>5. Kept[i].backup_path \notin overwritten' \cup {None} =>
          backups'[Kept[i].backup_path] = original[g].content
    BY <2>2, CopyTells
  <2>6. Tells(Kept[i], original[g].content)'
    BY <2>1, <2>2, <2>3, <2>5 DEF Tells
  <2> QED
    BY <2>1, <2>3, <2>4, <2>6
<1>7. ASSUME ~original[f].touched
      PROVE  /\ original'[f].touched /\ original'[f].content = worktree[f]
             /\ \E i \in KeptOf(f)' : FirstOf(f, i)' /\ Tells(Kept[i], worktree[f])'
  <2>1. original'[f] = Touched(worktree[f])
    BY <1>7 DEF Histories
  <2>2. KeptOf(f)' = {n}
    BY <1>1, <1>7 DEF FirstsTell
  <2>3. FirstOf(f, n)'
    BY <1>1, <2>2 DEF FirstOf
  <2>5. Tells(Kept[n], worktree[f])'
    BY <1>1, <1>2 DEF Tells
  <2> QED
    BY <2>1, <2>2, <2>3, <2>5 DEF Touched
<1>8. ASSUME NEW g \in Files, ~original[g].touched, g # f
      PROVE  ~original'[g].touched /\ KeptOf(g)' = {}
  BY <1>1, <1>8 DEF FirstsTell, Histories
<1> QED
  BY <1>6, <1>7, <1>8 DEF FirstsTell

LEMMA NextTells ==
    TypeOK /\ TypeOK' /\ Histories /\ FirstsTell /\ [Next]_vars => FirstsTell'
<1> SUFFICES ASSUME TypeOK, TypeOK', Histories, FirstsTell, [Next]_vars
             PROVE  FirstsTell'
    OBVIOUS
<1>0. ASSUME UNCHANGED <<Kept, original, unrecorded, backups, overwritten>>
      PROVE  FirstsTell'
  BY <1>0 DEF FirstsTell, KeptOf, FirstOf, Tells
<1>1. ASSUME InitRun \/ Finalize PROVE FirstsTell'
  <2>1. UNCHANGED <<Kept, original, unrecorded, backups, overwritten>>
    BY <1>1, KeptNext DEF InitRun, Finalize, past
  <2> QED
    BY <2>1, <1>0
<1>2. ASSUME NEW f \in Files, Before(f) PROVE FirstsTell'
  <2>1. /\ UNCHANGED worktree
        /\ original' = [original EXCEPT ![f] = IF @.touched THEN @ ELSE Touched(worktree[f])]
    BY <1>2 DEF Before, disk
  <2>2. ASSUME NEW y \in Found, CopyTo(f, y), UNCHANGED unrecorded,
               NEW copied \in BOOLEAN, NEW readable \in BOOLEAN, copied => y = worktree[f],
               prov' = [ReadProv EXCEPT !.files = Append(@, Record(f, copied, readable))]
        PROVE  FirstsTell'
    BY <2>1, <2>2, BeforeTells
  <2>3. ASSUME unrecorded' = IF original[f].touched THEN unrecorded ELSE unrecorded \cup {f},
               NEW y \in Found, CopyTo(f, y), UNCHANGED prov
        PROVE  FirstsTell'
    <3>1. UNCHANGED Kept
      BY <2>3, KeptNext
    <3>2. ASSUME NEW g \in Files, original'[g].touched, g \notin unrecorded'
          PROVE  original'[g] = original[g] /\ original[g].touched /\ g \notin unrecorded
      <4>1. CASE g = f
        BY <2>1, <2>3, <3>2, <4>1 DEF Histories
      <4>2. CASE g # f
        BY <2>1, <2>3, <3>2, <4>2 DEF Histories
      <4> QED
        BY <4>1, <4>2
    <3>3. ASSUME NEW g \in Files, ~original'[g].touched
          PROVE  ~original[g].touched
      BY <2>1, <3>3 DEF Histories, Touched
    <3>4. ASSUME NEW g \in Files, original[g].touched, g \notin unrecorded
          PROVE  \E i \in KeptOf(g)' : FirstOf(g, i)' /\ Tells(Kept[i], original[g].content)'
      <4>1. PICK i \in KeptOf(g) : FirstOf(g, i) /\ Tells(Kept[i], original[g].content)
        BY <3>4 DEF FirstsTell
      <4>2. Kept[i].backup_path \notin overwritten' \cup {None} =>
              backups'[Kept[i].backup_path] = original[g].content
        BY <2>3, <4>1, CopyTells
      <4>3. original'[g].content = original[g].content
        BY <2>1, <3>4 DEF Histories
      <4> QED
        BY <3>1, <4>1, <4>2, <4>3 DEF KeptOf, FirstOf, Tells
    <3> QED
      BY <3>1, <3>2, <3>3, <3>4 DEF FirstsTell, KeptOf
  <2>4. PICK y \in Found :
           /\ CopyTo(f, y)
           /\ \/ /\ UNCHANGED prov
                 /\ unrecorded' = IF original[f].touched THEN unrecorded
                                  ELSE unrecorded \cup {f}
              \/ /\ UNCHANGED unrecorded
                 /\ \E copied, readable \in BOOLEAN :
                      /\ copied => y = worktree[f]
                      /\ prov' = [ReadProv EXCEPT
                                    !.files = Append(@, Record(f, copied, readable))]
    BY <1>2, BeforeCases
  <2> QED
    BY <2>2, <2>3, <2>4
<1>3. ASSUME NEW f \in Files, Write(f) \/ OtherEdit(f) \/ CommitFile(f) PROVE FirstsTell'
  <2>1. UNCHANGED <<prov, original, unrecorded, backups, overwritten>>
    BY <1>3 DEF Write, OtherEdit, CommitFile, record, past
  <2> QED
    BY <2>1, <1>0, KeptNext
<1>4. ASSUME NEW f \in Files, After(f) PROVE FirstsTell'
  <2>1. UNCHANGED <<original, unrecorded, backups, overwritten>>
    BY <1>4 DEF After, past
  <2>2. CASE UNCHANGED prov
    BY <2>1, <2>2, <1>0, KeptNext
  <2>3. ASSUME NEW i \in OpenRecords(f), prov' = [ReadProv EXCEPT !.files[i].sha_after = worktree[f]]
        PROVE  FirstsTell'
    <3>1. /\ DOMAIN Kept' = DOMAIN Kept
          /\ \A j \in DOMAIN Kept :
               /\ Kept'[j].path = Kept[j].path
               /\ Kept'[j].existed_before = Kept[j].existed_before
               /\ Kept'[j].sha_before = Kept[j].sha_before
               /\ Kept'[j].backup_path = Kept[j].backup_path
      BY <2>3, AfterCompletes
    <3>2. \A g : KeptOf(g)' = KeptOf(g)
      BY <3>1 DEF KeptOf
    <3>4. \A g, j : FirstOf(g, j)' <=> FirstOf(g, j)
      BY <3>2 DEF FirstOf
    <3>5. ASSUME NEW j \in DOMAIN Kept, NEW x, Tells(Kept[j], x)
          PROVE  Tells(Kept[j], x)'
      BY <2>1, <3>1, <3>5 DEF Tells
    <3>6. ASSUME NEW g \in Files, original[g].touched, g \notin unrecorded
          PROVE  \E j \in KeptOf(g)' : FirstOf(g, j)' /\ Tells(Kept[j], original[g].content)'
      <4>1. PICK j \in KeptOf(g) : FirstOf(g, j) /\ Tells(Kept[j], original[g].content)
        BY <3>6 DEF FirstsTell
      <4>2. j \in DOMAIN Kept /\ original'[g].content = original[g].content
        BY <2>1 DEF KeptOf
      <4>3. Tells(Kept[j], original[g].content)'
        BY <2>1, <3>1, <4>1, <4>2 DEF Tells
      <4> QED
        BY <3>2, <3>4, <4>1, <4>3
    <3> QED
      BY <2>1, <3>2, <3>6 DEF FirstsTell
  <2> QED
    BY <1>4, <2>2, <2>3 DEF After
<1>5. CASE Tear
  <2>1. /\ Kept' = <<>> /\ UNCHANGED original
        /\ unrecorded' = unrecorded \cup {f \in Files : original[f].touched}
    BY <1>5, KeptNext DEF Tear
  <2> QED
    BY <2>1 DEF FirstsTell, KeptOf
<1>6. CASE Collect \/ EndRevert \/ \E f \in Files : Execute(f)
  <2>1. UNCHANGED <<prov, original, unrecorded, backups, overwritten>>
    BY <1>6 DEF Collect, EndRevert, Execute, record, past
  <2> QED
    BY <2>1, <1>0, KeptNext
<1>7. CASE UNCHANGED vars
  BY <1>0, <1>7, KeptNext DEF vars, record, past
<1> QED
  BY <1>1, <1>2, <1>3, <1>4, <1>5, <1>6, <1>7 DEF Next

------------------------------------------------------------------------------
(* What the run writes is its own.                                            *)

LEMMA InitOwn == Init => WritesAreOwn
<1> SUFFICES ASSUME Init PROVE WritesAreOwn
    OBVIOUS
<1>1. Kept = <<>> /\ \A f \in Files : pending[f] = "no"
  BY DEF Init, Kept, ReadProv, Fresh
<1>2. \A f \in Files : worktree[f] \notin RunWrites
  BY ContentsAssumption, ProvenanceAssumption DEF Init, Contents
<1> QED
  BY <1>1, <1>2 DEF WritesAreOwn

LEMMA NextOwn ==
    TypeOK /\ TypeOK' /\ Histories /\ WritesAreOwn /\ [Next]_vars => WritesAreOwn'
<1> SUFFICES ASSUME TypeOK, TypeOK', Histories, WritesAreOwn, [Next]_vars, revert' # "done"
             PROVE  WritesAreOwn'
    BY DEF WritesAreOwn
<1>a. revert # "done" /\ \A f \in Files : Live(f)' => Live(f)
  <2>1. \A f \in Files :
           Before(f) \/ Write(f) \/ After(f) \/ OtherEdit(f) \/ CommitFile(f)
             => UNCHANGED <<revert, plan>>
    BY DEF Before, Write, After, OtherEdit, CommitFile, command
  <2>2. InitRun \/ Finalize \/ Tear => UNCHANGED <<revert, plan>>
    BY DEF InitRun, Finalize, Tear, command
  <2>3. Collect => revert = "no"
    BY DEF Collect
  <2>4. ~EndRevert
    BY DEF EndRevert
  <2>5. \A f \in Files : Execute(f) => revert = "collected" /\ plan' \subseteq plan /\ UNCHANGED revert
    BY DEF Execute
  <2> QED
    BY <2>1, <2>2, <2>3, <2>4, <2>5 DEF Next, vars, command, Live, WritesAreOwn
<1>0. /\ \A f \in Files : Live(f) /\ worktree[f] \in RunWrites => worktree[f] = lastWrite[f]
      /\ \A f \in Files :
           Live(f) /\ pending[f] = "written" /\ f \notin raced => worktree[f] \in RunWrites
      /\ \A i \in DOMAIN Kept :
           /\ Kept[i].path \notin raced => Kept[i].sha_after \in RunWrites \cup {None}
           /\ Kept[i].existed_before /\ Live(Kept[i].path) => worktree[Kept[i].path] # None
      /\ \A i \in DOMAIN Kept : Kept[i].path \in Files
  <2>1. \A i \in DOMAIN Kept : Kept[i].path \in Files
    <3>1. Kept \in Seq(Records)
      BY ReadIsWellFormed
    <3>2. \A i \in DOMAIN Kept : Kept[i] \in Records
      BY <3>1
    <3> QED
      BY <3>2 DEF Records
  <2> QED
    BY <1>a, <2>1 DEF WritesAreOwn
<1>b. ASSUME UNCHANGED <<Kept, worktree, lastWrite, pending, raced>>
      PROVE  WritesAreOwn'
  BY <1>a, <1>0, <1>b DEF WritesAreOwn
<1>1. ASSUME InitRun \/ Finalize PROVE WritesAreOwn'
  <2>1. UNCHANGED <<Kept, worktree, lastWrite, pending, raced>>
    BY <1>1, KeptNext DEF InitRun, Finalize, disk, past
  <2> QED
    BY <1>b, <2>1
<1>2. ASSUME NEW f \in Files, Before(f) PROVE WritesAreOwn'
  <2>1. /\ UNCHANGED <<worktree, lastWrite, raced>>
        /\ \A g \in Files : pending'[g] = "written" => pending[g] = "written"
        /\ Live(f)
    BY <1>2 DEF Before, TypeOK, disk, Live
  <2>2. CASE UNCHANGED prov
    BY <1>a, <1>0, <2>1, <2>2, KeptNext DEF WritesAreOwn
  <2>3. ASSUME NEW copied \in BOOLEAN, NEW readable \in BOOLEAN,
               prov' = [ReadProv EXCEPT !.files = Append(@, Record(f, copied, readable))]
        PROVE  WritesAreOwn'
    <3>1. PICK n \in Nat : /\ DOMAIN Kept' = DOMAIN Kept \cup {n}
                           /\ \A i \in DOMAIN Kept : Kept'[i] = Kept[i]
                           /\ Kept'[n] = Record(f, copied, readable)
      BY <2>3, BeforeAdds
    <3>2. /\ Kept'[n].path = f /\ Kept'[n].sha_after = None
          /\ Kept'[n].existed_before <=> worktree[f] # None
      BY <3>1, RecordIsWellFormed
    <3> QED
      BY <1>a, <1>0, <2>1, <3>1, <3>2 DEF WritesAreOwn
  <2> QED
    BY <1>2, <2>2, <2>3, BeforeCases
<1>3. ASSUME NEW f \in Files, Write(f) PROVE WritesAreOwn'
  <2>1. UNCHANGED <<Kept, raced>>
    BY <1>3, KeptNext DEF Write, record
  <2>2. CASE UNCHANGED <<worktree, lastWrite>> /\ pending' = [pending EXCEPT ![f] = "no"]
    <3>1. \A g \in Files : pending'[g] = "written" => pending[g] = "written"
      BY <2>2 DEF TypeOK
    <3> QED
      BY <1>a, <1>0, <2>1, <2>2, <3>1 DEF WritesAreOwn
  <2>3. ASSUME NEW x \in RunWrites,
               worktree' = [worktree EXCEPT ![f] = x], lastWrite' = [lastWrite EXCEPT ![f] = x],
               pending' = [pending EXCEPT ![f] = "written"]
        PROVE  WritesAreOwn'
    <3>1. worktree'[f] = x /\ lastWrite'[f] = x /\ x # None
      BY <2>3, ProvenanceAssumption DEF TypeOK, Histories, Contents
    <3>2. \A g \in Files : g # f => /\ worktree'[g] = worktree[g] /\ lastWrite'[g] = lastWrite[g]
                                    /\ pending'[g] = pending[g]
      BY <2>3 DEF TypeOK, Histories
    <3> QED
      BY <1>a, <1>0, <2>1, <2>3, <3>1, <3>2 DEF WritesAreOwn
  <2> QED
    BY <1>3, <2>2, <2>3 DEF Write
<1>4. ASSUME NEW f \in Files, After(f) PROVE WritesAreOwn'
  <2>1. /\ UNCHANGED <<worktree, lastWrite, raced>> /\ pending[f] = "written" /\ Live(f)
        /\ \A g \in Files : pending'[g] = "written" => pending[g] = "written"
    BY <1>4 DEF After, TypeOK, disk, past, Live
  <2>2. CASE UNCHANGED prov
    BY <1>a, <1>0, <2>1, <2>2, KeptNext DEF WritesAreOwn
  <2>3. ASSUME NEW i \in OpenRecords(f), prov' = [ReadProv EXCEPT !.files[i].sha_after = worktree[f]]
        PROVE  WritesAreOwn'
    <3>1. /\ i \in DOMAIN Kept /\ Kept[i].path = f /\ DOMAIN Kept' = DOMAIN Kept
          /\ Kept'[i].sha_after = worktree[f]
          /\ \A j \in DOMAIN Kept : j # i => Kept'[j] = Kept[j]
          /\ \A j \in DOMAIN Kept : /\ Kept'[j].path = Kept[j].path
                                    /\ Kept'[j].existed_before = Kept[j].existed_before
      BY <2>3, AfterCompletes
    <3>2. f \notin raced => worktree[f] \in RunWrites
      BY <1>0, <2>1
    <3> QED
      BY <1>a, <1>0, <2>1, <3>1, <3>2 DEF WritesAreOwn
  <2> QED
    BY <1>4, <2>2, <2>3 DEF After
<1>5. ASSUME NEW f \in Files, OtherEdit(f) PROVE WritesAreOwn'
  <2>1. /\ UNCHANGED <<Kept, lastWrite, pending>>
        /\ raced \subseteq raced' /\ (pending[f] # "no" => f \in raced')
    BY <1>5, KeptNext DEF OtherEdit, record
  <2>2. PICK x \in UserWrites : worktree' = [worktree EXCEPT ![f] = x]
    BY <1>5 DEF OtherEdit
  <2>3. /\ worktree'[f] = x /\ x \notin RunWrites /\ x # None
        /\ \A g \in Files : g # f => worktree'[g] = worktree[g]
    BY <2>2, ContentsAssumption, ProvenanceAssumption DEF TypeOK, Contents
  <2> QED
    BY <1>a, <1>0, <2>1, <2>3 DEF WritesAreOwn
<1>6. ASSUME NEW f \in Files, CommitFile(f) PROVE WritesAreOwn'
  <2>1. UNCHANGED <<Kept, worktree, lastWrite, pending, raced>>
    BY <1>6, KeptNext DEF CommitFile, record, past
  <2> QED
    BY <1>b, <2>1
<1>7. CASE Tear
  <2>1. UNCHANGED <<worktree, lastWrite, pending, raced>> /\ Kept' = <<>>
    BY <1>7, KeptNext DEF Tear, disk
  <2> QED
    BY <1>a, <1>0, <2>1 DEF WritesAreOwn
<1>8. CASE Collect \/ UNCHANGED vars
  <2>1. UNCHANGED <<Kept, worktree, lastWrite, pending, raced>>
    BY <1>8, KeptNext DEF Collect, vars, disk, record, past
  <2> QED
    BY <1>b, <2>1
<1>9. ASSUME NEW f \in Files, Execute(f) PROVE WritesAreOwn'
  <2>1. /\ UNCHANGED <<Kept, lastWrite, pending, raced>>
        /\ \A g \in Files : g # f => worktree'[g] = worktree[g]
        /\ ~Live(f)'
    BY <1>9, KeptNext DEF Execute, record, past, Live, TypeOK
  <2> QED
    BY <1>a, <1>0, <2>1 DEF WritesAreOwn
<1>10. ~EndRevert
  BY DEF EndRevert
<1> QED
  BY <1>1, <1>2, <1>3, <1>4, <1>5, <1>6, <1>7, <1>8, <1>9, <1>10 DEF Next

------------------------------------------------------------------------------
(* Revert.                                                                    *)

LEMMA RecordsStay ==
    ASSUME UNCHANGED prov, NEW f
    PROVE  UNCHANGED <<RecordsOf(f), First(f), Last(f)>>
<1>1. UNCHANGED RecordsOf(f)
  BY DEF RecordsOf
<1>2. prov'.files = prov.files
  OBVIOUS
<1>3. UNCHANGED First(f)
  BY <1>1, <1>2, Zenon DEF First
<1>4. UNCHANGED Last(f)
  BY <1>1, <1>2, Zenon DEF Last
<1> QED
  BY <1>1, <1>3, <1>4

\* The run and revert's plan: what is planned stays as the check found it, or
\* is noted as edited in the wait.
LEMMA NextPlan ==
    TypeOK /\ TypeOK' /\ PlanHolds /\ [Next]_vars => PlanHolds'
<1> SUFFICES ASSUME TypeOK, TypeOK', PlanHolds, [Next]_vars PROVE PlanHolds'
    OBVIOUS
<1>1. ASSUME revert = "no", revert' = "no", UNCHANGED plan PROVE PlanHolds'
  BY <1>1 DEF PlanHolds
<1>2. ASSUME UNCHANGED <<prov, later, worktree, raced, revert>>, plan' \subseteq plan
      PROVE  PlanHolds'
  BY <1>2, RecordsStay DEF PlanHolds, CanRestore, FromBase, Clean
<1>3. ASSUME InitRun \/ Finalize \/ Tear PROVE PlanHolds'
  BY <1>1, <1>3 DEF InitRun, Finalize, Tear, command
<1>4. ASSUME NEW f \in Files, Before(f) \/ Write(f) \/ After(f) PROVE PlanHolds'
  BY <1>1, <1>4 DEF Before, Write, After, command
<1>5. ASSUME NEW f \in Files, OtherEdit(f) PROVE PlanHolds'
  <2>1. /\ UNCHANGED <<prov, revert, plan>> /\ raced \subseteq raced' /\ later' \subseteq later \cup {f}
        /\ f \in plan => f \in raced'
        /\ \A g \in Files : g # f => worktree'[g] = worktree[g]
    BY <1>5 DEF OtherEdit, record, command, TypeOK
  <2> QED
    BY <2>1, RecordsStay DEF PlanHolds, CanRestore, FromBase, Clean, TypeOK
<1>6. ASSUME NEW f \in Files, CommitFile(f) PROVE PlanHolds'
  BY <1>2, <1>6 DEF CommitFile, record, command, past
<1>7. ASSUME NEW f \in Files, Execute(f) PROVE PlanHolds'
  <2>1. /\ UNCHANGED <<prov, later, raced, revert>> /\ plan' = plan \ {f}
        /\ \A g \in Files : g # f => worktree'[g] = worktree[g]
    BY <1>7 DEF Execute, record, past, TypeOK
  <2> QED
    BY <2>1, RecordsStay DEF PlanHolds, CanRestore, FromBase, Clean, TypeOK
<1>8. CASE Collect
  <2>1. /\ UNCHANGED <<prov, later, worktree, raced>> /\ revert' = "collected" /\ prov \in Provs
        /\ \A f \in plan' : RecordsOf(f) # {} /\ Clean(f) /\ CanRestore(f, First(f))
    BY <1>8 DEF Collect, disk, record, past, TypeOK
  <2> QED
    BY <2>1, RecordsStay DEF PlanHolds, CanRestore, FromBase, Clean
<1>9. CASE EndRevert
  BY <1>9 DEF EndRevert, PlanHolds
<1>10. CASE UNCHANGED vars
  BY <1>2, <1>10 DEF vars, disk, record, command, past
<1> QED
  BY <1>3, <1>4, <1>5, <1>6, <1>7, <1>8, <1>9, <1>10 DEF Next

LEMMA InitIInv == Init => IInv
<1>1. Init => PlanHolds
  BY DEF Init, PlanHolds
<1> QED
  BY <1>1, InitType, InitTells, InitOwn DEF IInv

LEMMA NextIInv == IInv /\ [Next]_vars => IInv'
BY NextType, NextTells, NextOwn, NextPlan DEF IInv

\* The types hold whatever is lost or torn, and a backup that a record names
\* is there in full, until it is overwritten.
THEOREM ProvenanceTypes == Spec => []TypeOK
<1>1. IInv => TypeOK
  BY DEF IInv
<1> QED
  BY InitIInv, NextIInv, <1>1, PTL DEF Spec

\* The steps that plan for a file and that run its command.
LEMMA RevertSteps ==
    ASSUME [Next]_vars, NEW f \in Files
    PROVE  /\ Collecting => Collect
           /\ Executed(f) => Execute(f) \/ Collect
<1>1. \A g \in Files :
         Before(g) \/ Write(g) \/ After(g) \/ OtherEdit(g) \/ CommitFile(g)
           => UNCHANGED <<revert, plan>>
  BY DEF Before, Write, After, OtherEdit, CommitFile, command
<1>2. InitRun \/ Finalize \/ Tear \/ UNCHANGED vars => UNCHANGED <<revert, plan>>
  BY DEF InitRun, Finalize, Tear, command, vars
<1>3. EndRevert => revert' = "done"
  BY DEF EndRevert
<1>4. \A g \in Files : Execute(g) => plan' = plan \ {g} /\ revert = "collected"
  BY DEF Execute
<1>5. Collect => revert = "no" /\ revert' = "collected"
  BY DEF Collect
<1>6. ASSUME Collecting PROVE Collect
  BY <1>1, <1>2, <1>3, <1>4, <1>6 DEF Collecting, Next
<1>7. ASSUME Executed(f), ~Collect PROVE Execute(f)
  BY <1>1, <1>2, <1>3, <1>4, <1>7 DEF Executed, Next
<1> QED
  BY <1>6, <1>7

\* No command of a revert overwrites what somebody else wrote, whatever records
\* were lost, and however the helpers failed, unless the edit fell between a
\* --before and its --after, or between revert's check and the command.
THEOREM OthersSurvive == Spec => ForeignEditsSurvive
<1>1. IInv /\ [Next]_vars =>
        [\A f \in Files :
            Executed(f) /\ worktree'[f] # worktree[f] /\ f \notin raced =>
                f \notin later /\ worktree[f] = lastWrite[f]]_vars
  <2> SUFFICES ASSUME IInv, [Next]_vars,
                      NEW f \in Files, Executed(f), worktree'[f] # worktree[f], f \notin raced
               PROVE  f \notin later /\ worktree[f] = lastWrite[f]
      OBVIOUS
  <2>1. /\ f \in plan /\ revert = "collected" /\ worktree'[f] = Restored(f, First(f))
        /\ prov \in Provs /\ Kept = prov.files
        /\ RecordsOf(f) # {} /\ Clean(f) /\ CanRestore(f, First(f))
    <3>1. Execute(f) \/ Collect
      BY RevertSteps DEF Executed
    <3>2. ~Collect
      BY DEF Collect, disk
    <3>3. f \in plan /\ revert = "collected" /\ worktree'[f] = Restored(f, First(f))
      BY <3>1, <3>2 DEF Execute, IInv, TypeOK
    <3> QED
      BY <3>3, ReadIsWellFormed DEF IInv, PlanHolds, Kept
  <2>2. PICK i \in KeptOf(f) : First(f) = Kept[i]
    BY <2>1, FirstAndLast DEF IInv
  <2>3. PICK l \in KeptOf(f) : Last(f) = Kept[l]
    BY <2>1, FirstAndLast DEF IInv
  <2>4. worktree[f] # None
    <3>1. ~First(f).existed_before => worktree'[f] = None
      BY <2>1 DEF Restored
    <3>2. CASE First(f).existed_before
      BY <2>1, <2>2, <3>2 DEF IInv, WritesAreOwn, KeptOf, Live
    <3>3. CASE ~First(f).existed_before
      BY <3>1, <3>3
    <3> QED
      BY <3>2, <3>3
  <2>5. Last(f).sha_after \in RunWrites \cup {None}
    BY <2>1, <2>3 DEF IInv, WritesAreOwn, KeptOf
  <2> QED
    BY <2>1, <2>4, <2>5 DEF Clean, IInv, WritesAreOwn, Live
<1> QED
  BY InitIInv, NextIInv, <1>1, PTL DEF Spec, ForeignEditsSurvive

\* A well recorded file that nobody disturbed is planned for, and put back to
\* what the run found, over any number of writes, commits, repeated inits,
\* failed helpers and backups that helpers overwrote and left half written.
THEOREM UndisturbedIsRestored == Spec => RevertRestores
<1>1. IInv /\ [Next]_vars =>
        [\A f \in Files :
           /\ Collecting /\ Undisturbed(f) /\ WellRecorded(f) => f \in plan'
           /\ Executed(f) /\ Undisturbed(f) /\ WellRecorded(f) =>
                worktree'[f] = original[f].content]_vars
  <2> SUFFICES ASSUME IInv, [Next]_vars, NEW f \in Files, Undisturbed(f), WellRecorded(f),
                      Collecting \/ Executed(f)
               PROVE  /\ Collecting => f \in plan'
                      /\ Executed(f) => worktree'[f] = original[f].content
      OBVIOUS
  <2> DEFINE r == First(f)
  <2> DEFINE c == original[f].content
  <2>1. prov \in Provs /\ Kept = prov.files /\ RecordsOf(f) # {}
    <3>1. Collect \/ Execute(f)
      BY RevertSteps
    <3>2. prov \in Provs
      BY <3>1 DEF Collect, Execute, IInv, TypeOK, PlanHolds
    <3> QED
      BY <3>2, ReadIsWellFormed DEF IInv, Kept, Undisturbed
  <2>2. Tells(r, c)
    <3>1. PICK i \in KeptOf(f) : FirstOf(f, i) /\ Tells(Kept[i], c)
      BY DEF IInv, FirstsTell, Undisturbed
    <3>2. PICK j \in KeptOf(f) : FirstOf(f, j) /\ r = Kept[j]
      BY <2>1, FirstAndLast DEF IInv
    <3>3. i = j
      <4>1. i \in Nat /\ j \in Nat
        BY <2>1 DEF KeptOf, Provs
      <4> QED
        BY <3>1, <3>2, <4>1 DEF FirstOf
    <3> QED
      BY <3>1, <3>2, <3>3
  <2>3. r \in Records
    BY <2>1, FirstAndLast, ReadIsWellFormed DEF IInv, KeptOf
  <2> HIDE DEF r, c
  <2>4. \/ ~r.existed_before
        \/ /\ r.tracked_in_git /\ r.backup_path = None
           /\ r.sha_before = prov.base[f] /\ prov.base[f] # None
        \/ ~r.tracked_in_git /\ r.backup_path \notin overwritten \cup {None}
    BY DEF WellRecorded, r
  <2>5. CanRestore(f, r) /\ Restored(f, r) = c
    <3>1. CASE ~r.existed_before
      BY <2>2, <3>1 DEF Tells, CanRestore, Restored
    <3>2. CASE /\ r.existed_before /\ r.tracked_in_git
               /\ r.sha_before = prov.base[f] /\ prov.base[f] # None
      BY <2>2, <3>2 DEF Tells, CanRestore, Restored, FromBase
    <3>3. CASE /\ r.existed_before /\ ~r.tracked_in_git
               /\ r.backup_path \notin overwritten \cup {None}
      BY <2>2, <3>3 DEF Tells, CanRestore, Restored, FromBase
    <3> QED
      BY <2>3, <2>4, <3>1, <3>2, <3>3 DEF Records
  <2>6. ASSUME Collecting PROVE f \in plan'
    <3>1. Collect
      BY <2>6, RevertSteps
    <3>2. Clean(f) /\ RecordsOf(f) # {} /\ CanRestore(f, First(f))
      BY <2>5 DEF Undisturbed, Clean, r
    <3> QED
      BY <3>1, <3>2 DEF Collect
  <2>7. ASSUME Executed(f) PROVE worktree'[f] = c
    <3>1. Execute(f)
      <4>1. ~Collect
        BY <2>7 DEF Collect, Executed, IInv, PlanHolds
      <4> QED
        BY <2>7, <4>1, RevertSteps
    <3>2. worktree'[f] = Restored(f, First(f))
      BY <3>1 DEF Execute, IInv, TypeOK
    <3> QED
      BY <2>5, <3>2 DEF r
  <2> QED
    BY <2>6, <2>7 DEF c
<1> QED
  BY InitIInv, NextIInv, <1>1, PTL DEF Spec, RevertRestores
==============================================================================
