------------------------- MODULE LogRotation_proofs -------------------------
(* Proofs about LogRotation, for any number of writers, sizes and lines.    *)
EXTENDS LogRotation, TLAPS

LEMMA InitType == Init => TypeOK
<1> SUFFICES ASSUME Init PROVE TypeOK
    OBVIOUS
<1>1. pc \in [Writers -> PCs]
  BY DEF Init, PCs
<1>2. lines \in Nat /\ crashes \in Nat /\ log \subseteq 1..lines /\ old \subseteq 1..lines
  BY DEF Init
<1>3. hasLog \in BOOLEAN /\ aged \in BOOLEAN /\ crossed \in BOOLEAN
  BY DEF Init
<1> QED
  BY <1>1, <1>2, <1>3 DEF Init, TypeOK

\* Every step keeps the types; the lines of a file are among those written.
LEMMA NextType == TypeOK /\ [Next]_vars => TypeOK'
<1> SUFFICES ASSUME TypeOK, [Next]_vars
             PROVE  TypeOK'
    OBVIOUS
<1> USE DEF TypeOK, PCs, files, history, Goto
<1>1. ASSUME NEW w \in Writers, Emit(w) \/ Stat(w) \/ LockExists(w) \/ LockAge(w)
      PROVE  TypeOK'
  BY <1>1 DEF Emit, Stat, LockExists, LockAge
<1>2. ASSUME NEW w \in Writers, Discard(w) \/ Create(w) \/ Unlock(w)
      PROVE  TypeOK'
  BY <1>2 DEF Discard, Create, Unlock
<1>3. ASSUME NEW w \in Writers, Rename(w)
      PROVE  TypeOK'
  BY <1>3 DEF Rename, Renamed, Carried
<1>4. ASSUME NEW w \in Writers, OpenLog(w)
      PROVE  TypeOK'
  BY <1>4 DEF OpenLog
<1>5. ASSUME NEW w \in Writers, WriteLine(w)
      PROVE  TypeOK'
  <2>1. pc' \in [Writers -> PCs] /\ hasLog' \in BOOLEAN /\ aged' \in BOOLEAN /\ crossed' \in BOOLEAN
    BY <1>5 DEF WriteLine
  <2>2. /\ lines \in Nat /\ log \subseteq 1..lines /\ old \subseteq 1..lines
    OBVIOUS
  <2>3. CASE UNCHANGED <<lines, log, old>>
    BY <1>5, <2>1, <2>2, <2>3 DEF WriteLine
  <2>4. CASE /\ lines' = lines + 1
             /\ log' \subseteq log \cup {lines + 1} /\ old' \subseteq old \cup {lines + 1}
    <3>1. lines' \in Nat /\ log' \subseteq 1..lines' /\ old' \subseteq 1..lines'
      BY <2>2, <2>4
    <3> QED
      BY <1>5, <2>1, <3>1 DEF WriteLine
  <2> QED
    BY <1>5, <2>3, <2>4 DEF WriteLine
<1>6. ASSUME NEW w \in Writers, Crash(w)
      PROVE  TypeOK'
  BY <1>6 DEF Crash
<1>7. CASE GrowStale
  BY <1>7 DEF GrowStale
<1>8. CASE UNCHANGED vars
  BY <1>8 DEF vars
<1> QED
  BY <1>1, <1>2, <1>3, <1>4, <1>5, <1>6, <1>7, <1>8 DEF Next

\* The types of LogRotation's state hold in every state: what is in a file was
\* written before, however the writers interleave.
THEOREM TypeCorrect == Spec => []TypeOK
BY InitType, NextType, PTL DEF Spec

------------------------------------------------------------------------------
(* The readable lines are the end of the log                                 *)

\* As long as no log was renamed under a writer: a writer that has a file open
\* has the log open, and there is no log without its name.
HandlesInv ==
    ~crossed =>
        /\ ~hasLog => log = {}
        /\ \A w \in Writers : pc[w] \notin {"late", "lost"} /\ (pc[w] = "write" => hasLog)

TailInv == TypeOK /\ HandlesInv /\ LogIsATail

LEMMA InitTail == Init => TailInv
<1> SUFFICES ASSUME Init PROVE TailInv
    OBVIOUS
<1>1. TypeOK
  BY InitType
<1>2. HandlesInv /\ LogIsATail
  BY DEF Init, HandlesInv, LogIsATail
<1> QED
  BY <1>1, <1>2 DEF TailInv

\* When a log with lines in it takes the place of the rotated file, the end of
\* the log loses only its oldest part.
LEMMA RenameKeepsTail ==
    ASSUME TypeOK, LogIsATail, ~crossed, log # {}, old' = log, log' = {}, lines' = lines
    PROVE  LogIsATail'
<1>1. lines \in Nat /\ log \subseteq 1..lines /\ old \subseteq 1..lines
  BY DEF TypeOK
<1>2. \A i \in log : \A j \in i .. lines : j \in log
  <2> SUFFICES ASSUME NEW i \in log, NEW j \in i .. lines
               PROVE  j \in log
      OBVIOUS
  <2>1. j \in old \/ j \in log
    BY DEF LogIsATail
  <2>2. j \in old => j < i
    BY DEF LogIsATail
  <2>3. ~(j < i)
    BY <1>1
  <2> QED
    BY <2>1, <2>2, <2>3
<1>3. lines \in log
  <2>1. PICK i \in log : TRUE
    OBVIOUS
  <2>2. lines \in i .. lines
    BY <1>1, <2>1
  <2> QED
    BY <1>2, <2>1, <2>2
<1> QED
  BY <1>2, <1>3 DEF LogIsATail

\* A line at the end of the log extends the readable end.
LEMMA WriteKeepsTail ==
    ASSUME TypeOK, LogIsATail, ~crossed,
           old' = old, log' = log \cup {lines + 1}, lines' = lines + 1
    PROVE  LogIsATail'
<1>1. lines \in Nat /\ log \subseteq 1..lines /\ old \subseteq 1..lines
  BY DEF TypeOK
<1>2. \A i \in old, j \in log : i < j
  BY DEF LogIsATail
<1>3. \A i \in old, j \in log' : i < j
  BY <1>1, <1>2
<1>4. ASSUME NEW i \in old \cup log', NEW j \in i .. lines'
      PROVE  j \in old \cup log'
  <2>1. CASE j = lines + 1
    BY <2>1
  <2>2. CASE j # lines + 1
    <3>1. i \in old \cup log /\ j \in i .. lines
      BY <1>1, <2>2, <1>4
    <3> QED
      BY <3>1 DEF LogIsATail
  <2> QED
    BY <2>1, <2>2
<1> QED
  BY <1>3, <1>4 DEF LogIsATail

LEMMA NextTail == TailInv /\ [Next]_vars => TailInv'
<1> SUFFICES ASSUME TailInv, [Next]_vars
             PROVE  HandlesInv' /\ LogIsATail'
  BY NextType DEF TailInv
<1>a. TypeOK /\ HandlesInv /\ LogIsATail
  BY DEF TailInv
<1>0. ASSUME UNCHANGED <<log, old, lines, crossed>>
      PROVE  LogIsATail'
  BY <1>0, <1>a DEF LogIsATail
<1>1. ASSUME NEW w \in Writers,
             \/ Emit(w) \/ Stat(w) \/ LockExists(w) \/ LockAge(w)
             \/ Discard(w) \/ Create(w) \/ Unlock(w) \/ Crash(w)
      PROVE  HandlesInv' /\ LogIsATail'
  <2>1. UNCHANGED <<hasLog, log, old, lines, crossed>>
    BY <1>1 DEF Emit, Stat, LockExists, LockAge, Discard, Create, Unlock, Crash, files, history
  <2>2. \E to \in PCs \ {"write", "late", "lost"} : pc' = [pc EXCEPT ![w] = to]
    BY <1>1 DEF Emit, Stat, LockExists, LockAge, Discard, Create, Unlock, Crash, Goto, PCs
  <2>3. HandlesInv'
    BY <1>a, <2>1, <2>2 DEF HandlesInv, TypeOK
  <2> QED
    BY <2>1, <2>3, <1>0
<1>2. ASSUME NEW w \in Writers, Rename(w)
      PROVE  HandlesInv' /\ LogIsATail'
  <2>1. CASE hasLog /\ old' = log /\ log' = {} /\ hasLog' = FALSE /\ Renamed(w)
    <3>1. CASE crossed'
      BY <3>1 DEF HandlesInv, LogIsATail
    <3>2. CASE ~crossed'
      <4>1. ~crossed /\ log # {} /\ \A v \in Writers : pc[v] # "write"
        BY <2>1, <3>2 DEF Renamed
      <4>2. lines' = lines
        BY <1>2 DEF Rename
      <4>3. LogIsATail'
        BY <1>a, <2>1, <4>1, <4>2, RenameKeepsTail
      <4>4. \A v \in Writers : pc'[v] \notin {"write", "late", "lost"}
        BY <1>a, <2>1, <4>1 DEF Renamed, Carried, HandlesInv
      <4> QED
        BY <2>1, <4>3, <4>4 DEF HandlesInv
    <3> QED
      BY <3>1, <3>2
  <2>2. CASE pc' = [pc EXCEPT ![w] = "unlock"] /\ UNCHANGED <<files, crossed>>
    <3>1. UNCHANGED <<hasLog, log, old, lines, crossed>>
      BY <1>2, <2>2 DEF Rename, files
    <3>2. HandlesInv'
      BY <1>a, <2>2, <3>1 DEF HandlesInv, TypeOK
    <3> QED
      BY <3>1, <3>2, <1>0
  <2> QED
    BY <1>2, <2>1, <2>2 DEF Rename
<1>3. ASSUME NEW w \in Writers, OpenLog(w)
      PROVE  HandlesInv' /\ LogIsATail'
  <2>1. UNCHANGED <<log, old, lines, crossed>>
    BY <1>3 DEF OpenLog, history
  <2>2. HandlesInv'
    BY <1>a, <1>3, <2>1 DEF OpenLog, Goto, HandlesInv, TypeOK
  <2> QED
    BY <2>1, <2>2, <1>0
<1>4. ASSUME NEW w \in Writers, WriteLine(w)
      PROVE  HandlesInv' /\ LogIsATail'
  <2>1. pc' = [pc EXCEPT ![w] = "idle"] /\ UNCHANGED <<hasLog, crossed>>
    BY <1>4 DEF WriteLine
  <2>2. CASE crossed
    BY <2>1, <2>2 DEF HandlesInv, LogIsATail
  <2>3. CASE ~crossed
    <3>1. pc[w] = "write"
      BY <1>a, <1>4, <2>3 DEF HandlesInv, WriteLine
    <3>2. \A v \in Writers : pc'[v] \notin {"late", "lost"} /\ (pc'[v] = "write" => hasLog)
      BY <1>a, <2>1, <2>3 DEF HandlesInv, TypeOK
    <3>5. hasLog
      BY <1>a, <2>3, <3>1 DEF HandlesInv
    <3>3. CASE UNCHANGED <<lines, log, old>>
      <4>1. HandlesInv'
        BY <1>a, <2>1, <2>3, <3>2, <3>3 DEF HandlesInv
      <4> QED
        BY <4>1, <2>1, <3>3, <1>0
    <3>4. CASE lines' = lines + 1 /\ log' = log \cup {lines + 1} /\ old' = old
      <4>1. LogIsATail'
        BY <1>a, <2>3, <3>4, WriteKeepsTail
      <4> QED
        BY <2>1, <2>3, <3>2, <3>5, <4>1 DEF HandlesInv
    <3> QED
      BY <1>4, <3>1, <3>3, <3>4 DEF WriteLine
  <2> QED
    BY <2>2, <2>3
<1>5. CASE GrowStale
  <2>1. UNCHANGED <<hasLog, log, old, lines, crossed, pc>>
    BY <1>5 DEF GrowStale, files
  <2>2. HandlesInv'
    BY <1>a, <2>1 DEF HandlesInv
  <2> QED
    BY <2>1, <2>2, <1>0
<1>6. CASE UNCHANGED vars
  BY <1>6, <1>a DEF vars, HandlesInv, LogIsATail
<1> QED
  BY <1>1, <1>2, <1>3, <1>4, <1>5, <1>6 DEF Next

\* However many writers race in whichever way, what can be read is the end of
\* the log without a gap, as long as no log is renamed under a writer.
THEOREM ReadableTail == Spec => []LogIsATail
<1>1. TailInv => LogIsATail
  BY DEF TailInv
<1> QED
  BY InitTail, NextTail, <1>1, PTL DEF Spec

------------------------------------------------------------------------------
(* One writer at a time                                                      *)

\* Until a lock is taken for abandoned: whoever rotates has made the lock that
\* is there, and nobody removes another's.
LockInv ==
    ~aged =>
        /\ lock # "stale"
        /\ \A w \in Writers : pc[w] # "discard"
        /\ \A w \in Writers : Rotating(w) => lock = "fresh"
        /\ \A v, w \in Writers : Rotating(v) /\ Rotating(w) => v = w

LEMMA InitLock == Init => LockInv
BY DEF Init, LockInv, Rotating

LEMMA NextLock == TypeOK /\ LockInv /\ [Next]_vars => LockInv'
<1> SUFFICES ASSUME TypeOK, LockInv, [Next]_vars, ~aged'
             PROVE  LockInv'
    BY DEF LockInv
<1> USE DEF LockInv, Rotating, TypeOK
<1>1. ASSUME NEW w \in Writers, Emit(w) \/ Stat(w) \/ LockExists(w) \/ LockAge(w)
      PROVE  LockInv'
  BY <1>1 DEF Emit, Stat, LockExists, LockAge, Goto, history
<1>2. ASSUME NEW w \in Writers, Discard(w)
      PROVE  LockInv'
  BY <1>2 DEF Discard, Goto, history
<1>3. ASSUME NEW w \in Writers, Create(w)
      PROVE  LockInv'
  BY <1>3 DEF Create, Goto, history
<1>4. ASSUME NEW w \in Writers, Unlock(w)
      PROVE  LockInv'
  BY <1>4 DEF Unlock, Goto, history
<1>5. ASSUME NEW w \in Writers, Rename(w)
      PROVE  LockInv'
  <2>1. UNCHANGED <<lock, aged>> /\ pc[w] = "rename"
    BY <1>5 DEF Rename
  <2>2. pc' = Carried(w) \/ pc' = [pc EXCEPT ![w] = "unlock"]
    BY <1>5 DEF Rename, Renamed
  <2>3. \A v \in Writers : (Rotating(v)' => Rotating(v)) /\ (pc'[v] = "discard" => pc[v] = "discard")
    BY <2>1, <2>2 DEF Carried
  <2> QED
    BY <2>1, <2>3
<1>6. ASSUME NEW w \in Writers, OpenLog(w) \/ WriteLine(w) \/ Crash(w)
      PROVE  LockInv'
  BY <1>6 DEF OpenLog, WriteLine, Crash, Goto, history
<1>7. CASE GrowStale
  BY <1>7 DEF GrowStale
<1>8. CASE UNCHANGED vars
  BY <1>8 DEF vars
<1> QED
  BY <1>1, <1>2, <1>3, <1>4, <1>5, <1>6, <1>7, <1>8 DEF Next

\* No two writers rotate one log at the same time, unless a lock was taken for
\* abandoned: the exclusive creation is enough, whatever was checked before it.
THEOREM OneRotates == Spec => []RotationExclusive
<1>1. LockInv => RotationExclusive
  BY DEF LockInv, RotationExclusive
<1> QED
  BY InitType, NextType, InitLock, NextLock, <1>1, PTL DEF Spec
=============================================================================
