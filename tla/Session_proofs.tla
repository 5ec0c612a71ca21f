---------------------------- MODULE Session_proofs ----------------------------
(* Proofs about Session and the files it works on: any number of sessions,   *)
(* hooks, repositories, sections and languages, and no bound on a scene.     *)
EXTENDS Session, FiniteSetTheorems, WellFoundedInduction, TLAPS

------------------------------------------------------------------------------
(* Discovery                                                                 *)

Found == scanned \cup early

\* What the recorded baseline names was scanned, or met early; so was every
\* language of HEAD that has not come since the baseline.
BaselineOK ==
    /\ committed \subseteq tree
    /\ baseline # NoBaseline =>
         /\ baseline \subseteq Found
         /\ (committed \cap Languages) \ delta \subseteq Found
         /\ head = "same" => delta = {}

\* All that a step of a session can do to the baseline and to the tree.
LEMMA DiscoverySteps ==
    ASSUME [Next]_vars
    PROVE  \/ UNCHANGED discoveryVars
           \/ Discover
           \/ \E f \in Paths, late \in BOOLEAN : WriteFile(f, late)
           \/ \E new \in SUBSET Paths : Commit(new \cup (tree \ committed))
           \/ Rebase
           \/ EditPolicy
           \/ LoseBaseline
           \/ baseline' = NoBaseline /\ UNCHANGED <<tree, committed>>
<1>1. ASSUME NEW s \in Sessions, Cut(s) \/ Write(s) PROVE UNCHANGED discoveryVars
  BY <1>1 DEF Cut, Write
<1>2. ASSUME NEW s \in Sessions,
             StartSetup(s) \/ WorkOnSection(s) \/ FinishSection(s) \/ FinishSetup(s)
      PROVE  UNCHANGED discoveryVars
  BY <1>2 DEF StartSetup, WorkOnSection, FinishSection, FinishSetup
<1>3. ASSUME NEW s \in Sessions,
             Open(s) \/ AnswerOffer(s) \/ Check(s) \/ ReachGate(s) \/ Approve(s)
      PROVE  UNCHANGED discoveryVars
  BY <1>3 DEF Open, AnswerOffer, Check, ReachGate, Approve
<1>4. ASSUME NEW s \in Sessions, SaveRun(s) \/ CloseContract(s) \/ Die(s)
      PROVE  UNCHANGED discoveryVars
  BY <1>4 DEF SaveRun, CloseContract, Die
<1>5. ASSUME NEW s \in Sessions, DiscoverAs(s) PROVE Discover
  BY <1>5 DEF DiscoverAs
<1>6. CASE Cleanup
  BY <1>6 DEF Cleanup
<1>7. CASE OtherContract \/ Call \/ Hook
  BY <1>7 DEF OtherContract, Call, Hook
<1>8. CASE Edit
  BY <1>8 DEF Edit
<1>9. CASE UNCHANGED vars
  BY <1>9 DEF vars
<1> QED
  BY <1>1, <1>2, <1>3, <1>4, <1>5, <1>6, <1>7, <1>8, <1>9 DEF Next

\* A partial scan takes a language for known only if the baseline names it; a
\* full one sees the whole tree.
LEMMA DiscoverBaseline == ASSUME BaselineOK, Discover PROVE BaselineOK'
<1> DEFINE languages == tree \cap Languages
           stacks == IF Refresh = "full" \/ (ManifestsChanged \cup delta) \cap Languages # {}
                     THEN languages ELSE baseline
<1> USE DEF BaselineOK, Found
<1>1. UNCHANGED <<tree, committed>>
  BY DEF Discover
<1>2. CASE Refresh = "cached"
  BY <1>1, <1>2 DEF Discover
<1>3. CASE Refresh = "full"
  <2>1. baseline' = languages /\ scanned' = scanned \cup languages /\ delta' = {}
    BY <1>3 DEF Discover
  <2> QED
    BY <1>1, <2>1
<1>4. CASE Refresh \notin {"cached", "full"}
  <2>1. baseline # NoBaseline /\ ~NewLanguage
    BY <1>4 DEF Refresh
  <2>2. /\ baseline' = stacks /\ delta' = {}
        /\ early' = early \cup (stacks \ committed) /\ UNCHANGED scanned
    BY <1>4 DEF Discover
  <2>3. committed \cap Languages \subseteq Found
    BY <2>1 DEF NewLanguage
  <2>4. stacks = languages \/ stacks = baseline
    OBVIOUS
  <2> HIDE DEF stacks
  <2>5. stacks \subseteq Found'
    BY <2>1, <2>2, <2>3, <2>4
  <2> QED
    BY <1>1, <2>2, <2>3, <2>5
<1> QED
  BY <1>2, <1>3, <1>4

LEMMA NextBaseline == BaselineOK /\ [Next]_vars => BaselineOK'
<1> SUFFICES ASSUME BaselineOK, [Next]_vars PROVE BaselineOK'
    OBVIOUS
<1> USE DEF BaselineOK, Found
<1>1. CASE UNCHANGED discoveryVars
  BY <1>1 DEF discoveryVars
<1>2. CASE Discover
  BY <1>2, DiscoverBaseline
<1>3. CASE \E f \in Paths, late \in BOOLEAN : WriteFile(f, late)
  BY <1>3 DEF WriteFile
<1>4. CASE \E new \in SUBSET Paths : Commit(new \cup (tree \ committed))
  BY <1>4 DEF Commit
<1>5. CASE Rebase \/ EditPolicy
  BY <1>5 DEF Rebase, EditPolicy
<1>6. CASE LoseBaseline \/ (baseline' = NoBaseline /\ UNCHANGED <<tree, committed>>)
  BY <1>6 DEF LoseBaseline
<1> QED
  BY <1>1, <1>2, <1>3, <1>4, <1>5, <1>6, DiscoverySteps

\* Once the recorded baseline stands for HEAD, every language whose manifest is
\* in HEAD has had a full scan, or was met by a partial scan before it was
\* committed, whatever commits, checkouts, rebases, edits and losses of the
\* baseline came before.
THEOREM LanguagesScanned == Spec => []CommittedLanguagesScanned
<1>1. Init => BaselineOK
  BY DEF Init, DiscoveryInit, BaselineOK
<1>2. BaselineOK => CommittedLanguagesScanned
  BY DEF BaselineOK, Found, CommittedLanguagesScanned, Moved
<1> QED
  BY <1>1, <1>2, NextBaseline, PTL DEF Spec

------------------------------------------------------------------------------
(* Commands and sessions                                                     *)

\* A command is idle or has a text for a file; a session has a place and a
\* section.
Shape ==
    /\ DOMAIN file = {"setup", "check", "run"}
    /\ DOMAIN command = Sessions /\ DOMAIN session = Sessions
    /\ \A s \in Sessions :
         /\ DOMAIN session[s] = {"pc", "section"}
         /\ command[s] # Idle => DOMAIN command[s] = {"file", "text", "cut"}

LEMMA PrepareEffect ==
    ASSUME Shape, NEW s \in Sessions, NEW name, NEW text, Prepare(s, name, text)
    PROVE  /\ command[s] = Idle
           /\ DOMAIN command' = Sessions
           /\ DOMAIN command'[s] = {"file", "text", "cut"}
           /\ command'[s].file = name /\ command'[s].text = text
           /\ \A k \in Sessions \ {s} : command'[k] = command[k]
  BY DEF Shape, Prepare

LEMMA TruncateEffect ==
    ASSUME Shape, NEW s \in Sessions, Truncate(s)
    PROVE  /\ command[s] # Idle
           /\ DOMAIN command' = Sessions
           /\ DOMAIN command'[s] = {"file", "text", "cut"}
           /\ command'[s].file = command[s].file /\ command'[s].text = command[s].text
           /\ \A k \in Sessions \ {s} : command'[k] = command[k]
  BY DEF Shape, Truncate

LEMMA WriteOutEffect ==
    ASSUME Shape, NEW s \in Sessions, WriteOut(s)
    PROVE  /\ command[s] # Idle /\ command'[s] = Idle
           /\ DOMAIN command' = Sessions
           /\ \A k \in Sessions \ {s} : command'[k] = command[k]
  BY DEF Shape, WriteOut

LEMMA StepEffect ==
    ASSUME Shape, NEW s \in Sessions, NEW from, NEW to, Step(s, from, to)
    PROVE  /\ session[s].pc = from
           /\ DOMAIN session' = Sessions /\ DOMAIN session'[s] = {"pc", "section"}
           /\ session'[s].pc = to /\ session'[s].section = session[s].section
           /\ \A k \in Sessions \ {s} : session'[k] = session[k]
  BY DEF Shape, Step

LEMMA NextShape == Shape /\ [Next]_vars => Shape'
<1> SUFFICES ASSUME Shape, [Next]_vars PROVE Shape'
    OBVIOUS
<1>1. ASSUME NEW s \in Sessions, Cut(s) PROVE Shape'
  BY <1>1, TruncateEffect DEF Cut, Shape, sessionVars
<1>2. ASSUME NEW s \in Sessions, Write(s) PROVE Shape'
  <2>1. /\ command'[s] = Idle /\ DOMAIN command' = Sessions
        /\ \A k \in Sessions \ {s} : command'[k] = command[k]
    BY <1>2, WriteOutEffect DEF Write
  <2>2. DOMAIN file' = DOMAIN file /\ UNCHANGED session
    BY <1>2 DEF Write, sessionVars
  <2> QED
    BY <2>1, <2>2 DEF Shape
<1>3. ASSUME NEW s \in Sessions, StartSetup(s) PROVE Shape'
  BY <1>3, PrepareEffect DEF StartSetup, ResetSetup, Shape
<1>4. ASSUME NEW s \in Sessions, WorkOnSection(s) PROVE Shape'
  BY <1>4, StepEffect DEF WorkOnSection, Shape
<1>5. ASSUME NEW s \in Sessions, FinishSection(s) PROVE Shape'
  BY <1>5, PrepareEffect DEF FinishSection, MarkSection, Shape
<1>6. ASSUME NEW s \in Sessions, FinishSetup(s) PROVE Shape'
  BY <1>6, PrepareEffect DEF FinishSetup, AllDone, Shape, Closed
<1>7. ASSUME NEW s \in Sessions, Open(s) PROVE Shape'
  BY <1>7 DEF Open, Shape, statusVars
<1>8. ASSUME NEW s \in Sessions, AnswerOffer(s) PROVE Shape'
  BY <1>8, StepEffect DEF AnswerOffer, Shape
<1>9. ASSUME NEW s \in Sessions, Check(s) PROVE Shape'
  <2>1. CASE RunChecks(s) /\ UNCHANGED <<file, session>>
    BY <2>1, PrepareEffect DEF RunChecks, PostSteps, Shape
  <2>2. CASE RecordCheck(s) /\ UNCHANGED <<file, session>>
    BY <2>2, PrepareEffect DEF RecordCheck, PostSteps, Shape
  <2>3. CASE ClearChecks(s) /\ UNCHANGED session
    BY <2>3 DEF ClearChecks, Shape
  <2> QED
    BY <1>9, <2>1, <2>2, <2>3 DEF Check
<1>10. ASSUME NEW s \in Sessions, ReachGate(s) PROVE Shape'
  BY <1>10, StepEffect DEF ReachGate, Shape, statusVars
<1>11. ASSUME NEW s \in Sessions, Approve(s) PROVE Shape'
  BY <1>11, PrepareEffect DEF Approve, Shape
<1>12. ASSUME NEW s \in Sessions, SaveRun(s) PROVE Shape'
  BY <1>12, PrepareEffect DEF SaveRun, Shape
<1>13. ASSUME NEW s \in Sessions, CloseContract(s) PROVE Shape'
  BY <1>13, PrepareEffect DEF CloseContract, Shape, Closed
<1>14. ASSUME NEW s \in Sessions, Die(s) PROVE Shape'
  BY <1>14 DEF Die, Shape, Closed
<1>15. CASE Cleanup
  BY <1>15 DEF Cleanup, Shape
<1>16. CASE UNCHANGED <<file, command, session>>
  BY <1>16 DEF Shape
<1>17. ASSUME \/ \E s \in Sessions : DiscoverAs(s)
              \/ OtherContract \/ Call \/ Hook \/ Edit \/ UNCHANGED vars
       PROVE  UNCHANGED <<file, command, session>>
  BY <1>17 DEF DiscoverAs, OtherContract, Call, Hook, Edit, vars, statusVars, sessionVars
<1> QED
  BY <1>1, <1>2, <1>3, <1>4, <1>5, <1>6, <1>7, <1>8, <1>9, <1>10, <1>11, <1>12, <1>13,
     <1>14, <1>15, <1>16, <1>17 DEF Next

------------------------------------------------------------------------------
(* The sections of the setup                                                 *)

\* A set of naturals has a least element.
LEMMA MinOfNaturals ==
    ASSUME NEW S, S \subseteq Nat, S # {}
    PROVE  Min(S) \in S /\ \A n \in S : Min(S) <= n
<1> DEFINE R == {ss \in Nat \X Nat : ss[1] < ss[2]}
<1>1. IsWellFoundedOn(R, Nat)
  BY NatLessThanWellFounded, Zenon DEF OpToRel
<1> HIDE DEF R
<1>2. PICK x \in S : \A n \in S : ~(<<n, x>> \in R)
  BY <1>1, WFMin, Zenon
<1>3. ASSUME NEW n \in S PROVE x <= n
  <2>1. <<n, x>> \in Nat \X Nat => (n < x => <<n, x>> \in R)
    BY DEF R
  <2> QED
    BY <1>2, <2>1
<1> QED
  BY <1>2, <1>3 DEF Min

\* A record of progress claims only what was worked on, and misses nothing else.
Honest(progress, done) ==
    /\ progress.done \subseteq done
    /\ progress.pending = SECTIONS \ progress.done

\* A session that works on a section has the earlier ones behind it.
OnItsWay(place, done) ==
    /\ place.pc \in {"section", "mark"} => place.section \in SECTIONS
    /\ place.pc = "section" => \A n \in SECTIONS : n < place.section => n \in done
    /\ place.pc = "mark" => \A n \in SECTIONS : n <= place.section => n \in done
    /\ place.pc = "summary" => SECTIONS \subseteq done

SetupOK ==
    /\ Parsed(file["setup"]) => Honest(file["setup"], worked)
    /\ \A s \in Sessions : command[s].file = "setup" => Honest(command[s].text, worked)
    /\ \A s \in Sessions : OnItsWay(session[s], worked)

LEMMA ProgressHonest ==
    ASSUME NEW done, NEW d, d \subseteq done
    PROVE  Honest(Progress(d), done)
  BY DEF Honest, Progress

\* What the setup file says was worked on; where it says that something is
\* pending, the first such section has the others before it done.
LEMMA ResumeOnItsWay ==
    ASSUME SetupOK
    PROVE  /\ SectionsDone \subseteq worked
           /\ PendingSections # {} =>
                OnItsWay([pc |-> "section", section |-> FirstPending], worked)
<1>1. SectionsDone \subseteq worked
  BY DEF SetupOK, SectionsDone, Honest
<1>2. ASSUME PendingSections # {}
      PROVE  OnItsWay([pc |-> "section", section |-> FirstPending], worked)
  <2>1. /\ PendingSections = SECTIONS \ file["setup"].done
        /\ file["setup"].done \subseteq worked
    BY <1>2 DEF PendingSections, SetupOK, Honest
  <2>2. PendingSections \subseteq Nat
    BY <2>1 DEF SECTIONS
  <2>3. FirstPending \in PendingSections /\ \A n \in PendingSections : FirstPending <= n
    BY <1>2, <2>2, MinOfNaturals DEF FirstPending
  <2>4. \A n \in SECTIONS : n < FirstPending => n \in worked
    BY <2>1, <2>2, <2>3, StatusAssumption DEF SECTIONS
  <2>5. FirstPending \in SECTIONS
    BY <2>1, <2>3
  <2> QED
    BY <2>4, <2>5 DEF OnItsWay
<1> QED
  BY <1>1, <1>2

LEMMA NextSetup == Shape /\ SetupOK /\ [Next]_vars => SetupOK'
<1> SUFFICES ASSUME Shape, SetupOK, [Next]_vars PROVE SetupOK'
    OBVIOUS
<1>0. Idle.file = "none"
  BY DEF Idle
<1>1. ASSUME NEW s \in Sessions, Cut(s) PROVE SetupOK'
  <2>1. /\ \A k \in Sessions : /\ command'[k].file = command[k].file
                               /\ command'[k].text = command[k].text
        /\ UNCHANGED <<worked, session>>
    BY <1>1, TruncateEffect DEF Cut, sessionVars
  <2>2. file'["setup"] = file["setup"] \/ ~Parsed(file'["setup"])
    BY <1>1 DEF Cut, Shape, Parsed
  <2> QED
    BY <2>1, <2>2 DEF SetupOK
<1>2. ASSUME NEW s \in Sessions, Write(s) PROVE SetupOK'
  <2>1. /\ \A k \in Sessions : command'[k] = Idle \/ command'[k] = command[k]
        /\ UNCHANGED <<worked, session>>
    BY <1>2, WriteOutEffect DEF Write, sessionVars
  <2>2. \/ file'["setup"] = file["setup"]
        \/ ~Parsed(file'["setup"])
        \/ command[s].file = "setup" /\ file'["setup"] = command[s].text
    <3>1. CASE command[s].file \in {"contract", "check"}
      BY <1>2, <3>1 DEF Write, Shape
    <3>2. CASE command[s].file \notin {"contract", "check"}
      <4>1. PICK c \in Written(file[command[s].file], command[s].text) :
              file' = [file EXCEPT ![command[s].file] = c]
        BY <1>2, <3>2 DEF Write
      <4>2. c = command[s].text \/ c = Torn
        BY DEF Written
      <4> QED
        BY <4>1, <4>2 DEF Shape, Parsed
    <3> QED
      BY <3>1, <3>2
  <2> QED
    BY <1>0, <2>1, <2>2 DEF SetupOK
<1>3. ASSUME NEW s \in Sessions, StartSetup(s) PROVE SetupOK'
  <2>1. /\ command'[s].text = Progress({})
        /\ \A k \in Sessions \ {s} : command'[k] = command[k] /\ session'[k] = session[k]
        /\ session'[s] = [pc |-> "section", section |-> 1]
        /\ UNCHANGED <<file, worked>>
    BY <1>3, PrepareEffect DEF StartSetup, ResetSetup, Shape
  <2>2. Honest(Progress({}), worked)
    BY ProgressHonest
  <2>3. OnItsWay([pc |-> "section", section |-> 1], worked)
    BY StatusAssumption DEF OnItsWay, SECTIONS
  <2> QED
    BY <2>1, <2>2, <2>3 DEF SetupOK
<1>4. ASSUME NEW s \in Sessions, WorkOnSection(s) PROVE SetupOK'
  <2>1. /\ session[s].pc = "section" /\ session'[s].pc = "mark"
        /\ session'[s].section = session[s].section
        /\ \A k \in Sessions \ {s} : session'[k] = session[k]
        /\ worked' = worked \cup {session[s].section}
        /\ UNCHANGED <<file, command>>
    BY <1>4, StepEffect DEF WorkOnSection
  <2>2. OnItsWay(session'[s], worked')
    BY <2>1 DEF SetupOK, OnItsWay, SECTIONS
  <2>3. \A k \in Sessions \ {s} : OnItsWay(session'[k], worked')
    BY <2>1 DEF SetupOK, OnItsWay
  <2>4. \A p : Honest(p, worked) => Honest(p, worked')
    BY <2>1 DEF Honest
  <2> QED
    BY <2>1, <2>2, <2>3, <2>4 DEF SetupOK
<1>5. ASSUME NEW s \in Sessions, FinishSection(s) PROVE SetupOK'
  <2> DEFINE n == session[s].section
  <2>1. /\ session[s].pc = "mark"
        /\ command'[s].text = Progress(SectionsDone \cup {n})
        /\ \A k \in Sessions \ {s} : command'[k] = command[k] /\ session'[k] = session[k]
        /\ session'[s] = IF n = SectionCount THEN [pc |-> "summary", section |-> n]
                         ELSE [pc |-> "section", section |-> n + 1]
        /\ UNCHANGED <<file, worked>>
    BY <1>5, PrepareEffect DEF FinishSection, MarkSection, Shape
  <2>2. n \in SECTIONS /\ \A m \in SECTIONS : m <= n => m \in worked
    BY <2>1 DEF SetupOK, OnItsWay
  <2>3. Honest(Progress(SectionsDone \cup {n}), worked)
    BY <2>2, ResumeOnItsWay, ProgressHonest DEF SECTIONS
  <2>4. OnItsWay(session'[s], worked)
    BY <2>1, <2>2, StatusAssumption DEF OnItsWay, SECTIONS
  <2> QED
    BY <2>1, <2>3, <2>4 DEF SetupOK
<1>6. ASSUME NEW s \in Sessions, FinishSetup(s) PROVE SetupOK'
  <2>1. /\ session[s].pc = "summary" /\ session'[s] = Closed
        /\ command'[s].text = Progress(SECTIONS)
        /\ \A k \in Sessions \ {s} : command'[k] = command[k] /\ session'[k] = session[k]
        /\ UNCHANGED <<file, worked>>
    BY <1>6, PrepareEffect DEF FinishSetup, AllDone, Shape
  <2>2. Honest(Progress(SECTIONS), worked)
    BY <2>1, ProgressHonest DEF SetupOK, OnItsWay
  <2> QED
    BY <2>1, <2>2 DEF SetupOK, OnItsWay, Closed
<1>7. ASSUME NEW s \in Sessions, Open(s) PROVE SetupOK'
  <2>1. /\ \A k \in Sessions \ {s} : session'[k] = session[k]
        /\ session'[s] = IF ReadResume = "setup"
                         THEN [pc |-> "section", section |-> FirstPending]
                         ELSE IF ReadResume = "run" THEN [pc |-> "offer", section |-> 0]
                         ELSE [pc |-> "task", section |-> 0]
        /\ UNCHANGED <<file, command, worked>>
    BY <1>7 DEF Open, Shape, statusVars
  <2>2. ReadResume = "setup" => PendingSections # {}
    BY DEF ReadResume
  <2>3. OnItsWay(session'[s], worked)
    BY <2>1, <2>2, ResumeOnItsWay DEF OnItsWay
  <2> QED
    BY <2>1, <2>3 DEF SetupOK
\* What else moves a session takes it to a step that is none of the setup's.
<1>8. ASSUME NEW s \in Sessions, AnswerOffer(s) \/ ReachGate(s)
      PROVE  SetupOK'
  <2>1. /\ session'[s].pc \in {"run", "task", "closed", "gate0"}
        /\ \A k \in Sessions \ {s} : session'[k] = session[k]
        /\ UNCHANGED <<command, worked>>
    BY <1>8, StepEffect DEF AnswerOffer, ReachGate, statusVars
  <2>2. file'["setup"] = file["setup"]
    BY <1>8 DEF AnswerOffer, ReachGate, statusVars, Shape
  <2> QED
    BY <2>1, <2>2 DEF SetupOK, OnItsWay
<1>9. ASSUME NEW s \in Sessions, Check(s) PROVE SetupOK'
  <2>1. \/ command' = command
        \/ /\ command'[s].file = "check"
           /\ \A k \in Sessions \ {s} : command'[k] = command[k]
    BY <1>9, PrepareEffect DEF Check, RunChecks, RecordCheck, PostSteps, ClearChecks
  <2>2. file'["setup"] = file["setup"] /\ UNCHANGED <<worked, session>>
    BY <1>9 DEF Check, ClearChecks, Shape
  <2> QED
    BY <2>1, <2>2 DEF SetupOK
<1>10. ASSUME NEW s \in Sessions, Approve(s) \/ SaveRun(s) \/ CloseContract(s)
       PROVE  SetupOK'
  <2>1. \/ command' = command
        \/ /\ command'[s].file \in {"contract", "run"}
           /\ \A k \in Sessions \ {s} : command'[k] = command[k]
    BY <1>10, PrepareEffect DEF Approve, SaveRun, CloseContract
  <2>2. /\ session'[s].pc \in {"run", "close", "closed"}
        /\ \A k \in Sessions \ {s} : session'[k] = session[k]
        /\ UNCHANGED <<file, worked>>
    BY <1>10 DEF Approve, SaveRun, CloseContract, Shape, Closed
  <2> QED
    BY <2>1, <2>2 DEF SetupOK, OnItsWay
<1>11. ASSUME NEW s \in Sessions, Die(s) PROVE SetupOK'
  <2>1. /\ command'[s] = Idle /\ session'[s] = Closed
        /\ \A k \in Sessions \ {s} : command'[k] = command[k] /\ session'[k] = session[k]
        /\ UNCHANGED <<file, worked>>
    BY <1>11 DEF Die, Shape
  <2> QED
    BY <1>0, <2>1 DEF SetupOK, OnItsWay, Closed
<1>12. CASE Cleanup
  <2>1. /\ \A k \in Sessions : command'[k] = Idle \/ command'[k] = command[k]
        /\ ~Parsed(file'["setup"])
        /\ UNCHANGED <<worked, session>>
    BY <1>12 DEF Cleanup, Shape, Parsed
  <2> QED
    BY <1>0, <2>1 DEF SetupOK
<1>13. ASSUME \/ \E s \in Sessions : DiscoverAs(s)
              \/ OtherContract \/ Call \/ Hook \/ Edit \/ UNCHANGED vars
       PROVE  SetupOK'
  <2>1. UNCHANGED <<file, command, worked, session>>
    BY <1>13 DEF DiscoverAs, OtherContract, Call, Hook, Edit, vars, statusVars, sessionVars
  <2> QED
    BY <2>1 DEF SetupOK
<1> QED
  BY <1>1, <1>2, <1>3, <1>4, <1>5, <1>6, <1>7, <1>8, <1>9, <1>10, <1>11, <1>12, <1>13
  DEF Next

LEMMA InitShape == Init => Shape
  BY DEF Init, Shape, Closed

\* Whatever sections of the setup a file claims to be done, or is about to, were
\* worked on, for any number of sections and of sessions that overlap, die in
\* the middle of a write and resume from what the file says is pending.
THEOREM SectionsWorkedOn == Spec => []NoSectionSkipped
<1>1. Init => Shape /\ SetupOK
  <2> SUFFICES ASSUME Init PROVE SetupOK
      BY InitShape
  <2>1. ~Parsed(file["setup"])
    BY DEF Init, Parsed
  <2>2. \A s \in Sessions : command[s].file = "none" /\ session[s].pc = "closed"
    BY DEF Init, Closed, Idle
  <2> QED
    BY <2>1, <2>2 DEF SetupOK, OnItsWay
<1>2. Shape /\ SetupOK /\ [Next]_vars => Shape' /\ SetupOK'
  BY NextShape, NextSetup
<1>3. SetupOK => NoSectionSkipped
  BY ResumeOnItsWay DEF SetupOK, NoSectionSkipped, Honest
<1> QED
  BY <1>1, <1>2, <1>3, PTL DEF Spec

------------------------------------------------------------------------------
(* The pre-check                                                             *)

\* A status tells for each step its last result, or that it is pending.
Tells(steps, last) ==
    \A step \in CheckSteps : steps[step] = last[step] \/ steps[step] = "pending"

\* A text that a command has ready tells the results it adds, and else what the
\* file told.
Ready(text, last) ==
    /\ text.ok => ComputeOk(text.steps)
    /\ Tells(text.steps, WithResults(last, text.new))

CheckOK ==
    ~overlapped =>
      /\ \A s, v \in Sessions : Checking(s) /\ Checking(v) => s = v
      /\ Parsed(file["check"]) =>
           /\ file["check"].ok => ComputeOk(file["check"].steps)
           /\ Tells(file["check"].steps, posted)
      /\ \A s \in Sessions : Checking(s) => Ready(command[s].text, posted)

\* PostSteps makes a text that is ready, and notices who else is at it.
LEMMA PostStepsEffect ==
    ASSUME Shape, CheckOK, NEW s \in Sessions, NEW results, PostSteps(s, results)
    PROVE  /\ \A k \in Sessions \ {s} : command'[k] = command[k]
           /\ command'[s].file = "check"
           /\ overlapped' <=> overlapped \/ \E v \in Sessions : Checking(v)
           /\ ~overlapped => Ready(command'[s].text, posted)
<1> DEFINE steps == WithResults(StepsRead, results)
           text == [steps |-> steps, ok |-> ComputeOk(steps), new |-> results]
<1>1. Prepare(s, "check", text)
  BY DEF PostSteps
<1>2. overlapped' <=> overlapped \/ \E v \in Sessions : Checking(v)
  BY DEF PostSteps
<1>3. ASSUME ~overlapped PROVE Tells(StepsRead, posted)
  BY <1>3 DEF CheckOK, StepsRead, Tells, EmptySteps
<1>4. ASSUME ~overlapped PROVE Tells(steps, WithResults(posted, results))
  BY <1>3, <1>4 DEF Tells, WithResults
<1>5. /\ text.steps = steps /\ text.ok = ComputeOk(steps) /\ text.new = results
  OBVIOUS
<1> HIDE DEF text, steps
<1>6. /\ \A k \in Sessions \ {s} : command'[k] = command[k]
      /\ command'[s].file = "check" /\ command'[s].text = text
  BY <1>1, PrepareEffect
<1> QED
  BY <1>2, <1>4, <1>5, <1>6 DEF Ready

LEMMA NextCheck == Shape /\ CheckOK /\ [Next]_vars => CheckOK'
<1> SUFFICES ASSUME Shape, CheckOK, [Next]_vars PROVE CheckOK'
    OBVIOUS
<1>0. Idle.file = "none"
  BY DEF Idle
<1>1. ASSUME NEW s \in Sessions, Cut(s) PROVE CheckOK'
  <2>1. /\ \A k \in Sessions : /\ command'[k].file = command[k].file
                               /\ command'[k].text = command[k].text
        /\ UNCHANGED <<posted, overlapped>>
    BY <1>1, TruncateEffect DEF Cut
  <2>2. file'["check"] = file["check"] \/ ~Parsed(file'["check"])
    BY <1>1 DEF Cut, Shape, Parsed
  <2> QED
    BY <2>1, <2>2 DEF CheckOK, Checking
<1>2. ASSUME NEW s \in Sessions, Write(s) PROVE CheckOK'
  <2>1. /\ \A k \in Sessions \ {s} : command'[k] = command[k]
        /\ command'[s] = Idle
        /\ UNCHANGED overlapped
    BY <1>2, WriteOutEffect DEF Write
  <2>2. CASE ~Checking(s)
    <3>1. file'["check"] = file["check"] /\ UNCHANGED posted
      BY <1>2, <2>2 DEF Write, Checking, Shape
    <3> QED
      BY <1>0, <2>1, <3>1 DEF CheckOK, Checking
  <2>3. CASE Checking(s)
    <3> DEFINE text == command[s].text
               status == [steps |-> text.steps, ok |-> text.ok]
    <3>1. /\ posted' = WithResults(posted, text.new)
          /\ \E c \in Written(file["check"], status) : file' = [file EXCEPT !["check"] = c]
      BY <1>2, <2>3 DEF Write, Checking
    <3>2. file'["check"] = status \/ ~Parsed(file'["check"])
      BY <3>1 DEF Written, Parsed, Shape
    <3>3. ~overlapped => \A k \in Sessions : command'[k].file # "check"
      BY <1>0, <2>1, <2>3 DEF CheckOK, Checking
    <3>4. ~overlapped => (text.ok => ComputeOk(text.steps)) /\ Tells(text.steps, posted')
      BY <2>3, <3>1 DEF CheckOK, Ready
    <3>5. status.steps = text.steps /\ status.ok = text.ok
      OBVIOUS
    <3> HIDE DEF text, status
    <3> QED
      BY <2>1, <3>2, <3>3, <3>4, <3>5 DEF CheckOK, Checking
  <2> QED
    BY <2>2, <2>3
<1>3. ASSUME NEW s \in Sessions, StartSetup(s) \/ FinishSection(s) \/ FinishSetup(s)
                                  \/ Approve(s) \/ SaveRun(s) \/ CloseContract(s)
      PROVE  CheckOK'
  <2>1. /\ \A k \in Sessions \ {s} : command'[k] = command[k]
        /\ command'[s] = command[s] \/ command'[s].file # "check"
    BY <1>3, PrepareEffect DEF StartSetup, ResetSetup, FinishSection, MarkSection,
       FinishSetup, AllDone, Approve, SaveRun, CloseContract
  <2>2. UNCHANGED <<file, posted, overlapped>>
    BY <1>3 DEF StartSetup, FinishSection, FinishSetup, Approve, SaveRun, CloseContract
  <2> QED
    BY <2>1, <2>2 DEF CheckOK, Checking
<1>4. ASSUME NEW s \in Sessions, AnswerOffer(s) PROVE CheckOK'
  <2>1. file'["check"] = file["check"] /\ UNCHANGED <<command, posted, overlapped>>
    BY <1>4 DEF AnswerOffer, Shape
  <2> QED
    BY <2>1 DEF CheckOK, Checking
<1>5. ASSUME NEW s \in Sessions, Check(s) PROVE CheckOK'
  <2>1. ASSUME NEW results, PostSteps(s, results), UNCHANGED <<file, posted>>
        PROVE  CheckOK'
    <3>1. /\ \A k \in Sessions \ {s} : command'[k] = command[k]
          /\ command'[s].file = "check"
          /\ overlapped' <=> overlapped \/ \E v \in Sessions : Checking(v)
          /\ ~overlapped => Ready(command'[s].text, posted)
      BY <2>1, PostStepsEffect
    <3> QED
      BY <2>1, <3>1 DEF CheckOK, Checking
  <2>2. CASE ClearChecks(s)
    <3>1. /\ posted' = EmptySteps /\ UNCHANGED command
          /\ overlapped' <=> overlapped \/ \E v \in Sessions : Checking(v)
          /\ ~Parsed(file'["check"])
      BY <2>2 DEF ClearChecks, Shape, Parsed
    <3> QED
      BY <3>1 DEF CheckOK, Checking, EmptySteps
  <2>3. CASE (RunChecks(s) \/ RecordCheck(s)) /\ UNCHANGED <<file, worked, posted>>
    <3>1. \E results : PostSteps(s, results)
      BY <2>3 DEF RunChecks, RecordCheck
    <3> QED
      BY <2>1, <2>3, <3>1
  <2> QED
    BY <1>5, <2>2, <2>3 DEF Check
<1>6. ASSUME NEW s \in Sessions, Die(s) PROVE CheckOK'
  <2>1. /\ command'[s] = Idle
        /\ \A k \in Sessions \ {s} : command'[k] = command[k]
        /\ UNCHANGED <<file, posted, overlapped>>
    BY <1>6 DEF Die, Shape
  <2> QED
    BY <1>0, <2>1 DEF CheckOK, Checking
<1>7. CASE Cleanup
  <2>1. /\ \A k \in Sessions : command'[k] = Idle \/ command'[k] = command[k]
        /\ ~Parsed(file'["check"]) /\ posted' = EmptySteps
        /\ overlapped' <=> overlapped \/ \E s \in Sessions : Checking(s)
    BY <1>7 DEF Cleanup, Shape, Parsed
  <2> QED
    BY <1>0, <2>1 DEF CheckOK, Checking, EmptySteps
<1>8. ASSUME \/ \E s \in Sessions : \/ WorkOnSection(s) \/ Open(s) \/ DiscoverAs(s)
                                    \/ ReachGate(s)
             \/ OtherContract \/ Call \/ Hook \/ Edit \/ UNCHANGED vars
      PROVE  CheckOK'
  <2>1. UNCHANGED <<file, command, posted, overlapped>>
    BY <1>8 DEF WorkOnSection, Open, DiscoverAs, ReachGate, OtherContract, Call, Hook, Edit,
       vars, statusVars
  <2> QED
    BY <2>1 DEF CheckOK, Checking
<1> QED
  BY <1>1, <1>2, <1>3, <1>4, <1>5, <1>6, <1>7, <1>8 DEF Next

\* A pre-check that is recorded as passed had every step pass or be skipped, and
\* none failed since, however sessions die while they write the status and start
\* again from one that does not parse, as long as no two commands overlapped.
THEOREM PassedCheckHolds == Spec => []PassedCheckIsTrue
<1>1. Init => Shape /\ CheckOK
  <2> SUFFICES ASSUME Init PROVE CheckOK
      BY InitShape
  <2>1. PICK steps \in {EmptySteps, [step \in CheckSteps |-> "pass"]} :
          /\ posted = steps
          /\ file = [setup |-> None, run |-> None,
                     check |-> IF ComputeOk(steps) THEN [steps |-> steps, ok |-> TRUE] ELSE None]
    BY DEF Init
  <2>2. \A s \in Sessions : command[s].file = "none"
    BY DEF Init, Idle
  <2>3. CASE ComputeOk(steps)
    BY <2>1, <2>2, <2>3 DEF CheckOK, Checking, Tells
  <2>4. CASE ~ComputeOk(steps)
    BY <2>1, <2>2, <2>4 DEF CheckOK, Checking, Parsed
  <2> QED
    BY <2>3, <2>4
<1>2. Shape /\ CheckOK /\ [Next]_vars => Shape' /\ CheckOK'
  BY NextShape, NextCheck
<1>3. CheckOK => PassedCheckIsTrue
  BY DEF CheckOK, PassedCheckIsTrue, CheckPassed, Tells, ComputeOk, Good
<1> QED
  BY <1>1, <1>2, <1>3, PTL DEF Spec

------------------------------------------------------------------------------
(* The hook                                                                  *)

\* The verdict of one state of the files, by the contract that governs.
LEMMA VerdictCases ==
    ASSUME NEW contracts, NEW cwd \in Places, NEW target \in Targets
    PROVE  LET t == target.repo IN
           Verdict(contracts, cwd, target) =
             IF cwd \in Repos /\ t # cwd /\ Active(contracts[cwd]) THEN "deny"
             ELSE IF t \in Repos /\ contracts[t] # None THEN Decide(t, target, contracts[t])
             ELSE IF cwd \in Repos /\ contracts[cwd] # None THEN "allow"
             ELSE IF target.part \in Sensitive THEN "deny" ELSE "allow"
<1> DEFINE t == target.repo
           g == IF t \in Repos /\ contracts[t] # None THEN t
                ELSE IF cwd \in Repos /\ contracts[cwd] # None THEN cwd ELSE Outside
           P(r) == \/ r = t /\ r \in Repos /\ contracts[r] # None
                   \/ /\ t \notin Repos \/ contracts[t] = None
                      /\ r = IF cwd \in Repos /\ contracts[cwd] # None THEN cwd ELSE Outside
<1>1. g \in Places
  BY DEF Places
<1>2. \A r \in Places : P(r) <=> r = g
  OBVIOUS
<1>3. Governing(contracts, cwd, target) = g
  <2>1. Governing(contracts, cwd, target) = CHOOSE r \in Places : P(r)
    BY DEF Governing
  <2> HIDE DEF P, g
  <2> QED
    BY <1>1, <1>2, <2>1
<1>4. Outside \notin Repos
  BY ContractAssumption
<1> QED
  BY <1>3, <1>4 DEF Verdict, Decide, Matches

\* The files of a moment of k's call, as they are seen from now: their verdict
\* counts, and they differ from now's only in what has changed since the call.
Moment(k, past, now) ==
    /\ Verdict(past, k.cwd, k.target) \in k.possible
    /\ \A r \in Repos \ k.changed : past[r] = now[r]
    /\ ~k.removed => \A r \in Repos : past[r] # None => now[r] # None

\* What the hook found there for the session's directory, and for the target.
LookedAt(k, past) ==
    /\ k.at = IF k.cwd \in Repos /\ past[k.cwd] # None THEN k.cwd ELSE Outside
    /\ ~(k.cwd \in Repos /\ k.target.repo # k.cwd /\ Active(past[k.cwd]))

FoundAt(k, past) ==
    /\ k.path = IF k.target.repo \in Repos /\ past[k.target.repo] # None
                THEN k.target.repo ELSE k.at
    /\ k.path \in Repos

\* A hook that is under way, and what it is about.
Flight == {"look", "find", "read"}

HookShape(k) ==
    DOMAIN k = {"pc", "cwd", "target", "at", "path", "possible", "changed", "removed"}

CallOK(k, now) ==
    /\ k.pc \in Flight =>
         /\ k.cwd \in Places /\ k.target \in Targets
         /\ IsFiniteSet(k.changed)
         /\ Moment(k, now, now)
    /\ k.pc = "find" => \E looked : Moment(k, looked, now) /\ LookedAt(k, looked)
    /\ k.pc = "read" =>
         \E looked, found :
           /\ Moment(k, looked, now) /\ LookedAt(k, looked)
           /\ Moment(k, found, now) /\ FoundAt(k, found)
           /\ ~k.removed => \A r \in Repos : looked[r] # None => found[r] # None
    /\ /\ k.pc \in {"allow", "deny"}
       /\ Cardinality(k.changed) < 2 /\ ~k.removed
       => k.pc \in k.possible

HooksOK ==
    /\ DOMAIN contract = Repos /\ DOMAIN hooks = Hooks
    /\ \A h \in Hooks :
         /\ HookShape(hooks[h])
         /\ CallOK(hooks[h], contract)

\* A set with less than two elements has at most one.
LEMMA AtMostOne ==
    ASSUME NEW S, IsFiniteSet(S), Cardinality(S) < 2, NEW x \in S, NEW y \in S
    PROVE  x = y
<1> SUFFICES ASSUME x # y PROVE FALSE
    OBVIOUS
<1>1. /\ IsFiniteSet({x}) /\ Cardinality({x}) = 1
  BY FS_Singleton
<1>2. /\ IsFiniteSet({x} \cup {y}) /\ Cardinality({x} \cup {y}) = 2
  <2>1. Cardinality({x} \cup {y}) = IF y \in {x} THEN Cardinality({x}) ELSE Cardinality({x}) + 1
    BY <1>1, FS_AddElement, Zenon
  <2>2. IsFiniteSet({x} \cup {y})
    BY <1>1, FS_AddElement, Zenon
  <2>3. y \notin {x}
    OBVIOUS
  <2> QED
    BY <1>1, <2>1, <2>2, <2>3
<1>3. Cardinality({x} \cup {y}) <= Cardinality(S)
  BY FS_Subset
<1>4. Cardinality(S) \in Nat
  BY FS_CardinalityType
<1> QED
  BY <1>2, <1>3, <1>4

\* If at most one contract changes during a call and none is removed, what the
\* hook reads at last gives the verdict of when it looked at the session's
\* directory, of when it found the contract of the target, or of now.
LEMMA ReadIsOfAMoment ==
    ASSUME NEW k, NEW now, CallOK(k, now), k.pc = "read",
           Cardinality(k.changed) < 2, ~k.removed
    PROVE  Decide(k.path, k.target, now[k.path]) \in k.possible
<1>1. PICK looked, found :
        /\ Moment(k, looked, now) /\ LookedAt(k, looked)
        /\ Moment(k, found, now) /\ FoundAt(k, found)
        /\ \A r \in Repos : looked[r] # None => found[r] # None
  BY DEF CallOK
<1>2. /\ k.cwd \in Places /\ k.target \in Targets /\ IsFiniteSet(k.changed)
      /\ Moment(k, now, now)
  BY DEF CallOK, Flight
<1> DEFINE t == k.target.repo   w == k.cwd
<1>3. \A r, q \in k.changed : r = q
  BY <1>2, AtMostOne
<1>4. ASSUME NEW past
      PROVE  Verdict(past, w, k.target) =
             IF w \in Repos /\ t # w /\ Active(past[w]) THEN "deny"
             ELSE IF t \in Repos /\ past[t] # None THEN Decide(t, k.target, past[t])
             ELSE IF w \in Repos /\ past[w] # None THEN "allow"
             ELSE IF k.target.part \in Sensitive THEN "deny" ELSE "allow"
  BY <1>2, VerdictCases
\* The hook reads the contract of the target's repository.
<1>5. CASE k.path = t
  <2>1. t \in Repos /\ now[t] # None
    BY <1>1, <1>5, ContractAssumption DEF FoundAt, LookedAt, Moment
  <2>2. CASE w \in Repos /\ t # w /\ Active(now[w])
    <3>1. w \in k.changed
      BY <1>1, <2>2 DEF LookedAt, Moment
    <3>2. looked[t] = now[t]
      BY <1>1, <1>3, <2>1, <2>2, <3>1 DEF Moment
    <3>3. Verdict(looked, w, k.target) = Decide(t, k.target, now[t])
      BY <1>1, <1>4, <2>1, <3>2 DEF LookedAt
    <3> QED
      BY <1>1, <1>5, <3>3 DEF Moment
  <2>3. CASE ~(w \in Repos /\ t # w /\ Active(now[w]))
    <3>1. Verdict(now, w, k.target) = Decide(t, k.target, now[t])
      BY <1>4, <2>1, <2>3
    <3> QED
      BY <1>2, <1>5, <3>1 DEF Moment
  <2> QED
    BY <2>2, <2>3
\* It reads that of the session's directory, to which the target does not belong.
<1>6. CASE k.path # t
  <2>1. /\ k.path = w /\ w \in Repos /\ t # w
        /\ looked[w] # None /\ now[w] # None
        /\ ~Active(looked[w])
        /\ t \notin Repos \/ (found[t] = None /\ looked[t] = None)
    BY <1>1, <1>6, ContractAssumption DEF FoundAt, LookedAt, Moment
  <2>2. Decide(w, k.target, now[w]) = IF Active(now[w]) /\ now[w].strict THEN "deny" ELSE "allow"
    BY <2>1 DEF Decide, Matches
  <2>3. Verdict(looked, w, k.target) = "allow"
    BY <1>4, <2>1
  <2>4. Active(now[w]) => Verdict(now, w, k.target) = "deny"
    BY <1>4, <2>1
  <2> QED
    BY <1>1, <1>2, <2>1, <2>2, <2>3, <2>4 DEF Moment
<1> QED
  BY <1>5, <1>6

\* All that a step can do to the contracts and to the hooks.
LEMMA ContractSteps ==
    ASSUME [Next]_vars
    PROVE  \/ UNCHANGED contractVars
           \/ \E r \in Repos : \E c : SetContract(r, c)
           \/ \E h \in Hooks, cwd \in Places, target \in Targets : CallHook(h, cwd, target)
           \/ \E h \in Hooks : HookStep(h)
<1>0. Here \in Repos
  BY SessionAssumption
<1>1. ASSUME NEW s \in Sessions, Cut(s) \/ Write(s)
      PROVE  UNCHANGED contractVars \/ \E c : SetContract(Here, c)
  BY <1>1 DEF Cut, Write
<1>2. ASSUME NEW s \in Sessions,
             \/ StartSetup(s) \/ WorkOnSection(s) \/ FinishSection(s) \/ FinishSetup(s)
             \/ Open(s) \/ AnswerOffer(s) \/ Check(s) \/ DiscoverAs(s)
             \/ ReachGate(s) \/ Approve(s) \/ SaveRun(s) \/ CloseContract(s) \/ Die(s)
      PROVE  UNCHANGED contractVars
  BY <1>2 DEF StartSetup, WorkOnSection, FinishSection, FinishSetup, Open, AnswerOffer,
     Check, DiscoverAs, ReachGate, Approve, SaveRun, CloseContract, Die
<1>3. CASE Cleanup
  BY <1>0, <1>3 DEF Cleanup
<1>4. CASE OtherContract
  BY <1>4 DEF OtherContract
<1>5. CASE Call
  BY <1>5 DEF Call
<1>6. CASE Hook
  BY <1>6 DEF Hook
<1>7. CASE Edit \/ UNCHANGED vars
  BY <1>7 DEF Edit, vars
<1> QED
  BY <1>0, <1>1, <1>2, <1>3, <1>4, <1>5, <1>6, <1>7 DEF Next

\* A contract changes under a call: what was a moment of it still is one.
LEMMA ChangeUnderCall ==
    ASSUME NEW k, HookShape(k), NEW now, CallOK(k, now), k.pc \in Flight,
           NEW r \in Repos, NEW c, DOMAIN now = Repos,
           NEW then, then = [now EXCEPT ![r] = c],
           NEW j, j = [k EXCEPT !.changed = @ \cup {r}, !.removed = @ \/ c = None,
                                !.possible = @ \cup {Verdict(then, k.cwd, k.target)}]
    PROVE  CallOK(j, then)
<1>1. /\ j.pc = k.pc /\ j.cwd = k.cwd /\ j.target = k.target
      /\ j.at = k.at /\ j.path = k.path
      /\ j.changed = k.changed \cup {r}
      /\ ~j.removed => ~k.removed /\ c # None
      /\ j.possible = k.possible \cup {Verdict(then, k.cwd, k.target)}
  BY DEF HookShape
<1>2. then[r] = c /\ \A q \in Repos \ {r} : then[q] = now[q]
  OBVIOUS
<1>3. ASSUME NEW past, Moment(k, past, now) PROVE Moment(j, past, then)
  BY <1>1, <1>2, <1>3 DEF Moment
<1>4. Moment(j, then, then)
  BY <1>1 DEF Moment
<1>5. IsFiniteSet(j.changed)
  BY <1>1, FS_AddElement DEF CallOK, Flight
<1>6. j.pc = "find" => \E looked : Moment(j, looked, then) /\ LookedAt(j, looked)
  BY <1>1, <1>3 DEF CallOK, LookedAt
<1>7. j.pc = "read" =>
         \E looked, found :
           /\ Moment(j, looked, then) /\ LookedAt(j, looked)
           /\ Moment(j, found, then) /\ FoundAt(j, found)
           /\ ~j.removed => \A q \in Repos : looked[q] # None => found[q] # None
  <2> SUFFICES ASSUME j.pc = "read" PROVE <1>7!2
      OBVIOUS
  <2>1. PICK looked, found :
          /\ Moment(k, looked, now) /\ LookedAt(k, looked)
          /\ Moment(k, found, now) /\ FoundAt(k, found)
          /\ ~k.removed => \A q \in Repos : looked[q] # None => found[q] # None
    BY <1>1 DEF CallOK
  <2>2. Moment(j, looked, then) /\ Moment(j, found, then)
    BY <1>3, <2>1
  <2>3. LookedAt(j, looked) /\ FoundAt(j, found)
    BY <1>1, <2>1 DEF LookedAt, FoundAt
  <2> QED
    BY <1>1, <2>1, <2>2, <2>3
<1>8. j.pc \in Flight => j.cwd \in Places /\ j.target \in Targets
  BY <1>1 DEF CallOK
<1>9. j.pc \notin {"allow", "deny"}
  BY <1>1 DEF Flight
<1> QED
  BY <1>4, <1>5, <1>6, <1>7, <1>8, <1>9 DEF CallOK, Flight

LEMMA NextHooks == HooksOK /\ [Next]_vars => HooksOK'
<1> SUFFICES ASSUME HooksOK, [Next]_vars PROVE HooksOK'
    OBVIOUS
<1>0. /\ DOMAIN contract = Repos /\ DOMAIN hooks = Hooks
      /\ \A h \in Hooks : HookShape(hooks[h]) /\ CallOK(hooks[h], contract)
  BY DEF HooksOK
<1> SUFFICES /\ DOMAIN contract' = Repos /\ DOMAIN hooks' = Hooks
             /\ \A h \in Hooks : HookShape(hooks'[h]) /\ CallOK(hooks'[h], contract')
    BY DEF HooksOK
<1>1. CASE UNCHANGED contractVars
  BY <1>0, <1>1 DEF contractVars
<1>2. ASSUME NEW r \in Repos, NEW c, SetContract(r, c)
      PROVE  /\ DOMAIN contract' = Repos /\ DOMAIN hooks' = Hooks
             /\ \A h \in Hooks : HookShape(hooks'[h]) /\ CallOK(hooks'[h], contract')
  <2>1. contract' = [contract EXCEPT ![r] = c] /\ DOMAIN hooks' = Hooks
    BY <1>2 DEF SetContract
  <2>2. ASSUME NEW h \in Hooks
        PROVE  HookShape(hooks'[h]) /\ CallOK(hooks'[h], contract')
    <3> DEFINE k == hooks[h]
               j == [k EXCEPT !.changed = @ \cup {r}, !.removed = @ \/ c = None,
                              !.possible = @ \cup {Verdict(contract', k.cwd, k.target)}]
    <3>1. CASE k.pc \notin Flight
      <4>1. hooks'[h] = k
        BY <1>2, <3>1 DEF SetContract, Flight
      <4>2. CallOK(k, contract')
        BY <1>0, <3>1 DEF CallOK, Flight
      <4> QED
        BY <1>0, <4>1, <4>2
    <3>2. CASE k.pc \in Flight
      <4>1. hooks'[h] = j
        BY <1>0, <1>2, <3>2 DEF SetContract, Flight
      <4>2. CallOK(j, contract')
        BY <1>0, <2>1, <3>2, ChangeUnderCall
      <4>3. HookShape(j)
        BY <1>0 DEF HookShape
      <4> QED
        BY <4>1, <4>2, <4>3
    <3> QED
      BY <3>1, <3>2
  <2> QED
    BY <1>0, <2>1, <2>2
<1>3. ASSUME NEW h \in Hooks, NEW cwd \in Places, NEW target \in Targets,
             CallHook(h, cwd, target)
      PROVE  /\ DOMAIN contract' = Repos /\ DOMAIN hooks' = Hooks
             /\ \A g \in Hooks : HookShape(hooks'[g]) /\ CallOK(hooks'[g], contract')
  <2> DEFINE call == [NoCall EXCEPT !.pc = "look", !.cwd = cwd, !.target = target,
                                    !.possible = {Verdict(contract, cwd, target)}]
  <2>1. /\ hooks' = [hooks EXCEPT ![h] = call] /\ UNCHANGED contract
    BY <1>3 DEF CallHook
  <2>2. /\ HookShape(call) /\ call.pc = "look" /\ call.cwd = cwd /\ call.target = target
        /\ call.possible = {Verdict(contract, cwd, target)} /\ call.changed = {}
    BY DEF NoCall, HookShape
  <2> HIDE DEF call
  <2>3. CallOK(call, contract)
    BY <2>2, FS_EmptySet DEF CallOK, Moment
  <2> QED
    BY <1>0, <2>1, <2>2, <2>3
<1>4. ASSUME NEW h \in Hooks, HookStep(h)
      PROVE  /\ DOMAIN contract' = Repos /\ DOMAIN hooks' = Hooks
             /\ \A g \in Hooks : HookShape(hooks'[g]) /\ CallOK(hooks'[g], contract')
  <2> DEFINE k == hooks[h]   j == hooks'[h]
  <2>1. /\ UNCHANGED contract /\ DOMAIN hooks' = Hooks
        /\ \A g \in Hooks \ {h} : hooks'[g] = hooks[g]
    BY <1>0, <1>4 DEF HookStep, LookAtCwd, FindContract, ReadContract, Answer
  <2>2. /\ k.pc \in Flight /\ HookShape(j)
        /\ j.cwd = k.cwd /\ j.target = k.target
        /\ j.possible = k.possible /\ j.changed = k.changed /\ j.removed = k.removed
    BY <1>0, <1>4 DEF HookStep, LookAtCwd, FindContract, ReadContract, Answer, HookShape, Flight
  <2>3. /\ k.cwd \in Places /\ k.target \in Targets /\ IsFiniteSet(k.changed)
        /\ Moment(k, contract, contract)
        /\ Moment(j, contract, contract)
    BY <1>0, <2>2 DEF CallOK, Flight, Moment
  <2>4. Verdict(contract, k.cwd, k.target) \in k.possible
    BY <2>3 DEF Moment
  <2>5. ASSUME LookAtCwd(h) PROVE CallOK(j, contract)
    <3>1. CASE k.cwd \in Repos /\ k.target.repo # k.cwd /\ Active(contract[k.cwd])
      <4>1. j.pc = "deny"
        BY <1>0, <2>5, <3>1 DEF LookAtCwd, Answer, HookShape
      <4>2. Verdict(contract, k.cwd, k.target) = "deny"
        BY <2>3, <3>1, VerdictCases
      <4> HIDE DEF k, j
      <4> QED
        BY <2>2, <2>4, <4>1, <4>2 DEF CallOK, Flight
    <3>2. CASE ~(k.cwd \in Repos /\ k.target.repo # k.cwd /\ Active(contract[k.cwd]))
      <4>1. /\ j.pc = "find"
            /\ j.at = IF k.cwd \in Repos /\ contract[k.cwd] # None THEN k.cwd ELSE Outside
        BY <1>0, <2>5, <3>2 DEF LookAtCwd, HookShape
      <4>2. LookedAt(j, contract)
        BY <2>2, <3>2, <4>1 DEF LookedAt
      <4> HIDE DEF k, j
      <4> QED
        BY <2>2, <2>3, <4>1, <4>2 DEF CallOK
    <3> QED
      BY <3>1, <3>2
  <2>6. ASSUME FindContract(h) PROVE CallOK(j, contract)
    <3> DEFINE path == IF k.target.repo \in Repos /\ contract[k.target.repo] # None
                       THEN k.target.repo ELSE k.at
    <3>1. k.pc = "find"
      BY <2>6 DEF FindContract
    <3>2. PICK looked : Moment(k, looked, contract) /\ LookedAt(k, looked)
      BY <1>0, <3>1 DEF CallOK
    <3>3. CASE path \in Repos
      <4>1. j.pc = "read" /\ j.path = path /\ j.at = k.at
        BY <1>0, <2>6, <3>3 DEF FindContract, HookShape
      <4>2. LookedAt(j, looked) /\ Moment(j, looked, contract)
        BY <2>2, <3>2, <4>1 DEF LookedAt, Moment
      <4>3. FoundAt(j, contract)
        BY <2>2, <3>3, <4>1 DEF FoundAt
      <4>4. ~j.removed => \A r \in Repos : looked[r] # None => contract[r] # None
        BY <4>2 DEF Moment
      <4> HIDE DEF k, j
      <4> QED
        BY <2>2, <2>3, <4>1, <4>2, <4>3, <4>4 DEF CallOK
    <3>4. CASE path \notin Repos
      <4>1. j.pc = IF k.target.part \in Sensitive THEN "deny" ELSE "allow"
        BY <1>0, <2>6, <3>4 DEF FindContract, Answer, HookShape, HARDCODED_OFF_LIMITS
      <4>2. /\ ~(k.target.repo \in Repos /\ contract[k.target.repo] # None)
            /\ ~(k.cwd \in Repos /\ looked[k.cwd] # None)
            /\ ~(k.cwd \in Repos /\ k.target.repo # k.cwd /\ Active(looked[k.cwd]))
        BY <3>2, <3>4 DEF LookedAt
      <4>3. ~k.removed => ~(k.target.repo \in Repos /\ looked[k.target.repo] # None)
        BY <3>2, <4>2 DEF Moment
      <4>4. ~k.removed => Verdict(looked, k.cwd, k.target) = j.pc
        BY <2>3, <4>1, <4>2, <4>3, VerdictCases
      <4>5. Verdict(looked, k.cwd, k.target) \in k.possible
        BY <3>2 DEF Moment
      <4> HIDE DEF k, j
      <4> QED
        BY <2>2, <4>1, <4>4, <4>5 DEF CallOK, Flight
    <3> QED
      BY <3>3, <3>4
  <2>7. ASSUME ReadContract(h) PROVE CallOK(j, contract)
    <3>1. k.pc = "read" /\ j.pc = Decide(k.path, k.target, contract[k.path])
      BY <1>0, <2>7 DEF ReadContract, Answer, HookShape
    <3>2. Decide(k.path, k.target, contract[k.path]) \in {"allow", "deny"}
      BY DEF Decide
    <3>3. Cardinality(k.changed) < 2 /\ ~k.removed => j.pc \in k.possible
      BY <1>0, <3>1, ReadIsOfAMoment
    <3> HIDE DEF k, j
    <3> QED
      BY <2>2, <3>1, <3>2, <3>3 DEF CallOK, Flight
  <2>8. CallOK(j, contract)
    <3>1. LookAtCwd(h) \/ FindContract(h) \/ ReadContract(h)
      BY <1>4 DEF HookStep
    <3> HIDE DEF j
    <3> QED
      BY <2>5, <2>6, <2>7, <3>1
  <2> QED
    BY <1>0, <2>1, <2>2, <2>8
<1> QED
  BY <1>1, <1>2, <1>3, <1>4, ContractSteps

\* The hook's answer is one that the files of a single moment of its call call
\* for, for any number of repositories, contracts and hooks, unless two contracts
\* change during the call or one is removed.
THEOREM HookAnswers == Spec => []HookAnswersForAMoment
<1>1. Init => HooksOK
  BY DEF Init, ContractInit, NoCall, HooksOK, HookShape, CallOK, Flight
<1>2. HooksOK => HookAnswersForAMoment
  BY DEF HooksOK, CallOK, HookAnswersForAMoment
<1> QED
  BY <1>1, <1>2, NextHooks, PTL DEF Spec

==============================================================================
