------------------------- MODULE SetupChecks_proofs -------------------------
(***************************************************************************)
(* The check of an installation and its repairs, for every environment,    *)
(* every state of the machine, every content of the user's two files and   *)
(* every order of edits, logins, kills and runs of the wizard: a switch is *)
(* what both files say, the user's keys survive, and what the check calls  *)
(* good the next server can use.                                           *)
(***************************************************************************)
EXTENDS SetupChecks, TLAPS

Fields == {"pc", "at", "flag", "stage", "env", "read", "wrote", "touched", "seen", "ok"}

Shape ==
    /\ DOMAIN check = Fields
    /\ check.at \in FileNames
    /\ doc \in [FileNames -> Contents \cup {None, Torn}]
    /\ DOMAIN mine = FileNames
    /\ machine \in MachineStates
    /\ shell \in Shells

Writing == check.pc \in {"cut", "write"}

\* A switch has read files that parse, and holds the keys of every file that it
\* has yet to write and that nobody raced it for; the settings are written first.
ReadOK ==
    /\ check.pc = "read" => check.at = "settings"
    /\ Writing =>
        /\ check.read \in [FileNames -> Contents \cup {None}]
        /\ \A f \in FileNames \ (raced \cup replaced) :
             f \notin check.wrote => Keys(check.read[f]) = mine[f]
        /\ check.at = "settings" => check.wrote = {}
        /\ check.at = "mcp" => check.wrote = {"settings"}
        /\ check.pc = "write" /\ check.at \notin raced => doc[check.at] = Torn

Says(content, flag) == Parsed(content) => ("agent" \in content.env.select <=> flag = "enable")

\* A file that a switch has written says what it was told, unless someone wrote
\* it since; a file that it has yet to write is what it read; and .mcp.json is
\* left out only where it does not register our server.
SwitchOK ==
    /\ check.pc \in {"idle", "read", "refused"} => check.wrote = {}
    /\ check.wrote # {} => "settings" \in check.wrote
    /\ \A f \in (FileNames \cap check.wrote) \ check.touched : Says(doc[f], check.flag)
    /\ Writing =>
         \A f \in FileNames \ (check.wrote \cup check.touched) :
            doc[f] = check.read[f] \/ (check.pc = "write" /\ f = check.at)
    /\ ~Writing /\ check.wrote # {} /\ "mcp" \notin check.wrote \cup check.touched =>
         ~(Parsed(doc["mcp"]) /\ doc["mcp"].ours)

GeminiProblems == {"gemini-credentials", "gemini-credentials-broken"}

\* What the last observation said of the credentials is so, whatever was
\* repaired since; and nothing is repaired after an observation without a
\* blocking problem, so all that it said is so.
ObservedOK ==
    /\ check.pc \in {"repair", "worker"} => ~check.ok
    /\ check.pc \in {"repair", "worker", "done"} /\ "machine" \notin check.touched =>
         /\ ~Lacks(check.seen, GeminiProblems) =>
              CredentialProblems(UsableEnv(check.env), machine) = {}
         /\ "gemini-credentials-broken" \in check.seen =>
              VertexState(UsableEnv(check.env), machine) = "broken"
         /\ check.ok => Problems(check.env, machine) \subseteq Warnings

IInv == Shape /\ ReadOK /\ SwitchOK /\ UserKeysKept /\ ObservedOK

------------------------------------------------------------------------------
(* Rules about doors                                                         *)

\* A file that the check takes for a credential is one, or of a type that it does
\* not know; one that it calls broken cannot sign.
LEMMA UsableFiles ==
    ASSUME NEW env, NEW m \in MachineStates
    PROVE  /\ Usable(CredentialFile(env, m)) =>
                Signs(env, m) \/ CredentialFile(env, m) \in OfUnknownType
           /\ ~Usable(CredentialFile(env, m)) => ~Signs(env, m)
<1> DEFINE c == CredentialFile(env, m)
<1>1. c \in CredentialClasses \cup {None, Torn}
  BY DEF CredentialFile, MachineStates, CredentialFiles
<1>2. Usable(c) => c \in {"complete", "complete project"} \cup OfUnknownType
  BY <1>1 DEF Usable, CredentialClasses, OfUnknownType
<1>3. ~Usable(c) => c \notin {"complete", "complete project"} \cup OfUnknownType
  BY SetupAssumption DEF Usable, CredentialClasses, OfUnknownType
<1> HIDE DEF c
<1> QED
  BY <1>2, <1>3 DEF c, Signs

LEMMA BrokenCannotSign ==
    ASSUME NEW env, NEW m \in MachineStates, VertexState(env, m) = "broken"
    PROVE  ~Signs(env, m)
<1>1. ~Usable(CredentialFile(env, m))
  BY DEF VertexState, CredentialFile
<1> QED
  BY <1>1, UsableFiles

\* Without a Gemini problem the server's door opens, or its credential is of a
\* type that the check does not know.
LEMMA NoProblemOpensTheDoor ==
    ASSUME NEW env, NEW m \in MachineStates, CredentialProblems(env, m) = {},
           ~IsSet(env, "backend")
    PROVE  \/ DoorOpens(env, m)
           \/ GeminiBackend(env, m) = "vertex-adc" /\ CredentialFile(env, m) \in OfUnknownType
<1>1. VertexState(env, m) # "broken" /\ HasGeminiCredentials(env, m)
  BY DEF CredentialProblems, If
<1>2. CASE IsSet(env, "key")
  BY <1>2 DEF DoorOpens, GeminiBackend
<1>3. CASE ~IsSet(env, "key")
  <2>1. VertexState(env, m) = "credential"
    BY <1>1, <1>3 DEF HasGeminiCredentials
  <2>2. Usable(CredentialFile(env, m)) /\ (IsSet(env, "credentials") \/ m.adcFile # None)
    BY <2>1 DEF VertexState, CredentialFile
  <2>3. GeminiBackend(env, m) = "vertex-adc"
    BY <1>3, <2>2 DEF GeminiBackend
  <2> QED
    BY <2>2, <2>3, UsableFiles DEF DoorOpens
<1> QED
  BY <1>2, <1>3

\* Without a blocking problem the server starts with its selection, and an agent
\* has an interpreter and something to sign with.
LEMMA NoProblemStarts ==
    ASSUME NEW rawEnv, NEW m \in MachineStates, Problems(rawEnv, m) \subseteq Warnings
    PROVE  LET env == UsableEnv(rawEnv) IN
           /\ m.deps /\ m.dist
           /\ (env.select = {} => env.legacy \cap {"agent", "bare"} = {}) =>
                /\ "bare" \notin SelectOverrides(env)
                /\ "agent" \in SelectOverrides(env) =>
                     /\ WorkerPython(env, m) = "works"
                     /\ \/ Signs(env, m)
                        \/ CredentialFile(env, m) \in OfUnknownType
                        \/ MetadataMaySign(env, m) /\ ProjectResolves(env, m)
<1> DEFINE env == UsableEnv(rawEnv)
<1>1. /\ m.deps \in BOOLEAN /\ m.dist \in BOOLEAN
      /\ m.venv \in Interpreters /\ m.python \in Interpreters
  BY DEF MachineStates
<1>2. /\ InstallProblems(m) \subseteq Warnings
      /\ SelectionProblems(env, m) \subseteq Warnings /\ WorkerProblems(env, m) \subseteq Warnings
  BY DEF Problems
<1> HIDE DEF env
<1>3. m.deps /\ m.dist
  BY <1>1, <1>2 DEF InstallProblems, If, Warnings
<1>4. "bare" \notin env.select
  BY <1>2 DEF SelectionProblems, If, Warnings
<1>5. ASSUME "agent" \in env.select
      PROVE  /\ ObservedPython(env, m) \notin {"missing", "broken"}
             /\ VertexState(env, m) \notin {"broken", "none"}
  BY <1>2, <1>5 DEF WorkerProblems, SelectionProblems, SelectsAgentWorker, If, Warnings
<1>6. ASSUME "agent" \in env.select
      PROVE  /\ WorkerPython(env, m) = "works"
             /\ \/ Signs(env, m)
                \/ CredentialFile(env, m) \in OfUnknownType
                \/ MetadataMaySign(env, m) /\ ProjectResolves(env, m)
  <2>1. WorkerPython(env, m) = "works"
    BY <1>1, <1>5, <1>6 DEF ObservedPython, WorkerPython, Interpreters
  <2>2. \/ Usable(CredentialFile(env, m))
        \/ MetadataMaySign(env, m) /\ ProjectResolves(env, m)
    BY <1>5, <1>6 DEF VertexState, CredentialFile, MetadataMaySign, ProjectResolves
  <2> QED
    BY <2>1, <2>2, UsableFiles
<1>7. (env.select = {} => env.legacy \cap {"agent", "bare"} = {}) =>
         "bare" \notin SelectOverrides(env) /\ ("agent" \in SelectOverrides(env) => "agent" \in env.select)
  BY <1>4 DEF SelectOverrides
<1> QED
  BY <1>3, <1>6, <1>7 DEF env

\* Repairs do not change what is said of the credentials.
LEMMA CredentialsStay ==
    ASSUME NEW env, NEW m, NEW n, n.adcFile = m.adcFile, n.keyFile = m.keyFile
    PROVE  /\ CredentialProblems(env, n) = CredentialProblems(env, m)
           /\ VertexState(env, n) = VertexState(env, m)
BY DEF CredentialProblems, VertexState, HasGeminiCredentials

LEMMA CredentialProblemsAreSeen ==
    ASSUME NEW rawEnv, NEW m
    PROVE  /\ ~Lacks(Problems(rawEnv, m), GeminiProblems) =>
                CredentialProblems(UsableEnv(rawEnv), m) = {}
           /\ "gemini-credentials-broken" \in Problems(rawEnv, m) =>
                VertexState(UsableEnv(rawEnv), m) = "broken"
<1>1. CredentialProblems(UsableEnv(rawEnv), m) \subseteq GeminiProblems
  BY DEF CredentialProblems, If, GeminiProblems
<1>2. CredentialProblems(UsableEnv(rawEnv), m) \subseteq Problems(rawEnv, m)
  BY DEF Problems
<1>3. /\ "gemini-credentials-broken" \notin InstallProblems(m)
      /\ "gemini-credentials-broken" \notin SelectionProblems(UsableEnv(rawEnv), m)
      /\ "gemini-credentials-broken" \notin WorkerProblems(UsableEnv(rawEnv), m)
  BY DEF InstallProblems, SelectionProblems, WorkerProblems, If
<1>4. "gemini-credentials-broken" \in CredentialProblems(UsableEnv(rawEnv), m) =>
        VertexState(UsableEnv(rawEnv), m) = "broken"
  BY DEF CredentialProblems, If
<1> QED
  BY <1>1, <1>2, <1>3, <1>4 DEF Lacks, Problems

------------------------------------------------------------------------------
(* Steps of others                                                           *)

LEMMA EmptyIsContent == Empty \in Contents /\ [Empty EXCEPT !.keys = OwnKeys] \in Contents
<1>1. Empty \in Contents
  <2>1. Bare \in Envs
    BY DEF Bare, Env, Envs, Values, Unset
  <2> QED
    BY <2>1 DEF Empty, Contents
<1> QED
  BY <1>1 DEF Contents

LEMMA ContentsAreParsed ==
    ASSUME NEW content \in Contents
    PROVE  Parsed(content) /\ Keys(content) = content.keys
BY SetupAssumption DEF Parsed, Keys

\* The machine becomes another under the check, or stays as it is.
LEMMA MachineKeeps ==
    ASSUME IInv, NEW after \in MachineStates, MachineBecomes(after),
           UNCHANGED <<shell, doc, past>>
    PROVE  IInv'
<1>1. \/ check' = check /\ machine' = machine
      \/ check' = [check EXCEPT !.touched = @ \cup {"machine"}]
  BY DEF MachineBecomes
<1>2. machine' \in MachineStates
  BY DEF MachineBecomes
<1>3. CASE check' = check /\ machine' = machine
  BY <1>3 DEF past, IInv, Shape, ReadOK, Writing, SwitchOK, UserKeysKept, Cutting, ObservedOK
<1>4. CASE check' = [check EXCEPT !.touched = @ \cup {"machine"}]
  <2>1. /\ check'.touched = check.touched \cup {"machine"} /\ DOMAIN check' = Fields
        /\ check'.pc = check.pc /\ check'.at = check.at /\ check'.flag = check.flag
        /\ check'.read = check.read /\ check'.wrote = check.wrote /\ check'.ok = check.ok
    BY <1>4 DEF IInv, Shape, Fields
  <2>2. Shape'
    BY <1>2, <2>1 DEF IInv, Shape, past
  <2>3. ReadOK' /\ UserKeysKept'
    BY <2>1 DEF IInv, ReadOK, Writing, UserKeysKept, Cutting, past
  <2>4. SwitchOK'
    <3>1. \A f \in FileNames : f \in check'.touched <=> f \in check.touched
      BY <2>1 DEF FileNames
    <3> QED
      BY <2>1, <3>1 DEF IInv, SwitchOK, Writing, FileNames
  <2>5. ObservedOK'
    BY <2>1 DEF IInv, ObservedOK
  <2> QED
    BY <2>2, <2>3, <2>4, <2>5 DEF IInv
<1> QED
  BY <1>1, <1>3, <1>4

\* Someone other than the check writes a file, and it is known what the user has
\* in it then, or noted as replaced.
LEMMA SaveKeeps ==
    ASSUME IInv, NEW file \in FileNames, NEW content \in Contents \cup {Torn},
           Save(file, content), UNCHANGED <<shell, machine>>,
           DOMAIN mine' = FileNames,
           \A f \in FileNames \ {file} : mine'[f] = mine[f] /\ (f \in replaced' <=> f \in replaced),
           file \in replaced' \/ mine'[file] = Keys(content)
    PROVE  IInv'
<1>1. /\ check'.touched = check.touched \cup {file} /\ DOMAIN check' = Fields
      /\ check'.pc = check.pc /\ check'.at = check.at /\ check'.flag = check.flag
      /\ check'.read = check.read /\ check'.wrote = check.wrote /\ check'.ok = check.ok
      /\ check'.env = check.env /\ check'.seen = check.seen
  BY DEF Save, IInv, Shape, Fields
<1>2. /\ doc'[file] = content
      /\ \A f \in FileNames \ {file} : doc'[f] = doc[f]
      /\ doc' \in [FileNames -> Contents \cup {None, Torn}]
  BY DEF Save, IInv, Shape
<1>3. raced \subseteq raced' /\ (Writing => file \in raced')
  BY DEF Save, Writing
<1>4. Shape'
  BY <1>1, <1>2 DEF IInv, Shape
<1>5. ReadOK'
  BY <1>1, <1>2, <1>3 DEF IInv, Shape, ReadOK, Writing
<1>6. SwitchOK'
  BY <1>1, <1>2 DEF IInv, SwitchOK, Writing, FileNames
<1>7. UserKeysKept'
  BY <1>1, <1>2, <1>3 DEF IInv, UserKeysKept, Cutting, Writing
<1>8. ObservedOK'
  <2>1. "machine" \notin FileNames
    BY DEF FileNames
  <2> QED
    BY <1>1, <2>1 DEF IInv, ObservedOK
<1> QED
  BY <1>4, <1>5, <1>6, <1>7, <1>8 DEF IInv

------------------------------------------------------------------------------
(* Steps of the check                                                        *)

\* A check that starts, or dies, forgets what it knew; a file that it was
\* writing is lost.
LEMMA ForgettingKeeps ==
    ASSUME IInv, DOMAIN check' = Fields, check'.at \in FileNames, check'.wrote = {},
           check'.pc \in {"idle", "read", "observe", "refused"},
           check'.pc = "read" => check'.at = "settings",
           mine' = MineAfterCut, UNCHANGED <<shell, machine, doc, raced, replaced>>
    PROVE  IInv'
<1>1. Shape'
  BY DEF IInv, Shape, FileNames, MineAfterCut
<1>2. UserKeysKept'
  <2>1. CASE Cutting
    <3>1. mine' = [mine EXCEPT ![check.at] = Torn] /\ check.pc = "write" /\ ~Cutting'
      BY <2>1 DEF MineAfterCut, Cutting
    <3>2. \A f \in FileNames \ (raced \cup replaced) : Keys(doc[f]) = mine'[f]
      BY <2>1, <3>1 DEF IInv, Shape, UserKeysKept, ReadOK, Writing, Keys
    <3> QED
      BY <3>1, <3>2 DEF UserKeysKept
  <2>2. CASE ~Cutting
    BY <2>2 DEF IInv, UserKeysKept, Cutting, MineAfterCut
  <2> QED
    BY <2>1, <2>2
<1> QED
  BY <1>1, <1>2 DEF IInv, ReadOK, Writing, SwitchOK, ObservedOK

LEMMA StartKeeps == ASSUME IInv, NEW flag, Start(flag) PROVE IInv'
<1>1. PICK env : check' = [NoCheck EXCEPT !.flag = flag, !.env = env,
                             !.pc = IF flag \in {"enable", "disable"} THEN "read" ELSE "observe"]
  BY DEF Start
<1>2. /\ DOMAIN check' = Fields /\ check'.at = "settings" /\ check'.wrote = {}
      /\ check'.pc \in {"read", "observe"}
  BY <1>1 DEF NoCheck, Fields
<1>3. mine' = MineAfterCut /\ UNCHANGED <<shell, machine, doc, raced, replaced>>
  BY DEF Start, Running, MineAfterCut, Cutting, past
<1> QED
  BY <1>2, <1>3, ForgettingKeeps DEF FileNames

LEMMA KilledKeeps == ASSUME IInv, Killed PROVE IInv'
<1>1. DOMAIN NoCheck = Fields /\ NoCheck.at = "settings" /\ NoCheck.wrote = {} /\ NoCheck.pc = "idle"
  BY DEF NoCheck, Fields
<1> QED
  BY <1>1, ForgettingKeeps DEF Killed, FileNames

LEMMA WriteFailsKeeps == ASSUME IInv, WriteFails PROVE IInv'
<1>1. /\ DOMAIN check' = Fields /\ check'.at = check.at /\ check'.wrote = {}
      /\ check'.pc = "refused"
  BY DEF WriteFails, IInv, Shape, Fields
<1>2. mine' = MineAfterCut /\ UNCHANGED <<shell, machine, doc, raced, replaced>>
  BY DEF WriteFails
<1> QED
  BY <1>1, <1>2, ForgettingKeeps DEF IInv, Shape

LEMMA ReadDocumentsKeeps == ASSUME IInv, ReadDocuments PROVE IInv'
<1>1. /\ check.pc = "read" /\ check.at = "settings" /\ check.wrote = {}
      /\ UNCHANGED <<shell, machine, doc, wizard, past, edits>>
  BY DEF ReadDocuments, IInv, ReadOK, SwitchOK
<1>2. CASE Torn \in {doc[f] : f \in FileNames}
  <2>1. /\ DOMAIN check' = Fields /\ check'.at = check.at /\ check'.wrote = {}
        /\ check'.pc = "refused"
    BY <1>1, <1>2 DEF ReadDocuments, IInv, Shape, Fields
  <2> QED
    BY <1>1, <2>1, ForgettingKeeps DEF IInv, Shape, MineAfterCut, Cutting, past
<1>3. CASE Torn \notin {doc[f] : f \in FileNames}
  <2>1. /\ DOMAIN check' = Fields /\ check'.at = "settings" /\ check'.wrote = {}
        /\ check'.pc = "cut" /\ check'.read = doc
    BY <1>1, <1>3 DEF ReadDocuments, IInv, Shape, Fields
  <2>2. doc \in [FileNames -> Contents \cup {None}]
    BY <1>3 DEF IInv, Shape
  <2>3. Shape'
    BY <1>1, <2>1 DEF IInv, Shape, FileNames, past
  <2>4. ReadOK' /\ UserKeysKept'
    BY <1>1, <2>1, <2>2 DEF IInv, ReadOK, Writing, UserKeysKept, Cutting, past
  <2>5. SwitchOK' /\ ObservedOK'
    BY <1>1, <2>1 DEF SwitchOK, Writing, ObservedOK
  <2> QED
    BY <2>3, <2>4, <2>5 DEF IInv
<1> QED
  BY <1>2, <1>3

LEMMA CutFileKeeps == ASSUME IInv, CutFile PROVE IInv'
<1>1. /\ check.pc = "cut" /\ check.at \in FileNames
      /\ UNCHANGED <<shell, machine, wizard, past, edits>>
      /\ doc' = [doc EXCEPT ![check.at] = Torn]
      /\ DOMAIN check' = Fields /\ check'.at = check.at /\ check'.wrote = check.wrote
      /\ check'.pc = "write" /\ check'.read = check.read /\ check'.flag = check.flag
      /\ check'.touched = check.touched
  BY DEF CutFile, IInv, Shape, Fields
<1>2. /\ doc' \in [FileNames -> Contents \cup {None, Torn}] /\ doc'[check.at] = Torn
      /\ \A f \in FileNames \ {check.at} : doc'[f] = doc[f]
  BY <1>1 DEF IInv, Shape
<1>3. check.at \notin check.wrote
  BY <1>1 DEF IInv, ReadOK, Writing, FileNames
<1>4. Shape'
  BY <1>1, <1>2 DEF IInv, Shape, past
<1>5. ReadOK'
  BY <1>1, <1>2 DEF IInv, ReadOK, Writing, past
<1>6. SwitchOK'
  BY <1>1, <1>2, <1>3 DEF IInv, SwitchOK, Writing
<1>7. UserKeysKept'
  <2>1. check.at \notin raced \cup replaced => Keys(check.read[check.at]) = mine[check.at]
    BY <1>1, <1>3 DEF IInv, ReadOK, Writing
  <2>2. check.read[check.at] # None => Keys(check.read[check.at]) = check.read[check.at].keys
    BY <1>1, ContentsAreParsed DEF IInv, ReadOK, Writing
  <2>3. \A f \in FileNames \ (raced \cup replaced \cup {check.at}) : Keys(doc'[f]) = mine[f]
    BY <1>1, <1>2 DEF IInv, UserKeysKept, Cutting
  <2> QED
    BY <1>1, <2>1, <2>2, <2>3 DEF UserKeysKept, Cutting, past
<1>8. ObservedOK'
  BY <1>1 DEF ObservedOK
<1> QED
  BY <1>4, <1>5, <1>6, <1>7, <1>8 DEF IInv

\* What is written keeps the keys that were read, and says what the switch was
\* told.
LEMMA SwitchedContent ==
    ASSUME NEW f \in FileNames, check.read[f] \in Contents \cup {None}
    PROVE  /\ Switched(f) \in Contents /\ Keys(Switched(f)) = Keys(check.read[f])
           /\ Says(Switched(f), check.flag)
<1> DEFINE old == IF check.read[f] = None THEN Empty ELSE check.read[f]
           new == WithAgentSelection(old.env.select, check.flag = "enable")
<1>1. old \in Contents /\ Keys(check.read[f]) = old.keys
  <2>1. CASE check.read[f] = None
    BY <2>1, EmptyIsContent, FilesAssumption DEF Keys, Empty
  <2>2. CASE check.read[f] # None
    BY <2>2, ContentsAreParsed
  <2> QED
    BY <2>1, <2>2
<1>2. /\ new \in SUBSET Pairs
      /\ "agent" \in new <=> check.flag = "enable"
  BY DEF WithAgentSelection, Pairs
<1>3. Switched(f) = [old EXCEPT !.env.select = new]
  BY DEF Switched
<1> HIDE DEF old, new
<1>4. old.env \in Envs /\ [old.env EXCEPT !.select = new] \in Envs
  BY <1>1, <1>2 DEF Contents, Envs
<1>5. [old.env EXCEPT !.select = new].select = new
  BY <1>4 DEF Envs
<1>6. Switched(f) = [old EXCEPT !.env = [old.env EXCEPT !.select = new]]
  BY <1>1, <1>3 DEF Contents
<1>7. /\ Switched(f) \in Contents /\ Switched(f).keys = old.keys /\ Switched(f).env.select = new
  BY <1>1, <1>4, <1>5, <1>6 DEF Contents
<1> QED
  BY <1>1, <1>2, <1>7, ContentsAreParsed DEF Says

LEMMA WriteFileKeeps == ASSUME IInv, WriteFile PROVE IInv'
<1> DEFINE at == check.at
<1>1. /\ check.pc = "write" /\ at \in FileNames
      /\ UNCHANGED <<shell, machine, wizard, past, edits>>
      /\ doc' = [doc EXCEPT ![at] = Switched(at)]
      /\ DOMAIN check' = Fields /\ check'.wrote = check.wrote \cup {at}
      /\ check'.pc = IF McpIsNext THEN "cut" ELSE "observe"
      /\ check'.at = IF McpIsNext THEN "mcp" ELSE at
      /\ McpIsNext => check'.read = check.read
      /\ check'.flag = check.flag /\ check'.touched = check.touched
  BY DEF WriteFile, IInv, Shape, Fields
<1>2. /\ check.read \in [FileNames -> Contents \cup {None}]
      /\ \A f \in FileNames \ (raced \cup replaced) :
           f \notin check.wrote => Keys(check.read[f]) = mine[f]
      /\ at = "settings" => check.wrote = {}
      /\ at = "mcp" => check.wrote = {"settings"}
  BY <1>1 DEF IInv, ReadOK, Writing
<1>3. /\ Switched(at) \in Contents /\ Keys(Switched(at)) = Keys(check.read[at])
      /\ Says(Switched(at), check.flag)
  BY <1>1, <1>2, SwitchedContent
<1>4. /\ doc' \in [FileNames -> Contents \cup {None, Torn}] /\ doc'[at] = Switched(at)
      /\ \A f \in FileNames \ {at} : doc'[f] = doc[f]
  BY <1>1, <1>3 DEF IInv, Shape
<1>5. McpIsNext => /\ at = "settings" /\ doc["mcp"] # None
                   /\ Parsed(check.read["mcp"]) /\ check.read["mcp"].ours
  BY DEF McpIsNext
<1>6. at = "settings" /\ ~McpIsNext =>
        doc["mcp"] = None \/ ~(Parsed(check.read["mcp"]) /\ check.read["mcp"].ours)
  BY DEF McpIsNext
<1> HIDE DEF at
<1>7. Shape'
  BY <1>1, <1>4 DEF IInv, Shape, FileNames, past
<1>8. ReadOK'
  BY <1>1, <1>2, <1>5 DEF ReadOK, Writing, FileNames, past
<1>9. SwitchOK'
  <2>1. \A f \in (FileNames \cap check'.wrote) \ check'.touched : Says(doc'[f], check'.flag)
    BY <1>1, <1>3, <1>4 DEF IInv, SwitchOK
  <2>2. "settings" \in check'.wrote
    BY <1>1, <1>2 DEF FileNames
  <2>3. at = "settings" /\ "mcp" \notin check.touched => doc["mcp"] = check.read["mcp"]
    BY <1>1, <1>2 DEF IInv, SwitchOK, Writing, FileNames, at
  <2>4. \A f \in FileNames \ (check'.wrote \cup check'.touched) : at = "settings" /\ f = "mcp"
    BY <1>1, <2>2 DEF FileNames
  <2>5. McpIsNext => \A f \in FileNames \ (check'.wrote \cup check'.touched) : doc'[f] = check'.read[f]
    BY <1>1, <1>4, <2>3, <2>4
  <2>6. ASSUME ~McpIsNext, "mcp" \notin check'.wrote \cup check'.touched
        PROVE  ~(Parsed(doc'["mcp"]) /\ doc'["mcp"].ours)
    <3>1. at = "settings" /\ doc'["mcp"] = doc["mcp"] /\ doc["mcp"] = check.read["mcp"]
      BY <1>1, <1>4, <2>3, <2>6 DEF FileNames
    <3> QED
      BY <1>6, <2>6, <3>1 DEF Parsed
  <2> QED
    BY <1>1, <2>1, <2>2, <2>5, <2>6 DEF SwitchOK, Writing
<1>10. UserKeysKept'
  <2>1. ~Cutting'
    BY <1>1 DEF Cutting
  <2>2. ASSUME NEW f \in FileNames \ (raced \cup replaced) PROVE Keys(doc'[f]) = mine[f]
    <3>1. CASE f = at
      <4>1. at \notin check.wrote
        BY <1>1, <1>2 DEF FileNames
      <4> QED
        BY <1>2, <1>3, <1>4, <3>1, <4>1
    <3>2. CASE f # at
      BY <1>4, <3>2 DEF IInv, UserKeysKept, at
    <3> QED
      BY <3>1, <3>2
  <2> QED
    BY <1>1, <2>1, <2>2 DEF UserKeysKept, past
<1>11. ObservedOK'
  BY <1>1 DEF ObservedOK
<1> QED
  BY <1>7, <1>8, <1>9, <1>10, <1>11 DEF IInv

\* A step of the check after its writes: it changes only the machine and what it
\* has found.
LEMMA AfterWritesKeeps ==
    ASSUME IInv, UNCHANGED <<shell, doc, past>>, machine' \in MachineStates,
           check.pc \in {"observe", "repair", "worker"},
           check'.pc \in {"observe", "repair", "worker", "done"},
           DOMAIN check' = Fields, check'.at = check.at, check'.wrote = check.wrote,
           check'.flag = check.flag, check'.touched = check.touched,
           ObservedOK'
    PROVE  IInv'
<1>1. Shape'
  BY DEF IInv, Shape, past
<1>2. ReadOK' /\ UserKeysKept'
  BY DEF IInv, ReadOK, Writing, UserKeysKept, Cutting, past
<1>3. SwitchOK'
  BY DEF IInv, SwitchOK, Writing
<1> QED
  BY <1>1, <1>2, <1>3 DEF IInv

LEMMA ObserveKeeps == ASSUME IInv, Observe PROVE IInv'
<1> DEFINE problems == Problems(check.env, machine)
<1>1. /\ check.pc = "observe" /\ UNCHANGED <<shell, machine, doc, wizard, past, edits>>
      /\ DOMAIN check' = Fields /\ check'.at = check.at /\ check'.wrote = check.wrote
      /\ check'.flag = check.flag /\ check'.touched = check.touched /\ check'.env = check.env
      /\ check'.seen = problems /\ check'.ok = (problems \subseteq Warnings)
      /\ check'.pc = AfterObservation(problems, check.stage)
  BY DEF Observe, IInv, Shape, Fields
<1>2. /\ ~Lacks(problems, GeminiProblems) => CredentialProblems(UsableEnv(check.env), machine) = {}
      /\ "gemini-credentials-broken" \in problems =>
           VertexState(UsableEnv(check.env), machine) = "broken"
  BY CredentialProblemsAreSeen
<1> HIDE DEF problems
<1>3. /\ check'.pc \in {"repair", "worker", "done"}
      /\ check'.pc # "done" => ~(problems \subseteq Warnings)
  BY <1>1 DEF AfterObservation, Lacks, Warnings
<1>4. ObservedOK'
  <2>1. check'.pc \in {"repair", "worker"} => ~check'.ok
    BY <1>1, <1>3
  <2>2. /\ ~Lacks(check'.seen, GeminiProblems) =>
             CredentialProblems(UsableEnv(check'.env), machine') = {}
        /\ "gemini-credentials-broken" \in check'.seen =>
             VertexState(UsableEnv(check'.env), machine') = "broken"
    BY <1>1, <1>2
  <2>3. check'.ok => Problems(check'.env, machine') \subseteq Warnings
    BY <1>1 DEF problems
  <2> QED
    BY <2>1, <2>2, <2>3 DEF ObservedOK
<1> QED
  BY <1>1, <1>3, <1>4, AfterWritesKeeps DEF IInv, Shape

\* Building the server or the worker's environment leaves the credentials alone,
\* and only a check with a blocking problem builds anything.
LEMMA BuildsKeep ==
    ASSUME IInv, Repair \/ BuildWorker PROVE IInv'
<1>1. /\ check.pc \in {"repair", "worker"}
      /\ UNCHANGED <<shell, doc, past>>
  BY DEF Repair, BuildWorker
<1>2. /\ machine' \in MachineStates
      /\ machine'.adcFile = machine.adcFile /\ machine'.keyFile = machine.keyFile
  <2>1. machine \in MachineStates
    BY DEF IInv, Shape
  <2>2. CASE Repair
    <3>1. machine' \in BuildOutcomes
      BY <2>2 DEF Repair
    <3> QED
      BY <2>1, <3>1 DEF BuildOutcomes, MachineStates
  <2>3. CASE BuildWorker
    <3>1. machine' \in WorkerOutcomes
      BY <2>3 DEF BuildWorker
    <3> QED
      BY <2>1, <3>1 DEF WorkerOutcomes, MachineStates, Interpreters
  <2> QED
    BY <2>2, <2>3
<1>3. /\ DOMAIN check' = Fields /\ check'.at = check.at /\ check'.wrote = check.wrote
      /\ check'.flag = check.flag /\ check'.touched = check.touched /\ check'.env = check.env
      /\ check'.seen = check.seen /\ check'.ok = check.ok
      /\ check'.pc \in {"observe", "worker", "done"}
  <2>1. AfterObservation(check.seen, 1) \in {"worker", "done"}
    BY DEF AfterObservation
  <2>2. CASE Repair
    BY <2>1, <2>2 DEF Repair, IInv, Shape, Fields
  <2>3. CASE BuildWorker
    BY <2>3 DEF BuildWorker, IInv, Shape, Fields
  <2> QED
    BY <2>2, <2>3
<1>4. /\ CredentialProblems(UsableEnv(check.env), machine')
           = CredentialProblems(UsableEnv(check.env), machine)
      /\ VertexState(UsableEnv(check.env), machine') = VertexState(UsableEnv(check.env), machine)
  BY <1>2, CredentialsStay
<1>5. ObservedOK'
  BY <1>1, <1>3, <1>4 DEF IInv, ObservedOK
<1> QED
  BY <1>1, <1>2, <1>3, <1>5, AfterWritesKeeps

------------------------------------------------------------------------------
LEMMA InitIInv == Init => IInv
<1> SUFFICES ASSUME Init PROVE IInv
  OBVIOUS
<1>1. /\ DOMAIN check = Fields /\ check.at = "settings" /\ check.wrote = {} /\ check.pc = "idle"
  BY DEF Init, NoCheck, Fields
<1>2. Shape
  BY <1>1, SetupAssumption DEF Init, Shape, FileNames
<1>3. UserKeysKept
  BY <1>1 DEF Init, UserKeysKept, Cutting
<1> QED
  BY <1>1, <1>2, <1>3 DEF IInv, ReadOK, Writing, SwitchOK, ObservedOK

LEMMA NextIInv == IInv /\ [Next]_vars => IInv'
<1> SUFFICES ASSUME IInv, [Next]_vars PROVE IInv'
  OBVIOUS
<1>0. machine \in MachineStates /\ shell \in Shells /\ DOMAIN doc = FileNames
  BY DEF IInv, Shape
<1>1. ASSUME UNCHANGED <<shell, machine, doc, check, past>> PROVE IInv'
  BY <1>1 DEF past, IInv, Shape, ReadOK, Writing, SwitchOK, UserKeysKept, Cutting, ObservedOK
<1>2. CASE WizardAsk \/ UNCHANGED vars
  BY <1>1, <1>2 DEF WizardAsk, vars
<1>3. CASE WizardBuild
  <2>1. PICK after \in {machine} \cup BuildOutcomes : MachineBecomes(after)
    BY <1>3 DEF WizardBuild
  <2>2. after \in MachineStates
    BY <1>0 DEF BuildOutcomes, MachineStates
  <2> QED
    BY <1>3, <2>1, <2>2, MachineKeeps DEF WizardBuild
<1>4. CASE WizardWorker
  <2>1. PICK after \in {machine} \cup WorkerOutcomes : MachineBecomes(after)
    BY <1>4 DEF WizardWorker
  <2>2. after \in MachineStates
    BY <1>0 DEF WorkerOutcomes, MachineStates, Interpreters
  <2> QED
    BY <1>4, <2>1, <2>2, MachineKeeps DEF WizardWorker
<1>5. CASE Login
  <2>1. PICK content \in {"complete project", Torn} : MachineBecomes([machine EXCEPT !.adcFile = content])
    BY <1>5 DEF Login
  <2>2. [machine EXCEPT !.adcFile = content] \in MachineStates
    BY <1>0 DEF MachineStates, CredentialFiles, CredentialClasses
  <2> QED
    BY <1>5, <2>1, <2>2, MachineKeeps DEF Login
<1>6. CASE WizardWrite
  <2>1. PICK content : Save("mcp", content) /\ content = [ours |-> TRUE, keys |-> {}, env |-> Forwarded]
    BY <1>6 DEF WizardWrite
  <2>2. content \in Contents
    <3>1. shell \in Envs
      BY <1>0, SetupAssumption
    <3>2. Forwarded \in Envs
      BY <3>1 DEF Forwarded, Envs, Pairs
    <3> QED
      BY <2>1, <3>2 DEF Contents
  <2>3. Keys(content) = {}
    BY <2>1, <2>2, ContentsAreParsed
  <2>4. /\ UNCHANGED <<shell, machine, mine>>
        /\ replaced' = IF mine["mcp"] = {} THEN replaced ELSE replaced \cup {"mcp"}
    BY <1>6 DEF WizardWrite
  <2>5. DOMAIN mine' = FileNames
    BY <2>4 DEF IInv, Shape
  <2> QED
    BY <2>1, <2>2, <2>3, <2>4, <2>5, SaveKeeps DEF FileNames
<1>7. CASE UserEdit
  <2>1. PICK f \in FileNames, content \in {Torn, [Empty EXCEPT !.keys = OwnKeys]} :
           /\ Save(f, content)
           /\ mine' = [mine EXCEPT ![f] = Keys(content)]
           /\ replaced' = replaced \ {f}
    BY <1>7 DEF UserEdit
  <2>2. /\ DOMAIN mine' = FileNames /\ mine'[f] = Keys(content)
        /\ \A g \in FileNames \ {f} : mine'[g] = mine[g] /\ (g \in replaced' <=> g \in replaced)
    BY <2>1 DEF IInv, Shape
  <2> QED
    BY <1>7, <2>1, <2>2, SaveKeeps, EmptyIsContent DEF UserEdit
<1> QED
  BY <1>2, <1>3, <1>4, <1>5, <1>6, <1>7, StartKeeps, ReadDocumentsKeeps, CutFileKeeps,
     WriteFileKeeps, WriteFailsKeeps, ObserveKeeps, BuildsKeep, KilledKeeps DEF Next

------------------------------------------------------------------------------
\* A switch that is reported is what both files say, wherever an earlier one was
\* cut short.
THEOREM FilesSwitchInStep == Spec => []SwitchedInStep
<1>1. IInv => SwitchedInStep
  BY DEF IInv, SwitchOK, SwitchedInStep, Says, Writing, FileNames
<1> QED
  BY InitIInv, NextIInv, <1>1, PTL DEF Spec

\* The user's own keys survive every order of switches, edits, wizards and kills,
\* but for the two losses that UserKeysKept names.
THEOREM KeysAreKept == Spec => []UserKeysKept
<1>1. IInv => UserKeysKept
  BY DEF IInv
<1> QED
  BY InitIInv, NextIInv, <1>1, PTL DEF Spec

\* A check without a blocking problem means a server that starts with its
\* selection, and where that is the agent, an interpreter that works and
\* something to sign with, for every environment and machine.
THEOREM GreenStarts == Spec => []GreenMeansStartable
<1>1. IInv => GreenMeansStartable
  <2> SUFFICES ASSUME IInv, UpToDate, check.ok PROVE GreenMeansStartable
    BY DEF GreenMeansStartable
  <2>1. Problems(check.env, machine) \subseteq Warnings /\ machine \in MachineStates
    BY DEF IInv, ObservedOK, UpToDate, Shape
  <2>2. UsableEnv(check.env) = UsableEnv(ServerEnv)
    BY DEF UpToDate
  <2> QED
    BY <2>1, <2>2, NoProblemStarts DEF GreenMeansStartable
<1> QED
  BY InitIInv, NextIInv, <1>1, PTL DEF Spec

\* What the check says of the Gemini credentials is so for the door that the
\* server chooses, for every environment and machine; a credential of a type that
\* the check does not know is passed, and may not open it.
THEOREM DoorsAreAsReported == Spec => []DoorIsAsReported
<1>1. IInv => DoorIsAsReported
  <2> SUFFICES ASSUME IInv, UpToDate PROVE DoorIsAsReported
    BY DEF DoorIsAsReported
  <2> DEFINE env == UsableEnv(ServerEnv)
  <2>1. /\ ~Lacks(check.seen, GeminiProblems) => CredentialProblems(env, machine) = {}
        /\ "gemini-credentials-broken" \in check.seen => VertexState(env, machine) = "broken"
        /\ machine \in MachineStates
    BY DEF IInv, ObservedOK, UpToDate, Shape
  <2> HIDE DEF env
  <2>2. ~Lacks(check.seen, GeminiProblems) /\ ~IsSet(env, "backend") =>
          \/ DoorOpens(env, machine)
          \/ GeminiBackend(env, machine) = "vertex-adc"
             /\ CredentialFile(env, machine) \in OfUnknownType
    BY <2>1, NoProblemOpensTheDoor
  <2>3. "gemini-credentials-broken" \in check.seen => ~Signs(env, machine)
    BY <2>1, BrokenCannotSign
  <2> QED
    BY <2>2, <2>3 DEF DoorIsAsReported, GeminiProblems, env
<1> QED
  BY InitIInv, NextIInv, <1>1, PTL DEF Spec
==============================================================================
