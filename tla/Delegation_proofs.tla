-------------------------- MODULE Delegation_proofs --------------------------
(* Proofs about Delegation: any number of calls, stems, files and usages.    *)
EXTENDS Delegation, TLAPS

\* The histories are well typed, and receipts is a function.
HistoryOK ==
    /\ history \in [Calls -> [metered : Usages \cup {None}, alone : BOOLEAN,
                              vague : SUBSET Files,
                              opened : [Files -> Contents \cup {None}],
                              closed : [Files -> Contents \cup {None}]]]
    /\ receipts = [s \in Stems |-> receipts[s]]

\* Where the two sides of a delegation are together: the worker begins with the
\* call, a call is answered after its worker has ended, and only an answer
\* reports success.
Lifecycle ==
    \A c \in Calls :
        /\ calls[c].pc = "idle" => workers[c].state = "none"
        /\ calls[c].success => calls[c].pc = "returned"

\* While a delegation is open and alone, the evidence under its name is its own.
OwnEvidence ==
    \A c \in Calls :
        history[c].alone =>
            /\ workers[c].state = "spawned" => briefs[Stem[c]] = c
            /\ workers[c].state \in {"working", "metered", "done"} => workers[c].brief = c
            /\ workers[c].state \in {"metered", "done"} => history[c].metered \in Usages
            /\ workers[c].state \in {"metered", "done"} /\ Open(c) =>
                 sidecars[Stem[c]] = [author |-> c, usage |-> history[c].metered]
            /\ Open(c) => \A k \in Calls \ {c} : Stem[k] = Stem[c] => ~Open(k)
            /\ calls[c].success =>
                 calls[c].tokens = MapSidecarTokens([author |-> c, usage |-> history[c].metered])

\* The inventory i was taken of ws, and vague tells what of it was not opened.
Took(i, ws, vague) ==
    \E fault \in Faults : i = TakeInventory(ws, fault) /\ fault.vague \subseteq vague

\* The diff is that of walks of the two workspaces.
DiffOf(diff, was, is, vague) ==
    \E before, after \in Inventories :
        /\ Took(before, was, vague) /\ Took(after, is, vague)
        /\ diff = DiffInventories(before, after)

\* The inventory that a call holds is of the workspace it started in.
OwnInventory ==
    \A c \in Calls :
        /\ calls[c].pc = "idle" => calls[c].diff = NoDiff /\ history[c].opened = history[c].closed
        /\ calls[c].pc = "running" => Took(calls[c].before, history[c].opened, history[c].vague)
        /\ calls[c].pc = "returned" =>
              \/ calls[c].diff = NoDiff /\ history[c].opened = history[c].closed
              \/ DiffOf(calls[c].diff, history[c].opened, history[c].closed, history[c].vague)

------------------------------------------------------------------------------
(* Types                                                                     *)

LEMMA FaultType ==
    ASSUME NEW fault \in Faults
    PROVE  fault.lost \subseteq Paths /\ fault.vague \subseteq Files
  BY DelegationAssumption

\* An inventory lists files of the workspace.
LEMMA InventoryType ==
    ASSUME NEW ws \in [Files -> Contents \cup {None}], NEW fault \in Faults
    PROVE  /\ TakeInventory(ws, fault) \in Inventories
           /\ TakeInventory(ws, fault) # None
           /\ DOMAIN TakeInventory(ws, fault).entries \subseteq Files
           /\ TakeInventory(ws, fault).truncated \in BOOLEAN
           /\ TakeInventory(ws, fault).unreadable = fault.lost
<1>1. TakeInventory(ws, fault) \in Inventories
  BY DEF Inventories
<1>2. /\ DOMAIN TakeInventory(ws, fault).entries \subseteq Files
      /\ TakeInventory(ws, fault).truncated \in BOOLEAN
      /\ TakeInventory(ws, fault).unreadable = fault.lost
  BY DEF TakeInventory, Present
<1> QED
  BY <1>1, <1>2, NoneAssumption

\* The difference of two inventories is one of files.
LEMMA DiffType ==
    ASSUME NEW before \in Inventories, NEW after \in Inventories
    PROVE  DiffInventories(before, after) \in Diffs
<1>1. PICK was \in [Files -> Contents \cup {None}], f \in Faults : before = TakeInventory(was, f)
  BY DEF Inventories
<1>2. PICK is \in [Files -> Contents \cup {None}], g \in Faults : after = TakeInventory(is, g)
  BY DEF Inventories
<1>3. DOMAIN before.entries \subseteq Files /\ DOMAIN after.entries \subseteq Files
  BY <1>1, <1>2, InventoryType
<1>4. /\ before.truncated \in BOOLEAN /\ after.truncated \in BOOLEAN
      /\ before.unreadable \subseteq Paths /\ after.unreadable \subseteq Paths
  BY <1>1, <1>2, InventoryType, FaultType
<1> QED
  BY <1>3, <1>4 DEF DiffInventories, Diffs

LEMMA TokensType ==
    ASSUME NEW sidecar \in Sidecars \cup {None}
    PROVE  MapSidecarTokens(sidecar) \in Tokens
<1>1. CASE sidecar = None
  BY <1>1 DEF MapSidecarTokens, Tokens
<1>2. CASE sidecar \in Sidecars
  <2>1. sidecar # None
    BY <1>2, NoneAssumption
  <2>2. sidecar.usage \in [prompt : Nat, cached : Nat, candidates : Nat, thoughts : Nat]
    BY <1>2, DelegationAssumption DEF Sidecars
  <2> QED
    BY <2>1, <2>2 DEF MapSidecarTokens, Tokens
<1> QED
  BY <1>1, <1>2

LEMMA InitType == Init => TypeOK /\ HistoryOK /\ Lifecycle
<1> SUFFICES ASSUME Init PROVE TypeOK /\ HistoryOK /\ Lifecycle
    OBVIOUS
<1>1. workspace \in [Files -> Contents \cup {None}]
  BY DelegationAssumption DEF Init
<1>2. Idle \in CallRecords
  BY TokensType DEF Idle, CallRecords, NoDiff, Diffs
<1>3. /\ briefs \in [Stems -> Calls \cup {None}]
      /\ sidecars \in [Stems -> Sidecars \cup {None}]
      /\ workers \in [Calls -> [state : Alive \cup {"none", "done", "failed"},
                               brief : Calls \cup {None}]]
      /\ helpers \in [Calls -> SUBSET HelperKinds]
      /\ calls \in [Calls -> CallRecords]
  BY <1>2 DEF Init
<1>4. HistoryOK
  BY <1>1 DEF Init, HistoryOK
<1>5. /\ \A c \in Calls : calls[c].pc = "idle" /\ ~calls[c].success
      /\ \A s \in Stems : receipts[s] = None
      /\ DOMAIN receipts = Stems
      /\ \A c \in Calls : workers[c].state = "none"
  BY DEF Init, Idle
<1> QED
  BY <1>1, <1>3, <1>4, <1>5 DEF TypeOK, Lifecycle

TypeInv == TypeOK /\ HistoryOK /\ Lifecycle

WorkerRecords == [state : Alive \cup {"none", "done", "failed"}, brief : Calls \cup {None}]

HistoryRecords == [metered : Usages \cup {None}, alone : BOOLEAN, vague : SUBSET Files,
                   opened : [Files -> Contents \cup {None}],
                   closed : [Files -> Contents \cup {None}]]

\* What TypeInv says of one delegation, and of the rest of the state.
PairOK(call, worker) ==
    /\ call \in CallRecords /\ worker \in WorkerRecords
    /\ call.pc = "running" => call.before # None
    /\ call.success => worker.state = "done" /\ ~call.timedOut /\ call.pc = "returned"
    /\ call.pc = "idle" => worker.state = "none"

PairsOK ==
    /\ calls = [c \in Calls |-> calls[c]] /\ workers = [c \in Calls |-> workers[c]]
    /\ \A c \in Calls : PairOK(calls[c], workers[c])

RestOK ==
    /\ workspace \in [Files -> Contents \cup {None}]
    /\ briefs \in [Stems -> Calls \cup {None}]
    /\ sidecars \in [Stems -> Sidecars \cup {None}]
    /\ history \in [Calls -> HistoryRecords]
    /\ helpers \in [Calls -> SUBSET HelperKinds]
    /\ DOMAIN receipts = Stems /\ receipts = [s \in Stems |-> receipts[s]]
    /\ \A s \in Stems : receipts[s] # None => Stem[receipts[s].call] = s

LEMMA TypeParts == TypeInv <=> PairsOK /\ RestOK
<1>1. TypeInv => RestOK
  BY DEF TypeInv, TypeOK, HistoryOK, RestOK, HistoryRecords
<1>2. TypeInv => PairsOK
  BY DEF TypeInv, TypeOK, Lifecycle, PairsOK, PairOK, WorkerRecords
<1>3. PairsOK /\ RestOK => HistoryOK
  BY DEF HistoryOK, RestOK, HistoryRecords
<1>4. PairsOK => Lifecycle
  BY DEF Lifecycle, PairsOK, PairOK
<1>5. PairsOK => calls \in [Calls -> CallRecords] /\ workers \in [Calls -> WorkerRecords]
  BY DEF PairsOK, PairOK
<1>6. PairsOK /\ RestOK => TypeOK
  BY <1>5 DEF TypeOK, RestOK, PairsOK, PairOK, WorkerRecords
<1> QED
  BY <1>1, <1>2, <1>3, <1>4, <1>6 DEF TypeInv

\* A step that changes one delegation only.
LEMMA OnePair ==
    ASSUME PairsOK, NEW c \in Calls, NEW call, NEW worker, PairOK(call, worker),
           calls' = [calls EXCEPT ![c] = call], workers' = [workers EXCEPT ![c] = worker]
    PROVE  /\ PairsOK'
           /\ calls'[c] = call /\ workers'[c] = worker
           /\ \A k \in Calls \ {c} : calls'[k] = calls[k] /\ workers'[k] = workers[k]
<1>1. /\ calls' = [k \in Calls |-> IF k = c THEN call ELSE calls[k]]
      /\ workers' = [k \in Calls |-> IF k = c THEN worker ELSE workers[k]]
  BY DEF PairsOK
<1> QED
  BY <1>1 DEF PairsOK

\* A call record keeps its type, and its other fields, when one is set.
LEMMA SetPc ==
    ASSUME NEW call \in CallRecords, NEW p \in {"idle", "running", "returned", "lost"},
           NEW r, r = [call EXCEPT !.pc = p]
    PROVE  /\ r \in CallRecords /\ r.pc = p /\ r.before = call.before
           /\ r.timedOut = call.timedOut /\ r.success = call.success
           /\ r.tokens = call.tokens /\ r.diff = call.diff
  BY DEF CallRecords

LEMMA SetTimedOut ==
    ASSUME NEW call \in CallRecords, NEW r, r = [call EXCEPT !.timedOut = TRUE]
    PROVE  /\ r \in CallRecords /\ r.pc = call.pc /\ r.before = call.before
           /\ r.timedOut /\ r.success = call.success
           /\ r.tokens = call.tokens /\ r.diff = call.diff
  BY DEF CallRecords

Running(call, i) == [call EXCEPT !.pc = "running", !.before = i]

Answered(call, s, t, d) ==
    [call EXCEPT !.pc = "returned", !.success = s, !.tokens = t, !.diff = d]

LEMMA SetRunning ==
    ASSUME NEW call \in CallRecords, NEW i \in Inventories,
           NEW r, r = Running(call, i)
    PROVE  /\ r \in CallRecords /\ r.pc = "running" /\ r.before = i
           /\ r.timedOut = call.timedOut /\ r.success = call.success
           /\ r.tokens = call.tokens /\ r.diff = call.diff
  BY DEF CallRecords, Running

LEMMA SetAnswer ==
    ASSUME NEW call \in CallRecords,
           NEW s \in BOOLEAN, NEW t \in Tokens, NEW d \in Diffs,
           NEW r, r = Answered(call, s, t, d)
    PROVE  /\ r \in CallRecords /\ r.pc = "returned" /\ r.before = call.before
           /\ r.timedOut = call.timedOut /\ r.success = s /\ r.tokens = t /\ r.diff = d
  BY DEF CallRecords, Answered

\* A history keeps its type when its parts do.
LEMMA SetHistory ==
    ASSUME NEW h \in HistoryRecords,
           NEW b \in BOOLEAN, NEW ws \in [Files -> Contents \cup {None}],
           NEW v \in SUBSET Files
    PROVE  /\ \A u \in Usages : [h EXCEPT !.metered = u] \in HistoryRecords
           /\ [h EXCEPT !.opened = ws, !.alone = b, !.vague = v] \in HistoryRecords
           /\ [h EXCEPT !.alone = b] \in HistoryRecords
           /\ [h EXCEPT !.closed = ws, !.vague = @ \cup v] \in HistoryRecords
  BY DEF HistoryRecords

\* The same for a worker's state.
LEMMA WorkerUpdate ==
    ASSUME NEW worker \in WorkerRecords, NEW state \in Alive \cup {"none", "done", "failed"}
    PROVE  /\ [worker EXCEPT !.state = state] \in WorkerRecords
           /\ [worker EXCEPT !.state = state].state = state
           /\ [worker EXCEPT !.state = state].brief = worker.brief
  BY DEF WorkerRecords

LEMMA NextType == TypeInv /\ [Next]_vars => TypeInv'
<1> SUFFICES ASSUME PairsOK, RestOK, [Next]_vars
             PROVE  PairsOK' /\ RestOK'
    BY TypeParts, PTL
<1> USE DelegationAssumption
<1>0. /\ \A c \in Calls : calls[c] \in CallRecords /\ workers[c] \in WorkerRecords
      /\ \A c \in Calls : PairOK(calls[c], workers[c])
      /\ calls = [c \in Calls |-> calls[c]] /\ workers = [c \in Calls |-> workers[c]]
  BY DEF PairsOK, PairOK
<1>1. ASSUME NEW c \in Calls, Refuse(c)
      PROVE  PairsOK' /\ RestOK'
  <2> DEFINE call == [calls[c] EXCEPT !.pc = "returned"]
  <2>1. RestOK'
    BY <1>1 DEF Refuse, RestOK
  <2>2. calls' = [calls EXCEPT ![c] = call] /\ workers' = [workers EXCEPT ![c] = workers[c]]
    BY <1>0, <1>1 DEF Refuse
  <2>3. /\ call \in CallRecords /\ call.pc = "returned"
        /\ call.timedOut = calls[c].timedOut /\ call.success = calls[c].success
    BY <1>0, SetPc
  <2> HIDE DEF call
  <2>4. PairOK(call, workers[c])
    BY <1>0, <2>3 DEF PairOK
  <2> QED
    BY <2>1, <2>2, <2>4, OnePair
<1>2. ASSUME NEW c \in Calls, Start(c)
      PROVE  PairsOK' /\ RestOK'
  <2> DEFINE sharing == {k \in Calls \ {c} : Stem[k] = Stem[c] /\ Open(k)}
  <2>a. PICK fault \in Faults :
          /\ calls' = [calls EXCEPT ![c].pc = "running",
                                    ![c].before = TakeInventory(workspace, fault)]
          /\ history' = [k \in Calls |->
                     IF k = c THEN [history[c] EXCEPT !.opened = workspace,
                                                      !.alone = sharing = {},
                                                      !.vague = fault.vague]
                     ELSE IF k \in sharing THEN [history[k] EXCEPT !.alone = FALSE]
                     ELSE history[k]]
    BY <1>2 DEF Start, FaultsOf
  <2> DEFINE call == Running(calls[c], TakeInventory(workspace, fault))
  <2>1. TakeInventory(workspace, fault) \in Inventories /\ TakeInventory(workspace, fault) # None
    BY InventoryType DEF RestOK
  <2>2. calls' = [calls EXCEPT ![c] = call]
    BY <2>a DEF Running
  <2>3. PICK state \in {"spawned", "failed"} : workers' = [workers EXCEPT ![c].state = state]
    BY <1>2 DEF Start
  <2> DEFINE worker == [workers[c] EXCEPT !.state = state]
  <2>4. workers' = [workers EXCEPT ![c] = worker]
    BY <2>3
  <2>5. /\ call \in CallRecords /\ call.pc = "running" /\ call.before # None
        /\ call.success = calls[c].success
    BY <1>0, <2>1, SetRunning
  <2>6. worker \in WorkerRecords
    BY <1>0, WorkerUpdate DEF Alive
  <2>7. calls[c].pc = "idle" /\ ~calls[c].success
    BY <1>0, <1>2 DEF Start, PairOK
  <2> HIDE DEF call, worker
  <2>8. PairOK(call, worker)
    BY <2>5, <2>6, <2>7 DEF PairOK
  <2>9. history' \in [Calls -> HistoryRecords]
    <3>1. fault.vague \subseteq Files
      BY FaultType
    <3>2. [history[c] EXCEPT !.opened = workspace, !.alone = sharing = {},
                             !.vague = fault.vague] \in HistoryRecords
      BY <3>1, SetHistory DEF RestOK
    <3>3. \A k \in Calls : [history[k] EXCEPT !.alone = FALSE] \in HistoryRecords
      BY SetHistory DEF RestOK
    <3> QED
      BY <2>a, <3>2, <3>3 DEF RestOK
  <2>10. briefs' \in [Stems -> Calls \cup {None}]
    BY <1>2 DEF Start, RestOK
  <2>11. RestOK'
    <3>1. UNCHANGED <<workspace, sidecars, receipts, helpers>>
      BY <1>2 DEF Start
    <3> QED
      BY <2>9, <2>10, <3>1 DEF RestOK
  <2> QED
    BY <2>2, <2>4, <2>8, <2>11, OnePair
<1>3. ASSUME NEW c \in Calls, ReadBrief(c)
      PROVE  PairsOK' /\ RestOK'
  <2> DEFINE worker == [state |-> "working", brief |-> briefs[Stem[c]]]
  <2>1. RestOK'
    BY <1>3 DEF ReadBrief, RestOK
  <2>2. calls' = [calls EXCEPT ![c] = calls[c]] /\ workers' = [workers EXCEPT ![c] = worker]
    BY <1>0, <1>3 DEF ReadBrief
  <2>3. worker \in WorkerRecords
    BY DEF WorkerRecords, RestOK, Alive
  <2>4. PairOK(calls[c], worker)
    BY <1>0, <1>3, <2>3 DEF PairOK, ReadBrief
  <2> QED
    BY <2>1, <2>2, <2>4, OnePair
<1>4. ASSUME NEW c \in Calls, Edit(c)
      PROVE  PairsOK' /\ RestOK'
  <2>1. workspace' \in [Files -> Contents \cup {None}]
    BY <1>4 DEF Edit, RestOK
  <2>2. RestOK'
    BY <1>4, <2>1 DEF Edit, RestOK
  <2>3. PairsOK'
    BY <1>4 DEF Edit, PairsOK
  <2> QED
    BY <2>2, <2>3
<1>5. ASSUME NEW c \in Calls, Meter(c)
      PROVE  PairsOK' /\ RestOK'
  <2> DEFINE worker == [workers[c] EXCEPT !.state = "metered"]
  <2>1. PICK u \in Usages :
          /\ sidecars' = [sidecars EXCEPT ![Stem[c]] = [author |-> c, usage |-> u]]
          /\ history' = [history EXCEPT ![c].metered = u]
    BY <1>5 DEF Meter
  <2>2. sidecars' \in [Stems -> Sidecars \cup {None}]
    BY <2>1 DEF Sidecars, RestOK
  <2>3. history' \in [Calls -> HistoryRecords]
    BY <2>1, SetHistory DEF RestOK
  <2>4. RestOK'
    BY <1>5, <2>2, <2>3 DEF Meter, RestOK
  <2>5. calls' = [calls EXCEPT ![c] = calls[c]] /\ workers' = [workers EXCEPT ![c] = worker]
    BY <1>0, <1>5 DEF Meter
  <2>6. worker \in WorkerRecords
    BY <1>0, WorkerUpdate DEF Alive
  <2> HIDE DEF worker
  <2>7. PairOK(calls[c], worker)
    BY <1>0, <1>5, <2>6 DEF PairOK, Meter
  <2> QED
    BY <2>4, <2>5, <2>7, OnePair
<1>6. ASSUME NEW c \in Calls, Exit(c)
      PROVE  PairsOK' /\ RestOK'
  <2>1. PICK state \in {"done", "failed"} :
          workers' = [workers EXCEPT ![c].state = state] /\ workers[c].state \in Alive
    BY <1>6 DEF Exit, Alive
  <2> DEFINE worker == [workers[c] EXCEPT !.state = state]
  <2>2. RestOK'
    BY <1>6 DEF Exit, RestOK
  <2>3. calls' = [calls EXCEPT ![c] = calls[c]] /\ workers' = [workers EXCEPT ![c] = worker]
    BY <1>0, <1>6, <2>1 DEF Exit
  <2>4. worker \in WorkerRecords
    BY <1>0, WorkerUpdate
  <2> HIDE DEF worker
  <2>5. PairOK(calls[c], worker)
    BY <1>0, <2>1, <2>4 DEF PairOK, Alive
  <2> QED
    BY <2>2, <2>3, <2>5, OnePair
<1>7. ASSUME NEW c \in Calls, Deadline(c)
      PROVE  PairsOK' /\ RestOK'
  <2> DEFINE call == [calls[c] EXCEPT !.timedOut = TRUE]
  <2>1. PICK worker \in WorkerRecords :
          /\ workers' = [workers EXCEPT ![c] = worker]
          /\ worker = workers[c] \/ worker.state = "failed"
    <3>1. [workers[c] EXCEPT !.state = "failed"] \in WorkerRecords
          /\ [workers[c] EXCEPT !.state = "failed"].state = "failed"
      BY <1>0, WorkerUpdate
    <3> QED
      BY <1>0, <1>7, <3>1 DEF Deadline
  <2>2. sidecars' \in [Stems -> Sidecars \cup {None}]
    BY <1>7 DEF Deadline, RestOK
  <2>3. RestOK'
    BY <1>7, <2>2 DEF Deadline, RestOK
  <2>4. calls' = [calls EXCEPT ![c] = call]
    BY <1>7 DEF Deadline
  <2>5. /\ call \in CallRecords /\ call.pc = calls[c].pc /\ call.before = calls[c].before
        /\ call.success = calls[c].success
    BY <1>0, SetTimedOut
  <2>6. calls[c].pc = "running"
    BY <1>7 DEF Deadline
  <2> HIDE DEF call
  <2>7. PairOK(call, worker)
    BY <1>0, <2>5, <2>6 DEF PairOK
  <2> QED
    BY <2>1, <2>3, <2>4, <2>7, OnePair
<1>8. ASSUME NEW c \in Calls, Close(c)
      PROVE  PairsOK' /\ RestOK'
  <2>a. PICK fault \in Faults :
          LET success == workers[c].state = "done" /\ ~calls[c].timedOut
              tokens  == TokensOf(c)
              diff    == DiffInventories(calls[c].before, TakeInventory(workspace, fault))
          IN  /\ calls' = [calls EXCEPT ![c] = [@ EXCEPT !.pc = "returned", !.success = success,
                                                          !.tokens = tokens, !.diff = diff]]
              /\ receipts' \in {receipts,
                                [receipts EXCEPT ![Stem[c]] =
                                   [call |-> c, success |-> success, tokens |-> tokens,
                                    sidecar |-> sidecars[Stem[c]], diff |-> diff]]}
              /\ history' = [history EXCEPT ![c].closed = workspace,
                                            ![c].vague = @ \cup fault.vague]
    BY <1>8 DEF Close, FaultsOf
  <2> DEFINE diff    == DiffInventories(calls[c].before, TakeInventory(workspace, fault))
             success == workers[c].state = "done" /\ ~calls[c].timedOut
             tokens  == TokensOf(c)
             receipt == [call |-> c, success |-> success, tokens |-> tokens,
                         sidecar |-> sidecars[Stem[c]], diff |-> diff]
             call    == Answered(calls[c], success, tokens, diff)
  <2>1. calls[c].before \in Inventories
    BY <1>0, <1>8 DEF Close, PairOK, CallRecords
  <2>2. diff \in Diffs
    BY <2>1, InventoryType, DiffType DEF RestOK
  <2>3. tokens \in Tokens
    BY TokensType DEF TokensOf, RestOK
  <2>4. calls' = [calls EXCEPT ![c] = call] /\ workers' = [workers EXCEPT ![c] = workers[c]]
    BY <1>0, <1>8, <2>a DEF Close, Answered
  <2>5. receipts' = receipts \/ receipts' = [receipts EXCEPT ![Stem[c]] = receipt]
    BY <2>a
  <2>6. receipt.call = c /\ success \in BOOLEAN
    OBVIOUS
  <2>7. success => workers[c].state = "done" /\ ~calls[c].timedOut
    OBVIOUS
  <2> HIDE DEF diff, success, tokens, receipt
  <2>8. /\ call \in CallRecords /\ call.pc = "returned" /\ call.success = success
        /\ call.timedOut = calls[c].timedOut
    BY <1>0, <2>2, <2>3, <2>6, SetAnswer
  <2> HIDE DEF call
  <2>9. PairOK(call, workers[c])
    BY <1>0, <2>7, <2>8 DEF PairOK
  <2>10. history' \in [Calls -> HistoryRecords]
    <3>1. [history[c] EXCEPT !.closed = workspace, !.vague = @ \cup fault.vague] \in HistoryRecords
      BY SetHistory, FaultType DEF RestOK
    <3>2. history' = [history EXCEPT ![c] = [history[c] EXCEPT !.closed = workspace,
                                                               !.vague = @ \cup fault.vague]]
      BY <2>a
    <3> QED
      BY <3>1, <3>2 DEF RestOK
  <2>11. /\ DOMAIN receipts' = Stems
         /\ receipts' = [s \in Stems |-> receipts'[s]]
         /\ \A s \in Stems : receipts'[s] # None => Stem[receipts'[s].call] = s
    BY <2>5, <2>6 DEF RestOK
  <2>12. RestOK'
    BY <1>8, <2>10, <2>11 DEF Close, RestOK
  <2> QED
    BY <2>4, <2>9, <2>12, OnePair
<1>9. CASE Crash
  <2>1. RestOK'
    BY <1>9 DEF Crash, RestOK
  <2>2. \A c \in Calls : calls'[c] = IF calls[c].pc = "running"
                                     THEN [calls[c] EXCEPT !.pc = "lost"] ELSE calls[c]
    BY <1>9 DEF Crash
  <2>3. \A c \in Calls : PairOK(calls'[c], workers[c])
    <3> SUFFICES ASSUME NEW c \in Calls PROVE PairOK(calls'[c], workers[c])
        OBVIOUS
    <3>1. CASE calls[c].pc # "running"
      BY <1>0, <2>2, <3>1
    <3>2. CASE calls[c].pc = "running"
      <4> DEFINE call == [calls[c] EXCEPT !.pc = "lost"]
      <4>1. /\ call \in CallRecords /\ call.pc = "lost"
            /\ call.success = calls[c].success
        BY <1>0, SetPc
      <4>2. calls'[c] = call
        BY <2>2, <3>2
      <4> HIDE DEF call
      <4> QED
        BY <1>0, <3>2, <4>1, <4>2 DEF PairOK
    <3> QED
      BY <3>1, <3>2
  <2>4. calls' = [c \in Calls |-> calls'[c]] /\ UNCHANGED workers
    BY <1>9 DEF Crash
  <2>5. PairsOK'
    BY <1>0, <2>3, <2>4 DEF PairsOK
  <2> QED
    BY <2>1, <2>5
<1>10. CASE UNCHANGED vars
  BY <1>10 DEF vars, PairsOK, RestOK
<1>11. ASSUME NEW c \in Calls, Launch(c) \/ HelperEnds(c)
       PROVE  PairsOK' /\ RestOK'
  <2>1. helpers' \in [Calls -> SUBSET HelperKinds]
    BY <1>11 DEF Launch, HelperEnds, RestOK
  <2>2. RestOK'
    BY <1>11, <2>1 DEF Launch, HelperEnds, RestOK
  <2>3. PairsOK'
    BY <1>11 DEF Launch, HelperEnds, PairsOK
  <2> QED
    BY <2>2, <2>3
<1> QED
  BY <1>1, <1>2, <1>3, <1>4, <1>5, <1>6, <1>7, <1>8, <1>9, <1>10, <1>11 DEF Next

\* The types of Delegation's state hold in every state, for any number of calls
\* that share stems and a workspace: a success has ended well before its timer,
\* and a receipt lies under the stem of its own packet.
THEOREM TypeCorrect == Spec => []TypeOK
<1>1. Init => TypeInv
  BY InitType DEF TypeInv
<1>2. TypeInv => TypeOK
  BY DEF TypeInv
<1> QED
  BY <1>1, <1>2, NextType, PTL DEF Spec

------------------------------------------------------------------------------
(* What each action does, field by field.                                    *)

LEMMA Shapes ==
    ASSUME TypeInv
    PROVE  /\ DOMAIN calls = Calls /\ DOMAIN workers = Calls /\ DOMAIN history = Calls
           /\ DOMAIN briefs = Stems /\ DOMAIN sidecars = Stems /\ DOMAIN helpers = Calls
           /\ \A c \in Calls :
                /\ Stem[c] \in Stems
                /\ DOMAIN calls[c] = {"pc", "before", "timedOut", "success", "tokens", "diff"}
                /\ DOMAIN workers[c] = {"state", "brief"}
                /\ DOMAIN history[c] = {"metered", "alone", "vague", "opened", "closed"}
<1>1. /\ calls \in [Calls -> CallRecords] /\ workers \in [Calls -> WorkerRecords]
      /\ RestOK /\ Stem \in [Calls -> Stems]
  BY TypeParts, DelegationAssumption DEF TypeInv, TypeOK, WorkerRecords
<1>2. \A r \in CallRecords :
         DOMAIN r = {"pc", "before", "timedOut", "success", "tokens", "diff"}
  BY DEF CallRecords
<1>3. \A r \in WorkerRecords : DOMAIN r = {"state", "brief"}
  BY DEF WorkerRecords
<1>4. \A r \in HistoryRecords : DOMAIN r = {"metered", "alone", "vague", "opened", "closed"}
  BY DEF HistoryRecords
<1> QED
  BY <1>1, <1>2, <1>3, <1>4 DEF RestOK

\* The delegation of k is as it was.
Same(k) == calls'[k] = calls[k] /\ workers'[k] = workers[k] /\ history'[k] = history[k]

\* All that c's call holds but where it stands and whether its timer has fired.
SameAnswer(c) ==
    /\ calls'[c].before = calls[c].before /\ calls'[c].success = calls[c].success
    /\ calls'[c].tokens = calls[c].tokens /\ calls'[c].diff = calls[c].diff

SameHistory(k) ==
    /\ history'[k].metered = history[k].metered /\ history'[k].vague = history[k].vague
    /\ history'[k].opened = history[k].opened /\ history'[k].closed = history[k].closed

LEMMA RefuseEffect ==
    ASSUME TypeInv, NEW c \in Calls, Refuse(c)
    PROVE  /\ \A k \in Calls \ {c} : Same(k)
           /\ calls[c].pc = "idle" /\ calls'[c].pc = "returned" /\ SameAnswer(c)
           /\ calls'[c].timedOut = calls[c].timedOut
           /\ UNCHANGED <<workspace, briefs, sidecars, workers, helpers, history>>
  BY Shapes DEF Refuse, Same, SameAnswer

LEMMA StartEffect ==
    ASSUME TypeInv, NEW c \in Calls, Start(c)
    PROVE  /\ \A k \in Calls \ {c} :
                /\ calls'[k] = calls[k] /\ workers'[k] = workers[k] /\ SameHistory(k)
                /\ history'[k].alone => history[k].alone /\ ~(Stem[k] = Stem[c] /\ Open(k))
           /\ calls[c].pc = "idle" /\ calls'[c].pc = "running"
           /\ \E fault \in Faults : /\ calls'[c].before = TakeInventory(workspace, fault)
                                    /\ history'[c].vague = fault.vague
           /\ calls'[c].success = calls[c].success /\ calls'[c].tokens = calls[c].tokens
           /\ calls'[c].diff = calls[c].diff /\ calls'[c].timedOut = calls[c].timedOut
           /\ workers'[c].state \in {"spawned", "failed"}
           /\ history'[c].opened = workspace
           /\ history'[c].alone => \A k \in Calls \ {c} : ~(Stem[k] = Stem[c] /\ Open(k))
           /\ briefs'[Stem[c]] = c
           /\ \A s \in Stems \ {Stem[c]} : briefs'[s] = briefs[s]
           /\ UNCHANGED <<workspace, sidecars, helpers>>
<1> DEFINE sharing == {k \in Calls \ {c} : Stem[k] = Stem[c] /\ Open(k)}
<1>1. PICK fault \in Faults :
        /\ calls' = [calls EXCEPT ![c].pc = "running",
                                  ![c].before = TakeInventory(workspace, fault)]
        /\ history' = [k \in Calls |->
                     IF k = c THEN [history[c] EXCEPT !.opened = workspace,
                                                      !.alone = sharing = {},
                                                      !.vague = fault.vague]
                     ELSE IF k \in sharing THEN [history[k] EXCEPT !.alone = FALSE]
                     ELSE history[k]]
  BY DEF Start, FaultsOf
<1>2. \A k \in Calls \ {c} :
        /\ SameHistory(k)
        /\ history'[k].alone => history[k].alone /\ k \notin sharing
  <2> SUFFICES ASSUME NEW k \in Calls \ {c} PROVE <1>2!(k)
      OBVIOUS
  <2>1. CASE k \in sharing
    BY <1>1, <2>1, Shapes DEF SameHistory
  <2>2. CASE k \notin sharing
    BY <1>1, <2>2 DEF SameHistory
  <2> QED
    BY <2>1, <2>2
<1>3. /\ history'[c].opened = workspace /\ (history'[c].alone => sharing = {})
      /\ history'[c].vague = fault.vague
  BY <1>1, Shapes
<1> DEFINE inventory == TakeInventory(workspace, fault)
<1>a. calls' = [calls EXCEPT ![c].pc = "running", ![c].before = inventory]
  BY <1>1
<1>b. calls[c].pc = "idle"
  BY DEF Start
<1> HIDE DEF inventory
<1>4. /\ \A k \in Calls \ {c} : calls'[k] = calls[k]
      /\ calls[c].pc = "idle" /\ calls'[c].pc = "running"
      /\ calls'[c].before = inventory
      /\ calls'[c].success = calls[c].success /\ calls'[c].tokens = calls[c].tokens
      /\ calls'[c].diff = calls[c].diff /\ calls'[c].timedOut = calls[c].timedOut
  BY <1>a, <1>b, Shapes
<1>5. /\ \A k \in Calls \ {c} : workers'[k] = workers[k]
      /\ workers'[c].state \in {"spawned", "failed"}
  BY Shapes DEF Start
<1>6. /\ briefs'[Stem[c]] = c
      /\ \A s \in Stems \ {Stem[c]} : briefs'[s] = briefs[s]
      /\ UNCHANGED <<workspace, sidecars, helpers>>
  BY Shapes DEF Start
<1> QED
  BY <1>2, <1>3, <1>4, <1>5, <1>6 DEF inventory

LEMMA ReadBriefEffect ==
    ASSUME TypeInv, NEW c \in Calls, ReadBrief(c)
    PROVE  /\ \A k \in Calls \ {c} : Same(k)
           /\ workers[c].state = "spawned" /\ workers'[c].state = "working"
           /\ workers'[c].brief = briefs[Stem[c]]
           /\ UNCHANGED <<workspace, briefs, sidecars, calls, helpers, history>>
  BY Shapes DEF ReadBrief, Same

LEMMA EditEffect ==
    ASSUME NEW c \in Calls, Edit(c)
    PROVE  UNCHANGED <<briefs, sidecars, calls, workers, helpers, history>>
  BY DEF Edit

LEMMA HelperEffect ==
    ASSUME TypeInv, NEW c \in Calls, Launch(c) \/ HelperEnds(c)
    PROVE  /\ \A k \in Calls \ {c} : helpers'[k] = helpers[k]
           /\ helpers'[c] \subseteq helpers[c] \/ workers[c].state = "working"
           /\ UNCHANGED <<workspace, briefs, sidecars, calls, workers, history>>
  BY Shapes DEF Launch, HelperEnds

LEMMA MeterEffect ==
    ASSUME TypeInv, NEW c \in Calls, Meter(c)
    PROVE  /\ \A k \in Calls \ {c} : Same(k)
           /\ workers[c].state = "working" /\ workers'[c].state = "metered"
           /\ workers'[c].brief = workers[c].brief
           /\ history'[c].metered \in Usages /\ history'[c].alone = history[c].alone
           /\ history'[c].vague = history[c].vague
           /\ history'[c].opened = history[c].opened /\ history'[c].closed = history[c].closed
           /\ sidecars'[Stem[c]] = [author |-> c, usage |-> history'[c].metered]
           /\ \A s \in Stems \ {Stem[c]} : sidecars'[s] = sidecars[s]
           /\ UNCHANGED <<workspace, briefs, calls, helpers>>
<1>1. PICK u \in Usages :
        /\ sidecars' = [sidecars EXCEPT ![Stem[c]] = [author |-> c, usage |-> u]]
        /\ history' = [history EXCEPT ![c].metered = u]
  BY DEF Meter
<1>2. /\ history'[c].metered = u /\ history'[c].alone = history[c].alone
      /\ history'[c].opened = history[c].opened /\ history'[c].closed = history[c].closed
      /\ history'[c].vague = history[c].vague
      /\ \A k \in Calls \ {c} : history'[k] = history[k]
  BY <1>1, Shapes
<1>3. /\ sidecars'[Stem[c]] = [author |-> c, usage |-> u]
      /\ \A s \in Stems \ {Stem[c]} : sidecars'[s] = sidecars[s]
  BY <1>1, Shapes
<1>4. /\ workers[c].state = "working" /\ workers'[c].state = "metered"
      /\ workers'[c].brief = workers[c].brief
      /\ \A k \in Calls \ {c} : workers'[k] = workers[k]
  BY Shapes DEF Meter
<1> QED
  BY <1>2, <1>3, <1>4 DEF Meter, Same

LEMMA ExitEffect ==
    ASSUME TypeInv, NEW c \in Calls, Exit(c)
    PROVE  /\ \A k \in Calls \ {c} : Same(k)
           /\ workers[c].state \in Alive /\ workers'[c].state \in {"done", "failed"}
           /\ workers'[c].state = "done" => workers[c].state = "metered"
           /\ workers'[c].brief = workers[c].brief
           /\ UNCHANGED <<workspace, briefs, sidecars, calls, helpers, history>>
  BY Shapes DEF Exit, Same, Alive

LEMMA DeadlineEffect ==
    ASSUME TypeInv, NEW c \in Calls, Deadline(c)
    PROVE  /\ \A k \in Calls \ {c} : Same(k)
           /\ calls[c].pc = "running" /\ calls'[c].pc = "running" /\ SameAnswer(c)
           /\ workers'[c] = workers[c] \/ workers'[c].state = "failed"
           /\ UNCHANGED sidecars \/ workers'[c].state = "failed"
           /\ workers'[c].state \notin Alive
           /\ helpers'[c] = {} /\ \A k \in Calls \ {c} : helpers'[k] = helpers[k]
           /\ \A s \in Stems \ {Stem[c]} : sidecars'[s] = sidecars[s]
           /\ UNCHANGED <<workspace, briefs, history>>
<1>1. /\ calls[c].pc = "running" /\ calls'[c].pc = "running" /\ SameAnswer(c)
      /\ \A k \in Calls \ {c} : calls'[k] = calls[k]
      /\ UNCHANGED <<workspace, briefs, history>>
  BY Shapes DEF Deadline, SameAnswer
<1>2. /\ workers'[c] = workers[c] \/ workers'[c].state = "failed"
      /\ UNCHANGED sidecars \/ workers'[c].state = "failed"
      /\ \A k \in Calls \ {c} : workers'[k] = workers[k]
      /\ \A s \in Stems \ {Stem[c]} : sidecars'[s] = sidecars[s]
  BY Shapes DEF Deadline
<1>3. workers'[c].state \notin Alive
  BY Shapes DEF Deadline, Alive
<1>4. helpers'[c] = {} /\ \A k \in Calls \ {c} : helpers'[k] = helpers[k]
  BY Shapes DEF Deadline
<1> QED
  BY <1>1, <1>2, <1>3, <1>4 DEF Same

LEMMA CloseEffect ==
    ASSUME TypeInv, NEW c \in Calls, Close(c)
    PROVE  /\ \A k \in Calls \ {c} : Same(k)
           /\ calls[c].pc = "running" /\ calls'[c].pc = "returned"
           /\ workers[c].state \in {"done", "failed"} /\ "attached" \notin helpers[c]
           /\ calls'[c].success => workers[c].state = "done"
           /\ calls'[c].timedOut = calls[c].timedOut
           /\ calls'[c].tokens = MapSidecarTokens(sidecars[Stem[c]])
           /\ \E fault \in Faults :
                /\ calls'[c].diff =
                     DiffInventories(calls[c].before, TakeInventory(workspace, fault))
                /\ history'[c].vague = history[c].vague \cup fault.vague
           /\ history'[c].metered = history[c].metered /\ history'[c].alone = history[c].alone
           /\ history'[c].opened = history[c].opened /\ history'[c].closed = workspace
           /\ UNCHANGED <<workspace, briefs, sidecars, workers, helpers>>
<1> DEFINE success == workers[c].state = "done" /\ ~calls[c].timedOut
           tokens == TokensOf(c)
<1>1. /\ calls[c].pc = "running" /\ workers[c].state \in {"done", "failed"}
      /\ "attached" \notin helpers[c]
      /\ UNCHANGED <<workspace, briefs, sidecars, workers, helpers>>
  BY DEF Close
<1>a. PICK fault \in Faults :
        LET diff == DiffInventories(calls[c].before, TakeInventory(workspace, fault))
        IN  /\ calls' = [calls EXCEPT ![c] = [@ EXCEPT !.pc = "returned", !.success = success,
                                                        !.tokens = tokens, !.diff = diff]]
            /\ history' = [history EXCEPT ![c].closed = workspace,
                                          ![c].vague = @ \cup fault.vague]
  BY DEF Close, FaultsOf
<1> DEFINE diff == DiffInventories(calls[c].before, TakeInventory(workspace, fault))
<1>b. /\ calls' = [calls EXCEPT ![c] = [@ EXCEPT !.pc = "returned", !.success = success,
                                                !.tokens = tokens, !.diff = diff]]
      /\ history' = [history EXCEPT ![c].closed = workspace,
                                    ![c].vague = @ \cup fault.vague]
  BY <1>a
<1>2. tokens = MapSidecarTokens(sidecars[Stem[c]])
  BY DEF TokensOf
<1>3. success => workers[c].state = "done"
  OBVIOUS
<1> HIDE DEF diff, success, tokens
<1>4. /\ calls'[c].pc = "returned" /\ calls'[c].success = success
      /\ calls'[c].tokens = tokens /\ calls'[c].diff = diff
      /\ calls'[c].timedOut = calls[c].timedOut
      /\ \A k \in Calls \ {c} : calls'[k] = calls[k]
  BY <1>b, Shapes
<1>5. /\ history'[c].metered = history[c].metered /\ history'[c].alone = history[c].alone
      /\ history'[c].opened = history[c].opened /\ history'[c].closed = workspace
      /\ history'[c].vague = history[c].vague \cup fault.vague
      /\ \A k \in Calls \ {c} : history'[k] = history[k]
  BY <1>b, Shapes
<1> QED
  BY <1>1, <1>2, <1>3, <1>4, <1>5 DEF Same, diff

LEMMA CrashEffect ==
    ASSUME TypeInv, Crash
    PROVE  /\ \A k \in Calls : /\ SameAnswer(k)
                               /\ \/ calls'[k].pc = calls[k].pc
                                  \/ calls[k].pc = "running" /\ calls'[k].pc = "lost"
                               /\ calls'[k].timedOut = calls[k].timedOut
           /\ UNCHANGED <<workspace, briefs, sidecars, workers, helpers, history>>
  BY Shapes DEF Crash, SameAnswer

------------------------------------------------------------------------------
(* Who may outlive an answer.                                                *)

\* What TimeoutLeavesNobody says of one delegation; before its start it has neither
\* a timer nor a group.
Left(c) ==
    /\ calls[c].timedOut => workers[c].state \notin Alive /\ helpers[c] = {}
    /\ calls[c].pc = "returned" => workers[c].state \notin Alive /\ "attached" \notin helpers[c]
    /\ calls[c].pc = "idle" => ~calls[c].timedOut /\ helpers[c] = {}

\* Only a worker that lives launches a helper, only a call that waits has a timer
\* or is answered, and the timer leaves neither a worker nor a helper.
LEMMA NextLeft ==
    TypeInv /\ (\A c \in Calls : Left(c)) /\ [Next]_vars => (\A c \in Calls : Left(c))'
<1> SUFFICES ASSUME TypeInv, \A c \in Calls : Left(c), [Next]_vars, NEW k \in Calls
             PROVE  Left(k)'
    OBVIOUS
<1> USE DEF Left, Alive
<1>0. Left(k) /\ (calls[k].pc = "idle" => workers[k].state = "none")
  BY DEF TypeInv, Lifecycle
<1>1. ASSUME NEW c \in Calls, Refuse(c) PROVE Left(k)'
  BY <1>0, <1>1, RefuseEffect DEF Same
<1>2. ASSUME NEW c \in Calls, Start(c) PROVE Left(k)'
  BY <1>0, <1>2, StartEffect
<1>3. ASSUME NEW c \in Calls, ReadBrief(c) PROVE Left(k)'
  BY <1>0, <1>3, ReadBriefEffect DEF Same
<1>4. ASSUME NEW c \in Calls, Edit(c) PROVE Left(k)'
  BY <1>0, <1>4, EditEffect
<1>5. ASSUME NEW c \in Calls, Meter(c) PROVE Left(k)'
  BY <1>0, <1>5, MeterEffect DEF Same
<1>6. ASSUME NEW c \in Calls, Exit(c) PROVE Left(k)'
  BY <1>0, <1>6, ExitEffect DEF Same
<1>7. ASSUME NEW c \in Calls, Deadline(c) PROVE Left(k)'
  BY <1>0, <1>7, DeadlineEffect DEF Same
<1>8. ASSUME NEW c \in Calls, Close(c) PROVE Left(k)'
  BY <1>0, <1>8, CloseEffect DEF Same
<1>9. CASE Crash
  BY <1>0, <1>9, CrashEffect
<1>10. CASE UNCHANGED vars
  BY <1>0, <1>10 DEF vars
<1>11. ASSUME NEW c \in Calls, Launch(c) \/ HelperEnds(c) PROVE Left(k)'
  BY <1>0, <1>11, HelperEffect
<1> QED
  BY <1>1, <1>2, <1>3, <1>4, <1>5, <1>6, <1>7, <1>8, <1>9, <1>10, <1>11 DEF Next

\* Once the kill timer of a delegation has fired, nothing of it goes on, not even a
\* command whose worker had already ended; an answer in time leaves neither the
\* worker nor a command that holds its pipes, however exits, closes, deadlines and
\* deaths of the server are ordered.
THEOREM TimeoutEndsTheGroup == Spec => []TimeoutLeavesNobody
<1>1. Init => TypeInv /\ \A c \in Calls : Left(c)
  BY InitType DEF TypeInv, Left, Init, Idle
<1>2. TypeInv /\ (\A c \in Calls : Left(c)) /\ [Next]_vars
         => TypeInv' /\ (\A c \in Calls : Left(c))'
  BY NextType, NextLeft
<1>3. (\A c \in Calls : Left(c)) => TimeoutLeavesNobody
  BY DEF Left, TimeoutLeavesNobody
<1> QED
  BY <1>1, <1>2, <1>3, PTL DEF Spec

------------------------------------------------------------------------------
(* The diff of a delegation.                                                 *)

LEMMA NextOwnInventory == TypeInv /\ OwnInventory /\ [Next]_vars => OwnInventory'
<1> DEFINE Own(call, h) ==
              /\ call.pc = "idle" => call.diff = NoDiff /\ h.opened = h.closed
              /\ call.pc = "running" => Took(call.before, h.opened, h.vague)
              /\ call.pc = "returned" =>
                    \/ call.diff = NoDiff /\ h.opened = h.closed
                    \/ DiffOf(call.diff, h.opened, h.closed, h.vague)
<1> SUFFICES ASSUME TypeInv, OwnInventory, [Next]_vars, NEW k \in Calls
             PROVE  Own(calls'[k], history'[k])
    BY DEF OwnInventory
<1>0. Own(calls[k], history[k])
  BY DEF OwnInventory
<1>1. ASSUME NEW c \in Calls, Refuse(c) PROVE Own(calls'[k], history'[k])
  BY <1>0, <1>1, RefuseEffect DEF Same, SameAnswer
<1>2. ASSUME NEW c \in Calls, Start(c) PROVE Own(calls'[k], history'[k])
  <2>1. CASE k = c
    <3>1. Took(calls'[c].before, history'[c].opened, history'[c].vague)
      BY <1>2, StartEffect DEF Took
    <3> QED
      BY <1>2, <2>1, <3>1, StartEffect
  <2>2. CASE k # c
    BY <1>0, <1>2, <2>2, StartEffect DEF SameHistory
  <2> QED
    BY <2>1, <2>2
<1>3. ASSUME NEW c \in Calls, ReadBrief(c) PROVE Own(calls'[k], history'[k])
  BY <1>0, <1>3, ReadBriefEffect
<1>4. ASSUME NEW c \in Calls, Edit(c) PROVE Own(calls'[k], history'[k])
  BY <1>0, <1>4, EditEffect
<1>5. ASSUME NEW c \in Calls, Meter(c) PROVE Own(calls'[k], history'[k])
  BY <1>0, <1>5, MeterEffect DEF Same
<1>6. ASSUME NEW c \in Calls, Exit(c) PROVE Own(calls'[k], history'[k])
  BY <1>0, <1>6, ExitEffect
<1>7. ASSUME NEW c \in Calls, Deadline(c) PROVE Own(calls'[k], history'[k])
  BY <1>0, <1>7, DeadlineEffect DEF Same, SameAnswer
<1>8. ASSUME NEW c \in Calls, Close(c) PROVE Own(calls'[k], history'[k])
  <2>1. CASE k = c
    <3>1. PICK fault \in Faults :
            /\ calls'[c].diff =
                 DiffInventories(calls[c].before, TakeInventory(workspace, fault))
            /\ history'[c].vague = history[c].vague \cup fault.vague
      BY <1>8, CloseEffect
    <3>2. calls[c].pc = "running" /\ calls'[c].pc = "returned"
      BY <1>8, CloseEffect
    <3>3. /\ history'[c].opened = history[c].opened /\ history'[c].closed = workspace
          /\ workspace \in [Files -> Contents \cup {None}]
          /\ calls[c].before \in Inventories
      BY <1>8, <3>2, CloseEffect DEF TypeInv, TypeOK, CallRecords
    <3>4. Took(calls[c].before, history'[c].opened, history'[c].vague)
      BY <1>0, <2>1, <3>1, <3>2, <3>3 DEF Took
    <3>5. Took(TakeInventory(workspace, fault), history'[c].closed, history'[c].vague)
      BY <3>1, <3>3 DEF Took
    <3>6. DiffOf(calls'[c].diff, history'[c].opened, history'[c].closed, history'[c].vague)
      BY <3>1, <3>3, <3>4, <3>5, InventoryType DEF DiffOf
    <3> QED
      BY <2>1, <3>2, <3>6
  <2>2. CASE k # c
    BY <1>0, <1>8, <2>2, CloseEffect DEF Same
  <2> QED
    BY <2>1, <2>2
<1>9. CASE Crash
  BY <1>0, <1>9, CrashEffect DEF SameAnswer
<1>10. CASE UNCHANGED vars
  BY <1>0, <1>10 DEF vars
<1>11. ASSUME NEW c \in Calls, Launch(c) \/ HelperEnds(c) PROVE Own(calls'[k], history'[k])
  BY <1>0, <1>11, HelperEffect
<1> QED
  BY <1>1, <1>2, <1>3, <1>4, <1>5, <1>6, <1>7, <1>8, <1>9, <1>10, <1>11 DEF Next

\* A walk that met the cap says so; one that did not lists every file that it could
\* look up, each by its digest if it could be opened.
LEMMA WholeInventory ==
    ASSUME NEW ws, NEW fault, ~TakeInventory(ws, fault).truncated
    PROVE  LET i == TakeInventory(ws, fault) IN
           /\ DOMAIN i.entries = Present(ws) \ Hidden(fault.lost)
           /\ \A f \in DOMAIN i.entries \ fault.vague : i.entries[f] = Digest[ws[f]]
           /\ i.unreadable = fault.lost
  BY DEF TakeInventory

\* A diff that does not say it is truncated lists exactly what changed between
\* the two workspaces it was taken from, where it could see.
LEMMA WholeDiff ==
    ASSUME NEW was, NEW is, NEW diff, NEW vague, DiffOf(diff, was, is, vague),
           ~diff.truncated
    PROVE  LET seen == Files \ Hidden(diff.unreadable) IN
           /\ diff.added \cap seen   = (Present(is) \ Present(was)) \cap seen
           /\ diff.removed \cap seen = (Present(was) \ Present(is)) \cap seen
           /\ diff.modified \cap (seen \ vague) =
                {f \in Present(was) \cap Present(is) \cap (seen \ vague) :
                   Digest[was[f]] # Digest[is[f]]}
<1> DEFINE seen == Files \ Hidden(diff.unreadable)
<1>1. PICK before \in Inventories, after \in Inventories :
        /\ Took(before, was, vague) /\ Took(after, is, vague)
        /\ diff = DiffInventories(before, after)
  BY DEF DiffOf
<1>2. PICK f1 \in Faults : before = TakeInventory(was, f1) /\ f1.vague \subseteq vague
  BY <1>1 DEF Took
<1>3. PICK f2 \in Faults : after = TakeInventory(is, f2) /\ f2.vague \subseteq vague
  BY <1>1 DEF Took
<1>4. ~before.truncated /\ ~after.truncated
  BY <1>1 DEF DiffInventories
<1>5. /\ DOMAIN before.entries = Present(was) \ Hidden(f1.lost)
      /\ \A f \in DOMAIN before.entries \ vague : before.entries[f] = Digest[was[f]]
      /\ before.unreadable = f1.lost
  BY <1>2, <1>4, WholeInventory
<1>6. /\ DOMAIN after.entries = Present(is) \ Hidden(f2.lost)
      /\ \A f \in DOMAIN after.entries \ vague : after.entries[f] = Digest[is[f]]
      /\ after.unreadable = f2.lost
  BY <1>3, <1>4, WholeInventory
<1>7. seen \cap Hidden(f1.lost) = {} /\ seen \cap Hidden(f2.lost) = {}
  BY <1>1, <1>5, <1>6 DEF Hidden, DiffInventories
<1>8. /\ diff.added = DOMAIN after.entries \ DOMAIN before.entries
      /\ diff.removed = DOMAIN before.entries \ DOMAIN after.entries
      /\ diff.modified = {f \in DOMAIN after.entries \cap DOMAIN before.entries :
                            before.entries[f] # after.entries[f]}
  BY <1>1 DEF DiffInventories
<1> HIDE DEF seen
<1>9. /\ diff.added \cap seen   = (Present(is) \ Present(was)) \cap seen
      /\ diff.removed \cap seen = (Present(was) \ Present(is)) \cap seen
  BY <1>5, <1>6, <1>7, <1>8
<1>10. diff.modified \cap (seen \ vague) =
         {f \in Present(was) \cap Present(is) \cap (seen \ vague) :
            Digest[was[f]] # Digest[is[f]]}
  BY <1>5, <1>6, <1>7, <1>8
<1> QED
  BY <1>9, <1>10 DEF seen

\* The diff of a delegation that does not say it is truncated lists exactly the
\* files that came, went or changed their digest in its window, among those under
\* no path it names as unreadable, whatever other workers did in the same
\* workspace, however small the cap of a walk is and whatever the walks failed to
\* read.
THEOREM DiffIsExact == Spec => []UntruncatedDiffIsExact
<1>1. Init => TypeInv /\ OwnInventory
  BY InitType DEF TypeInv, OwnInventory, Init, Idle
<1>2. TypeInv /\ OwnInventory /\ [Next]_vars => TypeInv' /\ OwnInventory'
  BY NextType, NextOwnInventory
<1>3. OwnInventory => UntruncatedDiffIsExact
  <2> SUFFICES ASSUME OwnInventory, NEW c \in Calls,
                      calls[c].pc = "returned", ~calls[c].diff.truncated
               PROVE  UntruncatedDiffIsExact!(c)!2
      BY DEF UntruncatedDiffIsExact
  <2>1. CASE calls[c].diff = NoDiff /\ history[c].opened = history[c].closed
    BY <2>1 DEF NoDiff
  <2>2. CASE DiffOf(calls[c].diff, history[c].opened, history[c].closed, history[c].vague)
    BY <2>2, WholeDiff
  <2> QED
    BY <2>1, <2>2 DEF OwnInventory
<1> QED
  BY <1>1, <1>2, <1>3, PTL DEF Spec

------------------------------------------------------------------------------
(* The evidence of a delegation.                                             *)

\* What OwnEvidence says of one delegation.
EvidenceOf(c) ==
    /\ workers[c].state = "spawned" => briefs[Stem[c]] = c
    /\ workers[c].state \in {"working", "metered", "done"} => workers[c].brief = c
    /\ workers[c].state \in {"metered", "done"} => history[c].metered \in Usages
    /\ workers[c].state \in {"metered", "done"} /\ Open(c) =>
         sidecars[Stem[c]] = [author |-> c, usage |-> history[c].metered]
    /\ Open(c) => \A k \in Calls \ {c} : Stem[k] = Stem[c] => ~Open(k)
    /\ calls[c].success =>
         calls[c].tokens = MapSidecarTokens([author |-> c, usage |-> history[c].metered])

\* A step that starts no delegation opens none.
NoneOpens == \A k \in Calls : Open(k)' => Open(k)

LEMMA Opens ==
    ASSUME TypeInv, NEW c \in Calls,
           \/ Refuse(c) \/ ReadBrief(c) \/ Edit(c) \/ Meter(c) \/ Exit(c)
           \/ Launch(c) \/ HelperEnds(c) \/ Deadline(c) \/ Close(c) \/ Crash
    PROVE  NoneOpens
<1> SUFFICES ASSUME NEW k \in Calls, Open(k)' PROVE Open(k)
    BY DEF NoneOpens
<1> USE DEF Open, Alive
<1>1. CASE Refuse(c)
  BY <1>1, RefuseEffect DEF Same
<1>2. CASE ReadBrief(c)
  BY <1>2, ReadBriefEffect DEF Same
<1>3. CASE Edit(c)
  BY <1>3, EditEffect
<1>4. CASE Meter(c)
  BY <1>4, MeterEffect DEF Same
<1>5. CASE Exit(c)
  BY <1>5, ExitEffect DEF Same
<1>6. CASE Deadline(c)
  BY <1>6, DeadlineEffect DEF Same
<1>7. CASE Close(c)
  BY <1>7, CloseEffect DEF Same
<1>8. CASE Crash
  BY <1>8, CrashEffect
<1>9. CASE Launch(c) \/ HelperEnds(c)
  BY <1>9, HelperEffect
<1> QED
  BY <1>1, <1>2, <1>3, <1>4, <1>5, <1>6, <1>7, <1>8, <1>9

\* A step that does not touch the worker and the answer of k leaves its evidence
\* its own, if it writes under k's name only when k is not open.
LEMMA OthersEvidence ==
    ASSUME NEW k \in Calls, EvidenceOf(k), NoneOpens,
           calls'[k].success = calls[k].success, calls'[k].tokens = calls[k].tokens,
           workers'[k] = workers[k], history'[k].metered = history[k].metered,
           Open(k) => /\ briefs'[Stem[k]] = briefs[Stem[k]]
                      /\ sidecars'[Stem[k]] = sidecars[Stem[k]]
    PROVE  EvidenceOf(k)'
<1>1. workers'[k].state = "spawned" => briefs'[Stem[k]] = k
  BY DEF EvidenceOf, Open, Alive
<1>2. workers'[k].state \in {"metered", "done"} /\ Open(k)' =>
         sidecars'[Stem[k]] = [author |-> k, usage |-> history'[k].metered]
  BY DEF EvidenceOf, NoneOpens
<1>3. Open(k)' => \A j \in Calls \ {k} : Stem[j] = Stem[k] => ~Open(j)'
  BY DEF EvidenceOf, NoneOpens
<1> QED
  BY <1>1, <1>2, <1>3 DEF EvidenceOf

LEMMA NextOwnEvidence == TypeInv /\ OwnEvidence /\ [Next]_vars => OwnEvidence'
<1> SUFFICES ASSUME TypeInv, OwnEvidence, [Next]_vars, NEW k \in Calls, history'[k].alone
             PROVE  EvidenceOf(k)'
    BY DEF OwnEvidence, EvidenceOf
<1>0. /\ history[k].alone => EvidenceOf(k)
      /\ \A c \in Calls : Stem[c] \in Stems
  BY Shapes DEF OwnEvidence, EvidenceOf
<1>1. ASSUME NEW c \in Calls, Refuse(c) PROVE EvidenceOf(k)'
  BY <1>0, <1>1, RefuseEffect, Opens, OthersEvidence DEF Same, SameAnswer
<1>2. ASSUME NEW c \in Calls, Start(c) PROVE EvidenceOf(k)'
  <2>1. CASE k = c
    <3>1. /\ workers'[c].state \in {"spawned", "failed"} /\ briefs'[Stem[c]] = c
          /\ \A j \in Calls \ {c} : calls'[j] = calls[j] /\ workers'[j] = workers[j]
          /\ \A j \in Calls \ {c} : ~(Stem[j] = Stem[c] /\ Open(j))
      BY <1>2, <2>1, StartEffect
    <3>2. ~calls'[c].success
      BY <1>2, StartEffect DEF TypeInv, Lifecycle
    <3>3. \A j \in Calls \ {c} : Open(j)' <=> Open(j)
      BY <3>1 DEF Open
    <3> QED
      BY <2>1, <3>1, <3>2, <3>3 DEF EvidenceOf
  <2>2. CASE k # c
    <3>1. /\ calls'[k] = calls[k] /\ workers'[k] = workers[k] /\ SameHistory(k)
          /\ history[k].alone /\ ~(Stem[k] = Stem[c] /\ Open(k))
          /\ \A s \in Stems \ {Stem[c]} : briefs'[s] = briefs[s]
          /\ UNCHANGED sidecars
      BY <1>2, <2>2, StartEffect
    <3>2. \A j \in Calls \ {c} : Open(j)' <=> Open(j)
      BY <1>2, StartEffect DEF Open
    <3>3. workers[k].state = "spawned" => briefs'[Stem[k]] = k
      BY <1>0, <3>1 DEF EvidenceOf, Open, Alive
    <3>4. Open(k)' => \A j \in Calls \ {k} : Stem[j] = Stem[k] => ~Open(j)'
      BY <1>0, <2>2, <3>1, <3>2 DEF EvidenceOf
    <3> QED
      BY <1>0, <2>2, <3>1, <3>2, <3>3, <3>4 DEF EvidenceOf, SameHistory
  <2> QED
    BY <2>1, <2>2
<1>3. ASSUME NEW c \in Calls, ReadBrief(c) PROVE EvidenceOf(k)'
  <2>1. CASE k # c
    BY <1>0, <1>3, <2>1, ReadBriefEffect, Opens, OthersEvidence DEF Same
  <2>2. CASE k = c
    BY <1>0, <1>3, <2>2, ReadBriefEffect, Opens DEF EvidenceOf, NoneOpens, TypeInv, Lifecycle
  <2> QED
    BY <2>1, <2>2
<1>4. ASSUME NEW c \in Calls, Edit(c) PROVE EvidenceOf(k)'
  BY <1>0, <1>4, EditEffect, Opens, OthersEvidence
<1>5. ASSUME NEW c \in Calls, Meter(c) PROVE EvidenceOf(k)'
  <2>1. CASE k # c
    <3>1. Open(k) => Stem[k] # Stem[c]
      BY <1>0, <1>5, <2>1, MeterEffect DEF EvidenceOf, Open, Alive, Same
    <3> QED
      <4>1. NoneOpens
        BY <1>5, Opens
      <4>2. Open(k) => /\ briefs'[Stem[k]] = briefs[Stem[k]]
                       /\ sidecars'[Stem[k]] = sidecars[Stem[k]]
        BY <1>0, <1>5, <3>1, MeterEffect
      <4>3. Same(k) /\ UNCHANGED calls
        BY <1>5, <2>1, MeterEffect
      <4> QED
        BY <1>0, <4>1, <4>2, <4>3, OthersEvidence DEF Same
  <2>2. CASE k = c
    <3>1. ~calls[c].success
      BY <1>5, MeterEffect DEF TypeInv, TypeOK
    <3> QED
      BY <1>0, <1>5, <2>2, <3>1, MeterEffect, Opens DEF EvidenceOf, NoneOpens
  <2> QED
    BY <2>1, <2>2
<1>6. ASSUME NEW c \in Calls, Exit(c) PROVE EvidenceOf(k)'
  <2>1. CASE k # c
    BY <1>0, <1>6, <2>1, ExitEffect, Opens, OthersEvidence DEF Same
  <2>2. CASE k = c
    BY <1>0, <1>6, <2>2, ExitEffect, Opens DEF EvidenceOf, NoneOpens, Open, Alive
  <2> QED
    BY <2>1, <2>2
<1>7. ASSUME NEW c \in Calls, Deadline(c) PROVE EvidenceOf(k)'
  <2>1. CASE k # c
    <3>1. Open(k) => Stem[k] # Stem[c]
      BY <1>0, <1>7, <2>1, DeadlineEffect DEF EvidenceOf, Open, Same
    <3> QED
      BY <1>0, <1>7, <2>1, <3>1, DeadlineEffect, Opens, OthersEvidence DEF Same
  <2>2. CASE k = c
    BY <1>0, <1>7, <2>2, DeadlineEffect, Opens DEF EvidenceOf, NoneOpens, SameAnswer
  <2> QED
    BY <2>1, <2>2
<1>8. ASSUME NEW c \in Calls, Close(c) PROVE EvidenceOf(k)'
  <2>1. CASE k # c
    BY <1>0, <1>8, <2>1, CloseEffect, Opens, OthersEvidence DEF Same
  <2>2. CASE k = c
    BY <1>0, <1>8, <2>2, CloseEffect, Opens DEF EvidenceOf, NoneOpens, Open
  <2> QED
    BY <2>1, <2>2
<1>9. CASE Crash
  BY <1>0, <1>9, CrashEffect, Opens, OthersEvidence DEF SameAnswer
<1>10. CASE UNCHANGED vars
  BY <1>0, <1>10 DEF vars, EvidenceOf, Open
<1>11. ASSUME NEW c \in Calls, Launch(c) \/ HelperEnds(c) PROVE EvidenceOf(k)'
  BY <1>0, <1>11, HelperEffect, Opens, OthersEvidence
<1> QED
  BY <1>1, <1>2, <1>3, <1>4, <1>5, <1>6, <1>7, <1>8, <1>9, <1>10, <1>11 DEF Next

\* A delegation that reports success, and had no open namesake beside it, read
\* its own brief and reports what its own worker metered, none of it twice,
\* whatever an earlier or a later attempt left under the same name.
THEOREM SuccessIsOwnWork == Spec => []SuccessReportsOwnWork
<1>1. Init => TypeInv /\ OwnEvidence
  BY InitType DEF TypeInv, OwnEvidence, Init, Idle, Open, Alive
<1>2. TypeInv /\ OwnEvidence /\ [Next]_vars => TypeInv' /\ OwnEvidence'
  BY NextType, NextOwnEvidence
<1>3. TypeInv /\ OwnEvidence => SuccessReportsOwnWork
  <2> SUFFICES ASSUME TypeInv, OwnEvidence, NEW c \in Calls,
                      calls[c].success, history[c].alone
               PROVE  LET t == calls[c].tokens   u == history[c].metered
                      IN  /\ workers[c].brief = c
                          /\ u # None
                          /\ u.prompt >= u.cached =>
                               t.input + t.input_cached + t.output
                                 = u.prompt + u.candidates + u.thoughts
      BY DEF SuccessReportsOwnWork
  <2>1. workers[c].state = "done"
    BY DEF TypeInv, TypeOK
  <2>2. /\ workers[c].brief = c /\ history[c].metered \in Usages
        /\ calls[c].tokens = MapSidecarTokens([author |-> c, usage |-> history[c].metered])
    BY <2>1 DEF OwnEvidence
  <2>3. [author |-> c, usage |-> history[c].metered] # None
    BY <2>2, NoneAssumption DEF Sidecars
  <2>4. history[c].metered \in [prompt : Nat, cached : Nat, candidates : Nat, thoughts : Nat]
    BY <2>2, DelegationAssumption
  <2>5. history[c].metered # None
    BY <2>2, DelegationAssumption
  <2> QED
    BY <2>2, <2>3, <2>4, <2>5 DEF MapSidecarTokens
<1> QED
  BY <1>1, <1>2, <1>3, PTL DEF Spec

==============================================================================
