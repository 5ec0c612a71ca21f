------------------------------ MODULE Dispatch ------------------------------
(***************************************************************************)
(* The model-dispatch server process: tool calls that interleave at the    *)
(* await on a vendor, over a policy cached under one key, adapters cached  *)
(* by model id, policy files that are edited and credentials that come and *)
(* go meanwhile, and a telemetry file that survives the process.  What a   *)
(* constructor finds of its credentials is open at every construction.     *)
(* Translated from plugin/mcp/model-dispatch/src/server.ts.                *)
(*                                                                         *)
(* Node runs one handler at a time, so what a handler does up to its await *)
(* is one action, and what it does after the await is another.             *)
(***************************************************************************)
EXTENDS Routing, SequencesExt

CONSTANTS
    Keys,         \* what a call may name: [name, root], root None if not given
    Policies,     \* contents a policy file may have
    InitialDisks, \* policy files at the start: functions on Keys
    SlotChoices,  \* values of MMO_SELECT
    Contexts,     \* routing contexts of packets
    Calls,        \* execute_with_model calls
    MaxAttempts,  \* bound: vendor attempts of one call
    MaxOthers     \* bound: calls of other tools, policy edits and crashes

IN_SESSION_ADAPTER == "builtin-anthropic"

AuthModes == {"vendor", "estimated"}

ModelIds == UNION {DOMAIN p.models : p \in Policies}
Configs  == UNION {{p.models[m] : m \in DOMAIN p.models} : p \in Policies}

ASSUME DispatchAssumption ==
    /\ None \notin Policies /\ None \notin Configs /\ None \notin ModelIds
    /\ InitialDisks \subseteq [Keys -> Policies \cup {None}]
    /\ \A p \in Policies : DOMAIN p.rules \subseteq Nat
    /\ MaxAttempts \in Nat /\ MaxOthers \in Nat

VARIABLES
    disk,       \* disk[key]: content of the file the key resolves to, or None
    telemetry,  \* telemetry.jsonl
    overrides,  \* slot choices of this server process
    activeKey, activePolicy,   \* the one cached policy
    adapterCache,              \* adapterCache[id]: configuration it was built from
    calls,      \* calls[c]: pc and the handler's local variables
    cleared,    \* history: <<policy, mode>> that pre-flight passed in this process
    others      \* counter for the bound MaxOthers

vars == <<disk, telemetry, overrides, activeKey, activePolicy,
          adapterCache, calls, cleared, others>>

Other == others < MaxOthers /\ others' = others + 1

Idle == [pc |-> "idle", ctx |-> None, overrides |-> <<>>, policy |-> None,
         decision |-> Throw, config |-> None, attempts |-> 0]

Decisions == {Throw} \cup {PickModel(ctx, p, o) : ctx \in Contexts, p \in Policies,
                                                 o \in SlotChoices}

PCs == {"idle", "refused", "unconstructed", "waiting", "answered", "failed", "lost"}

Init ==
    /\ disk \in InitialDisks
    /\ telemetry = <<>>
    /\ overrides \in SlotChoices
    /\ activeKey = None /\ activePolicy = None
    /\ adapterCache = [m \in ModelIds |-> None]
    /\ calls = [c \in Calls |-> Idle]
    /\ cleared = {}
    /\ others = 0

------------------------------------------------------------------------------
(* ensurePolicy: the cached policy if the key is the cached one, else the    *)
(* file as it is now.  A load that fails leaves the cache alone.             *)

Ensured(key) ==
    IF activePolicy # None /\ activeKey = key THEN activePolicy
    ELSE IF /\ disk[key] # None
            /\ ValidatePolicy(disk[key])
            /\ ValidateSelectOverrides(disk[key], overrides)
         THEN disk[key]
         ELSE None

\* Moves the cache key before the file has been accepted.
EnsurePolicyKeyFirst(key) ==
    /\ activeKey' = key
    /\ activePolicy' = Ensured(key)

EnsurePolicy(key) ==
    IF Ensured(key) = None
    THEN UNCHANGED <<activeKey, activePolicy>>
    ELSE activeKey' = key /\ activePolicy' = Ensured(key)

\* adapterFor: the adapter of that id, whichever policy it was built for; else
\* one built from this policy's entry, if its constructor finds what it looks
\* for then: an API key, a signed-in account, an interpreter, a binary.
AdapterFor(policy, id, found) ==
    IF adapterCache[id] # None THEN adapterCache[id]
    ELSE IF found THEN policy.models[id]
         ELSE None

------------------------------------------------------------------------------
(* execute_with_model.                                                       *)

\* Up to the await: load, route, get an adapter, and send the packet.
Execute(c, key, ctx, found) ==
    LET policy   == Ensured(key)
        decision == PickModel(ctx, policy, overrides)
        adapter  == AdapterFor(policy, decision.model, found)
        Leave(pc, d, config) ==
            calls' = [calls EXCEPT ![c] =
                        [pc |-> pc, ctx |-> ctx, overrides |-> overrides, policy |-> policy,
                         decision |-> d, config |-> config, attempts |-> 0]]
    IN
    /\ calls[c].pc = "idle"
    /\ EnsurePolicy(key)
    /\ IF policy = None
       THEN Leave("refused", Throw, None) /\ UNCHANGED adapterCache
       ELSE IF decision.model \notin DOMAIN policy.models
       THEN Leave("refused", Throw, None) /\ UNCHANGED adapterCache
       ELSE IF adapter = None
       THEN Leave("unconstructed", decision, None) /\ UNCHANGED adapterCache
       ELSE /\ Leave("waiting", decision, adapter)
            /\ adapterCache' = [adapterCache EXCEPT ![decision.model] = adapter]
    /\ UNCHANGED <<disk, others, telemetry, overrides, cleared>>

\* While the handler waits, the vendor serves and bills one more attempt.
VendorAttempt(c) ==
    /\ calls[c].pc = "waiting"
    /\ calls[c].attempts < MaxAttempts
    /\ calls' = [calls EXCEPT ![c].attempts = @ + 1]
    /\ UNCHANGED <<disk, others, telemetry, overrides, activeKey, activePolicy,
                   adapterCache, cleared>>

\* The event that reports the n-th attempt names the policy that is active now.
EventUnderActive(c, n) ==
    [call |-> c, attempt |-> n, policy |-> activePolicy, rule |-> calls[c].decision.rule,
     model_id |-> calls[c].decision.model,
     model |-> activePolicy.models[calls[c].decision.model].model_name,
     cost |-> calls[c].config.price]

\* The event that reports the n-th attempt: the routing and the model name
\* from the handler's own policy, the cost from the adapter that served it.
Event(c, n) ==
    [call |-> c, attempt |-> n, policy |-> calls[c].policy, rule |-> calls[c].decision.rule,
     model_id |-> calls[c].decision.model,
     model |-> calls[c].policy.models[calls[c].decision.model].model_name,
     cost |-> calls[c].config.price]

\* One event for the whole call.
AppendLastEvent(c, written) ==
    telemetry' = IF written = 0 THEN telemetry ELSE Append(telemetry, Event(c, written))

\* The first `written` of a call's events reach the file.
AppendEvents(c, written) ==
    telemetry' = telemetry \o [n \in 1..written |-> Event(c, n)]

\* After the await: append one event per attempt.  An append that throws (a
\* full disk) leaves a prefix behind and turns the whole call into an error.
Finish(c) ==
    /\ calls[c].pc = "waiting"
    /\ calls[c].attempts > 0
    /\ \E written \in 0..calls[c].attempts :
         /\ AppendEvents(c, written)
         /\ calls' = [calls EXCEPT ![c].pc =
                        IF written = calls[c].attempts THEN "answered" ELSE "failed"]
    /\ UNCHANGED <<disk, others, overrides, activeKey, activePolicy, adapterCache, cleared>>

\* execute() itself throws: the handler's catch answers, and no event is built.
ExecuteThrows(c) ==
    /\ calls[c].pc = "waiting"
    /\ calls' = [calls EXCEPT ![c].pc = "failed"]
    /\ UNCHANGED <<disk, others, telemetry, overrides, activeKey, activePolicy,
                   adapterCache, cleared>>

------------------------------------------------------------------------------
(* The other tools.                                                          *)

\* Build an adapter for every model the run could reach; clear the policy if
\* none of those it needs through this server is missing.
Preflight(key, mode, found) ==
    LET policy   == Ensured(key)
        checked  == DOMAIN policy.models \ UnreachableModelIds(policy, overrides)
        required == {m \in checked : mode = "vendor"
                                     \/ policy.models[m].adapter # IN_SESSION_ADAPTER}
    IN
    /\ Other
    /\ EnsurePolicy(key)
    /\ policy # None
    /\ adapterCache' = [m \in ModelIds |->
                          IF m \in checked THEN AdapterFor(policy, m, m \in found)
                          ELSE adapterCache[m]]
    /\ cleared' = IF \A m \in required : adapterCache'[m] # None
                  THEN cleared \cup {<<policy, mode>>} ELSE cleared
    /\ UNCHANGED <<disk, telemetry, overrides, calls>>

\* load_policy; and simulate_policy, which replays without a project root.
LoadPolicy(key) ==
    /\ Other
    /\ EnsurePolicy(key)
    /\ UNCHANGED <<disk, telemetry, overrides, adapterCache, calls, cleared>>

SimulatePolicy(key) == key.root = None /\ LoadPolicy(key)

------------------------------------------------------------------------------
(* The world around the process.                                             *)

EditPolicy(key) ==
    /\ Other
    /\ \E p \in Policies : disk' = [disk EXCEPT ![key] = p]
    /\ UNCHANGED <<telemetry, overrides, activeKey, activePolicy,
                   adapterCache, calls, cleared>>

\* The process ends and a new one starts, with the slot choices of its own
\* environment.  A call may be caught between two of its appends.
Crash ==
    LET open == {c \in Calls : calls[c].pc = "waiting"} IN
    /\ Other
    /\ \/ UNCHANGED telemetry
       \/ \E c \in open : \E written \in 1..calls[c].attempts : AppendEvents(c, written)
    /\ calls' = [c \in Calls |->
                   IF c \in open THEN [calls[c] EXCEPT !.pc = "lost"] ELSE calls[c]]
    /\ overrides' \in SlotChoices
    /\ activeKey' = None /\ activePolicy' = None
    /\ adapterCache' = [m \in ModelIds |-> None]
    /\ cleared' = {}
    /\ UNCHANGED disk

Next ==
    \/ \E c \in Calls, key \in Keys, ctx \in Contexts, found \in BOOLEAN :
         Execute(c, key, ctx, found)
    \/ \E c \in Calls : VendorAttempt(c) \/ Finish(c) \/ ExecuteThrows(c)
    \/ \E key \in Keys :
         \/ \E mode \in AuthModes, found \in SUBSET ModelIds : Preflight(key, mode, found)
         \/ LoadPolicy(key)
         \/ SimulatePolicy(key)
         \/ EditPolicy(key)
    \/ Crash

Spec == Init /\ [][Next]_vars

------------------------------------------------------------------------------
CallStates ==
    [pc : PCs, ctx : Contexts \cup {None}, overrides : SlotChoices \cup {<<>>},
     policy : Policies \cup {None}, decision : Decisions,
     config : Configs \cup {None}, attempts : 0..MaxAttempts]

\* A packet that waits on a vendor was routed to a model of its policy, and an
\* adapter was built for it.
CallOK(call) ==
    /\ call \in CallStates
    /\ call.pc = "waiting" => /\ call.policy # None
                             /\ call.decision.model \in DOMAIN call.policy.models
                             /\ call.config # None

CallsOK == calls \in [Calls -> CallStates] /\ \A c \in Calls : CallOK(calls[c])

Events ==
    [call : Calls, attempt : 1..MaxAttempts, policy : Policies,
     rule : {d.rule : d \in Decisions}, model_id : ModelIds,
     model : {cfg.model_name : cfg \in Configs}, cost : {cfg.price : cfg \in Configs}]

\* The variables are well typed, the cache holds a key and its policy or
\* neither, and a waiting call has all it needs to be answered.
TypeOK ==
    /\ disk \in [Keys -> Policies \cup {None}]
    /\ telemetry \in Seq(Events)
    /\ overrides \in SlotChoices
    /\ <<activeKey, activePolicy>> \in (Keys \X Policies) \cup {<<None, None>>}
    /\ adapterCache \in [ModelIds -> Configs \cup {None}]
    /\ CallsOK
    /\ cleared \subseteq Policies \X AuthModes

\* An event tells how its packet was routed: the rule and the model it names
\* are what the policy it names decides for that packet, although other calls
\* may have loaded other policies, and the file may have changed, while the
\* vendor was working.
EventTellsTheRoute ==
    \A i \in DOMAIN telemetry :
        LET ev   == telemetry[i]
            call == calls[ev.call]
        IN  /\ Decision(ev.model_id, ev.rule)
                 = PickModel(call.ctx, ev.policy, call.overrides)
            /\ ev.model = ev.policy.models[ev.model_id].model_name

\* Where the events of a call are, and the attempts they report.
EventsOf(c) == {i \in DOMAIN telemetry : telemetry[i].call = c}
Reported(c) == {telemetry[i].attempt : i \in EventsOf(c)}

\* Every attempt of an answered call is reported, once and in order; a call
\* that failed or was lost has reported a prefix of its attempts, and a call
\* that has not been answered none (the appends at the end of
\* execute_with_model).
TelemetryMatchesBilling ==
    \A c \in Calls :
        /\ \A i, j \in EventsOf(c) : i < j => telemetry[i].attempt < telemetry[j].attempt
        /\ \E n \in 0..calls[c].attempts :
             /\ Reported(c) = 1..n
             /\ calls[c].pc = "answered" => n = calls[c].attempts
             /\ calls[c].pc = "waiting" => n = 0

\* "The only check that proves the cheap tier is actually reachable"
\* (orchestrator.md, rule 0): in a process in which pre-flight cleared a
\* policy, no dispatch under it is refused for want of an adapter, whatever
\* happens to the credentials and to the policy cache in between.  In
\* estimated mode this leaves out the models that run in the session.
PreflightHolds ==
    \A c \in Calls :
        LET Refused == calls[c].pc # "unconstructed" /\ calls'[c].pc = "unconstructed"
            p       == calls'[c].policy
            m       == calls'[c].decision.model
        IN  Refused /\ WellFormed(p) =>
              /\ <<p, "vendor">> \notin cleared
              /\ <<p, "estimated">> \in cleared =>
                   p.models[m].adapter = IN_SESSION_ADAPTER

PreflightIsAPromise == [][PreflightHolds]_vars
==============================================================================
