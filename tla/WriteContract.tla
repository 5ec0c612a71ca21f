---------------------------- MODULE WriteContract ----------------------------
(***************************************************************************)
(* The write contract of a repository, .sdlc/local/write-contract.json,    *)
(* and the hook that Claude Code runs before every Write and Edit.  A hook *)
(* is a process of its own: it looks at the contract of the session's      *)
(* directory, then at the one that governs the target, which it reads      *)
(* again, while the file may be rewritten in place at any moment.          *)
(* Translated from plugin/scripts/write-contract-check.mjs.                *)
(*                                                                         *)
(* A path is its repository, or Outside, and the part of the tree it is    *)
(* in; a glob list is the set of parts that match it.                      *)
(***************************************************************************)
EXTENDS Naturals, FiniteSets, Files

CONSTANTS
    Repos,      \* repositories
    Outside,    \* a directory outside every repository
    Parts,      \* parts of a tree
    Sensitive,  \* OFF_LIMITS_DEFAULT: the parts that are always off limits
    Hooks       \* calls of Write or Edit

ASSUME ContractAssumption ==
    /\ Outside \notin Repos
    /\ Sensitive \subseteq Parts

HARDCODED_OFF_LIMITS == Sensitive

Places  == Repos \cup {Outside}
Targets == [repo : Places, part : Parts]

VARIABLES
    contract,   \* contract[r]: None, Torn, or what the file of repository r says
    hooks       \* hooks[h]: a hook's place in its program and what it has read

contractVars == <<contract, hooks>>

Content(active, strict, allowlist, offLimits) ==
    [active |-> active, strict |-> strict, allowlist |-> allowlist, off_limits |-> offLimits]

Active(c) == Parsed(c) /\ c.active

------------------------------------------------------------------------------
(* What the hook promises of one state of the files, as                      *)
(* docs/brownfield-write-contract.md and the tests put it.                   *)

Governing(contracts, cwd, target) ==
    CHOOSE r \in Places :
        \/ r = target.repo /\ r \in Repos /\ contracts[r] # None
        \/ /\ target.repo \notin Repos \/ contracts[target.repo] = None
           /\ r = IF cwd \in Repos /\ contracts[cwd] # None THEN cwd ELSE Outside

Verdict(contracts, cwd, target) ==
    LET r == Governing(contracts, cwd, target)
        c == contracts[r]
        In(parts) == r = target.repo /\ target.part \in parts
    IN IF cwd \in Repos /\ target.repo # cwd /\ Active(contracts[cwd]) THEN "deny"
       ELSE IF r = Outside
       THEN IF target.part \in Sensitive THEN "deny" ELSE "allow"
       ELSE IF Active(c) /\ c.strict /\ (In(c.off_limits) \/ ~In(c.allowlist))
       THEN "deny" ELSE "allow"

------------------------------------------------------------------------------
(* The hook                                                                  *)

NoCall == [pc |-> "idle", cwd |-> Outside, target |-> CHOOSE t \in Targets : TRUE,
           at |-> Outside, path |-> Outside, possible |-> {}, changed |-> {},
           removed |-> FALSE]

ContractInit == hooks = [h \in Hooks |-> NoCall]

Answer(h, verdict) == hooks' = [hooks EXCEPT ![h].pc = verdict]

\* Claude Code calls the hook for a target.
CallHook(h, cwd, target) ==
    /\ hooks[h].pc \notin {"look", "find", "read"}
    /\ hooks' = [hooks EXCEPT ![h] =
                   [NoCall EXCEPT !.pc = "look", !.cwd = cwd, !.target = target,
                                  !.possible = {Verdict(contract, cwd, target)}]]
    /\ UNCHANGED contract

\* readContractSafe: the contract of the session's directory decides only
\* whether a target outside of it is refused.
LookAtCwd(h) ==
    LET k == hooks[h] IN
    /\ k.pc = "look"
    /\ IF k.cwd \in Repos /\ k.target.repo # k.cwd /\ Active(contract[k.cwd])
       THEN Answer(h, "deny")
       ELSE hooks' = [hooks EXCEPT ![h].pc = "find",
                        ![h].at = IF k.cwd \in Repos /\ contract[k.cwd] # None
                                  THEN k.cwd ELSE Outside]
    /\ UNCHANGED contract

\* Contract selection: the target's own, else the one found for the session's
\* directory, else the safety net.
FindContract(h) ==
    LET k == hooks[h]
        path == IF k.target.repo \in Repos /\ contract[k.target.repo] # None
                THEN k.target.repo ELSE k.at
    IN
    /\ k.pc = "find"
    /\ IF path \in Repos THEN hooks' = [hooks EXCEPT ![h].pc = "read", ![h].path = path]
       ELSE Answer(h, IF k.target.part \in HARDCODED_OFF_LIMITS THEN "deny" ELSE "allow")
    /\ UNCHANGED contract

\* firstMatch on the path relative to the contract's repository.
Matches(path, target, parts) == target.repo = path /\ target.part \in parts

\* Lets the allowlist win over the off-limits list.
DecideAllowFirst(path, target, c) ==
    IF ~Active(c) THEN "allow"
    ELSE IF Matches(path, target, c.allowlist) \/ ~c.strict THEN "allow"
    ELSE "deny"

Decide(path, target, c) ==
    IF ~Active(c) THEN "allow"
    ELSE IF Matches(path, target, c.off_limits)
    THEN IF c.strict THEN "deny" ELSE "allow"
    ELSE IF Matches(path, target, c.allowlist) \/ ~c.strict THEN "allow"
    ELSE "deny"

\* The contract is read for the second time; what cannot be read or parsed
\* allows.
ReadContract(h) ==
    LET k == hooks[h] IN
    /\ k.pc = "read"
    /\ Answer(h, Decide(k.path, k.target, contract[k.path]))
    /\ UNCHANGED contract

HookStep(h) == LookAtCwd(h) \/ FindContract(h) \/ ReadContract(h)

------------------------------------------------------------------------------
(* Whoever changes the file of r.  A hook that is under way may answer for   *)
(* the old content or the new.                                               *)

SetContract(r, c) ==
    /\ contract' = [contract EXCEPT ![r] = c]
    /\ hooks' = [h \in Hooks |->
                   IF hooks[h].pc \notin {"look", "find", "read"} THEN hooks[h]
                   ELSE [hooks[h] EXCEPT
                           !.changed = @ \cup {r},
                           !.removed = @ \/ c = None,
                           !.possible = @ \cup {Verdict(contract', hooks[h].cwd, hooks[h].target)}]]

------------------------------------------------------------------------------
(* Properties                                                                *)

\* The hook reads a contract twice while it may be rewritten, cut short or
\* closed; its answer is nevertheless one that the files of some single moment
\* of the call call for, unless the contracts of two repositories change during
\* the call or one is removed, which the hook takes for leave to write (main of
\* write-contract-check.mjs).
HookAnswersForAMoment ==
    \A h \in Hooks :
        /\ hooks[h].pc \in {"allow", "deny"}
        /\ Cardinality(hooks[h].changed) < 2 /\ ~hooks[h].removed
        => hooks[h].pc \in hooks[h].possible
==============================================================================
