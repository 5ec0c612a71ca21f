------------------------------ MODULE Discovery ------------------------------
(***************************************************************************)
(* The recorded baseline of a repository and the decision, at the start of *)
(* every run, whether it still holds, needs a partial rescan or a full     *)
(* one.  The decision compares commits and the times of manifest files;    *)
(* the discovery agent acts on it.  Translated from                        *)
(* plugin/scripts/discovery-refresh.mjs.                                   *)
(*                                                                         *)
(* Of the repository's files there are the manifests of languages, at its  *)
(* root, and one file each for the AI configuration and the source.        *)
(***************************************************************************)
EXTENDS Naturals, FiniteSets

CONSTANTS
    Languages,   \* LANGUAGE_MANIFESTS
    AiConfig,    \* a path of AI_CONFIG_PATHS
    Source,      \* any other file
    NoBaseline   \* no baseline, or one that cannot be read

ASSUME DiscoveryAssumption ==
    {AiConfig, Source, NoBaseline} \cap Languages = {} /\ AiConfig # Source

Paths == Languages \cup {AiConfig, Source}

VARIABLES
    tree,       \* files of the working tree
    committed,  \* files of HEAD
    baseline,   \* NoBaseline, or the languages that the recorded stacks name
    delta,      \* files that differ between the baseline's commit and HEAD
    head,       \* the baseline's commit is the "same" as HEAD, "behind" it, or "lost"
                \* from the history
    touched,    \* manifests written since the baseline, and after the time of grace
    policyTouched, \* the same of .sdlc/policy.yaml
    scanned,    \* history: languages that were there at a full scan
    early       \* history: languages a partial scan met before they were committed

discoveryVars == <<tree, committed, baseline, delta, head, touched,
                   policyTouched, scanned, early>>

DiscoveryInit ==
    /\ tree \in {{Source} \cup l : l \in SUBSET Languages}
    /\ committed = tree
    /\ baseline = NoBaseline
    /\ delta = {} /\ head = "same" /\ touched = {} /\ policyTouched = FALSE
    /\ scanned = {} /\ early = {}

Moved == head # "same"

------------------------------------------------------------------------------
(* The repository changes.                                                   *)

\* A file is written.  The time of a manifest counts only after the grace.
WriteFile(f, late) ==
    /\ tree' = tree \cup {f}
    /\ touched' = IF f \in Languages /\ late THEN touched \cup {f} ELSE touched
    /\ UNCHANGED <<committed, baseline, delta, head, policyTouched, scanned, early>>

\* Files that are in the working tree, or come with a checkout, are in HEAD; a
\* commit may be empty.
Commit(new) ==
    /\ tree' = tree \cup new /\ committed' = committed \cup new
    /\ delta' = delta \cup new
    /\ head' = IF head = "lost" THEN head ELSE "behind"
    /\ touched' = touched \cup ((new \cap Languages) \ tree)
    /\ UNCHANGED <<baseline, policyTouched, scanned, early>>

Rebase ==
    /\ head' = "lost"
    /\ UNCHANGED <<tree, committed, baseline, delta, touched, policyTouched, scanned, early>>

EditPolicy ==
    /\ policyTouched' = TRUE
    /\ UNCHANGED <<tree, committed, baseline, delta, head, touched, scanned, early>>

------------------------------------------------------------------------------
(* discovery-refresh.mjs                                                     *)

ManifestsChanged == touched \cap tree

NewLanguage == (delta \cap Languages) \ baseline # {}

NewAiConfig == AiConfig \in delta

\* Takes only manifests that were written lately for new ones.
RefreshByTimes ==
    IF baseline = NoBaseline \/ policyTouched \/ head = "lost" THEN "full"
    ELSE IF ~Moved /\ ManifestsChanged = {} THEN "cached"
    ELSE IF NewAiConfig \/ (NewLanguage /\ ManifestsChanged # {}) THEN "full"
    ELSE "incremental"

Refresh ==
    IF baseline = NoBaseline \/ policyTouched THEN "full"
    ELSE IF ~Moved /\ ManifestsChanged = {} THEN "cached"
    ELSE IF head = "lost" \/ NewLanguage \/ NewAiConfig THEN "full"
    ELSE "incremental"

------------------------------------------------------------------------------
(* The discovery agent does as it is told: a partial scan looks at the       *)
(* stacks again if a manifest changed, and records HEAD.                     *)

Discover ==
    LET languages == tree \cap Languages
        stacks == IF Refresh = "full" \/ (ManifestsChanged \cup delta) \cap Languages # {}
                  THEN languages ELSE baseline
    IN
    /\ IF Refresh = "cached"
       THEN UNCHANGED <<baseline, delta, head, touched, policyTouched, scanned, early>>
       ELSE /\ baseline' = stacks
            /\ delta' = {} /\ head' = "same" /\ touched' = {} /\ policyTouched' = FALSE
            /\ IF Refresh = "full"
               THEN scanned' = scanned \cup languages /\ UNCHANGED early
               ELSE early' = early \cup (stacks \ committed) /\ UNCHANGED scanned
    /\ UNCHANGED <<tree, committed>>

\* A baseline that is being written when the agent stops cannot be read later.
LoseBaseline ==
    /\ baseline' = NoBaseline
    /\ UNCHANGED <<tree, committed, delta, head, touched, policyTouched, scanned, early>>

------------------------------------------------------------------------------
(* Properties                                                                *)

\* Once the recorded baseline stands for HEAD, every language whose manifest is
\* in HEAD has had a full scan, whichever way commits, checkouts, edits within
\* the time of grace and partial scans came before; the exception is a manifest
\* that a partial scan met before it was committed (the decision of
\* discovery-refresh.mjs).
CommittedLanguagesScanned ==
    baseline # NoBaseline /\ ~Moved => committed \cap Languages \subseteq scanned \cup early
==============================================================================
