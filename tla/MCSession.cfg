SPECIFICATION Spec
CONSTANTS
    None = None
    Torn = Torn
    Outside = Outside
    r1 = r1
    r2 = r2
    src = src
    env = env
    Repos = {r1, r2}
    Here = r1
    Parts = {src, env}
    Sensitive = {env}
    Hooks = {h1}
    Sessions = {s1, s2}
    SectionCount = 3
    Languages = {npm, cargo}
    AiConfig = AiConfig
    Source = Source
    NoBaseline = NoBaseline
    Contracts <- MCContracts
    Scenes <- MCScenes
SYMMETRY Symmetry
INVARIANTS
    HookAnswersForAMoment
    CommittedLanguagesScanned
    NoSectionSkipped
    PassedCheckIsTrue
CHECK_DEADLOCK FALSE
