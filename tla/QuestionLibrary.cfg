SPECIFICATION FairSpec
CONSTANTS
    c1 = c1
    c2 = c2
    c3 = c3
    p1 = p1
    p2 = p2
    p3 = p3
    r1 = r1
    r2 = r2
    b1 = b1
    b2 = b2
    None = None
    Handlers = {h1, h2}
    Runs = {r1, r2}
    Banks = {b1, b2}
    Candidates = {c1, c2, c3}
    Prompts = {p1, p2, p3}
    RunOf <- MCRunOf
    PromptOf <- MCPromptOf
    TagsOf <- MCTagsOf
    SlugOf <- MCSlugOf
    ManualPrompts = {p2}
    ManualTags <- MCManualTags
    Imports <- MCImports
    MaxItems = 2
    RunsDeleted = {r1}
    BanksArchived = {b1}
INVARIANTS
    NoDuplicatePrompts
    KeyImportsOnce
    AuditMatchesLibrary
PROPERTIES
    RequestsEnd
CHECK_DEADLOCK FALSE
