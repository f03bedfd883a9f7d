SPECIFICATION Spec
CONSTANTS
    r1 = r1
    r2 = r2
    Runners <- MCRunners
    Starter = r1
    Path <- MCPath
    Id <- MCId
    Content <- MCContent
    Packs <- MCPacks
    Others <- MCOthers
    Type = "process"
    MaxChanges = 2
CHECK_DEADLOCK FALSE
INVARIANTS
    ResumedReviewIsSound
PROPERTIES
    LoadedRecipeIsUsable
