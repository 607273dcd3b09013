SPECIFICATION FairSpec
CONSTANTS
    p1 = p1 p2 = p2
    fileA = fileA fileB = fileB
    a1 = a1 a2 = a2 a3 = a3 b1 = b1 b2 = b2
    NoProc = NoProc
    NoEdit = NoEdit
    Procs = {p1}
    Paths <- MCPaths
    Edits <- MCEdits
    PathOf <- MCPathOf
    Commands <- PlainCommands
    Histories <- MCBoth
    InitIndex <- MCStaged
    HookStages <- HookAddsB
    MaxExternal = 0
    MaxCrashes = 0
INVARIANTS ApplyIsAtomic FailureLeavesIndex NothingLeftBehind
PROPERTIES RestoreDestroysNothing
CHECK_DEADLOCK FALSE
