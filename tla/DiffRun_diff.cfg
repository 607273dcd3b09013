SPECIFICATION Spec
CONSTANTS
    Requests = 3
    Stores <- MCStores
    BufferCap = 1
    PipeCap = 1
    Tracked = 3
    Untracked = 1
    PathOrder <- MCPathOrder
    Languages = {python, typescript}
    NoLanguage = none
    python = python
    typescript = typescript
    Projects <- MCProjects
    MaxConcurrent = 2
INVARIANTS TypeOK AnswersMatch NothingOutlives OneServer UsedWhileOpen SameAsSequential
PROPERTY Returns
CHECK_DEADLOCK FALSE
