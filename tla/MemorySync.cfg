SPECIFICATION Spec
CONSTANTS
    feedback = feedback
    project = project
    hook = hook
    NoFile = NoFile
    Files <- MCFiles
    Order <- MCOrder
    Out <- MCOut
    Procs = {hook}
    MaxTexts = 2
    MaxRows = 2
    MaxStarts = 2
PROPERTIES
    FilesystemWins
CHECK_DEADLOCK FALSE
