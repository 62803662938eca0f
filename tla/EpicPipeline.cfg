SPECIFICATION FairSpec
CONSTANTS
    e1 = e1
    e2 = e2
    NoEpic = NoEpic
    Epics <- MCEpics
    Priority <- MCPriority
    Nodes <- MCNodes
    Order <- MCOrder
    Depends <- MCDepends
    HumanGated = {"epic-context"}
    Escalating = {"judge"}
    Implementing = {"implement"}
    Skippable = {"map"}
    Context = "epic-context"
    Beforehand <- MCBeforehand
    Saves <- MCSaves
    GateModes = {"manual", "interactive"}
    Breakable <- MCBreakable
    MaxFails = 2
    Faults = {"checkout", "prepare", "block", "database"}
    Budget = 2
INVARIANTS
    TypeOK
    DependenciesFirst
    GateBeforeNode
    OneOpenRun
    WalkIsWhole
PROPERTIES
    ShippedIsEarnedAndFinal
    EpicsEnd
CHECK_DEADLOCK FALSE
