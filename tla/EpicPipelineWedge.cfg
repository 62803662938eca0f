SPECIFICATION Spec
CONSTANTS
    e1 = e1
    e2 = e2
    NoEpic = NoEpic
    Epics <- MCEpics
    Priority <- MCPriority
    Nodes <- MCNodes
    Order <- MCOrder
    Depends <- MCDepends
    HumanGated = {"epic-context"}
    Escalating = {"judge"}
    Implementing = {"implement"}
    Skippable = {"map"}
    Context = "epic-context"
    Beforehand <- MCBeforehand
    Saves = {}
    GateModes = {"manual", "auto", "interactive"}
    Breakable = {{}}
    MaxFails = 2
    Faults = {"checkout"}
    Budget = 2
INVARIANTS
    RunningIsReal
