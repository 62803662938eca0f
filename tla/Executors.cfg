SPECIFICATION Spec
CONSTANTS
    cli1 = cli1
    cli2 = cli2
    L1 = L1
    epic1 = epic1
    n1 = n1
    n2 = n2
    n3 = n3
    Procs <- MCProcs
    Epics <- MCEpics
    Nodes <- MCNodes
    Listed <- MCListed
    Graphs <- MCGraphs
    HumanGated = {n1}
    Escalating = {n2}
    Skippable = {n3}
    Modes = {"manual", "interactive"}
    Retries = 1
    MaxStarts = 2
    Budget = 2
INVARIANTS
    TypeOK
    OrderIsSound
    DependenciesFirst
    CompleteMeansAll

    
SYMMETRY MCSymmetry
CHECK_DEADLOCK FALSE
