SPECIFICATION FairSpec
CONSTANTS
    daemon = daemon
    ingest = ingest
    cli = cli
    e1 = e1
    e2 = e2
    Nobody = Nobody
    Base = Base
    Procs <- MCProcs
    Daemon <- daemon
    Epics <- MCEpics
    Inodes = {1, 2, 3}
    MaxCalls = 3
    Budget = 1
INVARIANTS
    TypeOK
    Serialized
    
PROPERTIES
    CallsEnd
CHECK_DEADLOCK FALSE
