SPECIFICATION FairSpec
CONSTANTS
    daemon = daemon
    hook = hook
    r1 = r1
    NoTable = NoTable
    Nobody = Nobody
    Procs <- MCProcs
    Daemon <- daemon
    Order <- MCOrder
    Script <- MCScript
    Unavailable = {"003b"}
    Old = "003"
    Splits = {"003a", "003b"}
    Tables = {"epics", "platforms"}
    Columns = {"status", "appetite", "name", "hash"}
    Rows = {r1}
    Budget = 2
INVARIANTS
    TypeOK
    SchemaIsKnown
    NothingLeftOver
PROPERTIES
    KeepsRows
    SchemaIsReached
CHECK_DEADLOCK FALSE
