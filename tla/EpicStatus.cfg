SPECIFICATION Spec
CONSTANTS
    Epics = {e1}
    e1 = e1
    NoEpic = NoEpic
    Nodes <- MCNodes
    Required <- MCNodes
    First <- MCFirst
    Context = "1-epic-context"
    Files <- MCFiles
    Output <- MCOutput
    Templated = {"spec.md"}
    Garbled = {"qa-report.md"}
    Planned = {"proposed", "drafted"}
    Overrides = {"drafted", "queued"}
    Hooks = 1
    Days = 2
    Budget = 1
CHECK_DEADLOCK FALSE
INVARIANTS TypeOK ReseedSettles
PROPERTIES NeverUndone ShippedStays DraftNeedsWork
