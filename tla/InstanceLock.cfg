SPECIFICATION Spec
CONSTANTS
    p1 = p1
    p2 = p2
    p3 = p3
    Procs <- MCProcs
    Nobody = Nobody
INVARIANT OneInstance
CHECK_DEADLOCK FALSE
