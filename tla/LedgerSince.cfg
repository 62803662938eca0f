SPECIFICATION Spec
CONSTANTS
    self = self
    ext = ext
    e1 = e1
    n1 = n1
    Commits = {c1, c2}
    c1 = c1
    c2 = c2
    NoCommit = NoCommit
    Platforms = {self, ext}
    NoPlatform = NoPlatform
    Checkout = {self}
    Fallback = self
    Epics = {e1}
    NoEpic = NoEpic
    Owner <- MCOwner
    Numbers = {n1}
    Number <- MCNumber
    Raw = Raw
    Changes <- MCChanges
    Ingesters = {i1, i2}
    i1 = i1
    i2 = i2
    Reviewed = {ext}
    Since = TRUE
    Tasks = 2
    Recoveries = 1
SYMMETRY Symmetric
CHECK_DEADLOCK FALSE
INVARIANTS DriftIsReviewed
