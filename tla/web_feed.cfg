SPECIFICATION Spec
CONSTANTS
    None = None
    NoModel = NoModel
    c1 = c1
    c2 = c2
    c3 = c3
    m1 = m1
    m2 = m2
    n1 = n1
    n2 = n2
    NodeId = {n1, n2}
    Conn = {c1, c2, c3}
    Model = {m1, m2}
    ModelList <- MCModelList
    Snapshot <- MCSnapshot
    Host = "cluster"
    MaxExtra = 1
    MaxFaults = 2
    MaxChanges = 1
INVARIANT StreamsAccounted
INVARIANT AlarmJustified
PROPERTY NeverBack
PROPERTY Converges
CHECK_DEADLOCK TRUE
