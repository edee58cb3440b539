SPECIFICATION Spec
CONSTANTS
    NoModel = NoModel
    m1 = m1
    m2 = m2
    Model = {m1, m2}
    ModelList <- MCModelList
    Report <- MCReport
    MaxNum = 2
    MaxCalls = 2
    MaxChanges = 1
    MaxMoves = 3
INVARIANT TimersCurrent
PROPERTY CommitsOnlyChoices
PROPERTY Directed
CHECK_DEADLOCK TRUE
