SPECIFICATION Spec
CONSTANTS
    MaxHeight = 2
    MaxUpdates = 3
    MaxGestures = 3
INVARIANT DialogWaits
PROPERTY FollowsStream
PROPERTY StopsOnlyWhenMoved
CHECK_DEADLOCK TRUE
