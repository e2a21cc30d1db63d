\* Two sessions; the first one's engine may outlive it.
SPECIFICATION Spec
CONSTANTS
    Sessions = 2
    Schedules <- SmallSchedules
    QMax = 3
    Spacing = 2
    MinGap = 1
    Cap = 6
    Reanchor = 8
    MaxTime = 20
INVARIANTS
    PictureFirst
    NearLive
CHECK_DEADLOCK FALSE
