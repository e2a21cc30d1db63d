\* Two viewers, a consumer, an idle task and an unload: every interleaving.  The consumer may
\* stay for ever and the unload may hang; the system comes to rest when nobody watches.
SPECIFICATION FairSpec
CONSTANTS
    Viewers = {v1, v2}
    Conns = {c1}
    IdleTasks = {i1}
    Unloads = {u1}
    None = None
INVARIANTS
    NoOrphanSession
    WatchedOrTimed
    TeardownJustified
PROPERTIES
    BatterySpared
    ViewersAnswered
    NobodyJoinsADyingEngine
CHECK_DEADLOCK FALSE
