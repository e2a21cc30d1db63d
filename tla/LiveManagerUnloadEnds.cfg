\* Fair scheduling and consumers that leave: async_stop still may not end.
SPECIFICATION PoliteSpec
CONSTANTS
    Viewers = {v1}
    Conns = {c1}
    IdleTasks = {i1}
    Unloads = {u1}
    None = None
PROPERTY
    UnloadCompletes
CHECK_DEADLOCK FALSE
