\* Six frames, in every division into chunks, by a relay that wraps them or does not.
SPECIFICATION RelaySpec
CONSTANTS
    N = 6
    Begins <- Layout
    Overrun <- Overruns
    Answer = 2
    Trim = 3
INVARIANTS
    FramesAsSent
    StartsUnderstood
CHECK_DEADLOCK FALSE
