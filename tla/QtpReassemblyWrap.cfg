\* The sequence numbers reach 2^16 in mid-stream.
SPECIFICATION Spec
CONSTANTS
    N = 6
    Size <- ShortFrames
    Key <- ShortKeys
    Spurious = {}
    StartSn = 5
    SnMod = 8
    GapSkip = 1
    Capacity = 4
INVARIANTS
    NothingNewIsDropped
