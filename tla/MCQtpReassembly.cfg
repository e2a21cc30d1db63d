\* Eleven datagrams of five frames, at most two held back before a gap is skipped.
SPECIFICATION FairSpec
CONSTANTS
    N = 11
    Size <- MixedFrames
    Key <- MixedKeys
    Spurious = {}
    StartSn = 1
    SnMod = 16
    GapSkip = 2
    Capacity = 1
INVARIANTS
    WindowBounded
    GapsRecorded
    NothingNewIsDropped
    EmittedIntact
    KeyframesSurvive
PROPERTIES
    ImplementsChannel
    TakeFramesEnds
