\* Every clip of SmallClips.
SPECIFICATION DecryptionSpec
CONSTANTS
    PayloadOff = 4
    IvLen = 2
    AudioOff = 1
    Keystream <- Stream
    Recordings <- SmallClips
INVARIANTS
    VideoRecovered
    AudioRecovered
CHECK_DEADLOCK FALSE
