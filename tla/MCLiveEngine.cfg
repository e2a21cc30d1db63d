\* Two attempts at the set-up, two dials; engines follow each other without end.
SPECIFICATION FairSpec
CONSTANTS
    Attempts = 2
    MaxDials = 2
INVARIANTS
    TypeOK
    OneMint
    RefusedIsForgotten
    PictureStartsAtKeyframe
PROPERTIES
    LifeKept
    FirstPicture
