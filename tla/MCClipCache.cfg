\* Three requests, two clips: a second writer, an eviction by another clip's request, and a
\* later request that finds what they left.  The requests end.
SPECIFICATION Spec
CONSTANTS
    Requests = {r1, r2, r3}
    Clips = {doorbell, garden}
    None = None
SYMMETRY Symmetry
INVARIANTS
    OnlyRacesSpoilClips
    WorkIsCleaned
CHECK_DEADLOCK FALSE
