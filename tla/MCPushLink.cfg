\* One push, a bind acknowledged up to twice, two breaks or failures.  The task ends with
\* an unload.
SPECIFICATION FairSpec
CONSTANTS
    Pushes = {ring}
    MaxFaults = 2
    MaxAcks = 2
    MinWait = 1
    MaxWait = 3
INVARIANTS
    TypeOK
    OneSocket
PROPERTIES
    EveryPushHandled
    LinkEnds
CHECK_DEADLOCK FALSE
