\* One push task beside the poll, two events; one take-over or change of password, one
\* expiry, one failed answer.
SPECIFICATION FairSpec
CONSTANTS
    Poll = poll
    Pushers = {push1}
    MaxNews = 2
    MaxThefts = 1
    MaxExpiries = 1
    MaxFaults = 1
INVARIANTS
    TypeOK
    AskedWithCause
    TokensAreStored
PROPERTIES
    SessionHeals
    EventsAreNoticed
