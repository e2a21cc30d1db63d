\* Five events; a page under way is at most one event old.
SPECIFICATION Spec
CONSTANTS
    N = 5
    Device <- TwoDevices
    Ctime <- Clocks
    Pictured = {1, 2, 3, 4, 5}
    Mapped = {2, 3, 4, 5}
    SeenMax = 5
    PollPage = 2
    PushPage = 1
    Lag = 1
INVARIANTS
    ExactlyOnce
    PictureFollows
PROPERTIES
    OnlyNew
    PictureNeverGoesBack
