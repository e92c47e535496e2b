CONSTANTS
    Monitors = {m1, m2}
    Rects = {r1}
    Windows = {w1}
    MaxDelay = 2
    AllowAnnotate = FALSE
    None = None
    Cancelled = Cancelled
    Closed = Closed
SPECIFICATION FairSpec
INVARIANTS
    TypeOK
    RegionCoherent
    OneTimerPerChoice
    AnswerAfterUnmap
    KeyboardFollowsToolbar
PROPERTIES
    PickOnceSpec
    FinalisedIsAnswered
    FollowerEnds
