SPECIFICATION FairSpec
CONSTANTS
    Conversations = {k1, k2}
    Turns = {1, 2, 3}
    Drops = {d1}
    MaxEntries = 1
    None = None
ACTION_CONSTRAINT ArrivalsInOrder
INVARIANTS
    FinishedTurnsAreOnDisk
    CacheExtendsDisk
PROPERTIES
    RequestsFinish
CHECK_DEADLOCK FALSE
