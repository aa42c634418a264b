SPECIFICATION FairSpec
CONSTANTS
    Lines = 3
    CheckpointEvery = 2
    Pages = {p1, p2}
    StreamFaults <- AllStreamFaults
    MaxFaults = 1
INVARIANT HistoryLeads
INVARIANT PassedIsComplete
INVARIANT PageFollows
PROPERTY DeadPageCloses
CHECK_DEADLOCK FALSE
