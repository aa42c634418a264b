SPECIFICATION FairSpec
CONSTANTS
    Hosts = {h1, h2}
    MaxPolls = 2
    PollFaults <- AllPollFaults
    MaxFaults = 1
    NoSentinel = NoSentinel
INVARIANT NoCrossRender
INVARIANT SentinelOnce
INVARIANT SentinelCountsRows
INVARIANT RepliesFindTheQueue
INVARIANT TimerWillConclude
PROPERTY PollConcludes
CHECK_DEADLOCK FALSE
