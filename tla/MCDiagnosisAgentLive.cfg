SPECIFICATION FairSpec
CONSTANTS
    MaxOffset = 4
    Topics <- MCLiveTopics
    Workers = 1
    MaxEvents = 3
    Enabled = TRUE
    Replies <- MCReplies
    MaxSignals = 1
    MaxUncleanEnds = 0
INVARIANT EventLimit
PROPERTIES
    EveryEventSettled
    ShutdownEnds
