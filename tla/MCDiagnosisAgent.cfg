SPECIFICATION Spec
CONSTANTS
    MaxOffset = 5
    Topics <- MCTopics
    Workers = 2
    MaxEvents = 6
    Enabled = TRUE
    Replies <- MCReplies
    MaxSignals = 1
    MaxUncleanEnds = 1
INVARIANTS
    TypeOK
    Accounting
    BoundedPool
    LossOnlyByKill
    RetriagedOnlyAfterUncleanEnd
    ProducedIsPublished
PROPERTY RefinesEventTriage
