SPECIFICATION Spec
CONSTANT Replies <- MCReplies
INVARIANTS
    ProviderFailureStillTriaged
    StoredRowIsComplete
    AgentNoLaxerOnContent
CHECK_DEADLOCK FALSE
