SPECIFICATION Spec
CONSTANTS
    TenantIds <- MCTenantIds
    Assets <- MCAssets
    TagMetadata <- MCTagMetadata
    FailureModes <- MCFailureModes
    ComponentTypes <- MCComponentTypes
    Rules <- MCRules
    Profiles <- MCRules
    ModeCycle = 12
    MaxRuns = 3
    MaxInterrupts = 2
INVARIANTS
    ReferencesHold
    NumbersAgree
    TaxonomyIsTree
    FirstRunComplete
PROPERTY CompleteIsFinal
CHECK_DEADLOCK FALSE
