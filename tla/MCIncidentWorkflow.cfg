SPECIFICATION Spec
CONSTANTS
    Tenants = {1, 2}
    Signals = {"s1", "s2"}
    Copies = {1, 2}
    Inputs <- MCInputs
    Bucket = 2
    Cooldown = 4
    NoIncident = NoIncident
INVARIANTS
    TypeOK
    IncidentIdsUnique
    IncidentsSeparated
    EveryRowInOneIncident
    ChannelFollowsWorstRow
    GroupsAreLinkedRows
PROPERTY IncidentsOnlyGrow
CHECK_DEADLOCK FALSE
