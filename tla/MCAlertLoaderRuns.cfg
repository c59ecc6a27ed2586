SPECIFICATION LoaderSpec
CONSTANTS
    Tenants = {1}
    Signals = {"s1"}
    Copies = {1}
    Inputs = {}
    Bucket = 2
    Cooldown = 4
    NoIncident = NoIncident
    Rows <- MCRows
    Limit = 2
    MaxRuns = 2
    NoRow = NoRow
INVARIANT StoredAnomalyInOneIncident
CHECK_DEADLOCK FALSE
