SPECIFICATION LoaderSpec
CONSTANTS
    Tenants = {1}
    Signals = {"s1"}
    Copies = {1}
    Inputs = {}
    Bucket = 2
    Cooldown = 4
    NoIncident = NoIncident
    Rows <- MCRows
    Limit = 3
    MaxRuns = 3
    NoRow = NoRow
INVARIANTS
    StoredRowsReferToStoredRows
    DeliveredWasShown
    LoadedRunIsComplete
CHECK_DEADLOCK FALSE
