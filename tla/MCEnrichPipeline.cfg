SPECIFICATION FairSpec
CONSTANTS
    Topics <- MCTopics
    Limits <- MCLimits
    MaxSubmissions <- MCMaxSubmissions
INVARIANTS
    StagingIsCompleteJoin
    OnlyBreachesReported
    AtMostThreeReports
PROPERTY EveryBreachStored
CHECK_DEADLOCK FALSE
