SPECIFICATION Spec
CONSTANTS
    None = None
    OtherText = OtherText
    WatermarkDelay = 5
    AllowedLateness = 10
    Arrivals <- MCArrivals
    MaxReadings = 6
    TenantIds <- MCTenantIds
    Tags <- MCTags
    Plausible <- MCPlausible
    Profile <- MCProfile
    Jitter <- MCJitter
    Handmade <- MCHandmade
    TopicKeys <- MCTopicKeys
    Now = 1000
    MaxJobs = 4
    MaxFailures = 1
INVARIANTS
    EveryRecordRouted
    VerdictsAgree
    HeartbeatSurvivesReplay
    LateOnlyBehindHeartbeat
    WindowAgreesWithList
    DetectionIgnoresOrder
    SteadySeriesOnlyFlatlines
CHECK_DEADLOCK FALSE
