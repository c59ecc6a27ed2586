SPECIFICATION Spec
CONSTANTS
    Topics <- MCGrainTopics
    Limits <- MCLimits
    MaxSubmissions <- MCGrainSubmissions
INVARIANT AnomalyGrain
CHECK_DEADLOCK FALSE
