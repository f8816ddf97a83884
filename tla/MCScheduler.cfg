CONSTANTS
    Plans <- MCPlans
    MinutesPerDay = 2
    DaysPerWeek = 2
    MaxClock = 3
    QueueSize = 2
SPECIFICATION SchedulerSpec
INVARIANTS
    SchedulerTypeOK
    ScanSeesOnePlan
    PlanFollowsSaved
PROPERTIES
    OncePerMinute
    UpdateIsTaken
