SPECIFICATION GoalSpec
CONSTANTS
    N = 2
    PhaseOf <- OneEach
    Kinds = {"plan", "review"}
    MaxFailures <- FailuresOf
INVARIANTS
    HumanIsEarned
PROPERTIES
    PlanKept
    EndedLoopFollowed
