SPECIFICATION FairSpec
CONSTANTS
    None = None
    Handlers = {h1, h2}
    Workers = {w1, w2}
    Questions <- MCQuestions
    Claims <- MCClaims
    Templates <- MCTemplates
    Company = "acme"
    Round = "first"
    PlanConfigs <- MCPlanConfigs
    Allocations = {20, 200, 380}
    MaxAttempts = 2
    MaxUploads = 2
    MaxRetries = 1
    MaxPlans = 1
    MaxRequests = 4
    MaxFaults = 2
INVARIANTS
    ResumeIsBacked
    PlansArePlayable
PROPERTIES
    SetupSettles
CHECK_DEADLOCK FALSE
