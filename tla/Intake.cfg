SPECIFICATION Spec
CONSTANTS
    Procs = {"p", "q", "s"}
    Blobs = {"b"}
    Plans <- MCPlans
    LIMIT = 1
    BUDGET = 2
    MaxRuns = 3
    MaxTime = 2
    MaxCalls = 2
    MaxFaults = 2
    None = None
INVARIANTS TypeOK OneRunPerKey QuotaBound 
CHECK_DEADLOCK FALSE
