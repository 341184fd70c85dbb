\* A controller whose init hook fails (README, "Also observed").  Not one
\* of the checked runs.
CONSTANTS
    Sess = {c1}
    MaxClientCount = 3
    MaxRequests = 1
    FailingHooks <- InitFails
    SpawnMayFail = FALSE
SPECIFICATION Spec
INVARIANT NoCrash
CHECK_DEADLOCK FALSE
