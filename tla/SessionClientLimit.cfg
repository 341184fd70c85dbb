\* (README, "Also observed"). Not one of the checked runs.
\* Hooks never fail; the second concurrent client reaches MAX_CLIENT_COUNT.
CONSTANTS
    Sess = {c1, c2}
    MaxClientCount = 2
    MaxRequests = 1
    FailingHooks <- NoHookFails
    SpawnMayFail = FALSE
SPECIFICATION Spec
INVARIANT NoOrphanSession
CHECK_DEADLOCK FALSE
