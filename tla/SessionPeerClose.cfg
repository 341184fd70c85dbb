\* Hooks never fail, the limit is never reached; the client may hang up.
CONSTANTS
    Sess = {c1}
    MaxClientCount = 3
    MaxRequests = 1
    FailingHooks <- NoHookFails
    SpawnMayFail = FALSE
SPECIFICATION Spec
PROPERTY HandlerReturns
CHECK_DEADLOCK FALSE
