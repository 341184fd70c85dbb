\* Three concurrent clients; every hook but destroy, and pthread_create, may
\* fail; the third client reaches MAX_CLIENT_COUNT.  (A failing destroy hook
\* after a failed thread creation runs twice: README, "Findings".)
\* No SYMMETRY: the run checks a liveness property.
CONSTANTS
    Sess = {c1, c2, c3}
    MaxClientCount = 3
    MaxRequests = 2
    FailingHooks <- AllButDestroyFail
    SpawnMayFail = TRUE
SPECIFICATION Spec
INVARIANT TypeOK
INVARIANT FdDiscipline
INVARIANT HookContract
PROPERTY TimeoutEndsClosed
\* The daemon idles in poll(2) once the modelled clients are served.
CHECK_DEADLOCK FALSE
