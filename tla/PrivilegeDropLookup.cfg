\* (README, "Also observed"). Not one of the checked runs.
\* drop_privileges by root with the user mail or nobody and the group
\* mail, daemon, staff or wheel: the group daemon has no user of its
\* name, staff overflows getgrnam_r's buffer.
CONSTANTS
    Names = {"mail", "nobody", "daemon", "staff", "wheel"}
    UserIds <- MCUserIds
    GroupIds <- MCGroupIds
    BigGroups = {"staff"}
    Paths = {"/jail"}
    Dirs = {"/jail"}
    JailsWithPasswd = {"/jail"}
    RootGroups = {0, 2, 8}
    Callers = {0}
    CallsMayFail = FALSE
    NotFound = NotFound
SPECIFICATION Spec
INVARIANT LookupErrorsTruthful
CHECK_DEADLOCK FALSE
