\* drop_privileges by root to the user mail and the group mail, in /jail,
\* with no call failing: root's supplementary groups 0 and 2 are kept.
CONSTANTS
    Names = {"mail"}
    UserIds <- MCUserIds
    GroupIds <- MCGroupIds
    BigGroups = {"staff"}
    Paths = {"", "/jail"}
    Dirs = {"/jail"}
    JailsWithPasswd = {"/jail"}
    RootGroups = {0, 2, 8}
    Callers = {0}
    CallsMayFail = FALSE
    NotFound = NotFound
SPECIFICATION Spec
INVARIANT RootGroupsDropped
CHECK_DEADLOCK FALSE
