\* (README, "Also observed"). Not one of the checked runs.
\* Do the uid map and file_get_owner/file_get_group name owners as getpwuid(3) and getgrgid(3) do? (Either invariant alone is violated.)
\* drop_privileges called by root or by uid 9 with every combination of
\* the user names root, mail and nobody, the group names root, mail,
\* nobody and staff, and the chroot directories "", /var/empty (no
\* accounts inside) and /jail; libraries, chroot, setgid and setuid may
\* fail.  The function ends in every behaviour.
CONSTANTS
    Names = {"root", "mail", "nobody", "staff"}
    UserIds <- MCUserIds
    GroupIds <- MCGroupIds
    BigGroups = {"staff"}
    Paths = {"", "/var/empty", "/jail"}
    Dirs = {"/var/empty", "/jail"}
    JailsWithPasswd = {"/jail"}
    RootGroups = {0, 2, 8}
    Callers = {0, 9}
    CallsMayFail = TRUE
    NotFound = NotFound
SPECIFICATION Spec
INVARIANT SymbolicUidAsGetpwuid OwnerNamesTruthful
CHECK_DEADLOCK FALSE
