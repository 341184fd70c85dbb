\* drop_privileges called by root or by uid 9 with every combination of
\* the user names root, mail and nobody, the group names root, mail,
\* nobody and staff, and the chroot directories "", /var/empty (no
\* accounts inside) and /jail; libraries, chroot, setgid and setuid may
\* fail.  The function ends in every behaviour.
CONSTANTS
    Names = {"root", "mail", "nobody", "staff"}
    UserIds <- MCUserIds
    GroupIds <- MCGroupIds
    BigGroups = {"staff"}
    Paths = {"", "/var/empty", "/jail"}
    Dirs = {"/var/empty", "/jail"}
    JailsWithPasswd = {"/jail"}
    RootGroups = {0, 2, 8}
    Callers = {0, 9}
    CallsMayFail = TRUE
    NotFound = NotFound
SPECIFICATION Spec
INVARIANT TypeOK DropContract NoHalfDrop UidMapContract
CHECK_DEADLOCK FALSE
