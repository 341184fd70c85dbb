---------------------------- MODULE PrivilegeDrop ----------------------------
(***************************************************************************)
(* drop_privileges (src/naturalc/server.c) with the account lookups of     *)
(* src/passwd.c it calls.  One process runs it once with a user name, a    *)
(* group name and a chroot directory; every statement that can change the  *)
(* process or end the function is a step, so a failure at any of them is   *)
(* seen with the process as the steps before it left it.  The account      *)
(* databases and the directories are constants: the host's /etc/passwd    *)
(* and /etc/group, and which directories exist and hold a passwd file.    *)
(***************************************************************************)
EXTENDS Integers, FiniteSets

CONSTANTS Names,            \* names the configuration may pass
          UserIds,          \* /etc/passwd: user name -> uid
          GroupIds,         \* /etc/group: group name -> gid
          BigGroups,        \* groups whose entry overflows getgrnam_r's buffer
          Paths,            \* chroot directories the configuration may pass
          Dirs,             \* the directories that exist
          JailsWithPasswd,  \* directories with a working etc/passwd inside
          RootGroups,       \* the supplementary groups root starts with
          Callers,          \* the real uids the process may start with
          CallsMayFail,     \* library initialisation, chroot, setgid, setuid may fail
          NotFound          \* the result of a failed lookup

ASSUME /\ "" \notin Dirs /\ JailsWithPasswd \subseteq Dirs
       /\ 0 \in Callers /\ BigGroups \subseteq DOMAIN GroupIds
       /\ CallsMayFail \in BOOLEAN

VARIABLES pc,      \* the statement drop_privileges is at
          args,    \* [user, group, chrootdir] passed in, and the caller's uid
          ruid,    \* the process's uid
          rgid,    \* the process's gid
          groups,  \* its supplementary group list
          root,    \* its root directory
          uid,     \* the local uid
          gid,     \* the local gid
          ret      \* "running", "ok" or the error the function ended with

vars == <<pc, args, ruid, rgid, groups, root, uid, gid, ret>>

Errors == {"IoError", "UnknownGroup", "UnknownUser", "JailBroken"}

(* __group_get_gev by name: "root" and "wheel" are gid 0 without a lookup *)
(* (the BSD/Linux workaround); otherwise getgrnam_r, whose ERANGE for an *)
(* entry larger than GETGR_R_SIZE_MAX leaves ptr NULL like a missing     *)
(* group, and both throw.                                                *)
GroupLookup(n) ==
    IF n \in {"root", "wheel"} THEN 0
    ELSE IF n \in DOMAIN GroupIds \ BigGroups THEN GroupIds[n]
    ELSE NotFound

(* group_exists: whether group_get_id_by_name succeeds.                   *)
GroupExists(n) == GroupLookup(n) # NotFound

(* passwd_get_id_by_name: getpwnam_r under the current root directory,  *)
(* NotFound when pwptr stays NULL.  A jail has the host's accounts when   *)
(* it has a passwd file at all.                                          *)
UserLookup(n) ==
    IF root # "/" /\ root \notin JailsWithPasswd THEN NotFound
    ELSE IF n \in DOMAIN UserIds THEN UserIds[n] ELSE NotFound

(* passwd_exists: a user name that resolves.                              *)
UserExists(n) == UserLookup(n) # NotFound

(* throwf, throw, throw_errno, or a failing statement call: -1.           *)
Fail(e) == pc' = "done" /\ ret' = e

Goto(l) == pc' = l

-----------------------------------------------------------------------------
(* A non-root caller only gets a warning and 0.                           *)
CheckUid ==
    /\ pc = "getuid"
    /\ IF ruid > 0 THEN Goto("done") /\ ret' = "ok" ELSE Goto("dns") /\ UNCHANGED ret
    /\ UNCHANGED <<args, ruid, rgid, groups, root, uid, gid>>

(* dns_library_init: once per process, host_get_name (which may fail),   *)
(* then gethostbyname and a DNS lookup whose results are ignored, to load *)
(* the resolver libraries before the chroot.                             *)
DnsLibraryInit ==
    /\ pc = "dns"
    /\ \/ Goto("threads") /\ UNCHANGED ret
       \/ CallsMayFail /\ Fail("IoError")
    /\ UNCHANGED <<args, ruid, rgid, groups, root, uid, gid>>

(* thread_library_init: the pthread_attr calls, each of which throws on   *)
(* failure, then a throw-away detached thread to load libpthread.        *)
ThreadLibraryInit ==
    /\ pc = "threads"
    /\ \/ Goto("group") /\ UNCHANGED ret
       \/ CallsMayFail /\ Fail("IoError")
    /\ UNCHANGED <<args, ruid, rgid, groups, root, uid, gid>>

(* group_exists, then group_get_id_by_name.                               *)
GroupStep ==
    /\ pc = "group"
    /\ IF ~GroupExists(args.group)
       THEN Fail("UnknownGroup") /\ UNCHANGED gid
       ELSE Goto("user") /\ gid' = GroupLookup(args.group) /\ UNCHANGED ret
    /\ UNCHANGED <<args, ruid, rgid, groups, root, uid>>

(* passwd_exists is asked about gid_str, not uid_str (server.c:208); then *)
(* passwd_get_id_by_name(&uid, uid_str), whose failure returns -1.        *)
UserStep ==
    /\ pc = "user"
    /\ IF ~UserExists(args.group) \/ ~UserExists(args.user)
       THEN Fail("UnknownUser") /\ UNCHANGED uid
       ELSE Goto("chdir") /\ uid' = UserLookup(args.user) /\ UNCHANGED ret
    /\ UNCHANGED <<args, ruid, rgid, groups, root, gid>>

(* Mutant: chdir(2)'s result not checked.                                  *)
UncheckedChdir ==
    /\ pc = "chdir"
    /\ Goto("chroot")
    /\ UNCHANGED <<args, ruid, rgid, groups, root, uid, gid, ret>>

(* chdir(2) to chrootdir: ENOENT for a missing directory, and for "" too. *)
Chdir ==
    /\ pc = "chdir"
    /\ IF args.chrootdir \in Dirs THEN Goto("chroot") /\ UNCHANGED ret
       ELSE Fail("IoError")
    /\ UNCHANGED <<args, ruid, rgid, groups, root, uid, gid>>

(* chroot(2), then str_sprintf of the prefix regex.                       *)
Chroot ==
    /\ pc = "chroot"
    /\ \/ Goto("setgid") /\ root' = args.chrootdir /\ UNCHANGED ret
       \/ CallsMayFail /\ Fail("IoError") /\ UNCHANGED root
    /\ UNCHANGED <<args, ruid, rgid, groups, uid, gid>>

(* Mutant: setgid(2) left out.                                             *)
SkipSetGid ==
    /\ pc = "setgid"
    /\ Goto("setuid")
    /\ UNCHANGED <<args, ruid, rgid, groups, root, uid, gid, ret>>

(* setgid(2) as root sets the real, effective and saved gid; nothing      *)
(* calls setgroups(2) or initgroups(3), so the supplementary list stays.  *)
SetGid ==
    /\ pc = "setgid"
    /\ \/ Goto("setuid") /\ rgid' = gid /\ UNCHANGED ret
       \/ CallsMayFail /\ Fail("IoError") /\ UNCHANGED rgid
    /\ UNCHANGED <<args, ruid, groups, root, uid, gid>>

(* Mutant: setuid(2)'s result ignored, as if cast to (void).              *)
UncheckedSetUid ==
    /\ pc = "setuid"
    /\ Goto("verify")
    /\ \/ ruid' = uid
       \/ CallsMayFail /\ UNCHANGED ruid
    /\ UNCHANGED <<args, rgid, groups, root, uid, gid, ret>>

(* setuid(2).                                                             *)
SetUid ==
    /\ pc = "setuid"
    /\ \/ Goto("verify") /\ ruid' = uid /\ UNCHANGED ret
       \/ CallsMayFail /\ Fail("IoError") /\ UNCHANGED ruid
    /\ UNCHANGED <<args, rgid, groups, root, uid, gid>>

(* passwd_exists("root") inside the jail; a jail without accounts throws. *)
Verify ==
    /\ pc = "verify"
    /\ IF UserExists("root") THEN Goto("done") /\ ret' = "ok" ELSE Fail("JailBroken")
    /\ UNCHANGED <<args, ruid, rgid, groups, root, uid, gid>>

-----------------------------------------------------------------------------
Init ==
    /\ args \in [user : Names, group : Names, chrootdir : Paths, caller : Callers]
    /\ pc = "getuid"
    /\ ruid = args.caller
    /\ rgid = args.caller
    /\ groups = IF args.caller = 0 THEN RootGroups ELSE {args.caller}
    /\ root = "/"
    /\ uid = NotFound
    /\ gid = NotFound
    /\ ret = "running"

Next == CheckUid \/ DnsLibraryInit \/ ThreadLibraryInit \/ GroupStep \/ UserStep \/ Chdir \/ Chroot
        \/ SetGid \/ SetUid \/ Verify

Spec == Init /\ [][Next]_vars

-----------------------------------------------------------------------------
Ids == {UserIds[n] : n \in DOMAIN UserIds} \cup {GroupIds[n] : n \in DOMAIN GroupIds}
       \cup Callers \cup RootGroups \cup {0}

TypeOK ==
    /\ pc \in {"getuid", "dns", "threads", "group", "user", "chdir", "chroot", "setgid",
               "setuid", "verify", "done"}
    /\ ruid \in Ids /\ rgid \in Ids /\ groups \subseteq Ids
    /\ root \in {"/"} \cup Dirs
    /\ uid \in Ids \cup {NotFound} /\ gid \in Ids \cup {NotFound}
    /\ ret \in {"running", "ok"} \cup Errors

(* The contract of drop_privileges (its comment, spec 4.6): when a root  *)
(* caller gets 0 back, the process runs as the named user and the named  *)
(* group of the account databases, inside the chroot jail.                *)
DropContract ==
    ret = "ok" /\ args.caller = 0 =>
        /\ ruid = UserIds[args.user]
        /\ rgid = GroupIds[args.group]
        /\ root = args.chrootdir

(* The order of chroot, setgid and setuid in drop_privileges: a root      *)
(* process that has given up uid 0, whichever later step then fails, is   *)
(* already inside the jail and already has the gid it looked up; it can   *)
(* no longer do either once it is not root.                               *)
NoHalfDrop ==
    args.caller = 0 /\ ruid # 0 => rgid = gid /\ root = args.chrootdir

(* "Remove root privileges from the current process": once a root caller *)
(* runs as another user, it belongs to no group but the one it switched  *)
(* to.  drop_privileges never calls setgroups(2) or initgroups(3).        *)
RootGroupsDropped ==
    args.caller = 0 /\ ruid # 0 => groups \subseteq {rgid}

(* Spec 4.6 steps 2 and 3: drop_privileges fails with UnknownGroup only   *)
(* for a group that does not exist, and with UnknownUser only for a user  *)
(* that does not exist.                                                   *)
LookupErrorsTruthful ==
    /\ ret = "UnknownGroup" => args.group \notin DOMAIN GroupIds
    /\ ret = "UnknownUser" => args.user \notin DOMAIN UserIds
====
