----------------------------- MODULE PasswdFile -----------------------------
(***************************************************************************)
(* The account-name helpers of src/passwd.c and their callers in          *)
(* src/trunk/file.c: passwd_get_uid_map, which parses /etc/passwd into a  *)
(* hash from numeric to symbolic uid, passwd_get_symbolic_uid, which      *)
(* looks a uid up in that hash, and passwd_get_name_by_id and             *)
(* group_get_name_by_id behind file_get_owner and file_get_group.  Each   *)
(* is a function of the account files and its arguments, so they are      *)
(* operators, checked for every file of a few lines.                      *)
(*                                                                         *)
(* Texts are sequences of character codes, as in ListCodec, whose         *)
(* str_split and str_chomp these functions call.  A user name and a uid   *)
(* are one character each: the uid's "%u" is one digit.                   *)
(***************************************************************************)
EXTENDS ListCodec, TLC

Colon == 58
Hash == 35

(* User names 'r' and 't', uids '0' and '9'; group names are texts, and  *)
(* "root" is the one group_get_name_by_id tests for.                      *)
NameChars == {114, 116}
UidChars == {48, 57}
RootText == <<114, 111, 111, 116>>

(* The lines of /etc/passwd: "name:x:uid:", a comment "# x", or a blank   *)
(* line, each ended by LF.                                                 *)
Line(r) == CASE r.kind = "account" -> <<r.name, Colon, 120, Colon, r.uid, Colon>>
             [] r.kind = "comment" -> <<Hash, Space, 120>>
             [] OTHER              -> <<>>

PasswdText(rows) == FlattenSeq([i \in DOMAIN rows |-> Line(rows[i]) \o <<LineFeed>>])

(* passwd_getpwuid is getpwuid_r(3) where the system has it (the build's  *)
(* HAVE_GETPWUID_R); with the files backend, the first account line with *)
(* the uid, skipping comments and blank lines; NULL when there is none.   *)
Accounts(rows) == SelectSeq(rows, LAMBDA r : r.kind = "account")
GetPwUid(rows, uid) ==
    LET m == SelectSeq(Accounts(rows), LAMBDA r : r.uid = uid)
    IN  IF m = <<>> THEN "NULL" ELSE <<m[1].name>>

-----------------------------------------------------------------------------
(* passwd_get_uid_map                                                      *)

(* Mutant: the "#" test left out.                                          *)
RECURSIVE MapLoopNoComments(_, _, _)
MapLoopNoComments(lines, cols, map) ==
    IF lines = <<>> THEN [ret |-> 0, map |-> map]
    ELSE LET c == StrSplit(cols, Head(lines), Colon)
         IN  IF Len(c) < 3 THEN [ret |-> -1, map |-> map]
             ELSE MapLoopNoComments(Tail(lines), c, (c[3] :> c[1]) @@ map)

(* The row loop: list_get(line, rows, i); a line whose first character is *)
(* '#' (str_ncmp(line, "#", 1)) is skipped; str_split(cols, line, ':')    *)
(* into the one local cols, which a blank line leaves as it was;          *)
(* list_get of columns 0 and 2, which throws when the line has fewer than *)
(* three; hash_set(map, uid, name), which replaces an earlier uid.        *)
RECURSIVE MapLoop(_, _, _)
MapLoop(lines, cols, map) ==
    IF lines = <<>> THEN [ret |-> 0, map |-> map]
    ELSE LET line == Head(lines)
         IN  IF line # <<>> /\ line[1] = Hash THEN MapLoop(Tail(lines), cols, map)
             ELSE LET c == StrSplit(cols, line, Colon)
                  IN  IF Len(c) < 3 THEN [ret |-> -1, map |-> map]
                      ELSE MapLoop(Tail(lines), c, (c[3] :> c[1]) @@ map)

(* passwd_get_uid_map(map): hash_truncate(map), file_read of /etc/passwd *)
(* (which may fail), str_chomp, str_split on LF, then the row loop.  A    *)
(* throw leaves the pairs set before it.                                  *)
PasswdGetUidMap(text, readable) ==
    IF ~readable THEN [ret |-> -1, map |-> <<>>]
    ELSE MapLoop(StrSplit(<<>>, Chomp(text), LineFeed), <<>>, <<>>)

(* passwd_get_symbolic_uid(dest, map, uid): str_sprintf("%u"), hash_get, *)
(* which throws for a missing key, then str_copy into dest.               *)
PasswdGetSymbolicUid(map, uid) ==
    IF <<uid>> \in DOMAIN map THEN [ret |-> 0, name |-> map[<<uid>>]]
    ELSE [ret |-> -1, name |-> "NULL"]

-----------------------------------------------------------------------------
(* file_get_owner and file_get_group                                       *)

(* passwd_get_name_by_id(name, uid): getpwuid_r returns 0 and a NULL      *)
(* result for a uid with no account, and result->pw_name is then read    *)
(* through NULL: segv, the process killed by SIGSEGV.                      *)
PasswdGetNameById(dest, rows, uid) ==
    IF GetPwUid(rows, uid) = "NULL" THEN [ret |-> 0, name |-> dest, segv |-> TRUE]
    ELSE [ret |-> 0, name |-> GetPwUid(rows, uid), segv |-> FALSE]

(* group_get_name_by_id(name, gid) is __group_get_gev(false, &gid, name): *)
(* its "root"/"wheel" workaround tests the name argument, which here is   *)
(* the caller's output string, and returns 0 with it unchanged; otherwise *)
(* getgrgid_r, and the group's name, or a throw when there is none.       *)
GroupGetNameById(dest, groups, gid) ==
    IF dest \in {RootText, <<119, 104, 101, 101, 108>>} THEN [ret |-> 0, name |-> dest]
    ELSE IF gid \in DOMAIN groups THEN [ret |-> 0, name |-> groups[gid]]
    ELSE [ret |-> -1, name |-> dest]

(* file_get_owner(dest, path) and file_get_group(dest, path): stat(2),    *)
(* whose failure (a file that does not exist) throws, then the name of   *)
(* st_uid or st_gid.                                                       *)
FileGetOwner(dest, rows, st) ==
    IF ~st.exists THEN [ret |-> -1, name |-> dest, segv |-> FALSE] ELSE PasswdGetNameById(dest, rows, st.uid)

FileGetGroup(dest, groups, st) ==
    IF ~st.exists THEN [ret |-> -1, name |-> dest] ELSE GroupGetNameById(dest, groups, st.gid)
-----------------------------------------------------------------------------
(* The inputs: every /etc/passwd of up to three lines.                     *)
Rows == [kind : {"account"}, name : NameChars, uid : UidChars]
        \cup [kind : {"comment", "blank"}, name : {0}, uid : {0}]
RowLists == UNION {[1..n -> Rows] : n \in 0..3}

(* An /etc/passwd of account and comment lines, no uid named twice.       *)
PlainFile(rows) ==
    /\ \A i \in DOMAIN rows : rows[i].kind # "blank"
    /\ \A i, j \in DOMAIN Accounts(rows) : Accounts(rows)[i].uid = Accounts(rows)[j].uid => i = j

(* passwd_get_symbolic_uid over passwd_get_uid_map names each uid as       *)
(* getpwuid(3) does: for a file of accounts and comments with distinct    *)
(* uids, the map is built, and every uid of an account is mapped to its   *)
(* account's name and every other uid is missing.                         *)
UidMapContract ==
    \A rows \in RowLists : PlainFile(rows) =>
        LET m == PasswdGetUidMap(PasswdText(rows), TRUE)
        IN  /\ m.ret = 0
            /\ \A u \in UidChars :
                  LET s == PasswdGetSymbolicUid(m.map, u)
                  IN  IF GetPwUid(rows, u) = "NULL" THEN s.ret = -1
                      ELSE s.ret = 0 /\ s.name = GetPwUid(rows, u)

(* The same for every file of up to three lines: one whose uid appears    *)
(* twice (root and toor), or that has a blank line before the first       *)
(* account.                                                               *)
SymbolicUidAsGetpwuid ==
    \A rows \in RowLists :
        LET m == PasswdGetUidMap(PasswdText(rows), TRUE)
        IN  \A u \in UidChars :
                LET s == PasswdGetSymbolicUid(m.map, u)
                IN  IF GetPwUid(rows, u) = "NULL" THEN s.ret = -1
                    ELSE s.ret = 0 /\ s.name = GetPwUid(rows, u)

(* file_get_owner and file_get_group return the name of the file's owner *)
(* and group, or -1: a uid without an account, or an output string that  *)
(* already holds "root", makes neither lie nor crash.                     *)
OwnerNamesTruthful ==
    \A rows \in RowLists, st \in [exists : BOOLEAN, uid : UidChars, gid : {0, 50}], dest \in {<<>>, RootText} :
        LET o == FileGetOwner(dest, rows, st)
            g == FileGetGroup(dest, 0 :> RootText, st)
        IN  /\ ~o.segv /\ (o.ret = 0 => o.name = GetPwUid(rows, st.uid))
            /\ g.ret = 0 => st.gid = 0
====
