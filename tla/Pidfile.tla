------------------------------ MODULE Pidfile ------------------------------
(***************************************************************************)
(* The pidfile protocol of src/tags/1.0/naturalc/process.c with the file  *)
(* helpers it calls from src/trunk/file.c.  Daemon instances start through *)
(* process_daemonize, which ends in pidfile_create; an administrator stops *)
(* the daemon with pidfile_kill(program, SIGTERM).  The processes run      *)
(* concurrently and share one file system, so every system call is a step *)
(* of its own: stat(2), open(2), the stat(2) of file_fstat, kill(2),       *)
(* unlink(2) and rename(2).  The calls of file_write before its rename     *)
(* (mkstemp, write, close) touch only a fresh temporary file that no other *)
(* process names, so they are one step.  A process may crash at any point; *)
(* its locals are lost and the files stay.                                 *)
(*                                                                         *)
(* Data is abstracted: the digits of a pid are one symbol, the daemon,   *)
(* so the text "%u\n" is <<d, LF>>.  Every pid has the same number of    *)
(* digits; only a short write leaves a file of another size, and read(2)  *)
(* then stops at the end of the file that was opened.                     *)
(***************************************************************************)
EXTENDS Integers, Sequences, FiniteSets, FiniteSetsExt

CONSTANTS Daemons,        \* daemon processes, each its own pid
          Admins,         \* processes that run pidfile_kill(program, SIGTERM)
          CallsMayFail,   \* fork, mkstemp, write and kill(2) may fail
          TempOnOtherFs,  \* the working directory is on another file system
          Sequential,     \* a daemon is started only when no other is starting
          NoFile,         \* a path that names no file
          Stranger        \* the pid the first digits of a daemon's pid spell

ASSUME /\ Daemons # {} /\ Daemons \cap Admins = {} /\ NoFile \notin Daemons
       /\ Stranger \notin Daemons \cup Admins \cup {NoFile}
       /\ {CallsMayFail, TempOnOtherFs, Sequential} \subseteq BOOLEAN

VARIABLES pc,       \* where each process is
          opened,   \* the file file_read opened in pidfile_kill
          pid,      \* the pid str_to_uint32 parsed from it
          pidfile,  \* NC_IPCDIR/<program>.pid: NoFile, Empty or a daemon's pid
          temp      \* each daemon's temporary file of file_write

vars == <<pc, opened, pid, pidfile, temp>>

Actors == Daemons \cup Admins
LF == 10
Empty == <<>>
(* str_sprintf(pid_str, "%u\n", getpid()).                                  *)
PidText(d) == <<d, LF>>
(* A short write of it: the first digits only, which spell the pid of a  *)
(* process that is none of the daemons, and no LF.                        *)
ShortText == <<Stranger>>
Contents == {PidText(d) : d \in Daemons} \cup {Empty, ShortText}

(* The steps of pidfile_create, pidfile_kill and file_write.  pidfile_kill *)
(* is called by pidfile_create with signal 0 and by an administrator with  *)
(* SIGTERM.                                                                 *)
KillSteps == {"kill_stat", "read_open", "read_stat", "kill", "unlink"}
Starting == {"pidfile_stat", "write_temp", "rename"} \cup KillSteps
Alive(p) == pc[p] \notin {"daemonize", "exited", "refused", "dead"}
Running == {d \in Daemons : pc[d] = "running"}
(* kill(2) finds a process: a daemon that is alive, or the stranger.      *)
Exists(q) == IF q \in Daemons THEN Alive(q) ELSE TRUE

Goto(p, l) == pc' = [pc EXCEPT ![p] = l]

(* The return of pidfile_kill.  pidfile_create throws "another instance of *)
(* %s is already running" when it returns 0 and goes on to write the       *)
(* pidfile when it returns -1; an administrator is done either way.        *)
KillReturns(p, rc) ==
    IF p \in Admins THEN Goto(p, "done")
    ELSE Goto(p, IF rc = 0 THEN "refused" ELSE "write_temp")

-----------------------------------------------------------------------------
(* process_daemonize: fork(2) (the parent exits), setsid(2), the standard *)
(* descriptors closed, syslog reopened, then pidfile_create.  When other  *)
(* instances may not overlap, the next one starts once none is starting. *)
Daemonize(d) ==
    /\ pc[d] = "daemonize"
    /\ Sequential => \A e \in Daemons : pc[e] \notin Starting
    /\ \/ Goto(d, "pidfile_stat")
       \/ CallsMayFail /\ Goto(d, "exited")
    /\ UNCHANGED <<opened, pid, pidfile, temp>>

(* pidfile_create: pidfile_stat's stat(2) of the path; an existing file  *)
(* is handed to pidfile_kill(program, 0).                                 *)
PidfileStat(d) ==
    /\ pc[d] = "pidfile_stat"
    /\ Goto(d, IF pidfile # NoFile THEN "kill_stat" ELSE "write_temp")
    /\ UNCHANGED <<opened, pid, pidfile, temp>>

(* pidfile_kill(program, signal) by an administrator.                      *)
AdminKill(a) ==
    /\ pc[a] = "idle"
    /\ Goto(a, "kill_stat")
    /\ UNCHANGED <<opened, pid, pidfile, temp>>

(* pidfile_kill: its own pidfile_stat; no pidfile returns 0.               *)
KillStat(p) ==
    /\ pc[p] = "kill_stat"
    /\ IF pidfile = NoFile THEN KillReturns(p, 0) ELSE Goto(p, "read_open")
    /\ UNCHANGED <<opened, pid, pidfile, temp>>

(* file_read: file_open's open(2) O_RDONLY; a file gone since the stat    *)
(* makes file_read, and so pidfile_kill, return -1.  The descriptor keeps *)
(* the file it opened even if the path is replaced or removed later.      *)
ReadOpen(p) ==
    /\ pc[p] = "read_open"
    /\ IF pidfile = NoFile
       THEN KillReturns(p, -1) /\ UNCHANGED opened
       ELSE Goto(p, "read_stat") /\ opened' = [opened EXCEPT ![p] = pidfile]
    /\ UNCHANGED <<pid, pidfile, temp>>

(* file_fstat calls file_stat on the path, not on the descriptor.  A      *)
(* missing path (ENOENT) returns 0 and leaves the size 0 that the fresh   *)
(* file_t was calloc'd with; a daemon's "%u\n" has a size above 0.        *)
PathSize == IF pidfile = NoFile THEN 0 ELSE Len(pidfile)

(* str_chomp, then str_to_uint32 through str_to_ulong, which throws on an *)
(* empty string: the pid, or NoFile for a failed conversion.              *)
ParsePid(text) ==
    LET u == IF text # <<>> /\ text[Len(text)] = LF THEN SubSeq(text, 1, Len(text) - 1) ELSE text
    IN  IF u = <<>> THEN NoFile ELSE u[1]

(* file_read: file_fstat, then str_read of that many bytes from the       *)
(* descriptor (none when the size is 0; read(2) stops at the end of the   *)
(* file opened), then the pid is parsed; a failed                         *)
(* read or conversion makes pidfile_kill return -1.                       *)
ReadStat(p) ==
    /\ pc[p] = "read_stat"
    /\ LET q == ParsePid(SubSeq(opened[p], 1, Min({PathSize, Len(opened[p])})))
       IN  IF q = NoFile
           THEN KillReturns(p, -1) /\ UNCHANGED pid
           ELSE Goto(p, "kill") /\ pid' = [pid EXCEPT ![p] = q]
    /\ UNCHANGED <<opened, pidfile, temp>>

(* kill(pid, signal).  ESRCH is only logged.  Signal 0 has no effect;     *)
(* SIGTERM ends the process, which installs no handler for it             *)
(* (signal_library_init).  Any other errno (EPERM) throws.               *)
Kill(p) ==
    /\ pc[p] = "kill"
    /\ \/ /\ IF p \in Admins /\ pid[p] \in Daemons /\ Alive(pid[p])
             THEN pc' = [pc EXCEPT ![p] = "unlink", ![pid[p]] = "dead"]
             ELSE Goto(p, "unlink")
       \/ CallsMayFail /\ Exists(pid[p]) /\ KillReturns(p, -1)
    /\ UNCHANGED <<opened, pid, pidfile, temp>>

(* unlink(2) of the path, whatever file it names now; ENOENT throws.      *)
Unlink(p) ==
    /\ pc[p] = "unlink"
    /\ IF pidfile = NoFile
       THEN KillReturns(p, -1) /\ UNCHANGED pidfile
       ELSE KillReturns(p, 0) /\ pidfile' = NoFile
    /\ UNCHANGED <<opened, pid, temp>>

(* file_write up to its rename: mkstemp of the template "%s.tmpXXXXXXXXXX" *)
(* (the "%s" is never formatted, so the file is made in the working       *)
(* directory), file_puts of "%u\n", close(2).  A failing mkstemp leaves no *)
(* file; a failing write leaves the empty temporary file behind ("@todo   *)
(* Delete the temporary file in the event of failure").  A write(2) that *)
(* returns a short count (ENOSPC after the first bytes) is not an error  *)
(* to file_puts ("@todo test for short write?"), and the rename follows. *)
WriteTemp(d) ==
    /\ pc[d] = "write_temp"
    /\ \/ Goto(d, "rename") /\ temp' = [temp EXCEPT ![d] = PidText(d)]
       \/ CallsMayFail /\ Goto(d, "rename") /\ temp' = [temp EXCEPT ![d] = ShortText]
       \/ CallsMayFail /\ Goto(d, "exited") /\ UNCHANGED temp
       \/ CallsMayFail /\ Goto(d, "exited") /\ temp' = [temp EXCEPT ![d] = Empty]
    /\ UNCHANGED <<opened, pid, pidfile>>

(* file_rename(template, path): rename(2) replaces the pidfile at once; *)
(* across file systems it fails with EXDEV and the temporary file stays.  *)
Rename(d) ==
    /\ pc[d] = "rename"
    /\ IF TempOnOtherFs
       THEN Goto(d, "exited") /\ UNCHANGED <<pidfile, temp>>
       ELSE /\ Goto(d, "running")
            /\ pidfile' = temp[d]
            /\ temp' = [temp EXCEPT ![d] = NoFile]
    /\ UNCHANGED <<opened, pid>>

(* A daemon crashes or exits at any point.  Nothing in the repository     *)
(* removes the pidfile when a daemon ends.                                 *)
Crash(d) ==
    /\ Alive(d)
    /\ Goto(d, "dead")
    /\ UNCHANGED <<opened, pid, pidfile, temp>>

-----------------------------------------------------------------------------
Init == /\ pc = [p \in Actors |-> IF p \in Daemons THEN "daemonize" ELSE "idle"]
        /\ opened = [p \in Actors |-> NoFile]
        /\ pid = [p \in Actors |-> NoFile]
        /\ pidfile = NoFile
        /\ temp = [d \in Daemons |-> NoFile]

Next ==
    \/ \E d \in Daemons :
          Daemonize(d) \/ PidfileStat(d) \/ WriteTemp(d) \/ Rename(d) \/ Crash(d)
    \/ \E a \in Admins : AdminKill(a)
    \/ \E p \in Actors :
          KillStat(p) \/ ReadOpen(p) \/ ReadStat(p) \/ Kill(p) \/ Unlink(p)

Spec == Init /\ [][Next]_vars

-----------------------------------------------------------------------------
TypeOK ==
    /\ pc \in [Actors -> Starting \cup {"daemonize", "idle", "running", "refused",
                                        "exited", "dead", "done"}]
    /\ opened \in [Actors -> Contents \cup {NoFile}]
    /\ pid \in [Actors -> Daemons \cup {NoFile, Stranger}]
    /\ pidfile \in Contents \cup {NoFile}
    /\ temp \in [Daemons -> Contents \cup {NoFile}]

(* file_write's promise (file.c:598-606): the file at the path is never  *)
(* partly written.  The pidfile only ever goes from one complete "%u\n"  *)
(* to another, or away; it is never seen empty or partly written,         *)
(* whatever process crashes where and whatever write(2) returns.          *)
PidfileReplacedWhole ==
    [][pidfile' # pidfile => pidfile' \in {PidText(d) : d \in Daemons} \cup {NoFile}]_pidfile

(* pidfile_create's purpose: "another instance of %s is already running"  *)
(* is thrown so that at most one daemon runs at a time.                   *)
SingleInstance == Cardinality(Running) <= 1
=============================================================================
