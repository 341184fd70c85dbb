# TLA+ models of naturalc

naturalc is a C framework for line-oriented network daemons. A daemon
supplies protocol controllers: bundles of hook functions. The framework
listens on TCP or UNIX sockets and accepts connections. It runs one
detached thread per client session, reads the client's lines, and calls
the controller's hooks around each line. This directory holds TLA+ models
of the concurrent and stateful parts of that framework, the TLC
configurations that check them, and `PROJECT.json`, which records:

- components and their status;
- runs, with the properties each checks;
- mutants;
- the map from each TLA+ definition to the source lines it translates;
- findings;
- hazards.

## How the source is read

The sources are written in "Natural C". The `.nc` translator is not part
of the repository. The models read the code with the convention that
`nc_exception.h` and the code's own comments imply:

- A function call used as a statement that returns a negative value jumps
  to the caller's `catch:` label, or returns -1 when there is none.
- A call cast to `(void)`, or used inside an expression or an assignment,
  does not jump.
- `throw(msg)` is `return _throwf(...)`: it returns -1 at once and does
  **not** run `catch:`. `throw_errno`, `throw_silent` and `throwf` go
  through the error path.
- `catch:` is reached only on an error. Falling off the end of a function
  returns 0.
- Locals such as `string_t *line` are created on entry and destroyed on
  exit.

## The system

| Part | Source | Role |
|---|---|---|
| Multiplexer | `src/naturalc/server.c` `server_multiplex` | One server object per (constructor, address). Each is bound and listens. The multiplexer registers each constructor's controller once. Then it loops on `poll(2)` and calls `server_accept` for every readable listener. |
| Accept | `server.c` `server_accept`, `session.c` `session_accept` | Creates the session and runs the `init` hook. Accepts the connection, applies the descriptor limit `MAX_CLIENT_COUNT` and the socket timeouts. Spawns the handler thread, or runs `overload` and tears the session down. |
| Session handler | `src/tags/1.0/session.c` `session_handler`, `session_greeting`, `session_process_request` | Sends the greeting through the `response` hook. Loops while the state is READ: reads a line, then runs the `request` and `response` hooks. On a timeout, runs the `timeout` hook. Then closes and destroys the session. |
| Close and destroy | `session_close`, `session_destroy`, `socket_close` | Close the descriptor. Run the `destroy` hook. Free the session (not if the hook fails). |
| Controller registry | `session_controller_register`, `session_controller_invoke` | A table of at most `CONTROLLER_MAX` controllers; slot 0 is a no-op for outbound sessions. `invoke` dispatches a hook by handle and turns a non-zero return into -1. |
| Line reader | `src/socket.c` `socket_readline`, with `str_split`, `str_chomp` (`string.c`) and `list_merge`, `list_shift` (`list.c`) | Returns one line per call. Keeps a per-socket list of read-ahead lines whose last element may be an unterminated fragment. |
| Socket endpoints | `socket.c` | Descriptor creation, bind (with port rewriting), accept, connect, select, write, close. |
| Privilege drop | `server.c` `drop_privileges`, `passwd.c` | Checks the user and group, then does chroot, setgid and setuid. |
| Containers and libc wrappers | `list.c`, `string.c`, `hash.c`, `file.c`, `dns.c`, `host.c`, `log.c`, `process.c`, `thread.c`, `signal.c` | Data structures and system-call wrappers. |

**How they interact.**
- The multiplexer thread is the only caller of `server_accept`.
- Once `thread_create_detached` succeeds, the session belongs to its
  handler thread, and the multiplexer no longer touches it.
- Handler threads share nothing but the controller table, which is
  written only before the poll loop starts, and the process's descriptor
  numbering: accept(2) hands out the lowest free number.
- The peer is the environment. It sends bytes in any chunking, stalls or
  closes.

**Hard behaviours:**
- hook failures on every path;
- thread creation failure;
- the descriptor limit;
- peer EOF;
- read timeouts (SO_RCVTIMEO, set in `session_accept`);
- arbitrary read(2) chunking against the fragment logic;
- the concurrent reuse of descriptor numbers.

## Modules

### SessionLifecycle (and MCSessionLifecycle)

The multiplexer's `server_accept` and the handler threads of several
concurrent connections, model values in `Sess`.

**State:**
- `st` is `session_state`, plus NONE before the session is created and
  FREED after `free()`.
- `fd` is `sock->fd`, with -1 when closed.
- `conn` is `status.connected`.
- `pc` is the code driving the session:
  - `pending` in the backlog;
  - `greet`, `loop`, `after` or `spin` inside `session_handler`;
  - `done` when released;
  - `mux_leak` or `thread_leak` when abandoned by an early return.
- `hooks` is the history of hook calls.
- `crashed` records a NULL dereference.

**Actions.** Each accept or handler action is one whole path through
`server_accept` or one iteration of `session_handler`:

| Action | Path |
|---|---|
| `AcceptInitFails` | The init hook fails; `catch:` closes a NULL socket. |
| `AcceptAborted` | accept(2) reports ECONNABORTED; `socket_set_timeout` fails; `catch:` cleans up. |
| `AcceptOverLimit` | `throw` at `MAX_CLIENT_COUNT`. |
| `AcceptSpawnFails` | The overload hook runs, then close and destroy. A failed destroy runs again from `catch:`. |
| `AcceptSpawned` | The handler thread is created. |
| `GreetingSent`, `GreetingFails`, `GreetingQuits` | The greeting succeeds, fails, or the hook closes the session. |
| `RequestServed`, `RequestQuits` | A request line is served; in `RequestQuits` the response hook closes the session. |
| `ReadTimeout` | EAGAIN moves the session to SESSION_TIMEOUT. |
| `ReadFails` | EOF: readline throws and the loop spins. |
| `SessionEnds` | The timeout hook if due (result ignored), then close and destroy. |

**Abstractions:**
- Descriptors are `1..|Sess|`. The listener holds a lower number, so
  EMFILE never happens.
- A hook's code is the controller's. Only its result and, for the
  response hook, a possible `session_close` (a QUIT) are modelled.
- `MaxRequests` bounds the requests per client.

### SocketReadline (and MCSocketReadline)

One action per `socket_readline` call, made by the session's read loop.

**State:**
- `buf` is `sock->read_buf`, a sequence of lines.
- `fragmented` is the fragment flag.
- `tailLost` is TRUE when the list is non-empty but its `tail` pointer
  is NULL, which `list_merge` of an empty token list produces.
- `connected` and `status` record how the last call ended.
- `delivered` is the history of returned lines.
- `sent`, `pos` and `peerCloses` describe the peer.

Bytes are abstracted to `"a"`, CR and LF, the only values the code
distinguishes.

**Actions:**

| Action | Path |
|---|---|
| `ReadlineBuffered` | The buffered path. |
| `ReadlineData` | The read loop up to an LF or EOF, `str_split` with its chomps, gluing onto the fragment, `list_merge`, the fragment flag and the final `list_shift`, with the two "logic error" throws and a NULL-tail write as outcomes. |
| `ReadlineTimeout` | EAGAIN. |
| `ReadlineEof` | "truncated read". |

`Strsep` (RECURSIVE) models strsep(3). `StreamLines` is the reference
definition of the lines of a byte stream: LF ends a line, CRLF counts
as LF.

### Multiplexer (and MCMultiplexer)

`server_multiplex` from `src/naturalc/server.c`, with the controller
table it fills (`session_controller_register`, session.c).

**State:**
- `numServers` is the length of the constructor array. `Init` chooses
  it anywhere in `0..NumCtors`, so one run covers short arrays that reach
  the poll loop and long ones whose registration fails.
- `ci` and `cur` are the loop indices `i` and `cur`. `handle` is the local
  `controller_handle`.
- `registry` is `CONTROLLER[1..CONTROLLER_COUNT-1]`, one constructor per
  handle (handle 0 is the null controller).
- `slots` stands for `pfd[]` and `handler[]` together: one record per
  listener, holding its constructor, address (`NoAddr` for PF_LOCAL),
  controller handle, descriptor and bound port.
- `uid` is what `getuid(2)` returns. `open` is the set of open
  descriptors (`0..FirstFd-1` at start; `socket(2)` takes the lowest
  free one). `attempt` is the constructor and port of the last `bind(2)`
  on a PF_INET socket, refused or not.
- `ready`, `served` and `oobRead` describe the last `poll(2)` round: the
  revents reported, the entries handed to `server_accept`, and whether
  the loop read `pfd[pfd_count]`.

**Actions:**

| Action | Code |
|---|---|
| `ServerListening` | One pass of the inner setup loop: server object, constructor, socket, registration on the head address, handle copied, address copied unless PF_LOCAL, `socket_bind` (`Listen`), pollfd and handler entries (`AddListener`), and the PF_LOCAL `break`. |
| `RegisterFails` | `session_controller_register` throws at `CONTROLLER_MAX`. The call is a checked statement, so the multiplexer returns -1. |
| `BindRefused` | The same pass, up to a `bind(2)` of a PF_INET socket that fails: EACCES for a port below 1024 when not root, EADDRINUSE when a listener holds the address and port (`Refused`). The descriptor stays open and the multiplexer throws. |
| `SetupFails` | The constructor, `server_socket`, `str_copy`, `socket(2)`, the PF_LOCAL `bind(2)`, `chown(2)` or `listen(2)` fails: `throw`. |
| `SetupDone` | `constructor[i] == NULL`. |
| `PollRound` | `poll(2)` reports `i > 0` entries. The dispatch loop runs (`Scan`, RECURSIVE). The word past the array has arbitrary revents: it is uninitialised heap memory, so its value is a nondeterministic choice. A POLLIN there is a call on a garbage server (`crashed`), and `j < i` is the `throwf` exit. |
| `PollFails` | `poll(2)` fails with something other than EINTR. |

The socket layer is a set of operators. `InetPort` is `socket_new_inet`:
a non-root daemon's port up to 1024 is moved by 10000, and `sin_port`
holds `htons` of the result (`Htons` swaps the two bytes, as on the
little-endian hosts the daemon runs on). `BoundPort` is
`socket_bind_inet`: when not root, it compares that network-order value
with 1024 and adds 1000 to it as a `uint16_t`. `LocalListen` is
`socket_local_operation`, whose second `socket(2)` replaces `s->fd`
and leaves the first descriptor open.

`server_accept` is not repeated here: it is SessionLifecycle's
`Multiplexer(s)` step.

### List and ListSpec (and MCList)

`src/trunk/list.c` at the level of its pointers, and the abstract
specification it is checked against.

**State of List:**
- `head`, `tail`, `count` are the `list_t` fields of each list in
  `Lists`.
- `next`, `prev`, `val` are the fields of each `list_entry_t`. Entries
  come from a pool `Nodes` of addresses; `free` is the set not
  allocated. A freed entry keeps its stale fields, as freed memory does.
- `out` is the value the last `list_pop` or `list_shift` moved to the
  caller.

**Actions.** One per list function, each including the helpers it calls
(`list_entry_new`, `list_entry_append`, `list_entry_delete`,
`list_entry_get`, `list_truncate`): `ListPush`, `ListUnshift`,
`ListPop`, `ListShift`, `ListDelete`, `ListTruncate`, `ListReverse`,
`ListMerge`, `ListMove`, `ListCopy`, `ListSort`, and `ListCat`,
`ListPutc` (a string made from the value, then `list_push`) and
`ListFromChar` (truncate, then a `list_cat` per argument; it shares
`PushAll` with `list_copy`). A call that fails
without changing anything (calloc failure, pop of an empty list) is a
stuttering step. `list_copy` stops at the first failing push, so it
leaves a prefix of the source when the pool runs out. `ListSort` is the
code's bubble sort (`BubbleSort`, `SortPass`, RECURSIVE) with its
cached comparison.

`Walk(l)` (RECURSIVE `Chain`) is what a loop from `head` along `next`
visits, cut after `|Nodes| + 1` steps should a cycle appear.

**Queries.** `ListGet` (`EntryGet` is `list_entry_get`: it checks
`count`, then walks), `ListFind`, `ListCompare` (the variadic
arguments are a sequence) and `StrJoin` are operators. ListSpec has
reference operators `Get`, `Find`, `Compare` and `Join` on sequences,
and `ListQueries` compares the two in every reachable state.
`ArgLists` bounds the argument lists of `list_from_char`.

**ListSpec** is a list as a sequence of values, with each function as the
sequence operation its comment describes (`Append`, `Tail`, `Front`,
`RemoveAt`, `Reverse`, concatenation, `SortSeq`...). List is checked to
implement it with the refinement mapping
`seqs <- [l \in Lists |-> Values(l)]` (the values a walk from `head`
visits), as the temporal property `ListRefinement`.

`LinkedSpec` is the API without `list_unshift`, `list_merge` and
`list_sort`, the three functions that break the structure or the order
(see Findings); `Spec` is the whole API; `SortSpec` pushes and sorts.

### ListCodec (checked through MCList)

`list_serialize` and `list_deserialize` (`src/trunk/list.c`) with the
string functions they call, `str_escape`, `str_unescape` and
`str_split` (`src/tags/1.0/trunk/string.c`). Each call works on its own
local strings and lists, so these are operators on texts (sequences of
character codes), not actions. `Escape` keeps alphanumerics and
`/_.-~` and writes every other byte as `%xx` in lower-case hex.
`UnescapeFrom` is the decoding loop: a `%` that `sscanf("%%%02x")`
converts (one or two hex digits, `HexRun`) is replaced by the code and
the index always advances by three; a code of 0 appends nothing
(`str_putc` of NUL is `str_cat` of ""). `Unescape(dest, t)` returns
`dest` unchanged for an empty `t`, the early return. `StrSplit` is
`str_split`: an empty source leaves the destination alone; otherwise
the copy is chomped (LF, then CR, not the delimiter) and cut at every
delimiter by `strsep` (`Pieces`, RECURSIVE). `Deserialize` carries the
one `buf` of `list_deserialize` from token to token (`PushUnescaped`).

`SerialRoundTrip` (an invariant of list_refinement, defined in MCList)
says that `Deserialize(Serialize(q)) = q` for every list that List
reaches, with its values read as texts in every way that `CodecTexts`
allows. `CodecTexts` is {"a", "%", "%a", " \n"}. These values contain the
space that `list_deserialize` splits on, the `%` that `str_unescape`
decodes (alone, and before a hex digit), and the LF that `str_split`
chomps. The lists have up to three values, so every sequence of up to
three of these texts in which two values get the same text is covered.
`ListCodecEmpty.cfg` checks the same with the empty string added
(`SerialRoundTripWithEmpty`) and fails (see Findings).

### HashTable and HashMap (and MCHashTable)

`src/tags/1.0/naturalc/hash.c`. A `hash_t` has 256 buckets, each a list
holding key and value strings alternately; a key goes to the bucket
`hash_function` gives, the XOR of its characters.

**State:** `bucket` maps each bucket the keys reach to the sequence of
strings its list holds (List shows that the list functions used here
implement sequence operations, so buckets are sequences). A NULL bucket
and an empty one behave alike in every modelled function. `count` is
`hash->count`; `out` is the key the last `hash_get` asked for and what
it returned (`Absent` when it failed); `crashed` records a NULL
dereference. Strings are sequences of character codes, so the XOR hash
is computed (`HashFunction`, a `FoldLeft` of `^^`) and collisions are
real: `<<3>>`, `<<1, 2>>` and `<<2, 1>>` share bucket 3.

**Actions:** `HashSet` (update in place, or push key then value),
`HashSetFails` (the value's push fails and the key is removed again),
`HashGet`, `HashDelete`, `HashTruncate`, `HashFromList` and
`HashFromChar`. `Search` is the loop of `hash_entry_search` and
`hash_set`: the first entry, key or value, equal to the key. `hash_set`
is also an operator on the table as a record (`Put`, `Rollback`), so
that `SetPairs` (RECURSIVE) is the loop of `hash_set` in
`hash_from_list` and `hash_from_char`, stopping at a failed set.
`HashFromList` throws on an odd list before changing anything, and
otherwise sets the pairs in order into the table as it is.
`HashFromChar` truncates and then sets the pairs its `va_arg` reads
give (`CharPairs`): (a1, a3), (a4, a5)... (see Findings). It is
outside `Next` (`FromCharSpec`); `FromListArgs` and `FromCharArgs` are
the inputs.

**Queries.** `HashGetKeys` and `HashGetValues` walk the slots in
ascending order and each bucket two entries at a time. `HashKeyExists`
is whether `hash_get` would succeed, and `HashValueExists` is
`list_find` on `HashGetValues`. `HashQueries` says that the two lists
have the same length and no repeated key, that zipped they are exactly
the pairs of the abstract map (`Abstract!Pairs`), and that the two
existence tests agree with the map.

**HashMap** is the map the header documents. HashTable implements it
under the mapping `map <- [k \in Keys |-> Lookup(k)]`, where `Lookup`
reads the entry after `k`'s key position (`HashRefinement`).

### HashCodec (checked through MCHashTable)

`hash_serialize` and `hash_deserialize` (`hash.c`), with the string
functions they call (`string.c`), as operators on texts.
`HashSerialize` writes one `PairLine` per pair, bucket by bucket: the
key, `": "`, the value, LF. A value holding an LF goes through
`SubstRegex` (`str_subst_regex` with `regex_replace_all`), which
replaces only the first LF by `\` LF (`ReplaceFirstLF`), because
`regexec` reports one match. `HashDeserialize` is a `FoldLeft` of
`ParseLine` over the `StrSplit` lines. Its state holds the locals
`key`, `val` and `multiline`, the pairs set so far, and whether the
call still runs. `StrStrRegex` is `str_str_regex` with the pattern
`([A-Za-z0-9._-]+): (.*)`. `MatchStarts` gives the places a match can
start; the leftmost is taken, its key group is the whole run of key
characters (`KeyChar`, `RunEnd`), and the value is everything after
`": "`. No match fails the call. A value whose last character
(`LastChar`, `str_get_terminator`) is `\` has it turned into LF, and
the next line continues it.

`HashSerialRoundTrip` (an invariant of hash_refinement, in MCHashTable)
says that, in every reachable state, deserialising the serialised table
gives back exactly its pairs, and the call returns 0. It tries every
way of giving the values the texts {"", "a: b", "a\b"}, and each key is
written as letters (`KeyText`). `CodecVals` also holds "a\", but
`OneLineValue` leaves it out of the check: `hash_serialize` writes a
value ending in `\` unescaped (hash.c:417-426), and `hash_deserialize`
reads that line as continued by the next (hash.c:481-486).
`HashSerialMultiline.cfg` checks every value, "a\" and "a\nb" included
(`HashSerialRoundTripWithLF`), and fails (see Findings).

### StringBuffer and StringSpec (and MCStringBuffer)

`src/tags/1.0/trunk/string.c` at the level of bytes. A `string_t` is a
pointer to a malloc'd buffer of `size` bytes and a length `len`; the
C-string readers (`strlen`, `strcmp`, the character loops) stop at the
first NUL, the others use `len`.

**State:** `buf[s]` is the buffer's bytes (`<<>>` when `value` is
NULL; its length is `size`), `len[s]` is `s->len`, `live[s]` says the
object exists. A byte is a character code (1..255), `NUL` (0), or
`Junk`: a byte malloc(3) or realloc(3)
returned and nobody wrote. `FailingAllocs` names the allocation sites
that may fail.

**Actions:** `StrNew` (16 bytes, of which only `sizeof(str->value)` are
zeroed), `StrDestroy`, `StrTruncate`, `StrTruncateAt`, `StrSetLen`,
`StrCat` (grow with `Resized`, copy with `WriteAt`, set the length;
`Cat` is the part after the guards), `StrPutc` and `StrAppend` (both
`str_cat`), `StrCpy` (`StrNcpy`), `StrCopy` and `StrMove`
(`CopyOutcomes` lists what `str_copy` can leave), `StrPrepend` (copy
dest aside, copy src over it, append the copy), `StrSprintf`
(`StrVprintf`; the formatted text is one of `Lits`), `StrChomp`,
`StrToUpper`, `StrSetTerminator`, `StrSwap`, `StrRead` (truncate,
resize to `size + 1`, then read(2) of up to `size` bytes from
`ReadBytes`, or an error, which leaves the string empty), and
`StrTranslate`, which
is kept out of `Next` and taken only by `TranslateSpec` (see
Findings). A call that fails without changing anything is a stuttering
step. A string whose value is NULL is never read as a C string: only a
caller ignoring a -1 could do that.

**Queries:** the reading functions change nothing, so they are
operators rather than actions: `StrCmp` and `StrNcmp` (`Strncmp` is
strncmp(3), recursively), `StrCasecmp`, `StrCaseCompare`,
`StrContains` (strstr(3)), `StrCompare` (its character loop is
`CompareLoop`), `StrGetChar`, `StrCount`, `StrCmpTerminator` and
`StrGetTerminator`.

**StringSpec** is a string as a sequence of characters, with each call
as its comment (or, for `str_chomp`, its selftest) describes it, and
the queries as reference operators on texts (`Lex`, `Ncmp`,
`CaseCompare`, `HasSubstring`, ...). StringBuffer implements it under
`text <- [s \in Strs |-> Text(s)]`, the first `len` bytes
(`StringRefinement`). Refinement alone cannot tell the operations
apart, because StringSpec's `str_cpy` may set any text. So
`OperationEffects` ties each `str_chomp`, `str_to_upper`,
`str_set_terminator`, `str_prepend` and `str_move` step to StringSpec's
action of the same name. `StringQueries` compares every query with its
reference operator in every reachable state, for every argument up to
`MaxLen` characters.

### Pidfile (and MCPidfile)

The pidfile protocol of `src/tags/1.0/naturalc/process.c`, with the
helpers it calls in `src/trunk/file.c` and `str_to_uint32`
(`src/tags/1.0/trunk/string.c`). Daemon instances start through
`process_daemonize`, which ends in `pidfile_create`; an administrator
stops the daemon with `pidfile_kill(program, SIGTERM)`. These are
separate processes sharing one file system, so each system call is a
step:

| Action | Code |
|---|---|
| `Daemonize` | `process_daemonize`: fork (may fail), setsid, descriptors, syslog |
| `PidfileStat` | `pidfile_create`'s `pidfile_stat`: an existing file goes to `pidfile_kill(program, 0)` |
| `AdminKill` | an administrator calls `pidfile_kill(program, SIGTERM)` |
| `KillStat` | `pidfile_kill`'s own `pidfile_stat`; no file returns 0 |
| `ReadOpen` | `file_read`'s open(2); a vanished file returns -1 |
| `ReadStat` | `file_fstat` (which stats the *path*), `str_read`, `str_chomp`, `str_to_uint32` |
| `Kill` | kill(2): signal 0 does nothing, SIGTERM ends the target (no handler is installed); ESRCH is only logged; EPERM throws |
| `Unlink` | unlink(2) of the path, whatever it names by now; ENOENT throws |
| `WriteTemp` | `file_write` up to the rename: mkstemp, write, close; failures leave the process exited and maybe an empty temporary file |
| `Rename` | `file_rename`: replaces the pidfile at once, or fails with EXDEV when the working directory is on another file system |
| `Crash` | a daemon ends at any step; nothing removes its pidfile |

State: `pc` per process, `opened` and `pid` (the file and the pid that
`pidfile_kill` read), `pidfile` (`NoFile`, the empty text or a daemon's
`"%u\n"`), and each daemon's temporary file `temp`. A pid's digits are
one symbol, the daemon, so `"%u\n"` is `<<d, LF>>`; `ParsePid` strips
the LF and fails on an empty text as `str_to_ulong` does.
`pidfile_kill` returning 0 makes `pidfile_create` throw "another
instance"; returning -1 makes it write the pidfile (`KillReturns`).

`PidfileReplacedWhole` (action property): the pidfile only ever changes
to a complete `"%u\n"` or disappears, never to an empty or partial text,
whichever process crashes or fails where. This is file_write's promise
(file.c:598-606), and it fails: `file_puts` does not test for a short
write (file.c:589-592). `WriteTemp` lets write(2) return a short count,
which leaves `ShortText` in the temporary file: the first digits of the
pid, which spell another pid (the constant `Stranger`). `Kill` of that
pid finds a process (`Exists`) or fails with ESRCH. `SingleInstance`: at most one daemon runs, the purpose
of `pidfile_create`.

### PrivilegeDrop (and MCPrivilegeDrop)

`drop_privileges` (`src/naturalc/server.c`), with the account lookups of
`src/passwd.c` that it calls. One process runs it once. Its arguments
are a user name, a group name and a chroot directory, and the caller's
real uid. Each statement that can change the process or end the function
is one action. So a failure at any statement is seen with the process
left as the earlier statements left it.

| Action | Code |
|---|---|
| `CheckUid` | getuid: a non-root caller gets a warning and 0 |
| `DnsLibraryInit`, `ThreadLibraryInit` | the library preloads; either may throw |
| `GroupStep` | `group_exists`, `group_get_id_by_name` (`GroupLookup`: "root"/"wheel" are 0, an entry over `GETGR_R_SIZE_MAX` looks missing) |
| `UserStep` | `passwd_exists(gid_str)`, then `passwd_get_id_by_name(uid_str)` |
| `Chdir`, `Chroot`, `SetGid`, `SetUid` | the system calls, in the code's order |
| `Verify` | `passwd_exists("root")` inside the jail (`UserLookup` finds nothing in a jail without a passwd file) |

The process state is `ruid`, `rgid`, `groups` and `root`. The locals are
`uid` and `gid`, and the result is `ret`. The account databases and the
directories are constants. `CallsMayFail` lets the library preloads,
chroot, setgid and setuid fail.

- `DropContract`: a root caller that gets 0 back runs as the named user
  and group, inside the jail.
- `NoHalfDrop`: once uid 0 is given up, the process is already in the
  jail and has its new gid, whichever later step then fails.
- `RootGroupsDropped`: a dropped process keeps no supplementary group.
  This one is violated.

`drop_privileges` has no caller in the repository: `server_prepare`,
which would call it, is compiled out. The model checks the function as
written.

### PasswdFile (checked through MCPrivilegeDrop)

The rest of the account helpers of `src/passwd.c` and their callers in
`src/trunk/file.c`. Each is a function of the account files and its
arguments, so each is an operator: `PasswdGetUidMap` and its row loop
`MapLoop` (`passwd_get_uid_map`), `PasswdGetSymbolicUid`,
`PasswdGetNameById`, `GroupGetNameById` (the by-id branch of
`__group_get_gev`), `FileGetOwner` and `FileGetGroup`. An /etc/passwd is
a list of up to three lines: an account `name:x:uid:`, a comment or a
blank line. Names and uids are one character each. The text is split
with ListCodec's `StrSplit` and `Chomp`, as the code calls `str_split`
and `str_chomp`. `GetPwUid` is getpwuid_r(3) with the files backend.

- `UidMapContract` (in privilege_drop_safety): for every file of
  accounts and comments with distinct uids, the map is built, and each
  uid is named as getpwuid(3) names it, or is missing.
- `SymbolicUidAsGetpwuid` and `OwnerNamesTruthful` state the same for
  every file and for `file_get_owner`/`file_get_group`. Both are violated
  (see "Also observed").

### SocketEndpoint (and MCSocketEndpoint)

The socket objects of `src/socket.c` as sessions use them, with all of
them sharing the process's descriptor table. The life of a socket is
this:

- **Inbound:** `socket_new`, `socket_set_family`, then `socket_accept`
  and `socket_set_timeout`.
- **Outbound:** `socket_new`, `socket_set_family`, then
  `socket_connect`, by `socket_connect_inet` or
  `socket_local_operation`. A caller may retry it on the same socket.
- **Both:** `socket_write`, then `socket_close` and `socket_destroy`.

Each call touches the descriptor table once, so each call is one action
(`SocketNew`, `SetFamily`, `Accept`, `SetTimeout`, `Connect`, `Select`,
`Write`, `SocketClose`, `SocketDestroy`). accept(2) and socket(2) take
the lowest free number (`Lowest`). `Accept` ends in phase "accepted".
An ECONNABORTED leaves fd -1 there. Otherwise getpeername(2) stores the
client's address (from `Peers`) in `sock->remote`, or fails.
`SetTimeout` is `session_accept`'s `socket_set_timeout`, whose
setsockopt(2) fails on fd -1. A non-blocking `socket_connect_inet` goes
through "connecting", and `Select` is its `socket_select` wait. The
peer's answers are nondeterministic: DNS failure, refusal, reset, a
select timeout, and a failed write.

`AllocMayFail` lets `list_new` fail inside `socket_new`, after the
calloc. That leaves a socket with fd 0, which the error path then
closes.

- `DescriptorsOwned`: no two live sockets hold the same open descriptor,
  and none holds the listener's.
- `OpenSocketsUsable`: a socket in phase "open", which its session
  reads and writes, holds an open descriptor. This covers aborted
  accepts, failed and retried connects, and the select wait.
- `NoLeakedDescriptor`: every open descriptor is held by a socket that
  still exists. It is checked only in a reproduction configuration.
- `BlocklistVerdict` (defined in MCSocketEndpoint): for every open
  session socket, `dns_ping_blocklist` then `dns_query_blocklist` on
  its `sock->remote` report the client listed exactly when a working
  blocklist lists it. This holds for every list of up to three
  blocklists.

### DnsLists (checked through MCSocketEndpoint)

The list-building lookups of `src/trunk/dns.c`, as operators over what
the resolver answers:

- `DnsGetMxList` and its answer loop `MxLoop` (`dns_get_mx_list`) work
  over a reply status and up to two answer records.
- `DnsPingBlocklist`/`PingLoop` and `DnsQueryBlocklist`/`QueryLoop`
  work over `GetHostByName`. A blocklist there is "up" (it answers for
  the reversed octets of the addresses it lists and for 127.0.0.2),
  "silent" (TRY_AGAIN) or "gone" (HOST_NOT_FOUND).
- `ReverseAddress` is the `list_reverse` of the octets.
- `DnsGetNameservers`/`NsLoop` (`dns_get_nameservers`) work over
  resolv.conf lines: a nameserver line, one the value pattern does not
  match, or another line.
- `DnsGetTxtRecord` (`dns_get_txt_record`) works over one TXT reply.
- `DnsLogError` is `dns_log_error`, which always returns -1.

MCSocketEndpoint instantiates the module with two client addresses
that are each other's reverse, so a query name built in the wrong order
names the other client. It has three blocklists, one of each health.

`MxContract` (the call returns 0 exactly for a good reply, with the
exchanges in reply order), `NameserversContract` (0 exactly when every
nameserver line names a server, and then the servers in file order) and
`TxtContract` (0 exactly for one well-formed TXT answer, never more
than one text) are constant formulas. TLC evaluates them once, at
startup, and they hold. They are evaluated with BlocklistPing.cfg, so
they have no mutant run. Changing `NsLoop` to skip a bad line, or the
TXT size test to `>`, makes TLC report them FALSE.

## Runs

| Run | Module / cfg | Expect | What it shows |
|---|---|---|---|
| session_safety | MCSessionLifecycle / SessionSafety.cfg | pass | Three clients. Every hook but destroy, and `pthread_create`, may fail; the third client reaches `MAX_CLIENT_COUNT = 3`. `FdDiscipline`: no descriptor is shared between sessions, and freed or finished sessions hold none. `HookContract`: each session's hook history is a prefix of `init (overload \| response (request response)* timeout?) destroy`. `TimeoutEndsClosed` (liveness): a timed-out session is eventually closed. |
| session_peer_close | SessionPeerClose.cfg | violation | `HandlerReturns` (liveness): every handler thread eventually returns. After the peer closes, the handler spins in SESSION_READ and never closes the session. A greeting hook that closes the session leads to the same spin. |
| readline_safety | MCSocketReadline / ReadlineSafety.cfg | pass | Every stream over {a, LF} of up to 10 bytes, every chunking, and a peer that may close or stall into SO_RCVTIMEO. `LineIntegrity`: until a call times out, the lines returned so far followed by the read buffer are exactly the lines of the bytes read. `NoListCorruption`: the "logic error" throws and the NULL-tail write are never reached. |
| multiplexer_safety | MCMultiplexer / MultiplexerSafety.cfg | pass | Up to four constructors, the second PF_LOCAL, over three addresses, with a four-slot controller table so that the fourth registration fails. Setup calls and `poll(2)` may fail; listeners report POLLIN only. `ListenerTable`: every listener's handle names its own constructor's controller, each controller is registered once under one handle, and once polling starts each constructor has one listener per address (exactly one if PF_LOCAL). `ServedReady`: every round the multiplexer survives serves exactly the readable listeners. The daemon runs as root or as uid 1000, and the constructors set ports 25, 10025 and 1024; a non-root daemon has moved 25 to 10025, so the third constructor's bind(2) fails with EADDRINUSE. `ListenerTable` also says each listener has its own open descriptor. |
| privilege_drop_safety | MCPrivilegeDrop / PrivilegeDropSafety.cfg | pass | Root and uid-9 callers, users root, mail and nobody, groups including one too large to look up, an empty chroot path, a jail without accounts and one with them, and any of chroot, setgid, setuid and the library preloads failing. `DropContract`, `NoHalfDrop`, and `UidMapContract` for every passwd file of up to three account and comment lines with distinct uids. |
| privilege_drop_groups | PrivilegeDropGroups.cfg | violation | `RootGroupsDropped`: the process that ran as root and now runs as `mail` still has root's supplementary groups {0, 2, 8}. |
| socket_endpoint_safety | MCSocketEndpoint / SocketEndpointSafety.cfg | pass | Two inbound sockets and one outbound socket (PF_INET or PF_LOCAL, with retries) over four descriptor numbers, one of them the listener's, with DNS failure, refusal, reset, aborted accepts, failed getpeername, select timeouts, EMFILE and failed writes. `DescriptorsOwned`, `OpenSocketsUsable`, and `BlocklistVerdict` on the address each accepted session stored. |
| pidfile_short_write | MCPidfile / PidfileShortWrite.cfg | violation | `PidfileReplacedWhole`: the pidfile only ever changes to a complete pid line or away. Three daemons started at any time, two administrators stopping the daemon, fork, mkstemp, write and kill(2) able to fail, write(2) able to return a short count, and a crash at every step. A short write is renamed into place, so the pidfile holds the first digits of the pid (`Stranger`). |
| pidfile_restart | PidfileRestart.cfg | violation | `SingleInstance` with starts that never overlap and no failures. The second start's `pidfile_kill(program, 0)` unlinks the running daemon's pidfile and refuses, so the third start runs beside the first. |
| list_refinement | MCList / ListRefinement.cfg | pass | Two lists sharing a pool of three entries, values {1, 2}, `LinkedSpec`. `WellFormed`: a walk from `head` visits `count` entries and ends at `tail`, each `prev` is the entry before, no entry is on two lists or free while listed, and no entry leaks. `ListRefinement`: every step is the ListSpec operation (or a stutter). `ListQueries`: `list_get` at every offset, `list_find`, `list_compare` with every non-empty argument list of up to four values, and `str_join` with a space or a newline report what ListSpec says of the traversed sequence. `SerialRoundTrip`: `list_deserialize` reads back what `list_serialize` wrote, for lists of non-empty values (ListCodec). |
| hash_refinement | MCHashTable / HashRefinement.cfg | pass | Keys `<<1>>`, `<<2>>`, `<<3>>`, `<<1, 2>>` (two colliding), two values no key equals, allocation failures. `BucketsPaired`: buckets hold whole key/value pairs, each key once and in its hash's bucket, and `count` is the number of pairs. `HashRefinement`: set, get, delete, truncate and `hash_from_list` (three lists: colliding keys, a repeated key, an odd list) are the map operations. `HashQueries`: `hash_get_keys`/`hash_get_values` are parallel lists of the map's pairs, and the existence tests agree with the map. `HashSerialRoundTrip`: `hash_deserialize` of `hash_serialize` of every reachable table gives back its pairs, for values holding `:`, a space and an inner `\`, with no LF and no trailing `\`. |
| string_refinement | MCStringBuffer / StringRefinement.cfg | pass | Two strings, characters 'A', 'a', CR, LF, literals "a", "A\\n" and "\\r\\n", lengths up to 2, a 4-byte initial buffer, failing `str_new`, `str_ncpy`, `vasprintf` and `str_read`'s resize, and `str_read` delivering any of the characters. `Terminated`: every live buffer has its NUL at `len` and characters before it (a NULL value has length 0). `StringRefinement`: every step is a StringSpec operation on the texts. `OperationEffects`: chomp, to_upper, set_terminator, prepend and move each do what StringSpec's operation of the same name says. `StringQueries`: `str_cmp`, `str_ncmp`, `str_casecmp`, `str_compare`, `str_case_compare`, `str_contains`, `str_get_char`, `str_count` and the terminator queries report what StringSpec says of the texts. |

**Why the bounds are enough:**
- Three sessions and `MAX_CLIENT_COUNT = 3` give two concurrently open
  descriptors below the limit and one at it. Closes and reuse of the
  lowest free number happen with two.
- Two requests per client give request/response pairs after the greeting,
  before a timeout and before a QUIT.
- For readline, 10 bytes (210,000 states, a few seconds) allow several
  complete lines plus a fragment in one chunk, a fragment glued across
  three or more reads, and runs of empty lines. Five bytes already give
  each of these cases once; the larger bound mixes them within one
  stream. Every chunking is explored.
- For the multiplexer, three addresses with one PF_LOCAL constructor give
  up to seven listeners under three handles. That is enough for the
  head-only registration and the local collapse to matter. A four-slot
  table makes the fourth constructor's registration fail. The ports
  give both an accepted and a refused bind for the non-root daemon, and
  ports up to 1024 for both `uid` values. They avoid the values whose
  swapped bytes are at most 1024; `MultiplexerPorts.cfg` uses two of those.
- For the list, three entries over two lists let a list be full while
  the other is empty (so `list_copy` and `list_push` run out), and give
  every list function a list of length 0 to 3 to work on. Two values
  make the order visible; `ListSort.cfg` uses three, the fewest with
  which the rotation leaves a list unsorted.
- For the hash table, four keys over three buckets give a bucket with
  two keys, so the search passes over another pair, and two values let
  an update be seen.
- For strings, two objects let copy, move, append, swap and compare
  run between them. A 4-byte initial buffer (the code's is 16; only its
  size relative to the lengths matters) with lengths up to 2 makes
  `str_cat` grow buffers that `str_sprintf` or `str_copy` sized
  exactly, and leaves stale bytes after truncation and shorter copies.
  'A' and 'a' make case folding visible; the query arguments are every
  sequence of the four characters up to two long.
- For the privilege drop, every combination of the names, jails and
  callers is an initial state, so each lookup outcome meets each jail.
  Each call's failure is tried at each step.
- For the sockets, four descriptor numbers for three sockets can run out
  (EMFILE), and closes make numbers free for reuse. Symmetry over the
  inbound sockets, and over the outbound sockets, is sound: no
  definition names a socket.
- For the pidfile, three daemons are the fewest for which the restart
  bug shows (one running, one refused after deleting its pidfile, one
  running beside it), and two administrators let one kill a daemon
  after another has already removed or replaced the pidfile.
  Symmetry over the daemons is sound: no definition names one.

**Mutants.** Every property of a passing run has a mutant in
`PROJECT.json`: a plausible bug in the mapped code that TLC must catch
under the run's own configuration. Examples:
- `catch:` reached on the success path;
- `socket_close` resetting the descriptor to 0;
- the fragment's first token not shifted off the list;
- the `goto read_loop` for incomplete lines dropped.

**Deadlock checking.** It is off in the session, readline and
multiplexer configurations because the system really stops: the daemon
idles in `poll(2)` once the modelled clients are served, and a reader
whose peer neither sends nor closes blocks in read(2). The pidfile
runs stop because every process ends: it runs, is refused, exits or
dies, and an administrator is done after one `pidfile_kill`.
`drop_privileges` returns, so the privilege runs stop too. The socket run
checks deadlock: a socket can always be destroyed and made again. The list, hash
and string runs check it: a client can always call another function.

**Refinement.** `list_refinement`, `hash_refinement` and
`string_refinement` check the
detailed module against its abstract specification with
`INSTANCE ... WITH` and the abstract `Spec` as a `PROPERTY`.

## Fairness

No pidfile property is about liveness, so the Pidfile module assumes no
fairness.

- **Multiplexer.** It is weakly fair: `poll(2)` is level-triggered, so a
  pending connection keeps the listener readable until it is accepted.
- **Handler threads.** Each is weakly fair: the OS keeps scheduling a
  runnable thread.
- **Line reader.** It is weakly fair: `session_handler` calls readline
  again as long as the state stays READ.
- **The peer.** It is not fair. Its choices (what to send, when to
  close, whether to stall) are nondeterministic inside the reader's
  actions.

## Findings

Details are in `PROJECT.json`.

1. Peer EOF makes the handler thread spin forever. So does a greeting
   hook that closes the session: `session_greeting` then overwrites
   SESSION_CLOSED with SESSION_READ (session.c:168).
2. `pidfile_kill(program, 0)`, which `pidfile_create` calls to test
   whether the daemon in the pidfile still runs, unlinks the pidfile
   after kill(2) whether the process exists or not, and returns 0
   (process.c:174). So `pidfile_create` throws "another instance is
   already running" even when the pidfile was stale, and when the
   daemon does run its pidfile is gone: the next start finds none and
   runs beside it. A second start with a stale pidfile fails once and
   the third succeeds.
4. `file_puts` ignores a short write(2) ("@todo test for short
   write?", file.c:592), so `file_write` renames a temporary file
   holding only the first digits of the pid into place, although its
   comment promises that the file at the path is never left partial.
   `pidfile_kill` then parses those digits as another process id and
   signals it (run pidfile_short_write).
3. `drop_privileges` calls setgid(2) and setuid(2) but never
   setgroups(2) or initgroups(3) (server.c:235). A daemon started by
   root keeps root's supplementary groups, gid 0 among them, after it
   switches to the unprivileged user.

Found with TLC under configurations kept here but not among the
checked runs (the checked runs are limited to twelve):
- A client at `MAX_CLIENT_COUNT` leaks its session and descriptor, and
  the overload hook is never called: the `throw` at server.c:275
  returns without running `catch:`. This differs from spec 4.5 step 5.
  `tlc -config SessionClientLimit.cfg MCSessionLifecycle` reports
  `NoOrphanSession` violated.
- A complete buffered line is withheld behind a fragment (socket.c:849),
  while spec scenario 2 says it is returned.
  `tlc -config ReadlinePipelined.cfg MCSocketReadline` reports
  `CompleteLinesDelivered` violated.
- The poll dispatch loop bound `n <= pfd_count` reads one `pollfd` past
  its array whenever a listener reports an error (server.c:496). The
  same round then ends the multiplexer through the "unhandled
  connections" `throwf` (server.c:517), which stops every listener.
  `tlc -config MultiplexerPollError.cfg MCMultiplexer` reports
  `DispatchInBounds` violated.
- `passwd_exists` is asked about `gid_str` instead of `uid_str`
  (server.c:208). A group name that is not also a user name fails with
  "unknown user", and a missing user is let through to the lookup.
  The lookup of a group whose entry is over `GETGR_R_SIZE_MAX` fails
  with ERANGE and is reported as an unknown group (passwd.c:213).
  `tlc -config PrivilegeDropLookup.cfg MCPrivilegeDrop` reports
  `LookupErrorsTruthful` violated.
- When `list_new` fails in `socket_new` (socket.c:166), the socket is
  left with fd 0, its calloc'd value. The session's error path then
  calls `socket_close`, which closes descriptor 0 even when that belongs
  to another session. `tlc -config SocketAllocFailure.cfg
  MCSocketEndpoint` reports `DescriptorsOwned` violated.
- A `session_connect` retried on the same socket after a refusal calls
  socket(2) again and overwrites `s->fd` (socket.c:248, 338), so the
  earlier descriptor leaks. `tlc -config SocketConnectRetry.cfg
  MCSocketEndpoint` reports `NoLeakedDescriptor` violated.
- An init hook failure crashes the daemon: `server_accept`'s `catch:`
  calls `session_close` on a session whose socket was never created,
  and `socket_close(NULL)` dereferences it (server.c:268, session.c:287,
  socket.c:1003). `tlc -config SessionInitCrash.cfg MCSessionLifecycle`
  reports `NoCrash` violated.
- `socket_bind_inet` (socket.c:301) applies its "non-root users cannot
  bind below 1024" test to `sin_port`, which holds the port in network
  byte order, and adds 1000 to that value. A non-root daemon configured
  for port 6144 (`htons` gives 24) binds port 4 and fails with EACCES.
  One configured for 240 is moved to 10240 by `socket_new_inet` and
  then bound as 4100. `socket_new_inet` adds 10000 to reserved ports,
  while spec 4.2 says 1000. `tlc -config MultiplexerPorts.cfg
  MCMultiplexer` reports `PortRule` violated. The checked run's ports
  avoid this case, so `PortRule` is not among its properties.
- `pidfile_create` tests for the pidfile with stat(2) and creates it
  later (process.c:103), so two daemons started together both run.
  `tlc -config PidfileStartRace.cfg MCPidfile` reports `SingleInstance`
  violated.
- `str_copy` throws on a failed malloc after freeing the destination
  and zeroing its size but before setting its length (string.c:289).
  The destination is left with a NULL value and its old length, and the
  next `str_cat` appends behind bytes nobody wrote.
  `tlc -config StringCopyFailure.cfg MCStringBuffer` reports
  `StringRefinement` violated after a failed copy.
- `str_translate` tests a byte for NUL and steps past it before
  comparing the next byte (string.c:1279), so it never translates the
  first character. Its selftest, "a+b+c", has no '+' there.
  `tlc -config StringTranslate.cfg MCStringBuffer` reports
  `TranslateEffect` violated: "aa" with 'a' translated to LF becomes
  "a\n". `str_translate` has no caller in the program.
- For PF_LOCAL, `socket_bind` calls `socket(2)` and then
  `socket_local_operation` calls it again, overwriting `s->fd`
  (socket.c:335). The first descriptor is never closed.
  `tlc -config MultiplexerDescriptors.cfg MCMultiplexer` reports
  `NoLeakedDescriptor` violated once polling starts.
- `list_compare` with no arguments returns -1 for every list
  (list.c:549). For an empty list, `list_get(s1, list, 0)` throws
  before the loop. `tlc -config ListCompareEmpty.cfg MCList` reports
  `EmptyListCompare` violated in the initial state.
- `list_sort` compares only the first two values of each pass
  (list.c:493), so a pass rotates the list instead of bubbling it:
  `tlc -config ListSort.cfg MCList` reports push 1, 2, 3 and a
  descending sort giving 3, 1, 2.
- The hash search compares keys with values too (hash.c:73): a value
  equal to a key in its bucket is taken for that key.
  `tlc -config HashValueAsKey.cfg MCHashTable` reports `hash_get` of a
  never-set key returning another key.

Also observed while modelling, not given a run of their own:
- A greeting failure leaks the session; after a failed thread creation a
  failing destroy hook runs twice (HookContract catches it when the
  destroy hook may fail); a lone CR at a chunk end is deleted by
  `str_chomp` (LineIntegrity with CR in the byte set).
- `list_unshift` does not set the old head's `prev`; `list_merge` does
  not set the source head's `prev`, and merging an empty list loses the
  destination's tail. TLC on `Spec` (the whole list API) reports
  `WellFormed` violated after a push and an unshift. `list_delete`
  accepts `offset == count` and deletes nothing.
- `hash_copy` hands the NULL buckets it has just zeroed to `list_copy`.
- `hash_from_char` reads `val` once before its loop and again inside
  it, so the first value is skipped: `hash_from_char(h, k1, v1, k2, v2,
  NULL)` sets `k1` to `k2` and then throws "insufficient arguments";
  every even argument list throws. It has no caller. `tlc -config
  HashFromChar.cfg MCHashTable` reports `HashRefinement` violated with
  the bucket `<<<<1>>, <<2>>>>`.
- A list holding an empty string does not survive serialisation:
  `str_unescape` returns early on an empty token, leaving
  `list_deserialize`'s reused `buf` as it was, so `["a", ""]` comes
  back as `["a", "a"]` and `[""]` as `[]`
  (`tlc -config ListCodecEmpty.cfg MCList`). `str_unescape` also drops
  the character after a `%` with a single hex digit (`"%4g"` decodes to
  `"\x04"`); escaped text never has one.
- `str_read` sets `len` to the number of bytes read(2) returned, and
  read(2) copies a NUL byte like any other, so a file or peer holding
  a NUL leaves a string whose `strlen` is shorter than its `len`
  (`tlc -config StringReadNul.cfg MCStringBuffer` reports `Terminated`
  violated after `str_new` and one `str_read`). Its EAGAIN path returns
  1 with the string emptied, as its `@bug` note says.
- A hash value holding an LF does not survive serialisation. In
  `hash_serialize`, `str_subst_regex` escapes only the first LF, and
  `hash_deserialize` appends an LF after every continued value. So
  "a\nb" comes back as "a\nb\n", and a value with two LFs ends in a
  regex mismatch or a parse error
  (`tlc -config HashSerialMultiline.cfg MCHashTable` reports
  `HashSerialRoundTripWithLF` violated with one pair). Nothing in the
  repository calls either function.
- `str_split` strips the LF (and CR) terminators, while spec 4.1 says
  that readline preserves them. The models use the code's behaviour.
- An administrator's `pidfile_kill` reads the pid, and if that daemon
  has died and a new one has written its pidfile since, the unlink
  removes the new daemon's pidfile (process.c:174).
- `file_write`'s template `"%s.tmpXXXXXXXXXX"` is passed to mkstemp
  without being formatted (file.c:612), so the temporary file is made
  in the working directory, and `file_rename` fails with EXDEV when
  that is on another file system than the pidfile. The temporary file
  is never deleted on failure (the code's own "@todo").
- `file_fstat` stats the path, not the descriptor (file.c:759), so
  `file_read` reads as many bytes as the file now at the path holds.
- "wheel" is taken as gid 0 without a lookup, and an empty chroot
  directory fails at chdir(2) (server.c:216), although the comment says
  "" means no chroot.
- `socket_connect_inet` treats a select(2) timeout after a
  non-blocking connect as success (its "@bug no error handling"). A
  failed close(2) leaves `s->fd` set, but only `socket_destroy`
  follows it, so that is harmless.
- `str_to_time` computes the timezone offset but never applies it to
  `*dest`, and `atoi("-00")` loses the sign of "-0030".
- `dns_ping_blocklist` removes only the blocklists that answer NULL
  with HOST_NOT_FOUND (dns.c:406). One that times out (TRY_AGAIN) is
  kept, although its comment says "Any blocklist that does not answer
  will be removed". `tlc -config BlocklistPing.cfg MCSocketEndpoint`
  reports "The invariant of PingRemovesSilent is equal to FALSE" (a
  constant formula). The verdict is still right: a silent blocklist
  never answers a query.
- `dns_get_mx_list` and `dns_get_nameservers` leave the entries pushed
  before a bad one in the list when they throw, and `dns_get_mx_list` does not sort its list (its "@todo Sort").
- `passwd_get_uid_map` stores the last of two accounts with the same
  uid (root and toor), where getpwuid(3) gives the first. A blank line
  before the first account makes `list_get(uid_sym, cols, 0)` throw on
  the empty column list, so no map is built.
- `passwd_get_name_by_id` dereferences `result` when getpwuid_r finds
  no account and returns 0 with a NULL result (passwd.c:271), so
  `file_get_owner` of a file owned by an unknown uid crashes.
  `group_get_name_by_id` hands its output string to `__group_get_gev`
  as the name, so a destination that already holds "root" or "wheel"
  is returned unchanged whatever the gid (passwd.c:203).
  `tlc -config PasswdNames.cfg MCPrivilegeDrop` reports
  `SymbolicUidAsGetpwuid` violated; with that invariant removed from
  the cfg, it reports `OwnerNamesTruthful` violated.
- A read that times out drops the partial line it had read
  (socket.c:868). The session always ends on a timeout, so the loss
  cannot be observed through `session_handler`, and `LineIntegrity`
  excludes timed-out calls.

## Not modelled, and the plan

Done: SessionLifecycle, SocketReadline, Multiplexer (with the
controller registry and `socket_bind` with its port rewriting and
descriptors), List with ListSpec, HashTable with HashMap,
StringBuffer with StringSpec, Pidfile, PrivilegeDrop with PasswdFile,
SocketEndpoint with DnsLists, and the handler-termination property
`HandlerReturns`, which covers the greeting-QUIT path (session.c:168).

Planned next, in order:

1. **SessionContract**: an abstract per-session specification (created,
   serving, closed, released) and a refinement mapping from
   SessionLifecycle checked with `INSTANCE ... WITH`. Deferred: its only
   clause that is not already an invariant of session_safety (a session
   reads only while its socket is open) is broken by the greeting-QUIT
   overwrite (session.c:168), which session_peer_close already shows.
   The check would add nothing.
2. **Multiplexer and SessionLifecycle composed**: a module in which the
   listeners that `PollRound` serves feed `server_accept`.
3. **The rest of dns.c:** `dns_get_service_by_name`.

Left out, with reasons:
- **TLS:** OpenSSL I/O.
- **Host, log, signal, and the rest of DNS, file and process:**
  wrappers over libc and system calls, with no framework state. Of
  `process.c` and `file.c` only the pidfile protocol shares state
  between processes, and that is modelled (Pidfile).
- **Tests:** `selftest.c` and `test.c`.
- **String functions over caller memory or libc:** `str_alias` (shares
  caller memory; its callers only read it), `str_divide` (it takes
  three distinct strings, and a third string makes string_refinement
  too large to finish in minutes), `str_set_path` (its '/' is outside
  the character set), and the regex, time, integer and inet
  conversions (their values are 32- and 64-bit, beyond TLC's integers,
  and they are single calls of libc).
- **Hash copying and printing:** `hash_copy` crashes on every
  non-empty table, and `hash_print` only logs.
- **Coverage:** the models cover the session, server, socket-readline,
  list, hash and string code, the pidfile protocol, the privilege drop
  with its account lookups and the passwd helpers, the socket
  endpoints, and the list-building DNS lookups. Most of the rest of
  `src/` is thin wrappers over libc, system calls and OpenSSL (the
  rest of `file.c` and `process.c`, the rest of `dns.c`, `log.c`, the
  TLS code). These have no state
  of their own for a model to check, and that caps the share of the
  source a faithful model can map.
- **EMFILE:** the descriptor space is exhausted only in SocketEndpoint.
