---------------------------- MODULE Multiplexer ----------------------------
(***************************************************************************)
(* server_multiplex (src/naturalc/server.c) and the controller registry   *)
(* it fills (session_controller_register, src/tags/1.0/session.c).        *)
(*                                                                         *)
(* Setup: for each constructor and each bind address a server object is  *)
(* created, the constructor configures it, its controller is registered   *)
(* once (on the first address), and its socket is bound and put in the    *)
(* pollfd[]/handler[] arrays; a PF_LOCAL server stops after the first     *)
(* address.  Then the thread loops on poll(2) and hands every readable    *)
(* listener to server_accept.  What poll(2) reports is the environment's  *)
(* choice; server_accept itself is modelled in SessionLifecycle.          *)
(*                                                                         *)
(* Constructors and addresses are numbered from 1; C index n of the       *)
(* arrays is n + 1 here.                                                   *)
(***************************************************************************)
EXTENDS Naturals, Sequences, FiniteSets, FiniteSetsExt

CONSTANTS
    NumCtors,        \* longest constructor array the daemon may pass
    NumAddrs,        \* entries of bind_addr
    LocalCtors,      \* constructors that choose PF_LOCAL
    ControllerMax,   \* CONTROLLER_MAX, slots of the controller table
    SysCallsMayFail, \* constructor, bind(2) or poll(2) may fail
    ListenerErrors,  \* poll(2) may flag a listener POLLERR/POLLHUP/POLLNVAL
    Port,            \* srv->port each constructor sets
    Uids,            \* the values getuid(2) may return
    FirstFd          \* descriptors below it are open when the daemon starts

ASSUME /\ NumCtors \in Nat /\ NumAddrs \in Nat \ {0}
       /\ LocalCtors \subseteq 1..NumCtors
       /\ ControllerMax \in Nat \ {0}
       /\ SysCallsMayFail \in BOOLEAN /\ ListenerErrors \in BOOLEAN
       /\ Port \in [1..NumCtors -> 1..65535] /\ Uids \subseteq Nat

Ctors == 1..NumCtors
Addrs == 1..NumAddrs
NoAddr == 0      \* PF_LOCAL servers keep their socket path, not an address
NoPort == 0      \* a PF_LOCAL listener has no port

(* revents of one pollfd: nothing, POLLIN (possibly with other bits), or  *)
(* only error bits.                                                        *)
Revents == {"none", "in", "err"}

VARIABLES
    numServers, \* num_servers: constructors before the NULL terminator
    phase,     \* "setup", "poll", or the thread's end: "exited", "crashed"
    ci,        \* constructor index i of the setup loop
    cur,       \* address of the inner loop
    handle,    \* the local controller_handle
    registry,  \* CONTROLLER[1..CONTROLLER_COUNT-1]: constructor per handle
    slots,     \* pfd[] and handler[]: one listener per entry
    ready,     \* revents poll(2) reported in the last round
    served,    \* entries handed to server_accept in that round
    oobRead,   \* the round read pfd[pfd_count], one past the last entry
    uid,       \* getuid(2)
    open,      \* the descriptors open in the process
    attempt    \* the last bind(2) on a PF_INET socket: constructor and port

vars == <<numServers, phase, ci, cur, handle, registry, slots, ready, served, oobRead,
          uid, open, attempt>>

Slot == [ctor : Ctors, addr : Addrs \cup {NoAddr}, handle : Nat, fd : Nat,
         port : 0..65535]

NoAttempt == [ctor |-> 0, port |-> NoPort]

(* socket(2) returns the lowest descriptor not open.                       *)
LowestFree(S) == Min({n \in 0..Cardinality(S) : n \notin S})

(* htons/ntohs on a little-endian host: the two bytes of a uint16_t swap. *)
Htons(x) == (x % 256) * 256 + x \div 256

(* socket_new_inet: a non-root daemon's port p <= 1024 becomes p + 10000; *)
(* sin_port holds htons of the result.                                     *)
InetPort(p) == Htons(IF p <= 1024 /\ uid > 0 THEN p + 10000 ELSE p)

(* socket_bind_inet: a non-root daemon compares sin_port, in network byte *)
(* order, with 1024 and adds 1000 to it (a uint16_t); bind(2) gets the    *)
(* port ntohs(sin_port).                                                   *)
BoundPort(p) ==
    LET n == InetPort(p)
    IN  Htons(IF uid > 0 /\ n <= 1024 THEN (n + 1000) % 65536 ELSE n)

(* bind(2) on a PF_INET address fails with EACCES for a reserved port    *)
(* when not root, and with EADDRINUSE when a listener holds the address   *)
(* and port.                                                               *)
Refused(a, p) ==
    \/ uid > 0 /\ p < 1024
    \/ \E n \in DOMAIN slots : slots[n].addr = a /\ slots[n].port = p

(* socket_local_operation: a second socket(2), which replaces s->fd; the *)
(* descriptor socket_bind opened, fd1, stays open.                         *)
LocalListen(fd1) ==
    LET fd2 == LowestFree(open \cup {fd1})
    IN  [fds |-> {fd1, fd2}, fd |-> fd2, port |-> NoPort]

(* socket_bind for constructor c: socket(2), then socket_bind_inet or     *)
(* socket_local_operation.  The descriptors opened, the listener's        *)
(* descriptor and its port.                                                *)
Listen(c, local) ==
    LET fd1 == LowestFree(open)
    IN  IF local THEN LocalListen(fd1)
        ELSE [fds |-> {fd1}, fd |-> fd1, port |-> BoundPort(Port[c])]

(* CONTROLLER_COUNT: the next free handle; slot 0 is the null controller. *)
ControllerCount == Len(registry) + 1

-----------------------------------------------------------------------------
(* Setup.                                                                  *)

(* socket_bind succeeded and the pollfd/handler entries are filled: the   *)
(* new listener, under handle h.  A refused PF_INET bind is BindRefused.  *)
AddListener(h, local) ==
    LET b == Listen(ci, local)
    IN  /\ local \/ ~Refused(cur, b.port)
        /\ open' = open \cup b.fds
        /\ attempt' = IF local THEN attempt ELSE [ctor |-> ci, port |-> b.port]
        /\ slots' = Append(slots, [ctor |-> ci, handle |-> h, fd |-> b.fd, port |-> b.port,
                                   addr |-> IF local THEN NoAddr ELSE cur])

(* Mutant: the controller is registered for every address, not only on  *)
(* the head of bind_addr.                                                  *)
ServerListeningEveryAddress ==
    /\ phase = "setup"
    /\ ci <= numServers
    /\ ControllerCount < ControllerMax
    /\ LET local == ci \in LocalCtors
       IN  /\ registry' = Append(registry, ci)
           /\ handle' = ControllerCount
           /\ AddListener(ControllerCount, local)
           /\ IF local \/ cur = NumAddrs
              THEN ci' = ci + 1 /\ cur' = 1
              ELSE ci' = ci /\ cur' = cur + 1
    /\ UNCHANGED <<numServers, phase, ready, served, oobRead, uid>>

(* Mutant: session_controller_register without its CONTROLLER_MAX check.  *)
ServerListeningUnchecked ==
    /\ phase = "setup"
    /\ ci <= numServers
    /\ LET h     == IF cur = 1 THEN ControllerCount ELSE handle
           local == ci \in LocalCtors
       IN  /\ registry' = IF cur = 1 THEN Append(registry, ci) ELSE registry
           /\ handle' = h
           /\ AddListener(h, local)
           /\ IF local \/ cur = NumAddrs
              THEN ci' = ci + 1 /\ cur' = 1
              ELSE ci' = ci /\ cur' = cur + 1
    /\ UNCHANGED <<numServers, phase, ready, served, oobRead, uid>>

(* One pass of the inner loop: server_new, the constructor, server_socket, *)
(* registration on the head address, the handle copied to the server, the *)
(* address copied unless PF_LOCAL, socket_bind (Listen), the pollfd and   *)
(* handler entries, and the PF_LOCAL break.                                *)
ServerListening ==
    /\ phase = "setup"
    /\ ci <= numServers
    /\ cur = 1 => ControllerCount < ControllerMax
    /\ LET h     == IF cur = 1 THEN ControllerCount ELSE handle
           local == ci \in LocalCtors
       IN  /\ registry' = IF cur = 1 THEN Append(registry, ci) ELSE registry
           /\ handle' = h
           /\ AddListener(h, local)
           /\ IF local \/ cur = NumAddrs
              THEN ci' = ci + 1 /\ cur' = 1
              ELSE ci' = ci /\ cur' = cur + 1
    /\ UNCHANGED <<numServers, phase, ready, served, oobRead, uid>>

(* session_controller_register throws at CONTROLLER_MAX; the call is a    *)
(* checked statement, so server_multiplex returns -1.                      *)
RegisterFails ==
    /\ phase = "setup"
    /\ ci <= numServers
    /\ cur = 1
    /\ ControllerCount >= ControllerMax
    /\ phase' = "exited"
    /\ UNCHANGED <<numServers, ci, cur, handle, registry, slots, ready, served,
                   oobRead, uid, open, attempt>>

(* The same pass up to bind(2), which refuses the PF_INET address and    *)
(* port: socket_bind_inet throws with its descriptor open, and so does   *)
(* server_multiplex.                                                       *)
BindRefused ==
    /\ phase = "setup"
    /\ ci <= numServers
    /\ ci \notin LocalCtors
    /\ cur = 1 => ControllerCount < ControllerMax
    /\ registry' = IF cur = 1 THEN Append(registry, ci) ELSE registry
    /\ handle' = IF cur = 1 THEN ControllerCount ELSE handle
    /\ LET b == Listen(ci, FALSE)
       IN  /\ Refused(cur, b.port)
           /\ open' = open \cup b.fds
           /\ attempt' = [ctor |-> ci, port |-> b.port]
    /\ phase' = "exited"
    /\ UNCHANGED <<numServers, ci, cur, slots, ready, served, oobRead, uid>>

(* The constructor, server_socket, str_copy, socket(2), bind(2) of a      *)
(* PF_LOCAL path, chown(2) or listen(2) fails: throw().                    *)
SetupFails ==
    /\ phase = "setup"
    /\ ci <= numServers
    /\ SysCallsMayFail
    /\ phase' = "exited"
    /\ UNCHANGED <<numServers, ci, cur, handle, registry, slots, ready, served,
                   oobRead, uid, open, attempt>>

(* constructor[i] is NULL: the setup loop ends and the poll loop starts.  *)
SetupDone ==
    /\ phase = "setup"
    /\ ci = numServers + 1
    /\ phase' = "poll"
    /\ UNCHANGED <<numServers, ci, cur, handle, registry, slots, ready, served,
                   oobRead, uid, open, attempt>>

-----------------------------------------------------------------------------
(* The poll loop.                                                          *)

(* Mutant: j counts every examined entry, not only the POLLIN ones.       *)
RECURSIVE ScanCountsAll(_, _, _, _, _)
ScanCountsAll(rev, i, n, j, acc) ==
    IF n > Len(rev) \/ j >= i
    THEN [accepted |-> acc, j |-> j, past |-> n > Len(rev)]
    ELSE IF rev[n] = "in"
         THEN ScanCountsAll(rev, i, n + 1, j + 1, acc \cup {n})
         ELSE ScanCountsAll(rev, i, n + 1, j + 1, acc)

(* The dispatch loop `for (j = 0, n = 0; n <= pfd_count && j < i; n++)`   *)
(* over rev, which holds pfd_count + 1 entries: the last is the word past *)
(* the array.  Returns the entries accepted, the final j, and whether the *)
(* last entry was examined.                                                *)
RECURSIVE Scan(_, _, _, _, _)
Scan(rev, i, n, j, acc) ==
    IF n > Len(rev) \/ j >= i
    THEN [accepted |-> acc, j |-> j, past |-> n > Len(rev)]
    ELSE IF rev[n] = "in"
         THEN Scan(rev, i, n + 1, j + 1, acc \cup {n})
         ELSE Scan(rev, i, n + 1, j, acc)

(* poll(2) returns i > 0 entries with events.  Every POLLIN entry goes to *)
(* server_accept (whose result is ignored); error entries are only        *)
(* logged.  The word past the array is uninitialised, so its revents are  *)
(* any value, and a POLLIN there calls server_accept on a garbage server. *)
(* If fewer entries were handled than poll(2) reported, throwf ends the   *)
(* loop.                                                                   *)
PollRound ==
    /\ phase = "poll"
    /\ \E rev \in [1..Len(slots) -> IF ListenerErrors THEN Revents
                                    ELSE {"none", "in"}],
          past \in Revents :
        LET pfdCount == Len(slots)
            i == Cardinality({n \in 1..pfdCount : rev[n] # "none"})
            r == Scan(rev \o <<past>>, i, 1, 0, {})
        IN  /\ i > 0
            /\ ready' = rev
            /\ served' = r.accepted \ {pfdCount + 1}
            /\ oobRead' = r.past
            /\ phase' = IF pfdCount + 1 \in r.accepted THEN "crashed"
                        ELSE IF r.j < i THEN "exited"
                        ELSE "poll"
    /\ UNCHANGED <<numServers, ci, cur, handle, registry, slots, uid, open, attempt>>

(* poll(2) fails with something other than EINTR: throw_errno.            *)
PollFails ==
    /\ phase = "poll"
    /\ SysCallsMayFail
    /\ phase' = "exited"
    /\ UNCHANGED <<numServers, ci, cur, handle, registry, slots, ready, served,
                   oobRead, uid, open, attempt>>

Init ==
    /\ numServers \in 0..NumCtors
    /\ phase = "setup"
    /\ ci = 1
    /\ cur = 1
    /\ handle = 0
    /\ registry = <<>>
    /\ slots = <<>>
    /\ ready = <<>>
    /\ served = {}
    /\ oobRead = FALSE
    /\ uid \in Uids
    /\ open = 0..FirstFd - 1
    /\ attempt = NoAttempt

Next ==
    \/ ServerListening \/ RegisterFails \/ BindRefused \/ SetupFails \/ SetupDone
    \/ PollRound \/ PollFails

Spec == Init /\ [][Next]_vars

-----------------------------------------------------------------------------
TypeOK ==
    /\ phase \in {"setup", "poll", "exited", "crashed"}
    /\ numServers \in 0..NumCtors
    /\ ci \in 1..NumCtors + 1 /\ cur \in Addrs
    /\ handle \in Nat
    /\ registry \in Seq(Ctors) /\ Len(registry) < ControllerMax
    /\ slots \in Seq(Slot)
    /\ ready \in Seq(Revents) /\ served \subseteq DOMAIN ready
    /\ oobRead \in BOOLEAN
    /\ uid \in Uids /\ open \subseteq Nat
    /\ attempt \in {NoAttempt} \cup [ctor : Ctors, port : 0..65535]

SlotsOf(c) == {n \in DOMAIN slots : slots[n].ctor = c}

(* The listener table of spec section 3 and 4.5: every listener's handle  *)
(* names its own constructor's controller; each constructor's controller  *)
(* is registered once, under one handle shared by all its listeners; a    *)
(* PF_LOCAL constructor has one listener and the others one per address;  *)
(* each listener has its own open descriptor ("each listening descriptor *)
(* appears exactly once").  Once polling starts, every constructor has    *)
(* all of its listeners.                                                   *)
ListenerTable ==
    /\ \A n \in DOMAIN slots :
          /\ slots[n].handle \in 1..Len(registry)
          /\ registry[slots[n].handle] = slots[n].ctor
    /\ \A c \in Ctors : \A m, n \in SlotsOf(c) :
          /\ slots[m].handle = slots[n].handle
          /\ m # n => slots[m].addr # slots[n].addr
    /\ \A h, k \in DOMAIN registry : h # k => registry[h] # registry[k]
    /\ \A m, n \in DOMAIN slots : m # n => slots[m].fd # slots[n].fd
    /\ \A n \in DOMAIN slots : slots[n].fd \in open
    /\ phase = "poll" =>
          \A c \in 1..numServers :
             {slots[n].addr : n \in SlotsOf(c)} =
                 IF c \in LocalCtors THEN {NoAddr} ELSE Addrs

(* Each round the multiplexer survives hands exactly the listeners that   *)
(* poll(2) reported readable to server_accept, each once.                 *)
ServedReady ==
    phase = "poll" => served = {n \in DOMAIN ready : ready[n] = "in"}

(* The port every PF_INET listener is bound to, and the port of a refused *)
(* bind, is the one its constructor set, or that port + 10000 when a      *)
(* non-root daemon asks for a reserved port (socket_new_inet's comment    *)
(* and warning).  It takes the two rewrites, in two functions, of a value *)
(* converted to network byte order in between, to get right.             *)
Intended(c) == IF uid > 0 /\ Port[c] <= 1024 THEN Port[c] + 10000 ELSE Port[c]

PortRule ==
    /\ \A n \in DOMAIN slots : slots[n].addr # NoAddr => slots[n].port = Intended(slots[n].ctor)
    /\ attempt # NoAttempt => attempt.port = Intended(attempt.ctor)

(* Once the poll loop runs, every descriptor the setup opened is a        *)
(* listener's.                                                             *)
NoLeakedDescriptor ==
    phase = "poll" => open = (0..FirstFd - 1) \cup {slots[n].fd : n \in DOMAIN slots}

(* The dispatch loop reads only the pfd_count entries of pfd[].           *)
DispatchInBounds == ~oobRead

=============================================================================
