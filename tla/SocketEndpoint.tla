---------------------------- MODULE SocketEndpoint ----------------------------
(***************************************************************************)
(* The socket objects of src/socket.c as the sessions use them, sharing    *)
(* the process's descriptor table.  An inbound socket is made by           *)
(* session_accept (socket_new, socket_set_family, socket_accept,           *)
(* socket_set_timeout); an outbound one by session_connect (socket_new,    *)
(* socket_set_family, socket_connect), which a caller may call again on    *)
(* the same socket after a failure.  Either writes responses, then         *)
(* session_close calls socket_close and session_destroy socket_destroy,   *)
(* on the success and on the error path alike.  Each socket belongs to    *)
(* one thread; the threads interleave, and each call touches the           *)
(* descriptor table once, so a call is a step.  accept(2) and socket(2)   *)
(* return the lowest free descriptor.  The peers are the environment: an  *)
(* outcome of each call is chosen from what the system calls can return.  *)
(***************************************************************************)
EXTENDS Integers, FiniteSets

CONSTANTS Inbound,       \* socket objects of accepted sessions
          Outbound,      \* socket objects of session_connect
          Fds,           \* descriptor numbers of the process
          ListenFd,      \* the listening socket's descriptor
          AllocMayFail,  \* list_new may fail after the socket_t is calloc'd
          Peers          \* the IPv4 addresses clients connect from

ASSUME /\ Inbound \cap Outbound = {} /\ ListenFd \in Fds /\ 0 \in Fds
       /\ Fds \subseteq Nat /\ AllocMayFail \in BOOLEAN

Socks == Inbound \cup Outbound

VARIABLES sk,      \* each socket_t: fd, family, direction, status.connected, status.timeout
          phase,   \* where its caller is in the session's use of it
          opened   \* the descriptors open in the process

vars == <<sk, phase, opened>>

NoSocket == [fd |-> -1, family |-> "none", direction |-> "unknown", connected |-> FALSE,
            timeout |-> FALSE, remote |-> <<>>]

(* The lowest free descriptor, which accept(2) and socket(2) return.      *)
Lowest == CHOOSE x \in Fds \ opened : \A y \in Fds \ opened : x <= y
NoFreeFd == opened = Fds

Set(s, r) == sk' = [sk EXCEPT ![s] = r]
Goto(s, p) == phase' = [phase EXCEPT ![s] = p]

-----------------------------------------------------------------------------
(* Mutant: socket_new without its "s->fd = -1" default.                   *)
SocketNewNoDefault(s) ==
    /\ phase[s] = "none"
    /\ Set(s, [NoSocket EXCEPT !.family = "unset", !.fd = 0])
    /\ Goto(s, "new")
    /\ UNCHANGED opened

(* socket_new: mem_calloc, list_new, then fd -1, UNKNOWN, family -1.  A   *)
(* failing calloc leaves no socket; a failing list_new returns -1 with    *)
(* the calloc'd object in place: fd 0, family 0 (AF_UNSPEC), and its     *)
(* caller's error path goes on to close it.                              *)
SocketNew(s) ==
    /\ phase[s] = "none"
    /\ \E listed \in IF AllocMayFail THEN BOOLEAN ELSE {TRUE} :
          IF listed THEN Set(s, [NoSocket EXCEPT !.family = "unset"]) /\ Goto(s, "new")
          ELSE Set(s, [NoSocket EXCEPT !.fd = 0, !.family = "unspec"]) /\ Goto(s, "failed")
    /\ UNCHANGED opened

(* socket_set_family(sock, family) on a fresh socket (family -1): an      *)
(* inbound socket gets the server's PF_INET; session_connect's family    *)
(* may be PF_INET or PF_LOCAL.                                            *)
SetFamily(s) ==
    /\ phase[s] = "new"
    /\ \E f \in IF s \in Inbound THEN {"inet"} ELSE {"inet", "local"} :
          Set(s, [sk[s] EXCEPT !.family = f])
    /\ Goto(s, "family")
    /\ UNCHANGED opened

(* socket_accept.  accept(2) retries on EINTR; ECONNABORTED stores -1 and *)
(* returns 0; EMFILE and other errors store -1 and throw.  A new           *)
(* descriptor is connected, CONNECT, the listener's PF_INET; getpeername(2) *)
(* copies the client's address into sock->remote, or fails (ENOTCONN      *)
(* after a reset) before the copy, leaving the descriptor open.           *)
Accept(s) ==
    /\ phase[s] = "family" /\ s \in Inbound
    /\ \/ Set(s, [sk[s] EXCEPT !.fd = -1]) /\ UNCHANGED opened
          /\ \E aborted \in BOOLEAN : Goto(s, IF aborted THEN "accepted" ELSE "failed")
       \/ /\ ~NoFreeFd
          /\ opened' = opened \cup {Lowest}
          /\ \E ok \in BOOLEAN : \E peer \in IF ok THEN Peers ELSE {<<>>} :
                /\ Set(s, [sk[s] EXCEPT !.fd = Lowest, !.connected = TRUE, !.direction = "connect",
                                        !.family = "inet", !.remote = peer])
                /\ Goto(s, IF ok THEN "accepted" ELSE "failed")

(* Mutant: session_accept going on after an aborted accept as if          *)
(* setsockopt(2) had succeeded on descriptor -1.                           *)
SetTimeoutUnchecked(s) ==
    /\ phase[s] = "accepted"
    /\ Goto(s, "open")
    /\ UNCHANGED <<sk, opened>>

(* socket_set_timeout(sock, srv->timeout, 60), session_accept's next      *)
(* statement: setsockopt(2) of SO_RCVTIMEO and SO_SNDTIMEO on s->fd,       *)
(* which fails with EBADF after an aborted accept and throws.             *)
SetTimeout(s) ==
    /\ phase[s] = "accepted"
    /\ Goto(s, IF sk[s].fd < 0 THEN "failed" ELSE "open")
    /\ UNCHANGED <<sk, opened>>

(* dns_get_inet_by_name: getaddrinfo(3) under the resolver mutex; an error *)
(* throws, otherwise the host's addresses, of which there is at least one. *)
DnsOutcomes == {"error", "addresses"}

(* socket_connect_inet: dns_get_inet_by_name, socket(2) stored in s->fd  *)
(* (-1 on EMFILE), fcntl O_NONBLOCK, then connect(2) to each address       *)
(* until one does not refuse (EINPROGRESS), which sets status.connected    *)
(* and goes on to socket_select; all refused throws with the descriptor   *)
(* open.                                                                  *)
ConnectInet(s) ==
    /\ sk[s].family = "inet"
    /\ \E dns \in DnsOutcomes :
          \/ /\ dns = "error"
             /\ Set(s, [sk[s] EXCEPT !.direction = "connect"])
             /\ Goto(s, "unconnected") /\ UNCHANGED opened
          \/ /\ dns = "addresses" /\ NoFreeFd
             /\ Set(s, [sk[s] EXCEPT !.direction = "connect", !.fd = -1])
             /\ Goto(s, "unconnected") /\ UNCHANGED opened
          \/ /\ dns = "addresses" /\ ~NoFreeFd
             /\ opened' = opened \cup {Lowest}
             /\ \E inProgress \in BOOLEAN :
                   /\ Set(s, [sk[s] EXCEPT !.direction = "connect", !.fd = Lowest,
                                           !.connected = sk[s].connected \/ inProgress])
                   /\ Goto(s, IF inProgress THEN "connecting" ELSE "unconnected")

(* socket_select(s, SOCK_WRITE, 30) after a connect(2) in progress:        *)
(* status.connected is set, so it waits; select(2) retries on EINTR.  An  *)
(* error throws and socket_connect_inet returns -1 with connected left   *)
(* set; a timeout sets status.timeout and returns 0, which the caller     *)
(* takes for a connection ("@bug no error handling"); otherwise the       *)
(* descriptor is writable.                                                *)
Select(s) ==
    /\ phase[s] = "connecting"
    /\ \/ Goto(s, "unconnected") /\ UNCHANGED sk
       \/ Goto(s, "open") /\ Set(s, [sk[s] EXCEPT !.timeout = TRUE])
       \/ Goto(s, "open") /\ UNCHANGED sk
    /\ UNCHANGED opened

(* socket_local_operation for CONNECT: socket(2) stored in s->fd, then    *)
(* connect(2) to the path, then status.connected; a failure throws with  *)
(* the descriptor open.                                                   *)
ConnectLocal(s) ==
    /\ sk[s].family = "local"
    /\ \/ NoFreeFd /\ Goto(s, "unconnected") /\ UNCHANGED opened
          /\ Set(s, [sk[s] EXCEPT !.direction = "connect", !.fd = -1])
       \/ /\ ~NoFreeFd
          /\ opened' = opened \cup {Lowest}
          /\ \E up \in BOOLEAN :
                /\ Set(s, [sk[s] EXCEPT !.direction = "connect", !.fd = Lowest,
                                        !.connected = sk[s].connected \/ up])
                /\ Goto(s, IF up THEN "open" ELSE "unconnected")

(* session_connect: socket_new and socket_set_family only when the        *)
(* session has no socket yet, then socket_connect on every call.  A       *)
(* failure returns -1; the caller closes the session or calls             *)
(* session_connect again, which reaches socket_connect with the socket as *)
(* the failure left it, and whose socket(2) overwrites s->fd.             *)
ConnectFrom == {"family", "unconnected"}

(* socket_connect: direction CONNECT, then by family.                     *)
Connect(s) ==
    /\ phase[s] \in ConnectFrom /\ s \in Outbound
    /\ ConnectInet(s) \/ ConnectLocal(s)

(* socket_write, as a controller hook writes its response: write(2) on   *)
(* s->fd; an error or a short write throws, and the session closes.      *)
Write(s) ==
    /\ phase[s] = "open"
    /\ \E ok \in BOOLEAN : Goto(s, IF ok THEN "open" ELSE "failed")
    /\ UNCHANGED <<sk, opened>>

(* socket_close: nothing for fd < 0; close(2), then fd = -1.  close(2)   *)
(* frees the number even when it reports EINTR or EIO, and the throw     *)
(* then leaves fd set, but only socket_destroy follows, so that is not   *)
(* modelled.  status.connected is left as it was.                        *)
SocketClose(s) ==
    /\ phase[s] \in {"open", "failed", "unconnected"}
    /\ Goto(s, "closed")
    /\ IF sk[s].fd < 0
       THEN UNCHANGED <<sk, opened>>
       ELSE opened' = opened \ {sk[s].fd} /\ Set(s, [sk[s] EXCEPT !.fd = -1])

(* socket_destroy: list_destroy and free; the descriptor is not closed.   *)
SocketDestroy(s) ==
    /\ phase[s] = "closed"
    /\ Set(s, NoSocket)
    /\ Goto(s, "none")
    /\ UNCHANGED opened

-----------------------------------------------------------------------------
Init == /\ sk = [s \in Socks |-> NoSocket]
        /\ phase = [s \in Socks |-> "none"]
        /\ opened = {ListenFd}

Next == \E s \in Socks :
          \/ SocketNew(s) \/ SetFamily(s) \/ Accept(s) \/ SetTimeout(s)
          \/ Connect(s) \/ Select(s) \/ Write(s) \/ SocketClose(s) \/ SocketDestroy(s)

Spec == Init /\ [][Next]_vars

-----------------------------------------------------------------------------
(* The sockets whose descriptor a caller may still use: after            *)
(* socket_close only socket_destroy follows.                              *)
Live == {s \in Socks : phase[s] \notin {"none", "closed"}}

TypeOK ==
    /\ sk \in [Socks -> [fd : Fds \cup {-1}, family : {"none", "unset", "unspec", "inet", "local"},
                        direction : {"unknown", "connect"}, connected : BOOLEAN,
                        timeout : BOOLEAN, remote : Peers \cup {<<>>}]]
    /\ phase \in [Socks -> {"none", "new", "family", "accepted", "connecting", "open", "failed",
                               "unconnected", "closed"}]
    /\ ListenFd \in opened /\ opened \subseteq Fds

(* Each session's socket has a descriptor of its own: no two live socket  *)
(* objects hold the same open descriptor, and none holds the listener's. *)
(* A socket that kept a number the process has since handed to another   *)
(* connection would write to, read from or close that connection         *)
(* (socket_write, socket_readline, socket_close).                        *)
DescriptorsOwned ==
    \A s \in Live : sk[s].fd \in opened =>
        /\ sk[s].fd # ListenFd
        /\ \A t \in Live \ {s} : sk[t].fd # sk[s].fd

(* A socket its session goes on to use (socket_write, socket_readline)   *)
(* holds a descriptor that is open: socket_accept returns 0 with fd -1   *)
(* after ECONNABORTED, and a failed connect leaves -1 or a half-open      *)
(* descriptor, and none of these may reach a read or a write.             *)
OpenSocketsUsable ==
    \A s \in Socks : phase[s] = "open" => sk[s].fd \in opened

(* Every descriptor the sessions open is closed by the time its socket   *)
(* object is released: each open descriptor but the listener's is held   *)
(* by a live socket.                                                     *)
NoLeakedDescriptor ==
    \A f \in opened \ {ListenFd} : \E s \in Socks : phase[s] # "none" /\ sk[s].fd = f
====
