-------------------------- MODULE SessionLifecycle --------------------------
(***************************************************************************)
(* The life of an inbound client session: the multiplexer thread accepts  *)
(* a pending connection (server_accept, src/naturalc/server.c) and hands  *)
(* the session to a detached handler thread (session_handler,             *)
(* src/tags/1.0/session.c) that sends the greeting, loops over requests   *)
(* and finally closes and destroys the session.                           *)
(*                                                                         *)
(* The source is Natural C: a statement calling a function that returns a *)
(* negative value jumps to the caller's catch: block (or returns -1 when  *)
(* there is none), a call cast to (void) ignores the result, throw()      *)
(* returns -1 at once without running catch:, and the catch: block is     *)
(* only reached on an error.                                              *)
(*                                                                         *)
(* Controller hooks are the protocol's code: each invocation succeeds or  *)
(* fails (session_controller_invoke turns a non-zero rc into -1), and the *)
(* response hook may end the session by calling session_close (QUIT).     *)
(***************************************************************************)
EXTENDS Naturals, FiniteSets, Sequences, SequencesExt

CONSTANTS
    Sess,            \* connections that will arrive on the listener
    MaxClientCount,  \* MAX_CLIENT_COUNT, compared with the accepted fd
    MaxRequests,     \* bound on the requests one client sends
    FailingHooks,    \* hooks whose invocation may return an error
    SpawnMayFail     \* whether pthread_create(3) may fail

Hooks == {"init", "request", "response", "timeout", "overload", "destroy"}

ASSUME /\ MaxClientCount \in Nat \ {0}
       /\ MaxRequests \in Nat
       /\ FailingHooks \subseteq Hooks
       /\ SpawnMayFail \in BOOLEAN

(* Descriptors a client socket can get; the listener holds one below them. *)
Fds == 1..Cardinality(Sess)
NoFd == -1

(* session_state values; NONE before session_new, FREED after free().    *)
States == {"NONE", "OPEN", "GREETING", "READ", "TIMEOUT", "CLOSED", "FREED"}

(* Where each connection is: pending in the backlog, owned by its handler *)
(* thread at a point of session_handler, or no longer owned by anybody.   *)
ThreadPcs == {"greet", "loop", "after", "spin"}
Pcs == {"pending", "done", "mux_leak", "thread_leak"} \cup ThreadPcs

VARIABLES
    st,       \* session->session_state
    pc,       \* owner and position of the code driving the session
    fd,       \* session->sock->fd
    conn,     \* session->sock->status.connected
    hooks,    \* history: controller hooks invoked for the session, in order
    reqs,     \* requests read so far (bounded by MaxRequests)
    crashed   \* the daemon process died (NULL dereference)

vars == <<st, pc, fd, conn, hooks, reqs, crashed>>

-----------------------------------------------------------------------------
(* Result of one session_controller_invoke for a hook.                     *)
Outcomes(h) == IF h \in FailingHooks THEN {"ok", "fail"} ELSE {"ok"}

(* accept(2) returns the lowest descriptor not open in the process.       *)
FreeFds == Fds \ {fd[s] : s \in Sess}
NextFd == Min(FreeFds)

Log(s, hs) == hooks' = [hooks EXCEPT ![s] = @ \o hs]

(* Mutant: socket_close resets the descriptor to 0 instead of -1.        *)
CloseAndDestroyZeroFd(s, before) ==
    \E d \in Outcomes("destroy") :
        /\ Log(s, before \o <<"destroy">>)
        /\ fd' = [fd EXCEPT ![s] = 0]
        /\ st' = [st EXCEPT ![s] = IF d = "ok" THEN "FREED" ELSE "CLOSED"]

(* session_close followed by destroy(session, &s): the socket is closed,  *)
(* the destroy hook runs, and the session is freed unless the hook failed *)
(* (session_destroy then returns before free()).                          *)
CloseAndDestroy(s, before) ==
    \E d \in Outcomes("destroy") :
        /\ Log(s, before \o <<"destroy">>)
        /\ fd' = [fd EXCEPT ![s] = NoFd]
        /\ st' = [st EXCEPT ![s] = IF d = "ok" THEN "FREED" ELSE "CLOSED"]

-----------------------------------------------------------------------------
(* Multiplexer thread: server_accept(handler[n]) for a POLLIN listener.   *)

(* The init hook fails; catch: calls session_close on a session whose     *)
(* socket was never created, and socket_close(NULL) dereferences NULL.    *)
AcceptInitFails(s) ==
    /\ ~crashed
    /\ pc[s] = "pending"
    /\ "fail" \in Outcomes("init")
    /\ st' = [st EXCEPT ![s] = "OPEN"]
    /\ Log(s, <<"init">>)
    /\ crashed' = TRUE
    /\ UNCHANGED <<pc, fd, conn, reqs>>

(* accept(2) reports ECONNABORTED (fd stays -1), socket_set_timeout then  *)
(* fails on the bad descriptor, and catch: closes and destroys.           *)
AcceptAborted(s) ==
    /\ ~crashed
    /\ pc[s] = "pending"
    /\ "ok" \in Outcomes("init")
    /\ pc' = [pc EXCEPT ![s] = "done"]
    /\ CloseAndDestroy(s, <<"init">>)
    /\ UNCHANGED <<conn, reqs, crashed>>

(* The accepted fd reaches MAX_CLIENT_COUNT: throw() returns -1 at once,  *)
(* so catch: never runs and nobody closes the session.                    *)
AcceptOverLimit(s) ==
    /\ ~crashed
    /\ pc[s] = "pending"
    /\ "ok" \in Outcomes("init")
    /\ NextFd >= MaxClientCount
    /\ st' = [st EXCEPT ![s] = "OPEN"]
    /\ fd' = [fd EXCEPT ![s] = NextFd]
    /\ conn' = [conn EXCEPT ![s] = TRUE]
    /\ pc' = [pc EXCEPT ![s] = "mux_leak"]
    /\ Log(s, <<"init">>)
    /\ UNCHANGED <<reqs, crashed>>

(* Mutant: the overload path destroys the session without session_close. *)
AcceptSpawnFailsWithoutClose(s) ==
    /\ ~crashed
    /\ pc[s] = "pending"
    /\ "ok" \in Outcomes("init")
    /\ NextFd < MaxClientCount
    /\ SpawnMayFail
    /\ conn' = [conn EXCEPT ![s] = TRUE]
    /\ pc' = [pc EXCEPT ![s] = "done"]
    /\ fd' = [fd EXCEPT ![s] = NextFd]
    /\ st' = [st EXCEPT ![s] = "FREED"]
    /\ Log(s, <<"init", "overload", "destroy">>)
    /\ UNCHANGED <<reqs, crashed>>

(* thread_create_detached fails: the overload hook runs, then session_close *)
(* and session_destroy.  A failing overload hook jumps straight to catch:, *)
(* which closes and destroys once.  A failing destroy hook makes           *)
(* session_destroy return before free(), and that error jumps to catch:,   *)
(* which destroys the session a second time, running the hook again.       *)
AcceptSpawnFails(s) ==
    /\ ~crashed
    /\ pc[s] = "pending"
    /\ "ok" \in Outcomes("init")
    /\ NextFd < MaxClientCount
    /\ SpawnMayFail
    /\ \E o \in Outcomes("overload"), d1, d2 \in Outcomes("destroy") :
        LET again == o = "ok" /\ d1 = "fail"
            last  == IF again THEN d2 ELSE d1
        IN  /\ Log(s, <<"init", "overload", "destroy">>
                       \o (IF again THEN <<"destroy">> ELSE <<>>))
            /\ st' = [st EXCEPT ![s] = IF last = "ok" THEN "FREED" ELSE "CLOSED"]
    /\ fd' = [fd EXCEPT ![s] = NoFd]
    /\ conn' = [conn EXCEPT ![s] = TRUE]
    /\ pc' = [pc EXCEPT ![s] = "done"]
    /\ UNCHANGED <<reqs, crashed>>

(* The handler thread is created and owns the session from now on.       *)
AcceptSpawned(s) ==
    /\ ~crashed
    /\ pc[s] = "pending"
    /\ "ok" \in Outcomes("init")
    /\ NextFd < MaxClientCount
    /\ st' = [st EXCEPT ![s] = "OPEN"]
    /\ fd' = [fd EXCEPT ![s] = NextFd]
    /\ conn' = [conn EXCEPT ![s] = TRUE]
    /\ pc' = [pc EXCEPT ![s] = "greet"]
    /\ Log(s, <<"init">>)
    /\ UNCHANGED <<reqs, crashed>>

-----------------------------------------------------------------------------
(* Handler thread: session_handler(s).                                    *)

(* session_greeting: the response hook sends the greeting, then the state *)
(* becomes SESSION_READ.                                                   *)
GreetingSent(s) ==
    /\ ~crashed
    /\ pc[s] = "greet"
    /\ st' = [st EXCEPT ![s] = "READ"]
    /\ pc' = [pc EXCEPT ![s] = "loop"]
    /\ Log(s, <<"response">>)
    /\ UNCHANGED <<fd, conn, reqs, crashed>>

(* The greeting's response hook fails: session_greeting throws, and the   *)
(* propagated error returns from session_handler before close/destroy.    *)
GreetingFails(s) ==
    /\ ~crashed
    /\ pc[s] = "greet"
    /\ "fail" \in Outcomes("response")
    /\ st' = [st EXCEPT ![s] = "GREETING"]
    /\ pc' = [pc EXCEPT ![s] = "thread_leak"]
    /\ Log(s, <<"response">>)
    /\ UNCHANGED <<fd, conn, reqs, crashed>>

(* The greeting hook refuses the client and calls session_close; the      *)
(* state is then overwritten with SESSION_READ by session_greeting.       *)
GreetingQuits(s) ==
    /\ ~crashed
    /\ pc[s] = "greet"
    /\ st' = [st EXCEPT ![s] = "READ"]
    /\ fd' = [fd EXCEPT ![s] = NoFd]
    /\ pc' = [pc EXCEPT ![s] = "loop"]
    /\ Log(s, <<"response">>)
    /\ UNCHANGED <<conn, reqs, crashed>>

(* Mutant: the response hook is invoked before the request hook.         *)
RequestServedResponseFirst(s) ==
    /\ ~crashed
    /\ pc[s] = "loop"
    /\ st[s] = "READ"
    /\ fd[s] # NoFd
    /\ conn[s]
    /\ reqs[s] < MaxRequests
    /\ reqs' = [reqs EXCEPT ![s] = @ + 1]
    /\ \E c \in BOOLEAN : conn' = [conn EXCEPT ![s] = c]
    /\ Log(s, <<"response", "request">>)
    /\ UNCHANGED <<st, pc, fd, crashed>>

(* session_process_request with a line: the response is reset, the        *)
(* request hook runs and the response hook gets its rc. A failing hook    *)
(* only makes process_request return -1, which the loop ignores. The      *)
(* line may be the peer's last, unterminated one (read(2) then hit EOF).  *)
RequestServed(s) ==
    /\ ~crashed
    /\ pc[s] = "loop"
    /\ st[s] = "READ"
    /\ fd[s] # NoFd
    /\ conn[s]
    /\ reqs[s] < MaxRequests
    /\ reqs' = [reqs EXCEPT ![s] = @ + 1]
    /\ \E c \in BOOLEAN : conn' = [conn EXCEPT ![s] = c]
    /\ Log(s, <<"request", "response">>)
    /\ UNCHANGED <<st, pc, fd, crashed>>

(* The response hook answers a QUIT by calling session_close; the loop    *)
(* condition then fails.                                                   *)
RequestQuits(s) ==
    /\ ~crashed
    /\ pc[s] = "loop"
    /\ st[s] = "READ"
    /\ fd[s] # NoFd
    /\ conn[s]
    /\ reqs[s] < MaxRequests
    /\ reqs' = [reqs EXCEPT ![s] = @ + 1]
    /\ st' = [st EXCEPT ![s] = "CLOSED"]
    /\ fd' = [fd EXCEPT ![s] = NoFd]
    /\ pc' = [pc EXCEPT ![s] = "after"]
    /\ Log(s, <<"request", "response">>)
    /\ UNCHANGED <<conn, crashed>>

(* Mutant: the read loop does not leave on SESSION_TIMEOUT (a loop       *)
(* condition that tests only for SESSION_CLOSED), so the thread never     *)
(* reaches the close after the loop.                                       *)
ReadTimeoutStaysInLoop(s) ==
    /\ ~crashed
    /\ pc[s] = "loop"
    /\ st[s] = "READ"
    /\ fd[s] # NoFd
    /\ conn[s]
    /\ st' = [st EXCEPT ![s] = "TIMEOUT"]
    /\ UNCHANGED <<pc, fd, conn, hooks, reqs, crashed>>

(* read(2) fails with EAGAIN after SO_RCVTIMEO: status.timeout is set and *)
(* process_request moves the session to SESSION_TIMEOUT.                  *)
ReadTimeout(s) ==
    /\ ~crashed
    /\ pc[s] = "loop"
    /\ st[s] = "READ"
    /\ fd[s] # NoFd
    /\ conn[s]
    /\ st' = [st EXCEPT ![s] = "TIMEOUT"]
    /\ pc' = [pc EXCEPT ![s] = "after"]
    /\ UNCHANGED <<fd, conn, hooks, reqs, crashed>>

(* read(2) returns 0 (peer closed) or EBADF (fd already closed) with no   *)
(* data: socket_readline clears status.connected and throws "truncated".  *)
(* process_request returns -1 before touching the state, the state stays  *)
(* SESSION_READ, and every later read fails the same way: the thread      *)
(* loops for ever.                                                         *)
ReadFails(s) ==
    /\ ~crashed
    /\ pc[s] = "loop"
    /\ st[s] = "READ"
    /\ conn' = [conn EXCEPT ![s] = FALSE]
    /\ pc' = [pc EXCEPT ![s] = "spin"]
    /\ UNCHANGED <<st, fd, hooks, reqs, crashed>>

(* The end of session_handler: the timeout hook when it applies (its     *)
(* result is cast to void), then session_close (a no-op warning on a      *)
(* closed session) and destroy.                                            *)
SessionEnds(s) ==
    /\ ~crashed
    /\ pc[s] = "after"
    /\ pc' = [pc EXCEPT ![s] = "done"]
    /\ CloseAndDestroy(s, IF st[s] = "TIMEOUT" /\ conn[s]
                          THEN <<"timeout">> ELSE <<>>)
    /\ UNCHANGED <<conn, reqs, crashed>>

-----------------------------------------------------------------------------
Init ==
    /\ st = [s \in Sess |-> "NONE"]
    /\ pc = [s \in Sess |-> "pending"]
    /\ fd = [s \in Sess |-> NoFd]
    /\ conn = [s \in Sess |-> FALSE]
    /\ hooks = [s \in Sess |-> <<>>]
    /\ reqs = [s \in Sess |-> 0]
    /\ crashed = FALSE

Multiplexer(s) ==
    \/ AcceptInitFails(s)
    \/ AcceptAborted(s)
    \/ AcceptOverLimit(s)
    \/ AcceptSpawnFails(s)
    \/ AcceptSpawned(s)

Handler(s) ==
    \/ GreetingSent(s)
    \/ GreetingFails(s)
    \/ GreetingQuits(s)
    \/ RequestServed(s)
    \/ RequestQuits(s)
    \/ ReadTimeout(s)
    \/ ReadFails(s)
    \/ SessionEnds(s)

Next == \E s \in Sess : Multiplexer(s) \/ Handler(s)

(* poll(2) keeps reporting a pending connection until it is accepted, and *)
(* the OS keeps running every handler thread that can run.                *)
Fairness ==
    /\ WF_vars(\E s \in Sess : Multiplexer(s))
    /\ \A s \in Sess : WF_vars(Handler(s))

Spec == Init /\ [][Next]_vars /\ Fairness

-----------------------------------------------------------------------------
TypeOK ==
    /\ st \in [Sess -> States]
    /\ pc \in [Sess -> Pcs]
    /\ fd \in [Sess -> Fds \cup {NoFd}]
    /\ conn \in [Sess -> BOOLEAN]
    /\ hooks \in [Sess -> Seq(Hooks)]
    /\ reqs \in [Sess -> 0..MaxRequests]
    /\ crashed \in BOOLEAN

(* Descriptor discipline across the multiplexer and all handler threads:  *)
(* no two sessions hold the same descriptor, and a session that has been  *)
(* freed, or whose owner has finished with it, holds none.                *)
FdDiscipline ==
    /\ \A s, t \in Sess : s # t /\ fd[s] # NoFd => fd[s] # fd[t]
    /\ \A s \in Sess : st[s] = "FREED" \/ pc[s] = "done" => fd[s] = NoFd

(* The per-session hook order the controller may rely on (spec sections  *)
(* 4.5 and 5): init, then either overload or nothing or the greeting's    *)
(* response followed by request/response pairs and an optional timeout,  *)
(* and destroy last and once (spec section 8: a prefix of init (response)? *)
(* (request response)* timeout? destroy). Every history is a prefix of    *)
(* such a word.                                                            *)
Contract ==
    { <<"start", "init", "inited">>,
      <<"inited", "overload", "overloaded">>,
      <<"inited", "response", "idle">>,
      <<"idle", "request", "busy">>,
      <<"busy", "response", "idle">>,
      <<"idle", "timeout", "timedout">> }
    \cup { <<q, "destroy", "end">> : q \in {"inited", "overloaded", "idle", "timedout"} }

HookStep(q, h) ==
    LET next == { t[3] : t \in { t \in Contract : t[1] = q /\ t[2] = h } }
    IN IF next = {} THEN "bad" ELSE CHOOSE n \in next : TRUE

HookContract ==
    \A s \in Sess : FoldLeft(HookStep, "start", hooks[s]) # "bad"

(* A session whose read timed out ends with its descriptor closed (spec  *)
(* scenario 5) whatever its timeout and destroy hooks return, unless the  *)
(* process died.                                                           *)
TimeoutEndsClosed ==
    \A s \in Sess : st[s] = "TIMEOUT" ~> (fd[s] = NoFd \/ crashed)

(* The daemon survives any controller hook failure.                       *)
NoCrash == ~crashed

(* Once no thread owns a session any more, its descriptor has been closed *)
(* (spec 4.5 step 5 for the client limit, section 7 for hook failures).   *)
NoOrphanSession ==
    \A s \in Sess : pc[s] \in {"done", "mux_leak", "thread_leak"} => fd[s] = NoFd

(* Every handler thread eventually returns from session_handler, having  *)
(* closed and destroyed its session or given up on it: a client that      *)
(* disconnects, or that the greeting hook refuses, does not keep a thread *)
(* (spec scenario 4: the session is closed).                              *)
HandlerReturns ==
    \A s \in Sess : pc[s] \in ThreadPcs ~> (pc[s] \notin ThreadPcs \/ crashed)

=============================================================================
