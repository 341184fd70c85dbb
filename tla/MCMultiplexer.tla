--------------------------- MODULE MCMultiplexer ---------------------------
(***************************************************************************)
(* Model-checking instances of Multiplexer.                                *)
(***************************************************************************)
EXTENDS Multiplexer

(* The second constructor serves a UNIX-domain socket.                    *)
SecondIsLocal == {2}

(* Ports the constructors set: SMTP, HTTP (unused: the second is         *)
(* PF_LOCAL), 10025, where a non-root daemon has already moved SMTP, so   *)
(* its bind(2) meets EADDRINUSE, and the last reserved port.              *)
MCPort == [c \in 1..NumCtors |-> <<25, 80, 10025, 1024>>[c]]

(* Ports whose network-order value is at most 1024 once a non-root        *)
(* daemon has added 10000: 6144 (0x1800) and 240 (10240 = 0x2800).        *)
MCSwappedPort == [c \in 1..NumCtors |-> <<6144, 240>>[c]]
=============================================================================
