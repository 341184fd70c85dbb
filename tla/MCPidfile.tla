----------------------------- MODULE MCPidfile -----------------------------
(* Daemon instances and administrators for checking Pidfile.             *)
EXTENDS Pidfile, TLC

CONSTANTS d1, d2, d3, a1, a2

(* Daemons are interchangeable: each is only its own pid.               *)
DaemonSymmetry == Permutations(Daemons)
====
