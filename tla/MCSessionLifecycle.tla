------------------------- MODULE MCSessionLifecycle -------------------------
(***************************************************************************)
(* Model-checking instances of SessionLifecycle. The connections are      *)
(* model values (symmetric: accept(2) picks descriptors by number, not by *)
(* connection); the hook failure sets select which error paths are open. *)
(***************************************************************************)
EXTENDS SessionLifecycle, TLC

(* Every hook may fail: all of session_controller_invoke's error paths.  *)
AllHooksFail == Hooks

(* Every hook may fail except init, whose failure kills the daemon.      *)
AllButInitFail == Hooks \ {"init"}

(* Every hook may fail except destroy.                                   *)
AllButDestroyFail == Hooks \ {"destroy"}

(* Only the destroy hook may fail.                                        *)
DestroyFails == {"destroy"}

(* Only the init hook may fail.                                          *)
InitFails == {"init"}

(* Only the greeting/response hook may fail.                              *)
ResponseFails == {"response"}

(* Controllers whose hooks never fail.                                    *)
NoHookFails == {}

ConnSymmetry == Permutations(Sess)
=============================================================================
