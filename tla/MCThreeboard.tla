---------------------------- MODULE MCThreeboard ----------------------------
(***************************************************************************)
(* The event loop with three keys.  The boot indicator keeps the shape of  *)
(* the code's (a delay that outlasts it) at a smaller scale, and the       *)
(* configuration counter wraps soon.                                       *)
(***************************************************************************)
EXTENDS Threeboard

=============================================================================
