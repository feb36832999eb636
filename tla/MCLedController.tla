-------------------------- MODULE MCLedController --------------------------
(***************************************************************************)
(* The LED controller with at most one column, and timers of a few steps:  *)
(* three polls of the blink timer still span a refresh of the five rows.   *)
(***************************************************************************)
EXTENDS LedController

=============================================================================
