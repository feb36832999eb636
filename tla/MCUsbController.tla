-------------------------- MODULE MCUsbController --------------------------
(***************************************************************************)
(* The USB controller with one keypress, a frame counter that wraps after  *)
(* a few frames and a timeout of two, so that a send may start on either   *)
(* side of the point from which the timeout is never reached.              *)
(***************************************************************************)
EXTENDS UsbController

OneKey == {<<0, 4>>}

=============================================================================
