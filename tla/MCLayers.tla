------------------------------ MODULE MCLayers ------------------------------
(***************************************************************************)
(* Bytes of a bit or two, banks of two LEDs, word lengths shifted by one   *)
(* bit, and one id past the last blob: every counter wraps.                *)
(***************************************************************************)
EXTENDS Layers

\* The user passes through the other layers and works in these.
OnlyIn(active) ==
  [l \in LayerId |-> IF l \in active THEN Keypress ELSE {"XYZ"}]

OnlyB == OnlyIn({"B"})
EveryKeypress == OnlyIn(LayerId)

=============================================================================
