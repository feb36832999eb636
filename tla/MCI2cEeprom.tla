---------------------------- MODULE MCI2cEeprom ----------------------------
(***************************************************************************)
(* The I2C driver with the bitwise OR of the community modules.            *)
(***************************************************************************)
EXTENDS I2cEeprom, Bitwise

BitwiseOr(a, b) == a | b

=============================================================================
