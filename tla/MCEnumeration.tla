--------------------------- MODULE MCEnumeration ---------------------------
(***************************************************************************)
(* One keypress, a short frame counter, and a host that asks for           *)
(* descriptors of one packet, of two and of none.  The lengths it asks for *)
(* end within the first packet, at its end, within and after the second.   *)
(***************************************************************************)
EXTENDS Enumeration

OneKey == {<<0, 4>>}

DEVICE_QUALIFIER == 1536   \* not in the list

AskedFor ==
  {DescriptorId("DEVICE", 0), DescriptorId("CONFIGURATION", 0),
   DescriptorId("HID_REPORT", 0), DEVICE_QUALIFIER}

=============================================================================
