---------------------------- MODULE UsbKeycodes ----------------------------
(***************************************************************************)
(* The simulator's two conversions between ASCII and USB key codes         *)
(* (simulator/components/usb_keycodes.cpp): the first turns the text of a  *)
(* state file into stored shortcuts, the second turns what the firmware    *)
(* sends into the text the simulator shows.  They were written apart and   *)
(* are not each other's inverse.                                           *)
(***************************************************************************)
EXTENDS Integers, Sequences

Shift == 2
Lower == 97..122
Upper == 65..90
Digits == 48..57
Spaces == 9..13 \cup {32}
Punctuation == (33..47) \cup (58..64) \cup (91..96) \cup (123..126)
Printable == 32..126

\* Key codes of the punctuation the chain of comparisons knows.  Its second
\* comparison with '&' was meant for '*', so '*' ( ) are one code too far.
PunctuationKeycode ==
  [c \in {33, 35, 36, 37, 38} \cup (40..46) \cup {61, 64, 94, 95} |->
     CASE c = 33 -> 30 [] c = 64 -> 31 [] c = 35 -> 32 [] c = 36 -> 33
       [] c = 37 -> 34 [] c = 94 -> 35 [] c = 38 -> 36 [] c = 42 -> 38
       [] c = 40 -> 39 [] c = 41 -> 40 [] c \in {45, 95} -> 45
       [] c \in {61, 43} -> 46 [] c = 44 -> 54 [] c = 46 -> 55]

ToUsbKeycodesUnshifted(c) ==
  CASE c \in Lower -> <<c - 97 + 4, 0>>
    [] c \in Upper -> <<c - 65 + 4, 0>>
    [] c \in Digits -> <<c - 48 + 30, 0>>
    [] c \in Spaces -> <<44, 0>>
    [] c \in {45, 61} -> <<PunctuationKeycode[c], 0>>
    [] c \in DOMAIN PunctuationKeycode \ {45, 61} ->
         <<PunctuationKeycode[c], Shift>>
    [] c \in Punctuation \ DOMAIN PunctuationKeycode -> <<0, Shift>>
    [] OTHER -> <<0, 0>>

\* The key code and the modifiers that type c.
ToUsbKeycodes(c) ==
  CASE c \in Lower -> <<c - 97 + 4, 0>>
    [] c \in Upper -> <<c - 65 + 4, Shift>>
    [] c \in Digits -> <<c - 48 + 30, 0>>
    [] c \in Spaces -> <<44, 0>>
    [] c \in {45, 61} -> <<PunctuationKeycode[c], 0>>
    [] c \in DOMAIN PunctuationKeycode \ {45, 61} ->
         <<PunctuationKeycode[c], Shift>>
    [] c \in Punctuation \ DOMAIN PunctuationKeycode -> <<0, Shift>>
    [] OTHER -> <<0, 0>>

\* The characters of the shifted digit row, from key code 30 on.
ShiftedDigits == <<33, 64, 35, 36, 37, 94, 38, 42, 40, 41>>

\* The character a key types, 0 if the simulator does not know it.
FromUsbKeycodes(keycode, modcode) ==
  LET is_shift == (modcode \div Shift) % 2 = 1 IN
  CASE keycode \in 4..29 -> keycode - 4 + IF is_shift THEN 65 ELSE 97
    [] keycode \in 30..38 /\ ~is_shift -> keycode - 30 + 49
    [] keycode = 39 /\ ~is_shift -> 48
    [] keycode \in 30..39 /\ is_shift -> ShiftedDigits[keycode - 29]
    [] keycode = 44 -> 32
    [] keycode = 45 -> IF is_shift THEN 95 ELSE 45
    [] keycode = 46 -> IF is_shift THEN 43 ELSE 61
    [] keycode = 54 -> 44
    [] keycode = 55 -> 46
    [] OTHER -> 0

=============================================================================
