-------------------------- MODULE ThreeboardModel --------------------------
(***************************************************************************)
(* The model the repository's own property test compares the simulated     *)
(* threeboard with (integration/model): four layer models that take a      *)
(* keypress and give a snapshot of what the device should show and type.   *)
(* It was written from the user manual and stores characters where the     *)
(* firmware stores key codes.                                              *)
(*                                                                         *)
(* A model is a record; Apply and Snapshot are functions of it.            *)
(***************************************************************************)
EXTENDS Integers, Sequences, UsbKeycodes

CONSTANTS
  UintRange,        \* 256
  LengthShift,      \* 16
  MaxWordLen,       \* 15
  kLayerBMaxIndex,  \* 247
  BankLeds,         \* 8
  Keycode           \* the key code each byte of this instance stands for

Inc(v) == (v + 1) % UintRange
Lit(v) == {k \in 0..(BankLeds - 1) : (v \div 2^k) % 2 = 1}

\* A character key `key' types with modifiers `mod'; 0 is no character.
Char(key, mod) == FromUsbKeycodes(Keycode[key], mod)

\* AppendIfPrintable, for each character of a sequence.
PrintableOf(str) == SelectSeq(str, LAMBDA c : c \in Printable)

toupper(c) == IF c \in Lower THEN c - 32 ELSE c

\* Modification codes: 1 UPPERCASE, 2 CAPITALISE, 3 to 5 append punctuation.
AppendedChar == [m \in 3..5 |-> CASE m = 3 -> 46 [] m = 4 -> 44 [] m = 5 -> 45]

ApplyModCodeAppendingOnly(word, modcode) ==
  IF word = <<>> THEN <<>>
  ELSE PrintableOf(IF modcode \in 3..5 THEN Append(word, AppendedChar[modcode])
                                       ELSE word)

\* The loop over the characters of the word; there is none in an empty one.
ApplyModCode(word, modcode) ==
  IF word = <<>> THEN <<>>
  ELSE PrintableOf(
    CASE modcode = 1 -> [j \in DOMAIN word |-> toupper(word[j])]
      [] modcode = 2 ->
           [j \in DOMAIN word |-> IF j = 1 THEN toupper(word[j]) ELSE word[j]]
      [] modcode \in 3..5 -> Append(word, AppendedChar[modcode])
      [] OTHER -> word)
-----------------------------------------------------------------------------
InitialModel ==
  LET ids == 0..(UintRange - 1) IN
  [layer |-> "DFLT",
   dflt |-> [bank0 |-> 0, bank1 |-> 0],
   r |-> [id |-> 0, mod |-> 0, prog |-> FALSE, shortcuts |-> [i \in ids |-> 0]],
   g |-> [id |-> 0, mod |-> 0, key |-> 0, prog |-> FALSE,
          shortcuts |-> [i \in ids |-> <<>>]],
   b |-> [id |-> 0, mod |-> 0, key |-> 0, prog |-> FALSE,
          shortcuts |-> [i \in 0..kLayerBMaxIndex |-> <<>>]],
   usb_buffer |-> <<>>]

Type(m, str) == [m EXCEPT !.usb_buffer = PrintableOf(str)]

ApplyDefault(m, k) ==
  CASE k = "X"   -> [m EXCEPT !.dflt.bank0 = Inc(@)]
    [] k = "Y"   -> [m EXCEPT !.dflt.bank1 = Inc(@)]
    [] k = "Z"   -> Type(m, <<Char(m.dflt.bank0, m.dflt.bank1)>>)
    [] k = "XZ"  -> [m EXCEPT !.dflt.bank0 = 0]
    [] k = "YZ"  -> [m EXCEPT !.dflt.bank1 = 0]
    [] k = "XYZ" -> [m EXCEPT !.layer = "R"]
    [] OTHER     -> m

ApplyRInProg(m, k) ==
  CASE k = "X"   -> [m EXCEPT !.r.shortcuts[m.r.id] = Inc(@)]
    [] k = "Y"   -> [m EXCEPT !.r.id = Inc(@)]
    [] k = "XZ"  -> [m EXCEPT !.r.shortcuts[m.r.id] = 0]
    [] k = "YZ"  -> [m EXCEPT !.r.id = 0]
    [] k = "XYZ" -> [m EXCEPT !.r.prog = FALSE]
    [] OTHER     -> m

ApplyR(m, k) ==
  CASE k = "X"   -> [m EXCEPT !.r.id = Inc(@)]
    [] k = "Y"   -> [m EXCEPT !.r.mod = Inc(@)]
    [] k = "Z"   -> Type(m, <<Char(m.r.shortcuts[m.r.id], m.r.mod)>>)
    [] k = "XY"  -> [m EXCEPT !.r.prog = TRUE]
    [] k = "XZ"  -> [m EXCEPT !.r.id = 0]
    [] k = "YZ"  -> [m EXCEPT !.r.mod = 0]
    [] k = "XYZ" -> [m EXCEPT !.layer = "G"]

\* A full word is typed, in PROG mode too.
SendWord(m) ==
  [m EXCEPT !.usb_buffer = ApplyModCode(m.g.shortcuts[m.g.id], m.g.mod)]

ApplyGInProg(m, k) ==
  CASE k = "X"   -> [m EXCEPT !.g.key = Inc(@)]
    [] k = "Z"   -> IF Len(m.g.shortcuts[m.g.id]) < MaxWordLen
                      THEN [m EXCEPT !.g.shortcuts[m.g.id] =
                                        Append(@, Char(m.g.key, 0))]
                      ELSE SendWord(m)
    [] k = "XZ"  -> [m EXCEPT !.g.key = 0]
    [] k = "YZ"  -> [m EXCEPT !.g.shortcuts[m.g.id] = <<>>]
    [] k = "XYZ" -> [m EXCEPT !.g.prog = FALSE]
    [] OTHER     -> m

ApplyG(m, k) ==
  CASE k = "X"   -> [m EXCEPT !.g.id = Inc(@)]
    [] k = "Y"   -> [m EXCEPT !.g.mod = Inc(@)]
    [] k = "Z"   -> SendWord(m)
    [] k = "XY"  -> [m EXCEPT !.g.prog = TRUE]
    [] k = "XZ"  -> [m EXCEPT !.g.id = 0]
    [] k = "YZ"  -> [m EXCEPT !.g.mod = 0]
    [] k = "XYZ" -> [m EXCEPT !.layer = "B"]

ApplyBInProg(m, k) ==
  CASE k = "X"   -> [m EXCEPT !.b.key = Inc(@)]
    [] k = "Y"   -> [m EXCEPT !.b.mod = Inc(@)]
    [] k = "Z"   -> [m EXCEPT !.b.shortcuts[m.b.id] =
                                 Append(@, Char(m.b.key, m.b.mod))]
    [] k = "XY"  -> [m EXCEPT !.b.shortcuts[m.b.id] = <<>>]
    [] k = "XZ"  -> [m EXCEPT !.b.key = 0]
    [] k = "YZ"  -> [m EXCEPT !.b.mod = 0]
    [] k = "XYZ" -> [m EXCEPT !.b.prog = FALSE]

ApplyB(m, k) ==
  CASE k = "X"   -> [m EXCEPT !.b.id = Inc(@)]
    [] k = "Z"   -> Type(m, m.b.shortcuts[m.b.id])
    [] k = "XY"  -> [m EXCEPT !.b.prog = TRUE]
    [] k = "XZ"  -> [m EXCEPT !.b.id = 0]
    [] k = "XYZ" -> [m EXCEPT !.layer = "DFLT"]
    [] OTHER     -> m

\* ThreeboardModel::Apply, on a model whose last snapshot has been taken.
Apply(model, k) ==
  LET m == [model EXCEPT !.usb_buffer = <<>>] IN
  CASE m.layer = "DFLT"           -> ApplyDefault(m, k)
    [] m.layer = "R" /\ m.r.prog  -> ApplyRInProg(m, k)
    [] m.layer = "R" /\ ~m.r.prog -> ApplyR(m, k)
    [] m.layer = "G" /\ m.g.prog  -> ApplyGInProg(m, k)
    [] m.layer = "G" /\ ~m.g.prog -> ApplyG(m, k)
    [] m.layer = "B" /\ m.b.prog  -> ApplyBInProg(m, k)
    [] m.layer = "B" /\ ~m.b.prog -> ApplyB(m, k)
-----------------------------------------------------------------------------
(***************************************************************************)
(* Snapshots.                                                              *)
(***************************************************************************)
Shown(layer, bank0, bank1, prog) ==
  [layer |-> layer, bank0 |-> bank0, bank1 |-> bank1, prog |-> prog]

SnapshotR(r) ==
  IF r.prog
    THEN Shown("R", Lit(r.shortcuts[r.id]), Lit(r.id), TRUE)
    ELSE Shown("R", Lit(r.id), Lit(r.mod), FALSE)

SnapshotG(g) ==
  LET high == Lit(Len(g.shortcuts[g.id]) * LengthShift) IN
  IF g.prog
    THEN Shown("G", Lit(g.key), high, TRUE)
    ELSE Shown("G", Lit(g.id), Lit(g.mod) \cup high, FALSE)

SnapshotB(b) ==
  IF b.prog
    THEN Shown("B", Lit(b.key), Lit(b.mod), TRUE)
    ELSE Shown("B", Lit(b.id), Lit(Len(b.shortcuts[b.id])), FALSE)

\* The LEDs of GetStateSnapshot; it also returns and clears usb_buffer.
LedSnapshot(m) ==
  CASE m.layer = "DFLT" ->
         Shown("DFLT", Lit(m.dflt.bank0), Lit(m.dflt.bank1), FALSE)
    [] m.layer = "R" -> SnapshotR(m.r)
    [] m.layer = "G" -> SnapshotG(m.g)
    [] m.layer = "B" -> SnapshotB(m.b)

=============================================================================
