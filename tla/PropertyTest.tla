---------------------------- MODULE PropertyTest ----------------------------
(***************************************************************************)
(* The repository's property test (integration/property_test.cpp): random  *)
(* keypresses go to the simulated threeboard and to the model, and the two *)
(* are compared after each.  Here TLC makes the keypresses, all of them,   *)
(* on a small instance.                                                    *)
(*                                                                         *)
(* The device is the layers of module Layers, over the shortcuts that      *)
(* ShortcutStore describes.  In the simulator the host reads, the MCU's    *)
(* own EEPROM and EEPROM_0 answer and EEPROM_1 does not exist, so what     *)
(* fails is what the storage refuses and what needs EEPROM_1.              *)
(***************************************************************************)
EXTENDS Layers, Sequences

CONSTANTS
  Keycode,   \* the key code each byte of this instance stands for
  MaxKey,    \* bound: the last byte the user stores in words and blobs
  MaxId,     \* bound: the last shortcut id the user selects in each layer
  MaxEntries,\* bound: the entries the user appends to each blob
  kEeprom1LayerBStartShortcutId  \* 120: the first blob of EEPROM_1

ASSUME PropertyTestAssumption ==
  /\ Keycode \in [Uint8 -> 0..255]
  /\ MaxKey \in Uint8
  /\ MaxId \in [LayerId -> Uint8] /\ MaxId["B"] \in BlobIds
  /\ MaxEntries \in [BlobIds -> 0..MaxBlobLen]
  /\ kEeprom1LayerBStartShortcutId \in Nat

VARIABLES
  words, blobs,  \* stored word and blob shortcuts
  usb_buffer,    \* what the device has typed since the last comparison
  model,         \* the ThreeboardModel
  focus          \* the layer this test works in; it passes through the others

testVars == <<vars, words, blobs, usb_buffer, model, focus>>

Model == INSTANCE ThreeboardModel

Store == INSTANCE ShortcutStore WITH
  Ids <- Uint8, Characters <- Uint8, ModCodes <- Uint8, WordMods <- Uint8,
  sending <- request, sent <- usb_buffer, result <- status

TestInit ==
  /\ Init
  /\ words = [i \in Uint8 |-> <<>>] /\ blobs = [i \in BlobIds |-> <<>>]
  /\ usb_buffer = <<>>
  /\ model = Model!InitialModel
  /\ focus \in LayerId
-----------------------------------------------------------------------------
\* The keypresses that keep the test within its bounds.  Beyond them the model
\* is undefined: it has no blob for an id past the last one, and none is full.
InBounds(k) ==
  /\ k = "XYZ" \/ current_layer = focus
  /\ current_layer = "R" =>
       (k = (IF r.prog THEN "Y" ELSE "X") => r.id < MaxId["R"])
  /\ current_layer = "G" /\ k = "X" =>
       IF g.prog THEN g.key < MaxKey ELSE g.id < MaxId["G"]
  /\ current_layer = "B" =>
       /\ k = "X" => IF b.prog THEN b.key < MaxKey ELSE b.id < MaxId["B"]
       /\ k = "Z" /\ b.prog => Len(model.b.shortcuts[b.id]) < MaxEntries[b.id]

\* The simulator constructs EEPROM_0 alone: no device acknowledges a write or a
\* read of one of these blobs, only their lengths are there.
OnEeprom1(i) == i >= kEeprom1LayerBStartShortcutId

\* Of the outcomes a call may have, the one it has when nothing breaks.
NothingBreaks ==
  /\ request'[1] = "send_key" => err' = "OFF"
  /\ request'[1] = "append_to_word" =>
       (status' <=> wordLength[request'[2]] # MaxWordLen)
  /\ request'[1] = "send_word" => (status' <=> wordLength[request'[2]] # 0)
  /\ request'[1] = "append_to_blob" =>
       (blobLength' # blobLength <=> ~OnEeprom1(request'[2]))

StoreContents ==
  /\ words' = [i \in Uint8 |->
       IF wordLength'[i] = wordLength[i] THEN words[i]
       ELSE IF wordLength'[i] = 0 THEN <<>> ELSE Append(words[i], request'[3])]
  /\ blobs' = [i \in BlobIds |->
       IF blobLength'[i] = blobLength[i] THEN blobs[i]
       ELSE IF blobLength'[i] = 0 THEN <<>>
       ELSE Append(blobs[i], <<request'[3], request'[4]>>)]

\* What the simulator's host makes of the reports of a list of keys.
Typed(keys) ==
  Model!PrintableOf(
    [j \in DOMAIN keys |-> Model!FromUsbKeycodes(keys[j][1], keys[j][2])])

Output(q) ==
  CASE q[1] = "send_key"  -> Typed(<<<<Keycode[q[2]], q[3]>>>>)
    [] q[1] = "send_word" /\ words[q[2]] # <<>> -> LET word == words[q[2]] IN
         Typed(Store!WordText([j \in DOMAIN word |-> Keycode[word[j]]], q[3]))
    [] q[1] = "send_blob" /\ ~OnEeprom1(q[2]) -> LET blob == blobs[q[2]] IN
         Typed([j \in DOMAIN blob |-> <<Keycode[blob[j][1]], blob[j][2]>>])
    [] OTHER -> <<>>

\* ApplyAndCompare up to the comparison.
ApplyKeypress(k) ==
  /\ InBounds(k)
  /\ HandleEvent(k)
  /\ NothingBreaks
  /\ StoreContents
  /\ usb_buffer' = Output(request')
  /\ model' = Model!Apply(model, k)
  /\ UNCHANGED focus

\* A pulse of ERR may end after the comparison, which has taken the output.
PulseElapsesLater ==
  /\ PulseElapses
  /\ usb_buffer' = <<>> /\ model' = [model EXCEPT !.usb_buffer = <<>>]
  /\ UNCHANGED <<words, blobs, focus>>

TestNext == PulseElapsesLater \/ \E k \in Keypress : ApplyKeypress(k)

TestSpec == TestInit /\ [][TestNext]_testVars
-----------------------------------------------------------------------------
(***************************************************************************)
(* Properties.                                                             *)
(***************************************************************************)
\* The model as far as the device can follow it: no blob of EEPROM_1 has entries.
WithoutEeprom1 ==
  [model EXCEPT !.b.shortcuts =
     [i \in BlobIds |-> IF OnEeprom1(i) THEN <<>> ELSE @[i]]]

\* The two stores hold the same shortcuts, although one holds key codes and the
\* other the characters they type.
ShortcutsMatchModel ==
  /\ \A i \in Uint8 :
       /\ chars[i] = model.r.shortcuts[i]
       /\ Len(words[i]) = wordLength[i]
       /\ [j \in DOMAIN words[i] |-> Model!Char(words[i][j], 0)]
            = model.g.shortcuts[i]
  /\ \A i \in BlobIds :
       /\ Len(blobs[i]) = blobLength[i]
       /\ [j \in DOMAIN blobs[i] |-> Model!Char(blobs[i][j][1], blobs[i][j][2])]
            = WithoutEeprom1.b.shortcuts[i]

\* The model types a full word where the device refuses to append to it.
AppendRefused == request[1] = "append_to_word" /\ ~status

\* Shift makes another character of a key that is no letter; toupper does not.
ShiftsNonLetter ==
  /\ request[1] = "send_word" /\ request[3] \in {1, 2}
  /\ \E j \in 1..(IF request[3] = 1 THEN wordLength[request[2]] ELSE 1) :
       Model!Char(words[request[2]][j], 0) \in Model!Printable \ Model!Lower

\* A send from EEPROM_1 types nothing.
BlobIsLost == request[1] = "send_blob" /\ OnEeprom1(request[2])

LedsMatchModel == leds = Model!LedSnapshot(WithoutEeprom1)

\* property_test.cpp:86: the state of the device matches that of the model after
\* each keypress.  The shortcuts and the LEDs do, with one exception: the blobs of
\* EEPROM_1 stay empty, and are shown so.  What the device types is what the model
\* types, with three.
DeviceMatchesModel ==
  /\ ShortcutsMatchModel
  /\ LedsMatchModel
  /\ usb_buffer # model.usb_buffer =>
       AppendRefused \/ ShiftsNonLetter \/ BlobIsLost

\* The comparison as the test makes it, without exceptions.
DeviceStateMatches ==
  leds = Model!LedSnapshot(model) /\ usb_buffer = model.usb_buffer

=============================================================================
