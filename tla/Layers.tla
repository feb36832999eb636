------------------------------- MODULE Layers -------------------------------
(***************************************************************************)
(* The four layers of the threeboard, the LayerController that switches    *)
(* between them, and the error indication of the event loop.  A keypress   *)
(* or combo is handled to completion by the current layer: it changes the  *)
(* layer's own bytes, calls the storage and the USB controller, and        *)
(* redraws the LEDs on every path that does not return early.              *)
(*                                                                         *)
(* The shortcut storage appears as ShortcutStore promises it: an operation *)
(* that returns false has changed nothing, any access to an external       *)
(* EEPROM and any send may fail, and reads and writes of the MCU's own     *)
(* EEPROM (characters and lengths) do not fail.                            *)
(***************************************************************************)
EXTENDS Integers

CONSTANTS
  UintRange,      \* 256: every byte of the layers is a uint8_t
  BankLeds,       \* 8 LEDs per bank
  LengthShift,    \* 16 = 2^4: the length of a word is shown shifted by 4
  MaxWordLen,     \* 15
  MaxBlobLen,     \* 255
  kLayerBMaxIndex,\* 247
  Used            \* the keypresses the user makes in each layer

LayerId == {"DFLT", "R", "G", "B"}
Keypress == {"X", "Y", "Z", "XY", "XZ", "YZ", "XYZ"}
Uint8 == 0..(UintRange - 1)
BlobIds == 0..kLayerBMaxIndex

ASSUME RangeAssumption ==
  /\ UintRange \in Nat \ {0}
  /\ BankLeds \in Nat
  /\ LengthShift \in Nat
  /\ MaxWordLen \in Uint8 /\ MaxBlobLen \in Uint8
  /\ kLayerBMaxIndex \in Uint8
  /\ Used \in [LayerId -> SUBSET Keypress]

VARIABLES
  current_layer,  \* LayerController::current_layer_
  dflt,           \* the bytes of DefaultLayer
  r, g, b,        \* the bytes and the prog flag of LayerR, LayerG and LayerB
  chars,          \* stored character shortcuts
  wordLength,     \* lengths of the stored word shortcuts
  blobLength,     \* lengths of the stored blob shortcuts
  leds,           \* LedState: the layer LED, PROG and the two banks
  err,            \* LedState: the ERR LED
  request,        \* the call the last event made to storage or USB
  status          \* what HandleEvent returned for the last event

layers == <<current_layer, dflt, r, g, b>>
stored == <<chars, wordLength, blobLength>>
vars == <<layers, stored, leds, err, request, status>>

\* ++ on a uint8_t.
Inc(v) == (v + 1) % UintRange

\* A byte on a bank of LEDs: the set of lit bits.
Lit(v) == {k \in 0..(BankLeds - 1) : (v \div 2^k) % 2 = 1}
-----------------------------------------------------------------------------
(***************************************************************************)
(* Layer: the LEDs, the host and the outcome of an event.                  *)
(***************************************************************************)
\* The layer LED, "DFLT" when none of R, G and B is lit.
UpdateLedState(layer, bank0, bank1, prog) ==
  leds' = [layer |-> layer, bank0 |-> bank0, bank1 |-> bank1, prog |-> prog]

NoRequest == <<"none">>

Succeed == status' = TRUE /\ UNCHANGED err

\* RunEventLoopIteration turns a false return into a pulse of ERR.
Fail == status' = FALSE /\ err' = "PULSE"

\* The handler ignores whether the keypress could be sent, but shows it.
SendToHost(key, mod) ==
  /\ request' = <<"send_key", key, mod>>
  /\ err' \in {"OFF", "ON"}
  /\ status' = TRUE
-----------------------------------------------------------------------------
(***************************************************************************)
(* Entering a layer.                                                       *)
(***************************************************************************)
ShowDefault(s) == UpdateLedState("DFLT", Lit(s.bank0), Lit(s.bank1), FALSE)

ShowR(s) ==
  IF s.prog THEN UpdateLedState("R", Lit(s.cur), Lit(s.id), TRUE)
            ELSE UpdateLedState("R", Lit(s.id), Lit(s.mod), FALSE)

ShowGUnshifted(s, lengths) ==
  IF s.prog THEN UpdateLedState("G", Lit(s.key), Lit(lengths[s.id]), TRUE)
            ELSE UpdateLedState("G", Lit(s.id), Lit(s.mod), FALSE)

ShowG(s, lengths) ==
  LET high == Lit(lengths[s.id] * LengthShift) IN
  IF s.prog THEN UpdateLedState("G", Lit(s.key), high, TRUE)
            ELSE UpdateLedState("G", Lit(s.id), high \cup Lit(s.mod), FALSE)

\* Outside PROG the length of the blob is read first: no such blob, no redraw.
ShowB(s, lengths) ==
  \/ /\ s.prog
     /\ UpdateLedState("B", Lit(s.key), Lit(s.mod), TRUE)
     /\ Succeed
  \/ /\ ~s.prog /\ s.id \in BlobIds
     /\ UpdateLedState("B", Lit(s.id), Lit(lengths[s.id]), FALSE)
     /\ Succeed
  \/ ~s.prog /\ s.id \notin BlobIds /\ UNCHANGED leds /\ Fail

SwitchToLayerWithoutRedraw(layer) ==
  /\ current_layer' = layer
  /\ request' = NoRequest
  /\ Succeed
  /\ UNCHANGED <<dflt, r, g, b, stored, leds>>

SwitchToLayer(layer) ==
  /\ current_layer' = layer
  /\ \/ layer = "DFLT" /\ ShowDefault(dflt) /\ Succeed
     \/ /\ layer = "R"
        /\ UpdateLedState("R", Lit(r.id), Lit(r.mod), r.prog)
        /\ Succeed
     \/ /\ layer = "G"
        /\ UpdateLedState("G", Lit(g.id),
             Lit(wordLength[g.id] * LengthShift) \cup Lit(g.mod), g.prog)
        /\ Succeed
     \/ /\ layer = "B" /\ b.id \in BlobIds
        /\ UpdateLedState("B", Lit(b.id), Lit(blobLength[b.id]), b.prog)
        /\ Succeed
     \/ layer = "B" /\ b.id \notin BlobIds /\ UNCHANGED leds /\ Fail
  /\ request' = NoRequest
  /\ UNCHANGED <<dflt, r, g, b, stored>>
-----------------------------------------------------------------------------
(***************************************************************************)
(* DefaultLayer: sends the two banks to the host.                          *)
(***************************************************************************)
DefaultLayerEdit(k) ==
  CASE k = "X"  -> [dflt EXCEPT !.bank0 = Inc(@)]
    [] k = "Y"  -> [dflt EXCEPT !.bank1 = Inc(@)]
    [] k = "XZ" -> [dflt EXCEPT !.bank0 = 0]
    [] k = "YZ" -> [dflt EXCEPT !.bank1 = 0]
    [] OTHER    -> dflt

DefaultLayerHandleEvent(k) ==
  /\ current_layer = "DFLT"
  /\ IF k = "XYZ"
       THEN SwitchToLayer("R")
       ELSE /\ dflt' = DefaultLayerEdit(k)
            /\ IF k = "Z"
                 THEN SendToHost(dflt.bank0, dflt.bank1)
                 ELSE request' = NoRequest /\ Succeed
            /\ ShowDefault(DefaultLayerEdit(k))
            /\ UNCHANGED <<current_layer, r, g, b, stored>>
-----------------------------------------------------------------------------
(***************************************************************************)
(* LayerR: character shortcuts.  In PROG mode X and XZ write the storage   *)
(* at once, and every event rereads the stored character.                  *)
(***************************************************************************)
LayerREdit(k) ==
  CASE k = "X"  /\ r.prog  -> [r EXCEPT !.cur = Inc(@)]
    [] k = "X"  /\ ~r.prog -> [r EXCEPT !.id = Inc(@)]
    [] k = "Y"  /\ r.prog  -> [r EXCEPT !.id = Inc(@)]
    [] k = "Y"  /\ ~r.prog -> [r EXCEPT !.mod = Inc(@)]
    [] k = "XY"            -> [r EXCEPT !.prog = TRUE]
    [] k = "XZ" /\ ~r.prog -> [r EXCEPT !.id = 0]
    [] k = "YZ" /\ r.prog  -> [r EXCEPT !.id = 0]
    [] k = "YZ" /\ ~r.prog -> [r EXCEPT !.mod = 0]
    [] k = "XYZ"           -> [r EXCEPT !.prog = FALSE]
    [] OTHER               -> r

LayerRRereadNever(s, characters) == s

\* In PROG mode the character being programmed is read back.
LayerRReread(s, characters) ==
  IF s.prog THEN [s EXCEPT !.cur = characters[s.id]] ELSE s

LayerRCall(k) ==
  IF r.prog /\ k \in {"X", "XZ"}
    THEN LET character == IF k = "X" THEN Inc(r.cur) ELSE 0 IN
         /\ chars' = [chars EXCEPT ![r.id] = character]
         /\ request' = <<"set_character", r.id, character>>
         /\ Succeed
    ELSE /\ UNCHANGED chars
         /\ IF k = "Z" /\ ~r.prog
              THEN SendToHost(chars[r.id], r.mod)
              ELSE request' = NoRequest /\ Succeed

LayerRHandleEvent(k) ==
  /\ current_layer = "R"
  /\ IF k = "XYZ" /\ ~r.prog
       THEN SwitchToLayer("G")
       ELSE /\ LayerRCall(k)
            /\ r' = LayerRReread(LayerREdit(k), chars')
            /\ ShowR(LayerRReread(LayerREdit(k), chars'))
            /\ UNCHANGED <<current_layer, dflt, g, b, wordLength, blobLength>>
-----------------------------------------------------------------------------
(***************************************************************************)
(* LayerG: word shortcuts.  A failed append or send returns before the     *)
(* LEDs are redrawn.                                                       *)
(***************************************************************************)
LayerGEdit(k) ==
  CASE k = "X"  /\ g.prog  -> [g EXCEPT !.key = Inc(@)]
    [] k = "X"  /\ ~g.prog -> [g EXCEPT !.id = Inc(@)]
    [] k = "Y"  /\ ~g.prog -> [g EXCEPT !.mod = Inc(@)]
    [] k = "XY"            -> [g EXCEPT !.prog = TRUE]
    [] k = "XZ" /\ g.prog  -> [g EXCEPT !.key = 0]
    [] k = "XZ" /\ ~g.prog -> [g EXCEPT !.id = 0]
    [] k = "YZ" /\ ~g.prog -> [g EXCEPT !.mod = 0]
    [] k = "XYZ"           -> [g EXCEPT !.prog = FALSE]
    [] OTHER               -> g

FinishG(s, lengths) == g' = s /\ wordLength' = lengths /\ ShowG(s, lengths)

LayerGCallAppendingInAnyMode(k) ==
  IF k = "Z"
    THEN /\ request' = <<"append_to_word", g.id, g.key>>
         /\ wordLength[g.id] # MaxWordLen
         /\ FinishG(g, [wordLength EXCEPT ![g.id] = @ + 1])
         /\ Succeed
    ELSE request' = NoRequest /\ FinishG(LayerGEdit(k), wordLength) /\ Succeed

LayerGCall(k) ==
  \/ /\ k = "Z" /\ g.prog
     /\ request' = <<"append_to_word", g.id, g.key>>
     /\ \/ /\ wordLength[g.id] # MaxWordLen
           /\ FinishG(g, [wordLength EXCEPT ![g.id] = @ + 1])
           /\ Succeed
        \/ Fail /\ UNCHANGED <<g, wordLength, leds>>
  \/ /\ k = "Z" /\ ~g.prog
     /\ request' = <<"send_word", g.id, g.mod>>
     /\ \/ wordLength[g.id] # 0 /\ FinishG(g, wordLength) /\ Succeed
        \/ Fail /\ UNCHANGED <<g, wordLength, leds>>
  \/ /\ k = "YZ" /\ g.prog
     /\ request' = <<"clear_word", g.id>>
     /\ FinishG(g, [wordLength EXCEPT ![g.id] = 0])
     /\ Succeed
  \/ /\ k # "Z" /\ ~(k = "YZ" /\ g.prog)
     /\ request' = NoRequest
     /\ FinishG(LayerGEdit(k), wordLength)
     /\ Succeed

LayerGHandleEvent(k) ==
  /\ current_layer = "G"
  /\ IF k = "XYZ" /\ ~g.prog
       THEN SwitchToLayer("B")
       ELSE LayerGCall(k) /\ UNCHANGED <<current_layer, dflt, r, b, chars, blobLength>>
-----------------------------------------------------------------------------
(***************************************************************************)
(* LayerB: blob shortcuts.  What its storage operations return is ignored. *)
(***************************************************************************)
LayerBEdit(k) ==
  CASE k = "X"  /\ b.prog  -> [b EXCEPT !.key = Inc(@)]
    [] k = "X"  /\ ~b.prog -> [b EXCEPT !.id = Inc(@)]
    [] k = "Y"  /\ b.prog  -> [b EXCEPT !.mod = Inc(@)]
    [] k = "XY" /\ ~b.prog -> [b EXCEPT !.prog = TRUE]
    [] k = "XZ" /\ b.prog  -> [b EXCEPT !.key = 0]
    [] k = "XZ" /\ ~b.prog -> [b EXCEPT !.id = 0]
    [] k = "YZ" /\ b.prog  -> [b EXCEPT !.mod = 0]
    [] k = "XYZ"           -> [b EXCEPT !.prog = FALSE]
    [] OTHER               -> b

LayerBCall(k) ==
  \/ /\ k = "Z" /\ b.prog
     /\ request' = <<"append_to_blob", b.id, b.key, b.mod>>
     /\ \/ /\ b.id \in BlobIds /\ blobLength[b.id] # MaxBlobLen
           /\ blobLength' = [blobLength EXCEPT ![b.id] = @ + 1]
        \/ UNCHANGED blobLength
  \/ /\ k = "Z" /\ ~b.prog
     /\ request' = <<"send_blob", b.id>>
     /\ UNCHANGED blobLength
  \/ /\ k = "XY" /\ b.prog
     /\ request' = <<"clear_blob", b.id>>
     /\ blobLength' = IF b.id \in BlobIds
                        THEN [blobLength EXCEPT ![b.id] = 0]
                        ELSE blobLength
  \/ /\ k # "Z" /\ ~(k = "XY" /\ b.prog)
     /\ request' = NoRequest
     /\ UNCHANGED blobLength

LayerBHandleEvent(k) ==
  /\ current_layer = "B"
  /\ IF k = "XYZ" /\ ~b.prog
       THEN SwitchToLayer("DFLT")
       ELSE /\ LayerBCall(k)
            /\ b' = LayerBEdit(k)
            /\ ShowB(LayerBEdit(k), blobLength')
            /\ UNCHANGED <<current_layer, dflt, r, g, chars, wordLength>>
-----------------------------------------------------------------------------
DefaultBytes == [bank0 |-> 0, bank1 |-> 0]
RBytes == [id |-> 0, mod |-> 0, cur |-> 0, prog |-> FALSE]
GBytes == [id |-> 0, key |-> 0, mod |-> 0, prog |-> FALSE]
BBytes == [id |-> 0, key |-> 0, mod |-> 0, prog |-> FALSE]
LedsOff ==
  [layer |-> "DFLT", bank0 |-> Lit(0), bank1 |-> Lit(0), prog |-> FALSE]

\* A blank EEPROM reads as zeroes.
Init ==
  /\ current_layer = "DFLT"
  /\ dflt = DefaultBytes /\ r = RBytes /\ g = GBytes /\ b = BBytes
  /\ chars = [i \in Uint8 |-> 0]
  /\ wordLength = [i \in Uint8 |-> 0]
  /\ blobLength = [i \in BlobIds |-> 0]
  /\ leds = LedsOff
  /\ err = "OFF"
  /\ request = NoRequest
  /\ status = TRUE

\* LayerController::HandleEvent
HandleEvent(k) ==
  \/ DefaultLayerHandleEvent(k)
  \/ LayerRHandleEvent(k)
  \/ LayerGHandleEvent(k)
  \/ LayerBHandleEvent(k)

\* The LED controller ends a pulse of ERR by itself.
PulseElapses ==
  /\ err = "PULSE"
  /\ err' = "OFF"
  /\ request' = NoRequest
  /\ UNCHANGED <<layers, stored, leds, status>>

\* The power goes between two events and comes back: RAM starts afresh, the
\* EEPROMs keep the shortcuts.
PowerCycle ==
  /\ current_layer' = "DFLT"
  /\ dflt' = DefaultBytes /\ r' = RBytes /\ g' = GBytes /\ b' = BBytes
  /\ leds' = LedsOff
  /\ err' = "OFF"
  /\ request' = NoRequest
  /\ status' = TRUE
  /\ UNCHANGED stored

Next ==
  \/ \E k \in Used[current_layer] : HandleEvent(k)
  \/ PulseElapses
  \/ PowerCycle

Spec == Init /\ [][Next]_vars
-----------------------------------------------------------------------------
(***************************************************************************)
(* Properties.                                                             *)
(***************************************************************************)
Bank == SUBSET (0..(BankLeds - 1))
Leds == [layer : LayerId, bank0 : Bank, bank1 : Bank, prog : BOOLEAN]

\* Every byte of a layer is a uint8_t, every length fits the storage, and the
\* LEDs are in a state of LedState.
TypeOK ==
  /\ current_layer \in LayerId
  /\ dflt \in [bank0 : Uint8, bank1 : Uint8]
  /\ r \in [id : Uint8, mod : Uint8, cur : Uint8, prog : BOOLEAN]
  /\ g \in [id : Uint8, key : Uint8, mod : Uint8, prog : BOOLEAN]
  /\ b \in [id : Uint8, key : Uint8, mod : Uint8, prog : BOOLEAN]
  /\ chars \in [Uint8 -> Uint8]
  /\ wordLength \in [Uint8 -> 0..MaxWordLen]
  /\ blobLength \in [BlobIds -> 0..MaxBlobLen]
  /\ leds \in Leds
  /\ err \in {"OFF", "ON", "PULSE"}
  /\ status \in BOOLEAN

Prog(l) ==
  (l = "R" /\ r.prog) \/ (l = "G" /\ g.prog) \/ (l = "B" /\ b.prog)

\* Only the current layer can be in PROG mode: no layer is left while it
\* programs, so no layer is ever entered in PROG mode.
OnlyCurrentLayerProgs == \A l \in LayerId : Prog(l) => current_layer = l

\* LayerR's copy of the character being programmed is the stored one: X, which
\* writes the copy plus one, always increments what is stored.
ProgCharacterIsStored == r.prog => r.cur = chars[r.id]

\* The LEDs show the bytes of the current layer and what they stand for.
Shows(layer, prog, bank0, bank1) ==
  leds = [layer |-> layer, bank0 |-> bank0, bank1 |-> bank1, prog |-> prog]

ShowsDefault == Shows("DFLT", FALSE, Lit(dflt.bank0), Lit(dflt.bank1))

ShowsLayerR ==
  IF r.prog THEN Shows("R", TRUE, Lit(chars[r.id]), Lit(r.id))
            ELSE Shows("R", FALSE, Lit(r.id), Lit(r.mod))

ShowsLayerG ==
  LET high == Lit(wordLength[g.id] * LengthShift) IN
  IF g.prog THEN Shows("G", TRUE, Lit(g.key), high)
            ELSE Shows("G", FALSE, Lit(g.id), high \cup Lit(g.mod))

ShowsLayerB ==
  IF b.prog THEN Shows("B", TRUE, Lit(b.key), Lit(b.mod))
            ELSE Shows("B", FALSE, Lit(b.id), Lit(blobLength[b.id]))

\* Layer B with an id beyond the last blob selected, outside PROG mode.
NoSuchBlob == current_layer = "B" /\ ~b.prog /\ b.id \notin BlobIds

\* The LEDs show the current layer, its mode and its bytes, and the stored
\* character or length they stand for, after every event, those that failed
\* included; layer B beyond its last blob is the one exception.
LedsShowState ==
  \/ NoSuchBlob
  \/ current_layer = "DFLT" /\ ShowsDefault
  \/ current_layer = "R" /\ ShowsLayerR
  \/ current_layer = "G" /\ ShowsLayerG
  \/ current_layer = "B" /\ ShowsLayerB

\* Stored shortcuts change only by an event of a layer in PROG mode, one
\* shortcut at a time and only the selected one; the PROG LED is lit.
SelectedOnly(f, id) == \A i \in DOMAIN f : f'[i] # f[i] => i = id

EditsOnlyInProg ==
  [][stored' # stored =>
       /\ leds.prog /\ leds.layer = current_layer /\ Prog(current_layer)
       /\ chars' # chars => current_layer = "R" /\ SelectedOnly(chars, r.id)
       /\ wordLength' # wordLength =>
            current_layer = "G" /\ SelectedOnly(wordLength, g.id)
       /\ blobLength' # blobLength =>
            current_layer = "B" /\ SelectedOnly(blobLength, b.id)]_vars

\* What is sent to the host and what is stored is what the LEDs showed when
\* the key was pressed: keycode and modifiers, the selected shortcut, the
\* character incremented.
RequestShown(q) ==
  /\ q[1] = "send_key" /\ current_layer = "DFLT" =>
       Shows("DFLT", FALSE, Lit(q[2]), Lit(q[3]))
  /\ q[1] = "send_key" /\ current_layer # "DFLT" =>
       \E id \in Uint8 :
         Shows("R", FALSE, Lit(id), Lit(q[3])) /\ q[2] = chars[id]
  /\ q[1] = "set_character" =>
       /\ Shows("R", TRUE, Lit(chars[q[2]]), Lit(q[2]))
       /\ q[3] \in {0, Inc(chars[q[2]])}
  /\ q[1] = "append_to_word" =>
       Shows("G", TRUE, Lit(q[3]), Lit(wordLength[q[2]] * LengthShift))
  /\ q[1] = "send_word" =>
       Shows("G", FALSE, Lit(q[2]), Lit(wordLength[q[2]] * LengthShift) \cup Lit(q[3]))
  /\ q[1] = "append_to_blob" => Shows("B", TRUE, Lit(q[3]), Lit(q[4]))
  /\ q[1] = "send_blob" /\ q[2] \in BlobIds =>
       Shows("B", FALSE, Lit(q[2]), Lit(blobLength[q[2]]))

SendsAndStoresWhatIsShown == [][RequestShown(request')]_vars

(***************************************************************************)
(* What the documents say and the code does not do.                        *)
(***************************************************************************)
\* threeboard_user_manual.md:66: in layer G the high bits of bank 1 show the
\* length of the word.
HighLeds == {k \in 0..(BankLeds - 1) : 2^k >= LengthShift}

WordLengthIsShown ==
  leds.layer = "G" =>
    leds.bank1 \cap HighLeds = Lit(wordLength[g.id] * LengthShift)

\* firmware_design.md:128: the layer LEDs show the current layer.
LayerLedIsCurrent == leds.layer = current_layer

\* threeboard.cpp:126: the success of an event is propagated up through the
\* layer to the event loop, which pulses ERR.
FailedAppendIsShown ==
  [][request'[1] = "append_to_blob" /\ UNCHANGED blobLength
       => err' = "PULSE"]_vars

=============================================================================
