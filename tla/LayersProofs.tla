---------------------------- MODULE LayersProofs ----------------------------
(***************************************************************************)
(* Two arguments, each for every size of byte, bank and shortcut.          *)
(*                                                                         *)
(* The LEDs of the threeboard never lie: a layer is only ever left outside *)
(* PROG mode, and LayerR reads back the character it programs.             *)
(*                                                                         *)
(* The threeboard is what the model of its property test says it is: the   *)
(* model is at all times a function of the state of the device, ModelOf,   *)
(* and each keypress takes the one where the other goes.  The device keeps *)
(* key codes and the model the characters they type, so the second half of *)
(* this module is first about the two ways from key codes to characters.   *)
(***************************************************************************)
EXTENDS PropertyTest, TLAPS

Inv ==
  /\ TypeOK
  /\ OnlyCurrentLayerProgs
  /\ ProgCharacterIsStored
  /\ LedsShowState

\* What LayerR keeps, and what LayerG and LayerB keep.
RRecord == [id : Uint8, mod : Uint8, cur : Uint8, prog : BOOLEAN]
KeyedRecord == [id : Uint8, key : Uint8, mod : Uint8, prog : BOOLEAN]

\* ++ stays within uint8_t.
LEMMA IncIsUint8 == ASSUME NEW v \in Uint8 PROVE Inc(v) \in Uint8
<1>1. UintRange \in Nat \ {0} BY RangeAssumption
<1>2. \A w \in Nat : w % UintRange \in 0..(UintRange - 1) BY <1>1, SMT
<1>3. v + 1 \in Nat BY <1>1 DEF Uint8
<1> QED BY <1>2, <1>3 DEF Inc, Uint8

\* A byte lights LEDs of its bank, and so do two bytes shown together.
LEMMA LitIsBank ==
  /\ \A v : Lit(v) \in Bank
  /\ \A v, w : Lit(v) \cup Lit(w) \in Bank
<1>1. \A v : Lit(v) \in Bank BY Zenon DEF Lit, Bank
<1>2. \A S, T : S \in Bank /\ T \in Bank => S \cup T \in Bank BY Zenon DEF Bank
<1> QED BY <1>1, <1>2, Zenon

\* Zero is a byte.
LEMMA ZeroIsUint8 == 0 \in Uint8
BY RangeAssumption DEF Uint8

\* What a layer does to its own bytes keeps them bytes.
LEMMA EditsAreTyped ==
  ASSUME TypeOK, NEW k \in Keypress
  PROVE  /\ DefaultLayerEdit(k) \in [bank0 : Uint8, bank1 : Uint8]
         /\ LayerREdit(k) \in RRecord
         /\ LayerGEdit(k) \in KeyedRecord
         /\ LayerBEdit(k) \in KeyedRecord
<1>1. \A v \in Uint8 : Inc(v) \in Uint8 BY IncIsUint8
<1>2. DefaultLayerEdit(k) \in [bank0 : Uint8, bank1 : Uint8]
  <2>1. DefaultLayerEdit(k) \in
          {[dflt EXCEPT !.bank0 = Inc(@)], [dflt EXCEPT !.bank1 = Inc(@)],
           [dflt EXCEPT !.bank0 = 0], [dflt EXCEPT !.bank1 = 0], dflt}
    BY Zenon DEF DefaultLayerEdit
  <2> QED BY <1>1, <2>1, ZeroIsUint8 DEF TypeOK
<1>3. LayerREdit(k) \in RRecord
  <2>1. LayerREdit(k) \in
          {[r EXCEPT !.cur = Inc(@)], [r EXCEPT !.id = Inc(@)],
           [r EXCEPT !.mod = Inc(@)], [r EXCEPT !.prog = TRUE],
           [r EXCEPT !.id = 0], [r EXCEPT !.mod = 0],
           [r EXCEPT !.prog = FALSE], r}
    BY Zenon DEF LayerREdit
  <2>2. r \in RRecord BY DEF TypeOK, RRecord
  <2>3. r.id \in Uint8 /\ r.mod \in Uint8 /\ r.cur \in Uint8
    BY <2>2 DEF RRecord
  <2>4. Inc(r.id) \in Uint8 /\ Inc(r.mod) \in Uint8 /\ Inc(r.cur) \in Uint8
    BY <1>1, <2>3, Zenon
  <2>5. [r EXCEPT !.id = Inc(@)] \in RRecord BY <2>2, <2>4, ZeroIsUint8 DEF RRecord
  <2>6. [r EXCEPT !.id = 0] \in RRecord BY <2>2, <2>4, ZeroIsUint8 DEF RRecord
  <2>7. [r EXCEPT !.mod = Inc(@)] \in RRecord BY <2>2, <2>4, ZeroIsUint8 DEF RRecord
  <2>8. [r EXCEPT !.mod = 0] \in RRecord BY <2>2, <2>4, ZeroIsUint8 DEF RRecord
  <2>9. [r EXCEPT !.cur = Inc(@)] \in RRecord BY <2>2, <2>4, ZeroIsUint8 DEF RRecord
  <2>10. [r EXCEPT !.prog = TRUE] \in RRecord BY <2>2 DEF RRecord
  <2>11. [r EXCEPT !.prog = FALSE] \in RRecord BY <2>2 DEF RRecord
  <2> QED
    BY <2>1, <2>2, <2>5, <2>6, <2>7, <2>8, <2>9, <2>10, <2>11, Zenon
<1>4. LayerGEdit(k) \in KeyedRecord
  <2>1. LayerGEdit(k) \in
          {[g EXCEPT !.key = Inc(@)], [g EXCEPT !.id = Inc(@)],
           [g EXCEPT !.mod = Inc(@)], [g EXCEPT !.prog = TRUE],
           [g EXCEPT !.key = 0], [g EXCEPT !.id = 0], [g EXCEPT !.mod = 0],
           [g EXCEPT !.prog = FALSE], g}
    BY Zenon DEF LayerGEdit
  <2>2. g \in KeyedRecord BY DEF TypeOK, KeyedRecord
  <2>3. g.id \in Uint8 /\ g.key \in Uint8 /\ g.mod \in Uint8
    BY <2>2 DEF KeyedRecord
  <2>4. Inc(g.id) \in Uint8 /\ Inc(g.key) \in Uint8 /\ Inc(g.mod) \in Uint8
    BY <1>1, <2>3, Zenon
  <2>5. [g EXCEPT !.id = Inc(@)] \in KeyedRecord BY <2>2, <2>4, ZeroIsUint8 DEF KeyedRecord
  <2>6. [g EXCEPT !.id = 0] \in KeyedRecord BY <2>2, <2>4, ZeroIsUint8 DEF KeyedRecord
  <2>7. [g EXCEPT !.key = Inc(@)] \in KeyedRecord BY <2>2, <2>4, ZeroIsUint8 DEF KeyedRecord
  <2>8. [g EXCEPT !.key = 0] \in KeyedRecord BY <2>2, <2>4, ZeroIsUint8 DEF KeyedRecord
  <2>9. [g EXCEPT !.mod = Inc(@)] \in KeyedRecord BY <2>2, <2>4, ZeroIsUint8 DEF KeyedRecord
  <2>10. [g EXCEPT !.mod = 0] \in KeyedRecord BY <2>2, <2>4, ZeroIsUint8 DEF KeyedRecord
  <2>11. [g EXCEPT !.prog = TRUE] \in KeyedRecord BY <2>2 DEF KeyedRecord
  <2>12. [g EXCEPT !.prog = FALSE] \in KeyedRecord BY <2>2 DEF KeyedRecord
  <2> QED
    BY <2>1, <2>2, <2>5, <2>6, <2>7, <2>8, <2>9, <2>10, <2>11, <2>12, Zenon
<1>5. LayerBEdit(k) \in KeyedRecord
  <2>1. LayerBEdit(k) \in
          {[b EXCEPT !.key = Inc(@)], [b EXCEPT !.id = Inc(@)],
           [b EXCEPT !.mod = Inc(@)], [b EXCEPT !.prog = TRUE],
           [b EXCEPT !.key = 0], [b EXCEPT !.id = 0], [b EXCEPT !.mod = 0],
           [b EXCEPT !.prog = FALSE], b}
    BY Zenon DEF LayerBEdit
  <2>2. b \in KeyedRecord BY DEF TypeOK, KeyedRecord
  <2>3. b.id \in Uint8 /\ b.key \in Uint8 /\ b.mod \in Uint8
    BY <2>2 DEF KeyedRecord
  <2>4. Inc(b.id) \in Uint8 /\ Inc(b.key) \in Uint8 /\ Inc(b.mod) \in Uint8
    BY <1>1, <2>3, Zenon
  <2>5. [b EXCEPT !.id = Inc(@)] \in KeyedRecord BY <2>2, <2>4, ZeroIsUint8 DEF KeyedRecord
  <2>6. [b EXCEPT !.id = 0] \in KeyedRecord BY <2>2, <2>4, ZeroIsUint8 DEF KeyedRecord
  <2>7. [b EXCEPT !.key = Inc(@)] \in KeyedRecord BY <2>2, <2>4, ZeroIsUint8 DEF KeyedRecord
  <2>8. [b EXCEPT !.key = 0] \in KeyedRecord BY <2>2, <2>4, ZeroIsUint8 DEF KeyedRecord
  <2>9. [b EXCEPT !.mod = Inc(@)] \in KeyedRecord BY <2>2, <2>4, ZeroIsUint8 DEF KeyedRecord
  <2>10. [b EXCEPT !.mod = 0] \in KeyedRecord BY <2>2, <2>4, ZeroIsUint8 DEF KeyedRecord
  <2>11. [b EXCEPT !.prog = TRUE] \in KeyedRecord BY <2>2 DEF KeyedRecord
  <2>12. [b EXCEPT !.prog = FALSE] \in KeyedRecord BY <2>2 DEF KeyedRecord
  <2> QED
    BY <2>1, <2>2, <2>5, <2>6, <2>7, <2>8, <2>9, <2>10, <2>11, <2>12, Zenon
<1> QED BY <1>2, <1>3, <1>4, <1>5

\* No layer is in PROG mode when the current one is not.
LEMMA NoneProgs ==
  ASSUME Inv, ~Prog(current_layer)
  PROVE  ~r.prog /\ ~g.prog /\ ~b.prog
BY DEF Inv, OnlyCurrentLayerProgs, Prog, LayerId

\* What a layer draws is a state of the LEDs.
LEMMA ShownIsTyped ==
  \A layer \in LayerId, S \in Bank, T \in Bank, p \in BOOLEAN :
    UpdateLedState(layer, S, T, p) => leds' \in Leds
BY DEF Leds, UpdateLedState

\* Each layer draws its own bytes.
LEMMA DrawnIsTyped ==
  /\ \A s : ShowDefault(s) => leds' \in Leds
  /\ \A s : ShowR(s) => leds' \in Leds
  /\ \A s, lengths : ShowG(s, lengths) => leds' \in Leds
  /\ \A s, lengths : ShowB(s, lengths) => leds' \in Leds \/ UNCHANGED leds
<1>1. /\ "DFLT" \in LayerId /\ "R" \in LayerId /\ "G" \in LayerId /\ "B" \in LayerId
      /\ TRUE \in BOOLEAN /\ FALSE \in BOOLEAN
  BY DEF LayerId
<1>2. \A s : ShowDefault(s) => leds' \in Leds
  BY <1>1, ShownIsTyped, LitIsBank, Zenon DEF ShowDefault
<1>3. \A s : ShowR(s) => leds' \in Leds
  BY <1>1, ShownIsTyped, LitIsBank, Zenon DEF ShowR
<1>4. \A s, lengths : ShowG(s, lengths) => leds' \in Leds
  BY <1>1, ShownIsTyped, LitIsBank, Zenon DEF ShowG
<1>5. \A s, lengths : ShowB(s, lengths) => leds' \in Leds \/ UNCHANGED leds
  BY <1>1, ShownIsTyped, LitIsBank, Zenon DEF ShowB
<1> QED BY <1>2, <1>3, <1>4, <1>5

\* SwitchToLayer shows the layer it enters.
LEMMA SwitchInv ==
  ASSUME Inv, NEW l \in LayerId, SwitchToLayer(l), ~Prog(current_layer)
  PROVE  Inv'
<1>1. ~r.prog /\ ~g.prog /\ ~b.prog BY NoneProgs
<1>2. ~r'.prog /\ ~g'.prog /\ ~b'.prog BY <1>1 DEF SwitchToLayer
<1>4. TypeOK'
  <2>1. TypeOK BY DEF Inv
  <2>2. leds' \in Leds
    <3>1. /\ r.prog \in BOOLEAN /\ g.prog \in BOOLEAN /\ b.prog \in BOOLEAN
          /\ leds \in Leds
      BY <2>1 DEF TypeOK
    <3>2. "R" \in LayerId /\ "G" \in LayerId /\ "B" \in LayerId BY DEF LayerId
    <3> QED BY <3>1, <3>2, ShownIsTyped, DrawnIsTyped, LitIsBank, Zenon
            DEF SwitchToLayer
  <2>3. err' \in {"OFF", "ON", "PULSE"} /\ status' \in BOOLEAN
    BY <2>1 DEF SwitchToLayer, TypeOK, Succeed, Fail
  <2> QED BY <2>1, <2>2, <2>3 DEF TypeOK, SwitchToLayer, stored
<1>5. OnlyCurrentLayerProgs' BY <1>2 DEF OnlyCurrentLayerProgs, Prog
<1>6. ProgCharacterIsStored' BY <1>2 DEF ProgCharacterIsStored
<1>7. LedsShowState'
  BY <1>1, <1>2
  DEF SwitchToLayer, LedsShowState, NoSuchBlob, ShowsDefault, ShowsLayerR,
      ShowsLayerG, ShowsLayerB, Shows, ShowDefault, UpdateLedState, stored
<1> QED BY <1>4, <1>5, <1>6, <1>7 DEF Inv

\* DefaultLayer::HandleEvent.
LEMMA DefaultLayerInv ==
  ASSUME Inv, NEW k \in Keypress, DefaultLayerHandleEvent(k)
  PROVE  Inv'
<1>1. CASE k = "XYZ"
  BY <1>1, SwitchInv DEF DefaultLayerHandleEvent, Prog, LayerId
<1>2. CASE k # "XYZ"
  <2>1. TypeOK /\ current_layer = "DFLT" BY DEF Inv, DefaultLayerHandleEvent
  <2>2. /\ dflt' \in [bank0 : Uint8, bank1 : Uint8]
        /\ ShowDefault(dflt')
        /\ UNCHANGED <<current_layer, r, g, b, stored>>
        /\ err' \in {"OFF", "ON", "PULSE"} /\ status' \in BOOLEAN
    BY <1>2, <2>1, EditsAreTyped
    DEF DefaultLayerHandleEvent, SendToHost, Succeed, TypeOK
  <2>3. TypeOK'
    <3>1. leds' \in Leds
      BY <2>2, DrawnIsTyped
    <3> QED BY <2>1, <2>2, <3>1 DEF TypeOK, stored
  <2>4. OnlyCurrentLayerProgs' /\ ProgCharacterIsStored'
    BY <2>2 DEF Inv, OnlyCurrentLayerProgs, ProgCharacterIsStored, Prog, stored
  <2>5. LedsShowState'
    BY <2>1, <2>2
       DEF LedsShowState, ShowsDefault, Shows, ShowDefault, UpdateLedState
  <2> QED BY <2>3, <2>4, <2>5 DEF Inv
<1> QED BY <1>1, <1>2

\* LayerR::HandleEvent: the reread makes the copy of the character current.
LEMMA LayerRInv ==
  ASSUME Inv, NEW k \in Keypress, LayerRHandleEvent(k)
  PROVE  Inv'
<1>1. CASE k = "XYZ" /\ ~r.prog
  BY <1>1, SwitchInv DEF LayerRHandleEvent, Prog, LayerId
<1>2. CASE ~(k = "XYZ" /\ ~r.prog)
  <2> DEFINE e == LayerREdit(k)
  <2>1. TypeOK /\ current_layer = "R" BY DEF Inv, LayerRHandleEvent
  <2>2. /\ LayerRCall(k)
        /\ r' = LayerRReread(e, chars')
        /\ ShowR(LayerRReread(e, chars'))
        /\ UNCHANGED <<current_layer, dflt, g, b, wordLength, blobLength>>
    BY <1>2 DEF LayerRHandleEvent
  <2>3. /\ chars' \in [Uint8 -> Uint8]
        /\ err' \in {"OFF", "ON", "PULSE"} /\ status' \in BOOLEAN
    <3>1. Inc(r.cur) \in Uint8 BY <2>1, IncIsUint8 DEF TypeOK
    <3>2. \A c \in Uint8 : [chars EXCEPT ![r.id] = c] \in [Uint8 -> Uint8]
      BY <2>1 DEF TypeOK
    <3>3. chars' \in [Uint8 -> Uint8]
      <4>1. \/ chars' = chars
            \/ chars' = [chars EXCEPT ![r.id] = Inc(r.cur)]
            \/ chars' = [chars EXCEPT ![r.id] = 0]
        BY <2>2, Zenon DEF LayerRCall
      <4>2. chars \in [Uint8 -> Uint8] BY <2>1 DEF TypeOK
      <4> QED BY <3>1, <3>2, <4>1, <4>2, ZeroIsUint8, Zenon
    <3>4. err' \in {"OFF", "ON", "PULSE"} /\ status' \in BOOLEAN
      BY <2>1, <2>2 DEF LayerRCall, SendToHost, Succeed, TypeOK
    <3> QED BY <3>3, <3>4
  <2>4. e \in [id : Uint8, mod : Uint8, cur : Uint8, prog : BOOLEAN]
    BY <2>1, EditsAreTyped DEF RRecord
  <2> HIDE DEF e
  <2>5. /\ r' \in [id : Uint8, mod : Uint8, cur : Uint8, prog : BOOLEAN]
        /\ r'.prog => r'.cur = chars'[r'.id]
    BY <2>2, <2>3, <2>4 DEF LayerRReread
  <2>6. TypeOK'
    <3>1. ShowR(r') BY <2>2
    <3>2. leds' \in Leds
      BY <3>1, DrawnIsTyped
    <3> QED BY <2>1, <2>2, <2>3, <2>5, <3>2 DEF TypeOK
  <2>7. OnlyCurrentLayerProgs'
    BY <2>1, <2>2 DEF Inv, OnlyCurrentLayerProgs, Prog
  <2>8. ProgCharacterIsStored' BY <2>5 DEF ProgCharacterIsStored
  <2>9. LedsShowState'
    <3>1. ShowR(r') BY <2>2
    <3> QED BY <2>1, <2>2, <2>5, <3>1
            DEF LedsShowState, ShowsLayerR, Shows, ShowR, UpdateLedState
  <2> QED BY <2>6, <2>7, <2>8, <2>9 DEF Inv
<1> QED BY <1>1, <1>2

\* LayerG::HandleEvent: an event that fails changes nothing the LEDs show.
LEMMA LayerGInv ==
  ASSUME Inv, NEW k \in Keypress, LayerGHandleEvent(k)
  PROVE  Inv'
<1>1. CASE k = "XYZ" /\ ~g.prog
  BY <1>1, SwitchInv DEF LayerGHandleEvent, Prog, LayerId
<1>2. CASE ~(k = "XYZ" /\ ~g.prog)
  <2>1. TypeOK /\ current_layer = "G" BY DEF Inv, LayerGHandleEvent
  <2>2. /\ LayerGCall(k)
        /\ UNCHANGED <<current_layer, dflt, r, b, chars, blobLength>>
    BY <1>2 DEF LayerGHandleEvent
  <2>3. OnlyCurrentLayerProgs' /\ ProgCharacterIsStored'
    BY <2>1, <2>2 DEF Inv, OnlyCurrentLayerProgs, ProgCharacterIsStored, Prog
  <2>4. CASE Fail /\ UNCHANGED <<g, wordLength, leds>>
    <3>1. TypeOK' BY <2>1, <2>2, <2>4 DEF TypeOK, Fail
    <3>2. LedsShowState'
      BY <2>1, <2>2, <2>4
      DEF Inv, LedsShowState, NoSuchBlob, ShowsLayerG, Shows
    <3> QED BY <2>3, <3>1, <3>2 DEF Inv
  <2>5. CASE /\ g' \in [id : Uint8, key : Uint8, mod : Uint8, prog : BOOLEAN]
             /\ wordLength' \in [Uint8 -> 0..MaxWordLen]
             /\ ShowG(g', wordLength')
             /\ Succeed
    <3>1. leds' \in Leds
      BY <2>5, DrawnIsTyped
    <3>2. TypeOK' BY <2>1, <2>2, <2>5, <3>1 DEF TypeOK, Succeed
    <3>3. LedsShowState'
      BY <2>1, <2>2, <2>5
      DEF LedsShowState, ShowsLayerG, Shows, ShowG, UpdateLedState
    <3> QED BY <2>3, <3>2, <3>3 DEF Inv
  <2>6. \/ Fail /\ UNCHANGED <<g, wordLength, leds>>
        \/ /\ g' \in [id : Uint8, key : Uint8, mod : Uint8, prog : BOOLEAN]
           /\ wordLength' \in [Uint8 -> 0..MaxWordLen]
           /\ ShowG(g', wordLength')
           /\ Succeed
    <3>1. LayerGEdit(k) \in
            [id : Uint8, key : Uint8, mod : Uint8, prog : BOOLEAN]
      BY <2>1, EditsAreTyped DEF KeyedRecord
    <3>2. /\ MaxWordLen \in Nat
          /\ \A n \in 0..MaxWordLen : n # MaxWordLen => n + 1 \in 0..MaxWordLen
      BY RangeAssumption DEF Uint8
    <3>3. /\ wordLength[g.id] \in 0..MaxWordLen /\ g.id \in Uint8
          /\ wordLength[g.id] # MaxWordLen =>
               [wordLength EXCEPT ![g.id] = @ + 1] \in [Uint8 -> 0..MaxWordLen]
          /\ [wordLength EXCEPT ![g.id] = 0] \in [Uint8 -> 0..MaxWordLen]
      BY <2>1, <3>2 DEF TypeOK
    <3>4. \A s, lengths : FinishG(s, lengths) =>
            g' = s /\ wordLength' = lengths /\ ShowG(g', wordLength')
      BY Zenon DEF FinishG
    <3>5. g \in [id : Uint8, key : Uint8, mod : Uint8, prog : BOOLEAN]
          /\ wordLength \in [Uint8 -> 0..MaxWordLen]
      BY <2>1 DEF TypeOK
    <3> QED BY <2>2, <3>1, <3>3, <3>4, <3>5, Zenon DEF LayerGCall
  <2> QED BY <2>4, <2>5, <2>6
<1> QED BY <1>1, <1>2

\* LayerB::HandleEvent: only outside PROG mode can the LEDs be left behind,
\* and only for an id that has no blob.
LEMMA LayerBInv ==
  ASSUME Inv, NEW k \in Keypress, LayerBHandleEvent(k)
  PROVE  Inv'
<1>1. CASE k = "XYZ" /\ ~b.prog
  BY <1>1, SwitchInv DEF LayerBHandleEvent, Prog, LayerId
<1>2. CASE ~(k = "XYZ" /\ ~b.prog)
  <2>1. TypeOK /\ current_layer = "B" BY DEF Inv, LayerBHandleEvent
  <2>2. /\ LayerBCall(k)
        /\ b' = LayerBEdit(k)
        /\ ShowB(b', blobLength')
        /\ UNCHANGED <<current_layer, dflt, r, g, chars, wordLength>>
    BY <1>2 DEF LayerBHandleEvent
  <2>3. OnlyCurrentLayerProgs' /\ ProgCharacterIsStored'
    BY <2>1, <2>2 DEF Inv, OnlyCurrentLayerProgs, ProgCharacterIsStored, Prog
  <2>4. b' \in [id : Uint8, key : Uint8, mod : Uint8, prog : BOOLEAN]
    BY <2>1, <2>2, EditsAreTyped DEF KeyedRecord
  <2>5. blobLength' \in [BlobIds -> 0..MaxBlobLen]
    <3>1. /\ MaxBlobLen \in Nat
          /\ \A n \in 0..MaxBlobLen : n # MaxBlobLen => n + 1 \in 0..MaxBlobLen
      BY RangeAssumption DEF Uint8
    <3> QED BY <2>1, <2>2, <3>1 DEF TypeOK, LayerBCall
  <2>6. TypeOK'
    <3>1. leds \in Leds /\ err \in {"OFF", "ON", "PULSE"} BY <2>1 DEF TypeOK
    <3>2. leds' \in Leds BY <2>2, <3>1, DrawnIsTyped
    <3>3. err' \in {"OFF", "ON", "PULSE"} /\ status' \in BOOLEAN
      BY <2>2, <3>1 DEF ShowB, Succeed, Fail
    <3> QED BY <2>1, <2>2, <2>4, <2>5, <3>2, <3>3 DEF TypeOK
  <2>7. LedsShowState'
    BY <2>1, <2>2
    DEF LedsShowState, NoSuchBlob, ShowsLayerB, Shows, ShowB, UpdateLedState
  <2> QED BY <2>3, <2>6, <2>7 DEF Inv
<1> QED BY <1>1, <1>2

\* A blank threeboard.
LEMMA InitInv == Init => Inv
<1> SUFFICES ASSUME Init PROVE Inv OBVIOUS
<1>1. Lit(0) \in Bank BY LitIsBank
<1>2. TypeOK
  BY <1>1, ZeroIsUint8, RangeAssumption
     DEF Init, TypeOK, DefaultBytes, RBytes, GBytes, BBytes, LedsOff, Leds,
         LayerId, Uint8, BlobIds
<1>3. OnlyCurrentLayerProgs /\ ProgCharacterIsStored
  BY DEF Init, OnlyCurrentLayerProgs, ProgCharacterIsStored, Prog, RBytes,
         GBytes, BBytes
<1>4. LedsShowState
  BY DEF Init, LedsShowState, ShowsDefault, Shows, DefaultBytes, LedsOff
<1> QED BY <1>2, <1>3, <1>4 DEF Inv

\* One event, the end of a pulse, or a power cycle.
LEMMA NextInv == Inv /\ [Next]_vars => Inv'
<1> SUFFICES ASSUME Inv, [Next]_vars PROVE Inv' OBVIOUS
<1>1. ASSUME NEW k \in Used[current_layer], HandleEvent(k) PROVE Inv'
  <2>1. current_layer \in LayerId BY DEF Inv, TypeOK
  <2>2. k \in Keypress BY <1>1, <2>1, RangeAssumption
  <2> QED BY <1>1, <2>2, DefaultLayerInv, LayerRInv, LayerGInv, LayerBInv
          DEF HandleEvent
<1>2. CASE PulseElapses
  <2>1. UNCHANGED <<current_layer, dflt, r, g, b, chars, wordLength, blobLength,
                    leds, status>> /\ err' = "OFF"
    BY <1>2 DEF PulseElapses, layers, stored
  <2>2. TypeOK' BY <2>1 DEF Inv, TypeOK
  <2>3. OnlyCurrentLayerProgs' /\ ProgCharacterIsStored'
    BY <2>1 DEF Inv, OnlyCurrentLayerProgs, ProgCharacterIsStored, Prog
  <2>4. LedsShowState'
    BY <2>1 DEF Inv, LedsShowState, NoSuchBlob, ShowsDefault, ShowsLayerR,
                ShowsLayerG, ShowsLayerB, Shows
  <2> QED BY <2>2, <2>3, <2>4 DEF Inv
<1>3. CASE PowerCycle
  <2>1. Lit(0) \in Bank BY LitIsBank
  <2>2. LedsOff \in Leds
    BY <2>1 DEF LedsOff, Leds, LayerId
  <2>3. TypeOK'
    BY <1>3, <2>2, ZeroIsUint8
    DEF Inv, TypeOK, PowerCycle, DefaultBytes, RBytes, GBytes, BBytes, LayerId,
        stored
  <2>4. OnlyCurrentLayerProgs' /\ ProgCharacterIsStored'
    BY <1>3 DEF PowerCycle, OnlyCurrentLayerProgs, ProgCharacterIsStored, Prog,
                RBytes, GBytes, BBytes
  <2>5. LedsShowState'
    BY <1>3 DEF PowerCycle, LedsShowState, ShowsDefault, Shows, DefaultBytes,
                LedsOff
  <2> QED BY <2>3, <2>4, <2>5 DEF Inv
<1>4. CASE UNCHANGED vars
  BY <1>4 DEF Inv, TypeOK, OnlyCurrentLayerProgs, ProgCharacterIsStored, Prog,
              LedsShowState, NoSuchBlob, ShowsDefault, ShowsLayerR, ShowsLayerG,
              ShowsLayerB, Shows, vars, layers, stored
<1> QED BY <1>1, <1>2, <1>3, <1>4 DEF Next

\* The inductive invariant holds in every behaviour.
THEOREM InvHolds == Spec => []Inv
BY InitInv, NextInv, PTL DEF Spec

\* Every byte, length and LED of the layers keeps its type.
THEOREM TypeCorrect == Spec => []TypeOK
<1>1. Inv => TypeOK BY DEF Inv
<1> QED BY <1>1, InvHolds, PTL

\* No layer other than the current one is ever in PROG mode.
THEOREM OnlyCurrentLayerEverProgs == Spec => []OnlyCurrentLayerProgs
<1>1. Inv => OnlyCurrentLayerProgs BY DEF Inv
<1> QED BY <1>1, InvHolds, PTL

\* LayerR always increments the stored character.
THEOREM ProgCharacterIsAlwaysStored == Spec => []ProgCharacterIsStored
<1>1. Inv => ProgCharacterIsStored BY DEF Inv
<1> QED BY <1>1, InvHolds, PTL

\* Whatever is pressed and whatever fails, the LEDs show the state of the
\* current layer, except for a blob id that does not exist.
THEOREM LedsAlwaysShowState == Spec => []LedsShowState
<1>1. Inv => LedsShowState BY DEF Inv
<1> QED BY <1>1, InvHolds, PTL

Edit ==
  stored' # stored =>
    /\ leds.prog /\ leds.layer = current_layer /\ Prog(current_layer)
    /\ chars' # chars => current_layer = "R" /\ SelectedOnly(chars, r.id)
    /\ wordLength' # wordLength =>
         current_layer = "G" /\ SelectedOnly(wordLength, g.id)
    /\ blobLength' # blobLength =>
         current_layer = "B" /\ SelectedOnly(blobLength, b.id)

\* An event that stores a character.
LEMMA LayerREdits ==
  ASSUME Inv, NEW k \in Keypress, LayerRHandleEvent(k), stored' # stored
  PROVE  Edit
<1>1. /\ current_layer = "R" /\ r.prog
      /\ UNCHANGED <<wordLength, blobLength>>
      /\ \E c : chars' = [chars EXCEPT ![r.id] = c]
  BY DEF LayerRHandleEvent, LayerRCall, SwitchToLayer, stored
<1>2. leds.prog /\ leds.layer = "R"
  BY <1>1 DEF Inv, LedsShowState, NoSuchBlob, ShowsLayerR, Shows
<1>3. SelectedOnly(chars, r.id) BY <1>1 DEF SelectedOnly, Inv, TypeOK
<1> QED BY <1>1, <1>2, <1>3 DEF Edit, Prog

\* An event that stores or clears a word.
LEMMA LayerGEdits ==
  ASSUME Inv, NEW k \in Keypress, LayerGHandleEvent(k), stored' # stored
  PROVE  Edit
<1>1. /\ current_layer = "G" /\ UNCHANGED <<chars, blobLength>>
      /\ ~(k = "XYZ" /\ ~g.prog)
      /\ wordLength' # wordLength
  BY DEF LayerGHandleEvent, SwitchToLayer, stored
<1>2. LayerGCall(k) BY <1>1 DEF LayerGHandleEvent
<1>3. g.prog /\ \E n : wordLength' = [wordLength EXCEPT ![g.id] = n]
  BY <1>1, <1>2, Zenon DEF LayerGCall, FinishG
<1>4. leds.prog /\ leds.layer = "G"
  BY <1>1, <1>3 DEF Inv, LedsShowState, NoSuchBlob, ShowsLayerG, Shows
<1>5. SelectedOnly(wordLength, g.id) BY <1>3 DEF SelectedOnly, Inv, TypeOK
<1> QED BY <1>1, <1>3, <1>4, <1>5 DEF Edit, Prog

\* An event that stores or clears a blob.
LEMMA LayerBEdits ==
  ASSUME Inv, NEW k \in Keypress, LayerBHandleEvent(k), stored' # stored
  PROVE  Edit
<1>1. /\ current_layer = "B" /\ UNCHANGED <<chars, wordLength>>
      /\ ~(k = "XYZ" /\ ~b.prog)
      /\ blobLength' # blobLength
  BY DEF LayerBHandleEvent, SwitchToLayer, stored
<1>2. LayerBCall(k) BY <1>1 DEF LayerBHandleEvent
<1>3. b.prog /\ \E n : blobLength' = [blobLength EXCEPT ![b.id] = n]
  BY <1>1, <1>2, Zenon DEF LayerBCall
<1>4. leds.prog /\ leds.layer = "B"
  BY <1>1, <1>3 DEF Inv, LedsShowState, NoSuchBlob, ShowsLayerB, Shows
<1>5. SelectedOnly(blobLength, b.id) BY <1>3 DEF SelectedOnly, Inv, TypeOK
<1> QED BY <1>1, <1>3, <1>4, <1>5 DEF Edit, Prog

\* A stored shortcut changes only when the current layer is in PROG mode with
\* the PROG LED lit, and only the selected one changes.
THEOREM OnlyProgEdits == Spec => EditsOnlyInProg
<1>1. Inv /\ [Next]_vars => [Edit]_vars
  <2> SUFFICES ASSUME Inv, Next, stored' # stored PROVE Edit
    BY DEF Edit
  <2>1. PICK k \in Used[current_layer] : HandleEvent(k)
    BY DEF Next, PulseElapses, PowerCycle
  <2>2. k \in Keypress BY RangeAssumption DEF Inv, TypeOK
  <2>3. ~DefaultLayerHandleEvent(k)
    BY DEF DefaultLayerHandleEvent, SwitchToLayer
  <2> QED BY <2>1, <2>2, <2>3, LayerREdits, LayerGEdits, LayerBEdits
          DEF HandleEvent
<1> QED BY <1>1, InvHolds, PTL DEF Spec, EditsOnlyInProg, Edit

\* The parts of each call.
LEMMA KeyRequest ==
  \A q, x, y : q = <<"send_key", x, y>> => q[1] = "send_key" /\ q[2] = x /\ q[3] = y
OBVIOUS

\* The parts of a request to store a character.
LEMMA CharacterRequest ==
  \A q, x, y : q = <<"set_character", x, y>> =>
    q[1] = "set_character" /\ q[2] = x /\ q[3] = y
OBVIOUS

\* The parts of the requests about words.
LEMMA WordRequest ==
  /\ \A q, x, y : q = <<"append_to_word", x, y>> =>
       q[1] = "append_to_word" /\ q[2] = x /\ q[3] = y
  /\ \A q, x, y : q = <<"send_word", x, y>> =>
       q[1] = "send_word" /\ q[2] = x /\ q[3] = y
OBVIOUS

\* The parts of the requests about blobs.
LEMMA BlobRequest ==
  /\ \A q, x, y, z : q = <<"append_to_blob", x, y, z>> =>
       q[1] = "append_to_blob" /\ q[2] = x /\ q[3] = y /\ q[4] = z
  /\ \A q, x : q = <<"send_blob", x>> => q[1] = "send_blob" /\ q[2] = x
OBVIOUS

\* Calls that send and store nothing the LEDs would have to show.
LEMMA QuietRequest ==
  /\ RequestShown(NoRequest)
  /\ \A x : RequestShown(<<"clear_word", x>>)
  /\ \A x : RequestShown(<<"clear_blob", x>>)
<1>1. /\ NoRequest[1] = "none"
      /\ \A x : <<"clear_word", x>>[1] = "clear_word"
      /\ \A x : <<"clear_blob", x>>[1] = "clear_blob"
  BY DEF NoRequest
<1> QED BY <1>1, Zenon DEF RequestShown

\* The calls of the handlers, one layer at a time.
LEMMA DefaultRequests ==
  ASSUME Inv, NEW k \in Keypress, DefaultLayerHandleEvent(k)
  PROVE  RequestShown(request')
<1>1. current_layer = "DFLT" /\ ShowsDefault
  BY DEF Inv, DefaultLayerHandleEvent, LedsShowState, NoSuchBlob
<1>2. request' = NoRequest \/ request' = <<"send_key", dflt.bank0, dflt.bank1>>
  BY DEF DefaultLayerHandleEvent, SwitchToLayer, SendToHost
<1>3. CASE request' = <<"send_key", dflt.bank0, dflt.bank1>>
  BY <1>1, <1>3, KeyRequest, Zenon DEF RequestShown, ShowsDefault
<1> QED BY <1>2, <1>3, QuietRequest

\* LayerR sends and stores the character its id stands for.
LEMMA LayerRRequests ==
  ASSUME Inv, NEW k \in Keypress, LayerRHandleEvent(k)
  PROVE  RequestShown(request')
<1>1. current_layer = "R" /\ ShowsLayerR /\ r.id \in Uint8
  BY DEF Inv, TypeOK, LayerRHandleEvent, LedsShowState, NoSuchBlob
<1>2. r.prog => r.cur = chars[r.id] BY DEF Inv, ProgCharacterIsStored
<1>3. \/ request' = NoRequest
      \/ ~r.prog /\ request' = <<"send_key", chars[r.id], r.mod>>
      \/ /\ r.prog
         /\ \E c \in {0, Inc(r.cur)} : request' = <<"set_character", r.id, c>>
  BY DEF LayerRHandleEvent, LayerRCall, SwitchToLayer, SendToHost
<1>4. CASE ~r.prog /\ request' = <<"send_key", chars[r.id], r.mod>>
  <2>1. Shows("R", FALSE, Lit(r.id), Lit(r.mod)) BY <1>1, <1>4 DEF ShowsLayerR
  <2> QED BY <1>1, <1>4, <2>1, KeyRequest, Zenon DEF RequestShown
<1>5. CASE r.prog /\ \E c \in {0, Inc(r.cur)} :
             request' = <<"set_character", r.id, c>>
  <2>1. Shows("R", TRUE, Lit(chars[r.id]), Lit(r.id))
    BY <1>1, <1>5 DEF ShowsLayerR
  <2>2. PICK c \in {0, Inc(r.cur)} : request' = <<"set_character", r.id, c>>
    BY <1>5
  <2>3. c \in {0, Inc(chars[r.id])} BY <1>2, <1>5, <2>2
  <2> QED BY <2>1, <2>2, <2>3, CharacterRequest, Zenon DEF RequestShown
<1>6. CASE request' = NoRequest BY <1>6, QuietRequest
<1> QED BY <1>3, <1>4, <1>5, <1>6

\* LayerG appends the keycode and sends the word its LEDs show.
LEMMA LayerGRequests ==
  ASSUME Inv, NEW k \in Keypress, LayerGHandleEvent(k)
  PROVE  RequestShown(request')
<1>1. current_layer = "G" /\ ShowsLayerG
  BY DEF Inv, LayerGHandleEvent, LedsShowState, NoSuchBlob
<1>2. \/ request' = NoRequest
      \/ g.prog /\ request' = <<"append_to_word", g.id, g.key>>
      \/ ~g.prog /\ request' = <<"send_word", g.id, g.mod>>
      \/ request' = <<"clear_word", g.id>>
  BY DEF LayerGHandleEvent, LayerGCall, SwitchToLayer
<1>3. CASE g.prog /\ request' = <<"append_to_word", g.id, g.key>>
  <2>1. Shows("G", TRUE, Lit(g.key), Lit(wordLength[g.id] * LengthShift))
    BY <1>1, <1>3 DEF ShowsLayerG
  <2> QED BY <1>3, <2>1, WordRequest, Zenon DEF RequestShown
<1>4. CASE ~g.prog /\ request' = <<"send_word", g.id, g.mod>>
  <2>1. Shows("G", FALSE, Lit(g.id),
              Lit(wordLength[g.id] * LengthShift) \cup Lit(g.mod))
    BY <1>1, <1>4 DEF ShowsLayerG
  <2> QED BY <1>4, <2>1, WordRequest, Zenon DEF RequestShown
<1>5. CASE request' = NoRequest \/ request' = <<"clear_word", g.id>>
  BY <1>5, QuietRequest
<1> QED BY <1>2, <1>3, <1>4, <1>5

\* LayerB appends the keypress and sends the blob its LEDs show.
LEMMA LayerBRequests ==
  ASSUME Inv, NEW k \in Keypress, LayerBHandleEvent(k)
  PROVE  RequestShown(request')
<1>1. current_layer = "B" /\ (NoSuchBlob \/ ShowsLayerB)
  BY DEF Inv, LayerBHandleEvent, LedsShowState
<1>2. \/ request' = NoRequest
      \/ b.prog /\ request' = <<"append_to_blob", b.id, b.key, b.mod>>
      \/ ~b.prog /\ request' = <<"send_blob", b.id>>
      \/ request' = <<"clear_blob", b.id>>
  BY DEF LayerBHandleEvent, LayerBCall, SwitchToLayer
<1>3. CASE b.prog /\ request' = <<"append_to_blob", b.id, b.key, b.mod>>
  <2>1. Shows("B", TRUE, Lit(b.key), Lit(b.mod))
    BY <1>1, <1>3 DEF ShowsLayerB, NoSuchBlob
  <2> QED BY <1>3, <2>1, BlobRequest, Zenon DEF RequestShown
<1>4. CASE ~b.prog /\ request' = <<"send_blob", b.id>>
  <2>1. b.id \in BlobIds => Shows("B", FALSE, Lit(b.id), Lit(blobLength[b.id]))
    BY <1>1, <1>4 DEF ShowsLayerB, NoSuchBlob
  <2> QED BY <1>4, <2>1, BlobRequest, Zenon DEF RequestShown
<1>5. CASE request' = NoRequest \/ request' = <<"clear_blob", b.id>>
  BY <1>5, QuietRequest
<1> QED BY <1>2, <1>3, <1>4, <1>5

\* What is sent to the host and what is stored is what the LEDs showed when the
\* key was pressed.
THEOREM AlwaysSendsAndStoresWhatIsShown == Spec => SendsAndStoresWhatIsShown
<1>1. Inv /\ [Next]_vars => [RequestShown(request')]_vars
  <2> SUFFICES ASSUME Inv, Next PROVE RequestShown(request') OBVIOUS
  <2>1. ASSUME NEW k \in Used[current_layer], HandleEvent(k)
        PROVE  RequestShown(request')
    <3>1. k \in Keypress BY <2>1, RangeAssumption DEF Inv, TypeOK
    <3> QED BY <2>1, <3>1, DefaultRequests, LayerRRequests, LayerGRequests,
               LayerBRequests DEF HandleEvent
  <2>2. CASE PulseElapses \/ PowerCycle
    BY <2>2, QuietRequest DEF PulseElapses, PowerCycle
  <2> QED BY <2>1, <2>2 DEF Next
<1> QED BY <1>1, InvHolds, PTL DEF Spec, SendsAndStoresWhatIsShown

-----------------------------------------------------------------------------
(***************************************************************************)
(* The device and the model of its property test.                          *)
(***************************************************************************)
\* The characters of a word and of a blob.
WordChars(word) == [j \in DOMAIN word |-> Model!Char(word[j], 0)]
BlobChars(blob) == [j \in DOMAIN blob |-> Model!Char(blob[j][1], blob[j][2])]

WordShortcuts(w) == [i \in Uint8 |-> WordChars(w[i])]

\* The model, from the state of the device and what was typed last; its blobs are
\* its own.
ModelOf(output) ==
  [layer |-> current_layer,
   dflt |-> dflt,
   r |-> [id |-> r.id, mod |-> r.mod, prog |-> r.prog, shortcuts |-> chars],
   g |-> [id |-> g.id, mod |-> g.mod, key |-> g.key, prog |-> g.prog,
          shortcuts |-> WordShortcuts(words)],
   b |-> [id |-> b.id, mod |-> b.mod, key |-> b.key, prog |-> b.prog,
          shortcuts |-> model.b.shortcuts],
   usb_buffer |-> output]

ShortcutsTyped ==
  /\ words \in [Uint8 -> Seq(Uint8)]
  /\ blobs \in [BlobIds -> Seq(Uint8 \X Uint8)]
  /\ \A i \in Uint8 : Len(words[i]) = wordLength[i]
  /\ \A i \in BlobIds : Len(blobs[i]) = blobLength[i]

\* The blobs of EEPROM_0 are those of the model; none is ever stored in EEPROM_1.
IsShortcutOf(own, w) ==
  /\ own = [i \in BlobIds |-> own[i]]
  /\ \A i \in BlobIds : ~OnEeprom1(i) => own[i] = BlobChars(w[i])
  /\ \A i \in BlobIds : OnEeprom1(i) => w[i] = <<>>

BlobsMatch == IsShortcutOf(model.b.shortcuts, blobs)

OutputMatches ==
  usb_buffer # model.usb_buffer =>
    AppendRefused \/ ShiftsNonLetter \/ BlobIsLost

TestInv ==
  /\ Inv
  /\ ShortcutsTyped
  /\ BlobsMatch
  /\ b.id \in 0..MaxId["B"]
  /\ model = ModelOf(model.usb_buffer)
  /\ OutputMatches

\* The last output of the model is gone when the next keypress is applied.
LEMMA ApplyIsOfState ==
  ASSUME TestInv, NEW k \in Keypress
  PROVE  LET m == ModelOf(<<>>) IN
         /\ current_layer = "DFLT" => Model!Apply(model, k) = Model!ApplyDefault(m, k)
         /\ current_layer = "R" =>
              Model!Apply(model, k) = IF r.prog THEN Model!ApplyRInProg(m, k)
                                                ELSE Model!ApplyR(m, k)
         /\ current_layer = "G" =>
              Model!Apply(model, k) = IF g.prog THEN Model!ApplyGInProg(m, k)
                                                ELSE Model!ApplyG(m, k)
         /\ current_layer = "B" =>
              Model!Apply(model, k) = IF b.prog THEN Model!ApplyBInProg(m, k)
                                                ELSE Model!ApplyB(m, k)
<1> DEFINE m == ModelOf(<<>>)
<1>1. [model EXCEPT !.usb_buffer = <<>>] = m
  BY DEF TestInv, ModelOf
<1>2. /\ m.layer = current_layer /\ m.r.prog = r.prog /\ m.g.prog = g.prog
      /\ m.b.prog = b.prog
  BY DEF ModelOf
<1>3. r.prog \in BOOLEAN /\ g.prog \in BOOLEAN /\ b.prog \in BOOLEAN
  BY DEF TestInv, Inv, TypeOK
<1> HIDE DEF m
<1>4. \A n : n = m => 
         /\ current_layer = "DFLT" => Model!Apply(model, k) = Model!ApplyDefault(m, k)
         /\ current_layer = "R" =>
              Model!Apply(model, k) = IF r.prog THEN Model!ApplyRInProg(m, k)
                                                ELSE Model!ApplyR(m, k)
         /\ current_layer = "G" =>
              Model!Apply(model, k) = IF g.prog THEN Model!ApplyGInProg(m, k)
                                                ELSE Model!ApplyG(m, k)
         /\ current_layer = "B" =>
              Model!Apply(model, k) = IF b.prog THEN Model!ApplyBInProg(m, k)
                                                ELSE Model!ApplyB(m, k)
  BY <1>1, <1>2, <1>3 DEF Model!Apply
<1>5. QED
  BY <1>4 DEF m


\* The lengths of shortcuts are numbers.
LEMMA RangeIsNat == Uint8 \subseteq Nat /\ BlobIds \subseteq Uint8
BY RangeAssumption DEF Uint8, BlobIds

\* What the layers do to the lengths tells what they do to the shortcuts.
LEMMA WordsFollowLengths ==
  ASSUME TestInv, StoreContents
  PROVE  /\ UNCHANGED wordLength => UNCHANGED words
         /\ \A id \in Uint8 :
              wordLength' = [wordLength EXCEPT ![id] = @ + 1] =>
                words' = [words EXCEPT ![id] = Append(@, request'[3])]
         /\ \A id \in Uint8 :
              wordLength' = [wordLength EXCEPT ![id] = 0] =>
                words' = [words EXCEPT ![id] = <<>>]
<1>1. /\ wordLength \in [Uint8 -> 0..MaxWordLen] /\ words \in [Uint8 -> Seq(Uint8)]
      /\ \A i \in Uint8 : wordLength[i] \in Nat
      /\ \A i \in Uint8 : words[i] \in Seq(Uint8) /\ Len(words[i]) = wordLength[i]
  <2>1. wordLength \in [Uint8 -> 0..MaxWordLen] /\ MaxWordLen \in Nat
    BY RangeAssumption, RangeIsNat DEF TestInv, Inv, TypeOK
  <2>2. \A i \in Uint8 : wordLength[i] \in Nat
    BY <2>1
  <2>3. QED
    BY <2>1, <2>2 DEF TestInv, ShortcutsTyped
<1>2. words' = [i \in Uint8 |-> words'[i]]
  BY DEF StoreContents
<1>3. \A i \in Uint8 :
        /\ wordLength'[i] = wordLength[i] => words'[i] = words[i]
        /\ wordLength'[i] # wordLength[i] /\ wordLength'[i] = 0 => words'[i] = <<>>
        /\ wordLength'[i] # wordLength[i] /\ wordLength'[i] # 0 =>
             words'[i] = Append(words[i], request'[3])
  BY Zenon DEF StoreContents
<1>4. UNCHANGED wordLength => UNCHANGED words
  BY <1>1, <1>2, <1>3
<1>5. ASSUME NEW id \in Uint8, wordLength' = [wordLength EXCEPT ![id] = @ + 1]
      PROVE  words' = [words EXCEPT ![id] = Append(@, request'[3])]
  <2>1. words'[id] = Append(words[id], request'[3])
    <3>1. wordLength'[id] = wordLength[id] + 1 /\ wordLength[id] \in Nat
      BY <1>1, <1>5
    <3>2. wordLength'[id] # wordLength[id] /\ wordLength'[id] # 0
      BY <3>1
    <3>3. QED
      BY <1>3, <3>2
  <2>2. \A i \in Uint8 \ {id} : words'[i] = words[i]
    BY <1>1, <1>3, <1>5
  <2>3. QED
    BY <1>1, <1>2, <2>1, <2>2
<1>6. ASSUME NEW id \in Uint8, wordLength' = [wordLength EXCEPT ![id] = 0]
      PROVE  words' = [words EXCEPT ![id] = <<>>]
  <2>1. words'[id] = <<>>
    <3>1. wordLength'[id] = 0
      BY <1>1, <1>6
    <3>2. wordLength[id] = 0 => words[id] = <<>>
      BY <1>1
    <3>3. QED
      BY <1>3, <3>1, <3>2
  <2>2. \A i \in Uint8 \ {id} : words'[i] = words[i]
    BY <1>1, <1>3, <1>6
  <2>3. QED
    BY <1>1, <1>2, <2>1, <2>2
<1>7. QED
  BY <1>4, <1>5, <1>6

LEMMA BlobsFollowLengths ==
  ASSUME TestInv, StoreContents
  PROVE  /\ UNCHANGED blobLength => UNCHANGED blobs
         /\ \A id \in BlobIds :
              blobLength' = [blobLength EXCEPT ![id] = @ + 1] =>
                blobs' = [blobs EXCEPT
                            ![id] = Append(@, <<request'[3], request'[4]>>)]
         /\ \A id \in BlobIds :
              blobLength' = [blobLength EXCEPT ![id] = 0] =>
                blobs' = [blobs EXCEPT ![id] = <<>>]
<1>1. /\ blobLength \in [BlobIds -> 0..MaxBlobLen]
      /\ blobs \in [BlobIds -> Seq(Uint8 \X Uint8)]
      /\ \A i \in BlobIds : blobLength[i] \in Nat
      /\ \A i \in BlobIds :
           blobs[i] \in Seq(Uint8 \X Uint8) /\ Len(blobs[i]) = blobLength[i]
  <2>1. blobLength \in [BlobIds -> 0..MaxBlobLen] /\ MaxBlobLen \in Nat
    BY RangeAssumption, RangeIsNat DEF TestInv, Inv, TypeOK
  <2>2. \A i \in BlobIds : blobLength[i] \in Nat
    BY <2>1
  <2>3. QED
    BY <2>1, <2>2 DEF TestInv, ShortcutsTyped
<1>2. blobs' = [i \in BlobIds |-> blobs'[i]]
  BY DEF StoreContents
<1>3. \A i \in BlobIds :
        /\ blobLength'[i] = blobLength[i] => blobs'[i] = blobs[i]
        /\ blobLength'[i] # blobLength[i] /\ blobLength'[i] = 0 => blobs'[i] = <<>>
        /\ blobLength'[i] # blobLength[i] /\ blobLength'[i] # 0 =>
             blobs'[i] = Append(blobs[i], <<request'[3], request'[4]>>)
  BY Zenon DEF StoreContents
<1>4. UNCHANGED blobLength => UNCHANGED blobs
  BY <1>1, <1>2, <1>3
<1>5. ASSUME NEW id \in BlobIds, blobLength' = [blobLength EXCEPT ![id] = @ + 1]
      PROVE  blobs' = [blobs EXCEPT
                         ![id] = Append(@, <<request'[3], request'[4]>>)]
  <2>1. blobs'[id] = Append(blobs[id], <<request'[3], request'[4]>>)
    <3>1. blobLength'[id] = blobLength[id] + 1 /\ blobLength[id] \in Nat
      BY <1>1, <1>5
    <3>2. blobLength'[id] # blobLength[id] /\ blobLength'[id] # 0
      BY <3>1
    <3>3. QED
      BY <1>3, <3>2
  <2>2. \A i \in BlobIds \ {id} : blobs'[i] = blobs[i]
    BY <1>1, <1>3, <1>5
  <2>3. QED
    BY <1>1, <1>2, <2>1, <2>2
<1>6. ASSUME NEW id \in BlobIds, blobLength' = [blobLength EXCEPT ![id] = 0]
      PROVE  blobs' = [blobs EXCEPT ![id] = <<>>]
  <2>1. blobs'[id] = <<>>
    <3>1. blobLength'[id] = 0
      BY <1>1, <1>6
    <3>2. blobLength[id] = 0 => blobs[id] = <<>>
      BY <1>1
    <3>3. QED
      BY <1>3, <3>1, <3>2
  <2>2. \A i \in BlobIds \ {id} : blobs'[i] = blobs[i]
    BY <1>1, <1>3, <1>6
  <2>3. QED
    BY <1>1, <1>2, <2>1, <2>2
<1>7. QED
  BY <1>4, <1>5, <1>6

\* One more key, one more character.
LEMMA CharactersFollowKeys ==
  /\ \A w, key : w \in Seq(Uint8) /\ key \in Uint8 =>
       WordChars(Append(w, key)) = Append(WordChars(w), Model!Char(key, 0))
  /\ \A w, key, mod : w \in Seq(Uint8 \X Uint8) /\ key \in Uint8 /\ mod \in Uint8 =>
       BlobChars(Append(w, <<key, mod>>))
         = Append(BlobChars(w), Model!Char(key, mod))
  /\ WordChars(<<>>) = <<>> /\ BlobChars(<<>>) = <<>>
<1>1. ASSUME NEW w \in Seq(Uint8), NEW key \in Uint8
      PROVE  WordChars(Append(w, key)) = Append(WordChars(w), Model!Char(key, 0))
  BY DEF WordChars
<1>2. ASSUME NEW w \in Seq(Uint8 \X Uint8), NEW key \in Uint8, NEW mod \in Uint8
      PROVE  BlobChars(Append(w, <<key, mod>>))
               = Append(BlobChars(w), Model!Char(key, mod))
  BY DEF BlobChars
<1>3. WordChars(<<>>) = <<>> /\ BlobChars(<<>>) = <<>>
  BY DEF WordChars, BlobChars
<1>4. QED
  BY <1>1, <1>2, <1>3

\* What the device types in the calls the layers make.
LEMMA OutputOfCalls ==
  ASSUME TestInv
  PROVE  /\ \A q : q[1] \notin {"send_key", "send_word", "send_blob"} =>
              Output(q) = <<>>
         /\ \A key, mod : Output(<<"send_key", key, mod>>)
                            = Model!PrintableOf(<<Model!Char(key, mod)>>)
         /\ \A id \in BlobIds : ~OnEeprom1(id) =>
              Output(<<"send_blob", id>>) = Model!PrintableOf(BlobChars(blobs[id]))
<1>1. ASSUME NEW q, q[1] \notin {"send_key", "send_word", "send_blob"}
      PROVE  Output(q) = <<>>
  BY <1>1, Zenon DEF Output
<1>2. ASSUME NEW key, NEW mod
      PROVE  Output(<<"send_key", key, mod>>)
               = Model!PrintableOf(<<Model!Char(key, mod)>>)
  <2> DEFINE q == <<"send_key", key, mod>>
             keys == <<<<Keycode[key], mod>>>>
  <2>1. q[1] = "send_key" /\ q[2] = key /\ q[3] = mod
    OBVIOUS
  <2>2. Output(q) = Typed(<<<<Keycode[q[2]], q[3]>>>>)
    BY <2>1 DEF Output
  <2>3. [j \in DOMAIN keys |-> Model!FromUsbKeycodes(keys[j][1], keys[j][2])]
          = <<Model!FromUsbKeycodes(Keycode[key], mod)>>
    OBVIOUS
  <2>4. QED
    BY <2>1, <2>2, <2>3 DEF Typed, Model!Char
<1>3. ASSUME NEW id \in BlobIds, ~OnEeprom1(id)
      PROVE  Output(<<"send_blob", id>>) = Model!PrintableOf(BlobChars(blobs[id]))
  <2> DEFINE q == <<"send_blob", id>>
             blob == blobs[id]
             keys == [j \in DOMAIN blob |-> <<Keycode[blob[j][1]], blob[j][2]>>]
  <2>1. q[1] = "send_blob" /\ q[2] = id
    OBVIOUS
  <2>2. Output(q) = Typed(keys)
    BY <1>3, <2>1, Zenon DEF Output
  <2>3. [j \in DOMAIN keys |-> Model!FromUsbKeycodes(keys[j][1], keys[j][2])]
          = BlobChars(blob)
    BY DEF BlobChars, Model!Char
  <2>4. QED
    BY <2>2, <2>3 DEF Typed
<1>4. QED
  BY <1>1, <1>2, <1>3

\* The default layer.
LEMMA DefaultMatches ==
  ASSUME TestInv, NEW k \in Keypress, ApplyKeypress(k), current_layer = "DFLT",
         k # "XYZ"
  PROVE  model' = ModelOf(model.usb_buffer)' /\ usb_buffer' = model'.usb_buffer
<1> DEFINE m == ModelOf(<<>>)
<1>1. model' = Model!ApplyDefault(m, k)
  BY ApplyIsOfState DEF ApplyKeypress
<1>2. DefaultLayerHandleEvent(k)
  BY DEF ApplyKeypress, HandleEvent, DefaultLayerHandleEvent, LayerRHandleEvent,
         LayerGHandleEvent, LayerBHandleEvent
<1>3. /\ dflt' = DefaultLayerEdit(k) /\ dflt \in [bank0 : Uint8, bank1 : Uint8]
      /\ UNCHANGED <<current_layer, r, g, b, chars, wordLength, blobLength>>
      /\ request' = IF k = "Z" THEN <<"send_key", dflt.bank0, dflt.bank1>>
                               ELSE NoRequest
  BY <1>2 DEF DefaultLayerHandleEvent, SendToHost, TestInv, Inv, TypeOK, stored
<1>4. UNCHANGED <<words, blobs>> /\ usb_buffer' = Output(request')
  BY <1>3, WordsFollowLengths, BlobsFollowLengths DEF ApplyKeypress
<1>5. model' = ModelOf(model.usb_buffer)'
  BY <1>1, <1>3, <1>4
  DEF ModelOf, Model!ApplyDefault, Model!Type, Model!Inc, Inc, DefaultLayerEdit,
      Keypress
<1>6. CASE k = "Z"
  <2>1. m.dflt = dflt
    BY DEF ModelOf
  <2>2. model' = Model!Type(m, <<Model!Char(dflt.bank0, dflt.bank1)>>)
    BY <1>1, <1>6, <2>1 DEF Model!ApplyDefault
  <2>3. model'.usb_buffer = Model!PrintableOf(<<Model!Char(dflt.bank0, dflt.bank1)>>)
    BY <2>2 DEF Model!Type, ModelOf
  <2>4. QED
    BY <1>3, <1>4, <1>5, <1>6, <2>3, OutputOfCalls
<1>7. CASE k # "Z"
  <2>1. model'.usb_buffer = <<>>
    BY <1>1, <1>7 DEF Model!ApplyDefault, ModelOf, Keypress
  <2>2. request'[1] = "none"
    BY <1>3, <1>7 DEF NoRequest
  <2>3. QED
    BY <1>4, <1>5, <2>1, <2>2, OutputOfCalls
<1>8. QED
  BY <1>6, <1>7

\* Layer R: what it programs is the stored character, as in the model.
LEMMA LayerRMatches ==
  ASSUME TestInv, NEW k \in Keypress, ApplyKeypress(k), current_layer = "R",
         ~(k = "XYZ" /\ ~r.prog)
  PROVE  model' = ModelOf(model.usb_buffer)' /\ usb_buffer' = model'.usb_buffer
<1> DEFINE m == ModelOf(<<>>)
<1>1. model' = IF r.prog THEN Model!ApplyRInProg(m, k) ELSE Model!ApplyR(m, k)
  BY ApplyIsOfState DEF ApplyKeypress
<1>2. LayerRHandleEvent(k)
  BY DEF ApplyKeypress, HandleEvent, DefaultLayerHandleEvent, LayerRHandleEvent,
     LayerGHandleEvent, LayerBHandleEvent
<1>3. /\ LayerRCall(k) /\ r' = LayerRReread(LayerREdit(k), chars')
      /\ UNCHANGED <<current_layer, dflt, g, b, wordLength, blobLength>>
  BY <1>2, Zenon DEF LayerRHandleEvent
<1>4. UNCHANGED <<words, blobs>> /\ usb_buffer' = Output(request')
  BY <1>3, WordsFollowLengths, BlobsFollowLengths DEF ApplyKeypress
<1>5. /\ r \in RRecord /\ (r.prog => r.cur = chars[r.id])
      /\ chars \in [Uint8 -> Uint8]
  BY DEF TestInv, Inv, TypeOK, RRecord, ProgCharacterIsStored
<1>6. /\ r'.id = LayerREdit(k).id /\ r'.mod = LayerREdit(k).mod
      /\ r'.prog = LayerREdit(k).prog
  <2>1. LayerREdit(k) \in RRecord
    BY EditsAreTyped DEF TestInv, Inv
  <2>2. QED
    BY <1>3, <2>1 DEF LayerRReread, RRecord
<1>7. CASE r.prog
  <2>1. /\ chars' = CASE k = "X"  -> [chars EXCEPT ![r.id] = Inc(@)]
                      [] k = "XZ" -> [chars EXCEPT ![r.id] = 0]
                      [] OTHER    -> chars
        /\ request'[1] \in {"set_character", "none"}
    BY <1>3, <1>5, <1>7 DEF LayerRCall, NoRequest, RRecord
  <2>2. /\ LayerREdit(k).id = CASE k = "Y"  -> Inc(r.id)
                                [] k = "YZ" -> 0
                                [] OTHER    -> r.id
        /\ LayerREdit(k).mod = r.mod
        /\ LayerREdit(k).prog = (k # "XYZ")
    BY <1>5, <1>7 DEF LayerREdit, RRecord, Keypress
  <2>3. model' = ModelOf(<<>>)'
    <3>1. model' = Model!ApplyRInProg(m, k)
      BY <1>1, <1>7
    <3>2. CASE k = "X"
      BY <1>3, <1>4, <1>6, <1>7, <2>1, <2>2, <3>1, <3>2
      DEF ModelOf, Model!ApplyRInProg, Model!Inc, Inc
    <3>3. CASE k = "XZ"
      BY <1>3, <1>4, <1>6, <1>7, <2>1, <2>2, <3>1, <3>3
      DEF ModelOf, Model!ApplyRInProg
    <3>4. CASE k \notin {"X", "XZ"}
      BY <1>3, <1>4, <1>6, <1>7, <2>1, <2>2, <3>1, <3>4, ZenonT(60)
      DEF ModelOf, Model!ApplyRInProg, Model!Inc, Inc, Keypress
    <3>5. QED
      BY <3>2, <3>3, <3>4
  <2>4. QED
    BY <1>4, <2>1, <2>3, OutputOfCalls DEF ModelOf
<1>8. CASE ~r.prog
  <2>1. /\ chars' = chars
        /\ request' = IF k = "Z" THEN <<"send_key", chars[r.id], r.mod>>
                                 ELSE NoRequest
    BY <1>3, <1>8 DEF LayerRCall, SendToHost
  <2>2. model' = ModelOf(model.usb_buffer)'
    <3>1. /\ LayerREdit(k).id = CASE k = "X"  -> Inc(r.id)
                                  [] k = "XZ" -> 0
                                  [] OTHER    -> r.id
          /\ LayerREdit(k).mod = CASE k = "Y"  -> Inc(r.mod)
                                   [] k = "YZ" -> 0
                                   [] OTHER    -> r.mod
          /\ LayerREdit(k).prog = (k = "XY")
      BY <1>5, <1>8 DEF LayerREdit, RRecord, Keypress
    <3>2. model' = Model!ApplyR(m, k) /\ r.prog = FALSE
      BY <1>1, <1>5, <1>8 DEF RRecord
    <3>3. CASE k \in {"X", "Y"}
      BY <1>3, <1>4, <1>6, <1>8, <2>1, <3>1, <3>2, <3>3, ZenonT(60)
      DEF ModelOf, Model!ApplyR, Model!Inc, Inc
    <3>4. CASE k = "Z"
      BY <1>3, <1>4, <1>6, <1>8, <2>1, <3>1, <3>2, <3>4, ZenonT(60)
      DEF ModelOf, Model!ApplyR, Model!Type
    <3>5. CASE k \notin {"X", "Y", "Z"}
      BY <1>3, <1>4, <1>6, <1>8, <2>1, <3>1, <3>2, <3>5, ZenonT(60)
      DEF ModelOf, Model!ApplyR, Keypress
    <3>6. QED
      BY <3>3, <3>4, <3>5
  <2>3. CASE k = "Z"
    <3>1. m.r.shortcuts[m.r.id] = chars[r.id] /\ m.r.mod = r.mod
      BY DEF ModelOf
    <3>2. model' = Model!Type(m, <<Model!Char(chars[r.id], r.mod)>>)
      BY <1>1, <1>8, <2>3, <3>1 DEF Model!ApplyR
    <3>3. model'.usb_buffer = Model!PrintableOf(<<Model!Char(chars[r.id], r.mod)>>)
      BY <3>2 DEF Model!Type, ModelOf
    <3>4. QED
      BY <1>4, <2>1, <2>2, <2>3, <3>3, OutputOfCalls
  <2>4. CASE k # "Z"
    <3>1. model'.usb_buffer = <<>>
      BY <1>1, <1>8, <2>4 DEF Model!ApplyR, ModelOf, Keypress
    <3>2. request'[1] = "none"
      BY <2>1, <2>4 DEF NoRequest
    <3>3. QED
      BY <1>4, <2>2, <3>1, <3>2, OutputOfCalls
  <2>5. QED
    BY <2>3, <2>4
<1>9. QED
  BY <1>5, <1>7, <1>8 DEF RRecord

\* Entering a layer.
LEMMA SwitchMatches ==
  ASSUME TestInv, NEW l \in LayerId, SwitchToLayer(l), StoreContents,
         usb_buffer' = Output(request'), model' = [ModelOf(<<>>) EXCEPT !.layer = l]
  PROVE  model' = ModelOf(model.usb_buffer)' /\ usb_buffer' = model'.usb_buffer
<1>1. /\ current_layer' = l /\ request'[1] = "none"
      /\ UNCHANGED <<dflt, r, g, b, chars, wordLength, blobLength>>
  BY DEF SwitchToLayer, NoRequest, stored
<1>2. UNCHANGED <<words, blobs>>
  BY <1>1, WordsFollowLengths, BlobsFollowLengths
<1>3. model' = ModelOf(<<>>)'
  BY <1>1, <1>2 DEF ModelOf
<1>4. QED
  BY <1>1, <1>3, OutputOfCalls DEF ModelOf

\* Shift types the capital of a letter, and nothing for a key without a
\* character.
LEMMA ShiftIsToupper ==
  ASSUME NEW code \in 0..255,
         Model!FromUsbKeycodes(code, 0) \notin Model!Printable \ Model!Lower
  PROVE  Model!FromUsbKeycodes(code, 2) = Model!toupper(Model!FromUsbKeycodes(code, 0))
<1>1. (0 \div 2) % 2 = 0 /\ (2 \div 2) % 2 = 1
  OBVIOUS
<1>2. CASE code \in 4..29
  BY <1>1, <1>2
     DEF Model!FromUsbKeycodes, Model!Shift, Model!toupper, Model!Lower
<1>3. CASE code \in 30..39
  <2>1. Model!FromUsbKeycodes(code, 0) \in 48..57
    BY <1>1, <1>3 DEF Model!FromUsbKeycodes, Model!Shift
  <2>2. QED
    BY <2>1 DEF Model!Printable, Model!Lower
<1>4. CASE code \in {44, 45, 46, 54, 55}
  <2>1. Model!FromUsbKeycodes(code, 0) \in {32, 45, 61, 44, 46}
    BY <1>1, <1>4 DEF Model!FromUsbKeycodes, Model!Shift
  <2>2. QED
    BY <2>1 DEF Model!Printable, Model!Lower
<1>5. CASE code \notin (4..39) \cup {44, 45, 46, 54, 55}
  <2>1. Model!FromUsbKeycodes(code, 0) = 0 /\ Model!FromUsbKeycodes(code, 2) = 0
    BY <1>5 DEF Model!FromUsbKeycodes
  <2>2. QED
    BY <2>1 DEF Model!toupper, Model!Lower
<1>6. QED
  BY <1>2, <1>3, <1>4, <1>5

\* A stored word is typed as the model types it, unless a shift is held on a
\* key that is no letter.
LEMMA WordIsTyped ==
  ASSUME TestInv, NEW id \in Uint8, NEW mod \in Uint8,
         Output(<<"send_word", id, mod>>)
           # Model!ApplyModCode(WordChars(words[id]), mod)
  PROVE  /\ mod \in {1, 2}
         /\ \E j \in 1..(IF mod = 1 THEN wordLength[id] ELSE 1) :
              Model!Char(words[id][j], 0) \in Model!Printable \ Model!Lower
<1> DEFINE q == <<"send_word", id, mod>>
           word == words[id]
           codes == [j \in DOMAIN word |-> Keycode[word[j]]]
           text == Store!WordText(codes, mod)
           typed == [j \in DOMAIN text |->
                       Model!FromUsbKeycodes(text[j][1], text[j][2])]
<1>1. q[1] = "send_word" /\ q[2] = id /\ q[3] = mod
  OBVIOUS
<1>2. /\ word \in Seq(Uint8) /\ Len(word) = wordLength[id]
      /\ DOMAIN word = 1..Len(word) /\ Len(word) \in Nat
      /\ \A j \in 1..Len(word) : word[j] \in Uint8 /\ Keycode[word[j]] \in 0..255
  BY PropertyTestAssumption DEF TestInv, ShortcutsTyped
<1>3. word # <<>>
  <2> SUFFICES ASSUME word = <<>> PROVE FALSE
    OBVIOUS
  <2>1. Output(q) = <<>>
    BY <1>1, Zenon DEF Output
  <2>2. Model!ApplyModCode(WordChars(word), mod) = <<>>
    BY CharactersFollowKeys DEF Model!ApplyModCode
  <2>3. QED
    BY <2>1, <2>2
<1>4. Output(q) = Model!PrintableOf(typed)
  BY <1>1, <1>3, Zenon DEF Output, Typed
<1>5. /\ WordChars(word) = [j \in 1..Len(word) |-> Model!Char(word[j], 0)]
      /\ WordChars(word) # <<>> /\ DOMAIN WordChars(word) = 1..Len(word)
      /\ Len(WordChars(word)) = Len(word)
  BY <1>2, <1>3 DEF WordChars
<1>6. /\ DOMAIN codes = 1..Len(word) /\ Len(codes) = Len(word)
      /\ \A j \in 1..Len(word) : codes[j] = Keycode[word[j]]
  BY <1>2
<1> HIDE DEF codes
<1>7. CASE mod \notin 1..5
  <2>1. text = [j \in 1..Len(word) |-> <<Keycode[word[j]], 0>>]
    BY <1>2, <1>6, <1>7 DEF Store!WordText, Store!TextLength
  <2>2. typed = WordChars(word)
    BY <1>5, <2>1 DEF Model!Char
  <2>3. Model!ApplyModCode(WordChars(word), mod) = Model!PrintableOf(WordChars(word))
    BY <1>5, <1>7 DEF Model!ApplyModCode
  <2>4. QED
    BY <1>4, <2>2, <2>3
<1>8. CASE mod \in 3..5
  <2>1. text = [j \in 1..(Len(word) + 1) |->
                  IF j > Len(word) THEN <<Store!Punctuation[mod], 0>>
                                   ELSE <<Keycode[word[j]], 0>>]
    BY <1>2, <1>6, <1>8 DEF Store!WordText, Store!TextLength
  <2>2. Model!FromUsbKeycodes(Store!Punctuation[mod], 0) = Model!AppendedChar[mod]
    BY <1>8 DEF Model!FromUsbKeycodes, Model!Shift, Store!Punctuation,
       Model!AppendedChar
  <2>3. typed = Append(WordChars(word), Model!AppendedChar[mod])
    BY <1>2, <1>5, <2>1, <2>2, SMTT(30) DEF Model!Char
  <2>4. Model!ApplyModCode(WordChars(word), mod)
          = Model!PrintableOf(Append(WordChars(word), Model!AppendedChar[mod]))
    BY <1>5, <1>8 DEF Model!ApplyModCode
  <2>5. QED
    BY <1>4, <2>3, <2>4
<1>9. CASE mod \in {1, 2}
  <2> SUFFICES ASSUME \A j \in 1..(IF mod = 1 THEN Len(word) ELSE 1) :
                        Model!Char(word[j], 0) \notin Model!Printable \ Model!Lower
               PROVE  FALSE
    BY <1>2, <1>9
  <2>1. text = [j \in 1..Len(word) |->
                  <<Keycode[word[j]], IF mod = 1 \/ j = 1 THEN 2 ELSE 0>>]
    BY <1>2, <1>6, <1>9 DEF Store!WordText, Store!TextLength, Store!LeftShift
  <2>2. typed = [j \in 1..Len(word) |->
                   Model!FromUsbKeycodes(Keycode[word[j]],
                                         IF mod = 1 \/ j = 1 THEN 2 ELSE 0)]
    BY <2>1
  <2>3. \A j \in 1..Len(word) : mod = 1 \/ j = 1 =>
          Model!FromUsbKeycodes(Keycode[word[j]], 2)
            = Model!toupper(WordChars(word)[j])
    <3> SUFFICES ASSUME NEW j \in 1..Len(word), mod = 1 \/ j = 1
                 PROVE  Model!FromUsbKeycodes(Keycode[word[j]], 2)
                          = Model!toupper(WordChars(word)[j])
      OBVIOUS
    <3>1. WordChars(word)[j] = Model!FromUsbKeycodes(Keycode[word[j]], 0)
      BY <1>5 DEF Model!Char
    <3>2. Keycode[word[j]] \in 0..255
      BY <1>2
    <3>3. Model!Char(word[j], 0) \notin Model!Printable \ Model!Lower
      BY <1>2
    <3>4. QED
      BY <3>1, <3>2, <3>3, ShiftIsToupper DEF Model!Char
  <2>4. \A j \in 1..Len(word) : ~(mod = 1 \/ j = 1) =>
          Model!FromUsbKeycodes(Keycode[word[j]], 0) = WordChars(word)[j]
    BY <1>5 DEF Model!Char
  <2>5. CASE mod = 1
    <3>1. typed = [j \in 1..Len(word) |-> Model!toupper(WordChars(word)[j])]
      BY <2>2, <2>3, <2>5
    <3>2. Model!ApplyModCode(WordChars(word), mod)
            = Model!PrintableOf([j \in 1..Len(word) |->
                                   Model!toupper(WordChars(word)[j])])
      BY <1>5, <2>5 DEF Model!ApplyModCode
    <3>3. QED
      BY <1>4, <3>1, <3>2
  <2>6. CASE mod = 2
    <3>1. typed = [j \in 1..Len(word) |->
                     IF j = 1 THEN Model!toupper(WordChars(word)[j])
                              ELSE WordChars(word)[j]]
      BY <2>2, <2>3, <2>4, <2>6
    <3>2. Model!ApplyModCode(WordChars(word), mod)
            = Model!PrintableOf([j \in 1..Len(word) |->
                                   IF j = 1 THEN Model!toupper(WordChars(word)[j])
                                            ELSE WordChars(word)[j]])
      BY <1>5, <2>6 DEF Model!ApplyModCode
    <3>3. QED
      BY <1>4, <3>1, <3>2
  <2>7. QED
    BY <1>9, <2>5, <2>6
<1>10. QED
  BY <1>7, <1>8, <1>9

\* A keypress gives one blob other entries, in the model and, unless the blob is of
\* EEPROM_1, in the device.
LEMMA BlobsStayMatched ==
  ASSUME BlobsMatch, b.id \in BlobIds, NEW entries,
         model'.b.shortcuts = [model.b.shortcuts EXCEPT ![b.id] = entries],
         \A i \in BlobIds : i # b.id => blobs'[i] = blobs[i],
         OnEeprom1(b.id) => blobs'[b.id] = <<>>,
         ~OnEeprom1(b.id) => entries = BlobChars(blobs'[b.id])
  PROVE  BlobsMatch'
<1> DEFINE own == model.b.shortcuts
           new == model'.b.shortcuts
<1>1. own = [i \in BlobIds |-> own[i]]
  BY DEF BlobsMatch, IsShortcutOf
<1>2. new = [i \in BlobIds |-> IF i = b.id THEN entries ELSE own[i]]
  BY <1>1
<1>3. \A i \in BlobIds : new[i] = IF i = b.id THEN entries ELSE own[i]
  BY <1>2
<1>4. new = [i \in BlobIds |-> new[i]]
  BY <1>2, <1>3
<1> HIDE DEF new
<1>5. IsShortcutOf(new, blobs')
  BY <1>3, <1>4 DEF BlobsMatch, IsShortcutOf
<1>6. QED
  BY <1>5 DEF new, BlobsMatch, IsShortcutOf, OnEeprom1

\* No other layer touches them.
LEMMA OnlyLayerBEditsBlobs ==
  ASSUME NEW k \in Keypress
  PROVE  LET m == ModelOf(<<>>) IN
         /\ Model!ApplyDefault(m, k).b.shortcuts = model.b.shortcuts
         /\ Model!ApplyRInProg(m, k).b.shortcuts = model.b.shortcuts
         /\ Model!ApplyR(m, k).b.shortcuts = model.b.shortcuts
         /\ Model!ApplyGInProg(m, k).b.shortcuts = model.b.shortcuts
         /\ Model!ApplyG(m, k).b.shortcuts = model.b.shortcuts
<1> DEFINE m == ModelOf(<<>>)
<1>1. Model!ApplyDefault(m, k).b.shortcuts = model.b.shortcuts
  BY DEF Model!ApplyDefault, Model!Type, ModelOf, Keypress
<1>2. Model!ApplyRInProg(m, k).b.shortcuts = model.b.shortcuts
  BY DEF Model!ApplyRInProg, ModelOf, Keypress
<1>3. Model!ApplyR(m, k).b.shortcuts = model.b.shortcuts
  BY DEF Model!ApplyR, Model!Type, ModelOf, Keypress
<1>4. Model!ApplyGInProg(m, k).b.shortcuts = model.b.shortcuts
  BY DEF Model!ApplyGInProg, Model!SendWord, ModelOf, Keypress
<1>5. Model!ApplyG(m, k).b.shortcuts = model.b.shortcuts
  BY DEF Model!ApplyG, Model!SendWord, ModelOf, Keypress
<1> QED
  BY <1>1, <1>2, <1>3, <1>4, <1>5

\* The model's shortcuts change with the device's.
LEMMA ShortcutsFollow ==
  ASSUME TestInv
  PROVE  /\ \A id, key \in Uint8 :
              WordShortcuts([words EXCEPT ![id] = Append(@, key)])
                = [WordShortcuts(words) EXCEPT ![id] = Append(@, Model!Char(key, 0))]
         /\ \A id \in Uint8 :
              /\ WordShortcuts([words EXCEPT ![id] = <<>>])
                   = [WordShortcuts(words) EXCEPT ![id] = <<>>]
              /\ WordShortcuts(words)[id] = WordChars(words[id])
              /\ Len(WordShortcuts(words)[id]) = wordLength[id]
         /\ \A id \in BlobIds : \A key, mod \in Uint8 :
              BlobChars(Append(blobs[id], <<key, mod>>))
                = Append(BlobChars(blobs[id]), Model!Char(key, mod))
         /\ \A id \in BlobIds : Len(BlobChars(blobs[id])) = blobLength[id]
<1>1. /\ words \in [Uint8 -> Seq(Uint8)]
      /\ \A i \in Uint8 : words[i] \in Seq(Uint8) /\ Len(words[i]) = wordLength[i]
      /\ blobs \in [BlobIds -> Seq(Uint8 \X Uint8)]
      /\ \A i \in BlobIds :
           blobs[i] \in Seq(Uint8 \X Uint8) /\ Len(blobs[i]) = blobLength[i]
  BY DEF TestInv, ShortcutsTyped
<1>2. \A w \in Seq(Uint8) : Len(WordChars(w)) = Len(w)
  BY DEF WordChars
<1>3. \A w \in Seq(Uint8 \X Uint8) : Len(BlobChars(w)) = Len(w)
  BY DEF BlobChars
<1>4. ASSUME NEW id \in Uint8, NEW key \in Uint8
      PROVE  WordShortcuts([words EXCEPT ![id] = Append(@, key)])
               = [WordShortcuts(words) EXCEPT ![id] = Append(@, Model!Char(key, 0))]
  <2>1. WordChars(Append(words[id], key))
          = Append(WordChars(words[id]), Model!Char(key, 0))
    BY <1>1, CharactersFollowKeys
  <2>2. QED
    BY <1>1, <2>1 DEF WordShortcuts
<1>5. ASSUME NEW id \in Uint8
      PROVE  /\ WordShortcuts([words EXCEPT ![id] = <<>>])
                  = [WordShortcuts(words) EXCEPT ![id] = <<>>]
             /\ WordShortcuts(words)[id] = WordChars(words[id])
             /\ Len(WordShortcuts(words)[id]) = wordLength[id]
  BY <1>1, <1>2, CharactersFollowKeys DEF WordShortcuts
<1>6. ASSUME NEW id \in BlobIds, NEW key \in Uint8, NEW mod \in Uint8
      PROVE  BlobChars(Append(blobs[id], <<key, mod>>))
               = Append(BlobChars(blobs[id]), Model!Char(key, mod))
  BY <1>1, CharactersFollowKeys
<1>7. ASSUME NEW id \in BlobIds
      PROVE  Len(BlobChars(blobs[id])) = blobLength[id]
  BY <1>1, <1>3
<1>8. QED
  BY <1>4, <1>5, <1>6, <1>7

\* Layer G: a word is full in the model when it is full in the storage.
LEMMA LayerGMatches ==
  ASSUME TestInv, NEW k \in Keypress, ApplyKeypress(k), current_layer = "G",
         ~(k = "XYZ" /\ ~g.prog)
  PROVE  model' = ModelOf(model.usb_buffer)' /\ OutputMatches'
<1> DEFINE m == ModelOf(<<>>)
<1>1. model' = IF g.prog THEN Model!ApplyGInProg(m, k) ELSE Model!ApplyG(m, k)
  BY ApplyIsOfState DEF ApplyKeypress
<1>2. LayerGHandleEvent(k)
  BY DEF ApplyKeypress, HandleEvent, DefaultLayerHandleEvent, LayerRHandleEvent,
     LayerGHandleEvent, LayerBHandleEvent
<1>3. LayerGCall(k) /\ UNCHANGED <<current_layer, dflt, r, b, chars, blobLength>>
  BY <1>2, Zenon DEF LayerGHandleEvent
<1>4. UNCHANGED blobs /\ usb_buffer' = Output(request')
  BY <1>3, BlobsFollowLengths DEF ApplyKeypress
<1>5. /\ g \in KeyedRecord /\ wordLength \in [Uint8 -> 0..MaxWordLen]
      /\ g.id \in Uint8 /\ g.key \in Uint8 /\ g.mod \in Uint8
      /\ g.prog \in BOOLEAN /\ MaxWordLen \in Nat
  BY RangeAssumption, RangeIsNat DEF TestInv, Inv, TypeOK, KeyedRecord
<1>6. /\ m.g.id = g.id /\ m.g.key = g.key /\ m.g.mod = g.mod
      /\ m.g.shortcuts = WordShortcuts(words)
  BY DEF ModelOf
<1>7. Len(m.g.shortcuts[m.g.id]) = wordLength[g.id]
  <2> HIDE DEF m
  <2>1. Len(WordShortcuts(words)[g.id]) = wordLength[g.id]
    BY <1>5, ShortcutsFollow
  <2>2. QED
    BY <1>6, <2>1
<1>8. CASE k = "Z" /\ g.prog
  <2>1. /\ request' = <<"append_to_word", g.id, g.key>> /\ g' = g
        /\ status' <=> wordLength[g.id] # MaxWordLen
        /\ \/ wordLength' = [wordLength EXCEPT ![g.id] = @ + 1] /\ status' = TRUE
           \/ UNCHANGED wordLength /\ status' = FALSE
    <3>1. NothingBreaks
      BY DEF ApplyKeypress
    <3>2. request' = <<"append_to_word", g.id, g.key>>
      BY <1>3, <1>8, Zenon DEF LayerGCall
    <3>3. status' <=> wordLength[g.id] # MaxWordLen
      BY <3>1, <3>2 DEF NothingBreaks
    <3>4. \/ wordLength' = [wordLength EXCEPT ![g.id] = @ + 1] /\ status' = TRUE
             /\ g' = g
          \/ UNCHANGED <<g, wordLength>> /\ status' = FALSE
      BY <1>3, <1>8 DEF LayerGCall, FinishG, Succeed, Fail
    <3>5. QED
      BY <3>2, <3>3, <3>4
  <2>2. CASE wordLength[g.id] # MaxWordLen
    <3>1. words' = [words EXCEPT ![g.id] = Append(@, g.key)]
      BY <1>5, <2>1, <2>2, WordsFollowLengths DEF ApplyKeypress
    <3>2. WordShortcuts(words')
            = [WordShortcuts(words) EXCEPT ![g.id] = Append(@, Model!Char(g.key, 0))]
      BY <1>5, <3>1, ShortcutsFollow
    <3>3. Len(m.g.shortcuts[m.g.id]) < MaxWordLen
      <4>1. wordLength[g.id] \in 0..MaxWordLen
        BY <1>5
      <4>2. QED
        BY <1>5, <1>7, <2>2, <4>1
    <3>4. model' = [m EXCEPT !.g.shortcuts[m.g.id] = Append(@, Model!Char(m.g.key, 0))]
      BY <1>1, <1>8, <3>3 DEF Model!ApplyGInProg
    <3>5. model' = ModelOf(<<>>)'
      BY <1>3, <1>4, <2>1, <3>2, <3>4, ZenonT(60) DEF ModelOf
    <3>6. usb_buffer' = <<>>
      BY <1>4, <2>1, OutputOfCalls
    <3>7. QED
      BY <3>5, <3>6 DEF ModelOf, OutputMatches
  <2>3. CASE wordLength[g.id] = MaxWordLen
    <3>1. UNCHANGED words
      BY <2>1, <2>3, WordsFollowLengths DEF ApplyKeypress
    <3>2. ~(Len(m.g.shortcuts[m.g.id]) < MaxWordLen)
      BY <1>5, <1>7, <2>3
    <3>3. model' = Model!SendWord(m)
      BY <1>1, <1>8, <3>2 DEF Model!ApplyGInProg
    <3>4. model' = ModelOf(model.usb_buffer)'
      BY <1>3, <1>4, <2>1, <3>1, <3>3 DEF ModelOf, Model!SendWord
    <3>5. QED
      BY <2>1, <2>3, <3>4 DEF OutputMatches, AppendRefused
  <2>4. QED
    BY <2>2, <2>3
<1>9. CASE k = "Z" /\ ~g.prog
  <2>1. /\ request' = <<"send_word", g.id, g.mod>>
        /\ UNCHANGED <<g, wordLength>>
    BY <1>3, <1>9 DEF LayerGCall, FinishG
  <2>2. UNCHANGED words
    BY <2>1, WordsFollowLengths DEF ApplyKeypress
  <2>3. model' = Model!SendWord(m)
    BY <1>1, <1>9 DEF Model!ApplyG
  <2>4. model' = ModelOf(model.usb_buffer)'
    BY <1>3, <1>4, <2>1, <2>2, <2>3 DEF ModelOf, Model!SendWord
  <2>5. model'.usb_buffer = Model!ApplyModCode(WordChars(words[g.id]), g.mod)
    <3>1. m.g.shortcuts[m.g.id] = WordChars(words[g.id])
      BY <1>5, <1>6, ShortcutsFollow
    <3>2. QED
      BY <1>6, <2>3, <3>1 DEF ModelOf, Model!SendWord
  <2>6. OutputMatches'
    <3> SUFFICES ASSUME usb_buffer' # model'.usb_buffer
                 PROVE  ShiftsNonLetter'
      BY DEF OutputMatches
    <3>1. Output(<<"send_word", g.id, g.mod>>)
            # Model!ApplyModCode(WordChars(words[g.id]), g.mod)
      BY <1>4, <2>1, <2>5
    <3>2. /\ g.mod \in {1, 2}
          /\ \E j \in 1..(IF g.mod = 1 THEN wordLength[g.id] ELSE 1) :
               Model!Char(words[g.id][j], 0) \in Model!Printable \ Model!Lower
      BY <1>5, <3>1, WordIsTyped
    <3>3. /\ request'[1] = "send_word" /\ request'[2] = g.id
          /\ request'[3] = g.mod
      BY <2>1
    <3>4. QED
      BY <2>1, <2>2, <3>2, <3>3 DEF ShiftsNonLetter
  <2>7. QED
    BY <2>4, <2>6
<1>10. CASE k = "YZ" /\ g.prog
  <2>1. /\ request'[1] = "clear_word" /\ g' = g
        /\ wordLength' = [wordLength EXCEPT ![g.id] = 0]
    BY <1>3, <1>10 DEF LayerGCall, FinishG
  <2>2. words' = [words EXCEPT ![g.id] = <<>>]
    BY <1>5, <2>1, WordsFollowLengths DEF ApplyKeypress
  <2>3. WordShortcuts(words') = [WordShortcuts(words) EXCEPT ![g.id] = <<>>]
    BY <1>5, <2>2, ShortcutsFollow
  <2>4. model' = [m EXCEPT !.g.shortcuts[m.g.id] = <<>>]
    BY <1>1, <1>10 DEF Model!ApplyGInProg
  <2>5. model' = ModelOf(<<>>)'
    BY <1>3, <1>4, <2>1, <2>3, <2>4 DEF ModelOf
  <2>6. QED
    BY <1>4, <2>1, <2>5, OutputOfCalls DEF ModelOf, OutputMatches
<1>11. CASE k # "Z" /\ ~(k = "YZ" /\ g.prog)
  <2>1. request'[1] = "none" /\ UNCHANGED wordLength /\ g' = LayerGEdit(k)
    BY <1>3, <1>11 DEF LayerGCall, FinishG, NoRequest
  <2>2. UNCHANGED words
    BY <2>1, WordsFollowLengths DEF ApplyKeypress
  <2>3. CASE g.prog = TRUE
    <3>1. /\ g'.id = g.id /\ g'.mod = g.mod /\ g'.prog = (k # "XYZ")
          /\ g'.key = CASE k = "X"  -> Inc(g.key)
                        [] k = "XZ" -> 0
                        [] OTHER    -> g.key
      BY <1>5, <1>11, <2>1, <2>3 DEF LayerGEdit, KeyedRecord, Keypress
    <3>2. model' = Model!ApplyGInProg(m, k)
      BY <1>1, <2>3
    <3>3. QED
      <4>1. model' = ModelOf(<<>>)'
        BY <1>3, <1>4, <1>11, <2>2, <2>3, <3>1, <3>2
        DEF ModelOf, Model!ApplyGInProg, Model!Inc, Inc, Keypress
      <4>2. QED
        BY <1>4, <2>1, <4>1, OutputOfCalls DEF ModelOf, OutputMatches
  <2>4. CASE g.prog = FALSE
    <3>1. /\ g'.key = g.key /\ g'.prog = (k = "XY")
          /\ g'.id = CASE k = "X"  -> Inc(g.id)
                       [] k = "XZ" -> 0
                       [] OTHER    -> g.id
          /\ g'.mod = CASE k = "Y"  -> Inc(g.mod)
                        [] k = "YZ" -> 0
                        [] OTHER    -> g.mod
      BY <1>5, <1>11, <2>1, <2>4 DEF LayerGEdit, KeyedRecord, Keypress
    <3>2. model' = Model!ApplyG(m, k)
      BY <1>1, <2>4
    <3>3. QED
      <4>1. model' = ModelOf(<<>>)'
        <5>1. model'.b = m.b /\ model'.g =
                [id |-> g'.id, mod |-> g'.mod, key |-> g'.key, prog |-> g'.prog,
                 shortcuts |-> WordShortcuts(words)]
          BY <1>11, <2>4, <3>1, <3>2
          DEF ModelOf, Model!ApplyG, Model!Inc, Inc, Keypress
        <5>2. model' = [m EXCEPT !.g = model'.g]
          BY <1>11, <2>4, <3>2 DEF ModelOf, Model!ApplyG, Keypress
        <5>3. QED
          BY <1>3, <1>4, <2>2, <5>1, <5>2 DEF ModelOf
      <4>2. QED
        BY <1>4, <2>1, <4>1, OutputOfCalls DEF ModelOf, OutputMatches
  <2>5. QED
    BY <1>5, <2>3, <2>4
<1>12. QED
  BY <1>8, <1>9, <1>10, <1>11

\* Layer B: within the bounds of the test, every id is one of a blob that has
\* room, which is all the model knows of.
LEMMA LayerBMatches ==
  ASSUME TestInv, NEW k \in Keypress, ApplyKeypress(k), current_layer = "B",
         ~(k = "XYZ" /\ ~b.prog)
  PROVE  /\ model' = ModelOf(model.usb_buffer)'
         /\ usb_buffer' # model'.usb_buffer => BlobIsLost'
         /\ BlobsMatch'
         /\ b'.id \in 0..MaxId["B"]
<1> DEFINE m == ModelOf(<<>>)
<1>1. model' = IF b.prog THEN Model!ApplyBInProg(m, k) ELSE Model!ApplyB(m, k)
  BY ApplyIsOfState DEF ApplyKeypress
<1>2. LayerBHandleEvent(k)
  BY DEF ApplyKeypress, HandleEvent, DefaultLayerHandleEvent, LayerRHandleEvent,
     LayerGHandleEvent, LayerBHandleEvent
<1>3. /\ LayerBCall(k) /\ b' = LayerBEdit(k)
      /\ UNCHANGED <<current_layer, dflt, r, g, chars, wordLength>>
  BY <1>2, Zenon DEF LayerBHandleEvent
<1>4. UNCHANGED words /\ usb_buffer' = Output(request')
  BY <1>3, WordsFollowLengths DEF ApplyKeypress
<1>5. /\ b \in KeyedRecord /\ b.key \in Uint8 /\ b.mod \in Uint8
      /\ b.prog \in BOOLEAN
  BY DEF TestInv, Inv, TypeOK, KeyedRecord
<1>6. /\ b.id \in BlobIds /\ b.id \in 0..MaxId["B"] /\ MaxId["B"] \in BlobIds
  BY PropertyTestAssumption, RangeAssumption DEF TestInv, BlobIds, Uint8
<1>7. /\ m.b.id = b.id /\ m.b.key = b.key /\ m.b.mod = b.mod
      /\ m.b.shortcuts = model.b.shortcuts
  BY DEF ModelOf
<1>8. CASE k = "Z" /\ b.prog
  <2> DEFINE entry == Model!Char(b.key, b.mod)
             entries == Append(m.b.shortcuts[b.id], entry)
  <2>1. request' = <<"append_to_blob", b.id, b.key, b.mod>>
    BY <1>3, <1>8, Zenon DEF LayerBCall
  <2>2. blobs' = IF OnEeprom1(b.id) THEN blobs
                 ELSE [blobs EXCEPT ![b.id] = Append(@, <<b.key, b.mod>>)]
    <3>1. blobLength' # blobLength <=> ~OnEeprom1(b.id)
      BY <2>1 DEF ApplyKeypress, NothingBreaks
    <3>2. blobLength' = IF OnEeprom1(b.id) THEN blobLength
                        ELSE [blobLength EXCEPT ![b.id] = @ + 1]
      BY <1>3, <1>8, <3>1 DEF LayerBCall
    <3>3. QED
      BY <1>6, <2>1, <3>2, BlobsFollowLengths DEF ApplyKeypress
  <2>3. blobs \in [BlobIds -> Seq(Uint8 \X Uint8)] /\ BlobsMatch
    BY DEF TestInv, ShortcutsTyped
  <2>4. /\ \A i \in BlobIds \ {b.id} : blobs'[i] = blobs[i]
        /\ ~OnEeprom1(b.id) =>
             blobs'[b.id] = Append(blobs[b.id], <<b.key, b.mod>>)
        /\ OnEeprom1(b.id) => blobs' = blobs
    BY <1>6, <2>2, <2>3
  <2>5. ~OnEeprom1(b.id) => entries = BlobChars(blobs'[b.id])
    <3>1. ~OnEeprom1(b.id) => m.b.shortcuts[b.id] = BlobChars(blobs[b.id])
      BY <1>6, <1>7, <2>3 DEF BlobsMatch, IsShortcutOf
    <3>2. BlobChars(Append(blobs[b.id], <<b.key, b.mod>>))
            = Append(BlobChars(blobs[b.id]), entry)
      BY <1>5, <1>6, ShortcutsFollow
    <3>3. QED
      BY <2>4, <3>1, <3>2
  <2>6. model' = [m EXCEPT !.b.shortcuts[b.id] = entries]
    BY <1>1, <1>7, <1>8 DEF Model!ApplyBInProg
  <2>7. b' = b
    BY <1>3, <1>8, Zenon DEF LayerBEdit
  <2>8. model'.b.shortcuts = [model.b.shortcuts EXCEPT ![b.id] = entries]
    BY <1>7, <2>6 DEF ModelOf
  <2>9. model' = ModelOf(<<>>)'
    BY <1>3, <1>4, <2>6, <2>7, <2>8 DEF ModelOf
  <2>10. BlobsMatch'
    <3> HIDE DEF entries
    <3>1. OnEeprom1(b.id) => blobs'[b.id] = <<>>
      BY <1>6, <2>3, <2>4 DEF BlobsMatch, IsShortcutOf
    <3>2. QED
      BY <1>6, <2>3, <2>4, <2>5, <2>8, <3>1, BlobsStayMatched
  <2>11. usb_buffer' = model'.usb_buffer
    BY <1>4, <2>1, <2>9, OutputOfCalls DEF ModelOf
  <2>12. QED
    BY <1>6, <2>7, <2>9, <2>10, <2>11 DEF ModelOf
<1>9. CASE k = "Z" /\ ~b.prog
  <2>1. request' = <<"send_blob", b.id>> /\ UNCHANGED blobLength
    BY <1>3, <1>9, Zenon DEF LayerBCall
  <2>2. UNCHANGED blobs /\ b' = b
    <3>1. b' = b
      BY <1>3, <1>9, Zenon DEF LayerBEdit
    <3>2. QED
      BY <2>1, <3>1, BlobsFollowLengths DEF ApplyKeypress
  <2>3. model' = Model!Type(m, m.b.shortcuts[m.b.id])
    BY <1>1, <1>9 DEF Model!ApplyB
  <2>4. model' = ModelOf(model.usb_buffer)' /\ model'.b.shortcuts = model.b.shortcuts
    BY <1>3, <1>4, <2>2, <2>3 DEF ModelOf, Model!Type
  <2>5. BlobsMatch'
    BY <2>2, <2>4 DEF TestInv, BlobsMatch, IsShortcutOf, OnEeprom1
  <2>6. CASE ~OnEeprom1(b.id)
    <3>1. m.b.shortcuts[m.b.id] = BlobChars(blobs[b.id])
      BY <1>6, <1>7, <2>6 DEF TestInv, BlobsMatch, IsShortcutOf
    <3>2. model'.usb_buffer = Model!PrintableOf(BlobChars(blobs[b.id]))
      BY <2>3, <3>1 DEF ModelOf, Model!Type
    <3>3. QED
      BY <1>4, <1>6, <2>1, <2>2, <2>4, <2>5, <2>6, <3>2, OutputOfCalls
  <2>7. CASE OnEeprom1(b.id)
    <3>1. BlobIsLost'
      BY <2>1, <2>7 DEF BlobIsLost, OnEeprom1
    <3>2. QED
      BY <1>6, <2>2, <2>4, <2>5, <3>1
  <2>8. QED
    BY <2>6, <2>7
<1>10. CASE k = "XY" /\ b.prog
  <2>1. /\ request'[1] = "clear_blob"
        /\ blobLength' = [blobLength EXCEPT ![b.id] = 0]
    BY <1>3, <1>6, <1>10 DEF LayerBCall
  <2>2. blobs' = [blobs EXCEPT ![b.id] = <<>>]
    BY <1>6, <2>1, BlobsFollowLengths DEF ApplyKeypress
  <2>3. blobs \in [BlobIds -> Seq(Uint8 \X Uint8)] /\ BlobsMatch
    BY DEF TestInv, ShortcutsTyped
  <2>4. model' = [m EXCEPT !.b.shortcuts[b.id] = <<>>]
    BY <1>1, <1>7, <1>10 DEF Model!ApplyBInProg
  <2>5. b' = b
    BY <1>3, <1>10, Zenon DEF LayerBEdit
  <2>6. model'.b.shortcuts = [model.b.shortcuts EXCEPT ![b.id] = <<>>]
    BY <1>7, <2>4 DEF ModelOf
  <2>7. model' = ModelOf(<<>>)'
    BY <1>3, <1>4, <2>4, <2>5, <2>6 DEF ModelOf
  <2>8. BlobsMatch'
    <3>1. /\ \A i \in BlobIds : i # b.id => blobs'[i] = blobs[i]
          /\ blobs'[b.id] = <<>> /\ BlobChars(blobs'[b.id]) = <<>>
      BY <1>6, <2>2, <2>3, CharactersFollowKeys
    <3>2. QED
      BY <1>6, <2>3, <2>6, <3>1, BlobsStayMatched
  <2>9. QED
    BY <1>4, <1>6, <2>1, <2>5, <2>7, <2>8, OutputOfCalls DEF ModelOf
<1>11. CASE k # "Z" /\ ~(k = "XY" /\ b.prog)
  <2>1. request'[1] = "none" /\ UNCHANGED blobLength
    BY <1>3, <1>11 DEF LayerBCall, NoRequest
  <2>2. UNCHANGED blobs
    BY <2>1, BlobsFollowLengths DEF ApplyKeypress
  <2>6. model'.b.shortcuts = model.b.shortcuts => BlobsMatch'
    BY <2>2 DEF TestInv, BlobsMatch, IsShortcutOf, OnEeprom1
  <2>7. model'.b.shortcuts = model.b.shortcuts
    <3>1. CASE b.prog = TRUE
      BY <1>1, <1>11, <3>1 DEF Model!ApplyBInProg, ModelOf, Keypress
    <3>2. CASE b.prog = FALSE
      BY <1>1, <1>11, <3>2 DEF Model!ApplyB, ModelOf, Keypress
    <3>3. QED
      BY <1>5, <3>1, <3>2
  <2>3. CASE b.prog = TRUE
    <3>1. /\ b'.id = b.id /\ b'.prog = (k # "XYZ")
          /\ b'.key = CASE k = "X"  -> Inc(b.key)
                        [] k = "XZ" -> 0
                        [] OTHER    -> b.key
          /\ b'.mod = CASE k = "Y"  -> Inc(b.mod)
                        [] k = "YZ" -> 0
                        [] OTHER    -> b.mod
      BY <1>3, <1>5, <1>11, <2>3 DEF LayerBEdit, KeyedRecord, Keypress
    <3>2. model' = Model!ApplyBInProg(m, k)
      BY <1>1, <2>3
    <3>3. model' = ModelOf(<<>>)'
      <4>1. CASE k \in {"X", "XZ"}
        BY <1>3, <1>4, <2>2, <2>3, <3>1, <3>2, <4>1
        DEF ModelOf, Model!ApplyBInProg, Model!Inc, Inc
      <4>2. CASE k \in {"Y", "YZ"}
        BY <1>3, <1>4, <2>2, <2>3, <3>1, <3>2, <4>2
        DEF ModelOf, Model!ApplyBInProg, Model!Inc, Inc
      <4>3. CASE k = "XYZ"
        BY <1>3, <1>4, <2>2, <2>3, <3>1, <3>2, <4>3
        DEF ModelOf, Model!ApplyBInProg
      <4>4. QED
        BY <1>11, <2>3, <4>1, <4>2, <4>3 DEF Keypress
    <3>4. QED
      BY <1>4, <1>6, <2>1, <2>6, <2>7, <3>1, <3>3, OutputOfCalls DEF ModelOf
  <2>4. CASE b.prog = FALSE
    <3>1. /\ b'.key = b.key /\ b'.mod = b.mod /\ b'.prog = (k = "XY")
          /\ b'.id = CASE k = "X"  -> Inc(b.id)
                       [] k = "XZ" -> 0
                       [] OTHER    -> b.id
      BY <1>3, <1>5, <1>11, <2>4 DEF LayerBEdit, KeyedRecord, Keypress
    <3>2. model' = Model!ApplyB(m, k)
      BY <1>1, <2>4
    <3>3. model' = ModelOf(<<>>)'
      BY <1>3, <1>4, <1>11, <2>2, <2>4, <3>1, <3>2
      DEF ModelOf, Model!ApplyB, Model!Inc, Inc, Keypress
    <3>4. b'.id \in 0..MaxId["B"]
      <4>1. /\ b.id \in Nat /\ MaxId["B"] \in Nat /\ UintRange \in Nat \ {0}
            /\ MaxId["B"] < UintRange
        BY <1>6, RangeAssumption DEF BlobIds, Uint8
      <4>2. CASE k = "X"
        <5>1. b.id < MaxId["B"]
          BY <2>4, <4>2 DEF ApplyKeypress, InBounds
        <5>2. (b.id + 1) % UintRange = b.id + 1
          BY <4>1, <5>1
        <5>3. QED
          BY <3>1, <4>1, <4>2, <5>1, <5>2 DEF Inc
      <4>3. CASE k # "X"
        <5>1. b'.id \in {0, b.id}
          BY <3>1, <4>3
        <5>2. QED
          BY <1>6, <4>1, <5>1
      <4>4. QED
        BY <4>2, <4>3
    <3>5. QED
      BY <1>4, <2>1, <2>6, <2>7, <3>3, <3>4, OutputOfCalls DEF ModelOf
  <2>5. QED
    BY <1>5, <2>3, <2>4
<1>12. QED
  BY <1>8, <1>9, <1>10, <1>11

\* What a keypress does to the lengths: one entry more in one shortcut, none
\* left in one, or nothing.
LEMMA LengthsMove ==
  ASSUME TestInv, NEW k \in Keypress, HandleEvent(k)
  PROVE  /\ \/ UNCHANGED wordLength
            \/ \E id \in Uint8 :
                 \/ /\ wordLength' = [wordLength EXCEPT ![id] = @ + 1]
                    /\ request'[3] \in Uint8
                 \/ wordLength' = [wordLength EXCEPT ![id] = 0]
         /\ \/ UNCHANGED blobLength
            \/ \E id \in BlobIds :
                 \/ /\ blobLength' = [blobLength EXCEPT ![id] = @ + 1]
                    /\ request'[3] \in Uint8 /\ request'[4] \in Uint8
                 \/ blobLength' = [blobLength EXCEPT ![id] = 0]
<1>1. /\ g.id \in Uint8 /\ g.key \in Uint8 /\ b.key \in Uint8 /\ b.mod \in Uint8
  BY DEF TestInv, Inv, TypeOK
<1>2. CASE DefaultLayerHandleEvent(k)
  BY <1>2 DEF DefaultLayerHandleEvent, SwitchToLayer, stored
<1>3. CASE LayerRHandleEvent(k)
  BY <1>3 DEF LayerRHandleEvent, SwitchToLayer, stored
<1>4. CASE LayerGHandleEvent(k)
  <2>1. CASE SwitchToLayer("B")
    BY <2>1 DEF SwitchToLayer, stored
  <2>2. CASE LayerGCall(k) /\ UNCHANGED blobLength
    <3>1. \/ UNCHANGED wordLength
          \/ /\ wordLength' = [wordLength EXCEPT ![g.id] = @ + 1]
             /\ request' = <<"append_to_word", g.id, g.key>>
          \/ wordLength' = [wordLength EXCEPT ![g.id] = 0]
      BY <2>2 DEF LayerGCall, FinishG
    <3>2. QED
      BY <1>1, <2>2, <3>1
  <2>3. QED
    BY <1>4, <2>1, <2>2 DEF LayerGHandleEvent
<1>5. CASE LayerBHandleEvent(k)
  <2>1. CASE SwitchToLayer("DFLT")
    BY <2>1 DEF SwitchToLayer, stored
  <2>2. CASE LayerBCall(k) /\ UNCHANGED wordLength
    <3>1. \/ UNCHANGED blobLength
          \/ /\ b.id \in BlobIds
             /\ blobLength' = [blobLength EXCEPT ![b.id] = @ + 1]
             /\ request' = <<"append_to_blob", b.id, b.key, b.mod>>
          \/ b.id \in BlobIds /\ blobLength' = [blobLength EXCEPT ![b.id] = 0]
      BY <2>2 DEF LayerBCall
    <3>2. QED
      BY <1>1, <2>2, <3>1
  <2>3. QED
    BY <1>5, <2>1, <2>2 DEF LayerBHandleEvent
<1>6. QED
  BY <1>2, <1>3, <1>4, <1>5 DEF HandleEvent

LEMMA ShortcutsStayTyped ==
  ASSUME TestInv, NEW k \in Keypress, HandleEvent(k), StoreContents
  PROVE  ShortcutsTyped'
<1>1. /\ wordLength \in [Uint8 -> 0..MaxWordLen]
      /\ words \in [Uint8 -> Seq(Uint8)]
      /\ \A i \in Uint8 : Len(words[i]) = wordLength[i]
  BY DEF TestInv, Inv, TypeOK, ShortcutsTyped
<1>2. /\ blobLength \in [BlobIds -> 0..MaxBlobLen]
      /\ blobs \in [BlobIds -> Seq(Uint8 \X Uint8)]
      /\ \A i \in BlobIds : Len(blobs[i]) = blobLength[i]
  BY DEF TestInv, Inv, TypeOK, ShortcutsTyped
<1>3. /\ words' \in [Uint8 -> Seq(Uint8)]
      /\ \A i \in Uint8 : Len(words'[i]) = wordLength'[i]
  <2>1. CASE UNCHANGED wordLength
    BY <1>1, <2>1, WordsFollowLengths
  <2>2. ASSUME NEW id \in Uint8, request'[3] \in Uint8,
               wordLength' = [wordLength EXCEPT ![id] = @ + 1]
        PROVE  /\ words' \in [Uint8 -> Seq(Uint8)]
               /\ \A i \in Uint8 : Len(words'[i]) = wordLength'[i]
    <3>1. words' = [words EXCEPT ![id] = Append(@, request'[3])]
      BY <2>2, WordsFollowLengths
    <3>2. /\ Append(words[id], request'[3]) \in Seq(Uint8)
          /\ Len(Append(words[id], request'[3])) = Len(words[id]) + 1
      BY <1>1, <2>2
    <3>3. QED
      BY <1>1, <2>2, <3>1, <3>2
  <2>3. ASSUME NEW id \in Uint8, wordLength' = [wordLength EXCEPT ![id] = 0]
        PROVE  /\ words' \in [Uint8 -> Seq(Uint8)]
               /\ \A i \in Uint8 : Len(words'[i]) = wordLength'[i]
    <3>1. words' = [words EXCEPT ![id] = <<>>]
      BY <2>3, WordsFollowLengths
    <3>2. QED
      BY <1>1, <2>3, <3>1
  <2>4. QED
    BY <2>1, <2>2, <2>3, LengthsMove
<1>4. /\ blobs' \in [BlobIds -> Seq(Uint8 \X Uint8)]
      /\ \A i \in BlobIds : Len(blobs'[i]) = blobLength'[i]
  <2>1. CASE UNCHANGED blobLength
    BY <1>2, <2>1, BlobsFollowLengths
  <2>2. ASSUME NEW id \in BlobIds, request'[3] \in Uint8, request'[4] \in Uint8,
               blobLength' = [blobLength EXCEPT ![id] = @ + 1]
        PROVE  /\ blobs' \in [BlobIds -> Seq(Uint8 \X Uint8)]
               /\ \A i \in BlobIds : Len(blobs'[i]) = blobLength'[i]
    <3>1. blobs' = [blobs EXCEPT ![id] = Append(@, <<request'[3], request'[4]>>)]
      BY <2>2, BlobsFollowLengths
    <3>2. <<request'[3], request'[4]>> \in Uint8 \X Uint8
      BY <2>2
    <3>3. \A e \in Uint8 \X Uint8 : /\ Append(blobs[id], e) \in Seq(Uint8 \X Uint8)
                                    /\ Len(Append(blobs[id], e)) = Len(blobs[id]) + 1
      BY <1>2, <2>2
    <3>4. PICK e \in Uint8 \X Uint8 : blobs' = [blobs EXCEPT ![id] = Append(@, e)]
      BY <3>1, <3>2
    <3>5. QED
      BY <1>2, <2>2, <3>3, <3>4
  <2>3. ASSUME NEW id \in BlobIds, blobLength' = [blobLength EXCEPT ![id] = 0]
        PROVE  /\ blobs' \in [BlobIds -> Seq(Uint8 \X Uint8)]
               /\ \A i \in BlobIds : Len(blobs'[i]) = blobLength'[i]
    <3>1. blobs' = [blobs EXCEPT ![id] = <<>>]
      BY <2>3, BlobsFollowLengths
    <3>2. QED
      BY <1>2, <2>3, <3>1
  <2>4. QED
    BY <2>1, <2>2, <2>3, LengthsMove
<1>5. QED
  BY <1>3, <1>4 DEF ShortcutsTyped

LEMMA TestInitInv == TestInit => TestInv
<1> SUFFICES ASSUME TestInit PROVE TestInv
  OBVIOUS
<1>1. Inv
  BY InitInv DEF TestInit
<1>2. /\ words = [i \in Uint8 |-> <<>>] /\ blobs = [i \in BlobIds |-> <<>>]
      /\ chars = [i \in Uint8 |-> 0] /\ wordLength = [i \in Uint8 |-> 0]
      /\ blobLength = [i \in BlobIds |-> 0]
  BY DEF TestInit, Init
<1>3. ShortcutsTyped
  BY <1>2 DEF ShortcutsTyped
<1>4. b.id \in 0..MaxId["B"]
  BY PropertyTestAssumption, RangeAssumption
     DEF TestInit, Init, BBytes, BlobIds, Uint8
<1>5. model = ModelOf(model.usb_buffer)
  <2>1. WordShortcuts(words) = [i \in Uint8 |-> <<>>]
    BY <1>2, CharactersFollowKeys DEF WordShortcuts
  <2>2. model = [layer |-> "DFLT",
                 dflt |-> [bank0 |-> 0, bank1 |-> 0],
                 r |-> [id |-> 0, mod |-> 0, prog |-> FALSE, shortcuts |-> chars],
                 g |-> [id |-> 0, mod |-> 0, key |-> 0, prog |-> FALSE,
                        shortcuts |-> WordShortcuts(words)],
                 b |-> [id |-> 0, mod |-> 0, key |-> 0, prog |-> FALSE,
                        shortcuts |-> [i \in BlobIds |-> <<>>]],
                 usb_buffer |-> <<>>]
    BY <1>2, <2>1, Zenon DEF TestInit, Model!InitialModel, Uint8, BlobIds
  <2>3. /\ current_layer = "DFLT" /\ dflt = [bank0 |-> 0, bank1 |-> 0]
        /\ r.id = 0 /\ r.mod = 0 /\ r.prog = FALSE
        /\ g.id = 0 /\ g.mod = 0 /\ g.key = 0 /\ g.prog = FALSE
        /\ b.id = 0 /\ b.mod = 0 /\ b.key = 0 /\ b.prog = FALSE
    BY DEF TestInit, Init, DefaultBytes, RBytes, GBytes, BBytes
  <2>4. QED
    BY <2>2, <2>3 DEF ModelOf
<1>6. OutputMatches
  BY DEF TestInit, Model!InitialModel, OutputMatches
<1>7. BlobsMatch
  <2>1. model.b.shortcuts = [i \in BlobIds |-> <<>>]
    BY DEF TestInit, Model!InitialModel, BlobIds
  <2>2. QED
    BY <1>2, <2>1, CharactersFollowKeys DEF BlobsMatch, IsShortcutOf
<1>8. QED
  BY <1>1, <1>3, <1>4, <1>5, <1>6, <1>7 DEF TestInv

\* One keypress, whichever layer gets it.
LEMMA KeypressMatches ==
  ASSUME TestInv, NEW k \in Keypress, ApplyKeypress(k)
  PROVE  /\ model' = ModelOf(model.usb_buffer)' /\ OutputMatches' /\ BlobsMatch'
         /\ b'.id \in 0..MaxId["B"]
<1>1. /\ current_layer \in LayerId /\ StoreContents
      /\ usb_buffer' = Output(request') /\ model' = Model!Apply(model, k)
      /\ b.id \in 0..MaxId["B"]
  BY DEF TestInv, Inv, TypeOK, ApplyKeypress
<1>2. usb_buffer' = model'.usb_buffer => OutputMatches'
  BY DEF OutputMatches
<1>3. ASSUME UNCHANGED blobLength, model'.b.shortcuts = model.b.shortcuts
      PROVE  BlobsMatch'
  <2>1. UNCHANGED blobs
    BY <1>1, <1>3, BlobsFollowLengths
  <2>2. QED
    BY <1>3, <2>1 DEF TestInv, BlobsMatch, IsShortcutOf, OnEeprom1
<1>4. ASSUME NEW l \in LayerId, SwitchToLayer(l),
             model' = [ModelOf(<<>>) EXCEPT !.layer = l]
      PROVE  /\ model' = ModelOf(model.usb_buffer)' /\ OutputMatches' /\ BlobsMatch'
             /\ b'.id \in 0..MaxId["B"]
  <2>1. model' = ModelOf(model.usb_buffer)' /\ usb_buffer' = model'.usb_buffer
    BY <1>1, <1>4, SwitchMatches
  <2>2. b' = b /\ UNCHANGED blobLength
    BY <1>4 DEF SwitchToLayer, stored
  <2>3. model'.b.shortcuts = model.b.shortcuts
    BY <1>4 DEF ModelOf
  <2>4. QED
    BY <1>1, <1>2, <1>3, <2>1, <2>2, <2>3
<1>5. CASE current_layer = "DFLT"
  <2>1. DefaultLayerHandleEvent(k)
    BY <1>5 DEF ApplyKeypress, HandleEvent, DefaultLayerHandleEvent,
       LayerRHandleEvent, LayerGHandleEvent, LayerBHandleEvent
  <2>2. CASE k = "XYZ"
    <3>1. SwitchToLayer("R")
      BY <2>1, <2>2 DEF DefaultLayerHandleEvent
    <3>2. model' = [ModelOf(<<>>) EXCEPT !.layer = "R"]
      BY <1>1, <1>5, <2>2, ApplyIsOfState DEF Model!ApplyDefault
    <3>3. QED
      BY <1>4, <3>1, <3>2 DEF LayerId
  <2>3. CASE k # "XYZ"
    <3>1. b' = b /\ UNCHANGED blobLength
      BY <2>1, <2>3 DEF DefaultLayerHandleEvent, stored
    <3>2. model'.b.shortcuts = model.b.shortcuts
      BY <1>1, <1>5, ApplyIsOfState, OnlyLayerBEditsBlobs
    <3>3. QED
      BY <1>1, <1>2, <1>5, <1>3, <2>3, <3>1, <3>2, DefaultMatches
  <2>4. QED
    BY <2>2, <2>3
<1>6. CASE current_layer = "R"
  <2>1. LayerRHandleEvent(k)
    BY <1>6 DEF ApplyKeypress, HandleEvent, DefaultLayerHandleEvent,
       LayerRHandleEvent, LayerGHandleEvent, LayerBHandleEvent
  <2>2. CASE k = "XYZ" /\ ~r.prog
    <3>1. SwitchToLayer("G")
      BY <2>1, <2>2 DEF LayerRHandleEvent
    <3>2. model' = [ModelOf(<<>>) EXCEPT !.layer = "G"]
      BY <1>1, <1>6, <2>2, ApplyIsOfState DEF Model!ApplyR
    <3>3. QED
      BY <1>4, <3>1, <3>2 DEF LayerId
  <2>3. CASE ~(k = "XYZ" /\ ~r.prog)
    <3>1. b' = b /\ UNCHANGED blobLength
      BY <2>1, <2>3, Zenon DEF LayerRHandleEvent
    <3>2. model'.b.shortcuts = model.b.shortcuts
      BY <1>1, <1>6, ApplyIsOfState, OnlyLayerBEditsBlobs
    <3>3. QED
      BY <1>1, <1>2, <1>6, <1>3, <2>3, <3>1, <3>2, LayerRMatches
  <2>4. QED
    BY <2>2, <2>3
<1>7. CASE current_layer = "G"
  <2>1. LayerGHandleEvent(k)
    BY <1>7 DEF ApplyKeypress, HandleEvent, DefaultLayerHandleEvent,
       LayerRHandleEvent, LayerGHandleEvent, LayerBHandleEvent
  <2>2. CASE k = "XYZ" /\ ~g.prog
    <3>1. SwitchToLayer("B")
      BY <2>1, <2>2 DEF LayerGHandleEvent
    <3>2. model' = [ModelOf(<<>>) EXCEPT !.layer = "B"]
      BY <1>1, <1>7, <2>2, ApplyIsOfState DEF Model!ApplyG
    <3>3. QED
      BY <1>4, <3>1, <3>2 DEF LayerId
  <2>3. CASE ~(k = "XYZ" /\ ~g.prog)
    <3>1. b' = b /\ UNCHANGED blobLength
      BY <2>1, <2>3, Zenon DEF LayerGHandleEvent
    <3>2. model'.b.shortcuts = model.b.shortcuts
      BY <1>1, <1>7, ApplyIsOfState, OnlyLayerBEditsBlobs
    <3>3. QED
      BY <1>1, <1>7, <1>3, <2>3, <3>1, <3>2, LayerGMatches
  <2>4. QED
    BY <2>2, <2>3
<1>8. CASE current_layer = "B"
  <2>1. LayerBHandleEvent(k)
    BY <1>8 DEF ApplyKeypress, HandleEvent, DefaultLayerHandleEvent,
       LayerRHandleEvent, LayerGHandleEvent, LayerBHandleEvent
  <2>2. CASE k = "XYZ" /\ ~b.prog
    <3>1. SwitchToLayer("DFLT")
      BY <2>1, <2>2 DEF LayerBHandleEvent
    <3>2. model' = [ModelOf(<<>>) EXCEPT !.layer = "DFLT"]
      BY <1>1, <1>8, <2>2, ApplyIsOfState DEF Model!ApplyB
    <3>3. QED
      BY <1>4, <3>1, <3>2 DEF LayerId
  <2>3. CASE ~(k = "XYZ" /\ ~b.prog)
    BY <1>8, <2>3, LayerBMatches DEF OutputMatches
  <2>4. QED
    BY <2>2, <2>3
<1>9. QED
  BY <1>1, <1>5, <1>6, <1>7, <1>8 DEF LayerId

LEMMA TestNextInv == TestInv /\ [TestNext]_testVars => TestInv'
<1> SUFFICES ASSUME TestInv, [TestNext]_testVars PROVE TestInv'
  OBVIOUS
<1>1. ASSUME NEW k \in Keypress, ApplyKeypress(k) PROVE TestInv'
  <2>1. HandleEvent(k) /\ StoreContents /\ Inv
    BY <1>1 DEF ApplyKeypress, TestInv
  <2>2. Inv'
    BY <2>1, DefaultLayerInv, LayerRInv, LayerGInv, LayerBInv DEF HandleEvent
  <2>3. ShortcutsTyped'
    BY <2>1, ShortcutsStayTyped
  <2>4. QED
    BY <1>1, <2>2, <2>3, KeypressMatches DEF TestInv
<1>2. CASE PulseElapsesLater
  <2>1. Inv'
    <3>1. [Next]_vars
      BY <1>2 DEF PulseElapsesLater, Next
    <3>2. QED
      BY <3>1, NextInv DEF TestInv
  <2>2. /\ UNCHANGED <<current_layer, dflt, r, g, b, chars, wordLength, blobLength,
                       words, blobs>>
        /\ usb_buffer' = <<>> /\ model' = [model EXCEPT !.usb_buffer = <<>>]
    BY <1>2 DEF PulseElapsesLater, PulseElapses, layers, stored
  <2>3. ShortcutsTyped' /\ BlobsMatch' /\ b'.id \in 0..MaxId["B"]
    <3>1. model'.b.shortcuts = model.b.shortcuts
      <4>1. model' = [ModelOf(model.usb_buffer) EXCEPT !.usb_buffer = <<>>]
        BY <2>2, Zenon DEF TestInv
      <4>2. QED
        BY <4>1 DEF ModelOf
    <3>2. QED
      BY <2>2, <3>1 DEF TestInv, ShortcutsTyped, BlobsMatch, IsShortcutOf, OnEeprom1
  <2>4. model' = ModelOf(<<>>)'
    <3>1. model' = [ModelOf(model.usb_buffer) EXCEPT !.usb_buffer = <<>>]
      BY <2>2, Zenon DEF TestInv
    <3>2. QED
      BY <2>2, <3>1 DEF ModelOf
  <2>5. QED
    BY <2>1, <2>2, <2>3, <2>4 DEF TestInv, OutputMatches, ModelOf
<1>3. CASE UNCHANGED testVars
  <2>1. Inv'
    <3>1. [Next]_vars
      BY <1>3 DEF testVars
    <3>2. QED
      BY <3>1, NextInv DEF TestInv
  <2>2. UNCHANGED <<current_layer, dflt, r, g, b, chars, wordLength, blobLength,
                    words, blobs, usb_buffer, model, request, status>>
    BY <1>3 DEF testVars, vars, layers, stored
  <2>3. QED
    BY <2>1, <2>2 DEF TestInv, ShortcutsTyped, ModelOf, OutputMatches,
       AppendRefused, ShiftsNonLetter, BlobIsLost, BlobsMatch, IsShortcutOf,
       OnEeprom1
<1>4. QED
  BY <1>1, <1>2, <1>3 DEF TestNext

\* What the model shows without the entries that EEPROM_1 has not taken.
LEMMA StoredBlobs ==
  ASSUME TestInv
  PROVE  LET m == WithoutEeprom1 IN
         /\ m.layer = current_layer /\ m.dflt = dflt
         /\ m.r.id = r.id /\ m.r.mod = r.mod /\ m.r.prog = r.prog
         /\ m.r.shortcuts = chars
         /\ m.g.id = g.id /\ m.g.mod = g.mod /\ m.g.key = g.key
         /\ m.g.prog = g.prog /\ m.g.shortcuts = WordShortcuts(words)
         /\ m.b.id = b.id /\ m.b.mod = b.mod /\ m.b.key = b.key
         /\ m.b.prog = b.prog
         /\ \A i \in BlobIds : m.b.shortcuts[i] = BlobChars(blobs[i])
<1> DEFINE own == [i \in BlobIds |->
                     IF OnEeprom1(i) THEN <<>> ELSE model.b.shortcuts[i]]
<1>1. model = ModelOf(model.usb_buffer)
  BY DEF TestInv
<1>2. WithoutEeprom1 = [model EXCEPT !.b.shortcuts = own]
  BY <1>1 DEF WithoutEeprom1, ModelOf
<1>3. \A i \in BlobIds : own[i] = BlobChars(blobs[i])
  <2>1. \A i \in BlobIds : OnEeprom1(i) => BlobChars(blobs[i]) = <<>>
    BY CharactersFollowKeys DEF TestInv, BlobsMatch, IsShortcutOf
  <2>2. QED
    BY <2>1 DEF TestInv, BlobsMatch, IsShortcutOf
<1> HIDE DEF own
<1>4. QED
  BY <1>1, <1>2, <1>3 DEF ModelOf

\* After each keypress the device has the shortcuts of the model and shows its
\* LEDs, but for the blobs of EEPROM_1, which stay empty; it has typed what the
\* model types, but for a full word, a shift on a key that is no letter and a blob
\* of EEPROM_1.
THEOREM DeviceAlwaysMatchesModel == TestSpec => []DeviceMatchesModel
<1>1. TestSpec => []TestInv
  BY TestInitInv, TestNextInv, PTL DEF TestSpec
<1>2. TestInv => DeviceMatchesModel
  <2> SUFFICES ASSUME TestInv PROVE DeviceMatchesModel
    OBVIOUS
  <2>1. /\ model.r.shortcuts = chars
        /\ model.g.shortcuts = WordShortcuts(words)
    <3>1. model = ModelOf(model.usb_buffer)
      BY DEF TestInv
    <3>2. QED
      BY <3>1 DEF ModelOf
  <2>2. ShortcutsMatchModel
    <3>1. /\ \A i \in Uint8 : Len(words[i]) = wordLength[i]
          /\ \A i \in BlobIds : Len(blobs[i]) = blobLength[i]
      BY DEF TestInv, ShortcutsTyped
    <3>2. \A i \in Uint8 : WordChars(words[i]) = model.g.shortcuts[i]
      BY <2>1, ShortcutsFollow
    <3>3. \A i \in BlobIds : BlobChars(blobs[i]) = WithoutEeprom1.b.shortcuts[i]
      BY StoredBlobs
    <3>4. QED
      BY <2>1, <3>1, <3>2, <3>3, Zenon
      DEF ShortcutsMatchModel, WordChars, BlobChars
  <2>3. LedsMatchModel
    <3> DEFINE m == WithoutEeprom1
    <3>1. /\ g.id \in Uint8 /\ b.id \in BlobIds /\ ~NoSuchBlob
          /\ r.prog \in BOOLEAN /\ g.prog \in BOOLEAN /\ b.prog \in BOOLEAN
      <4>1. /\ g.id \in Uint8 /\ r.prog \in BOOLEAN /\ g.prog \in BOOLEAN
            /\ b.prog \in BOOLEAN
        BY DEF TestInv, Inv, TypeOK
      <4>2. b.id \in BlobIds
        BY PropertyTestAssumption, RangeAssumption DEF TestInv, BlobIds, Uint8
      <4>3. QED
        BY <4>1, <4>2 DEF NoSuchBlob
    <3>2. /\ m.layer = current_layer /\ m.dflt = dflt
          /\ m.r.id = r.id /\ m.r.mod = r.mod /\ m.r.prog = r.prog
          /\ m.r.shortcuts = chars
          /\ m.g.id = g.id /\ m.g.mod = g.mod /\ m.g.key = g.key
          /\ m.g.prog = g.prog
          /\ m.b.id = b.id /\ m.b.mod = b.mod /\ m.b.key = b.key
          /\ m.b.prog = b.prog
      BY StoredBlobs
    <3>3. /\ Len(m.g.shortcuts[g.id]) = wordLength[g.id]
          /\ Len(m.b.shortcuts[b.id]) = blobLength[b.id]
      BY <3>1, StoredBlobs, ShortcutsFollow
    <3>4. \A v : Model!Lit(v) = Lit(v)
      BY DEF Model!Lit, Lit
    <3> HIDE DEF m
    <3>5. leds = Model!LedSnapshot(m)
      <4>1. CASE current_layer = "DFLT" /\ ShowsDefault
        BY <3>2, <3>4, <4>1
        DEF Model!LedSnapshot, Model!Shown, ShowsDefault, Shows
      <4>2. CASE current_layer = "R" /\ ShowsLayerR
        BY <3>1, <3>2, <3>4, <4>2
        DEF Model!LedSnapshot, Model!SnapshotR, Model!Shown, ShowsLayerR, Shows
      <4>3. CASE current_layer = "G" /\ ShowsLayerG
        BY <3>1, <3>2, <3>3, <3>4, <4>3
        DEF Model!LedSnapshot, Model!SnapshotG, Model!Shown, ShowsLayerG, Shows
      <4>4. CASE current_layer = "B" /\ ShowsLayerB
        BY <3>1, <3>2, <3>3, <3>4, <4>4
        DEF Model!LedSnapshot, Model!SnapshotB, Model!Shown, ShowsLayerB, Shows
      <4>5. QED
        BY <3>1, <4>1, <4>2, <4>3, <4>4 DEF TestInv, Inv, LedsShowState
    <3>6. QED
      BY <3>5 DEF LedsMatchModel, m
  <2>4. QED
    BY <2>2, <2>3 DEF DeviceMatchesModel, TestInv, OutputMatches
<1>3. QED
  BY <1>1, <1>2, PTL

=============================================================================
