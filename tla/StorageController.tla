------------------------- MODULE StorageController -------------------------
(***************************************************************************)
(* The StorageController of the firmware: character, word and blob         *)
(* shortcuts laid out over the internal EEPROM of the MCU and two external *)
(* I2C EEPROMs.  Every byte written to or read from a device is a step of  *)
(* its own, because a device access can fail (the I2C EEPROM does not      *)
(* acknowledge) and the power can go between any two of them.  The         *)
(* firmware's event loop is single threaded: at most one operation is in   *)
(* progress, and `call' is its stack frame.                                *)
(*                                                                         *)
(* The layout constants of storage_controller.cpp are parameters.  The     *)
(* values of the code are in the comments; they satisfy LayoutAssumption   *)
(* (StorageProofs!CodeLayoutIsSound).                                      *)
(***************************************************************************)
EXTENDS Integers, Sequences

CONSTANTS
  NumIds,                            \* 256: a shortcut id is a uint8_t
  kInternalEepromLayerGLengthStart,  \* 0x100
  kInternalEepromLayerBLengthStart,  \* 0x200
  kEeprom0LayerBStart,               \* 0x1000
  kLayerBMaxIndex,                   \* 247
  kEeprom1LayerBStartShortcutId,     \* 120
  WordSlot,                          \* 16 bytes per word shortcut
  BlobSlot,                          \* 512 bytes per blob shortcut
  MaxWordLen,                        \* 15
  MaxBlobLen,                        \* 255
  InternalSize,                      \* 1024 bytes
  ExternalSize,                      \* 65,536 bytes, the range of uint16_t
  Characters,                        \* key codes the layers may store
  ModCodes,                          \* modifier codes the layers may store
  WordMods                           \* word modification codes requested

Byte == 0..255
Ids == 0..(NumIds - 1)
BlobIds == 0..kLayerBMaxIndex

\* Nothing in the layout overlaps and every slot ends inside its device.
LayoutIsSound ==
  /\ NumIds \in 1..256
  /\ kInternalEepromLayerGLengthStart \in Nat
  /\ kInternalEepromLayerBLengthStart \in Nat
  /\ kEeprom0LayerBStart \in Nat
  /\ kLayerBMaxIndex \in Ids
  /\ kEeprom1LayerBStartShortcutId \in Ids
  /\ WordSlot \in Nat /\ BlobSlot \in Nat
  /\ MaxWordLen \in 1..255 /\ MaxBlobLen \in 1..255
  /\ InternalSize \in Nat /\ ExternalSize \in Nat
  /\ NumIds <= kInternalEepromLayerGLengthStart
  /\ kInternalEepromLayerGLengthStart + NumIds
       <= kInternalEepromLayerBLengthStart
  /\ kInternalEepromLayerBLengthStart + kLayerBMaxIndex < InternalSize
  /\ MaxWordLen <= WordSlot
  /\ 2 * MaxBlobLen <= BlobSlot
  /\ NumIds * WordSlot <= kEeprom0LayerBStart
  /\ kEeprom0LayerBStart + kEeprom1LayerBStartShortcutId * BlobSlot
       <= ExternalSize
  /\ (kLayerBMaxIndex + 1 - kEeprom1LayerBStartShortcutId) * BlobSlot
       <= ExternalSize

ASSUME LayoutAssumption == LayoutIsSound

ASSUME InputAssumption ==
  /\ Characters \subseteq Byte
  /\ ModCodes \subseteq Byte
  /\ WordMods \subseteq Byte

VARIABLES
  internal,  \* contents of the MCU's EEPROM
  external,  \* contents of external_eeprom_0 and external_eeprom_1
  call,      \* the operation in progress: where it is and its locals
  sent,      \* keypresses the host received since the last send began
  result     \* what the last finished operation returned

vars == <<internal, external, call, sent, result>>

InternalAddresses == 0..(InternalSize - 1)
ExternalAddresses == 0..(ExternalSize - 1)
Devices == {0, 1}
-----------------------------------------------------------------------------
(***************************************************************************)
(* The EEPROM devices.  Both drivers store a value minus one, so that a    *)
(* byte of a blank EEPROM (0xFF) reads as zero.                            *)
(***************************************************************************)
Encode(v) == (v - 1) % 256

Decode(b) == (b + 1) % 256

ReadInternal(a) == Decode(internal[a])

ReadExternal(d, a) == Decode(external[d][a])

WriteInternal(a, v) == internal' = [internal EXCEPT ![a] = Encode(v)]

\* The driver reports success once the device has acknowledged the byte.
WriteExternal(d, a, v) == external' = [external EXCEPT ![d][a] = Encode(v)]

\* A byte the device took without the driver seeing the acknowledgement is
\* stored all the same.
FailToWriteExternal(d, a, v) == UNCHANGED external \/ WriteExternal(d, a, v)
-----------------------------------------------------------------------------
(***************************************************************************)
(* The layout.  Addresses of the external devices are uint16_t.            *)
(***************************************************************************)
WordLengthAddress(i) == kInternalEepromLayerGLengthStart + i

BlobLengthAddress(i) == kInternalEepromLayerBLengthStart + i

WordAddressHalfSlot(i, k) == (i * (WordSlot \div 2) + k) % ExternalSize

WordAddress(i, k) == (i * WordSlot + k) % ExternalSize

BlobDeviceOffByOne(i) == IF i > kEeprom1LayerBStartShortcutId THEN 1 ELSE 0

BlobDevice(i) == IF i >= kEeprom1LayerBStartShortcutId THEN 1 ELSE 0

BlobAddress(i, k) ==
  (IF i >= kEeprom1LayerBStartShortcutId
     THEN (i - kEeprom1LayerBStartShortcutId) * BlobSlot + k * 2
     ELSE kEeprom0LayerBStart + i * BlobSlot + k * 2) % ExternalSize

GetWordShortcutLength(i) == ReadInternal(WordLengthAddress(i))

GetBlobShortcutLength(i) == ReadInternal(BlobLengthAddress(i))
-----------------------------------------------------------------------------
(***************************************************************************)
(* Calling and returning.                                                  *)
(***************************************************************************)
Idle == [at |-> "idle", index |-> 0, character |-> 0, modcode |-> 0,
         length |-> 0, i |-> 0]

Frame(at, index, character, modcode, length) ==
  [at |-> at, index |-> index, character |-> character, modcode |-> modcode,
   length |-> length, i |-> 0]

Goto(at) == call' = [call EXCEPT !.at = at]

Return(value) == call' = Idle /\ result' = value

Init ==
  /\ internal = [a \in InternalAddresses |-> 255]
  /\ external = [d \in Devices |-> [a \in ExternalAddresses |-> 255]]
  /\ call = Idle
  /\ sent = <<>>
  /\ result = "none"
-----------------------------------------------------------------------------
(***************************************************************************)
(* Character shortcuts: one byte each.                                     *)
(***************************************************************************)
SetCharacterShortcut(index, character) ==
  /\ call = Idle
  /\ WriteInternal(index, character)
  /\ Return("true")
  /\ UNCHANGED <<external, sent>>

(***************************************************************************)
(* Word shortcuts.  An append writes the character first and the length    *)
(* that makes it visible last.                                             *)
(***************************************************************************)
AppendToWordShortcutUnbounded(index, character) ==
  /\ call = Idle
  /\ call' = Frame("word_char", index, character, 0,
                   GetWordShortcutLength(index))
  /\ UNCHANGED <<internal, external, sent, result>>

AppendToWordShortcut(index, character) ==
  LET length == GetWordShortcutLength(index) IN
  /\ call = Idle
  /\ IF length = MaxWordLen
       THEN Return("false")
       ELSE /\ call' = Frame("word_char", index, character, 0, length)
            /\ UNCHANGED result
  /\ UNCHANGED <<internal, external, sent>>

WriteWordCharacter ==
  LET address == WordAddress(call.index, call.length) IN
  /\ call.at = "word_char"
  /\ \/ /\ WriteExternal(0, address, call.character)
        /\ Goto("word_length")
        /\ UNCHANGED result
     \/ /\ FailToWriteExternal(0, address, call.character)
        /\ Return("false")
  /\ UNCHANGED <<internal, sent>>

WriteWordLength ==
  /\ call.at = "word_length"
  /\ WriteInternal(WordLengthAddress(call.index), call.length + 1)
  /\ Return("true")
  /\ UNCHANGED <<external, sent>>

ClearWordShortcut(index) ==
  /\ call = Idle
  /\ WriteInternal(WordLengthAddress(index), 0)
  /\ Return("true")
  /\ UNCHANGED <<external, sent>>
-----------------------------------------------------------------------------
(***************************************************************************)
(* Blob shortcuts: two bytes per keypress, the character and its modifiers.*)
(***************************************************************************)
AppendToBlobShortcutAnyId(index, character, modcode) ==
  LET length == GetBlobShortcutLength(index) IN
  /\ call = Idle
  /\ IF length = MaxBlobLen
       THEN Return("false")
       ELSE /\ call' = Frame("blob_char", index, character, modcode, length)
            /\ UNCHANGED result
  /\ UNCHANGED <<internal, external, sent>>

AppendToBlobShortcut(index, character, modcode) ==
  LET length == GetBlobShortcutLength(index) IN
  /\ call = Idle
  /\ IF index > kLayerBMaxIndex \/ length = MaxBlobLen
       THEN Return("false")
       ELSE /\ call' = Frame("blob_char", index, character, modcode, length)
            /\ UNCHANGED result
  /\ UNCHANGED <<internal, external, sent>>

WriteBlobCharacter ==
  LET device == BlobDevice(call.index)
      address == BlobAddress(call.index, call.length) IN
  /\ call.at = "blob_char"
  /\ \/ /\ WriteExternal(device, address, call.character)
        /\ Goto("blob_modcode")
        /\ UNCHANGED result
     \/ /\ FailToWriteExternal(device, address, call.character)
        /\ Return("false")
  /\ UNCHANGED <<internal, sent>>

WriteBlobModcodeRetrying ==
  LET device == BlobDevice(call.index)
      address == BlobAddress(call.index, call.length) + 1 IN
  /\ call.at = "blob_modcode"
  /\ \/ WriteExternal(device, address, call.modcode) /\ Goto("blob_length")
     \/ FailToWriteExternal(device, address, call.modcode) /\ Goto("blob_char")
  /\ UNCHANGED <<internal, sent, result>>

WriteBlobModcode ==
  LET device == BlobDevice(call.index)
      address == BlobAddress(call.index, call.length) + 1 IN
  /\ call.at = "blob_modcode"
  /\ \/ /\ WriteExternal(device, address, call.modcode)
        /\ Goto("blob_length")
        /\ UNCHANGED result
     \/ /\ FailToWriteExternal(device, address, call.modcode)
        /\ Return("false")
  /\ UNCHANGED <<internal, sent>>

WriteBlobLength ==
  /\ call.at = "blob_length"
  /\ WriteInternal(BlobLengthAddress(call.index), call.length + 1)
  /\ Return("true")
  /\ UNCHANGED <<external, sent>>

ClearBlobShortcut(index) ==
  /\ call = Idle
  /\ IF index > kLayerBMaxIndex
       THEN Return("false") /\ UNCHANGED internal
       ELSE Return("true") /\ WriteInternal(BlobLengthAddress(index), 0)
  /\ UNCHANGED <<external, sent>>
-----------------------------------------------------------------------------
(***************************************************************************)
(* Sending.  Both loops read one stored character, send it and go on; the  *)
(* word loop follows the last character with the punctuation its           *)
(* modification code asks for.                                             *)
(***************************************************************************)
UPPERCASE == 1
CAPITALISE == 2
APPEND_PERIOD == 3
APPEND_COMMA == 4
APPEND_HYPHEN == 5

\* usb_controller_->SendKeypress(k): a call that fails may have delivered the
\* press and lost the release.
SendKeypress(k) == sent' = Append(sent, k)
FailToSendKeypress(k) == UNCHANGED sent \/ SendKeypress(k)

Shifted(modcode, i) ==
  modcode = UPPERCASE \/ (modcode = CAPITALISE /\ i = 0)

Punctuation(modcode) ==
  CASE modcode = APPEND_PERIOD -> 55
    [] modcode = APPEND_COMMA -> 54
    [] modcode = APPEND_HYPHEN -> 45
    [] OTHER -> 0

BeginSend(at, index, modcode, length) ==
  /\ call = Idle
  /\ IF length = 0
       THEN Return("false") /\ UNCHANGED sent
       ELSE /\ call' = Frame(at, index, 0, modcode, length)
            /\ sent' = <<>>
            /\ UNCHANGED result
  /\ UNCHANGED <<internal, external>>

SendWordShortcut(index, modcode) ==
  BeginSend("send_word", index, modcode, GetWordShortcutLength(index))

SendBlobShortcut(index) ==
  IF index > kLayerBMaxIndex
    THEN call = Idle /\ Return("false") /\ UNCHANGED <<internal, external, sent>>
    ELSE BeginSend("send_blob", index, 0, GetBlobShortcutLength(index))

\* The end of a loop iteration: leave after the last character.
Advance ==
  IF call.i + 1 = call.length
    THEN Return("true")
    ELSE call' = [call EXCEPT !.i = @ + 1] /\ UNCHANGED result

WordKeypress ==
  <<ReadExternal(0, WordAddress(call.index, call.i)),
    IF Shifted(call.modcode, call.i) THEN 2 ELSE 0>>

PunctuationFollows ==
  /\ ~Shifted(call.modcode, call.i)
  /\ call.i = call.length - 1
  /\ Punctuation(call.modcode) > 0

SendWordCharacter ==
  /\ call.at = "send_word"
  /\ \/ /\ SendKeypress(WordKeypress)
        /\ IF PunctuationFollows
             THEN Goto("send_append") /\ UNCHANGED result
             ELSE Advance
     \/ /\ FailToSendKeypress(WordKeypress)  \* or the character was not read
        /\ Return("false")
  /\ UNCHANGED <<internal, external>>

SendPunctuation ==
  LET keypress == <<Punctuation(call.modcode), 0>> IN
  /\ call.at = "send_append"
  /\ \/ SendKeypress(keypress) /\ Advance
     \/ FailToSendKeypress(keypress) /\ Return("false")
  /\ UNCHANGED <<internal, external>>

BlobKeypress ==
  LET device == BlobDevice(call.index)
      address == BlobAddress(call.index, call.i) IN
  <<ReadExternal(device, address), ReadExternal(device, address + 1)>>

SendBlobKeypress ==
  /\ call.at = "send_blob"
  /\ \/ SendKeypress(BlobKeypress) /\ Advance
     \/ /\ FailToSendKeypress(BlobKeypress)  \* or one of the bytes was not read
        /\ Return("false")
  /\ UNCHANGED <<internal, external>>

\* The USB cable is pulled: the EEPROMs keep their contents, RAM does not.
PowerLoss ==
  /\ call' = Idle
  /\ sent' = <<>>
  /\ result' = "none"
  /\ UNCHANGED <<internal, external>>

Next ==
  \/ \E i \in Ids, c \in Characters : SetCharacterShortcut(i, c)
  \/ \E i \in Ids, c \in Characters : AppendToWordShortcut(i, c)
  \/ WriteWordCharacter
  \/ WriteWordLength
  \/ \E i \in Ids : ClearWordShortcut(i)
  \/ \E i \in Ids, c \in Characters, m \in ModCodes :
       AppendToBlobShortcut(i, c, m)
  \/ WriteBlobCharacter
  \/ WriteBlobModcode
  \/ WriteBlobLength
  \/ \E i \in Ids : ClearBlobShortcut(i)
  \/ \E i \in Ids, m \in WordMods : SendWordShortcut(i, m)
  \/ \E i \in Ids : SendBlobShortcut(i)
  \/ SendWordCharacter
  \/ SendPunctuation
  \/ SendBlobKeypress
  \/ PowerLoss

Spec == Init /\ [][Next]_vars

\* Every operation runs to its return unless the power goes.
InProgress ==
  \/ WriteWordCharacter \/ WriteWordLength
  \/ WriteBlobCharacter \/ WriteBlobModcode \/ WriteBlobLength
  \/ SendWordCharacter \/ SendPunctuation \/ SendBlobKeypress

FairSpec == Spec /\ WF_vars(InProgress)
-----------------------------------------------------------------------------
(***************************************************************************)
(* Properties.                                                             *)
(***************************************************************************)
Positions == {"idle", "word_char", "word_length", "blob_char", "blob_modcode",
              "blob_length", "send_word", "send_append", "send_blob"}

\* The EEPROMs hold bytes, and the frame of the operation in progress holds
\* ids, bytes and loop counters of the width the code gives them.
TypeOK ==
  /\ internal \in [InternalAddresses -> Byte]
  /\ external \in [Devices -> [ExternalAddresses -> Byte]]
  /\ call \in [at : Positions, index : Ids, character : Byte, modcode : Byte,
               length : Byte, i : Byte]
  /\ sent \in Seq(Byte \X Byte)
  /\ result \in {"none", "true", "false"}

\* The shortcut tables the EEPROM contents stand for.
StoredChars == [i \in Ids |-> ReadInternal(i)]

StoredWord(i) ==
  [k \in 1..GetWordShortcutLength(i) |-> ReadExternal(0, WordAddress(i, k - 1))]

StoredBlob(i) ==
  [k \in 1..GetBlobShortcutLength(i) |->
     <<ReadExternal(BlobDevice(i), BlobAddress(i, k - 1)),
       ReadExternal(BlobDevice(i), BlobAddress(i, k - 1) + 1)>>]

StoredSending ==
  IF call.at \in {"send_word", "send_append"}
    THEN [kind |-> "word", index |-> call.index, modcode |-> call.modcode]
  ELSE IF call.at = "send_blob"
    THEN [kind |-> "blob", index |-> call.index, modcode |-> 0]
  ELSE [kind |-> "none", index |-> 0, modcode |-> 0]

Store == INSTANCE ShortcutStore WITH
  chars <- StoredChars,
  words <- [i \in Ids |-> StoredWord(i)],
  blobs <- [i \in BlobIds |-> StoredBlob(i)],
  sending <- StoredSending

\* The byte-level controller implements the shortcut store: operations are
\* atomic under device failure and power loss, an operation that returns false
\* has changed no shortcut, no operation disturbs a neighbouring shortcut, and
\* a send types exactly the stored text, or a prefix of it when it fails.
ImplementsShortcutStore == Store!Spec

\* No length byte ever exceeds its slot, and an append in progress still sees
\* the length it read: between the check for a full slot and the write of the
\* new length nothing else changes it.
LengthsFitSlots ==
  /\ \A i \in Ids : GetWordShortcutLength(i) <= MaxWordLen
  /\ \A i \in BlobIds : GetBlobShortcutLength(i) <= MaxBlobLen
  /\ call.at \in {"word_char", "word_length"} =>
       /\ call.length = GetWordShortcutLength(call.index)
       /\ call.length < MaxWordLen
  /\ call.at \in {"blob_char", "blob_modcode", "blob_length"} =>
       /\ call.index \in BlobIds
       /\ call.length = GetBlobShortcutLength(call.index)
       /\ call.length < MaxBlobLen

\* Every operation returns: the loops over a stored shortcut end, whatever
\* fails on the way.
OperationsReturn == call # Idle ~> call = Idle

=============================================================================
