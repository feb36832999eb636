--------------------------- MODULE StorageProofs ---------------------------
(***************************************************************************)
(* Proofs about the storage controller, for every layout that satisfies    *)
(* LayoutIsSound; CodeLayoutIsSound shows that the layout of the code does.*)
(*                                                                         *)
(* First what the addresses are: within a sound layout no 16-bit address   *)
(* wraps, and two different stored characters never share a byte.  Then    *)
(* the invariant: EEPROMs hold bytes, every length fits its slot, and the  *)
(* frame of the operation in progress agrees with the length it read.      *)
(* Last that the byte-level StorageController implements the ShortcutStore:*)
(* initial states map to initial states, and every step, a failed device   *)
(* access or a power loss included, maps to a step of the store or to none *)
(* at all.                                                                 *)
(***************************************************************************)
EXTENDS StorageController, SequenceTheorems, TLAPS

\* A byte written through a driver reads back as it was, wrapped or not.
LEMMA Codec ==
  ASSUME NEW v \in Byte
  PROVE  Encode(v) \in Byte /\ Decode(v) \in Byte /\ Decode(Encode(v)) = v
BY DEF Encode, Decode, Byte

\* A slot ends before any later slot begins.
LEMMA SlotOrder ==
  ASSUME NEW s \in Nat, NEW i \in Nat, NEW j \in Nat, i < j
  PROVE  i * s + s <= j * s
<1>1. PICK d \in Nat : j = i + 1 + d
  <2>1. j - i - 1 \in Nat /\ j = i + 1 + (j - i - 1) OBVIOUS
  <2> QED BY <2>1
<1>2. d * s \in Nat /\ i * s \in Nat  BY SMT
<1>3. j * s = i * s + s + d * s BY <1>1, SMT
<1> QED BY <1>2, <1>3

\* An address inside a slot determines the slot and the offset.
LEMMA SlotsDisjoint ==
  ASSUME NEW s \in Nat, NEW i \in Nat, NEW j \in Nat,
         NEW a \in Nat, NEW b \in Nat, a < s, b < s, i * s + a = j * s + b
  PROVE  i = j /\ a = b
<1>1. i * s \in Nat /\ j * s \in Nat BY SMT
<1>2. CASE i < j BY <1>1, <1>2, SlotOrder
<1>3. CASE j < i BY <1>1, <1>3, SlotOrder
<1>4. CASE i = j BY <1>1, <1>4
<1> QED BY <1>2, <1>3, <1>4

\* The 16-bit address of a stored word's character does not wrap.
LEMMA WordAddressIs ==
  ASSUME NEW i \in Ids, NEW k \in 0..(MaxWordLen - 1)
  PROVE  /\ WordAddress(i, k) = i * WordSlot + k
         /\ i * WordSlot \in Nat
         /\ WordAddress(i, k) \in ExternalAddresses
         /\ WordAddress(i, k) < kEeprom0LayerBStart
<1> USE LayoutAssumption DEF LayoutIsSound, Ids
<1>1. i \in Nat /\ NumIds \in Nat /\ i < NumIds /\ k \in Nat /\ k < WordSlot
  OBVIOUS
<1>2. i * WordSlot + WordSlot <= NumIds * WordSlot BY <1>1, SlotOrder
<1>3. i * WordSlot \in Nat /\ NumIds * WordSlot \in Nat BY <1>1, SMT
<1>4. kEeprom1LayerBStartShortcutId * BlobSlot \in Nat BY SMT
<1>5. i * WordSlot + k < kEeprom0LayerBStart BY <1>1, <1>2, <1>3
<1>6. i * WordSlot + k \in 0..(ExternalSize - 1) BY <1>1, <1>3, <1>4, <1>5
<1>7. \A x \in 0..(ExternalSize - 1) : x % ExternalSize = x OBVIOUS
<1> QED BY <1>3, <1>5, <1>6, <1>7 DEF WordAddress, ExternalAddresses

\* No two positions of word shortcuts share a byte.
LEMMA WordAddressesDiffer ==
  ASSUME NEW i \in Ids, NEW k \in 0..(MaxWordLen - 1),
         NEW j \in Ids, NEW l \in 0..(MaxWordLen - 1),
         WordAddress(i, k) = WordAddress(j, l)
  PROVE  i = j /\ k = l
<1>1. i * WordSlot + k = j * WordSlot + l BY WordAddressIs
<1>2. /\ WordSlot \in Nat /\ i \in Nat /\ j \in Nat /\ k \in Nat /\ l \in Nat
      /\ k < WordSlot /\ l < WordSlot
  BY LayoutAssumption DEF LayoutIsSound, Ids
<1> QED BY <1>1, <1>2, SlotsDisjoint

\* The slot of blob i starts at SlotBase(i) + BlobRow(i) * BlobSlot.
SlotBase(i) ==
  IF i >= kEeprom1LayerBStartShortcutId THEN 0 ELSE kEeprom0LayerBStart

BlobRow(i) ==
  IF i >= kEeprom1LayerBStartShortcutId
    THEN i - kEeprom1LayerBStartShortcutId ELSE i

\* The 16-bit address of a stored blob's keypress does not wrap, and its second
\* byte is inside the device too.
LEMMA BlobAddressIs ==
  ASSUME NEW i \in BlobIds, NEW k \in 0..(MaxBlobLen - 1)
  PROVE  /\ BlobAddress(i, k) = SlotBase(i) + BlobRow(i) * BlobSlot + 2 * k
         /\ BlobRow(i) * BlobSlot \in Nat
         /\ BlobAddress(i, k) \in ExternalAddresses
         /\ BlobAddress(i, k) + 1 \in ExternalAddresses
         /\ BlobDevice(i) \in Devices
         /\ BlobDevice(i) = 0 => BlobAddress(i, k) >= kEeprom0LayerBStart
<1> USE LayoutAssumption DEF LayoutIsSound, BlobIds, Ids
<1>1. /\ i \in Nat /\ k \in Nat /\ BlobSlot \in Nat /\ 2 * k + 1 < BlobSlot
      /\ kEeprom1LayerBStartShortcutId \in Nat /\ kLayerBMaxIndex \in Nat
      /\ kEeprom0LayerBStart \in Nat
  OBVIOUS
<1>2. BlobRow(i) \in Nat BY <1>1 DEF BlobRow
<1>3. BlobRow(i) * BlobSlot \in Nat BY <1>1, <1>2, SMT
<1>4. \A x \in 0..(ExternalSize - 1) : x % ExternalSize = x OBVIOUS
<1>5. CASE i >= kEeprom1LayerBStartShortcutId
  <2> DEFINE n == kLayerBMaxIndex + 1 - kEeprom1LayerBStartShortcutId
  <2>1. n \in Nat /\ BlobRow(i) < n BY <1>1, <1>5 DEF BlobRow
  <2>2. BlobRow(i) * BlobSlot + BlobSlot <= n * BlobSlot
    BY <1>1, <1>2, <2>1, SlotOrder
  <2>3. n * BlobSlot \in Nat /\ n * BlobSlot <= ExternalSize
    BY <1>1, <2>1, SMT
  <2> HIDE DEF n
  <2>4. BlobRow(i) * BlobSlot + 2 * k + 1 \in 0..(ExternalSize - 1)
    BY <1>1, <1>3, <2>2, <2>3
  <2>5. BlobRow(i) * BlobSlot + 2 * k \in 0..(ExternalSize - 1)
    BY <1>1, <1>3, <2>4
  <2>6. BlobAddress(i, k) = BlobRow(i) * BlobSlot + 2 * k
    BY <1>1, <1>3, <1>4, <1>5, <2>5 DEF BlobAddress, BlobRow
  <2> QED
    BY <1>1, <1>3, <1>5, <2>4, <2>5, <2>6
    DEF SlotBase, BlobDevice, Devices, ExternalAddresses
<1>6. CASE ~(i >= kEeprom1LayerBStartShortcutId)
  <2>1. BlobRow(i) = i /\ i < kEeprom1LayerBStartShortcutId
    BY <1>1, <1>6 DEF BlobRow
  <2>2. i * BlobSlot + BlobSlot <= kEeprom1LayerBStartShortcutId * BlobSlot
    BY <1>1, <2>1, SlotOrder
  <2>3. kEeprom1LayerBStartShortcutId * BlobSlot \in Nat BY <1>1, SMT
  <2>4. i * BlobSlot \in Nat BY <1>3, <2>1
  <2>5. kEeprom0LayerBStart + i * BlobSlot + 2 * k + 1 \in 0..(ExternalSize - 1)
    BY <1>1, <2>2, <2>3, <2>4
  <2>6. kEeprom0LayerBStart + i * BlobSlot + 2 * k \in 0..(ExternalSize - 1)
    BY <1>1, <2>4, <2>5
  <2>7. BlobAddress(i, k) = kEeprom0LayerBStart + i * BlobSlot + 2 * k
    BY <1>1, <1>4, <1>6, <2>4, <2>6 DEF BlobAddress
  <2> QED
    BY <1>1, <1>6, <2>1, <2>4, <2>5, <2>6, <2>7
    DEF SlotBase, BlobDevice, Devices, ExternalAddresses
<1> QED BY <1>5, <1>6

\* No two positions of blob shortcuts share a byte.
LEMMA BlobAddressesDiffer ==
  ASSUME NEW i \in BlobIds, NEW k \in 0..(MaxBlobLen - 1),
         NEW j \in BlobIds, NEW l \in 0..(MaxBlobLen - 1),
         BlobDevice(i) = BlobDevice(j),
         NEW b \in {0, 1}, NEW c \in {0, 1},
         BlobAddress(i, k) + b = BlobAddress(j, l) + c
  PROVE  i = j /\ k = l /\ b = c
<1>1. /\ i \in Nat /\ j \in Nat /\ k \in Nat /\ l \in Nat /\ BlobSlot \in Nat
      /\ 2 * k + b \in Nat /\ 2 * l + c \in Nat
      /\ 2 * k + b < BlobSlot /\ 2 * l + c < BlobSlot
      /\ kEeprom1LayerBStartShortcutId \in Nat /\ kEeprom0LayerBStart \in Nat
  BY LayoutAssumption DEF LayoutIsSound, BlobIds, Ids
<1>2. SlotBase(i) = SlotBase(j) /\ SlotBase(i) \in Nat
  BY <1>1 DEF SlotBase, BlobDevice
<1>3. BlobRow(i) \in Nat /\ BlobRow(j) \in Nat BY <1>1 DEF BlobRow
<1>4. BlobRow(i) * BlobSlot \in Nat /\ BlobRow(j) * BlobSlot \in Nat
  BY BlobAddressIs
<1>5. BlobRow(i) * BlobSlot + (2 * k + b) = BlobRow(j) * BlobSlot + (2 * l + c)
  <2>1. /\ BlobAddress(i, k) = SlotBase(i) + BlobRow(i) * BlobSlot + 2 * k
        /\ BlobAddress(j, l) = SlotBase(j) + BlobRow(j) * BlobSlot + 2 * l
    BY BlobAddressIs
  <2> QED BY <1>1, <1>2, <1>4, <2>1
<1>6. BlobRow(i) = BlobRow(j) /\ 2 * k + b = 2 * l + c
  <2> DEFINE s == BlobSlot
             p == BlobRow(i)
             q == BlobRow(j)
             m == 2 * k + b
             n == 2 * l + c
  <2>1. /\ s \in Nat /\ p \in Nat /\ q \in Nat /\ m \in Nat /\ n \in Nat
        /\ m < s /\ n < s /\ p * s + m = q * s + n
    BY <1>1, <1>3, <1>5
  <2> HIDE DEF s, p, q, m, n
  <2>2. p = q /\ m = n BY <2>1, SlotsDisjoint
  <2> QED BY <2>2 DEF p, q, m, n
<1>7. i = j BY <1>1, <1>6 DEF BlobRow, BlobDevice
<1>8. k = l /\ b = c BY <1>1, <1>6
<1> QED BY <1>7, <1>8
-----------------------------------------------------------------------------
(***************************************************************************)
(* Reading after writing.                                                  *)
(***************************************************************************)
LEMMA InternalAddress ==
  /\ \A i \in Ids : i \in InternalAddresses
  /\ \A i \in Ids : WordLengthAddress(i) \in InternalAddresses
  /\ \A i \in BlobIds : BlobLengthAddress(i) \in InternalAddresses
  /\ \A i, j \in Ids : i # WordLengthAddress(j)
  /\ \A i \in Ids, j \in BlobIds :
       i # BlobLengthAddress(j) /\ WordLengthAddress(i) # BlobLengthAddress(j)
  /\ \A i, j \in Ids : WordLengthAddress(i) = WordLengthAddress(j) => i = j
  /\ \A i, j \in BlobIds : BlobLengthAddress(i) = BlobLengthAddress(j) => i = j
<1>1. /\ \A i \in Ids : i \in Nat /\ i < NumIds
      /\ \A i \in BlobIds : i \in Nat /\ i <= kLayerBMaxIndex
      /\ NumIds \in Nat /\ kLayerBMaxIndex \in Nat
      /\ kLayerBMaxIndex < NumIds /\ InternalSize \in Nat
      /\ kInternalEepromLayerGLengthStart \in Nat
      /\ kInternalEepromLayerBLengthStart \in Nat
      /\ NumIds <= kInternalEepromLayerGLengthStart
      /\ kInternalEepromLayerGLengthStart + NumIds
           <= kInternalEepromLayerBLengthStart
      /\ kInternalEepromLayerBLengthStart + kLayerBMaxIndex < InternalSize
  BY LayoutAssumption DEF LayoutIsSound, Ids, BlobIds
<1>2. \A i \in Ids : WordLengthAddress(i) \in InternalAddresses
  BY <1>1 DEF WordLengthAddress, InternalAddresses
<1>3. \A i \in BlobIds : BlobLengthAddress(i) \in InternalAddresses
  BY <1>1 DEF BlobLengthAddress, InternalAddresses
<1>4. \A i \in Ids : i \in InternalAddresses
  <2> SUFFICES ASSUME NEW i \in Ids PROVE i \in InternalAddresses OBVIOUS
  <2>1. i \in Nat /\ i < InternalSize BY <1>1
  <2> QED BY <1>1, <2>1 DEF InternalAddresses
<1>5. \A i, j \in Ids : i # WordLengthAddress(j)
  BY <1>1 DEF WordLengthAddress
<1>6. \A i \in Ids, j \in BlobIds :
        i # BlobLengthAddress(j) /\ WordLengthAddress(i) # BlobLengthAddress(j)
  BY <1>1 DEF WordLengthAddress, BlobLengthAddress
<1>7. \A i, j \in Ids : WordLengthAddress(i) = WordLengthAddress(j) => i = j
  BY <1>1 DEF WordLengthAddress
<1>8. \A i, j \in BlobIds : BlobLengthAddress(i) = BlobLengthAddress(j) => i = j
  BY <1>1 DEF BlobLengthAddress
<1> QED BY <1>2, <1>3, <1>4, <1>5, <1>6, <1>7, <1>8

\* A byte written to the internal EEPROM is the one byte that changes.
LEMMA InternalWritten ==
  ASSUME TypeOK, NEW a \in InternalAddresses, NEW v \in Byte,
         WriteInternal(a, v)
  PROVE  /\ internal' \in [InternalAddresses -> Byte]
         /\ ReadInternal(a)' = v
         /\ \A b \in InternalAddresses : b # a => ReadInternal(b)' = ReadInternal(b)
BY Codec DEF TypeOK, WriteInternal, ReadInternal

\* A byte written to an external EEPROM is the one byte that changes.
LEMMA ExternalWritten ==
  ASSUME TypeOK, NEW d \in Devices, NEW a \in ExternalAddresses, NEW v \in Byte,
         WriteExternal(d, a, v)
  PROVE  /\ external' \in [Devices -> [ExternalAddresses -> Byte]]
         /\ ReadExternal(d, a)' = v
         /\ \A e \in Devices, b \in ExternalAddresses :
              <<e, b>> # <<d, a>> => ReadExternal(e, b)' = ReadExternal(e, b)
<1>1. Encode(v) \in Byte /\ Decode(Encode(v)) = v BY Codec
<1>2. external' = [external EXCEPT ![d][a] = Encode(v)] BY DEF WriteExternal
<1>3. external \in [Devices -> [ExternalAddresses -> Byte]] BY DEF TypeOK
<1>4. external' \in [Devices -> [ExternalAddresses -> Byte]] BY <1>1, <1>2, <1>3
<1>5. external'[d][a] = Encode(v) BY <1>2, <1>3
<1>6. \A e \in Devices, b \in ExternalAddresses :
        <<e, b>> # <<d, a>> => external'[e][b] = external[e][b]
  BY <1>2, <1>3
<1> QED BY <1>1, <1>4, <1>5, <1>6 DEF ReadExternal

\* What the drivers read from EEPROMs that hold bytes is a byte.
LEMMA ReadsAreBytes ==
  ASSUME TypeOK
  PROVE  /\ \A a \in InternalAddresses : ReadInternal(a) \in Byte
         /\ \A d \in Devices, a \in ExternalAddresses : ReadExternal(d, a) \in Byte
         /\ \A i \in Ids : GetWordShortcutLength(i) \in Byte
         /\ \A i \in BlobIds : GetBlobShortcutLength(i) \in Byte
<1>1. /\ \A a \in InternalAddresses : internal[a] \in Byte
      /\ \A d \in Devices, a \in ExternalAddresses : external[d][a] \in Byte
  BY DEF TypeOK
<1>2. \A v \in Byte : Decode(v) \in Byte BY Codec
<1> QED
  BY <1>1, <1>2, InternalAddress
  DEF ReadInternal, ReadExternal, GetWordShortcutLength, GetBlobShortcutLength
-----------------------------------------------------------------------------
(***************************************************************************)
(* The inductive invariant.  LengthsFitSlots is not inductive by itself:   *)
(* the loop of a send keeps its counter below the stored length, and an    *)
(* append that is about to publish a new length has already stored the     *)
(* bytes the length makes visible.                                         *)
(***************************************************************************)
BytesStored ==
  /\ call.at = "word_length" =>
       ReadExternal(0, WordAddress(call.index, call.length)) = call.character
  /\ call.at \in {"blob_modcode", "blob_length"} =>
       ReadExternal(BlobDevice(call.index), BlobAddress(call.index, call.length))
         = call.character
  /\ call.at = "blob_length" =>
       ReadExternal(BlobDevice(call.index),
                    BlobAddress(call.index, call.length) + 1) = call.modcode

SendOnTrack ==
  /\ call.at \in {"send_word", "send_append"} =>
       call.length = GetWordShortcutLength(call.index)
  /\ call.at = "send_blob" =>
       /\ call.index \in BlobIds
       /\ call.length = GetBlobShortcutLength(call.index)
       /\ call.modcode = 0
  /\ call.at \in {"send_word", "send_blob"} => Len(sent) = call.i
  /\ call.at \in {"send_word", "send_append", "send_blob"} =>
       call.i < call.length
  /\ call.at = "send_append" => PunctuationFollows /\ Len(sent) = call.length

Inv == TypeOK /\ LengthsFitSlots /\ BytesStored /\ SendOnTrack
-----------------------------------------------------------------------------
(***************************************************************************)
(* The three ways a step can leave the invariant intact: it returns, it    *)
(* begins an operation, or it carries one on.                              *)
(***************************************************************************)
LengthsBounded ==
  /\ \A i \in Ids : GetWordShortcutLength(i) <= MaxWordLen
  /\ \A i \in BlobIds : GetBlobShortcutLength(i) <= MaxBlobLen

\* Lengths live in the internal EEPROM only.
LEMMA LengthsKept ==
  ASSUME UNCHANGED internal
  PROVE  /\ \A i : GetWordShortcutLength(i)' = GetWordShortcutLength(i)
         /\ \A i : GetBlobShortcutLength(i)' = GetBlobShortcutLength(i)
         /\ LengthsBounded => LengthsBounded'
BY DEF GetWordShortcutLength, GetBlobShortcutLength, ReadInternal, LengthsBounded

\* An operation that returns leaves no frame behind to keep an invariant of.
LEMMA ReturnKeepsInv ==
  ASSUME LengthsBounded',
         internal' \in [InternalAddresses -> Byte],
         external' \in [Devices -> [ExternalAddresses -> Byte]],
         sent' \in Seq(Byte \X Byte),
         call' = Idle, result' \in {"none", "true", "false"}
  PROVE  Inv'
<1>1. /\ call'.at = "idle" /\ call'.index = 0 /\ call'.character = 0
      /\ call'.modcode = 0 /\ call'.length = 0 /\ call'.i = 0
  BY DEF Idle
<1>2. 0 \in Ids /\ 0 \in Byte BY LayoutAssumption DEF LayoutIsSound, Ids, Byte
<1>3. TypeOK'
  BY <1>2 DEF TypeOK, Idle, Positions
<1>4. LengthsFitSlots' BY <1>1 DEF LengthsFitSlots, LengthsBounded
<1>5. BytesStored' BY <1>1 DEF BytesStored
<1>6. SendOnTrack' BY <1>1 DEF SendOnTrack
<1> QED BY <1>3, <1>4, <1>5, <1>6 DEF Inv

\* The parts of the invariant the lemmas below cite.
LEMMA InvGives ==
  ASSUME Inv
  PROVE  /\ TypeOK /\ LengthsBounded
         /\ call.at \in Positions /\ call.index \in Ids /\ call.character \in Byte
         /\ call.modcode \in Byte /\ call.length \in Byte /\ call.i \in Byte
         /\ call.at \in {"word_char", "word_length"} =>
              /\ WordAddress(call.index, call.length) \in ExternalAddresses
              /\ call.length + 1 \in Byte /\ call.length + 1 <= MaxWordLen
         /\ call.at \in {"blob_char", "blob_modcode", "blob_length"} =>
              /\ BlobAddress(call.index, call.length) \in ExternalAddresses
              /\ BlobAddress(call.index, call.length) + 1 \in ExternalAddresses
              /\ BlobDevice(call.index) \in Devices
              /\ call.length + 1 \in Byte /\ call.length + 1 <= MaxBlobLen
<1>1. TypeOK /\ LengthsBounded BY DEF Inv, LengthsFitSlots, LengthsBounded
<1>2. /\ call.at \in Positions /\ call.index \in Ids /\ call.character \in Byte
      /\ call.modcode \in Byte /\ call.length \in Byte /\ call.i \in Byte
  BY <1>1 DEF TypeOK
<1>3. MaxWordLen \in 1..255 /\ MaxBlobLen \in 1..255 BY LayoutAssumption DEF LayoutIsSound
<1>4. ASSUME call.at \in {"word_char", "word_length"}
      PROVE  /\ call.length \in 0..(MaxWordLen - 1)
             /\ call.length + 1 \in Byte /\ call.length + 1 <= MaxWordLen
  <2>1. call.length < MaxWordLen
    BY <1>4, Zenon DEF Inv, LengthsFitSlots
  <2>2. call.length \in Nat BY <1>2 DEF Byte
  <2> QED BY <1>3, <2>1, <2>2 DEF Byte
<1>5. ASSUME call.at \in {"blob_char", "blob_modcode", "blob_length"}
      PROVE  /\ call.length \in 0..(MaxBlobLen - 1) /\ call.index \in BlobIds
             /\ call.length + 1 \in Byte /\ call.length + 1 <= MaxBlobLen
  <2>1. call.index \in BlobIds /\ call.length < MaxBlobLen
    BY <1>5, Zenon DEF Inv, LengthsFitSlots
  <2>2. call.length \in Nat BY <1>2 DEF Byte
  <2> QED BY <1>3, <2>1, <2>2 DEF Byte
<1>6. ASSUME call.at \in {"word_char", "word_length"}
      PROVE  WordAddress(call.index, call.length) \in ExternalAddresses
  BY <1>2, <1>4, <1>6, WordAddressIs
<1>7. ASSUME call.at \in {"blob_char", "blob_modcode", "blob_length"}
      PROVE  /\ BlobAddress(call.index, call.length) \in ExternalAddresses
             /\ BlobAddress(call.index, call.length) + 1 \in ExternalAddresses
             /\ BlobDevice(call.index) \in Devices
  BY <1>5, <1>7, BlobAddressIs
<1> QED BY <1>1, <1>2, <1>4, <1>5, <1>6, <1>7, Zenon

\* A keypress, sent or lost, extends what the host received by at most itself.
LEMMA SentExtends ==
  ASSUME TypeOK, NEW k \in Byte \X Byte
  PROVE  /\ SendKeypress(k) =>
              sent' \in Seq(Byte \X Byte) /\ Len(sent') = Len(sent) + 1
         /\ FailToSendKeypress(k) => sent' \in Seq(Byte \X Byte)
<1> DEFINE S == Byte \X Byte
<1>1. sent \in Seq(S) /\ k \in S BY DEF TypeOK
<1> HIDE DEF S
<1>2. Append(sent, k) \in Seq(S) /\ Len(Append(sent, k)) = Len(sent) + 1
  BY <1>1
<1>3. SendKeypress(k) => sent' \in Seq(S) /\ Len(sent') = Len(sent) + 1
  BY <1>2 DEF SendKeypress
<1>4. FailToSendKeypress(k) => sent' \in Seq(S)
  BY <1>1, <1>3 DEF FailToSendKeypress
<1> QED BY <1>3, <1>4 DEF S

\* Writing a word's length within its slot keeps every length within its slot.
LEMMA WordLengthWritten ==
  ASSUME TypeOK, LengthsBounded, NEW i \in Ids, NEW v \in Byte,
         v <= MaxWordLen, WriteInternal(WordLengthAddress(i), v)
  PROVE  /\ LengthsBounded' /\ internal' \in [InternalAddresses -> Byte]
         /\ GetWordShortcutLength(i)' = v
         /\ \A j \in Ids : j # i =>
              GetWordShortcutLength(j)' = GetWordShortcutLength(j)
         /\ \A j \in BlobIds : GetBlobShortcutLength(j)' = GetBlobShortcutLength(j)
         /\ \A j \in Ids : ReadInternal(j)' = ReadInternal(j)
<1>1. WordLengthAddress(i) \in InternalAddresses BY InternalAddress
<1>2. /\ internal' \in [InternalAddresses -> Byte]
      /\ ReadInternal(WordLengthAddress(i))' = v
      /\ \A b \in InternalAddresses :
           b # WordLengthAddress(i) => ReadInternal(b)' = ReadInternal(b)
  BY <1>1, InternalWritten
<1>3. BlobIds \subseteq Ids BY LayoutAssumption DEF LayoutIsSound, BlobIds, Ids
<1> QED
  BY <1>2, <1>3, InternalAddress
  DEF LengthsBounded, GetWordShortcutLength, GetBlobShortcutLength

\* Writing a blob's length within its slot keeps every length within its slot.
LEMMA BlobLengthWritten ==
  ASSUME TypeOK, LengthsBounded, NEW i \in BlobIds, NEW v \in Byte,
         v <= MaxBlobLen, WriteInternal(BlobLengthAddress(i), v)
  PROVE  /\ LengthsBounded' /\ internal' \in [InternalAddresses -> Byte]
         /\ GetBlobShortcutLength(i)' = v
         /\ \A j \in BlobIds : j # i =>
              GetBlobShortcutLength(j)' = GetBlobShortcutLength(j)
         /\ \A j \in Ids : GetWordShortcutLength(j)' = GetWordShortcutLength(j)
         /\ \A j \in Ids : ReadInternal(j)' = ReadInternal(j)
<1>1. BlobLengthAddress(i) \in InternalAddresses BY InternalAddress
<1>2. /\ internal' \in [InternalAddresses -> Byte]
      /\ ReadInternal(BlobLengthAddress(i))' = v
      /\ \A b \in InternalAddresses :
           b # BlobLengthAddress(i) => ReadInternal(b)' = ReadInternal(b)
  BY <1>1, InternalWritten
<1>3. BlobIds \subseteq Ids BY LayoutAssumption DEF LayoutIsSound, BlobIds, Ids
<1> QED
  BY <1>2, <1>3, InternalAddress
  DEF LengthsBounded, GetWordShortcutLength, GetBlobShortcutLength

\* Writing a character shortcut disturbs no length.
LEMMA CharacterWritten ==
  ASSUME TypeOK, LengthsBounded, NEW i \in Ids, NEW v \in Byte,
         WriteInternal(i, v)
  PROVE  /\ LengthsBounded' /\ internal' \in [InternalAddresses -> Byte]
         /\ ReadInternal(i)' = v
         /\ \A j \in Ids : j # i => ReadInternal(j)' = ReadInternal(j)
         /\ \A j \in Ids : GetWordShortcutLength(j)' = GetWordShortcutLength(j)
         /\ \A j \in BlobIds : GetBlobShortcutLength(j)' = GetBlobShortcutLength(j)
<1>1. i \in InternalAddresses BY InternalAddress
<1>2. /\ internal' \in [InternalAddresses -> Byte] /\ ReadInternal(i)' = v
      /\ \A b \in InternalAddresses : b # i => ReadInternal(b)' = ReadInternal(b)
  BY <1>1, InternalWritten
<1>3. BlobIds \subseteq Ids BY LayoutAssumption DEF LayoutIsSound, BlobIds, Ids
<1> QED
  BY <1>2, <1>3, InternalAddress
  DEF LengthsBounded, GetWordShortcutLength, GetBlobShortcutLength

\* A failed write to an external device keeps the memory well typed.
LEMMA ExternalWriteFailed ==
  ASSUME TypeOK, NEW d \in Devices, NEW a \in ExternalAddresses, NEW v \in Byte,
         FailToWriteExternal(d, a, v)
  PROVE  external' \in [Devices -> [ExternalAddresses -> Byte]]
BY ExternalWritten DEF FailToWriteExternal, TypeOK
-----------------------------------------------------------------------------
(***************************************************************************)
(* Init and every action of Next.                                          *)
(***************************************************************************)
LEMMA InitInv == Init => Inv
<1> SUFFICES ASSUME Init PROVE Inv OBVIOUS
<1>1. 255 \in Byte /\ 0 \in Byte /\ Decode(255) = 0 BY DEF Byte, Decode
<1>2. 0 \in Ids BY LayoutAssumption DEF LayoutIsSound, Ids
<1>3. TypeOK BY <1>1, <1>2 DEF Init, TypeOK, Idle, Positions
<1>4. \A a \in InternalAddresses : ReadInternal(a) = 0
  BY <1>1 DEF Init, ReadInternal
<1>5. MaxWordLen \in Nat /\ MaxBlobLen \in Nat BY LayoutAssumption DEF LayoutIsSound
<1>6. LengthsFitSlots
  BY <1>4, <1>5, InternalAddress
  DEF LengthsFitSlots, GetWordShortcutLength, GetBlobShortcutLength, Init, Idle
<1>7. BytesStored /\ SendOnTrack BY DEF BytesStored, SendOnTrack, Init, Idle
<1> QED BY <1>3, <1>6, <1>7 DEF Inv

\* SetCharacterShortcut keeps the invariant.
LEMMA SetCharacterInv ==
  ASSUME Inv, NEW i \in Ids, NEW c \in Characters, SetCharacterShortcut(i, c)
  PROVE  Inv'
<1>1. c \in Byte BY InputAssumption
<1>2. TypeOK /\ LengthsBounded BY InvGives
<1>3. LengthsBounded' /\ internal' \in [InternalAddresses -> Byte]
  BY <1>1, <1>2, CharacterWritten DEF SetCharacterShortcut
<1> QED
  BY <1>2, <1>3, ReturnKeepsInv DEF SetCharacterShortcut, Return, TypeOK

\* Clearing a word or a blob keeps the invariant.
LEMMA ClearInv ==
  ASSUME Inv, NEW i \in Ids, ClearWordShortcut(i) \/ ClearBlobShortcut(i)
  PROVE  Inv'
<1>1. /\ 0 \in Byte /\ 0 <= MaxWordLen /\ 0 <= MaxBlobLen
      /\ (~(i > kLayerBMaxIndex) => i \in BlobIds)
  BY LayoutAssumption DEF LayoutIsSound, Byte, Ids, BlobIds
<1>2. TypeOK /\ LengthsBounded BY InvGives
<1>3. CASE ClearWordShortcut(i)
  <2>1. LengthsBounded' /\ internal' \in [InternalAddresses -> Byte]
    BY <1>1, <1>2, <1>3, WordLengthWritten DEF ClearWordShortcut
  <2> QED
    BY <1>2, <1>3, <2>1, ReturnKeepsInv DEF ClearWordShortcut, Return, TypeOK
<1>4. CASE ClearBlobShortcut(i)
  <2>1. CASE i > kLayerBMaxIndex
    BY <1>2, <1>4, <2>1, LengthsKept, ReturnKeepsInv
    DEF ClearBlobShortcut, Return, TypeOK
  <2>2. CASE ~(i > kLayerBMaxIndex)
    <3>1. LengthsBounded' /\ internal' \in [InternalAddresses -> Byte]
      BY <1>1, <1>2, <1>4, <2>2, BlobLengthWritten DEF ClearBlobShortcut
    <3> QED
      BY <1>2, <1>4, <2>2, <3>1, ReturnKeepsInv
      DEF ClearBlobShortcut, Return, TypeOK
  <2> QED BY <2>1, <2>2
<1> QED BY <1>3, <1>4

\* Beginning an append keeps the invariant: a full slot is refused.
LEMMA AppendInv ==
  ASSUME Inv, NEW i \in Ids, NEW c \in Byte, NEW m \in Byte,
         AppendToWordShortcut(i, c) \/ AppendToBlobShortcut(i, c, m)
  PROVE  Inv'
<1>1. TypeOK /\ LengthsBounded BY InvGives
<1>2. /\ LengthsBounded' /\ UNCHANGED <<internal, external, sent>>
      /\ \A j : GetWordShortcutLength(j)' = GetWordShortcutLength(j)
      /\ \A j : GetBlobShortcutLength(j)' = GetBlobShortcutLength(j)
  BY <1>1, LengthsKept DEF AppendToWordShortcut, AppendToBlobShortcut
<1>3. /\ MaxWordLen \in 1..255 /\ MaxBlobLen \in 1..255 /\ 0 \in Byte
      /\ (~(i > kLayerBMaxIndex) => i \in BlobIds)
  BY LayoutAssumption DEF LayoutIsSound, Byte, Ids, BlobIds
<1>4. CASE Return("false")
  BY <1>1, <1>2, <1>4, ReturnKeepsInv DEF Return, TypeOK
<1>5. CASE /\ AppendToWordShortcut(i, c) /\ ~Return("false")
  <2> DEFINE n == GetWordShortcutLength(i)
  <2>1. /\ call' = Frame("word_char", i, c, 0, n) /\ result' = result
        /\ n # MaxWordLen
    BY <1>5 DEF AppendToWordShortcut
  <2>2. n \in Byte /\ n < MaxWordLen
    BY <1>1, <1>3, <2>1, ReadsAreBytes DEF LengthsBounded, Byte
  <2> HIDE DEF n
  <2>3. /\ call'.at = "word_char" /\ call'.index = i /\ call'.character = c
        /\ call'.modcode = 0 /\ call'.length = n /\ call'.i = 0
    BY <2>1 DEF Frame
  <2>4. TypeOK' BY <1>1, <1>2, <1>3, <2>1, <2>2 DEF TypeOK, Frame, Positions
  <2>5. LengthsFitSlots'
    BY <1>2, <2>2, <2>3 DEF LengthsFitSlots, LengthsBounded, n
  <2> QED BY <2>3, <2>4, <2>5 DEF Inv, BytesStored, SendOnTrack
<1>6. CASE /\ AppendToBlobShortcut(i, c, m) /\ ~Return("false")
  <2> DEFINE n == GetBlobShortcutLength(i)
  <2>1. /\ call' = Frame("blob_char", i, c, m, n) /\ result' = result
        /\ n # MaxBlobLen /\ i \in BlobIds
    BY <1>3, <1>6 DEF AppendToBlobShortcut
  <2>2. n \in Byte /\ n < MaxBlobLen
    BY <1>1, <1>3, <2>1, ReadsAreBytes DEF LengthsBounded, Byte
  <2> HIDE DEF n
  <2>3. /\ call'.at = "blob_char" /\ call'.index = i /\ call'.character = c
        /\ call'.modcode = m /\ call'.length = n /\ call'.i = 0
    BY <2>1 DEF Frame
  <2>4. TypeOK' BY <1>1, <1>2, <1>3, <2>1, <2>2 DEF TypeOK, Frame, Positions
  <2>5. LengthsFitSlots'
    BY <1>2, <2>1, <2>2, <2>3 DEF LengthsFitSlots, LengthsBounded, n
  <2> QED BY <2>3, <2>4, <2>5 DEF Inv, BytesStored, SendOnTrack
<1> QED BY <1>4, <1>5, <1>6

\* The two writes of a word append keep the invariant.
LEMMA WriteWordInv ==
  ASSUME Inv, WriteWordCharacter \/ WriteWordLength
  PROVE  Inv'
<1>1. TypeOK /\ LengthsBounded BY InvGives
<1>2. CASE WriteWordCharacter
  <2>0. PICK a, c : a = WordAddress(call.index, call.length) /\ c = call.character
    OBVIOUS
  <2>1. /\ a \in ExternalAddresses /\ 0 \in Devices /\ c \in Byte /\ call.at = "word_char"
    BY <1>2, <2>0, InvGives DEF Devices, WriteWordCharacter
  <2>2. /\ LengthsBounded' /\ UNCHANGED <<internal, sent>>
        /\ \A j : GetWordShortcutLength(j)' = GetWordShortcutLength(j)
    BY <1>1, <1>2, LengthsKept DEF WriteWordCharacter
  <2>3. CASE FailToWriteExternal(0, a, c) /\ Return("false")
    <3>1. external' \in [Devices -> [ExternalAddresses -> Byte]]
      BY <1>1, <2>1, <2>3, ExternalWriteFailed
    <3> QED BY <1>1, <2>2, <2>3, <3>1, ReturnKeepsInv DEF Return, TypeOK
  <2>4. CASE WriteExternal(0, a, c) /\ Goto("word_length") /\ result' = result
    <3>1. /\ external' \in [Devices -> [ExternalAddresses -> Byte]]
          /\ ReadExternal(0, a)' = c
      BY <1>1, <2>1, <2>4, ExternalWritten
    <3>2. call' = [call EXCEPT !.at = "word_length"] BY <2>4 DEF Goto
    <3>3. /\ call'.at = "word_length" /\ call'.index = call.index
          /\ call'.character = call.character /\ call'.length = call.length
      BY <1>1, <3>2 DEF TypeOK
    <3>4. TypeOK' BY <1>1, <2>2, <2>4, <3>1, <3>2 DEF TypeOK, Positions
    <3>5. LengthsFitSlots'
      BY <2>1, <2>2, <3>3 DEF Inv, LengthsFitSlots, LengthsBounded
    <3>6. WordAddress(call'.index, call'.length) = a /\ call'.character = c
      BY <2>0, <3>3
    <3>7. BytesStored' BY <3>1, <3>3, <3>6 DEF BytesStored
    <3> QED BY <3>3, <3>4, <3>5, <3>7 DEF Inv, SendOnTrack
  <2> QED BY <1>2, <2>0, <2>3, <2>4 DEF WriteWordCharacter
<1>3. CASE WriteWordLength
  <2>1. call.index \in Ids /\ call.length + 1 \in Byte /\ call.length + 1 <= MaxWordLen
    BY <1>3, InvGives DEF WriteWordLength
  <2>2. LengthsBounded' /\ internal' \in [InternalAddresses -> Byte]
    BY <1>1, <1>3, <2>1, WordLengthWritten DEF WriteWordLength
  <2> QED BY <1>1, <1>3, <2>2, ReturnKeepsInv DEF WriteWordLength, Return, TypeOK
<1> QED BY <1>2, <1>3

\* The three writes of a blob append keep the invariant.
LEMMA WriteBlobInv ==
  ASSUME Inv, WriteBlobCharacter \/ WriteBlobModcode \/ WriteBlobLength
  PROVE  Inv'
<1>1. TypeOK /\ LengthsBounded BY InvGives
<1>2. PICK d, a, c, m : /\ d = BlobDevice(call.index)
                        /\ a = BlobAddress(call.index, call.length)
                        /\ c = call.character /\ m = call.modcode
  OBVIOUS
<1>3. c \in Byte /\ m \in Byte BY <1>2, InvGives
<1>4. ASSUME UNCHANGED <<internal, sent>>, Return("false"),
             external' \in [Devices -> [ExternalAddresses -> Byte]]
      PROVE  Inv'
  BY <1>1, <1>4, LengthsKept, ReturnKeepsInv DEF Return, TypeOK
<1>5. ASSUME UNCHANGED <<internal, sent, result>>,
             external' \in [Devices -> [ExternalAddresses -> Byte]],
             NEW at \in {"blob_modcode", "blob_length"}, Goto(at),
             call.at \in {"blob_char", "blob_modcode"}
      PROVE  /\ TypeOK' /\ LengthsFitSlots' /\ SendOnTrack'
             /\ call'.at = at /\ call'.character = c /\ call'.modcode = m
             /\ BlobDevice(call'.index) = d
             /\ BlobAddress(call'.index, call'.length) = a
  <2>1. call' = [call EXCEPT !.at = at] BY <1>5 DEF Goto
  <2>2. /\ call'.at = at /\ call'.index = call.index
        /\ call'.character = call.character /\ call'.modcode = call.modcode
        /\ call'.length = call.length
    BY <1>1, <2>1 DEF TypeOK
  <2>3. TypeOK' BY <1>1, <1>5, <2>1 DEF TypeOK, Positions
  <2>4. LengthsFitSlots'
    BY <1>1, <1>5, <2>2, LengthsKept DEF Inv, LengthsFitSlots, LengthsBounded
  <2> QED BY <1>2, <1>5, <2>2, <2>3, <2>4 DEF SendOnTrack
<1>6. ASSUME call.at \in {"blob_char", "blob_modcode", "blob_length"}
      PROVE  /\ d \in Devices /\ a \in ExternalAddresses
             /\ a + 1 \in ExternalAddresses /\ a # a + 1
  BY <1>2, <1>6, InvGives DEF ExternalAddresses
<1>7. CASE WriteBlobCharacter
  <2>1. call.at = "blob_char" /\ UNCHANGED <<internal, sent>>
    BY <1>7 DEF WriteBlobCharacter
  <2>2. CASE FailToWriteExternal(d, a, c) /\ Return("false")
    BY <1>1, <1>3, <1>4, <1>6, <2>1, <2>2, ExternalWriteFailed
  <2>3. CASE WriteExternal(d, a, c) /\ Goto("blob_modcode") /\ result' = result
    <3>1. /\ external' \in [Devices -> [ExternalAddresses -> Byte]]
          /\ ReadExternal(d, a)' = c
      BY <1>1, <1>3, <1>6, <2>1, <2>3, ExternalWritten
    <3> QED BY <1>5, <2>1, <2>3, <3>1 DEF Inv, BytesStored
  <2> QED BY <1>2, <1>7, <2>2, <2>3 DEF WriteBlobCharacter
<1>8. CASE WriteBlobModcode
  <2>1. call.at = "blob_modcode" /\ UNCHANGED <<internal, sent>>
    BY <1>8 DEF WriteBlobModcode
  <2>2. CASE FailToWriteExternal(d, a + 1, m) /\ Return("false")
    BY <1>1, <1>3, <1>4, <1>6, <2>1, <2>2, ExternalWriteFailed
  <2>3. CASE WriteExternal(d, a + 1, m) /\ Goto("blob_length") /\ result' = result
    <3>1. /\ external' \in [Devices -> [ExternalAddresses -> Byte]]
          /\ ReadExternal(d, a + 1)' = m
          /\ ReadExternal(d, a)' = ReadExternal(d, a)
      BY <1>1, <1>3, <1>6, <2>1, <2>3, ExternalWritten
    <3>2. ReadExternal(d, a) = c BY <1>2, <2>1 DEF Inv, BytesStored
    <3> QED BY <1>5, <2>1, <2>3, <3>1, <3>2 DEF Inv, BytesStored
  <2> QED BY <1>2, <1>8, <2>2, <2>3 DEF WriteBlobModcode
<1>9. CASE WriteBlobLength
  <2>1. /\ call.index \in BlobIds /\ call.length + 1 \in Byte
        /\ call.length + 1 <= MaxBlobLen
    BY <1>9, InvGives DEF WriteBlobLength, Inv, LengthsFitSlots
  <2>2. LengthsBounded' /\ internal' \in [InternalAddresses -> Byte]
    BY <1>1, <1>9, <2>1, BlobLengthWritten DEF WriteBlobLength
  <2> QED BY <1>1, <1>9, <2>2, ReturnKeepsInv DEF WriteBlobLength, Return, TypeOK
<1> QED BY <1>7, <1>8, <1>9

\* Beginning a send keeps the invariant: an empty shortcut is refused.
LEMMA BeginSendInv ==
  ASSUME Inv, NEW i \in Ids, NEW m \in Byte,
         SendWordShortcut(i, m) \/ SendBlobShortcut(i)
  PROVE  Inv'
<1>1. TypeOK /\ LengthsBounded BY InvGives
<1>2. /\ UNCHANGED <<internal, external>> /\ LengthsBounded'
      /\ \A j : GetWordShortcutLength(j)' = GetWordShortcutLength(j)
      /\ \A j : GetBlobShortcutLength(j)' = GetBlobShortcutLength(j)
  BY <1>1, LengthsKept DEF SendWordShortcut, SendBlobShortcut, BeginSend
<1>3. 0 \in Byte /\ (~(i > kLayerBMaxIndex) => i \in BlobIds)
  BY LayoutAssumption DEF LayoutIsSound, Byte, Ids, BlobIds
<1>4. CASE Return("false") /\ UNCHANGED sent
  BY <1>1, <1>2, <1>4, ReturnKeepsInv DEF Return, TypeOK
<1>5. <<>> \in Seq(Byte \X Byte) /\ Len(<<>>) = 0 OBVIOUS
<1>6. ASSUME NEW at \in {"send_word", "send_blob"}, NEW n \in Byte, n # 0,
             NEW k \in Byte, at = "send_blob" => k = 0 /\ i \in BlobIds,
             n = IF at = "send_word" THEN GetWordShortcutLength(i)
                                     ELSE GetBlobShortcutLength(i),
             call' = Frame(at, i, 0, k, n), sent' = <<>>, result' = result
      PROVE  Inv'
  <2>1. /\ call'.at = at /\ call'.index = i /\ call'.modcode = k
        /\ call'.length = n /\ call'.i = 0
    BY <1>6 DEF Frame
  <2>2. TypeOK' BY <1>1, <1>2, <1>3, <1>5, <1>6 DEF TypeOK, Frame, Positions
  <2>3. LengthsFitSlots' BY <1>2, <1>6, <2>1 DEF LengthsFitSlots, LengthsBounded
  <2>4. Len(sent') = call'.i /\ call'.i < call'.length
    <3>1. n \in Nat BY DEF Byte
    <3>2. n # 0 BY <1>6, Zenon
    <3>3. 0 < n BY <3>1, <3>2
    <3> QED BY <1>5, <1>6, <2>1, <3>3
  <2>5. /\ at = "send_word" => call'.length = GetWordShortcutLength(i)'
        /\ at = "send_blob" => call'.length = GetBlobShortcutLength(i)'
    BY <1>2, <1>6, <2>1
  <2>6. SendOnTrack'
    <3>1. CASE at = "send_word" BY <2>1, <2>4, <2>5, <3>1 DEF SendOnTrack
    <3>2. CASE at = "send_blob" BY <1>6, <2>1, <2>4, <2>5, <3>2 DEF SendOnTrack
    <3> QED BY <1>6, <3>1, <3>2
  <2> QED BY <1>6, <2>1, <2>2, <2>3, <2>6 DEF Inv, BytesStored
<1>7. CASE SendWordShortcut(i, m) /\ ~(Return("false") /\ UNCHANGED sent)
  <2>1. GetWordShortcutLength(i) \in Byte BY <1>1, ReadsAreBytes
  <2> QED BY <1>6, <1>7, <2>1 DEF SendWordShortcut, BeginSend
<1>8. CASE SendBlobShortcut(i) /\ ~(Return("false") /\ UNCHANGED sent)
  <2>1. i \in BlobIds BY <1>3, <1>8 DEF SendBlobShortcut
  <2>2. GetBlobShortcutLength(i) \in Byte BY <1>1, <2>1, ReadsAreBytes
  <2> QED BY <1>3, <1>6, <1>8, <2>1, <2>2 DEF SendBlobShortcut, BeginSend
<1> QED BY <1>4, <1>7, <1>8

\* Sending a keypress leaves the EEPROMs, and so all lengths, alone.
LEMMA SendStepInv ==
  ASSUME Inv, UNCHANGED <<internal, external>>,
         call.at \in {"send_word", "send_append", "send_blob"},
         NEW k \in Byte \X Byte,
         \/ FailToSendKeypress(k) /\ Return("false")
         \/ SendKeypress(k) /\ Return("true")
         \/ /\ SendKeypress(k) /\ result' = result
            /\ call' = [call EXCEPT !.i = @ + 1]
            /\ call.i + 1 # call.length /\ call.at # "send_append"
         \/ /\ SendKeypress(k) /\ result' = result
            /\ call' = [call EXCEPT !.at = "send_append"]
            /\ PunctuationFollows /\ call.at = "send_word"
  PROVE  Inv'
<1>1. TypeOK /\ LengthsBounded /\ LengthsBounded'
  BY InvGives, LengthsKept
<1>2. /\ \A j : GetWordShortcutLength(j)' = GetWordShortcutLength(j)
      /\ \A j : GetBlobShortcutLength(j)' = GetBlobShortcutLength(j)
  BY LengthsKept
<1>3. /\ call.i \in Nat /\ call.length \in Nat /\ call.length \in Byte
      /\ call.i < call.length
  <2>1. call.i \in Byte /\ call.length \in Byte BY InvGives
  <2>2. call.i < call.length BY DEF Inv, SendOnTrack
  <2> QED BY <2>1, <2>2 DEF Byte
<1>4. CASE FailToSendKeypress(k) /\ Return("false")
  BY <1>1, <1>4, SentExtends, ReturnKeepsInv DEF Return, TypeOK
<1>5. CASE SendKeypress(k) /\ Return("true")
  BY <1>1, <1>5, SentExtends, ReturnKeepsInv DEF Return, TypeOK
<1>6. CASE /\ SendKeypress(k) /\ result' = result
           /\ call' = [call EXCEPT !.i = @ + 1]
           /\ call.i + 1 # call.length /\ call.at # "send_append"
  <2>1. /\ call'.at = call.at /\ call'.index = call.index
        /\ call'.length = call.length /\ call'.modcode = call.modcode
        /\ call'.i = call.i + 1
    BY <1>1, <1>6 DEF TypeOK
  <2>2. call'.i \in Byte /\ call'.i < call'.length
    BY <1>3, <1>6, <2>1 DEF Byte
  <2>3. sent' \in Seq(Byte \X Byte) /\ Len(sent') = Len(sent) + 1
    BY <1>1, <1>6, SentExtends
  <2>4. TypeOK' BY <1>1, <1>6, <2>1, <2>2, <2>3 DEF TypeOK
  <2>5. LengthsFitSlots' BY <1>1, <1>2, <2>1 DEF LengthsFitSlots, LengthsBounded
  <2>6. SendOnTrack'
    <3>1. Len(sent) = call.i BY <1>6 DEF Inv, SendOnTrack
    <3> QED BY <1>2, <1>6, <2>1, <2>2, <2>3, <3>1 DEF Inv, SendOnTrack
  <2> QED BY <2>1, <2>4, <2>5, <2>6 DEF Inv, BytesStored
<1>7. CASE /\ SendKeypress(k) /\ result' = result
           /\ call' = [call EXCEPT !.at = "send_append"]
           /\ PunctuationFollows /\ call.at = "send_word"
  <2>1. /\ call'.at = "send_append" /\ call'.index = call.index
        /\ call'.length = call.length /\ call'.modcode = call.modcode
        /\ call'.i = call.i
    BY <1>1, <1>7 DEF TypeOK
  <2>2. sent' \in Seq(Byte \X Byte) /\ Len(sent') = Len(sent) + 1
    BY <1>1, <1>7, SentExtends
  <2>3. TypeOK' BY <1>1, <1>7, <2>2 DEF TypeOK, Positions
  <2>4. LengthsFitSlots' BY <1>1, <1>2, <2>1 DEF LengthsFitSlots, LengthsBounded
  <2>5. Len(sent) = call.i /\ call.length = GetWordShortcutLength(call.index)
    BY <1>7 DEF Inv, SendOnTrack
  <2>6. PunctuationFollows' /\ Len(sent') = call'.length
    BY <1>3, <1>7, <2>1, <2>2, <2>5 DEF PunctuationFollows
  <2>7. SendOnTrack'
    BY <1>2, <1>3, <2>1, <2>5, <2>6 DEF SendOnTrack
  <2> QED BY <2>1, <2>3, <2>4, <2>7 DEF Inv, BytesStored
<1> QED BY <1>4, <1>5, <1>6, <1>7

\* The steps of a send keep the invariant.
LEMMA SendInv ==
  ASSUME Inv, SendWordCharacter \/ SendPunctuation \/ SendBlobKeypress
  PROVE  Inv'
<1>1. TypeOK /\ call.index \in Ids BY InvGives
<1>2. call.at \in {"send_word", "send_append", "send_blob"} =>
        call.i \in Nat /\ call.length \in Nat /\ call.i < call.length
  <2>1. call.i \in Byte /\ call.length \in Byte BY InvGives
  <2>2. call.at \in {"send_word", "send_append", "send_blob"} =>
          call.i < call.length
    BY DEF Inv, SendOnTrack
  <2> QED BY <2>1, <2>2 DEF Byte
<1>3. CASE SendWordCharacter
  <2>1. call.at = "send_word" BY <1>3 DEF SendWordCharacter
  <2>2. call.i \in 0..(MaxWordLen - 1)
    BY <1>1, <1>2, <2>1, LayoutAssumption
    DEF LayoutIsSound, Inv, SendOnTrack, LengthsFitSlots
  <2>3. ReadExternal(0, WordAddress(call.index, call.i)) \in Byte
    BY <1>1, <2>2, WordAddressIs, ReadsAreBytes DEF Devices
  <2>4. WordKeypress \in Byte \X Byte BY <2>3 DEF WordKeypress, Byte
  <2>5. PICK k \in Byte \X Byte : k = WordKeypress BY <2>4
  <2> QED
    BY <1>3, <2>1, <2>5, SendStepInv DEF SendWordCharacter, Goto, Advance
<1>4. CASE SendPunctuation
  <2>1. call.at = "send_append" BY <1>4 DEF SendPunctuation
  <2>2. PunctuationFollows BY <2>1 DEF Inv, SendOnTrack
  <2>3. call.i + 1 = call.length BY <1>2, <2>1, <2>2 DEF PunctuationFollows
  <2>4. <<Punctuation(call.modcode), 0>> \in Byte \X Byte
    BY DEF Punctuation, Byte
  <2>5. PICK k \in Byte \X Byte : k = <<Punctuation(call.modcode), 0>> BY <2>4
  <2> QED BY <1>4, <2>1, <2>3, <2>5, SendStepInv DEF SendPunctuation, Advance
<1>5. CASE SendBlobKeypress
  <2>1. call.at = "send_blob" BY <1>5 DEF SendBlobKeypress
  <2>2. call.index \in BlobIds /\ call.i \in 0..(MaxBlobLen - 1)
    BY <1>1, <1>2, <2>1, LayoutAssumption
    DEF LayoutIsSound, Inv, SendOnTrack, LengthsFitSlots
  <2>3. BlobKeypress \in Byte \X Byte
    BY <1>1, <2>2, BlobAddressIs, ReadsAreBytes DEF BlobKeypress
  <2>4. PICK k \in Byte \X Byte : k = BlobKeypress BY <2>3
  <2> QED
    BY <1>5, <2>1, <2>4, SendStepInv DEF SendBlobKeypress, Advance
<1> QED BY <1>3, <1>4, <1>5

\* Every step keeps the invariant.
LEMMA NextInv == Inv /\ [Next]_vars => Inv'
<1> SUFFICES ASSUME Inv, [Next]_vars PROVE Inv' OBVIOUS
<1>1. TypeOK /\ LengthsBounded BY InvGives
<1>2. ASSUME NEW i \in Ids, NEW c \in Characters, SetCharacterShortcut(i, c)
      PROVE  Inv'
  BY <1>2, SetCharacterInv
<1>3. ASSUME NEW i \in Ids, NEW c \in Characters, AppendToWordShortcut(i, c)
      PROVE  Inv'
  <2>1. c \in Byte /\ 0 \in Byte BY InputAssumption DEF Byte
  <2> QED BY <1>3, <2>1, AppendInv
<1>4. ASSUME NEW i \in Ids, NEW c \in Characters, NEW m \in ModCodes,
             AppendToBlobShortcut(i, c, m)
      PROVE  Inv'
  <2>1. c \in Byte /\ m \in Byte BY InputAssumption
  <2> QED BY <1>4, <2>1, AppendInv
<1>5. CASE WriteWordCharacter \/ WriteWordLength BY <1>5, WriteWordInv
<1>6. CASE WriteBlobCharacter \/ WriteBlobModcode \/ WriteBlobLength
  BY <1>6, WriteBlobInv
<1>7. ASSUME NEW i \in Ids, ClearWordShortcut(i) \/ ClearBlobShortcut(i)
      PROVE  Inv'
  BY <1>7, ClearInv
<1>8. ASSUME NEW i \in Ids, NEW m \in WordMods, SendWordShortcut(i, m)
      PROVE  Inv'
  <2>1. m \in Byte BY InputAssumption
  <2> QED BY <1>8, <2>1, BeginSendInv
<1>9. ASSUME NEW i \in Ids, SendBlobShortcut(i) PROVE Inv'
  <2>1. 0 \in Byte BY DEF Byte
  <2> QED BY <1>9, <2>1, BeginSendInv
<1>10. CASE SendWordCharacter \/ SendPunctuation \/ SendBlobKeypress
  BY <1>10, SendInv
<1>11. CASE PowerLoss
  <2>1. LengthsBounded' BY <1>1, <1>11, LengthsKept DEF PowerLoss
  <2>2. <<>> \in Seq(Byte \X Byte) OBVIOUS
  <2> QED BY <1>1, <1>11, <2>1, <2>2, ReturnKeepsInv DEF PowerLoss, TypeOK
<1>12. CASE UNCHANGED vars
  BY <1>12
  DEF vars, Inv, TypeOK, LengthsFitSlots, BytesStored, SendOnTrack,
      GetWordShortcutLength, GetBlobShortcutLength, ReadInternal, ReadExternal,
      PunctuationFollows
<1> QED
  BY <1>2, <1>3, <1>4, <1>5, <1>6, <1>7, <1>8, <1>9, <1>10, <1>11, <1>12 DEF Next

\* The invariant, for every layout that satisfies LayoutAssumption.
THEOREM InvHolds == Spec => []Inv
BY InitInv, NextInv, PTL DEF Spec

\* The EEPROM contents and the stack frame of the operation in progress of
\* storage_controller.cpp stay within their C++ types.
THEOREM TypeCorrect == Spec => []TypeOK
<1>1. Inv => TypeOK BY DEF Inv
<1> QED BY <1>1, InvHolds, PTL

\* No length byte of storage_controller.cpp exceeds its slot, and an append
\* publishes the length it checked.
THEOREM LengthsAlwaysFitSlots == Spec => []LengthsFitSlots
<1>1. Inv => LengthsFitSlots BY DEF Inv
<1> QED BY <1>1, InvHolds, PTL

\* The addresses of storage_controller.cpp:35-39 and the slot sizes and limits
\* of its functions satisfy everything the proofs assume of a layout.
Code == INSTANCE StorageController WITH
  NumIds <- 256,
  kInternalEepromLayerGLengthStart <- 256,
  kInternalEepromLayerBLengthStart <- 512,
  kEeprom0LayerBStart <- 4096,
  kLayerBMaxIndex <- 247,
  kEeprom1LayerBStartShortcutId <- 120,
  WordSlot <- 16,
  BlobSlot <- 512,
  MaxWordLen <- 15,
  MaxBlobLen <- 255,
  InternalSize <- 1024,
  ExternalSize <- 65536

\* The layout in storage_controller.cpp: slots do not overlap and end within
\* their devices.
THEOREM CodeLayoutIsSound == Code!LayoutIsSound
BY DEF Code!LayoutIsSound, Code!Ids
-----------------------------------------------------------------------------

(***************************************************************************)
(* The stored shortcuts as sequences.                                      *)
(***************************************************************************)
\* A sequence given element by element is the shorter one with one appended.
LEMMA AppendIs ==
  ASSUME NEW S, NEW s \in Seq(S), NEW e \in S,
         NEW t, t = [k \in 1..(Len(s) + 1) |-> IF k <= Len(s) THEN s[k] ELSE e]
  PROVE  t = Append(s, e)
<1> DEFINE n == Len(s)
           u == Append(s, e)
<1>1. /\ n \in Nat /\ u \in Seq(S) /\ Len(u) = n + 1
      /\ \A k \in 1..n : u[k] = s[k]
      /\ u[n + 1] = e
  BY AppendProperties
<1>2. \A k \in 1..n : s[k] \in S BY ElementOfSeq
<1> HIDE DEF n, u
<1>3. t = [k \in 1..(n + 1) |-> IF k <= n THEN s[k] ELSE e] BY DEF n
<1>4. \A k \in 1..(n + 1) : t[k] \in S /\ t[k] = u[k]
  <2> TAKE k \in 1..(n + 1)
  <2>1. k \in 1..n \/ k = n + 1 BY <1>1
  <2> QED BY <1>1, <1>2, <1>3, <2>1
<1>5. t \in Seq(S) /\ Len(t) = n + 1
  <2>1. \A k \in 1..(n + 1) : (IF k <= n THEN s[k] ELSE e) \in S
    BY <1>3, <1>4
  <2>2. n + 1 \in Nat BY <1>1
  <2> QED BY <1>3, <2>1, <2>2
<1>6. t = u BY <1>1, <1>4, <1>5, SeqEqual
<1> QED BY <1>6 DEF u

\* What a word slot holds is a sequence of bytes.
LEMMA StoredWordIs ==
  ASSUME Inv, NEW i \in Ids
  PROVE  /\ GetWordShortcutLength(i) \in Nat
         /\ StoredWord(i) \in Seq(Byte)
         /\ Len(StoredWord(i)) = GetWordShortcutLength(i)
         /\ \A k \in 1..GetWordShortcutLength(i) :
              /\ k - 1 \in 0..(MaxWordLen - 1)
              /\ StoredWord(i)[k] = ReadExternal(0, WordAddress(i, k - 1))
<1> DEFINE n == GetWordShortcutLength(i)
<1>1. TypeOK /\ n \in Nat /\ n <= MaxWordLen
  <2>1. TypeOK /\ n <= MaxWordLen BY InvGives DEF LengthsBounded
  <2>2. n \in Byte BY <2>1, ReadsAreBytes
  <2> QED BY <2>1, <2>2 DEF Byte
<1>2. MaxWordLen \in Nat BY LayoutAssumption DEF LayoutIsSound
<1> HIDE DEF n
<1>3. \A k \in 1..n : k - 1 \in 0..(MaxWordLen - 1) BY <1>1, <1>2
<1>4. \A k \in 1..n : ReadExternal(0, WordAddress(i, k - 1)) \in Byte
  BY <1>1, <1>3, WordAddressIs, ReadsAreBytes DEF Devices
<1>5. StoredWord(i) = [k \in 1..n |-> ReadExternal(0, WordAddress(i, k - 1))]
  BY DEF StoredWord, n
<1>6. StoredWord(i) \in Seq(Byte) /\ Len(StoredWord(i)) = n BY <1>1, <1>4, <1>5
<1> QED BY <1>1, <1>3, <1>5, <1>6 DEF n

\* What a blob slot holds is a sequence of keypresses.
LEMMA StoredBlobIs ==
  ASSUME Inv, NEW i \in BlobIds
  PROVE  /\ GetBlobShortcutLength(i) \in Nat
         /\ StoredBlob(i) \in Seq(Byte \X Byte)
         /\ Len(StoredBlob(i)) = GetBlobShortcutLength(i)
         /\ \A k \in 1..GetBlobShortcutLength(i) :
              /\ k - 1 \in 0..(MaxBlobLen - 1)
              /\ StoredBlob(i)[k] =
                   <<ReadExternal(BlobDevice(i), BlobAddress(i, k - 1)),
                     ReadExternal(BlobDevice(i), BlobAddress(i, k - 1) + 1)>>
<1> DEFINE n == GetBlobShortcutLength(i)
           pair(k) == <<ReadExternal(BlobDevice(i), BlobAddress(i, k - 1)),
                        ReadExternal(BlobDevice(i), BlobAddress(i, k - 1) + 1)>>
<1>1. TypeOK /\ n \in Nat /\ n <= MaxBlobLen
  BY InvGives, ReadsAreBytes DEF LengthsBounded, Byte
<1>2. MaxBlobLen \in Nat BY LayoutAssumption DEF LayoutIsSound
<1>3. StoredBlob(i) = [k \in 1..n |-> pair(k)] BY DEF StoredBlob
<1> HIDE DEF n
<1>4. \A k \in 1..n : k - 1 \in 0..(MaxBlobLen - 1) BY <1>1, <1>2
<1>5. \A k \in 1..n : pair(k) \in Byte \X Byte
  BY <1>1, <1>4, BlobAddressIs, ReadsAreBytes
<1> HIDE DEF pair
<1>6. StoredBlob(i) \in Seq(Byte \X Byte) /\ Len(StoredBlob(i)) = n
  BY <1>1, <1>3, <1>5
<1>7. \A k \in 1..n : StoredBlob(i)[k] = pair(k) BY <1>3
<1> QED BY <1>1, <1>4, <1>6, <1>7 DEF n, pair
-----------------------------------------------------------------------------
(***************************************************************************)
(* What a step can do to the three tables.                                 *)
(***************************************************************************)
StoredWords == [i \in Ids |-> StoredWord(i)]
StoredBlobs == [i \in BlobIds |-> StoredBlob(i)]

TablesKept == UNCHANGED <<StoredChars, StoredWords, StoredBlobs>>

\* No shortcut changes while no EEPROM changes.
LEMMA MemoryKept ==
  ASSUME UNCHANGED <<internal, external>>
  PROVE  TablesKept
BY DEF TablesKept, StoredChars, StoredWords, StoredBlobs, StoredWord, StoredBlob,
       GetWordShortcutLength, GetBlobShortcutLength, ReadInternal, ReadExternal

\* The memory of a word or blob is kept when its length and bytes are.
LEMMA WordKept ==
  ASSUME NEW j \in Ids,
         GetWordShortcutLength(j)' = GetWordShortcutLength(j),
         \A k \in 1..GetWordShortcutLength(j) :
           ReadExternal(0, WordAddress(j, k - 1))' =
             ReadExternal(0, WordAddress(j, k - 1))
  PROVE  StoredWord(j)' = StoredWord(j)
BY DEF StoredWord

\* A blob whose length and bytes stay is the same blob.
LEMMA BlobKept ==
  ASSUME NEW j \in BlobIds,
         GetBlobShortcutLength(j)' = GetBlobShortcutLength(j),
         \A k \in 1..GetBlobShortcutLength(j) :
           /\ ReadExternal(BlobDevice(j), BlobAddress(j, k - 1))' =
                ReadExternal(BlobDevice(j), BlobAddress(j, k - 1))
           /\ ReadExternal(BlobDevice(j), BlobAddress(j, k - 1) + 1)' =
                ReadExternal(BlobDevice(j), BlobAddress(j, k - 1) + 1)
  PROVE  StoredBlob(j)' = StoredBlob(j)
BY DEF StoredBlob

\* A character written past the end of a word is invisible.
LEMMA HiddenWordWrite ==
  ASSUME Inv, NEW i \in Ids, NEW v \in Byte, NEW n \in 0..(MaxWordLen - 1),
         n = GetWordShortcutLength(i), UNCHANGED internal,
         WriteExternal(0, WordAddress(i, n), v)
  PROVE  TablesKept
<1> DEFINE a == WordAddress(i, n)
<1>1. TypeOK /\ a \in ExternalAddresses /\ a < kEeprom0LayerBStart /\ a \in Nat
  BY InvGives, WordAddressIs DEF ExternalAddresses
<1>2. \A e \in Devices, b \in ExternalAddresses :
        <<e, b>> # <<0, a>> => ReadExternal(e, b)' = ReadExternal(e, b)
  BY <1>1, ExternalWritten DEF Devices
<1>3. /\ \A j : GetWordShortcutLength(j)' = GetWordShortcutLength(j)
      /\ \A j : GetBlobShortcutLength(j)' = GetBlobShortcutLength(j)
  BY LengthsKept
<1>4. ASSUME NEW j \in Ids PROVE StoredWord(j)' = StoredWord(j)
  <2> SUFFICES ASSUME NEW k \in 1..GetWordShortcutLength(j)
               PROVE  ReadExternal(0, WordAddress(j, k - 1))' =
                        ReadExternal(0, WordAddress(j, k - 1))
    BY <1>3, WordKept
  <2>1. k - 1 \in 0..(MaxWordLen - 1) BY StoredWordIs
  <2>2. WordAddress(j, k - 1) \in ExternalAddresses BY <2>1, WordAddressIs
  <2>3. WordAddress(j, k - 1) # a
    <3> SUFFICES ASSUME WordAddress(j, k - 1) = a PROVE FALSE OBVIOUS
    <3>1. j = i /\ k - 1 = n BY <2>1, WordAddressesDiffer
    <3>2. k \in 1..n BY <3>1
    <3> QED BY <3>1, <3>2
  <2> QED BY <1>2, <2>2, <2>3 DEF Devices
<1>5. ASSUME NEW j \in BlobIds PROVE StoredBlob(j)' = StoredBlob(j)
  <2> SUFFICES ASSUME NEW k \in 1..GetBlobShortcutLength(j)
               PROVE
                 /\ ReadExternal(BlobDevice(j), BlobAddress(j, k - 1))' =
                      ReadExternal(BlobDevice(j), BlobAddress(j, k - 1))
                 /\ ReadExternal(BlobDevice(j), BlobAddress(j, k - 1) + 1)' =
                      ReadExternal(BlobDevice(j), BlobAddress(j, k - 1) + 1)
    BY <1>3, BlobKept
  <2>1. k - 1 \in 0..(MaxBlobLen - 1) BY StoredBlobIs
  <2> DEFINE b == BlobAddress(j, k - 1)
  <2>2. /\ b \in ExternalAddresses /\ b + 1 \in ExternalAddresses
        /\ BlobDevice(j) \in Devices
        /\ BlobDevice(j) = 0 => b >= kEeprom0LayerBStart
    BY <2>1, BlobAddressIs
  <2>3. kEeprom0LayerBStart \in Nat BY LayoutAssumption DEF LayoutIsSound
  <2> HIDE DEF a, b
  <2>4. BlobDevice(j) = 0 => b # a /\ b + 1 # a
    BY <1>1, <2>2, <2>3 DEF ExternalAddresses
  <2> QED BY <1>2, <2>2, <2>4 DEF b
<1>6. StoredChars' = StoredChars BY DEF StoredChars, ReadInternal
<1> QED BY <1>4, <1>5, <1>6 DEF TablesKept, StoredWords, StoredBlobs

\* So is either byte of a keypress written past the end of a blob.
LEMMA HiddenBlobWrite ==
  ASSUME Inv, NEW i \in BlobIds, NEW v \in Byte, NEW n \in 0..(MaxBlobLen - 1),
         NEW o \in {0, 1},
         n = GetBlobShortcutLength(i), UNCHANGED internal,
         WriteExternal(BlobDevice(i), BlobAddress(i, n) + o, v)
  PROVE  TablesKept
<1> DEFINE a == BlobAddress(i, n) + o
           d == BlobDevice(i)
<1>1. /\ TypeOK /\ a \in ExternalAddresses /\ d \in Devices
      /\ d = 0 => BlobAddress(i, n) >= kEeprom0LayerBStart
  BY InvGives, BlobAddressIs DEF ExternalAddresses
<1>2. \A e \in Devices, b \in ExternalAddresses :
        <<e, b>> # <<d, a>> => ReadExternal(e, b)' = ReadExternal(e, b)
  BY <1>1, ExternalWritten
<1>3. /\ \A j : GetWordShortcutLength(j)' = GetWordShortcutLength(j)
      /\ \A j : GetBlobShortcutLength(j)' = GetBlobShortcutLength(j)
  BY LengthsKept
<1>4. ASSUME NEW j \in Ids PROVE StoredWord(j)' = StoredWord(j)
  <2> SUFFICES ASSUME NEW k \in 1..GetWordShortcutLength(j)
               PROVE  ReadExternal(0, WordAddress(j, k - 1))' =
                        ReadExternal(0, WordAddress(j, k - 1))
    BY <1>3, WordKept
  <2>1. k - 1 \in 0..(MaxWordLen - 1) BY StoredWordIs
  <2>2. /\ WordAddress(j, k - 1) \in ExternalAddresses
        /\ WordAddress(j, k - 1) < kEeprom0LayerBStart
    BY <2>1, WordAddressIs
  <2>3. /\ kEeprom0LayerBStart \in Nat /\ BlobAddress(i, n) \in Nat
        /\ WordAddress(j, k - 1) \in Nat
    BY <2>2, BlobAddressIs, LayoutAssumption DEF LayoutIsSound, ExternalAddresses
  <2>4. d = 0 => WordAddress(j, k - 1) # a BY <1>1, <2>2, <2>3
  <2> HIDE DEF a, d
  <2> QED BY <1>2, <2>2, <2>4 DEF Devices
<1>5. ASSUME NEW j \in BlobIds PROVE StoredBlob(j)' = StoredBlob(j)
  <2> SUFFICES ASSUME NEW k \in 1..GetBlobShortcutLength(j)
               PROVE
                 /\ ReadExternal(BlobDevice(j), BlobAddress(j, k - 1))' =
                      ReadExternal(BlobDevice(j), BlobAddress(j, k - 1))
                 /\ ReadExternal(BlobDevice(j), BlobAddress(j, k - 1) + 1)' =
                      ReadExternal(BlobDevice(j), BlobAddress(j, k - 1) + 1)
    BY <1>3, BlobKept
  <2>1. k - 1 \in 0..(MaxBlobLen - 1) BY StoredBlobIs
  <2> DEFINE b == BlobAddress(j, k - 1)
  <2>2. /\ b \in ExternalAddresses /\ b + 1 \in ExternalAddresses
        /\ BlobDevice(j) \in Devices
    BY <2>1, BlobAddressIs
  <2>3. ASSUME NEW c \in {0, 1}, BlobDevice(j) = d, b + c = a PROVE FALSE
    <3>1. j = i /\ k - 1 = n BY <2>1, <2>3, BlobAddressesDiffer
    <3>2. k \in 1..n BY <3>1
    <3> QED BY <3>1, <3>2
  <2>4. b \in Nat BY <2>2 DEF ExternalAddresses
  <2>5. BlobDevice(j) = d => b # a /\ b + 1 # a
    BY <2>3, <2>4
  <2> HIDE DEF a, b, d
  <2> QED BY <1>2, <2>2, <2>5 DEF b
<1>6. StoredChars' = StoredChars BY DEF StoredChars, ReadInternal
<1> QED BY <1>4, <1>5, <1>6 DEF TablesKept, StoredWords, StoredBlobs

\* Publishing a new length of a word: one more character, or none at all.
LEMMA WordLengthEffect ==
  ASSUME Inv, NEW i \in Ids, NEW v \in Byte, v <= MaxWordLen,
         WriteInternal(WordLengthAddress(i), v), UNCHANGED external
  PROVE  /\ StoredChars' = StoredChars /\ StoredBlobs' = StoredBlobs
         /\ StoredWords' = [StoredWords EXCEPT ![i] =
              [k \in 1..v |-> ReadExternal(0, WordAddress(i, k - 1))]]
<1>1. TypeOK /\ LengthsBounded BY InvGives
<1>2. /\ GetWordShortcutLength(i)' = v
      /\ \A j \in Ids : j # i =>
           GetWordShortcutLength(j)' = GetWordShortcutLength(j)
      /\ \A j \in BlobIds : GetBlobShortcutLength(j)' = GetBlobShortcutLength(j)
      /\ \A j \in Ids : ReadInternal(j)' = ReadInternal(j)
  BY <1>1, WordLengthWritten
<1>3. \A d, a : ReadExternal(d, a)' = ReadExternal(d, a) BY DEF ReadExternal
<1>4. StoredChars' = StoredChars BY <1>2 DEF StoredChars
<1>5. \A j \in BlobIds : StoredBlob(j)' = StoredBlob(j) BY <1>2, <1>3, BlobKept
<1>6. \A j \in Ids : j # i => StoredWord(j)' = StoredWord(j)
  BY <1>2, <1>3, WordKept
<1>7. StoredWord(i)' = [k \in 1..v |-> ReadExternal(0, WordAddress(i, k - 1))]
  BY <1>2, <1>3 DEF StoredWord
<1> QED BY <1>4, <1>5, <1>6, <1>7 DEF StoredWords, StoredBlobs

\* A blob's length byte changes that blob and nothing else.
LEMMA BlobLengthEffect ==
  ASSUME Inv, NEW i \in BlobIds, NEW v \in Byte, v <= MaxBlobLen,
         WriteInternal(BlobLengthAddress(i), v), UNCHANGED external
  PROVE  /\ StoredChars' = StoredChars /\ StoredWords' = StoredWords
         /\ StoredBlobs' = [StoredBlobs EXCEPT ![i] =
              [k \in 1..v |->
                 <<ReadExternal(BlobDevice(i), BlobAddress(i, k - 1)),
                   ReadExternal(BlobDevice(i), BlobAddress(i, k - 1) + 1)>>]]
<1>1. TypeOK /\ LengthsBounded BY InvGives
<1>2. /\ GetBlobShortcutLength(i)' = v
      /\ \A j \in BlobIds : j # i =>
           GetBlobShortcutLength(j)' = GetBlobShortcutLength(j)
      /\ \A j \in Ids : GetWordShortcutLength(j)' = GetWordShortcutLength(j)
      /\ \A j \in Ids : ReadInternal(j)' = ReadInternal(j)
  BY <1>1, BlobLengthWritten
<1>3. \A d, a : ReadExternal(d, a)' = ReadExternal(d, a) BY DEF ReadExternal
<1>4. StoredChars' = StoredChars BY <1>2 DEF StoredChars
<1>5. \A j \in Ids : StoredWord(j)' = StoredWord(j) BY <1>2, <1>3, WordKept
<1>6. \A j \in BlobIds : j # i => StoredBlob(j)' = StoredBlob(j)
  BY <1>2, <1>3, BlobKept
<1>7. StoredBlob(i)' = [k \in 1..v |->
        <<ReadExternal(BlobDevice(i), BlobAddress(i, k - 1)),
          ReadExternal(BlobDevice(i), BlobAddress(i, k - 1) + 1)>>]
  BY <1>2, <1>3 DEF StoredBlob
<1> QED BY <1>4, <1>5, <1>6, <1>7 DEF StoredWords, StoredBlobs
-----------------------------------------------------------------------------
(***************************************************************************)
(* The operation in progress carries the arguments it was called with.     *)
(***************************************************************************)
ArgumentsKept ==
  /\ call.at \in {"word_char", "word_length", "blob_char", "blob_modcode",
                  "blob_length"} => call.character \in Characters
  /\ call.at \in {"blob_char", "blob_modcode", "blob_length"} =>
       call.modcode \in ModCodes
  /\ call.at \in {"send_word", "send_append"} => call.modcode \in WordMods

\* Before the first call there are no arguments.
LEMMA ArgumentsInit == Init => ArgumentsKept
BY DEF Init, Idle, ArgumentsKept

\* The frame of an append keeps holding the arguments it was called with.
LEMMA ArgumentsNext == Inv /\ ArgumentsKept /\ [Next]_vars => ArgumentsKept'
<1> SUFFICES ASSUME Inv, ArgumentsKept, [Next]_vars PROVE ArgumentsKept' OBVIOUS
<1>1. ASSUME call' = Idle PROVE ArgumentsKept' BY <1>1 DEF Idle, ArgumentsKept
<1>2. TypeOK BY InvGives
<1>3. ASSUME NEW i \in Ids, NEW c \in Characters,
             SetCharacterShortcut(i, c) \/ AppendToWordShortcut(i, c)
      PROVE  ArgumentsKept'
  <2>1. CASE call' = Idle BY <1>1, <2>1
  <2>2. CASE call' = Frame("word_char", i, c, 0, GetWordShortcutLength(i))
    BY <2>2 DEF Frame, ArgumentsKept
  <2> QED
    BY <1>3, <2>1, <2>2 DEF SetCharacterShortcut, AppendToWordShortcut, Return
<1>4. ASSUME NEW i \in Ids, NEW c \in Characters, NEW m \in ModCodes,
             AppendToBlobShortcut(i, c, m)
      PROVE  ArgumentsKept'
  <2>1. CASE call' = Idle BY <1>1, <2>1
  <2>2. CASE call' = Frame("blob_char", i, c, m, GetBlobShortcutLength(i))
    BY <2>2 DEF Frame, ArgumentsKept
  <2> QED BY <1>4, <2>1, <2>2 DEF AppendToBlobShortcut, Return
<1>5. ASSUME NEW i \in Ids,
             ClearWordShortcut(i) \/ ClearBlobShortcut(i) \/ SendBlobShortcut(i)
      PROVE  ArgumentsKept'
  <2>1. CASE call' = Idle BY <1>1, <2>1
  <2>2. CASE call' = Frame("send_blob", i, 0, 0, GetBlobShortcutLength(i))
    BY <2>2 DEF Frame, ArgumentsKept
  <2> QED
    BY <1>5, <2>1, <2>2
    DEF ClearWordShortcut, ClearBlobShortcut, SendBlobShortcut, BeginSend, Return
<1>6. ASSUME NEW i \in Ids, NEW m \in WordMods, SendWordShortcut(i, m)
      PROVE  ArgumentsKept'
  <2>1. CASE call' = Idle BY <1>1, <2>1
  <2>2. CASE call' = Frame("send_word", i, 0, m, GetWordShortcutLength(i))
    BY <2>2 DEF Frame, ArgumentsKept
  <2> QED BY <1>6, <2>1, <2>2 DEF SendWordShortcut, BeginSend, Return
<1>7. CASE WriteWordCharacter \/ WriteBlobCharacter \/ WriteBlobModcode
  <2>1. CASE call' = Idle BY <1>1, <2>1
  <2>2. ASSUME NEW at \in Positions, call' = [call EXCEPT !.at = at]
        PROVE  /\ call'.at = at /\ call'.character = call.character
               /\ call'.modcode = call.modcode
    BY <1>2, <2>2 DEF TypeOK
  <2> QED
    BY <1>7, <2>1, <2>2
    DEF WriteWordCharacter, WriteBlobCharacter, WriteBlobModcode, Return, Goto,
        ArgumentsKept, Positions
<1>8. CASE WriteWordLength \/ WriteBlobLength \/ PowerLoss
  BY <1>1, <1>8 DEF WriteWordLength, WriteBlobLength, PowerLoss, Return
<1>9. CASE SendWordCharacter \/ SendPunctuation \/ SendBlobKeypress
  <2>1. CASE call' = Idle BY <1>1, <2>1
  <2>2. CASE call' = [call EXCEPT !.i = @ + 1]
    BY <1>2, <2>2 DEF TypeOK, ArgumentsKept
  <2>3. CASE call' = [call EXCEPT !.at = "send_append"] /\ call.at = "send_word"
    BY <1>2, <2>3 DEF TypeOK, ArgumentsKept
  <2> QED
    BY <1>9, <2>1, <2>2, <2>3
    DEF SendWordCharacter, SendPunctuation, SendBlobKeypress, Return, Goto, Advance
<1>10. CASE UNCHANGED vars BY <1>10 DEF vars, ArgumentsKept
<1> QED
  BY <1>3, <1>4, <1>5, <1>6, <1>7, <1>8, <1>9, <1>10 DEF Next
-----------------------------------------------------------------------------
(***************************************************************************)
(* The steps of the controller, one kind at a time.                        *)
(***************************************************************************)
NotSending == [kind |-> "none", index |-> 0, modcode |-> 0]

SendPositions == {"send_word", "send_append", "send_blob"}

\* The send the abstract store sees, by the position of the call.
LEMMA SendingIs ==
  /\ call.at \notin SendPositions => StoredSending = NotSending
  /\ call.at \in {"send_word", "send_append"} =>
       StoredSending =
         [kind |-> "word", index |-> call.index, modcode |-> call.modcode]
  /\ call.at = "send_blob" =>
       StoredSending = [kind |-> "blob", index |-> call.index, modcode |-> 0]
  /\ StoredSending = NotSending => call.at \notin SendPositions
BY DEF StoredSending, NotSending, SendPositions

\* Returning, or calling anything but a send, leaves no send to see.
LEMMA NotSendingNext ==
  ASSUME \/ call' = Idle
         \/ \E at, i, c, m, n :
              at \notin SendPositions /\ call' = Frame(at, i, c, m, n)
         \/ \E at : /\ at \notin SendPositions /\ TypeOK
                    /\ call' = [call EXCEPT !.at = at]
  PROVE  StoredSending' = NotSending
<1>1. "idle" \notin SendPositions BY DEF SendPositions
<1>2. call'.at \notin SendPositions BY <1>1 DEF Idle, Frame, TypeOK
<1> QED BY <1>2 DEF StoredSending, NotSending, SendPositions

\* A step that leaves the tables alone, sends nothing and does not return is
\* invisible; one that returns false is a refusal.
LEMMA QuietStep ==
  ASSUME TablesKept, UNCHANGED sent,
         StoredSending = NotSending, StoredSending' = NotSending,
         result' = result \/ result' = "false"
  PROVE  [Store!Next]_(Store!vars)
<1>1. CASE result' = result
  BY <1>1 DEF Store!vars, TablesKept, StoredWords, StoredBlobs
<1>2. CASE result' = "false"
  <2>1. Store!Refuse
    BY <1>2
    DEF Store!Refuse, Store!NotSending, NotSending, TablesKept, StoredWords,
        StoredBlobs
  <2> QED BY <2>1 DEF Store!Next
<1> QED BY <1>1, <1>2

\* Blank EEPROMs are the empty store.
LEMMA InitRefines == Init => Store!Init
<1> SUFFICES ASSUME Init PROVE Store!Init OBVIOUS
<1>1. Decode(255) = 0 BY DEF Decode
<1>2. \A a \in InternalAddresses : ReadInternal(a) = 0
  BY <1>1 DEF Init, ReadInternal
<1>3. /\ \A i \in Ids : GetWordShortcutLength(i) = 0
      /\ \A i \in BlobIds : GetBlobShortcutLength(i) = 0
      /\ \A i \in Ids : ReadInternal(i) = 0
  BY <1>2, InternalAddress DEF GetWordShortcutLength, GetBlobShortcutLength
<1>4. StoredChars = [i \in Ids |-> 0] BY <1>3 DEF StoredChars
<1>5. /\ \A i \in Ids : StoredWord(i) = <<>>
      /\ \A i \in BlobIds : StoredBlob(i) = <<>>
  <2>1. Inv BY InitInv
  <2>2. \A i \in Ids : StoredWord(i) \in Seq(Byte) /\ Len(StoredWord(i)) = 0
    BY <1>3, <2>1, StoredWordIs
  <2>3. \A i \in BlobIds :
          StoredBlob(i) \in Seq(Byte \X Byte) /\ Len(StoredBlob(i)) = 0
    BY <1>3, <2>1, StoredBlobIs
  <2>4. ASSUME NEW S, NEW s \in Seq(S), Len(s) = 0 PROVE s = <<>>
    BY <2>4, EmptySeq
  <2> QED BY <2>2, <2>3, <2>4
<1>6. StoredSending = NotSending BY DEF Init, Idle, StoredSending, NotSending
<1> QED
  BY <1>4, <1>5, <1>6 DEF Init, Store!Init, Store!NotSending, NotSending

\* SetCharacterShortcut is its abstract operation.
LEMMA CharacterRefines ==
  ASSUME Inv, NEW i \in Ids, NEW c \in Characters, SetCharacterShortcut(i, c)
  PROVE  [Store!Next]_(Store!vars)
<1>1. c \in Byte /\ TypeOK /\ LengthsBounded BY InputAssumption, InvGives
<1>2. /\ ReadInternal(i)' = c
      /\ \A j \in Ids : j # i => ReadInternal(j)' = ReadInternal(j)
      /\ \A j \in Ids : GetWordShortcutLength(j)' = GetWordShortcutLength(j)
      /\ \A j \in BlobIds : GetBlobShortcutLength(j)' = GetBlobShortcutLength(j)
  BY <1>1, CharacterWritten DEF SetCharacterShortcut
<1>3. UNCHANGED external /\ UNCHANGED sent /\ result' = "true"
  BY DEF SetCharacterShortcut, Return
<1>4. \A d, a : ReadExternal(d, a)' = ReadExternal(d, a)
  BY <1>3 DEF ReadExternal
<1>5. \A j \in Ids : StoredWord(j)' = StoredWord(j) BY <1>2, <1>4, WordKept
<1>6. \A j \in BlobIds : StoredBlob(j)' = StoredBlob(j) BY <1>2, <1>4, BlobKept
<1>7. StoredChars' = [StoredChars EXCEPT ![i] = c] BY <1>2 DEF StoredChars
<1>8. StoredSending = NotSending /\ StoredSending' = NotSending
  BY NotSendingNext
  DEF SetCharacterShortcut, Return, Idle, StoredSending, NotSending
<1>9. Store!SetCharacter(i, c)
  BY <1>3, <1>5, <1>6, <1>7, <1>8
  DEF Store!SetCharacter, Store!NotSending, NotSending
<1> QED BY <1>9 DEF Store!Next

\* Beginning an append changes nothing of the store, or is a refusal.
LEMMA AppendRefines ==
  ASSUME Inv, NEW i \in Ids, NEW c, NEW m,
         AppendToWordShortcut(i, c) \/ AppendToBlobShortcut(i, c, m)
  PROVE  [Store!Next]_(Store!vars)
<1>1. TablesKept /\ UNCHANGED sent
  BY MemoryKept DEF AppendToWordShortcut, AppendToBlobShortcut
<1>2. StoredSending = NotSending
  BY DEF AppendToWordShortcut, AppendToBlobShortcut, Idle, StoredSending,
         NotSending
<1>3. StoredSending' = NotSending
  <2>1. "word_char" \notin SendPositions /\ "blob_char" \notin SendPositions
    BY DEF SendPositions
  <2> QED
    BY <2>1, NotSendingNext
    DEF AppendToWordShortcut, AppendToBlobShortcut, Return
<1>4. result' = result \/ result' = "false"
  BY DEF AppendToWordShortcut, AppendToBlobShortcut, Return
<1> QED BY <1>1, <1>2, <1>3, <1>4, QuietStep

\* Clearing a word or a blob is its abstract operation.
LEMMA ClearRefines ==
  ASSUME Inv, NEW i \in Ids, ClearWordShortcut(i) \/ ClearBlobShortcut(i)
  PROVE  [Store!Next]_(Store!vars)
<1>1. StoredSending = NotSending /\ StoredSending' = NotSending
  BY NotSendingNext
  DEF ClearWordShortcut, ClearBlobShortcut, Return, Idle, StoredSending, NotSending
<1>2. /\ 0 \in Byte /\ 0 <= MaxWordLen /\ 0 <= MaxBlobLen
      /\ (~(i > kLayerBMaxIndex) => i \in BlobIds)
  BY LayoutAssumption DEF LayoutIsSound, Byte, Ids, BlobIds
<1>4. CASE ClearWordShortcut(i)
  <2>1. /\ WriteInternal(WordLengthAddress(i), 0) /\ UNCHANGED <<external, sent>>
        /\ result' = "true"
    BY <1>4 DEF ClearWordShortcut, Return
  <2>2. /\ StoredChars' = StoredChars /\ StoredBlobs' = StoredBlobs
        /\ StoredWords' = [StoredWords EXCEPT ![i] =
             [k \in 1..0 |-> ReadExternal(0, WordAddress(i, k - 1))]]
    BY <1>2, <2>1, WordLengthEffect
  <2>3. [k \in 1..0 |-> ReadExternal(0, WordAddress(i, k - 1))] = <<>>
    OBVIOUS
  <2>4. Store!ClearWord(i)
    BY <1>1, <2>1, <2>2, <2>3
    DEF Store!ClearWord, Store!NotSending, NotSending, StoredWords, StoredBlobs
  <2> QED BY <2>4 DEF Store!Next
<1>5. CASE ClearBlobShortcut(i) /\ i > kLayerBMaxIndex
  <2>1. TablesKept /\ UNCHANGED sent /\ result' = "false"
    BY <1>5, MemoryKept DEF ClearBlobShortcut, Return
  <2> QED BY <1>1, <2>1, QuietStep
<1>6. CASE ClearBlobShortcut(i) /\ ~(i > kLayerBMaxIndex)
  <2>1. /\ WriteInternal(BlobLengthAddress(i), 0) /\ UNCHANGED <<external, sent>>
        /\ result' = "true" /\ i \in BlobIds
    BY <1>2, <1>6 DEF ClearBlobShortcut, Return
  <2>2. /\ StoredChars' = StoredChars /\ StoredWords' = StoredWords
        /\ StoredBlobs' = [StoredBlobs EXCEPT ![i] =
             [k \in 1..0 |->
                <<ReadExternal(BlobDevice(i), BlobAddress(i, k - 1)),
                  ReadExternal(BlobDevice(i), BlobAddress(i, k - 1) + 1)>>]]
    BY <1>2, <2>1, BlobLengthEffect
  <2>3. [k \in 1..0 |-> <<ReadExternal(BlobDevice(i), BlobAddress(i, k - 1)),
                    ReadExternal(BlobDevice(i), BlobAddress(i, k - 1) + 1)>>]
          = <<>>
    OBVIOUS
  <2>4. Store!ClearBlob(i)
    BY <1>1, <2>1, <2>2, <2>3
    DEF Store!ClearBlob, Store!NotSending, NotSending, StoredWords, StoredBlobs
  <2> QED BY <2>1, <2>4 DEF Store!Next
<1> QED BY <1>4, <1>5, <1>6

\* Of the two writes of a word append the first is invisible, and the second is
\* the abstract append.
LEMMA WriteWordRefines ==
  ASSUME Inv, ArgumentsKept, WriteWordCharacter \/ WriteWordLength
  PROVE  [Store!Next]_(Store!vars)
<1>1. PICK i, n, c : i = call.index /\ n = call.length /\ c = call.character
  OBVIOUS
<1>2. /\ i \in Ids /\ n \in 0..(MaxWordLen - 1) /\ c \in Byte /\ c \in Characters
      /\ n = GetWordShortcutLength(i) /\ n + 1 \in Byte /\ n + 1 <= MaxWordLen
      /\ call.at \in {"word_char", "word_length"} /\ TypeOK
  <2>1. call.at \in {"word_char", "word_length"}
    BY DEF WriteWordCharacter, WriteWordLength
  <2>2. n \in Nat /\ n + 1 \in Byte /\ n + 1 <= MaxWordLen
    BY <1>1, <2>1, InvGives DEF Byte
  <2>3. n \in 0..(MaxWordLen - 1)
    BY <2>2, LayoutAssumption DEF LayoutIsSound
  <2>4. n = GetWordShortcutLength(i)
    BY <1>1, <2>1 DEF Inv, LengthsFitSlots
  <2> QED BY <1>1, <2>1, <2>2, <2>3, <2>4, InvGives DEF ArgumentsKept
<1>3. StoredSending = NotSending
  BY <1>2 DEF StoredSending, NotSending
<1>4. CASE WriteWordCharacter
  <2>1. /\ UNCHANGED <<internal, sent>>
        /\ \/ external' = external
           \/ WriteExternal(0, WordAddress(i, n), c)
    BY <1>1, <1>4 DEF WriteWordCharacter, FailToWriteExternal
  <2>2. TablesKept BY <1>2, <2>1, MemoryKept, HiddenWordWrite
  <2>3. StoredSending' = NotSending
    <3>1. "word_length" \notin SendPositions BY DEF SendPositions
    <3>2. call' = Idle \/ call' = [call EXCEPT !.at = "word_length"]
      BY <1>4 DEF WriteWordCharacter, Goto, Return
    <3> QED BY <1>2, <3>1, <3>2, NotSendingNext
  <2>4. result' = result \/ result' = "false"
    BY <1>4 DEF WriteWordCharacter, Return
  <2> QED BY <1>3, <2>1, <2>2, <2>3, <2>4, QuietStep
<1>5. CASE WriteWordLength
  <2>1. /\ WriteInternal(WordLengthAddress(i), n + 1)
        /\ UNCHANGED <<external, sent>> /\ result' = "true" /\ call' = Idle
    BY <1>1, <1>5 DEF WriteWordLength, Return
  <2> DEFINE t == [k \in 1..(n + 1) |-> ReadExternal(0, WordAddress(i, k - 1))]
  <2>2. /\ StoredChars' = StoredChars /\ StoredBlobs' = StoredBlobs
        /\ StoredWords' = [StoredWords EXCEPT ![i] = t]
    BY <1>2, <2>1, WordLengthEffect
  <2>3. ReadExternal(0, WordAddress(i, n)) = c
    BY <1>1, <1>5 DEF WriteWordLength, Inv, BytesStored
  <2>4. /\ StoredWord(i) \in Seq(Byte) /\ Len(StoredWord(i)) = n
        /\ \A k \in 1..n :
             StoredWord(i)[k] = ReadExternal(0, WordAddress(i, k - 1))
    BY <1>2, StoredWordIs
  <2>5. t = [k \in 1..(n + 1) |-> IF k <= n THEN StoredWord(i)[k] ELSE c]
    <3> SUFFICES ASSUME NEW k \in 1..(n + 1)
                 PROVE  ReadExternal(0, WordAddress(i, k - 1)) =
                          IF k <= n THEN StoredWord(i)[k] ELSE c
      OBVIOUS
    <3>1. CASE k \in 1..n BY <1>2, <2>4, <3>1
    <3>2. CASE k = n + 1
      <4>1. k - 1 = n /\ ~(k <= n) BY <1>2, <3>2
      <4> QED BY <2>3, <4>1
    <3> QED BY <1>2, <3>1, <3>2
  <2>6. t = Append(StoredWord(i), c)
    <3>1. PICK s \in Seq(Byte) : s = StoredWord(i) BY <2>4
    <3>2. Len(s) = n BY <2>4, <3>1
    <3>3. t = [k \in 1..(Len(s) + 1) |-> IF k <= Len(s) THEN s[k] ELSE c]
      BY <2>5, <3>1, <3>2
    <3> HIDE DEF t
    <3>4. c \in Byte BY <1>2
    <3> QED BY <3>1, <3>3, <3>4, AppendIs
  <2> HIDE DEF t
  <2>7. StoredSending' = NotSending BY <2>1, NotSendingNext
  <2>8. Len(StoredWord(i)) < MaxWordLen
    BY <1>2, <2>4, LayoutAssumption DEF LayoutIsSound
  <2>9. Store!AppendToWord(i, c)
    BY <1>2, <1>3, <2>1, <2>2, <2>6, <2>7, <2>8
    DEF Store!AppendToWord, Store!NotSending, NotSending, StoredWords, StoredBlobs
  <2> QED BY <1>2, <2>9 DEF Store!Next
<1> QED BY <1>4, <1>5

\* Of the three writes of a blob append the first two are invisible, and the
\* third is the abstract append.
LEMMA WriteBlobRefines ==
  ASSUME Inv, ArgumentsKept,
         WriteBlobCharacter \/ WriteBlobModcode \/ WriteBlobLength
  PROVE  [Store!Next]_(Store!vars)
<1>1. PICK i, n, c, m : /\ i = call.index /\ n = call.length
                        /\ c = call.character /\ m = call.modcode
  OBVIOUS
<1>2. /\ i \in BlobIds /\ n \in 0..(MaxBlobLen - 1) /\ c \in Byte /\ m \in Byte
      /\ c \in Characters /\ m \in ModCodes
      /\ n = GetBlobShortcutLength(i) /\ n + 1 \in Byte /\ n + 1 <= MaxBlobLen
      /\ call.at \in {"blob_char", "blob_modcode", "blob_length"} /\ TypeOK
  <2>1. call.at \in {"blob_char", "blob_modcode", "blob_length"}
    BY DEF WriteBlobCharacter, WriteBlobModcode, WriteBlobLength
  <2>2. n \in Nat /\ n + 1 \in Byte /\ n + 1 <= MaxBlobLen
    BY <1>1, <2>1, InvGives DEF Byte
  <2>3. n \in 0..(MaxBlobLen - 1)
    BY <2>2, LayoutAssumption DEF LayoutIsSound
  <2>4. n = GetBlobShortcutLength(i) /\ i \in BlobIds
    BY <1>1, <2>1 DEF Inv, LengthsFitSlots
  <2> QED BY <1>1, <2>1, <2>2, <2>3, <2>4, InvGives DEF ArgumentsKept
<1>3. StoredSending = NotSending
  BY <1>2 DEF StoredSending, NotSending
<1>4. CASE WriteBlobCharacter \/ WriteBlobModcode
  <2>1. /\ UNCHANGED <<internal, sent>>
        /\ \/ external' = external
           \/ \E v \in Byte, o \in {0, 1} :
                WriteExternal(BlobDevice(i), BlobAddress(i, n) + o, v)
    <3>1. CASE WriteBlobCharacter
      <4>1. BlobAddress(i, n) + 0 = BlobAddress(i, n)
        BY <1>2, BlobAddressIs DEF ExternalAddresses
      <4>2. \/ external' = external
            \/ WriteExternal(BlobDevice(i), BlobAddress(i, n) + 0, c)
        BY <1>1, <3>1, <4>1 DEF WriteBlobCharacter, FailToWriteExternal
      <4> QED BY <1>2, <3>1, <4>2 DEF WriteBlobCharacter
    <3>2. CASE WriteBlobModcode
      <4>1. \/ external' = external
            \/ WriteExternal(BlobDevice(i), BlobAddress(i, n) + 1, m)
        BY <1>1, <3>2 DEF WriteBlobModcode, FailToWriteExternal
      <4> QED BY <1>2, <3>2, <4>1 DEF WriteBlobModcode
    <3> QED BY <1>4, <3>1, <3>2
  <2>2. TablesKept BY <1>2, <2>1, MemoryKept, HiddenBlobWrite
  <2>3. StoredSending' = NotSending
    <3>1. "blob_modcode" \notin SendPositions /\ "blob_length" \notin SendPositions
      BY DEF SendPositions
    <3>2. \/ call' = Idle
          \/ call' = [call EXCEPT !.at = "blob_modcode"]
          \/ call' = [call EXCEPT !.at = "blob_length"]
      BY <1>4 DEF WriteBlobCharacter, WriteBlobModcode, Goto, Return
    <3> QED BY <1>2, <3>1, <3>2, NotSendingNext
  <2>4. result' = result \/ result' = "false"
    BY <1>4 DEF WriteBlobCharacter, WriteBlobModcode, Return
  <2> QED BY <1>3, <2>1, <2>2, <2>3, <2>4, QuietStep
<1>5. CASE WriteBlobLength
  <2> DEFINE pair(k) == <<ReadExternal(BlobDevice(i), BlobAddress(i, k - 1)),
                          ReadExternal(BlobDevice(i), BlobAddress(i, k - 1) + 1)>>
             t == [k \in 1..(n + 1) |-> pair(k)]
  <2>1. /\ WriteInternal(BlobLengthAddress(i), n + 1)
        /\ UNCHANGED <<external, sent>> /\ result' = "true" /\ call' = Idle
    BY <1>1, <1>5 DEF WriteBlobLength, Return
  <2>2. /\ StoredChars' = StoredChars /\ StoredWords' = StoredWords
        /\ StoredBlobs' = [StoredBlobs EXCEPT ![i] = t]
    BY <1>2, <2>1, BlobLengthEffect
  <2>3. <<ReadExternal(BlobDevice(i), BlobAddress(i, n)),
          ReadExternal(BlobDevice(i), BlobAddress(i, n) + 1)>> = <<c, m>>
    BY <1>1, <1>5 DEF WriteBlobLength, Inv, BytesStored
  <2>4. /\ StoredBlob(i) \in Seq(Byte \X Byte) /\ Len(StoredBlob(i)) = n
        /\ \A k \in 1..n : StoredBlob(i)[k] = pair(k)
    BY <1>2, StoredBlobIs
  <2>5. pair(n + 1) = <<c, m>>
    <3>1. (n + 1) - 1 = n BY <1>2
    <3>2. BlobAddress(i, (n + 1) - 1) = BlobAddress(i, n) BY <3>1, Zenon
    <3>3. pair(n + 1) = <<ReadExternal(BlobDevice(i), BlobAddress(i, n)),
                          ReadExternal(BlobDevice(i), BlobAddress(i, n) + 1)>>
      BY <3>2, Zenon
    <3> QED BY <2>3, <3>3, Zenon
  <2> HIDE DEF pair
  <2>6. t = [k \in 1..(n + 1) |-> IF k <= n THEN StoredBlob(i)[k] ELSE <<c, m>>]
    <3> SUFFICES ASSUME NEW k \in 1..(n + 1)
                 PROVE  pair(k) = IF k <= n THEN StoredBlob(i)[k] ELSE <<c, m>>
      OBVIOUS
    <3>1. CASE k \in 1..n BY <1>2, <2>4, <3>1
    <3>2. CASE k = n + 1
      <4>1. ~(k <= n) BY <1>2, <3>2
      <4> QED BY <2>5, <3>2, <4>1
    <3> QED BY <1>2, <3>1, <3>2
  <2>7. t = Append(StoredBlob(i), <<c, m>>)
    <3>1. <<c, m>> \in Byte \X Byte BY <1>2
    <3> QED BY <2>4, <2>6, <3>1, AppendIs
  <2> HIDE DEF t
  <2>8. StoredSending' = NotSending BY <2>1, NotSendingNext
  <2>9. Len(StoredBlob(i)) < MaxBlobLen
    BY <1>2, <2>4, LayoutAssumption DEF LayoutIsSound
  <2>10. Store!AppendToBlob(i, c, m)
    BY <1>2, <1>3, <2>1, <2>2, <2>7, <2>8, <2>9
    DEF Store!AppendToBlob, Store!NotSending, NotSending, StoredWords, StoredBlobs
  <2> QED BY <1>2, <2>10 DEF Store!Next
<1> QED BY <1>4, <1>5

(***************************************************************************)
(* Sending: the text of the store is what the loop has left to type.       *)
(***************************************************************************)
LEMMA BeginSendRefines ==
  ASSUME Inv, NEW i \in Ids, NEW m,
         \/ SendWordShortcut(i, m) /\ m \in WordMods
         \/ SendBlobShortcut(i)
  PROVE  [Store!Next]_(Store!vars)
<1>1. TablesKept /\ StoredSending = NotSending
  BY MemoryKept
  DEF SendWordShortcut, SendBlobShortcut, BeginSend, Idle, StoredSending, NotSending
<1>2. CASE UNCHANGED sent /\ Return("false")
  BY <1>1, <1>2, NotSendingNext, QuietStep DEF Return
<1>3. CASE /\ SendWordShortcut(i, m) /\ m \in WordMods
           /\ ~(UNCHANGED sent /\ Return("false"))
  <2>1. /\ call' = Frame("send_word", i, 0, m, GetWordShortcutLength(i))
        /\ sent' = <<>> /\ result' = result /\ GetWordShortcutLength(i) # 0
    BY <1>3 DEF SendWordShortcut, BeginSend
  <2>2. StoredSending' = [kind |-> "word", index |-> i, modcode |-> m]
    BY <2>1 DEF Frame, StoredSending
  <2>3. StoredWord(i) # <<>>
    <3>1. StoredWord(i) \in Seq(Byte) /\ Len(StoredWord(i)) # 0
      BY <2>1, StoredWordIs
    <3> QED BY <3>1
  <2>4. Store!SendWord(i, m)
    BY <1>1, <2>1, <2>2, <2>3
    DEF Store!SendWord, Store!BeginSend, Store!NotSending, NotSending, TablesKept,
        StoredWords, StoredBlobs
  <2> QED BY <1>3, <2>4 DEF Store!Next
<1>4. CASE SendBlobShortcut(i) /\ ~(UNCHANGED sent /\ Return("false"))
  <2>1. i \in BlobIds
    BY <1>4, LayoutAssumption DEF LayoutIsSound, SendBlobShortcut, Ids, BlobIds
  <2>2. /\ call' = Frame("send_blob", i, 0, 0, GetBlobShortcutLength(i))
        /\ sent' = <<>> /\ result' = result /\ GetBlobShortcutLength(i) # 0
    BY <1>4 DEF SendBlobShortcut, BeginSend
  <2>3. StoredSending' = [kind |-> "blob", index |-> i, modcode |-> 0]
    BY <2>2 DEF Frame, StoredSending
  <2>4. StoredBlob(i) # <<>>
    <3>1. StoredBlob(i) \in Seq(Byte \X Byte) /\ Len(StoredBlob(i)) # 0
      BY <2>1, <2>2, StoredBlobIs
    <3> QED BY <3>1
  <2>5. Store!SendBlob(i)
    BY <1>1, <2>1, <2>2, <2>3, <2>4
    DEF Store!SendBlob, Store!BeginSend, Store!NotSending, NotSending, TablesKept,
        StoredWords, StoredBlobs
  <2> QED BY <2>1, <2>5 DEF Store!Next
<1> QED BY <1>2, <1>3, <1>4

\* A step of a send loop that types the next key k of the text, or gives up.
LEMMA DeliverRefines ==
  ASSUME TypeOK, UNCHANGED <<internal, external>>,
         StoredSending # NotSending,
         Len(Store!Text) \in Nat, Len(sent) < Len(Store!Text),
         NEW k, k = Store!Text[Len(sent) + 1],
         \/ FailToSendKeypress(k) /\ Return("false")
         \/ /\ SendKeypress(k) /\ Return("true")
            /\ Len(sent) + 1 = Len(Store!Text)
         \/ /\ SendKeypress(k) /\ result' = result
            /\ StoredSending' = StoredSending
            /\ Len(sent) + 1 # Len(Store!Text)
  PROVE  [Store!Next]_(Store!vars)
<1>1. /\ StoredChars' = StoredChars
      /\ [j \in Ids |-> StoredWord(j)]' = [j \in Ids |-> StoredWord(j)]
      /\ [j \in BlobIds |-> StoredBlob(j)]' = [j \in BlobIds |-> StoredBlob(j)]
  BY MemoryKept DEF TablesKept, StoredWords, StoredBlobs
<1>2. NotSending = Store!NotSending BY DEF NotSending, Store!NotSending
<1>3. CASE FailToSendKeypress(k) /\ Return("false")
  <2>1. StoredSending' = NotSending BY <1>3, NotSendingNext DEF Return
  <2>2. Store!GiveUp
    BY <1>1, <1>2, <1>3, <2>1
    DEF Store!GiveUp, Store!DeliverNext, FailToSendKeypress, SendKeypress, Return
  <2> QED BY <2>2 DEF Store!Next
<1>4. CASE /\ SendKeypress(k) /\ Return("true")
           /\ Len(sent) + 1 = Len(Store!Text)
  <2>1. StoredSending' = NotSending BY <1>4, NotSendingNext DEF Return
  <2>2. Store!Deliver
    BY <1>1, <1>2, <1>4, <2>1
    DEF Store!Deliver, Store!DeliverNext, SendKeypress, Return
  <2> QED BY <2>2 DEF Store!Next
<1>5. CASE /\ SendKeypress(k) /\ result' = result
           /\ StoredSending' = StoredSending
           /\ Len(sent) + 1 # Len(Store!Text)
  <2>1. Store!Deliver
    BY <1>1, <1>2, <1>5 DEF Store!Deliver, Store!DeliverNext, SendKeypress
  <2> QED BY <2>1 DEF Store!Next
<1> QED BY <1>3, <1>4, <1>5

\* Where a word send is, the character it sends next is the next one of the
\* text.
LEMMA WordTextIs ==
  ASSUME Inv, call.at \in {"send_word", "send_append"}
  PROVE  /\ call.index \in Ids /\ call.length \in Nat /\ call.i \in Nat
         /\ call.i < call.length /\ Len(sent) \in Nat
         /\ Len(Store!Text) =
              call.length + (IF Punctuation(call.modcode) > 0 THEN 1 ELSE 0)
         /\ Store!Text[call.i + 1] = WordKeypress
         /\ Punctuation(call.modcode) > 0 =>
              /\ Store!Text[call.length + 1] = <<Punctuation(call.modcode), 0>>
              /\ ~Shifted(call.modcode, call.i)
<1> DEFINE i == call.index
           n == call.length
           m == call.modcode
           p == call.i
           w == StoredWord(i)
           L == n + (IF m \in 3..5 THEN 1 ELSE 0)
<1>1. /\ i \in Ids /\ m \in Byte /\ m \in Nat /\ n \in Nat /\ p \in Nat
      /\ n = GetWordShortcutLength(i)
      /\ p < n /\ Len(sent) \in Nat /\ TypeOK
  <2>1. /\ i \in Ids /\ m \in Byte /\ n \in Byte /\ p \in Byte /\ TypeOK BY InvGives
  <2>2. n = GetWordShortcutLength(i) /\ p < n BY DEF Inv, SendOnTrack
  <2>3. Len(sent) \in Nat BY <2>1 DEF TypeOK
  <2>4. Byte \subseteq Nat BY DEF Byte
  <2> HIDE DEF i, n, m, p
  <2> QED BY <2>1, <2>2, <2>3, <2>4
<1>2. Len(w) = n /\ p + 1 \in 1..n
      /\ w[p + 1] = ReadExternal(0, WordAddress(i, p))
  <2>1. Len(w) = n /\ \A k \in 1..n : w[k] = ReadExternal(0, WordAddress(i, k - 1))
    BY <1>1, StoredWordIs
  <2>2. p + 1 \in 1..n /\ (p + 1) - 1 = p BY <1>1
  <2>3. WordAddress(i, (p + 1) - 1) = WordAddress(i, p) BY <2>2, Zenon
  <2>4. w[p + 1] = ReadExternal(0, WordAddress(i, (p + 1) - 1)) BY <2>1, <2>2
  <2> QED BY <2>1, <2>2, <2>3, <2>4, Zenon
<1>3. Store!Text = Store!WordText(w, m)
  BY <1>1 DEF Store!Text, StoredSending
<1>4. Store!TextLength(w, m) = L /\ L \in Nat
  BY <1>1, <1>2 DEF Store!TextLength
<1>5. Store!Text =
        [k \in 1..L |->
           IF k > n THEN <<Store!Punctuation[m], 0>>
           ELSE <<w[k], IF m = 1 \/ (m = 2 /\ k = 1) THEN 2 ELSE 0>>]
  BY <1>2, <1>3, <1>4 DEF Store!WordText, Store!LeftShift
<1> HIDE DEF i, n, m, p, w, L
<1>6. Len(Store!Text) = L BY <1>4, <1>5
<1>7. Punctuation(m) > 0 <=> m \in 3..5
  BY <1>1 DEF Punctuation, APPEND_PERIOD, APPEND_COMMA, APPEND_HYPHEN
<1>8. m \in 3..5 => Punctuation(m) = Store!Punctuation[m]
  BY DEF Punctuation, Store!Punctuation, APPEND_PERIOD, APPEND_COMMA, APPEND_HYPHEN
<1>9. Store!Text[p + 1] = WordKeypress
  <2>1. p + 1 \in 1..L /\ ~(p + 1 > n) BY <1>1, <1>2, <1>4 DEF L
  <2>2. (p + 1 = 1) <=> (p = 0) BY <1>1
  <2>3. Store!Text[p + 1] =
          <<w[p + 1], IF m = 1 \/ (m = 2 /\ p = 0) THEN 2 ELSE 0>>
    BY <1>5, <2>1, <2>2
  <2> QED
    BY <1>2, <2>3 DEF WordKeypress, Shifted, UPPERCASE, CAPITALISE, i, m, p
<1>10. ASSUME m \in 3..5
       PROVE  /\ Store!Text[n + 1] = <<Punctuation(m), 0>>
              /\ ~Shifted(m, p)
  <2>1. n + 1 \in 1..L /\ n + 1 > n BY <1>1, <1>10 DEF L
  <2> QED
    BY <1>5, <1>8, <1>10, <2>1 DEF Shifted, UPPERCASE, CAPITALISE
<1> QED BY <1>1, <1>6, <1>7, <1>9, <1>10 DEF i, n, m, p, L

\* A step of a word send delivers the next keypress of the text, ends the send
\* or gives up.
LEMMA SendWordRefines ==
  ASSUME Inv, SendWordCharacter \/ SendPunctuation
  PROVE  [Store!Next]_(Store!vars)
<1>1. /\ call.at \in {"send_word", "send_append"} /\ TypeOK
      /\ UNCHANGED <<internal, external>>
  BY InvGives DEF SendWordCharacter, SendPunctuation
<1>2. /\ call.length \in Nat /\ call.i \in Nat /\ call.i < call.length
      /\ Len(sent) \in Nat
      /\ Len(Store!Text) =
           call.length + (IF Punctuation(call.modcode) > 0 THEN 1 ELSE 0)
      /\ Store!Text[call.i + 1] = WordKeypress
      /\ Punctuation(call.modcode) > 0 =>
           /\ Store!Text[call.length + 1] = <<Punctuation(call.modcode), 0>>
           /\ ~Shifted(call.modcode, call.i)
  BY <1>1, WordTextIs
<1>3. StoredSending # NotSending
  BY <1>1, SendingIs DEF SendPositions
<1>4. Len(Store!Text) \in Nat BY <1>2
<1>5. CASE SendWordCharacter
  <2>1. call.at = "send_word" /\ Len(sent) = call.i
    BY <1>5 DEF SendWordCharacter, Inv, SendOnTrack
  <2>2. PICK k : k = WordKeypress OBVIOUS
  <2>3. k = Store!Text[Len(sent) + 1] /\ Len(sent) < Len(Store!Text)
    BY <1>2, <2>1, <2>2
  <2>4. PunctuationFollows <=>
          Punctuation(call.modcode) > 0 /\ call.i + 1 = call.length
    BY <1>2 DEF PunctuationFollows
  <2>5. CASE FailToSendKeypress(k) /\ Return("false")
    BY <1>1, <1>3, <1>4, <2>3, <2>5, DeliverRefines
  <2>6. CASE SendKeypress(k) /\ PunctuationFollows /\ Goto("send_append")
             /\ result' = result
    <3>1. StoredSending' = StoredSending
      BY <1>1, <2>1, <2>6 DEF Goto, StoredSending, TypeOK
    <3>2. Len(sent) + 1 # Len(Store!Text) BY <1>2, <2>1, <2>4, <2>6
    <3> QED BY <1>1, <1>3, <1>4, <2>3, <2>6, <3>1, <3>2, DeliverRefines
  <2>7. CASE SendKeypress(k) /\ ~PunctuationFollows /\ Advance
    <3>1. CASE call.i + 1 = call.length
      <4>1. Return("true") BY <2>7, <3>1 DEF Advance
      <4>2. Len(sent) + 1 = Len(Store!Text) BY <1>2, <2>1, <2>4, <2>7, <3>1
      <4> QED BY <1>1, <1>3, <1>4, <2>3, <2>7, <4>1, <4>2, DeliverRefines
    <3>2. CASE call.i + 1 # call.length
      <4>1. call' = [call EXCEPT !.i = @ + 1] /\ result' = result
        BY <2>7, <3>2 DEF Advance
      <4>2. StoredSending' = StoredSending
        BY <1>1, <4>1 DEF StoredSending, TypeOK
      <4>3. Len(sent) + 1 # Len(Store!Text) BY <1>2, <2>1, <3>2
      <4> QED BY <1>1, <1>3, <1>4, <2>3, <2>7, <4>1, <4>2, <4>3, DeliverRefines
    <3> QED BY <3>1, <3>2
  <2> QED BY <1>5, <2>2, <2>5, <2>6, <2>7 DEF SendWordCharacter
<1>6. CASE SendPunctuation
  <2>1. PunctuationFollows /\ Len(sent) = call.length
    BY <1>6 DEF SendPunctuation, Inv, SendOnTrack
  <2>2. call.i + 1 = call.length /\ Punctuation(call.modcode) > 0
    BY <1>2, <2>1 DEF PunctuationFollows
  <2>3. PICK k : k = <<Punctuation(call.modcode), 0>> OBVIOUS
  <2>4. /\ k = Store!Text[Len(sent) + 1] /\ Len(sent) < Len(Store!Text)
        /\ Len(sent) + 1 = Len(Store!Text)
    BY <1>2, <2>1, <2>2, <2>3
  <2>5. \/ FailToSendKeypress(k) /\ Return("false")
        \/ SendKeypress(k) /\ Return("true")
    BY <1>6, <2>2, <2>3 DEF SendPunctuation, Advance
  <2> QED BY <1>1, <1>3, <1>4, <2>4, <2>5, DeliverRefines
<1> QED BY <1>5, <1>6

\* A step of a blob send delivers the next keypress of the text, ends the send
\* or gives up.
LEMMA SendBlobRefines ==
  ASSUME Inv, SendBlobKeypress
  PROVE  [Store!Next]_(Store!vars)
<1> DEFINE i == call.index
           n == call.length
           p == call.i
<1>1. /\ call.at = "send_blob" /\ TypeOK /\ UNCHANGED <<internal, external>>
      /\ i \in BlobIds /\ n = GetBlobShortcutLength(i) /\ Len(sent) = p /\ p < n
  BY InvGives DEF SendBlobKeypress, Inv, SendOnTrack
<1>2. n \in Nat /\ p \in Nat
  <2>1. n \in Byte /\ p \in Byte BY InvGives
  <2>2. Byte \subseteq Nat BY DEF Byte
  <2> HIDE DEF n, p
  <2> QED BY <2>1, <2>2
<1>3. StoredSending = [kind |-> "blob", index |-> i, modcode |-> 0]
      /\ StoredSending # NotSending
  BY <1>1, SendingIs DEF SendPositions
<1>4. Store!Text = StoredBlob(i)
  BY <1>1, <1>3 DEF Store!Text
<1>5. Len(StoredBlob(i)) = n /\ p + 1 \in 1..n
  BY <1>1, <1>2, StoredBlobIs
<1>6. StoredBlob(i)[p + 1] = BlobKeypress
  <2>1. (p + 1) - 1 = p BY <1>2
  <2>2. BlobAddress(i, (p + 1) - 1) = BlobAddress(i, p) BY <2>1, Zenon
  <2>3. StoredBlob(i)[p + 1] =
          <<ReadExternal(BlobDevice(i), BlobAddress(i, (p + 1) - 1)),
            ReadExternal(BlobDevice(i), BlobAddress(i, (p + 1) - 1) + 1)>>
    BY <1>1, <1>5, StoredBlobIs
  <2> QED BY <2>2, <2>3, Zenon DEF BlobKeypress
<1>7. PICK k : k = BlobKeypress OBVIOUS
<1>8. /\ k = Store!Text[Len(sent) + 1] /\ Len(sent) < Len(Store!Text)
      /\ Len(Store!Text) \in Nat
  BY <1>1, <1>2, <1>4, <1>5, <1>6, <1>7
<1>9. CASE FailToSendKeypress(k) /\ Return("false")
  BY <1>1, <1>3, <1>8, <1>9, DeliverRefines
<1>10. CASE SendKeypress(k) /\ Advance
  <2>1. CASE p + 1 = n
    <3>1. Return("true") BY <1>10, <2>1 DEF Advance
    <3>2. Len(sent) + 1 = Len(Store!Text) BY <1>1, <1>4, <1>5, <2>1
    <3> QED BY <1>1, <1>3, <1>8, <1>10, <3>1, <3>2, DeliverRefines
  <2>2. CASE p + 1 # n
    <3>1. call' = [call EXCEPT !.i = @ + 1] /\ result' = result
      BY <1>10, <2>2 DEF Advance
    <3>2. StoredSending' = StoredSending
      BY <1>1, <3>1 DEF StoredSending, TypeOK
    <3>3. Len(sent) + 1 # Len(Store!Text) BY <1>1, <1>4, <1>5, <2>2
    <3> QED BY <1>1, <1>3, <1>8, <1>10, <3>1, <3>2, <3>3, DeliverRefines
  <2> QED BY <2>1, <2>2
<1> QED BY <1>7, <1>9, <1>10 DEF SendBlobKeypress

\* Every step is a step of the store or changes nothing of it.
LEMMA NextRefines ==
  Inv /\ ArgumentsKept /\ [Next]_vars => [Store!Next]_(Store!vars)
<1> SUFFICES ASSUME Inv, ArgumentsKept, [Next]_vars
             PROVE  [Store!Next]_(Store!vars)
  OBVIOUS
<1>1. ASSUME NEW i \in Ids, NEW c \in Characters, SetCharacterShortcut(i, c)
      PROVE  [Store!Next]_(Store!vars)
  BY <1>1, CharacterRefines
<1>2. ASSUME NEW i \in Ids, NEW c \in Characters, NEW m \in ModCodes,
             AppendToBlobShortcut(i, c, m)
      PROVE  [Store!Next]_(Store!vars)
  BY <1>2, AppendRefines
<1>3. ASSUME NEW i \in Ids, NEW c \in Characters, AppendToWordShortcut(i, c)
      PROVE  [Store!Next]_(Store!vars)
  BY <1>3, AppendRefines
<1>4. CASE WriteWordCharacter \/ WriteWordLength BY <1>4, WriteWordRefines
<1>5. CASE WriteBlobCharacter \/ WriteBlobModcode \/ WriteBlobLength
  BY <1>5, WriteBlobRefines
<1>6. ASSUME NEW i \in Ids, ClearWordShortcut(i) \/ ClearBlobShortcut(i)
      PROVE  [Store!Next]_(Store!vars)
  BY <1>6, ClearRefines
<1>7. ASSUME NEW i \in Ids, NEW m \in WordMods, SendWordShortcut(i, m)
      PROVE  [Store!Next]_(Store!vars)
  BY <1>7, BeginSendRefines
<1>8. ASSUME NEW i \in Ids, SendBlobShortcut(i)
      PROVE  [Store!Next]_(Store!vars)
  BY <1>8, BeginSendRefines
<1>9. CASE SendWordCharacter \/ SendPunctuation BY <1>9, SendWordRefines
<1>10. CASE SendBlobKeypress BY <1>10, SendBlobRefines
<1>11. CASE PowerLoss
  <2>1. /\ TablesKept /\ StoredSending' = NotSending
        /\ sent' = <<>> /\ result' = "none"
    BY <1>11, MemoryKept, NotSendingNext DEF PowerLoss
  <2>2. Store!PowerLoss
    BY <2>1 DEF Store!PowerLoss, Store!NotSending, NotSending, TablesKept,
                StoredWords, StoredBlobs
  <2> QED BY <2>2 DEF Store!Next
<1>12. CASE UNCHANGED vars
  <2>1. TablesKept BY <1>12, MemoryKept DEF vars
  <2>2. StoredSending' = StoredSending BY <1>12 DEF vars, StoredSending
  <2> QED
    BY <1>12, <2>1, <2>2 DEF vars, Store!vars, TablesKept, StoredWords, StoredBlobs
<1> QED
  BY <1>1, <1>2, <1>3, <1>4, <1>5, <1>6, <1>7, <1>8, <1>9, <1>10, <1>11, <1>12
  DEF Next

\* storage_controller.cpp implements the shortcut store: whatever device access
\* fails and whenever the power goes, every shortcut is what it was before or
\* after the operation, no other shortcut is disturbed, false means nothing was
\* stored, and a send types the stored text or a prefix of it.
THEOREM StorageRefinesStore == Spec => ImplementsShortcutStore
<1>1. Init => Store!Init BY InitRefines
<1>2. Inv /\ ArgumentsKept /\ [Next]_vars => [Store!Next]_(Store!vars)
  BY NextRefines
<1>3. Inv /\ ArgumentsKept /\ [Next]_vars => ArgumentsKept'
  BY ArgumentsNext
<1>4. Init => ArgumentsKept BY ArgumentsInit
<1> QED
  BY <1>1, <1>2, <1>3, <1>4, InvHolds, PTL
  DEF Spec, ImplementsShortcutStore, Store!Spec

=============================================================================
