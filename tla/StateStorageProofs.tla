------------------------- MODULE StateStorageProofs -------------------------
(***************************************************************************)
(* What the simulator loads from a file is what the firmware finds, for    *)
(* every file and every blob that is sent: FirmwareReadsTheFile,           *)
(* Eeprom1IsLaidOut, BlobIsShownAsWritten and OnlyBlob248Throws.           *)
(*                                                                         *)
(* The constructor is six loops over lists of any length, so the proof     *)
(* needs what holds in the middle of one (IsStored): each id has the cells *)
(* of its last entry so far, or is blank.  A step keeps it because what an *)
(* entry writes lies in the slot of its id (CellsInSlot) and the slots of  *)
(* one buffer are disjoint (SlotsAreDisjoint).  Then the firmware's reads  *)
(* are followed through its own copy of the layout (CharacterIsRead,       *)
(* WordIsRead, BlobIsRead), and the characters through both conversions    *)
(* (AgreedCharacters).                                                     *)
(***************************************************************************)
EXTENDS StateStorage, SequenceTheorems, TLAPS

\* The six loops of the constructor.
Loops == {"characters", "word_lengths", "blob_lengths", "words", "blobs0",
          "blobs1"}

\* An entry that Validate lets pass in the list of property p.
ValidEntry(p, e) ==
  /\ e \in Entries
  /\ e.index \in 0..max_index[p]
  /\ Len(e.text) <= max_length[p]

\* The addresses loop l may write for id i, and no other.
Slot(l, i) ==
  CASE l = "characters" -> {i}
    [] l = "word_lengths" -> {256 + i}
    [] l = "blob_lengths" -> {512 + i}
    [] l = "words" -> (i * 16)..(i * 16 + 15)
    [] l = "blobs0" ->
         IF i < 120 THEN (4096 + i * 512)..(4096 + i * 512 + 511) ELSE {}
    [] l = "blobs1" ->
         IF i >= 120 THEN ((i - 120) * 512)..((i - 120) * 512 + 511) ELSE {}

\* The buffer has these cells, each stored less one.
Holds(buffer, cells) ==
  \A a \in DOMAIN cells : Byte(buffer, a) = (cells[a] - 1) % 256

\* After n entries: id i is as its last entry among them left it, or blank if
\* it has none.
IsStored(l, entries, n, buffer) ==
  \A i \in 0..255 :
    \/ /\ \A k \in 1..n : entries[k].index # i
       /\ \A a \in Slot(l, i) : Byte(buffer, a) = 255
    \/ \E k \in 1..n :
         /\ entries[k].index = i
         /\ \A j \in (k + 1)..n : entries[j].index # i
         /\ Holds(buffer, Cells(l, entries[k]))

LEMMA LoopsAreSix == DOMAIN Property = Loops
  BY DEF Property, Loops

LEMMA Limits ==
  /\ max_index["character_shortcuts"] = 255
  /\ max_index["word_shortcuts"] = 255
  /\ max_index["blob_shortcuts"] = 248
  /\ max_length["character_shortcuts"] = 1
  /\ max_length["word_shortcuts"] = 15
  /\ max_length["blob_shortcuts"] = 255
  BY DEF max_index, max_length

LEMMA LoopTables ==
  /\ Property["characters"] = "character_shortcuts"
  /\ Property["word_lengths"] = "word_shortcuts"
  /\ Property["blob_lengths"] = "blob_shortcuts"
  /\ Property["words"] = "word_shortcuts"
  /\ Property["blobs0"] = "blob_shortcuts"
  /\ Property["blobs1"] = "blob_shortcuts"
  /\ Buffer["characters"] = "internal_eeprom"
  /\ Buffer["word_lengths"] = "internal_eeprom"
  /\ Buffer["blob_lengths"] = "internal_eeprom"
  /\ Buffer["words"] = "eeprom0"
  /\ Buffer["blobs0"] = "eeprom0"
  /\ Buffer["blobs1"] = "eeprom1"
  BY DEF Property, Buffer

\* A name the provers do not look into: a typed sequence costs them a lot.
Texts == Seq(0..255)

LEMMA TextFacts ==
  ASSUME NEW text \in Texts
  PROVE  /\ Len(text) \in Nat
         /\ DOMAIN text = 1..Len(text)
         /\ \A k \in 1..Len(text) : text[k] \in 0..255
  BY LenProperties, ElementOfSeq DEF Texts

LEMMA NoText ==
  /\ <<>> \in Texts /\ Len(<<>>) = 0
  /\ \A text \in Texts : text # <<>> => Len(text) # 0
  BY EmptySeq DEF Texts

\* What Validate's two limits leave of an entry.
LEMMA ValidEntryFacts ==
  ASSUME NEW l \in Loops, NEW e, ValidEntry(Property[l], e)
  PROVE  /\ e.index \in 0..255
         /\ e.text \in Texts
         /\ Len(e.text) \in 0..255
         /\ l = "words" => Len(e.text) <= 15
<1>1. e.index \in Int /\ e.text \in Texts
  BY DEF ValidEntry, Entries, Texts
<1>2. Len(e.text) \in Nat
  BY <1>1, TextFacts
<1>3. Property[l] \in {"character_shortcuts", "word_shortcuts",
                       "blob_shortcuts"}
  BY LoopTables DEF Loops
<1>4. max_index[Property[l]] \in {255, 248}
      /\ max_length[Property[l]] \in {1, 15, 255}
  BY <1>3, Limits
<1>5. e.index \in 0..max_index[Property[l]]
      /\ Len(e.text) <= max_length[Property[l]]
  BY DEF ValidEntry
<1>6. e.index \in 0..255 /\ Len(e.text) \in 0..255
  <2> DEFINE i == e.index
             n == Len(e.text)
             maxi == max_index[Property[l]]
             maxn == max_length[Property[l]]
  <2>1. /\ i \in Int /\ n \in Nat
        /\ maxi \in {255, 248} /\ maxn \in {1, 15, 255}
        /\ i \in 0..maxi /\ n <= maxn
    BY <1>1, <1>2, <1>4, <1>5
  <2> HIDE DEF i, n, maxi, maxn
  <2>2. i \in 0..255 /\ n \in 0..255
    BY <2>1
  <2> QED
    BY <2>2 DEF i, n
<1>7. ASSUME l = "words" PROVE Len(e.text) <= 15
  BY <1>5, <1>7, LoopTables, Limits
<1> QED
  BY <1>1, <1>6, <1>7

\* No entry is written outside the slot of its id: 15 characters fit in 16
\* bytes, 255 keypresses in 512.
LEMMA CellsInSlot ==
  ASSUME NEW l \in Loops, NEW e, ValidEntry(Property[l], e)
  PROVE  DOMAIN Cells(l, e) \subseteq Slot(l, e.index)
<1> DEFINE i == e.index
           n == Len(e.text)
<1>0. i \in 0..255 /\ n \in 0..255 /\ (l = "words" => n <= 15)
  BY ValidEntryFacts
<1>e. Len(<<>>) = 0
  BY NoText
<1>1. CASE l = "characters"
  BY <1>1 DEF Cells, Slot
<1>2. CASE l = "word_lengths"
  BY <1>2 DEF Cells, Slot
<1>3. CASE l = "blob_lengths"
  BY <1>3 DEF Cells, Slot
<1>4. CASE l = "words"
  <2>1. DOMAIN Cells(l, e) = (i * 16)..(i * 16 + n - 1)
    BY <1>4 DEF Cells, WordCells
  <2>2. Slot(l, i) = (i * 16)..(i * 16 + 15)
    BY <1>4 DEF Slot
  <2> HIDE DEF i, n
  <2>3. DOMAIN Cells(l, e) \subseteq Slot(l, i)
    BY <1>0, <1>4, <2>1, <2>2
  <2> QED
    BY <2>3 DEF i
<1>5. CASE l = "blobs0"
  <2> DEFINE start == 4096 + i * 512
             text == IF i < 120 THEN e.text ELSE <<>>
  <2>1. Cells(l, e) = BlobCells(text, start)
    BY <1>5 DEF Cells
  <2>2. DOMAIN Cells(l, e) = start..(start + 2 * Len(text) - 1)
    BY <2>1 DEF BlobCells
  <2>3. Slot(l, i) = IF i < 120 THEN start..(start + 511) ELSE {}
    BY <1>5 DEF Slot
  <2>4. Len(text) = IF i < 120 THEN n ELSE 0
    BY <1>e
  <2> HIDE DEF i, n, text
  <2>5. start \in Int
    BY <1>0
  <2> HIDE DEF start
  <2>6. DOMAIN Cells(l, e) \subseteq Slot(l, i)
    BY <1>0, <2>2, <2>3, <2>4, <2>5
  <2> QED
    BY <2>6 DEF i
<1>6. CASE l = "blobs1"
  <2> DEFINE start == (i - 120) * 512
             text == IF i >= 120 THEN e.text ELSE <<>>
  <2>1. Cells(l, e) = BlobCells(text, start)
    BY <1>6 DEF Cells
  <2>2. DOMAIN Cells(l, e) = start..(start + 2 * Len(text) - 1)
    BY <2>1 DEF BlobCells
  <2>3. Slot(l, i) = IF i >= 120 THEN start..(start + 511) ELSE {}
    BY <1>6 DEF Slot
  <2>4. Len(text) = IF i >= 120 THEN n ELSE 0
    BY <1>e
  <2> HIDE DEF i, n, text
  <2>5. start \in Int
    BY <1>0
  <2> HIDE DEF start
  <2>6. DOMAIN Cells(l, e) \subseteq Slot(l, i)
    BY <1>0, <2>2, <2>3, <2>4, <2>5
  <2> QED
    BY <2>6 DEF i
<1> QED
  BY <1>1, <1>2, <1>3, <1>4, <1>5, <1>6 DEF Loops

\* No two slots of a buffer share an address: not those of two ids, and not the
\* words and the blobs that eeprom0 holds both.
LEMMA SlotsAreDisjoint ==
  ASSUME NEW l \in Loops, NEW m \in Loops, NEW i \in 0..255, NEW j \in 0..255,
         Buffer[l] = Buffer[m], l # m \/ i # j,
         NEW a \in Slot(l, i)
  PROVE  a \notin Slot(m, j)
<1> DEFINE Base(x) == IF x = "characters" THEN 0
                      ELSE IF x = "word_lengths" THEN 256 ELSE 512
           p == Base(l)
           q == Base(m)
<1>1. CASE l \in {"characters", "word_lengths", "blob_lengths"}
  <2>1. m \in {"characters", "word_lengths", "blob_lengths"}
    BY <1>1, LoopTables DEF Loops
  <2>2. Slot(l, i) = {p + i} /\ Slot(m, j) = {q + j}
    BY <1>1, <2>1 DEF Slot
  <2>3. p \in {0, 256, 512} /\ q \in {0, 256, 512} /\ (p = q => l = m)
    BY <1>1, <2>1
  <2> HIDE DEF Base, p, q
  <2>4. p + i # q + j
    BY <2>3
  <2> QED
    BY <2>2, <2>4
<1>4. CASE l = "words"
  <2>1. a \in (i * 16)..(i * 16 + 15)
    BY <1>4 DEF Slot
  <2>2. CASE m = "words"
    <3>1. Slot(m, j) = (j * 16)..(j * 16 + 15)
      BY <2>2 DEF Slot
    <3> QED
      BY <1>4, <2>1, <2>2, <3>1
  <2>3. CASE m = "blobs0"
    <3>1. Slot(m, j) = IF j < 120
            THEN (4096 + j * 512)..(4096 + j * 512 + 511) ELSE {}
      BY <2>3 DEF Slot
    <3> QED
      BY <2>1, <3>1
  <2> QED
    BY <1>4, <2>2, <2>3, LoopTables DEF Loops
<1>5. CASE l = "blobs0"
  <2>1. i < 120 /\ a \in (4096 + i * 512)..(4096 + i * 512 + 511)
    BY <1>5 DEF Slot
  <2>2. CASE m = "words"
    <3>1. Slot(m, j) = (j * 16)..(j * 16 + 15)
      BY <2>2 DEF Slot
    <3> QED
      BY <2>1, <3>1
  <2>3. CASE m = "blobs0"
    <3>1. Slot(m, j) = IF j < 120
            THEN (4096 + j * 512)..(4096 + j * 512 + 511) ELSE {}
      BY <2>3 DEF Slot
    <3> QED
      BY <1>5, <2>1, <2>3, <3>1
  <2> QED
    BY <1>5, <2>2, <2>3, LoopTables DEF Loops
<1>6. CASE l = "blobs1"
  <2>1. i >= 120 /\ a \in ((i - 120) * 512)..((i - 120) * 512 + 511)
    BY <1>6 DEF Slot
  <2>2. m = "blobs1"
    BY <1>6, LoopTables DEF Loops
  <2>3. Slot(m, j) = IF j >= 120
          THEN ((j - 120) * 512)..((j - 120) * 512 + 511) ELSE {}
    BY <2>2 DEF Slot
  <2> QED
    BY <1>6, <2>1, <2>2, <2>3
<1> QED
  BY <1>1, <1>4, <1>5, <1>6 DEF Loops

LEMMA ByteOfStored ==
  ASSUME NEW buffer, NEW cells, NEW a
  PROVE  Byte(Stored(buffer, cells), a)
           = IF a \in DOMAIN cells THEN (cells[a] - 1) % 256
                                   ELSE Byte(buffer, a)
  BY DEF Byte, Stored

\* An entry of one loop disturbs nothing another loop stored.
LEMMA OtherCellsStay ==
  ASSUME NEW l \in Loops, NEW m \in Loops, l # m, Buffer[l] = Buffer[m],
         NEW entries \in Seq(Entries), NEW n \in 0..Len(entries),
         \A k \in DOMAIN entries : ValidEntry(Property[l], entries[k]),
         NEW e, ValidEntry(Property[m], e),
         NEW buffer, IsStored(l, entries, n, buffer)
  PROVE  IsStored(l, entries, n, Stored(buffer, Cells(m, e)))
<1> DEFINE new == Stored(buffer, Cells(m, e))
<1>1. /\ e.index \in 0..255
      /\ \A k \in 1..n : /\ ValidEntry(Property[l], entries[k])
                         /\ entries[k].index \in 0..255
  <2>1. Len(entries) \in Nat /\ DOMAIN entries = 1..Len(entries)
    OBVIOUS
  <2>2. 1..n \subseteq DOMAIN entries
    BY <2>1
  <2> QED
    BY <2>2, ValidEntryFacts
<1>2. \A i \in 0..255 : \A a \in Slot(l, i) : Byte(new, a) = Byte(buffer, a)
  <2> SUFFICES ASSUME NEW i \in 0..255, NEW a \in Slot(l, i)
               PROVE  Byte(new, a) = Byte(buffer, a)
    OBVIOUS
  <2>1. a \notin Slot(m, e.index)
    BY <1>1, SlotsAreDisjoint
  <2> QED
    BY <2>1, CellsInSlot, ByteOfStored
<1>3. \A k \in 1..n : Holds(buffer, Cells(l, entries[k]))
                        => Holds(new, Cells(l, entries[k]))
  <2> SUFFICES ASSUME NEW k \in 1..n, Holds(buffer, Cells(l, entries[k]))
               PROVE  Holds(new, Cells(l, entries[k]))
    OBVIOUS
  <2>1. ValidEntry(Property[l], entries[k]) /\ entries[k].index \in 0..255
    BY <1>1
  <2>2. \A a \in DOMAIN Cells(l, entries[k]) : Byte(new, a) = Byte(buffer, a)
    BY <1>2, <2>1, CellsInSlot
  <2> QED
    BY <2>2 DEF Holds
<1> HIDE DEF new
<1>4. IsStored(l, entries, n, new)
  BY <1>2, <1>3, ZenonT(60) DEF IsStored
<1> QED
  BY <1>4 DEF new

\* An entry disturbs no other id of its loop, and hides the earlier entries for
\* its own.
LEMMA NextEntryIsStored ==
  ASSUME NEW l \in Loops,
         NEW entries \in Seq(Entries), NEW n \in Nat, n < Len(entries),
         \A k \in DOMAIN entries : ValidEntry(Property[l], entries[k]),
         NEW buffer, IsStored(l, entries, n, buffer)
  PROVE  IsStored(l, entries, n + 1,
                  Stored(buffer, Cells(l, entries[n + 1])))
<1> DEFINE e == entries[n + 1]
           new == Stored(buffer, Cells(l, e))
<1>1. /\ ValidEntry(Property[l], e)
      /\ e.index \in 0..255
      /\ \A k \in 1..n : ValidEntry(Property[l], entries[k])
  <2>1. Len(entries) \in Nat /\ DOMAIN entries = 1..Len(entries)
    OBVIOUS
  <2>2. n + 1 \in DOMAIN entries /\ 1..n \subseteq DOMAIN entries
    BY <2>1
  <2> QED
    BY <2>2, ValidEntryFacts
<1>2. \A i \in 0..255 : \A a \in Slot(l, i) :
        i # e.index => Byte(new, a) = Byte(buffer, a)
  <2> SUFFICES ASSUME NEW i \in 0..255, NEW a \in Slot(l, i), i # e.index
               PROVE  Byte(new, a) = Byte(buffer, a)
    OBVIOUS
  <2>1. a \notin Slot(l, e.index)
    BY <1>1, SlotsAreDisjoint
  <2>2. a \notin DOMAIN Cells(l, e)
    BY <1>1, <2>1, CellsInSlot
  <2> QED
    BY <2>2, ByteOfStored
<1>3. Holds(new, Cells(l, e))
  BY ByteOfStored DEF Holds
<1> HIDE DEF e, new
<1> SUFFICES ASSUME NEW i \in 0..255
             PROVE \/ /\ \A k \in 1..(n + 1) : entries[k].index # i
                      /\ \A a \in Slot(l, i) : Byte(new, a) = 255
                   \/ \E k \in 1..(n + 1) :
                        /\ entries[k].index = i
                        /\ \A j \in (k + 1)..(n + 1) : entries[j].index # i
                        /\ Holds(new, Cells(l, entries[k]))
  BY DEF IsStored, e, new
<1>4. CASE i = e.index
  BY <1>3, <1>4 DEF e
<1>5. CASE i # e.index
  <2>1. CASE /\ \A k \in 1..n : entries[k].index # i
             /\ \A a \in Slot(l, i) : Byte(buffer, a) = 255
    <3>1. \A k \in 1..(n + 1) : k \in 1..n \/ k = n + 1
      OBVIOUS
    <3>2. \A k \in 1..(n + 1) : entries[k].index # i
      BY <1>5, <2>1, <3>1 DEF e
    <3>3. \A a \in Slot(l, i) : Byte(new, a) = 255
      <4> TAKE a \in Slot(l, i)
      <4>1. Byte(new, a) = Byte(buffer, a)
        BY <1>2, <1>5
      <4>2. Byte(buffer, a) = 255
        BY <2>1
      <4> QED
        BY <4>1, <4>2
    <3> QED
      BY <3>2, <3>3
  <2>2. CASE \E k \in 1..n :
                /\ entries[k].index = i
                /\ \A j \in (k + 1)..n : entries[j].index # i
                /\ Holds(buffer, Cells(l, entries[k]))
    <3>1. PICK k \in 1..n :
                /\ entries[k].index = i
                /\ \A j \in (k + 1)..n : entries[j].index # i
                /\ Holds(buffer, Cells(l, entries[k]))
      BY <2>2
    <3>2. \A a \in DOMAIN Cells(l, entries[k]) : Byte(new, a) = Byte(buffer, a)
      BY <1>1, <1>2, <1>5, <3>1, CellsInSlot
    <3>3. Holds(new, Cells(l, entries[k]))
      BY <3>1, <3>2 DEF Holds
    <3>4. \A j \in (k + 1)..(n + 1) : entries[j].index # i
      BY <1>5, <3>1 DEF e
    <3> QED
      BY <3>1, <3>3, <3>4
  <2> QED
    BY <2>1, <2>2 DEF IsStored
<1> QED
  BY <1>4, <1>5

\* The key codes of util.cpp.
LEMMA PunctuationCodes ==
  /\ DOMAIN PunctuationKeycode
       = {33, 35, 36, 37, 38} \cup (40..46) \cup {61, 64, 94, 95}
  /\ \A c \in DOMAIN PunctuationKeycode : PunctuationKeycode[c] \in 30..55
  BY DEF PunctuationKeycode

LEMMA KeycodesArePairs ==
  ASSUME NEW c \in 0..255
  PROVE  /\ ToUsbKeycodes(c) = <<ToUsbKeycodes(c)[1], ToUsbKeycodes(c)[2]>>
         /\ ToUsbKeycodes(c)[1] \in 0..255
         /\ ToUsbKeycodes(c)[2] \in 0..255
  BY PunctuationCodes
     DEF ToUsbKeycodes, Lower, Upper, Digits, Spaces, Punctuation, Shift

LEMMA KeycodesAreBytes ==
  ASSUME NEW c \in 0..255
  PROVE  ToUsbKeycodes(c)[1] \in 0..255 /\ ToUsbKeycodes(c)[2] \in 0..255
  BY KeycodesArePairs

\* FromUsbKeycodes, for the two modifiers ToUsbKeycodes produces.
LEMMA TypedCharacter ==
  ASSUME NEW code \in 0..255, NEW mod \in {0, 2}
  PROVE  FromUsbKeycodes(code, mod) =
           CASE code \in 4..29 -> code - 4 + IF mod = 2 THEN 65 ELSE 97
             [] code \in 30..38 /\ mod = 0 -> code - 30 + 49
             [] code = 39 /\ mod = 0 -> 48
             [] code \in 30..39 /\ mod = 2 -> ShiftedDigits[code - 29]
             [] code = 44 -> 32
             [] code = 45 -> IF mod = 2 THEN 95 ELSE 45
             [] code = 46 -> IF mod = 2 THEN 43 ELSE 61
             [] code = 54 -> 44
             [] code = 55 -> 46
             [] OTHER -> 0
<1>1. (2 \div 2) % 2 = 1 /\ (0 \div 2) % 2 = 0
  OBVIOUS
<1>2. CASE mod = 2
  BY <1>1, <1>2 DEF FromUsbKeycodes, Shift
<1>3. CASE mod = 0
  BY <1>1, <1>3 DEF FromUsbKeycodes, Shift
<1> QED
  BY <1>2, <1>3

\* A character both conversions agree on comes back as itself.
LEMMA AgreedCharacters ==
  ASSUME NEW c \in Agreed
  PROVE  /\ c \in Printable
         /\ FromUsbKeycodes(ToUsbKeycodes(c)[1], ToUsbKeycodes(c)[2]) = c
<1>1. CASE c \in Lower
  <2>1. c \in 97..122
    BY <1>1 DEF Lower
  <2>2. ToUsbKeycodes(c) = <<c - 97 + 4, 0>>
    BY <1>1, <2>1, PunctuationCodes
       DEF ToUsbKeycodes, Lower, Upper, Digits, Spaces, Punctuation,
           Shift
  <2>3. c - 97 + 4 \in 4..29 /\ (c - 97 + 4) - 4 + 97 = c
    BY <2>1
  <2>4. FromUsbKeycodes(c - 97 + 4, 0) = c
    BY <2>3, TypedCharacter
  <2> QED
    BY <2>1, <2>2, <2>4 DEF Printable
<1>2. CASE c \in Upper
  <2>1. c \in 65..90
    BY <1>2 DEF Upper
  <2>2. ToUsbKeycodes(c) = <<c - 65 + 4, 2>>
    BY <1>2, <2>1, PunctuationCodes
       DEF ToUsbKeycodes, Lower, Upper, Digits, Spaces, Punctuation,
           Shift
  <2>3. c - 65 + 4 \in 4..29 /\ (c - 65 + 4) - 4 + 65 = c
    BY <2>1
  <2>4. FromUsbKeycodes(c - 65 + 4, 2) = c
    BY <2>3, TypedCharacter
  <2> QED
    BY <2>1, <2>2, <2>4 DEF Printable
<1>3. CASE c = 32
  <2>1. ToUsbKeycodes(c) = <<44, 0>>
    BY <1>3, PunctuationCodes
       DEF ToUsbKeycodes, Lower, Upper, Digits, Spaces, Punctuation,
           Shift
  <2>2. FromUsbKeycodes(44, 0) = 32
    BY TypedCharacter
  <2> QED
    BY <1>3, <2>1, <2>2 DEF Printable
<1>4. CASE c \in DOMAIN PunctuationKeycode \ {40, 41, 42}
  <2>1. c \in {33, 35, 36, 37, 38, 43, 44, 45, 46, 61, 64, 94, 95}
    BY <1>4, PunctuationCodes
  <2>2. ToUsbKeycodes(c) = <<PunctuationKeycode[c], IF c \in {45, 61} THEN 0 ELSE 2>>
    BY <1>4, <2>1 DEF ToUsbKeycodes, Lower, Upper, Digits, Spaces, Shift
  <2>3. /\ c = 33 => PunctuationKeycode[c] = 30
        /\ c = 64 => PunctuationKeycode[c] = 31
        /\ c = 35 => PunctuationKeycode[c] = 32
        /\ c = 36 => PunctuationKeycode[c] = 33
        /\ c = 37 => PunctuationKeycode[c] = 34
        /\ c = 94 => PunctuationKeycode[c] = 35
        /\ c = 38 => PunctuationKeycode[c] = 36
        /\ c = 45 => PunctuationKeycode[c] = 45
        /\ c = 95 => PunctuationKeycode[c] = 45
        /\ c = 61 => PunctuationKeycode[c] = 46
        /\ c = 43 => PunctuationKeycode[c] = 46
        /\ c = 44 => PunctuationKeycode[c] = 54
        /\ c = 46 => PunctuationKeycode[c] = 55
    BY DEF PunctuationKeycode
  <2> DEFINE mod == IF c \in {45, 61} THEN 0 ELSE 2
  <2>4. ToUsbKeycodes(c) = <<PunctuationKeycode[c], mod>>
    BY <2>2
  <2>5. PunctuationKeycode[c] \in 0..255 /\ mod \in {0, 2}
    <3>1. c \in DOMAIN PunctuationKeycode
      BY <1>4
    <3> QED
      BY <3>1, PunctuationCodes
  <2> HIDE DEF mod
  <2>6. FromUsbKeycodes(PunctuationKeycode[c], mod) = c
    <3>1. CASE c \in {33, 35, 36, 37, 38, 64, 94}
      <4> DEFINE code == PunctuationKeycode[c]
      <4>1. mod = 2
        BY <3>1 DEF mod
      <4>4. \/ c = 33 /\ code = 30
            \/ c = 64 /\ code = 31
            \/ c = 35 /\ code = 32
            \/ c = 36 /\ code = 33
            \/ c = 37 /\ code = 34
            \/ c = 94 /\ code = 35
            \/ c = 38 /\ code = 36
        BY <3>1, <2>3
      <4> HIDE DEF code
      <4>2. code \in 30..36 /\ ShiftedDigits[code - 29] = c
        BY <4>4 DEF ShiftedDigits
      <4>3. FromUsbKeycodes(code, mod) = c
        BY <2>5, <4>1, <4>2, TypedCharacter
      <4> QED
        BY <4>3 DEF code
    <3>2. CASE c \in {43, 44, 45, 46, 61, 95}
      BY <3>2, <2>3, <2>5, TypedCharacter DEF mod
    <3> QED
      BY <2>1, <3>1, <3>2
  <2> QED
    BY <2>1, <2>4, <2>6 DEF Printable
<1> QED
  BY <1>1, <1>2, <1>3, <1>4 DEF Agreed
-----------------------------------------------------------------------------
\* What Validate has left to the loops, and what all of them have stored.
JsonIsValid ==
  \A p \in Properties :
    /\ json[p] \in Seq(Entries)
    /\ \A k \in DOMAIN json[p] : ValidEntry(p, json[p][k])

IsLoaded ==
  \A l \in Loops :
    IsStored(l, json[Property[l]], Len(json[Property[l]]), bytes[Buffer[l]])

\* A loaded buffer has in the slot of id i the cells of the last entry for it.
LEMMA TextOfId ==
  ASSUME JsonIsValid, IsLoaded, NEW l \in Loops, NEW i \in 0..255,
         NEW p, p = Property[l], NEW b, b = bytes[Buffer[l]]
  PROVE  \/ TextOf(p, i) = <<>> /\ \A a \in Slot(l, i) : Byte(b, a) = 255
         \/ \E e : /\ ValidEntry(p, e)
                   /\ e.index = i
                   /\ e.text = TextOf(p, i)
                   /\ Holds(b, Cells(l, e))
<1> DEFINE n == Len(json[p])
           last == {k \in DOMAIN json[p] : json[p][k].index = i /\ IsLast(p, k)}
<1>1. p \in Properties
  BY LoopTables DEF Loops, Properties
<1>2. json[p] \in Seq(Entries) /\ n \in Nat /\ DOMAIN json[p] = 1..n
  BY <1>1 DEF JsonIsValid
<1>3. TextOf(p, i) = IF last = {} THEN <<>>
                     ELSE json[p][CHOOSE k \in last : TRUE].text
  BY DEF TextOf
<1>4. CASE /\ \A k \in 1..n : json[p][k].index # i
           /\ \A a \in Slot(l, i) : Byte(b, a) = 255
  <2>1. last = {}
    BY <1>2, <1>4
  <2> QED
    BY <1>3, <1>4, <2>1
<1>5. CASE \E k \in 1..n :
              /\ json[p][k].index = i
              /\ \A j \in (k + 1)..n : json[p][j].index # i
              /\ Holds(b, Cells(l, json[p][k]))
  <2>1. PICK k \in 1..n :
              /\ json[p][k].index = i
              /\ \A j \in (k + 1)..n : json[p][j].index # i
              /\ Holds(b, Cells(l, json[p][k]))
    BY <1>5
  <2>2. k \in last
    BY <1>2, <2>1 DEF IsLast
  <2>3. ASSUME NEW j \in last PROVE j = k
    <3>1. j \in 1..n /\ json[p][j].index = i /\ IsLast(p, j)
      BY <1>2
    <3>2. ~(j > k)
      BY <1>2, <2>1, <3>1
    <3>3. ~(k > j)
      BY <1>2, <2>1, <3>1 DEF IsLast
    <3> QED
      BY <1>2, <3>1, <3>2, <3>3
  <2> HIDE DEF last
  <2>4. (CHOOSE j \in last : TRUE) = k
    BY <2>2, <2>3
  <2>5. TextOf(p, i) = json[p][k].text
    BY <1>3, <2>2, <2>4
  <2>6. ValidEntry(p, json[p][k])
    BY <1>1, <1>2 DEF JsonIsValid
  <2> QED
    BY <2>1, <2>5, <2>6
<1>6. \/ /\ \A k \in 1..n : json[p][k].index # i
         /\ \A a \in Slot(l, i) : Byte(b, a) = 255
      \/ \E k \in 1..n :
           /\ json[p][k].index = i
           /\ \A j \in (k + 1)..n : json[p][j].index # i
           /\ Holds(b, Cells(l, json[p][k]))
  <2>1. IsStored(l, json[p], Len(json[p]), b)
    BY DEF IsLoaded
  <2> HIDE DEF last
  <2> QED
    BY <2>1 DEF IsStored
<1> QED
  BY <1>4, <1>5, <1>6

\* What a read of the firmware returns: the stored byte plus one.
Read(buffer, a) == (Byte(buffer, a) + 1) % 256

LEMMA CellIsRead ==
  ASSUME NEW buffer, NEW cells, Holds(buffer, cells),
         NEW a \in DOMAIN cells, NEW v \in 0..255, cells[a] = v
  PROVE  Read(buffer, a) = v
<1>1. (((v - 1) % 256) + 1) % 256 = v
  OBVIOUS
<1>2. Byte(buffer, a) = (v - 1) % 256
  BY DEF Holds
<1> QED
  BY <1>1, <1>2 DEF Read

LEMMA BlankIsRead ==
  ASSUME NEW buffer, NEW a, Byte(buffer, a) = 255
  PROVE  Read(buffer, a) = 0
  BY DEF Read

\* The reads of the firmware are those of the simulator's buffers.
LEMMA InternalReads ==
  ASSUME NEW a \in Nat, a < 1024
  PROVE  Firmware!ReadInternal(a) = Read(bytes["internal_eeprom"], a)
  BY SMTT(30) DEF Firmware!ReadInternal, Firmware!Decode, Read

LEMMA ExternalReads ==
  ASSUME NEW a \in Nat, a < 65536
  PROVE  Firmware!ReadExternal(0, a) = Read(bytes["eeprom0"], a)
<1> DEFINE top == 65535
           A == 0..top
           E == [d \in {0} |-> [x \in A |-> Byte(bytes.eeprom0, x)]]
<1>1. Firmware!ReadExternal(0, a) = (E[0][a] + 1) % 256
  BY DEF Firmware!ReadExternal, Firmware!Decode, Attached
<1>2. a \in A
  <2>1. a <= top /\ top \in Nat
    OBVIOUS
  <2> HIDE DEF top
  <2> QED
    BY <2>1
<1> HIDE DEF A
<1>3. E[0][a] = Byte(bytes["eeprom0"], a)
  BY <1>2
<1> HIDE DEF E
<1> QED
  BY <1>1, <1>3 DEF Read

LEMMA FirstCharacter ==
  ASSUME NEW text \in Texts, text # <<>>
  PROVE  text[1] \in 0..255
<1>1. Len(text) # 0 /\ Len(text) \in Nat
  BY NoText, TextFacts
<1>2. 1 \in 1..Len(text)
  BY <1>1
<1> QED
  BY <1>2, TextFacts

\* The firmware's character shortcut i is the file's.
LEMMA CharacterIsRead ==
  ASSUME JsonIsValid, IsLoaded, NEW i \in 0..255
  PROVE  LET text == TextOf("character_shortcuts", i) IN
         Firmware!ReadInternal(i) =
           IF text = <<>> THEN 0 ELSE ToUsbKeycodes(text[1])[1]
<1> DEFINE text == TextOf("character_shortcuts", i)
           b == bytes["internal_eeprom"]
           v == IF text = <<>> THEN 0 ELSE ToUsbKeycodes(text[1])[1]
<1>1. /\ "characters" \in Loops
      /\ Property["characters"] = "character_shortcuts"
      /\ Buffer["characters"] = "internal_eeprom"
  BY LoopTables DEF Loops
<1>2. Firmware!ReadInternal(i) = Read(b, i)
  <2>1. i \in Nat /\ i < 1024
    OBVIOUS
  <2> QED
    BY <2>1, InternalReads
<1>3. \/ text = <<>> /\ \A a \in Slot("characters", i) : Byte(b, a) = 255
      \/ \E e : /\ ValidEntry("character_shortcuts", e)
                /\ e.index = i
                /\ e.text = text
                /\ Holds(b, Cells("characters", e))
  BY <1>1, TextOfId, Zenon
<1>4. CASE text = <<>> /\ \A a \in Slot("characters", i) : Byte(b, a) = 255
  <2>1. i \in Slot("characters", i)
    BY DEF Slot
  <2>2. Byte(b, i) = 255 /\ v = 0
    BY <1>4, <2>1
  <2> HIDE DEF b, v
  <2>3. Firmware!ReadInternal(i) = v
    BY <1>2, <2>2, BlankIsRead
  <2> QED
    BY <2>3 DEF v
<1>5. CASE \E e : /\ ValidEntry("character_shortcuts", e)
                  /\ e.index = i
                  /\ e.text = text
                  /\ Holds(b, Cells("characters", e))
  <2>1. PICK e : /\ ValidEntry("character_shortcuts", e)
                 /\ e.index = i
                 /\ e.text = text
                 /\ Holds(b, Cells("characters", e))
    BY <1>5
  <2>2. Cells("characters", e) = [a \in {i} |-> v]
    BY <2>1 DEF Cells
  <2>3. text \in Texts
    BY <1>1, <2>1, ValidEntryFacts
  <2>4. v \in 0..255
    <3>1. CASE text = <<>>
      BY <3>1
    <3>2. CASE text # <<>>
      <4> HIDE DEF text
      <4>1. text[1] \in 0..255
        BY <2>3, <3>2, FirstCharacter
      <4>2. ToUsbKeycodes(text[1])[1] \in 0..255
        BY <4>1, KeycodesAreBytes
      <4> QED
        BY <3>2, <4>2
    <3> QED
      BY <3>1, <3>2
  <2> HIDE DEF b, v
  <2>5. Firmware!ReadInternal(i) = v
    BY <1>2, <2>1, <2>2, <2>4, CellIsRead
  <2> QED
    BY <2>5 DEF v
<1> QED
  BY <1>3, <1>4, <1>5

IsLengthCell(l, p, i, a) ==
  \/ l = "word_lengths" /\ p = "word_shortcuts" /\ a = 256 + i
  \/ l = "blob_lengths" /\ p = "blob_shortcuts" /\ a = 512 + i

\* The firmware's two lengths of id i are the file's, each at its address.
LEMMA LengthIsRead ==
  ASSUME JsonIsValid, IsLoaded, NEW i \in 0..255,
         NEW l \in Loops, NEW p, NEW a \in Nat, a < 1024,
         IsLengthCell(l, p, i, a)
  PROVE  /\ TextOf(p, i) \in Texts
         /\ Firmware!ReadInternal(a) = Len(TextOf(p, i))
<1> DEFINE text == TextOf(p, i)
           b == bytes["internal_eeprom"]
<1>1. Property[l] = p /\ Buffer[l] = "internal_eeprom" /\ Slot(l, i) = {a}
  BY LoopTables DEF Loops, Slot, IsLengthCell
<1>2. Firmware!ReadInternal(a) = Read(b, a)
  BY InternalReads
<1>3. \/ text = <<>> /\ \A x \in Slot(l, i) : Byte(b, x) = 255
      \/ \E e : /\ ValidEntry(p, e)
                /\ e.index = i
                /\ e.text = text
                /\ Holds(b, Cells(l, e))
  BY <1>1, TextOfId, ZenonT(30)
<1> HIDE DEF text, b
<1>4. CASE text = <<>> /\ \A x \in Slot(l, i) : Byte(b, x) = 255
  <2>1. Byte(b, a) = 255
    BY <1>1, <1>4
  <2>2. text \in Texts /\ Len(text) = 0
    BY <1>4, NoText
  <2> QED
    BY <1>2, <2>1, <2>2, BlankIsRead DEF text
<1>5. CASE \E e : /\ ValidEntry(p, e)
                  /\ e.index = i
                  /\ e.text = text
                  /\ Holds(b, Cells(l, e))
  <2>1. PICK e : /\ ValidEntry(p, e)
                 /\ e.index = i
                 /\ e.text = text
                 /\ Holds(b, Cells(l, e))
    BY <1>5
  <2>2. Cells(l, e) = [x \in {a} |-> Len(text)]
    <3>1. CASE l = "word_lengths" /\ a = 256 + i
      BY <2>1, <3>1 DEF Cells
    <3>2. CASE l = "blob_lengths" /\ a = 512 + i
      BY <2>1, <3>2 DEF Cells
    <3> QED
      BY <3>1, <3>2 DEF IsLengthCell
  <2>3. Len(text) \in 0..255
    BY <1>1, <2>1, ValidEntryFacts
  <2>4. text \in Texts
    BY <1>1, <2>1, ValidEntryFacts
  <2>5. a \in DOMAIN Cells(l, e) /\ Cells(l, e)[a] = Len(text)
    BY <2>2
  <2>6. Holds(b, Cells(l, e))
    BY <2>1
  <2>7. Read(b, a) = Len(text)
    BY <2>3, <2>5, <2>6, CellIsRead
  <2> QED
    BY <1>2, <2>4, <2>7 DEF text
<1> QED
  BY <1>3, <1>4, <1>5

LEMMA WordLengthIsRead ==
  ASSUME JsonIsValid, IsLoaded, NEW i \in 0..255
  PROVE  /\ Firmware!GetWordShortcutLength(i) = Len(TextOf("word_shortcuts", i))
         /\ TextOf("word_shortcuts", i) \in Texts
<1> DEFINE a == 256 + i
<1>1. a \in Nat /\ a < 1024 /\ "word_lengths" \in Loops
      /\ IsLengthCell("word_lengths", "word_shortcuts", i, a)
  BY DEF Loops, IsLengthCell
<1>2. Firmware!GetWordShortcutLength(i) = Firmware!ReadInternal(a)
  BY DEF Firmware!GetWordShortcutLength, Firmware!WordLengthAddress
<1> HIDE DEF a
<1>3. /\ TextOf("word_shortcuts", i) \in Texts
      /\ Firmware!ReadInternal(a) = Len(TextOf("word_shortcuts", i))
  BY <1>1, LengthIsRead, Zenon
<1> QED
  BY <1>2, <1>3

LEMMA BlobLengthIsRead ==
  ASSUME JsonIsValid, IsLoaded, NEW i \in 0..255
  PROVE  /\ Firmware!GetBlobShortcutLength(i) = Len(TextOf("blob_shortcuts", i))
         /\ TextOf("blob_shortcuts", i) \in Texts
<1> DEFINE a == 512 + i
<1>1. a \in Nat /\ a < 1024 /\ "blob_lengths" \in Loops
      /\ IsLengthCell("blob_lengths", "blob_shortcuts", i, a)
  BY DEF Loops, IsLengthCell
<1>2. Firmware!GetBlobShortcutLength(i) = Firmware!ReadInternal(a)
  BY DEF Firmware!GetBlobShortcutLength, Firmware!BlobLengthAddress
<1> HIDE DEF a
<1>3. /\ TextOf("blob_shortcuts", i) \in Texts
      /\ Firmware!ReadInternal(a) = Len(TextOf("blob_shortcuts", i))
  BY <1>1, LengthIsRead, Zenon
<1> QED
  BY <1>2, <1>3

\* The firmware's word i is the file's, character by character.
LEMMA WordCellIsRead ==
  ASSUME NEW text \in Texts, Len(text) <= 15, NEW i \in 0..255,
         NEW k \in 1..Len(text), NEW e, e.text = text, e.index = i,
         Holds(bytes["eeprom0"], Cells("words", e))
  PROVE  Firmware!ReadExternal(0, Firmware!WordAddress(i, k - 1))
           = ToUsbKeycodes(text[k])[1]
<1> DEFINE n == Len(text)
           v == ToUsbKeycodes(text[k])[1]
<1>1. n \in Nat /\ n <= 15 /\ k \in 1..n
  BY TextFacts
<1>2. v \in 0..255
  <2>1. text[k] \in 0..255
    BY TextFacts
  <2> QED
    BY <2>1, KeycodesAreBytes
<1>3. PICK a \in Nat : a = i * 16 + k - 1
  <2>1. i * 16 + k - 1 \in Nat
    <3> HIDE DEF n
    <3> QED
      BY <1>1
  <2> QED
    BY <2>1
<1>4. Cells("words", e) = [x \in (i * 16)..(i * 16 + n - 1) |->
                             ToUsbKeycodes(text[x - i * 16 + 1])[1]]
  BY DEF Cells, WordCells
<1> HIDE DEF n
<1>5. a \in (i * 16)..(i * 16 + n - 1) /\ a - i * 16 + 1 = k
  BY <1>1, <1>3
<1>6. a \in DOMAIN Cells("words", e) /\ Cells("words", e)[a] = v
  <2>1. /\ a \in DOMAIN Cells("words", e)
        /\ Cells("words", e)[a] = ToUsbKeycodes(text[a - i * 16 + 1])[1]
    BY <1>4, <1>5
  <2> QED
    BY <1>5, <2>1
<1>7. Firmware!WordAddress(i, k - 1) = a
  <2>1. i * 16 + (k - 1) = a /\ a % 65536 = a
    BY <1>1, <1>3
  <2> QED
    BY <2>1 DEF Firmware!WordAddress
<1>8. Firmware!ReadExternal(0, a) = Read(bytes["eeprom0"], a)
  <2>1. a < 65536
    BY <1>1, <1>3
  <2> QED
    BY <2>1, ExternalReads
<1> HIDE DEF v
<1>9. Firmware!ReadExternal(0, a) = v
  BY <1>2, <1>6, <1>8, CellIsRead
<1> QED
  BY <1>7, <1>9 DEF v

LEMMA WordIsRead ==
  ASSUME JsonIsValid, IsLoaded, NEW i \in 0..255
  PROVE  LET text == TextOf("word_shortcuts", i) IN
         StoredWord(i) = [k \in DOMAIN text |-> ToUsbKeycodes(text[k])[1]]
<1> DEFINE text == TextOf("word_shortcuts", i)
<1>1. /\ "words" \in Loops /\ Property["words"] = "word_shortcuts"
      /\ Buffer["words"] = "eeprom0"
  BY LoopTables DEF Loops
<1>2. Firmware!GetWordShortcutLength(i) = Len(text) /\ text \in Texts
  BY WordLengthIsRead
<1>3. ASSUME NEW k \in 1..Len(text)
      PROVE  Firmware!ReadExternal(0, Firmware!WordAddress(i, k - 1))
               = ToUsbKeycodes(text[k])[1]
  <2>1. text # <<>>
    BY <1>3, NoText
  <2>2. PICK e : /\ ValidEntry("word_shortcuts", e)
                 /\ e.index = i
                 /\ e.text = text
                 /\ Holds(bytes["eeprom0"], Cells("words", e))
    BY <1>1, <2>1, TextOfId
  <2>3. Len(text) <= 15
    BY <1>1, <2>2, ValidEntryFacts
  <2> QED
    BY <1>2, <1>3, <2>2, <2>3, WordCellIsRead
<1> HIDE DEF text
<1>4. DOMAIN text = 1..Len(text)
  BY <1>2, TextFacts
<1>5. StoredWord(i) = [k \in DOMAIN text |-> ToUsbKeycodes(text[k])[1]]
  BY <1>2, <1>3, <1>4 DEF StoredWord
<1> QED
  BY <1>5 DEF text

\* A keypress of a blob takes two cells: its key code and its modifiers.
LEMMA BlobCellsOfKeypress ==
  ASSUME NEW text \in Texts, NEW start \in Int, NEW k \in 1..Len(text)
  PROVE  LET a == start + (k - 1) * 2
             cells == BlobCells(text, start)
         IN  /\ {a, a + 1} \subseteq DOMAIN cells
             /\ cells[a] = ToUsbKeycodes(text[k])[1]
             /\ cells[a + 1] = ToUsbKeycodes(text[k])[2]
<1> DEFINE a == start + (k - 1) * 2
           n == Len(text)
<1>1. n \in Nat /\ k \in 1..n
  BY TextFacts
<1>2. BlobCells(text, start) =
        [x \in start..(start + 2 * n - 1) |->
           ToUsbKeycodes(text[(x - start) \div 2 + 1])[1 + ((x - start) % 2)]]
  BY DEF BlobCells
<1> HIDE DEF n
<1>3. /\ {a, a + 1} \subseteq start..(start + 2 * n - 1)
      /\ (a - start) \div 2 + 1 = k
      /\ (a + 1 - start) \div 2 + 1 = k
      /\ 1 + ((a - start) % 2) = 1
      /\ 1 + ((a + 1 - start) % 2) = 2
  BY <1>1
<1> HIDE DEF a
<1> QED
  BY <1>2, <1>3 DEF a

LEMMA BlobCellsAreRead ==
  ASSUME NEW text \in Texts, NEW start \in Int, NEW k \in 1..Len(text),
         NEW buffer, Holds(buffer, BlobCells(text, start)),
         NEW a \in Int, a = start + (k - 1) * 2
  PROVE  /\ Read(buffer, a) = ToUsbKeycodes(text[k])[1]
         /\ Read(buffer, a + 1) = ToUsbKeycodes(text[k])[2]
<1> DEFINE code == ToUsbKeycodes(text[k])[1]
           mod == ToUsbKeycodes(text[k])[2]
           cells == BlobCells(text, start)
           next == a + 1
<1>1. text[k] \in 0..255
  BY TextFacts
<1>2. code \in 0..255 /\ mod \in 0..255
  BY <1>1, KeycodesArePairs
<1>3. /\ a \in DOMAIN cells /\ next \in DOMAIN cells
      /\ cells[a] = code /\ cells[next] = mod
  BY BlobCellsOfKeypress
<1>4. Holds(buffer, cells)
  OBVIOUS
<1> HIDE DEF code, mod, cells, next
<1>5. Read(buffer, a) = code
  BY <1>2, <1>3, <1>4, CellIsRead
<1>6. Read(buffer, next) = mod
  BY <1>2, <1>3, <1>4, CellIsRead
<1> QED
  BY <1>5, <1>6 DEF code, mod, next

\* Where both copies of the layout put blob i: the first 120 behind the words in
\* eeprom0, the others in eeprom1.
Start(i) == IF i < 120 THEN 4096 + i * 512 ELSE (i - 120) * 512

IsAddress(a) == a \in Nat /\ a < 65535

\* No address of a blob wraps around at 65536.
LEMMA BlobAddresses ==
  ASSUME NEW i \in 0..247, NEW k \in 0..254,
         NEW a \in Int, a = Start(i) + k * 2
  PROVE  /\ IsAddress(a)
         /\ Firmware!BlobAddress(i, k) = a
         /\ Firmware!BlobDevice(i) = IF i < 120 THEN 0 ELSE 1
<1>1. CASE i < 120
  <2>1. a = 4096 + i * 512 + k * 2
    BY <1>1 DEF Start
  <2>2. a \in Nat /\ a < 65535
    BY <1>1, <2>1
  <2>3. a % 65536 = a
    BY <2>2
  <2>4. Firmware!BlobAddress(i, k) = a % 65536
    BY <1>1, <2>1 DEF Firmware!BlobAddress
  <2> QED
    BY <1>1, <2>2, <2>3, <2>4 DEF Firmware!BlobDevice, IsAddress
<1>2. CASE ~(i < 120)
  <2>1. a = (i - 120) * 512 + k * 2 /\ i >= 120
    BY <1>2 DEF Start
  <2>2. a \in Nat /\ a < 65535
    BY <2>1
  <2>3. a % 65536 = a
    BY <2>2
  <2>4. Firmware!BlobAddress(i, k) = a % 65536
    BY <2>1 DEF Firmware!BlobAddress
  <2> QED
    BY <1>2, <2>1, <2>2, <2>3, <2>4 DEF Firmware!BlobDevice, IsAddress
<1> QED
  BY <1>1, <1>2

LEMMA BlobCellsOfId ==
  ASSUME NEW i \in 0..247, NEW e, e.index = i
  PROVE  Cells(IF i < 120 THEN "blobs0" ELSE "blobs1", e)
           = BlobCells(e.text, Start(i))
<1>1. CASE i < 120
  BY <1>1 DEF Cells, Start
<1>2. CASE ~(i < 120)
  <2>1. i >= 120
    BY <1>2
  <2> QED
    BY <1>2, <2>1 DEF Cells, Start
<1> QED
  BY <1>1, <1>2

\* The k-th keypress of blob i is where both copies of the layout have it, in the
\* buffer of its device.
LEMMA BlobIsStored ==
  ASSUME JsonIsValid, IsLoaded, NEW i \in 0..247,
         NEW k \in 1..Len(TextOf("blob_shortcuts", i)),
         NEW b, b = IF i < 120 THEN bytes["eeprom0"] ELSE bytes["eeprom1"]
  PROVE  LET v == ToUsbKeycodes(TextOf("blob_shortcuts", i)[k])
             a == Firmware!BlobAddress(i, k - 1)
         IN  /\ IsAddress(a)
             /\ Firmware!BlobDevice(i) = IF i < 120 THEN 0 ELSE 1
             /\ v = <<v[1], v[2]>>
             /\ Read(b, a) = v[1]
             /\ Read(b, a + 1) = v[2]
<1> DEFINE text == TextOf("blob_shortcuts", i)
           l == IF i < 120 THEN "blobs0" ELSE "blobs1"
           v == ToUsbKeycodes(text[k])
<1>1. /\ l \in Loops /\ Property[l] = "blob_shortcuts" /\ i \in 0..255
      /\ b = bytes[Buffer[l]]
  BY LoopTables DEF Loops
<1>2. text \in Texts
  BY <1>1, BlobLengthIsRead
<1>3. text # <<>> /\ Len(text) \in Nat
  BY <1>2, NoText, TextFacts
<1>4. PICK e : /\ ValidEntry("blob_shortcuts", e)
               /\ e.index = i
               /\ e.text = text
               /\ Holds(b, Cells(l, e))
  <2> HIDE DEF l
  <2> QED
    BY <1>1, <1>3, TextOfId
<1>5. Len(text) <= 255
  <2>1. ValidEntry(Property[l], e) /\ e.text = text
    BY <1>1, <1>4
  <2> HIDE DEF l, text
  <2>2. Len(e.text) \in 0..255
    BY <1>1, <2>1, ValidEntryFacts
  <2>3. \A n \in 0..255 : n <= 255
    OBVIOUS
  <2> QED
    BY <2>1, <2>2, <2>3, Zenon
<1>6. Holds(b, BlobCells(text, Start(i)))
  BY <1>4, BlobCellsOfId
<1>7. PICK a \in Int : a = Start(i) + (k - 1) * 2
  <2>1. k \in Int
    BY <1>3
  <2>2. Start(i) + (k - 1) * 2 \in Int
    BY <2>1 DEF Start
  <2> QED
    BY <2>2
<1>8. Read(b, a) = v[1] /\ Read(b, a + 1) = v[2]
  <2> HIDE DEF text
  <2>1. k \in 1..Len(text)
    BY DEF text
  <2>2. Start(i) \in Int
    BY DEF Start
  <2> QED
    BY <1>2, <1>6, <1>7, <2>1, <2>2, BlobCellsAreRead
<1>9. v = <<v[1], v[2]>>
  <2>1. text[k] \in 0..255
    BY <1>2, TextFacts
  <2> QED
    BY <2>1, KeycodesArePairs
<1>10. /\ IsAddress(a)
       /\ Firmware!BlobAddress(i, k - 1) = a
       /\ Firmware!BlobDevice(i) = IF i < 120 THEN 0 ELSE 1
  <2>1. k - 1 \in 0..254
    <3> DEFINE n == Len(text)
    <3>1. k \in 1..n /\ n \in Nat /\ n <= 255
      BY <1>3, <1>5
    <3> HIDE DEF n
    <3> QED
      BY <3>1
  <2> DEFINE last == k - 1
  <2> HIDE DEF last, text
  <2>2. last \in 0..254 /\ a = Start(i) + last * 2
    BY <1>7, <2>1 DEF last
  <2>3. /\ IsAddress(a)
        /\ Firmware!BlobAddress(i, last) = a
        /\ Firmware!BlobDevice(i) = IF i < 120 THEN 0 ELSE 1
    BY <1>7, <2>2, BlobAddresses, Zenon
  <2> QED
    BY <2>3 DEF last
<1> HIDE DEF v
<1>11. /\ IsAddress(Firmware!BlobAddress(i, k - 1))
       /\ v = <<v[1], v[2]>>
       /\ Read(b, Firmware!BlobAddress(i, k - 1)) = v[1]
       /\ Read(b, Firmware!BlobAddress(i, k - 1) + 1) = v[2]
  BY <1>8, <1>9, <1>10
<1> QED
  BY <1>10, <1>11 DEF v

\* The blobs of EEPROM_0 are those below 120.
LEMMA AnsweredBlobs ==
  ASSUME NEW i \in 0..247
  PROVE  IsAnswered(i) <=> i < 120
<1>1. Firmware!BlobDevice(i) = IF i < 120 THEN 0 ELSE 1
  BY DEF Firmware!BlobDevice
<1> QED
  BY <1>1 DEF IsAnswered, Attached

\* The firmware's blob i is the file's, keypress by keypress, if it is answered.
LEMMA BlobIsRead ==
  ASSUME JsonIsValid, IsLoaded, NEW i \in 0..247, IsAnswered(i),
         NEW k \in 1..Len(TextOf("blob_shortcuts", i))
  PROVE  BlobKeypress(i, k - 1)
           = ToUsbKeycodes(TextOf("blob_shortcuts", i)[k])
<1> DEFINE v == ToUsbKeycodes(TextOf("blob_shortcuts", i)[k])
           b == bytes["eeprom0"]
           a == Firmware!BlobAddress(i, k - 1)
<1>1. i < 120 /\ b = IF i < 120 THEN bytes["eeprom0"] ELSE bytes["eeprom1"]
  BY AnsweredBlobs
<1>2. /\ IsAddress(a) /\ Firmware!BlobDevice(i) = 0
      /\ v = <<v[1], v[2]>>
      /\ Read(b, a) = v[1] /\ Read(b, a + 1) = v[2]
  BY <1>1, BlobIsStored
<1>3. BlobKeypress(i, k - 1)
        = <<Firmware!ReadExternal(0, a), Firmware!ReadExternal(0, a + 1)>>
  BY <1>2 DEF BlobKeypress
<1> HIDE DEF v, a
<1>4. a \in Nat /\ a < 65536 /\ a + 1 \in Nat /\ a + 1 < 65536
  BY <1>2 DEF IsAddress
<1>5. /\ Firmware!ReadExternal(0, a) = Read(b, a)
      /\ Firmware!ReadExternal(0, a + 1) = Read(b, a + 1)
  BY <1>4, ExternalReads
<1>6. BlobKeypress(i, k - 1) = v
  BY <1>2, <1>3, <1>5
<1> QED
  BY <1>6 DEF v

LEMMA OtherBlobsAreLaidOut ==
  ASSUME JsonIsValid, IsLoaded
  PROVE  Eeprom1IsLaidOut
<1> SUFFICES ASSUME NEW i \in 0..247, ~IsAnswered(i),
                    NEW k \in DOMAIN TextOf("blob_shortcuts", i)
             PROVE  LET a == Firmware!BlobAddress(i, k - 1) IN
                    <<ReadEeprom1(a), ReadEeprom1(a + 1)>>
                      = ToUsbKeycodes(TextOf("blob_shortcuts", i)[k])
  BY DEF Eeprom1IsLaidOut
<1> DEFINE text == TextOf("blob_shortcuts", i)
           v == ToUsbKeycodes(text[k])
           b == bytes["eeprom1"]
           a == Firmware!BlobAddress(i, k - 1)
<1>1. b = IF i < 120 THEN bytes["eeprom0"] ELSE bytes["eeprom1"]
  BY AnsweredBlobs
<1>2. k \in 1..Len(text)
  <2>1. i \in 0..255
    OBVIOUS
  <2>2. text \in Texts
    BY <2>1, BlobLengthIsRead
  <2> HIDE DEF text
  <2>3. DOMAIN text = 1..Len(text)
    BY <2>2, TextFacts
  <2> QED
    BY <2>3 DEF text
<1>3. v = <<v[1], v[2]>> /\ Read(b, a) = v[1] /\ Read(b, a + 1) = v[2]
  BY <1>1, <1>2, BlobIsStored
<1> HIDE DEF v, a
<1>4. /\ ReadEeprom1(a) = Read(b, a)
      /\ ReadEeprom1(a + 1) = Read(b, a + 1)
  BY DEF ReadEeprom1, Read, Firmware!Decode
<1>5. <<ReadEeprom1(a), ReadEeprom1(a + 1)>> = v
  BY <1>3, <1>4
<1> QED
  BY <1>5 DEF v, a

LEMMA FilesAreRead ==
  ASSUME JsonIsValid, IsLoaded
  PROVE  FirmwareReadsTheFile
<1>1. ASSUME NEW i \in 0..247
      PROVE  LET text == TextOf("blob_shortcuts", i) IN
             /\ Firmware!GetBlobShortcutLength(i) = Len(text)
             /\ IsAnswered(i) =>
                  StoredBlob(i) = [k \in DOMAIN text |-> ToUsbKeycodes(text[k])]
  <2> DEFINE text == TextOf("blob_shortcuts", i)
  <2>1. /\ Firmware!GetBlobShortcutLength(i) = Len(text)
        /\ text \in Texts
        /\ DOMAIN text = 1..Len(text)
    <3>1. i \in 0..255
      OBVIOUS
    <3> QED
      BY <3>1, BlobLengthIsRead, TextFacts
  <2>2. ASSUME IsAnswered(i)
        PROVE  \A k \in 1..Len(text) :
                 BlobKeypress(i, k - 1) = ToUsbKeycodes(text[k])
    BY <2>2, BlobIsRead
  <2> HIDE DEF text
  <2>3. ASSUME IsAnswered(i)
        PROVE  StoredBlob(i) = [k \in DOMAIN text |-> ToUsbKeycodes(text[k])]
    BY <2>1, <2>2, <2>3 DEF StoredBlob
  <2> QED
    BY <2>1, <2>3 DEF text
<1> QED
  BY <1>1, CharacterIsRead, WordIsRead DEF FirmwareReadsTheFile
-----------------------------------------------------------------------------
\* The steps with a valid file, and how far the loops are in each.
Configured == Loops \cup {"loaded", "sending", "sent", "refused"}

Order ==
  [characters |-> 1, word_lengths |-> 2, blob_lengths |-> 3, words |-> 4,
   blobs0 |-> 5, blobs1 |-> 6, loaded |-> 7, sending |-> 7, sent |-> 7,
   refused |-> 7]

\* The entries of its property that loop l has stored.
Written(l) ==
  IF Order[l] < Order[at] THEN Len(json[Property[l]])
  ELSE IF l = at THEN done ELSE 0

FileInv ==
  /\ at = "parse" => json \in Files
  /\ at = "validate" => json \in Files \ {NoJson}
  /\ at \in Configured => JsonIsValid

BytesInv ==
  /\ DOMAIN bytes = {"internal_eeprom", "eeprom0", "eeprom1"}
  /\ at \in {"parse", "validate"} =>
       done = 0 /\ \A b \in DOMAIN bytes : DOMAIN bytes[b] = {}
  /\ at \in Loops => done \in 0..Len(json[Property[at]])
  /\ at \in Configured =>
       \A l \in Loops :
         IsStored(l, json[Property[l]], Written(l), bytes[Buffer[l]])

Outputs == [index : SentBlobs, sent : Nat, text : Seq(Printable)]

\* While a blob is sent, what the host shows is what was sent of its text; nothing
\* was, when the send is refused.
OutputInv ==
  at \in {"sending", "sent", "refused"} =>
    LET text == TextOf("blob_shortcuts", output.index) IN
    /\ output \in Outputs
    /\ output.sent <= Len(text)
    /\ output.sent = 0 => output.text = <<>>
    /\ output.sent > 0 => IsAnswered(output.index)
    /\ at = "sending" => Len(text) > 0
    /\ at = "sent" => output.sent = Len(text) /\ output.sent > 0
    /\ at = "refused" =>
         output.sent = 0 /\ (Len(text) = 0 \/ ~IsAnswered(output.index))
    /\ (\A k \in DOMAIN text : text[k] \in Agreed) =>
         /\ Len(output.text) = output.sent
         /\ \A k \in 1..output.sent : output.text[k] = text[k]

\* The inductive invariant: FirmwareReadsTheFile alone says nothing of a loop that
\* is not done, nor BlobIsShownAsWritten of a blob that is half sent.
Inv ==
  /\ at \in Configured \cup {"parse", "validate", "invalid", "terminated"}
  /\ FileInv /\ BytesInv /\ OutputInv /\ OnlyBlob248Throws

LEMMA LoopsInOrder ==
  /\ \A l \in Loops : /\ Order[l] \in Nat
                      /\ Order[l] < Order["loaded"]
                      /\ NextLoop[l] \in Loops \cup {"loaded"}
                      /\ Order[NextLoop[l]] = Order[l] + 1
  /\ \A l, m \in Loops : Order[l] = Order[m] => l = m
  /\ Order["loaded"] \in Nat
  /\ Order["sending"] = Order["loaded"] /\ Order["sent"] = Order["loaded"]
  /\ Order["refused"] = Order["loaded"]
  /\ \A l \in Loops : ~(Order[l] < Order["characters"])
<1>1. /\ Order["characters"] = 1 /\ Order["word_lengths"] = 2
      /\ Order["blob_lengths"] = 3 /\ Order["words"] = 4
      /\ Order["blobs0"] = 5 /\ Order["blobs1"] = 6
      /\ Order["loaded"] = 7 /\ Order["sending"] = 7 /\ Order["sent"] = 7
      /\ Order["refused"] = 7
  BY DEF Order
<1>2. /\ NextLoop["characters"] = "word_lengths"
      /\ NextLoop["word_lengths"] = "blob_lengths"
      /\ NextLoop["blob_lengths"] = "words"
      /\ NextLoop["words"] = "blobs0"
      /\ NextLoop["blobs0"] = "blobs1"
      /\ NextLoop["blobs1"] = "loaded"
  BY DEF NextLoop
<1> QED
  BY <1>1, <1>2 DEF Loops

LEMMA LoopNames ==
  /\ \A l \in Loops : l \notin {"parse", "validate", "invalid", "terminated",
                                "loaded", "sending", "sent", "refused"}
  /\ \A l \in Loops : /\ Property[l] \in Properties
                      /\ Buffer[l] \in {"internal_eeprom", "eeprom0", "eeprom1"}
  BY LoopTables DEF Loops, Properties

LEMMA BlankIsStored ==
  ASSUME NEW l \in Loops, NEW entries, NEW buffer, DOMAIN buffer = {}
  PROVE  IsStored(l, entries, 0, buffer)
  BY DEF IsStored, Byte

LEMMA InitInv == Init => Inv
<1> SUFFICES ASSUME Init PROVE Inv
  OBVIOUS
<1>1. at = "parse" /\ at \notin Configured
  BY LoopNames DEF Init, Configured
<1> QED
  BY <1>1, LoopNames
     DEF Init, Inv, FileInv, BytesInv, OutputInv, OnlyBlob248Throws, Configured

\* Until a loop is done with its entries nothing of what it stores is promised.
LEMMA BlankStart ==
  ASSUME Inv, at \in {"parse", "validate"}, at' = "characters",
         UNCHANGED <<done, bytes, output>>, JsonIsValid'
  PROVE  Inv'
<1>1. /\ done = 0
      /\ \A l \in Loops : DOMAIN bytes[Buffer[l]] = {}
  BY LoopNames DEF Inv, BytesInv
<1>2. \A l \in Loops : Written(l)' = 0
  <2> SUFFICES ASSUME NEW l \in Loops PROVE Written(l)' = 0
    OBVIOUS
  <2>1. ~(Order[l] < Order[at'])
    BY LoopsInOrder
  <2> QED
    BY <1>1, <2>1 DEF Written
<1>3. \A l \in Loops :
        IsStored(l, json[Property[l]], Written(l), bytes[Buffer[l]])'
  <2> SUFFICES ASSUME NEW l \in Loops
               PROVE  IsStored(l, json'[Property[l]], Written(l)', bytes'[Buffer[l]])
    OBVIOUS
  <2> QED
    BY <1>1, <1>2, BlankIsStored
<1>4. FileInv'
  BY LoopNames DEF FileInv
<1>5. BytesInv'
  <2>1. at' \in Loops /\ json'[Property[at']] \in Seq(Entries)
    BY LoopNames DEF JsonIsValid, Loops
  <2>2. done' \in 0..Len(json'[Property[at']])
    BY <1>1, <2>1
  <2> QED
    BY <1>1, <1>3, <2>2 DEF BytesInv, Inv
<1>6. OutputInv' /\ OnlyBlob248Throws'
  BY DEF OutputInv, OnlyBlob248Throws
<1> QED
  BY <1>4, <1>5, <1>6 DEF Inv, Configured, Loops

LEMMA ParseInv == Inv /\ Parse => Inv'
<1> SUFFICES ASSUME Inv, Parse PROVE Inv'
  OBVIOUS
<1>1. CASE json = NoJson
  <2>1. json' = [p \in Properties |-> <<>>] /\ at' = "characters"
    BY <1>1 DEF Parse
  <2>2. JsonIsValid'
    BY <2>1 DEF JsonIsValid
  <2> QED
    BY <2>1, <2>2, BlankStart DEF Parse
<1>2. CASE json # NoJson
  <2>1. at = "parse" /\ at' = "validate" /\ UNCHANGED <<json, done, bytes, output>>
    BY <1>2 DEF Parse
  <2>2. "validate" \notin Configured /\ "validate" \notin Loops
    BY LoopNames DEF Configured
  <2> QED
    BY <1>2, <2>1, <2>2
       DEF Inv, FileInv, BytesInv, OutputInv, OnlyBlob248Throws
<1> QED
  BY <1>1, <1>2

LEMMA ValidFilesAreValid ==
  ASSUME json \in Files \ {NoJson}, IsValid
  PROVE  JsonIsValid
<1> SUFFICES ASSUME NEW p \in Properties
             PROVE  /\ json[p] \in Seq(Entries)
                    /\ \A k \in DOMAIN json[p] : ValidEntry(p, json[p][k])
  BY DEF JsonIsValid
<1>1. json[p] \in Seq(Entries)
  BY FilesAssumption DEF IsValid
<1>2. ASSUME NEW k \in DOMAIN json[p] PROVE ValidEntry(p, json[p][k])
  <2>1. json[p][k] \in Entries
    BY <1>1
  <2> QED
    BY <2>1 DEF IsValid, ValidEntry
<1> QED
  BY <1>1, <1>2

LEMMA ValidateInv == Inv /\ Validate => Inv'
<1> SUFFICES ASSUME Inv, Validate PROVE Inv'
  OBVIOUS
<1>1. at = "validate" /\ UNCHANGED <<json, done, bytes, output>>
  BY DEF Validate
<1>2. CASE IsValid
  <2>1. JsonIsValid
    BY <1>1, <1>2, ValidFilesAreValid DEF Inv, FileInv
  <2>2. JsonIsValid'
    BY <1>1, <2>1 DEF JsonIsValid
  <2>3. at' = "characters"
    BY <1>2 DEF Validate
  <2> QED
    BY <1>1, <2>2, <2>3, BlankStart
<1>3. CASE ~IsValid
  <2>1. at' = "invalid"
    BY <1>3 DEF Validate
  <2>2. "invalid" \notin Configured /\ "invalid" \notin Loops
    BY LoopNames DEF Configured
  <2> QED
    BY <1>1, <2>1, <2>2
       DEF Inv, FileInv, BytesInv, OutputInv, OnlyBlob248Throws
<1> QED
  BY <1>2, <1>3

\* The one entry whose cells do not fit.
\* The one entry whose cells do not fit: at() throws for no other.
LEMMA OnlyBlob248DoesNotFit ==
  ASSUME NEW l \in Loops, NEW e, ValidEntry(Property[l], e),
         NEW a \in DOMAIN Cells(l, e), ~(a < Size[Buffer[l]])
  PROVE  l = "blobs1" /\ e.index = 248 /\ e.text # <<>>
<1> DEFINE i == e.index
           n == Len(e.text)
<1>1. /\ i \in 0..255 /\ n \in 0..255 /\ e.text \in Texts
      /\ a \in Slot(l, i)
  BY ValidEntryFacts, CellsInSlot
<1>2. /\ Size["internal_eeprom"] = 1024
      /\ Size["eeprom0"] = 65535 /\ Size["eeprom1"] = 65535
  BY DEF Size
<1>3. CASE l \in {"characters", "word_lengths", "blob_lengths"}
  <2>1. Size[Buffer[l]] = 1024
    BY <1>2, <1>3, LoopTables
  <2>2. Slot(l, i) \subseteq {i, 256 + i, 512 + i}
    BY <1>3 DEF Slot
  <2> HIDE DEF i
  <2> QED
    BY <1>1, <2>1, <2>2
<1>4. CASE l = "words"
  <2>1. Size[Buffer[l]] = 65535
    BY <1>2, <1>4, LoopTables
  <2>2. Slot(l, i) = (i * 16)..(i * 16 + 15)
    BY <1>4 DEF Slot
  <2> HIDE DEF i
  <2> QED
    BY <1>1, <2>1, <2>2
<1>5. CASE l = "blobs0"
  <2>1. Size[Buffer[l]] = 65535
    BY <1>2, <1>5, LoopTables
  <2>2. Slot(l, i) = IF i < 120 THEN (4096 + i * 512)..(4096 + i * 512 + 511)
                     ELSE {}
    BY <1>5 DEF Slot
  <2>3. i < 120
    BY <1>1, <2>2
  <2>4. DOMAIN Cells(l, e) = (4096 + i * 512)..(4096 + i * 512 + 2 * n - 1)
    BY <1>5, <2>3 DEF Cells, BlobCells
  <2> HIDE DEF i, n
  <2>5. a < 65535
    BY <1>1, <2>3, <2>4
  <2> QED
    BY <2>1, <2>5
<1>6. CASE l = "blobs1"
  <2>1. Size[Buffer[l]] = 65535
    BY <1>2, <1>6, LoopTables
  <2>2. i <= 248
    <3>1. i \in 0..248
      BY <1>6, LoopTables, Limits DEF ValidEntry
    <3> HIDE DEF i
    <3> QED
      BY <3>1
  <2>3. Slot(l, i) = IF i >= 120 THEN ((i - 120) * 512)..((i - 120) * 512 + 511)
                     ELSE {}
    BY <1>6 DEF Slot
  <2>4. i >= 120 /\ a \in ((i - 120) * 512)..((i - 120) * 512 + 511)
    BY <1>1, <2>3
  <2>5. Cells(l, e) = BlobCells(e.text, (i - 120) * 512)
    BY <1>6, <2>4 DEF Cells
  <2>6. DOMAIN Cells(l, e) = ((i - 120) * 512)..((i - 120) * 512 + 2 * n - 1)
    BY <2>5 DEF BlobCells
  <2>7. i = 248 /\ n # 0
    <3> HIDE DEF i, n
    <3> QED
      BY <1>1, <2>1, <2>2, <2>4, <2>6
  <2> QED
    BY <1>6, <2>7
<1> QED
  BY <1>3, <1>4, <1>5, <1>6 DEF Loops

LEMMA ConfigureInv == Inv /\ Configure => Inv'
<1> SUFFICES ASSUME Inv, Configure PROVE Inv'
  OBVIOUS
<1> DEFINE p == Property[at]
           e == json[p][done + 1]
           cells == Cells(at, e)
           b == Buffer[at]
<1>1. /\ at \in Loops
      /\ done < Len(json[p])
      /\ UNCHANGED <<json, output>>
  BY LoopsAreSix DEF Configure
<1>2. at \in Configured /\ p \in Properties
      /\ b \in {"internal_eeprom", "eeprom0", "eeprom1"}
  BY <1>1, LoopNames DEF Configured
<1>3. JsonIsValid /\ JsonIsValid'
  BY <1>1, <1>2 DEF Inv, FileInv, JsonIsValid
<1>4. json[p] \in Seq(Entries) /\ Len(json[p]) \in Nat
      /\ DOMAIN json[p] = 1..Len(json[p])
  BY <1>2, <1>3 DEF JsonIsValid
<1>5. done \in Nat /\ done + 1 \in DOMAIN json[p]
  BY <1>1, <1>4 DEF Inv, BytesInv
<1>6. ValidEntry(p, e)
  BY <1>2, <1>3, <1>5 DEF JsonIsValid
<1>7. CASE \A a \in DOMAIN cells : a < Size[b]
  <2>1. /\ bytes' = [bytes EXCEPT ![b] = Stored(@, cells)]
        /\ done' = done + 1
        /\ at' = at
    BY <1>7 DEF Configure
  <2>2. DOMAIN bytes = {"internal_eeprom", "eeprom0", "eeprom1"}
    BY DEF Inv, BytesInv
  <2>3. /\ DOMAIN bytes' = DOMAIN bytes
        /\ bytes'[b] = Stored(bytes[b], cells)
        /\ \A x \in DOMAIN bytes : x # b => bytes'[x] = bytes[x]
    BY <1>2, <2>1, <2>2
  <2>4. ASSUME NEW l \in Loops
        PROVE  IsStored(l, json'[Property[l]], Written(l)', bytes'[Buffer[l]])
    <3> DEFINE s == json[Property[l]]
    <3>1. /\ s \in Seq(Entries) /\ Len(s) \in Nat
          /\ \A k \in DOMAIN s : ValidEntry(Property[l], s[k])
      BY <1>3, LoopNames DEF JsonIsValid
    <3>2. IsStored(l, s, Written(l), bytes[Buffer[l]])
      BY <1>2 DEF Inv, BytesInv
    <3>3. json' = json
      BY <1>1
    <3>4. CASE l = at
      <4>1. Order[l] \in Nat
        BY LoopsInOrder
      <4>2. Written(l) = done /\ Written(l)' = done + 1
        BY <2>1, <3>4, <4>1 DEF Written
      <4>3. IsStored(at, json[p], done + 1, Stored(bytes[b], cells))
        BY <1>1, <1>3, <1>4, <1>5, <3>1, <3>2, <3>4, <4>2, NextEntryIsStored
      <4> QED
        BY <2>3, <3>3, <3>4, <4>2, <4>3
    <3>5. CASE l # at
      <4>1. Written(l)' = Written(l)
        BY <2>1, <3>3, <3>5 DEF Written
      <4>2. Written(l) \in 0..Len(s)
        BY <3>1, <3>5 DEF Written
      <4>3. CASE Buffer[l] = b
        <5>1. IsStored(l, s, Written(l), Stored(bytes[b], cells))
          BY <1>1, <1>6, <3>1, <3>2, <3>5, <4>2, <4>3, OtherCellsStay
        <5> QED
          BY <2>3, <3>3, <4>1, <4>3, <5>1
      <4>4. CASE Buffer[l] # b
        <5>1. bytes'[Buffer[l]] = bytes[Buffer[l]]
          BY <2>2, <2>3, <4>4, LoopNames
        <5> QED
          BY <3>2, <3>3, <4>1, <5>1
      <4> QED
        BY <4>3, <4>4
    <3> QED
      BY <3>4, <3>5
  <2>5. BytesInv'
    <3>1. done' \in 0..Len(json'[Property[at']])
      BY <1>1, <1>4, <1>5, <2>1
    <3>2. at' \notin {"parse", "validate"}
      BY <1>1, <2>1, LoopNames
    <3> QED
      BY <2>2, <2>3, <2>4, <3>1, <3>2 DEF BytesInv
  <2>6. FileInv'
    BY <1>1, <1>3, <2>1, LoopNames DEF FileInv
  <2>7. OutputInv' /\ OnlyBlob248Throws'
    BY <1>1, <2>1, LoopNames DEF OutputInv, OnlyBlob248Throws
  <2> QED
    BY <1>2, <2>1, <2>5, <2>6, <2>7 DEF Inv
<1>8. CASE ~(\A a \in DOMAIN cells : a < Size[b])
  <2>1. at' = "terminated" /\ UNCHANGED <<done, bytes>>
    BY <1>8 DEF Configure
  <2>2. "terminated" \notin Configured /\ "terminated" \notin Loops
    BY LoopNames DEF Configured
  <2>3. at = "blobs1" /\ e.index = 248 /\ e.text # <<>>
    BY <1>1, <1>6, <1>8, OnlyBlob248DoesNotFit
  <2>4. OnlyBlob248Throws'
    BY <1>1, <1>5, <2>3, LoopTables DEF OnlyBlob248Throws
  <2> QED
    BY <2>1, <2>2, <2>4 DEF Inv, FileInv, BytesInv, OutputInv
<1> QED
  BY <1>7, <1>8

LEMMA EndOfLoopInv == Inv /\ EndOfLoop => Inv'
<1> SUFFICES ASSUME Inv, EndOfLoop PROVE Inv'
  OBVIOUS
<1>1. /\ at \in Loops
      /\ done = Len(json[Property[at]])
      /\ at' = NextLoop[at] /\ done' = 0
      /\ UNCHANGED <<json, bytes, output>>
  BY LoopsAreSix DEF EndOfLoop
<1>2. at' \in Loops \cup {"loaded"} /\ at \in Configured /\ at' \in Configured
  BY <1>1, LoopsInOrder DEF Configured
<1>3. JsonIsValid /\ JsonIsValid'
  BY <1>1, <1>2 DEF Inv, FileInv, JsonIsValid
<1>4. ASSUME NEW l \in Loops PROVE Written(l)' = Written(l)
  <2>1. /\ Order[l] \in Nat /\ Order[at] \in Nat /\ Order[at'] = Order[at] + 1
        /\ (Order[l] = Order[at] => l = at)
    BY <1>1, LoopsInOrder
  <2>2. Order[l] < Order[at'] <=> Order[l] < Order[at] \/ l = at
    BY <2>1
  <2>3. ~(Order[at] < Order[at])
    BY <2>1
  <2> QED
    BY <1>1, <2>2, <2>3 DEF Written
<1>5. BytesInv'
  <2>1. at' \in Loops => 0 \in 0..Len(json[Property[at']])
    BY <1>3, LoopNames DEF JsonIsValid
  <2>2. at' \notin {"parse", "validate"}
    BY <1>2, LoopNames
  <2> QED
    BY <1>1, <1>2, <1>4, <2>1, <2>2 DEF Inv, BytesInv
<1>6. FileInv' /\ OutputInv' /\ OnlyBlob248Throws'
  BY <1>2, <1>3, LoopNames DEF FileInv, OutputInv, OnlyBlob248Throws
<1> QED
  BY <1>2, <1>5, <1>6 DEF Inv

\* Behind the last loop all six are done.
LEMMA IsLoadedAtLast ==
  ASSUME Inv, at \in {"loaded", "sending", "sent", "refused"}
  PROVE  JsonIsValid /\ IsLoaded
<1>1. at \in Configured
  BY DEF Configured
<1>2. \A l \in Loops : Written(l) = Len(json[Property[l]])
  BY LoopsInOrder DEF Written
<1> QED
  BY <1>1, <1>2 DEF Inv, FileInv, BytesInv, IsLoaded

\* The file and the buffers stay as they are once they are loaded.
LEMMA LoadedStays ==
  ASSUME Inv, at \in {"loaded", "sending", "sent", "refused"},
         at' \in {"sending", "sent", "refused"}, UNCHANGED <<json, done, bytes>>
  PROVE  FileInv' /\ BytesInv' /\ at' \in Configured /\ OnlyBlob248Throws'
<1>1. JsonIsValid /\ IsLoaded
  BY IsLoadedAtLast
<1>2. JsonIsValid'
  BY <1>1 DEF JsonIsValid
<1>3. \A l \in Loops : Written(l)' = Len(json[Property[l]])
  BY LoopsInOrder DEF Written
<1>4. at \in Configured /\ at' \in Configured
  BY DEF Configured
<1>5. at' \notin Loops \cup {"parse", "validate", "terminated"}
  BY LoopNames
<1>6. FileInv' /\ OnlyBlob248Throws'
  BY <1>2, <1>5 DEF FileInv, OnlyBlob248Throws
<1>7. \A l \in Loops : Written(l)' = Written(l)
  BY <1>3, LoopsInOrder DEF Written
<1>8. BytesInv'
  BY <1>4, <1>5, <1>7 DEF Inv, BytesInv
<1> QED
  BY <1>4, <1>6, <1>8

LEMMA OutputFacts ==
  ASSUME NEW o \in Outputs
  PROVE  /\ o.index \in SentBlobs
         /\ o.index \in 0..247 /\ o.index \in 0..255
         /\ o.sent \in Nat
         /\ o.text \in Seq(Printable)
<1>1. o.index \in SentBlobs /\ o.sent \in Nat /\ o.text \in Seq(Printable)
  BY DEF Outputs
<1>2. o.index \in 0..247
  BY <1>1, FilesAssumption
<1>3. o.index \in 0..255
  BY <1>2
<1> QED
  BY <1>1, <1>2, <1>3

\* Which blobs are answered does not change.
LEMMA AnswerStays ==
  ASSUME UNCHANGED output.index
  PROVE  IsAnswered(output.index)' <=> IsAnswered(output.index)
  BY DEF IsAnswered, Attached, Firmware!BlobDevice

LEMMA SendBlobShortcutInv ==
  ASSUME Inv, NEW i \in SentBlobs, SendBlobShortcut(i)
  PROVE  Inv'
<1> DEFINE text == TextOf("blob_shortcuts", i)
<1>1. /\ at = "loaded"
      /\ at' = IF Firmware!GetBlobShortcutLength(i) = 0 THEN "refused"
                                                        ELSE "sending"
      /\ output' = [index |-> i, sent |-> 0, text |-> <<>>]
      /\ UNCHANGED <<json, done, bytes>>
  BY DEF SendBlobShortcut
<1>2. JsonIsValid /\ IsLoaded /\ i \in 0..255
  BY <1>1, IsLoadedAtLast, FilesAssumption
<1>3. /\ text \in Texts
      /\ Firmware!GetBlobShortcutLength(i) = Len(text)
  BY <1>2, BlobLengthIsRead
<1>4. TextOf("blob_shortcuts", output.index)' = text
  BY <1>1 DEF TextOf, IsLast
<1>5. OutputInv'
  <2>1. /\ output'.index = i /\ output'.sent = 0 /\ output'.text = <<>>
        /\ TextOf("blob_shortcuts", output.index)' = text
        /\ at' = IF Len(text) = 0 THEN "refused" ELSE "sending"
    BY <1>1, <1>3, <1>4
  <2>2. output' \in Outputs
    BY <1>1 DEF Outputs
  <2> HIDE DEF text
  <2>3. Len(text) \in Nat
    BY <1>3, TextFacts
  <2>4. /\ 0 <= Len(text) /\ Len(output'.text) = 0 /\ 1..0 = {} /\ ~(0 > 0)
        /\ Len(text) # 0 => Len(text) > 0
    BY <2>1, <2>3
  <2> QED
    BY <1>1, <2>1, <2>2, <2>4 DEF OutputInv
<1>6. at' \in {"sending", "sent", "refused"}
  BY <1>1
<1> QED
  BY <1>1, <1>5, <1>6, LoadedStays DEF Inv

\* A send that is refused has shown nothing: it ends at its first read.
LEMMA ReadFailsInv == Inv /\ ReadFails => Inv'
<1> SUFFICES ASSUME Inv, ReadFails PROVE Inv'
  OBVIOUS
<1>1. /\ at = "sending" /\ at' = "refused"
      /\ ~IsAnswered(output.index)
      /\ UNCHANGED <<json, done, bytes, output>>
  BY DEF ReadFails
<1>2. TextOf("blob_shortcuts", output.index)'
        = TextOf("blob_shortcuts", output.index)
  BY <1>1 DEF TextOf, IsLast
<1>3. IsAnswered(output.index)' <=> IsAnswered(output.index)
  BY <1>1, AnswerStays
<1>4. output.sent = 0
  <2>1. output.sent \in Nat /\ ~(output.sent > 0)
    BY <1>1, OutputFacts DEF Inv, OutputInv
  <2> QED
    BY <2>1
<1>5. OutputInv'
  BY <1>1, <1>2, <1>3, <1>4 DEF Inv, OutputInv
<1> QED
  BY <1>1, <1>5, LoadedStays DEF Inv

LEMMA SendKeypressInv == Inv /\ SendKeypress => Inv'
<1> SUFFICES ASSUME Inv, SendKeypress PROVE Inv'
  OBVIOUS
<1> DEFINE i == output.index
           sent == output.sent
           text == TextOf("blob_shortcuts", i)
           keypress == BlobKeypress(i, sent)
           c == FromUsbKeycodes(keypress[1], keypress[2])
<1>1. /\ at = "sending" /\ at' = "sending"
      /\ sent < Firmware!GetBlobShortcutLength(i)
      /\ IsAnswered(i)
      /\ output' = [output EXCEPT
           !.sent = @ + 1,
           !.text = IF c \in Printable THEN Append(@, c) ELSE @]
      /\ UNCHANGED <<json, done, bytes>>
  BY DEF SendKeypress
<1>2. JsonIsValid /\ IsLoaded
  BY <1>1, IsLoadedAtLast
<1>3. /\ output \in Outputs
      /\ (\A k \in DOMAIN text : text[k] \in Agreed) =>
           /\ Len(output.text) = sent
           /\ \A k \in 1..sent : output.text[k] = text[k]
  BY <1>1 DEF Inv, OutputInv
<1>4. i \in 0..247 /\ i \in 0..255 /\ sent \in Nat
  BY <1>3, OutputFacts
<1>5. /\ Firmware!GetBlobShortcutLength(i) = Len(text)
      /\ text \in Texts /\ Len(text) \in Nat
      /\ DOMAIN text = 1..Len(text)
  <2>1. /\ Firmware!GetBlobShortcutLength(i) = Len(text)
        /\ text \in Texts
    BY <1>2, <1>4, BlobLengthIsRead
  <2> HIDE DEF text
  <2> QED
    BY <2>1, TextFacts
<1>6. sent + 1 \in 1..Len(text) /\ sent + 1 \in DOMAIN text
  BY <1>1, <1>4, <1>5
<1>7. TextOf("blob_shortcuts", output.index)' = text
  BY <1>1, <1>3 DEF TextOf, IsLast
<1>8. keypress = ToUsbKeycodes(text[sent + 1])
  <2>1. BlobKeypress(i, (sent + 1) - 1) = ToUsbKeycodes(text[sent + 1])
    BY <1>1, <1>2, <1>4, <1>6, BlobIsRead
  <2>2. (sent + 1) - 1 = sent
    BY <1>4
  <2> QED
    BY <2>1, <2>2
<1>9. /\ output'.index = i
      /\ output'.sent = sent + 1
      /\ output'.text = IF c \in Printable THEN Append(output.text, c)
                                           ELSE output.text
  BY <1>1, <1>3
<1>10. output' \in Outputs
  <2> DEFINE new == IF c \in Printable THEN Append(output.text, c)
                                       ELSE output.text
  <2>1. new \in Seq(Printable)
    <3>1. output.text \in Seq(Printable)
      BY <1>3, OutputFacts
    <3> HIDE DEF c
    <3> QED
      BY <3>1
  <2>2. output' = [output EXCEPT !.sent = sent + 1, !.text = new]
    BY <1>1
  <2> HIDE DEF new, c
  <2>3. sent + 1 \in Nat
    BY <1>4
  <2> QED
    BY <1>3, <2>1, <2>2, <2>3 DEF Outputs
<1>11. ASSUME \A k \in DOMAIN text : text[k] \in Agreed
       PROVE  /\ Len(output'.text) = sent + 1
              /\ \A k \in 1..(sent + 1) : output'.text[k] = text[k]
  <2>1. c = text[sent + 1] /\ c \in Printable
    BY <1>6, <1>8, <1>11, AgreedCharacters
  <2>2. output'.text = Append(output.text, c)
    BY <1>9, <2>1
  <2>3. /\ output.text \in Seq(Printable) /\ Len(output.text) = sent
        /\ \A k \in 1..sent : output.text[k] = text[k]
    BY <1>3, <1>11, OutputFacts
  <2> HIDE DEF c, text, sent
  <2> QED
    BY <1>4, <2>1, <2>2, <2>3
<1>12. OutputInv'
  <2>1. sent + 1 <= Len(text) /\ Len(text) > 0 /\ sent + 1 # 0
    BY <1>4, <1>5, <1>6
  <2>2. IsAnswered(output.index)'
    BY <1>1, <1>9, AnswerStays
  <2> QED
    BY <1>1, <1>7, <1>9, <1>10, <1>11, <2>1, <2>2 DEF OutputInv
<1> QED
  BY <1>1, <1>12, LoadedStays DEF Inv

LEMMA BlobIsSentInv == Inv /\ BlobIsSent => Inv'
<1> SUFFICES ASSUME Inv, BlobIsSent PROVE Inv'
  OBVIOUS
<1>1. /\ at = "sending" /\ at' = "sent"
      /\ output.sent = Firmware!GetBlobShortcutLength(output.index)
      /\ UNCHANGED <<json, done, bytes, output>>
  BY DEF BlobIsSent
<1>2. JsonIsValid /\ IsLoaded
  BY <1>1, IsLoadedAtLast
<1>3. output.index \in 0..255
  BY <1>1, OutputFacts DEF Inv, OutputInv
<1>4. output.sent = Len(TextOf("blob_shortcuts", output.index))
  BY <1>1, <1>2, <1>3, BlobLengthIsRead
<1>5. TextOf("blob_shortcuts", output.index)'
        = TextOf("blob_shortcuts", output.index)
  BY <1>1 DEF TextOf, IsLast
<1>6. IsAnswered(output.index)' <=> IsAnswered(output.index)
  BY <1>1, AnswerStays
<1>7. OutputInv'
  BY <1>1, <1>4, <1>5, <1>6 DEF Inv, OutputInv
<1> QED
  BY <1>1, <1>7, LoadedStays DEF Inv

LEMMA NextInv == Inv /\ [Next]_vars => Inv'
<1> SUFFICES ASSUME Inv, [Next]_vars PROVE Inv'
  OBVIOUS
<1>1. CASE UNCHANGED vars
  <2>1. UNCHANGED <<at, json, done, bytes, output>>
    BY <1>1 DEF vars
  <2>2. JsonIsValid' <=> JsonIsValid
    BY <2>1 DEF JsonIsValid
  <2>3. FileInv'
    BY <2>1, <2>2 DEF Inv, FileInv
  <2>4. BytesInv'
    BY <2>1 DEF Inv, BytesInv, Written
  <2>5. OutputInv'
    <3>1. TextOf("blob_shortcuts", output.index)'
            = TextOf("blob_shortcuts", output.index)
      BY <2>1 DEF TextOf, IsLast
    <3>2. IsAnswered(output.index)' <=> IsAnswered(output.index)
      BY <2>1, AnswerStays
    <3> QED
      BY <2>1, <3>1, <3>2 DEF Inv, OutputInv
  <2>6. OnlyBlob248Throws'
    BY <2>1 DEF Inv, OnlyBlob248Throws
  <2> QED
    BY <2>1, <2>3, <2>4, <2>5, <2>6 DEF Inv
<1> QED
  BY <1>1, ParseInv, ValidateInv, ConfigureInv, EndOfLoopInv,
     SendBlobShortcutInv, ReadFailsInv, SendKeypressInv, BlobIsSentInv
  DEF Next

\* state_storage_impl.cpp: the constructor keeps, entry by entry, the last text of
\* each id in a slot of its own, whatever file it is given.
THEOREM InvHolds == Spec => []Inv
<1>1. QED
  BY InitInv, NextInv, PTL DEF Spec

\* FirmwareReadsTheFile for every file: what Validate accepts and the constructor
\* writes is what the StorageController of the firmware reads back, each shortcut
\* under its id and none under any other, but for what EEPROM_1 would hold.
THEOREM FilesReachTheFirmware == Spec => []FirmwareReadsTheFile
<1>1. Inv => FirmwareReadsTheFile
  <2> SUFFICES ASSUME Inv, at = "loaded" PROVE FirmwareReadsTheFile
    BY DEF FirmwareReadsTheFile
  <2> QED
    BY IsLoadedAtLast, FilesAreRead
<1>2. QED
  BY <1>1, InvHolds, PTL

\* Eeprom1IsLaidOut for every file: the constructor writes the blobs from 120 where
\* the StorageController would read them, in the buffer that no device serves.
THEOREM OtherBlobsHaveTheSameLayout == Spec => []Eeprom1IsLaidOut
<1>1. Inv => Eeprom1IsLaidOut
  <2> SUFFICES ASSUME Inv, at = "loaded" PROVE Eeprom1IsLaidOut
    BY DEF Eeprom1IsLaidOut
  <2> QED
    BY IsLoadedAtLast, OtherBlobsAreLaidOut
<1>2. QED
  BY <1>1, InvHolds, PTL

LEMMA BytesAreNumbers ==
  /\ \A s \in Seq(0..255) : s \in Seq(Nat)
  /\ \A s \in Seq(Printable) : s \in Seq(Nat)
<1>1. 0..255 \subseteq Nat /\ Printable \subseteq Nat
  BY DEF Printable
<1> QED
  BY <1>1, SeqMonotonic

\* BlobIsShownAsWritten for every file: a blob of agreed characters comes out of
\* SendBlobShortcut and HandleUsbOutput as it is written in the file, if EEPROM_0
\* has it, and one of EEPROM_1 does not come out at all.
THEOREM BlobsAreShownAsWritten == Spec => []BlobIsShownAsWritten
<1>1. Inv => BlobIsShownAsWritten
  <2> DEFINE text == TextOf("blob_shortcuts", output.index)
  <2> SUFFICES ASSUME Inv, at \in {"sent", "refused"},
                      \A k \in DOMAIN text : text[k] \in Agreed
               PROVE  output.text =
                        IF IsAnswered(output.index) THEN text ELSE <<>>
    BY DEF BlobIsShownAsWritten
  <2>1. /\ output \in Outputs
        /\ output.sent = 0 => output.text = <<>>
        /\ output.sent > 0 => IsAnswered(output.index)
        /\ at = "sent" => output.sent = Len(text) /\ output.sent > 0
        /\ at = "refused" =>
             output.sent = 0 /\ (Len(text) = 0 \/ ~IsAnswered(output.index))
        /\ Len(output.text) = output.sent
        /\ \A k \in 1..output.sent : output.text[k] = text[k]
    BY DEF Inv, OutputInv
  <2>2. text \in Texts
    <3>1. output.index \in 0..255
      BY <2>1, OutputFacts
    <3> QED
      BY <3>1, IsLoadedAtLast, BlobLengthIsRead
  <2>3. output.text \in Seq(Printable)
    BY <2>1, OutputFacts
  <2> HIDE DEF text
  <2>4. text \in Seq(Nat)
    BY <2>2, BytesAreNumbers DEF Texts
  <2>5. output.text \in Seq(Nat)
    BY <2>3, BytesAreNumbers
  <2>6. CASE at = "sent"
    BY <2>1, <2>4, <2>5, <2>6, SeqEqual
  <2>7. CASE at = "refused"
    <3>1. text # <<>> => Len(text) # 0
      BY <2>2, NoText
    <3> QED
      BY <2>1, <2>7, <3>1
  <2> QED
    BY <2>6, <2>7
<1>2. QED
  BY <1>1, InvHolds, PTL

\* OnlyBlob248Throws for every file: no entry Validate accepts lies outside its
\* buffer but a text for blob 248, one more than the 248 there are.
THEOREM OnlyBlob248EverThrows == Spec => []OnlyBlob248Throws
<1>1. Inv => OnlyBlob248Throws
  BY DEF Inv
<1>2. QED
  BY <1>1, InvHolds, PTL

=============================================================================
