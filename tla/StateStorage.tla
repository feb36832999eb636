---------------------------- MODULE StateStorage ----------------------------
(***************************************************************************)
(* The simulator's state file (simulator/util/state_storage_impl.cpp): it  *)
(* is parsed, validated, and its shortcuts are written entry by entry to   *)
(* the three buffers that stand for the EEPROMs.  The firmware then reads  *)
(* with its StorageController those that are on the bus; the simulator     *)
(* puts only one external EEPROM there.  The addresses are in the code     *)
(* twice, once here and once in the firmware; this module has the          *)
(* simulator's, at their real values, and takes the firmware's from        *)
(* StorageController.                                                      *)
(*                                                                         *)
(* A file has, for each of three properties, a list of entries: the id the *)
(* key stands for (two keys may stand for the same one, "1" and "01") and  *)
(* its text, a sequence of ASCII codes.  JSON itself and values that are   *)
(* not strings are left out: they end the load with an error of their own. *)
(***************************************************************************)
EXTENDS UsbKeycodes

CONSTANTS
  Files,     \* files; NoJson is one that does not parse
  SentBlobs  \* ids of the blobs the user has the firmware send

NoJson == [none |-> <<>>]
Properties == {"character_shortcuts", "word_shortcuts", "blob_shortcuts"}
Entries == [index : Int, text : Seq(0..255)]

ASSUME FilesAssumption ==
  /\ \A file \in Files \ {NoJson} :
       /\ DOMAIN file \subseteq Properties
       /\ \A p \in DOMAIN file : file[p] \in Seq(Entries)
  /\ SentBlobs \subseteq 0..247

VARIABLES
  at,      \* the step of CreateFromFile, a loop of the constructor, or the end
  json,
  done,    \* entries the loop has stored
  bytes,   \* of each buffer those other than 0xFF, by address
  output   \* the blob sent last, how far, and what the simulator shows of it

vars == <<at, json, done, bytes, output>>

Init ==
  /\ at = "parse"
  /\ json \in Files
  /\ done = 0
  /\ bytes = [b \in {"internal_eeprom", "eeprom0", "eeprom1"} |->
               [a \in {} |-> 255]]
  /\ output = [index |-> 0, sent |-> 0, text |-> <<>>]
-----------------------------------------------------------------------------
(***************************************************************************)
(* Validate.                                                               *)
(***************************************************************************)
max_index == [character_shortcuts |-> 255, word_shortcuts |-> 255,
              blob_shortcuts |-> 248]
max_length == [character_shortcuts |-> 1, word_shortcuts |-> 15,
               blob_shortcuts |-> 255]

IsValidIgnoringLength ==
  \A p \in Properties :
    /\ p \in DOMAIN json
    /\ \A k \in DOMAIN json[p] : json[p][k].index \in 0..max_index[p]

IsValid ==
  \A p \in Properties :
    /\ p \in DOMAIN json
    /\ \A k \in DOMAIN json[p] :
         /\ json[p][k].index \in 0..max_index[p]
         /\ Len(json[p][k].text) <= max_length[p]

\* A file that does not parse is reported, and the simulator starts blank.
Parse ==
  /\ at = "parse"
  /\ IF json = NoJson
       THEN json' = [p \in Properties |-> <<>>] /\ at' = "characters"
       ELSE at' = "validate" /\ UNCHANGED json
  /\ UNCHANGED <<done, bytes, output>>

Validate ==
  /\ at = "validate"
  /\ at' = IF IsValid THEN "characters" ELSE "invalid"
  /\ UNCHANGED <<json, done, bytes, output>>
-----------------------------------------------------------------------------
(***************************************************************************)
(* The constructor: six loops, each over the entries of one property and   *)
(* with one of the buffers.  Later entries overwrite earlier ones.         *)
(***************************************************************************)
Property ==
  [characters |-> "character_shortcuts", word_lengths |-> "word_shortcuts",
   blob_lengths |-> "blob_shortcuts", words |-> "word_shortcuts",
   blobs0 |-> "blob_shortcuts", blobs1 |-> "blob_shortcuts"]

Buffer ==
  [characters |-> "internal_eeprom", word_lengths |-> "internal_eeprom",
   blob_lengths |-> "internal_eeprom", words |-> "eeprom0",
   blobs0 |-> "eeprom0", blobs1 |-> "eeprom1"]

NextLoop ==
  [characters |-> "word_lengths", word_lengths |-> "blob_lengths",
   blob_lengths |-> "words", words |-> "blobs0", blobs0 |-> "blobs1",
   blobs1 |-> "loaded"]

Size == [internal_eeprom |-> 1024, eeprom0 |-> 65535, eeprom1 |-> 65535]

\* Words are stored without modifiers.
WordCellsPacked(e) ==
  [a \in (e.index * 15)..(e.index * 15 + Len(e.text) - 1) |->
     ToUsbKeycodes(e.text[a - e.index * 15 + 1])[1]]

WordCells(e) ==
  [a \in (e.index * 16)..(e.index * 16 + Len(e.text) - 1) |->
     ToUsbKeycodes(e.text[a - e.index * 16 + 1])[1]]

\* The modifiers first.
BlobCellsSwapped(text, start) ==
  [a \in start..(start + 2 * Len(text) - 1) |->
     ToUsbKeycodes(text[(a - start) \div 2 + 1])[2 - ((a - start) % 2)]]

\* A key code and its modifiers for each character.
BlobCells(text, start) ==
  [a \in start..(start + 2 * Len(text) - 1) |->
     ToUsbKeycodes(text[(a - start) \div 2 + 1])[1 + ((a - start) % 2)]]

\* What a loop stores for an entry, and where.
Cells(loop, e) ==
  CASE loop = "characters" ->
         [a \in {e.index} |->
            IF e.text = <<>> THEN 0 ELSE ToUsbKeycodes(e.text[1])[1]]
    [] loop = "word_lengths" -> [a \in {256 + e.index} |-> Len(e.text)]
    [] loop = "blob_lengths" -> [a \in {512 + e.index} |-> Len(e.text)]
    [] loop = "words" -> WordCells(e)
    [] loop = "blobs0" ->
         BlobCells(IF e.index < 120 THEN e.text ELSE <<>>,
                   4096 + e.index * 512)
    [] loop = "blobs1" ->
         BlobCells(IF e.index >= 120 THEN e.text ELSE <<>>,
                   (e.index - 120) * 512)

\* The buffer with these cells, each stored less one.
Stored(buffer, cells) ==
  [a \in DOMAIN cells \cup DOMAIN buffer |->
     IF a \in DOMAIN cells THEN (cells[a] - 1) % 256 ELSE buffer[a]]

\* One entry.  at() throws for an address past the end of the buffer.
Configure ==
  /\ at \in DOMAIN Property
  /\ done < Len(json[Property[at]])
  /\ LET cells == Cells(at, json[Property[at]][done + 1]) IN
       IF \A a \in DOMAIN cells : a < Size[Buffer[at]]
         THEN /\ bytes' = [bytes EXCEPT ![Buffer[at]] = Stored(@, cells)]
              /\ done' = done + 1
              /\ UNCHANGED at
         ELSE at' = "terminated" /\ UNCHANGED <<done, bytes>>
  /\ UNCHANGED <<json, output>>

EndOfLoop ==
  /\ at \in DOMAIN Property
  /\ done = Len(json[Property[at]])
  /\ at' = NextLoop[at] /\ done' = 0
  /\ UNCHANGED <<json, bytes, output>>
-----------------------------------------------------------------------------
(***************************************************************************)
(* The firmware on these buffers, with the layout of its own.              *)
(***************************************************************************)
\* The external EEPROMs on the bus.  Nothing serves the buffer eeprom1: the
\* simulator constructs EEPROM_0 alone, and its EEPROM_1 would answer to address
\* 3 where the firmware writes to 1.
Attached == {0}

Byte(buffer, a) == IF a \in DOMAIN buffer THEN buffer[a] ELSE 255

Firmware ==
  INSTANCE StorageController WITH
    NumIds <- 256, kInternalEepromLayerGLengthStart <- 256,
    kInternalEepromLayerBLengthStart <- 512, kEeprom0LayerBStart <- 4096,
    kLayerBMaxIndex <- 247, kEeprom1LayerBStartShortcutId <- 120,
    WordSlot <- 16, BlobSlot <- 512, MaxWordLen <- 15, MaxBlobLen <- 255,
    InternalSize <- 1024, ExternalSize <- 65536,
    Characters <- {}, ModCodes <- {}, WordMods <- {},
    internal <- [a \in 0..1023 |-> Byte(bytes.internal_eeprom, a)],
    external <- [d \in Attached |-> [a \in 0..65535 |->
                   Byte(bytes.eeprom0, a)]],
    call <- 0, sent <- <<>>, result <- "none"

StoredWord(i) ==
  [k \in 1..Firmware!GetWordShortcutLength(i) |->
     Firmware!ReadExternal(0, Firmware!WordAddress(i, k - 1))]

\* The device with blob i acknowledges the firmware's reads.
IsAnswered(i) == Firmware!BlobDevice(i) \in Attached

\* The k-th keypress of blob i, counted from 0.
BlobKeypress(i, k) ==
  LET d == Firmware!BlobDevice(i)
      a == Firmware!BlobAddress(i, k)
  IN  <<Firmware!ReadExternal(d, a), Firmware!ReadExternal(d, a + 1)>>

StoredBlob(i) ==
  [k \in 1..Firmware!GetBlobShortcutLength(i) |-> BlobKeypress(i, k - 1)]

\* The length comes from the internal EEPROM, and the send of an empty blob fails.
SendBlobShortcut(i) ==
  /\ at = "loaded"
  /\ at' = IF Firmware!GetBlobShortcutLength(i) = 0 THEN "refused" ELSE "sending"
  /\ output' = [index |-> i, sent |-> 0, text |-> <<>>]
  /\ UNCHANGED <<json, done, bytes>>

\* The first read of a device that is not there ends the send.
ReadFails ==
  /\ at = "sending"
  /\ output.sent < Firmware!GetBlobShortcutLength(output.index)
  /\ ~IsAnswered(output.index)
  /\ at' = "refused"
  /\ UNCHANGED <<json, done, bytes, output>>

\* The simulated host shows a printable character and skips any other.
SendKeypress ==
  /\ at = "sending"
  /\ output.sent < Firmware!GetBlobShortcutLength(output.index)
  /\ IsAnswered(output.index)
  /\ LET keypress == BlobKeypress(output.index, output.sent)
         c == FromUsbKeycodes(keypress[1], keypress[2])
     IN  output' = [output EXCEPT
           !.sent = @ + 1,
           !.text = IF c \in Printable THEN Append(@, c) ELSE @]
  /\ UNCHANGED <<at, json, done, bytes>>

BlobIsSent ==
  /\ at = "sending"
  /\ output.sent = Firmware!GetBlobShortcutLength(output.index)
  /\ at' = "sent"
  /\ UNCHANGED <<json, done, bytes, output>>

Next ==
  \/ Parse \/ Validate \/ Configure \/ EndOfLoop
  \/ \E i \in SentBlobs : SendBlobShortcut(i)
  \/ ReadFails \/ SendKeypress \/ BlobIsSent

Spec == Init /\ [][Next]_vars
-----------------------------------------------------------------------------
(***************************************************************************)
(* Properties.                                                             *)
(***************************************************************************)
\* No later entry of p is for the same id as the k-th.
IsLast(p, k) ==
  \A j \in DOMAIN json[p] : j > k => json[p][j].index # json[p][k].index

\* The text of id i: that of the last entry for it, none if there is none.
TextOf(p, i) ==
  LET last == {k \in DOMAIN json[p] : json[p][k].index = i /\ IsLast(p, k)} IN
  IF last = {} THEN <<>> ELSE json[p][CHOOSE k \in last : TRUE].text

\* The firmware finds each shortcut of the file under its id and none under any
\* other, but for the contents of the blobs of EEPROM_1, of which it reads no more
\* than the lengths: the two copies of the layout agree, no entry spills into
\* another, and of two entries for one id nothing of the first is left to be read.
FirmwareReadsTheFile ==
  at = "loaded" =>
    /\ \A i \in 0..255 :
         LET text == TextOf("character_shortcuts", i) IN
         Firmware!ReadInternal(i) =
           IF text = <<>> THEN 0 ELSE ToUsbKeycodes(text[1])[1]
    /\ \A i \in 0..255 :
         LET text == TextOf("word_shortcuts", i) IN
         StoredWord(i) = [k \in DOMAIN text |-> ToUsbKeycodes(text[k])[1]]
    /\ \A i \in 0..247 :
         LET text == TextOf("blob_shortcuts", i) IN
         /\ Firmware!GetBlobShortcutLength(i) = Len(text)
         /\ IsAnswered(i) =>
              StoredBlob(i) = [k \in DOMAIN text |-> ToUsbKeycodes(text[k])]

\* A read of the buffer of EEPROM_1, were it on the bus.
ReadEeprom1(a) == Firmware!Decode(Byte(bytes.eeprom1, a))

\* The layouts agree on the other blobs too: the buffer for EEPROM_1 has each
\* keypress of theirs at the address the firmware would read it from.
Eeprom1IsLaidOut ==
  at = "loaded" =>
    \A i \in {j \in 0..247 : ~IsAnswered(j)} :
      LET text == TextOf("blob_shortcuts", i) IN
      \A k \in DOMAIN text :
        LET a == Firmware!BlobAddress(i, k - 1) IN
        <<ReadEeprom1(a), ReadEeprom1(a + 1)>> = ToUsbKeycodes(text[k])

\* The characters both conversions agree on: not the digits, which are one key
\* off, nor * ( ), nor punctuation the first does not know.
Agreed ==
  Lower \cup Upper \cup {32}
    \cup (DOMAIN PunctuationKeycode \ {42, 40, 41})

\* A blob of EEPROM_0 whose characters are agreed on is shown as it is written in
\* the file, letters in their case: load, storage, send and display together.  Of a
\* blob of EEPROM_1 nothing is shown, not even a part.
BlobIsShownAsWritten ==
  LET text == TextOf("blob_shortcuts", output.index) IN
  at \in {"sent", "refused"} /\ (\A k \in DOMAIN text : text[k] \in Agreed)
    => output.text = IF IsAnswered(output.index) THEN text ELSE <<>>

\* storage_controller.cpp:22-25 (firmware): EEPROM_1 stores the remainder of the
\* layer B shortcuts, so a blob the file has a text for can be sent.
EveryBlobIsSent ==
  at = "refused" => TextOf("blob_shortcuts", output.index) = <<>>

\* The load ends in an exception for a blob with id 248 only, which Validate
\* lets pass although there are 248 blobs counted from 0.
OnlyBlob248Throws ==
  at = "terminated" =>
    \E k \in DOMAIN json["blob_shortcuts"] :
      LET e == json["blob_shortcuts"][k] IN e.index = 248 /\ e.text # <<>>

\* state_storage_impl.cpp:25: a file that is not valid gets an error message.
ValidFilesLoad == at # "terminated"

=============================================================================
