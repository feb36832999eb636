--------------------------- MODULE ShortcutStore ---------------------------
(***************************************************************************)
(* What the threeboard promises about its shortcut storage, with no EEPROM *)
(* in sight: three tables (characters, words, blobs) whose operations are  *)
(* atomic, and a text sender that delivers a stored shortcut to the host   *)
(* key by key.  An operation that reports failure has changed nothing, and *)
(* a power loss at any moment leaves every shortcut as it was before or as *)
(* it is after the operation in progress.                                  *)
(*                                                                         *)
(* StorageController is shown to implement this specification.             *)
(***************************************************************************)
EXTENDS Naturals, Sequences

CONSTANTS
  Ids,         \* ids of the character and word shortcuts
  BlobIds,     \* ids of the blob shortcuts, a subset of Ids
  Characters,  \* key codes the user can store
  ModCodes,    \* modifier codes the user can store in a blob
  WordMods,    \* word modification codes the user can select
  MaxWordLen,  \* capacity of a word shortcut
  MaxBlobLen   \* capacity of a blob shortcut

VARIABLES
  chars,    \* chars[i]: the key code of character shortcut i, 0 when unset
  words,    \* words[i]: the sequence of key codes of word shortcut i
  blobs,    \* blobs[i]: the sequence of <<key code, modifiers>> of blob i
  sending,  \* the shortcut being typed to the host, or NotSending
  sent,     \* the keypresses the host has received in the last send
  result    \* the value the last finished operation returned

vars == <<chars, words, blobs, sending, sent, result>>

NotSending == [kind |-> "none", index |-> 0, modcode |-> 0]

(***************************************************************************)
(* The text a word shortcut stands for under a word modification code:     *)
(* 1 holds shift throughout, 2 on the first key, 3, 4 and 5 append a       *)
(* period, a comma and a hyphen, any other code types the word as stored.  *)
(***************************************************************************)
LeftShift == 2

Punctuation == [m \in 3..5 |-> CASE m = 3 -> 55 [] m = 4 -> 54 [] m = 5 -> 45]

TextLength(word, modcode) ==
  Len(word) + (IF modcode \in 3..5 THEN 1 ELSE 0)

WordText(word, modcode) ==
  [k \in 1..TextLength(word, modcode) |->
     IF k > Len(word)
       THEN <<Punctuation[modcode], 0>>
       ELSE <<word[k], IF modcode = 1 \/ (modcode = 2 /\ k = 1)
                         THEN LeftShift ELSE 0>>]

\* The keypresses the send in progress has to deliver.
Text ==
  IF sending.kind = "word"
    THEN WordText(words[sending.index], sending.modcode)
    ELSE blobs[sending.index]

Init ==
  /\ chars = [i \in Ids |-> 0]
  /\ words = [i \in Ids |-> <<>>]
  /\ blobs = [i \in BlobIds |-> <<>>]
  /\ sending = NotSending
  /\ sent = <<>>
  /\ result = "none"

SetCharacter(i, c) ==
  /\ sending = NotSending
  /\ chars' = [chars EXCEPT ![i] = c]
  /\ result' = "true"
  /\ UNCHANGED <<words, blobs, sending, sent>>

AppendToWord(i, c) ==
  /\ sending = NotSending
  /\ Len(words[i]) < MaxWordLen
  /\ words' = [words EXCEPT ![i] = Append(@, c)]
  /\ result' = "true"
  /\ UNCHANGED <<chars, blobs, sending, sent>>

ClearWord(i) ==
  /\ sending = NotSending
  /\ words' = [words EXCEPT ![i] = <<>>]
  /\ result' = "true"
  /\ UNCHANGED <<chars, blobs, sending, sent>>

AppendToBlob(i, c, m) ==
  /\ sending = NotSending
  /\ Len(blobs[i]) < MaxBlobLen
  /\ blobs' = [blobs EXCEPT ![i] = Append(@, <<c, m>>)]
  /\ result' = "true"
  /\ UNCHANGED <<chars, words, sending, sent>>

ClearBlob(i) ==
  /\ sending = NotSending
  /\ blobs' = [blobs EXCEPT ![i] = <<>>]
  /\ result' = "true"
  /\ UNCHANGED <<chars, words, sending, sent>>

\* An operation that reports failure leaves every shortcut alone.
Refuse ==
  /\ sending = NotSending
  /\ result' = "false"
  /\ UNCHANGED <<chars, words, blobs, sending, sent>>

BeginSend(kind, i, m) ==
  /\ sending = NotSending
  /\ sending' = [kind |-> kind, index |-> i, modcode |-> m]
  /\ sent' = <<>>
  /\ UNCHANGED <<chars, words, blobs, result>>

SendWord(i, m) == words[i] # <<>> /\ BeginSend("word", i, m)

SendBlob(i) == blobs[i] # <<>> /\ BeginSend("blob", i, 0)

DeliverNext == sent' = Append(sent, Text[Len(sent) + 1])

\* One more keypress reaches the host; success is reported with the last one.
Deliver ==
  /\ sending # NotSending
  /\ Len(sent) < Len(Text)
  /\ DeliverNext
  /\ IF Len(sent) + 1 = Len(Text)
       THEN sending' = NotSending /\ result' = "true"
       ELSE UNCHANGED <<sending, result>>
  /\ UNCHANGED <<chars, words, blobs>>

\* A send may fail part way, the keypress that failed delivered or not.
GiveUp ==
  /\ sending # NotSending
  /\ sent' = sent \/ (Len(sent) < Len(Text) /\ DeliverNext)
  /\ sending' = NotSending
  /\ result' = "false"
  /\ UNCHANGED <<chars, words, blobs>>

PowerLoss ==
  /\ sending' = NotSending
  /\ sent' = <<>>
  /\ result' = "none"
  /\ UNCHANGED <<chars, words, blobs>>

Next ==
  \/ \E i \in Ids, c \in Characters : SetCharacter(i, c) \/ AppendToWord(i, c)
  \/ \E i \in Ids : ClearWord(i)
  \/ \E i \in BlobIds, c \in Characters, m \in ModCodes : AppendToBlob(i, c, m)
  \/ \E i \in BlobIds : ClearBlob(i) \/ SendBlob(i)
  \/ \E i \in Ids, m \in WordMods : SendWord(i, m)
  \/ Refuse
  \/ Deliver
  \/ GiveUp
  \/ PowerLoss

Spec == Init /\ [][Next]_vars

=============================================================================
