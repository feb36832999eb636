--------------------------- MODULE MCPropertyTest ---------------------------
(***************************************************************************)
(* Bytes 0 to 5, so that every word modification code is there.  As key    *)
(* codes they stand for no key, a letter, a digit, a hyphen, space and a   *)
(* key without a character; words and blobs are made of the first four.    *)
(* Blob 0 is in EEPROM_0 and blob 1 would be in EEPROM_1.                  *)
(***************************************************************************)
EXTENDS PropertyTest, TLC

MCKeycode == 0 :> 0 @@ 1 :> 4 @@ 2 :> 30 @@ 3 :> 45 @@ 4 :> 44 @@ 5 :> 200
MCMaxId == "DFLT" :> 0 @@ "R" :> 1 @@ "G" :> 1 @@ "B" :> 1
MCMaxEntries == 0 :> 2 @@ 1 :> 1
EveryKeypress == [l \in LayerId |-> Keypress]

=============================================================================
