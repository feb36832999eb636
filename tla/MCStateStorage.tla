--------------------------- MODULE MCStateStorage ---------------------------
(***************************************************************************)
(* State files with up to two words and a character or a blob or two, at   *)
(* the ends of each range of ids and on both sides of the device boundary, *)
(* with texts of every class of characters, the longest ones allowed, and  *)
(* ones that are too long.                                                 *)
(***************************************************************************)
EXTENDS StateStorage

Text(length) == [k \in 1..length |-> 97 + (k % 26)]

EntriesOf(indices, texts) == [index : indices, text : texts]

Lists(entries) ==
  {<<>>} \cup {<<e>> : e \in entries} \cup {<<e, f>> : e, f \in entries}

Characters == EntriesOf({-1, 0, 255, 256}, {<<>>, <<33>>, <<48, 49>>})

Words == EntriesOf({0, 1, 255, 256}, {<<>>, <<65, 98>>, Text(15), Text(16)})

\* Agreed characters, digits and brackets, and one of each other class.
Blobs == EntriesOf({0, 119, 120, 247, 248, 249},
                 {<<>>, <<90, 32, 46, 95>>, <<55, 40>>, <<9, 47, 200>>})

MCFiles ==
  {NoJson, [word_shortcuts |-> <<>>, blob_shortcuts |-> <<>>]}
    \cup {[character_shortcuts |-> c, word_shortcuts |-> w,
           blob_shortcuts |-> b] :
            c \in {<<>>} \cup {<<e>> : e \in Characters},
            w \in {<<>>} \cup {<<e>> : e \in Words},
            b \in {<<>>} \cup {<<e>> : e \in Blobs}}
    \cup {[character_shortcuts |-> c, word_shortcuts |-> <<>>,
           blob_shortcuts |-> <<>>] : c \in Lists(Characters)}
    \cup {[character_shortcuts |-> <<>>, word_shortcuts |-> w,
           blob_shortcuts |-> <<>>] : w \in Lists(Words)}
    \cup {[character_shortcuts |-> <<>>, word_shortcuts |-> <<>>,
           blob_shortcuts |-> b] : b \in Lists(Blobs)}
    \cup {[character_shortcuts |-> <<>>, word_shortcuts |-> <<>>,
           blob_shortcuts |-> <<[index |-> i, text |-> Text(n)]>>] :
             i \in {119, 247}, n \in {255, 256}}

=============================================================================
