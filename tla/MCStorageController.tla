------------------------ MODULE MCStorageController ------------------------
(***************************************************************************)
(* A storage layout scaled down to a few bytes, with the shape of the      *)
(* code's: word slots one byte longer than the longest word, blob ids on   *)
(* both sides of the device boundary, and ids beyond the last blob.        *)
(***************************************************************************)
EXTENDS StorageController

=============================================================================
