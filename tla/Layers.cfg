\* Every keypress in every layer.  Bytes of one bit: every counter wraps, a word
\* and a blob of one entry are full, and id 1 is past the last blob.
CONSTANTS
  UintRange = 2
  BankLeds = 2
  LengthShift = 2
  MaxWordLen = 1
  MaxBlobLen = 1
  kLayerBMaxIndex = 0
  Used <- EveryKeypress
SPECIFICATION Spec
INVARIANTS ProgCharacterIsStored LedsShowState
PROPERTIES EditsOnlyInProg SendsAndStoresWhatIsShown
