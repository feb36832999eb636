\* Two word shortcuts of two characters, two key codes (0 wraps in the encoding),
\* one blob of one entry and an id past it: full slots and ids without a blob are
\* refused.  Words are sent in capitals and capitalised, which differ from two
\* characters on; StorageBlobs has the other modification codes.
CONSTANTS
  NumIds = 2
  kInternalEepromLayerGLengthStart = 2
  kInternalEepromLayerBLengthStart = 4
  kEeprom0LayerBStart = 6
  kLayerBMaxIndex = 0
  kEeprom1LayerBStartShortcutId = 0
  WordSlot = 3
  BlobSlot = 4
  MaxWordLen = 2
  MaxBlobLen = 1
  InternalSize = 6
  ExternalSize = 8
  Characters = {0, 9}
  ModCodes = {2}
  WordMods = {1, 2}
SPECIFICATION Spec
INVARIANT LengthsFitSlots
PROPERTY ImplementsShortcutStore
