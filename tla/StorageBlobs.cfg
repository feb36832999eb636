\* One blob on each side of the device boundary; the two words in front of it lie
\* where a misplaced blob keeps a character and a modcode, so overlaps show.  They
\* are sent as they are (0) and with each punctuation (3 to 5).
CONSTANTS
  NumIds = 2
  kInternalEepromLayerGLengthStart = 2
  kInternalEepromLayerBLengthStart = 4
  kEeprom0LayerBStart = 6
  kLayerBMaxIndex = 1
  kEeprom1LayerBStartShortcutId = 1
  WordSlot = 3
  BlobSlot = 6
  MaxWordLen = 1
  MaxBlobLen = 2
  InternalSize = 6
  ExternalSize = 12
  Characters = {5}
  ModCodes = {2}
  WordMods = {0, 3, 4, 5}
SPECIFICATION FairSpec
PROPERTIES ImplementsShortcutStore OperationsReturn
