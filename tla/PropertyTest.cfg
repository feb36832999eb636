\* Words of up to two entries, blobs of up to two and one; two ids in each layer.
CONSTANTS
  UintRange = 6
  BankLeds = 8
  LengthShift = 16
  MaxWordLen = 2
  MaxBlobLen = 2
  kLayerBMaxIndex = 1
  Used <- EveryKeypress
  Keycode <- MCKeycode
  MaxKey = 3
  MaxId <- MCMaxId
  MaxEntries <- MCMaxEntries
  kEeprom1LayerBStartShortcutId = 1
SPECIFICATION TestSpec
INVARIANT DeviceMatchesModel
