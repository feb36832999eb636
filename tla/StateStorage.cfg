\* Every address is the real one.
CONSTANTS
  Files <- MCFiles
  SentBlobs = {0, 119, 120, 247}
SPECIFICATION Spec
INVARIANTS
  FirmwareReadsTheFile Eeprom1IsLaidOut BlobIsShownAsWritten OnlyBlob248Throws
CHECK_DEADLOCK FALSE
