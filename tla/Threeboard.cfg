\* All three keys, a short boot indicator and the shortest delay it allows.
CONSTANTS
  Keys = {"X", "Y", "Z"}
  UintRange = 3
  ConfigIterations = 1
  BootCounter = 0
  BootDelay = 4
SPECIFICATION FairSpec
INVARIANT BootIndicatorDoneFirst
PROPERTIES EventIsWholeCombo PendingEventIsHandled KeysLeftAloneComeToRest UnconfiguredBlinks
