\* One key, input in three frames, two characters.
CONSTANTS
  Keys = {"a"}
  kKeyHoldTime = 2
  MaxTyped = 3
  MaxPresses = 2
  Banks = 2
SPECIFICATION Spec
INVARIANTS PinsFollowKeys OutputInOrder NoThreadSurvives
PROPERTIES BufferedOutputIsShown QuitEnds
CHECK_DEADLOCK FALSE
