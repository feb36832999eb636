\* ERR and STATUS only, with longer timers: blinking and pulsing.
CONSTANTS
  Columns = {}
  PulseRange = 4
  BlinkRange = 3
  States = {"OFF", "ON", "BLINK", "PULSE"}
SPECIFICATION FairSpec
PROPERTIES PulsesEnd BlinkingErrFlashes
