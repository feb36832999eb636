\* One column; OFF and pulsing LEDs, which ON and BLINK look like to a scan.
CONSTANTS
  Columns = {"PROG"}
  PulseRange = 2
  BlinkRange = 1
  States = {"OFF", "PULSE"}
SPECIFICATION MirrorSpec
INVARIANTS StatusAndErrExclude OneRowAtATime FullRefreshIsEnough
PROPERTY NoGhosts
