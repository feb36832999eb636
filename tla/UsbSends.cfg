\* Every request of a host at any time, idle reports every frame or two.
CONSTANTS
  UintRange = 4
  kFrameTimeout = 2
  Keypresses <- OneKey
  Configurations = {0, 1}
  IdleConfigs = {0, 2}
  DefaultIdle = 2
  QuietHost = FALSE
SPECIFICATION Spec
INVARIANTS UndisturbedSendIsDelivered IdleCountBelowConfig EarlySendTimesOut
