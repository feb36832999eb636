\* From power-on through the enumeration, packet by packet; after it a host that
\* makes control requests only between two keypresses, and reads.
CONSTANTS
  UintRange = 4
  kFrameTimeout = 2
  Keypresses <- OneKey
  Configurations = {0, 1}
  IdleConfigs = {0, 2}
  DefaultIdle = 2
  QuietHost = TRUE
  DescriptorIds <- AskedFor
  Lengths = {8, 32, 255}
  Addresses = {5}
  Unsupported = {"GET_INTERFACE"}
SPECIFICATION EnumerationSpec
INVARIANTS AddressesAgree EveryRequestIsAnswered ConfiguredIsEnabled
PROPERTIES TransferIsWhole HandlerReturns HostComesToRest
