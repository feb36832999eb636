---------------------------- MODULE Enumeration ----------------------------
(***************************************************************************)
(* The control endpoint at the level of its packets, from power-on until   *)
(* HasConfigured() is true: a host that resets the bus, gives the device   *)
(* an address, reads descriptors and sets the configuration, against       *)
(* HandleEndpointInterrupt and the handlers of RequestHandler, which spin  *)
(* inside the interrupt until the host has taken their packets.            *)
(*                                                                         *)
(* From HasConfigured() on requests are UsbController's, which takes each  *)
(* handler for one step: nothing else runs on the CPU until it returns.    *)
(* The host is a patient one: it finishes a transfer unless the device has *)
(* nothing more to say.                                                    *)
(***************************************************************************)
EXTENDS UsbController

CONSTANTS
  DescriptorIds,  \* the ids a host asks for, some of them unknown
  Lengths,        \* the wLength values of its GET_DESCRIPTOR requests
  Addresses,      \* the addresses it may give the device
  Unsupported     \* requests it makes that the device has no handler for

ASSUME EnumerationAssumption ==
  /\ Lengths \subseteq Nat \ {0} /\ Addresses \subseteq 1..127
  /\ Configurations \cup IdleConfigs \subseteq 0..255  \* a byte of wValue each

VARIABLES
  host,      \* the transfer it is in, its bytes so far, the address it uses
             \* and whether it takes the device for configured
  setup,     \* the SETUP packet in the bank, RXSTPI (at most one)
  bank,      \* the IN packet in the bank, TXINI clear: its size (at most one)
  stall,     \* STALLRQ
  isr,       \* where HandleEndpointInterrupt is
  ep0,       \* the control endpoint is configured
  UDADDR,    \* the address register
  protocol   \* hid_state.protocol

control == <<host, setup, bank, stall, isr, ep0, UDADDR, protocol>>
allvars == <<vars, control>>

-----------------------------------------------------------------------------
(***************************************************************************)
(* The requests of USB and HID, and what is there to be read.              *)
(***************************************************************************)
\* Request codes.  HID and standard requests share some of them.
bRequest ==
  [GET_STATUS |-> 0, CLEAR_FEATURE |-> 1, SET_FEATURE |-> 3, SET_ADDRESS |-> 5,
   GET_DESCRIPTOR |-> 6, GET_CONFIGURATION |-> 8, SET_CONFIGURATION |-> 9,
   GET_INTERFACE |-> 10, SET_INTERFACE |-> 11, HID_GET_REPORT |-> 1,
   HID_GET_IDLE |-> 2, HID_GET_PROTOCOL |-> 3, HID_SET_IDLE |-> 10,
   HID_SET_PROTOCOL |-> 11]

HidRequests ==
  {"HID_GET_REPORT", "HID_GET_IDLE", "HID_GET_PROTOCOL", "HID_SET_IDLE",
   "HID_SET_PROTOCOL"}

\* The RequestType a host sends with each.
bmRequestType(name) ==
  [direction |-> IF name \in {"GET_STATUS", "GET_DESCRIPTOR",
                     "GET_CONFIGURATION", "GET_INTERFACE", "HID_GET_REPORT",
                     "HID_GET_IDLE", "HID_GET_PROTOCOL"}
                   THEN "DEVICE_TO_HOST" ELSE "HOST_TO_DEVICE",
   type |-> IF name \in HidRequests THEN "CLASS" ELSE "STANDARD",
   recipient |-> IF name \in HidRequests \cup {"GET_INTERFACE", "SET_INTERFACE"}
                   THEN "INTERFACE" ELSE "DEVICE"]

DescriptorType ==
  [DEVICE |-> 1, CONFIGURATION |-> 2, STRING |-> 3, HID |-> 33, HID_REPORT |-> 34]

DescriptorId(type, index) == DescriptorType[type] * 256 + index

\* The sizes of the descriptors.
device_descriptor == 18
hid_report == 63
supported_languages == 4
manufacturer == 30
product == 28

combined_descriptor ==
  [configuration |-> 9, interface |-> 9, hid |-> 9, endpoint |-> 7]

sizeof(d) == d.configuration + d.interface + d.hid + d.endpoint

\* The length of each descriptor, under its id.
descriptor_list ==
  {[id |-> DescriptorId("DEVICE", 0), length |-> device_descriptor],
   [id |-> DescriptorId("CONFIGURATION", 0),
    length |-> sizeof(combined_descriptor)],
   [id |-> DescriptorId("HID_REPORT", 0), length |-> hid_report],
   [id |-> DescriptorId("HID", 0), length |-> combined_descriptor.hid],
   [id |-> DescriptorId("STRING", 0), length |-> supported_languages],
   [id |-> DescriptorId("STRING", 1), length |-> manufacturer],
   [id |-> DescriptorId("STRING", 2), length |-> product]}

k32BytePacketSize == 32

\* The size of the reply a handler writes in one packet.
Replies ==
  [GET_STATUS |-> 1, GET_CONFIGURATION |-> 1, HID_GET_REPORT |-> 8,
   HID_GET_IDLE |-> 1, HID_GET_PROTOCOL |-> 1]

Request(name, value, length) ==
  [name |-> name, value |-> value, length |-> length]

Reads ==
  {Request("GET_DESCRIPTOR", id, l) : id \in DescriptorIds, l \in Lengths}
    \cup {Request(name, 0, Replies[name]) : name \in DOMAIN Replies}

\* A host gives an address only to a device that has none.
Writes ==
  {Request("SET_ADDRESS", a, 0) : a \in Addresses}
    \cup {Request("SET_CONFIGURATION", v, 0) : v \in Configurations}
    \cup {Request("HID_SET_IDLE", 256 * v, 0) : v \in IdleConfigs}
    \cup {Request("HID_SET_PROTOCOL", v, 0) : v \in {0, 1}}

Ignored == {Request(name, 0, 0) : name \in Unsupported}

NoRequest == Request("none", 0, 0)

AtRest == [stage |-> "idle", request |-> NoRequest, got |-> 0]
Detached == [transfer |-> AtRest, address |-> 0, configured |-> FALSE]
Returned == [at |-> "out", request |-> NoRequest, remaining |-> 0]

Unaddressed == [address |-> 0, ADDEN |-> FALSE]

EnumerationInit ==
  /\ Init
  /\ host = Detached /\ setup = <<>> /\ bank = <<>> /\ stall = FALSE
  /\ isr = Returned /\ ep0 = FALSE
  /\ UDADDR = Unaddressed /\ protocol = 1

\* The device answers at its address once ADDEN is set, and at zero before.
Answers ==
  /\ ep0
  /\ host.address = IF UDADDR.ADDEN THEN UDADDR.address ELSE 0
-----------------------------------------------------------------------------
(***************************************************************************)
(* HandleEndpointInterrupt and the handlers.                               *)
(***************************************************************************)
TXINI == bank = <<>>

Handlers ==
  DOMAIN Replies \cup {"GET_DESCRIPTOR", "SET_ADDRESS", "SET_CONFIGURATION",
                       "HID_SET_IDLE", "HID_SET_PROTOCOL"}

\* The handlers HandleEndpointInterrupt calls for a request: it goes by the code
\* alone, by code and direction, or for HID requests by the whole type.
CalledByCode(name) == {h \in Handlers : bRequest[h] = bRequest[name]}

CalledForDevice(name) ==
  {h \in CalledByCode(name) :
     /\ h \in {"GET_CONFIGURATION", "SET_CONFIGURATION"} \cup HidRequests =>
          bmRequestType(name).direction = bmRequestType(h).direction
     /\ h \in HidRequests => /\ bmRequestType(name).type = "CLASS"
                             /\ bmRequestType(name).recipient = "DEVICE"}

Called(name) ==
  {h \in CalledByCode(name) :
     /\ h \in {"GET_CONFIGURATION", "SET_CONFIGURATION"} \cup HidRequests =>
          bmRequestType(name).direction = bmRequestType(h).direction
     /\ h \in HidRequests => /\ bmRequestType(name).type = "CLASS"
                             /\ bmRequestType(name).recipient = "INTERFACE"}

ASSUME UnsupportedAssumption == \A name \in Unsupported : Called(name) = {}

\* What such a handler begins with; a code is that of one handler at most.
Handler(name) ==
  CASE Called(name) = {} -> "out"
    [] Called(name) # {} /\ name \in DOMAIN Replies -> "reply"
    [] Called(name) # {} /\ name = "GET_DESCRIPTOR" -> "descriptor"
    [] OTHER -> "handshake"

Lesser(a, b) == IF a < b THEN a ELSE b

\* The SETUP packet whose eight bytes are in the endpoint.
ParseFromUsbEndpoint == Head(setup)

\* The size of the descriptor a packet asks for, if there is one.
FindMatchingContainer(packet) ==
  {container.length :
     container \in {d \in descriptor_list : d.id = packet.value}}

\* The packet is read, endpoint 0 left selected and RXSTPI cleared.  A
\* descriptor that is not found stalls the endpoint; a request that has no
\* handler is left without an answer.
EnterEndpointInterrupt ==
  /\ setup # <<>> /\ isr = Returned
  /\ InterruptsEnabled /\ "EORSTI" \notin UDINT
  /\ LET packet == ParseFromUsbEndpoint
         at == Handler(packet.name)
         size == IF at = "descriptor" THEN FindMatchingContainer(packet) ELSE {0}
     IN /\ stall' = (size = {})
        /\ isr' = IF at = "out" \/ size = {} THEN Returned
                  ELSE [at |-> at, request |-> packet,
                        remaining |-> Lesser(Lesser(packet.length, 255),
                                             CHOOSE s \in size : TRUE)]
  /\ setup' = <<>>
  /\ OtherRequest
  /\ UNCHANGED <<host, bank, ep0, UDADDR, protocol>>

Reply ==
  /\ isr.at = "reply" /\ TXINI
  /\ bank' = <<Replies[isr.request.name]>>
  /\ isr' = Returned
  /\ UNCHANGED <<vars, host, setup, stall, ep0, UDADDR, protocol>>

\* One round of the loop of HandleGetDescriptor; a full packet is followed by
\* another, the last of them empty.
SendDescriptorPacketShort ==
  /\ isr.at = "descriptor" /\ TXINI
  /\ LET current == Lesser(isr.remaining, k32BytePacketSize - 1) IN
       /\ bank' = <<current>>
       /\ isr' = IF isr.remaining > current
                   THEN [isr EXCEPT !.remaining = @ - current]
                   ELSE Returned
  /\ UNCHANGED <<vars, host, setup, stall, ep0, UDADDR, protocol>>

SendDescriptorForEver ==
  /\ isr.at = "descriptor" /\ TXINI
  /\ LET current == Lesser(isr.remaining, k32BytePacketSize) IN
       /\ bank' = <<current>>
       /\ isr' = [isr EXCEPT !.remaining = @ - current]
  /\ UNCHANGED <<vars, host, setup, stall, ep0, UDADDR, protocol>>

SendDescriptorPacket ==
  /\ isr.at = "descriptor" /\ TXINI
  /\ LET current == Lesser(isr.remaining, k32BytePacketSize) IN
       /\ bank' = <<current>>
       /\ isr' = IF isr.remaining > current \/ current = k32BytePacketSize
                   THEN [isr EXCEPT !.remaining = @ - current]
                   ELSE Returned
  /\ UNCHANGED <<vars, host, setup, stall, ep0, UDADDR, protocol>>

\* The handlers that store something send the empty status packet first.
HandshakeTransmitterInterrupt ==
  /\ isr.at = "handshake"
  /\ bank' = <<0>>
  /\ isr' = [isr EXCEPT !.at = "store"]
  /\ UNCHANGED <<vars, host, setup, stall, ep0, UDADDR, protocol>>

Storing(name) == isr.at = "store" /\ isr.request.name = name

StoreConfigurationOnce ==
  /\ Storing("SET_CONFIGURATION")
  /\ IF isr.request.value % 256 = hid_state.configuration THEN UNCHANGED vars
     ELSE SetConfiguration(isr.request.value % 256)
  /\ isr' = Returned
  /\ UNCHANGED <<host, setup, bank, stall, ep0, UDADDR, protocol>>

StoreConfiguration ==
  /\ Storing("SET_CONFIGURATION")
  /\ SetConfiguration(isr.request.value % 256)
  /\ isr' = Returned
  /\ UNCHANGED <<host, setup, bank, stall, ep0, UDADDR, protocol>>

StoreIdle ==
  /\ Storing("HID_SET_IDLE")
  /\ SetIdle(isr.request.value \div 256)
  /\ isr' = Returned
  /\ UNCHANGED <<host, setup, bank, stall, ep0, UDADDR, protocol>>

StoreProtocol ==
  /\ Storing("HID_SET_PROTOCOL")
  /\ protocol' = isr.request.value
  /\ isr' = Returned
  /\ UNCHANGED <<vars, host, setup, bank, stall, ep0, UDADDR>>

\* Storing the address clears ADDEN.
StoreAddress ==
  /\ Storing("SET_ADDRESS")
  /\ UDADDR' = [address |-> isr.request.value, ADDEN |-> FALSE]
  /\ isr' = [isr EXCEPT !.at = "enable"]
  /\ UNCHANGED <<vars, host, setup, bank, stall, ep0, protocol>>

EnableAddressAtOnce ==
  /\ isr.at = "enable"
  /\ UDADDR' = [UDADDR EXCEPT !.ADDEN = TRUE]
  /\ isr' = Returned
  /\ UNCHANGED <<vars, host, setup, bank, stall, ep0, protocol>>

\* The new address is used once the host has taken the status packet, which it
\* asks for at the old one.
EnableAddress ==
  /\ isr.at = "enable" /\ TXINI
  /\ UDADDR' = [UDADDR EXCEPT !.ADDEN = TRUE]
  /\ isr' = Returned
  /\ UNCHANGED <<vars, host, setup, bank, stall, ep0, protocol>>

InHandler ==
  \/ Reply \/ SendDescriptorPacket \/ HandshakeTransmitterInterrupt
  \/ StoreConfiguration \/ StoreIdle \/ StoreProtocol
  \/ StoreAddress \/ EnableAddress
-----------------------------------------------------------------------------
(***************************************************************************)
(* The host and the bus.                                                   *)
(***************************************************************************)
\* A SETUP packet replaces what is in the bank, an empty packet nobody asked for
\* among it, and ends a stall.  A handler that waits for nothing is done by the
\* time the next one has been sent.
HostSetup(request) ==
  /\ pc = "boot" /\ isr = Returned
  /\ host.transfer = AtRest /\ setup = <<>> /\ Answers
  /\ request.name = "SET_ADDRESS" => host.address = 0
  /\ setup' = <<request>> /\ bank' = <<>> /\ stall' = FALSE
  /\ host' = [host EXCEPT !.transfer =
       [stage |-> IF request.length > 0 THEN "data" ELSE "status",
        request |-> request, got |-> 0]]
  /\ UNCHANGED <<vars, isr, ep0, UDADDR, protocol>>

Arrived == bank # <<>> /\ setup = <<>> /\ Answers

\* The data stage ends with a short packet or with all that was asked for.
HostTakesData ==
  /\ host.transfer.stage = "data" /\ Arrived
  /\ bank' = <<>>
  /\ LET got == host.transfer.got + Head(bank)
         last == \/ Head(bank) < k32BytePacketSize
                 \/ got = host.transfer.request.length
     IN host' = [host EXCEPT !.transfer = IF last THEN AtRest
                                          ELSE [@ EXCEPT !.got = got]]
  /\ UNCHANGED <<vars, setup, stall, isr, ep0, UDADDR, protocol>>

\* The status packet of a request that stores something: it is now done.
HostTakesStatus ==
  /\ host.transfer.stage = "status" /\ Arrived
  /\ bank' = <<>>
  /\ LET request == host.transfer.request IN
     host' = [transfer |-> AtRest,
              address |-> IF request.name = "SET_ADDRESS"
                            THEN request.value ELSE host.address,
              configured |-> IF request.name = "SET_CONFIGURATION"
                               THEN request.value = kConfigurationValue
                               ELSE host.configured]
  /\ UNCHANGED <<vars, setup, stall, isr, ep0, UDADDR, protocol>>

Silent ==
  /\ host.transfer # AtRest
  /\ setup = <<>> /\ bank = <<>> /\ ~stall /\ isr = Returned

\* A stall, or no answer, ends the transfer.
HostGivesUp ==
  /\ Silent \/ (stall /\ host.transfer # AtRest)
  /\ host' = [host EXCEPT !.transfer = AtRest]
  /\ UNCHANGED <<vars, setup, bank, stall, isr, ep0, UDADDR, protocol>>

\* A reset takes the address away and unconfigures the control endpoint; none
\* comes while a handler is in the middle of its work.
HostResetsBus ==
  /\ pc = "boot" /\ isr = Returned
  /\ BusReset
  /\ host' = Detached /\ setup' = <<>> /\ bank' = <<>> /\ stall' = FALSE
  /\ ep0' = FALSE /\ UDADDR' = Unaddressed
  /\ UNCHANGED <<isr, protocol>>

GeneralInterrupt(frame_error) ==
  /\ pc = "boot" /\ isr = Returned
  /\ HandleGeneralInterrupt(frame_error)
  /\ ep0' = (ep0 \/ "EORSTI" \in UDINT)
  /\ UNCHANGED <<host, setup, bank, stall, isr, UDADDR, protocol>>

\* The event loop begins between two transfers.  What only the control endpoint
\* looks at is forgotten: from now on requests are steps of UsbController.
BeginEventLoop ==
  /\ isr = Returned /\ setup = <<>> /\ host.transfer = AtRest
  /\ HasConfigured
  /\ host' = Detached /\ bank' = <<>> /\ stall' = FALSE
  /\ UDADDR' = Unaddressed /\ protocol' = 1 /\ ep0' = FALSE
  /\ UNCHANGED <<setup, isr>>

\* The event loop, with the steps of UsbController as they are.
EventLoop == pc # "boot" /\ Main /\ UNCHANGED control

GeneralInterruptInLoop(frame_error) ==
  pc # "boot" /\ HandleGeneralInterrupt(frame_error) /\ UNCHANGED control

Later ==
  /\ pc # "boot"
  /\ \/ \E keypress \in Keypresses : Press(keypress)
     \/ BusReset
     \/ HandleEndpointInterrupt
  /\ UNCHANGED control

HostControl == HostTakesData \/ HostTakesStatus \/ HostGivesUp

EnumerationNext ==
  \/ EnterEndpointInterrupt \/ InHandler
  \/ \E request \in Reads \cup Writes \cup Ignored : HostSetup(request)
  \/ HostControl
  \/ HostResetsBus
  \/ \E frame_error \in BOOLEAN :
       GeneralInterrupt(frame_error) \/ GeneralInterruptInLoop(frame_error)
  \/ BeginEventLoop \/ EventLoop \/ Later
  \/ FrameBegins /\ UNCHANGED control
  \/ HostReads /\ UNCHANGED control

\* The fairness of UsbController, interrupt handlers that go on, and a host that
\* finishes what it began.
EnumerationSpec ==
  /\ EnumerationInit /\ [][EnumerationNext]_allvars
  /\ WF_allvars(BeginEventLoop \/ EventLoop)
  /\ WF_allvars(FrameBegins /\ UNCHANGED control)
  /\ WF_allvars(HostReads /\ UNCHANGED control)
  /\ SF_allvars(GeneralInterrupt(FALSE) \/ GeneralInterruptInLoop(FALSE))
  /\ WF_allvars(EnterEndpointInterrupt) /\ WF_allvars(InHandler)
  /\ WF_allvars(HostControl)
-----------------------------------------------------------------------------
(***************************************************************************)
(* Properties.                                                             *)
(***************************************************************************)
\* What the device has to offer of what was asked for.
Expected(request) ==
  Lesser(request.length,
         IF request.name = "GET_DESCRIPTOR"
           THEN CHOOSE size \in FindMatchingContainer(request) : TRUE
           ELSE Replies[request.name])

\* A data stage the host ends has brought it the whole descriptor or as much of
\* it as it asked for, however many packets that took.
TransferIsWhole ==
  [][HostTakesData /\ host'.transfer = AtRest
     => host.transfer.got + Head(bank) = Expected(host.transfer.request)]_allvars

\* Whenever the device is not in the middle of a request, it answers at the
\* address the host uses for it.
AddressesAgree == isr = Returned /\ ep0 => Answers

\* Only a request the device has no handler for is left without an answer, or
\* without the rest of it.
EveryRequestIsAnswered == Silent => host.transfer.request \in Ignored

\* A host that has completed SET_CONFIGURATION, also after a reset, finds the
\* keyboard endpoint enabled.
ConfiguredIsEnabled == isr = Returned /\ host.configured => enabled

\* The endpoint interrupt handler, which shuts out all others, comes to its end.
HandlerReturns == [](isr # Returned => <>(isr = Returned))

=============================================================================
