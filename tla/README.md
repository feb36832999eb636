# Verification of the threeboard firmware

TLA+ models of the threeboard firmware (`src/firmware/src`), of the simulator
it is developed with (`src/firmware/simulator`) and of the property test that
compares the two (`src/firmware/integration`), checked with TLC on small
instances. The safety properties that pass are also proved with TLAPS, for
all values of the constants; what only TLC checks is liveness.

The firmware is a single-threaded event loop on an ATmega32U4 with four
interrupt handlers. What makes it hard is not its size but where things meet:
interrupts that change the state of a main program which believes itself
alone, three storage devices that can fail or lose power between two bytes,
LEDs and bytes that have to agree after every early return, and 8-bit counters
that wrap. The simulator adds three threads that share a device, and its own
copies of what the firmware knows: the layout of the EEPROMs, the key codes, the
wiring of the LEDs and the behaviour of the layers.

- [Inventory](#inventory)
- [Modules](#modules)
- [Runs](#runs)
- [Proofs](#proofs)
- [Statements the code does not keep](#statements-the-code-does-not-keep)
- [What is not modelled](#what-is-not-modelled)
- [Plan](#plan)

## Inventory

| Component | Source | State | Operations |
| --- | --- | --- | --- |
| Event loop | `threeboard.cpp`, `event_buffer.h` | boot indicator, the one-place event buffer | USB set-up, configuration, boot indicator, one iteration: handle an event or sleep |
| Key controller | `key_controller.cpp` | `key_mask_`: keys down, keys released since | `PollKeyState` every 5ms |
| LED controller | `led_controller.cpp`, `led_state.h` | LED states with pulse timers, blink counter, scan line, the port pins | setters, `ScanNextLine` every 2ms, `UpdateBlinkStatus` every 5ms |
| Layers | `layers/` | bytes and `prog_` of each layer, `current_layer_` | `HandleEvent` for seven keypresses, `TransitionedToLayer` |
| Storage | `storage/storage_controller.cpp` | three EEPROMs | set, append, clear, length and send for characters, words and blobs |
| EEPROM drivers | `storage/internal/` | the TWI bus | `ReadByte`, `WriteByte` |
| USB controller | `usb/usb_controller_impl.cpp`, `hid_state.h` | `HidState`, the selected endpoint, the FIFO of the keyboard endpoint | `SendKeypress`, the general and the endpoint interrupt |
| USB request handler | `usb/internal/`, `usb/shared/` | the control endpoint, the address, the descriptors | one handler for each request |
| Native layer | `native/`, `main.c`, `bootstrap.cpp` | registers | interrupt service routines |
| Simulator components | `simulator/simulator.cpp`, `components/` | simulated EEPROM, device state (LEDs, typed text), attachment of the host | three threads: UI, MCU, USB host |
| State storage | `simulator/util/state_storage_impl.cpp` | the bytes of three EEPROMs | parse, validate and load a state file |
| UI | `simulator/ui/`, `main.cpp` | frames until each key goes up | twenty frames a second, quit |
| Integration tests | `integration/` | a model of the layers | apply a keypress to model and device, compare |

How they interact. The event loop calls the current layer with interrupts
disabled; the layer calls the storage, which calls the USB controller, or calls
the USB controller itself, and writes the LED state. Timer 3 interrupts the main
program, polls the keys and calls `EventBuffer::HandleKeypress`, which leaves
the event for the loop; it also advances the boot indicator, which writes the
LED state. Timer 1 interrupts it to copy the LED state to the pins. The two USB
interrupts share `HidState`, the register `UENUM` and the keyboard endpoint
with `SendKeypress`, the one place where a handler of an event lets interrupts
in.

In the simulator the MCU runs on a thread of its own. Its writes to the I2C bus,
to the ports and to the UART are callbacks on that thread, which end in the
simulated EEPROM, in the device state and, under the screen mutex, in the UI.
The UI thread sets the key pins, and takes the typed text that a third thread,
started when the device attaches to USB, polls from the endpoint and appends.

What has to hold, component by component:

- *Storage.* An operation happens entirely or not at all, whatever device fails
  and whenever the power goes; slots do not overlap; a send types the stored
  text or a prefix of it.
- *EEPROM drivers.* A byte read is the byte last written there, also after an
  access that failed half way; an access of a missing device fails.
- *Layers.* A shortcut changes only in PROG mode and only the selected one; the
  LEDs show the bytes after every event; what is sent or stored is what was
  shown.
- *Event loop and keys.* An event is a whole combo; a pending one is handled;
  the board comes to rest; the boot indicator is over before the layers use its
  LEDs.
- *USB.* The host gets whole descriptors, finds the device at the address it
  gave it and the endpoint enabled once it has configured it; the interrupt
  handler returns if the host goes on taking packets; a keypress that is
  reported as sent was delivered, the send gives up in time, and no key is left
  stuck at the host.
- *LED controller.* No two rows and no two antiparallel LEDs are driven
  together, no LED flashes for another row, pulses end and blinking LEDs blink.
- *Simulator.* The firmware finds the shortcuts of the state file and types them
  as written there, as far as the simulator has the EEPROM they are in; the
  simulated LEDs show what the state asks for; keys go up again; typed text is
  shown in order and no character twice; quitting ends every thread.
- *Integration tests.* Model and firmware agree, for every sequence of
  keypresses and not only for random ones, and where they do not is known.

Not all of it holds: [Statements the code does not
keep](#statements-the-code-does-not-keep) has what does not. Two of these concern
the simulator's promises above. It puts only one of the two external EEPROMs on the
bus, so no blob from id 120 on can be stored or sent there. And a character that
the USB host appends while the UI thread takes the typed text is lost.

`PROJECT.json` lists the hazards behind these, each at its line.

## Modules

| Module | Models | Checked by | Proved in |
| --- | --- | --- | --- |
| `ShortcutStore` | what the storage promises: shortcuts that change at once | | |
| `StorageController` | `storage_controller.cpp` over bytes of three EEPROMs | `MCStorageController` | `StorageProofs` |
| `Eeprom` | what an EEPROM driver promises | | |
| `I2cEeprom` | the I2C driver and the simulated EEPROM on one bus | `MCI2cEeprom` | `I2cEepromProofs` |
| `Layers` | the four layers, the layer controller, the error indication | `MCLayers` | `LayersProofs` |
| `Threeboard` | the event loop, the key controller, the event buffer, Timer 3 | `MCThreeboard` | `ThreeboardProofs` |
| `UsbController` | `SendKeypress`, the USB interrupts, the HID requests | `MCUsbController` | `UsbProofs` |
| `Enumeration` | the control endpoint and the request handler, on top of `UsbController` | `MCEnumeration` | `UsbProofs` |
| `LedController` | the LED state, the scan, blinking and pulses | `MCLedController` | `LedProofs` |
| `LedMirror` | the LEDs as the simulator sees them, on top of `LedController` | itself | `LedProofs` |
| `UsbKeycodes` | characters to key codes and back | with the next | with the next |
| `StateStorage` | loading a state file, read back by the firmware | `MCStateStorage` | `StateStorageProofs` |
| `Simulator` | the threads of the simulator program | itself | `SimulatorProofs` |
| `ThreeboardModel` | the layer models of the integration tests | with the next | with the next |
| `PropertyTest` | the property test, on top of `Layers` | `MCPropertyTest` | `LayersProofs` |

### ShortcutStore and StorageController

`ShortcutStore` holds three tables: a character, a word and a blob per id. An
operation changes one entry in one step, or returns "false" and changes
nothing; a send begins, types one keypress after the other, and ends.

`StorageController` is the code. `internal` and `external` are the bytes of the
devices, stored minus one as the drivers do (`Encode`, `Decode`). `call` is the
stack frame of the one operation in progress: each access to a device is a step
that succeeds or fails, a failed write may have been stored, and `PowerLoss`
may come before any of them. The constants of the layout are CONSTANTS;
`LayoutIsSound` says what they must satisfy, and `CodeLayoutIsSound` proves
that those of the code do. Addresses are computed modulo the size of the
device: the products leave the range of a 16-bit int on the MCU, and the build
computes them modulo 2^16. Reads and writes of the internal EEPROM do not fail,
as in `internal_eeprom.cpp`; a write of one of its bytes is atomic.

`ImplementsShortcutStore` is the refinement: the tables are what `internal` and
`external` stand for. It says in one formula that an append becomes visible
with the length byte and not before, that a failed or interrupted operation
changed no shortcut, that no operation disturbs another shortcut, and that a
send types what is stored.

### Layers

Each layer's `HandleEvent` is one action: the edit of its bytes, the call it
makes, the LEDs it redraws, or the early return that leaves them. Storage
appears as `ShortcutStore` promises it, abstracted to what the layers look at:
characters and lengths. `request` is the call the last event made. `Used`
restricts a run to keypresses of some layers.

### Threeboard

`pc` is the position of the main program; a handler is one step between two of
its steps, at any position with interrupts enabled. `combo` is a history
variable: the keys the polls have seen down since the last event. An event is
handled in steps, because `SendKeypress` enables interrupts while it polls the
endpoint ("sending"). `EnableInterrupts` and `SleepCpu` are two steps: they are
two calls of virtual functions of another translation unit, so the one
instruction that the MCU executes after `sei` before it takes an interrupt is not
the sleep.

### UsbController

`pc` is the position of `SendKeypress`, with a step for each access to what the
handlers share; a handler is one step. The endpoint is the hardware as the code
uses it: two banks, bytes written to UEDATX go to the bank of the selected
endpoint if it has room, and a write to UEINTX hands the bank over. A report is
two bytes, modifiers and key, instead of eight: the others are always zero, and
two are enough for a report to be cut in half. `waited`, `delivered` and
`disturbed` are history variables.

Frames begin at least one round of the polling loop apart: at 16MHz a round is far
below a millisecond. The exception is left out: a handler that the loop lets in and
that waits in `AwaitTransmitterReady` (`request_handler.cpp:14`) for a slow host
may last several frames. `EarlySendTimesOut` does not count these; the loop looks
at the frame number next when the handler has returned.

A request is one step here. That is an argument and not a checked claim: a handler
runs with all other interrupts disabled and `SendKeypress` does not run beside it,
so nothing on the CPU sees it half way. The host and the clock can; `Enumeration`
has the packets, but only before the event loop begins.

### Enumeration

Extends `UsbController` with the control endpoint, packet by packet, from
power-on to the event loop. The host is a transfer at a time: a SETUP packet,
the packets of a data or a status stage, a reset of the bus whenever it likes.
`isr` is the position of `HandleEndpointInterrupt`, which holds the request it
works on and the bytes of a descriptor that remain to be sent; it waits for
TXINI where the code does. Descriptors are their lengths, which are computed
from the tables of `descriptors.h`. `Called` is the dispatch by code, direction,
type and recipient.

What bounds this model: the host is patient (it ends a transfer without an
answer only if none can come, and under `EnumerationSpec` goes on taking
packets; one that stops leaves the handler in `AwaitTransmitterReady` for ever,
and `HandlerReturns` does not speak of it); it resets the bus only while no
handler is at work, and sends the next SETUP packet once the last handler has
returned; it gives an address only to a device at address zero; after the event
loop has begun, requests are the one-step ones of `UsbController`, so no packet
of a control transfer meets a send in any run. UDINT is read and cleared in one
step. The empty packet that follows a full one which happens to be the last the
host asked for stays in the bank until the next SETUP packet flushes it.

### LedController and LedMirror

Each write of `WriteStateToPins` to a port is a step, because a LED follows its
pins at once; `rows`, `lows`, `statusPin` and `errPin` are the pins. The setters
run between two scans. `Timer1Period` and `Timer3Period` are the 2ms and 5ms of
the two timers in cycles: two or three scans between two polls of the blink
timer.

`LedMirror` adds `device_state`, which the simulator derives from the writes to
ports B and D. `RunUntilFullLedRefresh` stops where the fifth scan begins; the
fifth ends because the property test then runs on to the next iteration of the
event loop (`property_test.cpp:79`) before it looks at the LEDs, so
`FullRefreshIsEnough` is about five whole scans. `device_state` is updated
inside such a write: from the row pin just written, from the columns as they are
at that moment, and, for STATUS and ERR, from ports that still hold what was
stored before.

### Eeprom and I2cEeprom

`Eeprom` is the interface: a request, the byte taken or not, a reply.
`I2cEeprom` is the driver of the firmware and, at the other end of the bus, the
simulated EEPROM; each message is a step. Only one of the two devices exists in
the simulator. Which device is there and how it acknowledges is fixed for a
behaviour; accesses of the present and of the missing device follow each other
in any order, but a device that fails in the middle of one access and works in
the next is in `StorageController` only, as a step that fails. A failed write
leaves the bus without a STOP, in the middle of whatever the device was doing.
`dataAck` is the status code the TWI module has for an acknowledged data byte:
the code compares with the one for an address byte, simavr reports that one, and
the data sheet has another, so both are initial states.

The OR that puts the two bytes of an address together is the constant `BitOr`. The
run gives it the bitwise OR; `BusAssumption` has the two facts about it that the
device relies on: ORing to zero changes nothing, and ORing a high byte and a low
one is adding them.

`ImplementsEeprom` is the refinement; what `StorageController` assumes of a device
access (it succeeds, or it fails with the byte stored or not) is what `Eeprom`
allows.

### UsbKeycodes and StateStorage

`UsbKeycodes` has the two conversions between ASCII characters and key codes, as
functions over all codes. `StateStorage` loads a file: parse, validate, then the
six loops of the constructor, with a step for each entry and the addresses of
`state_storage_impl.cpp` at their real values. Then the user has the firmware
send one blob, keypress by keypress, to the simulated host, which shows what it
can. What the firmware reads is taken from `StorageController` by INSTANCE, with
the constants of `storage_controller.cpp`, so the two copies of the layout meet.

Only EEPROM_0 is on the bus (`Attached`): the constructor of `Simulator` makes no
other (`simulator.cpp:63`), and the simulator's address of EEPROM_1 is 3
(`components/i2c_eeprom.h:20`) where the firmware's is 1
(`internal/i2c_eeprom.h:15`). The buffer loaded for EEPROM_1 is read by nobody, and
`SendBlobShortcut` fails at its first read for ids from 120 (`ReadFails`).
`FirmwareReadsTheFile` has the contents of the blobs of EEPROM_0 and the lengths of
all, `BlobIsShownAsWritten` says that of the others nothing is shown, and
`Eeprom1IsLaidOut` that the buffer nobody reads has the firmware's layout.

### Simulator

Three threads, `ui`, `sim` and `host`, with a step for each access to shared
state; a frame holds the screen mutex from its first step to its last, and
destruction at the end is a sequence of steps of the UI thread. The firmware is
external: it takes a configuration, sends reports and writes logs, and it never
detaches, so the branch of `InternalUsbAttachCallback` for that is left out. The
typed text is copied and cleared in two steps. The language gives no meaning to
the unsynchronised accesses; the model has the interleavings of the steps as
written.

### ThreeboardModel and PropertyTest

`ThreeboardModel` is `integration/model`: the four layer models as functions of
a record. `PropertyTest` extends `Layers` with stored words and blobs and with
the text the simulator shows, and makes every keypress on both. `focus`
restricts a behaviour to one layer; the others are passed through. The device is
the one the simulator is: nothing breaks, but there is no EEPROM_1, so from its
first blob on (`OnEeprom1`) every append is refused, where the model appends,
and every send types nothing. The random test hardly gets to such a blob: X adds
one to the id, and XZ, as likely, clears it.

## Runs

Twelve runs; every constant of a run is in its `.cfg`.

| Run | Shows | Bounds | Distinct states |
| --- | --- | --- | --- |
| `StorageWords` | lengths fit their slots; words and characters implement the store; full slots and ids without a blob are refused | two words of up to two characters out of two codes, sent in capitals and capitalised; one blob of one entry, and id 1 without a blob | 627,840 |
| `StorageBlobs` | blobs implement the store; every operation returns | two blobs of up to two keypresses on the two sides of the device boundary, words of one character in front of them, sent as they are and with each punctuation | 318,708 |
| `Layers` | PROG mode, LEDs, edits, what is sent | bytes of one bit, two LEDs per bank, every keypress in every layer | 2,418,688 |
| `Threeboard` | combos, boot indicator, all liveness | three keys, a boot indicator of one poll per LED and the shortest delay that `DelayAssumption` allows | 383,184 |
| `UsbSends` | sends against everything the bus and the host do | one keypress, frame numbers of two bits, a timeout of two frames, idle reports off or every second frame | 4,715,130 |
| `UsbLive` | control transfers are whole and each request with a handler is answered; the handler returns if the host takes its packets; the host ends up with no key held | descriptors of one packet, of two and of none, asked for with lengths that end within the first packet, at its end and after the second; control requests between keypresses only | 439,898 |
| `LedRows` | what is powered after each write to a port; five scans show the state | one column, ERR and STATUS, each OFF or pulsing for two scans | 11,728,640 |
| `LedTimers` | pulses end, blinking LEDs blink | ERR and STATUS, pulses of four scans, blinking with a half-period of three polls | 37,780 |
| `I2cEeprom` | driver and device implement `Eeprom`; an access succeeds exactly if the device is there | offsets that share no bit and that share one in each byte, values whose encodings wrap, a missing device, both status codes | 6,921 |
| `StateStorage` | the firmware reads what the file has for the EEPROMs on the bus, and types it as written | the real layout; ids at both ends of every range and on both sides of the device boundary, texts of every class of characters, the longest allowed and longer ones, two texts for one id | 44,793 |
| `Simulator` | keys, shown text, and the end of the program | one key, input in three frames of up to two characters each, two characters typed by the firmware | 153,547 |
| `PropertyTest` | the firmware and the model of the tests agree, with three exceptions | bytes up to 5, which is every word modification code; two words of up to two entries, a blob of up to two in EEPROM_0 and one of one for EEPROM_1, out of no key, a letter, a digit and a hyphen | 1,721,916 |

Why the bounds are enough. Every counter of a run wraps and every slot fills.
The storage treats all ids alike but for the boundary between the devices, the
last blob and the neighbour in front, which the layouts of the runs contain. Of
the word modification codes the two that shift differ only on words of two
characters, which `StorageWords` has; `StorageBlobs` has the others. The layers
treat all values of a byte alike but for zero, wrapping and the last blob. A
combo of three keys is all there is. In the USB runs a send may start on either
side of the point from which the wrapped difference never reaches the timeout,
and a report may be cut in half. A descriptor differs from another by its length
modulo the packet size only. A scan tells two states of a LED apart, lit or not,
and OFF and PULSE are both; `LedTimers` and the proofs have all four. The
address bits of the I2C device are ORed, so what matters is whether two offsets
share them.

Deadlock is checked in every run but two: a state file is loaded once and a blob
of it sent once (`StateStorage`), and the simulator ends (`Simulator`).

Fairness, and why the code justifies it:

- `StorageController!FairSpec`: the CPU executes the operation in progress.
- `Threeboard!FairSpec`: the main program runs when no handler does (weak
  fairness); a match of Timer 3 stays latched in its flag while interrupts are
  disabled, so its handler runs if interrupts are enabled again and again
  (strong fairness); and `HandleEvent` returns, because every send ends.
  Nothing is assumed of the keys, the host, or the PLL: the liveness properties
  say "if the keys are left alone" and "if the host does not configure".
  `HandleEvent` returning is an assumption about the storage and the USB
  controller: `OperationsReturn` shows it for the storage, and a send returns
  if the host reads or the timeout works (see `SendTimesOut` below).
- `Enumeration!EnumerationSpec`: `SendKeypress` runs, frames keep coming, the
  host reads the endpoint, a pending USB interrupt is taken if interrupts are
  enabled again and again, and so is one with an intact frame number; a handler
  goes on while it has something to do, and a host ends the transfer it has
  begun. Whether the host begins another, or resets the bus, is open. That a host
  takes the packets of a transfer it has begun is an assumption about the host, not
  something the code sees to: `HandlerReturns` shows that the handler needs no more.
- `LedController!FairSpec`: the timers run.
- `I2cEeprom!Spec`: the TWI module completes every message. The driver spins on
  its flag without a timeout, so without this nothing returns.
- `Simulator!Spec`: the operating system runs every thread that can run. The
  user and the firmware may do nothing.

Each property of a run has a mutant in `PROJECT.json`: the model with
one definition changed as a plausible slip in the code would change it (a guard
dropped, an encoding that does not wrap, a port written in part, a counter not
reset), under which TLC finds the property violated. The mutated definitions
stand beside the true ones in the modules.

The modules also define invariants that no run has, because a theorem holds them:
`TypeOK` of `StorageController`, `Layers`, `Threeboard`, `UsbController` and
`LedController`, `MaskIsCombo` and `OnlyCurrentLayerProgs`.

## Proofs

TLAPS proves these for every value of the constants that satisfies the named
assumptions (`LayoutAssumption`, `InputAssumption`, `RangeAssumption`,
`BoundsAssumption`, `DelayAssumption`, `UsbAssumption`, `EnumerationAssumption`,
`UnsupportedAssumption`, `LedAssumption`, `SimulatorAssumption`,
`PropertyTestAssumption`, `FilesAssumption`, `BusAssumption`).

- **StorageProofs.** `TypeOK` and `LengthsFitSlots`. The latter contains its own
  strengthening: an append in progress still sees the length it read, so the
  length it writes is at most the slot's. `CodeLayoutIsSound`: the constants of
  `storage_controller.cpp` satisfy the assumption.
- **StorageProofs, the refinement.** `Spec => ImplementsShortcutStore`. The
  lemmas show that addresses of different shortcuts are different for every
  sound layout (words against words, words against blobs, blobs against blobs,
  on both devices, with the modulo), hence that a byte written past the visible
  length changes no stored shortcut and that the write of the length makes
  exactly one entry visible. Each action then maps to a step of the store or to
  a stutter.
- **LayersProofs.** The inductive invariant is `TypeOK` with "only the current
  layer programs", "the character being programmed is the stored one" and "the
  LEDs show the state". They need each other: what a layer shows when it is
  entered, with bytes meant for the other mode, is right only because no layer is
  entered in PROG mode. `EditsOnlyInProg` and `SendsAndStoresWhatIsShown`
  follow, step by step.
- **LayersProofs, the property test.** `DeviceMatchesModel`, for every width of
  a byte, every table of key codes and shortcuts of any length. The invariant
  says that the model is a function of the state of the device (`ModelOf`),
  whatever its last output, and that the lengths the device reads are those of
  the stored texts. A keypress is followed in each layer and mode, on both
  sides. The lemmas before it are about the two ways from a stored key code to a
  typed character: the device sends keys with modifiers and the host converts
  them, the model converts first and capitalises or appends afterwards
  (`ShiftIsToupper`, `WordIsTyped`, `OutputOfCalls`). Two of the exceptions of
  the property are where these lemmas need a hypothesis. The third is EEPROM_1,
  at any boundary: its blobs stay empty on the device whatever the model appends
  (`BlobsMatch`, `BlobsStayMatched`), so the LEDs are those of a model without
  them. The user stays within `MaxId`, `MaxKey` and `MaxEntries`: the model is
  undefined for a blob beyond the last, and the two disagree about a full one.
- **ThreeboardProofs.** The key mask is the combo (`MaskIsCombo`) and an event
  is a whole combo (`EventIsWholeCombo`), for any set of keys. The boot
  indicator is over before the loop starts (`BootIndicatorDoneFirst`): the
  invariant relates the polls the indicator still needs to the polls of the
  delay that are left, and `DelayAssumption`, 3 * 13 + 1 <= 51 in the code, says
  there are enough.
- **UsbProofs.** `TypeOK`, `IdleCountBelowConfig`, `EarlySendTimesOut` and
  `UndisturbedSendIsDelivered`, against interrupts at every position of
  `SendKeypress`. For the timeout, the invariant ties the frames waited to the
  distance of the two frame numbers while the send polls, and says that the loop
  goes round in the last frame it may use. For the delivery, it says, as long as
  nothing disturbed the send, what the bank holds at each position of
  `SendHidState`, that it has room and stays selected, and which of the two
  reports it is. `Requested` and `Interrupted` bound what the two handlers can do
  to it. A timeout below the range of the frame number is assumed
  (`UsbAssumption`; 50 < 256 in the code).
- **LedProofs.** `OneRowAtATime`, `StatusAndErrExclude` and `NoGhosts`. The
  invariant says, for each position of the scan, which rows and columns may
  still be driven, and ties the status pins to the scan line that follows.
- **LedProofs, the simulator's LEDs.** `FullRefreshIsEnough`: after `n` lines of
  the scan since the state was set, the last `n` rows are shown as asked
  (`ScannedInv`). That a row stays as it was while the others are scanned needs
  to know which row can still be powered (`PoweredInv`), what the columns of
  row 4 hold while it is looked at once more (`ColumnPinsInv`), and what STATUS
  and ERR were last driven to (`StatusPinsInv`).
- **UsbProofs, the control endpoint.** `AddressesAgree`,
  `EveryRequestIsAnswered`, `ConfiguredIsEnabled` and `TransferIsWhole`. The
  invariant (`ControlInv`) relates the transfer of the host, the bank and the
  position of the interrupt handler: in a data stage the bytes the host has, the
  bytes in the bank and the bytes still to be sent are together what was asked
  for; in a status stage the status packet is sent before the request is carried
  out; and while SET_ADDRESS is carried out, host and device may disagree about
  the address.
- **SimulatorProofs.** `PinsFollowKeys`, `NoThreadSurvives` and `OutputInOrder`.
  The last follows a character from the firmware over the endpoint, the host's
  report and the two buffers to the screen: each stage is behind the one before
  it, for each position of the two threads. Nothing is assumed of the order in
  which the threads run.
- **I2cEepromProofs.** `SucceedsIffPresent`, and that driver and device together
  take the steps of `Eeprom` (`DriverImplementsEeprom`), whatever failed before.
  The invariant says where the device is at each step of the driver. While data
  bytes are acknowledged with the expected status, the device has nothing of an
  address between two accesses, so the next one is ORed to zero. Under the other
  status it does keep some of an address, but then no access gets beyond its first
  byte, and the array stays as it is.
- **StateStorageProofs.** `FirmwareReadsTheFile`, `Eeprom1IsLaidOut`,
  `BlobIsShownAsWritten` and `OnlyBlob248Throws`, for every file, with lists and
  texts of any length, at the real addresses. The invariant is about a loop that
  is half done: each id has the cells of its last entry so far, or is blank
  (`IsStored`). An entry keeps it because what it writes lies in the slot of its
  id (`CellsInSlot`; this is where the limits of `Validate` are needed) and the
  slots of a buffer are disjoint (`SlotsAreDisjoint`). Of an earlier, longer
  text for the same id cells do remain; the stored length hides them. The reads
  of the firmware are then followed through its own layout (`CharacterIsRead`,
  `WordIsRead`, `BlobIsRead`), and the reads it would make of EEPROM_1 through
  the buffer loaded for it (`OtherBlobsAreLaidOut`); a send from there has shown
  nothing whenever it ends. `AgreedCharacters` says for which characters the two
  conversions of `UsbKeycodes` are each other's inverse, and
  `OnlyBlob248DoesNotFit` that of all entries that pass `Validate` that one
  alone is past the end of its buffer.

What the assumptions say: the layout of the EEPROMs has no overlaps and the
inputs are bytes (`LayoutAssumption`, `InputAssumption`; `CodeLayoutIsSound` is
about the first); ranges, limits and counts are natural numbers in the ranges
their C types give them; `DelayAssumption` and the timeout in `UsbAssumption` are
satisfied by the constants of the code, as said above; `EnumerationAssumption`:
addresses are 1 to 127, values of requests fit a byte, a host asks for at least
one byte; `UnsupportedAssumption`: the requests without a handler are those
`Called` finds none for; `FilesAssumption`: a file has lists of entries, the
texts are bytes, and the user sends blobs the firmware has; `BusAssumption`:
offsets lie within the simulated array, stored values are bytes, and the two facts
about `BitOr`. Every run evaluates those of its module.

Model-checked only:

- all liveness (`OperationsReturn`, `PendingEventIsHandled`,
  `KeysLeftAloneComeToRest`, `UnconfiguredBlinks`, `HostComesToRest`,
  `HandlerReturns`, `PulsesEnd`, `BlinkingErrFlashes`, `BufferedOutputIsShown`,
  `QuitEnds`): the prover does not reason about fairness here;
- the fairness of `ImplementsEeprom`: `Eeprom` also promises that every access
  returns. Its steps are proved, as said above.

## Statements the code does not keep

The modules state what a comment, a document or a test says of the code where the
code does something else, each with the line that says so. Adding one as INVARIANT
or PROPERTY to the `.cfg` of its module refutes it, in most cases within seconds
(`UsbSends.cfg` for `UsbController`; `EveryBlobIsSent` with `StateStorage.cfg`).
They have no run of their own, to keep the suite short. Where a weaker statement does
hold, a run checks that one.

| Statement | Module | What the code does | What holds |
| --- | --- | --- | --- |
| `SendIsDelivered` | `UsbController` | interrupts are enabled while `SendKeypress` uses the selected endpoint, and the handlers leave endpoint 0 selected: a report is written to endpoint 0, or part of it stays in the bank and spoils the next one, and the send returns true (`usb_controller_impl.cpp:173`) | `UndisturbedSendIsDelivered`: nothing else can go wrong |
| `SendTimesOut` | `UsbController` | the difference of two 8-bit frame numbers is an int, and negative once the number has wrapped (`usb_controller_impl.cpp:183`) | `EarlySendTimesOut`: the timeout is right for sends that start early enough |
| `ZeroWhenNotPressed` | `UsbController` | a press that times out leaves its key in the HID state (`usb_controller_impl.cpp:53`) | `HostComesToRest`, once nothing is left there |
| `ConfiguredMeansEnabled` | `UsbController` | the configuration is stored before it is checked, and survives a reset (`request_handler.cpp:108`) | `ConfiguredIsEnabled`, for a host that configures again |
| `SetReportKeepsConfiguration` | `UsbController` | SET_REPORT has the code of SET_CONFIGURATION and is handled as one (`usb_controller_impl.cpp:131`) | |
| `GetReportReturnsZeroes` | `UsbController` | a GET_REPORT during a send returns the keypress (`request_handler.cpp:135`) | |
| `FailedAppendIsShown` | `Layers` | layer B drops the outcome of an append (`layer_b.cpp:20`) | |
| `WordLengthIsShown` | `Layers` | a word modification code above 15 lights LEDs of the length (`layer_g.cpp:56`); with two-bit bytes | `LedsShowState`, which allows it |
| `LayerLedIsCurrent` | `Layers` | entering layer B with an id above 247 leaves the LEDs of layer G (`layer_b.cpp:62`) | `LedsShowState`, with this exception |
| `NoEventOverwritten` | `Threeboard` | the buffer has one place (`event_buffer.h:28`) | `EventIsWholeCombo`: what is in it is one combo, whole |
| `SleepsOnlyWithoutEvent` | `Threeboard` | an event may come between `EnableInterrupts` and `SleepCpu` (`threeboard.cpp:140`) | `PendingEventIsHandled`: the next interrupt wakes the CPU |
| `BootLedLitFor60Ms` | `Threeboard` | a LED is lit for thirteen polls (`threeboard.cpp:100`) | `BootIndicatorDoneFirst` |
| `DeviceStateMatches` | `PropertyTest` | the model types a full word in PROG mode where the device refuses to append, `toupper` leaves alone what shift changes (`layer_model.cpp`, `SendWord` and `ApplyModCode`), and blobs of EEPROM_1 stay empty (`simulator.cpp:63`) | `DeviceMatchesModel`, with these three exceptions |
| `NoOutputIsLost` | `Simulator` | the typed text is copied and then cleared without a lock, and what the host appends in between is in neither (`simulator.cpp:92`) | `BufferedOutputIsShown`, for what waits at any other time, and `OutputInOrder` |
| `NothingDangles` | `Simulator` | the device state is destroyed before the host thread is joined, and a log line may come after the UI is gone (`simulator.h`, `main.cpp:41`) | `NoThreadSurvives` |
| `EveryBlobIsSent` | `StateStorage` | the simulator has no EEPROM_1, so a blob with an id from 120 on is not sent (`simulator.cpp:63`) | `BlobIsShownAsWritten` for the blobs of EEPROM_0, `Eeprom1IsLaidOut` for the others |
| `ValidFilesLoad` | `StateStorage` | a blob with id 248 passes validation and has no slot (`state_storage_impl.cpp:24`) | `OnlyBlob248Throws` |

## What is not modelled

- Of the bus: the write cycle during which an EEPROM does not acknowledge. Its
  effect, a write that fails, is in `StorageController` and, as a device that
  does not answer, in `I2cEeprom`.
- Of USB: an interrupt flag that is set between the read and the clear of UDINT
  is not lost in the model; what a bus reset does to a handler at work; the packets
  of a control transfer during a send, and a handler that waits over several frames
  for a host that is slow to take them. The
  bytes of descriptors and the registers `Setup()` writes: `Setup` succeeds or
  fails.
- Logging, `bootstrap.cpp`, `main.c` and the register headers (`iom32u4.h`): text,
  wiring and names.
- Of the simulator: what is drawn, command line flags, the accessors of the
  simavr library, `InstrumentingSimavr`, detaching from USB, which the firmware
  never does, and `Reset` and `WaitForUsbOutput`, which only the integration
  tests call. Parsing of JSON.
- Of the integration tests: the symbol table of the firmware image and the
  scripted tests beside the property test.
- Key bounce: the 5ms poll is there to hide it.

## Plan

Done, in this order: the storage and its refinement, the layers, the event loop
and the keys, the USB controller, the LED controller; then the EEPROM driver and
its refinement, the control endpoint, the state file, the threads of the
simulator, its LEDs, and the property test; then the proofs, of the first group,
of the control endpoint, the simulator's threads and LEDs and the property test,
and of the EEPROM driver and the state file.

Next: a composition of the event loop, the layers and the storage: a keypress
handled across a send sees the storage the one before it left. And packets of the
control endpoint against a send, with a handler that waits over several frames.
