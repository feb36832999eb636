----------------------------- MODULE Threeboard -----------------------------
(***************************************************************************)
(* The event loop of the threeboard and the interrupts it shares its state *)
(* with.  The main program brings up USB, shows the boot indicator and then*)
(* loops: take a keypress from the event buffer and handle it, or sleep.   *)
(* Every 5ms the handler of Timer 3 interrupts it, polls the three keys,   *)
(* fills the event buffer when a combo has been released and advances the  *)
(* boot indicator.                                                         *)
(*                                                                         *)
(* `pc' is the position of the main program.  An interrupt handler runs to *)
(* completion, between any two steps of the main program at which          *)
(* interrupts are enabled.  Handling an event runs with interrupts         *)
(* disabled but for the windows in which SendKeypress polls the USB        *)
(* endpoint ("sending").                                                   *)
(***************************************************************************)
EXTENDS Integers

CONSTANTS
  Keys,              \* X, Y and Z
  UintRange,         \* 256: `iterations' is a uint8_t
  ConfigIterations,  \* 250: polls for a configuration before ERR blinks
  BootCounter,       \* 12: polls a boot LED is lit, less one
  BootDelay          \* 51: polls of Timer 3 in DelayMs(255)

ASSUME BoundsAssumption ==
  /\ UintRange \in Nat /\ ConfigIterations \in 0..(UintRange - 2)
  /\ BootCounter \in Nat /\ BootDelay \in Nat

\* DelayMs(255) spans the 40 polls of the boot indicator.
ASSUME DelayAssumption == 3 * (BootCounter + 1) + 1 <= BootDelay

VARIABLES
  pressed,       \* the keys held down (pins B1-B3)
  key_mask,      \* KeyController::key_mask_: keys down, keys released since
  combo,         \* history: keys a poll saw down since the last event
  event,         \* EventBuffer::event_, a set of keys
  has_keypress,  \* EventBuffer::has_keypress_
  boot,          \* Threeboard::boot_indicator_state_
  bootLeds,      \* the LEDs of R, G and B the boot indicator has lit
  err,           \* the ERR LED
  pc,            \* where the main program is
  iterations,    \* WaitForUsbConfiguration's counter
  delay          \* polls left of DelayMs(255)

keys == <<pressed, key_mask, combo>>
buffer == <<event, has_keypress>>
vars == <<keys, buffer, boot, bootLeds, err, pc, iterations, delay>>

EmptyMask == [down |-> {}, released |-> {}]

InterruptsEnabled == pc # "handling"
-----------------------------------------------------------------------------
(***************************************************************************)
(* Starting up.                                                            *)
(***************************************************************************)
Init ==
  /\ pressed = {} /\ key_mask = EmptyMask /\ combo = {}
  /\ event = {} /\ has_keypress = FALSE
  /\ boot = [status |-> 0, counter |-> 0] /\ bootLeds = {}
  /\ err = "OFF"
  /\ pc = "setup"
  /\ iterations = 0
  /\ delay = 0

\* What UsbControllerImpl::Setup may return: whether the PLL has locked in time.
Setup == BOOLEAN

\* Without the PLL the setup is started again, after a delay.
WaitForUsbSetup ==
  /\ pc = "setup"
  /\ \E locked \in Setup :
       IF locked THEN err' = "OFF" /\ pc' = "configure"
                 ELSE err' = "BLINK" /\ UNCHANGED pc
  /\ UNCHANGED <<keys, buffer, boot, bootLeds, iterations, delay>>

\* The host configures the device, or the loop goes round once more.
Configured ==
  /\ pc = "configure"
  /\ err' = "OFF"
  /\ pc' = "display"
  /\ UNCHANGED <<keys, buffer, boot, bootLeds, iterations, delay>>

NotConfiguredBlinkingBriefly ==
  /\ pc = "configure"
  /\ iterations' = (iterations + 1) % UintRange
  /\ err' = IF iterations' > ConfigIterations THEN "BLINK" ELSE "OFF"
  /\ UNCHANGED <<keys, buffer, boot, bootLeds, pc, delay>>

NotConfigured ==
  /\ pc = "configure"
  /\ iterations' = (iterations + 1) % UintRange
  /\ err' = IF iterations' > ConfigIterations THEN "BLINK" ELSE err
  /\ UNCHANGED <<keys, buffer, boot, bootLeds, pc, delay>>

\* DisplayBootIndicator starts the indicator, with interrupts enabled between
\* its two assignments, and waits for it to finish.
DisplayBootIndicator ==
  /\ pc = "display"
  /\ boot' = [boot EXCEPT !.status = 1]
  /\ pc' = "counter"
  /\ UNCHANGED <<keys, buffer, bootLeds, err, iterations, delay>>

DelayForBootIndicator ==
  /\ pc = "counter"
  /\ boot' = [boot EXCEPT !.counter = BootCounter + 1]
  /\ delay' = BootDelay
  /\ pc' = "delay"
  /\ UNCHANGED <<keys, buffer, bootLeds, err, iterations>>

DelayElapsed ==
  /\ pc = "delay" /\ delay = 0
  /\ pc' = "loop"
  /\ UNCHANGED <<keys, buffer, boot, bootLeds, err, iterations, delay>>
-----------------------------------------------------------------------------
(***************************************************************************)
(* The event loop.                                                         *)
(***************************************************************************)
\* The event buffer holds one event, and the next one replaces it.
HandleKeypress(keypress) == event' = keypress /\ has_keypress' = TRUE

GetKeypressEvent == has_keypress' = FALSE /\ UNCHANGED event

TakeEventKeepingFlag ==
  /\ pc = "loop" /\ has_keypress
  /\ pc' = "handling"
  /\ has_keypress' \in {FALSE, TRUE}
  /\ UNCHANGED <<keys, event, boot, bootLeds, err, iterations, delay>>

\* Interrupts are disabled before the buffer is looked at.
TakeEvent ==
  /\ pc = "loop" /\ has_keypress
  /\ GetKeypressEvent
  /\ pc' = "handling"
  /\ UNCHANGED <<keys, boot, bootLeds, err, iterations, delay>>

\* HandleEvent polls the USB endpoint: interrupts are enabled, then disabled.
SendKeypress ==
  /\ \/ pc = "handling" /\ pc' = "sending"
     \/ pc = "sending" /\ pc' = "handling"
  /\ UNCHANGED <<keys, buffer, boot, bootLeds, err, iterations, delay>>

\* The layer may have shown or hidden ERR itself (SendToHost).
HandleEventReturns ==
  /\ pc = "handling"
  /\ err' \in {err, "OFF", "ON", "PULSE"}
  /\ pc' = "loop"
  /\ UNCHANGED <<keys, buffer, boot, bootLeds, iterations, delay>>

\* No event: interrupts are enabled again, and the CPU is put to sleep.  An
\* interrupt may come in between.
NothingToHandle ==
  /\ pc = "loop" /\ ~has_keypress
  /\ pc' = "drowsy"
  /\ UNCHANGED <<keys, buffer, boot, bootLeds, err, iterations, delay>>

SleepCpu ==
  /\ pc = "drowsy"
  /\ pc' = "asleep"
  /\ UNCHANGED <<keys, buffer, boot, bootLeds, err, iterations, delay>>
-----------------------------------------------------------------------------
(***************************************************************************)
(* Interrupts.                                                             *)
(***************************************************************************)
WakeNever == UNCHANGED pc

\* Returning from an interrupt handler the CPU is awake.
Wake == pc' = IF pc = "asleep" THEN "loop" ELSE pc

PollKeyStateKeepingMask ==
  LET released == key_mask.released \cup (key_mask.down \ pressed) IN
  /\ key_mask' = [down |-> pressed, released |-> released]
  /\ IF pressed = {} /\ released # {}
       THEN HandleKeypress(released) /\ combo' = {}
       ELSE combo' = combo \cup pressed /\ UNCHANGED buffer

\* KeyController::PollKeyState, and EventBuffer::HandleKeypress when no key of
\* the combo is down any more.
PollKeyState ==
  LET released == key_mask.released \cup (key_mask.down \ pressed) IN
  IF pressed = {} /\ released # {}
    THEN /\ HandleKeypress(released)
         /\ key_mask' = EmptyMask
         /\ combo' = {}
    ELSE /\ key_mask' = [down |-> pressed, released |-> released]
         /\ combo' = combo \cup pressed
         /\ UNCHANGED buffer

BootLed(status) ==
  CASE status = 1 -> {"R"} [] status = 2 -> {"G"} [] status = 3 -> {"B"}

PollBootIndicatorSlowly ==
  IF boot.counter > BootCounter + 4
    THEN IF boot.status > 3
           THEN /\ boot' = [status |-> 0, counter |-> boot.counter + 1]
                /\ bootLeds' = {}
           ELSE /\ bootLeds' = BootLed(boot.status)
                /\ boot' = [status |-> boot.status + 1, counter |-> 1]
    ELSE boot' = [boot EXCEPT !.counter = @ + 1] /\ UNCHANGED bootLeds

PollBootIndicator ==
  IF boot.counter > BootCounter
    THEN IF boot.status > 3
           THEN /\ boot' = [status |-> 0, counter |-> boot.counter + 1]
                /\ bootLeds' = {}
           ELSE /\ bootLeds' = BootLed(boot.status)
                /\ boot' = [status |-> boot.status + 1, counter |-> 1]
    ELSE boot' = [boot EXCEPT !.counter = @ + 1] /\ UNCHANGED bootLeds

\* At most one poll falls between the two assignments of DisplayBootIndicator.
HandleTimer3Interrupt ==
  /\ InterruptsEnabled
  /\ pc = "counter" => boot.counter = 0
  /\ PollKeyState
  /\ IF boot.status > 0
       THEN PollBootIndicator
       ELSE UNCHANGED <<boot, bootLeds>>
  /\ delay' = IF delay > 0 THEN delay - 1 ELSE 0
  /\ Wake
  /\ UNCHANGED <<pressed, err, iterations>>

\* Timer 1 and USB: nothing of this module's state but the sleep ends.
OtherInterrupt ==
  /\ InterruptsEnabled
  /\ Wake
  /\ UNCHANGED <<keys, buffer, boot, bootLeds, err, iterations, delay>>

\* A finger on a key.
PressOrRelease(k) ==
  /\ pressed' = IF k \in pressed THEN pressed \ {k} ELSE pressed \cup {k}
  /\ UNCHANGED <<key_mask, combo, buffer, boot, bootLeds, err, pc, iterations,
                 delay>>

Main ==
  \/ WaitForUsbSetup \/ Configured \/ NotConfigured
  \/ DisplayBootIndicator \/ DelayForBootIndicator \/ DelayElapsed
  \/ TakeEvent \/ SendKeypress \/ HandleEventReturns
  \/ NothingToHandle \/ SleepCpu

Next ==
  \/ Main
  \/ HandleTimer3Interrupt
  \/ OtherInterrupt
  \/ \E k \in Keys : PressOrRelease(k)

Spec == Init /\ [][Next]_vars

\* The main program runs whenever it can.  A match of Timer 3 stays latched
\* while interrupts are disabled, so its handler runs once they have been
\* enabled often enough.  Every send ends (UsbController): HandleEvent returns.
\* Whether the USB setup succeeds and a host configures the device is not
\* up to the program.
FairSpec ==
  /\ Spec
  /\ WF_vars(Main)
  /\ SF_vars(HandleEventReturns)
  /\ SF_vars(HandleTimer3Interrupt)
-----------------------------------------------------------------------------
(***************************************************************************)
(* Properties.                                                             *)
(***************************************************************************)
EventLoop == {"loop", "handling", "sending", "drowsy", "asleep"}

\* Masks and events are sets of keys, and the boot indicator's counter stays
\* far below the range of its type.
TypeOK ==
  /\ pressed \in SUBSET Keys /\ combo \in SUBSET Keys /\ event \in SUBSET Keys
  /\ key_mask \in [down : SUBSET Keys, released : SUBSET Keys]
  /\ has_keypress \in BOOLEAN
  /\ boot \in [status : 0..4, counter : 0..(BootCounter + 2)]
  /\ bootLeds \in {{}, {"R"}, {"G"}, {"B"}}
  /\ err \in {"OFF", "ON", "BLINK", "PULSE"}
  /\ pc \in EventLoop \cup {"setup", "configure", "display", "counter", "delay"}
  /\ iterations \in 0..(UintRange - 1)
  /\ delay \in 0..BootDelay

\* The mask remembers every key of the combo that is being pressed, in whatever
\* order keys go down and up, and nothing of the combo before.
MaskIsCombo ==
  /\ key_mask.down \cup key_mask.released = combo
  /\ combo # {} => key_mask.down # {}

\* An event is registered when the last key of a combo is seen released, and
\* it is the whole combo.
EventIsWholeCombo ==
  [][event' # event \/ (has_keypress' /\ ~has_keypress) =>
       event' = combo /\ combo # {} /\ pressed = {}]_vars

\* The boot indicator is over before the event loop starts: its interrupt never
\* overwrites the LED of a layer.
BootIndicatorDoneFirst ==
  pc \in EventLoop => boot.status = 0 /\ bootLeds = {}

\* A pending event is handled once the event loop runs, although the loop may
\* fall asleep on it.
PendingEventIsHandled ==
  has_keypress /\ pc \in EventLoop ~> pc = "handling"

\* Once the keys are left alone, every combo that was seen has been handled and
\* the board sleeps between interrupts.
KeysLeftAloneComeToRest ==
  <>(pc \in EventLoop) /\ <>[](pressed = {}) =>
    <>[](combo = {} /\ ~has_keypress /\ pc \in {"loop", "drowsy", "asleep"})

\* Without a host ERR starts to blink and never stops, whatever the 8-bit
\* iteration counter does.
UnconfiguredBlinks == <>[](pc = "configure") => <>[](err = "BLINK")

(***************************************************************************)
(* What comments and documents say and the code does not do.               *)
(***************************************************************************)
\* firmware_design.md:70: all keypress events are received and processed.
NoEventOverwritten ==
  [][combo # {} /\ combo' = {} /\ pc \in EventLoop => ~has_keypress]_vars

\* threeboard.cpp:122: an iteration either handles an event or sleeps until the
\* next interrupt.
SleepsOnlyWithoutEvent == pc = "asleep" => ~has_keypress

\* threeboard.cpp:99: each LED of the boot indicator is lit for 60ms, that is
\* twelve polls of 5ms.
BootLedLitFor60Ms ==
  [][bootLeds # {} /\ bootLeds' # bootLeds => boot.counter = BootCounter]_vars

=============================================================================
