--------------------------- MODULE UsbController ---------------------------
(***************************************************************************)
(* The USB controller of the firmware: SendKeypress, called by the event   *)
(* loop, and the two USB interrupt handlers, which share with it the HID   *)
(* state, the endpoint selected by UENUM and the keyboard endpoint.        *)
(*                                                                         *)
(* SendKeypress is entered with interrupts disabled and enables them while *)
(* it looks at the endpoint and writes to it: `pc' is its position between *)
(* two accesses to shared state.  An interrupt handler is one step.  The   *)
(* eight bytes of a report are abstracted to two, modifiers and key: the   *)
(* reserved byte and the unused keys are always zero.                      *)
(***************************************************************************)
EXTENDS Integers, Sequences

CONSTANTS
  UintRange,       \* 256: UDFNUML is the low byte of the frame number
  kFrameTimeout,   \* 50 frames
  Keypresses,      \* pairs <<modifiers, key>> the layers send
  Configurations,  \* values a host may put in SET_CONFIGURATION
  IdleConfigs,     \* values a host may put in SET_IDLE
  DefaultIdle,     \* 125
  QuietHost        \* control requests come only between two keypresses

ASSUME UsbAssumption ==
  /\ kFrameTimeout \in Nat \ {0} /\ UintRange \in Nat
  /\ kFrameTimeout < UintRange
  /\ Keypresses \subseteq Nat \X Nat /\ <<0, 0>> \notin Keypresses
  /\ Configurations \subseteq Nat /\ IdleConfigs \subseteq 0..(UintRange - 1)
  /\ DefaultIdle \in IdleConfigs
  /\ QuietHost \in BOOLEAN

VARIABLES
  hid_state,  \* configuration, modifier_keys, keyboard_keys[0], idle
  UENUM,      \* the selected endpoint
  enabled,    \* the keyboard endpoint is enabled
  fill,       \* bytes written into its current bank
  banks,      \* its banks handed over and not yet read by the host
  UDINT,      \* pending general interrupts
  frame,      \* UDFNUML
  pc,         \* where SendKeypress is
  press,      \* the keypress it is sending; its second half is a release
  initial,    \* initial_frame_num
  late,       \* a frame began since the loop last went round
  result,     \* what the last SendKeypress returned
  waited,     \* history: frames that began since the report was started
  delivered,  \* history: 1 press handed over, 2 press and release
  disturbed,  \* history: a handler or a reset came in between
  host_holds  \* history: the last report the host read holds keys down

device == <<UENUM, enabled, fill, banks>>
caller == <<pc, press, initial, result>>
history == <<delivered, disturbed>>
vars == <<hid_state, device, UDINT, frame, caller, late, waited, history,
          host_holds>>

kKeyboardEndpoint == 1
kConfigurationValue == 1
Banks == 2       \* the endpoint is double banked
ReportSize == 2

Released == <<0, 0>>

\* The report hid_state_ stands for.
HidReport == <<hid_state.modifier_keys, hid_state.key>>

Init ==
  /\ hid_state = [configuration |-> 0, modifier_keys |-> 0, key |-> 0,
                  idle_config |-> DefaultIdle, idle_count |-> 0]
  /\ UENUM = 0 /\ enabled = FALSE /\ fill = <<>> /\ banks = <<>>
  /\ UDINT = {} /\ frame = 0
  /\ pc = "boot" /\ press = Released /\ initial = 0 /\ late = FALSE
  /\ result = "none"
  /\ waited = 0 /\ delivered = 0 /\ disturbed = FALSE /\ host_holds = FALSE
-----------------------------------------------------------------------------
(***************************************************************************)
(* The endpoint hardware.                                                  *)
(***************************************************************************)
\* RWAL of the keyboard endpoint: the current bank is free and not full.  On
\* the control endpoint the bit means nothing.
Writable == enabled /\ Len(banks) < Banks /\ Len(fill) < ReportSize

RWAL(value) == UENUM = kKeyboardEndpoint => value = Writable

\* A byte written to UEDATX; one that has no room is lost.
SetUEDATX(byte) ==
  fill' = IF UENUM = kKeyboardEndpoint /\ Writable
            THEN Append(fill, byte) ELSE fill

\* Writing UEINTX with FIFOCON clear hands the current bank over.
ResetUEINTX ==
  IF UENUM = kKeyboardEndpoint /\ enabled /\ Len(banks) < Banks
    THEN /\ banks' = Append(banks, fill)
         /\ fill' = <<>>
         /\ delivered' = CASE delivered = 0 /\ fill = press -> 1
                           [] delivered = 1 /\ fill = Released -> 2
                           [] OTHER -> delivered
    ELSE UNCHANGED <<banks, fill, delivered>>
-----------------------------------------------------------------------------
(***************************************************************************)
(* SendKeypress.                                                           *)
(***************************************************************************)
InterruptsEnabled == pc # "retry"

\* HasConfigured: the event loop starts once there is a configuration.
HasConfigured ==
  /\ pc = "boot" /\ hid_state.configuration # 0
  /\ pc' = "idle"
  /\ UNCHANGED <<hid_state, device, UDINT, frame, press, initial, result, late,
                 waited, history, host_holds>>

Calling == pc \notin {"boot", "idle"}

Sending == pc \in {"check", "retry", "count", "modifiers", "key", "submit"}

\* SendKeypress() up to the first look at the endpoint: the frame number is
\* read and the endpoint selected with interrupts disabled.
StartWithoutSelecting ==
  /\ initial' = frame
  /\ late' = FALSE /\ waited' = 0
  /\ pc' = "check"
  /\ UNCHANGED UENUM

Start ==
  /\ initial' = frame
  /\ UENUM' = kKeyboardEndpoint
  /\ late' = FALSE /\ waited' = 0
  /\ pc' = "check"

Press(keypress) ==
  /\ pc = "idle"
  /\ hid_state' = [hid_state EXCEPT !.modifier_keys = keypress[1],
                                    !.key = keypress[2]]
  /\ press' = keypress
  /\ delivered' = 0
  /\ disturbed' = (fill # <<>>)  \* a disturbed send has left a byte behind
  /\ Start
  /\ UNCHANGED <<enabled, fill, banks, UDINT, frame, result, host_holds>>

ReturnFalse == pc' = "idle" /\ initial' = 0 /\ result' = "false"

\* May the FIFO be written?  Interrupts stay enabled when it may.
Check ==
  /\ pc = "check"
  /\ \/ RWAL(TRUE) /\ pc' = "count"
     \/ RWAL(FALSE) /\ pc' = "retry"
  /\ UNCHANGED <<hid_state, device, UDINT, frame, press, initial, result, late,
                 waited, history, host_holds>>

\* It may not: give up, or select the endpoint and look again.  The frame
\* numbers are subtracted as int, not as uint8_t.
RetryFromNow ==
  /\ pc = "retry"
  /\ IF hid_state.configuration = 0 \/ frame - initial >= kFrameTimeout
       THEN ReturnFalse /\ UNCHANGED UENUM
       ELSE /\ UENUM' = kKeyboardEndpoint /\ pc' = "check" /\ initial' = frame
            /\ UNCHANGED result
  /\ late' = FALSE
  /\ UNCHANGED <<hid_state, enabled, fill, banks, UDINT, frame, press, waited,
                 history, host_holds>>

Retry ==
  /\ pc = "retry"
  /\ IF hid_state.configuration = 0 \/ frame - initial >= kFrameTimeout
       THEN ReturnFalse /\ UNCHANGED UENUM
       ELSE /\ UENUM' = kKeyboardEndpoint /\ pc' = "check"
            /\ UNCHANGED <<initial, result>>
  /\ late' = FALSE
  /\ UNCHANGED <<hid_state, enabled, fill, banks, UDINT, frame, press, waited,
                 history, host_holds>>

\* SendHidState, interrupts enabled.
SendIdleCount ==
  /\ pc = "count"
  /\ hid_state' = [hid_state EXCEPT !.idle_count = 0]
  /\ pc' = "modifiers"
  /\ UNCHANGED <<device, UDINT, frame, press, initial, result, late, waited,
                 history, host_holds>>

SendModifiers ==
  /\ pc = "modifiers"
  /\ SetUEDATX(hid_state.modifier_keys)
  /\ pc' = "key"
  /\ UNCHANGED <<hid_state, UENUM, enabled, banks, UDINT, frame, press, initial,
                 result, late, waited, history, host_holds>>

SendKey ==
  /\ pc = "key"
  /\ SetUEDATX(hid_state.key)
  /\ pc' = "submit"
  /\ UNCHANGED <<hid_state, UENUM, enabled, banks, UDINT, frame, press, initial,
                 result, late, waited, history, host_holds>>

Submit ==
  /\ pc = "submit"
  /\ ResetUEINTX
  /\ pc' = "restore"
  /\ UNCHANGED <<hid_state, UENUM, enabled, UDINT, frame, press, initial, result,
                 late, waited, disturbed, host_holds>>

\* Interrupts are disabled again: go on to the release, or return.
Release ==
  /\ pc = "restore" /\ HidReport # Released
  /\ hid_state' = [hid_state EXCEPT !.modifier_keys = 0, !.key = 0]
  /\ Start
  /\ UNCHANGED <<enabled, fill, banks, UDINT, frame, press, result, history,
                 host_holds>>

ReturnTrue ==
  /\ pc = "restore" /\ HidReport = Released
  /\ pc' = "idle" /\ initial' = 0 /\ result' = "true"
  /\ UNCHANGED <<hid_state, device, UDINT, frame, press, late, waited, history,
                 host_holds>>
-----------------------------------------------------------------------------
(***************************************************************************)
(* The bus.  A frame begins every millisecond; the polling loop goes round *)
(* many times in one, and a report takes far less to write.  Left out: an  *)
(* endpoint interrupt that waits for the host, for frames, within a round. *)
(***************************************************************************)
FrameBegins ==
  /\ Calling => ~late
  /\ frame' = (frame + 1) % UintRange
  /\ UDINT' = UDINT \cup {"SOFI"}
  /\ late' = Calling
  /\ waited' = IF pc \in {"check", "retry"} /\ waited <= kFrameTimeout
                 THEN waited + 1 ELSE waited
  /\ UNCHANGED <<hid_state, device, caller, history, host_holds>>

\* A bus reset disables the endpoints but the control endpoint.
BusReset ==
  /\ enabled' = FALSE /\ fill' = <<>> /\ banks' = <<>>
  /\ UDINT' = UDINT \cup {"EORSTI"}
  /\ disturbed' = (disturbed \/ Calling)
  /\ UNCHANGED <<hid_state, UENUM, frame, caller, late, waited, delivered,
                 host_holds>>

HostReads ==
  /\ banks # <<>>
  /\ host_holds' = (Head(banks) # Released) /\ banks' = Tail(banks)
  /\ UNCHANGED <<hid_state, UENUM, enabled, fill, UDINT, frame, caller, late,
                 waited, history>>
-----------------------------------------------------------------------------
(***************************************************************************)
(* Interrupt handlers.                                                     *)
(***************************************************************************)
\* SendHidState in one go: what room there is takes the first bytes.
SendHidStateAtOnce ==
  LET room == ReportSize - Len(fill) IN
  /\ banks' = Append(banks, fill \o SubSeq(HidReport, 1, room))
  /\ fill' = <<>>

\* An idle report is due when the count reaches the configured interval.
IdleReportNeverDue ==
  /\ hid_state' =
       [hid_state EXCEPT !.idle_count = (@ + 1) % hid_state.idle_config]
  /\ UNCHANGED <<banks, fill, disturbed>>

IdleReport ==
  IF hid_state.idle_count + 1 = hid_state.idle_config
    THEN /\ SendHidStateAtOnce
         /\ hid_state' = [hid_state EXCEPT !.idle_count = 0]
         /\ disturbed' = TRUE
    ELSE /\ hid_state' = [hid_state EXCEPT !.idle_count = @ + 1]
         /\ UNCHANGED <<banks, fill, disturbed>>

\* A frame whose number arrived damaged (FNCERR) does not count.
SOFReceived(frame_error) ==
  /\ "SOFI" \in UDINT /\ ~frame_error
  /\ hid_state.configuration # 0
  /\ hid_state.idle_config # 0

HandleGeneralInterrupt(frame_error) ==
  /\ InterruptsEnabled /\ UDINT # {}
  /\ UDINT' = {}
  /\ IF SOFReceived(frame_error)
       THEN /\ UENUM' = kKeyboardEndpoint
            /\ IF Writable THEN IdleReport
                           ELSE UNCHANGED <<hid_state, banks, fill, disturbed>>
       ELSE /\ UENUM' = IF "EORSTI" \in UDINT THEN 0 ELSE UENUM
            /\ disturbed' = (disturbed \/ (Sending /\ "EORSTI" \in UDINT))
            /\ UNCHANGED <<hid_state, banks, fill>>
  /\ UNCHANGED <<enabled, frame, caller, late, waited, delivered, host_holds>>

\* A control request has arrived: its handler reads it from endpoint 0.  The
\* general interrupt goes first when both are pending.
ControlRequest ==
  /\ InterruptsEnabled /\ "EORSTI" \notin UDINT
  /\ QuietHost => ~Calling
  /\ disturbed' = (disturbed \/ Sending)
  /\ UNCHANGED <<UDINT, frame, caller, late, waited, delivered, host_holds>>

\* Only the one supported configuration enables the keyboard endpoint.
HandleSetConfiguration(value) ==
  /\ hid_state' = [hid_state EXCEPT !.configuration = value]
  /\ IF value = kConfigurationValue
       THEN /\ UENUM' = kKeyboardEndpoint
            /\ enabled' = TRUE /\ fill' = <<>> /\ banks' = <<>>
       ELSE UENUM' = 0 /\ UNCHANGED <<enabled, fill, banks>>

SetConfiguration(value) == ControlRequest /\ HandleSetConfiguration(value)

\* HID_SET_REPORT and SET_CONFIGURATION have the same request code.  The low
\* byte of a report's wValue is its id, zero.
SetReport == ControlRequest /\ HandleSetConfiguration(0)

SetIdleKeepingCount(value) ==
  /\ ControlRequest
  /\ hid_state' = [hid_state EXCEPT !.idle_config = value]
  /\ UENUM' = 0
  /\ UNCHANGED <<enabled, fill, banks>>

SetIdle(value) ==
  /\ ControlRequest
  /\ hid_state' = [hid_state EXCEPT !.idle_config = value, !.idle_count = 0]
  /\ UENUM' = 0
  /\ UNCHANGED <<enabled, fill, banks>>

\* The reply to HID_GET_REPORT is HidReport.
GetReport ==
  /\ ControlRequest
  /\ UENUM' = 0
  /\ UNCHANGED <<hid_state, enabled, fill, banks>>

\* Other requests, answered, ignored or stalled, touch endpoint 0, the device
\* address and the protocol, which nothing else reads.
OtherRequest ==
  /\ ControlRequest
  /\ UENUM' = 0
  /\ UNCHANGED <<hid_state, enabled, fill, banks>>

Main ==
  \/ HasConfigured \/ Check \/ Retry
  \/ SendIdleCount \/ SendModifiers \/ SendKey \/ Submit
  \/ Release \/ ReturnTrue

HandleEndpointInterrupt ==
  \/ \E value \in Configurations : SetConfiguration(value)
  \/ SetReport
  \/ \E value \in IdleConfigs : SetIdle(value)
  \/ GetReport
  \/ OtherRequest

Next ==
  \/ \E keypress \in Keypresses : Press(keypress)
  \/ Main
  \/ FrameBegins
  \/ BusReset
  \/ HostReads
  \/ \E frame_error \in BOOLEAN : HandleGeneralInterrupt(frame_error)
  \/ HandleEndpointInterrupt

Spec == Init /\ [][Next]_vars

\* The CPU runs, frames keep coming while the cable is in, the USB interrupt is
\* taken once interrupts are enabled often enough, frame numbers arrive intact
\* again and again, and the host reads.
FairSpec ==
  /\ Spec
  /\ WF_vars(Main) /\ WF_vars(FrameBegins) /\ WF_vars(HostReads)
  /\ SF_vars(HandleGeneralInterrupt(FALSE))
-----------------------------------------------------------------------------
(***************************************************************************)
(* Properties.                                                             *)
(***************************************************************************)
Bytes == {0} \cup {k[1] : k \in Keypresses} \cup {k[2] : k \in Keypresses}

\* The HID state, the endpoint's banks and the registers hold values of their
\* types; a bank never holds more than a report.
TypeOK ==
  /\ hid_state \in [configuration : Configurations \cup {0},
                    modifier_keys : Bytes, key : Bytes,
                    idle_config : IdleConfigs, idle_count : 0..(UintRange - 1)]
  /\ UENUM \in {0, kKeyboardEndpoint} /\ enabled \in BOOLEAN
  /\ Len(fill) <= ReportSize /\ Len(banks) <= Banks
  /\ \A i \in DOMAIN banks : Len(banks[i]) <= ReportSize
  /\ UDINT \subseteq {"SOFI", "EORSTI"} /\ frame \in 0..(UintRange - 1)
  /\ pc \in {"boot", "idle", "check", "retry", "count", "modifiers", "key",
             "submit", "restore"}
  /\ press \in Keypresses \cup {Released} /\ initial \in 0..(UintRange - 1)
  /\ late \in BOOLEAN /\ result \in {"none", "true", "false"}
  /\ waited \in 0..(kFrameTimeout + 1) /\ delivered \in 0..2
  /\ disturbed \in BOOLEAN /\ host_holds \in BOOLEAN

\* A keypress SendKeypress reports as sent has been handed to the host, the
\* press and then the release, unless in the meantime an interrupt handler
\* selected another endpoint or sent an idle report, or the bus was reset, or
\* an earlier send that was disturbed so has left half a report behind.
UndisturbedSendIsDelivered ==
  pc = "idle" /\ result = "true" /\ ~disturbed => delivered = 2

\* The idle count never passes the interval it is compared with for equality,
\* however the host changes the interval.
IdleCountBelowConfig ==
  /\ hid_state.idle_config > 0 => hid_state.idle_count < hid_state.idle_config
  /\ hid_state.idle_config = 0 => hid_state.idle_count = 0

\* A report that starts early enough in the frame counter's range is given up
\* once the host has not read for kFrameTimeout frames, if no handler keeps the
\* CPU from the polling loop for more than a frame.
EarlySendTimesOut ==
  /\ pc \in {"check", "retry"}
  /\ initial + kFrameTimeout < UintRange
  => waited <= kFrameTimeout

Reporting ==
  /\ enabled
  /\ hid_state.configuration # 0
  /\ hid_state.idle_config # 0

\* Once no key is being sent, none is left in the HID state and the host makes
\* no more control requests, it ends up with every key released: an idle report
\* makes up for a release report that timed out.
HostComesToRest ==
  /\ <>[](pc = "idle" /\ HidReport = Released /\ Reporting)
  /\ <>[][~HandleEndpointInterrupt]_vars
  => <>[]~host_holds

(***************************************************************************)
(* What comments say and the code does not do.                             *)
(***************************************************************************)
\* usb_controller_impl.cpp:182: the endpoint is polled for 50 frames only.
SendTimesOut == pc \in {"check", "retry"} => waited <= kFrameTimeout

\* usb_controller.h:21: SendKeypress returns false if an error occurred.
SendIsDelivered == pc = "idle" /\ result = "true" => delivered = 2

\* hid_state.h:14: modifiers and keys are zero when not pressed.
ZeroWhenNotPressed == pc = "idle" => HidReport = Released

\* usb_controller.h:18: a true HasConfigured means that the configuration has
\* completed.
ConfiguredMeansEnabled == hid_state.configuration # 0 => enabled

\* hid_state.h:10: the configuration is non-zero after enumeration.  A report
\* the host sends to set the keyboard's LEDs does not change it.
SetReportKeepsConfiguration ==
  [][SetReport => UNCHANGED hid_state.configuration]_vars

\* request_handler.cpp:130: GET_REPORT always returns zeroes.
GetReportReturnsZeroes == [][GetReport => HidReport = Released]_vars

=============================================================================
