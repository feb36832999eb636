------------------------------ MODULE Simulator ------------------------------
(***************************************************************************)
(* The simulator program around the simulated firmware: three threads and  *)
(* what they share.                                                        *)
(*                                                                         *)
(*   ui    main() and the UI's render loop, twenty frames a second; it     *)
(*         also destroys everything on the way out                         *)
(*   sim   Simulator::InternalRunAsync, which runs the MCU and all of its  *)
(*         callbacks: USB attach, logs, ports                              *)
(*   host  UsbHostImpl::DeviceControlLoop, started by the attach callback; *)
(*         it configures the keyboard and polls its endpoint               *)
(*                                                                         *)
(* The UI takes the characters of a frame in two steps, a copy and a clear *)
(* of a string to which the host thread appends.  Nothing orders the two   *)
(* threads, so any outcome is allowed by the language; the model has the   *)
(* one in which each step happens as written.                              *)
(***************************************************************************)
EXTENDS Integers, FiniteSets, Sequences, SequencesExt

CONSTANTS
  Keys,          \* 'a', 's' and 'd'
  kKeyHoldTime,  \* 3 frames
  MaxTyped,      \* bound: frames in which the user types
  MaxPresses,    \* bound: keys the firmware presses on the host
  Banks          \* 2: the keyboard endpoint is double banked

ASSUME SimulatorAssumption ==
  /\ "q" \notin Keys /\ "g" \notin Keys
  /\ kKeyHoldTime \in Nat \ {0}
  /\ MaxTyped \in Nat /\ MaxPresses \in Nat /\ Banks \in Nat \ {0}

VARIABLES
  ui,            \* where the UI thread is
  is_running,    \* UI::is_running_
  key,           \* frames until a key goes up: key_a_, key_s_, key_d_
  typed,         \* frames with input so far
  pins,          \* key pins of port B that are low
  gdb,           \* gdb port is set
  cpu,           \* state of the simulated MCU
  sim,           \* where the sim thread is
  sim_running,   \* Simulator::is_running_
  host,          \* where the host thread is, and the report it has read
  host_running,  \* UsbHostImpl::is_running_
  is_attached,   \* UsbHostImpl::is_attached_
  setup,         \* the firmware has a SET_CONFIGURATION to handle
  configured,    \* the firmware has selected the keyboard endpoint
  endpoint,      \* reports waiting in the keyboard endpoint
  reports,       \* reports the firmware has sent
  usb_buffer,    \* device_state_.usb_buffer
  frame_buffer,  \* the UI's copy of it
  shown,         \* characters shown so far
  dangling       \* objects called into after they were destroyed

uiVars == <<ui, is_running, key, typed, pins, gdb, frame_buffer, shown>>
usbVars == <<is_attached, setup, configured, endpoint, reports>>
vars == <<uiVars, cpu, sim, sim_running, host, host_running, usbVars,
          usb_buffer, dangling>>

InFrame == ui \in {"copy", "clear", "show"}
Stopped == ui \in {"returned", "terminated"}
UiIsAlive == InFrame \/ ui = "frame"
DeviceStateIsAlive == ui \notin {"usb", "join_usb"} /\ ~Stopped

\* Of every two reports the first presses the next character, and the second is
\* the empty report that releases it.
ReportAt(r) == IF r % 2 = 1 THEN (r + 1) \div 2 ELSE 0

\* RunSimulator: the objects are there and ui.Run() has started the sim thread.
Init ==
  /\ ui = "frame" /\ is_running = TRUE
  /\ key = [k \in Keys |-> 0] /\ typed = 0 /\ pins = {} /\ gdb = FALSE
  /\ cpu = "RUNNING" /\ sim = "check" /\ sim_running = TRUE
  /\ host = [at |-> "none", report |-> 0] /\ host_running = FALSE
  /\ is_attached = FALSE /\ setup = FALSE /\ configured = FALSE
  /\ endpoint = <<>> /\ reports = 0
  /\ usb_buffer = <<>> /\ frame_buffer = <<>> /\ shown = <<>>
  /\ dangling = {}
-----------------------------------------------------------------------------
(***************************************************************************)
(* The render loop.                                                        *)
(***************************************************************************)
\* A key that goes down pulls its pin low, a key that goes up sets it again.
HandleKeypress(pressed, released) == (pins \cup pressed) \ released

\* The terminal reports key presses only: each one holds its key down for a few
\* frames.  `input' is what the user typed since the last frame.
UpdateKeyStateReleasingAlways(input) ==
  LET pressed == input \cap Keys
      released == {k \in Keys : key[k] = 1}
  IN
  /\ key' = [k \in Keys |-> CASE k \in pressed -> kKeyHoldTime
                              [] k \notin pressed /\ key[k] > 0 -> key[k] - 1
                              [] OTHER -> 0]
  /\ pins' = HandleKeypress(pressed, released)
  /\ is_running' = (is_running /\ "q" \notin input)

UpdateKeyState(input) ==
  LET pressed == input \cap Keys
      released == {k \in Keys \ pressed : key[k] = 1}
  IN
  /\ key' = [k \in Keys |-> CASE k \in pressed -> kKeyHoldTime
                              [] k \notin pressed /\ key[k] > 0 -> key[k] - 1
                              [] OTHER -> 0]
  /\ pins' = HandleKeypress(pressed, released)
  /\ is_running' = (is_running /\ "q" \notin input)

\* `g' attaches the debugger, which stops the MCU, or detaches it.
ToggleGdb(input) ==
  IF "g" \in input
    THEN gdb' = ~gdb /\ cpu' = IF gdb THEN "RUNNING" ELSE "STOPPED"
    ELSE UNCHANGED <<gdb, cpu>>

\* At most two characters are typed in a frame; their order does not matter.
Inputs == {input \in SUBSET (Keys \cup {"q", "g"}) : Cardinality(input) <= 2}

\* A frame holds the screen mutex to its end.
BeginFrame ==
  /\ ui = "frame" /\ is_running
  /\ \E input \in IF typed < MaxTyped THEN Inputs ELSE {{}} :
       /\ UpdateKeyState(input)
       /\ ToggleGdb(input)
       /\ typed' = IF input = {} THEN typed ELSE typed + 1
  /\ ui' = "copy"
  /\ UNCHANGED <<sim, sim_running, host, host_running, usbVars, usb_buffer,
                 frame_buffer, shown, dangling>>

GetDeviceState ==
  /\ ui = "copy"
  /\ frame_buffer' = usb_buffer
  /\ ui' = "clear"
  /\ UNCHANGED <<is_running, key, typed, pins, gdb, cpu, sim, sim_running, host,
                 host_running, usbVars, usb_buffer, shown, dangling>>

ClearUsbBufferNever ==
  /\ ui = "clear"
  /\ ui' = "show"
  /\ UNCHANGED <<is_running, key, typed, pins, gdb, cpu, sim, sim_running, host,
                 host_running, usbVars, usb_buffer, frame_buffer, shown,
                 dangling>>

ClearUsbBuffer ==
  /\ ui = "clear"
  /\ usb_buffer' = <<>>
  /\ ui' = "show"
  /\ UNCHANGED <<is_running, key, typed, pins, gdb, cpu, sim, sim_running, host,
                 host_running, usbVars, frame_buffer, shown, dangling>>

DrawNewest ==
  /\ ui = "show"
  /\ shown' = IF frame_buffer = <<>> THEN shown
              ELSE Append(shown, Last(frame_buffer))
  /\ ui' = "frame"
  /\ UNCHANGED <<is_running, key, typed, pins, gdb, cpu, sim, sim_running, host,
                 host_running, usbVars, usb_buffer, frame_buffer, dangling>>

Draw ==
  /\ ui = "show"
  /\ shown' = shown \o frame_buffer
  /\ ui' = "frame"
  /\ UNCHANGED <<is_running, key, typed, pins, gdb, cpu, sim, sim_running, host,
                 host_running, usbVars, usb_buffer, frame_buffer, dangling>>
-----------------------------------------------------------------------------
(***************************************************************************)
(* Shutting down: RunSimulator returns and destroys the UI, then the       *)
(* Simulator and its members, the device state before the USB host.        *)
(***************************************************************************)
UiStep(from, to) ==
  /\ ui = from /\ ui' = to
  /\ UNCHANGED <<is_running, key, typed, pins, gdb, cpu, sim, host, usbVars,
                 usb_buffer, frame_buffer, shown, dangling>>

DestroyUi ==
  /\ ~is_running
  /\ UiStep("frame", "stop")
  /\ UNCHANGED <<sim_running, host_running>>

StopSimulation ==
  /\ UiStep("stop", "join")
  /\ sim_running' = FALSE
  /\ UNCHANGED host_running

JoinSimulationNever ==
  /\ UiStep("join", "usb")
  /\ UNCHANGED <<sim_running, host_running>>

JoinSimulation ==
  /\ sim = "done"
  /\ UiStep("join", "usb")
  /\ UNCHANGED <<sim_running, host_running>>

DestroyUsbHostKeepingItRunning ==
  /\ IF host_running THEN UiStep("usb", "join_usb")
     ELSE IF host.at = "none" THEN UiStep("usb", "returned")
     ELSE UiStep("usb", "terminated")
  /\ UNCHANGED <<sim_running, host_running>>

\* The thread itself sets is_running_.  If it has not come that far it is not
\* joined, and destroying it terminates the program.
DestroyUsbHost ==
  /\ IF host_running
       THEN UiStep("usb", "join_usb") /\ host_running' = FALSE
     ELSE /\ IF host.at = "none" THEN UiStep("usb", "returned")
             ELSE UiStep("usb", "terminated")
          /\ UNCHANGED host_running
  /\ UNCHANGED sim_running

JoinUsbHost ==
  /\ host.at = "done"
  /\ UiStep("join_usb", "returned")
  /\ UNCHANGED <<sim_running, host_running>>

UiThread ==
  \/ BeginFrame \/ GetDeviceState \/ ClearUsbBuffer \/ Draw
  \/ DestroyUi \/ StopSimulation \/ JoinSimulation
  \/ DestroyUsbHost \/ JoinUsbHost
-----------------------------------------------------------------------------
(***************************************************************************)
(* The sim thread: one turn of its loop runs the MCU for a while.          *)
(***************************************************************************)
CheckRunning ==
  /\ sim = "check"
  /\ IF sim_running /\ cpu # "CRASHED"
       THEN sim' = "run" /\ UNCHANGED sim_running
       ELSE sim' = "done" /\ sim_running' = FALSE
  /\ UNCHANGED <<uiVars, cpu, host, host_running, usbVars, usb_buffer, dangling>>

SimStep(then) ==
  /\ sim = "run" /\ sim' = then
  /\ UNCHANGED <<uiVars, sim_running, host_running, usb_buffer, dangling>>

RunMcu ==
  /\ SimStep("check")
  /\ UNCHANGED <<cpu, host, usbVars>>

\* The callback starts the host thread on the first attach.  The firmware never
\* detaches: it clears DETACH once, in Setup().
InternalUsbAttachCallback ==
  /\ cpu = "RUNNING" /\ ~is_attached
  /\ SimStep("check")
  /\ is_attached' = TRUE
  /\ host' = [host EXCEPT !.at = "start"]
  /\ UNCHANGED <<cpu, setup, configured, endpoint, reports>>

FirmwareHandlesSetup ==
  /\ cpu = "RUNNING" /\ setup
  /\ SimStep("check")
  /\ setup' = FALSE /\ configured' = TRUE
  /\ UNCHANGED <<cpu, host, is_attached, endpoint, reports>>

\* A key is pressed and then released, a report each.
FirmwareSendsReport ==
  /\ cpu = "RUNNING" /\ configured
  /\ Len(endpoint) < Banks /\ reports < 2 * MaxPresses
  /\ SimStep("check")
  /\ reports' = reports + 1
  /\ endpoint' = Append(endpoint, ReportAt(reports + 1))
  /\ UNCHANGED <<cpu, host, is_attached, setup, configured>>

McuCrashes ==
  /\ cpu = "RUNNING"
  /\ SimStep("check")
  /\ cpu' = "CRASHED"
  /\ UNCHANGED <<host, usbVars>>

\* The firmware has sent a line over its UART, or an EEPROM or simavr logs one.
BeginLog ==
  /\ SimStep("log")
  /\ UNCHANGED <<cpu, host, usbVars>>

\* HandleLogLine writes to a pad of the UI under the screen mutex.
HandleLogLine ==
  /\ sim = "log" /\ ~InFrame
  /\ dangling' = IF UiIsAlive THEN dangling ELSE dangling \cup {"UI"}
  /\ sim' = "check"
  /\ UNCHANGED <<uiVars, cpu, sim_running, host, host_running, usbVars,
                 usb_buffer>>

SimThread ==
  /\ ~Stopped
  /\ \/ CheckRunning \/ RunMcu \/ InternalUsbAttachCallback
     \/ FirmwareHandlesSetup \/ FirmwareSendsReport \/ McuCrashes
     \/ BeginLog \/ HandleLogLine
-----------------------------------------------------------------------------
(***************************************************************************)
(* The host thread.                                                        *)
(***************************************************************************)
HostStep(from) ==
  /\ host.at = from
  /\ UNCHANGED <<uiVars, cpu, sim, sim_running, is_attached, configured,
                 reports>>

HostGoto(at) == host' = [at |-> at, report |-> 0]

StartHost ==
  /\ HostStep("start")
  /\ HostGoto("check")
  /\ host_running' = TRUE
  /\ UNCHANGED <<setup, endpoint, usb_buffer, dangling>>

DeviceControlLoop ==
  /\ HostStep("check")
  /\ HostGoto(IF host_running /\ is_attached THEN "poll" ELSE "done")
  /\ UNCHANGED <<host_running, setup, endpoint, usb_buffer, dangling>>

PollDeviceEndpoints ==
  /\ HostStep("poll")
  /\ CASE ~configured ->
            HostGoto("check") /\ setup' = TRUE /\ UNCHANGED endpoint
       [] configured /\ endpoint = <<>> ->
            HostGoto("check") /\ UNCHANGED <<setup, endpoint>>
       [] configured /\ endpoint # <<>> ->
            /\ endpoint' = Tail(endpoint)
            /\ host' = IF Head(endpoint) = 0
                         THEN [at |-> "check", report |-> 0]
                         ELSE [at |-> "output", report |-> Head(endpoint)]
            /\ UNCHANGED setup
  /\ UNCHANGED <<host_running, usb_buffer, dangling>>

HandleUsbOutput ==
  /\ HostStep("output")
  /\ HostGoto("check")
  /\ IF DeviceStateIsAlive
       THEN usb_buffer' = Append(usb_buffer, host.report) /\ UNCHANGED dangling
       ELSE dangling' = dangling \cup {"device_state_"} /\ UNCHANGED usb_buffer
  /\ UNCHANGED <<host_running, setup, endpoint>>

HostThread ==
  /\ ~Stopped
  /\ \/ StartHost \/ DeviceControlLoop \/ PollDeviceEndpoints
     \/ HandleUsbOutput

Next == UiThread \/ SimThread \/ HostThread

\* The operating system runs every thread that can run.
Spec ==
  Init /\ [][Next]_vars /\ WF_vars(UiThread) /\ WF_vars(SimThread)
       /\ WF_vars(HostThread)
-----------------------------------------------------------------------------
(***************************************************************************)
(* Properties.                                                             *)
(***************************************************************************)
\* The firmware sees a key down exactly while the UI counts its frames, also if
\* it is typed again in the frame in which it was to go up.
PinsFollowKeys == \A k \in Keys : k \in pins <=> key[k] > 0

Increasing(s) == \A i, j \in DOMAIN s : i < j => s[i] < s[j]

\* Characters are shown in the order in which they were sent, and none twice,
\* however frames and polls interleave.
OutputInOrder ==
  /\ Increasing(shown)
  /\ Increasing(usb_buffer)
  /\ \A i \in DOMAIN shown, j \in DOMAIN usb_buffer : shown[i] < usb_buffer[j]

\* What is in the buffer between two frames is shown by the next one.  (What
\* the host appends between the copy and the clear never is: NoOutputIsLost.)
BufferedOutputIsShown ==
  \A c \in 1..MaxPresses :
    ui = "frame" /\ is_running /\ c \in Range(usb_buffer) ~> c \in Range(shown)

\* `q' ends the program, whatever the threads are doing: no join waits for a
\* thread that waits for the screen or was not told to stop.
QuitEnds == ~is_running ~> Stopped

\* When RunSimulator returns no thread is left behind, and the only way not to
\* return is to quit before the host thread has run for the first time.
NoThreadSurvives ==
  /\ ui = "returned" => sim = "done" /\ host.at \in {"none", "done"}
  /\ ui = "terminated" => host.at = "start"

\* simulator_manual_and_design.md:16: the simulator outputs the keypresses the
\* firmware sends.  What leaves the buffer would have to be in the copy.
NoOutputIsLost ==
  [][Range(usb_buffer) \subseteq Range(usb_buffer') \cup Range(frame_buffer)]_vars

\* main.cpp:41 reports a successful shutdown: nothing was called that had been
\* destroyed by then.
NothingDangles == dangling = {}

=============================================================================
