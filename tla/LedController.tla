--------------------------- MODULE LedController ---------------------------
(***************************************************************************)
(* The LED controller: the state the rest of the firmware sets, the raster *)
(* scan that copies it to the pins one row every 2ms, and the blink timer  *)
(* advanced every 5ms.                                                     *)
(*                                                                         *)
(* A LED follows its pins at once, also in the middle of an interrupt      *)
(* handler: each write of ScanNextLine to a port is a step.  The rest of   *)
(* the firmware runs between two handlers only (`step' is "ready"); its    *)
(* setters store a byte or two.                                            *)
(***************************************************************************)
EXTENDS Integers

CONSTANTS
  Columns,     \* the column pins; on row 4 they are R, G, B and PROG
  PulseRange,  \* 64: pulse_timer has six bits
  BlinkRange,  \* 64: polls of the blink timer between two toggles
  States       \* LedStates the firmware sets

ASSUME LedAssumption ==
  /\ PulseRange \in Nat \ {0} /\ BlinkRange \in Nat \ {0}
  /\ States \subseteq {"OFF", "ON", "BLINK", "PULSE"}
  /\ "ERR" \notin Columns /\ "STATUS" \notin Columns

VARIABLES
  bank,            \* the columns lit on rows 0-3: bank 0, then bank 1
  led,             \* the LedState::FullState of the other LEDs
  next_scan_line,
  blink_status,    \* its counter, and the bit that lights blinking LEDs
  scans,           \* scans since the blink timer was polled
  step, scan_line, \* where ScanNextLine is
  rows,            \* row pins that are high
  lows,            \* column pins that are low
  statusPin,       \* PB6
  errPin           \* PC6

state == <<bank, led>>
pins == <<rows, lows, statusPin, errPin>>
vars == <<state, next_scan_line, blink_status, scans, step, scan_line, pins>>

Lines == 0..4
BankLines == 0..3
Leds == Columns \cup {"ERR", "STATUS"}

\* Cycles of the 16MHz clock between two interrupts: 2ms and 5ms.
Timer1Period == 31999 + 1
Timer3Period == 64 * (1249 + 1)

\* Setting a state restarts the LED's pulse timer.
FullState(s) == [state |-> s, pulse_timer |-> 0]

Init ==
  /\ bank = [r \in BankLines |-> {}]
  /\ led = [l \in Leds |-> FullState("OFF")]
  /\ next_scan_line = 0
  /\ blink_status = [count |-> 0, lit |-> FALSE]
  /\ scans = 0
  /\ step = "ready" /\ scan_line = 0
  /\ rows = {} /\ lows = {} /\ statusPin = FALSE /\ errPin = FALSE
-----------------------------------------------------------------------------
(***************************************************************************)
(* The setters of LedState.                                                *)
(***************************************************************************)
SetLed(l, s) ==
  /\ step = "ready"
  /\ led' = [led EXCEPT ![l] = FullState(s)]
  /\ UNCHANGED <<bank, next_scan_line, blink_status, scans, step, scan_line,
                 pins>>

\* A bank is one byte: its high bits are one row, its low bits the next.
SetBank(first, high, low) ==
  /\ step = "ready"
  /\ bank' = [bank EXCEPT ![first] = high, ![first + 1] = low]
  /\ UNCHANGED <<led, next_scan_line, blink_status, scans, step, scan_line,
                 pins>>
-----------------------------------------------------------------------------
(***************************************************************************)
(* The scan.                                                               *)
(***************************************************************************)
PulseElapses(l) == (led[l].pulse_timer + 1) % PulseRange = 0

Lit(l) ==
  \/ led[l].state = "ON"
  \/ led[l].state = "BLINK" /\ blink_status.lit
  \/ led[l].state = "PULSE" /\ ~PulseElapses(l)

AppliedWithoutTimer(l) == led[l]

\* The LED's state after ApplyLedState.
Applied(l) ==
  IF led[l].state # "PULSE" THEN led[l]
  ELSE IF PulseElapses(l) THEN FullState("OFF")
  ELSE [led[l] EXCEPT !.pulse_timer = @ + 1]

\* Timer 1 runs two or three times for each run of timer 3.
ScanNextLine ==
  /\ step = "ready" /\ scans * Timer1Period < Timer3Period
  /\ scans' = scans + 1
  /\ scan_line' = next_scan_line
  /\ next_scan_line' = (next_scan_line + 1) % 5
  /\ step' = "status"
  /\ UNCHANGED <<state, blink_status, pins>>

\* ERR is enabled on row 1 only once STATUS is disabled, and STATUS on row 0
\* after row 2 has disabled ERR.
WriteStatusForgettingErr ==
  /\ step = "status"
  /\ CASE scan_line = 0 ->
            /\ statusPin' = (statusPin \/ Lit("STATUS"))
            /\ led' = [led EXCEPT !["STATUS"] = Applied("STATUS")]
            /\ UNCHANGED errPin
       [] scan_line = 1 -> statusPin' = FALSE /\ UNCHANGED <<led, errPin>>
       [] OTHER -> UNCHANGED <<led, statusPin, errPin>>
  /\ step' = "err"
  /\ UNCHANGED <<bank, next_scan_line, blink_status, scans, scan_line, rows,
                 lows>>

WriteStatus ==
  /\ step = "status"
  /\ CASE scan_line = 0 ->
            /\ statusPin' = (statusPin \/ Lit("STATUS"))
            /\ led' = [led EXCEPT !["STATUS"] = Applied("STATUS")]
            /\ UNCHANGED errPin
       [] scan_line = 1 -> statusPin' = FALSE /\ UNCHANGED <<led, errPin>>
       [] scan_line = 2 -> errPin' = FALSE /\ UNCHANGED <<led, statusPin>>
       [] OTHER -> UNCHANGED <<led, statusPin, errPin>>
  /\ step' = "err"
  /\ UNCHANGED <<bank, next_scan_line, blink_status, scans, scan_line, rows,
                 lows>>

WriteErr ==
  /\ step = "err"
  /\ IF scan_line = 1
       THEN /\ errPin' = (errPin \/ Lit("ERR"))
            /\ led' = [led EXCEPT !["ERR"] = Applied("ERR")]
       ELSE UNCHANGED <<led, errPin>>
  /\ step' = "rowsB"
  /\ UNCHANGED <<bank, next_scan_line, blink_status, scans, scan_line, rows,
                 lows, statusPin>>

ClearRowsInPortB ==
  /\ step = "rowsB"
  /\ rows' = rows \ {1, 4}
  /\ step' = "rowsD"
  /\ UNCHANGED <<state, next_scan_line, blink_status, scans, scan_line, lows,
                 statusPin, errPin>>

ClearRowsInPortDPartly ==
  /\ step = "rowsD"
  /\ rows' = rows \ {0, 2}
  /\ step' = "columns"
  /\ UNCHANGED <<state, next_scan_line, blink_status, scans, scan_line, lows,
                 statusPin, errPin>>

ClearRowsInPortD ==
  /\ step = "rowsD"
  /\ rows' = rows \ {0, 2, 3}
  /\ step' = "columns"
  /\ UNCHANGED <<state, next_scan_line, blink_status, scans, scan_line, lows,
                 statusPin, errPin>>

ClearColumnsNever ==
  /\ step = "columns"
  /\ step' = "write"
  /\ UNCHANGED <<state, next_scan_line, blink_status, scans, scan_line, pins>>

ClearColumns ==
  /\ step = "columns"
  /\ lows' = {}
  /\ step' = "write"
  /\ UNCHANGED <<state, next_scan_line, blink_status, scans, scan_line, rows,
                 statusPin, errPin>>

WriteColumns ==
  /\ step = "write"
  /\ IF scan_line < 4
       THEN lows' = lows \cup bank[scan_line] /\ UNCHANGED led
       ELSE /\ lows' = lows \cup {c \in Columns : Lit(c)}
            /\ led' = [l \in Leds |->
                         IF l \in Columns THEN Applied(l) ELSE led[l]]
  /\ step' = "row"
  /\ UNCHANGED <<bank, next_scan_line, blink_status, scans, scan_line, rows,
                 statusPin, errPin>>

EnableRow ==
  /\ step = "row"
  /\ rows' = rows \cup {scan_line}
  /\ step' = "ready"
  /\ UNCHANGED <<state, next_scan_line, blink_status, scans, scan_line, lows,
                 statusPin, errPin>>

UpdateBlinkStatusOnce ==
  /\ step = "ready" /\ (scans + 1) * Timer1Period > Timer3Period
  /\ scans' = 0
  /\ blink_status' = IF blink_status.count + 1 = BlinkRange
                       THEN [count |-> 0, lit |-> TRUE]
                       ELSE [blink_status EXCEPT !.count = @ + 1]
  /\ UNCHANGED <<state, next_scan_line, step, scan_line, pins>>

UpdateBlinkStatus ==
  /\ step = "ready" /\ (scans + 1) * Timer1Period > Timer3Period
  /\ scans' = 0
  /\ blink_status' = IF blink_status.count + 1 = BlinkRange
                       THEN [count |-> 0, lit |-> ~blink_status.lit]
                       ELSE [blink_status EXCEPT !.count = @ + 1]
  /\ UNCHANGED <<state, next_scan_line, step, scan_line, pins>>

Timers ==
  \/ ScanNextLine \/ WriteStatus \/ WriteErr
  \/ ClearRowsInPortB \/ ClearRowsInPortD \/ ClearColumns
  \/ WriteColumns \/ EnableRow
  \/ UpdateBlinkStatus

Setters ==
  \/ \E l \in Leds, s \in States : SetLed(l, s)
  \/ \E first \in {0, 2}, high, low \in SUBSET Columns :
       SetBank(first, high, low)

Next == Timers \/ Setters

Spec == Init /\ [][Next]_vars

\* Both timers keep running.
FairSpec == Spec /\ WF_vars(Timers)
-----------------------------------------------------------------------------
(***************************************************************************)
(* Properties.                                                             *)
(***************************************************************************)
\* States, timers and pins hold values of their types.
TypeOK ==
  /\ bank \in [BankLines -> SUBSET Columns]
  /\ led \in [Leds -> [state : {"OFF", "ON", "BLINK", "PULSE"},
                       pulse_timer : 0..(PulseRange - 1)]]
  /\ next_scan_line \in Lines /\ scan_line \in Lines
  /\ blink_status \in [count : 0..(BlinkRange - 1), lit : BOOLEAN]
  /\ scans \in 0..3
  /\ step \in {"ready", "status", "err", "rowsB", "rowsD", "columns", "write",
               "row"}
  /\ rows \subseteq Lines /\ lows \subseteq Columns
  /\ statusPin \in BOOLEAN /\ errPin \in BOOLEAN

\* The two LEDs wired in antiparallel are never driven together, not even
\* between two writes of a scan.
StatusAndErrExclude == ~(statusPin /\ errPin)

\* At most one row of the matrix is powered at any instant.
OneRowAtATime == \A r, s \in rows : r = s

\* What the state asks row r to show, a pulse that is over being OFF by then.
Shown(r) ==
  IF r \in BankLines
    THEN bank[r]
    ELSE {c \in Columns : \/ led[c].state \in {"ON", "PULSE"}
                          \/ led[c].state = "BLINK" /\ blink_status.lit}

\* Columns change only while no row is powered, and a row is powered only with
\* what it should show: no LED of another row flashes.
NoGhosts ==
  /\ [][lows' # lows => rows = {}]_vars
  /\ [][\A r \in rows' \ rows : lows = Shown(r)]_vars

\* Every pulse comes to an end, if nothing sets the LED again.
PulsesEnd ==
  <>[][~Setters]_vars => <>[](\A l \in Leds : led[l].state # "PULSE")

ErrIsDark == scan_line = 1 /\ step = "rowsB" /\ ~errPin
ErrIsLit == scan_line = 1 /\ step = "rowsB" /\ errPin

\* ERR left blinking is scanned lit again and again, and scanned dark again and
\* again, although the blink timer and the scan are not in step.
BlinkingErrFlashes ==
  <>[](led["ERR"].state = "BLINK") => []<>ErrIsLit /\ []<>ErrIsDark

=============================================================================
