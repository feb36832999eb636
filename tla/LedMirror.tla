----------------------------- MODULE LedMirror -----------------------------
(***************************************************************************)
(* How the simulator knows which LEDs are lit: a callback sees every value *)
(* written to ports B and D before it is stored, takes the row that is on  *)
(* from it and that row's columns from port F, and keeps the last it saw   *)
(* of each row in device_state_.  The UI draws it, and the property test   *)
(* compares it with its model after five runs of ScanNextLine.             *)
(***************************************************************************)
EXTENDS LedController, Sequences

VARIABLES
  device_state,  \* the LEDs it shows as lit, by row and by name
  refreshed      \* history: whole scans since a setter, at most five

mirrorVars == <<vars, device_state, refreshed>>

MirrorInit ==
  /\ Init
  /\ device_state = [banks |-> [r \in BankLines |-> {}], leds |-> {}]
  /\ refreshed = 0

\* What is lit is shown and what is dark is not.
Shows(leds, of, lit) == (leds \ of) \cup lit

\* ERR and STATUS are looked at with the first two rows; PORTB and PORTC still
\* hold what was stored before this write.
UpdateLedStateOnlyLighting(row) ==
  device_state' =
    [banks |-> IF row \in BankLines
                 THEN [device_state.banks EXCEPT ![row] = @ \cup lows]
                 ELSE device_state.banks,
     leds |-> device_state.leds \cup
       (CASE row = 0 /\ statusPin /\ ~errPin -> {"STATUS"}
          [] row = 1 /\ errPin /\ ~statusPin -> {"ERR"}
          [] row = 4 -> lows
          [] OTHER -> {})]

UpdateLedState(row) ==
  device_state' =
    [banks |-> IF row \in BankLines
                 THEN [device_state.banks EXCEPT ![row] = lows]
                 ELSE device_state.banks,
     leds |-> LET leds == device_state.leds IN
       CASE row = 0 -> Shows(leds, {"STATUS"},
                             IF statusPin /\ ~errPin THEN {"STATUS"} ELSE {})
         [] row = 1 -> Shows(leds, {"ERR"},
                             IF errPin /\ ~statusPin THEN {"ERR"} ELSE {})
         [] row = 4 -> Shows(leds, Columns, lows)
         [] OTHER -> leds]

\* The row pins on a port, in the order in which they are tested.
PORTB == <<4, 1>>
PORTD == <<0, 2, 3>>

HandlePortWrite(port) ==
  LET on == {i \in DOMAIN port : port[i] \in rows'} IN
  IF on = {} THEN UNCHANGED device_state
  ELSE UpdateLedState(port[CHOOSE i \in on : \A j \in on : i <= j])

\* The steps of the scan that write to a port the simulator listens to.
WritesStatusToPortB == scan_line = 1 \/ (scan_line = 0 /\ Lit("STATUS"))

MirroredStatus ==
  /\ WriteStatus
  /\ IF WritesStatusToPortB THEN HandlePortWrite(PORTB)
                            ELSE UNCHANGED device_state
  /\ UNCHANGED refreshed

MirroredClear ==
  /\ \/ ClearRowsInPortB /\ HandlePortWrite(PORTB)
     \/ ClearRowsInPortD /\ HandlePortWrite(PORTD)
  /\ UNCHANGED refreshed

MirroredRow ==
  /\ EnableRow
  /\ HandlePortWrite(IF scan_line \in {1, 4} THEN PORTB ELSE PORTD)
  /\ refreshed' = IF refreshed < 5 THEN refreshed + 1 ELSE 5

Unseen ==
  /\ \/ ScanNextLine \/ WriteErr \/ ClearColumns \/ WriteColumns
     \/ UpdateBlinkStatus
  /\ UNCHANGED <<device_state, refreshed>>

MirrorNext ==
  \/ MirroredStatus \/ MirroredClear \/ MirroredRow \/ Unseen
  \/ Setters /\ refreshed' = 0 /\ UNCHANGED device_state

MirrorSpec == MirrorInit /\ [][MirrorNext]_mirrorVars
-----------------------------------------------------------------------------
(***************************************************************************)
(* Properties.                                                             *)
(***************************************************************************)
\* Five scans.  The function itself stops where the fifth begins; it is complete
\* when the test has gone on to the next iteration of the event loop.
RunUntilFullLedRefresh == refreshed = 5 /\ step = "ready"

\* Five runs of ScanNextLine after the state was last set, whatever scan they
\* begin with and whatever the pins were before, the simulator shows what the
\* state asks for: every bank, and every LED that does not blink.
FullRefreshIsEnough ==
  RunUntilFullLedRefresh =>
    /\ device_state.banks = bank
    /\ \A l \in Leds : led[l].state # "BLINK" =>
         (l \in device_state.leds <=> led[l].state \in {"ON", "PULSE"})

=============================================================================
