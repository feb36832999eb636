----------------------------- MODULE LedProofs -----------------------------
(***************************************************************************)
(* Proofs about the LED controller, for every set of columns and every     *)
(* range of the timers.                                                    *)
(*                                                                         *)
(* The invariant ties the pins to the position of the scan.  A row is      *)
(* powered only from the last step of a scan to the second clearing step   *)
(* of the next, which reaches it whichever port it is in.  STATUS is       *)
(* driven only from row 0 to the start of row 1, and ERR only from row 1   *)
(* to the start of row 2.                                                  *)
(*                                                                         *)
(* The LEDs the simulator shows follow the pins by parts: what it has read *)
(* of a port is what the port held, and each line of the scan that ended   *)
(* left the bits of its own row, the dark ones included, as it asked.      *)
(***************************************************************************)
EXTENDS LedMirror, TLAPS

RowsInv ==
  /\ OneRowAtATime
  /\ step = "rowsD" => rows \subseteq {0, 2, 3}
  /\ step \in {"columns", "write", "row"} => rows = {}

ColumnsInv ==
  /\ step = "write" => lows = {}
  /\ step = "row" => lows = Shown(scan_line)

LineInv ==
  \/ next_scan_line = (scan_line + 1) % 5
  \/ scan_line = 0 /\ step = "ready" /\ ~statusPin /\ ~errPin

StatusInv ==
  statusPin => \/ scan_line = 0 /\ step # "status"
               \/ scan_line = 1 /\ step = "status"

ErrInv ==
  errPin => \/ scan_line = 1 /\ step \notin {"status", "err"}
            \/ scan_line = 2 /\ step = "status"

Inv == TypeOK /\ RowsInv /\ ColumnsInv /\ LineInv /\ StatusInv /\ ErrInv

USE LedAssumption

\* Applying a LED's state counts its pulse within the timer's six bits.
LEMMA AppliedType ==
  ASSUME TypeOK, NEW l \in Leds
  PROVE  Applied(l) \in [state : {"OFF", "ON", "BLINK", "PULSE"},
                         pulse_timer : 0..(PulseRange - 1)]
<1>1. PICK s \in {"OFF", "ON", "BLINK", "PULSE"}, t \in 0..(PulseRange - 1) :
        led[l] = [state |-> s, pulse_timer |-> t]
  BY DEF TypeOK
<1>2. CASE s # "PULSE"
  BY <1>1, <1>2 DEF Applied
<1>3. CASE PulseElapses(l)
  BY <1>1, <1>3 DEF Applied, FullState
<1>4. CASE s = "PULSE" /\ ~PulseElapses(l)
  <2>1. t + 1 \in 0..(PulseRange - 1)
    BY <1>1, <1>4 DEF PulseElapses
  <2>2. Applied(l) = [state |-> s, pulse_timer |-> t + 1]
    BY <1>1, <1>4 DEF Applied
  <2>3. QED
    BY <2>1, <2>2
<1>5. QED
  BY <1>2, <1>3, <1>4

\* A LED whose state has been applied shows what it was applied as.
LEMMA AppliedShown ==
  ASSUME TypeOK, NEW l \in Leds
  PROVE  Lit(l) <=> \/ Applied(l).state \in {"ON", "PULSE"}
                    \/ Applied(l).state = "BLINK" /\ blink_status.lit
<1>1. PICK s \in {"OFF", "ON", "BLINK", "PULSE"}, t \in 0..(PulseRange - 1) :
        led[l] = [state |-> s, pulse_timer |-> t]
  BY DEF TypeOK
<1>2. CASE s # "PULSE"
  BY <1>1, <1>2 DEF Applied, Lit
<1>3. CASE s = "PULSE"
  BY <1>1, <1>3 DEF Applied, Lit, FullState
<1>4. QED
  BY <1>2, <1>3

\* Every LED is dark when the board starts.
LEMMA InitInv == Init => Inv
<1> SUFFICES ASSUME Init PROVE Inv
  OBVIOUS
<1>1. led \in [Leds -> [state : {"OFF", "ON", "BLINK", "PULSE"},
                        pulse_timer : 0..(PulseRange - 1)]]
  <2>1. FullState("OFF") \in [state : {"OFF", "ON", "BLINK", "PULSE"},
                              pulse_timer : 0..(PulseRange - 1)]
    BY DEF FullState
  <2>2. QED
    BY <2>1, Zenon DEF Init
<1>2. bank \in [BankLines -> SUBSET Columns]
  BY DEF Init
<1>3. blink_status \in [count : 0..(BlinkRange - 1), lit : BOOLEAN]
  BY DEF Init
<1>4. TypeOK
  <2>1. /\ next_scan_line \in Lines /\ scan_line \in Lines /\ scans \in 0..3
        /\ rows \subseteq Lines /\ lows \subseteq Columns
    BY DEF Init, Lines
  <2>2. /\ step \in {"ready", "status", "err", "rowsB", "rowsD", "columns",
                     "write", "row"}
        /\ statusPin \in BOOLEAN /\ errPin \in BOOLEAN
    BY DEF Init
  <2>3. QED
    BY <1>1, <1>2, <1>3, <2>1, <2>2, Zenon DEF TypeOK
<1>5. QED
  BY <1>4 DEF Init, Inv, RowsInv, OneRowAtATime, ColumnsInv, LineInv, StatusInv,
              ErrInv

\* Every step keeps the variables within their types.
LEMMA NextType == TypeOK /\ [Next]_vars => TypeOK'
<1> SUFFICES ASSUME TypeOK, [Next]_vars PROVE TypeOK'
  OBVIOUS
<1>1. ASSUME NEW l \in Leds, NEW s \in States, SetLed(l, s) PROVE TypeOK'
  BY <1>1 DEF SetLed, TypeOK, FullState, pins
<1>2. ASSUME NEW first \in {0, 2}, NEW high \in SUBSET Columns,
             NEW low \in SUBSET Columns, SetBank(first, high, low)
      PROVE  TypeOK'
  BY <1>2 DEF SetBank, TypeOK, BankLines, pins
<1>3. CASE ScanNextLine
  BY <1>3
     DEF ScanNextLine, Timer1Period, Timer3Period, TypeOK, Lines, pins, state
<1>4. CASE WriteStatus
  <2>1. "STATUS" \in Leds
    BY DEF Leds
  <2>2. led' \in [Leds -> [state : {"OFF", "ON", "BLINK", "PULSE"},
                           pulse_timer : 0..(PulseRange - 1)]]
    BY <1>4, <2>1, AppliedType DEF WriteStatus, TypeOK
  <2>3. statusPin' \in BOOLEAN /\ errPin' \in BOOLEAN
    BY <1>4 DEF WriteStatus, TypeOK, Lit
  <2>4. QED
    BY <1>4, <2>2, <2>3 DEF WriteStatus, TypeOK
<1>5. CASE WriteErr
  <2>1. "ERR" \in Leds
    BY DEF Leds
  <2>2. led' \in [Leds -> [state : {"OFF", "ON", "BLINK", "PULSE"},
                           pulse_timer : 0..(PulseRange - 1)]]
    BY <1>5, <2>1, AppliedType DEF WriteErr, TypeOK
  <2>3. errPin' \in BOOLEAN
    BY <1>5 DEF WriteErr, TypeOK, Lit
  <2>4. QED
    BY <1>5, <2>2, <2>3 DEF WriteErr, TypeOK
<1>6. CASE ClearRowsInPortB
  BY <1>6 DEF ClearRowsInPortB, TypeOK, state
<1>7. CASE ClearRowsInPortD
  BY <1>7 DEF ClearRowsInPortD, TypeOK, state
<1>8. CASE ClearColumns
  BY <1>8 DEF ClearColumns, TypeOK, state
<1>9. CASE WriteColumns
  <2>1. led' \in [Leds -> [state : {"OFF", "ON", "BLINK", "PULSE"},
                           pulse_timer : 0..(PulseRange - 1)]]
    BY <1>9, AppliedType DEF WriteColumns, TypeOK
  <2>2. lows' \subseteq Columns
    BY <1>9 DEF WriteColumns, TypeOK, BankLines, Lines
  <2>3. QED
    BY <1>9, <2>1, <2>2 DEF WriteColumns, TypeOK
<1>10. CASE EnableRow
  BY <1>10 DEF EnableRow, TypeOK, state
<1>11. CASE UpdateBlinkStatus
  BY <1>11 DEF UpdateBlinkStatus, TypeOK, state, pins
<1>12. CASE UNCHANGED vars
  BY <1>12 DEF vars, state, pins, TypeOK
<1>13. QED
  BY <1>1, <1>2, <1>3, <1>4, <1>5, <1>6, <1>7, <1>8, <1>9, <1>10, <1>11, <1>12
  DEF Next, Timers, Setters

\* Every step keeps rows, columns and the two status pins where the scan is.
LEMMA NextInv == Inv /\ [Next]_vars => Inv'
<1> SUFFICES ASSUME Inv, [Next]_vars PROVE Inv'
  OBVIOUS
<1>0. TypeOK'
  BY NextType DEF Inv
<1> DEFINE Pins == (RowsInv /\ ColumnsInv /\ LineInv /\ StatusInv /\ ErrInv)'
<1>1. ASSUME Setters PROVE Pins
  BY <1>1 DEF Setters, SetLed, SetBank, Inv, RowsInv, OneRowAtATime, ColumnsInv,
              LineInv, StatusInv, ErrInv, pins
<1>2. ASSUME ScanNextLine PROVE Pins
  BY <1>2 DEF ScanNextLine, Inv, TypeOK, RowsInv, OneRowAtATime, ColumnsInv,
              LineInv, StatusInv, ErrInv, pins, Lines
<1>3. ASSUME WriteStatus PROVE Pins
  BY <1>3 DEF WriteStatus, Inv, TypeOK, RowsInv, OneRowAtATime, ColumnsInv,
              LineInv, StatusInv, ErrInv, Lines
<1>4. ASSUME WriteErr PROVE Pins
  BY <1>4 DEF WriteErr, Inv, TypeOK, RowsInv, OneRowAtATime, ColumnsInv,
              LineInv, StatusInv, ErrInv, Lines
<1>5. ASSUME ClearRowsInPortB PROVE Pins
  BY <1>5 DEF ClearRowsInPortB, Inv, TypeOK, RowsInv, OneRowAtATime, ColumnsInv,
              LineInv, StatusInv, ErrInv, Lines
<1>6. ASSUME ClearRowsInPortD PROVE Pins
  BY <1>6 DEF ClearRowsInPortD, Inv, TypeOK, RowsInv, OneRowAtATime, ColumnsInv,
              LineInv, StatusInv, ErrInv, Lines
<1>7. ASSUME ClearColumns PROVE Pins
  BY <1>7 DEF ClearColumns, Inv, TypeOK, RowsInv, OneRowAtATime, ColumnsInv,
              LineInv, StatusInv, ErrInv, Lines
<1>8. ASSUME WriteColumns PROVE Pins
  <2>1. lows' = Shown(scan_line)'
    <3>1. CASE scan_line < 4
      BY <1>8, <3>1 DEF WriteColumns, Inv, ColumnsInv, Shown, BankLines, TypeOK,
                        Lines
    <3>2. CASE scan_line = 4
      <4>1. scan_line' \notin BankLines
        BY <1>8, <3>2 DEF WriteColumns, BankLines
      <4>2. \A c \in Columns : c \in Leds /\ led'[c] = Applied(c)
        BY <1>8, <3>2 DEF WriteColumns, Leds
      <4>3. lows' = {c \in Columns : Lit(c)} /\ blink_status' = blink_status
        BY <1>8, <3>2 DEF WriteColumns, Inv, ColumnsInv
      <4>4. Shown(scan_line)' =
              {c \in Columns :
                 \/ led'[c].state \in {"ON", "PULSE"}
                 \/ led'[c].state = "BLINK" /\ blink_status'.lit}
        BY <4>1 DEF Shown
      <4>5. QED
        BY <4>2, <4>3, <4>4, AppliedShown DEF Inv
    <3>3. QED
      BY <3>1, <3>2 DEF Inv, TypeOK, Lines
  <2>2. QED
    BY <1>8, <2>1 DEF WriteColumns, Inv, RowsInv, OneRowAtATime, ColumnsInv,
                      LineInv, StatusInv, ErrInv
<1>9. ASSUME EnableRow PROVE Pins
  BY <1>9 DEF EnableRow, Inv, TypeOK, RowsInv, OneRowAtATime, ColumnsInv,
              LineInv, StatusInv, ErrInv, Lines
<1>10. ASSUME UpdateBlinkStatus PROVE Pins
  BY <1>10 DEF UpdateBlinkStatus, Inv, TypeOK, RowsInv, OneRowAtATime,
               ColumnsInv, LineInv, StatusInv, ErrInv, pins
<1>11. ASSUME UNCHANGED vars PROVE Pins
  BY <1>11 DEF vars, state, pins, Inv, RowsInv, OneRowAtATime, ColumnsInv,
               Shown, LineInv, StatusInv, ErrInv
<1>12. Pins
  BY <1>1, <1>2, <1>3, <1>4, <1>5, <1>6, <1>7, <1>8, <1>9, <1>10, <1>11
  DEF Next, Timers
<1>13. QED
  BY <1>0, <1>12 DEF Inv

\* The invariant holds in every behaviour.
THEOREM InvHolds == Spec => []Inv
<1>1. QED
  BY InitInv, NextInv, PTL DEF Spec

\* States, timers and pins keep their types.
THEOREM TypeCorrect == Spec => []TypeOK
<1>1. Inv => TypeOK
  BY DEF Inv
<1>2. QED
  BY <1>1, InvHolds, PTL

\* STATUS and ERR are never driven together, whatever is set and when.
THEOREM StatusAndErrAlwaysExclude == Spec => []StatusAndErrExclude
<1>1. Inv => StatusAndErrExclude
  BY DEF Inv, StatusInv, ErrInv, StatusAndErrExclude
<1>2. QED
  BY <1>1, InvHolds, PTL

\* Never are two rows of the matrix powered at once.
THEOREM AlwaysOneRow == Spec => []OneRowAtATime
<1>1. Inv => OneRowAtATime
  BY DEF Inv, RowsInv
<1>2. QED
  BY <1>1, InvHolds, PTL

\* No row ever shows columns of another: they change in the dark, and a row is
\* powered with its own.
THEOREM NeverGhosts == Spec => NoGhosts
<1>1. Inv /\ [Next]_vars => [lows' # lows => rows = {}]_vars
  BY DEF Inv, RowsInv, Next, Timers, Setters, SetLed, SetBank, ScanNextLine,
         WriteStatus, WriteErr, ClearRowsInPortB, ClearRowsInPortD,
         ClearColumns, WriteColumns, EnableRow, UpdateBlinkStatus, pins, state,
         vars
<1>2. Inv /\ [Next]_vars => [\A r \in rows' \ rows : lows = Shown(r)]_vars
  BY DEF Inv, ColumnsInv, Next, Timers, Setters, SetLed, SetBank, ScanNextLine,
         WriteStatus, WriteErr, ClearRowsInPortB, ClearRowsInPortD,
         ClearColumns, WriteColumns, EnableRow, UpdateBlinkStatus, pins, state,
         vars
<1>3. QED
  BY <1>1, <1>2, InvHolds, PTL DEF Spec, NoGhosts

-----------------------------------------------------------------------------
(***************************************************************************)
(* What the simulator shows.  At any point of the scan the rows that have  *)
(* been scanned since a setter are the ones just behind it; those are      *)
(* shown as the state asks for.                                            *)
(***************************************************************************)
\* The row being scanned, or the next.
Line == IF step = "ready" THEN next_scan_line ELSE scan_line

\* Rows scanned since row r was.
Since(r) == (Line + 4 - r) % 5

Scanned(r) == Since(r) < refreshed /\ (step # "ready" => r # scan_line)

Asked(l) == led[l].state \in {"ON", "PULSE"}

\* A LED that does not blink is in the set exactly if its state asks for it.
AsAsked(leds, set) ==
  \A l \in leds : led[l].state # "BLINK" => (l \in set <=> Asked(l))

\* The LEDs outside the banks that are looked at with row r.
LedsOf(r) == CASE r = 0 -> {"STATUS"}
               [] r = 1 -> {"ERR"}
               [] r = 4 -> Columns
               [] OTHER -> {}

ShownAsAsked(r) ==
  /\ r \in BankLines => device_state.banks[r] = bank[r]
  /\ AsAsked(LedsOf(r), device_state.leds)

ScannedInv == \A r \in Lines : Scanned(r) => ShownAsAsked(r)

\* The row that is powered is the one the scan has just left.
PoweredInv ==
  /\ step = "ready" =>
       \/ rows = {}
       \/ rows = {scan_line} /\ next_scan_line = (scan_line + 1) % 5
  /\ step \notin {"ready", "row"} => rows \subseteq {(scan_line + 4) % 5}

\* Row 4 is looked at once more when row 0 writes STATUS.
ColumnPinsInv ==
  4 \in rows /\ step \in {"ready", "status"} /\ refreshed > 0 =>
    AsAsked(Columns, lows)

StatusPinsInv ==
  /\ scan_line = 0 /\ step \notin {"ready", "status"} =>
       (led["STATUS"].state # "BLINK" => (statusPin <=> Asked("STATUS")))
  /\ scan_line = 1 /\ step \notin {"ready", "status", "err"} =>
       (led["ERR"].state # "BLINK" => (errPin <=> Asked("ERR")))

MirrorTypeOK ==
  /\ device_state \in [banks : [BankLines -> SUBSET Columns], leds : SUBSET Leds]
  /\ refreshed \in 0..5

MirrorInv ==
  /\ Inv /\ MirrorTypeOK
  /\ ScannedInv /\ PoweredInv /\ ColumnPinsInv /\ StatusPinsInv

-----------------------------------------------------------------------------
\* The simulator only looks on.
LEMMA MirrorStepIsStep == [MirrorNext]_mirrorVars => [Next]_vars
BY Zenon
   DEF MirrorNext, MirroredStatus, MirroredClear, MirroredRow, Unseen, Next,
       Timers, mirrorVars

LEMMA InitMirrorInv == MirrorInit => MirrorInv
<1> SUFFICES ASSUME MirrorInit
             PROVE  MirrorInv
  OBVIOUS
<1>1. Inv
  BY InitInv DEF MirrorInit
<1>2. MirrorTypeOK
  BY DEF MirrorInit, MirrorTypeOK
<1>3. ScannedInv
  <2>1. refreshed = 0 /\ Line \in Lines
    BY <1>1 DEF MirrorInit, Inv, TypeOK, Line
  <2>2. \A r \in Lines : ~Scanned(r)
    BY <2>1 DEF Scanned, Since, Lines
  <2>3. QED
    BY <2>2 DEF ScannedInv
<1>4. PoweredInv /\ ColumnPinsInv /\ StatusPinsInv
  BY DEF MirrorInit, Init, PoweredInv, ColumnPinsInv, StatusPinsInv
<1>5. QED
  BY <1>1, <1>2, <1>3, <1>4 DEF MirrorInv

\* What a callback does with the row that is on.
LEMMA RowIsShown ==
  ASSUME MirrorTypeOK, lows \subseteq Columns, NEW r \in Lines, UpdateLedState(r)
  PROVE  /\ device_state' \in [banks : [BankLines -> SUBSET Columns],
                               leds : SUBSET Leds]
         /\ r \in BankLines => device_state'.banks[r] = lows
         /\ \A q \in BankLines \ {r} :
              device_state'.banks[q] = device_state.banks[q]
         /\ \A l \in Leds \ LedsOf(r) :
              l \in device_state'.leds <=> l \in device_state.leds
         /\ r = 0 => ("STATUS" \in device_state'.leds <=> statusPin /\ ~errPin)
         /\ r = 1 => ("ERR" \in device_state'.leds <=> errPin /\ ~statusPin)
         /\ r = 4 => \A c \in Columns : c \in device_state'.leds <=> c \in lows
<1> DEFINE
  banks == IF r \in BankLines THEN [device_state.banks EXCEPT ![r] = lows]
           ELSE device_state.banks
  leds == CASE r = 0 -> Shows(device_state.leds, {"STATUS"},
                              IF statusPin /\ ~errPin THEN {"STATUS"} ELSE {})
            [] r = 1 -> Shows(device_state.leds, {"ERR"},
                              IF errPin /\ ~statusPin THEN {"ERR"} ELSE {})
            [] r = 4 -> Shows(device_state.leds, Columns, lows)
            [] OTHER -> device_state.leds
<1>1. device_state' = [banks |-> banks, leds |-> leds]
  BY Zenon DEF UpdateLedState
<1>2. /\ device_state.banks \in [BankLines -> SUBSET Columns]
      /\ device_state.leds \subseteq Leds
  BY DEF MirrorTypeOK
<1>3. /\ banks \in [BankLines -> SUBSET Columns]
      /\ r \in BankLines => banks[r] = lows
      /\ \A q \in BankLines \ {r} : banks[q] = device_state.banks[q]
  BY <1>2
<1>4. /\ leds \subseteq Leds
      /\ \A l \in Leds \ LedsOf(r) : l \in leds <=> l \in device_state.leds
      /\ r = 0 => ("STATUS" \in leds <=> statusPin /\ ~errPin)
      /\ r = 1 => ("ERR" \in leds <=> errPin /\ ~statusPin)
      /\ r = 4 => \A c \in Columns : c \in leds <=> c \in lows
  <2>1. CASE r = 0
    BY <1>2, <2>1 DEF Shows, LedsOf, Leds
  <2>2. CASE r = 1
    BY <1>2, <2>2 DEF Shows, LedsOf, Leds
  <2>3. CASE r = 4
    BY <1>2, <2>3 DEF Shows, LedsOf, Leds
  <2>4. CASE r \notin {0, 1, 4}
    BY <1>2, <2>4 DEF LedsOf
  <2>5. QED
    BY <2>1, <2>2, <2>3, <2>4
<1> HIDE DEF banks, leds
<1>5. device_state'.banks = banks /\ device_state'.leds = leds
  BY <1>1
<1>6. QED
  BY <1>1, <1>3, <1>4, <1>5

\* One row at most is on when a callback looks.
LEMMA NoRowIsOn ==
  /\ HandlePortWrite(PORTB) /\ rows' \cap {1, 4} = {} => UNCHANGED device_state
  /\ HandlePortWrite(PORTD) /\ rows' \cap {0, 2, 3} = {} => UNCHANGED device_state
<1>1. {i \in DOMAIN PORTB : PORTB[i] \in rows'} # {} => rows' \cap {1, 4} # {}
  BY DEF PORTB
<1>2. {i \in DOMAIN PORTD : PORTD[i] \in rows'} # {} => rows' \cap {0, 2, 3} # {}
  BY DEF PORTD
<1>3. QED
  BY <1>1, <1>2, Zenon DEF HandlePortWrite

LEMMA RowIsOn ==
  ASSUME NEW r \in Lines, rows' = {r}
  PROVE  /\ HandlePortWrite(PORTB) /\ r \in {1, 4} => UpdateLedState(r)
         /\ HandlePortWrite(PORTD) /\ r \in {0, 2, 3} => UpdateLedState(r)
<1>1. ASSUME NEW port, NEW i \in DOMAIN port, port[i] = r,
             \A j \in DOMAIN port : port[j] = r => j = i,
             i <= i, HandlePortWrite(port)
      PROVE  UpdateLedState(r)
  <2> DEFINE on == {j \in DOMAIN port : port[j] \in rows'}
  <2>1. on = {i}
    BY <1>1
  <2> HIDE DEF on
  <2>2. (CHOOSE k \in on : \A j \in on : k <= j) = i
    BY <1>1, <2>1
  <2>3. UpdateLedState(port[CHOOSE k \in on : \A j \in on : k <= j])
    BY <1>1, <2>1 DEF HandlePortWrite, on
  <2>4. QED
    BY <1>1, <2>2, <2>3
<1>2. ASSUME HandlePortWrite(PORTB), r \in {1, 4}
      PROVE  UpdateLedState(r)
  <2>1. \E i \in DOMAIN PORTB : /\ PORTB[i] = r /\ i <= i
                                /\ \A j \in DOMAIN PORTB : PORTB[j] = r => j = i
    BY <1>2 DEF PORTB
  <2>2. QED
    BY <1>1, <1>2, <2>1, Zenon
<1>3. ASSUME HandlePortWrite(PORTD), r \in {0, 2, 3}
      PROVE  UpdateLedState(r)
  <2>1. \E i \in DOMAIN PORTD : /\ PORTD[i] = r /\ i <= i
                                /\ \A j \in DOMAIN PORTD : PORTD[j] = r => j = i
    BY <1>3 DEF PORTD
  <2>2. QED
    BY <1>1, <1>3, <2>1, Zenon
<1>4. QED
  BY <1>2, <1>3

\* Steps that leave the rows behind the scan as they are.
LEMMA ScannedStays ==
  ASSUME MirrorInv, UNCHANGED <<device_state, bank>>,
         \A r \in Lines : Scanned(r)' =>
           Scanned(r) /\ \A l \in LedsOf(r) : led'[l] = led[l]
  PROVE  ScannedInv'
BY Zenon DEF MirrorInv, ScannedInv, ShownAsAsked, AsAsked, Asked

LEMMA PoweredIsKept ==
  ASSUME MirrorInv, [Next]_vars
  PROVE  PoweredInv'
<1> USE DEF MirrorInv, Inv, TypeOK, RowsInv, PoweredInv, Lines
<1>1. CASE Setters \/ UpdateBlinkStatus \/ UNCHANGED vars
  BY <1>1 DEF Setters, SetLed, SetBank, UpdateBlinkStatus, vars, pins
<1>2. CASE ScanNextLine
  <2>1. CASE rows = {}
    BY <1>2, <2>1 DEF ScanNextLine, pins
  <2>2. CASE rows = {scan_line} /\ next_scan_line = (scan_line + 1) % 5
    BY <1>2, <2>2 DEF ScanNextLine, pins
  <2>3. QED
    BY <1>2, <2>1, <2>2 DEF ScanNextLine
<1>3. CASE WriteStatus \/ WriteErr
  BY <1>3 DEF WriteStatus, WriteErr
<1>4. CASE ClearRowsInPortB \/ ClearRowsInPortD
  BY <1>4 DEF ClearRowsInPortB, ClearRowsInPortD
<1>5. CASE ClearColumns \/ WriteColumns
  BY <1>5 DEF ClearColumns, WriteColumns, pins
<1>6. CASE EnableRow
  BY <1>6 DEF EnableRow, LineInv
<1>7. QED
  BY <1>1, <1>2, <1>3, <1>4, <1>5, <1>6 DEF Next, Timers

\* STATUS and ERR are written once their line begins, from a dark pin.
LEMMA StatusPinsAreKept ==
  ASSUME MirrorInv, [Next]_vars
  PROVE  StatusPinsInv'
<1> USE DEF MirrorInv, StatusPinsInv, Asked
<1>1. "STATUS" \in Leds \ Columns /\ "ERR" \in Leds \ Columns /\ "STATUS" # "ERR"
  BY DEF Leds
<1>2. /\ scan_line = 0 /\ step = "status" => ~statusPin
      /\ scan_line = 1 /\ step = "err" => ~errPin
  BY DEF Inv, StatusInv, ErrInv
<1>3. \A l \in Leds : Applied(l).state # "BLINK" =>
        (Lit(l) <=> Applied(l).state \in {"ON", "PULSE"})
  BY AppliedShown DEF Inv
<1>4. led = [l \in Leds |-> led[l]]
  BY DEF Inv, TypeOK
<1>5. CASE Setters
  BY <1>5 DEF Setters, SetLed, SetBank
<1>6. CASE ScanNextLine
  BY <1>6 DEF ScanNextLine
<1>7. CASE WriteStatus
  <2>1. CASE scan_line = 0
    <3>1. /\ statusPin' = (statusPin \/ Lit("STATUS"))
          /\ led'["STATUS"] = Applied("STATUS") /\ scan_line' = 0
      BY <1>1, <1>4, <1>7, <2>1 DEF WriteStatus
    <3>2. statusPin' <=> Lit("STATUS")
      BY <1>2, <1>7, <2>1, <3>1 DEF WriteStatus
    <3>3. QED
      BY <1>1, <1>3, <3>1, <3>2
  <2>2. CASE scan_line # 0
    BY <1>7, <2>2 DEF WriteStatus
  <2>3. QED
    BY <2>1, <2>2
<1>8. CASE WriteErr
  <2>1. CASE scan_line = 1
    <3>1. /\ errPin' = (errPin \/ Lit("ERR"))
          /\ led'["ERR"] = Applied("ERR") /\ scan_line' = 1
      BY <1>1, <1>4, <1>8, <2>1 DEF WriteErr
    <3>2. errPin' <=> Lit("ERR")
      BY <1>2, <1>8, <2>1, <3>1 DEF WriteErr
    <3>3. QED
      BY <1>1, <1>3, <3>1, <3>2
  <2>2. CASE scan_line # 1
    BY <1>8, <2>2 DEF WriteErr
  <2>3. QED
    BY <2>1, <2>2
<1>9. CASE ClearRowsInPortB \/ ClearRowsInPortD \/ ClearColumns
  BY <1>9 DEF ClearRowsInPortB, ClearRowsInPortD, ClearColumns, state
<1>10. CASE WriteColumns
  <2>1. led'["STATUS"] = led["STATUS"] /\ led'["ERR"] = led["ERR"]
    BY <1>1, <1>10 DEF WriteColumns
  <2>2. QED
    BY <1>10, <2>1 DEF WriteColumns
<1>11. CASE EnableRow
  BY <1>11 DEF EnableRow
<1>12. CASE UpdateBlinkStatus \/ UNCHANGED vars
  BY <1>12 DEF UpdateBlinkStatus, vars, state, pins
<1>13. QED
  BY <1>5, <1>6, <1>7, <1>8, <1>9, <1>10, <1>11, <1>12 DEF Next, Timers

\* A row behind the scan stays there while another one is scanned.
LEMMA SetterRestarts ==
  ASSUME MirrorInv, Setters, refreshed' = 0
  PROVE  ScannedInv' /\ ColumnPinsInv'
<1>1. Line' \in Lines
  BY DEF MirrorInv, Inv, TypeOK, Setters, SetLed, SetBank, Line
<1>2. \A r \in Lines : ~Scanned(r)'
  <2>1. \A n, r \in Lines : (n + 4 - r) % 5 \in Nat
    BY DEF Lines
  <2>2. \A r \in Lines : Since(r)' = (Line' + 4 - r) % 5
    BY DEF Since
  <2>3. \A r \in Lines : Since(r)' \in Nat
    BY <1>1, <2>1, <2>2
  <2>4. QED
    BY <2>3 DEF Scanned
<1>3. QED
  BY <1>2 DEF ScannedInv, ColumnPinsInv

LEMMA UnseenKeeps ==
  ASSUME MirrorInv, Unseen
  PROVE  ScannedInv' /\ ColumnPinsInv'
<1> USE DEF MirrorInv, Inv, TypeOK
<1>0. UNCHANGED <<device_state, refreshed>>
  BY DEF Unseen
<1>1. led = [l \in Leds |-> led[l]]
  OBVIOUS
<1>2. CASE ScanNextLine
  <2>1. Line' = Line /\ step = "ready" /\ UNCHANGED <<bank, led, rows, lows>>
    BY <1>2 DEF ScanNextLine, Line, state, pins
  <2>2. \A r \in Lines : Scanned(r)' => Scanned(r)
    BY <1>0, <2>1 DEF Scanned, Since
  <2>3. ScannedInv'
    BY <1>0, <2>1, <2>2, ScannedStays
  <2>4. ColumnPinsInv'
    BY <1>0, <2>1 DEF ColumnPinsInv, AsAsked, Asked
  <2>5. QED
    BY <2>3, <2>4
<1>3. CASE UpdateBlinkStatus
  <2>1. Line' = Line /\ UNCHANGED <<step, scan_line, bank, led, rows, lows>>
    BY <1>3 DEF UpdateBlinkStatus, Line, state, pins
  <2>2. \A r \in Lines : Scanned(r)' => Scanned(r)
    BY <1>0, <2>1 DEF Scanned, Since
  <2>3. ScannedInv'
    BY <1>0, <2>1, <2>2, ScannedStays
  <2>4. ColumnPinsInv'
    BY <1>0, <2>1 DEF ColumnPinsInv, AsAsked, Asked
  <2>5. QED
    BY <2>3, <2>4
<1>4. CASE WriteErr \/ ClearColumns \/ WriteColumns
  <2>1. /\ step \notin {"ready", "row"} /\ step' \notin {"ready", "status"}
        /\ UNCHANGED <<scan_line, bank>>
    BY <1>4 DEF WriteErr, ClearColumns, WriteColumns, state
  <2>2. \A r \in Lines \ {scan_line} : \A l \in LedsOf(r) : led'[l] = led[l]
    <3>1. CASE WriteErr
      BY <1>1, <3>1 DEF WriteErr, LedsOf, Lines, Leds
    <3>2. CASE ClearColumns
      BY <3>2 DEF ClearColumns, state
    <3>3. CASE WriteColumns /\ scan_line < 4
      BY <3>3 DEF WriteColumns
    <3>4. CASE WriteColumns /\ scan_line = 4
      <4>1. \A l \in Leds \ Columns : led'[l] = led[l]
        BY <3>4 DEF WriteColumns
      <4>2. \A r \in Lines \ {4} : LedsOf(r) \subseteq Leds \ Columns
        BY DEF LedsOf, Lines, Leds
      <4>3. QED
        BY <3>4, <4>1, <4>2
    <3>5. QED
      BY <1>4, <3>1, <3>2, <3>3, <3>4 DEF Lines
  <2>3. \A r \in Lines : Scanned(r)' => Scanned(r) /\ r # scan_line
    BY <1>0, <2>1 DEF Scanned, Since, Line
  <2>4. \A r \in Lines : Scanned(r)' =>
          Scanned(r) /\ \A l \in LedsOf(r) : led'[l] = led[l]
    BY <2>2, <2>3
  <2>5. ScannedInv'
    BY <1>0, <2>1, <2>4, ScannedStays
  <2>6. ColumnPinsInv'
    BY <2>1 DEF ColumnPinsInv
  <2>7. QED
    BY <2>5, <2>6
<1>5. QED
  BY <1>2, <1>3, <1>4 DEF Unseen

\* Clearing the rows of a port, the callback finds none of its rows on.
LEMMA MirroredClearKeeps ==
  ASSUME MirrorInv, MirroredClear
  PROVE  ScannedInv' /\ ColumnPinsInv'
<1> USE DEF MirrorInv, Inv, TypeOK
<1>1. UNCHANGED device_state
  <2>1. CASE ClearRowsInPortB /\ HandlePortWrite(PORTB)
    <3>1. rows' \cap {1, 4} = {}
      BY <2>1 DEF ClearRowsInPortB
    <3>2. QED
      BY <2>1, <3>1, NoRowIsOn
  <2>2. CASE ClearRowsInPortD /\ HandlePortWrite(PORTD)
    <3>1. rows' \cap {0, 2, 3} = {}
      BY <2>2 DEF ClearRowsInPortD
    <3>2. QED
      BY <2>2, <3>1, NoRowIsOn
  <2>3. QED
    BY <2>1, <2>2 DEF MirroredClear
<1>2. /\ step \in {"rowsB", "rowsD"} /\ step' \in {"rowsD", "columns"}
      /\ UNCHANGED <<scan_line, bank, led, refreshed>>
  BY DEF MirroredClear, ClearRowsInPortB, ClearRowsInPortD, state
<1>3. \A r \in Lines : Scanned(r)' => Scanned(r)
  BY <1>2 DEF Scanned, Since, Line
<1>4. ScannedInv'
  BY <1>1, <1>2, <1>3, ScannedStays
<1>5. ColumnPinsInv'
  BY <1>2 DEF ColumnPinsInv
<1>6. QED
  BY <1>4, <1>5

\* Writing STATUS, the callback may find row 4 on, which it knows.
LEMMA MirroredStatusKeeps ==
  ASSUME MirrorInv, MirroredStatus
  PROVE  ScannedInv' /\ ColumnPinsInv' /\ MirrorTypeOK'
<1>0. \A S : S \subseteq {4} /\ S \cap {1, 4} # {} => S = {4}
  OBVIOUS
<1> USE DEF MirrorInv, Inv, TypeOK
<1>1. /\ step = "status" /\ step' = "err"
      /\ UNCHANGED <<scan_line, bank, rows, lows, refreshed>>
  BY DEF MirroredStatus, WriteStatus
<1>2. ColumnPinsInv'
  BY <1>1 DEF ColumnPinsInv
<1>3. \A r \in Lines \ {scan_line} : \A l \in LedsOf(r) : led'[l] = led[l]
  <2>1. led = [l \in Leds |-> led[l]]
    OBVIOUS
  <2>2. CASE scan_line = 0
    <3>1. \A l \in Leds \ {"STATUS"} : led'[l] = led[l]
      BY <2>1, <2>2 DEF MirroredStatus, WriteStatus
    <3>2. \A r \in Lines \ {0} : LedsOf(r) \subseteq Leds \ {"STATUS"}
      BY DEF LedsOf, Lines, Leds
    <3>3. QED
      BY <2>2, <3>1, <3>2
  <2>3. CASE scan_line # 0
    BY <2>3 DEF MirroredStatus, WriteStatus
  <2>4. QED
    BY <2>2, <2>3
<1>4. \A r \in Lines : Scanned(r)' => Scanned(r) /\ r # scan_line
  BY <1>1 DEF Scanned, Since, Line
<1>5. CASE UNCHANGED device_state
  <2>1. ScannedInv'
    BY <1>1, <1>3, <1>4, <1>5, ScannedStays
  <2>2. QED
    BY <1>1, <1>2, <1>5, <2>1 DEF MirrorTypeOK
<1>6. CASE ~UNCHANGED device_state
  <2>1. HandlePortWrite(PORTB) /\ scan_line \in {0, 1}
    BY <1>6 DEF MirroredStatus, WritesStatusToPortB
  <2>2. rows' \cap {1, 4} # {}
    BY <1>6, <2>1, NoRowIsOn
  <2>3. rows = {4} /\ rows' = {4} /\ scan_line = 0
    <3>1. rows' = rows /\ rows \subseteq {(scan_line + 4) % 5}
      BY <1>1 DEF PoweredInv
    <3>2. CASE scan_line = 0
      <4>1. rows \subseteq {4}
        BY <3>1, <3>2
      <4>2. rows = {4}
        BY <1>0, <2>2, <3>1, <4>1, Zenon
      <4>3. QED
        BY <3>1, <3>2, <4>2
    <3>3. CASE scan_line = 1
      <4>1. rows \subseteq {0}
        BY <3>1, <3>3
      <4>2. QED
        BY <2>2, <3>1, <4>1
    <3>4. QED
      BY <2>1, <3>2, <3>3
  <2>4. UpdateLedState(4)
    BY <2>1, <2>3, RowIsOn DEF Lines
  <2>5. /\ device_state' \in [banks : [BankLines -> SUBSET Columns],
                              leds : SUBSET Leds]
        /\ \A q \in BankLines : device_state'.banks[q] = device_state.banks[q]
        /\ \A l \in Leds \ Columns :
             l \in device_state'.leds <=> l \in device_state.leds
        /\ \A c \in Columns : c \in device_state'.leds <=> c \in lows
    BY <2>4, RowIsShown DEF Lines, BankLines, LedsOf
  <2>6. ASSUME NEW r \in Lines, Scanned(r)'
        PROVE  ShownAsAsked(r)'
    <3>1. Scanned(r) /\ r # scan_line /\ ShownAsAsked(r)
      BY <1>4, <2>6 DEF ScannedInv
    <3>2. r \in BankLines => device_state'.banks[r] = bank'[r]
      BY <1>1, <2>5, <3>1 DEF ShownAsAsked
    <3>3. AsAsked(LedsOf(r), device_state.leds)
      BY <3>1 DEF ShownAsAsked
    <3>4. CASE r = 4
      <4>1. refreshed > 0
        BY <3>1, <3>4 DEF Scanned, Since, Line, Lines, MirrorTypeOK
      <4>2. AsAsked(Columns, lows)
        BY <1>1, <2>3, <4>1 DEF ColumnPinsInv
      <4>3. LedsOf(r) = Columns
        BY <3>4 DEF LedsOf
      <4>4. \A c \in Columns : led'[c] = led[c]
        BY <1>3, <3>1, <4>3
      <4>5. AsAsked(LedsOf(r), device_state.leds)'
        BY <2>5, <4>2, <4>3, <4>4 DEF AsAsked, Asked
      <4>6. QED
        BY <3>2, <4>5 DEF ShownAsAsked
    <3>5. CASE r # 4
      <4>1. LedsOf(r) \subseteq Leds \ Columns
        BY <3>5 DEF LedsOf, Leds, Lines
      <4>2. \A l \in LedsOf(r) : led'[l] = led[l]
        BY <1>3, <3>1
      <4>3. AsAsked(LedsOf(r), device_state.leds)'
        BY <2>5, <3>3, <4>1, <4>2 DEF AsAsked, Asked
      <4>4. QED
        BY <3>2, <4>3 DEF ShownAsAsked
    <3>6. QED
      BY <3>4, <3>5
  <2>7. MirrorTypeOK'
    BY <1>1, <2>5 DEF MirrorTypeOK
  <2>8. QED
    BY <1>2, <2>6, <2>7 DEF ScannedInv
<1>7. QED
  BY <1>5, <1>6

\* Enabling a row, the callback finds it on, its columns set.
LEMMA MirroredRowKeeps ==
  ASSUME MirrorInv, MirroredRow
  PROVE  ScannedInv' /\ ColumnPinsInv' /\ MirrorTypeOK'
<1> USE DEF MirrorInv, Inv, TypeOK
<1>1. /\ step = "row" /\ step' = "ready" /\ rows' = {scan_line}
      /\ lows = Shown(scan_line) /\ lows \subseteq Columns
      /\ next_scan_line = (scan_line + 1) % 5 /\ scan_line \in Lines
      /\ UNCHANGED <<scan_line, next_scan_line, bank, led, lows>>
      /\ refreshed' = (IF refreshed < 5 THEN refreshed + 1 ELSE 5)
  BY DEF MirroredRow, EnableRow, RowsInv, ColumnsInv, LineInv, state
<1>2. UpdateLedState(scan_line)
  BY <1>1, RowIsOn DEF MirroredRow, Lines
<1>3. /\ device_state' \in [banks : [BankLines -> SUBSET Columns],
                            leds : SUBSET Leds]
      /\ scan_line \in BankLines => device_state'.banks[scan_line] = lows
      /\ \A q \in BankLines \ {scan_line} :
           device_state'.banks[q] = device_state.banks[q]
      /\ \A l \in Leds \ LedsOf(scan_line) :
           l \in device_state'.leds <=> l \in device_state.leds
      /\ scan_line = 0 =>
           ("STATUS" \in device_state'.leds <=> statusPin /\ ~errPin)
      /\ scan_line = 1 =>
           ("ERR" \in device_state'.leds <=> errPin /\ ~statusPin)
      /\ scan_line = 4 =>
           \A c \in Columns : c \in device_state'.leds <=> c \in lows
  BY <1>1, <1>2, RowIsShown
<1>4. scan_line = 4 => AsAsked(Columns, lows)
  <2>1. scan_line = 4 => lows = {c \in Columns : \/ led[c].state \in {"ON", "PULSE"}
                                                \/ /\ led[c].state = "BLINK"
                                                   /\ blink_status.lit}
    BY <1>1 DEF Shown, BankLines
  <2>2. QED
    BY <2>1 DEF AsAsked, Asked
<1>5. ColumnPinsInv'
  BY <1>1, <1>4 DEF ColumnPinsInv, AsAsked, Asked
<1>6. MirrorTypeOK'
  BY <1>1, <1>3 DEF MirrorTypeOK
<1>7. ShownAsAsked(scan_line)'
  <2>1. scan_line \in BankLines => device_state'.banks[scan_line] = bank'[scan_line]
    BY <1>1, <1>3 DEF Shown
  <2>2. CASE scan_line = 0
    <3>1. ~errPin /\ (led["STATUS"].state # "BLINK" => (statusPin <=> Asked("STATUS")))
      BY <1>1, <2>2 DEF StatusPinsInv, ErrInv
    <3>2. LedsOf(0) = {"STATUS"}
      BY DEF LedsOf
    <3>3. AsAsked(LedsOf(scan_line), device_state.leds)'
      BY <1>1, <1>3, <2>2, <3>1, <3>2 DEF AsAsked, Asked
    <3>4. QED
      BY <1>1, <2>1, <3>3 DEF ShownAsAsked
  <2>3. CASE scan_line = 1
    <3>1. ~statusPin /\ (led["ERR"].state # "BLINK" => (errPin <=> Asked("ERR")))
      BY <1>1, <2>3 DEF StatusPinsInv, StatusInv
    <3>2. LedsOf(1) = {"ERR"}
      BY DEF LedsOf
    <3>3. AsAsked(LedsOf(scan_line), device_state.leds)'
      BY <1>1, <1>3, <2>3, <3>1, <3>2 DEF AsAsked, Asked
    <3>4. QED
      BY <1>1, <2>1, <3>3 DEF ShownAsAsked
  <2>4. CASE scan_line = 4
    <3>1. LedsOf(4) = Columns
      BY DEF LedsOf
    <3>2. AsAsked(LedsOf(scan_line), device_state.leds)'
      BY <1>1, <1>3, <1>4, <2>4, <3>1 DEF AsAsked, Asked
    <3>3. QED
      BY <1>1, <2>1, <3>2 DEF ShownAsAsked
  <2>5. CASE scan_line \notin {0, 1, 4}
    <3>1. LedsOf(scan_line) = {}
      BY <2>5 DEF LedsOf
    <3>2. AsAsked(LedsOf(scan_line), device_state.leds)'
      BY <1>1, <3>1 DEF AsAsked
    <3>3. QED
      BY <1>1, <2>1, <3>2 DEF ShownAsAsked
  <2>6. QED
    BY <2>2, <2>3, <2>4, <2>5
<1>8. ASSUME NEW r \in Lines \ {scan_line}, Scanned(r)'
      PROVE  ShownAsAsked(r)'
  <2>1. Scanned(r)
    <3>1. Line = scan_line /\ Line' = (scan_line + 1) % 5
      BY <1>1 DEF Line
    <3>2. Since(r)' = Since(r) + 1
      BY <1>1, <3>1 DEF Since, Lines
    <3>3. Since(r) \in Nat /\ Since(r)' < refreshed' /\ refreshed \in 0..5
      BY <1>1, <1>8, <3>1 DEF Since, Scanned, Lines, MirrorTypeOK
    <3>4. Since(r) < refreshed
      BY <1>1, <3>2, <3>3
    <3>5. QED
      BY <1>1, <1>8, <3>4 DEF Scanned
  <2>2. ShownAsAsked(r)
    BY <2>1 DEF ScannedInv
  <2>3. LedsOf(r) \subseteq Leds \ LedsOf(scan_line)
    BY <1>1, <1>8 DEF LedsOf, Leds, Lines
  <2>4. AsAsked(LedsOf(r), device_state.leds)'
    BY <1>1, <1>3, <2>2, <2>3 DEF ShownAsAsked, AsAsked, Asked
  <2>5. r \in BankLines => device_state'.banks[r] = bank'[r]
    BY <1>1, <1>3, <1>8, <2>2 DEF ShownAsAsked
  <2>6. QED
    BY <2>4, <2>5 DEF ShownAsAsked
<1>9. ScannedInv'
  <2>1. \A r \in Lines : Scanned(r)' => ShownAsAsked(r)'
    <3>1. CASE scan_line' = scan_line
      BY <1>7, <1>8, <3>1
    <3>2. QED
      BY <1>1, <3>1
  <2>2. QED
    BY <2>1 DEF ScannedInv
<1>10. QED
  BY <1>5, <1>6, <1>9

LEMMA NextMirrorInv == MirrorInv /\ [MirrorNext]_mirrorVars => MirrorInv'
<1> SUFFICES ASSUME MirrorInv, [MirrorNext]_mirrorVars
             PROVE  MirrorInv'
  OBVIOUS
<1>1. [Next]_vars
  BY MirrorStepIsStep
<1>2. Inv'
  BY <1>1, NextInv DEF MirrorInv
<1>3. PoweredInv' /\ StatusPinsInv'
  BY <1>1, PoweredIsKept, StatusPinsAreKept
<1>4. ScannedInv' /\ ColumnPinsInv' /\ MirrorTypeOK'
  <2>1. CASE MirroredStatus
    BY <2>1, MirroredStatusKeeps
  <2>2. CASE MirroredRow
    BY <2>2, MirroredRowKeeps
  <2>3. CASE MirroredClear
    <3>1. UNCHANGED refreshed
      BY <2>3 DEF MirroredClear
    <3>2. MirrorTypeOK'
      <4>1. UNCHANGED device_state
        <5>1. ClearRowsInPortB => rows' \cap {1, 4} = {}
          BY DEF ClearRowsInPortB
        <5>2. ClearRowsInPortD => rows' \cap {0, 2, 3} = {}
          BY DEF ClearRowsInPortD
        <5>3. QED
          BY <2>3, <5>1, <5>2, NoRowIsOn DEF MirroredClear
      <4>2. QED
        BY <3>1, <4>1 DEF MirrorInv, MirrorTypeOK
    <3>3. QED
      BY <2>3, <3>2, MirroredClearKeeps
  <2>4. CASE Unseen
    <3>1. MirrorTypeOK'
      BY <2>4 DEF Unseen, MirrorInv, MirrorTypeOK
    <3>2. QED
      BY <2>4, <3>1, UnseenKeeps
  <2>5. CASE Setters /\ refreshed' = 0 /\ UNCHANGED device_state
    <3>1. MirrorTypeOK'
      BY <2>5 DEF MirrorInv, MirrorTypeOK
    <3>2. QED
      BY <2>5, <3>1, SetterRestarts
  <2>6. CASE UNCHANGED mirrorVars
    <3>1. UNCHANGED <<bank, led, step, scan_line, next_scan_line, rows, lows,
                      device_state, refreshed>>
      BY <2>6 DEF mirrorVars, vars, state, pins
    <3>2. QED
      BY <3>1 DEF MirrorInv, MirrorTypeOK, ScannedInv, Scanned, Since, Line,
         ShownAsAsked, AsAsked, Asked, ColumnPinsInv
  <2>7. QED
    BY <2>1, <2>2, <2>3, <2>4, <2>5, <2>6, Zenon DEF MirrorNext
<1>5. QED
  BY <1>2, <1>3, <1>4 DEF MirrorInv

\* Five runs of ScanNextLine after the state was last set, whatever scan they
\* begin with, the simulator shows what the state asks for: each of the runs
\* brings one row, and none takes one back.
THEOREM FullRefreshIsAlwaysEnough == MirrorSpec => []FullRefreshIsEnough
<1>1. MirrorSpec => []MirrorInv
  BY InitMirrorInv, NextMirrorInv, PTL DEF MirrorSpec
<1>2. MirrorInv => FullRefreshIsEnough
  <2> SUFFICES ASSUME MirrorInv, refreshed = 5, step = "ready"
               PROVE  /\ device_state.banks = bank
                      /\ \A l \in Leds : led[l].state # "BLINK" =>
                           (l \in device_state.leds <=> Asked(l))
    BY DEF FullRefreshIsEnough, RunUntilFullLedRefresh, Asked
  <2>1. \A r \in Lines : ShownAsAsked(r)
    <3>1. Line \in Lines
      BY DEF MirrorInv, Inv, TypeOK, Line
    <3>2. \A r \in Lines : Since(r) < 5
      BY <3>1 DEF Since, Lines
    <3>3. QED
      BY <3>2 DEF MirrorInv, ScannedInv, Scanned
  <2>2. \A r \in BankLines : device_state.banks[r] = bank[r]
    BY <2>1 DEF ShownAsAsked, BankLines, Lines
  <2>3. /\ device_state.banks \in [BankLines -> SUBSET Columns]
        /\ bank \in [BankLines -> SUBSET Columns]
    BY DEF MirrorInv, MirrorTypeOK, Inv, TypeOK
  <2>4. device_state.banks = bank
    BY <2>2, <2>3
  <2>5. \A l \in Leds : \E r \in Lines : l \in LedsOf(r)
    <3>1. \A l \in Leds : l \in LedsOf(0) \/ l \in LedsOf(1) \/ l \in LedsOf(4)
      BY DEF Leds, LedsOf
    <3>2. QED
      BY <3>1 DEF Lines
  <2>6. QED
    BY <2>1, <2>4, <2>5 DEF ShownAsAsked, AsAsked
<1>3. QED
  BY <1>1, <1>2, PTL

=============================================================================
