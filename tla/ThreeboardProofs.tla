-------------------------- MODULE ThreeboardProofs --------------------------
(***************************************************************************)
(* Proofs about the event loop, for every set of keys and every length of  *)
(* the boot indicator that fits its delay.                                 *)
(*                                                                         *)
(* The boot indicator is over before the event loop starts because, while  *)
(* it runs, the polls it still needs (Remaining) never exceed the polls    *)
(* left of the delay: one poll takes one off both.                         *)
(***************************************************************************)
EXTENDS Threeboard, TLAPS

\* Polls until the boot indicator is over.
Remaining ==
  (BootCounter + 1 - boot.counter) + 1
  + (IF boot.status = 1 THEN 3 * (BootCounter + 1)
     ELSE IF boot.status = 2 THEN 2 * (BootCounter + 1)
     ELSE IF boot.status = 3 THEN BootCounter + 1
     ELSE 0)

BootInv ==
  /\ pc \in {"setup", "configure", "display"} =>
       boot = [status |-> 0, counter |-> 0]
  /\ pc = "counter" => boot.status = 1 /\ boot.counter \in {0, 1}
  /\ pc \in {"setup", "configure", "display", "counter"} => bootLeds = {}
  /\ boot.status = 0 => bootLeds = {}
  /\ boot.status > 0 => /\ pc \in {"counter", "delay"}
                        /\ boot.counter <= BootCounter + 1
  /\ pc = "delay" /\ boot.status > 0 => Remaining <= delay

Inv == TypeOK /\ MaskIsCombo /\ BootInv

USE BoundsAssumption, DelayAssumption

\* At power-on no key is down and the indicator has not started.
LEMMA InitInv == Init => Inv
<1> SUFFICES ASSUME Init PROVE Inv
  OBVIOUS
<1>1. TypeOK
  <2>1. boot \in [status : 0..4, counter : 0..(BootCounter + 2)]
    BY DEF Init
  <2>2. key_mask \in [down : SUBSET Keys, released : SUBSET Keys]
    BY DEF Init, EmptyMask
  <2>3. iterations \in 0..(UintRange - 1) /\ delay \in 0..BootDelay
    BY DEF Init
  <2>4. QED
    BY <2>1, <2>2, <2>3 DEF Init, TypeOK
<1>2. MaskIsCombo
  BY DEF Init, MaskIsCombo, EmptyMask
<1>3. BootInv
  BY DEF Init, BootInv
<1>4. QED
  BY <1>1, <1>2, <1>3 DEF Inv

\* A poll of the keys registers a whole combo or goes on collecting one.
LEMMA PollKeyStateKeeps ==
  ASSUME TypeOK, MaskIsCombo, PollKeyState, pressed' = pressed
  PROVE  /\ MaskIsCombo'
         /\ key_mask' \in [down : SUBSET Keys, released : SUBSET Keys]
         /\ combo' \in SUBSET Keys /\ event' \in SUBSET Keys
         /\ has_keypress' \in BOOLEAN
         /\ event' # event \/ (has_keypress' /\ ~has_keypress) =>
              event' = combo /\ combo # {} /\ pressed = {}
<1> DEFINE released == key_mask.released \cup (key_mask.down \ pressed)
<1>0. /\ pressed \in SUBSET Keys /\ released \in SUBSET Keys
      /\ combo \in SUBSET Keys /\ event \in SUBSET Keys
  BY DEF TypeOK
<1>1. CASE pressed = {} /\ released # {}
  <2>1. /\ event' = released /\ has_keypress' = TRUE
        /\ key_mask' = EmptyMask /\ combo' = {}
    BY <1>1 DEF PollKeyState, HandleKeypress
  <2>2. released = combo
    BY <1>1 DEF MaskIsCombo
  <2>3. MaskIsCombo'
    BY <2>1 DEF MaskIsCombo, EmptyMask
  <2>4. QED
    BY <1>0, <1>1, <2>1, <2>2, <2>3 DEF EmptyMask
<1>2. CASE ~(pressed = {} /\ released # {})
  <2>1. /\ key_mask' = [down |-> pressed, released |-> released]
        /\ combo' = combo \cup pressed
        /\ event' = event /\ has_keypress' = has_keypress
    BY <1>2 DEF PollKeyState, HandleKeypress, buffer
  <2>2. pressed \cup released = combo \cup pressed
    BY DEF MaskIsCombo
  <2>3. combo \cup pressed # {} => pressed # {}
    BY <1>2, <2>2
  <2>4. MaskIsCombo'
    BY <2>1, <2>2, <2>3 DEF MaskIsCombo
  <2>5. QED
    BY <1>0, <2>1, <2>4 DEF TypeOK
<1>3. QED
  BY <1>1, <1>2

\* A step of the timer brings the boot indicator and its delay one poll closer
\* to the end.
LEMMA TimerKeepsBoot ==
  ASSUME TypeOK, BootInv, HandleTimer3Interrupt
  PROVE  /\ BootInv'
         /\ boot' \in [status : 0..4, counter : 0..(BootCounter + 2)]
         /\ bootLeds' \in {{}, {"R"}, {"G"}, {"B"}}
         /\ delay' \in 0..BootDelay
         /\ pc' \in EventLoop \cup {"setup", "configure", "display", "counter",
                                    "delay"}
<1>0. PICK s \in 0..4, c \in 0..(BootCounter + 2) :
        boot = [status |-> s, counter |-> c]
  BY DEF TypeOK
<1>1. /\ delay \in 0..BootDelay /\ BootCounter \in Nat /\ BootDelay \in Nat
      /\ delay' = IF delay > 0 THEN delay - 1 ELSE 0
  BY DEF TypeOK, HandleTimer3Interrupt
<1>2. delay' \in 0..BootDelay
  BY <1>1
<1>3. /\ pc \in EventLoop \cup {"setup", "configure", "display", "counter",
                               "delay"}
      /\ pc' = IF pc = "asleep" THEN "loop" ELSE pc
  BY DEF TypeOK, HandleTimer3Interrupt, Wake
<1>4. /\ pc' \in EventLoop \cup {"setup", "configure", "display", "counter",
                                "delay"}
      /\ pc' \notin EventLoop => pc' = pc
      /\ pc \notin EventLoop => pc' = pc
  BY <1>3 DEF EventLoop
<1>5. CASE s = 0
  <2>1. boot' = boot /\ bootLeds' = bootLeds
    BY <1>0, <1>5 DEF HandleTimer3Interrupt
  <2>2. bootLeds = {}
    BY <1>0, <1>5 DEF BootInv
  <2>3. BootInv'
    BY <1>0, <1>4, <1>5, <2>1, <2>2 DEF BootInv, EventLoop
  <2>4. QED
    BY <1>2, <1>4, <2>1, <2>2, <2>3 DEF TypeOK
<1>6. CASE s > 0
  <2>0. s \in 1..4 /\ c <= BootCounter + 1 /\ PollBootIndicator
        /\ pc \in {"counter", "delay"} /\ pc' = pc
    BY <1>0, <1>4, <1>6 DEF BootInv, HandleTimer3Interrupt, EventLoop
  <2>1. CASE pc = "counter"
    <3>1. s = 1 /\ c = 0
      BY <1>0, <2>1 DEF BootInv, HandleTimer3Interrupt
    <3>2. boot' = [status |-> 1, counter |-> 1] /\ bootLeds' = {}
      BY <1>0, <1>1, <2>0, <2>1, <3>1 DEF PollBootIndicator, BootInv
    <3>3. QED
      BY <1>1, <1>2, <1>4, <2>0, <2>1, <3>2 DEF BootInv, EventLoop
  <2>2. CASE pc = "delay" /\ c <= BootCounter
    <3>1. boot' = [status |-> s, counter |-> c + 1] /\ bootLeds' = bootLeds
      BY <1>0, <1>1, <2>0, <2>2 DEF PollBootIndicator
    <3>2. Remaining' <= delay'
      BY <1>0, <1>1, <2>0, <2>2, <3>1 DEF BootInv, Remaining
    <3>3. QED
      BY <1>0, <1>1, <1>2, <1>4, <2>0, <2>2, <3>1, <3>2
      DEF BootInv, EventLoop, TypeOK
  <2>3. CASE pc = "delay" /\ c = BootCounter + 1 /\ s <= 3
    <3>1. boot' = [status |-> s + 1, counter |-> 1] /\ bootLeds' = BootLed(s)
      BY <1>0, <1>1, <2>0, <2>3 DEF PollBootIndicator
    <3>2. Remaining' <= delay'
      BY <1>0, <1>1, <2>0, <2>3, <3>1 DEF BootInv, Remaining
    <3>3. bootLeds' \in {{}, {"R"}, {"G"}, {"B"}}
      <4>1. s = 1 \/ s = 2 \/ s = 3
        BY <2>0, <2>3
      <4>2. BootLed(s) \in {{"R"}, {"G"}, {"B"}}
        BY <4>1 DEF BootLed
      <4>3. QED
        BY <3>1, <4>2
    <3>4. boot' \in [status : 0..4, counter : 0..(BootCounter + 2)]
      BY <1>1, <2>0, <2>3, <3>1
    <3>5. BootInv'
      BY <1>1, <2>0, <2>3, <3>1, <3>2 DEF BootInv
    <3>6. QED
      BY <1>2, <1>4, <3>3, <3>4, <3>5
  <2>4. CASE pc = "delay" /\ c = BootCounter + 1 /\ s = 4
    <3>1. boot' = [status |-> 0, counter |-> c + 1] /\ bootLeds' = {}
      BY <1>0, <1>1, <2>0, <2>4 DEF PollBootIndicator
    <3>2. QED
      BY <1>1, <1>2, <1>4, <2>0, <2>4, <3>1 DEF BootInv, EventLoop
  <2>5. QED
    BY <1>1, <2>0, <2>1, <2>2, <2>3, <2>4
<1>7. QED
  BY <1>5, <1>6

\* Every step keeps the invariant.
LEMMA NextInv == Inv /\ [Next]_vars => Inv'
<1> SUFFICES ASSUME Inv, [Next]_vars PROVE Inv'
  OBVIOUS
<1> USE DEF Inv
<1>1. CASE WaitForUsbSetup
  BY <1>1 DEF WaitForUsbSetup, Setup, TypeOK, MaskIsCombo, BootInv, Remaining, keys, buffer
<1>2. CASE Configured
  BY <1>2 DEF Configured, TypeOK, MaskIsCombo, BootInv, Remaining, keys, buffer
<1>3. CASE NotConfigured
  <2>1. iterations' \in 0..(UintRange - 1)
    BY <1>3 DEF NotConfigured, TypeOK
  <2>2. err' \in {"OFF", "ON", "BLINK", "PULSE"}
    BY <1>3 DEF NotConfigured, TypeOK
  <2>3. QED
    BY <1>3, <2>1, <2>2
    DEF NotConfigured, TypeOK, MaskIsCombo, BootInv, Remaining, keys, buffer
<1>4. CASE DisplayBootIndicator
  <2>1. boot' = [status |-> 1, counter |-> 0] /\ bootLeds' = {}
    BY <1>4 DEF DisplayBootIndicator, BootInv
  <2>2. BootInv'
    BY <1>4, <2>1 DEF DisplayBootIndicator, BootInv
  <2>3. TypeOK'
    BY <1>4, <2>1 DEF DisplayBootIndicator, TypeOK, keys, buffer
  <2>4. MaskIsCombo'
    BY <1>4 DEF DisplayBootIndicator, MaskIsCombo, keys
  <2>5. QED
    BY <2>2, <2>3, <2>4
<1>5. CASE DelayForBootIndicator
  <2>1. /\ boot' = [status |-> 1, counter |-> BootCounter + 1]
        /\ bootLeds' = {} /\ delay' = BootDelay /\ pc' = "delay"
    <3>1. PICK c \in Nat : boot = [status |-> 1, counter |-> c]
      BY <1>5 DEF DelayForBootIndicator, BootInv, TypeOK
    <3>2. QED
      BY <1>5, <3>1 DEF DelayForBootIndicator, BootInv
  <2>2. BootInv'
    BY <2>1 DEF BootInv, Remaining
  <2>3. TypeOK'
    BY <1>5, <2>1 DEF DelayForBootIndicator, TypeOK, keys, buffer
  <2>4. MaskIsCombo'
    BY <1>5 DEF DelayForBootIndicator, MaskIsCombo, keys
  <2>5. QED
    BY <2>2, <2>3, <2>4
<1>6. CASE DelayElapsed
  <2>1. ~(boot.status > 0)
    <3>1. PICK s \in 0..4, c \in 0..(BootCounter + 2) :
            boot = [status |-> s, counter |-> c]
      BY DEF TypeOK
    <3>2. QED
      BY <1>6, <3>1 DEF DelayElapsed, BootInv, Remaining
  <2>2. QED
    BY <1>6, <2>1
    DEF DelayElapsed, TypeOK, MaskIsCombo, BootInv, keys, buffer, EventLoop
<1>7. CASE TakeEvent
  BY <1>7 DEF TakeEvent, GetKeypressEvent, TypeOK, MaskIsCombo, BootInv, keys, EventLoop
<1>8. CASE SendKeypress
  BY <1>8 DEF SendKeypress, TypeOK, MaskIsCombo, BootInv, keys, buffer, EventLoop
<1>9. CASE HandleEventReturns
  BY <1>9
  DEF HandleEventReturns, TypeOK, MaskIsCombo, BootInv, keys, buffer, EventLoop
<1>10. CASE NothingToHandle
  BY <1>10
  DEF NothingToHandle, TypeOK, MaskIsCombo, BootInv, keys, buffer, EventLoop
<1>11. CASE SleepCpu
  BY <1>11 DEF SleepCpu, TypeOK, MaskIsCombo, BootInv, keys, buffer, EventLoop
<1>12. CASE HandleTimer3Interrupt
  <2>1. PollKeyState /\ pressed' = pressed /\ err' = err
        /\ iterations' = iterations
    BY <1>12 DEF HandleTimer3Interrupt
  <2>2. QED
    BY <1>12, <2>1, PollKeyStateKeeps, TimerKeepsBoot DEF TypeOK
<1>13. CASE OtherInterrupt
  BY <1>13
  DEF OtherInterrupt, Wake, TypeOK, MaskIsCombo, BootInv, Remaining, keys,
      buffer, EventLoop
<1>14. ASSUME NEW k \in Keys, PressOrRelease(k) PROVE Inv'
  BY <1>14
  DEF PressOrRelease, TypeOK, MaskIsCombo, BootInv, Remaining, buffer
<1>15. CASE UNCHANGED vars
  BY <1>15 DEF vars, keys, buffer, TypeOK, MaskIsCombo, BootInv, Remaining
<1>16. QED
  BY <1>1, <1>2, <1>3, <1>4, <1>5, <1>6, <1>7, <1>8, <1>9, <1>10, <1>11,
     <1>12, <1>13, <1>14, <1>15 DEF Next, Main

\* The invariant holds in every behaviour.
THEOREM InvHolds == Spec => []Inv
<1>1. QED
  BY InitInv, NextInv, PTL DEF Spec

\* Masks, events, counters and the boot indicator keep their types.
THEOREM TypeCorrect == Spec => []TypeOK
<1>1. Inv => TypeOK
  BY DEF Inv
<1>2. QED
  BY <1>1, InvHolds, PTL

\* The key mask always stands for the combo being pressed, with any number of
\* keys pressed and released in any order between two polls.
THEOREM MaskAlwaysCombo == Spec => []MaskIsCombo
<1>1. Inv => MaskIsCombo
  BY DEF Inv
<1>2. QED
  BY <1>1, InvHolds, PTL

\* The boot indicator is always over before the event loop starts.
THEOREM BootIndicatorAlwaysFirst == Spec => []BootIndicatorDoneFirst
<1>1. Inv => BootIndicatorDoneFirst
  <2>1. ASSUME Inv, pc \in EventLoop PROVE boot.status = 0 /\ bootLeds = {}
    <3>1. PICK s \in 0..4, c \in 0..(BootCounter + 2) :
            boot = [status |-> s, counter |-> c]
      BY <2>1 DEF Inv, TypeOK
    <3>2. QED
      BY <2>1, <3>1 DEF Inv, BootInv, EventLoop
  <2>2. QED
    BY <2>1 DEF BootIndicatorDoneFirst
<1>2. QED
  BY <1>1, InvHolds, PTL

\* Every event that is registered is a whole combo, registered once all its
\* keys are up.
THEOREM EventAlwaysWholeCombo == Spec => EventIsWholeCombo
<1>1. Inv /\ [Next]_vars =>
        [event' # event \/ (has_keypress' /\ ~has_keypress) =>
           event' = combo /\ combo # {} /\ pressed = {}]_vars
  <2>1. ASSUME Inv, HandleTimer3Interrupt
        PROVE  event' # event \/ (has_keypress' /\ ~has_keypress) =>
                 event' = combo /\ combo # {} /\ pressed = {}
    <3>1. PollKeyState /\ pressed' = pressed
      BY <2>1 DEF HandleTimer3Interrupt
    <3>2. QED
      BY <2>1, <3>1, PollKeyStateKeeps DEF Inv
  <2>2. ASSUME Inv, Next, ~HandleTimer3Interrupt
        PROVE  event' = event /\ (has_keypress' => has_keypress)
    BY <2>2
    DEF Next, Main, WaitForUsbSetup, Setup, Configured, NotConfigured,
        DisplayBootIndicator, DelayForBootIndicator, DelayElapsed, TakeEvent,
        GetKeypressEvent,
        SendKeypress, HandleEventReturns, NothingToHandle, SleepCpu,
        OtherInterrupt, PressOrRelease, buffer
  <2>3. QED
    BY <2>1, <2>2
<1>2. QED
  BY <1>1, InvHolds, PTL DEF Spec, EventIsWholeCombo

=============================================================================
