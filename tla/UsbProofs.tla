----------------------------- MODULE UsbProofs -----------------------------
(***************************************************************************)
(* Proofs about the USB controller, for every set of keypresses, timeout   *)
(* and range of the frame number, and then about the control endpoint that *)
(* Enumeration has in place of its one-step requests.                      *)
(***************************************************************************)
EXTENDS Enumeration, SequenceTheorems, TLAPS

-----------------------------------------------------------------------------
(***************************************************************************)
(* The inductive invariant.                                                *)
(***************************************************************************)
\* TypeOK in three parts.  The endpoint's banks hold bytes.
HidStates ==
  [configuration : Configurations \cup {0}, modifier_keys : Bytes, key : Bytes,
   idle_config : IdleConfigs, idle_count : 0..(UintRange - 1)]

BanksOK ==
  /\ UENUM \in {0, kKeyboardEndpoint} /\ enabled \in BOOLEAN
  /\ fill \in Seq(Nat) /\ Len(fill) <= ReportSize
  /\ banks \in Seq(Seq(Nat)) /\ Len(banks) <= Banks
  /\ \A i \in DOMAIN banks : Len(banks[i]) <= ReportSize

CallOK ==
  /\ UDINT \subseteq {"SOFI", "EORSTI"} /\ frame \in 0..(UintRange - 1)
  /\ pc \in {"boot", "idle", "check", "retry", "count", "modifiers", "key",
             "submit", "restore"}
  /\ press \in Keypresses \cup {Released} /\ initial \in 0..(UintRange - 1)
  /\ late \in BOOLEAN /\ result \in {"none", "true", "false"}
  /\ waited \in 0..(kFrameTimeout + 1) /\ delivered \in 0..2
  /\ disturbed \in BOOLEAN /\ host_holds \in BOOLEAN

\* A send that starts early enough counts its frames without wrapping, and goes
\* round the polling loop at least once in the frame that is its last.
TimeoutInv ==
  pc \in {"check", "retry"} /\ initial + kFrameTimeout < UintRange =>
    /\ frame = initial + waited
    /\ waited < kFrameTimeout \/ (waited = kFrameTimeout /\ late)

\* How far a report has come if nothing disturbed it.
ReportInv ==
  /\ Sending => UENUM = kKeyboardEndpoint
  /\ pc \in {"check", "retry", "count", "modifiers", "restore"} => fill = <<>>
  /\ pc = "key" => fill = <<hid_state.modifier_keys>>
  /\ pc = "submit" => fill = HidReport
  /\ pc \in {"count", "modifiers", "key", "submit"} =>
       enabled /\ Len(banks) < Banks

\* Which of the two reports of a keypress it is.
DeliveryInv ==
  /\ Sending => \/ delivered = 0 /\ HidReport = press
                \/ delivered = 1 /\ HidReport = Released
  /\ pc = "restore" => \/ delivered = 1 /\ HidReport = press
                       \/ delivered = 2 /\ HidReport = Released
  /\ pc = "idle" /\ result = "true" => delivered = 2

PressInv ==
  /\ Calling => press \in Keypresses
  /\ pc = "boot" => result = "none"

Inv ==
  /\ hid_state \in HidStates /\ BanksOK /\ CallOK
  /\ IdleCountBelowConfig /\ TimeoutInv /\ PressInv
  /\ ~disturbed => ReportInv /\ DeliveryInv

\* A keypress is a pair of numbers, and not the release.
LEMMA KeypressIsPair ==
  ASSUME NEW k \in Keypresses
  PROVE  /\ k = <<k[1], k[2]>> /\ k # Released
         /\ k[1] \in Nat /\ k[2] \in Nat /\ k[1] \in Bytes /\ k[2] \in Bytes
<1>1. k \in Nat \X Nat
  BY UsbAssumption
<1>2. k = <<k[1], k[2]>> /\ k[1] \in Nat /\ k[2] \in Nat
  BY <1>1
<1>3. k # Released
  BY UsbAssumption DEF Released
<1>4. k[1] \in Bytes /\ k[2] \in Bytes
  BY DEF Bytes
<1>5. QED
  BY <1>2, <1>3, <1>4

LEMMA BytesAreNumbers == Bytes \subseteq Nat /\ 0 \in Bytes
BY KeypressIsPair DEF Bytes
-----------------------------------------------------------------------------
(***************************************************************************)
(* What the interrupt handlers change.                                     *)
(***************************************************************************)
LEMMA ByteIsNumber ==
  ASSUME NEW v \in 0..(UintRange - 1) PROVE v \in Nat /\ v < UintRange
BY UsbAssumption

\* The fields of the HID state, and what a change of one of them keeps.
LEMMA HidStateFields ==
  ASSUME hid_state \in HidStates
  PROVE  /\ hid_state.configuration \in Configurations \cup {0}
         /\ hid_state.modifier_keys \in Bytes /\ hid_state.key \in Bytes
         /\ hid_state.idle_config \in IdleConfigs
         /\ hid_state.idle_config \in Nat /\ hid_state.idle_config < UintRange
         /\ hid_state.idle_count \in Nat
         /\ hid_state.idle_count \in 0..(UintRange - 1)
<1>1. /\ hid_state.configuration \in Configurations \cup {0}
      /\ hid_state.modifier_keys \in Bytes /\ hid_state.key \in Bytes
      /\ hid_state.idle_config \in IdleConfigs
      /\ hid_state.idle_count \in 0..(UintRange - 1)
  BY Zenon DEF HidStates
<1>2. hid_state.idle_config \in 0..(UintRange - 1)
  BY <1>1, UsbAssumption, Zenon
<1>3. QED
  BY <1>1, <1>2, ByteIsNumber, Zenon

LEMMA SetConfigurationKeeps ==
  ASSUME hid_state \in HidStates, NEW v \in Configurations \cup {0},
         hid_state' = [hid_state EXCEPT !.configuration = v]
  PROVE  /\ hid_state' \in HidStates /\ HidReport' = HidReport
         /\ hid_state'.idle_config = hid_state.idle_config
         /\ hid_state'.idle_count = hid_state.idle_count
         /\ hid_state'.modifier_keys = hid_state.modifier_keys
BY DEF HidStates, HidReport

LEMMA SetIdleCountKeeps ==
  ASSUME hid_state \in HidStates, NEW c \in 0..(UintRange - 1),
         hid_state' = [hid_state EXCEPT !.idle_count = c]
  PROVE  /\ hid_state' \in HidStates /\ HidReport' = HidReport
         /\ hid_state'.idle_config = hid_state.idle_config
         /\ hid_state'.idle_count = c
         /\ hid_state'.modifier_keys = hid_state.modifier_keys
BY DEF HidStates, HidReport

LEMMA SetIdleConfigKeeps ==
  ASSUME hid_state \in HidStates, NEW v \in IdleConfigs,
         hid_state' = [hid_state EXCEPT !.idle_config = v, !.idle_count = 0]
  PROVE  /\ hid_state' \in HidStates /\ HidReport' = HidReport
         /\ hid_state'.idle_config = v /\ hid_state'.idle_count = 0
         /\ hid_state'.modifier_keys = hid_state.modifier_keys
<1>1. 0 \in 0..(UintRange - 1)
  BY UsbAssumption
<1>2. QED
  BY <1>1 DEF HidStates, HidReport

LEMMA SetKeysKeeps ==
  ASSUME hid_state \in HidStates, NEW m \in Bytes, NEW k \in Bytes,
         hid_state' = [hid_state EXCEPT !.modifier_keys = m, !.key = k]
  PROVE  /\ hid_state' \in HidStates /\ HidReport' = <<m, k>>
         /\ hid_state'.idle_config = hid_state.idle_config
         /\ hid_state'.idle_count = hid_state.idle_count
BY DEF HidStates, HidReport

\* What a request of the host may change, whatever it asks for.
Requested ==
  /\ UNCHANGED <<UDINT, frame, caller, late, waited, delivered, host_holds>>
  /\ disturbed' = (disturbed \/ Sending)
  /\ UENUM' \in {0, kKeyboardEndpoint}
  /\ \/ UNCHANGED <<enabled, fill, banks>>
     \/ enabled' = TRUE /\ fill' = <<>> /\ banks' = <<>>
  /\ hid_state' \in HidStates /\ HidReport' = HidReport
  /\ \/ UNCHANGED <<hid_state.idle_config, hid_state.idle_count>>
     \/ hid_state'.idle_count = 0

LEMMA HandleSetConfigurationKeeps ==
  ASSUME hid_state \in HidStates, NEW v \in Configurations \cup {0},
         ControlRequest, HandleSetConfiguration(v)
  PROVE  Requested
<1>1. /\ hid_state' \in HidStates /\ HidReport' = HidReport
      /\ UNCHANGED <<hid_state.idle_config, hid_state.idle_count>>
  BY SetConfigurationKeeps DEF HandleSetConfiguration
<1>2. /\ UENUM' \in {0, kKeyboardEndpoint}
      /\ \/ UNCHANGED <<enabled, fill, banks>>
         \/ enabled' = TRUE /\ fill' = <<>> /\ banks' = <<>>
  BY Zenon DEF HandleSetConfiguration
<1>3. QED
  BY <1>1, <1>2, Zenon DEF Requested, ControlRequest

LEMMA EndpointInterruptKeeps ==
  ASSUME hid_state \in HidStates, HandleEndpointInterrupt
  PROVE  Requested
<1>1. ASSUME NEW v \in Configurations, SetConfiguration(v) PROVE Requested
  BY <1>1, HandleSetConfigurationKeeps, Zenon DEF SetConfiguration
<1>2. CASE SetReport
  BY <1>2, HandleSetConfigurationKeeps, Zenon DEF SetReport
<1>3. ASSUME NEW v \in IdleConfigs, SetIdle(v) PROVE Requested
  <2>1. /\ hid_state' \in HidStates /\ HidReport' = HidReport
        /\ hid_state'.idle_count = 0
    BY <1>3, SetIdleConfigKeeps DEF SetIdle
  <2>2. QED
    BY <1>3, <2>1, Zenon DEF SetIdle, Requested, ControlRequest
<1>4. CASE GetReport \/ OtherRequest
  BY <1>4, Zenon DEF GetReport, OtherRequest, Requested, ControlRequest, HidReport
<1>5. QED
  BY <1>1, <1>2, <1>3, <1>4, Zenon DEF HandleEndpointInterrupt

\* What a general interrupt may change.
Interrupted ==
  /\ InterruptsEnabled
  /\ UDINT' = {}
  /\ UNCHANGED <<enabled, frame, caller, late, waited, delivered, host_holds>>
  /\ \/ UENUM' = kKeyboardEndpoint
     \/ UENUM' = UENUM
     \/ UENUM' = 0 /\ (Sending => disturbed')
  /\ disturbed => disturbed'
  /\ disturbed' \in BOOLEAN
  /\ hid_state' \in HidStates /\ HidReport' = HidReport
  /\ hid_state'.modifier_keys = hid_state.modifier_keys
  /\ hid_state'.idle_config = hid_state.idle_config
  /\ \/ hid_state'.idle_count = hid_state.idle_count
     \/ hid_state'.idle_count = 0
     \/ /\ hid_state'.idle_count = hid_state.idle_count + 1
        /\ hid_state'.idle_count # hid_state.idle_config
        /\ hid_state.idle_config # 0
  /\ \/ UNCHANGED <<fill, banks>>
     \/ SendHidStateAtOnce /\ disturbed' /\ Writable

LEMMA GeneralInterruptKeeps ==
  ASSUME hid_state \in HidStates, IdleCountBelowConfig, disturbed \in BOOLEAN,
         NEW frame_error \in BOOLEAN, HandleGeneralInterrupt(frame_error)
  PROVE  Interrupted
<1>. USE DEF HandleGeneralInterrupt
<1>0. /\ InterruptsEnabled
      /\ UDINT' = {}
      /\ UNCHANGED <<enabled, frame, caller, late, waited, delivered, host_holds>>
  OBVIOUS
<1>1. CASE ~SOFReceived(frame_error)
  <2>1. /\ UENUM' = IF "EORSTI" \in UDINT THEN 0 ELSE UENUM
        /\ disturbed' = (disturbed \/ (Sending /\ "EORSTI" \in UDINT))
        /\ UNCHANGED <<hid_state, banks, fill>>
    BY <1>1, Zenon
  <2>2. QED
    BY <1>0, <2>1, Zenon DEF Interrupted, HidReport
<1>2. CASE SOFReceived(frame_error) /\ ~Writable
  <2>1. UENUM' = kKeyboardEndpoint /\ UNCHANGED <<hid_state, banks, fill, disturbed>>
    BY <1>2, Zenon
  <2>2. QED
    BY <1>0, <2>1, Zenon DEF Interrupted, HidReport
<1>3. CASE SOFReceived(frame_error) /\ Writable
  <2>1. UENUM' = kKeyboardEndpoint /\ IdleReport /\ hid_state.idle_config # 0
    BY <1>3, Zenon DEF SOFReceived
  <2>2. CASE hid_state.idle_count + 1 = hid_state.idle_config
    <3>1. /\ SendHidStateAtOnce /\ disturbed' = TRUE
          /\ hid_state' = [hid_state EXCEPT !.idle_count = 0]
      BY <2>1, <2>2, Zenon DEF IdleReport
    <3>2. 0 \in 0..(UintRange - 1)
      BY UsbAssumption
    <3>3. /\ hid_state' \in HidStates /\ HidReport' = HidReport
          /\ hid_state'.idle_config = hid_state.idle_config
          /\ hid_state'.idle_count = 0
          /\ hid_state'.modifier_keys = hid_state.modifier_keys
      BY <3>1, <3>2, SetIdleCountKeeps
    <3>4. QED
      BY <1>0, <1>3, <2>1, <3>1, <3>3, Zenon DEF Interrupted
  <2>3. CASE hid_state.idle_count + 1 # hid_state.idle_config
    <3>1. /\ UNCHANGED <<banks, fill, disturbed>>
          /\ hid_state' = [hid_state EXCEPT !.idle_count = hid_state.idle_count + 1]
      BY <2>1, <2>3, Zenon DEF IdleReport
    <3>2. hid_state.idle_count + 1 \in 0..(UintRange - 1)
      BY <2>1, HidStateFields, UsbAssumption DEF IdleCountBelowConfig
    <3>3. /\ hid_state' \in HidStates /\ HidReport' = HidReport
          /\ hid_state'.idle_config = hid_state.idle_config
          /\ hid_state'.idle_count = hid_state.idle_count + 1
          /\ hid_state'.modifier_keys = hid_state.modifier_keys
      BY <3>1, <3>2, SetIdleCountKeeps
    <3>4. QED
      BY <1>0, <2>1, <2>3, <3>1, <3>3, Zenon DEF Interrupted
  <2>4. QED
    BY <2>2, <2>3
<1>4. QED
  BY <1>1, <1>2, <1>3
-----------------------------------------------------------------------------
(***************************************************************************)
(* Each part of the invariant is kept by every step.                       *)
(***************************************************************************)
\* What an idle report adds to a bank that holds the start of another.
LEMMA FillingUpABank ==
  ASSUME NEW f \in Seq(Nat), Len(f) <= 2, NEW r \in Seq(Nat), Len(r) = 2
  PROVE  /\ f \o SubSeq(r, 1, 2 - Len(f)) \in Seq(Nat)
         /\ Len(f \o SubSeq(r, 1, 2 - Len(f))) <= 2
<1>. DEFINE room == 2 - Len(f)
            rest == SubSeq(r, 1, room)
<1>1. Len(f) \in Nat /\ room \in Nat /\ room <= 2
  OBVIOUS
<1>2. \A i \in 1..room : r[i] \in Nat
  <2>. HIDE DEF room
  <2>1. \A i \in 1..room : i \in 1..Len(r)
    BY <1>1
  <2>2. QED
    BY <2>1, ElementOfSeq
<1>3. rest \in Seq(Nat) /\ Len(rest) = room
  <2>. HIDE DEF room
  <2>0. 1 \in Int /\ room \in Int
    BY <1>1
  <2>1. /\ rest \in Seq(Nat)
        /\ Len(rest) = IF 1 <= room THEN room - 1 + 1 ELSE 0
    BY <2>0, <1>2, SubSeqProperties
  <2>2. QED
    BY <1>1, <2>1
<1>. HIDE DEF rest
<1>4. f \o rest \in Seq(Nat) /\ Len(f \o rest) = Len(f) + Len(rest)
  BY <1>3, ConcatProperties
<1>5. f \o rest \in Seq(Nat) /\ Len(f \o rest) <= 2
  BY <1>1, <1>3, <1>4
<1>6. QED
  BY <1>5 DEF rest

LEMMA BanksAreKept ==
  ASSUME Inv, [Next]_vars PROVE BanksOK'
<1>. USE DEF kKeyboardEndpoint, ReportSize, Banks
<1>0. /\ UENUM \in {0, kKeyboardEndpoint} /\ enabled \in BOOLEAN
      /\ fill \in Seq(Nat) /\ Len(fill) <= ReportSize
      /\ banks \in Seq(Seq(Nat)) /\ Len(banks) <= Banks
      /\ \A i \in DOMAIN banks : Len(banks[i]) <= ReportSize
  BY Zenon DEF Inv, BanksOK
<1>1. /\ HidReport \in Seq(Nat) /\ Len(HidReport) = 2
      /\ hid_state.modifier_keys \in Nat /\ hid_state.key \in Nat
  <2>1. hid_state.modifier_keys \in Bytes /\ hid_state.key \in Bytes
    BY HidStateFields, Zenon DEF Inv
  <2>2. hid_state.modifier_keys \in Nat /\ hid_state.key \in Nat
    BY <2>1, BytesAreNumbers, Zenon
  <2>3. QED
    BY <2>2 DEF HidReport
<1>2. ASSUME UNCHANGED <<fill, banks>>, UENUM' \in {0, kKeyboardEndpoint},
             enabled' \in BOOLEAN
      PROVE  BanksOK'
  BY <1>0, <1>2 DEF BanksOK
<1>3. CASE Requested
  <2>1. CASE UNCHANGED <<enabled, fill, banks>>
    BY <1>0, <1>2, <1>3, <2>1 DEF Requested
  <2>2. CASE enabled' = TRUE /\ fill' = <<>> /\ banks' = <<>>
    BY <1>3, <2>2 DEF Requested, BanksOK
  <2>3. QED
    BY <1>3, <2>1, <2>2, Zenon DEF Requested
<1>4. CASE Interrupted
  <2>1. UENUM' \in {0, kKeyboardEndpoint} /\ enabled' \in BOOLEAN
    BY <1>0, <1>4, Zenon DEF Interrupted
  <2>2. CASE UNCHANGED <<fill, banks>>
    BY <1>2, <2>1, <2>2
  <2>3. CASE SendHidStateAtOnce /\ Writable
    <3>. DEFINE report == fill \o SubSeq(HidReport, 1, 2 - Len(fill))
    <3>1. report \in Seq(Nat) /\ Len(report) <= 2
      BY <1>0, <1>1, FillingUpABank, Zenon DEF ReportSize
    <3>2. banks' = Append(banks, report) /\ fill' = <<>> /\ Len(banks) < 2
      BY <2>3, Zenon DEF SendHidStateAtOnce, Writable
    <3>3. QED
      BY <1>0, <2>1, <3>1, <3>2 DEF BanksOK
  <2>4. QED
    BY <1>4, <2>2, <2>3, Zenon DEF Interrupted
<1>5. ASSUME NEW b \in Nat, SetUEDATX(b), UNCHANGED <<UENUM, enabled, banks>>
      PROVE  BanksOK'
  BY <1>0, <1>5 DEF SetUEDATX, Writable, BanksOK
<1>6. CASE SendModifiers \/ SendKey
  BY <1>1, <1>5, <1>6, Zenon DEF SendModifiers, SendKey
<1>7. CASE Submit
  <2>1. CASE UNCHANGED <<banks, fill>>
    BY <1>0, <1>2, <1>7, <2>1 DEF Submit
  <2>2. CASE /\ banks' = Append(banks, fill) /\ fill' = <<>>
             /\ Len(banks) < Banks
    BY <1>0, <1>7, <2>2 DEF Submit, BanksOK
  <2>3. QED
    BY <1>7, <2>1, <2>2, Zenon DEF Submit, ResetUEINTX
<1>8. CASE BusReset
  <2>1. /\ UENUM' \in {0, kKeyboardEndpoint} /\ enabled' \in BOOLEAN
        /\ fill' = <<>> /\ banks' = <<>>
    BY <1>0, <1>8, Zenon DEF BusReset
  <2>2. QED
    BY <2>1 DEF BanksOK
<1>9. CASE HostReads
  BY <1>0, <1>9 DEF HostReads, BanksOK
<1>10. ASSUME NEW k \in Keypresses, Press(k) PROVE BanksOK'
  BY <1>0, <1>2, <1>10 DEF Press, Start
<1>11. CASE \/ HasConfigured \/ Check \/ Retry \/ SendIdleCount \/ Release
            \/ ReturnTrue \/ FrameBegins
  BY <1>0, <1>2, <1>11 DEF HasConfigured, Check, Retry, SendIdleCount, Release,
     ReturnTrue, FrameBegins, Start, device
<1>12. CASE UNCHANGED vars
  BY <1>0, <1>2, <1>12 DEF vars, device
<1>13. QED
  BY <1>3, <1>4, <1>6, <1>7, <1>8, <1>9, <1>10, <1>11, <1>12,
     EndpointInterruptKeeps, GeneralInterruptKeeps, Zenon
  DEF Next, Main, Inv, CallOK

LEMMA ReportUnchanged ==
  ASSUME UNCHANGED hid_state PROVE UNCHANGED HidReport
BY DEF HidReport

LEMMA FrameIsBounded ==
  ASSUME NEW f \in 0..(UintRange - 1)
  PROVE  /\ f \in Nat /\ UintRange \in Nat /\ kFrameTimeout \in Nat
         /\ (f + 1) % UintRange \in 0..(UintRange - 1)
         /\ f + 1 < UintRange => (f + 1) % UintRange = f + 1
<1>1. UintRange \in Nat /\ UintRange > 0 /\ kFrameTimeout \in Nat
  BY UsbAssumption
<1>2. QED
  BY <1>1

LEMMA CallIsKept ==
  ASSUME Inv, [Next]_vars PROVE CallOK'
<1>0. /\ CallOK /\ BanksOK /\ hid_state \in HidStates /\ IdleCountBelowConfig
      /\ PressInv
  BY Zenon DEF Inv
<1>. DEFINE Numbers == /\ frame \in 0..(UintRange - 1)
                       /\ initial \in 0..(UintRange - 1)
                       /\ waited \in 0..(kFrameTimeout + 1)
            Places == /\ UDINT \subseteq {"SOFI", "EORSTI"}
                      /\ pc \in {"boot", "idle", "check", "retry", "count",
                                 "modifiers", "key", "submit", "restore"}
                      /\ press \in Keypresses \cup {Released}
                      /\ late \in BOOLEAN /\ result \in {"none", "true", "false"}
                      /\ delivered \in 0..2
                      /\ disturbed \in BOOLEAN /\ host_holds \in BOOLEAN
<1>1. Numbers /\ Places
  BY <1>0, Zenon DEF CallOK
<1>2. 0 \in 0..(UintRange - 1) /\ 0 \in 0..(kFrameTimeout + 1)
      /\ 0 \in 0..2 /\ 1 \in 0..2 /\ 2 \in 0..2
  BY UsbAssumption
<1>3. ASSUME Numbers', Places' PROVE CallOK'
  BY <1>3, Zenon DEF CallOK
<1>4. ASSUME UNCHANGED <<frame, initial, waited>> PROVE Numbers'
  BY <1>1, <1>4, Zenon
<1>5. ASSUME UNCHANGED frame, initial' = frame, waited' = 0 PROVE Numbers'
  BY <1>1, <1>2, <1>5, Zenon
<1>6. CASE Requested
  <2>1. Numbers'
    BY <1>4, <1>6, Zenon DEF Requested, caller
  <2>2. disturbed' \in BOOLEAN
    BY <1>6, Zenon DEF Requested
  <2>3. QED
    BY <1>1, <1>3, <1>6, <2>1, <2>2, Zenon DEF Requested, caller
<1>7. CASE Interrupted
  <2>1. Numbers'
    BY <1>4, <1>7, Zenon DEF Interrupted, caller
  <2>2. UDINT' \subseteq {"SOFI", "EORSTI"}
    BY <1>7, Zenon DEF Interrupted
  <2>3. QED
    BY <1>1, <1>3, <1>7, <2>1, <2>2, Zenon DEF Interrupted, caller
<1>8. ASSUME NEW k \in Keypresses, Press(k) PROVE CallOK'
  <2>1. Numbers'
    BY <1>5, <1>8, Zenon DEF Press, Start
  <2>2. Places'
    BY <1>1, <1>2, <1>8, Zenon DEF Press, Start
  <2>3. QED
    BY <1>3, <2>1, <2>2
<1>9. CASE HasConfigured \/ Check \/ SendIdleCount \/ SendModifiers \/ SendKey
  <2>1. Numbers'
    BY <1>4, <1>9, Zenon DEF HasConfigured, Check, SendIdleCount, SendModifiers,
       SendKey, device
  <2>2. Places'
    BY <1>1, <1>9, Zenon DEF HasConfigured, Check, SendIdleCount, SendModifiers,
       SendKey, history
  <2>3. QED
    BY <1>3, <2>1, <2>2
<1>10. CASE Retry
  <2>1. UNCHANGED <<frame, waited>> /\ (initial' = 0 \/ initial' = initial)
    BY <1>10, Zenon DEF Retry, ReturnFalse
  <2>2. Numbers'
    BY <1>1, <1>2, <2>1, Zenon
  <2>3. Places'
    BY <1>1, <1>10, Zenon DEF Retry, ReturnFalse, history
  <2>4. QED
    BY <1>3, <2>2, <2>3
<1>11. CASE Submit
  <2>1. Numbers'
    BY <1>4, <1>11, Zenon DEF Submit
  <2>2. delivered' \in 0..2
    <3>1. delivered' = delivered \/ delivered' = 1 \/ delivered' = 2
      BY <1>11, Zenon DEF Submit, ResetUEINTX
    <3>2. QED
      BY <1>1, <1>2, <3>1, Zenon
  <2>3. Places'
    BY <1>1, <1>11, <2>2, Zenon DEF Submit
  <2>4. QED
    BY <1>3, <2>1, <2>3
<1>12. CASE Release
  <2>1. Numbers'
    BY <1>5, <1>12, Zenon DEF Release, Start
  <2>2. Places'
    BY <1>1, <1>12, Zenon DEF Release, Start, history
  <2>3. QED
    BY <1>3, <2>1, <2>2
<1>13. CASE ReturnTrue
  <2>1. Numbers'
    BY <1>1, <1>2, <1>13, Zenon DEF ReturnTrue
  <2>2. Places'
    BY <1>1, <1>13, Zenon DEF ReturnTrue, history
  <2>3. QED
    BY <1>3, <2>1, <2>2
<1>14. CASE FrameBegins
  <2>1. frame' \in 0..(UintRange - 1)
    BY <1>1, <1>14, FrameIsBounded DEF FrameBegins
  <2>2. waited' \in 0..(kFrameTimeout + 1)
    BY <1>1, <1>14, UsbAssumption DEF FrameBegins
  <2>3. Numbers'
    BY <1>1, <1>14, <2>1, <2>2, Zenon DEF FrameBegins, caller
  <2>4. UDINT' \subseteq {"SOFI", "EORSTI"}
    BY <1>1, <1>14, Zenon DEF FrameBegins
  <2>5. late' \in BOOLEAN
    BY <1>14, Zenon DEF FrameBegins, Calling
  <2>6. Places'
    BY <1>1, <1>14, <2>4, <2>5, Zenon DEF FrameBegins, caller, history
  <2>7. QED
    BY <1>3, <2>3, <2>6
<1>15. CASE BusReset \/ HostReads
  <2>1. Numbers'
    BY <1>4, <1>15, Zenon DEF BusReset, HostReads, caller
  <2>2. UDINT' \subseteq {"SOFI", "EORSTI"}
    BY <1>1, <1>15, Zenon DEF BusReset, HostReads
  <2>3. disturbed' \in BOOLEAN /\ host_holds' \in BOOLEAN
    BY <1>1, <1>15, Zenon DEF BusReset, HostReads, history
  <2>4. Places'
    BY <1>1, <1>15, <2>2, <2>3, Zenon DEF BusReset, HostReads, caller, history
  <2>5. QED
    BY <1>3, <2>1, <2>4
<1>16. CASE UNCHANGED vars
  BY <1>1, <1>3, <1>16, Zenon DEF vars, caller, history
<1>17. QED
  BY <1>0, <1>1, <1>6, <1>7, <1>8, <1>9, <1>10, <1>11, <1>12, <1>13, <1>14,
     <1>15, <1>16, EndpointInterruptKeeps, GeneralInterruptKeeps, Zenon
  DEF Next, Main

LEMMA HidStateIsKept ==
  ASSUME Inv, [Next]_vars PROVE hid_state' \in HidStates /\ IdleCountBelowConfig'
<1>0. hid_state \in HidStates /\ IdleCountBelowConfig /\ disturbed \in BOOLEAN
  BY Zenon DEF Inv, CallOK
<1>1. /\ hid_state.idle_count \in Nat /\ hid_state.idle_config \in Nat
      /\ hid_state.idle_config > 0 => hid_state.idle_count < hid_state.idle_config
      /\ hid_state.idle_config = 0 => hid_state.idle_count = 0
  BY <1>0, HidStateFields, Zenon DEF IdleCountBelowConfig
<1>2. ASSUME hid_state' \in HidStates,
             UNCHANGED <<hid_state.idle_config, hid_state.idle_count>>
      PROVE  IdleCountBelowConfig'
  BY <1>0, <1>2, Zenon DEF IdleCountBelowConfig
<1>3. ASSUME hid_state' \in HidStates, hid_state'.idle_count = 0
      PROVE  IdleCountBelowConfig'
  <2>1. hid_state'.idle_config \in Nat
    <3>1. hid_state'.idle_config \in 0..(UintRange - 1)
      BY <1>3, UsbAssumption, Zenon DEF HidStates
    <3>2. QED
      BY <3>1, ByteIsNumber, Zenon
  <2>2. QED
    BY <1>3, <2>1 DEF IdleCountBelowConfig
<1>4. CASE Requested
  BY <1>2, <1>3, <1>4, Zenon DEF Requested
<1>5. CASE Interrupted
  <2>1. hid_state' \in HidStates /\ hid_state'.idle_config = hid_state.idle_config
    BY <1>5, Zenon DEF Interrupted
  <2>2. CASE \/ hid_state'.idle_count = hid_state.idle_count
             \/ hid_state'.idle_count = 0
    BY <1>2, <1>3, <2>1, <2>2, Zenon
  <2>3. CASE /\ hid_state'.idle_count = hid_state.idle_count + 1
             /\ hid_state'.idle_count # hid_state.idle_config
             /\ hid_state.idle_config # 0
    BY <1>1, <2>1, <2>3 DEF IdleCountBelowConfig
  <2>4. QED
    BY <1>5, <2>1, <2>2, <2>3, Zenon DEF Interrupted
<1>6. ASSUME NEW k \in Keypresses, Press(k)
      PROVE  hid_state' \in HidStates /\ IdleCountBelowConfig'
  <2>1. hid_state' = [hid_state EXCEPT !.modifier_keys = k[1], !.key = k[2]]
    BY <1>6, Zenon DEF Press
  <2>2. QED
    BY <1>0, <1>2, <2>1, KeypressIsPair, SetKeysKeeps, Zenon
<1>7. CASE SendIdleCount
  <2>1. hid_state' = [hid_state EXCEPT !.idle_count = 0]
    BY <1>7, Zenon DEF SendIdleCount
  <2>2. 0 \in 0..(UintRange - 1)
    BY UsbAssumption
  <2>3. QED
    BY <1>0, <1>3, <2>1, <2>2, SetIdleCountKeeps, Zenon
<1>8. CASE Release
  <2>1. hid_state' = [hid_state EXCEPT !.modifier_keys = 0, !.key = 0]
    BY <1>8, Zenon DEF Release
  <2>2. QED
    BY <1>0, <1>2, <2>1, BytesAreNumbers, SetKeysKeeps, Zenon
<1>9. CASE UNCHANGED hid_state
  BY <1>0, <1>9, Zenon DEF IdleCountBelowConfig
<1>10. CASE \/ HasConfigured \/ Check \/ Retry \/ SendModifiers \/ SendKey
            \/ Submit \/ ReturnTrue
  BY <1>9, <1>10, Zenon DEF HasConfigured, Check, Retry, SendModifiers, SendKey,
     Submit, ReturnTrue
<1>11. CASE FrameBegins \/ BusReset \/ HostReads \/ UNCHANGED vars
  BY <1>9, <1>11, Zenon DEF FrameBegins, BusReset, HostReads, vars
<1>12. QED
  BY <1>0, <1>4, <1>5, <1>6, <1>7, <1>8, <1>10, <1>11,
     EndpointInterruptKeeps, GeneralInterruptKeeps, Zenon DEF Next, Main

LEMMA TimeoutIsKept ==
  ASSUME Inv, [Next]_vars PROVE TimeoutInv'
<1>0. TimeoutInv /\ CallOK /\ hid_state \in HidStates /\ IdleCountBelowConfig
      /\ disturbed \in BOOLEAN
  BY Zenon DEF Inv, CallOK
<1>1. /\ frame \in 0..(UintRange - 1) /\ initial \in 0..(UintRange - 1)
      /\ waited \in 0..(kFrameTimeout + 1)
  BY <1>0, Zenon DEF CallOK
<1>2. /\ frame \in Nat /\ initial \in Nat /\ waited \in Nat
      /\ UintRange \in Nat /\ kFrameTimeout \in Nat /\ kFrameTimeout > 0
  BY <1>1, UsbAssumption
<1>3. CASE UNCHANGED <<frame, pc, initial, late, waited>>
  BY <1>0, <1>3, Zenon DEF TimeoutInv
<1>4. CASE pc' \notin {"check", "retry"}
  BY <1>4, Zenon DEF TimeoutInv
<1>5. CASE Start /\ UNCHANGED frame
  <2>1. frame' = frame /\ initial' = frame /\ waited' = 0
    BY <1>5, Zenon DEF Start
  <2>2. QED
    BY <1>2, <2>1 DEF TimeoutInv
<1>6. CASE Check
  <2>1. UNCHANGED <<frame, initial, late, waited>> /\ pc = "check"
    BY <1>6, Zenon DEF Check
  <2>2. QED
    BY <1>0, <2>1, Zenon DEF TimeoutInv
<1>7. CASE Retry
  <2>1. CASE ReturnFalse
    BY <1>4, <2>1, Zenon DEF ReturnFalse
  <2>2. CASE /\ pc = "retry" /\ ~(frame - initial >= kFrameTimeout)
             /\ UNCHANGED <<frame, initial, waited>>
    BY <1>0, <1>2, <2>2 DEF TimeoutInv
  <2>3. QED
    BY <1>7, <2>1, <2>2, Zenon DEF Retry
<1>8. CASE FrameBegins
  <2>1. CASE pc \notin {"check", "retry"}
    BY <1>4, <1>8, <2>1, Zenon DEF FrameBegins, caller
  <2>2. CASE pc \in {"check", "retry"}
    <3>1. /\ pc' = pc /\ initial' = initial /\ late = FALSE /\ late' = TRUE
          /\ frame' = (frame + 1) % UintRange
          /\ waited' = IF waited <= kFrameTimeout THEN waited + 1 ELSE waited
      <4>1. Calling
        BY <2>2 DEF Calling
      <4>2. /\ Calling => ~late
            /\ frame' = (frame + 1) % UintRange
            /\ late' = Calling
            /\ waited' = IF pc \in {"check", "retry"} /\ waited <= kFrameTimeout
                           THEN waited + 1 ELSE waited
            /\ pc' = pc /\ initial' = initial
        BY <1>8, Zenon DEF FrameBegins, caller
      <4>3. late' = TRUE /\ late = FALSE
        BY <1>0, <4>1, <4>2, Zenon DEF CallOK, Calling
      <4>4. QED
        BY <2>2, <4>2, <4>3, Zenon
    <3>2. CASE initial + kFrameTimeout < UintRange
      <4>1. frame = initial + waited /\ waited < kFrameTimeout
        BY <1>0, <2>2, <3>1, <3>2, Zenon DEF TimeoutInv
      <4>2. frame + 1 < UintRange
        BY <1>2, <3>2, <4>1
      <4>3. frame' = frame + 1 /\ waited' = waited + 1
        BY <1>1, <1>2, <3>1, <4>1, <4>2, FrameIsBounded
      <4>4. frame' = initial' + waited' /\ waited' <= kFrameTimeout
        BY <1>2, <3>1, <4>1, <4>3
      <4>5. waited' < kFrameTimeout \/ waited' = kFrameTimeout
        BY <1>2, <4>1, <4>3
      <4>6. QED
        BY <3>1, <4>4, <4>5, Zenon DEF TimeoutInv
    <3>3. CASE ~(initial + kFrameTimeout < UintRange)
      BY <3>1, <3>3, Zenon DEF TimeoutInv
    <3>4. QED
      BY <3>2, <3>3
  <2>3. QED
    BY <2>1, <2>2
<1>9. CASE Requested \/ Interrupted
  BY <1>3, <1>9, Zenon DEF Requested, Interrupted, caller
<1>10. ASSUME NEW k \in Keypresses, Press(k) PROVE TimeoutInv'
  BY <1>5, <1>10, Zenon DEF Press
<1>11. CASE \/ HasConfigured \/ SendIdleCount \/ SendModifiers \/ SendKey
            \/ Submit \/ ReturnTrue
  <2>1. pc' \in {"idle", "modifiers", "key", "submit", "restore"}
    BY <1>11, Zenon DEF HasConfigured, SendIdleCount, SendModifiers, SendKey,
       Submit, ReturnTrue
  <2>2. pc' \notin {"check", "retry"}
    BY <2>1
  <2>3. QED
    BY <1>4, <2>2
<1>12. CASE Release
  BY <1>5, <1>12, Zenon DEF Release
<1>13. CASE BusReset \/ HostReads \/ UNCHANGED vars
  BY <1>3, <1>13, Zenon DEF BusReset, HostReads, vars, caller
<1>14. QED
  BY <1>0, <1>6, <1>7, <1>8, <1>9, <1>10, <1>11, <1>12, <1>13,
     EndpointInterruptKeeps, GeneralInterruptKeeps, Zenon DEF Next, Main

LEMMA PressIsKept ==
  ASSUME Inv, [Next]_vars PROVE PressInv'
<1>0. PressInv /\ hid_state \in HidStates /\ IdleCountBelowConfig
      /\ disturbed \in BOOLEAN
  BY Zenon DEF Inv, CallOK
<1>1. CASE UNCHANGED <<pc, press, result>>
  BY <1>0, <1>1, Zenon DEF PressInv, Calling
<1>2. CASE Calling /\ press' = press /\ pc' # "boot"
  BY <1>0, <1>2, Zenon DEF PressInv, Calling
<1>3. CASE Requested \/ Interrupted
  BY <1>1, <1>3, Zenon DEF Requested, Interrupted, caller
<1>4. ASSUME NEW k \in Keypresses, Press(k) PROVE PressInv'
  <2>1. press' \in Keypresses /\ pc' = "check"
    BY <1>4, Zenon DEF Press, Start
  <2>2. QED
    BY <2>1, Zenon DEF PressInv, Calling
<1>5. CASE HasConfigured
  <2>1. pc' = "idle"
    BY <1>5, Zenon DEF HasConfigured
  <2>2. QED
    BY <2>1, Zenon DEF PressInv, Calling
<1>6. CASE \/ Check \/ Retry \/ SendIdleCount \/ SendModifiers \/ SendKey
           \/ Submit \/ Release \/ ReturnTrue
  <2>1. /\ pc \in {"check", "retry", "count", "modifiers", "key", "submit",
                   "restore"}
        /\ press' = press
    BY <1>6, Zenon DEF Check, Retry, SendIdleCount, SendModifiers, SendKey,
       Submit, Release, ReturnTrue
  <2>2. pc' \in {"idle", "check", "retry", "count", "modifiers", "key",
                 "submit", "restore"}
    BY <1>6, Zenon DEF Check, Retry, SendIdleCount, SendModifiers, SendKey,
       Submit, Release, ReturnTrue, ReturnFalse, Start
  <2>3. Calling /\ pc' # "boot"
    BY <2>1, <2>2, Zenon DEF Calling
  <2>4. QED
    BY <1>2, <2>1, <2>3
<1>7. CASE FrameBegins \/ BusReset \/ HostReads \/ UNCHANGED vars
  BY <1>1, <1>7, Zenon DEF FrameBegins, BusReset, HostReads, vars, caller
<1>8. QED
  BY <1>0, <1>3, <1>4, <1>5, <1>6, <1>7,
     EndpointInterruptKeeps, GeneralInterruptKeeps, Zenon DEF Next, Main

\* The step after an undisturbed one, if it is undisturbed itself.  Only Press
\* forgets that something was disturbed before.
Undisturbed ==
  /\ ReportInv /\ DeliveryInv /\ PressInv
  /\ BanksOK /\ hid_state \in HidStates

LEMMA SecondByte ==
  ASSUME NEW m \in Nat, NEW k \in Nat PROVE Append(<<m>>, k) = <<m, k>>
<1>1. <<m>> \in Seq(Nat) /\ Len(<<m>>) = 1
  OBVIOUS
<1>2. /\ Append(<<m>>, k) \in Seq(Nat) /\ Len(Append(<<m>>, k)) = 2
      /\ Append(<<m>>, k)[1] = m /\ Append(<<m>>, k)[2] = k
  BY <1>1, AppendProperties
<1>3. /\ <<m, k>> \in Seq(Nat) /\ Len(<<m, k>>) = 2
      /\ <<m, k>>[1] = m /\ <<m, k>>[2] = k
  OBVIOUS
<1>. DEFINE s == Append(<<m>>, k)
            t == <<m, k>>
<1>4. s \in Seq(Nat) /\ t \in Seq(Nat) /\ Len(s) = 2 /\ Len(t) = 2
      /\ s[1] = t[1] /\ s[2] = t[2]
  BY <1>2, <1>3, Zenon
<1>. HIDE DEF s, t
<1>5. \A i \in 1..Len(s) : s[i] = t[i]
  BY <1>4
<1>6. s = t
  BY <1>4, <1>5, SeqEqual
<1>7. QED
  BY <1>6 DEF s, t

LEMMA ReportSteps ==
  ASSUME Undisturbed, ~disturbed',
         \/ HasConfigured \/ Check \/ Retry \/ SendIdleCount \/ SendModifiers
         \/ SendKey
  PROVE  ReportInv' /\ DeliveryInv'
<1>. USE DEF kKeyboardEndpoint, ReportSize, Banks
<1>0. ReportInv /\ DeliveryInv /\ PressInv
  BY Zenon DEF Undisturbed
<1>1. CASE HasConfigured
  <2>1. pc' = "idle" /\ result' = "none"
    BY <1>0, <1>1, Zenon DEF HasConfigured, PressInv
  <2>2. QED
    BY <2>1, Zenon DEF ReportInv, DeliveryInv, Sending
<1>2. CASE Check
  <2>1. /\ pc = "check" /\ fill = <<>> /\ UENUM = 1
        /\ \/ delivered = 0 /\ HidReport = press
           \/ delivered = 1 /\ HidReport = Released
    BY <1>0, <1>2, Zenon DEF Check, ReportInv, DeliveryInv, Sending
  <2>2. /\ UNCHANGED <<UENUM, enabled, fill, banks, press, delivered>>
        /\ HidReport' = HidReport
    BY <1>2, ReportUnchanged, Zenon DEF Check, device, history
  <2>3. pc' = "retry" \/ (pc' = "count" /\ enabled' /\ Len(banks') < 2)
    BY <1>2, <2>1, <2>2, Zenon DEF Check, RWAL, Writable
  <2>4. ReportInv'
    BY <2>1, <2>2, <2>3, Zenon DEF ReportInv, Sending
  <2>5. DeliveryInv'
    BY <2>1, <2>2, <2>3, Zenon DEF DeliveryInv, Sending
  <2>6. QED
    BY <2>4, <2>5
<1>3. CASE Retry
  <2>1. /\ pc = "retry" /\ fill = <<>> /\ UENUM = 1
        /\ \/ delivered = 0 /\ HidReport = press
           \/ delivered = 1 /\ HidReport = Released
    BY <1>0, <1>3, Zenon DEF Retry, ReportInv, DeliveryInv, Sending
  <2>2. /\ UNCHANGED <<fill, press, delivered>> /\ HidReport' = HidReport
    BY <1>3, ReportUnchanged, Zenon DEF Retry, history
  <2>3. \/ pc' = "check" /\ UENUM' = 1
        \/ pc' = "idle" /\ result' = "false"
    <3>1. CASE ReturnFalse
      BY <3>1, Zenon DEF ReturnFalse
    <3>2. CASE UENUM' = kKeyboardEndpoint /\ pc' = "check"
      BY <3>2, Zenon
    <3>3. QED
      BY <1>3, <3>1, <3>2, Zenon DEF Retry
  <2>4. ReportInv'
    BY <2>1, <2>2, <2>3, Zenon DEF ReportInv, Sending
  <2>5. DeliveryInv'
    BY <2>1, <2>2, <2>3, Zenon DEF DeliveryInv, Sending
  <2>6. QED
    BY <2>4, <2>5
<1>4. CASE SendIdleCount
  <2>1. /\ pc = "count" /\ fill = <<>> /\ UENUM = 1 /\ enabled /\ Len(banks) < 2
        /\ \/ delivered = 0 /\ HidReport = press
           \/ delivered = 1 /\ HidReport = Released
    BY <1>0, <1>4, Zenon DEF SendIdleCount, ReportInv, DeliveryInv, Sending
  <2>2. /\ UNCHANGED <<UENUM, enabled, fill, banks, press, delivered>>
        /\ pc' = "modifiers"
    BY <1>4, Zenon DEF SendIdleCount, device, history
  <2>3. HidReport' = HidReport
    <3>1. hid_state' = [hid_state EXCEPT !.idle_count = 0]
      BY <1>4, Zenon DEF SendIdleCount
    <3>2. 0 \in 0..(UintRange - 1)
      BY UsbAssumption
    <3>3. QED
      BY <3>1, <3>2, SetIdleCountKeeps, Zenon DEF Undisturbed
  <2>4. ReportInv'
    BY <2>1, <2>2, Zenon DEF ReportInv, Sending
  <2>5. DeliveryInv'
    BY <2>1, <2>2, <2>3, Zenon DEF DeliveryInv, Sending
  <2>6. QED
    BY <2>4, <2>5
<1>5. CASE SendModifiers
  <2>1. /\ pc = "modifiers" /\ fill = <<>> /\ UENUM = 1 /\ enabled
        /\ Len(banks) < 2
        /\ \/ delivered = 0 /\ HidReport = press
           \/ delivered = 1 /\ HidReport = Released
    BY <1>0, <1>5, Zenon DEF SendModifiers, ReportInv, DeliveryInv, Sending
  <2>2. /\ UNCHANGED <<hid_state, UENUM, enabled, banks, press, delivered>>
        /\ pc' = "key"
    BY <1>5, Zenon DEF SendModifiers, history
  <2>3. HidReport' = HidReport
    BY <2>2, ReportUnchanged, Zenon
  <2>4. fill' = <<hid_state'.modifier_keys>>
    BY <1>5, <2>1, <2>2 DEF SendModifiers, SetUEDATX, Writable
  <2>5. ReportInv'
    BY <2>1, <2>2, <2>4, Zenon DEF ReportInv, Sending
  <2>6. DeliveryInv'
    BY <2>1, <2>2, <2>3, Zenon DEF DeliveryInv, Sending
  <2>7. QED
    BY <2>5, <2>6
<1>6. CASE SendKey
  <2>1. /\ pc = "key" /\ fill = <<hid_state.modifier_keys>> /\ UENUM = 1
        /\ enabled /\ Len(banks) < 2
        /\ \/ delivered = 0 /\ HidReport = press
           \/ delivered = 1 /\ HidReport = Released
    BY <1>0, <1>6, Zenon DEF SendKey, ReportInv, DeliveryInv, Sending
  <2>2. /\ UNCHANGED <<hid_state, UENUM, enabled, banks, press, delivered>>
        /\ pc' = "submit"
    BY <1>6, Zenon DEF SendKey, history
  <2>3. HidReport' = HidReport
    BY <2>2, ReportUnchanged, Zenon
  <2>4. fill' = HidReport
    <3>1. Len(<<hid_state.modifier_keys>>) < 2
      OBVIOUS
    <3>2. fill' = Append(<<hid_state.modifier_keys>>, hid_state.key)
      BY <1>6, <2>1, <3>1, Zenon DEF SendKey, SetUEDATX, Writable
    <3>3. hid_state.modifier_keys \in Nat /\ hid_state.key \in Nat
      BY HidStateFields, BytesAreNumbers, Zenon DEF Undisturbed
    <3>4. QED
      BY <3>2, <3>3, SecondByte, Zenon DEF HidReport
  <2>5. ReportInv'
    BY <2>1, <2>2, <2>3, <2>4, Zenon DEF ReportInv, Sending
  <2>6. DeliveryInv'
    BY <2>1, <2>2, <2>3, Zenon DEF DeliveryInv, Sending
  <2>7. QED
    BY <2>5, <2>6
<1>7. QED
  BY <1>1, <1>2, <1>3, <1>4, <1>5, <1>6

LEMMA ReportEnds ==
  ASSUME Undisturbed, ~disturbed', Submit \/ Release \/ ReturnTrue
  PROVE  ReportInv' /\ DeliveryInv'
<1>. USE DEF kKeyboardEndpoint, ReportSize, Banks
<1>0. ReportInv /\ DeliveryInv /\ PressInv
  BY Zenon DEF Undisturbed
<1>1. CASE Submit
  <2>1. /\ pc = "submit" /\ fill = HidReport /\ UENUM = 1 /\ enabled
        /\ Len(banks) < 2
        /\ \/ delivered = 0 /\ HidReport = press
           \/ delivered = 1 /\ HidReport = Released
    BY <1>0, <1>1, Zenon DEF Submit, ReportInv, DeliveryInv, Sending
  <2>2. /\ HidReport' = HidReport /\ press' = press /\ pc' = "restore"
        /\ fill' = <<>>
        /\ delivered' = CASE delivered = 0 /\ fill = press -> 1
                          [] delivered = 1 /\ fill = Released -> 2
                          [] OTHER -> delivered
    BY <1>1, <2>1, ReportUnchanged, Zenon DEF Submit, ResetUEINTX
  <2>3. ReportInv'
    BY <2>2, Zenon DEF ReportInv, Sending
  <2>4. \/ delivered' = 1 /\ HidReport = press
        \/ delivered' = 2 /\ HidReport = Released
    <3>1. CASE delivered = 0 /\ HidReport = press
      BY <2>1, <2>2, <3>1
    <3>2. CASE delivered = 1 /\ HidReport = Released
      BY <2>1, <2>2, <3>2
    <3>3. QED
      BY <2>1, <3>1, <3>2
  <2>5. DeliveryInv'
    BY <2>2, <2>4, Zenon DEF DeliveryInv, Sending
  <2>6. QED
    BY <2>3, <2>5
<1>2. CASE Release
  <2>1. pc = "restore" /\ fill = <<>> /\ HidReport # Released
    BY <1>0, <1>2, Zenon DEF Release, ReportInv
  <2>2. delivered = 1
    BY <1>0, <2>1, Zenon DEF DeliveryInv
  <2>3. /\ pc' = "check" /\ UENUM' = 1
        /\ UNCHANGED <<fill, press, delivered>>
        /\ hid_state' = [hid_state EXCEPT !.modifier_keys = 0, !.key = 0]
    BY <1>2, Zenon DEF Release, Start, history
  <2>4. HidReport' = Released
    BY <2>3, BytesAreNumbers, SetKeysKeeps, Zenon DEF Undisturbed, Released
  <2>5. ReportInv'
    BY <2>1, <2>3, Zenon DEF ReportInv, Sending
  <2>6. DeliveryInv'
    BY <2>2, <2>3, <2>4, Zenon DEF DeliveryInv, Sending
  <2>7. QED
    BY <2>5, <2>6
<1>3. CASE ReturnTrue
  <2>1. pc = "restore" /\ HidReport = Released
    BY <1>3, Zenon DEF ReturnTrue
  <2>2. press # Released
    <3>1. press \in Keypresses
      BY <1>0, <2>1, Zenon DEF PressInv, Calling
    <3>2. QED
      BY <3>1, KeypressIsPair, Zenon
  <2>3. delivered = 2
    BY <1>0, <2>1, <2>2, Zenon DEF DeliveryInv
  <2>4. pc' = "idle" /\ delivered' = delivered
    BY <1>3, Zenon DEF ReturnTrue, history
  <2>5. QED
    BY <2>3, <2>4, Zenon DEF ReportInv, DeliveryInv, Sending
<1>4. QED
  BY <1>1, <1>2, <1>3

\* What comes in between leaves an undisturbed report alone.
LEMMA OthersLeaveReports ==
  ASSUME Undisturbed, ~disturbed',
         \/ Requested \/ Interrupted \/ FrameBegins \/ BusReset \/ HostReads
         \/ UNCHANGED vars
  PROVE  ReportInv' /\ DeliveryInv'
<1>. USE DEF kKeyboardEndpoint, ReportSize, Banks
<1>0. ReportInv /\ DeliveryInv
  BY Zenon DEF Undisturbed
<1>1. ASSUME UNCHANGED <<caller, delivered>>, HidReport' = HidReport
      PROVE  DeliveryInv'
  BY <1>0, <1>1, Zenon DEF DeliveryInv, Sending, caller
<1>2. CASE Requested
  <2>1. /\ UNCHANGED <<caller, delivered>> /\ HidReport' = HidReport
        /\ ~Sending /\ (fill' = fill \/ fill' = <<>>)
    BY <1>2, Zenon DEF Requested
  <2>2. ~Sending' /\ (pc' = "restore" => fill' = <<>>)
    BY <1>0, <2>1, Zenon DEF ReportInv, Sending, caller
  <2>3. ReportInv'
    BY <2>2, Zenon DEF ReportInv, Sending
  <2>4. QED
    BY <1>1, <2>1, <2>3
<1>3. CASE Interrupted
  <2>1. /\ UNCHANGED <<caller, delivered, enabled, fill, banks>>
        /\ HidReport' = HidReport
        /\ hid_state'.modifier_keys = hid_state.modifier_keys
        /\ Sending => UENUM' = kKeyboardEndpoint \/ UENUM' = UENUM
    BY <1>3, Zenon DEF Interrupted
  <2>2. ReportInv'
    BY <1>0, <2>1, Zenon DEF ReportInv, Sending, caller
  <2>3. QED
    BY <1>1, <2>1, <2>2
<1>4. CASE FrameBegins \/ UNCHANGED vars
  <2>1. UNCHANGED <<hid_state, device, caller, history>>
    BY <1>4, Zenon DEF FrameBegins, vars
  <2>2. HidReport' = HidReport
    BY <2>1, ReportUnchanged, Zenon
  <2>3. ReportInv'
    BY <1>0, <2>1, <2>2, Zenon DEF ReportInv, Sending, caller, device
  <2>4. QED
    BY <1>1, <2>1, <2>2, <2>3, Zenon DEF history
<1>5. CASE BusReset
  <2>1. UNCHANGED <<caller, delivered, hid_state>> /\ ~Calling
    BY <1>5, Zenon DEF BusReset
  <2>2. pc' \in {"boot", "idle"}
    BY <2>1, Zenon DEF Calling, caller
  <2>3. ReportInv'
    BY <2>2, Zenon DEF ReportInv, Sending
  <2>4. QED
    BY <1>1, <2>1, <2>3, ReportUnchanged, Zenon
<1>6. CASE HostReads
  <2>1. /\ UNCHANGED <<caller, delivered, hid_state, UENUM, enabled, fill>>
        /\ banks # <<>> /\ banks' = Tail(banks)
    BY <1>6, Zenon DEF HostReads, history
  <2>2. Len(banks) < 2 => Len(banks') < 2
    <3>1. banks \in Seq(Seq(Nat))
      BY Zenon DEF Undisturbed, BanksOK
    <3>2. QED
      BY <2>1, <3>1
  <2>3. HidReport' = HidReport
    BY <2>1, ReportUnchanged, Zenon
  <2>4. ReportInv'
    BY <1>0, <2>1, <2>2, <2>3, Zenon DEF ReportInv, Sending, caller
  <2>5. QED
    BY <1>1, <2>1, <2>3, <2>4
<1>7. QED
  BY <1>2, <1>3, <1>4, <1>5, <1>6

LEMMA PressStarts ==
  ASSUME hid_state \in HidStates, NEW k \in Keypresses, Press(k), ~disturbed'
  PROVE  ReportInv' /\ DeliveryInv'
<1>1. /\ pc' = "check" /\ UENUM' = kKeyboardEndpoint /\ fill' = <<>>
      /\ delivered' = 0 /\ press' = k
      /\ hid_state' = [hid_state EXCEPT !.modifier_keys = k[1], !.key = k[2]]
  BY Zenon DEF Press, Start
<1>2. HidReport' = k
  BY <1>1, KeypressIsPair, SetKeysKeeps, Zenon
<1>3. QED
  BY <1>1, <1>2, Zenon DEF ReportInv, DeliveryInv, Sending

LEMMA DeliveryIsKept ==
  ASSUME Inv, [Next]_vars, ~disturbed' PROVE ReportInv' /\ DeliveryInv'
<1>0. /\ hid_state \in HidStates /\ IdleCountBelowConfig /\ BanksOK /\ PressInv
      /\ disturbed \in BOOLEAN /\ (~disturbed => ReportInv /\ DeliveryInv)
  BY Zenon DEF Inv, CallOK
<1>1. ASSUME NEW k \in Keypresses, Press(k) PROVE ReportInv' /\ DeliveryInv'
  BY <1>0, <1>1, PressStarts, Zenon
<1>2. ASSUME disturbed => disturbed' PROVE Undisturbed
  BY <1>0, <1>2, Zenon DEF Undisturbed
<1>3. CASE \/ HasConfigured \/ Check \/ Retry \/ SendIdleCount \/ SendModifiers
           \/ SendKey
  <2>1. disturbed' = disturbed
    BY <1>3, Zenon DEF HasConfigured, Check, Retry, SendIdleCount, SendModifiers,
       SendKey, history
  <2>2. QED
    BY <1>2, <1>3, <2>1, ReportSteps, Zenon
<1>4. CASE Submit \/ Release \/ ReturnTrue
  <2>1. disturbed' = disturbed
    BY <1>4, Zenon DEF Submit, Release, ReturnTrue, history
  <2>2. QED
    BY <1>2, <1>4, <2>1, ReportEnds, Zenon
<1>5. CASE \/ Requested \/ Interrupted \/ FrameBegins \/ BusReset \/ HostReads
           \/ UNCHANGED vars
  <2>1. disturbed => disturbed'
    BY <1>5, Zenon DEF Requested, Interrupted, FrameBegins, BusReset, HostReads,
       vars, history
  <2>2. QED
    BY <1>2, <1>5, <2>1, OthersLeaveReports, Zenon
<1>6. QED
  BY <1>0, <1>1, <1>3, <1>4, <1>5,
     EndpointInterruptKeeps, GeneralInterruptKeeps, Zenon DEF Next, Main

LEMMA InitInv == Init => Inv
<1>. SUFFICES ASSUME Init PROVE Inv
  OBVIOUS
<1>. USE DEF kKeyboardEndpoint, ReportSize, Banks
<1>1. 0 \in 0..(UintRange - 1) /\ 0 \in 0..(kFrameTimeout + 1) /\ 0 \in 0..2
  BY UsbAssumption
<1>2. /\ hid_state = [configuration |-> 0, modifier_keys |-> 0, key |-> 0,
                      idle_config |-> DefaultIdle, idle_count |-> 0]
      /\ DefaultIdle \in IdleConfigs
  BY UsbAssumption, Zenon DEF Init
<1>3. hid_state \in HidStates
  BY <1>1, <1>2, BytesAreNumbers DEF HidStates
<1>4. hid_state.idle_count = 0 /\ hid_state.idle_config \in Nat
  BY <1>2, <1>3, HidStateFields
<1>5. IdleCountBelowConfig
  BY <1>4 DEF IdleCountBelowConfig
<1>6. BanksOK
  <2>1. UENUM = 0 /\ enabled \in BOOLEAN /\ fill = <<>> /\ banks = <<>>
    BY Zenon DEF Init
  <2>2. QED
    BY <2>1 DEF BanksOK
<1>7. CallOK
  BY <1>1, Zenon DEF Init, CallOK
<1>8. TimeoutInv /\ PressInv /\ ReportInv /\ DeliveryInv
  <2>1. pc = "boot" /\ result = "none"
    BY Zenon DEF Init
  <2>2. QED
    BY <2>1, Zenon DEF TimeoutInv, PressInv, ReportInv, DeliveryInv, Calling,
       Sending
<1>9. QED
  BY <1>3, <1>5, <1>6, <1>7, <1>8, Zenon DEF Inv

LEMMA InvIsInductive == Spec => []Inv
<1>1. Inv /\ [Next]_vars => Inv'
  BY BanksAreKept, CallIsKept, HidStateIsKept, TimeoutIsKept, PressIsKept,
     DeliveryIsKept, Zenon DEF Inv
<1>2. QED
  BY InitInv, <1>1, PTL DEF Spec
-----------------------------------------------------------------------------
(***************************************************************************)
(* The theorems.                                                           *)
(***************************************************************************)
\* The HID state, the endpoint and the registers always hold values of their
\* types, and neither a bank nor the endpoint ever holds more than it has room
\* for, whatever the interrupt handlers write while SendHidState is at work.
THEOREM TypeCorrect == Spec => []TypeOK
<1>1. Inv => TypeOK
  BY Zenon DEF Inv, BanksOK, CallOK, HidStates, TypeOK
<1>2. QED
  BY InvIsInductive, <1>1, PTL

\* The idle count stays below the interval it is compared with for equality,
\* for every interval the host may set and at whatever moment: the comparison
\* in the start of frame handler is never jumped over.
THEOREM IdleCountAlwaysBelowConfig == Spec => []IdleCountBelowConfig
<1>1. Inv => IdleCountBelowConfig
  BY Zenon DEF Inv
<1>2. QED
  BY InvIsInductive, <1>1, PTL

\* SendKeypress never waits for more than kFrameTimeout frames when it starts
\* far enough from the wrap of the frame number, for every timeout and every
\* width of the number.
THEOREM EarlySendsTimeOut == Spec => []EarlySendTimesOut
<1>1. Inv => EarlySendTimesOut
  <2>. SUFFICES ASSUME Inv, pc \in {"check", "retry"},
                       initial + kFrameTimeout < UintRange
                PROVE  waited <= kFrameTimeout
    BY DEF EarlySendTimesOut
  <2>1. waited < kFrameTimeout \/ waited = kFrameTimeout
    BY Zenon DEF Inv, TimeoutInv
  <2>2. waited \in 0..(kFrameTimeout + 1)
    BY Zenon DEF Inv, CallOK
  <2>3. QED
    BY <2>1, <2>2, UsbAssumption
<1>2. QED
  BY InvIsInductive, <1>1, PTL

\* When SendKeypress returns true and nothing came in between, the host was
\* given the press and then the release, in that order, for every set of
\* keypresses.
THEOREM UndisturbedSendsAreDelivered == Spec => []UndisturbedSendIsDelivered
<1>1. Inv => UndisturbedSendIsDelivered
  BY Zenon DEF Inv, DeliveryInv, UndisturbedSendIsDelivered
<1>2. QED
  BY InvIsInductive, <1>1, PTL
-----------------------------------------------------------------------------
(***************************************************************************)
(* Proofs about the control endpoint, for every set of configurations,     *)
(* idle intervals, addresses, descriptor ids and lengths a host may use.   *)
(*                                                                         *)
(* A transfer is followed from the SETUP packet to its last packet: the    *)
(* invariant says, for each position of the interrupt handler and of the   *)
(* host, what is in the bank and what is still to come.                    *)
(***************************************************************************)
Requests == Reads \cup Writes \cup Ignored

Transfers ==
  {AtRest} \cup [stage : {"data", "status"}, request : Requests, got : Nat]

Calls ==
  {Returned} \cup
    [at : {"reply", "descriptor", "handshake", "store", "enable"},
     request : Reads \cup Writes, remaining : Nat]

ControlTypeOK ==
  /\ host \in [transfer : Transfers, address : Addresses \cup {0},
               configured : BOOLEAN]
  /\ setup \in {<<>>} \cup {<<r>> : r \in Requests}
  /\ bank \in {<<>>} \cup {<<n>> : n \in 0..k32BytePacketSize}
  /\ stall \in BOOLEAN /\ ep0 \in BOOLEAN
  /\ isr \in Calls
  /\ UDADDR \in [address : Addresses \cup {0}, ADDEN : BOOLEAN]

\* What the handler may be doing once the host has all it asked for: nothing, an
\* empty packet nobody waits for, or what follows the status packet.
RestInv ==
  host.transfer.stage = "idle" =>
    /\ setup = <<>>
    /\ isr.at \in {"out", "descriptor", "store", "enable"}
    /\ isr.at = "descriptor" => isr.remaining = 0
    /\ isr.at # "out" => bank = <<>>

SetupInv ==
  setup # <<>> =>
    /\ host.transfer.stage # "idle" /\ setup = <<host.transfer.request>>
    /\ isr.at = "out" /\ bank = <<>> /\ ~stall /\ host.transfer.got = 0

StallInv == stall => isr.at = "out" /\ bank = <<>>

Sent == IF bank = <<>> THEN 0 ELSE bank[1]

\* A data stage: what the host has, what is in the bank and what the handler
\* still has to send are together what was asked for.  The last packet, and no
\* other, is a short one.
DataInv ==
  host.transfer.stage = "data" =>
    /\ host.transfer.request \in Reads
    /\ isr.at \in {"out", "reply", "descriptor"}
    /\ isr.at # "out" => isr.request = host.transfer.request
    /\ isr.at = "reply" => host.transfer.got = 0 /\ bank = <<>>
    /\ isr.at = "descriptor" =>
         /\ bank # <<>> => bank = <<k32BytePacketSize>>
         /\ host.transfer.got + Sent + isr.remaining
              = Expected(host.transfer.request)
    /\ isr.at = "out" /\ setup = <<>> /\ ~stall =>
         /\ bank # <<>> /\ bank[1] < k32BytePacketSize
         /\ host.transfer.got + Sent = Expected(host.transfer.request)

\* A status stage: the status packet is sent before the request is carried out.
StatusInv ==
  host.transfer.stage = "status" =>
    /\ host.transfer.request \in Writes \cup Ignored
    /\ isr.at \in {"out", "handshake", "store", "enable"}
    /\ isr.at # "out" => isr.request = host.transfer.request
    /\ isr.at = "handshake" => bank = <<>>
    /\ isr.at \in {"store", "enable"} => bank = <<0>>
    /\ isr.at = "out" /\ setup = <<>> /\ ~stall =>
         \/ /\ host.transfer.request \in Writes /\ bank = <<0>>
            /\ host.transfer.request.name # "SET_ADDRESS"
         \/ host.transfer.request \in Ignored /\ bank = <<>>

CallInv ==
  /\ isr.at = "reply" =>
       isr.request \in Reads /\ isr.request.name \in DOMAIN Replies
  /\ isr.at = "descriptor" =>
       /\ isr.request \in Reads /\ isr.request.name = "GET_DESCRIPTOR"
       /\ Expected(isr.request) <= isr.request.length
  /\ isr.at \in {"handshake", "store", "enable"} => isr.request \in Writes
  /\ isr.at = "enable" =>
       /\ isr.request.name = "SET_ADDRESS"
       /\ UDADDR.address = isr.request.value

\* The two sides agree on the address but while SET_ADDRESS is carried out; then
\* the host goes first.
Agree == host.address = IF UDADDR.ADDEN THEN UDADDR.address ELSE 0

AddressInv ==
  /\ UDADDR.ADDEN => UDADDR.address # 0
  /\ host.transfer.stage # "idle"
       /\ host.transfer.request.name = "SET_ADDRESS" => host.address = 0
  /\ isr.at = "out" \/ isr.request.name # "SET_ADDRESS" => Agree
  /\ isr.at # "out" /\ isr.request.name = "SET_ADDRESS" =>
       /\ ~UDADDR.ADDEN
       /\ host.address = IF host.transfer.stage = "idle"
                           THEN isr.request.value ELSE 0

\* A host that has the status packet of SET_CONFIGURATION may be ahead of the
\* handler.
Configures(request) ==
  request.name = "SET_CONFIGURATION" /\ request.value = kConfigurationValue

ConfiguredInv ==
  /\ host.configured => enabled \/ (isr.at = "store" /\ Configures(isr.request))
  /\ /\ host.transfer.stage = "status" /\ isr.at = "out" /\ setup = <<>>
     /\ Configures(host.transfer.request)
     => enabled

\* The event loop starts with a control endpoint at rest, and leaves it so.
LoopInv ==
  pc # "boot" =>
    /\ host = Detached /\ setup = <<>> /\ bank = <<>> /\ stall = FALSE
    /\ isr = Returned /\ ep0 = FALSE /\ UDADDR = Unaddressed

ControlInv ==
  /\ ControlTypeOK /\ RestInv /\ SetupInv /\ StallInv /\ DataInv /\ StatusInv
  /\ CallInv /\ AddressInv /\ ConfiguredInv /\ LoopInv


-----------------------------------------------------------------------------
(***************************************************************************)
(* The requests, their handlers and what there is to be read.              *)
(***************************************************************************)
LEMMA RepliesAre ==
  /\ DOMAIN Replies = {"GET_STATUS", "GET_CONFIGURATION", "HID_GET_REPORT",
                       "HID_GET_IDLE", "HID_GET_PROTOCOL"}
  /\ \A name \in DOMAIN Replies : Replies[name] \in 1..8
<1>1. DOMAIN Replies = {"GET_STATUS", "GET_CONFIGURATION", "HID_GET_REPORT",
                        "HID_GET_IDLE", "HID_GET_PROTOCOL"}
  BY DEF Replies
<1>2. ASSUME NEW name \in DOMAIN Replies
      PROVE  Replies[name] \in 1..8
  BY <1>1, <1>2 DEF Replies
<1>3. QED
  BY <1>1, <1>2

\* The size of a descriptor fits in the byte that holds a length.
LEMMA DescriptorsFit ==
  \A container \in descriptor_list : container.length \in 1..255
BY DEF descriptor_list, device_descriptor, sizeof, combined_descriptor,
       hid_report, supported_languages, manufacturer, product

LEMMA ReadIs ==
  ASSUME NEW r \in Reads
  PROVE  /\ r.length \in Nat \ {0}
         /\ r.name = "GET_DESCRIPTOR" \/ r.name \in DOMAIN Replies
         /\ r.name \in DOMAIN Replies => r.length = Replies[r.name]
<1>1. CASE \E id \in DescriptorIds, l \in Lengths :
             r = Request("GET_DESCRIPTOR", id, l)
  <2>1. PICK id \in DescriptorIds, l \in Lengths :
          r = Request("GET_DESCRIPTOR", id, l)
    BY <1>1
  <2>2. r.name = "GET_DESCRIPTOR" /\ r.length = l
    BY <2>1 DEF Request
  <2>3. l \in Nat \ {0}
    BY EnumerationAssumption
  <2>4. "GET_DESCRIPTOR" \notin DOMAIN Replies
    BY RepliesAre
  <2>5. QED
    BY <2>2, <2>3, <2>4
<1>2. CASE \E name \in DOMAIN Replies : r = Request(name, 0, Replies[name])
  <2>1. PICK name \in DOMAIN Replies : r = Request(name, 0, Replies[name])
    BY <1>2
  <2>2. r.name = name /\ r.length = Replies[name]
    BY <2>1 DEF Request
  <2>3. Replies[name] \in 1..8
    BY RepliesAre
  <2>4. QED
    BY <2>2, <2>3
<1>3. QED
  BY <1>1, <1>2 DEF Reads

Stores == {"SET_ADDRESS", "SET_CONFIGURATION", "HID_SET_IDLE", "HID_SET_PROTOCOL"}

LEMMA WriteIs ==
  ASSUME NEW r \in Writes
  PROVE  /\ r.length = 0 /\ r.name \in Stores
         /\ r.name = "SET_ADDRESS" => r.value \in Addresses
         /\ r.name = "SET_CONFIGURATION" => r.value \in Configurations
         /\ r.name = "HID_SET_IDLE" =>
              \E v \in IdleConfigs : r.value = 256 * v
BY DEF Writes, Request, Stores

LEMMA IgnoredIs ==
  ASSUME NEW r \in Ignored
  PROVE  r.length = 0 /\ r.name \in Unsupported
BY DEF Ignored, Request

LEMMA HandlersAreCalled ==
  ASSUME NEW h \in Handlers
  PROVE  h \in Called(h)
BY DEF Called, CalledByCode, bmRequestType, HidRequests

LEMMA ReadHandler ==
  ASSUME NEW r \in Reads
  PROVE  /\ r.name = "GET_DESCRIPTOR" => Handler(r.name) = "descriptor"
         /\ r.name \in DOMAIN Replies => Handler(r.name) = "reply"
<1>1. Called(r.name) # {}
  BY ReadIs, HandlersAreCalled DEF Handlers
<1>2. "GET_DESCRIPTOR" \notin DOMAIN Replies
  BY RepliesAre
<1>3. QED
  BY <1>1, <1>2 DEF Handler

LEMMA WriteHandler ==
  ASSUME NEW r \in Writes
  PROVE  Handler(r.name) = "handshake"
<1>1. r.name \in Stores
  BY WriteIs
<1>2. Called(r.name) # {}
  BY <1>1, HandlersAreCalled DEF Handlers, Stores
<1>3. r.name \notin DOMAIN Replies \cup {"GET_DESCRIPTOR"}
  BY <1>1, RepliesAre DEF Stores
<1>4. QED
  BY <1>2, <1>3 DEF Handler

LEMMA IgnoredHandler ==
  ASSUME NEW r \in Ignored
  PROVE  Handler(r.name) = "out"
<1>1. Called(r.name) = {}
  BY IgnoredIs, UnsupportedAssumption
<1>2. QED
  BY <1>1 DEF Handler

\* What the descriptor handler sets out to send.
LEMMA DescriptorFound ==
  ASSUME NEW r \in Reads, r.name = "GET_DESCRIPTOR",
         FindMatchingContainer(r) # {}
  PROVE  /\ Lesser(Lesser(r.length, 255),
                   CHOOSE s \in FindMatchingContainer(r) : TRUE) = Expected(r)
         /\ Expected(r) \in Nat /\ Expected(r) <= r.length
<1> DEFINE size == CHOOSE s \in FindMatchingContainer(r) : TRUE
<1>1. size \in FindMatchingContainer(r)
  OBVIOUS
<1>2. size \in 1..255
  BY <1>1, DescriptorsFit DEF FindMatchingContainer
<1>3. r.length \in Nat \ {0}
  BY ReadIs
<1>4. Expected(r) = Lesser(r.length, size)
  BY DEF Expected
<1> HIDE DEF size
<1>5. /\ Lesser(Lesser(r.length, 255), size) = Lesser(r.length, size)
      /\ Lesser(r.length, size) \in Nat /\ Lesser(r.length, size) <= r.length
  BY <1>2, <1>3 DEF Lesser
<1>6. QED
  BY <1>4, <1>5 DEF size

\* What the other reading handlers send.
LEMMA ReplyExpected ==
  ASSUME NEW r \in Reads, r.name \in DOMAIN Replies
  PROVE  Expected(r) = Replies[r.name] /\ Replies[r.name] \in 1..8
<1>1. r.length = Replies[r.name] /\ Replies[r.name] \in 1..8
  BY ReadIs, RepliesAre
<1>2. r.name # "GET_DESCRIPTOR"
  BY RepliesAre
<1>3. QED
  BY <1>1, <1>2 DEF Expected, Lesser

-----------------------------------------------------------------------------
(***************************************************************************)
(* The invariant holds at the beginning.                                   *)
(***************************************************************************)
LEMMA InitControlInv == EnumerationInit => ControlInv
<1> SUFFICES ASSUME EnumerationInit
             PROVE  ControlInv
  OBVIOUS
<1> USE DEF EnumerationInit
<1>1. ControlTypeOK
  BY DEF ControlTypeOK, Detached, AtRest, Returned, Unaddressed, Transfers,
         Calls
<1>2. pc = "boot"
  BY DEF Init
<1>3. QED
  BY <1>1, <1>2 DEF ControlInv, RestInv, SetupInv, StallInv, DataInv, StatusInv,
     CallInv, AddressInv, ConfiguredInv, LoopInv, Agree, Detached, AtRest,
     Returned, Unaddressed

\* A transfer or a call that is under way is not one at rest, and back.
LEMMA TransferStages ==
  ASSUME NEW t \in Transfers
  PROVE  /\ t.stage \in {"idle", "data", "status"}
         /\ t.stage = "idle" => t = AtRest
         /\ t.stage # "idle" =>
              /\ t \in [stage : {"data", "status"}, request : Requests, got : Nat]
              /\ t.request \in Requests /\ t.got \in Nat
BY DEF Transfers, AtRest

LEMMA CallPositions ==
  ASSUME NEW c \in Calls
  PROVE  /\ c.at \in {"out", "reply", "descriptor", "handshake", "store", "enable"}
         /\ c.at = "out" => c = Returned
         /\ c.at # "out" =>
              /\ c \in [at : {"reply", "descriptor", "handshake", "store", "enable"},
                        request : Reads \cup Writes, remaining : Nat]
              /\ c.request \in Reads \cup Writes /\ c.remaining \in Nat
BY DEF Calls, Returned

LEMMA ReplyKeeps ==
  ASSUME ControlInv, Reply
  PROVE  ControlInv'
<1> USE DEF ControlInv, Reply, TXINI
<1>1. isr' = Returned /\ Returned \in Calls /\ Returned.at = "out"
  BY DEF Returned, Calls
<1>2. /\ isr.request \in Reads /\ isr.request.name \in DOMAIN Replies
      /\ Replies[isr.request.name] \in 1..8
  BY RepliesAre DEF CallInv
<1>3. ControlTypeOK'
  BY <1>1, <1>2 DEF ControlTypeOK, k32BytePacketSize
<1>4. host.transfer.stage = "data" /\ setup = <<>> /\ ~stall
  BY TransferStages DEF ControlTypeOK, RestInv, StatusInv, SetupInv, StallInv
<1>5. pc = "boot" /\ pc' = pc /\ enabled' = enabled
  BY DEF LoopInv, Returned, vars, device, caller
<1>6. QED
  BY <1>1, <1>2, <1>3, <1>4, <1>5, ReplyExpected
     DEF RestInv, SetupInv, StallInv, DataInv, StatusInv, CallInv, AddressInv,
         ConfiguredInv, LoopInv, Agree, Sent, k32BytePacketSize

LEMMA SendDescriptorPacketKeeps ==
  ASSUME ControlInv, SendDescriptorPacket
  PROVE  ControlInv'
<1> DEFINE current == Lesser(isr.remaining, k32BytePacketSize)
<1> USE DEF ControlInv
<1>0. /\ isr.at = "descriptor" /\ bank = <<>> /\ bank' = <<current>>
      /\ isr' = IF isr.remaining > current \/ current = k32BytePacketSize
                  THEN [isr EXCEPT !.remaining = @ - current]
                  ELSE Returned
      /\ UNCHANGED <<pc, enabled, host, setup, stall, ep0, UDADDR, protocol>>
  BY DEF SendDescriptorPacket, TXINI, vars, device, caller
<1>1. /\ isr.request \in Reads /\ isr.request.name = "GET_DESCRIPTOR"
      /\ isr.remaining \in Nat
      /\ isr \in [at : {"reply", "descriptor", "handshake", "store", "enable"},
                  request : Reads \cup Writes, remaining : Nat]
  BY <1>0, CallPositions DEF CallInv, ControlTypeOK
<1>2. /\ current \in 0..k32BytePacketSize /\ isr.remaining - current \in Nat
      /\ isr.remaining > current => current = k32BytePacketSize
      /\ ~(isr.remaining > current) => isr.remaining = current
  BY <1>1 DEF Lesser, k32BytePacketSize
<1> HIDE DEF current
<1>3. \/ isr' = Returned /\ current = isr.remaining /\ current < k32BytePacketSize
      \/ /\ isr' = [isr EXCEPT !.remaining = isr.remaining - current]
         /\ current = k32BytePacketSize
  <2>1. CASE isr.remaining > current \/ current = k32BytePacketSize
    BY <1>0, <1>2, <2>1
  <2>2. CASE ~(isr.remaining > current \/ current = k32BytePacketSize)
    <3>1. isr' = Returned /\ current = isr.remaining
      BY <1>0, <1>2, <2>2
    <3>2. current < k32BytePacketSize
      BY <1>2, <2>2 DEF k32BytePacketSize
    <3>3. QED
      BY <3>1, <3>2
  <2>3. QED
    BY <2>1, <2>2
<1>4. /\ isr' \in Calls
      /\ isr'.at = "out" \/ (/\ isr'.at = "descriptor" /\ isr'.request = isr.request
                            /\ isr'.remaining = isr.remaining - current)
  <2>1. CASE isr' = Returned
    BY <2>1 DEF Calls, Returned
  <2>2. CASE isr' = [isr EXCEPT !.remaining = isr.remaining - current]
    <3>1. isr' \in [at : {"reply", "descriptor", "handshake", "store", "enable"},
                    request : Reads \cup Writes, remaining : Nat]
      BY <1>1, <1>2, <2>2
    <3>2. /\ isr'.at = isr.at /\ isr'.request = isr.request
          /\ isr'.remaining = isr.remaining - current
      BY <1>1, <2>2
    <3>3. QED
      BY <1>0, <3>1, <3>2 DEF Calls
  <2>3. QED
    BY <1>3, <2>1, <2>2
<1>5. ControlTypeOK'
  BY <1>0, <1>2, <1>4 DEF ControlTypeOK
<1>6. /\ host.transfer.stage \in {"idle", "data"} /\ setup = <<>> /\ ~stall
      /\ pc = "boot"
      /\ host.transfer.got \in Nat \/ host.transfer.stage = "idle"
  BY <1>0, TransferStages
     DEF ControlTypeOK, StatusInv, SetupInv, StallInv, LoopInv, Returned
<1>7. QED
  BY <1>0, <1>1, <1>2, <1>3, <1>4, <1>5, <1>6
     DEF RestInv, SetupInv, StallInv, DataInv, StatusInv, CallInv, AddressInv,
         ConfiguredInv, LoopInv, Agree, Sent, k32BytePacketSize, Returned

LEMMA HandshakeKeeps ==
  ASSUME ControlInv, HandshakeTransmitterInterrupt
  PROVE  ControlInv'
<1> USE DEF ControlInv
<1>0. /\ isr.at = "handshake" /\ bank' = <<0>>
      /\ isr' = [isr EXCEPT !.at = "store"]
      /\ UNCHANGED <<pc, enabled, host, setup, stall, ep0, UDADDR, protocol>>
  BY DEF HandshakeTransmitterInterrupt, vars, device, caller
<1>1. /\ isr.request \in Writes /\ isr' \in Calls /\ isr'.at = "store"
      /\ isr'.request = isr.request
  BY <1>0, CallPositions DEF CallInv, ControlTypeOK, Calls
<1>2. ControlTypeOK'
  BY <1>0, <1>1 DEF ControlTypeOK, k32BytePacketSize
<1>3. host.transfer.stage = "status" /\ setup = <<>> /\ ~stall /\ pc = "boot"
  BY <1>0, TransferStages
     DEF ControlTypeOK, RestInv, DataInv, SetupInv, StallInv, LoopInv, Returned
<1>4. QED
  BY <1>0, <1>1, <1>2, <1>3
     DEF RestInv, SetupInv, StallInv, DataInv, StatusInv, CallInv, AddressInv,
         ConfiguredInv, LoopInv, Agree, Sent

\* What the three handlers that end with storing something have in common.
LEMMA StoreEnds ==
  ASSUME ControlInv, isr.at = "store", isr.request.name # "SET_ADDRESS",
         isr' = Returned, UNCHANGED <<pc, host, setup, bank, stall, ep0, UDADDR>>,
         enabled => enabled', Configures(isr.request) => enabled'
  PROVE  ControlInv'
<1> USE DEF ControlInv
<1>1. isr.request \in Writes /\ Returned \in Calls /\ Returned.at = "out"
  BY DEF CallInv, Calls, Returned
<1>2. ControlTypeOK'
  BY <1>1 DEF ControlTypeOK
<1>3. /\ host.transfer.stage \in {"idle", "status"} /\ setup = <<>> /\ ~stall
      /\ pc = "boot"
  BY TransferStages
     DEF ControlTypeOK, DataInv, SetupInv, StallInv, LoopInv, Returned
<1>4. QED
  BY <1>1, <1>2, <1>3
     DEF RestInv, SetupInv, StallInv, DataInv, StatusInv, CallInv, AddressInv,
         ConfiguredInv, LoopInv, Agree, Sent

LEMMA StoreConfigurationKeeps ==
  ASSUME ControlInv, StoreConfiguration
  PROVE  ControlInv'
<1>1. /\ isr.at = "store" /\ isr.request.name = "SET_CONFIGURATION"
      /\ isr' = Returned /\ UNCHANGED <<pc, host, setup, bank, stall, ep0, UDADDR>>
  BY DEF StoreConfiguration, Storing, SetConfiguration, ControlRequest, caller
<1>2. \/ isr.request.value % 256 = kConfigurationValue /\ enabled' = TRUE
      \/ isr.request.value % 256 # kConfigurationValue /\ enabled' = enabled
  BY DEF StoreConfiguration, SetConfiguration, HandleSetConfiguration
<1>3. Configures(isr.request) => isr.request.value % 256 = kConfigurationValue
  BY DEF Configures, kConfigurationValue
<1>4. enabled => enabled'
  BY <1>2
<1>5. Configures(isr.request) => enabled'
  BY <1>2, <1>3
<1>6. QED
  BY <1>1, <1>4, <1>5, StoreEnds

LEMMA StoreIdleKeeps ==
  ASSUME ControlInv, StoreIdle
  PROVE  ControlInv'
<1>1. /\ isr.at = "store" /\ isr.request.name = "HID_SET_IDLE"
      /\ isr' = Returned /\ UNCHANGED <<pc, host, setup, bank, stall, ep0, UDADDR>>
      /\ enabled' = enabled
  BY DEF StoreIdle, Storing, SetIdle, ControlRequest, caller
<1>2. ~Configures(isr.request)
  BY <1>1 DEF Configures
<1>3. QED
  BY <1>1, <1>2, StoreEnds

LEMMA StoreProtocolKeeps ==
  ASSUME ControlInv, StoreProtocol
  PROVE  ControlInv'
<1>1. /\ isr.at = "store" /\ isr.request.name = "HID_SET_PROTOCOL"
      /\ isr' = Returned /\ UNCHANGED <<pc, host, setup, bank, stall, ep0, UDADDR>>
      /\ enabled' = enabled
  BY DEF StoreProtocol, Storing, vars, device, caller
<1>2. ~Configures(isr.request)
  BY <1>1 DEF Configures
<1>3. QED
  BY <1>1, <1>2, StoreEnds

LEMMA StoreAddressKeeps ==
  ASSUME ControlInv, StoreAddress
  PROVE  ControlInv'
<1> USE DEF ControlInv
<1>0. /\ isr.at = "store" /\ isr.request.name = "SET_ADDRESS"
      /\ UDADDR' = [address |-> isr.request.value, ADDEN |-> FALSE]
      /\ isr' = [isr EXCEPT !.at = "enable"]
      /\ UNCHANGED <<pc, enabled, host, setup, bank, stall, ep0, protocol>>
  BY DEF StoreAddress, Storing, vars, device, caller
<1>1. /\ isr.request \in Writes /\ isr' \in Calls /\ isr'.at = "enable"
      /\ isr'.request = isr.request
  BY <1>0, CallPositions DEF CallInv, ControlTypeOK, Calls
<1>2. isr.request.value \in Addresses
  BY <1>0, <1>1, WriteIs
<1>3. ControlTypeOK'
  BY <1>0, <1>1, <1>2 DEF ControlTypeOK
<1>4. /\ host.transfer.stage \in {"idle", "status"} /\ setup = <<>> /\ ~stall
      /\ pc = "boot"
  BY <1>0, TransferStages
     DEF ControlTypeOK, DataInv, SetupInv, StallInv, LoopInv, Returned
<1>5. UDADDR'.ADDEN = FALSE /\ UDADDR'.address = isr.request.value
  BY <1>0
<1>6. ~Configures(isr.request)
  BY <1>0 DEF Configures
<1>7. QED
  BY <1>0, <1>1, <1>3, <1>4, <1>5, <1>6
     DEF RestInv, SetupInv, StallInv, DataInv, StatusInv, CallInv, AddressInv,
         ConfiguredInv, LoopInv, Agree, Sent

LEMMA EnableAddressKeeps ==
  ASSUME ControlInv, EnableAddress
  PROVE  ControlInv'
<1> USE DEF ControlInv
<1>0. /\ isr.at = "enable" /\ bank = <<>> /\ isr' = Returned
      /\ UDADDR' = [UDADDR EXCEPT !.ADDEN = TRUE]
      /\ UNCHANGED <<pc, enabled, host, setup, bank, stall, ep0, protocol>>
  BY DEF EnableAddress, TXINI, vars, device, caller
<1>1. /\ isr.request \in Writes /\ isr.request.name = "SET_ADDRESS"
      /\ UDADDR.address = isr.request.value /\ isr.request.value \in Addresses
      /\ Returned \in Calls /\ Returned.at = "out"
  BY <1>0, WriteIs DEF CallInv, Returned, Calls
<1>2. /\ UDADDR' \in [address : Addresses \cup {0}, ADDEN : BOOLEAN]
      /\ UDADDR'.ADDEN = TRUE /\ UDADDR'.address = UDADDR.address
  BY <1>0 DEF ControlTypeOK
<1>3. ControlTypeOK'
  BY <1>0, <1>1, <1>2 DEF ControlTypeOK
<1>4. /\ host.transfer.stage = "idle" /\ setup = <<>> /\ ~stall /\ pc = "boot"
  BY <1>0, TransferStages
     DEF ControlTypeOK, DataInv, StatusInv, SetupInv, StallInv, LoopInv,
         Returned
<1>5. isr.request.value # 0 /\ ~Configures(isr.request)
  BY <1>1, EnumerationAssumption DEF Configures
<1>6. QED
  BY <1>0, <1>1, <1>2, <1>3, <1>4, <1>5
     DEF RestInv, SetupInv, StallInv, DataInv, StatusInv, CallInv, AddressInv,
         ConfiguredInv, LoopInv, Agree, Sent

LEMMA LesserIsNatural ==
  ASSUME NEW a \in Nat, NEW b, b = 0
  PROVE  Lesser(Lesser(a, 255), b) \in Nat
BY DEF Lesser

\* What the endpoint interrupt makes of the packet in the bank.
LEMMA EnterEndpointInterruptKeeps ==
  ASSUME ControlInv, EnterEndpointInterrupt
  PROVE  ControlInv'
<1> DEFINE r == host.transfer.request
           at == Handler(r.name)
           size == IF at = "descriptor" THEN FindMatchingContainer(r) ELSE {0}
           chosen == CHOOSE s \in size : TRUE
           remaining == Lesser(Lesser(r.length, 255), chosen)
<1> USE DEF ControlInv
<1>0. /\ setup # <<>> /\ isr = Returned /\ setup' = <<>>
      /\ UNCHANGED <<pc, enabled, host, bank, ep0, UDADDR, protocol>>
  BY DEF EnterEndpointInterrupt, OtherRequest, ControlRequest, caller
<1>1. /\ setup = <<r>> /\ bank = <<>> /\ host.transfer.stage \in {"data", "status"}
      /\ host.transfer.got = 0 /\ r \in Requests /\ pc = "boot"
      /\ host.transfer.got \in Nat
  BY <1>0, TransferStages DEF SetupInv, ControlTypeOK, LoopInv
<1>2. ParseFromUsbEndpoint = r
  BY <1>1 DEF ParseFromUsbEndpoint
<1>3. /\ stall' = (size = {})
      /\ isr' = IF at = "out" \/ size = {} THEN Returned
                ELSE [at |-> at, request |-> r, remaining |-> remaining]
  BY <1>2 DEF EnterEndpointInterrupt
<1>4. stall' \in BOOLEAN
  BY <1>3
<1>5. Returned \in Calls /\ Returned.at = "out"
  BY DEF Returned, Calls
<1>6. CASE r \in Ignored
  <2>1. at = "out" /\ size = {0}
    BY <1>6, IgnoredHandler
  <2> HIDE DEF at, size, chosen, remaining
  <2>2. isr' = Returned /\ ~stall'
    BY <1>3, <2>1
  <2>3. host.transfer.stage = "status"
    BY <1>1, <1>6, ReadIs, IgnoredIs DEF DataInv
  <2>4. ControlTypeOK'
    BY <1>0, <1>4, <1>5, <2>2 DEF ControlTypeOK
  <2>5. r.name # "SET_ADDRESS" /\ ~Configures(r)
    <3>1. r.name \notin Handlers
      BY <1>6, IgnoredIs, UnsupportedAssumption, HandlersAreCalled
    <3>2. QED
      BY <3>1 DEF Handlers, Configures
  <2> HIDE DEF r
  <2>6. QED
    BY <1>0, <1>1, <1>4, <1>5, <1>6, <2>2, <2>3, <2>4, <2>5
       DEF RestInv, SetupInv, StallInv, DataInv, StatusInv, CallInv, AddressInv,
           ConfiguredInv, LoopInv, Agree, Sent, r
<1>7. CASE r \in Writes
  <2>1. at = "handshake" /\ size = {0}
    BY <1>7, WriteHandler
  <2>2. remaining \in Nat
    <3>1. r.length \in Nat /\ chosen = 0
      BY <1>7, <2>1, WriteIs
    <3> HIDE DEF chosen
    <3>2. QED
      BY <3>1, LesserIsNatural
  <2> HIDE DEF at, size, chosen, remaining
  <2>3. isr' = [at |-> "handshake", request |-> r, remaining |-> remaining] /\ ~stall'
    BY <1>3, <2>1
  <2>4. /\ isr' \in Calls /\ isr'.at = "handshake" /\ isr'.request = r
    BY <1>7, <2>2, <2>3 DEF Calls
  <2>5. host.transfer.stage = "status"
    BY <1>1, <1>7, ReadIs, WriteIs DEF DataInv
  <2>6. ControlTypeOK'
    BY <1>0, <1>4, <2>4 DEF ControlTypeOK
  <2>7. r.name = "SET_ADDRESS" => ~UDADDR.ADDEN
    BY <1>0, <1>1, <1>5, <2>5 DEF AddressInv, Agree
  <2> HIDE DEF r
  <2>8. QED
    BY <1>0, <1>1, <1>4, <1>5, <1>7, <2>3, <2>4, <2>5, <2>6, <2>7
       DEF RestInv, SetupInv, StallInv, DataInv, StatusInv, CallInv, AddressInv,
           ConfiguredInv, LoopInv, Agree, Sent, r
<1>8. CASE r \in Reads
  <2>1. host.transfer.stage = "data"
    BY <1>1, <1>8, ReadIs, WriteIs, IgnoredIs DEF StatusInv
  <2>2. r.name # "SET_ADDRESS" /\ ~Configures(r)
    BY <1>8, ReadIs, RepliesAre DEF Configures
  <2>3. CASE r.name = "GET_DESCRIPTOR" /\ FindMatchingContainer(r) = {}
    <3>1. size = {}
      BY <1>8, <2>3, ReadHandler
    <3> HIDE DEF at, size, chosen, remaining
    <3>2. isr' = Returned /\ stall'
      BY <1>3, <3>1
    <3>3. ControlTypeOK'
      BY <1>0, <1>4, <1>5, <3>2 DEF ControlTypeOK
    <3> HIDE DEF r
    <3>4. QED
      BY <1>0, <1>1, <1>4, <1>5, <1>8, <2>1, <2>2, <3>2, <3>3
         DEF RestInv, SetupInv, StallInv, DataInv, StatusInv, CallInv,
             AddressInv, ConfiguredInv, LoopInv, Agree, Sent, r
  <2>4. CASE r.name = "GET_DESCRIPTOR" /\ FindMatchingContainer(r) # {}
    <3>1. at = "descriptor" /\ size = FindMatchingContainer(r)
      BY <1>8, <2>4, ReadHandler
    <3>2. /\ remaining = Expected(r) /\ Expected(r) \in Nat
          /\ Expected(r) <= r.length
      BY <1>8, <2>4, <3>1, DescriptorFound
    <3> HIDE DEF at, size, chosen, remaining
    <3>3. isr' = [at |-> "descriptor", request |-> r, remaining |-> remaining] /\ ~stall'
      BY <1>3, <2>4, <3>1
    <3>4. /\ isr' \in Calls /\ isr'.at = "descriptor" /\ isr'.request = r
          /\ isr'.remaining = Expected(r)
      BY <1>8, <3>2, <3>3 DEF Calls
    <3>5. ControlTypeOK'
      BY <1>0, <1>4, <3>4 DEF ControlTypeOK
    <3> HIDE DEF r
    <3>6. QED
      BY <1>0, <1>1, <1>4, <1>5, <1>8, <2>1, <2>2, <2>4, <3>2, <3>3, <3>4, <3>5
         DEF RestInv, SetupInv, StallInv, DataInv, StatusInv, CallInv,
             AddressInv, ConfiguredInv, LoopInv, Agree, Sent, r
  <2>5. CASE r.name \in DOMAIN Replies
    <3>1. at = "reply" /\ size = {0}
      BY <1>8, <2>5, ReadHandler
    <3>2. remaining \in Nat
      <4>1. r.length \in Nat /\ chosen = 0
        BY <1>8, <3>1, ReadIs
      <4> HIDE DEF chosen
      <4>2. QED
        BY <4>1, LesserIsNatural
    <3> HIDE DEF at, size, chosen, remaining
    <3>3. isr' = [at |-> "reply", request |-> r, remaining |-> remaining] /\ ~stall'
      BY <1>3, <3>1
    <3>4. /\ isr' \in Calls /\ isr'.at = "reply" /\ isr'.request = r
      BY <1>8, <3>2, <3>3 DEF Calls
    <3>5. ControlTypeOK'
      BY <1>0, <1>4, <3>4 DEF ControlTypeOK
    <3> HIDE DEF r
    <3>6. QED
      BY <1>0, <1>1, <1>4, <1>5, <1>8, <2>1, <2>2, <2>5, <3>3, <3>4, <3>5
         DEF RestInv, SetupInv, StallInv, DataInv, StatusInv, CallInv,
             AddressInv, ConfiguredInv, LoopInv, Agree, Sent, r
  <2>6. QED
    BY <1>8, <2>3, <2>4, <2>5, ReadIs
<1>9. QED
  BY <1>1, <1>6, <1>7, <1>8 DEF Requests

-----------------------------------------------------------------------------
(***************************************************************************)
(* The steps of the host keep the invariant.                               *)
(***************************************************************************)
LEMMA HostSetupKeeps ==
  ASSUME ControlInv, NEW r \in Requests, HostSetup(r)
  PROVE  ControlInv'
<1> DEFINE transfer == [stage |-> IF r.length > 0 THEN "data" ELSE "status",
                        request |-> r, got |-> 0]
<1> USE DEF ControlInv
<1>0. /\ pc = "boot" /\ isr = Returned /\ host.transfer = AtRest /\ setup = <<>>
      /\ r.name = "SET_ADDRESS" => host.address = 0
      /\ setup' = <<r>> /\ bank' = <<>> /\ stall' = FALSE
      /\ host' = [host EXCEPT !.transfer = transfer]
      /\ UNCHANGED <<pc, enabled, isr, ep0, UDADDR>>
  BY DEF HostSetup, vars, device, caller
<1>1. /\ transfer \in Transfers /\ transfer.request = r /\ transfer.got = 0
      /\ transfer.stage \in {"data", "status"}
      /\ transfer.stage = "data" => r \in Reads
      /\ transfer.stage = "status" => r \in Writes \cup Ignored
  BY ReadIs, WriteIs, IgnoredIs DEF Transfers, Requests
<1> HIDE DEF transfer
<1>2. /\ host' \in [transfer : Transfers, address : Addresses \cup {0},
                    configured : BOOLEAN]
      /\ host'.transfer = transfer /\ host'.address = host.address
      /\ host'.configured = host.configured
  BY <1>0, <1>1 DEF ControlTypeOK
<1>3. ControlTypeOK'
  BY <1>0, <1>2 DEF ControlTypeOK
<1>4. Returned.at = "out"
  BY DEF Returned
<1>5. RestInv' /\ SetupInv' /\ StallInv' /\ DataInv'
  BY <1>0, <1>1, <1>2, <1>4 DEF RestInv, SetupInv, StallInv, DataInv
<1>6. StatusInv' /\ CallInv'
  BY <1>0, <1>1, <1>2, <1>4 DEF StatusInv, CallInv
<1>7. AddressInv'
  BY <1>0, <1>1, <1>2, <1>4 DEF AddressInv, Agree
<1>8. ConfiguredInv' /\ LoopInv'
  BY <1>0, <1>1, <1>2, <1>4 DEF ConfiguredInv, LoopInv
<1>9. QED
  BY <1>3, <1>5, <1>6, <1>7, <1>8

LEMMA HostTakesDataKeeps ==
  ASSUME ControlInv, HostTakesData
  PROVE  /\ ControlInv'
         /\ host'.transfer = AtRest =>
              host.transfer.got + Head(bank) = Expected(host.transfer.request)
<1> DEFINE got == host.transfer.got + bank[1]
           last == bank[1] < k32BytePacketSize \/ got = host.transfer.request.length
<1> USE DEF ControlInv
<1>0. /\ host.transfer.stage = "data" /\ bank # <<>> /\ setup = <<>> /\ bank' = <<>>
      /\ UNCHANGED <<pc, enabled, setup, stall, isr, ep0, UDADDR>>
  BY DEF HostTakesData, Arrived, vars, device, caller
<1>1. bank = <<bank[1]>> /\ bank[1] \in 0..k32BytePacketSize /\ Head(bank) = bank[1]
  BY <1>0 DEF ControlTypeOK
<1>2. host' = [host EXCEPT !.transfer = IF last THEN AtRest ELSE [@ EXCEPT !.got = got]]
  BY <1>1 DEF HostTakesData
<1>3. /\ host.transfer \in [stage : {"data", "status"}, request : Requests, got : Nat]
      /\ host.transfer.got \in Nat /\ got \in Nat
      /\ host.transfer.request \in Reads /\ host.transfer.request.length \in Nat
      /\ isr.remaining \in Nat \/ isr.at # "descriptor"
  <2>1. /\ host.transfer \in [stage : {"data", "status"}, request : Requests, got : Nat]
        /\ host.transfer.got \in Nat /\ host.transfer.request \in Reads
    BY <1>0, TransferStages DEF ControlTypeOK, DataInv
  <2>2. got \in Nat
    BY <1>1, <2>1 DEF k32BytePacketSize
  <2>3. host.transfer.request.length \in Nat
    BY <2>1, ReadIs
  <2>4. isr.remaining \in Nat \/ isr.at # "descriptor"
    BY CallPositions DEF ControlTypeOK
  <2>5. QED
    BY <2>1, <2>2, <2>3, <2>4
<1>4. /\ isr.at \in {"out", "descriptor"} /\ ~stall
      /\ isr.at = "out" =>
           /\ bank[1] < k32BytePacketSize
           /\ got = Expected(host.transfer.request)
      /\ isr.at = "descriptor" =>
           /\ bank[1] = k32BytePacketSize
           /\ got + isr.remaining = Expected(host.transfer.request)
           /\ isr.request = host.transfer.request
  BY <1>0, <1>1, <1>3 DEF DataInv, StallInv, LoopInv, Sent
<1>5. isr.at = "descriptor" =>
        Expected(host.transfer.request) <= host.transfer.request.length
  BY <1>4 DEF CallInv
<1>6. pc = "boot"
  BY <1>0 DEF LoopInv, Detached, AtRest
<1>7. host.transfer.request.name # "SET_ADDRESS"
  BY <1>3, ReadIs, RepliesAre
<1> HIDE DEF got
<1>8. CASE last
  <2>1. got = Expected(host.transfer.request)
        /\ (isr.at = "descriptor" => isr.remaining = 0)
    BY <1>3, <1>4, <1>5, <1>8 DEF k32BytePacketSize
  <2>2. host' = [host EXCEPT !.transfer = AtRest] /\ AtRest \in Transfers
        /\ AtRest.stage = "idle"
    BY <1>2, <1>8 DEF AtRest, Transfers
  <2>3. /\ host' \in [transfer : Transfers, address : Addresses \cup {0},
                      configured : BOOLEAN]
        /\ host'.transfer = AtRest /\ host'.address = host.address
        /\ host'.configured = host.configured
    BY <2>2 DEF ControlTypeOK
  <2>4. ControlTypeOK'
    BY <1>0, <2>3 DEF ControlTypeOK
  <2>5. ControlInv'
    BY <1>0, <1>3, <1>4, <1>6, <1>7, <2>1, <2>2, <2>3, <2>4
       DEF RestInv, SetupInv, StallInv, DataInv, StatusInv, CallInv, AddressInv,
           ConfiguredInv, LoopInv, Agree, Sent
  <2>6. QED
    BY <1>1, <2>1, <2>5 DEF got
<1>9. CASE ~last
  <2>1. isr.at = "descriptor"
    BY <1>4, <1>9
  <2>2. host' = [host EXCEPT !.transfer = [host.transfer EXCEPT !.got = got]]
    BY <1>2, <1>9
  <2>3. /\ [host.transfer EXCEPT !.got = got] \in
             [stage : {"data", "status"}, request : Requests, got : Nat]
        /\ [host.transfer EXCEPT !.got = got].stage = "data"
        /\ [host.transfer EXCEPT !.got = got].got = got
        /\ [host.transfer EXCEPT !.got = got].request = host.transfer.request
    BY <1>0, <1>3
  <2>4. /\ host' \in [transfer : Transfers, address : Addresses \cup {0},
                      configured : BOOLEAN]
        /\ host'.transfer = [host.transfer EXCEPT !.got = got]
        /\ host'.address = host.address /\ host'.configured = host.configured
    BY <2>2, <2>3 DEF ControlTypeOK, Transfers
  <2>5. /\ host'.transfer.stage = "data" /\ host'.transfer.got = got
        /\ host'.transfer.request = host.transfer.request
    BY <2>3, <2>4
  <2>6. ControlTypeOK'
    BY <1>0, <2>4 DEF ControlTypeOK
  <2>7. ControlInv'
    BY <1>0, <1>3, <1>4, <1>6, <1>7, <2>1, <2>4, <2>5, <2>6
       DEF RestInv, SetupInv, StallInv, DataInv, StatusInv, CallInv, AddressInv,
           ConfiguredInv, LoopInv, Agree, Sent
  <2>8. host'.transfer # AtRest
    BY <2>5 DEF AtRest
  <2>9. QED
    BY <2>7, <2>8
<1>10. QED
  BY <1>8, <1>9

LEMMA HostTakesStatusKeeps ==
  ASSUME ControlInv, HostTakesStatus
  PROVE  ControlInv'
<1> DEFINE r == host.transfer.request
<1> USE DEF ControlInv
<1>0. /\ host.transfer.stage = "status" /\ bank # <<>> /\ setup = <<>> /\ bank' = <<>>
      /\ host' = [transfer |-> AtRest,
                  address |-> IF r.name = "SET_ADDRESS" THEN r.value ELSE host.address,
                  configured |-> IF r.name = "SET_CONFIGURATION"
                                   THEN r.value = kConfigurationValue
                                   ELSE host.configured]
      /\ UNCHANGED <<pc, enabled, setup, stall, isr, ep0, UDADDR>>
  BY DEF HostTakesStatus, Arrived, vars, device, caller
<1>1. /\ isr.at \in {"out", "store", "enable"} /\ ~stall /\ pc = "boot"
      /\ isr.at # "out" => isr.request = r
      /\ isr.at = "out" => r.name # "SET_ADDRESS"
      /\ r \in Writes
  <2>1. pc = "boot"
    BY <1>0 DEF LoopInv, Detached, AtRest
  <2>2. QED
    BY <1>0, <2>1 DEF StatusInv, StallInv, CallInv
<1>2. r.name = "SET_ADDRESS" => r.value \in Addresses
  BY <1>1, WriteIs
<1>3. AtRest \in Transfers /\ AtRest.stage = "idle"
  BY DEF Transfers, AtRest
<1>4. /\ host' \in [transfer : Transfers, address : Addresses \cup {0},
                    configured : BOOLEAN]
      /\ host'.transfer = AtRest
      /\ host'.address = IF r.name = "SET_ADDRESS" THEN r.value ELSE host.address
      /\ host'.configured = IF r.name = "SET_CONFIGURATION"
                              THEN r.value = kConfigurationValue
                              ELSE host.configured
  BY <1>0, <1>2, <1>3 DEF ControlTypeOK
<1>5. ControlTypeOK'
  BY <1>0, <1>4 DEF ControlTypeOK
<1>6. host'.configured => host.configured \/ Configures(r)
  BY <1>4 DEF Configures
<1>7. isr.at = "enable" => r.name = "SET_ADDRESS"
  BY <1>1 DEF CallInv
<1>8. isr.at = "store" \/ isr.at = "enable" \/ isr.at = "out"
  BY <1>1
<1>9. ConfiguredInv'
  BY <1>0, <1>1, <1>3, <1>4, <1>6, <1>7 DEF ConfiguredInv, Configures
<1>10. QED
  BY <1>0, <1>1, <1>3, <1>4, <1>5, <1>7, <1>9
     DEF RestInv, SetupInv, StallInv, DataInv, StatusInv, CallInv, AddressInv,
         ConfiguredInv, LoopInv, Agree, Sent

LEMMA HostGivesUpKeeps ==
  ASSUME ControlInv, HostGivesUp
  PROVE  ControlInv'
<1> USE DEF ControlInv
<1>0. /\ stall \/ (setup = <<>> /\ bank = <<>> /\ isr = Returned)
      /\ host.transfer # AtRest
      /\ host' = [host EXCEPT !.transfer = AtRest]
      /\ UNCHANGED <<pc, enabled, setup, bank, stall, isr, ep0, UDADDR>>
  BY DEF HostGivesUp, Silent, vars, device, caller
<1>1. AtRest \in Transfers /\ AtRest.stage = "idle" /\ Returned.at = "out"
  BY DEF Transfers, AtRest, Returned
<1>2. /\ host' \in [transfer : Transfers, address : Addresses \cup {0},
                    configured : BOOLEAN]
      /\ host'.transfer = AtRest /\ host'.address = host.address
      /\ host'.configured = host.configured
  BY <1>0, <1>1 DEF ControlTypeOK
<1>3. ControlTypeOK'
  BY <1>0, <1>2 DEF ControlTypeOK
<1>4. setup = <<>> /\ isr.at = "out" /\ pc = "boot"
  BY <1>0, <1>1 DEF SetupInv, StallInv, LoopInv, Detached
<1>5. QED
  BY <1>0, <1>1, <1>2, <1>3, <1>4
     DEF RestInv, SetupInv, StallInv, DataInv, StatusInv, CallInv, AddressInv,
         ConfiguredInv, LoopInv, Agree, Sent

\* The host and the endpoint start anew.
LEMMA DetachedKeeps ==
  ASSUME host' = Detached, setup' = <<>>, bank' = <<>>, stall' = FALSE,
         isr' = Returned, ep0' = FALSE, UDADDR' = Unaddressed
  PROVE  ControlInv'
<1>1. ControlTypeOK'
  BY DEF ControlTypeOK, Detached, AtRest, Returned, Unaddressed, Transfers,
         Calls
<1>2. QED
  BY <1>1 DEF ControlInv, RestInv, SetupInv, StallInv, DataInv, StatusInv,
     CallInv, AddressInv, ConfiguredInv, LoopInv, Agree, Detached, AtRest,
     Returned, Unaddressed

LEMMA GeneralInterruptKeepsControl ==
  ASSUME ControlInv, NEW frame_error \in BOOLEAN, GeneralInterrupt(frame_error)
  PROVE  ControlInv'
<1>1. /\ pc = "boot" /\ UNCHANGED <<pc, enabled, host, setup, bank, stall, isr, UDADDR>>
  BY DEF GeneralInterrupt, HandleGeneralInterrupt, caller
<1>2. ep0' = (ep0 \/ "EORSTI" \in UDINT)
  BY DEF GeneralInterrupt
<1>3. ep0' \in BOOLEAN
  BY <1>2
<1>4. ControlTypeOK'
  BY <1>1, <1>3 DEF ControlTypeOK, ControlInv
<1>5. QED
  BY <1>1, <1>4
     DEF RestInv, SetupInv, StallInv, DataInv, StatusInv, CallInv, AddressInv,
         ConfiguredInv, LoopInv, Agree, Sent, ControlInv

\* Steps that have nothing to do with the control endpoint.
LEMMA ControlUnchanged ==
  ASSUME ControlInv, UNCHANGED control, pc # "boot" \/ UNCHANGED <<pc, enabled>>
  PROVE  ControlInv'
<1>1. CASE pc # "boot"
  BY <1>1, DetachedKeeps DEF ControlInv, LoopInv, control
<1>2. CASE UNCHANGED <<pc, enabled>>
  BY <1>2
     DEF ControlInv, ControlTypeOK, RestInv, SetupInv, StallInv, DataInv,
         StatusInv, CallInv, AddressInv, ConfiguredInv, LoopInv, Agree, Sent,
         control
<1>3. QED
  BY <1>1, <1>2

LEMMA NextKeepsControlInv == ControlInv /\ [EnumerationNext]_allvars => ControlInv'
<1> SUFFICES ASSUME ControlInv, [EnumerationNext]_allvars
             PROVE  ControlInv'
  OBVIOUS
<1>1. CASE EnterEndpointInterrupt
  BY <1>1, EnterEndpointInterruptKeeps
<1>2. CASE InHandler
  BY <1>2, ReplyKeeps, SendDescriptorPacketKeeps, HandshakeKeeps,
     StoreConfigurationKeeps, StoreIdleKeeps, StoreProtocolKeeps,
     StoreAddressKeeps, EnableAddressKeeps
     DEF InHandler
<1>3. CASE \E request \in Reads \cup Writes \cup Ignored : HostSetup(request)
  BY <1>3, HostSetupKeeps DEF Requests
<1>4. CASE HostControl
  BY <1>4, HostTakesDataKeeps, HostTakesStatusKeeps, HostGivesUpKeeps
     DEF HostControl
<1>5. CASE HostResetsBus
  BY <1>5, DetachedKeeps DEF HostResetsBus
<1>6. ASSUME NEW frame_error \in BOOLEAN, GeneralInterrupt(frame_error)
      PROVE  ControlInv'
  BY <1>6, GeneralInterruptKeepsControl
<1>7. CASE BeginEventLoop
  BY <1>7, DetachedKeeps DEF BeginEventLoop
<1>8. ASSUME pc # "boot", UNCHANGED control
      PROVE  ControlInv'
  BY <1>8, ControlUnchanged
<1>9. ASSUME FrameBegins \/ HostReads, UNCHANGED control
      PROVE  ControlInv'
  <2>1. UNCHANGED <<pc, enabled>>
    BY <1>9 DEF FrameBegins, HostReads, device, caller
  <2>2. QED
    BY <1>9, <2>1, ControlUnchanged
<1>10. CASE UNCHANGED allvars
  <2>1. UNCHANGED control /\ UNCHANGED <<pc, enabled>>
    BY <1>10 DEF allvars, vars, device, caller
  <2>2. QED
    BY <2>1, ControlUnchanged
<1>11. QED
  BY <1>1, <1>2, <1>3, <1>4, <1>5, <1>6, <1>7, <1>8, <1>9, <1>10
     DEF EnumerationNext, EventLoop, GeneralInterruptInLoop, Later

LEMMA ControlInvHolds == EnumerationSpec => []ControlInv
BY InitControlInv, NextKeepsControlInv, PTL DEF EnumerationSpec

-----------------------------------------------------------------------------
(***************************************************************************)
(* The theorems.                                                           *)
(***************************************************************************)
\* Between two requests a configured endpoint answers at the address the host
\* uses: HandleSetAddress switches over exactly when the host does.
THEOREM AddressesAlwaysAgree == EnumerationSpec => []AddressesAgree
<1>1. ControlInv => AddressesAgree
  BY DEF ControlInv, AddressInv, Agree, AddressesAgree, Answers, Returned
<1>2. QED
  BY <1>1, ControlInvHolds, PTL

\* A host whose transfer comes to nothing has asked for what the device has no
\* handler for: no supported request, however long its answer, is left half
\* answered.
THEOREM RequestsAreAnswered == EnumerationSpec => []EveryRequestIsAnswered
<1>1. ControlInv => EveryRequestIsAnswered
  <2> SUFFICES ASSUME ControlInv, Silent
               PROVE  host.transfer.request \in Ignored
    BY DEF EveryRequestIsAnswered
  <2>1. /\ host.transfer # AtRest /\ setup = <<>> /\ bank = <<>> /\ ~stall
        /\ isr.at = "out"
    BY DEF Silent, Returned
  <2>2. host.transfer.stage \in {"data", "status"}
    BY <2>1, TransferStages DEF ControlInv, ControlTypeOK
  <2>3. QED
    BY <2>1, <2>2 DEF ControlInv, DataInv, StatusInv
<1>2. QED
  BY <1>1, ControlInvHolds, PTL

\* A host that has seen SET_CONFIGURATION completed finds the keyboard endpoint
\* enabled once the handler has returned.
THEOREM ConfiguredHostFindsEndpoint == EnumerationSpec => []ConfiguredIsEnabled
<1>1. ControlInv => ConfiguredIsEnabled
  BY DEF ControlInv, ConfiguredInv, ConfiguredIsEnabled, Returned
<1>2. QED
  BY <1>1, ControlInvHolds, PTL

\* A data stage that ends has brought the host the whole descriptor or as much
\* of it as it asked for, for every length and number of packets.
THEOREM TransfersAreWhole == EnumerationSpec => TransferIsWhole
<1>1. ControlInv /\ [EnumerationNext]_allvars =>
        [HostTakesData /\ host'.transfer = AtRest
         => host.transfer.got + Head(bank) = Expected(host.transfer.request)]_allvars
  BY HostTakesDataKeeps
<1>2. QED
  BY <1>1, ControlInvHolds, PTL DEF EnumerationSpec, TransferIsWhole

=============================================================================
