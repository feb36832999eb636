-------------------------- MODULE I2cEepromProofs --------------------------
(***************************************************************************)
(* The driver and the simulated device, for every set of offsets and of    *)
(* values: an access succeeds exactly when the device is there, and both   *)
(* together take the steps of Eeprom.                                      *)
(*                                                                         *)
(* The invariant says where the device is at each step of the driver.      *)
(* While data bytes are acknowledged with the expected status the device   *)
(* has no address between two accesses: what the bytes of the next one are *)
(* ORed to is 0.  Under the other status it keeps some of an address, but  *)
(* then no access gets beyond the first byte, and the array stays as it is.*)
(***************************************************************************)
EXTENDS I2cEeprom, TLAPS

Acked == dataAck = "TW_MT_SLA_ACK"
Present == IsRelevant /\ Acked

Calls ==
  [at : {"idle", "start", "high", "low", "restart", "data", "read", "stop",
         "stop_failed"},
   op : {"none", "read", "write"}, device : Devices, offset : Int,
   data : 0..255]

CallInv ==
  /\ call \in Calls
  /\ call.at = "idle" => call = Idle
  /\ call.at # "idle" => call.offset \in Offsets /\ call.op # "none"

\* The device has nothing of an address.
NoAddress == slave.address = 0 /\ slave.counter = 0

BusInv ==
  /\ DOMAIN slave = {"state", "address", "counter"}
  /\ call.at \in {"idle", "start", "high", "stop_failed"} /\ Acked => NoAddress
  /\ call.at = "high" => IsRelevant /\ slave.state = "ADDRESSING_HIGH"
  /\ call.at = "low" =>
       /\ Present /\ slave.state = "ADDRESSING_LOW"
       /\ slave.address = (call.offset \div Radix) * Radix
       /\ slave.counter = 0
  /\ call.at \in {"restart", "data", "read"} =>
       /\ Present /\ slave.state = "STARTED"
       /\ slave.address = call.offset
       /\ slave.counter = 0
       /\ call.op = IF call.at = "data" THEN "write" ELSE "read"
  /\ call.at = "stop" =>
       /\ Present
       /\ call.data = IF call.op = "read" THEN (buffer[call.offset] + 1) % 256
                                          ELSE buffer[call.offset]
  /\ call.at = "stop_failed" => call.op = "read" /\ ~Present

Inv ==
  /\ buffer \in [0..(Size - 1) -> 0..255]
  /\ dataAck \in {"TW_MT_SLA_ACK", "TW_MT_DATA_ACK"}
  /\ CallInv /\ BusInv

\* The two bytes of an offset are its digits.
LEMMA Digits ==
  ASSUME NEW o \in Offsets
  PROVE  /\ o \in 0..(Size - 1) /\ o \in Nat
         /\ o \div Radix \in 0..(Radix - 1)
         /\ o % Radix \in 0..(Radix - 1)
         /\ o = (o \div Radix) * Radix + (o % Radix)
<1>1. o \in 0..(Size - 1) /\ Radix \in Nat /\ Radix > 0
  BY BusAssumption
<1>2. o \in Nat /\ o < Radix * Radix
  <2> DEFINE s == Radix * Radix
  <2>1. s \in Nat /\ Size = s - 1
    BY <1>1 DEF Size
  <2> HIDE DEF s
  <2>2. o \in Nat /\ o < s
    BY <1>1, <2>1
  <2> QED
    BY <2>2 DEF s
<1>3. /\ o \div Radix \in Nat /\ o % Radix \in 0..(Radix - 1)
      /\ o = (o \div Radix) * Radix + (o % Radix)
  BY <1>1, <1>2
<1>4. o \div Radix < Radix
  <2> DEFINE h == o \div Radix
  <2>1. h \in Nat /\ h * Radix <= o
    BY <1>1, <1>2, <1>3
  <2> HIDE DEF h
  <2>2. ASSUME h >= Radix PROVE FALSE
    <3>1. h * Radix >= Radix * Radix
      BY <1>1, <2>1, <2>2
    <3> QED
      BY <1>1, <1>2, <2>1, <3>1
  <2> QED
    BY <1>1, <2>1, <2>2 DEF h
<1> QED
  BY <1>1, <1>2, <1>3, <1>4

LEMMA Bytes ==
  ASSUME NEW v \in 0..255
  PROVE  /\ (v - 1) % 256 \in 0..255 /\ (v + 1) % 256 \in 0..255
         /\ (((v - 1) % 256) + 1) % 256 = v
  OBVIOUS

LEMMA AddressBytes ==
  ASSUME NEW o \in Offsets
  PROVE  /\ BitOr(0, (o \div Radix) * Radix) = (o \div Radix) * Radix
         /\ BitOr((o \div Radix) * Radix, o % Radix) = o
<1> DEFINE high == o \div Radix
           low == o % Radix
<1>1. high \in 0..(Radix - 1) /\ low \in 0..(Radix - 1)
      /\ o = high * Radix + low
  BY Digits
<1> HIDE DEF high, low
<1>2. BitOr(0, high * Radix) = high * Radix /\ BitOr(high * Radix, low) = o
  BY <1>1, BusAssumption
<1>3. 0 \in 0..(Radix - 1)
  BY BusAssumption
<1> QED
  BY <1>2 DEF high, low

\* The steps of a call change where it is, and at most its data.
LEMMA GotoCall ==
  ASSUME CallInv, call.at # "idle", NEW at, Goto(at),
         at \in {"high", "low", "restart", "data", "read", "stop",
                 "stop_failed"}
  PROVE  /\ CallInv' /\ call'.at = at
         /\ call'.op = call.op /\ call'.device = call.device
         /\ call'.offset = call.offset /\ call'.data = call.data
         /\ reply' = reply /\ IsRelevant' = IsRelevant
  BY DEF CallInv, Calls, Goto, IsRelevant

LEMMA ReturnCall ==
  ASSUME NEW ok, NEW data, Return(ok, data)
  PROVE  CallInv' /\ call' = Idle /\ call'.at = "idle" /\ reply'.ok = ok
  BY DEF CallInv, Calls, Return, Idle, Devices, address_

\* A call that fails.
LEMMA FailCall ==
  ASSUME CallInv, call.at # "idle", Fail
  PROVE  /\ CallInv'
         /\ \/ /\ call.op = "read" /\ call'.op = "read"
               /\ call'.at = "stop_failed"
               /\ IsRelevant' = IsRelevant
               /\ reply' = reply
            \/ /\ call' = Idle /\ call'.at = "idle"
               /\ reply'.ok = FALSE
<1>1. CASE call.op = "read"
  BY <1>1, GotoCall DEF Fail
<1>2. CASE call.op # "read"
  BY <1>2, ReturnCall DEF Fail
<1> QED
  BY <1>1, <1>2

LEMMA FailInv ==
  ASSUME Inv, call.at # "idle", Fail, ~Present, UNCHANGED <<buffer, dataAck>>,
         DOMAIN slave' = {"state", "address", "counter"}, Acked => NoAddress'
  PROVE  Inv'
<1>1. CallInv /\ (Acked' = Acked)
  BY DEF Inv, Acked
<1>2. CASE call'.at = "idle" /\ CallInv'
  BY <1>1, <1>2 DEF Inv, BusInv
<1>3. CASE /\ call'.at = "stop_failed" /\ call'.op = "read" /\ CallInv'
           /\ IsRelevant' = IsRelevant
  <2>1. ~Present'
    BY <1>1, <1>3 DEF Present
  <2> QED
    BY <1>1, <1>3, <2>1 DEF Inv, BusInv
<1> QED
  BY <1>1, <1>2, <1>3, FailCall

LEMMA InitInv == Init => Inv
  BY BusAssumption
     DEF Init, Inv, CallInv, BusInv, Calls, Idle, Reset, NoAddress, Devices,
         address_, Acked

LEMMA ReadByteInv ==
  ASSUME Inv, NEW d \in Devices, NEW o \in Offsets, ReadByte(d, o)
  PROVE  Inv'
<1>1. call' \in Calls /\ call'.offset = o /\ call'.op = "read"
      /\ call'.at = "start" /\ call.at = "idle"
  BY Digits DEF ReadByte, Calls, Idle
<1> QED
  BY <1>1 DEF Inv, CallInv, BusInv, ReadByte, Acked, NoAddress

LEMMA WriteByteInv ==
  ASSUME Inv, NEW d \in Devices, NEW o \in Offsets, NEW v \in Values,
         WriteByte(d, o, v)
  PROVE  Inv'
<1>1. v \in 0..255
  BY BusAssumption
<1>2. call' \in Calls /\ call'.offset = o /\ call'.op = "write"
      /\ call'.at = "start" /\ call.at = "idle"
  BY <1>1, Digits, Bytes DEF WriteByte, Calls, Idle
<1> QED
  BY <1>2 DEF Inv, CallInv, BusInv, WriteByte, Acked, NoAddress

LEMMA StartWriteInv == Inv /\ StartWrite => Inv'
<1> SUFFICES ASSUME Inv, StartWrite PROVE Inv'
  OBVIOUS
<1>1. /\ call.at = "start"
      /\ slave' = AfterStart("WRITE")
      /\ UNCHANGED <<buffer, dataAck>>
      /\ Checked(IF IsRelevant THEN "TW_MT_SLA_ACK" ELSE "TW_MT_SLA_NACK",
                 "high")
  BY DEF StartWrite, Start
<1>2. CallInv /\ DOMAIN slave = {"state", "address", "counter"}
      /\ (Acked => NoAddress) /\ (Acked' = Acked)
  BY <1>1 DEF Inv, BusInv, Acked
<1>3. CASE IsRelevant
  <2>1. /\ DOMAIN slave' = {"state", "address", "counter"}
        /\ slave'.state = "ADDRESSING_HIGH"
        /\ slave'.address = slave.address /\ slave'.counter = slave.counter
    BY <1>1, <1>2, <1>3 DEF AfterStart
  <2>2. Goto("high")
    BY <1>1, <1>3 DEF Checked
  <2>3. CallInv' /\ call'.at = "high" /\ IsRelevant'
    BY <1>1, <1>2, <1>3, <2>2, GotoCall
  <2>4. BusInv'
    BY <1>2, <2>1, <2>3 DEF BusInv, NoAddress
  <2> QED
    BY <1>1, <2>3, <2>4 DEF Inv
<1>4. CASE ~IsRelevant
  <2>1. /\ DOMAIN slave' = {"state", "address", "counter"}
        /\ NoAddress'
    BY <1>1, <1>4 DEF AfterStart, Reset, NoAddress
  <2>2. Fail
    BY <1>1, <1>4 DEF Checked
  <2> QED
    BY <1>1, <1>2, <1>4, <2>1, <2>2, FailInv DEF Present
<1> QED
  BY <1>3, <1>4

LEMMA SendHighInv == Inv /\ SendHigh => Inv'
<1> SUFFICES ASSUME Inv, SendHigh PROVE Inv'
  OBVIOUS
<1> DEFINE o == call.offset
           high == o \div Radix
<1>1. /\ call.at = "high" /\ CallInv /\ o \in Offsets
      /\ IsRelevant /\ slave.state = "ADDRESSING_HIGH"
      /\ DOMAIN slave = {"state", "address", "counter"}
      /\ (Acked => NoAddress)
  BY DEF SendHigh, Inv, CallInv, BusInv
<1>2. HandleWrite(high) /\ Checked(dataAck, "low") /\ dataAck' = dataAck
  BY <1>1 DEF SendHigh, SendByte
<1>3. /\ buffer' = buffer
      /\ slave' = [slave EXCEPT !.address = BitOr(@, high * Radix),
                                !.state = "ADDRESSING_LOW"]
  BY <1>1, <1>2 DEF HandleWrite
<1>4. /\ DOMAIN slave' = {"state", "address", "counter"}
      /\ slave'.state = "ADDRESSING_LOW"
      /\ slave'.address = BitOr(slave.address, high * Radix)
      /\ slave'.counter = slave.counter
  BY <1>1, <1>3
<1>5. CASE Acked
  <2>1. slave'.address = high * Radix /\ slave'.counter = 0
    BY <1>1, <1>4, <1>5, AddressBytes DEF NoAddress
  <2>2. Goto("low")
    BY <1>2, <1>5 DEF Checked, Acked
  <2>3. CallInv' /\ call'.at = "low" /\ IsRelevant' /\ call'.offset = o
    BY <1>1, <2>2, GotoCall
  <2>4. Acked' /\ Present'
    BY <1>2, <1>5, <2>3 DEF Acked, Present
  <2>5. BusInv'
    BY <1>4, <2>1, <2>3, <2>4 DEF BusInv
  <2> QED
    BY <1>2, <1>3, <2>3, <2>5 DEF Inv
<1>6. CASE ~Acked
  <2>1. Fail
    BY <1>2, <1>6 DEF Checked, Acked, Inv
  <2> QED
    BY <1>1, <1>2, <1>3, <1>4, <1>6, <2>1, FailInv DEF Present
<1> QED
  BY <1>5, <1>6

LEMMA SendLowInv == Inv /\ SendLow => Inv'
<1> SUFFICES ASSUME Inv, SendLow PROVE Inv'
  OBVIOUS
<1> DEFINE o == call.offset
           next == IF call.op = "read" THEN "restart" ELSE "data"
<1>1. /\ call.at = "low" /\ CallInv /\ o \in Offsets
      /\ Present /\ slave.state = "ADDRESSING_LOW"
      /\ DOMAIN slave = {"state", "address", "counter"}
      /\ slave.address = (o \div Radix) * Radix
      /\ slave.counter = 0
      /\ call.op \in {"read", "write"}
  BY DEF SendLow, Inv, CallInv, BusInv, Calls
<1>2. HandleWrite(o % Radix) /\ Checked(dataAck, next) /\ dataAck' = dataAck
  BY <1>1 DEF SendLow, SendByte, Present
<1>3. /\ buffer' = buffer
      /\ slave' = [slave EXCEPT !.address = BitOr(@, o % Radix),
                                !.state = "STARTED"]
  BY <1>1, <1>2 DEF HandleWrite, Present
<1>4. /\ DOMAIN slave' = {"state", "address", "counter"}
      /\ slave'.state = "STARTED"
      /\ slave'.address = o
      /\ slave'.counter = 0
  BY <1>1, <1>3, AddressBytes
<1>5. Goto(next)
  BY <1>1, <1>2 DEF Checked, Present, Acked
<1>6. /\ CallInv' /\ call'.at = next /\ IsRelevant' /\ call'.offset = o
      /\ call'.op = call.op
  BY <1>1, <1>5, GotoCall DEF Present
<1>7. Present'
  BY <1>1, <1>2, <1>6 DEF Acked, Present
<1>8. BusInv'
  BY <1>1, <1>4, <1>6, <1>7 DEF BusInv
<1> QED
  BY <1>2, <1>3, <1>6, <1>8 DEF Inv

LEMMA StartReadInv == Inv /\ StartRead => Inv'
<1> SUFFICES ASSUME Inv, StartRead PROVE Inv'
  OBVIOUS
<1>1. /\ call.at = "restart" /\ CallInv /\ Present
      /\ slave.address = call.offset /\ slave.counter = 0
      /\ call.op = "read"
      /\ DOMAIN slave = {"state", "address", "counter"}
  BY DEF StartRead, Inv, BusInv
<1>2. /\ slave' = AfterStart("READ")
      /\ UNCHANGED <<buffer, dataAck>>
      /\ Checked("TW_MR_SLA_ACK", "read")
  BY <1>1 DEF StartRead, Start, Present
<1>3. /\ DOMAIN slave' = {"state", "address", "counter"}
      /\ slave'.state = "STARTED"
      /\ slave'.address = call.offset /\ slave'.counter = 0
  BY <1>1, <1>2 DEF AfterStart, Present
<1>4. Goto("read")
  BY <1>2 DEF Checked
<1>5. /\ CallInv' /\ call'.at = "read" /\ IsRelevant'
      /\ call'.offset = call.offset /\ call'.op = "read"
  BY <1>1, <1>4, GotoCall DEF Present
<1>6. Present'
  BY <1>1, <1>2, <1>5 DEF Acked, Present
<1>7. BusInv'
  BY <1>3, <1>5, <1>6 DEF BusInv
<1> QED
  BY <1>2, <1>5, <1>7 DEF Inv

\* What the device does with a data byte: it is stored where the call says.
LEMMA DataIsStored ==
  ASSUME Inv, SendData
  PROVE  /\ call.op = "write" /\ call.offset \in Offsets /\ Present
         /\ buffer' = [buffer EXCEPT ![call.offset] = call.data]
         /\ slave' = [slave EXCEPT !.counter = (@ + 1) % 256]
         /\ Goto("stop") /\ dataAck' = dataAck
<1>1. /\ call.at = "data" /\ call.op = "write" /\ call.offset \in Offsets
      /\ Present /\ slave.state = "STARTED"
      /\ slave.address = call.offset /\ slave.counter = 0
  BY DEF SendData, Inv, CallInv, BusInv
<1>2. HandleWrite(call.data) /\ Checked(dataAck, "stop")
      /\ dataAck' = dataAck
  BY <1>1 DEF SendData, SendByte, Present
<1>3. Position = call.offset
  BY <1>1, Digits DEF Position
<1>4. /\ buffer' = [buffer EXCEPT ![Position] = call.data]
      /\ slave' = [slave EXCEPT !.counter = (@ + 1) % 256]
  BY <1>1, <1>2 DEF HandleWrite, Present
<1>5. Goto("stop")
  BY <1>1, <1>2 DEF Checked, Present, Acked
<1> QED
  BY <1>1, <1>2, <1>3, <1>4, <1>5

LEMMA SendDataInv == Inv /\ SendData => Inv'
<1> SUFFICES ASSUME Inv, SendData PROVE Inv'
  OBVIOUS
<1>1. CallInv /\ call.at = "data" /\ call.data \in 0..255
      /\ DOMAIN slave = {"state", "address", "counter"}
  BY DEF SendData, Inv, CallInv, Calls, BusInv
<1>2. /\ call.op = "write" /\ call.offset \in Offsets /\ Present
      /\ buffer' = [buffer EXCEPT ![call.offset] = call.data]
      /\ slave' = [slave EXCEPT !.counter = (@ + 1) % 256]
      /\ Goto("stop") /\ dataAck' = dataAck
  BY DataIsStored
<1>3. /\ CallInv' /\ call'.at = "stop" /\ call'.op = "write"
      /\ call'.data = call.data /\ call'.offset = call.offset
      /\ Present'
  BY <1>1, <1>2, GotoCall DEF Present, Acked
<1>4. buffer' \in [0..(Size - 1) -> 0..255]
  BY <1>1, <1>2 DEF Inv
<1>5. buffer'[call.offset] = call.data
  BY <1>2, Digits DEF Inv
<1>6. DOMAIN slave' = {"state", "address", "counter"}
  BY <1>1, <1>2
<1>7. BusInv'
  BY <1>3, <1>5, <1>6 DEF BusInv
<1> QED
  BY <1>2, <1>3, <1>4, <1>7 DEF Inv

\* The byte that is read is the one at the offset of the call.
LEMMA DataIsRead ==
  ASSUME Inv, ReceiveData
  PROVE  /\ call.op = "read" /\ call.offset \in Offsets /\ Present
         /\ call' = [call EXCEPT !.at = "stop",
                                 !.data = (buffer[call.offset] + 1) % 256]
<1>1. /\ call.at = "read" /\ call.op = "read" /\ call.offset \in Offsets
      /\ Present /\ slave.address = call.offset /\ slave.counter = 0
  BY DEF ReceiveData, Inv, CallInv, BusInv
<1>2. Position = call.offset
  BY <1>1, Digits DEF Position
<1> QED
  BY <1>1, <1>2 DEF ReceiveData

LEMMA ReceiveDataInv == Inv /\ ReceiveData => Inv'
<1> SUFFICES ASSUME Inv, ReceiveData PROVE Inv'
  OBVIOUS
<1> DEFINE byte == (buffer[call.offset] + 1) % 256
<1>1. /\ call.op = "read" /\ call.offset \in Offsets /\ Present
      /\ call' = [call EXCEPT !.at = "stop", !.data = byte]
  BY DataIsRead
<1>2. byte \in 0..255
  <2>1. buffer[call.offset] \in 0..255
    BY <1>1, Digits DEF Inv
  <2> QED
    BY <2>1, Bytes
<1>3. UNCHANGED <<buffer, dataAck>>
      /\ slave' = [slave EXCEPT !.counter = (@ + 1) % 256]
  BY DEF ReceiveData
<1> HIDE DEF byte
<1>4. /\ call' \in Calls /\ call'.at = "stop" /\ call'.op = "read"
      /\ call'.offset = call.offset /\ call'.device = call.device
      /\ call'.data = byte
  BY <1>1, <1>2 DEF Inv, CallInv, Calls
<1>5. CallInv' /\ Present'
  BY <1>1, <1>3, <1>4 DEF CallInv, Present, IsRelevant, Acked
<1>6. DOMAIN slave' = {"state", "address", "counter"}
  BY <1>3 DEF Inv, BusInv
<1>7. BusInv'
  BY <1>3, <1>4, <1>5, <1>6 DEF BusInv, byte
<1> QED
  BY <1>3, <1>5, <1>7 DEF Inv

LEMMA StopInv == Inv /\ Stop => Inv'
<1> SUFFICES ASSUME Inv, Stop PROVE Inv'
  OBVIOUS
<1>1. /\ call.at \in {"stop", "stop_failed"}
      /\ slave' = AfterStop /\ UNCHANGED <<buffer, dataAck>>
      /\ \E ok, data : Return(ok, data)
  BY DEF Stop
<1>2. CallInv' /\ call'.at = "idle"
  BY <1>1, ReturnCall
<1>3. DOMAIN slave' = {"state", "address", "counter"}
  BY <1>1 DEF Inv, BusInv, AfterStop, Reset
<1>4. Acked' => NoAddress'
  <2>1. CASE IsRelevant
    BY <1>1, <2>1 DEF AfterStop, Reset, NoAddress
  <2>2. CASE ~IsRelevant
    <3>1. call.at = "stop_failed"
      BY <1>1, <2>2 DEF Inv, BusInv, Present
    <3> QED
      BY <1>1, <2>2, <3>1 DEF Inv, BusInv, AfterStop, NoAddress, Acked
  <2> QED
    BY <2>1, <2>2
<1>5. BusInv'
  BY <1>2, <1>3, <1>4 DEF BusInv
<1> QED
  BY <1>1, <1>2, <1>5 DEF Inv

LEMMA NextInv == Inv /\ [Next]_vars => Inv'
<1> SUFFICES ASSUME Inv, [Next]_vars PROVE Inv'
  OBVIOUS
<1>1. CASE UNCHANGED vars
  BY <1>1 DEF vars, Inv, CallInv, BusInv, Present, Acked, NoAddress, IsRelevant
<1>2. CASE Transfer
  BY <1>2, StartWriteInv, SendHighInv, SendLowInv, StartReadInv, SendDataInv,
     ReceiveDataInv, StopInv DEF Transfer
<1> QED
  BY <1>1, <1>2, ReadByteInv, WriteByteInv DEF Next

\* i2c_eeprom.cpp, driver and device: between two accesses the device has no
\* address left, and within one it has what the driver sent it.
THEOREM InvHolds == Spec => []Inv
<1>1. QED
  BY InitInv, NextInv, PTL DEF Spec

\* SucceedsIffPresent for all offsets and values: an access never makes up a
\* byte of a missing device (ReadByte and WriteByte of i2c_eeprom.cpp), and
\* fails only for such a device or under a status WriteByteAndAck refuses.
THEOREM AccessesSucceedIffPresent == Spec => SucceedsIffPresent
<1> DEFINE Correct ==
             call # Idle /\ call' = Idle =>
               reply'.ok = (IsRelevant /\ dataAck = "TW_MT_SLA_ACK")
<1>1. ASSUME Inv, [Next]_vars PROVE [Correct]_vars
  <2> SUFFICES ASSUME Next, call # Idle, call' = Idle
               PROVE  reply'.ok = Present
    BY <1>1 DEF Present, Acked
  <2>0. Present \in BOOLEAN
    BY DEF Present, Acked, IsRelevant
  <2>1. CallInv /\ call.at # "idle" /\ call'.at = "idle" /\ Transfer
    <3>1. CallInv /\ call.at # "idle" /\ call'.at = "idle"
      BY <1>1 DEF Inv, CallInv, Idle
    <3> QED
      BY <3>1 DEF Next, ReadByte, WriteByte
  <2>2. ASSUME ~Present, Fail PROVE reply'.ok = Present
    <3>1. reply'.ok = FALSE
      BY <2>1, <2>2, FailCall
    <3> QED
      BY <2>0, <2>2, <3>1
  <2>3. ASSUME NEW at, Goto(at),
               at \in {"high", "low", "restart", "data", "read", "stop"}
        PROVE  FALSE
    BY <2>1, <2>3, GotoCall
  <2>4. CASE StartWrite
    <3>1. ~IsRelevant => Fail
      BY <2>4 DEF StartWrite, Start, Checked
    <3>2. IsRelevant => Goto("high")
      BY <2>4 DEF StartWrite, Start, Checked
    <3> QED
      BY <2>2, <2>3, <3>1, <3>2 DEF Present
  <2>5. CASE SendHigh
    <3>1. IsRelevant
      BY <1>1, <2>5 DEF SendHigh, Inv, BusInv
    <3>2. Checked(dataAck, "low")
      BY <2>5, <3>1 DEF SendHigh, SendByte
    <3>3. Goto("low") \/ (Fail /\ ~Acked)
      BY <3>2 DEF Checked, Acked
    <3> QED
      BY <2>2, <2>3, <3>3 DEF Present
  <2>6. CASE SendLow
    <3>1. Present
      BY <1>1, <2>6 DEF SendLow, Inv, BusInv
    <3>2. Goto("restart") \/ Goto("data")
      BY <2>6, <3>1 DEF SendLow, SendByte, Checked, Present, Acked
    <3> QED
      BY <2>3, <3>2
  <2>7. CASE StartRead
    <3>1. Present
      BY <1>1, <2>7 DEF StartRead, Inv, BusInv
    <3>2. Goto("read")
      BY <2>7, <3>1 DEF StartRead, Start, Checked, Present
    <3> QED
      BY <2>3, <3>2
  <2>8. CASE SendData
    BY <1>1, <2>3, <2>8, DataIsStored
  <2>9. CASE ReceiveData
    BY <2>1, <2>9 DEF ReceiveData, CallInv, Calls
  <2>10. CASE Stop
    <3>1. CASE call.at = "stop"
      <4>1. \E data : Return(TRUE, data)
        BY <2>10, <3>1 DEF Stop
      <4>2. Present
        BY <1>1, <3>1 DEF Inv, BusInv
      <4> QED
        BY <4>1, <4>2 DEF Return
    <3>2. CASE call.at = "stop_failed"
      <4>1. Return(FALSE, 0)
        BY <2>10, <3>2 DEF Stop
      <4>2. ~Present
        BY <1>1, <3>2 DEF Inv, BusInv
      <4> QED
        BY <2>0, <4>1, <4>2 DEF Return
    <3> QED
      BY <2>10, <3>1, <3>2 DEF Stop
  <2> QED
    BY <2>1, <2>4, <2>5, <2>6, <2>7, <2>8, <2>9, <2>10 DEF Transfer
<1>2. QED
  BY <1>1, InvHolds, PTL DEF Spec, SucceedsIffPresent
-----------------------------------------------------------------------------
(***************************************************************************)
(* The steps of Eeprom.                                                    *)
(***************************************************************************)
LEMMA RequestOfCall ==
  ASSUME CallInv, call.at # "idle"
  PROVE  /\ request.op = call.op /\ request.device = call.device
         /\ request.offset = call.offset
         /\ request.data = IF call.op = "read" THEN 0 ELSE (call.data + 1) % 256
         /\ request # EepromDevices!NoRequest
<1>1. call # Idle /\ call.op # "none"
  BY DEF CallInv, Idle
<1>2. request.op = call.op /\ EepromDevices!NoRequest.op = "none"
  BY <1>1 DEF request, EepromDevices!NoRequest
<1>3. request # EepromDevices!NoRequest
  BY <1>1, <1>2
<1> QED
  BY <1>1, <1>2, <1>3 DEF request

LEMMA NoRequestIfIdle ==
  ASSUME call = Idle PROVE request = EepromDevices!NoRequest
  BY DEF request, EepromDevices!NoRequest

\* A step within a call that leaves the array alone is none of Eeprom.
LEMMA GotoStutters ==
  ASSUME CallInv, call.at # "idle", NEW at, Goto(at), buffer' = buffer,
         at \in {"high", "low", "restart", "data", "read", "stop",
                 "stop_failed"}
  PROVE  UNCHANGED EepromDevices!vars
<1>1. /\ call' # Idle /\ call # Idle
      /\ call'.op = call.op /\ call'.device = call.device
      /\ call'.offset = call.offset /\ call'.data = call.data
      /\ reply' = reply
  BY GotoCall DEF Idle
<1>2. request' = request
  BY <1>1 DEF request
<1>3. stored' = stored
  BY DEF stored
<1> QED
  BY <1>1, <1>2, <1>3 DEF EepromDevices!vars

LEMMA FailIsAllowed ==
  ASSUME CallInv, call.at # "idle", Fail, buffer' = buffer
  PROVE  EepromDevices!Fail \/ UNCHANGED EepromDevices!vars
<1>1. CASE call.op = "read"
  BY <1>1, GotoStutters DEF Fail
<1>2. CASE call.op # "read"
  <2>1. call' = Idle /\ reply' = [ok |-> FALSE, data |-> 0]
    BY <1>2 DEF Fail, Return
  <2>2. request' = EepromDevices!NoRequest
    BY <2>1 DEF request, EepromDevices!NoRequest
  <2>3. stored' = stored
    BY DEF stored
  <2> QED
    BY <2>1, <2>2, <2>3, RequestOfCall DEF EepromDevices!Fail
<1> QED
  BY <1>1, <1>2

LEMMA BlankAtFirst == Init => EepromDevices!Init
<1> SUFFICES ASSUME Init PROVE EepromDevices!Init
  OBVIOUS
<1>1. request = EepromDevices!NoRequest
  BY NoRequestIfIdle DEF Init
<1>2. \A o \in Offsets : buffer[o] = 255
  BY Digits DEF Init
<1>3. stored = [d \in Devices |-> [o \in Offsets |-> 0]]
  BY <1>2 DEF stored
<1> QED
  BY <1>1, <1>3 DEF Init, EepromDevices!Init

LEMMA CallsAreRequests ==
  ASSUME Inv, NEW d \in Devices, NEW o \in Offsets
  PROVE  /\ ReadByte(d, o) => EepromDevices!ReadByte(d, o)
         /\ \A v \in Values :
              WriteByte(d, o, v) => EepromDevices!WriteByte(d, o, v)
<1>1. ASSUME ReadByte(d, o) PROVE EepromDevices!ReadByte(d, o)
  <2>1. request = EepromDevices!NoRequest
    BY <1>1, NoRequestIfIdle DEF ReadByte
  <2>2. request' = [op |-> "read", device |-> d, offset |-> o, data |-> 0]
    BY <1>1 DEF ReadByte, request, Idle
  <2> QED
    BY <1>1, <2>1, <2>2 DEF ReadByte, EepromDevices!ReadByte, stored
<1>2. ASSUME NEW v \in Values, WriteByte(d, o, v)
      PROVE  EepromDevices!WriteByte(d, o, v)
  <2>1. request = EepromDevices!NoRequest
    BY <1>2, NoRequestIfIdle DEF WriteByte
  <2>2. (((v - 1) % 256) + 1) % 256 = v
    <3>1. v \in 0..255
      BY BusAssumption
    <3> QED
      BY <3>1, Bytes
  <2>3. request' = [op |-> "write", device |-> d, offset |-> o, data |-> v]
    BY <1>2, <2>2 DEF WriteByte, request, Idle
  <2> QED
    BY <1>2, <2>1, <2>3 DEF WriteByte, EepromDevices!WriteByte, stored
<1> QED
  BY <1>1, <1>2

\* The device stores the byte of the request at its offset, and no other.
LEMMA SendDataTakes ==
  ASSUME Inv, SendData PROVE EepromDevices!Take
<1>1. CallInv /\ call.at = "data"
  BY DEF SendData, Inv
<1>2. /\ call.op = "write" /\ call.offset \in Offsets /\ Present
      /\ buffer' = [buffer EXCEPT ![call.offset] = call.data]
      /\ Goto("stop")
  BY DataIsStored
<1>3. /\ call' # Idle /\ call # Idle
      /\ call'.op = call.op /\ call'.device = call.device
      /\ call'.offset = call.offset /\ call'.data = call.data
      /\ reply' = reply
  BY <1>1, <1>2, GotoCall DEF Idle
<1>4. request' = request
  BY <1>3 DEF request
<1>5. /\ request.op = "write" /\ request.device = address_
      /\ request.offset = call.offset
      /\ request.data = (call.data + 1) % 256
  BY <1>1, <1>2, RequestOfCall DEF Present, IsRelevant
<1>6. stored' = [stored EXCEPT ![address_][call.offset] = (call.data + 1) % 256]
  <2>1. \A o \in Offsets : buffer'[o] = IF o = call.offset THEN call.data
                                                          ELSE buffer[o]
    BY <1>2, Digits DEF Inv
  <2>2. address_ \in Devices
    BY DEF Devices, address_
  <2> DEFINE value == (call.data + 1) % 256
             before == [o \in Offsets |-> (buffer[o] + 1) % 256]
             after == [o \in Offsets |-> (buffer'[o] + 1) % 256]
  <2>3. after = [before EXCEPT ![call.offset] = value]
    <3>1. ASSUME NEW o \in Offsets
          PROVE  after[o] = IF o = call.offset THEN value ELSE before[o]
      <4>1. CASE o = call.offset
        <5>1. buffer'[o] = call.data
          BY <2>1, <4>1
        <5> QED
          BY <4>1, <5>1
      <4>2. CASE o # call.offset
        <5>1. buffer'[o] = buffer[o]
          BY <2>1, <4>2
        <5> QED
          BY <4>2, <5>1
      <4> QED
        BY <4>1, <4>2
    <3>2. /\ before = [o \in Offsets |-> before[o]]
          /\ after = [o \in Offsets |-> after[o]]
      OBVIOUS
    <3> HIDE DEF value, before, after
    <3> QED
      BY <1>2, <3>1, <3>2
  <2>4. /\ stored = [d \in Devices |-> IF d = address_ THEN before
                                     ELSE [o \in Offsets |-> 0]]
        /\ stored' = [d \in Devices |-> IF d = address_ THEN after
                                      ELSE [o \in Offsets |-> 0]]
    BY DEF stored
  <2> HIDE DEF value, before, after
  <2>5. stored' = [stored EXCEPT ![address_][call.offset] = value]
    BY <2>2, <2>3, <2>4
  <2> QED
    BY <2>5 DEF value
<1> QED
  BY <1>3, <1>4, <1>5, <1>6 DEF EepromDevices!Take, EepromDevices!Stored

LEMMA ReceiveDataStutters ==
  ASSUME Inv, ReceiveData PROVE UNCHANGED EepromDevices!vars
<1>1. /\ call.op = "read"
      /\ call' = [call EXCEPT !.at = "stop",
                              !.data = (buffer[call.offset] + 1) % 256]
  BY DataIsRead
<1>2. /\ call' # Idle /\ call # Idle
      /\ call'.op = call.op /\ call'.device = call.device
      /\ call'.offset = call.offset
  <2> DEFINE byte == (buffer[call.offset] + 1) % 256
  <2> HIDE DEF byte
  <2>1. call' = [call EXCEPT !.at = "stop", !.data = byte]
    BY <1>1 DEF byte
  <2>2. call \in Calls /\ call.at = "read"
    BY DEF ReceiveData, Inv, CallInv
  <2>3. call'.at = "stop" /\ call'.op = call.op
        /\ call'.device = call.device /\ call'.offset = call.offset
    BY <2>1, <2>2 DEF Calls
  <2> QED
    BY <2>2, <2>3 DEF Idle
<1>3. request' = request
  BY <1>1, <1>2 DEF request
<1> QED
  BY <1>3 DEF ReceiveData, stored, EepromDevices!vars

\* A call that ends with STOP has the byte read, or its own byte stored.
LEMMA StopSucceeds ==
  ASSUME Inv, Stop PROVE EepromDevices!Succeed \/ EepromDevices!Fail
<1>1. /\ CallInv /\ call.at # "idle" /\ buffer' = buffer
  BY DEF Stop, Inv
<1>2. /\ request.op = call.op /\ request.device = call.device
      /\ request.offset = call.offset
      /\ request.data = IF call.op = "read" THEN 0 ELSE (call.data + 1) % 256
      /\ request # EepromDevices!NoRequest
  BY <1>1, RequestOfCall
<1>3. stored' = stored
  BY <1>1 DEF stored
<1>4. CASE call.at = "stop"
  <2>1. /\ call' = Idle
        /\ reply' = [ok |-> TRUE,
                     data |-> IF call.op = "read" THEN call.data ELSE 0]
    BY <1>4 DEF Stop, Return
  <2>2. /\ call.offset \in Offsets /\ call.device = address_
        /\ call.data = IF call.op = "read" THEN (buffer[call.offset] + 1) % 256
                                           ELSE buffer[call.offset]
    BY <1>4 DEF Inv, CallInv, BusInv, Present, IsRelevant
  <2>3. stored[address_][call.offset] = (buffer[call.offset] + 1) % 256
    BY <2>2 DEF stored, Devices, address_
  <2>4. request' = EepromDevices!NoRequest
    BY <2>1 DEF request, EepromDevices!NoRequest
  <2>5. ASSUME request.op = "write" PROVE stored = EepromDevices!Stored
    <3>1. request.data = stored[address_][call.offset]
      BY <1>2, <2>2, <2>3, <2>5
    <3> DEFINE o == call.offset
               row == stored[address_]
    <3>2. row = [row EXCEPT ![o] = row[o]]
      BY <2>2 DEF stored, Devices, address_
    <3>3. stored = [stored EXCEPT ![address_] = row]
      BY DEF stored
    <3> QED
      BY <1>2, <2>2, <3>1, <3>2, <3>3 DEF EepromDevices!Stored
  <2> QED
    BY <1>2, <1>3, <2>1, <2>2, <2>3, <2>4, <2>5 DEF EepromDevices!Succeed
<1>5. CASE call.at = "stop_failed"
  <2>1. call' = Idle /\ reply' = [ok |-> FALSE, data |-> 0]
    BY <1>5 DEF Stop, Return
  <2>2. request' = EepromDevices!NoRequest
    BY <2>1 DEF request, EepromDevices!NoRequest
  <2> QED
    BY <1>2, <1>3, <2>1, <2>2 DEF EepromDevices!Fail
<1> QED
  BY <1>4, <1>5 DEF Stop

LEMMA TransferIsAllowed ==
  ASSUME Inv, Transfer
  PROVE  EepromDevices!Next \/ UNCHANGED EepromDevices!vars
<1> DEFINE Allowed == EepromDevices!Next \/ UNCHANGED EepromDevices!vars
<1> SUFFICES Allowed
  OBVIOUS
<1>1. CallInv
  BY DEF Inv
<1>2. ASSUME call.at # "idle", Fail, buffer' = buffer PROVE Allowed
  BY <1>1, <1>2, FailIsAllowed DEF EepromDevices!Next
<1>3. ASSUME call.at # "idle", NEW at, Goto(at), buffer' = buffer,
             at \in {"high", "low", "restart", "data", "read"}
      PROVE  Allowed
  BY <1>1, <1>3, GotoStutters
<1>4. CASE StartWrite
  BY <1>2, <1>3, <1>4 DEF StartWrite, Start, Checked
<1>5. CASE SendHigh
  <2>1. buffer' = buffer
    BY <1>5 DEF SendHigh, SendByte, HandleWrite, Inv, BusInv
  <2>2. Goto("low") \/ Fail
    BY <1>5 DEF SendHigh, SendByte, Checked
  <2> QED
    BY <1>2, <1>3, <1>5, <2>1, <2>2 DEF SendHigh
<1>6. CASE SendLow
  <2>1. buffer' = buffer
    BY <1>6 DEF SendLow, SendByte, HandleWrite, Inv, BusInv
  <2>2. Goto("restart") \/ Goto("data") \/ Fail
    BY <1>6 DEF SendLow, SendByte, Checked
  <2> QED
    BY <1>2, <1>3, <1>6, <2>1, <2>2 DEF SendLow
<1>7. CASE StartRead
  BY <1>2, <1>3, <1>7 DEF StartRead, Start, Checked
<1>8. CASE SendData
  BY <1>8, SendDataTakes DEF EepromDevices!Next
<1>9. CASE ReceiveData
  BY <1>9, ReceiveDataStutters
<1>10. CASE Stop
  BY <1>10, StopSucceeds DEF EepromDevices!Next
<1> QED
  BY <1>4, <1>5, <1>6, <1>7, <1>8, <1>9, <1>10 DEF Transfer

\* eeprom.h, for all offsets and values: the driver and the device together take
\* only the steps the StorageController relies on.  That every access returns,
\* the rest of ImplementsEeprom, is fairness and left to the runs.
THEOREM DriverImplementsEeprom == Spec => EepromDevices!Safety
<1>1. ASSUME Inv, [Next]_vars
      PROVE  [EepromDevices!Next]_(EepromDevices!vars)
  <2>1. CASE UNCHANGED vars
    BY <2>1 DEF vars, EepromDevices!vars, stored, request
  <2>2. CASE Transfer
    BY <1>1, <2>2, TransferIsAllowed
  <2>3. CASE \E d \in Devices, o \in Offsets : ReadByte(d, o)
    BY <1>1, <2>3, CallsAreRequests DEF EepromDevices!Next
  <2>4. CASE \E d \in Devices, o \in Offsets, v \in Values : WriteByte(d, o, v)
    BY <1>1, <2>4, CallsAreRequests DEF EepromDevices!Next
  <2> QED
    BY <1>1, <2>1, <2>2, <2>3, <2>4 DEF Next
<1>2. QED
  BY <1>1, BlankAtFirst, InvHolds, PTL DEF Spec, EepromDevices!Safety

=============================================================================
