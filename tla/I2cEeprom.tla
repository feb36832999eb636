------------------------------ MODULE I2cEeprom ------------------------------
(***************************************************************************)
(* The I2C driver of the firmware (src/storage/internal/i2c_eeprom.cpp),   *)
(* message by message, against the simulated EEPROM on the other end of    *)
(* the bus (simulator/components/i2c_eeprom.cpp).  The firmware has a      *)
(* driver for each of two devices and the simulator has the first only.    *)
(*                                                                         *)
(* Each message is a step: the device handles it inside the write to TWCR, *)
(* and the driver then spins until the TWI module has its status.  The     *)
(* status of an acknowledged address byte is TW_MT_SLA_ACK, and the driver *)
(* expects the same of a data byte.  For that the data sheet of the MCU    *)
(* and constants.h have another code, so both are allowed (`dataAck').     *)
(***************************************************************************)
EXTENDS Integers

CONSTANTS
  Radix,    \* 256: an offset is sent as two bytes
  Offsets,  \* byte offsets the StorageController uses
  Values,   \* bytes the StorageController stores
  BitOr(_, _)  \* the OR of C++: a constant, so that proofs state what they use

Size == Radix * Radix - 1       \* the simulated array lacks the last offset
Devices == {"EEPROM_0", "EEPROM_1"}
address_ == "EEPROM_0"          \* the one device the Simulator creates

ASSUME BusAssumption ==
  /\ Radix \in Nat \ {0}
  /\ Offsets \subseteq 0..(Size - 1)
  /\ Values \subseteq 0..255
  /\ \A high, low \in 0..(Radix - 1) :
       /\ BitOr(0, high * Radix) = high * Radix
       /\ BitOr(high * Radix, low) = high * Radix + low

VARIABLES
  buffer,   \* the array StateStorage holds for the device
  slave,    \* the simulated device
  call,     \* the driver call in progress: where it is, and its arguments
  reply,    \* what the last call returned
  dataAck   \* status the TWI module has for an acknowledged data byte

vars == <<buffer, slave, call, reply, dataAck>>
-----------------------------------------------------------------------------
(***************************************************************************)
(* The simulated device.                                                   *)
(***************************************************************************)
Reset == [state |-> "STOPPED", address |-> 0, counter |-> 0]

IsRelevant == call.device = address_

\* START with the control byte: a device that is not addressed resets.
AfterStart(mode) ==
  IF ~IsRelevant THEN Reset
  ELSE [slave EXCEPT
         !.state = IF mode = "WRITE" THEN "ADDRESSING_HIGH" ELSE "STARTED"]

Position == slave.address + slave.counter

\* The two bytes of the address are ORed to what is there already.
HandleWrite(data) ==
  IF ~IsRelevant THEN UNCHANGED <<buffer, slave>>
  ELSE CASE slave.state = "ADDRESSING_HIGH" ->
              /\ slave' = [slave EXCEPT !.address = BitOr(@, data * Radix),
                                        !.state = "ADDRESSING_LOW"]
              /\ UNCHANGED buffer
         [] slave.state = "ADDRESSING_LOW" ->
              /\ slave' = [slave EXCEPT !.address = BitOr(@, data),
                                        !.state = "STARTED"]
              /\ UNCHANGED buffer
         [] slave.state = "STARTED" ->
              /\ buffer' = [buffer EXCEPT ![Position] = data]
              /\ slave' = [slave EXCEPT !.counter = (@ + 1) % 256]
         [] OTHER -> UNCHANGED <<buffer, slave>>

AfterStopKeepingAddress ==
  IF IsRelevant THEN [slave EXCEPT !.state = "STOPPED"] ELSE slave

AfterStop == IF IsRelevant THEN Reset ELSE slave
-----------------------------------------------------------------------------
(***************************************************************************)
(* The driver.                                                             *)
(***************************************************************************)
Idle == [at |-> "idle", op |-> "none", device |-> address_, offset |-> 0,
         data |-> 0]

Init ==
  /\ buffer = [a \in 0..(Size - 1) |-> 255]
  /\ slave = Reset
  /\ call = Idle
  /\ reply = [ok |-> FALSE, data |-> 0]
  /\ dataAck \in {"TW_MT_SLA_ACK", "TW_MT_DATA_ACK"}

Goto(at) == call' = [call EXCEPT !.at = at] /\ UNCHANGED reply

Return(ok, data) == call' = Idle /\ reply' = [ok |-> ok, data |-> data]

ReadByte(d, o) ==
  /\ call = Idle
  /\ call' = [at |-> "start", op |-> "read", device |-> d, offset |-> o,
              data |-> 0]
  /\ UNCHANGED <<buffer, slave, reply, dataAck>>

\* A byte is stored less one, as in the internal EEPROM.
WriteByte(d, o, v) ==
  /\ call = Idle
  /\ call' = [at |-> "start", op |-> "write", device |-> d, offset |-> o,
              data |-> (v - 1) % 256]
  /\ UNCHANGED <<buffer, slave, reply, dataAck>>

\* A read that fails stops the bus; a write that fails leaves it as it is.
Fail == IF call.op = "read" THEN Goto("stop_failed") ELSE Return(FALSE, 0)

CheckedNever(status, then) == Goto(then)

\* WriteByteAndAck accepts the codes of an acknowledged control byte.
Checked(status, then) ==
  IF status \in {"TW_MT_SLA_ACK", "TW_MR_SLA_ACK"} THEN Goto(then) ELSE Fail

Start(mode, acked, then) ==
  /\ slave' = AfterStart(mode)
  /\ Checked(IF IsRelevant THEN acked ELSE "TW_MT_SLA_NACK", then)
  /\ UNCHANGED <<buffer, dataAck>>

\* Nobody but the addressed device acknowledges.
SendByte(data, then) ==
  /\ HandleWrite(data)
  /\ Checked(IF IsRelevant THEN dataAck ELSE "TW_MT_DATA_NACK", then)
  /\ UNCHANGED dataAck

StartWrite == call.at = "start" /\ Start("WRITE", "TW_MT_SLA_ACK", "high")

SendHigh == call.at = "high" /\ SendByte(call.offset \div Radix, "low")

SendLow ==
  /\ call.at = "low"
  /\ SendByte(call.offset % Radix,
              IF call.op = "read" THEN "restart" ELSE "data")

StartRead == call.at = "restart" /\ Start("READ", "TW_MR_SLA_ACK", "read")

SendData == call.at = "data" /\ SendByte(call.data, "stop")

\* The driver does not check that the byte it reads was sent.
ReceiveData ==
  /\ call.at = "read"
  /\ call' = [call EXCEPT !.at = "stop", !.data = (buffer[Position] + 1) % 256]
  /\ slave' = [slave EXCEPT !.counter = (@ + 1) % 256]
  /\ UNCHANGED <<buffer, reply, dataAck>>

Stop ==
  /\ call.at \in {"stop", "stop_failed"}
  /\ slave' = AfterStop
  /\ IF call.at = "stop"
       THEN Return(TRUE, IF call.op = "read" THEN call.data ELSE 0)
       ELSE Return(FALSE, 0)
  /\ UNCHANGED <<buffer, dataAck>>

Transfer ==
  \/ StartWrite \/ SendHigh \/ SendLow \/ StartRead \/ SendData
  \/ ReceiveData \/ Stop

Next ==
  \/ \E d \in Devices, o \in Offsets : ReadByte(d, o)
  \/ \E d \in Devices, o \in Offsets, v \in Values : WriteByte(d, o, v)
  \/ Transfer

\* The TWI module finishes every transfer the driver starts and spins on.
Spec == Init /\ [][Next]_vars /\ WF_vars(Transfer)
-----------------------------------------------------------------------------
(***************************************************************************)
(* Properties.                                                             *)
(***************************************************************************)
\* An access succeeds if and only if the device is there and the TWI module has
\* the status the driver expects: no read makes up a byte of a missing device,
\* and whatever failed before, the next access starts from a bus that works.
SucceedsIffPresent ==
  [][call # Idle /\ call' = Idle =>
       reply'.ok = (IsRelevant /\ dataAck = "TW_MT_SLA_ACK")]_vars

\* What the devices hold for the StorageController, and the access it waits for.
stored ==
  [d \in Devices |-> [o \in Offsets |->
     IF d = address_ THEN (buffer[o] + 1) % 256 ELSE 0]]

request ==
  IF call = Idle THEN [op |-> "none"]
  ELSE [op |-> call.op, device |-> call.device, offset |-> call.offset,
        data |-> IF call.op = "read" THEN 0 ELSE (call.data + 1) % 256]

EepromDevices == INSTANCE Eeprom WITH Blank <- 0, store <- stored

\* The driver and the device together are the EEPROMs StorageController relies
\* on: exact bytes, no other byte touched, and every access returns.
ImplementsEeprom == EepromDevices!Spec

=============================================================================
