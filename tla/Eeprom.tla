------------------------------- MODULE Eeprom -------------------------------
(***************************************************************************)
(* What src/storage/internal/eeprom.h promises of the external EEPROMs: a  *)
(* byte read is the byte last stored there, a write that returns true has  *)
(* stored its byte and no other, and one that returns false may have.      *)
(* These are the device accesses StorageController takes as single steps.  *)
(***************************************************************************)
CONSTANTS Devices, Offsets, Values, Blank

VARIABLES
  store,    \* the byte each device holds at each offset
  request,  \* the access in progress
  reply     \* what the last access returned

vars == <<store, request, reply>>

NoRequest == [op |-> "none"]

Init ==
  /\ store = [d \in Devices |-> [o \in Offsets |-> Blank]]
  /\ request = NoRequest
  /\ reply = [ok |-> FALSE, data |-> Blank]

ReadByte(d, o) ==
  /\ request = NoRequest
  /\ request' = [op |-> "read", device |-> d, offset |-> o, data |-> Blank]
  /\ UNCHANGED <<store, reply>>

WriteByte(d, o, v) ==
  /\ request = NoRequest
  /\ request' = [op |-> "write", device |-> d, offset |-> o, data |-> v]
  /\ UNCHANGED <<store, reply>>

Stored == [store EXCEPT ![request.device][request.offset] = request.data]

\* The device has the byte, the caller does not know it yet.
Take ==
  /\ request.op = "write"
  /\ store' = Stored
  /\ UNCHANGED <<request, reply>>

Succeed ==
  /\ request # NoRequest
  /\ request.op = "write" => store = Stored
  /\ request' = NoRequest
  /\ reply' = [ok |-> TRUE,
               data |-> IF request.op = "read"
                          THEN store[request.device][request.offset]
                          ELSE Blank]
  /\ UNCHANGED store

Fail ==
  /\ request # NoRequest
  /\ request' = NoRequest
  /\ reply' = [ok |-> FALSE, data |-> Blank]
  /\ UNCHANGED store

Next ==
  \/ \E d \in Devices, o \in Offsets : ReadByte(d, o)
  \/ \E d \in Devices, o \in Offsets, v \in Values : WriteByte(d, o, v)
  \/ Take \/ Succeed \/ Fail

Safety == Init /\ [][Next]_vars

\* Every access returns.
Spec == Safety /\ WF_vars(Succeed \/ Fail)

=============================================================================
