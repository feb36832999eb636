-------------------------- MODULE SimulatorProofs --------------------------
(***************************************************************************)
(* Proofs about the simulator program, for every set of keys, hold time,   *)
(* number of banks and amount of typing, and every interleaving of its     *)
(* three threads.                                                          *)
(***************************************************************************)
EXTENDS Simulator, SequenceTheorems, TLAPS

-----------------------------------------------------------------------------
(***************************************************************************)
(* The inductive invariants: the keys, the threads, and the output on its  *)
(* way from the firmware to the screen.                                    *)
(***************************************************************************)
HostThreads ==
  [at : {"none", "start", "check", "poll", "output", "done"}, report : Nat]

KeyInv == key \in [Keys -> Nat] /\ PinsFollowKeys

\* The host thread exists from the first attach on, and sets host_running when
\* it first runs; from then to its end only DestroyUsbHost clears it.
ThreadInv ==
  /\ host.at \in {"none", "start"} => ~host_running /\ ui # "join_usb"
  /\ host.at \in {"check", "poll", "output"} =>
       host_running \/ ui \in {"join_usb", "returned"}
  /\ host.at = "done" => ui \in {"join_usb", "returned"}
  /\ host.at # "none" => is_attached
  /\ ui \in {"usb", "join_usb", "returned", "terminated"} => sim = "done"
  /\ NoThreadSurvives

\* The characters sent so far are 1 to Sent.
Sent == (reports + 1) \div 2

\* All of s comes before the characters of t.
Below(s, t) ==
  \A i \in DOMAIN s, j \in DOMAIN t : t[j] # 0 => s[i] < t[j]

\* The same within the endpoint; a report that presses nothing is zero.
Ordered(s) == \A i, j \in DOMAIN s : i < j /\ s[j] # 0 => s[i] < s[j]

AtMost(s, n) == \A i \in DOMAIN s : s[i] <= n

\* What the host thread has read and not yet handed over.
Read == IF host.at = "output" THEN <<host.report>> ELSE <<>>

SequencesOK ==
  /\ shown \in Seq(Nat \ {0}) /\ frame_buffer \in Seq(Nat \ {0})
  /\ usb_buffer \in Seq(Nat \ {0})
  /\ endpoint \in Seq(Nat) /\ reports \in Nat
  /\ host \in HostThreads
  /\ host.at = "output" => host.report # 0

\* From the screen back to the firmware, each stage is behind the next.
OutputInv ==
  /\ SequencesOK
  /\ Increasing(shown) /\ Increasing(frame_buffer) /\ Increasing(usb_buffer)
  /\ Below(shown, usb_buffer)
  /\ ui \in {"clear", "show"} => Below(shown, frame_buffer)
  /\ ui = "show" => Below(frame_buffer, usb_buffer)
  /\ \A s \in {shown, frame_buffer, usb_buffer} :
       Below(s, Read) /\ Below(s, endpoint) /\ AtMost(s, Sent)
  /\ Below(Read, endpoint) /\ AtMost(Read, Sent)
  /\ Ordered(endpoint) /\ AtMost(endpoint, Sent)

Inv == KeyInv /\ ThreadInv /\ OutputInv

-----------------------------------------------------------------------------
(***************************************************************************)
(* The keys.                                                               *)
(***************************************************************************)
LEMMA InitKeyInv == Init => KeyInv
BY DEF Init, KeyInv, PinsFollowKeys

\* A key counts down, and its pin is set in the frame in which it reaches zero.
LEMMA UpdateKeyStateKeeps ==
  ASSUME KeyInv, NEW input, UpdateKeyState(input)
  PROVE  KeyInv'
<1> DEFINE pressed == input \cap Keys
           released == {k \in Keys \ pressed : key[k] = 1}
<1>1. /\ key' = [k \in Keys |-> CASE k \in pressed -> kKeyHoldTime
                                  [] k \notin pressed /\ key[k] > 0 -> key[k] - 1
                                  [] OTHER -> 0]
      /\ pins' = (pins \cup pressed) \ released
  BY DEF UpdateKeyState, HandleKeypress
<1>2. \A k \in Keys : /\ key[k] \in Nat
                      /\ k \in pins <=> key[k] > 0
  BY DEF KeyInv, PinsFollowKeys
<1>3. kKeyHoldTime \in Nat /\ kKeyHoldTime > 0
  BY SimulatorAssumption
<1>4. ASSUME NEW k \in Keys
      PROVE  key'[k] \in Nat /\ (k \in pins' <=> key'[k] > 0)
  <2>1. CASE k \in pressed
    <3>1. key'[k] = kKeyHoldTime
      BY <1>1, <2>1
    <3>2. k \in pins'
      BY <1>1, <2>1
    <3>3. QED
      BY <1>3, <3>1, <3>2
  <2>2. CASE k \notin pressed /\ key[k] > 0
    <3>1. key'[k] = key[k] - 1
      BY <1>1, <2>2
    <3>2. k \in pins' <=> key[k] # 1
      BY <1>1, <1>2, <2>2
    <3>3. QED
      BY <1>2, <2>2, <3>1, <3>2
  <2>3. CASE k \notin pressed /\ ~(key[k] > 0)
    <3>1. key'[k] = 0
      BY <1>1, <2>3
    <3>2. k \notin pins'
      BY <1>1, <1>2, <2>3
    <3>3. QED
      BY <3>1, <3>2
  <2>4. QED
    BY <2>1, <2>2, <2>3
<1>5. key' = [k \in Keys |-> key'[k]]
  BY <1>1
<1>6. QED
  BY <1>4, <1>5 DEF KeyInv, PinsFollowKeys

LEMMA KeysAreKept == KeyInv /\ [Next]_vars => KeyInv'
<1> SUFFICES ASSUME KeyInv, [Next]_vars
             PROVE  KeyInv'
  OBVIOUS
<1>1. CASE BeginFrame
  BY <1>1, UpdateKeyStateKeeps, Zenon DEF BeginFrame
<1>2. ASSUME UNCHANGED <<key, pins>>
      PROVE  KeyInv'
  BY <1>2 DEF KeyInv, PinsFollowKeys
<1>3. CASE UiThread /\ ~BeginFrame
  BY <1>2, <1>3, Zenon
     DEF UiThread, GetDeviceState, ClearUsbBuffer, Draw, DestroyUi,
         StopSimulation, JoinSimulation, DestroyUsbHost, JoinUsbHost, UiStep
<1>4. CASE SimThread
  <2>1. UNCHANGED uiVars
    BY <1>4, Zenon
       DEF SimThread, CheckRunning, RunMcu, InternalUsbAttachCallback,
           FirmwareHandlesSetup, FirmwareSendsReport, McuCrashes, BeginLog,
           HandleLogLine, SimStep
  <2>2. QED
    BY <1>2, <2>1, Zenon DEF uiVars
<1>5. CASE HostThread
  <2>1. UNCHANGED uiVars
    BY <1>5, Zenon DEF HostThread, StartHost, DeviceControlLoop,
       PollDeviceEndpoints, HandleUsbOutput, HostStep
  <2>2. QED
    BY <1>2, <2>1, Zenon DEF uiVars
<1>6. CASE UNCHANGED vars
  BY <1>2, <1>6, Zenon DEF vars, uiVars
<1>7. QED
  BY <1>1, <1>3, <1>4, <1>5, <1>6 DEF Next

-----------------------------------------------------------------------------
(***************************************************************************)
(* The threads.                                                            *)
(***************************************************************************)
LEMMA InitThreadInv == Init => ThreadInv
BY DEF Init, ThreadInv, NoThreadSurvives

LEMMA UiThreadKeepsThreads ==
  ASSUME ThreadInv, UiThread, host \in HostThreads
  PROVE  ThreadInv'
<1> USE DEF ThreadInv, NoThreadSurvives, HostThreads
<1>1. CASE BeginFrame
  BY <1>1 DEF BeginFrame, usbVars
<1>2. CASE GetDeviceState
  BY <1>2 DEF GetDeviceState, usbVars
<1>3. CASE ClearUsbBuffer
  BY <1>3 DEF ClearUsbBuffer, usbVars
<1>4. CASE Draw
  BY <1>4 DEF Draw, usbVars
<1>5. CASE DestroyUi
  BY <1>5 DEF DestroyUi, UiStep, usbVars
<1>6. CASE StopSimulation
  BY <1>6 DEF StopSimulation, UiStep, usbVars
<1>7. CASE JoinSimulation
  BY <1>7 DEF JoinSimulation, UiStep, usbVars
<1>8. CASE DestroyUsbHost
  BY <1>8 DEF DestroyUsbHost, UiStep, usbVars
<1>9. CASE JoinUsbHost
  BY <1>9 DEF JoinUsbHost, UiStep, usbVars
<1>10. QED
  BY <1>1, <1>2, <1>3, <1>4, <1>5, <1>6, <1>7, <1>8, <1>9 DEF UiThread

LEMMA SimThreadKeepsThreads ==
  ASSUME ThreadInv, SimThread, host \in HostThreads
  PROVE  ThreadInv'
<1> USE DEF ThreadInv, NoThreadSurvives, HostThreads
<1>1. sim # "done" => ui \notin {"usb", "join_usb", "returned", "terminated"}
  OBVIOUS
<1>2. CASE CheckRunning
  BY <1>2 DEF CheckRunning, uiVars, usbVars
<1>3. CASE InternalUsbAttachCallback
  BY <1>3 DEF InternalUsbAttachCallback, SimStep, uiVars
<1>4. CASE HandleLogLine
  BY <1>4 DEF HandleLogLine, uiVars, usbVars
<1>5. CASE \/ RunMcu \/ FirmwareHandlesSetup \/ FirmwareSendsReport \/ McuCrashes
           \/ BeginLog
  <2>1. /\ sim = "run" /\ sim' \in {"check", "log"}
        /\ UNCHANGED <<ui, host, host_running, is_attached>>
    BY <1>5 DEF RunMcu, FirmwareHandlesSetup, FirmwareSendsReport, McuCrashes,
       BeginLog, SimStep, uiVars, usbVars
  <2>2. QED
    BY <2>1
<1>6. QED
  BY <1>2, <1>3, <1>4, <1>5 DEF SimThread

LEMMA HostThreadKeepsThreads ==
  ASSUME ThreadInv, HostThread
  PROVE  ThreadInv'
<1> USE DEF ThreadInv, NoThreadSurvives, HostThreads
<1>1. ui \notin {"returned", "terminated"} /\ UNCHANGED <<ui, sim, is_attached>>
  BY DEF HostThread, Stopped, StartHost, DeviceControlLoop, PollDeviceEndpoints,
     HandleUsbOutput, HostStep, uiVars
<1>2. CASE StartHost
  BY <1>1, <1>2 DEF StartHost, HostStep, HostGoto
<1>3. CASE DeviceControlLoop
  BY <1>1, <1>3 DEF DeviceControlLoop, HostStep, HostGoto
<1>4. CASE PollDeviceEndpoints \/ HandleUsbOutput
  <2>1. /\ host.at \in {"poll", "output"} /\ host'.at \in {"check", "output"}
        /\ host_running' = host_running
    <3>1. CASE HandleUsbOutput
      BY <3>1 DEF HandleUsbOutput, HostStep, HostGoto
    <3>2. CASE PollDeviceEndpoints
      <4>1. host.at = "poll" /\ host_running' = host_running
        BY <3>2 DEF PollDeviceEndpoints, HostStep
      <4>2. \E r : host' = [at |-> "check", report |-> r]
                   \/ host' = [at |-> "output", report |-> r]
        BY <3>2, Zenon DEF PollDeviceEndpoints, HostGoto
      <4>3. host'.at \in {"check", "output"}
        BY <4>2
      <4>4. QED
        BY <4>1, <4>3
    <3>3. QED
      BY <1>4, <3>1, <3>2
  <2>2. QED
    BY <1>1, <2>1
<1>5. QED
  BY <1>2, <1>3, <1>4 DEF HostThread

LEMMA ThreadsAreKept ==
  ThreadInv /\ host \in HostThreads /\ [Next]_vars => ThreadInv'
<1>1. ThreadInv /\ UNCHANGED vars => ThreadInv'
  BY DEF ThreadInv, NoThreadSurvives, vars, uiVars, usbVars
<1>2. QED
  BY <1>1, UiThreadKeepsThreads, SimThreadKeepsThreads, HostThreadKeepsThreads
     DEF Next

-----------------------------------------------------------------------------
(***************************************************************************)
(* Sequences that come one before the other.                               *)
(***************************************************************************)
LEMMA BelowEmpty ==
  ASSUME NEW s
  PROVE  Below(s, <<>>) /\ Below(<<>>, s)
BY DEF Below

LEMMA BelowAppend ==
  ASSUME NEW s \in Seq(Nat), NEW t \in Seq(Nat), NEW c \in Nat,
         Below(s, t), Below(s, <<c>>)
  PROVE  Below(s, Append(t, c))
<1>1. c # 0 => \A i \in DOMAIN s : s[i] < c
  BY DEF Below
<1>2. /\ DOMAIN Append(t, c) = 1..(Len(t) + 1) /\ DOMAIN t = 1..Len(t)
      /\ Append(t, c)[Len(t) + 1] = c
      /\ \A j \in 1..Len(t) : Append(t, c)[j] = t[j]
      /\ Len(t) \in Nat
  BY AppendProperties
<1>3. QED
  BY <1>1, <1>2 DEF Below

LEMMA AppendBelow ==
  ASSUME NEW s \in Seq(Nat), NEW t \in Seq(Nat), NEW c \in Nat,
         Below(s, t), Below(<<c>>, t)
  PROVE  Below(Append(s, c), t)
<1>1. \A j \in DOMAIN t : t[j] # 0 => c < t[j]
  BY DEF Below
<1>2. /\ DOMAIN Append(s, c) = 1..(Len(s) + 1) /\ DOMAIN s = 1..Len(s)
      /\ Append(s, c)[Len(s) + 1] = c
      /\ \A i \in 1..Len(s) : Append(s, c)[i] = s[i]
      /\ Len(s) \in Nat
  BY AppendProperties
<1>3. QED
  BY <1>1, <1>2 DEF Below

LEMMA ConcatBelow ==
  ASSUME NEW s \in Seq(Nat), NEW t \in Seq(Nat), NEW u \in Seq(Nat),
         Below(s, u), Below(t, u)
  PROVE  Below(s \o t, u)
<1>1. /\ DOMAIN (s \o t) = 1..(Len(s) + Len(t))
      /\ DOMAIN s = 1..Len(s) /\ DOMAIN t = 1..Len(t)
      /\ \A i \in 1..(Len(s) + Len(t)) :
           (s \o t)[i] = IF i <= Len(s) THEN s[i] ELSE t[i - Len(s)]
      /\ Len(s) \in Nat /\ Len(t) \in Nat
  BY ConcatProperties
<1>2. QED
  BY <1>1 DEF Below

LEMMA BelowHeadAndTail ==
  ASSUME NEW s \in Seq(Nat), NEW t \in Seq(Nat), t # <<>>, Below(s, t)
  PROVE  Below(s, <<Head(t)>>) /\ Below(s, Tail(t))
<1>1. /\ Head(t) = t[1] /\ DOMAIN t = 1..Len(t) /\ Len(t) \in Nat \ {0}
      /\ DOMAIN Tail(t) = 1..(Len(t) - 1)
      /\ \A i \in 1..(Len(t) - 1) : Tail(t)[i] = t[i + 1]
  BY HeadTailProperties
<1>2. QED
  BY <1>1 DEF Below

\* Every value in s is below c.
LEMMA IncreasingAppend ==
  ASSUME NEW s \in Seq(Nat), NEW c \in Nat \ {0}, Increasing(s), Below(s, <<c>>)
  PROVE  Increasing(Append(s, c))
<1>1. \A i \in DOMAIN s : s[i] < c
  BY DEF Below
<1>2. /\ DOMAIN Append(s, c) = 1..(Len(s) + 1) /\ DOMAIN s = 1..Len(s)
      /\ Append(s, c)[Len(s) + 1] = c
      /\ \A i \in 1..Len(s) : Append(s, c)[i] = s[i]
      /\ Len(s) \in Nat
  BY AppendProperties
<1>3. QED
  BY <1>1, <1>2 DEF Increasing

LEMMA IncreasingConcat ==
  ASSUME NEW s \in Seq(Nat), NEW t \in Seq(Nat \ {0}),
         Increasing(s), Increasing(t), Below(s, t)
  PROVE  Increasing(s \o t)
<1>1. /\ DOMAIN (s \o t) = 1..(Len(s) + Len(t))
      /\ DOMAIN s = 1..Len(s) /\ DOMAIN t = 1..Len(t)
      /\ \A i \in 1..(Len(s) + Len(t)) :
           (s \o t)[i] = IF i <= Len(s) THEN s[i] ELSE t[i - Len(s)]
      /\ Len(s) \in Nat /\ Len(t) \in Nat
  BY ConcatProperties
<1>2. \A j \in DOMAIN t : t[j] # 0
  BY ElementOfSeq
<1>3. \A i \in DOMAIN s, j \in DOMAIN t : s[i] < t[j]
  BY <1>2 DEF Below
<1>4. QED
  BY <1>1, <1>3 DEF Increasing

LEMMA AtMostAppend ==
  ASSUME NEW s \in Seq(Nat), NEW c \in Nat, NEW n \in Nat, AtMost(s, n), c <= n
  PROVE  AtMost(Append(s, c), n)
BY AppendProperties DEF AtMost

LEMMA AtMostConcat ==
  ASSUME NEW s \in Seq(Nat), NEW t \in Seq(Nat), NEW n \in Nat,
         AtMost(s, n), AtMost(t, n)
  PROVE  AtMost(s \o t, n)
<1>1. /\ DOMAIN (s \o t) = 1..(Len(s) + Len(t))
      /\ DOMAIN s = 1..Len(s) /\ DOMAIN t = 1..Len(t)
      /\ \A i \in 1..(Len(s) + Len(t)) :
           (s \o t)[i] = IF i <= Len(s) THEN s[i] ELSE t[i - Len(s)]
      /\ Len(s) \in Nat /\ Len(t) \in Nat
  BY ConcatProperties
<1>2. QED
  BY <1>1 DEF AtMost

LEMMA AtMostMore ==
  ASSUME NEW s \in Seq(Nat), NEW n \in Nat, NEW m \in Nat, AtMost(s, n), n <= m
  PROVE  AtMost(s, m)
<1>1. \A i \in DOMAIN s : s[i] \in Nat
  BY ElementOfSeq
<1>2. QED
  BY <1>1 DEF AtMost

LEMMA OrderedAppend ==
  ASSUME NEW s \in Seq(Nat), NEW c \in Nat, Ordered(s), Below(s, <<c>>)
  PROVE  Ordered(Append(s, c))
<1>1. c # 0 => \A i \in DOMAIN s : s[i] < c
  BY DEF Below
<1>2. /\ DOMAIN Append(s, c) = 1..(Len(s) + 1) /\ DOMAIN s = 1..Len(s)
      /\ Append(s, c)[Len(s) + 1] = c
      /\ \A i \in 1..Len(s) : Append(s, c)[i] = s[i]
      /\ Len(s) \in Nat
  BY AppendProperties
<1>3. QED
  BY <1>1, <1>2 DEF Ordered

LEMMA OrderedHeadAndTail ==
  ASSUME NEW s \in Seq(Nat), s # <<>>, Ordered(s)
  PROVE  Below(<<Head(s)>>, Tail(s)) /\ Ordered(Tail(s))
<1>1. /\ Head(s) = s[1] /\ DOMAIN s = 1..Len(s) /\ Len(s) \in Nat \ {0}
      /\ DOMAIN Tail(s) = 1..(Len(s) - 1)
      /\ \A i \in 1..(Len(s) - 1) : Tail(s)[i] = s[i + 1]
  BY HeadTailProperties
<1>2. \A j \in 1..(Len(s) - 1) : Tail(s)[j] # 0 => Head(s) < Tail(s)[j]
  <2> SUFFICES ASSUME NEW j \in 1..(Len(s) - 1), Tail(s)[j] # 0
               PROVE  Head(s) < Tail(s)[j]
    OBVIOUS
  <2>1. Tail(s)[j] = s[j + 1] /\ 1 \in DOMAIN s /\ j + 1 \in DOMAIN s /\ 1 < j + 1
    BY <1>1
  <2>2. QED
    BY <1>1, <2>1 DEF Ordered
<1>3. Below(<<Head(s)>>, Tail(s))
  BY <1>1, <1>2 DEF Below
<1>4. Ordered(Tail(s))
  BY <1>1 DEF Ordered
<1>5. QED
  BY <1>3, <1>4

LEMMA AtMostHeadAndTail ==
  ASSUME NEW s \in Seq(Nat), NEW n \in Nat, s # <<>>, AtMost(s, n)
  PROVE  AtMost(<<Head(s)>>, n) /\ AtMost(Tail(s), n)
<1>1. /\ Head(s) = s[1] /\ DOMAIN s = 1..Len(s) /\ Len(s) \in Nat \ {0}
      /\ DOMAIN Tail(s) = 1..(Len(s) - 1)
      /\ \A i \in 1..(Len(s) - 1) : Tail(s)[i] = s[i + 1]
  BY HeadTailProperties
<1>2. QED
  BY <1>1 DEF AtMost

-----------------------------------------------------------------------------
(***************************************************************************)
(* The output on its way to the screen.                                    *)
(***************************************************************************)
LEMMA CharactersAreNumbers ==
  ASSUME SequencesOK
  PROVE  /\ shown \in Seq(Nat) /\ frame_buffer \in Seq(Nat)
         /\ usb_buffer \in Seq(Nat) /\ endpoint \in Seq(Nat)
         /\ Read \in Seq(Nat) /\ Sent \in Nat
         /\ host.at = "output" => Read = <<host.report>> /\ host.report \in Nat \ {0}
         /\ host.at # "output" => Read = <<>>
<1>1. \A s \in Seq(Nat \ {0}) : s \in Seq(Nat)
  BY SeqMonotonic
<1>2. host.report \in Nat
  BY DEF SequencesOK, HostThreads
<1>3. Read \in Seq(Nat)
  BY <1>2 DEF Read
<1>4. Sent \in Nat
  BY DEF Sent, SequencesOK
<1>5. QED
  BY <1>1, <1>2, <1>3, <1>4 DEF SequencesOK, Read

LEMMA InitOutputInv == Init => OutputInv
<1> SUFFICES ASSUME Init
             PROVE  OutputInv
  OBVIOUS
<1>1. SequencesOK
  BY DEF Init, SequencesOK, HostThreads
<1>2. /\ shown = <<>> /\ frame_buffer = <<>> /\ usb_buffer = <<>> /\ endpoint = <<>>
      /\ Read = <<>> /\ ui = "frame"
  BY DEF Init, Read
<1>3. Increasing(<<>>) /\ Ordered(<<>>) /\ AtMost(<<>>, Sent) /\ Below(<<>>, <<>>)
  BY DEF Increasing, Ordered, AtMost, Below
<1>4. QED
  BY <1>1, <1>2, <1>3 DEF OutputInv

\* Steps that move nothing.
LEMMA OutputStays ==
  ASSUME OutputInv,
         UNCHANGED <<shown, frame_buffer, usb_buffer, endpoint, reports>>,
         ui' = ui \/ ui' \notin {"clear", "show"},
         \/ UNCHANGED host
         \/ /\ host.at # "output" /\ host'.at # "output"
            /\ host' \in HostThreads
  PROVE  OutputInv'
<1>1. Read' = Read /\ SequencesOK' /\ Sent' = Sent
  BY DEF Read, OutputInv, SequencesOK, Sent
<1>2. QED
  BY <1>1, Zenon DEF OutputInv

\* The UI copies the buffer, clears it and shows the copy.
LEMMA UiThreadKeepsOutput ==
  ASSUME OutputInv, UiThread
  PROVE  OutputInv'
<1> USE CharactersAreNumbers
<1>1. CASE BeginFrame
  BY <1>1, OutputStays, Zenon DEF BeginFrame, usbVars
<1>2. CASE GetDeviceState
  <2>1. /\ frame_buffer' = usb_buffer /\ ui' = "clear"
        /\ UNCHANGED <<shown, usb_buffer, endpoint, reports, host>>
    BY <1>2 DEF GetDeviceState, usbVars
  <2>2. Read' = Read /\ SequencesOK' /\ Sent' = Sent
    BY <2>1 DEF Read, OutputInv, SequencesOK, Sent
  <2>3. QED
    BY <2>1, <2>2, Zenon DEF OutputInv
<1>3. CASE ClearUsbBuffer
  <2>1. /\ usb_buffer' = <<>> /\ ui = "clear" /\ ui' = "show"
        /\ UNCHANGED <<shown, frame_buffer, endpoint, reports, host>>
    BY <1>3 DEF ClearUsbBuffer, usbVars
  <2>2. Read' = Read /\ SequencesOK' /\ Sent' = Sent
    BY <2>1 DEF Read, OutputInv, SequencesOK, Sent
  <2>3. Increasing(<<>>) /\ AtMost(<<>>, Sent)
    BY DEF Increasing, AtMost
  <2>4. QED
    BY <2>1, <2>2, <2>3, BelowEmpty, Zenon DEF OutputInv
<1>4. CASE Draw
  <2>1. /\ shown' = shown \o frame_buffer /\ ui = "show" /\ ui' = "frame"
        /\ UNCHANGED <<frame_buffer, usb_buffer, endpoint, reports, host>>
    BY <1>4 DEF Draw, usbVars
  <2>2. Read' = Read /\ Sent' = Sent
    BY <2>1 DEF Read, Sent
  <2>3. shown \o frame_buffer \in Seq(Nat \ {0})
    BY ConcatProperties DEF OutputInv, SequencesOK
  <2>4. SequencesOK'
    BY <2>1, <2>3 DEF OutputInv, SequencesOK
  <2>5. /\ Increasing(shown \o frame_buffer) /\ AtMost(shown \o frame_buffer, Sent)
        /\ Below(shown \o frame_buffer, usb_buffer)
        /\ Below(shown \o frame_buffer, Read)
        /\ Below(shown \o frame_buffer, endpoint)
    <3>1. frame_buffer \in Seq(Nat \ {0})
      BY DEF OutputInv, SequencesOK
    <3>2. SequencesOK
      BY DEF OutputInv
    <3>3. /\ Increasing(shown) /\ Increasing(frame_buffer)
          /\ Below(shown, frame_buffer)
          /\ AtMost(shown, Sent) /\ AtMost(frame_buffer, Sent)
      BY <2>1, Zenon DEF OutputInv
    <3>4. /\ Below(shown, usb_buffer) /\ Below(frame_buffer, usb_buffer)
          /\ Below(shown, Read) /\ Below(frame_buffer, Read)
          /\ Below(shown, endpoint) /\ Below(frame_buffer, endpoint)
      BY <2>1, Zenon DEF OutputInv
    <3>5. Increasing(shown \o frame_buffer)
      BY <3>1, <3>2, <3>3, IncreasingConcat
    <3>6. AtMost(shown \o frame_buffer, Sent)
      BY <3>2, <3>3, AtMostConcat
    <3>7. QED
      BY <3>2, <3>4, <3>5, <3>6, ConcatBelow
  <2>6. QED
    BY <2>1, <2>2, <2>4, <2>5, Zenon DEF OutputInv
<1>5. CASE DestroyUi \/ StopSimulation \/ JoinSimulation \/ DestroyUsbHost
           \/ JoinUsbHost
  <2>1. /\ UNCHANGED <<shown, frame_buffer, usb_buffer, endpoint, reports, host>>
        /\ ui' \notin {"clear", "show"}
    BY <1>5 DEF DestroyUi, StopSimulation, JoinSimulation, DestroyUsbHost,
       JoinUsbHost, UiStep, usbVars
  <2>2. QED
    BY <2>1, OutputStays, Zenon
<1>6. QED
  BY <1>1, <1>2, <1>3, <1>4, <1>5, Zenon DEF UiThread

\* The report the firmware sends next presses the character after all others.
LEMMA FirmwareSendsReportKeepsOutput ==
  ASSUME OutputInv, FirmwareSendsReport
  PROVE  OutputInv'
<1> DEFINE c == ReportAt(reports + 1)
<1>1. /\ endpoint' = Append(endpoint, c) /\ reports' = reports + 1
      /\ UNCHANGED <<ui, shown, frame_buffer, usb_buffer, host>>
  BY DEF FirmwareSendsReport, SimStep, uiVars
<1>2. SequencesOK /\ reports \in Nat
  BY DEF OutputInv, SequencesOK
<1>3. c \in Nat /\ Sent \in Nat /\ Sent' \in Nat /\ Sent <= Sent'
  BY <1>1, <1>2 DEF ReportAt, Sent
<1>4. c = 0 \/ (Sent < c /\ c = Sent')
  BY <1>1, <1>2 DEF ReportAt, Sent
<1> HIDE DEF c
<1>5. c <= Sent'
  BY <1>3, <1>4
<1>6. ASSUME NEW s \in Seq(Nat), AtMost(s, Sent)
      PROVE  AtMost(s, Sent') /\ Below(s, <<c>>)
  <2>1. \A i \in DOMAIN s : s[i] \in Nat
    BY ElementOfSeq
  <2>2. AtMost(s, Sent')
    BY <1>3, <1>6, AtMostMore
  <2>3. Below(s, <<c>>)
    BY <1>3, <1>4, <1>6, <2>1 DEF Below, AtMost
  <2>4. QED
    BY <2>2, <2>3
<1>7. /\ shown \in Seq(Nat) /\ frame_buffer \in Seq(Nat) /\ usb_buffer \in Seq(Nat)
      /\ endpoint \in Seq(Nat) /\ Read \in Seq(Nat)
  BY <1>2, CharactersAreNumbers
<1>8. /\ AtMost(shown, Sent) /\ AtMost(frame_buffer, Sent)
      /\ AtMost(usb_buffer, Sent) /\ AtMost(endpoint, Sent) /\ AtMost(Read, Sent)
      /\ Below(shown, endpoint) /\ Below(frame_buffer, endpoint)
      /\ Below(usb_buffer, endpoint) /\ Below(Read, endpoint)
  BY Zenon DEF OutputInv
<1>9. /\ AtMost(shown, Sent') /\ AtMost(frame_buffer, Sent')
      /\ AtMost(usb_buffer, Sent') /\ AtMost(Read, Sent') /\ AtMost(endpoint, Sent')
      /\ Below(shown, <<c>>) /\ Below(frame_buffer, <<c>>)
      /\ Below(usb_buffer, <<c>>) /\ Below(Read, <<c>>) /\ Below(endpoint, <<c>>)
  BY <1>6, <1>7, <1>8
<1>10. /\ Below(shown, endpoint') /\ Below(frame_buffer, endpoint')
       /\ Below(usb_buffer, endpoint') /\ Below(Read, endpoint')
  BY <1>1, <1>3, <1>7, <1>8, <1>9, BelowAppend
<1>11. AtMost(endpoint', Sent')
  BY <1>1, <1>3, <1>5, <1>7, <1>9, AtMostAppend
<1>12. Ordered(endpoint')
  <2>1. Ordered(endpoint)
    BY DEF OutputInv
  <2>2. QED
    BY <1>1, <1>3, <1>7, <1>9, <2>1, OrderedAppend
<1>13. SequencesOK'
  <2>1. endpoint' \in Seq(Nat)
    BY <1>1, <1>3, <1>7, AppendProperties
  <2>2. QED
    BY <1>1, <1>2, <2>1 DEF SequencesOK
<1>14. Read' = Read
  BY <1>1 DEF Read
<1>15. QED
  BY <1>1, <1>9, <1>10, <1>11, <1>12, <1>13, <1>14, Zenon DEF OutputInv

LEMMA SimThreadKeepsOutput ==
  ASSUME OutputInv, ThreadInv, SimThread
  PROVE  OutputInv'
<1>1. CASE FirmwareSendsReport
  BY <1>1, FirmwareSendsReportKeepsOutput
<1>2. CASE InternalUsbAttachCallback
  <2>1. /\ UNCHANGED <<ui, shown, frame_buffer, usb_buffer, endpoint, reports>>
        /\ host' = [host EXCEPT !.at = "start"] /\ ~is_attached
    BY <1>2 DEF InternalUsbAttachCallback, SimStep, uiVars
  <2>2. host.at # "output"
    BY <2>1 DEF ThreadInv
  <2>3. host' \in HostThreads /\ host'.at # "output"
    BY <2>1 DEF OutputInv, SequencesOK, HostThreads
  <2>4. QED
    BY <2>1, <2>2, <2>3, OutputStays, Zenon
<1>3. CASE \/ CheckRunning \/ RunMcu \/ FirmwareHandlesSetup \/ McuCrashes
           \/ BeginLog \/ HandleLogLine
  <2>1. UNCHANGED <<ui, shown, frame_buffer, usb_buffer, endpoint, reports, host>>
    BY <1>3
       DEF CheckRunning, RunMcu, FirmwareHandlesSetup, McuCrashes, BeginLog,
           HandleLogLine, SimStep, uiVars, usbVars
  <2>2. QED
    BY <2>1, OutputStays, Zenon
<1>4. QED
  BY <1>1, <1>2, <1>3, Zenon DEF SimThread

LEMMA PollKeepsOutput ==
  ASSUME OutputInv, PollDeviceEndpoints
  PROVE  OutputInv'
<1>1. /\ UNCHANGED <<ui, shown, frame_buffer, usb_buffer, reports>>
      /\ host.at = "poll" /\ SequencesOK
  BY DEF PollDeviceEndpoints, HostStep, uiVars, OutputInv
<1>2. CASE ~configured \/ endpoint = <<>>
  <2>1. host' = [at |-> "check", report |-> 0] /\ endpoint' = endpoint
    BY <1>2, Zenon DEF PollDeviceEndpoints, HostGoto
  <2>2. host' \in HostThreads /\ host'.at # "output"
    BY <2>1 DEF HostThreads
  <2>3. host.at # "output"
    BY <1>1
  <2>4. QED
    BY <1>1, <2>1, <2>2, <2>3, OutputStays, Zenon
<1>3. CASE configured /\ endpoint # <<>>
  <2> DEFINE r == Head(endpoint)
  <2>1. /\ endpoint' = Tail(endpoint)
        /\ host' = IF r = 0 THEN [at |-> "check", report |-> 0]
                   ELSE [at |-> "output", report |-> r]
    BY <1>3, Zenon DEF PollDeviceEndpoints
  <2>2. /\ shown \in Seq(Nat) /\ frame_buffer \in Seq(Nat)
        /\ usb_buffer \in Seq(Nat) /\ endpoint \in Seq(Nat) /\ Sent \in Nat
    BY <1>1, CharactersAreNumbers
  <2>3. r \in Nat /\ Tail(endpoint) \in Seq(Nat)
    BY <1>3, <2>2, HeadTailProperties
  <2> HIDE DEF r
  <2>4. Read' = IF r = 0 THEN <<>> ELSE <<r>>
    BY <2>1 DEF Read
  <2>5. SequencesOK'
    BY <1>1, <2>1, <2>3 DEF SequencesOK, HostThreads
  <2>6. Sent' = Sent
    BY <1>1 DEF Sent
  <2>7. ASSUME NEW s \in Seq(Nat), Below(s, endpoint)
        PROVE  Below(s, Read') /\ Below(s, endpoint')
    <3>1. Below(s, <<r>>) /\ Below(s, Tail(endpoint))
      BY <1>3, <2>2, <2>7, BelowHeadAndTail DEF r
    <3>2. QED
      BY <2>1, <2>4, <3>1, BelowEmpty
  <2>8. /\ Below(shown, endpoint) /\ Below(frame_buffer, endpoint)
        /\ Below(usb_buffer, endpoint)
    BY Zenon DEF OutputInv
  <2>9. /\ Below(shown, Read') /\ Below(shown, endpoint')
        /\ Below(frame_buffer, Read') /\ Below(frame_buffer, endpoint')
        /\ Below(usb_buffer, Read') /\ Below(usb_buffer, endpoint')
    BY <2>2, <2>7, <2>8
  <2>10. /\ Below(<<r>>, Tail(endpoint)) /\ Ordered(Tail(endpoint))
         /\ AtMost(<<r>>, Sent) /\ AtMost(Tail(endpoint), Sent)
    <3>1. Ordered(endpoint) /\ AtMost(endpoint, Sent)
      BY DEF OutputInv
    <3>2. QED
      BY <1>3, <2>2, <3>1, OrderedHeadAndTail, AtMostHeadAndTail DEF r
  <2>11. /\ Below(Read', endpoint') /\ AtMost(Read', Sent)
         /\ Ordered(endpoint') /\ AtMost(endpoint', Sent)
    <3>1. AtMost(<<>>, Sent)
      BY DEF AtMost
    <3>2. QED
      BY <2>1, <2>4, <2>10, <3>1, BelowEmpty
  <2>12. QED
    BY <1>1, <2>5, <2>6, <2>9, <2>11, Zenon DEF OutputInv
<1>4. QED
  BY <1>2, <1>3

LEMMA HandleUsbOutputKeepsOutput ==
  ASSUME OutputInv, HandleUsbOutput
  PROVE  OutputInv'
<1>1. /\ UNCHANGED <<ui, shown, frame_buffer, endpoint, reports>>
      /\ host.at = "output" /\ host' = [at |-> "check", report |-> 0]
      /\ \/ usb_buffer' = Append(usb_buffer, host.report)
         \/ usb_buffer' = usb_buffer
      /\ SequencesOK
  BY DEF HandleUsbOutput, HostStep, HostGoto, uiVars, OutputInv
<1>2. /\ shown \in Seq(Nat) /\ frame_buffer \in Seq(Nat)
      /\ usb_buffer \in Seq(Nat) /\ endpoint \in Seq(Nat) /\ Sent \in Nat
      /\ Read = <<host.report>> /\ host.report \in Nat \ {0}
  BY <1>1, CharactersAreNumbers
<1>3. Read' = <<>> /\ Sent' = Sent
  BY <1>1 DEF Read, Sent
<1>4. SequencesOK'
  <2>1. Append(usb_buffer, host.report) \in Seq(Nat \ {0})
    BY <1>1, <1>2, AppendProperties DEF SequencesOK
  <2>2. usb_buffer' \in Seq(Nat \ {0})
    BY <1>1, <2>1 DEF SequencesOK
  <2>3. QED
    BY <1>1, <2>2 DEF SequencesOK, HostThreads
<1>5. /\ Increasing(usb_buffer) /\ AtMost(usb_buffer, Sent)
      /\ Below(usb_buffer, Read) /\ Below(usb_buffer, endpoint)
      /\ Below(shown, usb_buffer) /\ Below(shown, Read)
      /\ Below(Read, endpoint) /\ AtMost(Read, Sent)
      /\ ui = "show" => Below(frame_buffer, usb_buffer) /\ Below(frame_buffer, Read)
  BY Zenon DEF OutputInv
<1>6. host.report <= Sent
  BY <1>2, <1>5 DEF AtMost
<1>7. /\ Increasing(usb_buffer') /\ AtMost(usb_buffer', Sent)
      /\ Below(usb_buffer', endpoint) /\ Below(shown, usb_buffer')
      /\ ui = "show" => Below(frame_buffer, usb_buffer')
  <2>1. CASE usb_buffer' = usb_buffer
    BY <1>5, <2>1, Zenon
  <2>2. CASE usb_buffer' = Append(usb_buffer, host.report)
    <3>1. Increasing(Append(usb_buffer, host.report))
      BY <1>2, <1>5, IncreasingAppend
    <3>2. AtMost(Append(usb_buffer, host.report), Sent)
      BY <1>2, <1>5, <1>6, AtMostAppend
    <3>3. Below(Append(usb_buffer, host.report), endpoint)
      BY <1>2, <1>5, AppendBelow
    <3>4. Below(shown, Append(usb_buffer, host.report))
      BY <1>2, <1>5, BelowAppend
    <3>5. ui = "show" => Below(frame_buffer, Append(usb_buffer, host.report))
      BY <1>2, <1>5, BelowAppend
    <3>6. QED
      BY <2>2, <3>1, <3>2, <3>3, <3>4, <3>5, Zenon
  <2>3. QED
    BY <1>1, <2>1, <2>2
<1>8. AtMost(<<>>, Sent)
  BY DEF AtMost
<1>9. QED
  BY <1>1, <1>3, <1>4, <1>7, <1>8, BelowEmpty, Zenon DEF OutputInv

LEMMA HostThreadKeepsOutput ==
  ASSUME OutputInv, HostThread
  PROVE  OutputInv'
<1>1. CASE StartHost \/ DeviceControlLoop
  <2>1. /\ UNCHANGED <<ui, shown, frame_buffer, usb_buffer, endpoint, reports>>
        /\ host.at \in {"start", "check"}
    BY <1>1 DEF StartHost, DeviceControlLoop, HostStep, uiVars
  <2>2. \E at \in {"check", "poll", "done"} : host' = [at |-> at, report |-> 0]
    BY <1>1 DEF StartHost, DeviceControlLoop, HostGoto
  <2>3. /\ host' \in HostThreads
        /\ host'.at # "output" /\ host.at # "output"
    BY <2>1, <2>2 DEF HostThreads
  <2>4. QED
    BY <2>1, <2>3, OutputStays, Zenon
<1>2. QED
  BY <1>1, PollKeepsOutput, HandleUsbOutputKeepsOutput, Zenon DEF HostThread

LEMMA OutputIsKept == OutputInv /\ ThreadInv /\ [Next]_vars => OutputInv'
<1>1. OutputInv /\ UNCHANGED vars => OutputInv'
  BY OutputStays, Zenon DEF vars, uiVars, usbVars
<1>2. QED
  BY <1>1, UiThreadKeepsOutput, SimThreadKeepsOutput, HostThreadKeepsOutput,
     Zenon
     DEF Next

-----------------------------------------------------------------------------
(***************************************************************************)
(* The theorems.                                                           *)
(***************************************************************************)
LEMMA InvIsInductive == Spec => []Inv
<1>1. Init => Inv
  BY InitKeyInv, InitThreadInv, InitOutputInv DEF Inv
<1>2. Inv /\ [Next]_vars => Inv'
  <2>1. OutputInv => host \in HostThreads
    BY DEF OutputInv, SequencesOK
  <2>2. QED
    BY <2>1, KeysAreKept, ThreadsAreKept, OutputIsKept DEF Inv
<1>3. QED
  BY <1>1, <1>2, PTL DEF Spec

\* The firmware sees a key down exactly while the UI counts its frames, whatever
\* is typed in which frames.
THEOREM PinsAlwaysFollowKeys == Spec => []PinsFollowKeys
<1>1. Inv => PinsFollowKeys
  BY DEF Inv, KeyInv
<1>2. QED
  BY <1>1, InvIsInductive, PTL

\* When RunSimulator has returned both other threads have come to their end; the
\* program is terminated in its stead only if the host thread has never run.
THEOREM NoThreadEverSurvives == Spec => []NoThreadSurvives
<1>1. Inv => NoThreadSurvives
  BY DEF Inv, ThreadInv
<1>2. QED
  BY <1>1, InvIsInductive, PTL

\* Characters reach the screen in the order in which the firmware sent them and
\* none twice, although nothing orders the UI's copy and clear of the buffer and
\* the host's appends.
THEOREM OutputIsAlwaysInOrder == Spec => []OutputInOrder
<1>1. Inv => OutputInOrder
  <2> SUFFICES ASSUME OutputInv
               PROVE  OutputInOrder
    BY DEF Inv
  <2>1. usb_buffer \in Seq(Nat \ {0})
    BY DEF OutputInv, SequencesOK
  <2>2. \A j \in DOMAIN usb_buffer : usb_buffer[j] # 0
    BY <2>1, ElementOfSeq
  <2>3. Increasing(shown) /\ Increasing(usb_buffer) /\ Below(shown, usb_buffer)
    BY DEF OutputInv
  <2>4. QED
    BY <2>2, <2>3 DEF OutputInOrder, Below
<1>2. QED
  BY <1>1, InvIsInductive, PTL

=============================================================================
