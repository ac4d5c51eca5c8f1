---------------------------- MODULE DeviceHandles ----------------------------
(***************************************************************************)
(* The handles of HIDAPI and MIDI: how a device is listed, opened, read by *)
(* the loop of its tick (HIDAPI) or by a callback (MIDI), written to and   *)
(* closed; and the packets a system exclusive message is cut into for USB. *)
(*                                                                         *)
(* A report is its number and what it is about.  HIDAPI's handle does not  *)
(* block: with nothing to read it answers TRUE and leaves the transfer of  *)
(* its caller as it is, with the report that was read before.              *)
(***************************************************************************)
EXTENDS Integers, Sequences, FiniteSets, Functions

CONSTANTS
  MaxSlots,      \* how often read() of MK2 and Mikro tries (32 in the code)
  PadSlots,      \* one of how many tries takes a report of the pads (8 in the code)
  MaxSent        \* bound: reports of the device

VARIABLES
  driver,        \* the Type of the Driver
  tries,         \* the tries of the device's read()
  there,         \* the device is on the bus
  listed,        \* enumerate() saw it
  handle,        \* "none", "open", "dead" (its device went), "null" (around a null pointer)
  m_cbRead,      \* readAsync() was called
  kinds,         \* what each report the device sent is about
  queue,         \* the reports that wait for the handle
  lost,          \* those that went with the handle
  input, slot,   \* read(): its transfer (0: empty), and its try (0: it is not running)
  processed,     \* the reports the device class got, in order
  wrote          \* the last write: what it answered, and whether the device has all of it

handleVars == <<driver, tries, there, listed, handle, m_cbRead, kinds, queue, lost, input, slot,
                processed, wrote>>

Init ==
  /\ driver \in {"HIDAPI", "MIDI"} /\ tries \in {1, MaxSlots}
  /\ there = TRUE /\ listed = FALSE /\ handle = "none" /\ m_cbRead = FALSE
  /\ kinds = << >> /\ queue = << >> /\ lost = {}
  /\ input = 0 /\ slot = 0 /\ processed = << >>
  /\ wrote = [answer |-> FALSE, whole |-> FALSE]

Plug ==
  /\ there' = ~there
  /\ handle' = IF handle = "open" THEN "dead" ELSE handle
  /\ UNCHANGED <<driver, tries, listed, m_cbRead, kinds, queue, lost, input, slot, processed, wrote>>

enumerate ==
  /\ handle = "none" /\ listed' = there
  /\ UNCHANGED <<driver, tries, there, handle, m_cbRead, kinds, queue, lost, input, slot, processed,
                 wrote>>

\* A device that went since it was listed: HIDAPI has no handle for it, and DeviceHandle is
\* put around a null pointer, which its next call follows; MIDI swallows the exception and
\* has one whose ports are closed.
hidConnect == IF there THEN "open" ELSE "null"
midiConnect == IF there THEN "open" ELSE "dead"

connect ==
  /\ handle = "none" /\ listed
  /\ handle' = IF driver = "MIDI" THEN midiConnect ELSE hidConnect
  /\ m_cbRead' = FALSE
  /\ UNCHANGED <<driver, tries, there, listed, kinds, queue, lost, input, slot, processed, wrote>>

\* The handle is taken from the device: what waits in it goes with it.
disconnect ==
  /\ handle \in {"open", "dead"}
  /\ handle' = "none" /\ queue' = << >> /\ lost' = lost \cup Range(queue)
  /\ UNCHANGED <<driver, tries, there, listed, m_cbRead, kinds, input, slot, processed, wrote>>

readAsync ==
  /\ driver = "MIDI" /\ handle = "open" /\ m_cbRead' = TRUE
  /\ UNCHANGED <<driver, tries, there, listed, handle, kinds, queue, lost, input, slot, processed,
                 wrote>>

\* A MIDI message that comes before readAsync() waits in a queue no one reads.
onMidiMessage ==
  /\ IF m_cbRead THEN processed' = Append(processed, Len(kinds) + 1) /\ UNCHANGED queue
     ELSE queue' = Append(queue, Len(kinds) + 1) /\ UNCHANGED processed

Report ==
  /\ handle = "open" /\ Len(kinds) < MaxSent
  /\ \E kind \in {"buttons", "pads"} : kinds' = Append(kinds, kind)
  /\ IF driver = "MIDI" THEN onMidiMessage
     ELSE queue' = Append(queue, Len(kinds) + 1) /\ UNCHANGED processed
  /\ UNCHANGED <<driver, tries, there, listed, handle, m_cbRead, lost, input, slot, wrote>>

-----------------------------------------------------------------------------
(* read() of a device class, on HIDAPI's handle.                           *)

BeginRead ==
  /\ driver = "HIDAPI" /\ slot = 0 /\ handle # "null"
  /\ input' = 0 /\ slot' = 1
  /\ UNCHANGED <<driver, tries, there, listed, handle, m_cbRead, kinds, queue, lost, processed, wrote>>

ReadFails ==
  /\ slot # 0 /\ handle \in {"none", "dead"}
  /\ slot' = 0
  /\ UNCHANGED <<driver, tries, there, listed, handle, m_cbRead, kinds, queue, lost, input,
                 processed, wrote>>

\* Mutant: a report of the buttons does not end the loop.
ReadGoesOn(report) ==
  /\ IF report # 0 /\ (kinds[report] = "buttons" \/ (slot - 1) % PadSlots = 0)
     THEN processed' = Append(processed, report) ELSE UNCHANGED processed
  /\ slot' = IF slot = tries THEN 0 ELSE slot + 1

\* Reports of the pads are taken in one of PadSlots tries; one of the buttons ends the loop.
Process(report) ==
  /\ IF report # 0 /\ (kinds[report] = "buttons" \/ (slot - 1) % PadSlots = 0)
     THEN processed' = Append(processed, report) ELSE UNCHANGED processed
  /\ slot' = IF slot = tries \/ (report # 0 /\ kinds[report] = "buttons") THEN 0 ELSE slot + 1

\* What is in the queue may still be read after the device went.
ReadSlot ==
  /\ slot # 0 /\ (handle = "open" \/ (handle = "dead" /\ queue # << >>))
  /\ input' = IF queue = << >> THEN input ELSE Head(queue)
  /\ queue' = IF queue = << >> THEN queue ELSE Tail(queue)
  /\ Process(input')
  /\ UNCHANGED <<driver, tries, there, listed, handle, m_cbRead, kinds, lost, wrote>>

\* HIDAPI counts the bytes that were written of a transfer of 2, and may write more.
hidWrite ==
  \E written \in IF handle = "open" THEN {-1, 1, 2, 3} ELSE {-1} :
    wrote' = [answer |-> written >= 2, whole |-> written >= 2]

\* MIDI answers TRUE unless there is an exception, and closed ports raise none.
midiWrite == \E answer \in BOOLEAN : wrote' = [answer |-> answer, whole |-> answer /\ handle = "open"]

\* Without a handle a write fails.
write ==
  /\ \/ handle = "none" /\ wrote' = [answer |-> FALSE, whole |-> FALSE]
     \/ handle \notin {"none", "null"} /\ driver = "HIDAPI" /\ hidWrite
     \/ handle # "none" /\ driver = "MIDI" /\ midiWrite
  /\ UNCHANGED <<driver, tries, there, listed, handle, m_cbRead, kinds, queue, lost, input, slot,
                 processed>>

Next ==
  \/ Plug \/ enumerate \/ connect \/ disconnect \/ readAsync \/ Report
  \/ BeginRead \/ ReadFails \/ ReadSlot \/ write

Spec == Init /\ [][Next]_handleVars

-----------------------------------------------------------------------------
(* USBMidi::sendSysex() of the boards: packets of a head and three bytes.  *)

sendSysex(message) ==
  LET n == (Len(message) + 2) \div 3
      body(i) == SubSeq(message, 3 * i - 2, IF i < n THEN 3 * i ELSE Len(message))
  IN [i \in 1..n |->
        <<IF i < n THEN 4 ELSE 4 + Len(body(i))>> \o body(i) \o [z \in 1..(3 - Len(body(i))) |-> 0]]

-----------------------------------------------------------------------------
(* Properties.                                                             *)

\* Reports reach the device class in the order in which the device sent them.  One of the
\* buttons reaches it once, although the transfer it was read into is not emptied, unless it
\* still waits or went with the handle; and a write of HIDAPI that is reported to have
\* succeeded has.
ReportsAreTaken ==
  /\ \A i, j \in DOMAIN processed : i < j => processed[i] <= processed[j]
  /\ \A r \in DOMAIN kinds : kinds[r] = "buttons" =>
       Cardinality({i \in DOMAIN processed : processed[i] = r})
         = (IF r \in Range(queue) \cup lost THEN 0 ELSE 1)
  /\ driver = "HIDAPI" /\ wrote.answer => wrote.whole

\* The packets of a message carry its bytes in their order and nothing else, and only the
\* last ends it.
SysexIsWhole(message) ==
  LET packets == sendSysex(message)
      carries(p) == CASE p[1] = 5 -> 1 [] p[1] = 6 -> 2 [] OTHER -> 3
  IN /\ \A k \in DOMAIN message :
          LET packet == packets[(k - 1) \div 3 + 1]
              place == ((k - 1) % 3) + 1
          IN place <= carries(packet) /\ packet[place + 1] = message[k]
     /\ message # << >> => 3 * (Len(packets) - 1) + carries(packets[Len(packets)]) = Len(message)
     /\ \A i \in DOMAIN packets : (packets[i][1] = 4 <=> i < Len(packets))

=============================================================================
