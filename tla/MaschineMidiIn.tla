------------------------------ MODULE MaschineMidiIn ----------------------------
(***************************************************************************)
(* MIDI IN of MaschineMK1 (src/src/devices/ni/MaschineMK1.cpp).            *)
(*                                                                         *)
(* The controller sends what arrives at its MIDI IN socket in USB          *)
(* transfers that cut the bytes anywhere; the USB thread appends each to   *)
(* m_midiInBuffer and pops every complete message.  A byte is a status     *)
(* byte, whose message has a size, a data byte or a system byte, and knows *)
(* the message it belongs to (0: none).  A sender may put a system byte    *)
(* anywhere, a clock tick even inside a message, and data bytes of no      *)
(* message between two messages (running status, the rest of a dump).  A    *)
(* message may also stop short (a cable is pulled).                        *)
(***************************************************************************)
EXTENDS Naturals, Sequences

CONSTANTS Sizes,         \* sizes of messages: 2 and 3
          MaxIn,         \* messages the sender sends
          MaxExtra       \* system bytes, data bytes of no message and cuts

VARIABLES
  count, extra,       \* messages, and extra bytes and cuts, so far
  togo,               \* bytes of message `count` that are still to be sent
  hit, cut,           \* the messages with a system byte inside, cut short
  wire,               \* bytes that no transfer has brought yet
  m_midiInBuffer,
  popping,            \* the loop in processMidiIn() is running
  relayed,            \* the messages sent to m_pVirtualMidiIn
  size                \* per message: its size

vars == <<count, extra, togo, hit, cut, wire, m_midiInBuffer, popping, relayed, size>>

Byte(kind, m) == [kind |-> kind, msg |-> m]

Init ==
  /\ count = 0 /\ extra = 0 /\ togo = 0 /\ hit = {} /\ cut = {} /\ wire = << >>
  /\ m_midiInBuffer = << >> /\ popping = FALSE /\ relayed = << >> /\ size = << >>
------------------------------------------------------------------------------
(***************************************************************************)
(* The sender at the MIDI IN socket                                        *)
(***************************************************************************)
SendStatus(n) ==
  /\ togo = 0 /\ count < MaxIn
  /\ count' = count + 1 /\ togo' = n - 1 /\ size' = Append(size, n)
  /\ wire' = Append(wire, Byte("status", count + 1))
  /\ UNCHANGED <<extra, hit, cut, m_midiInBuffer, popping, relayed>>

SendData ==
  /\ togo > 0
  /\ togo' = togo - 1
  /\ wire' = Append(wire, Byte("data", count))
  /\ UNCHANGED <<count, extra, hit, cut, m_midiInBuffer, popping, relayed, size>>

SendExtra ==
  /\ extra < MaxExtra
  /\ extra' = extra + 1
  /\ \/ wire' = Append(wire, Byte("system", 0))
        /\ hit' = IF togo > 0 THEN hit \cup {count} ELSE hit
     \/ togo = 0 /\ wire' = Append(wire, Byte("data", 0)) /\ hit' = hit
  /\ UNCHANGED <<count, togo, cut, m_midiInBuffer, popping, relayed, size>>

SendCut ==
  /\ togo > 0 /\ extra < MaxExtra
  /\ togo' = 0 /\ extra' = extra + 1 /\ cut' = cut \cup {count}
  /\ UNCHANGED <<count, hit, wire, m_midiInBuffer, popping, relayed, size>>
------------------------------------------------------------------------------
(***************************************************************************)
(* The USB thread                                                          *)
(***************************************************************************)
Receive ==
  /\ ~popping /\ wire # << >>
  /\ m_midiInBuffer' = m_midiInBuffer \o wire /\ wire' = << >>
  /\ popping' = TRUE
  /\ UNCHANGED <<count, extra, togo, hit, cut, relayed, size>>

SkipSystemOnly(bytes) ==   \* mutant: data bytes in front are taken for a message
  LET starts == {i \in DOMAIN bytes : bytes[i].kind # "system"} IN
    IF starts = {} THEN << >>
    ELSE SubSeq(bytes, CHOOSE i \in starts : \A j \in starts : i <= j, Len(bytes))

\* What is left when every byte in front of a status byte has been skipped.
Skip(bytes) ==
  LET starts == {i \in DOMAIN bytes : bytes[i].kind = "status"} IN
    IF starts = {} THEN << >>
    ELSE SubSeq(bytes, CHOOSE i \in starts : \A j \in starts : i <= j, Len(bytes))

\* The size that the first byte asks for; 3 when it is none of the known ones.
ExpectedSize(bytes) ==
  IF bytes[1].kind = "status" THEN size[bytes[1].msg] ELSE 3

Complete(bytes) == bytes # << >> /\ Len(bytes) >= ExpectedSize(bytes)

\* popCompleteMidiMsg() and what is done with a message; the loop ends when
\* there is none.
Pop ==
  /\ popping
  /\ LET front == Skip(m_midiInBuffer) IN
       IF Complete(front)
         THEN /\ relayed' = Append(relayed, SubSeq(front, 1, ExpectedSize(front)))
              /\ m_midiInBuffer' = SubSeq(front, ExpectedSize(front) + 1, Len(front))
              /\ popping' = TRUE
         ELSE m_midiInBuffer' = front /\ relayed' = relayed /\ popping' = FALSE
  /\ UNCHANGED <<count, extra, togo, hit, cut, wire, size>>
------------------------------------------------------------------------------
Sender == SendData \/ SendExtra \/ SendCut \/ \E n \in Sizes : SendStatus(n)
Usb    == Receive \/ Pop

Next == Sender \/ Usb

Spec == Init /\ [][Next]_vars
------------------------------------------------------------------------------
Bytes == [kind : {"status", "data", "system"}, msg : 0..MaxIn]

\* Every variable has its type.
TypeOK ==
  /\ count \in 0..MaxIn /\ extra \in 0..MaxExtra /\ togo \in 0..2 /\ hit \cup cut \subseteq 1..count
  /\ wire \in Seq(Bytes) /\ m_midiInBuffer \in Seq(Bytes) /\ popping \in BOOLEAN
  /\ \A k \in DOMAIN relayed : relayed[k] \in Seq(Bytes) /\ Len(relayed[k]) \in 2..3
  /\ size \in Seq(Sizes) /\ Len(size) = count

\* Message m as it was sent.
Message(m) ==
  [i \in 1..size[m] |-> IF i = 1 THEN Byte("status", m) ELSE Byte("data", m)]

\* The USB thread has all of message m and is through with it.
Received(m) ==
  /\ ~popping /\ (m < count \/ togo = 0)
  /\ \A i \in DOMAIN wire : wire[i].msg # m

\* However the transfers cut the bytes, a whole message is relayed once and as it
\* was sent: a system byte inside one costs that message, and a message that stops
\* short at most the one after it too.
IntactAreRelayed ==
  \A m \in 1..count : Received(m) /\ m \notin hit \cup cut /\ m - 1 \notin cut =>
    \E k \in DOMAIN relayed : \A j \in DOMAIN relayed : relayed[j] = Message(m) <=> j = k

\* Messages are relayed in the order in which they began.
RelayedInOrder ==
  \A j, k \in DOMAIN relayed : j < k => relayed[j][1].msg < relayed[k][1].msg

\* Between two transfers the buffer holds less than one message.
BufferIsShort == ~popping => Len(m_midiInBuffer) < 3

\* MaschineMK1.cpp 34-36: popCompleteMidiMsg() "Skips stray non-status bytes and
\* realtime/system bytes (0xF0+)": none of them is part of a message.
SystemBytesAreSkipped ==
  \A k \in DOMAIN relayed : \A i \in DOMAIN relayed[k] : relayed[k][i].kind # "system"
==============================================================================
