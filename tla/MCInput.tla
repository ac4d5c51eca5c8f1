-------------------------------- MODULE MCInput -------------------------------
(***************************************************************************)
(* Everything that comes from a controller: the reports of all eight       *)
(* classes (ControllerInput), or the bytes of MaschineMK1's MIDI IN        *)
(* (MaschineMidiIn), one of them in a behaviour.                           *)
(***************************************************************************)
EXTENDS ControllerInput

CONSTANTS MessageSizes, MaxIn, MaxExtra

VARIABLES count, extra, togo, hit, cut, wire, m_midiInBuffer, popping, relayed, size

ASSUME MidiInAssumption ==
  MessageSizes \subseteq {2, 3} /\ MaxIn \in Nat /\ MaxExtra \in Nat

MidiIn == INSTANCE MaschineMidiIn WITH Sizes <- MessageSizes

\* Whatever the transfers cut: every message that arrives whole is relayed whole, in the
\* order of the wire, and no more than a rest of a message is kept.
MidiInIsFramed ==
  MidiIn!TypeOK /\ MidiIn!IntactAreRelayed /\ MidiIn!RelayedInOrder /\ MidiIn!BufferIsShort

MCInit == Init /\ MidiIn!Init

\* The bytes are combined with one state of ControllerInput only.
AtSocket == kind = "MK1" /\ part = "buttons" /\ Init

MCNext ==
  \/ /\ count = 0 /\ extra = 0
     /\ Next
     /\ UNCHANGED <<count, extra, togo, hit, cut, wire, m_midiInBuffer, popping, relayed, size>>
  \/ AtSocket /\ MidiIn!Next /\ UNCHANGED vars

MCSpec == MCInit /\ [][MCNext]_<<vars, count, extra, togo, hit, cut, wire, m_midiInBuffer, popping, relayed,
                               size>>

=============================================================================
