------------------------------- MODULE MaschineMK1 ------------------------------
(***************************************************************************)
(* What MaschineMK1 (src/src/devices/ni/MaschineMK1.cpp) sends to the      *)
(* controller: the displays and the two groups of LEDs, one step of tick() *)
(* after the other, and MIDI, on the fast thread.  A client draws and sets *)
(* LEDs in its callbacks, one at a time as m_mtxCallbacks makes them: on   *)
(* the Coordinator's thread, in render() and while the pads are read, and  *)
(* on the USB thread, while the Coordinator's thread sends.                *)
(*                                                                         *)
(* A surface is a display or a group of LEDs: what the client made of it   *)
(* (data), its dirty flag, and what the controller has of it (shown), in   *)
(* pieces as it is written.  Every write may fail, and takes               *)
(* m_mtxDeviceHandle for itself alone: it is one step.                     *)
(***************************************************************************)
EXTENDS Naturals, Sequences, SequencesExt

CONSTANTS DisplaySeq, GroupSeq,   \* the displays and groups, in the order of tick()
          Values,                 \* what can be drawn or lit, "black" among it
          Chunks,                 \* writes that a frame takes
          kMaxSendFrameRetries,
          QueueCapacity,          \* usable slots of m_midiOutQueue
          MaxOps                  \* changes of surfaces, MIDI messages and disconnections

ASSUME CapacityAssumption == QueueCapacity \in Nat \ {0}
ASSUME ValuesAssumption   == "black" \in Values
ASSUME RetriesAssumption  == kMaxSendFrameRetries \in Nat \ {0}
ASSUME BoundsAssumption   == Chunks \in Nat /\ MaxOps \in Nat

VARIABLES
  scan,                 \* "up", "stopping", "down", "first" or "second" sendLeds()
  m_tickStep,
  pos,                  \* "tick" and "init": what each sends
  data, dirty, shown,   \* per surface
  m_sendFrameFailCount,
  client,               \* the client's change in progress
  m_midiOutQueue, port, \* what the client and what applications send
  fast, midiMsg_,       \* the fast thread: "idle", "next" or "write"; its message
  taken, ported,        \* messages that sendMidiMsg() accepted, that the port got
  sent, lost,           \* messages written, failed
  streak, raced,        \* failed frames in a row; changes that overlap a sending
  ops                   \* so far

drawVars == <<data, dirty, shown, m_sendFrameFailCount, streak, raced>>
midiVars == <<m_midiOutQueue, port, fast, midiMsg_, taken, ported, sent, lost>>
restVars == <<scan, m_tickStep, pos, drawVars, client>>   \* all that MIDI leaves alone
vars     == <<restVars, midiVars, ops>>

Displays == ToSet(DisplaySeq)
Groups   == ToSet(GroupSeq)
Surfaces == Displays \cup Groups

ASSUME SurfacesAssumption ==
  /\ DisplaySeq \in Seq(Displays) /\ GroupSeq \in Seq(Groups)
  /\ Displays \cap Groups = {} /\ "none" \notin Surfaces

Pieces(s) == IF s \in Displays THEN 1..Chunks ELSE {1}

Idle == [at |-> "idle", k |-> 0, piece |-> 0]
Free == [who |-> "none", s |-> "none", at |-> "none",
         old |-> "black", seen |-> FALSE, flag |-> FALSE]

At(x)      == pos[x].at
SeqAt(x)   == IF At(x) = "frame" THEN DisplaySeq ELSE IF At(x) = "leds" THEN GroupSeq ELSE << >>
Finished(x) == At(x) # "idle" /\ pos[x].k > Len(SeqAt(x))
Surface(x) == SeqAt(x)[pos[x].k]

\* x has begun to send surface s and has not cleared its flag.
Sending(x, s) ==
  At(x) \in {"frame", "leds"} /\ ~Finished(x) /\ pos[x].piece > 0 /\ Surface(x) = s

InSending(s) == \E x \in {"tick", "init"} : Sending(x, s)

Init ==
  /\ scan = "down" /\ m_tickStep = "frame" /\ pos = [x \in {"tick", "init"} |-> Idle]
  /\ data = [s \in Surfaces |-> "black"] /\ dirty = [s \in Surfaces |-> TRUE]
  /\ shown = [s \in Surfaces |-> [p \in Pieces(s) |-> "off"]]
  /\ m_sendFrameFailCount = [d \in Displays |-> 0]
  /\ client = Free
  /\ m_midiOutQueue = << >> /\ port = << >> /\ fast = "idle" /\ midiMsg_ = 0
  /\ taken = {} /\ ported = {} /\ sent = << >> /\ lost = {}
  /\ streak = [d \in Displays |-> 0] /\ raced = [s \in Surfaces |-> FALSE]
  /\ ops = 0
------------------------------------------------------------------------------
(***************************************************************************)
(* The client, in a callback on thread who                                 *)
(***************************************************************************)
\* Who may begin a callback: tick() is in render() or in the pads' read(), or
\* the asynchronous reads are on.
MayCall(who) ==
  /\ client = Free
  /\ IF who = "coordinator"
       THEN \/ At("tick") = "idle" /\ scan \in {"up", "first", "second"}
            \/ At("tick") = "read"
       ELSE scan \in {"up", "second", "stopping"}

Overlap(s) == raced' = [raced EXCEPT ![s] = @ \/ InSending(s)]

\* Drawing: pixels, then the dirty flag.  setLedImpl(): the LED, then the flag
\* from what it was and whether the LED changed.
ClientStore(who, s, v) ==
  /\ ops < MaxOps /\ MayCall(who)
  /\ ops' = ops + 1
  /\ data' = [data EXCEPT ![s] = v]
  /\ client' = [Free EXCEPT !.who = who, !.s = s, !.old = data[s],
                            !.at = IF s \in Groups THEN "stored" ELSE "tested",
                            !.flag = s \in Displays]
  /\ Overlap(s)
  /\ UNCHANGED <<scan, m_tickStep, pos, dirty, shown, m_sendFrameFailCount, streak,
                 midiVars>>

ClientTest ==
  /\ client.at = "stored"
  /\ client' = [client EXCEPT !.at = "tested", !.seen = dirty[client.s],
                              !.flag = dirty[client.s] \/ data[client.s] # client.old]
  /\ Overlap(client.s)
  /\ UNCHANGED <<scan, m_tickStep, pos, data, dirty, shown, m_sendFrameFailCount, streak,
                 midiVars, ops>>

\* A flag that was set when it was read need not be stored again.
ClientFlag ==
  /\ client.at = "tested"
  /\ \/ dirty' = [dirty EXCEPT ![client.s] = client.flag]
     \/ client.seen /\ dirty' = dirty
  /\ client' = Free
  /\ Overlap(client.s)
  /\ UNCHANGED <<scan, m_tickStep, pos, data, shown, m_sendFrameFailCount, streak,
                 midiVars, ops>>

\* sendMidiMsg(): the queue is a LockFreeQueue, whose enqueue() is one step.
SendMidiMsg ==
  /\ ops < MaxOps /\ \E who \in {"coordinator", "usb"} : MayCall(who)
  /\ ops' = ops + 1
  /\ IF Len(m_midiOutQueue) < QueueCapacity
       THEN m_midiOutQueue' = Append(m_midiOutQueue, ops + 1) /\ taken' = taken \cup {ops + 1}
       ELSE UNCHANGED <<m_midiOutQueue, taken>>
  /\ UNCHANGED <<restVars, port, fast, midiMsg_, ported, sent, lost>>
------------------------------------------------------------------------------
(***************************************************************************)
(* tick(), and sendLeds() as init() calls it                               *)
(***************************************************************************)
Move(x, k, piece) == pos' = [pos EXCEPT ![x].k = k, ![x].piece = piece]
NextSurface(x)    == Move(x, pos[x].k + 1, 0)

\* The sending begins: nothing that came before it matters any more.
Begin(s) == raced' = [raced EXCEPT ![s] = client.s = s]
Goes(s)  == raced' = [raced EXCEPT ![s] = @ \/ client.s = s]

\* onTick() is through with render() and calls tick().
TickBegin ==
  /\ At("tick") = "idle" /\ scan = "up" /\ client = Free
  /\ pos' = [pos EXCEPT !["tick"] = [at |-> m_tickStep, k |-> 1, piece |-> 0]]
  /\ UNCHANGED <<scan, m_tickStep, drawVars, client, midiVars, ops>>

TickEnd ==
  /\ Finished("tick") /\ client.who # "coordinator"
  /\ m_tickStep' = CASE m_tickStep = "frame" -> "read"
                     [] m_tickStep = "read"  -> "leds"
                     [] m_tickStep = "leds"  -> "frame"
  /\ pos' = [pos EXCEPT !["tick"] = Idle]
  /\ UNCHANGED <<scan, drawVars, client, midiVars, ops>>

InTick(at) == At("tick") = at /\ ~Finished("tick")

FrameClean ==
  /\ InTick("frame") /\ pos["tick"].piece = 0 /\ ~dirty[Surface("tick")]
  /\ NextSurface("tick")
  /\ UNCHANGED <<scan, m_tickStep, drawVars, client, midiVars, ops>>

\* sendFrame(): the commands in front of the chunks, whose results it ignores.
FrameBegin ==
  /\ InTick("frame") /\ pos["tick"].piece = 0 /\ dirty[Surface("tick")]
  /\ Move("tick", pos["tick"].k, 1)
  /\ Begin(Surface("tick"))
  /\ UNCHANGED <<scan, m_tickStep, data, dirty, shown, m_sendFrameFailCount, streak, client,
                 midiVars, ops>>

FrameChunk ==
  LET d == Surface("tick") p == pos["tick"].piece IN
  /\ InTick("frame") /\ p \in 1..Chunks
  /\ shown' = [shown EXCEPT ![d][p] = data[d]]
  /\ Move("tick", pos["tick"].k, p + 1)
  /\ Goes(d)
  /\ UNCHANGED <<scan, m_tickStep, data, dirty, m_sendFrameFailCount, streak, client,
                 midiVars, ops>>

GivesUpEarly(d) ==   \* mutant: one retry too few
  m_sendFrameFailCount[d] + 2 >= kMaxSendFrameRetries

GivesUpLate(d) ==   \* mutant: one retry too many
  m_sendFrameFailCount[d] + 1 > kMaxSendFrameRetries

GivesUp(d) == m_sendFrameFailCount[d] + 1 >= kMaxSendFrameRetries

FrameFailUncounted ==   \* mutant: the failure is not counted
  LET d == Surface("tick") IN
  /\ InTick("frame") /\ pos["tick"].piece \in 1..Chunks
  /\ streak' = [streak EXCEPT ![d] = IF @ < kMaxSendFrameRetries THEN @ + 1 ELSE @]
  /\ NextSurface("tick")
  /\ Goes(d)
  /\ UNCHANGED <<scan, m_tickStep, data, dirty, shown, m_sendFrameFailCount, client, midiVars,
                 ops>>

FrameFail ==
  LET d == Surface("tick") IN
  /\ InTick("frame") /\ pos["tick"].piece \in 1..Chunks
  /\ IF GivesUp(d)
       THEN /\ dirty' = [dirty EXCEPT ![d] = FALSE]
            /\ m_sendFrameFailCount' = [m_sendFrameFailCount EXCEPT ![d] = 0]
       ELSE /\ m_sendFrameFailCount' = [m_sendFrameFailCount EXCEPT ![d] = @ + 1]
            /\ dirty' = dirty
  /\ streak' = [streak EXCEPT ![d] = IF @ < kMaxSendFrameRetries THEN @ + 1 ELSE @]
  /\ NextSurface("tick")
  /\ Goes(d)
  /\ UNCHANGED <<scan, m_tickStep, data, shown, client, midiVars, ops>>

FrameDone ==
  LET d == Surface("tick") IN
  /\ InTick("frame") /\ pos["tick"].piece = Chunks + 1
  /\ dirty' = [dirty EXCEPT ![d] = FALSE]
  /\ m_sendFrameFailCount' = [m_sendFrameFailCount EXCEPT ![d] = 0]
  /\ streak' = [streak EXCEPT ![d] = 0]
  /\ NextSurface("tick")
  /\ Goes(d)
  /\ UNCHANGED <<scan, m_tickStep, data, shown, client, midiVars, ops>>

InLeds(x) == At(x) = "leds" /\ ~Finished(x)

LedsClean(x) ==
  /\ InLeds(x) /\ pos[x].piece = 0 /\ ~dirty[Surface(x)]
  /\ NextSurface(x)
  /\ UNCHANGED <<scan, m_tickStep, drawVars, client, midiVars, ops>>

LedsWrite(x) ==
  LET g == Surface(x) IN
  /\ InLeds(x) /\ pos[x].piece = 0 /\ dirty[g]
  /\ shown' = [shown EXCEPT ![g][1] = data[g]]
  /\ Move(x, pos[x].k, 1)
  /\ Begin(g)
  /\ UNCHANGED <<scan, m_tickStep, data, dirty, m_sendFrameFailCount, streak, client,
                 midiVars, ops>>

\* The first write that fails ends sendLeds(): the flags stay.
LedsFail(x) ==
  /\ InLeds(x) /\ pos[x].piece = 0 /\ dirty[Surface(x)]
  /\ Move(x, Len(GroupSeq) + 1, 0)
  /\ UNCHANGED <<scan, m_tickStep, drawVars, client, midiVars, ops>>

LedsClear(x) ==
  LET g == Surface(x) IN
  /\ InLeds(x) /\ pos[x].piece = 1
  /\ dirty' = [dirty EXCEPT ![g] = FALSE]
  /\ NextSurface(x)
  /\ Goes(g)
  /\ UNCHANGED <<scan, m_tickStep, data, shown, m_sendFrameFailCount, streak, client,
                 midiVars, ops>>

Leds(x) == LedsClean(x) \/ LedsWrite(x) \/ LedsFail(x) \/ LedsClear(x)
------------------------------------------------------------------------------
(***************************************************************************)
(* The thread that scans: onConnect(), with init(), and onDisconnect()     *)
(***************************************************************************)
\* init() up to its first sendLeds(): the surfaces are black and dirty, and
\* sendFrame() writes as much of each display as it can, whatever comes of it.
Connect ==
  /\ scan = "down"
  /\ scan' = "first"
  /\ data' = [s \in Surfaces |-> "black"] /\ dirty' = [s \in Surfaces |-> TRUE]
  /\ \E n \in [Displays -> 0..Chunks] :
       shown' = [s \in Surfaces |-> [p \in Pieces(s) |->
                   IF s \in Displays /\ p <= n[s] THEN "black" ELSE "off"]]
  /\ pos' = [pos EXCEPT !["init"] = [at |-> "leds", k |-> 1, piece |-> 0]]
  /\ raced' = [s \in Surfaces |-> client.s = s]
  /\ UNCHANGED <<m_tickStep, m_sendFrameFailCount, streak, client, midiVars, ops>>

\* The asynchronous reads begin, and the backlight is set with the second group.
InitAgain ==
  LET g == GroupSeq[Len(GroupSeq)] IN
  /\ scan = "first" /\ Finished("init")
  /\ scan' = "second"
  /\ dirty' = [dirty EXCEPT ![g] = TRUE]
  /\ pos' = [pos EXCEPT !["init"] = [at |-> "leds", k |-> 1, piece |-> 0]]
  /\ UNCHANGED <<m_tickStep, data, shown, m_sendFrameFailCount, streak, raced, client,
                 midiVars, ops>>

\* The fast thread starts, and m_connected is set.
Connected ==
  /\ scan = "second" /\ Finished("init")
  /\ scan' = "up" /\ pos' = [pos EXCEPT !["init"] = Idle]
  /\ UNCHANGED <<m_tickStep, drawVars, client, midiVars, ops>>

\* The scan holds m_mtxDevices: the Coordinator's thread is in no onTick().
Disconnect ==
  /\ scan = "up" /\ ops < MaxOps
  /\ At("tick") = "idle" /\ client.who # "coordinator"
  /\ scan' = "stopping" /\ ops' = ops + 1
  /\ UNCHANGED <<m_tickStep, pos, drawVars, client, midiVars>>

\* The fast thread has been joined, and the handle is gone.
Disconnected ==
  /\ scan = "stopping" /\ fast = "idle"
  /\ scan' = "down"
  /\ UNCHANGED <<m_tickStep, pos, drawVars, client, midiVars, ops>>
------------------------------------------------------------------------------
(***************************************************************************)
(* The fast thread                                                         *)
(***************************************************************************)
\* An application sends a message to the virtual port.
PortMsg ==
  /\ ops < MaxOps
  /\ ops' = ops + 1 /\ port' = Append(port, ops + 1) /\ ported' = ported \cup {ops + 1}
  /\ UNCHANGED <<restVars, m_midiOutQueue, fast, midiMsg_, taken, sent, lost>>

\* A period of the fast thread begins: writeMidiMsg().  One that finds nothing to
\* send changes nothing.
FastTick ==
  /\ fast = "idle" /\ scan = "up" /\ (m_midiOutQueue # << >> \/ port # << >>)
  /\ fast' = "next"
  /\ UNCHANGED <<restVars, m_midiOutQueue, port, midiMsg_, taken, ported, sent, lost, ops>>

FastNextQueueOnly ==   \* mutant: an empty queue ends the period
  /\ fast = "next"
  /\ \/ /\ m_midiOutQueue # << >>
        /\ midiMsg_' = Head(m_midiOutQueue) /\ m_midiOutQueue' = Tail(m_midiOutQueue)
        /\ fast' = "write"
     \/ /\ m_midiOutQueue = << >>
        /\ fast' = "idle"
        /\ UNCHANGED <<m_midiOutQueue, midiMsg_>>
  /\ UNCHANGED <<restVars, port, taken, ported, sent, lost, ops>>

\* getNextMidiOutMsg(): the client's messages before those of the port.
FastNext ==
  /\ fast = "next"
  /\ \/ /\ m_midiOutQueue # << >>
        /\ midiMsg_' = Head(m_midiOutQueue) /\ m_midiOutQueue' = Tail(m_midiOutQueue)
        /\ fast' = "write" /\ port' = port
     \/ /\ m_midiOutQueue = << >> /\ port # << >>
        /\ midiMsg_' = Head(port) /\ port' = Tail(port)
        /\ fast' = "write" /\ UNCHANGED m_midiOutQueue
     \/ /\ m_midiOutQueue = << >> /\ port = << >>
        /\ fast' = "idle"
        /\ UNCHANGED <<m_midiOutQueue, port, midiMsg_>>
  /\ UNCHANGED <<restVars, taken, ported, sent, lost, ops>>

FastWrite ==
  /\ fast = "write"
  /\ sent' = Append(sent, midiMsg_) /\ fast' = "next"
  /\ UNCHANGED <<restVars, m_midiOutQueue, port, midiMsg_, taken, ported, lost, ops>>

FastFailRequeued ==   \* mutant: the message is put back, behind the others
  /\ fast = "write"
  /\ m_midiOutQueue' = Append(m_midiOutQueue, midiMsg_) /\ fast' = "idle"
  /\ UNCHANGED <<restVars, port, midiMsg_, taken, ported, sent, lost, ops>>

\* The write fails: its message is gone, and the others wait for the next period.
FastFail ==
  /\ fast = "write"
  /\ lost' = lost \cup {midiMsg_} /\ fast' = "idle"
  /\ UNCHANGED <<restVars, m_midiOutQueue, port, midiMsg_, taken, ported, sent, ops>>
------------------------------------------------------------------------------
Client == ClientTest \/ ClientFlag
Frame  == FrameClean \/ FrameBegin \/ FrameChunk \/ FrameFail \/ FrameDone
Tick   == TickBegin \/ Frame \/ Leds("tick") \/ TickEnd
Scan   == Leds("init") \/ InitAgain \/ Connected \/ Disconnected
Fast   == FastTick \/ FastNext \/ FastWrite \/ FastFail

Next ==
  \/ \E who \in {"coordinator", "usb"}, s \in Surfaces, v \in Values : ClientStore(who, s, v)
  \/ Client \/ SendMidiMsg \/ PortMsg \/ Tick \/ Fast
  \/ Scan \/ Connect \/ Disconnect

Spec == Init /\ [][Next]_vars

FairSpec == Spec /\ WF_vars(Client) /\ WF_vars(Tick) /\ WF_vars(Scan) /\ WF_vars(Fast)
------------------------------------------------------------------------------
\* Every variable has its type.
TypeOK ==
  /\ scan \in {"up", "stopping", "down", "first", "second"}
  /\ m_tickStep \in {"frame", "read", "leds"}
  /\ pos \in [{"tick", "init"} -> [at : {"idle", "frame", "read", "leds"},
                                   k : Nat, piece : 0..(Chunks + 1)]]
  /\ data \in [Surfaces -> Values] /\ dirty \in [Surfaces -> BOOLEAN]
  /\ \A s \in Surfaces : shown[s] \in [Pieces(s) -> Values \cup {"off"}]
  /\ m_sendFrameFailCount \in [Displays -> 0..(kMaxSendFrameRetries - 1)]
  /\ client \in [who : {"none", "coordinator", "usb"}, s : Surfaces \cup {"none"},
                 at : {"none", "stored", "tested"}, old : Values,
                 seen : BOOLEAN, flag : BOOLEAN]
  /\ m_midiOutQueue \in Seq(1..MaxOps) /\ Len(m_midiOutQueue) <= QueueCapacity

\* A surface whose flag is clear is shown as the client made it, unless the
\* client changed it while it was being sent, or kMaxSendFrameRetries frames of
\* it in a row have failed: a partial frame, a failed write, a reconnection and
\* the first frames, which init() sends without a look at their results, all
\* leave the flag set.
CleanIsShown ==
  \A s \in Surfaces :
    \/ scan # "up" \/ dirty[s] \/ client.s = s \/ raced[s]
    \/ s \in Displays /\ streak[s] >= kMaxSendFrameRetries
    \/ \A p \in Pieces(s) : shown[s][p] = data[s]

\* The client's messages are written in the order of its calls and those of the
\* port in theirs, none of them twice, and what is not written is queued, in the fast
\* thread's hands or failed, across failed writes and reconnections.
MidiInOrder ==
  /\ \A j, k \in DOMAIN sent :
       j < k /\ (sent[j] \in taken <=> sent[k] \in taken) => sent[j] < sent[k]
  /\ \A m \in (taken \cup ported) \ lost :
       \/ fast = "write" /\ m = midiMsg_
       \/ \E q \in {sent, m_midiOutQueue, port} : \E k \in DOMAIN q : q[k] = m

\* A dirty display does not stay so: it is sent, or given up after
\* kMaxSendFrameRetries failures, while the device is connected.
DirtyIsServed == \A d \in Displays : dirty[d] ~> (~dirty[d] \/ scan # "up")

\* A queued message is written or fails while the device is connected, however
\* long the displays take.
MidiIsSent ==
  \A m \in 1..MaxOps :
    (\E q \in {m_midiOutQueue, port} : \E k \in DOMAIN q : q[k] = m)
      ~> (scan # "up" \/ m \in lost \/ \E k \in DOMAIN sent : sent[k] = m)
==============================================================================
