------------------------ MODULE RTSafeEventDistributor ------------------------
(***************************************************************************)
(* RTSafeEventDistributor (inc/cabl/threading/RTSafeEventDistributor.h):   *)
(* the RT thread notifies its observers of every event and queues it for   *)
(* the UI thread, which may send events back.  Both queues are             *)
(* LockFreeQueues, whose calls take effect in one step (LockFreeQueue      *)
(* implements BoundedFifo).  An event is the number of its dispatch on the *)
(* RT thread, 0 before that.                                               *)
(***************************************************************************)
EXTENDS Integers, Sequences, FiniteSets

CONSTANTS RTObservers, UIObservers,
          Priority,              \* getPriority() of each RT observer
          QueueCapacity,         \* queueCapacity()
          MaxUIEventsPerCall, MaxRTEventsPerCall,
          Durations,             \* what the clock may measure
          MaxEvents,             \* events dispatched on the RT thread
          MaxStarts              \* calls of initialize()

ASSUME PriorityAssumption == Priority \in [RTObservers -> Int]
ASSUME BoundsAssumption ==
  /\ QueueCapacity \in Nat \ {0}
  /\ MaxUIEventsPerCall \in Nat \ {0} /\ MaxRTEventsPerCall \in Nat \ {0}
  /\ Durations \subseteq Nat /\ MaxEvents \in Nat /\ MaxStarts \in Nat

VARIABLES
  m_rtObservers, m_uiObservers,     \* a sequence by priority, a set
  m_rtToUiQueue, m_uiToRtQueue,
  m_rtEventsProcessed, m_uiEventsProcessed, m_rtEventsDropped,
  m_maxRTProcessingTimeUs, m_lastRTProcessingTimeUs,
  m_initialized,
  rt,            \* the RT thread: pc, the event, the observers left, the call
  ui,            \* the UI thread: pc, the event, the observers left, the call
  dispatched,    \* events dispatched so far
  seenBy,        \* per RT observer: the last event it has handled
  starts,        \* calls of initialize() so far
  carried,       \* events in the queue when initialize() was called
  before,        \* dispatched when initialize() was called
  wasReset       \* resetStatistics() has been called since

observerVars == <<m_rtObservers, m_uiObservers>>
queueVars    == <<m_rtToUiQueue, m_uiToRtQueue>>
countVars    == <<m_rtEventsProcessed, m_uiEventsProcessed, m_rtEventsDropped>>
timeVars     == <<m_maxRTProcessingTimeUs, m_lastRTProcessingTimeUs>>
historyVars  == <<dispatched, seenBy, starts, carried, before, wasReset>>
vars == <<observerVars, queueVars, countVars, timeVars, m_initialized, rt, ui,
          historyVars>>

Idle == [pc |-> "idle", event |-> 0, left |-> << >>, count |-> 0,
         draining |-> FALSE, time |-> 0]

Init ==
  /\ m_rtObservers = << >> /\ m_uiObservers = {}
  /\ m_rtToUiQueue = << >> /\ m_uiToRtQueue = << >>
  /\ m_rtEventsProcessed = 0 /\ m_uiEventsProcessed = 0 /\ m_rtEventsDropped = 0
  /\ m_maxRTProcessingTimeUs = 0 /\ m_lastRTProcessingTimeUs = 0
  /\ m_initialized = FALSE
  /\ rt = Idle /\ ui = Idle
  /\ dispatched = 0 /\ seenBy = [o \in RTObservers |-> 0]
  /\ starts = 0 /\ carried = 0 /\ before = 0 /\ wasReset = FALSE

Full(queue) == Len(queue) = QueueCapacity
------------------------------------------------------------------------------
(***************************************************************************)
(* Startup and shutdown, while neither thread is inside the distributor.   *)
(* The queues keep what they hold.                                         *)
(***************************************************************************)
Quiet == rt.pc = "idle" /\ ui.pc = "idle"

Initialize ==
  /\ Quiet /\ starts < MaxStarts
  /\ starts' = starts + 1
  /\ m_rtObservers' = << >> /\ m_uiObservers' = {}
  /\ m_rtEventsProcessed' = 0 /\ m_uiEventsProcessed' = 0 /\ m_rtEventsDropped' = 0
  /\ m_maxRTProcessingTimeUs' = 0 /\ m_lastRTProcessingTimeUs' = 0
  /\ m_initialized' = TRUE
  /\ carried' = Len(m_rtToUiQueue) /\ before' = dispatched /\ wasReset' = FALSE
  /\ UNCHANGED <<queueVars, rt, ui, dispatched, seenBy>>

Shutdown ==
  /\ Quiet /\ m_initialized
  /\ m_initialized' = FALSE
  /\ m_rtObservers' = << >> /\ m_uiObservers' = {}
  /\ UNCHANGED <<queueVars, countVars, timeVars, rt, ui, historyVars>>

RTObserverSet == {m_rtObservers[i] : i \in DOMAIN m_rtObservers}

\* Observers are added at startup, before any event.
Startup == Quiet /\ dispatched = before

\* std::sort by priority leaves observers of the same priority in any order.
AddRTObserver(o) ==
  /\ Startup /\ o \notin RTObserverSet
  /\ m_rtObservers' \in
       {s \in [1..Len(m_rtObservers) + 1 -> RTObserverSet \cup {o}] :
          \A i, j \in DOMAIN s :
            i < j => s[i] # s[j] /\ Priority[s[i]] >= Priority[s[j]]}
  /\ UNCHANGED <<m_uiObservers, queueVars, countVars, timeVars, m_initialized,
                 rt, ui, historyVars>>

AddUIObserver(o) ==
  /\ Startup /\ o \notin m_uiObservers
  /\ m_uiObservers' = m_uiObservers \cup {o}
  /\ UNCHANGED <<m_rtObservers, queueVars, countVars, timeVars, m_initialized,
                 rt, ui, historyVars>>
------------------------------------------------------------------------------
(***************************************************************************)
(* The RT thread                                                           *)
(***************************************************************************)
\* Everything but the RT thread's own place and the named groups.
RTKeeps == UNCHANGED <<observerVars, m_initialized, ui, starts, carried, before,
                       wasReset>>

\* notifyRTObservers() with an event of the RT thread's own.
Notify ==
  /\ rt.pc = "idle" /\ m_initialized
  /\ dispatched + Len(m_uiToRtQueue) < MaxEvents
  /\ dispatched' = dispatched + 1
  /\ rt' = [rt EXCEPT !.pc = "observe", !.event = dispatched + 1,
                      !.left = m_rtObservers]
  /\ RTKeeps /\ UNCHANGED <<queueVars, countVars, timeVars, seenBy>>

\* processRTEvents()
ProcessRTEvents ==
  /\ rt.pc = "idle" /\ m_initialized
  /\ rt' = [rt EXCEPT !.pc = "drain", !.count = 0, !.draining = TRUE]
  /\ RTKeeps /\ UNCHANGED <<queueVars, countVars, timeVars, dispatched, seenBy>>

RTDrainNone ==   \* mutant: the bound is reached before the first event
  /\ rt.pc = "drain" /\ rt' = Idle
  /\ RTKeeps /\ UNCHANGED <<queueVars, countVars, timeVars, dispatched, seenBy>>

RTDrain ==
  /\ rt.pc = "drain"
  /\ \/ /\ rt.count < MaxRTEventsPerCall /\ m_uiToRtQueue # << >>
        /\ m_uiToRtQueue' = Tail(m_uiToRtQueue)
        /\ dispatched' = dispatched + 1
        /\ rt' = [rt EXCEPT !.pc = "observe", !.event = dispatched + 1,
                            !.left = m_rtObservers, !.count = @ + 1]
     \/ /\ rt.count = MaxRTEventsPerCall \/ m_uiToRtQueue = << >>
        /\ rt' = Idle
        /\ UNCHANGED <<m_uiToRtQueue, dispatched>>
  /\ RTKeeps /\ UNCHANGED <<m_rtToUiQueue, countVars, timeVars, seenBy>>

RTObserve ==
  /\ rt.pc = "observe" /\ rt.left # << >>
  /\ seenBy' = [seenBy EXCEPT ![Head(rt.left)] = rt.event]
  /\ rt' = [rt EXCEPT !.left = Tail(@)]
  /\ RTKeeps /\ UNCHANGED <<queueVars, countVars, timeVars, dispatched>>

RTEnqueueEarly ==   \* mutant: the event is queued before it is observed
  /\ rt.pc = "observe" /\ ~Full(m_rtToUiQueue)
  /\ m_rtToUiQueue' = Append(m_rtToUiQueue, rt.event)
  /\ rt' = [rt EXCEPT !.pc = "count"]
  /\ RTKeeps
  /\ UNCHANGED <<m_uiToRtQueue, countVars, timeVars, dispatched, seenBy>>

RTEnqueue ==
  /\ rt.pc = "observe" /\ rt.left = << >> /\ ~Full(m_rtToUiQueue)
  /\ m_rtToUiQueue' = Append(m_rtToUiQueue, rt.event)
  /\ rt' = [rt EXCEPT !.pc = "count"]
  /\ RTKeeps
  /\ UNCHANGED <<m_uiToRtQueue, countVars, timeVars, dispatched, seenBy>>

RTDropUncounted ==   \* mutant: a full queue is not counted
  /\ rt.pc = "observe" /\ rt.left = << >> /\ Full(m_rtToUiQueue)
  /\ rt' = [rt EXCEPT !.pc = "count"]
  /\ RTKeeps /\ UNCHANGED <<queueVars, countVars, timeVars, dispatched, seenBy>>

\* The queue was full when enqueue() looked.
RTDrop ==
  /\ rt.pc = "observe" /\ rt.left = << >> /\ Full(m_rtToUiQueue)
  /\ m_rtEventsDropped' = m_rtEventsDropped + 1
  /\ rt' = [rt EXCEPT !.pc = "count"]
  /\ RTKeeps
  /\ UNCHANGED <<queueVars, m_rtEventsProcessed, m_uiEventsProcessed, timeVars,
                 dispatched, seenBy>>

RTCount ==
  /\ rt.pc = "count"
  /\ m_rtEventsProcessed' = m_rtEventsProcessed + 1
  /\ \E d \in Durations : rt' = [rt EXCEPT !.pc = "last", !.time = d]
  /\ RTKeeps
  /\ UNCHANGED <<queueVars, m_uiEventsProcessed, m_rtEventsDropped, timeVars,
                 dispatched, seenBy>>

RTLast ==
  /\ rt.pc = "last"
  /\ m_lastRTProcessingTimeUs' = rt.time
  /\ rt' = [rt EXCEPT !.pc = "max"]
  /\ RTKeeps
  /\ UNCHANGED <<queueVars, countVars, m_maxRTProcessingTimeUs, dispatched, seenBy>>

\* The exchange succeeds against the value it read, so that the loop is one step.
RTMax ==
  /\ rt.pc = "max"
  /\ m_maxRTProcessingTimeUs' =
       IF rt.time > m_maxRTProcessingTimeUs THEN rt.time ELSE m_maxRTProcessingTimeUs
  /\ rt' = IF rt.draining
             THEN [Idle EXCEPT !.pc = "drain", !.count = rt.count, !.draining = TRUE]
             ELSE Idle
  /\ RTKeeps
  /\ UNCHANGED <<queueVars, countVars, m_lastRTProcessingTimeUs, dispatched, seenBy>>

RTWork == RTDrain \/ RTObserve \/ RTEnqueue \/ RTDrop \/ RTCount \/ RTLast \/ RTMax
------------------------------------------------------------------------------
(***************************************************************************)
(* The UI thread                                                           *)
(***************************************************************************)
UIKeeps == UNCHANGED <<observerVars, m_initialized, rt, dispatched, seenBy,
                       starts, carried, before, m_rtEventsDropped>>

ProcessUIEvents ==
  /\ ui.pc = "idle" /\ m_initialized
  /\ ui' = [ui EXCEPT !.pc = "drain", !.count = 0]
  /\ UIKeeps
  /\ UNCHANGED <<queueVars, m_rtEventsProcessed, m_uiEventsProcessed, timeVars,
                 wasReset>>

UIDrainLast ==   \* mutant: an event alone in the queue is left there
  /\ ui.pc = "drain"
  /\ \/ /\ ui.count < MaxUIEventsPerCall /\ Len(m_rtToUiQueue) > 1
        /\ m_rtToUiQueue' = Tail(m_rtToUiQueue)
        /\ ui' = [ui EXCEPT !.pc = "observe", !.event = Head(m_rtToUiQueue)]
     \/ /\ ui.count = MaxUIEventsPerCall \/ Len(m_rtToUiQueue) <= 1
        /\ ui' = [ui EXCEPT !.pc = "idle", !.count = 0]
        /\ UNCHANGED m_rtToUiQueue
  /\ UIKeeps
  /\ UNCHANGED <<m_uiToRtQueue, m_rtEventsProcessed, m_uiEventsProcessed,
                 timeVars, wasReset>>

\* Whether there is another event to take.
UIDrain ==
  /\ ui.pc = "drain"
  /\ \/ /\ ui.count < MaxUIEventsPerCall /\ m_rtToUiQueue # << >>
        /\ m_rtToUiQueue' = Tail(m_rtToUiQueue)
        /\ ui' = [ui EXCEPT !.pc = "observe", !.event = Head(m_rtToUiQueue)]
     \/ /\ ui.count = MaxUIEventsPerCall \/ m_rtToUiQueue = << >>
        /\ ui' = [ui EXCEPT !.pc = "idle", !.count = 0]
        /\ UNCHANGED m_rtToUiQueue
  /\ UIKeeps
  /\ UNCHANGED <<m_uiToRtQueue, m_rtEventsProcessed, m_uiEventsProcessed,
                 timeVars, wasReset>>

\* The UI observers, and the counters.
UIObserve ==
  /\ ui.pc = "observe"
  /\ m_uiEventsProcessed' = m_uiEventsProcessed + 1
  /\ ui' = [ui EXCEPT !.pc = "drain", !.event = 0, !.count = @ + 1]
  /\ UIKeeps /\ UNCHANGED <<queueVars, m_rtEventsProcessed, timeVars, wasReset>>

\* sendToRTThread(), which refuses the event when its queue is full; events on
\* their way count towards MaxEvents.
SendToRTThread ==
  /\ ui.pc = "idle" /\ m_initialized /\ ~Full(m_uiToRtQueue)
  /\ dispatched + Len(m_uiToRtQueue) < MaxEvents
  /\ m_uiToRtQueue' = Append(m_uiToRtQueue, 0)
  /\ UIKeeps
  /\ UNCHANGED <<m_rtToUiQueue, ui, m_rtEventsProcessed, m_uiEventsProcessed,
                 timeVars, wasReset>>

ResetStatistics ==
  /\ ui.pc = "idle"
  /\ m_rtEventsProcessed' = 0 /\ m_uiEventsProcessed' = 0 /\ m_rtEventsDropped' = 0
  /\ wasReset' = TRUE
  /\ ui' = [ui EXCEPT !.pc = "resetmax"]
  /\ UNCHANGED <<observerVars, queueVars, timeVars, m_initialized, rt, dispatched,
                 seenBy, starts, carried, before>>

ResetTimes ==
  /\ \/ /\ ui.pc = "resetmax" /\ m_maxRTProcessingTimeUs' = 0
        /\ ui' = [ui EXCEPT !.pc = "resetlast"]
        /\ UNCHANGED m_lastRTProcessingTimeUs
     \/ /\ ui.pc = "resetlast" /\ m_lastRTProcessingTimeUs' = 0
        /\ ui' = [ui EXCEPT !.pc = "idle"]
        /\ UNCHANGED m_maxRTProcessingTimeUs
  /\ UIKeeps
  /\ UNCHANGED <<queueVars, m_rtEventsProcessed, m_uiEventsProcessed, wasReset>>

UIWork == UIDrain \/ UIObserve \/ ResetTimes
------------------------------------------------------------------------------
Setup == \/ Initialize \/ Shutdown
         \/ \E o \in RTObservers : AddRTObserver(o)
         \/ \E o \in UIObservers : AddUIObserver(o)

Next == Setup \/ Notify \/ ProcessRTEvents \/ RTWork
          \/ ProcessUIEvents \/ UIWork \/ SendToRTThread \/ ResetStatistics

Spec == Init /\ [][Next]_vars

\* Each thread goes on with what it does, and comes back to drain its queue.
FairSpec == Spec /\ WF_vars(RTWork) /\ WF_vars(UIWork)
                 /\ SF_vars(ProcessUIEvents) /\ SF_vars(ProcessRTEvents)
------------------------------------------------------------------------------
RTPlaces == {"idle", "drain", "observe", "count", "last", "max"}
UIPlaces == {"idle", "drain", "observe", "resetmax", "resetlast"}

\* Every variable keeps its type; no queue exceeds its capacity and no call
\* drains more than its bound.
TypeOK ==
  /\ m_rtObservers \in Seq(RTObservers) /\ m_uiObservers \subseteq UIObservers
  /\ m_rtToUiQueue \in Seq(1..MaxEvents) /\ Len(m_rtToUiQueue) <= QueueCapacity
  /\ m_uiToRtQueue \in Seq({0}) /\ Len(m_uiToRtQueue) <= QueueCapacity
  /\ {m_rtEventsProcessed, m_uiEventsProcessed, m_rtEventsDropped} \subseteq 0..MaxEvents
  /\ {m_maxRTProcessingTimeUs, m_lastRTProcessingTimeUs} \subseteq Durations \cup {0}
  /\ rt.pc \in RTPlaces /\ rt.count \in 0..MaxRTEventsPerCall
  /\ ui.pc \in UIPlaces /\ ui.count \in 0..MaxUIEventsPerCall
  /\ rt.left \in Seq(RTObservers) /\ dispatched \in 0..MaxEvents
  /\ starts \in 0..MaxStarts /\ m_initialized \in BOOLEAN

One(b) == IF b THEN 1 ELSE 0

\* The identity of test/threading/RTSafeEventDistributor.cpp (concurrent
\* producer and consumer), at every moment and not only at the end: what has been
\* dispatched, or was in the queue before, is delivered, dropped, queued or in
\* the hands of one of the threads.
EveryEventIsAccounted ==
  m_initialized /\ ~wasReset =>
    carried + m_rtEventsProcessed + One(rt.pc = "count")
      = m_uiEventsProcessed + m_rtEventsDropped + Len(m_rtToUiQueue)
          + One(ui.pc = "observe")

AtUI == {m_rtToUiQueue[i] : i \in DOMAIN m_rtToUiQueue}
          \cup (IF ui.pc = "observe" THEN {ui.event} ELSE {})

\* An event is in the UI's queue, or with its observers, only when every RT
\* observer has handled it.
ObservedBeforeQueued ==
  \A e \in AtUI : e > before => \A o \in RTObserverSet : seenBy[o] >= e

\* Of two RT observers the one with the higher priority is never behind.
HigherPriorityFirst ==
  \A o, p \in RTObserverSet :
    Priority[o] > Priority[p] /\ seenBy[p] > before => seenBy[o] >= seenBy[p]

\* The greatest time is no less than the last, whenever no thread is writing
\* them: a reset that races an event does not leave the two at odds.
MaxCoversLast ==
  rt.pc # "max" /\ ui.pc # "resetlast" =>
    m_lastRTProcessingTimeUs <= m_maxRTProcessingTimeUs

\* What a UI observer is told was observed by the RT observers before, and they were told in
\* the order of their priorities: no event overtakes another on its way.
ObservedInOrder == ObservedBeforeQueued /\ HigherPriorityFirst

\* The counters agree with what happened, and with each other.
CountersAgree == TypeOK /\ EveryEventIsAccounted /\ MaxCoversLast

\* What has been queued reaches the UI observers, unless it is shut down.
QueuedIsDelivered ==
  \A e \in 1..MaxEvents :
    e \in AtUI ~> e \notin AtUI \/ ~m_initialized

\* What the UI thread has sent reaches the RT observers, unless it is shut down.
SentIsDispatched ==
  m_uiToRtQueue # << >> ~> (rt.draining /\ rt.pc = "observe") \/ ~m_initialized
===============================================================================
