--------------------- MODULE RTSafeEventDistributorProofs ---------------------
(***************************************************************************)
(* Proofs about RTSafeEventDistributor for every set of observers, every   *)
(* capacity of its queues and any number of events and restarts.           *)
(***************************************************************************)
EXTENDS RTSafeEventDistributor, SequenceTheorems, TLAPS

(***************************************************************************)
(* The inductive invariant, part one: the types, and what the counters add *)
(* up to.  Each counts events that have been dispatched, none of them      *)
(* twice, also when they are reset in the midst of an event.               *)
(***************************************************************************)
RTStates == [pc : RTPlaces, event : 0 .. MaxEvents, left : Seq(RTObservers),
             count : 0 .. MaxRTEventsPerCall, draining : BOOLEAN, time : Durations \cup {0}]
UIStates == [pc : UIPlaces, event : 0 .. MaxEvents, left : {<< >>},
             count : 0 .. MaxUIEventsPerCall, draining : {FALSE}, time : {0}]

\* The UI thread observes an event only while it may take one more.
UIBound == ui.pc = "observe" => ui.count < MaxUIEventsPerCall

Queues == /\ m_rtToUiQueue \in Seq(1 .. MaxEvents) /\ Len(m_rtToUiQueue) <= QueueCapacity
          /\ m_uiToRtQueue \in Seq({0}) /\ Len(m_uiToRtQueue) <= QueueCapacity

Observers == /\ m_rtObservers \in Seq(RTObservers) /\ m_uiObservers \subseteq UIObservers
             /\ seenBy \in [RTObservers -> Nat]

Numbers ==
  /\ m_rtEventsProcessed \in Nat /\ m_uiEventsProcessed \in Nat /\ m_rtEventsDropped \in Nat
  /\ m_maxRTProcessingTimeUs \in Durations \cup {0}
  /\ m_lastRTProcessingTimeUs \in Durations \cup {0}
  /\ dispatched \in Nat /\ carried \in Nat /\ before \in Nat
  /\ starts \in 0 .. MaxStarts /\ m_initialized \in BOOLEAN

Types == rt \in RTStates /\ ui \in UIStates /\ UIBound /\ Queues /\ Observers /\ Numbers

CountsAreCovered ==
  /\ dispatched + Len(m_uiToRtQueue) <= MaxEvents
  /\ m_rtEventsProcessed + One(rt.pc \in {"observe", "count"}) <= dispatched
  /\ m_rtEventsDropped + One(rt.pc = "observe") <= dispatched
  /\ m_uiEventsProcessed + One(ui.pc = "observe") + Len(m_rtToUiQueue)
       + One(rt.pc = "observe") <= dispatched
  /\ rt.pc = "observe" => rt.event = dispatched

\* On its way into the greatest time, a time is in the thread's hands.
TimesAreCovered == /\ rt.pc = "max" => m_lastRTProcessingTimeUs <= rt.time
                   /\ MaxCoversLast

CInv == Types /\ CountsAreCovered /\ EveryEventIsAccounted /\ TimesAreCovered

\* The lengths of the queues are numbers, and a queue that is not empty has one event.
LEMMA QueueLengths ==
  ASSUME Queues
  PROVE  /\ Len(m_rtToUiQueue) \in Nat /\ Len(m_uiToRtQueue) \in Nat
         /\ m_rtToUiQueue # << >> =>
              /\ Len(m_rtToUiQueue) >= 1 /\ Head(m_rtToUiQueue) \in 1 .. MaxEvents
              /\ Tail(m_rtToUiQueue) \in Seq(1 .. MaxEvents)
              /\ Len(Tail(m_rtToUiQueue)) = Len(m_rtToUiQueue) - 1
         /\ m_uiToRtQueue # << >> =>
              /\ Len(m_uiToRtQueue) >= 1 /\ Tail(m_uiToRtQueue) \in Seq({0})
              /\ Len(Tail(m_uiToRtQueue)) = Len(m_uiToRtQueue) - 1
         /\ \A e \in 1 .. MaxEvents :
              /\ Append(m_rtToUiQueue, e) \in Seq(1 .. MaxEvents)
              /\ Len(Append(m_rtToUiQueue, e)) = Len(m_rtToUiQueue) + 1
         /\ Append(m_uiToRtQueue, 0) \in Seq({0})
         /\ Len(Append(m_uiToRtQueue, 0)) = Len(m_uiToRtQueue) + 1
<1>1. m_rtToUiQueue \in Seq(1 .. MaxEvents) /\ m_uiToRtQueue \in Seq({0})
  BY DEF Queues
<1>2. Len(m_rtToUiQueue) \in Nat /\ Len(m_uiToRtQueue) \in Nat
  BY <1>1, LenProperties
<1>3. ASSUME m_rtToUiQueue # << >>
      PROVE  /\ Len(m_rtToUiQueue) >= 1 /\ Head(m_rtToUiQueue) \in 1 .. MaxEvents
             /\ Tail(m_rtToUiQueue) \in Seq(1 .. MaxEvents)
             /\ Len(Tail(m_rtToUiQueue)) = Len(m_rtToUiQueue) - 1
  <2>1. /\ Head(m_rtToUiQueue) \in 1 .. MaxEvents
        /\ Tail(m_rtToUiQueue) \in Seq(1 .. MaxEvents)
        /\ Len(Tail(m_rtToUiQueue)) = Len(m_rtToUiQueue) - 1
    BY <1>1, <1>3, HeadTailProperties, Zenon
  <2>2. Len(m_rtToUiQueue) # 0
    BY <1>1, <1>3, EmptySeq
  <2>3. QED
    BY <1>2, <2>1, <2>2
<1>4. m_uiToRtQueue # << >> =>
        /\ Len(m_uiToRtQueue) >= 1 /\ Tail(m_uiToRtQueue) \in Seq({0})
        /\ Len(Tail(m_uiToRtQueue)) = Len(m_uiToRtQueue) - 1
  BY <1>1, <1>2, HeadTailProperties, EmptySeq
<1>5. \A e \in 1 .. MaxEvents :
        /\ Append(m_rtToUiQueue, e) \in Seq(1 .. MaxEvents)
        /\ Len(Append(m_rtToUiQueue, e)) = Len(m_rtToUiQueue) + 1
  BY <1>1, AppendProperties
<1>6. /\ Append(m_uiToRtQueue, 0) \in Seq({0})
      /\ Len(Append(m_uiToRtQueue, 0)) = Len(m_uiToRtQueue) + 1
  BY <1>1, AppendProperties
<1>7. QED
  BY <1>2, <1>3, <1>4, <1>5, <1>6

\* The invariant holds at the start, when nothing has been counted.
LEMMA InitCInv == Init => CInv
<1> SUFFICES ASSUME Init PROVE CInv
  OBVIOUS
<1> USE BoundsAssumption DEF Init, Idle
<1>1. rt \in RTStates /\ ui \in UIStates /\ UIBound
  BY EmptySeq DEF RTStates, UIStates, RTPlaces, UIPlaces, UIBound
<1>2. Queues /\ Len(m_rtToUiQueue) = 0 /\ Len(m_uiToRtQueue) = 0
  BY EmptySeq DEF Queues
<1>3. Observers /\ Numbers
  <2>1. Observers
    BY EmptySeq DEF Observers
  <2>2. starts \in 0 .. MaxStarts
    OBVIOUS
  <2>3. QED
    BY <2>1, <2>2 DEF Numbers
<1>4. CountsAreCovered /\ EveryEventIsAccounted /\ TimesAreCovered
  BY <1>2 DEF CountsAreCovered, EveryEventIsAccounted, TimesAreCovered, MaxCoversLast, One
<1>5. QED
  BY <1>1, <1>2, <1>3, <1>4 DEF CInv, Types

\* An event that is taken up has a number within the bound.
LEMMA Room ==
  ASSUME CInv
  PROVE  /\ m_uiToRtQueue # << >> => dispatched + 1 <= MaxEvents
         /\ dispatched \in 0 .. MaxEvents
         /\ rt.pc = "observe" => rt.event \in 1 .. MaxEvents
BY QueueLengths, BoundsAssumption DEF CInv, Types, Numbers, CountsAreCovered, One

\* Every step keeps the RT thread's state.
LEMMA RTStep == CInv /\ [Next]_vars => rt' \in RTStates
<1> SUFFICES ASSUME CInv, [Next]_vars PROVE rt' \in RTStates
  OBVIOUS
<1>0. /\ rt \in RTStates /\ m_rtObservers \in Seq(RTObservers)
      /\ dispatched \in 0 .. MaxEvents /\ Len(m_uiToRtQueue) \in Nat
      /\ m_uiToRtQueue # << >> => dispatched + 1 <= MaxEvents
  BY Room, QueueLengths DEF CInv, Types, Observers
<1>a. /\ 0 \in 0 .. MaxRTEventsPerCall /\ 0 \in Durations \cup {0}
      /\ \A n \in 0 .. MaxRTEventsPerCall :
           n < MaxRTEventsPerCall => n + 1 \in 0 .. MaxRTEventsPerCall
      /\ \A n \in 0 .. MaxEvents : n + 1 <= MaxEvents => n + 1 \in 0 .. MaxEvents
      /\ \A n \in 0 .. MaxEvents, l \in Nat : n + l < MaxEvents => n + 1 \in 0 .. MaxEvents
      /\ 0 \in 0 .. MaxEvents /\ << >> \in Seq(RTObservers)
  BY BoundsAssumption, EmptySeq
<1> USE <1>0, <1>a DEF RTStates, RTPlaces, Idle
<1>1. CASE Notify
  BY <1>1 DEF Notify
<1>2. CASE ProcessRTEvents
  BY <1>2 DEF ProcessRTEvents
<1>3. CASE RTDrain
  <2>1. CASE rt' = Idle
    BY <2>1
  <2>2. CASE /\ rt.count < MaxRTEventsPerCall /\ m_uiToRtQueue # << >>
             /\ rt' = [rt EXCEPT !.pc = "observe", !.event = dispatched + 1,
                                 !.left = m_rtObservers, !.count = @ + 1]
    BY <2>2
  <2>3. QED
    BY <1>3, <2>1, <2>2 DEF RTDrain
<1>4. CASE RTObserve
  BY <1>4, HeadTailProperties DEF RTObserve
<1>5. CASE RTEnqueue
  BY <1>5 DEF RTEnqueue
<1>6. CASE RTDrop
  BY <1>6 DEF RTDrop
<1>7. CASE RTCount
  BY <1>7 DEF RTCount
<1>8. CASE RTLast
  BY <1>8 DEF RTLast
<1>9. CASE RTMax
  BY <1>9 DEF RTMax
<1>10. CASE UNCHANGED rt
  BY <1>10
<1>11. QED
  BY <1>1, <1>2, <1>3, <1>4, <1>5, <1>6, <1>7, <1>8, <1>9, <1>10
     DEF Next, Setup, RTWork, UIWork, Initialize, Shutdown, AddRTObserver, AddUIObserver,
         ProcessUIEvents, UIDrain, UIObserve, ResetTimes, SendToRTThread, ResetStatistics,
         UIKeeps, vars

\* Every step keeps the UI thread's state.
LEMMA UIStep == CInv /\ [Next]_vars => ui' \in UIStates /\ UIBound'
<1> SUFFICES ASSUME CInv, [Next]_vars PROVE ui' \in UIStates /\ UIBound'
  OBVIOUS
<1>0. /\ ui \in UIStates /\ UIBound
      /\ m_rtToUiQueue # << >> => Head(m_rtToUiQueue) \in 1 .. MaxEvents
  BY QueueLengths DEF CInv, Types
<1>a. /\ 0 \in 0 .. MaxUIEventsPerCall /\ 0 \in 0 .. MaxEvents
      /\ \A n \in 1 .. MaxEvents : n \in 0 .. MaxEvents
      /\ \A n \in 0 .. MaxUIEventsPerCall :
           n < MaxUIEventsPerCall => n + 1 \in 0 .. MaxUIEventsPerCall
      /\ \A n \in 0 .. MaxUIEventsPerCall : n # MaxUIEventsPerCall => n < MaxUIEventsPerCall
  BY BoundsAssumption
<1> USE <1>0, <1>a DEF UIStates, UIPlaces, UIBound
<1>1. CASE ProcessUIEvents
  BY <1>1 DEF ProcessUIEvents
<1>2. CASE UIDrain
  BY <1>2 DEF UIDrain
<1>3. CASE UIObserve
  BY <1>3 DEF UIObserve
<1>4. CASE ResetTimes
  BY <1>4 DEF ResetTimes
<1>5. CASE ResetStatistics
  BY <1>5 DEF ResetStatistics
<1>6. CASE UNCHANGED ui
  BY <1>6
<1>7. QED
  BY <1>1, <1>2, <1>3, <1>4, <1>5, <1>6
     DEF Next, Setup, RTWork, UIWork, Initialize, Shutdown, AddRTObserver, AddUIObserver,
         Notify, ProcessRTEvents, RTDrain, RTObserve, RTEnqueue, RTDrop, RTCount, RTLast,
         RTMax, SendToRTThread, RTKeeps, UIKeeps, vars

\* Every step keeps the queues within their capacity.
LEMMA QueuesStep == CInv /\ [Next]_vars => Queues'
<1> SUFFICES ASSUME CInv, [Next]_vars PROVE Queues'
  OBVIOUS
<1>0. Queues /\ QueueCapacity \in Nat
  BY BoundsAssumption DEF CInv, Types
<1>1. CASE RTDrain
  BY <1>0, <1>1, QueueLengths DEF RTDrain, Queues
<1>2. CASE RTEnqueue
  BY <1>0, <1>2, QueueLengths, Room DEF RTEnqueue, Queues, Full
<1>3. CASE UIDrain
  <2>1. CASE m_rtToUiQueue # << >> /\ m_rtToUiQueue' = Tail(m_rtToUiQueue)
    <3>1. /\ m_rtToUiQueue' \in Seq(1 .. MaxEvents) /\ Len(m_rtToUiQueue) \in Nat
          /\ Len(m_rtToUiQueue') = Len(m_rtToUiQueue) - 1
      BY <1>0, <2>1, QueueLengths
    <3>2. UNCHANGED m_uiToRtQueue
      BY <1>3 DEF UIDrain
    <3>3. QED
      BY <1>0, <3>1, <3>2 DEF Queues
  <2>2. CASE UNCHANGED m_rtToUiQueue
    BY <1>0, <1>3, <2>2 DEF UIDrain, Queues
  <2>3. QED
    BY <1>3, <2>1, <2>2 DEF UIDrain
<1>4. CASE SendToRTThread
  BY <1>0, <1>4, QueueLengths DEF SendToRTThread, Queues, Full
<1>5. CASE UNCHANGED queueVars
  BY <1>0, <1>5 DEF queueVars, Queues
<1>6. QED
  BY <1>1, <1>2, <1>3, <1>4, <1>5
     DEF Next, Setup, RTWork, UIWork, Initialize, Shutdown, AddRTObserver, AddUIObserver,
         Notify, ProcessRTEvents, RTObserve, RTDrop, RTCount, RTLast, RTMax, ProcessUIEvents,
         UIObserve, ResetTimes, ResetStatistics, queueVars, vars

\* The observers of the RT thread, in the order of std::sort: all of them, none twice.
LEMMA ObserversStep == CInv /\ [Next]_vars => Observers'
<1> SUFFICES ASSUME CInv, [Next]_vars PROVE Observers'
  OBVIOUS
<1>0. Observers /\ rt \in RTStates
  BY DEF CInv, Types
<1> USE <1>0 DEF Observers
<1>1. CASE Initialize
  BY <1>1, EmptySeq DEF Initialize
<1>2. CASE Shutdown
  BY <1>2, EmptySeq DEF Shutdown, historyVars
<1>3. ASSUME NEW o \in RTObservers, AddRTObserver(o) PROVE Observers'
  <2>1. RTObserverSet \cup {o} \subseteq RTObservers
    BY ElementOfSeq, LenProperties DEF RTObserverSet
  <2>2. Len(m_rtObservers) + 1 \in Nat
    BY LenProperties
  <2>3. m_rtObservers' \in [1 .. Len(m_rtObservers) + 1 -> RTObservers]
    BY <1>3, <2>1 DEF AddRTObserver
  <2>4. m_rtObservers' \in Seq(RTObservers)
    BY <2>2, <2>3, SeqDef
  <2>5. QED
    BY <1>3, <2>4 DEF AddRTObserver, historyVars
<1>4. ASSUME NEW o \in UIObservers, AddUIObserver(o) PROVE Observers'
  BY <1>4 DEF AddUIObserver, historyVars
<1>5. CASE RTObserve
  <2>1. seenBy' \in [RTObservers -> Nat]
    BY <1>5 DEF RTObserve, RTStates
  <2>2. QED
    BY <1>5, <2>1 DEF RTObserve, RTKeeps, observerVars
<1>6. CASE UNCHANGED <<observerVars, seenBy>>
  BY <1>6 DEF observerVars
<1>7. QED
  BY <1>1, <1>2, <1>3, <1>4, <1>5, <1>6
     DEF Next, Setup, RTWork, UIWork, Notify, ProcessRTEvents, RTDrain, RTEnqueue, RTDrop,
         RTCount, RTLast, RTMax, ProcessUIEvents, UIDrain, UIObserve, ResetTimes,
         SendToRTThread, ResetStatistics, RTKeeps, UIKeeps, historyVars, observerVars, vars

\* Every step keeps the numbers.
LEMMA NumbersStep == CInv /\ [Next]_vars => Numbers'
<1> SUFFICES ASSUME CInv, [Next]_vars PROVE Numbers'
  OBVIOUS
<1>0. /\ Numbers /\ Len(m_rtToUiQueue) \in Nat /\ rt.time \in Durations \cup {0}
      /\ MaxStarts \in Nat
  BY QueueLengths, BoundsAssumption DEF CInv, Types, RTStates
<1> USE <1>0 DEF Numbers, timeVars, historyVars, RTKeeps, UIKeeps
<1>1. CASE Initialize
  BY <1>1 DEF Initialize
<1>2. CASE Shutdown
  BY <1>2 DEF Shutdown, countVars
<1>3. CASE Notify \/ RTDrain
  BY <1>3 DEF Notify, RTDrain, countVars
<1>4. CASE RTDrop \/ RTCount
  <2>1. CASE RTDrop
    BY <2>1 DEF RTDrop
  <2>2. CASE RTCount
    BY <2>2 DEF RTCount
  <2>3. QED
    BY <1>4, <2>1, <2>2
<1>5. CASE RTLast \/ RTMax
  BY <1>5 DEF RTLast, RTMax, countVars
<1>6. CASE UIObserve \/ ResetTimes \/ ResetStatistics
  BY <1>6 DEF UIObserve, ResetTimes, ResetStatistics
<1>7. CASE UNCHANGED <<countVars, timeVars, dispatched, starts, carried, before, m_initialized>>
  BY <1>7 DEF countVars
<1>8. QED
  BY <1>1, <1>2, <1>3, <1>4, <1>5, <1>6, <1>7
     DEF Next, Setup, RTWork, UIWork, AddRTObserver, AddUIObserver, ProcessRTEvents, RTObserve,
         RTEnqueue, ProcessUIEvents, UIDrain, SendToRTThread, countVars, vars

\* Every step keeps what the counters and the times add up to.
LEMMA CountsStep ==
  CInv /\ [Next]_vars => CountsAreCovered' /\ EveryEventIsAccounted' /\ TimesAreCovered'
<1> DEFINE Covered == CountsAreCovered /\ EveryEventIsAccounted /\ TimesAreCovered
<1> SUFFICES ASSUME CInv, [Next]_vars PROVE Covered'
  OBVIOUS
<1>0. /\ Len(m_rtToUiQueue) \in Nat /\ Len(m_uiToRtQueue) \in Nat
      /\ m_rtEventsProcessed \in Nat /\ m_uiEventsProcessed \in Nat /\ m_rtEventsDropped \in Nat
      /\ m_maxRTProcessingTimeUs \in Nat /\ m_lastRTProcessingTimeUs \in Nat
      /\ dispatched \in Nat /\ carried \in Nat /\ MaxEvents \in Nat /\ rt.time \in Nat
      /\ rt \in RTStates /\ ui \in UIStates /\ Covered
      /\ One(rt.pc \in {"observe", "count"}) \in {0, 1} /\ One(rt.pc = "observe") \in {0, 1}
      /\ One(rt.pc = "count") \in {0, 1} /\ One(ui.pc = "observe") \in {0, 1}
  <2>1. rt.time \in Nat
    <3>1. rt.time \in Durations \cup {0}
      BY DEF CInv, Types, RTStates
    <3>2. \A n \in Durations \cup {0} : n \in Nat
      BY BoundsAssumption
    <3>3. QED
      BY <3>1, <3>2
  <2>2. QED
    BY <2>1, BoundsAssumption, QueueLengths DEF CInv, Types, Numbers, One
<1> USE DEF CountsAreCovered, EveryEventIsAccounted, TimesAreCovered, MaxCoversLast, One,
            queueVars, countVars, timeVars
<1>1. CASE Initialize
  <2>1. /\ rt.pc = "idle" /\ ui.pc = "idle" /\ carried' = Len(m_rtToUiQueue)
        /\ m_rtEventsProcessed' = 0 /\ m_uiEventsProcessed' = 0 /\ m_rtEventsDropped' = 0
        /\ m_maxRTProcessingTimeUs' = 0 /\ m_lastRTProcessingTimeUs' = 0
        /\ UNCHANGED <<queueVars, dispatched, rt, ui>>
    BY <1>0, <1>1 DEF Initialize, Quiet
  <2>2. CountsAreCovered'
    <3>1. dispatched' + Len(m_uiToRtQueue') <= MaxEvents
      BY <1>0, <2>1
    <3>2. m_rtEventsProcessed' + One(rt'.pc \in {"observe", "count"}) <= dispatched'
      BY <1>0, <2>1
    <3>3. m_rtEventsDropped' + One(rt'.pc = "observe") <= dispatched'
      BY <1>0, <2>1
    <3>4. m_uiEventsProcessed' + One(ui'.pc = "observe") + Len(m_rtToUiQueue')
            + One(rt'.pc = "observe") <= dispatched'
      <4>1. Len(m_rtToUiQueue) <= dispatched
        BY <1>0, <2>1
      <4>2. Len(m_rtToUiQueue') <= dispatched' /\ Len(m_rtToUiQueue') \in Nat /\ dispatched' \in Nat
        BY <1>0, <2>1, <4>1
      <4>3. ui'.pc # "observe" /\ rt'.pc # "observe" /\ m_uiEventsProcessed' = 0
        BY <2>1
      <4>4. QED
        BY <4>2, <4>3
    <3>5. rt'.pc = "observe" => rt'.event = dispatched'
      BY <1>0, <2>1
    <3>6. QED
      BY <3>1, <3>2, <3>3, <3>4, <3>5
  <2>3. EveryEventIsAccounted'
    BY <1>0, <2>1
  <2>4. TimesAreCovered'
    BY <1>0, <2>1
  <2>5. QED
    BY <2>2, <2>3, <2>4
<1>2. CASE Shutdown
  <2>1. /\ m_initialized' = FALSE /\ UNCHANGED <<carried, wasReset>>
        /\ UNCHANGED <<countVars, timeVars, queueVars, dispatched, rt, ui>>
    BY <1>0, <1>2 DEF Shutdown, historyVars
  <2>2. QED
    BY <1>0, <2>1
<1>3. CASE \/ \E o \in RTObservers : AddRTObserver(o)
          \/ \E o \in UIObservers : AddUIObserver(o)
  <2>1. /\ UNCHANGED <<countVars, timeVars, queueVars, dispatched, carried,
                       wasReset, m_initialized, rt, ui>>
    BY <1>0, <1>3 DEF AddRTObserver, AddUIObserver, historyVars
  <2>2. QED
    BY <1>0, <2>1
<1>4. CASE Notify
  <2>1. /\ rt.pc = "idle" /\ rt'.pc = "observe" /\ rt'.event = dispatched'
        /\ dispatched' = dispatched + 1 /\ dispatched + Len(m_uiToRtQueue) < MaxEvents
        /\ UNCHANGED <<countVars, timeVars, queueVars, carried, wasReset, m_initialized, ui>>
    BY <1>0, <1>4 DEF Notify, RTKeeps, RTStates
  <2>2. QED
    BY <1>0, <2>1
<1>5. CASE ProcessRTEvents
  <2>1. /\ rt.pc = "idle" /\ rt'.pc = "drain"
        /\ UNCHANGED <<countVars, timeVars, queueVars, dispatched, carried,
                       wasReset, m_initialized, ui>>
    BY <1>0, <1>5 DEF ProcessRTEvents, RTKeeps, RTStates
  <2>2. QED
    BY <1>0, <2>1
<1>6. CASE RTDrain
  <2>1. CASE rt' = Idle /\ UNCHANGED <<m_uiToRtQueue, dispatched>>
    <3>1. rt.pc = "drain" /\ rt'.pc = "idle"
      BY <1>6, <2>1 DEF RTDrain, Idle
    <3>2. UNCHANGED <<countVars, timeVars, queueVars, carried, wasReset, m_initialized, ui>>
      BY <1>6, <2>1 DEF RTDrain, RTKeeps, queueVars
    <3>3. QED
      BY <1>0, <2>1, <3>1, <3>2
  <2>2. CASE /\ m_uiToRtQueue # << >> /\ m_uiToRtQueue' = Tail(m_uiToRtQueue)
             /\ dispatched' = dispatched + 1
             /\ rt' = [rt EXCEPT !.pc = "observe", !.event = dispatched + 1,
                                 !.left = m_rtObservers, !.count = @ + 1]
    <3>1. rt.pc = "drain" /\ rt'.pc = "observe" /\ rt'.event = dispatched'
      BY <1>0, <1>6, <2>2 DEF RTDrain, RTStates
    <3>2. Len(m_uiToRtQueue') = Len(m_uiToRtQueue) - 1
      BY <2>2, QueueLengths DEF CInv, Types
    <3>3. UNCHANGED <<countVars, timeVars, m_rtToUiQueue, carried, wasReset, m_initialized, ui>>
      BY <1>6 DEF RTDrain, RTKeeps
    <3>4. CountsAreCovered'
      <4>1. dispatched' + Len(m_uiToRtQueue') <= MaxEvents
        BY <1>0, <2>2, <3>2
      <4>2. m_rtEventsProcessed' + One(rt'.pc \in {"observe", "count"}) <= dispatched'
        BY <1>0, <2>2, <3>1, <3>3
      <4>3. m_rtEventsDropped' + One(rt'.pc = "observe") <= dispatched'
        BY <1>0, <2>2, <3>1, <3>3
      <4>4. m_uiEventsProcessed' + One(ui'.pc = "observe") + Len(m_rtToUiQueue')
              + One(rt'.pc = "observe") <= dispatched'
        BY <1>0, <2>2, <3>1, <3>3
      <4>5. QED
        BY <3>1, <4>1, <4>2, <4>3, <4>4
    <3>5. EveryEventIsAccounted' /\ TimesAreCovered'
      BY <1>0, <2>2, <3>1, <3>3
    <3>6. QED
      BY <3>4, <3>5
  <2>3. QED
    BY <1>6, <2>1, <2>2 DEF RTDrain
<1>7. CASE RTObserve
  <2>1. /\ rt.pc = "observe" /\ rt'.pc = "observe" /\ rt'.event = rt.event
        /\ UNCHANGED <<countVars, timeVars, queueVars, dispatched, carried,
                       wasReset, m_initialized, ui>>
    BY <1>0, <1>7 DEF RTObserve, RTKeeps, RTStates
  <2>2. QED
    BY <1>0, <2>1
<1>8. CASE RTEnqueue
  <2>1. /\ rt.pc = "observe" /\ rt'.pc = "count"
        /\ Len(m_rtToUiQueue') = Len(m_rtToUiQueue) + 1 /\ UNCHANGED m_uiToRtQueue
        /\ UNCHANGED <<countVars, timeVars, dispatched, carried, wasReset, m_initialized, ui>>
    BY <1>0, <1>8, QueueLengths, Room DEF RTEnqueue, RTKeeps, RTStates, CInv, Types
  <2>2. QED
    BY <1>0, <2>1
<1>9. CASE RTDrop
  <2>1. /\ rt.pc = "observe" /\ rt'.pc = "count"
        /\ m_rtEventsDropped' = m_rtEventsDropped + 1
        /\ UNCHANGED <<m_rtEventsProcessed, m_uiEventsProcessed>>
        /\ UNCHANGED <<timeVars, queueVars, dispatched, carried, wasReset, m_initialized, ui>>
    BY <1>0, <1>9 DEF RTDrop, RTKeeps, RTStates
  <2>2. QED
    BY <1>0, <2>1
<1>10. CASE RTCount
  <2>1. /\ rt.pc = "count" /\ rt'.pc = "last"
        /\ m_rtEventsProcessed' = m_rtEventsProcessed + 1
        /\ UNCHANGED <<m_rtEventsDropped, m_uiEventsProcessed>>
        /\ UNCHANGED <<timeVars, queueVars, dispatched, carried, wasReset, m_initialized, ui>>
    BY <1>0, <1>10 DEF RTCount, RTKeeps, RTStates
  <2>2. QED
    BY <1>0, <2>1
<1>11. CASE RTLast
  <2>1. /\ rt.pc = "last" /\ rt'.pc = "max" /\ rt'.time = rt.time
        /\ m_lastRTProcessingTimeUs' = rt.time
        /\ UNCHANGED <<countVars, queueVars, dispatched, carried, wasReset, m_initialized, ui>>
    BY <1>0, <1>11 DEF RTLast, RTKeeps, RTStates
  <2>2. QED
    BY <1>0, <2>1
<1>12. CASE RTMax
  <2>1. /\ rt.pc = "max" /\ rt'.pc \in {"idle", "drain"}
        /\ m_maxRTProcessingTimeUs' \in Nat /\ m_maxRTProcessingTimeUs' >= rt.time
        /\ UNCHANGED m_lastRTProcessingTimeUs
        /\ UNCHANGED <<countVars, queueVars, dispatched, carried, wasReset, m_initialized, ui>>
    BY <1>0, <1>12 DEF RTMax, RTKeeps, RTStates, Idle
  <2>2. CountsAreCovered'
    BY <1>0, <2>1
  <2>3. EveryEventIsAccounted'
    BY <1>0, <2>1
  <2>4. TimesAreCovered'
    BY <1>0, <2>1
  <2>5. QED
    BY <2>2, <2>3, <2>4
<1>13. CASE ProcessUIEvents
  <2>1. /\ ui.pc = "idle" /\ ui'.pc = "drain"
        /\ UNCHANGED countVars
        /\ UNCHANGED <<timeVars, queueVars, dispatched, carried, wasReset, m_initialized, rt>>
    BY <1>0, <1>13 DEF ProcessUIEvents, UIKeeps, UIStates, countVars
  <2>2. QED
    BY <1>0, <2>1
<1>14. CASE UIDrain
  <2>0. /\ UNCHANGED <<countVars, timeVars, m_uiToRtQueue, dispatched, carried, wasReset,
                       m_initialized, rt>>
        /\ ui.pc = "drain"
    BY <1>14 DEF UIDrain, UIKeeps, countVars
  <2>1. CASE ui' = [ui EXCEPT !.pc = "idle", !.count = 0] /\ UNCHANGED m_rtToUiQueue
    <3>1. ui'.pc = "idle"
      BY <1>0, <2>1 DEF UIStates
    <3>2. QED
      BY <1>0, <2>0, <2>1, <3>1
  <2>2. CASE /\ m_rtToUiQueue # << >> /\ m_rtToUiQueue' = Tail(m_rtToUiQueue)
             /\ ui' = [ui EXCEPT !.pc = "observe", !.event = Head(m_rtToUiQueue)]
    <3>1. ui'.pc = "observe" /\ Len(m_rtToUiQueue') = Len(m_rtToUiQueue) - 1
      BY <1>0, <2>2, QueueLengths DEF CInv, Types, UIStates
    <3>2. QED
      BY <1>0, <2>0, <2>2, <3>1
  <2>3. QED
    BY <1>14, <2>1, <2>2 DEF UIDrain
<1>15. CASE UIObserve
  <2>1. /\ ui.pc = "observe" /\ ui'.pc = "drain"
        /\ m_uiEventsProcessed' = m_uiEventsProcessed + 1
        /\ UNCHANGED <<m_rtEventsProcessed, m_rtEventsDropped>>
        /\ UNCHANGED <<timeVars, queueVars, dispatched, carried, wasReset, m_initialized, rt>>
    BY <1>0, <1>15 DEF UIObserve, UIKeeps, UIStates
  <2>2. QED
    BY <1>0, <2>1
<1>16. CASE ResetTimes
  <2>1. /\ UNCHANGED <<m_rtEventsProcessed, m_uiEventsProcessed, m_rtEventsDropped>>
        /\ \/ ui.pc = "resetmax" /\ ui'.pc = "resetlast" /\ UNCHANGED m_lastRTProcessingTimeUs
           \/ ui.pc = "resetlast" /\ ui'.pc = "idle"
              /\ UNCHANGED m_maxRTProcessingTimeUs /\ m_lastRTProcessingTimeUs' = 0
        /\ UNCHANGED <<queueVars, dispatched, carried, wasReset, m_initialized, rt>>
    BY <1>0, <1>16 DEF ResetTimes, UIKeeps, UIStates
  <2>2. CountsAreCovered'
    BY <1>0, <2>1
  <2>3. EveryEventIsAccounted'
    BY <1>0, <2>1
  <2>4. TimesAreCovered'
    BY <1>0, <2>1
  <2>5. QED
    BY <2>2, <2>3, <2>4
<1>17. CASE SendToRTThread
  <2>1. /\ dispatched + Len(m_uiToRtQueue) < MaxEvents
        /\ Len(m_uiToRtQueue') = Len(m_uiToRtQueue) + 1
        /\ UNCHANGED <<m_rtToUiQueue, m_rtEventsProcessed, m_uiEventsProcessed, m_rtEventsDropped>>
        /\ UNCHANGED <<timeVars, dispatched, carried, wasReset, m_initialized, rt, ui>>
    BY <1>0, <1>17, QueueLengths DEF SendToRTThread, UIKeeps, CInv, Types
  <2>2. CountsAreCovered'
    <3>1. dispatched' + Len(m_uiToRtQueue') <= MaxEvents
      BY <1>0, <2>1
    <3>2. m_rtEventsProcessed' + One(rt'.pc \in {"observe", "count"}) <= dispatched'
      BY <1>0, <2>1
    <3>3. m_rtEventsDropped' + One(rt'.pc = "observe") <= dispatched'
      BY <1>0, <2>1
    <3>4. m_uiEventsProcessed' + One(ui'.pc = "observe") + Len(m_rtToUiQueue')
            + One(rt'.pc = "observe") <= dispatched'
      BY <1>0, <2>1
    <3>5. rt'.pc = "observe" => rt'.event = dispatched'
      BY <1>0, <2>1
    <3>6. QED
      BY <3>1, <3>2, <3>3, <3>4, <3>5
  <2>3. EveryEventIsAccounted'
    BY <1>0, <2>1
  <2>4. TimesAreCovered'
    BY <1>0, <2>1
  <2>5. QED
    BY <2>2, <2>3, <2>4
<1>18. CASE ResetStatistics
  <2>1. /\ ui.pc = "idle" /\ ui'.pc = "resetmax" /\ wasReset'
        /\ m_rtEventsProcessed' = 0 /\ m_uiEventsProcessed' = 0 /\ m_rtEventsDropped' = 0
        /\ UNCHANGED <<timeVars, queueVars, dispatched, rt>>
    BY <1>0, <1>18 DEF ResetStatistics, UIStates
  <2>2. QED
    BY <1>0, <2>1
<1>19. CASE UNCHANGED vars
  BY <1>0, <1>19 DEF vars, historyVars
<1>20. QED
  BY <1>1, <1>2, <1>3, <1>4, <1>5, <1>6, <1>7, <1>8, <1>9, <1>10, <1>11, <1>12, <1>13,
     <1>14, <1>15, <1>16, <1>17, <1>18, <1>19
     DEF Next, Setup, RTWork, UIWork

LEMMA CInvariance == Spec => []CInv
<1>1. CInv /\ [Next]_vars => CInv'
  BY RTStep, UIStep, QueuesStep, ObserversStep, NumbersStep, CountsStep DEF CInv, Types
<1>2. QED
  BY <1>1, InitCInv, PTL DEF Spec
-------------------------------------------------------------------------------
(***************************************************************************)
(* Part two: who has seen what.  While an event is with the RT observers,  *)
(* those in front have seen it and the rest, which is rt.left, the one     *)
(* before; at any other time all have seen the last one, and no event is   *)
(* on its way to the UI observers that the RT thread is not done with.     *)
(***************************************************************************)
Total == Len(m_rtObservers)
Told  == Total - Len(rt.left)
Done  == IF rt.pc = "observe" THEN dispatched - 1 ELSE dispatched

Sorted ==
  \A i, j \in 1 .. Total :
    i < j => /\ m_rtObservers[i] # m_rtObservers[j]
             /\ Priority[m_rtObservers[i]] >= Priority[m_rtObservers[j]]

LeftIsRest ==
  rt.pc = "observe" =>
    Told >= 0 /\ \A i \in 1 .. Len(rt.left) : rt.left[i] = m_rtObservers[Told + i]

\* What an observer has seen when all events up to e have been shown to it.
HasSeen(o, e) == seenBy[o] <= e /\ (e > before => seenBy[o] = e)

SeenInOrder ==
  \A i \in 1 .. Total :
    HasSeen(m_rtObservers[i], IF rt.pc = "observe" /\ i <= Told THEN dispatched ELSE Done)

NoneIsAhead ==
  /\ \A o \in RTObservers : seenBy[o] <= dispatched
  /\ before <= Done

OnTheirWay ==
  /\ \A i \in 1 .. Len(m_rtToUiQueue) : m_rtToUiQueue[i] <= Done
  /\ ui.pc = "observe" => ui.event <= Done

OInv == Sorted /\ LeftIsRest /\ SeenInOrder /\ NoneIsAhead /\ OnTheirWay

\* What the steps below need of the types.
LEMMA Shapes ==
  ASSUME CInv
  PROVE  /\ rt \in RTStates /\ ui \in UIStates /\ rt.left \in Seq(RTObservers)
         /\ m_rtObservers \in Seq(RTObservers) /\ Total \in Nat /\ Len(rt.left) \in Nat
         /\ \A i \in 1 .. Total : m_rtObservers[i] \in RTObservers
         /\ seenBy \in [RTObservers -> Nat] /\ dispatched \in Nat /\ before \in Nat
         /\ m_rtToUiQueue \in Seq(1 .. MaxEvents) /\ Len(m_rtToUiQueue) \in Nat
         /\ \A i \in 1 .. Len(m_rtToUiQueue) : m_rtToUiQueue[i] \in Nat
         /\ ui.event \in Nat
         /\ rt.pc = "observe" => rt.event = dispatched
<1>1. rt \in RTStates /\ ui \in UIStates /\ Observers /\ Queues /\ Numbers /\ CountsAreCovered
  BY DEF CInv, Types
<1>2. rt.left \in Seq(RTObservers) /\ m_rtObservers \in Seq(RTObservers)
  BY <1>1 DEF RTStates, Observers
<1>3. Total \in Nat /\ Len(rt.left) \in Nat
  BY <1>2, LenProperties DEF Total
<1>4. \A i \in 1 .. Total : m_rtObservers[i] \in RTObservers
  BY <1>2, ElementOfSeq DEF Total
<1>5. m_rtToUiQueue \in Seq(1 .. MaxEvents) /\ Len(m_rtToUiQueue) \in Nat
  BY <1>1, QueueLengths DEF Queues
<1>6. \A i \in 1 .. Len(m_rtToUiQueue) : m_rtToUiQueue[i] \in 1 .. MaxEvents
  BY <1>5, ElementOfSeq
<1>7. \A n \in 0 .. MaxEvents : n \in Nat
  OBVIOUS
<1>8. ui.event \in Nat
  BY <1>1, <1>7 DEF UIStates
<1>9. QED
  BY <1>1, <1>2, <1>3, <1>4, <1>5, <1>6, <1>7, <1>8 DEF Observers, Numbers, CountsAreCovered

\* An event is taken up, of the RT thread's own or from the queue.
LEMMA Begin ==
  ASSUME CInv, OInv, rt.pc # "observe", rt'.pc = "observe", rt'.left = m_rtObservers,
         dispatched' = dispatched + 1,
         UNCHANGED <<m_rtObservers, seenBy, before, m_rtToUiQueue, ui>>
  PROVE  OInv'
<1>0. /\ Total \in Nat /\ dispatched \in Nat /\ before \in Nat
      /\ seenBy \in [RTObservers -> Nat]
      /\ \A i \in 1 .. Total : m_rtObservers[i] \in RTObservers
  BY Shapes
<1>1. Done = dispatched /\ Done' = dispatched /\ Told' = 0 /\ Total' = Total
  BY <1>0 DEF Done, Told, Total
<1>2. Sorted' /\ LeftIsRest'
  BY <1>0, <1>1 DEF OInv, Sorted, LeftIsRest, Told, Total
<1>3. SeenInOrder'
  BY <1>0, <1>1 DEF OInv, SeenInOrder, HasSeen
<1>4. NoneIsAhead'
  BY <1>0, <1>1 DEF OInv, NoneIsAhead
<1>5. OnTheirWay'
  BY <1>1 DEF OInv, OnTheirWay
<1>6. QED
  BY <1>2, <1>3, <1>4, <1>5 DEF OInv

\* The next observer is told.
LEMMA Tell ==
  ASSUME CInv, OInv, RTObserve
  PROVE  OInv'
<1>0. /\ Total \in Nat /\ dispatched \in Nat /\ before \in Nat /\ rt.event = dispatched
      /\ seenBy \in [RTObservers -> Nat] /\ rt.left \in Seq(RTObservers)
      /\ Len(rt.left) \in Nat
      /\ \A i \in 1 .. Total : m_rtObservers[i] \in RTObservers
  BY Shapes DEF RTObserve
<1>1. /\ rt.pc = "observe" /\ rt'.pc = "observe" /\ rt'.left = Tail(rt.left)
      /\ seenBy' = [seenBy EXCEPT ![Head(rt.left)] = dispatched]
      /\ UNCHANGED <<m_rtObservers, dispatched, before, m_rtToUiQueue, ui>>
  BY <1>0, Shapes DEF RTObserve, RTKeeps, RTStates, observerVars, queueVars
<1>2. rt.left # << >> /\ Len(rt.left) >= 1
  BY <1>0, EmptySeq DEF RTObserve
<1>3. /\ Head(rt.left) = rt.left[1] /\ Len(Tail(rt.left)) = Len(rt.left) - 1
      /\ \A i \in 1 .. Len(Tail(rt.left)) : Tail(rt.left)[i] = rt.left[i + 1]
  BY <1>0, <1>2, HeadTailProperties
<1>4. Told' = Told + 1 /\ Total' = Total /\ Done' = Done /\ Done = dispatched - 1
      /\ Told \in Nat /\ Told + 1 \in 1 .. Total
  <2>1. Told = Total - Len(rt.left) /\ Told >= 0
    BY <1>1 DEF OInv, LeftIsRest, Told
  <2>2. Told \in Nat /\ Told + 1 \in 1 .. Total
    BY <1>0, <1>2, <2>1
  <2>3. Total' = Total
    BY <1>1 DEF Total
  <2>4. Told' = Total - Len(Tail(rt.left))
    BY <1>1, <2>3 DEF Told
  <2>5. Told' = Told + 1
    <3> DEFINE t == Total
               l == Len(rt.left)
    <3>1. t \in Nat /\ l \in Nat
      BY <1>0
    <3>2. Told' = t - (l - 1)
      BY <1>3, <2>4
    <3>3. Told = t - l
      BY <2>1
    <3> HIDE DEF t, l
    <3>4. QED
      BY <3>1, <3>2, <3>3
  <2>6. Done' = Done /\ Done = dispatched - 1
    BY <1>1 DEF Done
  <2>7. QED
    BY <2>2, <2>3, <2>5, <2>6
<1>5. Head(rt.left) = m_rtObservers[Told + 1]
  BY <1>0, <1>1, <1>2, <1>3 DEF OInv, LeftIsRest
<1>6. Sorted'
  BY <1>1, <1>4 DEF OInv, Sorted
<1>7. LeftIsRest'
  <2> SUFFICES ASSUME NEW i \in 1 .. Len(Tail(rt.left))
               PROVE  Tail(rt.left)[i] = m_rtObservers[Told + 1 + i]
    BY <1>1, <1>4 DEF LeftIsRest
  <2>1. i + 1 \in 1 .. Len(rt.left) /\ i \in Nat
    BY <1>0, <1>3
  <2>2. rt.left[i + 1] = m_rtObservers[Told + (i + 1)]
    BY <1>1, <2>1 DEF OInv, LeftIsRest
  <2>3. Told + (i + 1) = Told + 1 + i
    BY <1>4, <2>1
  <2>4. QED
    BY <1>3, <2>2, <2>3
<1>8. SeenInOrder'
  <2> SUFFICES ASSUME NEW i \in 1 .. Total
               PROVE  LET e == IF i <= Told + 1 THEN dispatched ELSE dispatched - 1
                      IN  /\ seenBy'[m_rtObservers[i]] <= e
                          /\ e > before => seenBy'[m_rtObservers[i]] = e
    BY <1>1, <1>4 DEF SeenInOrder, HasSeen
  <2>1. CASE i = Told + 1
    <3>1. seenBy'[m_rtObservers[i]] = dispatched
      BY <1>0, <1>1, <1>5, <2>1
    <3>2. i <= Told + 1
      BY <1>4, <2>1
    <3>3. QED
      BY <1>0, <3>1, <3>2
  <2>2. CASE i # Told + 1
    <3>1. m_rtObservers[i] # m_rtObservers[Told + 1]
      BY <1>4, <2>2 DEF OInv, Sorted
    <3>2. seenBy'[m_rtObservers[i]] = seenBy[m_rtObservers[i]]
      BY <1>0, <1>1, <1>5, <3>1
    <3>3. LET e == IF i <= Told THEN dispatched ELSE dispatched - 1
          IN  /\ seenBy[m_rtObservers[i]] <= e
              /\ e > before => seenBy[m_rtObservers[i]] = e
      BY <1>1, <1>4 DEF OInv, SeenInOrder, HasSeen
    <3>4. i <= Told <=> i <= Told + 1
      BY <1>4, <2>2
    <3>5. QED
      BY <3>2, <3>3, <3>4
  <2>3. QED
    BY <2>1, <2>2
<1>9. NoneIsAhead'
  BY <1>0, <1>1, <1>4 DEF OInv, NoneIsAhead
<1>10. OnTheirWay'
  BY <1>1, <1>4 DEF OInv, OnTheirWay
<1>11. QED
  BY <1>6, <1>7, <1>8, <1>9, <1>10 DEF OInv

\* The event leaves the hands of the RT thread: all have been told.
LEMMA Finish ==
  ASSUME CInv, OInv, rt.pc = "observe", rt.left = << >>, rt'.pc = "count",
         \/ UNCHANGED m_rtToUiQueue
         \/ m_rtToUiQueue' = Append(m_rtToUiQueue, rt.event),
         UNCHANGED <<m_rtObservers, seenBy, before, dispatched, ui>>
  PROVE  OInv'
<1>0. /\ Total \in Nat /\ dispatched \in Nat /\ before \in Nat /\ rt.event = dispatched
      /\ seenBy \in [RTObservers -> Nat] /\ m_rtToUiQueue \in Seq(1 .. MaxEvents)
      /\ Len(m_rtToUiQueue) \in Nat /\ ui.event \in Nat
      /\ \A i \in 1 .. Len(m_rtToUiQueue) : m_rtToUiQueue[i] \in Nat
      /\ \A i \in 1 .. Total : m_rtObservers[i] \in RTObservers
  BY Shapes
<1>1. Done = dispatched - 1 /\ Done' = dispatched /\ Total' = Total
  BY DEF Done, Total
<1>2. Told = Total
  <2>1. Len(rt.left) = 0
    BY EmptySeq
  <2>2. QED
    BY <1>0, <2>1 DEF Told
<1>3. Sorted' /\ LeftIsRest'
  BY <1>1 DEF OInv, Sorted, LeftIsRest
<1>4. SeenInOrder'
  <2> SUFFICES ASSUME NEW i \in 1 .. Total
               PROVE  HasSeen(m_rtObservers[i], dispatched)
    BY <1>1 DEF SeenInOrder, HasSeen
  <2>1. i <= Told
    BY <1>0, <1>2
  <2>2. QED
    BY <2>1 DEF OInv, SeenInOrder
<1>5. NoneIsAhead'
  BY <1>0, <1>1 DEF OInv, NoneIsAhead
<1>6. OnTheirWay'
  <2>1. ui'.pc = "observe" => ui'.event <= dispatched
    BY <1>0, <1>1 DEF OInv, OnTheirWay
  <2>2. \A i \in 1 .. Len(m_rtToUiQueue) : m_rtToUiQueue[i] <= dispatched
    <3>1. \A i \in 1 .. Len(m_rtToUiQueue) : m_rtToUiQueue[i] <= dispatched - 1
      BY <1>1 DEF OInv, OnTheirWay
    <3>2. QED
      BY <1>0, <3>1
  <2>3. \A i \in 1 .. Len(m_rtToUiQueue') : m_rtToUiQueue'[i] <= dispatched
    <3>1. CASE UNCHANGED m_rtToUiQueue
      BY <2>2, <3>1
    <3>2. CASE m_rtToUiQueue' = Append(m_rtToUiQueue, dispatched)
      <4>1. dispatched \in 1 .. MaxEvents
        BY <1>0, Room
      <4>2. /\ Len(m_rtToUiQueue') = Len(m_rtToUiQueue) + 1
            /\ \A i \in 1 .. Len(m_rtToUiQueue) : m_rtToUiQueue'[i] = m_rtToUiQueue[i]
            /\ m_rtToUiQueue'[Len(m_rtToUiQueue) + 1] = dispatched
        BY <1>0, <3>2, <4>1, AppendProperties
      <4> SUFFICES ASSUME NEW i \in 1 .. Len(m_rtToUiQueue) + 1
                   PROVE  m_rtToUiQueue'[i] <= dispatched
        BY <4>2
      <4>3. CASE i = Len(m_rtToUiQueue) + 1
        BY <1>0, <4>2, <4>3
      <4>4. CASE i \in 1 .. Len(m_rtToUiQueue)
        BY <2>2, <4>2, <4>4
      <4>5. QED
        BY <1>0, <4>3, <4>4
    <3>3. QED
      BY <1>0, <3>1, <3>2
  <2>4. QED
    BY <1>1, <2>1, <2>3 DEF OnTheirWay
<1>7. QED
  BY <1>3, <1>4, <1>5, <1>6 DEF OInv

\* The UI thread takes the oldest event out of the queue.
LEMMA Take ==
  ASSUME CInv, OInv, m_rtToUiQueue # << >>, m_rtToUiQueue' = Tail(m_rtToUiQueue),
         ui'.event = Head(m_rtToUiQueue),
         UNCHANGED <<m_rtObservers, seenBy, before, dispatched, rt>>
  PROVE  OInv'
<1>1. m_rtToUiQueue \in Seq(1 .. MaxEvents) /\ Len(m_rtToUiQueue) \in Nat
  BY Shapes
<1>2. /\ Head(m_rtToUiQueue) = m_rtToUiQueue[1] /\ Len(m_rtToUiQueue) >= 1
      /\ Len(Tail(m_rtToUiQueue)) = Len(m_rtToUiQueue) - 1
      /\ \A i \in 1 .. Len(Tail(m_rtToUiQueue)) : Tail(m_rtToUiQueue)[i] = m_rtToUiQueue[i + 1]
  BY <1>1, HeadTailProperties, EmptySeq
<1>3. Done' = Done /\ Told' = Told /\ Total' = Total
  BY DEF Done, Told, Total
<1>4. Sorted' /\ LeftIsRest' /\ SeenInOrder' /\ NoneIsAhead'
  BY <1>3 DEF OInv, Sorted, LeftIsRest, SeenInOrder, HasSeen, NoneIsAhead
<1>5. \A i \in 1 .. Len(m_rtToUiQueue) : m_rtToUiQueue[i] <= Done
  BY DEF OInv, OnTheirWay
<1>6. ui'.event <= Done
  BY <1>1, <1>2, <1>5
<1>7. \A i \in 1 .. Len(m_rtToUiQueue') : m_rtToUiQueue'[i] <= Done
  <2> SUFFICES ASSUME NEW i \in 1 .. Len(Tail(m_rtToUiQueue))
               PROVE  Tail(m_rtToUiQueue)[i] <= Done
    OBVIOUS
  <2>1. i + 1 \in 1 .. Len(m_rtToUiQueue)
    BY <1>1, <1>2
  <2>2. QED
    BY <1>2, <1>5, <2>1
<1>8. QED
  BY <1>3, <1>4, <1>6, <1>7 DEF OInv, OnTheirWay

\* The distributor is quiet, and its observers are others than before.
LEMMA Anew ==
  ASSUME CInv, OInv, Quiet, m_rtObservers' = << >>, before' \in {before, dispatched},
         UNCHANGED <<seenBy, dispatched, m_rtToUiQueue, rt, ui>>
  PROVE  OInv'
<1>1. Total' = 0 /\ Done' = Done /\ Done = dispatched /\ dispatched \in Nat
  BY Shapes, EmptySeq DEF Total, Done, Quiet
<1>2. Sorted' /\ LeftIsRest' /\ SeenInOrder'
  BY <1>1 DEF Sorted, LeftIsRest, SeenInOrder, Quiet
<1>3. NoneIsAhead' /\ OnTheirWay'
  BY <1>1 DEF OInv, NoneIsAhead, OnTheirWay
<1>4. QED
  BY <1>2, <1>3 DEF OInv

\* A new observer has seen nothing that was dispatched since initialize().
LEMMA Join ==
  ASSUME CInv, OInv, NEW o \in RTObservers, AddRTObserver(o)
  PROVE  OInv'
<1>0. /\ dispatched \in Nat /\ seenBy \in [RTObservers -> Nat] /\ Total \in Nat
      /\ \A i \in 1 .. Total : m_rtObservers[i] \in RTObservers
      /\ dispatched = before /\ rt.pc = "idle"
      /\ UNCHANGED <<dispatched, seenBy, before, rt, ui, m_rtToUiQueue>>
  BY Shapes DEF AddRTObserver, Startup, Quiet, historyVars, queueVars
<1>1. Done' = Done /\ Done = dispatched
  BY <1>0 DEF Done
<1>2. /\ m_rtObservers' \in [1 .. Total + 1 -> RTObservers]
      /\ Total' = Total + 1
      /\ Sorted'
  <2>1. DOMAIN m_rtObservers = 1 .. Total
    BY Shapes, LenProperties DEF Total
  <2>2. RTObserverSet \cup {o} \subseteq RTObservers
    BY <1>0, <2>1 DEF RTObserverSet
  <2>3. /\ m_rtObservers' \in [1 .. Total + 1 -> RTObservers]
        /\ \A i, j \in DOMAIN m_rtObservers' :
             i < j => /\ m_rtObservers'[i] # m_rtObservers'[j]
                      /\ Priority[m_rtObservers'[i]] >= Priority[m_rtObservers'[j]]
    BY <2>2 DEF AddRTObserver, Total
  <2>4. DOMAIN m_rtObservers' = 1 .. Total + 1
    BY <2>3
  <2>5. m_rtObservers' \in Seq(RTObservers)
    BY <1>0, <2>3, SeqDef
  <2>6. Len(m_rtObservers') = Total + 1
    BY <1>0, <2>4, <2>5, LenProperties
  <2>7. Total' = Total + 1
    BY <2>6 DEF Total
  <2>8. QED
    BY <2>3, <2>4, <2>7 DEF Sorted
<1>3. LeftIsRest'
  BY <1>0 DEF LeftIsRest
<1>4. SeenInOrder'
  <2> SUFFICES ASSUME NEW i \in 1 .. Total + 1
               PROVE  /\ seenBy[m_rtObservers'[i]] <= dispatched
                      /\ dispatched > dispatched => FALSE
    BY <1>0, <1>1, <1>2 DEF SeenInOrder, HasSeen
  <2>1. m_rtObservers'[i] \in RTObservers
    BY <1>2
  <2>2. QED
    BY <1>0, <2>1 DEF OInv, NoneIsAhead
<1>5. NoneIsAhead' /\ OnTheirWay'
  BY <1>0, <1>1 DEF OInv, NoneIsAhead, OnTheirWay
<1>6. QED
  BY <1>2, <1>3, <1>4, <1>5 DEF OInv

\* Nothing else touches what the invariant is about.
LEMMA Elsewhere ==
  ASSUME CInv, OInv, UNCHANGED <<m_rtObservers, seenBy, before, dispatched, m_rtToUiQueue>>,
         rt' = rt \/ (rt.pc # "observe" /\ rt'.pc # "observe"),
         ui' = ui \/ ui'.pc # "observe"
  PROVE  OInv'
<1>1. Done' = Done /\ Total' = Total
  BY DEF Done, Total
<1>2. Sorted' /\ NoneIsAhead'
  BY <1>1 DEF OInv, Sorted, NoneIsAhead
<1>3. LeftIsRest' /\ SeenInOrder'
  <2>1. CASE rt' = rt
    <3>1. Told' = Told
      BY <1>1, <2>1 DEF Told
    <3>2. QED
      BY <1>1, <2>1, <3>1 DEF OInv, LeftIsRest, SeenInOrder, HasSeen
  <2>2. CASE rt.pc # "observe" /\ rt'.pc # "observe"
    BY <1>1, <2>2 DEF OInv, LeftIsRest, SeenInOrder, HasSeen
  <2>3. QED
    BY <2>1, <2>2
<1>4. OnTheirWay'
  BY <1>1 DEF OInv, OnTheirWay
<1>5. QED
  BY <1>2, <1>3, <1>4 DEF OInv

\* It holds at the start, when there are no observers and no events.
LEMMA InitOInv == Init => OInv
<1> SUFFICES ASSUME Init PROVE OInv
  OBVIOUS
<1>1. rt.pc = "idle" /\ ui.pc = "idle"
  BY DEF Init, Idle
<1>2. /\ dispatched = 0 /\ before = 0 /\ Total = 0 /\ Len(m_rtToUiQueue) = 0
      /\ seenBy = [o \in RTObservers |-> 0]
  BY EmptySeq DEF Init, Total
<1>3. QED
  BY <1>1, <1>2
     DEF OInv, Sorted, LeftIsRest, SeenInOrder, NoneIsAhead, OnTheirWay, Done

\* Every step keeps who has seen what.
LEMMA OStep == CInv /\ OInv /\ [Next]_vars => OInv'
<1> SUFFICES ASSUME CInv, OInv, [Next]_vars PROVE OInv'
  OBVIOUS
<1>0. rt \in RTStates /\ ui \in UIStates
  BY Shapes
<1> USE DEF queueVars, observerVars, historyVars
<1>1. CASE Initialize \/ Shutdown
  BY <1>1, Anew DEF Initialize, Shutdown
<1>2. ASSUME NEW o \in RTObservers, AddRTObserver(o) PROVE OInv'
  BY <1>2, Join
<1>3. ASSUME NEW o \in UIObservers, AddUIObserver(o) PROVE OInv'
  BY <1>3, Elsewhere DEF AddUIObserver
<1>4. CASE Notify
  <2>1. rt.pc # "observe" /\ rt'.pc = "observe" /\ rt'.left = m_rtObservers
    BY <1>0, <1>4 DEF Notify, RTStates
  <2>2. QED
    BY <1>4, <2>1, Begin DEF Notify, RTKeeps
<1>5. CASE ProcessRTEvents
  <2>1. rt.pc # "observe" /\ rt'.pc # "observe"
    BY <1>0, <1>5 DEF ProcessRTEvents, RTStates
  <2>2. QED
    BY <1>5, <2>1, Elsewhere DEF ProcessRTEvents, RTKeeps
<1>6. CASE RTDrain
  <2>0. /\ rt.pc = "drain"
        /\ UNCHANGED <<m_rtObservers, seenBy, before, m_rtToUiQueue, ui>>
    BY <1>6 DEF RTDrain, RTKeeps
  <2>1. CASE rt' = Idle /\ UNCHANGED dispatched
    <3>1. rt'.pc # "observe"
      BY <2>1 DEF Idle
    <3>2. QED
      BY <2>0, <2>1, <3>1, Elsewhere
  <2>2. CASE /\ dispatched' = dispatched + 1
             /\ rt' = [rt EXCEPT !.pc = "observe", !.event = dispatched + 1,
                                 !.left = m_rtObservers, !.count = @ + 1]
    <3>1. rt'.pc = "observe" /\ rt'.left = m_rtObservers
      BY <1>0, <2>2 DEF RTStates
    <3>2. QED
      BY <2>0, <2>2, <3>1, Begin
  <2>3. QED
    BY <1>6, <2>1, <2>2 DEF RTDrain
<1>7. CASE RTObserve
  BY <1>7, Tell
<1>8. CASE RTEnqueue \/ RTDrop
  <2>1. rt.pc = "observe" /\ rt.left = << >> /\ rt'.pc = "count"
    BY <1>0, <1>8 DEF RTEnqueue, RTDrop, RTStates
  <2>2. UNCHANGED m_rtToUiQueue \/ m_rtToUiQueue' = Append(m_rtToUiQueue, rt.event)
    BY <1>8 DEF RTEnqueue, RTDrop
  <2>3. UNCHANGED <<m_rtObservers, seenBy, before, dispatched, ui>>
    BY <1>8 DEF RTEnqueue, RTDrop, RTKeeps
  <2>4. QED
    BY <2>1, <2>2, <2>3, Finish
<1>9. CASE RTCount \/ RTLast \/ RTMax
  <2>1. rt.pc # "observe" /\ rt'.pc # "observe"
    <3>1. CASE RTCount
      BY <1>0, <3>1 DEF RTCount, RTStates
    <3>2. CASE RTLast
      BY <1>0, <3>2 DEF RTLast, RTStates
    <3>3. CASE RTMax
      BY <1>0, <3>3 DEF RTMax, Idle
    <3>4. QED
      BY <1>9, <3>1, <3>2, <3>3
  <2>2. UNCHANGED <<m_rtObservers, seenBy, before, dispatched, m_rtToUiQueue, ui>>
    BY <1>9 DEF RTCount, RTLast, RTMax, RTKeeps
  <2>3. QED
    BY <2>1, <2>2, Elsewhere
<1>10. CASE UIDrain
  <2>0. UNCHANGED <<m_rtObservers, seenBy, before, dispatched, rt>>
    BY <1>10 DEF UIDrain, UIKeeps
  <2>1. CASE ui' = [ui EXCEPT !.pc = "idle", !.count = 0] /\ UNCHANGED m_rtToUiQueue
    <3>1. ui'.pc # "observe"
      BY <1>0, <2>1 DEF UIStates
    <3>2. QED
      BY <2>0, <2>1, <3>1, Elsewhere
  <2>2. CASE /\ m_rtToUiQueue # << >> /\ m_rtToUiQueue' = Tail(m_rtToUiQueue)
             /\ ui' = [ui EXCEPT !.pc = "observe", !.event = Head(m_rtToUiQueue)]
    <3>1. ui'.event = Head(m_rtToUiQueue)
      BY <1>0, <2>2 DEF UIStates
    <3>2. QED
      BY <2>0, <2>2, <3>1, Take
  <2>3. QED
    BY <1>10, <2>1, <2>2 DEF UIDrain
<1>11. CASE ProcessUIEvents \/ UIObserve \/ ResetTimes \/ ResetStatistics
  <2>1. ui'.pc # "observe"
    BY <1>0, <1>11 DEF ProcessUIEvents, UIObserve, ResetTimes, ResetStatistics, UIStates
  <2>2. UNCHANGED <<m_rtObservers, seenBy, before, dispatched, m_rtToUiQueue, rt>>
    BY <1>11 DEF ProcessUIEvents, UIObserve, ResetTimes, ResetStatistics, UIKeeps
  <2>3. QED
    BY <2>1, <2>2, Elsewhere
<1>12. CASE SendToRTThread
  BY <1>12, Elsewhere DEF SendToRTThread, UIKeeps
<1>13. CASE UNCHANGED vars
  BY <1>13, Elsewhere DEF vars
<1>14. QED
  BY <1>1, <1>2, <1>3, <1>4, <1>5, <1>6, <1>7, <1>8, <1>9, <1>10, <1>11, <1>12, <1>13
     DEF Next, Setup, RTWork, UIWork

LEMMA OInvariance == Spec => []OInv
<1>1. CInv /\ OInv /\ [Next]_vars => OInv'
  BY OStep
<1>2. QED
  BY <1>1, InitOInv, CInvariance, PTL DEF Spec
-------------------------------------------------------------------------------
\* At every moment the counters account for every event: what was dispatched is delivered,
\* dropped, queued or in the hands of a thread, no counter exceeds what happened, and a reset
\* that races an event leaves the times in order.
THEOREM CountersRight == Spec => []CountersAgree
<1>1. CInv => CountersAgree
  <2> SUFFICES ASSUME CInv PROVE CountersAgree
    OBVIOUS
  <2>1. EveryEventIsAccounted /\ MaxCoversLast
    BY DEF CInv, TimesAreCovered
  <2>2. {m_rtEventsProcessed, m_uiEventsProcessed, m_rtEventsDropped} \subseteq 0 .. MaxEvents
    <3>1. /\ m_rtEventsProcessed \in Nat /\ m_uiEventsProcessed \in Nat
          /\ m_rtEventsDropped \in Nat /\ Len(m_rtToUiQueue) \in Nat
          /\ dispatched \in Nat /\ dispatched <= MaxEvents /\ MaxEvents \in Nat
      BY Room, QueueLengths, BoundsAssumption DEF CInv, Types, Numbers
    <3>2. m_rtEventsProcessed <= dispatched /\ m_rtEventsDropped <= dispatched
      BY <3>1 DEF CInv, CountsAreCovered, One
    <3>3. m_uiEventsProcessed <= dispatched
      <4> DEFINE u == One(ui.pc = "observe")
                 r == One(rt.pc = "observe")
      <4>1. u \in Nat /\ r \in Nat
        BY DEF One
      <4>2. m_uiEventsProcessed + u + Len(m_rtToUiQueue) + r <= dispatched
        BY DEF CInv, CountsAreCovered
      <4> HIDE DEF u, r
      <4>3. QED
        BY <3>1, <4>1, <4>2
    <3>4. QED
      BY <3>1, <3>2, <3>3
  <2>3. rt \in RTStates /\ ui \in UIStates /\ Queues /\ Observers /\ Numbers
    BY DEF CInv, Types
  <2>4. dispatched \in 0 .. MaxEvents
    BY Room
  <2>5. TypeOK
    BY <2>2, <2>3, <2>4 DEF TypeOK, RTStates, UIStates, Queues, Observers, Numbers
  <2>6. QED
    BY <2>1, <2>5 DEF CountersAgree
<1>2. QED
  BY <1>1, CInvariance, PTL

\* An event reaches the UI's queue, and its observers, only after every RT observer has handled
\* it, and no RT observer is ahead of one with a higher priority.
THEOREM InOrder == Spec => []ObservedInOrder
<1>1. CInv /\ OInv => ObservedInOrder
  <2> SUFFICES ASSUME CInv, OInv PROVE ObservedInOrder
    OBVIOUS
  <2>0. /\ Total \in Nat /\ Len(rt.left) \in Nat /\ dispatched \in Nat /\ before \in Nat
        /\ seenBy \in [RTObservers -> Nat] /\ Len(m_rtToUiQueue) \in Nat
        /\ \A i \in 1 .. Total : m_rtObservers[i] \in RTObservers
        /\ \A i \in 1 .. Len(m_rtToUiQueue) : m_rtToUiQueue[i] \in Nat
        /\ ui.event \in Nat
    BY Shapes
  <2>1. DOMAIN m_rtObservers = 1 .. Total /\ DOMAIN m_rtToUiQueue = 1 .. Len(m_rtToUiQueue)
    BY Shapes, LenProperties DEF Total
  <2>2. \A i \in 1 .. Total :
          LET e == IF rt.pc = "observe" /\ i <= Told THEN dispatched ELSE Done
          IN  /\ seenBy[m_rtObservers[i]] <= e
              /\ e > before => seenBy[m_rtObservers[i]] = e
    BY DEF OInv, SeenInOrder, HasSeen
  <2>3. Done \in Int /\ Done <= dispatched /\ Told \in Int
    BY <2>0 DEF Done, Told
  <2>4. ObservedBeforeQueued
    <3> SUFFICES ASSUME NEW e \in AtUI, e > before, NEW i \in 1 .. Total
                 PROVE  seenBy[m_rtObservers[i]] >= e
      BY <2>1 DEF ObservedBeforeQueued, RTObserverSet
    <3>1. e \in Nat /\ e <= Done
      BY <2>0, <2>1 DEF AtUI, OInv, OnTheirWay
    <3>2. seenBy[m_rtObservers[i]] \in {Done, dispatched}
      BY <2>0, <2>2, <2>3, <3>1
    <3>3. QED
      BY <2>0, <2>3, <3>1, <3>2
  <2>5. HigherPriorityFirst
    <3> SUFFICES ASSUME NEW i \in 1 .. Total, NEW j \in 1 .. Total,
                        Priority[m_rtObservers[i]] > Priority[m_rtObservers[j]],
                        seenBy[m_rtObservers[j]] > before
                 PROVE  seenBy[m_rtObservers[i]] >= seenBy[m_rtObservers[j]]
      BY <2>1 DEF HigherPriorityFirst, RTObserverSet
    <3>1. i < j
      <4>1. /\ Priority[m_rtObservers[i]] \in Int /\ Priority[m_rtObservers[j]] \in Int
        BY <2>0, PriorityAssumption
      <4>2. j < i => Priority[m_rtObservers[j]] >= Priority[m_rtObservers[i]]
        BY DEF OInv, Sorted
      <4>3. QED
        BY <2>0, <4>1, <4>2
    <3>2. seenBy[m_rtObservers[i]] \in Nat /\ seenBy[m_rtObservers[j]] \in Nat
      BY <2>0
    <3>3. CASE rt.pc = "observe" /\ j <= Told
      <4>1. i <= Told
        BY <2>0, <2>3, <3>1, <3>3
      <4>2. QED
        BY <2>0, <2>2, <3>2, <3>3, <4>1
    <3>4. CASE ~(rt.pc = "observe" /\ j <= Told)
      <4>1. seenBy[m_rtObservers[j]] <= Done
        BY <2>2, <3>4
      <4>2. Done > before
        BY <2>0, <2>3, <3>2, <4>1
      <4>3. seenBy[m_rtObservers[i]] \in {Done, dispatched}
        BY <2>0, <2>2, <2>3, <4>2
      <4>4. QED
        BY <2>0, <2>3, <3>2, <4>1, <4>3
    <3>5. QED
      BY <3>3, <3>4
  <2>6. QED
    BY <2>4, <2>5 DEF ObservedInOrder
<1>2. QED
  BY <1>1, CInvariance, OInvariance, PTL
===============================================================================
